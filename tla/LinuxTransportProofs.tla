------------------------- MODULE LinuxTransportProofs -------------------------
(***************************************************************************)
(* Proofs about LinuxTransport, for any commands, sizes of their outputs,  *)
(* lengths of a run and numbers of crashes and rotations.                  *)
(***************************************************************************)
EXTENDS LinuxTransport, SharedLemmas

Part == [job : Job, chunk : Nat]
Event == Seq(Part)

(***************************************************************************)
(* What TypeOK leaves open: what a run has in hand.                        *)
(***************************************************************************)
Typed ==
    /\ TypeOK
    /\ state \in [head : Event, outstanding : Event \cup {None}]
    /\ posts \in Nat
    /\ seen \in [file : Nat, size : Nat]
    /\ batch \in [lines : Seq(Job), upto : [file : Nat, offset : Nat]]

-----------------------------------------------------------------------------
(***************************************************************************)
(* The events of a command: its chunks after the head they continue.       *)
(***************************************************************************)
LEMMA CommandEvents ==
    ASSUME NEW h \in Event, NEW j \in Job, NEW k \in Nat
    PROVE  LET e == h \o ChunksUpTo(j, k) IN
           /\ e \in Event /\ Len(e) = Len(h) + k
           /\ \A i \in 1 .. Len(h) : e[i] = h[i]
           /\ \A i \in 1 .. k : e[Len(h) + i] = Entry(j, i)
<1>1. /\ ChunksUpTo(j, k) \in Seq(Part) /\ Len(ChunksUpTo(j, k)) = k
      /\ \A i \in 1 .. k : ChunksUpTo(j, k)[i] = Entry(j, i)
  BY DEF ChunksUpTo, Entry, Part
<1>2. h \in Seq(Part)
  BY DEF Event
<1>3. ASSUME NEW c \in Seq(Part), Len(c) = k
      PROVE  /\ h \o c \in Seq(Part) /\ Len(h \o c) = Len(h) + k
             /\ \A i \in 1 .. Len(h) : (h \o c)[i] = h[i]
             /\ \A i \in 1 .. k : (h \o c)[Len(h) + i] = c[i]
  BY <1>2, <1>3
<1> QED
  BY <1>1, <1>3 DEF Event

(***************************************************************************)
(* Of two events of one command, the one with fewer chunks comes first.    *)
(***************************************************************************)
LEMMA CommandPrefixes ==
    ASSUME NEW h \in Event, NEW j \in Job, NEW k \in Nat, NEW m \in Nat
    PROVE  /\ IsPrefix(h \o ChunksUpTo(j, k), h \o ChunksUpTo(j, m)) <=> k <= m
           /\ h \o ChunksUpTo(j, 0) = h
           /\ k > 0 => h \o ChunksUpTo(j, k) # <<>>
<1> DEFINE d == h \o ChunksUpTo(j, k)
           e == h \o ChunksUpTo(j, m)
<1>1. /\ d \in Event /\ Len(d) = Len(h) + k
      /\ \A i \in 1 .. Len(h) : d[i] = h[i]
      /\ \A i \in 1 .. k : d[Len(h) + i] = Entry(j, i)
  BY CommandEvents
<1>2. /\ e \in Event /\ Len(e) = Len(h) + m
      /\ \A i \in 1 .. Len(h) : e[i] = h[i]
      /\ \A i \in 1 .. m : e[Len(h) + i] = Entry(j, i)
  BY CommandEvents
<1> HIDE DEF d, e
<1>3. Len(h) \in Nat
  BY DEF Event
<1>4. ASSUME k <= m, NEW i \in 1 .. Len(d) PROVE d[i] = e[i]
  <2>1. CASE i <= Len(h)
    BY <1>1, <1>2, <1>3, <2>1
  <2>2. CASE ~(i <= Len(h))
    <3>1. i - Len(h) \in 1 .. k /\ i - Len(h) \in 1 .. m /\ Len(h) + (i - Len(h)) = i
      BY <1>1, <1>3, <1>4, <2>2
    <3> QED
      BY <1>1, <1>2, <3>1
  <2> QED
    BY <2>1, <2>2
<1>5. IsPrefix(d, e) <=> k <= m
  <2>1. IsPrefix(d, e) <=> Len(d) <= Len(e) /\ \A i \in 1 .. Len(d) : d[i] = e[i]
    <3>1. d \in Seq(Part) /\ e \in Seq(Part)
      BY <1>1, <1>2 DEF Event
    <3>2. \A s, t \in Seq(Part) :
             IsPrefix(s, t) <=> Len(s) <= Len(t) /\ \A i \in 1 .. Len(s) : s[i] = t[i]
      BY PrefixByIndex
    <3> QED
      BY <3>1, <3>2, Zenon
  <2>2. Len(d) <= Len(e) <=> k <= m
    BY <1>1, <1>2, <1>3
  <2> QED
    BY <1>4, <2>1, <2>2
<1>6. h \o ChunksUpTo(j, 0) = h
  <2>1. ChunksUpTo(j, 0) = <<>>
    BY DEF ChunksUpTo
  <2> QED
    BY <2>1, ConcatEmptySeq DEF Event
<1>7. k > 0 => d # <<>>
  BY <1>1, <1>3
<1> QED
  BY <1>5, <1>6, <1>7 DEF d, e

-----------------------------------------------------------------------------
(***************************************************************************)
(* Nothing is recorded, queued or sent at first.                           *)
(***************************************************************************)
LEMMA InitTyped == Init => Typed
<1> SUFFICES ASSUME Init PROVE Typed
  OBVIOUS
<1>1. <<>> \in Seq(Job) /\ <<>> \in Seq([job : Job, chunk : Nat])
  OBVIOUS
<1>2. /\ log \in [file : 1 .. MaxRotations + 1, lines : Seq(Job), part : Job \cup {None}]
      /\ seen \in [file : Nat, size : Nat]
      /\ batch \in [lines : Seq(Job), upto : [file : Nat, offset : Nat]]
      /\ cursor \in [file : Nat, offset : Nat]
  BY <1>1, JobAssumption DEF Init, NothingRead, NoFile
<1>3. /\ recorded \subseteq Job /\ logged \subseteq Job
      /\ jobs \subseteq Job /\ captured \subseteq Job
      /\ artifacts \subseteq Job /\ dropped \subseteq Job
      /\ Queued = {} /\ crashes \in 0 .. MaxCrashes /\ posts \in Nat
  BY JobAssumption DEF Init, Queued
<1>4. /\ state.head \in Seq([job : Job, chunk : Nat]) /\ state.outstanding = None
      /\ state \in [head : Event, outstanding : Event \cup {None}]
      /\ chain \in Seq([job : Job, chunk : Nat])
  BY <1>1 DEF Init, Event, Part
<1>5. pc = "idle" /\ current = None /\ posts = 0
  BY DEF Init
<1> QED
  BY <1>2, <1>3, <1>4, <1>5 DEF Typed, TypeOK

(***************************************************************************)
(* The recorder adds to the log and to the recordings.                     *)
(***************************************************************************)
LEMMA RecorderTyped ==
    ASSUME Typed,
           (\E j \in Job : RecordEnd(j) \/ LogPart(j)) \/ LogEnd \/ Rotate
    PROVE  Typed'
<1> DEFINE Log == [file : 1 .. MaxRotations + 1, lines : Seq(Job), part : Job \cup {None}]
<1>1. log' \in Log
  <2>1. /\ log \in Log
        /\ <<>> \in Seq(Job) /\ MaxRotations \in Nat
    BY JobAssumption DEF Typed, TypeOK
  <2>2. ASSUME NEW j \in Job, RecordEnd(j) \/ LogPart(j) PROVE log' \in Log
    BY <2>1, <2>2 DEF RecordEnd, LogPart
  <2>3. CASE LogEnd
    <3>1. log.part \in Job /\ Append(log.lines, log.part) \in Seq(Job)
      BY <2>1, <2>3 DEF LogEnd
    <3> QED
      BY <2>1, <2>3, <3>1 DEF LogEnd
  <2>4. CASE Rotate
    <3>1. log.file + 1 \in 1 .. MaxRotations + 1
      BY <2>1, <2>4 DEF Rotate
    <3> QED
      BY <2>1, <2>4, <3>1 DEF Rotate
  <2> QED
    BY <2>2, <2>3, <2>4
<1>2. recorded' \subseteq Job /\ logged' \subseteq Job
  BY DEF Typed, TypeOK, RecordEnd, LogPart, LogEnd, Rotate
<1>3. UNCHANGED <<capture, state, spool, pc, locals, crashes>>
  BY DEF RecordEnd, LogPart, LogEnd, Rotate
<1> QED
  BY <1>1, <1>2, <1>3 DEF Typed, TypeOK, Queued, capture, spool, locals

(***************************************************************************)
(* Lines read from the log are jobs, and so is what is queued of them.     *)
(***************************************************************************)
LEMMA QueueTyped ==
    ASSUME Typed, StatLog \/ ReadLog \/ QueueJob \/ SaveCursor
    PROVE  Typed'
<1> DEFINE Batch == [lines : Seq(Job), upto : [file : Nat, offset : Nat]]
<1>1. /\ log.file \in Nat /\ log.lines \in Seq(Job) /\ cursor \in [file : Nat, offset : Nat]
      /\ seen \in [file : Nat, size : Nat] /\ batch \in Batch
  BY JobAssumption DEF Typed, TypeOK
<1>2. CASE StatLog
  <2>1. seen' \in [file : Nat, size : Nat]
    BY <1>1, <1>2 DEF StatLog
  <2> QED
    BY <1>2, <2>1 DEF StatLog, Typed, TypeOK, Queued, recorder, capture, spool
<1>3. CASE ReadLog
  <2> DEFINE from == IF cursor.file = seen.file /\ cursor.offset <= seen.size
                     THEN cursor.offset ELSE 0
             lines == SubSeq(log.lines, from + 1, Len(log.lines))
  <2>1. from \in Nat
    BY <1>1
  <2>2. batch' = [lines |-> lines, upto |-> [file |-> seen.file, offset |-> from + Len(lines)]]
    BY <1>3 DEF ReadLog, Upto
  <2> HIDE DEF from
  <2>3. lines \in Seq(Job) /\ Len(lines) \in Nat
    BY <1>1, <2>1
  <2> HIDE DEF lines
  <2>4. batch' \in Batch
    BY <1>1, <2>1, <2>2, <2>3
  <2> QED
    BY <1>3, <2>4 DEF ReadLog, Typed, TypeOK, Queued, recorder, capture, spool
<1>4. CASE QueueJob
  <2>1. Head(batch.lines) \in Job /\ Tail(batch.lines) \in Seq(Job)
    BY <1>1, <1>4 DEF QueueJob
  <2>2. batch' \in Batch /\ jobs' \subseteq Job
    BY <1>1, <1>4, <2>1 DEF QueueJob, Typed, TypeOK
  <2> QED
    BY <1>4, <2>2 DEF QueueJob, Typed, TypeOK, Queued, recorder, spool
<1>5. CASE SaveCursor
  <2>1. cursor' \in [file : Nat, offset : Nat]
    BY <1>1, <1>5 DEF SaveCursor
  <2> QED
    BY <1>5, <2>1 DEF SaveCursor, Typed, TypeOK, Queued, recorder, spool, locals
<1> QED
  BY <1>2, <1>3, <1>4, <1>5

(***************************************************************************)
(* Capturing a job.                                                        *)
(***************************************************************************)
LEMMA CaptureTyped ==
    ASSUME Typed,
           \/ NothingToCapture
           \/ \E j \in Job : DropJob(j) \/ SkipCaptured(j) \/ WriteArtifact(j)
           \/ EnqueueChunk \/ WriteCaptured \/ SaveState \/ UnlinkJob
    PROVE  Typed'
<1> USE DEF Typed, TypeOK, Queued, recorder, spool, locals, capture
<1>1. CASE NothingToCapture
  BY <1>1 DEF NothingToCapture
<1>2. ASSUME NEW j \in Job, DropJob(j) PROVE Typed'
  BY <1>2 DEF DropJob, FirstJob
<1>3. ASSUME NEW j \in Job, SkipCaptured(j) PROVE Typed'
  BY <1>3 DEF SkipCaptured, FirstJob
<1>4. ASSUME NEW j \in Job, WriteArtifact(j) PROVE Typed'
  <2>1. 0 <= Chunks[j]
    BY JobAssumption
  <2>2. /\ pc' = "enqueue" /\ current' = j /\ posts' = 0
        /\ artifacts' = artifacts \cup {j}
        /\ UNCHANGED <<recorder, cursor, jobs, captured, dropped, state, spool, seen, batch, crashes>>
    BY <1>4 DEF WriteArtifact
  <2> QED
    BY <2>1, <2>2
<1>5. CASE EnqueueChunk
  <2> DEFINE e == state.head \o ChunksUpTo(current, posts + 1)
  <2>1. /\ current \in Job /\ posts + 1 \in Nat /\ posts + 1 > 0
        /\ posts + 1 <= Chunks[current] /\ state.head \in Event
    BY <1>5, JobAssumption DEF EnqueueChunk, Event, Part
  <2> DEFINE n == posts + 1
  <2>2. e \in Event /\ e # <<>>
    <3>1. n \in Nat /\ n > 0 /\ current \in Job /\ state.head \in Event
      BY <2>1
    <3> HIDE DEF n
    <3>2. state.head \o ChunksUpTo(current, n) \in Event
      BY <3>1, CommandEvents
    <3>3. state.head \o ChunksUpTo(current, n) # <<>>
      BY <3>1, CommandPrefixes
    <3> QED
      BY <3>2, <3>3 DEF n
  <2>3. /\ outbox' \subseteq outbox \cup {e} /\ posts' = posts + 1
        /\ pc' = "enqueue" /\ pc = "enqueue"
        /\ UNCHANGED <<recorder, capture, state, acknowledged, chain, seen, batch, current, crashes>>
    BY <1>5 DEF EnqueueChunk
  <2> HIDE DEF e
  <2>4. \A f \in Queued' : f \in Event /\ f # <<>>
    BY <2>2, <2>3 DEF Event, Part
  <2> QED
    BY <2>1, <2>3, <2>4 DEF Event, Part
<1>6. CASE WriteCaptured
  BY <1>6 DEF WriteCaptured
<1>7. CASE SaveState
  <2>1. /\ current \in Job /\ Chunks[current] \in Nat /\ state.head \in Event
    BY <1>7, JobAssumption DEF SaveState, Event, Part
  <2>2. state.head \o ChunksUpTo(current, Chunks[current]) \in Event
    BY <2>1, CommandEvents
  <2>3. /\ state'.head = state.head /\ state'.outstanding \in Event
        /\ state' \in [head : Event, outstanding : Event \cup {None}]
    BY <1>7, <2>2 DEF SaveState
  <2> QED
    BY <1>7, <2>3 DEF SaveState, Event, Part
<1>8. CASE UnlinkJob
  BY <1>8 DEF UnlinkJob
<1> QED
  BY <1>1, <1>2, <1>3, <1>4, <1>5, <1>6, <1>7, <1>8

(***************************************************************************)
(* Forwarding, and the end of a run.                                       *)
(***************************************************************************)
LEMMA ForwardTyped ==
    ASSUME Typed,
           \/ \E e \in outbox : Deliver(e)
           \/ Settle \/ StopForwarding \/ AdvanceChain \/ KeepChain \/ Crash
    PROVE  Typed'
<1> USE DEF recorder, spool, capture
<1>1. ASSUME NEW e \in outbox, Deliver(e) PROVE Typed'
  BY <1>1 DEF Deliver, Typed, TypeOK, Queued
<1>2. CASE Settle
  <2>1. /\ pc' = "forward" /\ current' = None /\ posts' \in Nat
        /\ Queued' = Queued
        /\ UNCHANGED <<recorder, capture, state, chain, seen, batch, crashes>>
    BY <1>2 DEF Settle, Typed, TypeOK, Queued
  <2> HIDE DEF recorder, capture
  <2>2. UNCHANGED <<log, recorded, logged, cursor, jobs, captured, artifacts, dropped>>
    BY <2>1 DEF recorder, capture
  <2> QED
    BY <2>1, <2>2 DEF Typed, TypeOK
<1>3. CASE StopForwarding
  BY <1>3 DEF StopForwarding, Typed, TypeOK, Queued
<1>4. ASSUME Ended
      PROVE  /\ pc' = "idle" /\ current' = None /\ posts' = 0 /\ posts' \in Nat
             /\ seen' \in [file : Nat, size : Nat]
             /\ batch' \in [lines : Seq(Job), upto : [file : Nat, offset : Nat]]
             /\ pc' \in {"idle", "read", "queue", "choose", "enqueue", "save", "unlink",
                        "forward", "settle", "reconcile"}
             /\ pc' \notin {"enqueue", "save", "unlink"} /\ pc' # "settle"
  <2>1. <<>> \in Seq(Job)
    OBVIOUS
  <2> QED
    BY <1>4, <2>1 DEF Ended, NothingRead, NoFile
<1>5. ASSUME Ended, UNCHANGED <<recorder, capture, spool>>, crashes' \in 0 .. MaxCrashes,
             state' \in [head : Event, outstanding : Event \cup {None}]
      PROVE  Typed'
  <2>1. UNCHANGED <<log, recorded, logged, cursor, jobs, captured, artifacts, dropped,
                    chain, Queued>>
    BY <1>5 DEF Queued
  <2> HIDE DEF recorder, spool, capture
  <2> QED
    BY <1>4, <1>5, <2>1 DEF Typed, TypeOK, Event, Part
<1>6. /\ crashes \in 0 .. MaxCrashes
      /\ state \in [head : Event, outstanding : Event \cup {None}]
      /\ \A e \in acknowledged : e \in Event
  BY DEF Typed, TypeOK, Queued, Event, Part
<1>7. CASE AdvanceChain
  <2>1. /\ state' \in [head : Event, outstanding : Event \cup {None}]
        /\ Ended /\ UNCHANGED <<recorder, capture, spool, crashes>>
    BY <1>6, <1>7 DEF AdvanceChain
  <2> QED
    BY <1>5, <1>6, <2>1
<1>8. CASE KeepChain
  <2>1. Ended /\ UNCHANGED <<recorder, capture, state, spool, crashes>>
    BY <1>8 DEF KeepChain
  <2> QED
    BY <1>5, <1>6, <2>1
<1>9. CASE Crash
  <2>1. /\ Ended /\ crashes' \in 0 .. MaxCrashes
        /\ UNCHANGED <<recorder, capture, state, spool>>
    BY <1>6, <1>9, JobAssumption DEF Crash
  <2> QED
    BY <1>5, <1>6, <2>1
<1> QED
  BY <1>1, <1>2, <1>3, <1>7, <1>8, <1>9

(***************************************************************************)
(* Every step keeps the types.                                             *)
(***************************************************************************)
LEMMA NextTyped == Typed /\ [Next]_vars => Typed'
<1>1. ASSUME Typed, UNCHANGED vars PROVE Typed'
  BY <1>1 DEF vars, Typed, TypeOK, Queued, recorder, capture, spool, locals
<1> QED
  BY <1>1, RecorderTyped, QueueTyped, CaptureTyped, ForwardTyped DEF Next, Run

(***************************************************************************)
(* The type invariant: runs hold what their place in the program says, and *)
(* whatever is in the spool is an event.                                   *)
(***************************************************************************)
THEOREM TypeCorrect == Spec => []TypeOK
<1>1. Typed => TypeOK
  BY DEF Typed
<1> QED
  BY <1>1, InitTyped, NextTyped, PTL DEF Spec

-----------------------------------------------------------------------------
(***************************************************************************)
(* The collector's chain goes on from what was acknowledged and from the   *)
(* head: the head moves to an acknowledged event only.                     *)
(***************************************************************************)
ChainInv ==
    /\ IsPrefix(state.head, chain)
    /\ \A e \in acknowledged : IsPrefix(e, chain)
    /\ pc = "settle" => IsPrefix(current, chain)

(***************************************************************************)
(* What the types say of the events in the spool and of the job in hand.   *)
(***************************************************************************)
LEMMA EventsTyped ==
    ASSUME Typed
    PROVE  /\ state.head \in Event /\ chain \in Event
           /\ state.outstanding = None \/ state.outstanding \in Event
           /\ \A e \in outbox \cup acknowledged : e \in Event /\ e # <<>>
           /\ pc = "settle" => current \in Event
           /\ posts \in Nat
           /\ pc \in {"enqueue", "save", "unlink"} => current \in Job /\ posts <= Chunks[current]
           /\ None \notin Event
  BY JobAssumption DEF Typed, TypeOK, Queued, Event, Part

(***************************************************************************)
(* The collector's chain only grows.                                       *)
(***************************************************************************)
LEMMA ChainGrows ==
    ASSUME Typed, NEW e \in outbox, Deliver(e)
    PROVE  IsPrefix(chain, chain') /\ IsPrefix(e, chain')
<1>1. chain \in Seq(Part) /\ e \in Seq(Part) /\ e # <<>>
  BY EventsTyped DEF Event
<1>2. CASE IsPrefix(e, chain)
  BY <1>1, <1>2, PrefixReflexive DEF Deliver
<1>3. CASE ~IsPrefix(e, chain)
  BY <1>1, <1>3, PrefixReflexive, FrontIsPrefix DEF Deliver
<1> QED
  BY <1>2, <1>3

(***************************************************************************)
(* Every step keeps ChainInv.                                              *)
(***************************************************************************)
LEMMA NextChainInv == Typed /\ ChainInv /\ [Next]_vars => ChainInv'
<1> SUFFICES ASSUME Typed, ChainInv, [Next]_vars PROVE ChainInv'
  OBVIOUS
<1>1. ASSUME UNCHANGED <<state, acknowledged, chain>>, pc' # "settle"
      PROVE  ChainInv'
  BY <1>1 DEF ChainInv
<1>2. ASSUME UNCHANGED <<state, acknowledged, chain, pc, current>>
      PROVE  ChainInv'
  BY <1>2 DEF ChainInv
<1>3. CASE (\E j \in Job : RecordEnd(j) \/ LogPart(j)) \/ LogEnd \/ Rotate
  BY <1>2, <1>3 DEF RecordEnd, LogPart, LogEnd, Rotate, spool, locals
<1>4. CASE StatLog \/ ReadLog \/ QueueJob \/ SaveCursor
  BY <1>1, <1>4 DEF StatLog, ReadLog, QueueJob, SaveCursor, spool
<1>5. CASE \/ NothingToCapture
           \/ \E j \in Job : DropJob(j) \/ SkipCaptured(j) \/ WriteArtifact(j)
           \/ WriteCaptured \/ UnlinkJob
  BY <1>1, <1>5 DEF NothingToCapture, DropJob, SkipCaptured, WriteArtifact, FirstJob,
                    WriteCaptured, UnlinkJob, spool
<1>6. CASE EnqueueChunk
  BY <1>1, <1>6 DEF EnqueueChunk, spool
<1>7. CASE SaveState
  BY <1>7 DEF SaveState, spool, ChainInv
<1>8. ASSUME NEW e \in outbox, Deliver(e) PROVE ChainInv'
  <2>1. IsPrefix(chain, chain') /\ IsPrefix(e, chain')
    BY <1>8, ChainGrows
  <2>2. chain \in Seq(Part) /\ chain' \in Seq(Part) /\ state.head \in Seq(Part)
        /\ \A f \in acknowledged : f \in Seq(Part)
    BY <1>8, EventsTyped DEF Deliver, Event
  <2>3. /\ IsPrefix(state.head, chain')
        /\ \A f \in acknowledged : IsPrefix(f, chain')
    BY <2>1, <2>2, PrefixTransitive DEF ChainInv
  <2>4. UNCHANGED <<state, acknowledged>> /\ current' = e
    BY <1>8 DEF Deliver
  <2> QED
    BY <2>1, <2>3, <2>4 DEF ChainInv
<1>9. CASE Settle
  BY <1>9 DEF Settle, ChainInv
<1>10. CASE StopForwarding
  BY <1>1, <1>10 DEF StopForwarding, spool
<1>11. CASE AdvanceChain
  BY <1>11 DEF AdvanceChain, Ended, spool, ChainInv
<1>12. CASE KeepChain \/ Crash
  BY <1>1, <1>12 DEF KeepChain, Crash, Ended, spool
<1>13. CASE UNCHANGED vars
  BY <1>2, <1>13 DEF vars, spool, locals
<1> QED
  BY <1>3, <1>4, <1>5, <1>6, <1>7, <1>8, <1>9, <1>10, <1>11, <1>12, <1>13 DEF Next, Run

(***************************************************************************)
(* The types and the chain's invariant hold together.                      *)
(***************************************************************************)
LEMMA ChainCorrect == Spec => [](Typed /\ ChainInv)
<1>1. Init => ChainInv
  <2> SUFFICES ASSUME Init PROVE ChainInv
    OBVIOUS
  <2>1. <<>> \in Seq(Part)
    OBVIOUS
  <2>2. IsPrefix(<<>>, <<>>)
    BY <2>1, PrefixReflexive, Zenon
  <2> QED
    BY <2>2 DEF Init, ChainInv
<1> QED
  BY <1>1, InitTyped, NextTyped, NextChainInv, PTL DEF Spec

-----------------------------------------------------------------------------
(***************************************************************************)
(* What a run has enqueued before it marks a job captured, and before it   *)
(* waits for its last event, is in the spool.                              *)
(***************************************************************************)
Stored(j) ==
    /\ j \in artifacts
    /\ \E h \in Event : \A k \in 1 .. Chunks[j] : h \o ChunksUpTo(j, k) \in Queued

QueueInv ==
    /\ OutstandingIsQueued
    /\ \A j \in captured : Stored(j)
    /\ pc \in {"enqueue", "save", "unlink"} => current \in artifacts
    /\ pc \in {"save", "unlink"} => current \in captured
    /\ pc = "enqueue" => \A k \in 1 .. posts : state.head \o ChunksUpTo(current, k) \in Queued
    /\ pc = "save" => state.head \o ChunksUpTo(current, Chunks[current]) \in Queued

(***************************************************************************)
(* Every step keeps QueueInv.                                              *)
(***************************************************************************)
LEMMA NextQueueInv == Typed /\ QueueInv /\ [Next]_vars => QueueInv'
<1> SUFFICES ASSUME Typed, QueueInv, [Next]_vars PROVE QueueInv'
  OBVIOUS
<1>1. ASSUME UNCHANGED <<state, captured, artifacts>>, Queued \subseteq Queued',
             pc' \notin {"enqueue", "save", "unlink"} \/ UNCHANGED <<pc, current, posts>>
      PROVE  QueueInv'
  <2>1. OutstandingIsQueued'
    BY <1>1 DEF QueueInv, OutstandingIsQueued
  <2>2. \A j \in captured' : Stored(j)'
    BY <1>1 DEF QueueInv, Stored
  <2> QED
    BY <1>1, <2>1, <2>2 DEF QueueInv
<1>2. CASE (\E j \in Job : RecordEnd(j) \/ LogPart(j)) \/ LogEnd \/ Rotate
  BY <1>1, <1>2 DEF RecordEnd, LogPart, LogEnd, Rotate, spool, locals, capture, Queued
<1>3. CASE StatLog \/ ReadLog \/ QueueJob \/ SaveCursor
  BY <1>1, <1>3 DEF StatLog, ReadLog, QueueJob, SaveCursor, spool, capture, Queued
<1>4. CASE NothingToCapture
  BY <1>1, <1>4 DEF NothingToCapture, spool, capture, Queued
<1>5. ASSUME NEW j \in Job, DropJob(j) \/ SkipCaptured(j) PROVE QueueInv'
  BY <1>1, <1>5 DEF DropJob, SkipCaptured, FirstJob, spool, locals, Queued
<1>6. ASSUME NEW j \in Job, WriteArtifact(j) PROVE QueueInv'
  <2>1. /\ pc' = "enqueue" /\ current' = j /\ posts' = 0 /\ artifacts' = artifacts \cup {j}
        /\ UNCHANGED <<state, captured, outbox, acknowledged>>
    BY <1>6 DEF WriteArtifact, spool
  <2>2. \A i \in captured' : Stored(i)'
    BY <2>1 DEF QueueInv, Stored, Queued
  <2>3. OutstandingIsQueued'
    BY <2>1 DEF QueueInv, OutstandingIsQueued, Queued
  <2> QED
    BY <2>1, <2>2, <2>3 DEF QueueInv
<1>7. CASE EnqueueChunk
  <2> DEFINE e == state.head \o ChunksUpTo(current, posts + 1)
  <2>1. /\ pc = "enqueue" /\ pc' = "enqueue" /\ posts' = posts + 1
        /\ UNCHANGED <<state, captured, artifacts, current>>
        /\ Queued' = Queued \cup {e}
    BY <1>7 DEF EnqueueChunk, capture, Queued
  <2> HIDE DEF e
  <2>2. \A i \in captured' : Stored(i)'
    BY <2>1 DEF QueueInv, Stored
  <2>3. OutstandingIsQueued'
    BY <2>1 DEF QueueInv, OutstandingIsQueued
  <2>4. ASSUME NEW k \in 1 .. posts'
        PROVE  state.head \o ChunksUpTo(current, k) \in Queued'
    <3>1. posts \in Nat
      BY EventsTyped
    <3>2. CASE k = posts + 1
      BY <2>1, <3>2 DEF e
    <3>3. CASE k # posts + 1
      BY <2>1, <3>1, <3>3 DEF QueueInv
    <3> QED
      BY <3>2, <3>3
  <2> QED
    BY <2>1, <2>2, <2>3, <2>4 DEF QueueInv
<1>8. CASE WriteCaptured
  <2>1. /\ pc = "enqueue" /\ pc' = "save" /\ posts = Chunks[current]
        /\ captured' = captured \cup {current}
        /\ UNCHANGED <<state, artifacts, outbox, acknowledged, current>>
    BY <1>8 DEF WriteCaptured, spool, locals
  <2>2. /\ current \in Job /\ Chunks[current] \in Nat \ {0}
        /\ state.head \in Event
    BY <2>1, EventsTyped, JobAssumption
  <2>3. \A k \in 1 .. Chunks[current] : state.head \o ChunksUpTo(current, k) \in Queued
    BY <2>1 DEF QueueInv
  <2>4. Stored(current)
    BY <2>1, <2>2, <2>3 DEF QueueInv, Stored
  <2>5. \A j \in captured' : Stored(j)'
    BY <2>1, <2>4 DEF QueueInv, Stored, Queued
  <2>6. OutstandingIsQueued'
    BY <2>1 DEF QueueInv, OutstandingIsQueued, Queued
  <2>7. state.head \o ChunksUpTo(current, Chunks[current]) \in Queued
    BY <2>2, <2>3
  <2> QED
    BY <2>1, <2>5, <2>6, <2>7 DEF QueueInv, Queued
<1>9. CASE SaveState
  <2>1. /\ pc = "save" /\ pc' = "unlink"
        /\ state' = [state EXCEPT !.outstanding =
                        state.head \o ChunksUpTo(current, Chunks[current])]
        /\ UNCHANGED <<captured, artifacts, outbox, acknowledged, current>>
    BY <1>9 DEF SaveState, spool, capture, locals
  <2>2. state'.head = state.head
        /\ state'.outstanding = state.head \o ChunksUpTo(current, Chunks[current])
    <3>1. state \in [head : Event, outstanding : Event \cup {None}]
      BY DEF Typed
    <3> QED
      BY <2>1, <3>1
  <2>3. OutstandingIsQueued'
    BY <2>1, <2>2 DEF QueueInv, OutstandingIsQueued, Queued
  <2>4. \A i \in captured' : Stored(i)'
    BY <2>1 DEF QueueInv, Stored, Queued
  <2> QED
    BY <2>1, <2>3, <2>4 DEF QueueInv
<1>10. CASE UnlinkJob
  BY <1>1, <1>10 DEF UnlinkJob, spool, Queued
<1>11. ASSUME NEW e \in outbox, Deliver(e) PROVE QueueInv'
  BY <1>1, <1>11 DEF Deliver, capture, Queued
<1>12. CASE Settle
  BY <1>1, <1>12 DEF Settle, capture, Queued
<1>13. CASE StopForwarding \/ KeepChain \/ Crash
  BY <1>1, <1>13 DEF StopForwarding, KeepChain, Crash, Ended, spool, capture, Queued
<1>14. CASE AdvanceChain
  <2>1. /\ pc' = "idle" /\ state'.outstanding = None
        /\ UNCHANGED <<captured, artifacts, outbox, acknowledged>>
    BY <1>14 DEF AdvanceChain, Ended, spool, capture
  <2>2. OutstandingIsQueued'
    BY <2>1 DEF OutstandingIsQueued
  <2>3. \A i \in captured' : Stored(i)'
    BY <2>1 DEF QueueInv, Stored, Queued
  <2> QED
    BY <2>1, <2>2, <2>3 DEF QueueInv
<1>15. CASE UNCHANGED vars
  BY <1>1, <1>15 DEF vars, spool, locals, capture, Queued
<1> QED
  BY <1>2, <1>3, <1>4, <1>5, <1>6, <1>7, <1>8, <1>9, <1>10, <1>11, <1>12, <1>13, <1>14, <1>15
     DEF Next, Run

(***************************************************************************)
(* The types and the queue's invariant hold together.                      *)
(***************************************************************************)
LEMMA QueueCorrect == Spec => [](Typed /\ QueueInv)
<1>1. Init => QueueInv
  BY DEF Init, QueueInv, OutstandingIsQueued
<1> QED
  BY <1>1, InitTyped, NextTyped, NextQueueInv, PTL DEF Spec

(***************************************************************************)
(* chain-state.json can be relied on after any crash: its head is in the   *)
(* collector's chain, and what it waits for is a whole command in the      *)
(* spool, right after the head.                                            *)
(***************************************************************************)
THEOREM StateSound == Spec => []StateIsSound
<1>1. Typed /\ ChainInv /\ QueueInv => StateIsSound
  <2> SUFFICES ASSUME Typed, ChainInv, QueueInv PROVE StateIsSound
    OBVIOUS
  <2>1. state.head \in Seq(Part) /\ chain \in Seq(Part)
    BY EventsTyped DEF Event
  <2>2. state.head \in Prefixes(chain)
    BY <2>1, PrefixesAreSo DEF ChainInv
  <2> QED
    BY <2>2 DEF StateIsSound, HeadIsAccepted, Accepted, QueueInv
<1> QED
  BY <1>1, ChainCorrect, QueueCorrect, PTL

(***************************************************************************)
(* Whatever crashed when, every command marked captured has its artifact   *)
(* and all its chunks in the spool.                                        *)
(***************************************************************************)
THEOREM CapturedQueued == Spec => []CapturedIsQueued
<1>1. Typed /\ QueueInv => CapturedIsQueued
  <2> SUFFICES ASSUME Typed, QueueInv, NEW j \in captured
               PROVE  /\ j \in artifacts
                      /\ \E e \in Queued :
                            /\ Len(e) >= Chunks[j]
                            /\ \A k \in 1 .. Chunks[j] :
                                  /\ e[Len(e) - Chunks[j] + k] = Entry(j, k)
                                  /\ SubSeq(e, 1, Len(e) - Chunks[j] + k) \in Queued
    BY DEF CapturedIsQueued
  <2>1. j \in artifacts /\ j \in Job
    BY DEF QueueInv, Stored, Typed, TypeOK
  <2>2. PICK n : n = Chunks[j]
    OBVIOUS
  <2>3. n \in Nat \ {0}
    BY <2>1, <2>2, JobAssumption
  <2>4. PICK h \in Event : \A k \in 1 .. n : h \o ChunksUpTo(j, k) \in Queued
    BY <2>2 DEF QueueInv, Stored
  <2> DEFINE e == h \o ChunksUpTo(j, n)
  <2>5. e \in Queued /\ e \in Seq(Part) /\ Len(e) = Len(h) + n /\ Len(h) \in Nat
    BY <2>1, <2>3, <2>4, CommandEvents DEF Event
  <2>6. ASSUME NEW k \in 1 .. n
        PROVE  /\ e[Len(e) - n + k] = Entry(j, k)
               /\ SubSeq(e, 1, Len(e) - n + k) \in Queued
    <3> DEFINE d == h \o ChunksUpTo(j, k)
    <3>1. d \in Queued /\ d \in Seq(Part) /\ Len(d) = Len(h) + k
      BY <2>1, <2>4, CommandEvents DEF Event
    <3>2. e[Len(h) + k] = Entry(j, k)
      BY <2>1, <2>3, CommandEvents
    <3>3. IsPrefix(d, e)
      BY <2>1, <2>3, CommandPrefixes
    <3> HIDE DEF d, e
    <3>4. d = SubSeq(e, 1, Len(d))
      BY <3>1, <3>3, SubSeqFull DEF IsPrefix
    <3>5. Len(e) - n + k = Len(h) + k
      BY <2>3, <2>5
    <3> QED
      BY <3>1, <3>2, <3>4, <3>5
  <2> HIDE DEF e
  <2>7. Len(e) >= n
    BY <2>3, <2>5
  <2> QED
    BY <2>1, <2>2, <2>5, <2>6, <2>7
<1> QED
  BY <1>1, QueueCorrect, PTL

-----------------------------------------------------------------------------
(***************************************************************************)
(* The cursor, and the one a run is about to save: of the file the log is  *)
(* now, they only pass records that have a job, or will have it before the *)
(* cursor is saved.                                                        *)
(***************************************************************************)
Known == jobs \cup captured \cup dropped

Passes(at, known) ==
    at.file = log.file =>
        /\ at.offset <= Len(log.lines)
        /\ \A i \in 1 .. Len(log.lines) : i <= at.offset => log.lines[i] \in known

CursorInv ==
    /\ cursor.file <= log.file /\ batch.upto.file <= log.file
    /\ seen.file <= log.file
    /\ seen.file = log.file => seen.size <= Len(log.lines)
    /\ Passes(cursor, Known)
    /\ pc = "queue" => Passes(batch.upto, Known \cup Range(batch.lines))

(***************************************************************************)
(* Every step keeps CursorInv: the cursor only passes known records.       *)
(***************************************************************************)
LEMMA NextCursorInv ==
    ASSUME Typed, QueueInv, CursorInv, [Next]_vars
    PROVE  CursorInv'
<1>1. /\ log.file \in Nat \ {0} /\ log.lines \in Seq(Job) /\ Len(log.lines) \in Nat
      /\ cursor \in [file : Nat, offset : Nat] /\ seen \in [file : Nat, size : Nat]
      /\ batch \in [lines : Seq(Job), upto : [file : Nat, offset : Nat]]
  BY JobAssumption DEF Typed, TypeOK
<1>2. ASSUME UNCHANGED <<log, cursor>>, Known \subseteq Known',
             \/ UNCHANGED <<seen, batch>> /\ pc' = pc
             \/ UNCHANGED <<seen, batch>> /\ pc' # "queue"
             \/ seen' = [file |-> 0, size |-> 0] /\ batch' = NothingRead /\ pc' # "queue"
      PROVE  CursorInv'
  BY <1>1, <1>2 DEF CursorInv, Passes, NothingRead, NoFile
<1>3. ASSUME NEW j \in Job, RecordEnd(j) PROVE CursorInv'
  BY <1>2, <1>3 DEF RecordEnd, capture, locals, Known
<1>4. ASSUME NEW j \in Job, LogPart(j) PROVE CursorInv'
  <2>1. log'.file = log.file /\ log'.lines = log.lines
    BY <1>4 DEF LogPart, Typed, TypeOK
  <2>2. UNCHANGED <<cursor, jobs, captured, dropped, seen, batch, pc>>
    BY <1>4 DEF LogPart, capture, locals
  <2> QED
    BY <2>1, <2>2 DEF CursorInv, Passes, Known
<1>5. CASE LogEnd
  <2>1. /\ log'.file = log.file /\ log'.lines = Append(log.lines, log.part)
        /\ log.part \in Job
    BY <1>5 DEF LogEnd, Typed, TypeOK
  <2>2. UNCHANGED <<cursor, jobs, captured, dropped, seen, batch, pc>>
    BY <1>5 DEF LogEnd, capture, locals
  <2>3. /\ Len(log'.lines) = Len(log.lines) + 1
        /\ \A i \in 1 .. Len(log.lines) : log'.lines[i] = log.lines[i]
    BY <1>1, <2>1
  <2>4. ASSUME NEW at \in [file : Nat, offset : Nat], NEW known, Passes(at, known)
        PROVE  at.file = log'.file =>
                  /\ at.offset <= Len(log'.lines)
                  /\ \A i \in 1 .. Len(log'.lines) : i <= at.offset => log'.lines[i] \in known
    BY <1>1, <2>1, <2>3, <2>4 DEF Passes
  <2>5. Passes(cursor, Known)'
    BY <1>1, <2>2, <2>4 DEF CursorInv, Passes, Known
  <2>6. pc = "queue" => Passes(batch.upto, Known \cup Range(batch.lines))'
    <3>1. batch.upto \in [file : Nat, offset : Nat]
      BY <1>1
    <3> QED
      BY <2>2, <2>4, <3>1 DEF CursorInv, Passes, Known
  <2> QED
    BY <1>1, <2>1, <2>2, <2>3, <2>5, <2>6 DEF CursorInv
<1>6. CASE Rotate
  <2>1. log'.file = log.file + 1 /\ UNCHANGED <<cursor, seen, batch>>
    BY <1>6 DEF Rotate, capture, locals
  <2> QED
    BY <1>1, <2>1 DEF CursorInv, Passes
<1>7. CASE StatLog
  <2>1. /\ pc' = "read" /\ seen' = [file |-> log.file, size |-> Len(log.lines)]
        /\ UNCHANGED <<log, cursor, jobs, captured, dropped, batch>>
    BY <1>7 DEF StatLog, recorder, capture
  <2> QED
    BY <1>1, <2>1 DEF CursorInv, Passes, Known
<1>8. CASE ReadLog
  <2> DEFINE from == IF cursor.file = seen.file /\ cursor.offset <= seen.size
                     THEN cursor.offset ELSE 0
             lines == SubSeq(log.lines, from + 1, Len(log.lines))
             upto == [file |-> seen.file, offset |-> from + Len(lines)]
  <2>1. /\ pc' = "queue" /\ batch' = [lines |-> lines, upto |-> upto]
        /\ UNCHANGED <<log, cursor, jobs, captured, dropped, seen>>
    BY <1>8 DEF ReadLog, Upto, recorder, capture
  <2>2. from \in Nat
    BY <1>1
  <2>3. seen.file = log.file =>
           /\ from <= Len(log.lines)
           /\ \A i \in 1 .. Len(log.lines) : i <= from => log.lines[i] \in Known
    BY <1>1 DEF CursorInv, Passes
  <2> HIDE DEF from
  <2>4. ASSUME from <= Len(log.lines)
        PROVE  /\ Len(lines) = Len(log.lines) - from
               /\ \A i \in 1 .. Len(log.lines) : i > from => log.lines[i] \in Range(lines)
    <3>1. /\ Len(lines) = Len(log.lines) - from /\ lines \in Seq(Job)
          /\ \A k \in 1 .. Len(log.lines) - from : lines[k] = log.lines[from + k]
      BY <1>1, <2>2, <2>4
    <3> HIDE DEF lines
    <3>2. ASSUME NEW i \in 1 .. Len(log.lines), i > from
          PROVE  log.lines[i] \in Range(lines)
      <4>1. i - from \in 1 .. Len(log.lines) - from /\ from + (i - from) = i
        BY <1>1, <2>2, <2>4, <3>2
      <4>2. lines[i - from] = log.lines[i] /\ i - from \in DOMAIN lines
        BY <3>1, <4>1
      <4> QED
        BY <4>2 DEF Range
    <3> QED
      BY <3>1, <3>2
  <2> HIDE DEF lines
  <2>5. batch'.upto.file = seen.file /\ batch'.upto.offset = from + Len(lines)
        /\ batch'.lines = lines
    BY <2>1
  <2>6. Passes(batch.upto, Known \cup Range(batch.lines))'
    <3> SUFFICES ASSUME seen.file = log.file
                 PROVE  /\ from + Len(lines) <= Len(log.lines)
                        /\ \A i \in 1 .. Len(log.lines) :
                              log.lines[i] \in Known \cup Range(lines)
      BY <2>1, <2>5 DEF Passes, Known
    <3> QED
      BY <1>1, <2>2, <2>3, <2>4
  <2> QED
    BY <2>1, <2>5, <2>6 DEF CursorInv, Passes, Known
<1>9. CASE QueueJob
  <2> DEFINE j == Head(batch.lines)
  <2>1. /\ pc = "queue" /\ pc' = "queue" /\ batch.lines # <<>>
        /\ jobs' = IF j \in captured THEN jobs ELSE jobs \cup {j}
        /\ batch' = [batch EXCEPT !.lines = Tail(@)]
        /\ UNCHANGED <<log, cursor, captured, dropped, seen>>
    BY <1>9 DEF QueueJob, recorder
  <2>2. batch'.upto = batch.upto /\ batch'.lines = Tail(batch.lines)
    BY <1>1, <2>1
  <2>3. Range(batch.lines) \subseteq Range(Tail(batch.lines)) \cup {j}
    <3>1. ASSUME NEW q \in Seq(Job), q # <<>>, NEW x \in Range(q), x # Head(q)
          PROVE  x \in Range(Tail(q))
      <4>1. PICK i \in 1 .. Len(q) : x = q[i]
        BY <3>1 DEF Range
      <4>2. i # 1
        BY <3>1, <4>1
      <4>3. i - 1 \in 1 .. Len(Tail(q)) /\ Tail(q)[i - 1] = q[i]
        BY <3>1, <4>1, <4>2
      <4>4. Tail(q) \in Seq(Job) /\ DOMAIN Tail(q) = 1 .. Len(Tail(q))
        BY <3>1
      <4>5. i - 1 \in DOMAIN Tail(q) /\ Tail(q)[i - 1] = x
        BY <4>1, <4>3, <4>4
      <4> QED
        BY <4>5 DEF Range
    <3> QED
      BY <1>1, <2>1, <3>1
  <2>4. Known' = Known \cup {j}
    BY <2>1 DEF Known
  <2> HIDE DEF j
  <2>5. Known \cup Range(batch.lines) \subseteq Known' \cup Range(batch'.lines)
    BY <2>2, <2>3, <2>4
  <2> QED
    BY <2>1, <2>2, <2>4, <2>5 DEF CursorInv, Passes
<1>10. CASE SaveCursor
  <2>1. /\ pc = "queue" /\ pc' = "choose" /\ batch.lines = <<>> /\ cursor' = batch.upto
        /\ UNCHANGED <<log, jobs, captured, dropped, seen, batch>>
    BY <1>10 DEF SaveCursor, recorder, locals
  <2>2. Range(batch.lines) = {}
    BY <2>1 DEF Range
  <2>3. Passes(batch.upto, Known)
    BY <2>1, <2>2 DEF CursorInv
  <2> QED
    BY <2>1, <2>3 DEF CursorInv, Passes, Known
<1>11. CASE NothingToCapture
  BY <1>2, <1>11 DEF NothingToCapture, recorder, capture, locals, Known
<1>12. ASSUME NEW j \in Job, DropJob(j) PROVE CursorInv'
  BY <1>2, <1>12 DEF DropJob, recorder, locals, Known
<1>13. ASSUME NEW j \in Job, SkipCaptured(j) PROVE CursorInv'
  BY <1>2, <1>13 DEF SkipCaptured, recorder, locals, Known
<1>14. ASSUME NEW j \in Job, WriteArtifact(j) PROVE CursorInv'
  BY <1>2, <1>14 DEF WriteArtifact, recorder, Known
<1>15. CASE EnqueueChunk \/ WriteCaptured \/ SaveState
  BY <1>2, <1>15 DEF EnqueueChunk, WriteCaptured, SaveState, recorder, capture, locals, Known
<1>16. CASE UnlinkJob
  <2>1. /\ pc = "unlink" /\ pc' = "forward" /\ jobs' = jobs \ {current}
        /\ UNCHANGED <<log, cursor, captured, dropped, seen, batch>>
    BY <1>16 DEF UnlinkJob, recorder
  <2>2. current \in captured
    BY <2>1 DEF QueueInv
  <2> QED
    BY <1>2, <2>1, <2>2 DEF Known
<1>17. ASSUME NEW e \in outbox, Deliver(e) PROVE CursorInv'
  BY <1>2, <1>17 DEF Deliver, recorder, capture, Known
<1>18. CASE Settle \/ StopForwarding
  BY <1>2, <1>18 DEF Settle, StopForwarding, recorder, capture, Known
<1>19. CASE AdvanceChain \/ KeepChain \/ Crash
  BY <1>2, <1>19 DEF AdvanceChain, KeepChain, Crash, Ended, recorder, capture, Known
<1>20. CASE UNCHANGED vars
  BY <1>2, <1>20 DEF vars, recorder, capture, locals, Known
<1> QED
  BY <1>3, <1>4, <1>5, <1>6, <1>7, <1>8, <1>9, <1>10, <1>11, <1>12, <1>13, <1>14, <1>15,
     <1>16, <1>17, <1>18, <1>19, <1>20 DEF Next, Run

(***************************************************************************)
(* No end record of the current log file is behind the cursor without a    *)
(* job, whatever was rotated, half written or interrupted.                 *)
(***************************************************************************)
THEOREM NothingSkipped == Spec => []CursorSkipsNothing
<1>1. Init => CursorInv
  <2> SUFFICES ASSUME Init PROVE CursorInv
    OBVIOUS
  <2>1. /\ log.file = 1 /\ cursor.file = 0 /\ batch.upto.file = 0 /\ seen.file = 0
        /\ pc = "idle"
    BY DEF Init, NothingRead, NoFile
  <2> QED
    BY <2>1 DEF CursorInv, Passes
<1>2. Typed /\ CursorInv => CursorSkipsNothing
  BY DEF Typed, TypeOK, CursorInv, Passes, Known, CursorSkipsNothing
<1> QED
  BY <1>1, <1>2, InitTyped, NextTyped, QueueCorrect, NextCursorInv, PTL DEF Spec

-----------------------------------------------------------------------------
(***************************************************************************)
(* The head consists of captured commands, and a run that enqueues one has *)
(* found it not captured: no event continues the chain with what is in it. *)
(***************************************************************************)
Unique(e) == \A i, k \in 1 .. Len(e) : e[i] = e[k] => i = k

UniqueInv ==
    /\ \A e \in Queued : Unique(e)
    /\ Unique(chain) /\ Unique(state.head)
    /\ \A i \in 1 .. Len(state.head) : state.head[i].job \in captured
    /\ pc = "enqueue" => current \notin captured

(***************************************************************************)
(* The chunks of a new command repeat nothing of the event they join.      *)
(***************************************************************************)
LEMMA CommandIsNew ==
    ASSUME NEW h \in Event, NEW j \in Job, NEW n \in Nat, Unique(h),
           \A i \in 1 .. Len(h) : h[i].job # j
    PROVE  Unique(h \o ChunksUpTo(j, n))
<1> DEFINE e == h \o ChunksUpTo(j, n)
<1>1. /\ Len(h) \in Nat /\ Len(e) = Len(h) + n
      /\ \A i \in 1 .. Len(h) : e[i] = h[i]
      /\ \A i \in 1 .. n : e[Len(h) + i] = Entry(j, i)
  BY CommandEvents DEF Event
<1> HIDE DEF e
<1>2. ASSUME NEW i \in 1 .. Len(e), i > Len(h) PROVE e[i] = Entry(j, i - Len(h))
  <2>1. i - Len(h) \in 1 .. n /\ Len(h) + (i - Len(h)) = i
    BY <1>1, <1>2
  <2> QED
    BY <1>1, <2>1
<1>3. ASSUME NEW i \in 1 .. Len(e), NEW k \in 1 .. Len(e), e[i] = e[k] PROVE i = k
  <2>1. CASE i <= Len(h) /\ k <= Len(h)
    BY <1>1, <1>3, <2>1 DEF Unique
  <2>2. CASE i > Len(h) /\ k > Len(h)
    <3>1. Entry(j, i - Len(h)).chunk = Entry(j, k - Len(h)).chunk
      BY <1>2, <1>3, <2>2
    <3>2. i - Len(h) = k - Len(h)
      BY <3>1 DEF Entry
    <3> QED
      BY <1>1, <3>2
  <2>3. ASSUME NEW a \in 1 .. Len(e), NEW b \in 1 .. Len(e), a <= Len(h), b > Len(h)
        PROVE  e[a] # e[b]
    <3>1. e[b].job = j
      <4>1. e[b] = Entry(j, b - Len(h))
        BY <1>2, <2>3
      <4> QED
        BY <4>1 DEF Entry
    <3>2. e[a].job # j
      BY <1>1, <2>3
    <3> QED
      BY <3>1, <3>2
  <2> QED
    BY <1>1, <1>3, <2>1, <2>2, <2>3
<1> QED
  BY <1>3 DEF Unique, e

(***************************************************************************)
(* Every step, a crash included, keeps UniqueInv.                          *)
(***************************************************************************)
LEMMA NextUniqueInv ==
    ASSUME Typed, QueueInv, UniqueInv, [Next]_vars
    PROVE  UniqueInv'
<1>1. ASSUME UNCHANGED <<state, captured>>, Queued' \subseteq Queued,
             chain' = chain \/ chain' \in Queued,
             pc' # "enqueue" \/ UNCHANGED <<pc, current>>
      PROVE  UniqueInv'
  <2>1. Unique(chain')
    BY <1>1 DEF UniqueInv
  <2> QED
    BY <1>1, <2>1 DEF UniqueInv, Unique
<1>2. CASE (\E j \in Job : RecordEnd(j) \/ LogPart(j)) \/ LogEnd \/ Rotate
  BY <1>1, <1>2 DEF RecordEnd, LogPart, LogEnd, Rotate, spool, locals, capture, Queued
<1>3. CASE StatLog \/ ReadLog \/ QueueJob \/ SaveCursor
  BY <1>1, <1>3 DEF StatLog, ReadLog, QueueJob, SaveCursor, spool, capture, Queued
<1>4. CASE NothingToCapture
  BY <1>1, <1>4 DEF NothingToCapture, spool, capture, Queued
<1>5. ASSUME NEW j \in Job, DropJob(j) \/ SkipCaptured(j) PROVE UniqueInv'
  BY <1>1, <1>5 DEF DropJob, SkipCaptured, FirstJob, spool, locals, Queued
<1>6. ASSUME NEW j \in Job, WriteArtifact(j) PROVE UniqueInv'
  <2>1. /\ current' = j /\ j \notin captured
        /\ UNCHANGED <<state, captured, chain, Queued>>
    BY <1>6 DEF WriteArtifact, spool, Queued
  <2> QED
    BY <2>1 DEF UniqueInv, Unique
<1>7. CASE EnqueueChunk
  <2> DEFINE n == posts + 1
             e == state.head \o ChunksUpTo(current, n)
  <2>1. /\ pc = "enqueue" /\ pc' = "enqueue"
        /\ UNCHANGED <<state, captured, chain, current>>
        /\ Queued' \subseteq Queued \cup {e}
    BY <1>7 DEF EnqueueChunk, capture, Queued
  <2>2. n \in Nat /\ current \in Job /\ state.head \in Event
    BY <2>1, EventsTyped
  <2>3. \A i \in 1 .. Len(state.head) : state.head[i].job # current
    BY <2>1 DEF UniqueInv
  <2>4. Unique(state.head)
    BY DEF UniqueInv
  <2> HIDE DEF n
  <2>5. Unique(e)
    BY <2>2, <2>3, <2>4, CommandIsNew
  <2> HIDE DEF e
  <2> QED
    BY <2>1, <2>5 DEF UniqueInv, Unique
<1>8. CASE WriteCaptured
  <2>1. /\ pc' = "save" /\ captured \subseteq captured'
        /\ UNCHANGED <<state, chain, Queued>>
    BY <1>8 DEF WriteCaptured, spool, Queued
  <2> QED
    BY <2>1 DEF UniqueInv, Unique
<1>9. CASE SaveState
  <2>1. /\ pc' = "unlink" /\ state'.head = state.head
        /\ UNCHANGED <<captured, chain, Queued>>
    BY <1>9 DEF SaveState, spool, capture, Queued, Typed
  <2> QED
    BY <2>1 DEF UniqueInv, Unique
<1>10. CASE UnlinkJob
  BY <1>1, <1>10 DEF UnlinkJob, spool, Queued
<1>11. ASSUME NEW e \in outbox, Deliver(e) PROVE UniqueInv'
  BY <1>1, <1>11 DEF Deliver, capture, Queued
<1>12. CASE Settle
  <2>1. current \in outbox
    BY <1>12 DEF Settle, Typed, TypeOK
  <2> QED
    BY <1>1, <1>12, <2>1 DEF Settle, capture, Queued
<1>13. CASE StopForwarding \/ KeepChain \/ Crash
  BY <1>1, <1>13 DEF StopForwarding, KeepChain, Crash, Ended, spool, capture, Queued
<1>14. CASE AdvanceChain
  <2> DEFINE out == state.outstanding
  <2>1. /\ pc' = "idle" /\ state'.head = out /\ out \in acknowledged
        /\ UNCHANGED <<captured, chain, Queued>>
    BY <1>14 DEF AdvanceChain, Ended, spool, capture, Queued
  <2>2. out # None
    BY <2>1, EventsTyped
  <2>3. PICK j \in captured : out = state.head \o ChunksUpTo(j, Chunks[j])
    BY <2>2 DEF QueueInv, OutstandingIsQueued
  <2>4. PICK n \in Nat : n = Chunks[j]
    BY JobAssumption DEF Typed, TypeOK
  <2>5. state.head \in Event /\ j \in Job
    BY EventsTyped DEF Typed, TypeOK
  <2>6. /\ Len(state.head) \in Nat /\ Len(out) = Len(state.head) + n
        /\ \A i \in 1 .. Len(state.head) : out[i] = state.head[i]
        /\ \A i \in 1 .. n : out[Len(state.head) + i] = Entry(j, i)
    <3> DEFINE e == state.head \o ChunksUpTo(j, n)
    <3>1. /\ Len(e) = Len(state.head) + n
          /\ \A i \in 1 .. Len(state.head) : e[i] = state.head[i]
          /\ \A i \in 1 .. n : e[Len(state.head) + i] = Entry(j, i)
      BY <2>5, CommandEvents
    <3>2. Len(state.head) \in Nat
      BY <2>5 DEF Event
    <3>3. out = e
      BY <2>3, <2>4
    <3> HIDE DEF e, out
    <3> QED
      BY <3>1, <3>2, <3>3
  <2>7. Unique(out)
    BY <2>1 DEF UniqueInv, Queued
  <2> HIDE DEF out
  <2>8. ASSUME NEW i \in 1 .. Len(out) PROVE out[i].job \in captured
    <3>1. CASE i <= Len(state.head)
      BY <2>6, <2>8, <3>1 DEF UniqueInv
    <3>2. CASE ~(i <= Len(state.head))
      <4>1. /\ i - Len(state.head) \in 1 .. n
            /\ Len(state.head) + (i - Len(state.head)) = i
        BY <2>6, <2>8, <3>2
      <4>2. out[i] = Entry(j, i - Len(state.head))
        BY <2>6, <4>1
      <4> QED
        BY <4>2 DEF Entry
    <3> QED
      BY <3>1, <3>2
  <2> QED
    BY <2>1, <2>7, <2>8 DEF UniqueInv, Unique
<1>15. CASE UNCHANGED vars
  BY <1>1, <1>15 DEF vars, spool, locals, capture, Queued
<1> QED
  BY <1>2, <1>3, <1>4, <1>5, <1>6, <1>7, <1>8, <1>9, <1>10, <1>11, <1>12, <1>13, <1>14, <1>15
     DEF Next, Run

(***************************************************************************)
(* No command is in the collector's chain twice, whichever step of its     *)
(* capture a crash repeats.                                                *)
(***************************************************************************)
THEOREM CommandsUnique == Spec => []CommandsAreUnique
<1>1. Init => UniqueInv
  <2> SUFFICES ASSUME Init PROVE UniqueInv
    OBVIOUS
  <2>1. Len(<<>>) = 0
    OBVIOUS
  <2>2. chain = <<>> /\ state.head = <<>> /\ Queued = {} /\ pc = "idle"
    BY DEF Init, Queued
  <2> QED
    BY <2>1, <2>2 DEF UniqueInv, Unique
<1>2. Typed /\ UniqueInv => CommandsAreUnique
  <2> SUFFICES ASSUME Typed, UniqueInv PROVE CommandsAreUnique
    OBVIOUS
  <2>1. DOMAIN chain = 1 .. Len(chain)
    BY EventsTyped DEF Event
  <2> QED
    BY <2>1 DEF UniqueInv, Unique, CommandsAreUnique
<1> QED
  BY <1>1, <1>2, InitTyped, NextTyped, QueueCorrect, NextUniqueInv, PTL DEF Spec

-----------------------------------------------------------------------------
(***************************************************************************)
(* Until the first crash the spool holds one command the collector has not *)
(* got yet at most: the one being enqueued or awaited, which continues the *)
(* head of chain-state.json.                                               *)
(***************************************************************************)
At(j, k) == state.head \o ChunksUpTo(j, k)

Only(j) ==
    \A e \in outbox : IsPrefix(e, chain) \/ \E k \in 1 .. Chunks[j] : e = At(j, k)

OneCommand ==
    /\ pc \in {"enqueue", "save"} =>
          state.outstanding = None /\ chain = state.head /\ Only(current)
    /\ pc \notin {"enqueue", "save"} /\ state.outstanding = None =>
          chain = state.head /\ \A e \in outbox : IsPrefix(e, chain)
    /\ state.outstanding # None =>
          \E j \in Job :
              /\ state.outstanding = At(j, Chunks[j])
              /\ \E m \in 0 .. Chunks[j] : chain = At(j, m)
              /\ Only(j)

(***************************************************************************)
(* Every step that is no crash keeps OneCommand.                           *)
(***************************************************************************)
LEMMA NextOneCommand ==
    ASSUME Typed, ChainInv, OneCommand, [Next]_vars, ~Crash
    PROVE  OneCommand'
<1>1. ASSUME UNCHANGED <<state, chain>>, outbox' \subseteq outbox,
             \/ pc \notin {"enqueue", "save"} /\ pc' \notin {"enqueue", "save"}
             \/ UNCHANGED <<pc, current>>
      PROVE  OneCommand'
  <2>1. \A j : Only(j) => Only(j)'
    BY <1>1 DEF Only, At
  <2> QED
    BY <1>1, <2>1 DEF OneCommand, At
<1>2. CASE (\E j \in Job : RecordEnd(j) \/ LogPart(j)) \/ LogEnd \/ Rotate
  BY <1>1, <1>2 DEF RecordEnd, LogPart, LogEnd, Rotate, spool, locals
<1>3. CASE StatLog \/ ReadLog \/ QueueJob \/ SaveCursor
  BY <1>1, <1>3 DEF StatLog, ReadLog, QueueJob, SaveCursor, spool
<1>4. CASE NothingToCapture
  BY <1>1, <1>4 DEF NothingToCapture, spool
<1>5. ASSUME NEW j \in Job, DropJob(j) \/ SkipCaptured(j) PROVE OneCommand'
  BY <1>1, <1>5 DEF DropJob, SkipCaptured, FirstJob, spool, locals
<1>6. ASSUME NEW j \in Job, WriteArtifact(j) PROVE OneCommand'
  <2>1. /\ pc = "choose" /\ pc' = "enqueue" /\ current' = j /\ state.outstanding = None
        /\ UNCHANGED <<state, outbox, chain>>
    BY <1>6 DEF WriteArtifact, FirstJob, spool
  <2>2. chain = state.head /\ \A e \in outbox : IsPrefix(e, chain)
    BY <2>1 DEF OneCommand
  <2>3. Only(j)'
    BY <2>1, <2>2 DEF Only
  <2> QED
    BY <2>1, <2>2, <2>3 DEF OneCommand, Only, At
<1>7. CASE EnqueueChunk
  <2>1. /\ pc = "enqueue" /\ pc' = "enqueue" /\ posts < Chunks[current]
        /\ outbox' \subseteq outbox \cup {At(current, posts + 1)}
        /\ UNCHANGED <<state, chain, current>>
    BY <1>7 DEF EnqueueChunk, At
  <2>2. posts \in Nat /\ Chunks[current] \in Nat
    BY <2>1, EventsTyped, JobAssumption
  <2>3. posts + 1 \in 1 .. Chunks[current]
    BY <2>1, <2>2
  <2>4. Only(current)'
    BY <2>1, <2>3 DEF OneCommand, Only, At
  <2> QED
    BY <2>1, <2>4 DEF OneCommand
<1>8. CASE WriteCaptured
  <2>1. pc = "enqueue" /\ pc' = "save" /\ UNCHANGED <<state, outbox, chain, current>>
    BY <1>8 DEF WriteCaptured, spool, locals
  <2> QED
    BY <2>1 DEF OneCommand, Only, At
<1>9. CASE SaveState
  <2>1. /\ pc = "save" /\ pc' = "unlink" /\ state'.head = state.head
        /\ state'.outstanding = At(current, Chunks[current])
        /\ UNCHANGED <<outbox, chain>>
    BY <1>9 DEF SaveState, spool, Typed, At
  <2>2. PICK j \in Job : j = current
    BY <2>1, EventsTyped
  <2>3. Chunks[j] \in Nat /\ state.head \in Event
    BY EventsTyped, JobAssumption
  <2>4. 0 \in 0 .. Chunks[j] /\ chain' = At(j, 0)'
    BY <2>1, <2>3, CommandPrefixes DEF OneCommand, At
  <2>5. Only(j)'
    BY <2>1, <2>2 DEF OneCommand, Only, At
  <2>6. state'.outstanding = At(j, Chunks[j])' /\ state'.outstanding # None
    <3>1. state'.outstanding = At(j, Chunks[j])'
      BY <2>1, <2>2 DEF At
    <3>2. At(j, Chunks[j]) \in Event
      BY <2>3, CommandEvents DEF At
    <3> QED
      BY <2>1, <2>2, <3>1, <3>2, EventsTyped
  <2> QED
    BY <2>1, <2>4, <2>5, <2>6 DEF OneCommand
<1>10. CASE UnlinkJob
  BY <1>1, <1>10 DEF UnlinkJob, spool
<1>11. ASSUME NEW e \in outbox, Deliver(e) PROVE OneCommand'
  <2>1. /\ pc = "forward" /\ pc' = "settle"
        /\ UNCHANGED <<state, outbox>>
        /\ chain' = IF IsPrefix(e, chain) THEN chain ELSE e
    BY <1>11 DEF Deliver
  <2>2. CASE IsPrefix(e, chain)
    BY <1>1, <2>1, <2>2
  <2>3. CASE ~IsPrefix(e, chain)
    <3>1. state.outstanding # None
      BY <2>1, <2>3 DEF OneCommand
    <3>2. PICK j \in Job : state.outstanding = At(j, Chunks[j]) /\ Only(j)
      BY <3>1 DEF OneCommand
    <3>3. PICK k \in 1 .. Chunks[j] : e = At(j, k)
      BY <2>3, <3>2 DEF Only
    <3>4. /\ chain \in Seq(Part) /\ chain' \in Seq(Part)
          /\ \A f \in outbox : f \in Seq(Part)
      BY <2>1, EventsTyped DEF Event
    <3>5. \A f \in outbox : IsPrefix(f, chain) => IsPrefix(f, chain')
      BY <1>11, <3>4, ChainGrows, PrefixTransitive
    <3>6. Only(j)'
      BY <2>1, <3>2, <3>5 DEF Only, At
    <3>7. k \in 0 .. Chunks[j] /\ chain' = At(j, k)'
      BY <2>1, <2>3, <3>3, JobAssumption DEF At
    <3>8. state'.outstanding = At(j, Chunks[j])'
      BY <2>1, <3>2 DEF At
    <3> QED
      BY <2>1, <3>1, <3>6, <3>7, <3>8 DEF OneCommand
  <2> QED
    BY <2>2, <2>3
<1>12. CASE Settle
  BY <1>1, <1>12 DEF Settle
<1>13. CASE StopForwarding \/ KeepChain
  BY <1>1, <1>13 DEF StopForwarding, KeepChain, Ended, spool
<1>14. CASE AdvanceChain
  <2>1. /\ pc' = "idle" /\ state.outstanding \in acknowledged
        /\ state'.head = state.outstanding /\ state'.outstanding = None
        /\ UNCHANGED <<outbox, chain>>
    BY <1>14 DEF AdvanceChain, Ended, spool
  <2>2. state.outstanding # None
    BY <2>1, EventsTyped
  <2>3. PICK j \in Job : /\ state.outstanding = At(j, Chunks[j]) /\ Only(j)
                         /\ \E m \in 0 .. Chunks[j] : chain = At(j, m)
    BY <2>2 DEF OneCommand
  <2>4. PICK m \in 0 .. Chunks[j] : chain = At(j, m)
    BY <2>3
  <2>5. Chunks[j] \in Nat /\ state.head \in Event
    BY JobAssumption, EventsTyped
  <2>6. IsPrefix(At(j, Chunks[j]), At(j, m))
    BY <2>1, <2>3, <2>4 DEF ChainInv
  <2>7. m = Chunks[j]
    <3>1. Chunks[j] <= m
      BY <2>5, <2>6, CommandPrefixes DEF At
    <3> QED
      BY <2>5, <3>1
  <2>8. chain = state.outstanding
    BY <2>3, <2>4, <2>7
  <2>9. ASSUME NEW k \in 1 .. Chunks[j] PROVE IsPrefix(At(j, k), At(j, Chunks[j]))
    BY <2>5, <2>9, CommandPrefixes DEF At
  <2>10. \A e \in outbox : IsPrefix(e, chain)
    BY <2>3, <2>8, <2>9 DEF Only
  <2> QED
    BY <2>1, <2>8, <2>10 DEF OneCommand
<1>15. CASE UNCHANGED vars
  BY <1>1, <1>15 DEF vars, spool, locals
<1> QED
  BY <1>2, <1>3, <1>4, <1>5, <1>6, <1>7, <1>8, <1>9, <1>10, <1>11, <1>12, <1>13, <1>14, <1>15
     DEF Next, Run

(***************************************************************************)
(* Line 265: one command at a time preserves the hash chain, as long as no *)
(* run is cut short: what the spool holds is in the collector's chain or   *)
(* can still extend it, and what can extend it belongs to one command.     *)
(***************************************************************************)
THEOREM OneAtATimeUntilCrash == Spec => []ExtendsUntilCrash
<1>1. Init => OneCommand
  BY DEF Init, OneCommand
<1>2. Typed /\ ChainInv /\ (crashes = 0 => OneCommand) /\ [Next]_vars
         => (crashes = 0 => OneCommand)'
  <2> SUFFICES ASSUME Typed, ChainInv, crashes = 0 => OneCommand, [Next]_vars, crashes' = 0
               PROVE  OneCommand'
    OBVIOUS
  <2>1. ~Crash
    BY JobAssumption DEF Crash, Typed, TypeOK
  <2>2. crashes = 0
    BY <2>1 DEF Next, Run, vars, locals, RecordEnd, LogPart, LogEnd, Rotate, StatLog, ReadLog,
       QueueJob, SaveCursor, NothingToCapture, DropJob, SkipCaptured, WriteArtifact,
       EnqueueChunk, WriteCaptured, SaveState, UnlinkJob, Deliver, Settle, StopForwarding,
       AdvanceChain, KeepChain
  <2> QED
    BY <2>1, <2>2, NextOneCommand
<1>3. Typed /\ OneCommand => OutboxExtendsChain
  <2> SUFFICES ASSUME Typed, OneCommand, NEW e \in outbox \ Accepted,
                      NEW f \in outbox \ Accepted
               PROVE  IsPrefix(chain, e) /\ Last(e).job = Last(f).job
    BY DEF OutboxExtendsChain
  <2>1. /\ chain \in Seq(Part) /\ e \in Seq(Part) /\ f \in Seq(Part)
        /\ e # <<>> /\ f # <<>> /\ state.head \in Event
    BY EventsTyped DEF Event
  <2>2. ~IsPrefix(e, chain) /\ ~IsPrefix(f, chain)
    BY <2>1, PrefixesAreSo DEF Accepted
  <2>3. PICK j \in Job : Only(j) /\ \E m \in 0 .. Chunks[j] : chain = At(j, m)
    <3>1. CASE pc \in {"enqueue", "save"}
      <4>1. /\ current \in Job /\ Chunks[current] \in Nat
        BY <3>1, EventsTyped, JobAssumption
      <4>2. chain = At(current, 0) /\ 0 \in 0 .. Chunks[current] /\ Only(current)
        BY <2>1, <3>1, <4>1, CommandPrefixes DEF OneCommand, At
      <4> QED
        BY <4>1, <4>2
    <3>2. CASE state.outstanding # None
      BY <3>2 DEF OneCommand
    <3>3. CASE pc \notin {"enqueue", "save"} /\ state.outstanding = None
      BY <2>2, <3>3 DEF OneCommand
    <3> QED
      BY <3>1, <3>2, <3>3
  <2>4. PICK m \in 0 .. Chunks[j] : chain = At(j, m)
    BY <2>3
  <2>5. ASSUME NEW g \in outbox, ~IsPrefix(g, chain)
        PROVE  IsPrefix(chain, g) /\ Last(g).job = j
    <3>1. PICK k \in 1 .. Chunks[j] : g = At(j, k)
      BY <2>3, <2>5 DEF Only
    <3>2. Chunks[j] \in Nat /\ k \in Nat /\ m \in Nat
      BY JobAssumption
    <3>3. IsPrefix(At(j, k), At(j, m)) <=> k <= m
      BY <2>1, <3>2, CommandPrefixes DEF At
    <3>4. IsPrefix(At(j, m), At(j, k)) <=> m <= k
      BY <2>1, <3>2, CommandPrefixes DEF At
    <3>5. IsPrefix(chain, g)
      <4>1. ~IsPrefix(At(j, k), At(j, m))
        BY <2>4, <2>5, <3>1, Zenon
      <4>2. m <= k
        BY <3>2, <3>3, <4>1
      <4>3. IsPrefix(At(j, m), At(j, k))
        BY <3>4, <4>2, Zenon
      <4> QED
        BY <2>4, <3>1, <4>3
    <3>6. Len(g) = Len(state.head) + k /\ g[Len(state.head) + k] = Entry(j, k)
      <4>1. /\ Len(At(j, k)) = Len(state.head) + k
            /\ \A i \in 1 .. k : At(j, k)[Len(state.head) + i] = Entry(j, i)
        BY <2>1, <3>2, CommandEvents DEF At
      <4>2. k \in 1 .. k
        BY <3>1, <3>2
      <4> QED
        BY <3>1, <4>1, <4>2
    <3>7. Last(g) = Entry(j, k)
      BY <3>6 DEF Last
    <3> QED
      BY <3>5, <3>7 DEF Entry
  <2> QED
    BY <2>2, <2>5
<1> QED
  BY <1>1, <1>2, <1>3, ChainCorrect, PTL DEF Spec, ExtendsUntilCrash
=============================================================================
