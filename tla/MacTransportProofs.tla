-------------------------- MODULE MacTransportProofs --------------------------
(***************************************************************************)
(* Proofs about MacTransport, for any commands, sizes of their outputs,    *)
(* lengths of a run and numbers of crashes.                                *)
(***************************************************************************)
EXTENDS MacTransport, SharedLemmas

Part == [job : Job, chunk : Nat]
ChainState == [head : EventSeq, outstanding : EventSeq \cup {None}]

(***************************************************************************)
(* What TypeOK leaves open: what a run has in hand, and where the state    *)
(* file can be read.                                                       *)
(***************************************************************************)
Typed ==
    /\ TypeOK
    /\ state = Torn \/ state \in ChainState
    /\ memory \in ChainState
    /\ posts \in Nat
    /\ pc \in {"choose", "enqueue", "unlink"} => memory = state
    /\ pc \in {"choose", "enqueue", "unlink", "forward", "settle", "reconcile"} =>
          state \in ChainState
    /\ pc \in {"write", "advance"} => state = Torn

-----------------------------------------------------------------------------
(***************************************************************************)
(* The events of a command: its chunks after the head they continue.       *)
(***************************************************************************)
LEMMA CommandEvents ==
    ASSUME NEW h \in EventSeq, NEW j \in Job, NEW k \in Nat
    PROVE  LET e == h \o ChunksUpTo(j, k) IN
           /\ e \in EventSeq /\ Len(e) = Len(h) + k
           /\ \A i \in 1 .. Len(h) : e[i] = h[i]
           /\ \A i \in 1 .. k : e[Len(h) + i] = Entry(j, i)
<1>1. /\ ChunksUpTo(j, k) \in Seq(Part) /\ Len(ChunksUpTo(j, k)) = k
      /\ \A i \in 1 .. k : ChunksUpTo(j, k)[i] = Entry(j, i)
  BY DEF ChunksUpTo, Entry, Part
<1>2. h \in Seq(Part)
  BY DEF EventSeq, Part
<1>3. ASSUME NEW c \in Seq(Part), Len(c) = k
      PROVE  /\ h \o c \in Seq(Part) /\ Len(h \o c) = Len(h) + k
             /\ \A i \in 1 .. Len(h) : (h \o c)[i] = h[i]
             /\ \A i \in 1 .. k : (h \o c)[Len(h) + i] = c[i]
  BY <1>2, <1>3
<1> QED
  BY <1>1, <1>3 DEF EventSeq, Part

(***************************************************************************)
(* Of two events of one command, the one with fewer chunks comes first.    *)
(***************************************************************************)
LEMMA CommandPrefixes ==
    ASSUME NEW h \in EventSeq, NEW j \in Job, NEW k \in Nat, NEW m \in Nat
    PROVE  /\ IsPrefix(h \o ChunksUpTo(j, k), h \o ChunksUpTo(j, m)) <=> k <= m
           /\ h \o ChunksUpTo(j, 0) = h
           /\ k > 0 => h \o ChunksUpTo(j, k) # <<>>
<1> DEFINE d == h \o ChunksUpTo(j, k)
           e == h \o ChunksUpTo(j, m)
<1>1. /\ d \in EventSeq /\ Len(d) = Len(h) + k
      /\ \A i \in 1 .. Len(h) : d[i] = h[i]
      /\ \A i \in 1 .. k : d[Len(h) + i] = Entry(j, i)
  BY CommandEvents
<1>2. /\ e \in EventSeq /\ Len(e) = Len(h) + m
      /\ \A i \in 1 .. Len(h) : e[i] = h[i]
      /\ \A i \in 1 .. m : e[Len(h) + i] = Entry(j, i)
  BY CommandEvents
<1> HIDE DEF d, e
<1>3. Len(h) \in Nat
  BY DEF EventSeq, Part
<1>4. ASSUME k <= m, NEW i \in 1 .. Len(d) PROVE d[i] = e[i]
  <2>1. CASE i <= Len(h)
    BY <1>1, <1>2, <1>3, <2>1
  <2>2. CASE ~(i <= Len(h))
    <3>1. i - Len(h) \in 1 .. k /\ i - Len(h) \in 1 .. m /\ Len(h) + (i - Len(h)) = i
      BY <1>1, <1>3, <1>4, <2>2
    <3> QED
      BY <1>1, <1>2, <3>1
  <2> QED
    BY <2>1, <2>2
<1>5. IsPrefix(d, e) <=> k <= m
  <2>1. IsPrefix(d, e) <=> Len(d) <= Len(e) /\ \A i \in 1 .. Len(d) : d[i] = e[i]
    <3>1. d \in Seq(Part) /\ e \in Seq(Part)
      BY <1>1, <1>2 DEF EventSeq, Part
    <3>2. \A s, t \in Seq(Part) :
             IsPrefix(s, t) <=> Len(s) <= Len(t) /\ \A i \in 1 .. Len(s) : s[i] = t[i]
      BY PrefixByIndex
    <3> QED
      BY <3>1, <3>2, Zenon
  <2>2. Len(d) <= Len(e) <=> k <= m
    BY <1>1, <1>2, <1>3
  <2> QED
    BY <1>4, <2>1, <2>2
<1>6. h \o ChunksUpTo(j, 0) = h
  <2>1. ChunksUpTo(j, 0) = <<>>
    BY DEF ChunksUpTo
  <2> QED
    BY <2>1, ConcatEmptySeq DEF EventSeq, Part
<1>7. k > 0 => d # <<>>
  BY <1>1, <1>3
<1> QED
  BY <1>5, <1>6, <1>7 DEF d, e

(***************************************************************************)
(* The first chunks of a command's last event are an event of it.          *)
(***************************************************************************)
LEMMA CommandSubSeq ==
    ASSUME NEW h \in EventSeq, NEW j \in Job, NEW n \in Nat, NEW k \in 1 .. n
    PROVE  SubSeq(h \o ChunksUpTo(j, n), 1, Len(h) + k) = h \o ChunksUpTo(j, k)
<1> DEFINE d == h \o ChunksUpTo(j, k)
           e == h \o ChunksUpTo(j, n)
<1>1. k \in Nat /\ k <= n
  OBVIOUS
<1>2. d \in Seq(Part) /\ Len(d) = Len(h) + k
  BY <1>1, CommandEvents DEF EventSeq, Part
<1>3. IsPrefix(d, e)
  BY <1>1, CommandPrefixes
<1> HIDE DEF d, e
<1>4. d = SubSeq(e, 1, Len(d))
  BY <1>2, <1>3, SubSeqFull DEF IsPrefix
<1>5. SubSeq(e, 1, Len(h) + k) = d
  BY <1>2, <1>4
<1> QED
  BY <1>5 DEF d, e

-----------------------------------------------------------------------------
(***************************************************************************)
(* Nothing has been recorded, queued or sent at first.                     *)
(***************************************************************************)
LEMMA InitTyped == Init => Typed
<1> SUFFICES ASSUME Init PROVE Typed
  OBVIOUS
<1>1. <<>> \in EventSeq
  BY DEF EventSeq
<1>2. state \in ChainState /\ memory \in ChainState /\ chain \in EventSeq
  BY <1>1 DEF Init, Fresh, ChainState
<1>3. /\ recorded \subseteq Job /\ ended \subseteq Job /\ jobs \subseteq ended
      /\ blank \subseteq ended
      /\ todo \subseteq jobs /\ Queued = {} /\ crashes \in 0 .. MaxCrashes
  BY JobAssumption DEF Init, Queued
<1>4. pc = "idle" /\ current = None /\ posts = 0
  BY DEF Init
<1>5. state.head \in EventSeq /\ (state.outstanding = None \/ state.outstanding \in EventSeq)
  BY <1>2 DEF ChainState
<1> QED
  BY <1>2, <1>3, <1>4, <1>5 DEF Typed, TypeOK

(***************************************************************************)
(* The recorded shell.                                                     *)
(***************************************************************************)
LEMMA ShellTyped ==
    ASSUME Typed, \E j \in Job : RecordEnd(j) \/ CreateJob(j) \/ WriteJob(j)
    PROVE  Typed'
<1>1. ASSUME NEW j \in Job, RecordEnd(j) PROVE Typed'
  BY <1>1 DEF RecordEnd, Typed, TypeOK, Queued, spool, locals
<1>2. ASSUME NEW j \in Job, CreateJob(j) PROVE Typed'
  BY <1>2 DEF CreateJob, Typed, TypeOK, Queued, spool, locals
<1>3. ASSUME NEW j \in Job, WriteJob(j) PROVE Typed'
  BY <1>3 DEF WriteJob, Typed, TypeOK, Queued, spool, locals
<1> QED
  BY <1>1, <1>2, <1>3

(***************************************************************************)
(* Capturing jobs.                                                         *)
(***************************************************************************)
LEMMA CaptureTyped ==
    ASSUME Typed,
           \/ StillOutstanding \/ StartCapture
           \/ \E j \in Job : SkipJob(j) \/ TakeJob(j)
           \/ EnqueueChunk \/ TruncateState \/ WriteState \/ UnlinkJob \/ CaptureDone
    PROVE  Typed'
<1> USE DEF shell, spool, locals
<1>1. CASE StillOutstanding
  BY <1>1 DEF StillOutstanding, Typed, TypeOK, Queued
<1>2. CASE StartCapture
  BY <1>2 DEF StartCapture, Typed, TypeOK, Queued
<1>3. ASSUME NEW j \in Job, SkipJob(j) PROVE Typed'
  BY <1>3 DEF SkipJob, FirstJob, Typed, TypeOK, Queued
<1>4. ASSUME NEW j \in Job, TakeJob(j) PROVE Typed'
  <2>1. posts = 0 /\ 0 <= Chunks[j]
    BY <1>4, JobAssumption DEF TakeJob, FirstJob, Typed, TypeOK
  <2> QED
    BY <1>4, <2>1 DEF TakeJob, FirstJob, Typed, TypeOK, Queued
<1>5. CASE EnqueueChunk
  <2> DEFINE n == posts + 1
             e == memory.head \o ChunksUpTo(current, n)
  <2>1. /\ current \in Job /\ n \in Nat /\ n > 0 /\ n <= Chunks[current]
        /\ memory.head \in EventSeq
    BY <1>5, JobAssumption DEF EnqueueChunk, Typed, TypeOK, ChainState
  <2>2. /\ outbox' \subseteq outbox \cup {e} /\ posts' = n
        /\ pc' = "enqueue" /\ pc = "enqueue"
        /\ UNCHANGED <<shell, jobs, state, acknowledged, chain, memory, todo, current, crashes>>
    BY <1>5 DEF EnqueueChunk
  <2> HIDE DEF n
  <2>3. e \in EventSeq /\ e # <<>>
    BY <2>1, CommandEvents, CommandPrefixes
  <2> HIDE DEF e
  <2>4. \A f \in Queued' : f \in EventSeq /\ f # <<>>
    BY <2>2, <2>3 DEF Typed, TypeOK, Queued
  <2> QED
    BY <2>1, <2>2, <2>4 DEF Typed, TypeOK
<1>6. CASE TruncateState
  <2>1. /\ current \in Job /\ Chunks[current] \in Nat /\ memory.head \in EventSeq
    BY <1>6, JobAssumption DEF TruncateState, Typed, TypeOK, ChainState
  <2>2. memory.head \o ChunksUpTo(current, Chunks[current]) \in EventSeq
    BY <2>1, CommandEvents
  <2>3. memory' \in ChainState
    BY <1>6, <2>2 DEF TruncateState, Typed, ChainState
  <2>4. /\ pc = "enqueue" /\ pc' = "write" /\ state' = Torn
        /\ UNCHANGED <<shell, jobs, spool, todo, current, posts, crashes>>
    BY <1>6 DEF TruncateState
  <2> QED
    BY <2>3, <2>4 DEF Typed, TypeOK, Queued
<1>7. CASE WriteState
  <2>1. /\ pc = "write" /\ pc' = "unlink" /\ state' = memory
        /\ UNCHANGED <<shell, jobs, spool, memory, todo, current, posts, crashes>>
    BY <1>7 DEF WriteState
  <2>2. memory.head \in EventSeq /\ (memory.outstanding = None \/ memory.outstanding \in EventSeq)
    BY DEF Typed, ChainState
  <2> QED
    BY <2>1, <2>2 DEF Typed, TypeOK, Queued
<1>8. CASE UnlinkJob
  BY <1>8 DEF UnlinkJob, Typed, TypeOK, Queued
<1>9. CASE CaptureDone
  BY <1>9 DEF CaptureDone, Typed, TypeOK, Queued
<1> QED
  BY <1>1, <1>2, <1>3, <1>4, <1>5, <1>6, <1>7, <1>8, <1>9

(***************************************************************************)
(* Forwarding, and the end of a run.                                       *)
(***************************************************************************)
LEMMA ForwardTyped ==
    ASSUME Typed,
           \/ \E e \in outbox : Deliver(e)
           \/ Settle \/ StopForwarding
           \/ KeepChain \/ TruncateToAdvance \/ AdvanceChain \/ Crash
           \/ \E j \in Job : ReadBlank(j)
    PROVE  Typed'
<1> USE DEF shell, spool
<1>1. ASSUME NEW e \in outbox, Deliver(e) PROVE Typed'
  BY <1>1 DEF Deliver, Typed, TypeOK, Queued
<1>2. CASE Settle
  <2>1. /\ pc' = "forward" /\ current' = None /\ posts' \in Nat
        /\ Queued' = Queued /\ pc = "settle"
        /\ UNCHANGED <<shell, jobs, state, chain, memory, todo, crashes>>
    BY <1>2 DEF Settle, Typed, TypeOK, Queued
  <2> QED
    BY <2>1 DEF Typed, TypeOK
<1>3. CASE StopForwarding
  BY <1>3 DEF StopForwarding, Typed, TypeOK, Queued
<1>4. ASSUME Ended, UNCHANGED <<shell, jobs, spool>>, crashes' \in 0 .. MaxCrashes,
             state' = Torn \/ state' \in ChainState
      PROVE  Typed'
  <2>1. <<>> \in EventSeq
    BY DEF EventSeq
  <2>2. memory' \in ChainState /\ posts' \in Nat
    BY <1>4, <2>1 DEF Ended, Fresh, ChainState
  <2>3. \/ state' = Torn
        \/ /\ state'.head \in EventSeq
           /\ state'.outstanding = None \/ state'.outstanding \in EventSeq
    BY <1>4 DEF ChainState
  <2> QED
    BY <1>4, <2>2, <2>3 DEF Ended, Typed, TypeOK, Queued
<1>5. crashes \in 0 .. MaxCrashes /\ (state = Torn \/ state \in ChainState)
  BY DEF Typed, TypeOK
<1>6. CASE KeepChain
  BY <1>4, <1>5, <1>6 DEF KeepChain
<1>7. CASE TruncateToAdvance
  <2>1. memory' \in ChainState
    BY <1>7 DEF TruncateToAdvance, Typed, TypeOK, Queued, ChainState
  <2> QED
    BY <1>7, <2>1 DEF TruncateToAdvance, Typed, TypeOK, Queued
<1>8. CASE AdvanceChain
  BY <1>4, <1>5, <1>8 DEF AdvanceChain, Typed
<1>9. CASE Crash
  <2>1. crashes' \in 0 .. MaxCrashes
    BY <1>5, <1>9, JobAssumption DEF Crash
  <2> QED
    BY <1>4, <1>5, <1>9, <2>1 DEF Crash
<1>10. ASSUME NEW j \in Job, ReadBlank(j) PROVE Typed'
  BY <1>4, <1>5, <1>10 DEF ReadBlank
<1> QED
  BY <1>1, <1>2, <1>3, <1>6, <1>7, <1>8, <1>9, <1>10

(***************************************************************************)
(* Every step keeps the types.                                             *)
(***************************************************************************)
LEMMA NextTyped == Typed /\ [Next]_vars => Typed'
<1>1. ASSUME Typed, UNCHANGED vars PROVE Typed'
  BY <1>1 DEF vars, Typed, TypeOK, Queued, shell, spool, locals
<1> QED
  BY <1>1, ShellTyped, CaptureTyped, ForwardTyped DEF Next, Run

(***************************************************************************)
(* The type invariant: runs hold what their place in the program says, and *)
(* whatever is in the spool is an event.                                   *)
(***************************************************************************)
THEOREM TypeCorrect == Spec => []TypeOK
<1>1. Typed => TypeOK
  BY DEF Typed
<1> QED
  BY <1>1, InitTyped, NextTyped, PTL DEF Spec

-----------------------------------------------------------------------------
(***************************************************************************)
(* The collector's chain goes on from what was acknowledged, from the head *)
(* in the state file and from the one a run has in memory.                 *)
(***************************************************************************)
ChainInv ==
    /\ state # Torn => IsPrefix(state.head, chain)
    /\ IsPrefix(memory.head, chain)
    /\ \A e \in acknowledged : IsPrefix(e, chain)
    /\ pc = "settle" => IsPrefix(current, chain)

(***************************************************************************)
(* What the types say of the events in the spool and of the run.           *)
(***************************************************************************)
LEMMA EventsTyped ==
    ASSUME Typed
    PROVE  /\ state # Torn => state.head \in Seq(Part)
           /\ memory.head \in Seq(Part) /\ chain \in Seq(Part)
           /\ \A e \in outbox \cup acknowledged : e \in Seq(Part) /\ e # <<>>
           /\ pc = "settle" => current \in Seq(Part)
           /\ posts \in Nat
           /\ pc \in {"enqueue", "write", "unlink"} =>
                 current \in Job /\ current \in jobs /\ posts <= Chunks[current]
           /\ None \notin Seq(Part)
  BY JobAssumption DEF Typed, TypeOK, Queued, EventSeq, Part, ChainState

(***************************************************************************)
(* The collector's chain only grows.                                       *)
(***************************************************************************)
LEMMA ChainGrows ==
    ASSUME Typed, NEW e \in outbox, Deliver(e)
    PROVE  IsPrefix(chain, chain') /\ IsPrefix(e, chain') /\ chain' \in Seq(Part)
<1>1. chain \in Seq(Part) /\ e \in Seq(Part) /\ e # <<>>
  BY EventsTyped
<1>2. CASE IsPrefix(e, chain)
  BY <1>1, <1>2, PrefixReflexive DEF Deliver
<1>3. CASE ~IsPrefix(e, chain)
  BY <1>1, <1>3, PrefixReflexive, FrontIsPrefix DEF Deliver
<1> QED
  BY <1>2, <1>3

(***************************************************************************)
(* Every step keeps ChainInv.                                              *)
(***************************************************************************)
LEMMA NextChainInv == Typed /\ ChainInv /\ [Next]_vars => ChainInv'
<1> SUFFICES ASSUME Typed, ChainInv, [Next]_vars PROVE ChainInv'
  OBVIOUS
<1>1. ASSUME UNCHANGED <<acknowledged, chain>>, state' \in {state, memory, Torn},
             memory'.head \in {memory.head, state.head, <<>>},
             memory'.head = state.head => memory' = memory \/ state # Torn,
             pc' # "settle" \/ UNCHANGED <<pc, current>>
      PROVE  ChainInv'
  <2>1. IsPrefix(<<>>, chain)
    BY EventsTyped, PrefixReflexive
  <2>2. IsPrefix(memory'.head, chain)
    BY <1>1, <2>1 DEF ChainInv
  <2>3. state' # Torn => IsPrefix(state'.head, chain)
    BY <1>1 DEF ChainInv
  <2> QED
    BY <1>1, <2>2, <2>3 DEF ChainInv
<1>2. CASE \E j \in Job : RecordEnd(j) \/ CreateJob(j) \/ WriteJob(j)
  BY <1>1, <1>2 DEF RecordEnd, CreateJob, WriteJob, spool, locals
<1>3. CASE StillOutstanding \/ StartCapture
  BY <1>1, <1>3 DEF StillOutstanding, StartCapture, spool, locals
<1>4. ASSUME NEW j \in Job, SkipJob(j) \/ TakeJob(j) PROVE ChainInv'
  BY <1>1, <1>4 DEF SkipJob, TakeJob, FirstJob, spool
<1>5. CASE EnqueueChunk
  BY <1>1, <1>5 DEF EnqueueChunk
<1>6. CASE TruncateState
  <2>1. memory'.head = memory.head
    BY <1>6 DEF TruncateState, Typed, ChainState
  <2>2. UNCHANGED <<acknowledged, chain>> /\ state' = Torn /\ pc' # "settle"
    BY <1>6 DEF TruncateState, spool
  <2> QED
    BY <2>1, <2>2 DEF ChainInv
<1>7. CASE WriteState \/ UnlinkJob \/ CaptureDone
  BY <1>1, <1>7 DEF WriteState, UnlinkJob, CaptureDone, spool, locals
<1>8. ASSUME NEW e \in outbox, Deliver(e) PROVE ChainInv'
  <2>1. IsPrefix(chain, chain') /\ IsPrefix(e, chain') /\ chain' \in Seq(Part)
    BY <1>8, ChainGrows
  <2>2. /\ chain \in Seq(Part) /\ state # Torn => state.head \in Seq(Part)
        /\ memory.head \in Seq(Part)
        /\ \A f \in acknowledged : f \in Seq(Part)
    BY EventsTyped
  <2>3. /\ state # Torn => IsPrefix(state.head, chain')
        /\ IsPrefix(memory.head, chain')
        /\ \A f \in acknowledged : IsPrefix(f, chain')
    <3>1. chain \in Seq(Part)
      BY EventsTyped
    <3>2. \A s \in Seq(Part) : IsPrefix(s, chain) => IsPrefix(s, chain')
      BY <2>1, <3>1, PrefixTransitive
    <3> QED
      BY <3>2, EventsTyped DEF ChainInv
  <2>4. UNCHANGED <<state, acknowledged, memory>> /\ current' = e
    BY <1>8 DEF Deliver
  <2> QED
    BY <2>1, <2>3, <2>4 DEF ChainInv
<1>9. CASE Settle
  BY <1>9 DEF Settle, ChainInv
<1>10. CASE StopForwarding
  BY <1>1, <1>10 DEF StopForwarding, spool
<1>11. CASE KeepChain \/ Crash \/ \E j \in Job : ReadBlank(j)
  <2>1. memory'.head = <<>> /\ state' = state
    BY <1>11 DEF KeepChain, Crash, ReadBlank, Ended, Fresh
  <2>2. IsPrefix(<<>>, chain)
    BY EventsTyped, PrefixReflexive
  <2>3. UNCHANGED <<acknowledged, chain>> /\ pc' = "idle"
    BY <1>11 DEF KeepChain, Crash, ReadBlank, Ended, spool
  <2> QED
    BY <2>1, <2>2, <2>3 DEF ChainInv
<1>12. CASE TruncateToAdvance
  <2>1. /\ memory'.head = state.outstanding /\ state.outstanding \in acknowledged
        /\ state' = Torn /\ pc' = "advance" /\ UNCHANGED <<acknowledged, chain>>
    BY <1>12 DEF TruncateToAdvance, spool
  <2> QED
    BY <2>1 DEF ChainInv
<1>13. CASE AdvanceChain
  <2>1. memory'.head = <<>> /\ state' = memory
    BY <1>13 DEF AdvanceChain, Ended, Fresh
  <2>2. IsPrefix(<<>>, chain)
    BY EventsTyped, PrefixReflexive
  <2>3. UNCHANGED <<acknowledged, chain>> /\ pc' = "idle"
    BY <1>13 DEF AdvanceChain, Ended, spool
  <2> QED
    BY <2>1, <2>2, <2>3 DEF ChainInv
<1>14. CASE UNCHANGED vars
  BY <1>1, <1>14 DEF vars, spool, locals
<1> QED
  BY <1>2, <1>3, <1>4, <1>5, <1>6, <1>7, <1>8, <1>9, <1>10, <1>11, <1>12, <1>13, <1>14
     DEF Next, Run

(***************************************************************************)
(* The types and the chain's invariant hold together.                      *)
(***************************************************************************)
LEMMA ChainCorrect == Spec => [](Typed /\ ChainInv)
<1>1. Init => ChainInv
  <2> SUFFICES ASSUME Init PROVE ChainInv
    OBVIOUS
  <2>1. <<>> \in Seq(Part)
    OBVIOUS
  <2>2. IsPrefix(<<>>, <<>>)
    BY <2>1, PrefixReflexive, Zenon
  <2>3. state.head = <<>> /\ memory.head = <<>> /\ chain = <<>>
    BY DEF Init, Fresh
  <2> QED
    BY <2>2, <2>3 DEF Init, ChainInv
<1> QED
  BY <1>1, InitTyped, NextTyped, NextChainInv, PTL DEF Spec

-----------------------------------------------------------------------------
(***************************************************************************)
(* What a run has enqueued before it unlinks a job file, and before it     *)
(* waits for the last event, is in the spool.                              *)
(***************************************************************************)
Stored(j) ==
    \E h \in EventSeq : \A k \in 1 .. Chunks[j] : h \o ChunksUpTo(j, k) \in Queued

AllQueued(head, last) ==
    last # None => \A n \in Len(head) + 1 .. Len(last) : SubSeq(last, 1, n) \in Queued

QueueInv ==
    /\ state # Torn => AllQueued(state.head, state.outstanding)
    /\ \A j \in ended \ jobs : Stored(j)
    /\ pc = "enqueue" =>
          \A k \in 1 .. posts : memory.head \o ChunksUpTo(current, k) \in Queued
    /\ pc = "write" => AllQueued(memory.head, memory.outstanding)
    /\ pc \in {"write", "unlink"} => Stored(current)
    /\ pc = "advance" => memory.outstanding = None

(***************************************************************************)
(* Once all chunks of a job are in the spool, its file can go and its last *)
(* event can be waited for.                                                *)
(***************************************************************************)
LEMMA AllEnqueued ==
    ASSUME Typed, QueueInv, pc = "enqueue", posts = Chunks[current]
    PROVE  /\ Stored(current)
           /\ AllQueued(memory.head, memory.head \o ChunksUpTo(current, Chunks[current]))
<1>1. current \in Job /\ Chunks[current] \in Nat /\ memory.head \in EventSeq
  BY EventsTyped, JobAssumption DEF EventSeq, Part
<1>2. \A k \in 1 .. Chunks[current] : memory.head \o ChunksUpTo(current, k) \in Queued
  BY DEF QueueInv
<1>3. Stored(current)
  BY <1>1, <1>2 DEF Stored
<1> DEFINE e == memory.head \o ChunksUpTo(current, Chunks[current])
<1>4. Len(e) = Len(memory.head) + Chunks[current] /\ Len(memory.head) \in Nat
  <2>1. \A h \in EventSeq, j \in Job, k \in Nat :
           Len(h \o ChunksUpTo(j, k)) = Len(h) + k /\ Len(h) \in Nat
    BY CommandEvents DEF EventSeq
  <2> QED
    BY <1>1, <2>1, Zenon
<1>5. ASSUME NEW n \in Len(memory.head) + 1 .. Len(e)
      PROVE  SubSeq(e, 1, n) \in Queued
  <2>1. PICK k : k = n - Len(memory.head)
    OBVIOUS
  <2>2. k \in 1 .. Chunks[current] /\ n = Len(memory.head) + k
    BY <1>1, <1>4, <2>1
  <2>3. SubSeq(e, 1, Len(memory.head) + k) = memory.head \o ChunksUpTo(current, k)
    BY <1>1, <2>2, CommandSubSeq
  <2> HIDE DEF e
  <2> QED
    BY <1>2, <2>2, <2>3
<1> QED
  BY <1>3, <1>5 DEF AllQueued

(***************************************************************************)
(* Every step keeps QueueInv.                                              *)
(***************************************************************************)
LEMMA NextQueueInv == Typed /\ QueueInv /\ [Next]_vars => QueueInv'
<1> SUFFICES ASSUME Typed, QueueInv, [Next]_vars PROVE QueueInv'
  OBVIOUS
<1>1. ASSUME Queued \subseteq Queued',
             ended' \ jobs' \subseteq ended \ jobs,
             state' = state \/ state' = Torn
      PROVE  /\ state' # Torn => AllQueued(state.head, state.outstanding)'
             /\ \A j \in ended' \ jobs' : Stored(j)'
  BY <1>1 DEF QueueInv, AllQueued, Stored
<1>2. ASSUME Queued \subseteq Queued', ended' \ jobs' \subseteq ended \ jobs,
             state' = state \/ state' = Torn,
             \/ pc' \notin {"enqueue", "write", "unlink", "advance"}
             \/ UNCHANGED <<pc, memory, current, posts>>
      PROVE  QueueInv'
  <2>1. CASE pc' \notin {"enqueue", "write", "unlink", "advance"}
    BY <1>1, <1>2, <2>1 DEF QueueInv
  <2>2. CASE UNCHANGED <<pc, memory, current, posts>>
    <3>1. pc \in {"write", "unlink"} => Stored(current)'
      BY <1>2, <2>2 DEF QueueInv, Stored
    <3>2. pc = "write" => AllQueued(memory.head, memory.outstanding)'
      BY <1>2, <2>2 DEF QueueInv, AllQueued
    <3> QED
      BY <1>1, <1>2, <2>2, <3>1, <3>2 DEF QueueInv
  <2> QED
    BY <1>2, <2>1, <2>2
<1>3. CASE \E j \in Job : RecordEnd(j) \/ CreateJob(j) \/ WriteJob(j)
  BY <1>2, <1>3 DEF RecordEnd, CreateJob, WriteJob, spool, locals, Queued
<1>4. CASE StillOutstanding \/ StartCapture \/ CaptureDone
  BY <1>2, <1>4 DEF StillOutstanding, StartCapture, CaptureDone, shell, spool, locals, Queued
<1>5. ASSUME NEW j \in Job, SkipJob(j) PROVE QueueInv'
  BY <1>2, <1>5 DEF SkipJob, FirstJob, shell, spool, Queued
<1>6. ASSUME NEW j \in Job, TakeJob(j) PROVE QueueInv'
  <2>1. /\ pc' = "enqueue" /\ posts' = 0 /\ Queued' = Queued
        /\ UNCHANGED <<ended, jobs, state>>
    BY <1>6 DEF TakeJob, FirstJob, shell, spool, Queued, Typed, TypeOK
  <2> QED
    BY <1>1, <2>1 DEF QueueInv
<1>7. CASE EnqueueChunk
  <2> DEFINE e == memory.head \o ChunksUpTo(current, posts + 1)
  <2>1. /\ pc = "enqueue" /\ pc' = "enqueue" /\ posts' = posts + 1
        /\ UNCHANGED <<state, ended, jobs, memory, current>>
        /\ Queued' = Queued \cup {e}
    BY <1>7 DEF EnqueueChunk, shell, Queued
  <2> HIDE DEF e
  <2>2. ASSUME NEW k \in 1 .. posts'
        PROVE  memory.head \o ChunksUpTo(current, k) \in Queued'
    <3>1. posts \in Nat
      BY EventsTyped
    <3>2. CASE k = posts + 1
      BY <2>1, <3>2 DEF e
    <3>3. CASE k # posts + 1
      BY <2>1, <3>1, <3>3 DEF QueueInv
    <3> QED
      BY <3>2, <3>3
  <2> QED
    BY <1>1, <2>1, <2>2 DEF QueueInv
<1>8. CASE TruncateState
  <2>1. /\ pc = "enqueue" /\ pc' = "write" /\ posts = Chunks[current] /\ state' = Torn
        /\ Queued' = Queued /\ UNCHANGED <<ended, jobs, current>>
    BY <1>8 DEF TruncateState, shell, spool, Queued
  <2>2. /\ memory'.head = memory.head
        /\ memory'.outstanding = memory.head \o ChunksUpTo(current, Chunks[current])
    BY <1>8 DEF TruncateState, Typed, ChainState
  <2>3. Stored(current)' /\ AllQueued(memory.head, memory.outstanding)'
    BY <2>1, <2>2, AllEnqueued DEF Stored, AllQueued
  <2> QED
    BY <1>1, <2>1, <2>3 DEF QueueInv
<1>9. CASE WriteState
  <2>1. /\ pc = "write" /\ pc' = "unlink" /\ state' = memory
        /\ Queued' = Queued /\ UNCHANGED <<ended, jobs, current>>
    BY <1>9 DEF WriteState, shell, spool, locals, Queued
  <2>2. AllQueued(state.head, state.outstanding)' /\ Stored(current)'
    BY <2>1 DEF QueueInv, AllQueued, Stored
  <2>3. \A j \in ended' \ jobs' : Stored(j)'
    BY <2>1 DEF QueueInv, Stored
  <2> QED
    BY <2>1, <2>2, <2>3 DEF QueueInv
<1>10. CASE UnlinkJob
  <2>1. /\ pc = "unlink" /\ pc' = "choose" /\ Queued' = Queued
        /\ jobs' = jobs \ {current} /\ UNCHANGED <<ended, state>>
    BY <1>10 DEF UnlinkJob, shell, spool, Queued
  <2>2. \A j \in ended' \ jobs' : Stored(j)'
    BY <2>1 DEF QueueInv, Stored
  <2>3. state' # Torn => AllQueued(state.head, state.outstanding)'
    BY <2>1 DEF QueueInv, AllQueued
  <2> QED
    BY <2>1, <2>2, <2>3 DEF QueueInv
<1>11. ASSUME NEW e \in outbox, Deliver(e) PROVE QueueInv'
  BY <1>2, <1>11 DEF Deliver, shell, Queued
<1>12. CASE Settle
  BY <1>2, <1>12 DEF Settle, shell, Queued
<1>13. CASE StopForwarding \/ KeepChain \/ Crash \/ \E j \in Job : ReadBlank(j)
  BY <1>2, <1>13
  DEF StopForwarding, KeepChain, Crash, ReadBlank, FirstJob, Ended, shell, spool, Queued
<1>14. CASE TruncateToAdvance
  <2>1. /\ pc' = "advance" /\ memory'.outstanding = None /\ state' = Torn
        /\ Queued' = Queued /\ UNCHANGED <<ended, jobs>>
    BY <1>14 DEF TruncateToAdvance, shell, spool, Queued
  <2> QED
    BY <1>1, <2>1 DEF QueueInv
<1>15. CASE AdvanceChain
  <2>1. /\ pc = "advance" /\ pc' = "idle" /\ state' = memory
        /\ Queued' = Queued /\ UNCHANGED <<ended, jobs>>
    BY <1>15 DEF AdvanceChain, Ended, shell, spool, Queued
  <2>2. AllQueued(state.head, state.outstanding)'
    BY <2>1 DEF QueueInv, AllQueued
  <2>3. \A j \in ended' \ jobs' : Stored(j)'
    BY <2>1 DEF QueueInv, Stored
  <2> QED
    BY <2>1, <2>2, <2>3 DEF QueueInv
<1>16. CASE UNCHANGED vars
  BY <1>2, <1>16 DEF vars, shell, spool, locals, Queued
<1> QED
  BY <1>3, <1>4, <1>5, <1>6, <1>7, <1>8, <1>9, <1>10, <1>11, <1>12, <1>13, <1>14, <1>15, <1>16
     DEF Next, Run

(***************************************************************************)
(* The types and the queue's invariant hold together.                      *)
(***************************************************************************)
LEMMA QueueCorrect == Spec => [](Typed /\ QueueInv)
<1>1. Init => QueueInv
  BY DEF Init, QueueInv, AllQueued, Fresh
<1> QED
  BY <1>1, InitTyped, NextTyped, NextQueueInv, PTL DEF Spec

(***************************************************************************)
(* After any crash: a chain-state.json that can be read has its head in    *)
(* the collector's chain, and every event up to the one it waits for in    *)
(* the spool.                                                              *)
(***************************************************************************)
THEOREM StateSound == Spec => []StateIsSound
<1>1. Typed /\ ChainInv /\ QueueInv => StateIsSound
  <2> SUFFICES ASSUME Typed, ChainInv, QueueInv PROVE StateIsSound
    OBVIOUS
  <2>1. ASSUME state # Torn PROVE state.head \in Prefixes(chain)
    <3>1. state.head \in Seq(Part) /\ chain \in Seq(Part)
      BY <2>1, EventsTyped
    <3> QED
      BY <2>1, <3>1, PrefixesAreSo DEF ChainInv
  <2> QED
    BY <2>1 DEF StateIsSound, HeadIsAccepted, OutstandingIsQueued, Accepted, QueueInv, AllQueued
<1> QED
  BY <1>1, ChainCorrect, QueueCorrect, PTL

(***************************************************************************)
(* Whatever crashed when, an ended command has its job file or all chunks  *)
(* of its output in the spool, one after the other.                        *)
(***************************************************************************)
THEOREM JobsKept == Spec => []JobsAreKept
<1>1. Typed /\ QueueInv => JobsAreKept
  <2> SUFFICES ASSUME Typed, QueueInv, NEW j \in ended \ jobs
               PROVE  \E e \in Queued :
                         /\ Len(e) >= Chunks[j]
                         /\ \A k \in 1 .. Chunks[j] :
                               /\ e[Len(e) - Chunks[j] + k] = Entry(j, k)
                               /\ SubSeq(e, 1, Len(e) - Chunks[j] + k) \in Queued
    BY DEF JobsAreKept
  <2>1. j \in Job
    BY DEF Typed, TypeOK
  <2>2. PICK n : n = Chunks[j]
    OBVIOUS
  <2>3. n \in Nat /\ n > 0
    BY <2>1, <2>2, JobAssumption
  <2>4. PICK h \in EventSeq : \A k \in 1 .. n : h \o ChunksUpTo(j, k) \in Queued
    BY <2>2 DEF QueueInv, Stored
  <2> DEFINE e == h \o ChunksUpTo(j, n)
  <2>5. /\ e \in Queued /\ Len(e) = Len(h) + n /\ Len(h) \in Nat
        /\ \A k \in 1 .. n : e[Len(h) + k] = Entry(j, k)
    <3>1. n \in 1 .. n
      BY <2>3
    <3>2. e \in Queued
      BY <2>4, <3>1
    <3>3. Len(h) \in Nat
      BY DEF EventSeq
    <3>4. Len(e) = Len(h) + n /\ \A k \in 1 .. n : e[Len(h) + k] = Entry(j, k)
      BY <2>1, <2>3, CommandEvents
    <3> HIDE DEF e
    <3> QED
      BY <3>2, <3>3, <3>4
  <2>6. \A k \in 1 .. n : SubSeq(e, 1, Len(h) + k) \in Queued
    BY <2>1, <2>3, <2>4, CommandSubSeq
  <2> HIDE DEF e
  <2>7. Len(e) >= n /\ Len(e) - n = Len(h)
    BY <2>3, <2>5
  <2> QED
    BY <2>2, <2>5, <2>6, <2>7
<1> QED
  BY <1>1, QueueCorrect, PTL

-----------------------------------------------------------------------------
(***************************************************************************)
(* Heads consist of commands whose job files are gone, and a run enqueues  *)
(* only commands whose job files are there: no event continues the chain   *)
(* with what is in it.  Between chain-state.json and the unlinking of the  *)
(* job file this hangs on the run, which is why a crash there ends it.     *)
(***************************************************************************)
Unique(e) == \A i, k \in 1 .. Len(e) : e[i] = e[k] => i = k

IsOf(e, commands) == \A i \in 1 .. Len(e) : e[i].job \in commands

Gone == ended \ jobs

GoneSoon == IF pc = "unlink" THEN Gone \cup {current} ELSE Gone

UniqueInv ==
    /\ \A e \in Queued : Unique(e)
    /\ Unique(chain) /\ Unique(memory.head)
    /\ IsOf(memory.head, Gone)
    /\ state # Torn =>
          /\ Unique(state.head) /\ IsOf(state.head, Gone)
          /\ state.outstanding # None => IsOf(state.outstanding, GoneSoon)
    /\ pc = "write" => IsOf(memory.outstanding, Gone \cup {current})

(***************************************************************************)
(* The chunks of a new command repeat nothing of the event they join.      *)
(***************************************************************************)
LEMMA CommandIsNew ==
    ASSUME NEW h \in EventSeq, NEW j \in Job, NEW n \in Nat, Unique(h),
           \A i \in 1 .. Len(h) : h[i].job # j
    PROVE  Unique(h \o ChunksUpTo(j, n))
<1> DEFINE e == h \o ChunksUpTo(j, n)
<1>1. /\ Len(h) \in Nat /\ Len(e) = Len(h) + n
      /\ \A i \in 1 .. Len(h) : e[i] = h[i]
      /\ \A i \in 1 .. n : e[Len(h) + i] = Entry(j, i)
  <2>1. Len(h) \in Nat
    BY DEF EventSeq
  <2> QED
    BY <2>1, CommandEvents
<1> HIDE DEF e
<1>2. ASSUME NEW i \in 1 .. Len(e), i > Len(h) PROVE e[i] = Entry(j, i - Len(h))
  <2>1. i - Len(h) \in 1 .. n /\ Len(h) + (i - Len(h)) = i
    BY <1>1, <1>2
  <2> QED
    BY <1>1, <2>1
<1>3. ASSUME NEW i \in 1 .. Len(e), NEW k \in 1 .. Len(e), e[i] = e[k] PROVE i = k
  <2>1. CASE i <= Len(h) /\ k <= Len(h)
    BY <1>1, <1>3, <2>1 DEF Unique
  <2>2. CASE i > Len(h) /\ k > Len(h)
    <3>1. Entry(j, i - Len(h)).chunk = Entry(j, k - Len(h)).chunk
      BY <1>2, <1>3, <2>2
    <3>2. i - Len(h) = k - Len(h)
      BY <3>1 DEF Entry
    <3> QED
      BY <1>1, <3>2
  <2>3. ASSUME NEW a \in 1 .. Len(e), NEW b \in 1 .. Len(e), a <= Len(h), b > Len(h)
        PROVE  e[a] # e[b]
    <3>1. e[b].job = j
      <4>1. e[b] = Entry(j, b - Len(h))
        BY <1>2, <2>3
      <4> QED
        BY <4>1 DEF Entry
    <3>2. e[a].job # j
      BY <1>1, <2>3
    <3> QED
      BY <3>1, <3>2
  <2> QED
    BY <1>1, <1>3, <2>1, <2>2, <2>3
<1> QED
  BY <1>3 DEF Unique, e


(***************************************************************************)
(* The jobs of a command's last event are those of its head and its own.   *)
(***************************************************************************)
LEMMA CommandIsOf ==
    ASSUME NEW h \in EventSeq, NEW j \in Job, NEW n \in Nat, NEW S, IsOf(h, S)
    PROVE  IsOf(h \o ChunksUpTo(j, n), S \cup {j})
<1> DEFINE e == h \o ChunksUpTo(j, n)
<1>1. /\ Len(h) \in Nat /\ Len(e) = Len(h) + n
      /\ \A i \in 1 .. Len(h) : e[i] = h[i]
      /\ \A i \in 1 .. n : e[Len(h) + i] = Entry(j, i)
  <2>1. Len(h) \in Nat
    BY DEF EventSeq
  <2> QED
    BY <2>1, CommandEvents
<1> HIDE DEF e
<1>2. ASSUME NEW i \in 1 .. Len(e) PROVE e[i].job \in S \cup {j}
  <2>1. CASE i <= Len(h)
    BY <1>1, <2>1 DEF IsOf
  <2>2. CASE ~(i <= Len(h))
    <3>1. i - Len(h) \in 1 .. n /\ Len(h) + (i - Len(h)) = i
      BY <1>1, <2>2
    <3>2. e[i] = Entry(j, i - Len(h))
      BY <1>1, <3>1
    <3> QED
      BY <3>2 DEF Entry
  <2> QED
    BY <2>1, <2>2
<1> QED
  BY <1>2 DEF IsOf, e

(***************************************************************************)
(* Every step that is no crash keeps UniqueInv.                            *)
(***************************************************************************)
LEMMA NextUniqueInv ==
    ASSUME Typed, QueueInv, UniqueInv, [Next]_vars, ~Crash
    PROVE  UniqueInv'
<1>0. Unique(<<>>) /\ \A S : IsOf(<<>>, S)
  <2>1. Len(<<>>) = 0
    OBVIOUS
  <2> QED
    BY <2>1 DEF Unique, IsOf
<1>1. ASSUME state' = state, Gone \subseteq Gone',
             Queued' \subseteq Queued, chain' = chain \/ chain' \in Queued,
             memory' \in {memory, Fresh} \/ (memory' = state /\ state # Torn),
             \/ pc' \notin {"write", "unlink"} /\ pc # "unlink"
             \/ UNCHANGED <<pc, memory, current>>
      PROVE  UniqueInv'
  <2>1. Unique(chain')
    BY <1>1 DEF UniqueInv
  <2>2. \A e : \A S, T : S \subseteq T /\ IsOf(e, S) => IsOf(e, T)
    BY DEF IsOf
  <2>3. Unique(memory'.head) /\ IsOf(memory'.head, Gone)
    BY <1>0, <1>1 DEF UniqueInv, Fresh
  <2>4. GoneSoon \subseteq GoneSoon'
    BY <1>1 DEF GoneSoon
  <2>5. IsOf(memory'.head, Gone')
    BY <1>1, <2>2, <2>3
  <2>6. state' # Torn =>
          /\ Unique(state'.head) /\ IsOf(state'.head, Gone')
          /\ state'.outstanding # None => IsOf(state'.outstanding, GoneSoon')
    BY <1>1, <2>2, <2>4 DEF UniqueInv
  <2>7. pc' = "write" => IsOf(memory'.outstanding, Gone' \cup {current'})
    <3>1. Gone \cup {current} \subseteq Gone' \cup {current}
      BY <1>1
    <3> QED
      BY <1>1, <2>2, <3>1 DEF UniqueInv
  <2>8. \A e \in Queued' : Unique(e)
    BY <1>1 DEF UniqueInv
  <2> HIDE DEF Gone, GoneSoon
  <2> QED
    BY <2>1, <2>3, <2>5, <2>6, <2>7, <2>8 DEF UniqueInv, Unique, IsOf
<1>2. ASSUME NEW j \in Job, RecordEnd(j) PROVE UniqueInv'
  BY <1>1, <1>2 DEF RecordEnd, spool, locals, Queued, Gone
<1>3. ASSUME NEW j \in Job, CreateJob(j) \/ WriteJob(j) PROVE UniqueInv'
  <2>1. Gone' = Gone
    BY <1>3 DEF CreateJob, WriteJob, Gone, Typed, TypeOK
  <2> QED
    BY <1>1, <1>3, <2>1 DEF CreateJob, WriteJob, spool, locals, Queued
<1>4. CASE StillOutstanding \/ StartCapture \/ CaptureDone
  BY <1>1, <1>4
  DEF StillOutstanding, StartCapture, CaptureDone, shell, spool, locals, Queued, Gone
<1>5. ASSUME NEW j \in Job, SkipJob(j) \/ TakeJob(j) PROVE UniqueInv'
  BY <1>1, <1>5 DEF SkipJob, TakeJob, FirstJob, shell, spool, Queued, Gone
<1>6. CASE EnqueueChunk
  <2> DEFINE n == posts + 1
             e == memory.head \o ChunksUpTo(current, n)
  <2>1. /\ pc = "enqueue" /\ pc' = "enqueue" /\ Gone' = Gone
        /\ UNCHANGED <<state, chain, memory>>
        /\ Queued' \subseteq Queued \cup {e}
    BY <1>6 DEF EnqueueChunk, shell, Queued, Gone
  <2>2. /\ n \in Nat /\ current \in Job /\ current \in jobs
        /\ memory.head \in EventSeq
    BY <2>1, EventsTyped DEF EventSeq, Part
  <2>3. \A i \in 1 .. Len(memory.head) : memory.head[i].job # current
    BY <2>2 DEF UniqueInv, IsOf, Gone
  <2>4. Unique(memory.head)
    BY DEF UniqueInv
  <2> HIDE DEF n
  <2>5. Unique(e)
    BY <2>2, <2>3, <2>4, CommandIsNew
  <2> HIDE DEF e
  <2>6. GoneSoon' = GoneSoon
    BY <2>1 DEF GoneSoon
  <2> QED
    BY <2>1, <2>5, <2>6 DEF UniqueInv, Unique, IsOf
<1>7. CASE TruncateState
  <2> DEFINE e == memory.head \o ChunksUpTo(current, Chunks[current])
  <2>1. /\ pc = "enqueue" /\ pc' = "write" /\ state' = Torn
        /\ UNCHANGED <<chain, current>> /\ Queued' = Queued /\ Gone' = Gone
    BY <1>7 DEF TruncateState, shell, spool, Queued, Gone
  <2>2. memory'.head = memory.head /\ memory'.outstanding = e
    BY <1>7 DEF TruncateState, Typed, ChainState
  <2>3. /\ current \in Job /\ Chunks[current] \in Nat /\ memory.head \in EventSeq
    BY <2>1, EventsTyped, JobAssumption DEF EventSeq, Part
  <2>4. IsOf(e, Gone \cup {current})
    BY <2>3, CommandIsOf DEF UniqueInv
  <2> HIDE DEF e
  <2> QED
    BY <2>1, <2>2, <2>4 DEF UniqueInv, Unique, IsOf
<1>8. CASE WriteState
  <2>1. /\ pc = "write" /\ pc' = "unlink" /\ state' = memory
        /\ UNCHANGED <<chain, current, memory>> /\ Queued' = Queued /\ Gone' = Gone
    BY <1>8 DEF WriteState, shell, spool, locals, Queued, Gone
  <2>2. GoneSoon' = Gone \cup {current}
    BY <2>1 DEF GoneSoon
  <2> QED
    BY <2>1, <2>2 DEF UniqueInv, Unique, IsOf
<1>9. CASE UnlinkJob
  <2>1. /\ pc = "unlink" /\ pc' = "choose" /\ jobs' = jobs \ {current}
        /\ UNCHANGED <<state, chain, memory, ended>> /\ Queued' = Queued
    BY <1>9 DEF UnlinkJob, shell, spool, Queued
  <2>2. current \in ended
    BY <2>1 DEF Typed, TypeOK
  <2>3. Gone' = Gone \cup {current} /\ GoneSoon' = Gone' /\ GoneSoon = Gone \cup {current}
    BY <2>1, <2>2 DEF Gone, GoneSoon
  <2> HIDE DEF Gone, GoneSoon
  <2> QED
    BY <2>1, <2>3 DEF UniqueInv, Unique, IsOf
<1>10. ASSUME NEW e \in outbox, Deliver(e) PROVE UniqueInv'
  BY <1>1, <1>10 DEF Deliver, shell, Queued, Gone
<1>11. CASE Settle
  <2>1. Queued' \subseteq Queued
    BY <1>11 DEF Settle, Queued, Typed, TypeOK
  <2> QED
    BY <1>1, <1>11, <2>1 DEF Settle, shell, Gone
<1>12. CASE StopForwarding \/ KeepChain \/ \E j \in Job : ReadBlank(j)
  BY <1>1, <1>12
  DEF StopForwarding, KeepChain, ReadBlank, FirstJob, Ended, shell, spool, Queued, Gone
<1>13. CASE TruncateToAdvance
  <2>1. /\ pc = "reconcile" /\ pc' = "advance" /\ state' = Torn
        /\ memory'.head = state.outstanding
        /\ state.outstanding \in acknowledged
        /\ UNCHANGED chain /\ Queued' = Queued /\ Gone' = Gone
    BY <1>13 DEF TruncateToAdvance, shell, spool, Queued, Gone
  <2>2. state # Torn /\ state.outstanding # None
    BY <2>1, EventsTyped, JobAssumption DEF Typed, ChainState, EventSeq
  <2>3. Unique(state.outstanding) /\ IsOf(state.outstanding, Gone)
    BY <2>1, <2>2 DEF UniqueInv, GoneSoon, Queued
  <2> QED
    BY <2>1, <2>3 DEF UniqueInv, Unique, IsOf
<1>14. CASE AdvanceChain
  <2>1. /\ pc = "advance" /\ pc' = "idle" /\ state' = memory /\ memory' = Fresh
        /\ UNCHANGED chain /\ Queued' = Queued /\ Gone' = Gone
    BY <1>14 DEF AdvanceChain, Ended, shell, spool, Queued, Gone
  <2>2. memory.outstanding = None
    BY <2>1 DEF QueueInv
  <2>3. memory'.head = <<>>
    BY <2>1 DEF Fresh
  <2> HIDE DEF Gone
  <2> QED
    BY <1>0, <2>1, <2>2, <2>3 DEF UniqueInv, Unique, IsOf
<1>15. CASE UNCHANGED vars
  BY <1>1, <1>15 DEF vars, shell, spool, locals, Queued, Gone
<1> QED
  BY <1>2, <1>3, <1>4, <1>5, <1>6, <1>7, <1>8, <1>9, <1>10, <1>11, <1>12, <1>13, <1>14, <1>15
     DEF Next, Run

(***************************************************************************)
(* There was no crash before a step if there is none after it.             *)
(***************************************************************************)
LEMMA CrashesOnlyGrow ==
    ASSUME Typed, [Next]_vars, crashes' = 0
    PROVE  crashes = 0 /\ ~Crash
<1>1. ~Crash
  BY JobAssumption DEF Crash, Typed, TypeOK
<1>2. UNCHANGED crashes
  BY <1>1 DEF Next, Run, vars, locals, RecordEnd, CreateJob, WriteJob, StillOutstanding,
     StartCapture, ReadBlank, SkipJob, TakeJob, EnqueueChunk, TruncateState, WriteState,
     UnlinkJob, CaptureDone, Deliver, Settle, StopForwarding, KeepChain,
     TruncateToAdvance, AdvanceChain
<1> QED
  BY <1>1, <1>2

(***************************************************************************)
(* Until the first crash no command is in the collector's chain twice,     *)
(* however many a run captures.                                            *)
(***************************************************************************)
THEOREM CommandsUniqueUntilCrash == Spec => []UniqueUntilCrash
<1>1. Init => UniqueInv
  <2> SUFFICES ASSUME Init PROVE UniqueInv
    OBVIOUS
  <2>1. Len(<<>>) = 0
    OBVIOUS
  <2>2. /\ chain = <<>> /\ state.head = <<>> /\ memory.head = <<>>
        /\ state.outstanding = None /\ Queued = {} /\ pc = "idle"
    BY DEF Init, Queued, Fresh
  <2> QED
    BY <2>1, <2>2 DEF UniqueInv, Unique, IsOf
<1>2. Typed /\ QueueInv /\ (crashes = 0 => UniqueInv) /\ [Next]_vars
         => (crashes = 0 => UniqueInv)'
  BY NextUniqueInv, CrashesOnlyGrow
<1>3. Typed /\ (crashes = 0 => UniqueInv) => UniqueUntilCrash
  <2> SUFFICES ASSUME Typed, crashes = 0, UniqueInv PROVE UniqueUntilCrash
    BY DEF UniqueUntilCrash
  <2>1. DOMAIN chain = 1 .. Len(chain)
    BY EventsTyped
  <2> QED
    BY <2>1 DEF UniqueInv, Unique, UniqueUntilCrash
<1> QED
  BY <1>1, <1>2, <1>3, QueueCorrect, PTL DEF Spec

-----------------------------------------------------------------------------
(***************************************************************************)
(* As long as there is one job file at a time, the spool holds one command *)
(* the collector has not got yet at most: the one that is captured,        *)
(* captured again after a crash, or awaited; a job file created meanwhile  *)
(* stays where it is.  A run that dies with the state file torn is the     *)
(* last that touches the spool.                                            *)
(***************************************************************************)
At(h, j, k) == h \o ChunksUpTo(j, k)

Only(h, j) ==
    \A e \in outbox : IsPrefix(e, chain) \/ \E k \in 1 .. Chunks[j] : e = At(h, j, k)

Sent == \A e \in outbox : IsPrefix(e, chain)

Sending(h, j) == Only(h, j) /\ \E m \in 0 .. Chunks[j] : chain = At(h, j, m)

CapturedAgain(j) ==
    /\ j \in jobs \cap recorded
    /\ pc = "idle" \/ (pc = "choose" /\ j \in todo)
    /\ Only(state.head, j)

OneCommand ==
    /\ \A i, j \in jobs : i = j
    /\ pc = "enqueue" =>
          /\ memory.outstanding = None /\ chain = memory.head
          /\ Only(memory.head, current) /\ current \in recorded
    /\ state # Torn /\ state.outstanding = None /\ pc # "enqueue" =>
          chain = state.head /\ (Sent \/ \E j \in Job : CapturedAgain(j))
    /\ state # Torn /\ state.outstanding # None =>
          /\ pc # "enqueue" /\ (pc = "choose" => todo = {})
          /\ \E j \in Job : /\ state.outstanding = At(state.head, j, Chunks[j])
                            /\ Sending(state.head, j)
    /\ pc = "write" =>
          /\ memory.outstanding = At(memory.head, current, Chunks[current])
          /\ chain = memory.head /\ Only(memory.head, current)
    /\ pc = "unlink" => state.outstanding # None
    /\ pc = "advance" => memory.outstanding = None /\ chain = memory.head /\ Sent
    /\ state = Torn => Sent \/ \E h \in EventSeq, j \in Job : Sending(h, j)

(***************************************************************************)
(* The head alone is the command's event of no chunk.                      *)
(***************************************************************************)
LEMMA SendingFirst ==
    ASSUME NEW h \in EventSeq, NEW j \in Job, chain = h, Only(h, j)
    PROVE  Sending(h, j)
<1>1. 0 \in 0 .. Chunks[j]
  BY JobAssumption
<1>2. At(h, j, 0) = h
  BY CommandPrefixes DEF At
<1> QED
  BY <1>1, <1>2 DEF Sending

(***************************************************************************)
(* Once the last event of the command is acknowledged, all of it is sent.  *)
(***************************************************************************)
LEMMA SendingEnds ==
    ASSUME NEW h \in EventSeq, NEW j \in Job, Sending(h, j),
           IsPrefix(At(h, j, Chunks[j]), chain)
    PROVE  chain = At(h, j, Chunks[j]) /\ Sent
<1>1. PICK m \in 0 .. Chunks[j] : chain = At(h, j, m)
  BY DEF Sending
<1>2. Chunks[j] \in Nat
  BY JobAssumption
<1>3. m = Chunks[j]
  <2>1. Chunks[j] <= m
    BY <1>1, <1>2, CommandPrefixes DEF At
  <2> QED
    BY <1>2, <2>1
<1>4. ASSUME NEW k \in 1 .. Chunks[j] PROVE IsPrefix(At(h, j, k), At(h, j, Chunks[j]))
  BY <1>2, <1>4, CommandPrefixes DEF At
<1>5. \A e \in outbox : IsPrefix(e, chain)
  BY <1>1, <1>3, <1>4 DEF Sending, Only
<1> QED
  BY <1>1, <1>3, <1>5 DEF Sent

(***************************************************************************)
(* Delivering an event of the command being sent.                          *)
(***************************************************************************)
LEMMA SendingGoesOn ==
    ASSUME Typed, NEW h \in EventSeq, NEW j \in Job, Sending(h, j),
           NEW e \in outbox, Deliver(e)
    PROVE  Sending(h, j)'
<1>1. outbox' = outbox /\ chain' = IF IsPrefix(e, chain) THEN chain ELSE e
  BY DEF Deliver
<1>2. CASE IsPrefix(e, chain)
  BY <1>1, <1>2 DEF Sending, Only, At
<1>3. CASE ~IsPrefix(e, chain)
  <2>1. PICK k \in 1 .. Chunks[j] : e = At(h, j, k)
    BY <1>3 DEF Sending, Only
  <2>2. k \in 0 .. Chunks[j] /\ chain' = At(h, j, k)
    BY <1>1, <1>3, <2>1, JobAssumption
  <2>3. chain \in Seq(Part) /\ \A f \in outbox : f \in Seq(Part)
    BY EventsTyped
  <2>4. \A f \in outbox : IsPrefix(f, chain) => IsPrefix(f, chain')
    BY <2>3, ChainGrows, PrefixTransitive
  <2>5. Only(h, j)'
    BY <1>1, <2>4 DEF Sending, Only, At
  <2> QED
    BY <2>2, <2>5 DEF Sending, At
<1> QED
  BY <1>2, <1>3

(***************************************************************************)
(* Every step, a crash included, that does not start a burst keeps         *)
(* OneCommand.                                                             *)
(***************************************************************************)
LEMMA NextOneCommand ==
    ASSUME Typed, ChainInv, OneCommand, [Next]_vars, ~burst'
    PROVE  OneCommand'
<1>t. /\ state # Torn => state.head \in EventSeq
      /\ memory.head \in EventSeq
      /\ Torn \notin ChainState
  BY JobAssumption DEF Typed, TypeOK, ChainState, EventSeq
\* Steps that leave the spool and the file alone, outside a capture.
<1>1. ASSUME UNCHANGED <<state, chain, outbox>>, recorded \subseteq recorded',
             jobs' = jobs, pc' \notin {"enqueue", "write", "unlink", "advance"},
             pc # "enqueue",
             state # Torn => pc' # "choose" \/ (pc = "choose" /\ todo' \subseteq todo)
                             \/ (pc = "idle" /\ todo' = jobs /\ state.outstanding = None),
             state # Torn /\ state.outstanding = None => \A j \in Job : CapturedAgain(j) =>
                pc' = "idle" \/ (pc' = "choose" /\ j \in todo')
      PROVE  OneCommand'
  <2>1. \A h, j : (Only(h, j) => Only(h, j)') /\ (Sending(h, j) => Sending(h, j)')
    BY <1>1 DEF Only, Sending, At
  <2>2. (Sent => Sent') /\ \A h, j, k : At(h, j, k)' = At(h, j, k)
    BY <1>1 DEF Sent, At
  <2>3. state # Torn /\ state.outstanding = None =>
           \A j \in Job : CapturedAgain(j) => CapturedAgain(j)'
    BY <1>1, <2>1 DEF CapturedAgain
  <2> QED
    BY <1>1, <2>1, <2>2, <2>3 DEF OneCommand
<1>2. ASSUME NEW j \in Job, RecordEnd(j) PROVE OneCommand'
  <2>1. /\ UNCHANGED <<state, chain, outbox, jobs, pc, memory, todo, current>>
        /\ recorded \subseteq recorded'
    BY <1>2 DEF RecordEnd, spool, locals
  <2>2. \A h, i : (Only(h, i) => Only(h, i)') /\ (Sending(h, i) => Sending(h, i)')
    BY <2>1 DEF Only, Sending, At
  <2>3. (Sent => Sent') /\ \A h, i, k : At(h, i, k)' = At(h, i, k)
    BY <2>1 DEF Sent, At
  <2>4. \A i \in Job : CapturedAgain(i) => CapturedAgain(i)'
    BY <2>1, <2>2 DEF CapturedAgain
  <2> QED
    BY <2>1, <2>2, <2>3, <2>4 DEF OneCommand
\* A command ends when no job file is there: what waits to extend the chain is
\* awaited, and nothing was enqueued without being awaited.
<1>3. ASSUME NEW j \in Job, CreateJob(j) PROVE OneCommand'
  <2>1. /\ jobs = {} /\ jobs' = {j}
        /\ UNCHANGED <<state, chain, outbox, pc, memory, todo, current, recorded>>
    BY <1>3 DEF CreateJob, spool, locals
  <2>2. pc \notin {"enqueue", "write", "unlink"} /\ todo = {}
    BY <2>1 DEF Typed, TypeOK
  <2>3. /\ \A h, i : (Only(h, i) => Only(h, i)') /\ (Sending(h, i) => Sending(h, i)')
        /\ \A h, i, k : At(h, i, k)' = At(h, i, k)
    BY <2>1 DEF Only, Sending, At
  <2>4. Sent => Sent'
    BY <2>1 DEF Sent
  <2>5. \A i \in Job : ~CapturedAgain(i)
    BY <2>1 DEF CapturedAgain
  <2> QED
    BY <2>1, <2>2, <2>3, <2>4, <2>5 DEF OneCommand
<1>4. CASE StillOutstanding
  BY <1>1, <1>4 DEF StillOutstanding, shell, spool, locals
<1>5. CASE StartCapture
  <2>1. /\ UNCHANGED <<state, chain, outbox, recorded, jobs>>
        /\ pc = "idle" /\ pc' = "choose" /\ todo' = jobs
        /\ state.outstanding = None
    BY <1>5 DEF StartCapture, shell, spool
  <2>2. \A j \in Job : CapturedAgain(j) => j \in todo'
    BY <2>1 DEF CapturedAgain
  <2> QED
    BY <1>1, <2>1, <2>2
<1>6. ASSUME NEW j \in Job, SkipJob(j) PROVE OneCommand'
  <2>1. /\ UNCHANGED <<state, chain, outbox, recorded, jobs>> /\ j \notin recorded
        /\ pc = "choose" /\ pc' = "choose" /\ todo' = todo \ {j}
    BY <1>6 DEF SkipJob, FirstJob, shell, spool
  <2>2. \A i \in Job : CapturedAgain(i) => i \in todo'
    BY <2>1 DEF CapturedAgain
  <2> QED
    BY <1>1, <2>1, <2>2
<1>7. ASSUME NEW j \in Job, TakeJob(j) PROVE OneCommand'
  <2>1. /\ pc = "choose" /\ j \in todo /\ j \in recorded
        /\ pc' = "enqueue" /\ current' = j
        /\ UNCHANGED <<state, chain, outbox, recorded, jobs, memory, todo>>
    BY <1>7 DEF TakeJob, FirstJob, shell, spool
  <2>2. memory = state /\ state # Torn /\ todo \subseteq jobs
    BY <1>t, <2>1 DEF Typed, TypeOK
  <2>3. state.outstanding = None
    BY <2>1, <2>2 DEF OneCommand
  <2>4. chain = state.head
    BY <2>1, <2>2, <2>3 DEF OneCommand
  <2>5. Only(state.head, j)
    <3>1. CASE Sent
      BY <3>1 DEF Sent, Only
    <3>2. ASSUME NEW i \in Job, CapturedAgain(i) PROVE Only(state.head, j)
      <4>1. i = j
        BY <2>1, <2>2, <3>2 DEF CapturedAgain, OneCommand
      <4> QED
        BY <3>2, <4>1 DEF CapturedAgain
    <3> QED
      BY <2>1, <2>2, <2>3, <3>1, <3>2 DEF OneCommand
  <2>6. Only(memory.head, current)'
    BY <2>1, <2>2, <2>5 DEF Only, At
  <2> QED
    BY <2>1, <2>2, <2>3, <2>4, <2>6 DEF OneCommand
<1>8. CASE EnqueueChunk
  <2>1. /\ pc = "enqueue" /\ pc' = "enqueue" /\ posts < Chunks[current]
        /\ outbox' \subseteq outbox \cup {At(memory.head, current, posts + 1)}
        /\ UNCHANGED <<state, chain, memory, current, recorded, jobs>>
    BY <1>8 DEF EnqueueChunk, At, shell
  <2>2. posts \in Nat /\ Chunks[current] \in Nat
    BY <2>1, EventsTyped, JobAssumption
  <2>3. posts + 1 \in 1 .. Chunks[current]
    BY <2>1, <2>2
  <2>4. Only(memory.head, current)'
    BY <2>1, <2>3 DEF OneCommand, Only, At
  <2>5. memory = state /\ state # Torn
    BY <1>t, <2>1 DEF Typed
  <2> QED
    BY <2>1, <2>4, <2>5 DEF OneCommand
<1>9. CASE TruncateState
  <2>1. /\ pc = "enqueue" /\ pc' = "write" /\ state' = Torn
        /\ UNCHANGED <<chain, outbox, current, jobs>>
    BY <1>9 DEF TruncateState, shell, spool
  <2>2. /\ memory'.head = memory.head
        /\ memory'.outstanding = At(memory.head, current, Chunks[current])
    BY <1>9 DEF TruncateState, Typed, ChainState, At
  <2>3. Only(memory.head, current)' /\ chain' = memory'.head
    BY <2>1, <2>2 DEF OneCommand, Only, At
  <2>4. current' \in Job
    BY <2>1, EventsTyped
  <2>5. memory'.head \in EventSeq
    BY <1>t, <2>2
  <2>6. Sending(memory.head, current)'
    <3>1. Sending(memory.head, current)
      BY <1>t, <2>1, <2>4, SendingFirst DEF OneCommand
    <3>2. \A h, j : Sending(h, j) => Sending(h, j)'
      BY <2>1 DEF Sending, Only, At
    <3>3. PICK h, j : h = memory.head /\ j = current
      OBVIOUS
    <3>4. Sending(h, j)'
      BY <3>1, <3>2, <3>3
    <3>5. h = memory'.head /\ j = current'
      BY <2>1, <2>2, <3>3
    <3> QED
      BY <3>4, <3>5 DEF Sending, Only, At
  <2>7. memory'.outstanding = At(memory.head, current, Chunks[current])'
    BY <2>1, <2>2 DEF At
  <2> QED
    BY <2>1, <2>3, <2>4, <2>5, <2>6, <2>7 DEF OneCommand
<1>10. CASE WriteState
  <2>1. /\ pc = "write" /\ pc' = "unlink" /\ state' = memory
        /\ UNCHANGED <<chain, outbox, memory, current, jobs>>
    BY <1>10 DEF WriteState, shell, spool, locals
  <2>2. PICK j \in Job : j = current
    BY <2>1, EventsTyped
  <2>3. memory.outstanding = At(memory.head, j, Chunks[j]) /\ Sending(memory.head, j)
    BY <1>t, <2>1, <2>2, SendingFirst DEF OneCommand
  <2>4. memory.outstanding # None
    <3>1. Chunks[j] \in Nat
      BY JobAssumption
    <3>2. At(memory.head, j, Chunks[j]) \in EventSeq
      BY <1>t, <3>1, CommandEvents DEF At
    <3> QED
      BY <2>3, <3>2, EventsTyped DEF EventSeq, Part
  <2>5. state'.outstanding = At(state.head, j, Chunks[j])' /\ Sending(state.head, j)'
    BY <2>1, <2>3 DEF Sending, Only, At
  <2>6. state' # Torn
    BY <1>t, <2>1 DEF Typed
  <2> QED
    BY <2>1, <2>4, <2>5, <2>6 DEF OneCommand
<1>11. CASE UnlinkJob
  <2>1. /\ pc = "unlink" /\ pc' = "choose" /\ jobs' = jobs \ {current}
        /\ todo' = todo \ {current} /\ UNCHANGED <<state, chain, outbox>>
    BY <1>11 DEF UnlinkJob, spool
  <2>2. state # Torn /\ state.outstanding # None
    BY <1>t, <2>1 DEF Typed, OneCommand
  <2>3. todo \subseteq jobs /\ current \in todo
    BY <2>1 DEF Typed, TypeOK
  <2>4. todo' = {}
    BY <2>1, <2>3 DEF OneCommand
  <2>5. \A h, j : Sending(h, j) => Sending(h, j)'
    BY <2>1 DEF Sending, Only, At
  <2>6. \A h, j, k : At(h, j, k)' = At(h, j, k)
    BY DEF At
  <2> QED
    BY <2>1, <2>2, <2>4, <2>5, <2>6 DEF OneCommand
<1>12. CASE CaptureDone
  <2>1. /\ pc = "choose" /\ todo = {} /\ pc' = "forward"
        /\ UNCHANGED <<state, chain, outbox, recorded, jobs>>
    BY <1>12 DEF CaptureDone, shell, spool
  <2>2. \A j \in Job : ~CapturedAgain(j)
    BY <2>1 DEF CapturedAgain
  <2> QED
    BY <1>1, <2>1, <2>2
<1>13. ASSUME NEW e \in outbox, Deliver(e) PROVE OneCommand'
  <2>1. /\ pc = "forward" /\ pc' = "settle"
        /\ UNCHANGED <<state, outbox, jobs>>
        /\ chain' = IF IsPrefix(e, chain) THEN chain ELSE e
    BY <1>13 DEF Deliver, shell
  <2>2. state # Torn
    BY <1>t, <2>1 DEF Typed
  <2>3. CASE state.outstanding = None
    <3>1. chain = state.head /\ Sent
      BY <2>1, <2>2, <2>3 DEF OneCommand, CapturedAgain
    <3>2. chain' = chain
      BY <2>1, <3>1 DEF Sent
    <3> QED
      BY <2>1, <2>2, <2>3, <3>1, <3>2 DEF OneCommand, Sent
  <2>4. CASE state.outstanding # None
    <3>1. PICK j \in Job : /\ state.outstanding = At(state.head, j, Chunks[j])
                           /\ Sending(state.head, j)
      BY <2>2, <2>4 DEF OneCommand
    <3>2. \A h \in EventSeq : Sending(h, j) => Sending(h, j)'
      BY <1>13, SendingGoesOn
    <3>3. Sending(state.head, j)'
      <4>1. PICK h \in EventSeq : h = state.head
        BY <1>t, <2>2
      <4>2. Sending(h, j)'
        BY <3>1, <3>2, <4>1
      <4> QED
        BY <2>1, <4>1, <4>2 DEF Sending, Only, At
    <3>4. state'.outstanding = At(state.head, j, Chunks[j])'
      BY <2>1, <3>1 DEF At
    <3> QED
      BY <2>1, <2>2, <2>4, <3>3, <3>4 DEF OneCommand
  <2> QED
    BY <2>3, <2>4
<1>14. CASE Settle
  <2>1. /\ pc = "settle" /\ pc' = "forward" /\ outbox' \subseteq outbox
        /\ UNCHANGED <<state, chain, jobs>>
    BY <1>14 DEF Settle, shell
  <2>2. state # Torn
    BY <1>t, <2>1 DEF Typed
  <2>3. \A h, j : (Sending(h, j) => Sending(h, j)') /\ \A k : At(h, j, k)' = At(h, j, k)
    BY <2>1 DEF Sending, Only, At
  <2>4. Sent => Sent'
    BY <2>1 DEF Sent
  <2>5. \A j \in Job : ~CapturedAgain(j)
    BY <2>1 DEF CapturedAgain
  <2> QED
    BY <2>1, <2>2, <2>3, <2>4, <2>5 DEF OneCommand
<1>15. CASE StopForwarding \/ KeepChain
  <2>1. /\ pc \in {"forward", "settle", "reconcile"} /\ pc' \in {"reconcile", "idle"}
        /\ UNCHANGED <<state, chain, outbox, recorded, jobs>>
    BY <1>15 DEF StopForwarding, KeepChain, Ended, shell, spool
  <2>2. \A j \in Job : ~CapturedAgain(j)
    BY <2>1 DEF CapturedAgain
  <2> QED
    BY <1>1, <2>1, <2>2
<1>16. CASE TruncateToAdvance
  <2>1. /\ pc = "reconcile" /\ pc' = "advance" /\ state' = Torn
        /\ state.outstanding \in acknowledged
        /\ memory'.head = state.outstanding /\ memory'.outstanding = None
        /\ UNCHANGED <<chain, outbox, jobs>>
    BY <1>16 DEF TruncateToAdvance, shell, spool
  <2>2. state # Torn /\ state.outstanding # None
    BY <1>t, <2>1, EventsTyped DEF Typed
  <2>3. PICK j \in Job : /\ state.outstanding = At(state.head, j, Chunks[j])
                         /\ Sending(state.head, j)
    BY <2>2 DEF OneCommand
  <2>4. IsPrefix(At(state.head, j, Chunks[j]), chain)
    BY <2>1, <2>3 DEF ChainInv
  <2>5. chain = At(state.head, j, Chunks[j]) /\ Sent
    BY <1>t, <2>2, <2>3, <2>4, SendingEnds
  <2>6. Sent' /\ chain' = memory'.head
    BY <2>1, <2>3, <2>5 DEF Sent
  <2> QED
    BY <2>1, <2>6 DEF OneCommand
<1>17. CASE AdvanceChain
  <2>1. /\ pc = "advance" /\ pc' = "idle" /\ state' = memory
        /\ UNCHANGED <<chain, outbox, jobs>>
    BY <1>17 DEF AdvanceChain, Ended, shell, spool
  <2>2. state' # Torn
    BY <1>t, <2>1 DEF Typed
  <2>3. memory.outstanding = None /\ chain = memory.head /\ Sent
    BY <2>1 DEF OneCommand
  <2> QED
    BY <2>1, <2>2, <2>3 DEF OneCommand, Sent
<1>18. CASE Crash
  <2>1. /\ pc' = "idle" /\ UNCHANGED <<state, chain, outbox, recorded, jobs>>
    BY <1>18 DEF Crash, Ended, shell, spool
  <2>2. CASE pc = "enqueue"
    <3>1. /\ memory = state /\ state # Torn /\ current \in Job /\ current \in jobs
      BY <1>t, <2>2, EventsTyped DEF Typed
    <3>2. /\ state.outstanding = None /\ chain = state.head
          /\ Only(state.head, current) /\ current \in recorded
      BY <2>2, <3>1 DEF OneCommand
    <3>3. PICK j \in Job : j = current
      BY <3>1
    <3>4. CapturedAgain(j)'
      BY <2>1, <3>1, <3>2, <3>3 DEF CapturedAgain, Only, At
    <3> QED
      BY <2>1, <3>1, <3>2, <3>4 DEF OneCommand
  <2>3. CASE pc # "enqueue"
    BY <1>1, <2>1, <2>3
  <2> QED
    BY <2>2, <2>3
<1>19. CASE UNCHANGED vars
  <2>1. UNCHANGED <<state, chain, outbox, jobs, recorded, pc, memory, todo, current>>
    BY <1>19 DEF vars, shell, spool, locals
  <2>2. \A h, j : (Only(h, j) => Only(h, j)') /\ (Sending(h, j) => Sending(h, j)')
    BY <2>1 DEF Only, Sending, At
  <2>3. (Sent => Sent') /\ \A h, j, k : At(h, j, k)' = At(h, j, k)
    BY <2>1 DEF Sent, At
  <2>4. \A j \in Job : CapturedAgain(j) => CapturedAgain(j)'
    BY <2>1, <2>2 DEF CapturedAgain
  <2> QED
    BY <2>1, <2>2, <2>3, <2>4 DEF OneCommand
<1>20. ASSUME NEW j \in Job, WriteJob(j) PROVE OneCommand'
  <2>1. UNCHANGED <<state, chain, outbox, jobs, recorded, pc, memory, todo, current>>
    BY <1>20 DEF WriteJob, spool, locals
  <2>2. /\ \A h, i : (Only(h, i) => Only(h, i)') /\ (Sending(h, i) => Sending(h, i)')
        /\ \A h, i, k : At(h, i, k)' = At(h, i, k)
    BY <2>1 DEF Only, Sending, At
  <2>3. (Sent => Sent') /\ \A i \in Job : CapturedAgain(i) => CapturedAgain(i)'
    BY <2>1, <2>2 DEF Sent, CapturedAgain
  <2> QED
    BY <2>1, <2>2, <2>3 DEF OneCommand
\* A run that reads a blank job file has captured nothing.
<1>21. ASSUME NEW j \in Job, ReadBlank(j) PROVE OneCommand'
  <2>1. /\ pc = "choose" /\ pc' = "idle"
        /\ UNCHANGED <<state, chain, outbox, recorded, jobs>>
    BY <1>21 DEF ReadBlank, FirstJob, Ended, shell, spool
  <2> QED
    BY <1>1, <2>1
<1> QED
  BY <1>2, <1>3, <1>4, <1>5, <1>6, <1>7, <1>8, <1>9, <1>10, <1>11, <1>12, <1>13, <1>14,
     <1>15, <1>16, <1>17, <1>18, <1>19, <1>20, <1>21
  DEF Next, Run

(***************************************************************************)
(* A command that is being sent is the only one in the outbox that can     *)
(* still extend the chain.                                                 *)
(***************************************************************************)
LEMMA SendingExtends ==
    ASSUME Typed, NEW h \in EventSeq, NEW j \in Job, Sending(h, j)
    PROVE  OutboxExtendsChain
<1>1. PICK m \in 0 .. Chunks[j] : chain = At(h, j, m)
  BY DEF Sending
<1>2. Chunks[j] \in Nat /\ m \in Nat /\ Len(h) \in Nat
  BY JobAssumption DEF EventSeq
<1>3. ASSUME NEW g \in outbox, ~IsPrefix(g, chain)
      PROVE  IsPrefix(chain, g) /\ Last(g).job = j
  <2>1. PICK k \in 1 .. Chunks[j] : g = At(h, j, k)
    BY <1>3 DEF Sending, Only
  <2>2. k \in Nat /\ k \in 1 .. k
    BY <1>2
  <2>3. IsPrefix(At(h, j, k), At(h, j, m)) <=> k <= m
    BY <1>2, <2>2, CommandPrefixes DEF At
  <2>4. IsPrefix(At(h, j, m), At(h, j, k)) <=> m <= k
    BY <1>2, <2>2, CommandPrefixes DEF At
  <2>5. IsPrefix(chain, g)
    <3>1. ~IsPrefix(At(h, j, k), At(h, j, m))
      BY <1>1, <1>3, <2>1, Zenon
    <3>2. m <= k
      BY <1>2, <2>2, <2>3, <3>1
    <3>3. IsPrefix(At(h, j, m), At(h, j, k))
      BY <2>4, <3>2, Zenon
    <3> QED
      BY <1>1, <2>1, <3>3, Zenon
  <2>6. Len(g) = Len(h) + k /\ g[Len(h) + k] = Entry(j, k)
    <3>1. /\ Len(At(h, j, k)) = Len(h) + k
          /\ \A i \in 1 .. k : At(h, j, k)[Len(h) + i] = Entry(j, i)
      BY <2>2, CommandEvents DEF At
    <3> QED
      BY <2>1, <2>2, <3>1
  <2>7. Last(g) = Entry(j, k)
    BY <2>6 DEF Last
  <2> QED
    BY <2>5, <2>7 DEF Entry
<1>4. \A e \in outbox \ Accepted : ~IsPrefix(e, chain)
  <2>1. chain \in Seq(Part) /\ \A e \in outbox : e \in Seq(Part) /\ e # <<>>
    BY EventsTyped
  <2> QED
    BY <2>1, PrefixesAreSo DEF Accepted
<1> QED
  BY <1>3, <1>4 DEF OutboxExtendsChain

(***************************************************************************)
(* Lines 70-71: one event in flight preserves strict ordering as long as   *)
(* no job file is created while there is another, be it left by a crash or *)
(* not yet captured; crashes and torn state files included.  What the      *)
(* spool holds is in the collector's chain or can still extend it, and     *)
(* what can extend it belongs to one command.                              *)
(***************************************************************************)
THEOREM SingleJobsExtend == Spec => []ExtendsUntilBurst
<1>1. Init => OneCommand
  <2> SUFFICES ASSUME Init PROVE OneCommand
    OBVIOUS
  <2>1. /\ state = Fresh /\ chain = <<>> /\ outbox = {} /\ pc = "idle" /\ jobs = {}
    BY DEF Init
  <2>2. Fresh \in ChainState /\ Torn \notin ChainState
    BY JobAssumption DEF Fresh, ChainState, EventSeq
  <2> QED
    BY <2>1, <2>2 DEF OneCommand, Sent, Fresh
<1>2. Typed /\ ChainInv /\ (~burst => OneCommand) /\ [Next]_vars
         => (~burst => OneCommand)'
  <2> SUFFICES ASSUME Typed, ChainInv, ~burst => OneCommand, [Next]_vars, ~burst'
               PROVE  OneCommand'
    OBVIOUS
  <2>1. ~burst
    BY DEF Next, Run, vars, shell, RecordEnd, CreateJob, WriteJob, StillOutstanding,
       StartCapture, ReadBlank, SkipJob, TakeJob, EnqueueChunk, TruncateState, WriteState,
       UnlinkJob, CaptureDone, Deliver, Settle, StopForwarding, KeepChain,
       TruncateToAdvance, AdvanceChain, Crash
  <2> QED
    BY <2>1, NextOneCommand
<1>3. Typed /\ (~burst => OneCommand) => ExtendsUntilBurst
  <2> SUFFICES ASSUME Typed, ~burst, OneCommand PROVE OutboxExtendsChain
    BY DEF ExtendsUntilBurst
  <2>1. ASSUME Sent PROVE OutboxExtendsChain
    <3>1. chain \in Seq(Part) /\ \A e \in outbox : e \in Seq(Part) /\ e # <<>>
      BY EventsTyped
    <3>2. \A e \in outbox : e \in Accepted
      BY <2>1, <3>1, PrefixesAreSo DEF Sent, Accepted
    <3> QED
      BY <3>2 DEF OutboxExtendsChain
  <2>2. ASSUME NEW h \in EventSeq, NEW j \in Job, chain = h, Only(h, j)
        PROVE  OutboxExtendsChain
    BY <2>2, SendingFirst, SendingExtends
  <2>3. state # Torn => state.head \in EventSeq
    BY DEF Typed, TypeOK
  <2>4. CASE pc = "enqueue"
    <3>1. current \in Job /\ memory.head \in EventSeq
      BY <2>4, EventsTyped DEF EventSeq, Part
    <3> QED
      BY <2>2, <2>4, <3>1 DEF OneCommand
  <2>5. CASE state # Torn /\ state.outstanding = None /\ pc # "enqueue"
    BY <2>1, <2>2, <2>3, <2>5 DEF OneCommand, CapturedAgain
  <2>6. CASE state # Torn /\ state.outstanding # None
    BY <2>3, <2>6, SendingExtends DEF OneCommand
  <2>7. CASE state = Torn
    BY <2>1, <2>7, SendingExtends DEF OneCommand
  <2> QED
    BY <2>4, <2>5, <2>6, <2>7
<1> QED
  BY <1>1, <1>2, <1>3, ChainCorrect, PTL DEF Spec
=============================================================================
