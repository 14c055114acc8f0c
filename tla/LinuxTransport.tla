---------------------------- MODULE LinuxTransport ----------------------------
(***************************************************************************)
(* platform/linux/redteam-linux-transport.py: forward_once, the oneshot    *)
(* service a timer starts, from the command log to the collector.          *)
(*                                                                         *)
(* One run reads new end records from commands.log, makes a job file for   *)
(* each, captures at most one job into the spool, forwards what the spool  *)
(* holds, and advances its chain state when the captured event has been    *)
(* acknowledged.  Every file operation is one step; a crash or an          *)
(* exception ends the run after any of them.                               *)
(*                                                                         *)
(* The spool is the outbox and acknowledged of DeliveryQueue, which        *)
(* EvidenceSpool implements.  The hash of an event stands for the whole    *)
(* history of its source, so an event is that history: the sequence of     *)
(* [job, chunk] entries up to its own.  Its sequence number is the length. *)
(***************************************************************************)
EXTENDS Naturals, Sequences, SequencesExt

CONSTANTS Job,          \* completed commands, as <session, sequence>
          Chunks,       \* Chunks[j]: events make_output_stream makes of the output
          SshJob,       \* forced SSH commands: their output needs no markers
          LateFlush,    \* commands whose end record may overtake their end marker
          MaxRun,       \* forward_once calls of the spool in one run (32)
          MaxCrashes,   \* bound on crashes in one behaviour
          MaxRotations, \* bound on rotations of commands.log
          None

ASSUME JobAssumption ==
    /\ Chunks \in [Job -> Nat \ {0}]
    /\ SshJob \subseteq Job /\ LateFlush \subseteq Job
    /\ MaxRun \in Nat \ {0} /\ MaxCrashes \in Nat /\ MaxRotations \in Nat
    /\ None \notin Job /\ None \notin Seq([job : Job, chunk : Nat])

VARIABLES log,          \* commands.log: [file, lines, part]: its inode, its end records,
                        \* and the one of which only a part is written yet
          recorded,     \* commands whose end marker is in their output.log
          rank,         \* the order of the job file names
          cursor,       \* commands-cursor.json: [file, offset]
          jobs,         \* capture-pending/
          captured,     \* captured/
          artifacts,    \* artifacts/
          state,        \* chain-state.json: [head, outstanding]
          outbox,       \* pending/ and claimed/ of the spool
          acknowledged, \* acknowledged/ of the spool
          chain,        \* the collector's head for this source
          pc,           \* where the run is
          seen,         \* [file, size]: stat of commands.log
          batch,        \* [lines, upto]: what was read, and the cursor after it
          current,      \* the job being captured, or the event being posted
          posts,        \* spool calls, or chunks enqueued, so far
          logged,       \* history: commands whose end record was written
          dropped,      \* history: commands whose job file was removed unread
          crashes

recorder == <<log, recorded, logged, rank>>
capture == <<cursor, jobs, captured, artifacts, dropped>>
spool == <<outbox, acknowledged, chain>>
locals == <<seen, batch, current, posts>>
vars == <<recorder, capture, state, spool, pc, locals, crashes>>

Entry(j, k) == [job |-> j, chunk |-> k]
ChunksUpTo(j, k) == [i \in 1 .. k |-> Entry(j, i)]

NoFile == [file |-> 0, offset |-> 0]
NothingRead == [lines |-> <<>>, upto |-> NoFile]

Init ==
    /\ log = [file |-> 1, lines |-> <<>>, part |-> None]
    /\ recorded = {}
    /\ rank \in {r \in [Job -> 1 .. Cardinality(Job)] : IsInjective(r)}
    /\ cursor = NoFile
    /\ jobs = {}
    /\ captured = {}
    /\ artifacts = {}
    /\ state = [head |-> <<>>, outstanding |-> None]
    /\ outbox = {}
    /\ acknowledged = {}
    /\ chain = <<>>
    /\ pc = "idle"
    /\ seen = [file |-> 0, size |-> 0]
    /\ batch = NothingRead
    /\ current = None
    /\ posts = 0
    /\ logged = {}
    /\ dropped = {}
    /\ crashes = 0

-----------------------------------------------------------------------------
(***************************************************************************)
(* The recorder: script writes the output with its markers; the shell has  *)
(* logger send the end record, which rsyslog writes, and may be seen       *)
(* writing, to commands.log; logrotate replaces the file.                  *)
(***************************************************************************)
RecordEnd(j) ==
    /\ j \notin recorded \cup SshJob
    /\ recorded' = recorded \cup {j}
    /\ UNCHANGED <<log, logged, rank, capture, state, spool, pc, locals, crashes>>

LogPart(j) ==
    /\ log.part = None
    /\ j \notin logged
    /\ j \in recorded \cup SshJob \cup LateFlush
    /\ log' = [log EXCEPT !.part = j]
    /\ UNCHANGED <<recorded, logged, rank, capture, state, spool, pc, locals, crashes>>

LogEnd ==
    /\ log.part # None
    /\ log' = [log EXCEPT !.lines = Append(@, log.part), !.part = None]
    /\ logged' = logged \cup {log.part}
    /\ UNCHANGED <<recorded, rank, capture, state, spool, pc, locals, crashes>>

Rotate ==
    /\ log.file <= MaxRotations
    /\ log.lines # <<>> /\ log.part = None
    /\ log' = [file |-> log.file + 1, lines |-> <<>>, part |-> None]
    /\ UNCHANGED <<recorded, logged, rank, capture, state, spool, pc, locals, crashes>>

-----------------------------------------------------------------------------
(***************************************************************************)
(* queue_completed_end_events.  The file may be rotated between stat and   *)
(* open; the cursor keeps the inode that was stat'ed.  It does not pass a  *)
(* record that is not complete.                                            *)
(***************************************************************************)
StatLog ==
    /\ pc = "idle"
    /\ pc' = "read"
    /\ seen' = [file |-> log.file, size |-> Len(log.lines)]
    /\ UNCHANGED <<recorder, capture, state, spool, batch, current, posts, crashes>>

\* Mutant of Upto: counts the record that is not complete.
UptoEnd(from, lines) ==
    [file |-> seen.file,
     offset |-> from + Len(lines) + (IF log.part = None THEN 0 ELSE 1)]

Upto(from, lines) == [file |-> seen.file, offset |-> from + Len(lines)]

ReadLog ==
    LET from == IF cursor.file = seen.file /\ cursor.offset <= seen.size
                THEN cursor.offset ELSE 0
        lines == SubSeq(log.lines, from + 1, Len(log.lines))
    IN  /\ pc = "read"
        /\ pc' = "queue"
        /\ batch' = [lines |-> lines, upto |-> Upto(from, lines)]
        /\ UNCHANGED <<recorder, capture, state, spool, seen, current, posts, crashes>>

QueueJob ==
    LET j == Head(batch.lines) IN
    /\ pc = "queue"
    /\ batch.lines # <<>>
    /\ jobs' = IF j \in captured THEN jobs ELSE jobs \cup {j}
    /\ batch' = [batch EXCEPT !.lines = Tail(@)]
    /\ UNCHANGED <<recorder, cursor, captured, artifacts, dropped, state, spool, pc,
                   seen, current, posts, crashes>>

SaveCursor ==
    /\ pc = "queue"
    /\ batch.lines = <<>>
    /\ cursor' = batch.upto
    /\ pc' = "choose"
    /\ UNCHANGED <<recorder, jobs, captured, artifacts, dropped, state, spool, locals, crashes>>

-----------------------------------------------------------------------------
\* Mutant of FirstJob: does not wait for the outstanding event.
FirstJobAtOnce(j) ==
    /\ pc = "choose"
    /\ j \in jobs
    /\ \A k \in jobs : rank[j] <= rank[k]

(***************************************************************************)
(* capture_once from load_state on.  With an event outstanding nothing is  *)
(* captured; otherwise the first job by file name that has an output is.   *)
(***************************************************************************)
FirstJob(j) ==
    /\ pc = "choose"
    /\ state.outstanding = None
    /\ j \in jobs
    /\ \A k \in jobs : rank[j] <= rank[k]

HasOutput(j) == j \in recorded \cup SshJob

NothingToCapture ==
    /\ pc = "choose"
    /\ state.outstanding # None \/ jobs = {}
    /\ pc' = "forward"
    /\ UNCHANGED <<recorder, capture, state, spool, locals, crashes>>

DropJob(j) ==
    /\ FirstJob(j)
    /\ ~HasOutput(j)
    /\ jobs' = jobs \ {j}
    /\ dropped' = dropped \cup {j}
    /\ UNCHANGED <<recorder, cursor, captured, artifacts, state, spool, pc, locals, crashes>>

SkipCaptured(j) ==
    /\ FirstJob(j)
    /\ HasOutput(j)
    /\ j \in captured
    /\ jobs' = jobs \ {j}
    /\ UNCHANGED <<recorder, cursor, captured, artifacts, dropped, state, spool, pc,
                   locals, crashes>>

\* Mutant of WriteArtifact: captures a job again.
WriteArtifactAgain(j) ==
    /\ FirstJob(j)
    /\ HasOutput(j)
    /\ artifacts' = artifacts \cup {j}
    /\ current' = j
    /\ posts' = 0
    /\ pc' = "enqueue"
    /\ UNCHANGED <<recorder, cursor, jobs, captured, dropped, state, spool, seen, batch, crashes>>

WriteArtifact(j) ==
    /\ FirstJob(j)
    /\ HasOutput(j)
    /\ j \notin captured
    /\ artifacts' = artifacts \cup {j}
    /\ current' = j
    /\ posts' = 0
    /\ pc' = "enqueue"
    /\ UNCHANGED <<recorder, cursor, jobs, captured, dropped, state, spool, seen, batch, crashes>>

(***************************************************************************)
(* enqueue_stream, or enqueue for an empty output: one record per chunk,   *)
(* chained from the head of the state file.                                *)
(***************************************************************************)
EnqueueChunk ==
    LET e == state.head \o ChunksUpTo(current, posts + 1) IN
    /\ pc = "enqueue"
    /\ posts < Chunks[current]
    /\ outbox' = IF e \in acknowledged THEN outbox ELSE outbox \cup {e}
    /\ posts' = posts + 1
    /\ UNCHANGED <<recorder, capture, state, acknowledged, chain, pc, seen, batch, current, crashes>>

\* Mutant of WriteCaptured: does not wait for the last chunk.
WriteCapturedEarly ==
    /\ pc = "enqueue"
    /\ posts + 1 >= Chunks[current]
    /\ captured' = captured \cup {current}
    /\ pc' = "save"
    /\ UNCHANGED <<recorder, cursor, jobs, artifacts, dropped, state, spool, locals, crashes>>

WriteCaptured ==
    /\ pc = "enqueue"
    /\ posts = Chunks[current]
    /\ captured' = captured \cup {current}
    /\ pc' = "save"
    /\ UNCHANGED <<recorder, cursor, jobs, artifacts, dropped, state, spool, locals, crashes>>

\* Mutant of SaveState: waits for the first chunk instead of the last.
SaveStateFirst ==
    /\ pc = "save"
    /\ state' = [state EXCEPT !.outstanding = state.head \o ChunksUpTo(current, 1)]
    /\ pc' = "unlink"
    /\ UNCHANGED <<recorder, capture, spool, locals, crashes>>

SaveState ==
    /\ pc = "save"
    /\ state' = [state EXCEPT !.outstanding =
                    state.head \o ChunksUpTo(current, Chunks[current])]
    /\ pc' = "unlink"
    /\ UNCHANGED <<recorder, capture, spool, locals, crashes>>

UnlinkJob ==
    /\ pc = "unlink"
    /\ jobs' = jobs \ {current}
    /\ current' = None
    /\ posts' = 0
    /\ pc' = "forward"
    /\ UNCHANGED <<recorder, cursor, captured, artifacts, dropped, state, spool, seen, batch, crashes>>

-----------------------------------------------------------------------------
(***************************************************************************)
(* forward_once: up to MaxRun calls of spool.forward_once, until one does  *)
(* not succeed.  Backoff may put any record of the outbox first.  The      *)
(* collector accepts a record that extends its chain and confirms one that *)
(* is in it.                                                               *)
(***************************************************************************)
Deliver(e) ==
    /\ pc = "forward"
    /\ posts < MaxRun
    /\ e \in outbox
    /\ Front(e) = chain \/ IsPrefix(e, chain)
    /\ chain' = IF IsPrefix(e, chain) THEN chain ELSE e
    /\ current' = e
    /\ pc' = "settle"
    /\ UNCHANGED <<recorder, capture, state, outbox, acknowledged, seen, batch, posts, crashes>>

Settle ==
    /\ pc = "settle"
    /\ outbox' = outbox \ {current}
    /\ acknowledged' = acknowledged \cup {current}
    /\ current' = None
    /\ posts' = posts + 1
    /\ pc' = "forward"
    /\ UNCHANGED <<recorder, capture, state, chain, seen, batch, crashes>>

(***************************************************************************)
(* No record is due, 32 were sent, the collector refuses, or the answer is *)
(* not seen.                                                               *)
(***************************************************************************)
StopForwarding ==
    /\ pc \in {"forward", "settle"}
    /\ current' = None
    /\ posts' = 0
    /\ pc' = "reconcile"
    /\ UNCHANGED <<recorder, capture, state, spool, seen, batch, crashes>>

\* Mutant of Ended: the next run starts with what this one had in hand.
EndedHolding ==
    /\ pc' = "idle"
    /\ seen' = [file |-> 0, size |-> 0]
    /\ batch' = NothingRead
    /\ UNCHANGED <<current, posts>>

Ended ==
    /\ pc' = "idle"
    /\ seen' = [file |-> 0, size |-> 0]
    /\ batch' = NothingRead
    /\ current' = None
    /\ posts' = 0

\* Mutant of AdvanceChain: the event stays outstanding.
AdvanceHeadOnly ==
    /\ pc = "reconcile"
    /\ state.outstanding \in acknowledged
    /\ state' = [state EXCEPT !.head = state.outstanding]
    /\ Ended
    /\ UNCHANGED <<recorder, capture, spool, crashes>>

AdvanceChain ==
    /\ pc = "reconcile"
    /\ state.outstanding \in acknowledged
    /\ state' = [head |-> state.outstanding, outstanding |-> None]
    /\ Ended
    /\ UNCHANGED <<recorder, capture, spool, crashes>>

KeepChain ==
    /\ pc = "reconcile"
    /\ state.outstanding \notin acknowledged
    /\ Ended
    /\ UNCHANGED <<recorder, capture, state, spool, crashes>>

Crash ==
    /\ pc # "idle"
    /\ crashes < MaxCrashes
    /\ crashes' = crashes + 1
    /\ Ended
    /\ UNCHANGED <<recorder, capture, state, spool>>

Run ==
    \/ StatLog \/ ReadLog \/ QueueJob \/ SaveCursor
    \/ NothingToCapture
    \/ \E j \in Job : DropJob(j) \/ SkipCaptured(j) \/ WriteArtifact(j)
    \/ EnqueueChunk \/ WriteCaptured \/ SaveState \/ UnlinkJob
    \/ \E e \in outbox : Deliver(e)
    \/ Settle \/ StopForwarding
    \/ AdvanceChain \/ KeepChain

Next ==
    \/ \E j \in Job : RecordEnd(j) \/ LogPart(j)
    \/ LogEnd \/ Rotate \/ Run \/ Crash

Spec == Init /\ [][Next]_vars

(***************************************************************************)
(* The timer starts run after run; a collector that is asked again and     *)
(* again answers some time, and the answer is seen some time.              *)
(***************************************************************************)
FairSpec ==
    /\ Spec
    /\ WF_vars(Run)
    /\ SF_vars(\E e \in outbox : Deliver(e))
    /\ SF_vars(Settle)

-----------------------------------------------------------------------------
Accepted == Prefixes(chain) \ {<<>>}
Queued == outbox \cup acknowledged

TypeOK ==
    /\ log \in [file : 1 .. MaxRotations + 1, lines : Seq(Job), part : Job \cup {None}]
    /\ recorded \subseteq Job /\ logged \subseteq Job
    /\ cursor \in [file : Nat, offset : Nat]
    /\ jobs \subseteq Job /\ captured \subseteq Job
    /\ artifacts \subseteq Job /\ dropped \subseteq Job
    /\ state.head \in Seq([job : Job, chunk : Nat])
    /\ state.outstanding = None \/ state.outstanding \in Seq([job : Job, chunk : Nat])
    /\ \A e \in Queued : e \in Seq([job : Job, chunk : Nat]) /\ e # <<>>
    /\ chain \in Seq([job : Job, chunk : Nat])
    /\ pc \in {"idle", "read", "queue", "choose", "enqueue", "save", "unlink",
              "forward", "settle", "reconcile"}
    /\ pc \in {"enqueue", "save", "unlink"} => current \in Job /\ posts <= Chunks[current]
    /\ pc = "settle" => current \in outbox /\ posts < MaxRun
    /\ pc \in {"idle", "read", "queue", "choose", "reconcile"} => current = None /\ posts = 0
    /\ crashes \in 0 .. MaxCrashes

(***************************************************************************)
(* README.md: the local chain advances only after a matching accepted ACK. *)
(* The head in chain-state.json is always in the collector's chain.        *)
(***************************************************************************)
HeadIsAccepted == state.head = <<>> \/ state.head \in Accepted

(***************************************************************************)
(* Lines 254-263: the transport never waits for an event that is not in    *)
(* the spool, and what it waits for extends the head by one whole command. *)
(***************************************************************************)
OutstandingIsQueued ==
    state.outstanding # None =>
        /\ state.outstanding \in Queued
        /\ \E j \in captured : state.outstanding = state.head \o ChunksUpTo(j, Chunks[j])

(***************************************************************************)
(* chain-state.json can be relied on after any crash.                      *)
(***************************************************************************)
StateIsSound == HeadIsAccepted /\ OutstandingIsQueued

(***************************************************************************)
(* Lines 243-264: a job file is given up for a captured command only when  *)
(* the artifact and every chunk of its output are durable, in order.       *)
(***************************************************************************)
CapturedIsQueued ==
    \A j \in captured :
        /\ j \in artifacts
        /\ \E e \in Queued :
              /\ Len(e) >= Chunks[j]
              /\ \A k \in 1 .. Chunks[j] :
                    /\ e[Len(e) - Chunks[j] + k] = Entry(j, k)
                    /\ SubSeq(e, 1, Len(e) - Chunks[j] + k) \in Queued

(***************************************************************************)
(* Lines 164-197: the cursor passes no end record of the current log file  *)
(* without a job for it, whatever crash or rotation came before and        *)
(* however much of the last record was written when it was read.           *)
(***************************************************************************)
CursorSkipsNothing ==
    cursor.file = log.file =>
        \A i \in DOMAIN log.lines :
            i <= cursor.offset => log.lines[i] \in jobs \cup captured \cup dropped

(***************************************************************************)
(* Line 265: one command at a time preserves the hash chain.  Everything   *)
(* in the outbox is in the collector's chain or can still extend it, and   *)
(* what can extend it belongs to one command.                              *)
(***************************************************************************)
OutboxExtendsChain ==
    \A e, f \in outbox \ Accepted :
        /\ IsPrefix(chain, e)
        /\ Last(e).job = Last(f).job

(***************************************************************************)
(* Until the first crash it does, whatever order jobs, chunks and answers  *)
(* come in.                                                                *)
(***************************************************************************)
ExtendsUntilCrash == crashes = 0 => OutboxExtendsChain

(***************************************************************************)
(* Lines 194 and 245: no command is in the collector's chain twice,        *)
(* whichever step of its capture a crash repeats.                          *)
(***************************************************************************)
CommandsAreUnique ==
    \A i, k \in DOMAIN chain : chain[i] = chain[k] => i = k

(***************************************************************************)
(* If no run crashes and the log is not rotated, every completed command's *)
(* whole output reaches the collector, but for a job that is dropped as    *)
(* its end marker is late.                                                 *)
(***************************************************************************)
EventuallyAccepted ==
    [](crashes = 0 /\ log.file = 1) =>
        \A j \in Job :
            j \in logged ~> \/ \E i \in DOMAIN chain : chain[i] = Entry(j, Chunks[j])
                            \/ j \in dropped /\ j \in LateFlush
=============================================================================
