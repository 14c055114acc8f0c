----------------------------- MODULE MacTransport -----------------------------
(***************************************************************************)
(* platform/macos/redteam-macos-transport.py: forward_once, which launchd  *)
(* starts every five seconds, with the job files redteam-macos-event       *)
(* leaves at the end of each command.                                      *)
(*                                                                         *)
(* It differs from the Linux transport where it matters here: a run        *)
(* captures every job that has an output, there is no record of captured   *)
(* jobs, and chain-state.json is truncated and then written.  Events are   *)
(* histories of [job, chunk] entries, as in LinuxTransport.                *)
(***************************************************************************)
EXTENDS Naturals, Sequences, SequencesExt

CONSTANTS Job,        \* completed commands, as <session, sequence>
          Chunks,     \* Chunks[j]: events make_output_stream makes of the output
          MaxRun,     \* forward_once calls of the spool in one run (32)
          MaxCrashes, \* bound on crashes in one behaviour
          None,
          Torn        \* a chain-state.json that was truncated and not written

ASSUME JobAssumption ==
    /\ Chunks \in [Job -> Nat \ {0}]
    /\ MaxRun \in Nat \ {0} /\ MaxCrashes \in Nat
    /\ None \notin Job /\ None \notin Seq([job : Job, chunk : Nat])
    /\ Torn \notin [head : Seq([job : Job, chunk : Nat]),
                   outstanding : Seq([job : Job, chunk : Nat]) \cup {None}]

VARIABLES recorded,     \* commands whose end marker is in their output.log
          ended,        \* commands whose job file was created
          blank,        \* job files that are not written yet
          rank,         \* the order of the job file names
          jobs,         \* capture-pending/
          state,        \* chain-state.json: [head, outstanding], or Torn
          outbox, acknowledged, \* the spool, see DeliveryQueue
          chain,        \* the collector's head for this source
          pc,           \* where the run is
          memory,       \* the state in memory
          todo,         \* job files of the loop that are still to be looked at
          current,      \* the job being captured, or the event being posted
          posts,        \* spool calls, or chunks enqueued, so far
          burst,        \* history: a job file was created while there was another
          crashes

shell == <<recorded, ended, blank, rank, burst>>
spool == <<outbox, acknowledged, chain>>
locals == <<memory, todo, current, posts>>
vars == <<shell, jobs, state, spool, pc, locals, crashes>>

Entry(j, k) == [job |-> j, chunk |-> k]
ChunksUpTo(j, k) == [i \in 1 .. k |-> Entry(j, i)]
Fresh == [head |-> <<>>, outstanding |-> None]

Init ==
    /\ recorded = {}
    /\ ended = {}
    /\ blank = {}
    /\ rank \in {r \in [Job -> 1 .. Cardinality(Job)] : IsInjective(r)}
    /\ jobs = {}
    /\ state = Fresh
    /\ outbox = {}
    /\ acknowledged = {}
    /\ chain = <<>>
    /\ pc = "idle"
    /\ memory = Fresh
    /\ todo = {}
    /\ current = None
    /\ posts = 0
    /\ burst = FALSE
    /\ crashes = 0

-----------------------------------------------------------------------------
(***************************************************************************)
(* The recorded shell: script flushes the end marker to output.log; the    *)
(* hook has redteam-macos-event create the job file, and then write it.    *)
(***************************************************************************)
RecordEnd(j) ==
    /\ j \notin recorded
    /\ recorded' = recorded \cup {j}
    /\ UNCHANGED <<ended, blank, rank, burst, jobs, state, spool, pc, locals, crashes>>

CreateJob(j) ==
    /\ j \notin ended
    /\ ended' = ended \cup {j}
    /\ blank' = blank \cup {j}
    /\ jobs' = jobs \cup {j}
    /\ burst' = (burst \/ jobs # {})
    /\ UNCHANGED <<recorded, rank, state, spool, pc, locals, crashes>>

WriteJob(j) ==
    /\ j \in blank
    /\ blank' = blank \ {j}
    /\ UNCHANGED <<recorded, ended, rank, burst, jobs, state, spool, pc, locals, crashes>>

-----------------------------------------------------------------------------
\* Mutant of Ended: the next run starts with what this one had in hand.
EndedHolding ==
    /\ pc' = "idle"
    /\ memory' = Fresh
    /\ todo' = {}
    /\ UNCHANGED <<current, posts>>

Ended ==
    /\ pc' = "idle"
    /\ memory' = Fresh
    /\ todo' = {}
    /\ current' = None
    /\ posts' = 0

(***************************************************************************)
(* capture_once: nothing while an event is outstanding, else every job in  *)
(* the order of the file names.  A torn state file or a blank job file     *)
(* ends the run, the ValueError of json.loads is not caught.               *)
(***************************************************************************)
StillOutstanding ==
    /\ pc = "idle"
    /\ state # Torn
    /\ state.outstanding # None
    /\ pc' = "forward"
    /\ UNCHANGED <<shell, jobs, state, spool, locals, crashes>>

\* Mutant of StartCapture: does not wait for the event in flight.
CaptureAtOnce ==
    /\ pc = "idle"
    /\ state # Torn
    /\ memory' = state
    /\ todo' = jobs
    /\ pc' = "choose"
    /\ UNCHANGED <<shell, jobs, state, spool, current, posts, crashes>>

StartCapture ==
    /\ pc = "idle"
    /\ state # Torn
    /\ state.outstanding = None
    /\ memory' = state
    /\ todo' = jobs
    /\ pc' = "choose"
    /\ UNCHANGED <<shell, jobs, state, spool, current, posts, crashes>>

FirstJob(j) ==
    /\ pc = "choose"
    /\ j \in todo
    /\ \A k \in todo : rank[j] <= rank[k]

ReadBlank(j) ==
    /\ FirstJob(j)
    /\ j \in blank
    /\ Ended
    /\ UNCHANGED <<shell, jobs, state, spool, crashes>>

\* Mutant of SkipJob: gives up a job whose output is not there yet.
GiveUpJob(j) ==
    /\ FirstJob(j)
    /\ j \notin blank \cup recorded
    /\ jobs' = jobs \ {j}
    /\ todo' = todo \ {j}
    /\ UNCHANGED <<shell, state, spool, pc, memory, current, posts, crashes>>

SkipJob(j) ==
    /\ FirstJob(j)
    /\ j \notin blank \cup recorded
    /\ todo' = todo \ {j}
    /\ UNCHANGED <<shell, jobs, state, spool, pc, memory, current, posts, crashes>>

TakeJob(j) ==
    /\ FirstJob(j)
    /\ j \in recorded \ blank
    /\ current' = j
    /\ pc' = "enqueue"
    /\ UNCHANGED <<shell, jobs, state, spool, memory, todo, posts, crashes>>

EnqueueChunk ==
    LET e == memory.head \o ChunksUpTo(current, posts + 1) IN
    /\ pc = "enqueue"
    /\ posts < Chunks[current]
    /\ outbox' = IF e \in acknowledged THEN outbox ELSE outbox \cup {e}
    /\ posts' = posts + 1
    /\ UNCHANGED <<shell, jobs, state, acknowledged, chain, pc, memory, todo, current, crashes>>

(***************************************************************************)
(* state_path.write_text: open for writing truncates the file, the text    *)
(* follows.                                                                *)
(***************************************************************************)
TruncateState ==
    /\ pc = "enqueue"
    /\ posts = Chunks[current]
    /\ memory' = [memory EXCEPT !.outstanding =
                     memory.head \o ChunksUpTo(current, Chunks[current])]
    /\ state' = Torn
    /\ pc' = "write"
    /\ UNCHANGED <<shell, jobs, spool, todo, current, posts, crashes>>

WriteState ==
    /\ pc = "write"
    /\ state' = memory
    /\ pc' = "unlink"
    /\ UNCHANGED <<shell, jobs, spool, locals, crashes>>

\* Mutant of UnlinkJob: the job file stays.
LeaveJob ==
    /\ pc = "unlink"
    /\ todo' = todo \ {current}
    /\ current' = None
    /\ posts' = 0
    /\ pc' = "choose"
    /\ UNCHANGED <<shell, jobs, state, spool, memory, crashes>>

UnlinkJob ==
    /\ pc = "unlink"
    /\ jobs' = jobs \ {current}
    /\ todo' = todo \ {current}
    /\ current' = None
    /\ posts' = 0
    /\ pc' = "choose"
    /\ UNCHANGED <<shell, state, spool, memory, crashes>>

CaptureDone ==
    /\ pc = "choose"
    /\ todo = {}
    /\ pc' = "forward"
    /\ UNCHANGED <<shell, jobs, state, spool, locals, crashes>>

-----------------------------------------------------------------------------
(***************************************************************************)
(* forward_once and reconcile_acknowledged, as on Linux.                   *)
(***************************************************************************)
Deliver(e) ==
    /\ pc = "forward"
    /\ posts < MaxRun
    /\ e \in outbox
    /\ Front(e) = chain \/ IsPrefix(e, chain)
    /\ chain' = IF IsPrefix(e, chain) THEN chain ELSE e
    /\ current' = e
    /\ pc' = "settle"
    /\ UNCHANGED <<shell, jobs, state, outbox, acknowledged, memory, todo, posts, crashes>>

Settle ==
    /\ pc = "settle"
    /\ outbox' = outbox \ {current}
    /\ acknowledged' = acknowledged \cup {current}
    /\ current' = None
    /\ posts' = posts + 1
    /\ pc' = "forward"
    /\ UNCHANGED <<shell, jobs, state, chain, memory, todo, crashes>>

StopForwarding ==
    /\ pc \in {"forward", "settle"}
    /\ current' = None
    /\ posts' = 0
    /\ pc' = "reconcile"
    /\ UNCHANGED <<shell, jobs, state, spool, memory, todo, crashes>>

KeepChain ==
    /\ pc = "reconcile"
    /\ state.outstanding \notin acknowledged
    /\ Ended
    /\ UNCHANGED <<shell, jobs, state, spool, crashes>>

\* Mutant of TruncateToAdvance: does not look for the acknowledgement.
AdvanceUnacknowledged ==
    /\ pc = "reconcile"
    /\ state.outstanding # None
    /\ memory' = [head |-> state.outstanding, outstanding |-> None]
    /\ state' = Torn
    /\ pc' = "advance"
    /\ UNCHANGED <<shell, jobs, spool, todo, current, posts, crashes>>

TruncateToAdvance ==
    /\ pc = "reconcile"
    /\ state.outstanding \in acknowledged
    /\ memory' = [head |-> state.outstanding, outstanding |-> None]
    /\ state' = Torn
    /\ pc' = "advance"
    /\ UNCHANGED <<shell, jobs, spool, todo, current, posts, crashes>>

AdvanceChain ==
    /\ pc = "advance"
    /\ state' = memory
    /\ Ended
    /\ UNCHANGED <<shell, jobs, spool, crashes>>

Crash ==
    /\ pc # "idle"
    /\ crashes < MaxCrashes
    /\ crashes' = crashes + 1
    /\ Ended
    /\ UNCHANGED <<shell, jobs, state, spool>>

Run ==
    \/ StillOutstanding \/ StartCapture
    \/ \E j \in Job : ReadBlank(j) \/ SkipJob(j) \/ TakeJob(j)
    \/ EnqueueChunk \/ TruncateState \/ WriteState \/ UnlinkJob \/ CaptureDone
    \/ \E e \in outbox : Deliver(e)
    \/ Settle \/ StopForwarding
    \/ KeepChain \/ TruncateToAdvance \/ AdvanceChain

Next ==
    \/ \E j \in Job : RecordEnd(j) \/ CreateJob(j) \/ WriteJob(j)
    \/ Run \/ Crash

Spec == Init /\ [][Next]_vars

(***************************************************************************)
(* As for Linux; and script flushes the marker of an ended command, whose  *)
(* job file is written once it is created.                                 *)
(***************************************************************************)
FairSpec ==
    /\ Spec
    /\ WF_vars(Run)
    /\ SF_vars(\E e \in outbox : Deliver(e))
    /\ SF_vars(Settle)
    /\ \A j \in Job : WF_vars(j \in ended /\ RecordEnd(j)) /\ WF_vars(WriteJob(j))

-----------------------------------------------------------------------------
Accepted == Prefixes(chain) \ {<<>>}
Queued == outbox \cup acknowledged
EventSeq == Seq([job : Job, chunk : Nat])

TypeOK ==
    /\ recorded \subseteq Job /\ ended \subseteq Job
    /\ jobs \subseteq ended /\ blank \subseteq ended /\ todo \subseteq jobs
    /\ \/ state = Torn
       \/ state.head \in EventSeq /\ (state.outstanding = None \/ state.outstanding \in EventSeq)
    /\ \A e \in Queued : e \in EventSeq /\ e # <<>>
    /\ chain \in EventSeq
    /\ pc \in {"idle", "choose", "enqueue", "write", "unlink", "forward", "settle",
              "reconcile", "advance"}
    /\ pc \in {"enqueue", "write", "unlink"} => current \in todo /\ posts <= Chunks[current]
    /\ pc = "settle" => current \in outbox /\ posts < MaxRun
    /\ pc \in {"idle", "choose", "reconcile", "advance"} => current = None /\ posts = 0
    /\ crashes \in 0 .. MaxCrashes

(***************************************************************************)
(* platform/macos/README.md: the local chain advances only after the final *)
(* chunk's acknowledgement.                                                *)
(***************************************************************************)
HeadIsAccepted ==
    state # Torn => state.head = <<>> \/ state.head \in Accepted

(***************************************************************************)
(* Lines 87-94: what the transport waits for is in the spool, with all the *)
(* chunks before it.                                                       *)
(***************************************************************************)
OutstandingIsQueued ==
    state # Torn /\ state.outstanding # None =>
        \A n \in Len(state.head) + 1 .. Len(state.outstanding) :
            SubSeq(state.outstanding, 1, n) \in Queued

(***************************************************************************)
(* chain-state.json can be relied on as long as it can be read.            *)
(***************************************************************************)
StateIsSound == HeadIsAccepted /\ OutstandingIsQueued

(***************************************************************************)
(* Line 96: a job file is removed only when the whole output is in the     *)
(* spool.                                                                  *)
(***************************************************************************)
JobsAreKept ==
    \A j \in ended \ jobs :
        \E e \in Queued :
            /\ Len(e) >= Chunks[j]
            /\ \A k \in 1 .. Chunks[j] :
                  /\ e[Len(e) - Chunks[j] + k] = Entry(j, k)
                  /\ SubSeq(e, 1, Len(e) - Chunks[j] + k) \in Queued

(***************************************************************************)
(* Lines 70-71: one event in flight preserves strict ordering.  Everything *)
(* in the outbox is in the collector's chain or can still extend it.       *)
(***************************************************************************)
OutboxExtendsChain ==
    \A e, f \in outbox \ Accepted :
        /\ IsPrefix(chain, e)
        /\ Last(e).job = Last(f).job

(***************************************************************************)
(* It does, whatever crashes, as long as no command ends while another's   *)
(* job file is there, be it not yet captured or left by a crash before     *)
(* line 96: a run captures what it finds from one head.  A command may end *)
(* before the event of an earlier one is acknowledged.                     *)
(***************************************************************************)
ExtendsUntilBurst == ~burst => OutboxExtendsChain

(***************************************************************************)
(* No command is in the collector's chain twice until a run crashes.       *)
(***************************************************************************)
UniqueUntilCrash ==
    crashes = 0 =>
        \A i, k \in DOMAIN chain : chain[i] = chain[k] => i = k

(***************************************************************************)
(* Every ended command's whole output reaches the collector, as long as no *)
(* job file is created while there is another and nothing crashes; also of *)
(* a command that ended before an earlier one was acknowledged.            *)
(***************************************************************************)
EventuallyAccepted ==
    [](~burst /\ crashes = 0) =>
        \A j \in Job : j \in ended ~> \E i \in DOMAIN chain : chain[i] = Entry(j, Chunks[j])
=============================================================================
