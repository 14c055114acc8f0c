---------------------------- MODULE EvidenceSpool ----------------------------
(***************************************************************************)
(* central_collector.py: EvidenceSpool, the on-disk forward queue of an    *)
(* endpoint, and the processes that open it (a transport run by a timer,   *)
(* the enqueue and forward-once commands).                                 *)
(*                                                                         *)
(* A record is one file that os.replace moves between the directories      *)
(* pending, claimed and acknowledged; every file operation is one step, so *)
(* that a crash, or another process, can come between any two of them.  Of *)
(* a record only whether its next_attempt_at has passed is kept.           *)
(***************************************************************************)
EXTENDS Naturals, Sequences

CONSTANTS Process,    \* processes that use the spool directory
          Event,      \* events that may be enqueued
          Batch,      \* what one enqueue or enqueue_stream call writes
          MaxCrashes, \* bound on process crashes in one behaviour
          NoEvent

(***************************************************************************)
(* Events of a source are numbered without forks; a batch is a run of them.*)
(***************************************************************************)
ASSUME EventAssumption ==
    /\ \A e \in Event : e.sequence \in Nat
    /\ \A e, f \in Event :
          e.source_id = f.source_id /\ e.sequence = f.sequence => e = f
    /\ Batch \subseteq Seq(Event) \ {<<>>}
    /\ MaxCrashes \in Nat
    /\ NoEvent \notin Event

VARIABLES pending, claimed,  \* "none", or a file due now or "later"
          acknowledged,      \* events with a file in acknowledged/
          inflight,          \* events with a request under way to the collector
          accepted,          \* events the collector has accepted
          queued,            \* history: events some enqueue call has dealt with
          pc,                \* where each process is
          todo,              \* files it has listed and has still to look at
          batch,             \* events its enqueue call has still to look at
          candidates,        \* due records its _claim has still to try
          current,           \* the record it is working on
          crashes            \* crashes so far

files == <<pending, claimed, acknowledged>>
collector == <<inflight, accepted>>
locals == <<todo, batch, candidates, current>>
vars == <<files, collector, queued, pc, locals, crashes>>

FileStates == {"none", "due", "later"}
Places == {"off", "recover", "return", "ready", "check", "write", "scan", "claim",
           "read", "post", "await", "acknowledge", "fail", "requeue"}

Predecessors(e) ==
    {f \in Event : f.source_id = e.source_id /\ f.sequence < e.sequence}

(***************************************************************************)
(* The collector as the spool sees it: chain order per source, replays are *)
(* accepted again.                                                         *)
(***************************************************************************)
Acceptable(e) == e \in accepted \/ Predecessors(e) \subseteq accepted

Init ==
    /\ pending = [e \in Event |-> "none"]
    /\ claimed = [e \in Event |-> "none"]
    /\ acknowledged = {}
    /\ inflight = {}
    /\ accepted = {}
    /\ queued = {}
    /\ pc = [p \in Process |-> "off"]
    /\ todo = [p \in Process |-> {}]
    /\ batch = [p \in Process |-> <<>>]
    /\ candidates = [p \in Process |-> {}]
    /\ current = [p \in Process |-> NoEvent]
    /\ crashes = 0

Goto(p, label) == pc' = [pc EXCEPT ![p] = label]

\* Mutant of Ends: the record in hand survives the process.
EndsHolding(p) ==
    /\ Goto(p, "off")
    /\ todo' = [todo EXCEPT ![p] = {}]
    /\ batch' = [batch EXCEPT ![p] = <<>>]
    /\ candidates' = [candidates EXCEPT ![p] = {}]
    /\ UNCHANGED current

(***************************************************************************)
(* The process ends; what it held in memory is gone.                       *)
(***************************************************************************)
Ends(p) ==
    /\ Goto(p, "off")
    /\ todo' = [todo EXCEPT ![p] = {}]
    /\ batch' = [batch EXCEPT ![p] = <<>>]
    /\ candidates' = [candidates EXCEPT ![p] = {}]
    /\ current' = [current EXCEPT ![p] = NoEvent]

-----------------------------------------------------------------------------
(***************************************************************************)
(* __init__: every claimed record whose pending file is missing goes back  *)
(* to pending, whoever has claimed it.  A file that vanishes between glob  *)
(* and os.replace ends the process with FileNotFoundError.                 *)
(***************************************************************************)
Start(p) ==
    /\ pc[p] = "off"
    /\ Goto(p, "recover")
    /\ todo' = [todo EXCEPT ![p] = {e \in Event : claimed[e] # "none"}]
    /\ UNCHANGED <<files, collector, queued, batch, candidates, current, crashes>>

RecoverKeeps(p, e) ==
    /\ pc[p] = "recover"
    /\ e \in todo[p]
    /\ pending[e] # "none"
    /\ todo' = [todo EXCEPT ![p] = @ \ {e}]
    /\ UNCHANGED <<files, collector, queued, pc, batch, candidates, current, crashes>>

RecoverFinds(p, e) ==
    /\ pc[p] = "recover"
    /\ e \in todo[p]
    /\ pending[e] = "none"
    /\ todo' = [todo EXCEPT ![p] = @ \ {e}]
    /\ current' = [current EXCEPT ![p] = e]
    /\ Goto(p, "return")
    /\ UNCHANGED <<files, collector, queued, batch, candidates, crashes>>

\* Mutant of RecoverReturns: takes a claimed record for a delivered one.
RecoverAcknowledges(p) ==
    LET e == current[p] IN
    /\ pc[p] = "return"
    /\ claimed[e] # "none"
    /\ acknowledged' = acknowledged \cup {e}
    /\ claimed' = [claimed EXCEPT ![e] = "none"]
    /\ current' = [current EXCEPT ![p] = NoEvent]
    /\ Goto(p, "recover")
    /\ UNCHANGED <<pending, collector, queued, todo, batch, candidates, crashes>>

RecoverReturns(p) ==
    LET e == current[p] IN
    /\ pc[p] = "return"
    /\ claimed[e] # "none"
    /\ pending' = [pending EXCEPT ![e] = claimed[e]]
    /\ claimed' = [claimed EXCEPT ![e] = "none"]
    /\ current' = [current EXCEPT ![p] = NoEvent]
    /\ Goto(p, "recover")
    /\ UNCHANGED <<acknowledged, collector, queued, todo, batch, candidates, crashes>>

RecoverFails(p) ==
    /\ pc[p] = "return"
    /\ claimed[current[p]] = "none"
    /\ Ends(p)
    /\ UNCHANGED <<files, collector, queued, crashes>>

Opened(p) ==
    /\ pc[p] = "recover"
    /\ todo[p] = {}
    /\ Goto(p, "ready")
    /\ UNCHANGED <<files, collector, queued, locals, crashes>>

-----------------------------------------------------------------------------
(***************************************************************************)
(* enqueue, enqueue_stream: for each event in order, write its pending     *)
(* file unless a pending or acknowledged one exists.  A producer continues *)
(* a chain only after the calls for the earlier events have returned.  The *)
(* two exists() tests are one step: acknowledged only grows.               *)
(***************************************************************************)
StartEnqueue(p, b) ==
    /\ pc[p] = "ready"
    /\ Predecessors(b[1]) \subseteq queued
    /\ Goto(p, "check")
    /\ batch' = [batch EXCEPT ![p] = b]
    /\ UNCHANGED <<files, collector, queued, todo, candidates, current, crashes>>

SkipEntry(p) ==
    LET e == Head(batch[p]) IN
    /\ pc[p] = "check"
    /\ batch[p] # <<>>
    /\ pending[e] # "none" \/ e \in acknowledged
    /\ batch' = [batch EXCEPT ![p] = Tail(@)]
    /\ queued' = queued \cup {e}
    /\ UNCHANGED <<files, collector, pc, todo, candidates, current, crashes>>

\* Mutant of CheckEntry: does not look into acknowledged.
CheckPending(p) ==
    /\ pc[p] = "check"
    /\ batch[p] # <<>>
    /\ pending[Head(batch[p])] = "none"
    /\ Goto(p, "write")
    /\ UNCHANGED <<files, collector, queued, locals, crashes>>

CheckEntry(p) ==
    LET e == Head(batch[p]) IN
    /\ pc[p] = "check"
    /\ batch[p] # <<>>
    /\ pending[e] = "none" /\ e \notin acknowledged
    /\ Goto(p, "write")
    /\ UNCHANGED <<files, collector, queued, locals, crashes>>

WriteEntry(p) ==
    LET e == Head(batch[p]) IN
    /\ pc[p] = "write"
    /\ pending' = [pending EXCEPT ![e] = "due"]
    /\ batch' = [batch EXCEPT ![p] = Tail(@)]
    /\ queued' = queued \cup {e}
    /\ Goto(p, "check")
    /\ UNCHANGED <<claimed, acknowledged, collector, todo, candidates, current, crashes>>

Enqueued(p) ==
    /\ pc[p] = "check"
    /\ batch[p] = <<>>
    /\ Goto(p, "ready")
    /\ UNCHANGED <<files, collector, queued, locals, crashes>>

-----------------------------------------------------------------------------
(***************************************************************************)
(* _claim: list pending, read each file to find the due records, then try  *)
(* to move them to claimed in (source, sequence) order until one           *)
(* os.replace succeeds.                                                    *)
(***************************************************************************)
Scan(p) ==
    /\ pc[p] = "ready"
    /\ Goto(p, "scan")
    /\ todo' = [todo EXCEPT ![p] = {e \in Event : pending[e] # "none"}]
    /\ UNCHANGED <<files, collector, queued, batch, candidates, current, crashes>>

ReadDue(p, e) ==
    /\ pc[p] = "scan"
    /\ e \in todo[p]
    /\ todo' = [todo EXCEPT ![p] = @ \ {e}]
    /\ candidates' = [candidates EXCEPT ![p] =
                         IF pending[e] = "due" THEN @ \cup {e} ELSE @]
    /\ UNCHANGED <<files, collector, queued, pc, batch, current, crashes>>

Scanned(p) ==
    /\ pc[p] = "scan"
    /\ todo[p] = {}
    /\ Goto(p, "claim")
    /\ UNCHANGED <<files, collector, queued, locals, crashes>>

(***************************************************************************)
(* Sources have no order here: the first record of any source may be next. *)
(***************************************************************************)
Firsts(S) == {e \in S : S \cap Predecessors(e) = {}}

Claim(p, e) ==
    /\ pc[p] = "claim"
    /\ e \in Firsts(candidates[p])
    /\ pending[e] # "none"
    /\ claimed' = [claimed EXCEPT ![e] = pending[e]]
    /\ pending' = [pending EXCEPT ![e] = "none"]
    /\ current' = [current EXCEPT ![p] = e]
    /\ candidates' = [candidates EXCEPT ![p] = {}]
    /\ Goto(p, "read")
    /\ UNCHANGED <<acknowledged, collector, queued, todo, batch, crashes>>

ClaimMissed(p, e) ==
    /\ pc[p] = "claim"
    /\ e \in Firsts(candidates[p])
    /\ pending[e] = "none"
    /\ candidates' = [candidates EXCEPT ![p] = @ \ {e}]
    /\ UNCHANGED <<files, collector, queued, pc, todo, batch, current, crashes>>

NothingDue(p) ==
    /\ pc[p] = "claim"
    /\ candidates[p] = {}
    /\ Goto(p, "ready")
    /\ UNCHANGED <<files, collector, queued, locals, crashes>>

-----------------------------------------------------------------------------
(***************************************************************************)
(* forward_once, after the claim: read the record, post it, and move it to *)
(* acknowledged only on an answer that matches it.  Reading a record that  *)
(* another process has taken away ends this one.                           *)
(***************************************************************************)
ReadClaimed(p) ==
    /\ pc[p] = "read"
    /\ claimed[current[p]] # "none"
    /\ Goto(p, "post")
    /\ UNCHANGED <<files, collector, queued, locals, crashes>>

ReadFails(p) ==
    /\ pc[p] = "read"
    /\ claimed[current[p]] = "none"
    /\ Ends(p)
    /\ UNCHANGED <<files, collector, queued, crashes>>

Post(p) ==
    /\ pc[p] = "post"
    /\ inflight' = inflight \cup {current[p]}
    /\ Goto(p, "await")
    /\ UNCHANGED <<files, accepted, queued, locals, crashes>>

(***************************************************************************)
(* The collector serves the request and the matching answer arrives.       *)
(***************************************************************************)
Answered(p) ==
    LET e == current[p] IN
    /\ pc[p] = "await"
    /\ e \in inflight
    /\ Acceptable(e)
    /\ inflight' = inflight \ {e}
    /\ accepted' = accepted \cup {e}
    /\ Goto(p, "acknowledge")
    /\ UNCHANGED <<files, queued, locals, crashes>>

(***************************************************************************)
(* No connection, a refusal, an answer that does not match, a lost answer  *)
(* or the 10 s timeout: what was sent may still reach the collector.       *)
(***************************************************************************)
GiveUp(p) ==
    /\ pc[p] = "await"
    /\ Goto(p, "fail")
    /\ UNCHANGED <<files, collector, queued, locals, crashes>>

(***************************************************************************)
(* The collector serves a request whose answer nobody reads.               *)
(***************************************************************************)
Collect(e) ==
    /\ e \in inflight
    /\ inflight' = inflight \ {e}
    /\ accepted' = IF Acceptable(e) THEN accepted \cup {e} ELSE accepted
    /\ UNCHANGED <<files, queued, pc, locals, crashes>>

Acknowledge(p) ==
    LET e == current[p] IN
    /\ pc[p] = "acknowledge"
    /\ claimed[e] # "none"
    /\ acknowledged' = acknowledged \cup {e}
    /\ claimed' = [claimed EXCEPT ![e] = "none"]
    /\ current' = [current EXCEPT ![p] = NoEvent]
    /\ Goto(p, "ready")
    /\ UNCHANGED <<pending, collector, queued, todo, batch, candidates, crashes>>

(***************************************************************************)
(* The claimed file is gone: FileNotFoundError, an OSError, is taken for a *)
(* failed delivery.                                                        *)
(***************************************************************************)
AcknowledgeFails(p) ==
    /\ pc[p] = "acknowledge"
    /\ claimed[current[p]] = "none"
    /\ Goto(p, "fail")
    /\ UNCHANGED <<files, collector, queued, locals, crashes>>

\* Mutant of Backoff: removes the claimed file before the pending one is written.
BackoffRemoves(p) ==
    /\ pc[p] = "fail"
    /\ claimed' = [claimed EXCEPT ![current[p]] = "none"]
    /\ Goto(p, "requeue")
    /\ UNCHANGED <<pending, acknowledged, collector, queued, locals, crashes>>

(***************************************************************************)
(* The except clause: rewrite the claimed file with its next attempt time, *)
(* whether or not it is still there, and move it back to pending.          *)
(***************************************************************************)
Backoff(p) ==
    /\ pc[p] = "fail"
    /\ claimed' = [claimed EXCEPT ![current[p]] = "later"]
    /\ Goto(p, "requeue")
    /\ UNCHANGED <<pending, acknowledged, collector, queued, locals, crashes>>

\* Mutant of Requeue: leaves the record in claimed.
RequeueForgets(p) ==
    /\ pc[p] = "requeue"
    /\ current' = [current EXCEPT ![p] = NoEvent]
    /\ Goto(p, "ready")
    /\ UNCHANGED <<files, collector, queued, todo, batch, candidates, crashes>>

Requeue(p) ==
    LET e == current[p] IN
    /\ pc[p] = "requeue"
    /\ claimed[e] # "none"
    /\ pending' = [pending EXCEPT ![e] = claimed[e]]
    /\ claimed' = [claimed EXCEPT ![e] = "none"]
    /\ current' = [current EXCEPT ![p] = NoEvent]
    /\ Goto(p, "ready")
    /\ UNCHANGED <<acknowledged, collector, queued, todo, batch, candidates, crashes>>

RequeueFails(p) ==
    /\ pc[p] = "requeue"
    /\ claimed[current[p]] = "none"
    /\ Ends(p)
    /\ UNCHANGED <<files, collector, queued, crashes>>

-----------------------------------------------------------------------------
(***************************************************************************)
(* A process exits between two calls, or dies anywhere; time passes.       *)
(***************************************************************************)
Exit(p) ==
    /\ pc[p] = "ready"
    /\ Ends(p)
    /\ UNCHANGED <<files, collector, queued, crashes>>

Crash(p) ==
    /\ pc[p] # "off"
    /\ crashes < MaxCrashes
    /\ crashes' = crashes + 1
    /\ Ends(p)
    /\ UNCHANGED <<files, collector, queued>>

BackoffExpires(e) ==
    LET Due(file) == IF file = "later" THEN "due" ELSE file IN
    /\ "later" \in {pending[e], claimed[e]}
    /\ pending' = [pending EXCEPT ![e] = Due(@)]
    /\ claimed' = [claimed EXCEPT ![e] = Due(@)]
    /\ UNCHANGED <<acknowledged, collector, queued, pc, locals, crashes>>

(***************************************************************************)
(* What a process does next without waiting for anybody.                   *)
(***************************************************************************)
Works(p) ==
    \/ \E e \in Event : \/ RecoverKeeps(p, e) \/ RecoverFinds(p, e)
                        \/ ReadDue(p, e)
                        \/ Claim(p, e) \/ ClaimMissed(p, e)
    \/ RecoverReturns(p) \/ RecoverFails(p) \/ Opened(p)
    \/ SkipEntry(p) \/ CheckEntry(p) \/ WriteEntry(p) \/ Enqueued(p)
    \/ Scanned(p) \/ NothingDue(p)
    \/ ReadClaimed(p) \/ ReadFails(p) \/ Post(p) \/ Answered(p) \/ GiveUp(p)
    \/ Acknowledge(p) \/ AcknowledgeFails(p)
    \/ Backoff(p) \/ Requeue(p) \/ RequeueFails(p)

Next ==
    \/ \E p \in Process :
          \/ Start(p) \/ Scan(p) \/ Works(p) \/ Exit(p) \/ Crash(p)
          \/ \E b \in Batch : StartEnqueue(p, b)
    \/ \E e \in Event : Collect(e) \/ BackoffExpires(e)

Spec == Init /\ [][Next]_vars

(***************************************************************************)
(* The timer starts the transport again after it ends, every run that goes *)
(* on long enough calls forward_once, the clock advances, and a collector  *)
(* that is asked for ever answers at last.                                 *)
(***************************************************************************)
FairSpec ==
    /\ Spec
    /\ \A p \in Process :
          /\ WF_vars(Start(p)) /\ WF_vars(Works(p)) /\ SF_vars(Scan(p))
          /\ \A e \in Event : SF_vars(current[p] = e /\ Answered(p))
    /\ \A e \in Event : WF_vars(BackoffExpires(e))

-----------------------------------------------------------------------------
TypeOK ==
    /\ pending \in [Event -> FileStates]
    /\ claimed \in [Event -> FileStates]
    /\ acknowledged \subseteq Event
    /\ inflight \subseteq Event
    /\ accepted \subseteq Event
    /\ queued \subseteq Event
    /\ pc \in [Process -> Places]
    /\ todo \in [Process -> SUBSET Event]
    /\ batch \in [Process -> Seq(Event)]
    /\ candidates \in [Process -> SUBSET Event]
    /\ current \in [Process -> Event \cup {NoEvent}]
    /\ crashes \in 0 .. MaxCrashes
    /\ \A p \in Process :
          current[p] \in Event <=>
              pc[p] \in {"return", "read", "post", "await", "acknowledge", "fail", "requeue"}

Owed == {e \in Event : pending[e] # "none" \/ claimed[e] # "none"}

(***************************************************************************)
(* Once enqueue has dealt with an event, a file of it exists in one of the *)
(* three directories, however many processes claim, recover, acknowledge   *)
(* and give up the same record, and wherever they crash.                   *)
(***************************************************************************)
NoEvidenceLost == queued \subseteq Owed \cup acknowledged

(***************************************************************************)
(* With one process at a time, a record is in one directory only: a crash  *)
(* between claim, acknowledge and requeue leaves no second copy, and       *)
(* nothing acknowledged is sent again.                                     *)
(***************************************************************************)
OneCopy ==
    \A e \in Event :
        /\ pending[e] = "none" \/ claimed[e] = "none"
        /\ e \in acknowledged => e \notin Owed

(***************************************************************************)
(* Everything enqueued is acknowledged in the end.                         *)
(***************************************************************************)
EventuallyAcknowledged == \A e \in Event : e \in queued ~> e \in acknowledged

(***************************************************************************)
(* The spool is a durable queue with delivery at least once, also when     *)
(* several processes share it.                                             *)
(***************************************************************************)
Queue == INSTANCE DeliveryQueue WITH outbox <- Owed

QueueImplemented == Queue!Spec
=============================================================================
