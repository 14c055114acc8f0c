-------------------------- MODULE EvidenceSpoolProofs --------------------------
(***************************************************************************)
(* Proofs about EvidenceSpool, for any number of processes on a spool      *)
(* directory, any events, batches and number of crashes.                   *)
(***************************************************************************)
EXTENDS EvidenceSpool, TLAPS

(***************************************************************************)
(* Types, and that a process about to write has something to write.        *)
(***************************************************************************)
Typed == TypeOK /\ \A p \in Process : pc[p] = "write" => batch[p] # <<>>

(***************************************************************************)
(* A spool starts empty, with no process at work.                          *)
(***************************************************************************)
LEMMA InitTyped == Init => Typed
<1> SUFFICES ASSUME Init PROVE Typed
  OBVIOUS
<1>1. NoEvent \notin Event /\ MaxCrashes \in Nat /\ <<>> \in Seq(Event)
  BY EventAssumption
<1>2. /\ pending \in [Event -> FileStates] /\ claimed \in [Event -> FileStates]
      /\ pc \in [Process -> Places] /\ todo \in [Process -> SUBSET Event]
      /\ batch \in [Process -> Seq(Event)] /\ candidates \in [Process -> SUBSET Event]
      /\ current \in [Process -> Event \cup {NoEvent}]
  BY <1>1 DEF Init, FileStates, Places
<1> QED
  BY <1>1, <1>2 DEF Init, TypeOK, Typed

(***************************************************************************)
(* A process that ends has nothing in hand.                                *)
(***************************************************************************)
LEMMA EndsTyped ==
    ASSUME Typed, NEW p \in Process, Ends(p)
    PROVE  /\ batch' \in [Process -> Seq(Event)] /\ todo' \in [Process -> SUBSET Event]
           /\ candidates' \in [Process -> SUBSET Event]
           /\ current' \in [Process -> Event \cup {NoEvent}] /\ pc' \in [Process -> Places]
           /\ \A q \in Process :
                 /\ pc'[q] = "write" => batch'[q] # <<>>
                 /\ current'[q] \in Event <=>
                      pc'[q] \in {"return", "read", "post", "await", "acknowledge", "fail",
                                 "requeue"}
<1>1. <<>> \in Seq(Event) /\ NoEvent \notin Event
  BY EventAssumption
<1> QED
  BY <1>1 DEF Ends, Typed, TypeOK, Places, Goto

(***************************************************************************)
(* Opening a spool, a crash and an exit keep types.                        *)
(***************************************************************************)
LEMMA OpenTyped ==
    ASSUME Typed, NEW p \in Process,
           \/ Start(p) \/ RecoverReturns(p) \/ RecoverFails(p) \/ Opened(p)
           \/ Exit(p) \/ Crash(p)
           \/ \E e \in Event : RecoverKeeps(p, e) \/ RecoverFinds(p, e)
    PROVE  Typed'
<1> USE DEF Typed, TypeOK, FileStates, Places, files, collector, locals, Goto
<1>0. NoEvent \notin Event /\ MaxCrashes \in Nat
  BY EventAssumption
<1>1. CASE Start(p)
  BY <1>0, <1>1 DEF Start
<1>2. CASE RecoverReturns(p)
  BY <1>0, <1>2 DEF RecoverReturns
<1>3. CASE RecoverFails(p)
  BY <1>3, EndsTyped DEF RecoverFails
<1>4. CASE Opened(p)
  BY <1>0, <1>4 DEF Opened
<1>5. ASSUME NEW e \in Event, RecoverKeeps(p, e) PROVE Typed'
  BY <1>0, <1>5 DEF RecoverKeeps
<1>6. ASSUME NEW e \in Event, RecoverFinds(p, e) PROVE Typed'
  BY <1>0, <1>6 DEF RecoverFinds
<1>7. CASE Exit(p)
  BY <1>7, EndsTyped DEF Exit
<1>8. CASE Crash(p)
  BY <1>0, <1>8, EndsTyped DEF Crash
<1> QED
  BY <1>1, <1>2, <1>3, <1>4, <1>5, <1>6, <1>7, <1>8

(***************************************************************************)
(* So does enqueueing.                                                     *)
(***************************************************************************)
LEMMA EnqueueTyped ==
    ASSUME Typed, NEW p \in Process,
           \/ SkipEntry(p) \/ CheckEntry(p) \/ WriteEntry(p) \/ Enqueued(p)
           \/ \E b \in Batch : StartEnqueue(p, b)
    PROVE  Typed'
<1> USE DEF Typed, TypeOK, FileStates, Places, files, collector, locals, Goto
<1>0. NoEvent \notin Event /\ Batch \subseteq Seq(Event)
  BY EventAssumption
<1>1. batch[p] # <<>> => Head(batch[p]) \in Event /\ Tail(batch[p]) \in Seq(Event)
  <2>1. batch[p] \in Seq(Event)
    OBVIOUS
  <2> QED
    BY <2>1
<1>2. CASE SkipEntry(p)
  BY <1>0, <1>1, <1>2 DEF SkipEntry
<1>3. CASE CheckEntry(p)
  BY <1>0, <1>3 DEF CheckEntry
<1>4. CASE WriteEntry(p)
  BY <1>0, <1>1, <1>4 DEF WriteEntry
<1>5. CASE Enqueued(p)
  BY <1>0, <1>5 DEF Enqueued
<1>6. ASSUME NEW b \in Batch, StartEnqueue(p, b) PROVE Typed'
  BY <1>0, <1>6 DEF StartEnqueue
<1> QED
  BY <1>2, <1>3, <1>4, <1>5, <1>6

(***************************************************************************)
(* And forwarding.                                                         *)
(***************************************************************************)
LEMMA ForwardTyped ==
    ASSUME Typed, NEW p \in Process,
           \/ Scan(p) \/ Scanned(p) \/ NothingDue(p)
           \/ \E e \in Event : ReadDue(p, e) \/ Claim(p, e) \/ ClaimMissed(p, e)
           \/ ReadClaimed(p) \/ ReadFails(p) \/ Post(p) \/ Answered(p) \/ GiveUp(p)
           \/ Acknowledge(p) \/ AcknowledgeFails(p)
           \/ Backoff(p) \/ Requeue(p) \/ RequeueFails(p)
    PROVE  Typed'
<1> USE DEF Typed, TypeOK, FileStates, Places, files, collector, locals, Goto
<1>0. NoEvent \notin Event
  BY EventAssumption
<1>1. CASE Scan(p)
  BY <1>0, <1>1 DEF Scan
<1>2. CASE Scanned(p) \/ NothingDue(p)
  <2>1. CASE Scanned(p)
    BY <1>0, <2>1 DEF Scanned
  <2>2. CASE NothingDue(p)
    BY <1>0, <2>2 DEF NothingDue
  <2> QED
    BY <1>2, <2>1, <2>2
<1>3. ASSUME NEW e \in Event, ReadDue(p, e) PROVE Typed'
  BY <1>0, <1>3 DEF ReadDue
<1>4. ASSUME NEW e \in Event, Claim(p, e) PROVE Typed'
  BY <1>0, <1>4 DEF Claim
<1>5. ASSUME NEW e \in Event, ClaimMissed(p, e) PROVE Typed'
  BY <1>0, <1>5 DEF ClaimMissed
<1>6. CASE ReadClaimed(p) \/ GiveUp(p) \/ AcknowledgeFails(p)
  <2>1. CASE ReadClaimed(p)
    BY <1>0, <2>1 DEF ReadClaimed
  <2>2. CASE GiveUp(p)
    BY <1>0, <2>2 DEF GiveUp
  <2>3. CASE AcknowledgeFails(p)
    BY <1>0, <2>3 DEF AcknowledgeFails
  <2> QED
    BY <1>6, <2>1, <2>2, <2>3
<1>7. CASE Post(p)
  BY <1>0, <1>7 DEF Post
<1>8. CASE Answered(p)
  BY <1>0, <1>8 DEF Answered
<1>9. CASE Acknowledge(p)
  BY <1>0, <1>9 DEF Acknowledge
<1>10. CASE Backoff(p)
  BY <1>0, <1>10 DEF Backoff
<1>11. CASE Requeue(p)
  BY <1>0, <1>11 DEF Requeue
<1>12. CASE ReadFails(p) \/ RequeueFails(p)
  BY <1>12, EndsTyped DEF ReadFails, RequeueFails
<1> QED
  BY <1>1, <1>2, <1>3, <1>4, <1>5, <1>6, <1>7, <1>8, <1>9, <1>10, <1>11, <1>12

(***************************************************************************)
(* Every step keeps types.                                                 *)
(***************************************************************************)
LEMMA NextTyped == Typed /\ [Next]_vars => Typed'
<1> SUFFICES ASSUME Typed, [Next]_vars PROVE Typed'
  OBVIOUS
<1>1. ASSUME NEW e \in Event, Collect(e) PROVE Typed'
  BY <1>1 DEF Collect, Typed, TypeOK, files, locals
<1>2. ASSUME NEW e \in Event, BackoffExpires(e) PROVE Typed'
  BY <1>2 DEF BackoffExpires, Typed, TypeOK, FileStates, collector, locals
<1>3. CASE UNCHANGED vars
  BY <1>3 DEF vars, Typed, TypeOK, files, collector, locals
<1> QED
  BY <1>1, <1>2, <1>3, OpenTyped, EnqueueTyped, ForwardTyped DEF Next, Works

(***************************************************************************)
(* Type correctness: in particular a process has a record in hand exactly  *)
(* where forward_once and recovery work on one.                            *)
(***************************************************************************)
THEOREM TypeCorrect == Spec => []TypeOK
<1>1. Typed => TypeOK
  BY DEF Typed
<1> QED
  BY <1>1, InitTyped, NextTyped, PTL DEF Spec

-----------------------------------------------------------------------------
(***************************************************************************)
(* What a step does to the records: os.replace moves them between pending  *)
(* and claimed, and only an acknowledgement takes a copy away.             *)
(***************************************************************************)
Moved == Owed' = Owed /\ UNCHANGED <<acknowledged, accepted>>
Added(e) == Owed' = Owed \cup {e} /\ UNCHANGED <<acknowledged, accepted>>
Collected(e) == accepted' = accepted \cup {e} /\ UNCHANGED <<Owed, acknowledged>>
Settled(p) ==
    /\ pc[p] = "acknowledge" /\ current[p] \in Event /\ current[p] \in Owed
    /\ acknowledged' = acknowledged \cup {current[p]}
    /\ Owed' \in {Owed, Owed \ {current[p]}}
    /\ UNCHANGED accepted

LEMMA RecordSteps ==
    ASSUME Typed, [Next]_vars
    PROVE  \/ Moved
           \/ \E e \in Event : Added(e)
           \/ \E e \in inflight : Collected(e)
           \/ \E p \in Process : Settled(p)
<1> USE DEF Typed, TypeOK, FileStates
<1>0. UNCHANGED <<files, accepted>> => Moved
  BY DEF files, Moved, Owed
<1>1. ASSUME NEW p \in Process, RecoverReturns(p) PROVE Moved
  BY <1>1 DEF RecoverReturns, Moved, Owed, collector
<1>2. ASSUME NEW p \in Process, WriteEntry(p) PROVE \E e \in Event : Added(e)
  <2> DEFINE e == Head(batch[p])
  <2>1. e \in Event
    <3>1. batch[p] \in Seq(Event) /\ batch[p] # <<>>
      BY <1>2 DEF WriteEntry
    <3> QED
      BY <3>1
  <2>2. pending' = [pending EXCEPT ![e] = "due"] /\ UNCHANGED <<claimed, acknowledged, accepted>>
    BY <1>2 DEF WriteEntry, collector
  <2> HIDE DEF e
  <2>3. Added(e)
    BY <2>1, <2>2 DEF Added, Owed
  <2> QED
    BY <2>1, <2>3
<1>3. ASSUME NEW p \in Process, NEW e \in Event, Claim(p, e) PROVE Moved
  BY <1>3 DEF Claim, Moved, Owed, collector
<1>4. ASSUME NEW p \in Process, Answered(p) PROVE \E e \in inflight : Collected(e)
  BY <1>4 DEF Answered, Collected, Owed, files
<1>5. ASSUME NEW p \in Process, Acknowledge(p) PROVE Settled(p)
  <2>1. current[p] \in Event
    BY <1>5 DEF Acknowledge
  <2>2. Owed' \in {Owed, Owed \ {current[p]}}
    <3>1. claimed' = [claimed EXCEPT ![current[p]] = "none"] /\ pending' = pending
      BY <1>5 DEF Acknowledge
    <3>2. CASE pending[current[p]] = "none"
      <4>1. Owed' = Owed \ {current[p]}
        BY <2>1, <3>1, <3>2 DEF Owed
      <4> QED
        BY <4>1
    <3>3. CASE pending[current[p]] # "none"
      <4>1. Owed' = Owed
        BY <2>1, <3>1, <3>3 DEF Owed
      <4> QED
        BY <4>1
    <3> QED
      BY <3>2, <3>3
  <2> QED
    BY <1>5, <2>1, <2>2 DEF Acknowledge, Settled, Owed, collector
<1>6. ASSUME NEW p \in Process, Backoff(p) PROVE \E e \in Event : Added(e)
  <2>1. current[p] \in Event
    BY <1>6 DEF Backoff
  <2>2. Added(current[p])
    BY <1>6, <2>1 DEF Backoff, Added, Owed, collector
  <2> QED
    BY <2>1, <2>2
<1>7. ASSUME NEW p \in Process, Requeue(p) PROVE Moved
  BY <1>7 DEF Requeue, Moved, Owed, collector
<1>8. ASSUME NEW e \in Event, Collect(e) PROVE Moved \/ \E f \in inflight : Collected(f)
  BY <1>8 DEF Collect, Moved, Collected, Owed, files
<1>9. ASSUME NEW e \in Event, BackoffExpires(e) PROVE Moved
  BY <1>9 DEF BackoffExpires, Moved, Owed, collector
<1>10. ASSUME NEW p \in Process,
              \/ Start(p) \/ RecoverFails(p) \/ Opened(p)
              \/ \E e \in Event : RecoverKeeps(p, e) \/ RecoverFinds(p, e)
              \/ SkipEntry(p) \/ CheckEntry(p) \/ Enqueued(p)
              \/ \E b \in Batch : StartEnqueue(p, b)
       PROVE  Moved
  BY <1>0, <1>10 DEF Start, RecoverFails, Opened, RecoverKeeps, RecoverFinds, SkipEntry,
     CheckEntry, Enqueued, StartEnqueue, collector
<1>11. ASSUME NEW p \in Process,
              \/ Scan(p) \/ Scanned(p) \/ NothingDue(p)
              \/ \E e \in Event : ReadDue(p, e) \/ ClaimMissed(p, e)
              \/ ReadClaimed(p) \/ ReadFails(p) \/ Post(p) \/ GiveUp(p)
              \/ AcknowledgeFails(p) \/ RequeueFails(p) \/ Exit(p) \/ Crash(p)
       PROVE  Moved
  BY <1>0, <1>11 DEF Scan, Scanned, NothingDue, ReadDue, ClaimMissed, ReadClaimed, ReadFails,
     Post, GiveUp, AcknowledgeFails, RequeueFails, Exit, Crash, collector
<1>12. CASE UNCHANGED vars
  BY <1>0, <1>12 DEF vars, collector
<1> QED
  BY <1>1, <1>2, <1>3, <1>4, <1>5, <1>6, <1>7, <1>8, <1>9, <1>10, <1>11, <1>12
  DEF Next, Works

(***************************************************************************)
(* Once enqueue has dealt with an event, one of its files exists.          *)
(***************************************************************************)
THEOREM EvidenceIsKept == Spec => []NoEvidenceLost
<1>1. Init => NoEvidenceLost
  BY DEF Init, NoEvidenceLost
<1>2. Typed /\ NoEvidenceLost /\ [Next]_vars => NoEvidenceLost'
  <2> SUFFICES ASSUME Typed, NoEvidenceLost, [Next]_vars PROVE NoEvidenceLost'
    OBVIOUS
  <2>1. Owed \cup acknowledged \subseteq Owed' \cup acknowledged'
    BY RecordSteps DEF Moved, Added, Collected, Settled
  <2>2. CASE queued' = queued
    BY <2>1, <2>2 DEF NoEvidenceLost
  <2>3. ASSUME NEW p \in Process, SkipEntry(p) PROVE NoEvidenceLost'
    <3>1. queued' = queued \cup {Head(batch[p])}
          /\ (pending[Head(batch[p])] # "none" \/ Head(batch[p]) \in acknowledged)
      BY <2>3 DEF SkipEntry
    <3>2. Head(batch[p]) \in Event
      <4>1. batch[p] \in Seq(Event) /\ batch[p] # <<>>
        BY <2>3 DEF SkipEntry, Typed, TypeOK
      <4> QED
        BY <4>1
    <3> QED
      BY <2>1, <3>1, <3>2 DEF NoEvidenceLost, Owed
  <2>4. ASSUME NEW p \in Process, WriteEntry(p) PROVE NoEvidenceLost'
    <3>1. queued' = queued \cup {Head(batch[p])}
          /\ pending' = [pending EXCEPT ![Head(batch[p])] = "due"]
      BY <2>4 DEF WriteEntry
    <3>2. Head(batch[p]) \in Event
      <4>1. batch[p] \in Seq(Event) /\ batch[p] # <<>>
        BY <2>4 DEF WriteEntry, Typed, TypeOK
      <4> QED
        BY <4>1
    <3>3. Head(batch[p]) \in Owed'
      BY <3>1, <3>2 DEF Owed, Typed, TypeOK
    <3> QED
      BY <2>1, <3>1, <3>3 DEF NoEvidenceLost
  <2> QED
    BY <2>2, <2>3, <2>4
    DEF Next, Works, Start, RecoverKeeps, RecoverFinds, RecoverReturns, RecoverFails, Opened,
        StartEnqueue, CheckEntry, Enqueued, Scan, ReadDue, Scanned, Claim, ClaimMissed,
        NothingDue, ReadClaimed, ReadFails, Post, Answered, GiveUp, Collect, Acknowledge,
        AcknowledgeFails, Backoff, Requeue, RequeueFails, Exit, Crash, BackoffExpires, vars
<1> QED
  BY <1>1, <1>2, InitTyped, NextTyped, PTL DEF Spec

-----------------------------------------------------------------------------
(***************************************************************************)
(* What the refinement rests on: of a request under way, and of a record   *)
(* about to be sent, either a file exists or the collector has the event;  *)
(* and it has what the answer in hand is about.                            *)
(***************************************************************************)
QueueInv ==
    /\ inflight \subseteq Owed \cup accepted
    /\ \A p \in Process :
          /\ pc[p] = "post" => current[p] \in Owed \cup accepted
          /\ pc[p] = "acknowledge" => current[p] \in accepted

LEMMA NextQueueInv == Typed /\ QueueInv /\ [Next]_vars => QueueInv'
<1> SUFFICES ASSUME Typed, QueueInv, [Next]_vars PROVE QueueInv'
  OBVIOUS
<1>1. Owed \cup accepted \subseteq Owed' \cup accepted' /\ accepted \subseteq accepted'
  BY RecordSteps DEF Moved, Added, Collected, Settled, QueueInv
<1>2. ASSUME inflight' \subseteq inflight,
             \A p \in Process :
                /\ pc'[p] = "post" => pc[p] = "post" /\ current'[p] = current[p]
                /\ pc'[p] = "acknowledge" => pc[p] = "acknowledge" /\ current'[p] = current[p]
      PROVE  QueueInv'
  BY <1>1, <1>2 DEF QueueInv
<1> USE DEF Typed, TypeOK, Goto
<1>3. ASSUME NEW p \in Process, ReadClaimed(p) PROVE QueueInv'
  <2>1. /\ pc' = [pc EXCEPT ![p] = "post"] /\ current' = current /\ inflight' = inflight
        /\ claimed[current[p]] # "none" /\ current[p] \in Event
    BY <1>3 DEF ReadClaimed, locals, collector
  <2>2. current[p] \in Owed
    BY <2>1 DEF Owed
  <2> QED
    BY <1>1, <2>1, <2>2 DEF QueueInv
<1>4. ASSUME NEW p \in Process, Post(p) PROVE QueueInv'
  <2>1. /\ pc[p] = "post" /\ pc' = [pc EXCEPT ![p] = "await"] /\ current' = current
        /\ inflight' = inflight \cup {current[p]}
    BY <1>4 DEF Post, locals
  <2> QED
    BY <1>1, <2>1 DEF QueueInv
<1>5. ASSUME NEW p \in Process, Answered(p) PROVE QueueInv'
  <2>1. /\ pc' = [pc EXCEPT ![p] = "acknowledge"] /\ current' = current
        /\ inflight' \subseteq inflight /\ accepted' = accepted \cup {current[p]}
    BY <1>5 DEF Answered, locals
  <2> QED
    BY <1>1, <2>1 DEF QueueInv
<1>6. ASSUME NEW p \in Process,
             \/ Start(p) \/ RecoverReturns(p) \/ RecoverFails(p) \/ Opened(p)
             \/ \E e \in Event : RecoverKeeps(p, e) \/ RecoverFinds(p, e)
             \/ SkipEntry(p) \/ CheckEntry(p) \/ WriteEntry(p) \/ Enqueued(p)
             \/ \E b \in Batch : StartEnqueue(p, b)
      PROVE  QueueInv'
  <2>1. /\ inflight' \subseteq inflight
        /\ \A q \in Process :
              /\ pc'[q] = "post" => pc[q] = "post" /\ current'[q] = current[q]
              /\ pc'[q] = "acknowledge" => pc[q] = "acknowledge" /\ current'[q] = current[q]
    BY <1>6 DEF Start, RecoverReturns, RecoverFails, Opened, RecoverKeeps, RecoverFinds,
       SkipEntry, CheckEntry, WriteEntry, Enqueued, StartEnqueue, Ends, collector, locals
  <2> QED
    BY <1>2, <2>1
<1>7. ASSUME NEW p \in Process,
             \/ Scan(p) \/ Scanned(p) \/ NothingDue(p)
             \/ \E e \in Event : ReadDue(p, e) \/ Claim(p, e) \/ ClaimMissed(p, e)
             \/ ReadFails(p) \/ GiveUp(p) \/ Acknowledge(p) \/ AcknowledgeFails(p)
             \/ Backoff(p) \/ Requeue(p) \/ RequeueFails(p) \/ Exit(p) \/ Crash(p)
      PROVE  QueueInv'
  <2>1. /\ inflight' \subseteq inflight
        /\ \A q \in Process :
              /\ pc'[q] = "post" => pc[q] = "post" /\ current'[q] = current[q]
              /\ pc'[q] = "acknowledge" => pc[q] = "acknowledge" /\ current'[q] = current[q]
    BY <1>7 DEF Scan, Scanned, NothingDue, ReadDue, Claim, ClaimMissed, ReadFails, GiveUp,
       Acknowledge, AcknowledgeFails, Backoff, Requeue, RequeueFails, Exit, Crash, Ends,
       collector, locals
  <2> QED
    BY <1>2, <2>1
<1>8. ASSUME NEW e \in Event, Collect(e) \/ BackoffExpires(e) PROVE QueueInv'
  BY <1>2, <1>8 DEF Collect, BackoffExpires, collector, locals
<1>9. CASE UNCHANGED vars
  BY <1>2, <1>9 DEF vars, collector, locals
<1> QED
  BY <1>3, <1>4, <1>5, <1>6, <1>7, <1>8, <1>9 DEF Next, Works

(***************************************************************************)
(* The spool implements the queue the transports build on: what is put in  *)
(* is taken out only by an acknowledgement of what the collector has, also *)
(* when several processes claim and recover each other's records.          *)
(***************************************************************************)
THEOREM SpoolImplementsQueue == Spec => QueueImplemented
<1>1. Init => QueueInv /\ Queue!Init
  BY DEF Init, QueueInv, Queue!Init, Owed
<1>2. Typed /\ QueueInv /\ [Next]_vars
        => [Queue!Next]_<<Owed, acknowledged, accepted>>
  <2> SUFFICES ASSUME Typed, QueueInv, [Next]_vars
               PROVE  Queue!Next \/ UNCHANGED <<Owed, acknowledged, accepted>>
    OBVIOUS
  <2>1. CASE Moved
    BY <2>1 DEF Moved
  <2>2. ASSUME NEW e \in Event, Added(e) PROVE Queue!Next
    BY <2>2 DEF Added, Queue!Next, Queue!Enqueue
  <2>3. ASSUME NEW e \in inflight, Collected(e)
        PROVE  Queue!Next \/ UNCHANGED <<Owed, acknowledged, accepted>>
    <3>1. e \in Event
      BY DEF Typed, TypeOK
    <3>2. CASE e \in Owed
      BY <2>3, <3>1, <3>2 DEF Collected, Queue!Next, Queue!Deliver
    <3>3. CASE e \in accepted
      BY <2>3, <3>3 DEF Collected
    <3> QED
      BY <3>2, <3>3 DEF QueueInv
  <2>4. ASSUME NEW p \in Process, Settled(p) PROVE Queue!Next
    <3>1. current[p] \in accepted
      BY <2>4 DEF Settled, QueueInv
    <3> QED
      BY <2>4, <3>1 DEF Settled, Queue!Next, Queue!Settle
  <2> QED
    BY <2>1, <2>2, <2>3, <2>4, RecordSteps
<1>3. Typed /\ QueueInv /\ [Next]_vars => QueueInv'
  BY NextQueueInv
<1> QED
  BY <1>1, <1>2, <1>3, InitTyped, NextTyped, PTL DEF Spec, QueueImplemented, Queue!Spec

-----------------------------------------------------------------------------
(***************************************************************************)
(* One process.  The record it works on is the only claimed one, and       *)
(* nothing is claimed while it enqueues: recovery has returned what a      *)
(* crash left behind, of which todo and the record in hand keep count.     *)
(***************************************************************************)
Working == {"read", "post", "await", "acknowledge", "fail", "requeue"}
Clear == {"ready", "check", "write", "scan", "claim"}

CopyInv ==
    /\ OneCopy
    /\ \A p \in Process :
          /\ pc[p] \in Clear => \A e \in Event : claimed[e] = "none"
          /\ pc[p] = "recover" => \A e \in Event : claimed[e] # "none" => e \in todo[p]
          /\ pc[p] = "return" =>
                \A e \in Event : claimed[e] # "none" => e \in todo[p] \cup {current[p]}
          /\ pc[p] \in Working =>
                \A e \in Event : claimed[e] # "none" <=> e = current[p]
          /\ pc[p] = "write" => Head(batch[p]) \notin acknowledged

LEMMA NextCopyInv ==
    ASSUME \A p, q \in Process : p = q, Typed, CopyInv, [Next]_vars
    PROVE  CopyInv'
<1> USE DEF Typed, TypeOK, FileStates, CopyInv, OneCopy, Owed, Clear, Working, Goto
<1> USE DEF files, collector, locals
<1>1. ASSUME NEW p \in Process, Start(p) PROVE CopyInv'
  BY <1>1 DEF Start
<1>2. ASSUME NEW p \in Process, NEW e \in Event, RecoverKeeps(p, e) PROVE CopyInv'
  BY <1>2 DEF RecoverKeeps
<1>3. ASSUME NEW p \in Process, NEW e \in Event, RecoverFinds(p, e) PROVE CopyInv'
  BY <1>3 DEF RecoverFinds
<1>4. ASSUME NEW p \in Process, RecoverReturns(p) PROVE CopyInv'
  BY <1>4 DEF RecoverReturns
<1>5. ASSUME NEW p \in Process, RecoverFails(p) \/ ReadFails(p) \/ RequeueFails(p)
      PROVE  CopyInv'
  BY <1>5 DEF RecoverFails, ReadFails, RequeueFails, Ends
<1>6. ASSUME NEW p \in Process, Opened(p) PROVE CopyInv'
  BY <1>6 DEF Opened
<1>7. ASSUME NEW p \in Process, NEW b \in Batch, StartEnqueue(p, b) PROVE CopyInv'
  BY <1>7 DEF StartEnqueue
<1>8. ASSUME NEW p \in Process, SkipEntry(p) \/ CheckEntry(p) \/ Enqueued(p) PROVE CopyInv'
  BY <1>8 DEF SkipEntry, CheckEntry, Enqueued
<1>9. ASSUME NEW p \in Process, WriteEntry(p) PROVE CopyInv'
  <2> DEFINE e == Head(batch[p])
  <2>1. /\ pc[p] = "write" /\ pc' = [pc EXCEPT ![p] = "check"]
        /\ pending' = [pending EXCEPT ![e] = "due"]
        /\ UNCHANGED <<claimed, acknowledged, todo, current>>
    BY <1>9 DEF WriteEntry
  <2>2. e \notin acknowledged /\ \A f \in Event : claimed[f] = "none"
    BY <2>1
  <2> HIDE DEF e
  <2> QED
    BY <2>1, <2>2
<1>10. ASSUME NEW p \in Process, Scan(p) \/ Scanned(p) \/ NothingDue(p) PROVE CopyInv'
  BY <1>10 DEF Scan, Scanned, NothingDue
<1>11. ASSUME NEW p \in Process, NEW e \in Event, ReadDue(p, e) \/ ClaimMissed(p, e)
       PROVE  CopyInv'
  BY <1>11 DEF ReadDue, ClaimMissed
<1>12. ASSUME NEW p \in Process, NEW e \in Event, Claim(p, e) PROVE CopyInv'
  BY <1>12 DEF Claim
<1>13. ASSUME NEW p \in Process,
              ReadClaimed(p) \/ Post(p) \/ Answered(p) \/ GiveUp(p) \/ AcknowledgeFails(p)
       PROVE  CopyInv'
  BY <1>13 DEF ReadClaimed, Post, Answered, GiveUp, AcknowledgeFails
<1>14. ASSUME NEW p \in Process, Acknowledge(p) PROVE CopyInv'
  BY <1>14 DEF Acknowledge
<1>15. ASSUME NEW p \in Process, Backoff(p) PROVE CopyInv'
  BY <1>15 DEF Backoff
<1>16. ASSUME NEW p \in Process, Requeue(p) PROVE CopyInv'
  BY <1>16 DEF Requeue
<1>17. ASSUME NEW p \in Process, Exit(p) \/ Crash(p) PROVE CopyInv'
  BY <1>17 DEF Exit, Crash, Ends
<1>18. ASSUME NEW e \in Event, Collect(e) PROVE CopyInv'
  BY <1>18 DEF Collect
<1>19. ASSUME NEW e \in Event, BackoffExpires(e) PROVE CopyInv'
  BY <1>19 DEF BackoffExpires
<1>20. CASE UNCHANGED vars
  BY <1>20 DEF vars
<1> QED
  BY <1>1, <1>2, <1>3, <1>4, <1>5, <1>6, <1>7, <1>8, <1>9, <1>10, <1>11, <1>12, <1>13,
     <1>14, <1>15, <1>16, <1>17, <1>18, <1>19, <1>20 DEF Next, Works

(***************************************************************************)
(* With one process at a time a record is in one directory only.           *)
(***************************************************************************)
THEOREM AloneOneCopy ==
    ASSUME \A p, q \in Process : p = q
    PROVE  Spec => []OneCopy
<1>1. Init => CopyInv
  BY DEF Init, CopyInv, OneCopy, Owed, Clear, Working
<1>2. Typed /\ CopyInv /\ [Next]_vars => CopyInv'
  BY NextCopyInv
<1>3. CopyInv => OneCopy
  BY DEF CopyInv
<1> QED
  BY <1>1, <1>2, <1>3, InitTyped, NextTyped, PTL DEF Spec
=============================================================================
