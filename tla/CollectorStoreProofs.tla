------------------------ MODULE CollectorStoreProofs ------------------------
(***************************************************************************)
(* Proofs about CollectorStore, for every set of sources, certificates,    *)
(* handler threads and events and every number of faults.                  *)
(***************************************************************************)
EXTENDS CollectorStore, TLAPS

(***************************************************************************)
(* Where a thread may be: it serves a request unless it is idle, it is     *)
(* inside ingest exactly when it holds the lock, and it has an answer only *)
(* when it is about to send it.                                            *)
(***************************************************************************)
Control ==
    \A h \in Handler :
        /\ pc[h] # "idle" => request[h] \in Request
        /\ pc[h] \in Locked <=> lock = h
        /\ status[h] # "none" => pc[h] = "reply"

TypedControl == TypeOK /\ Control

(***************************************************************************)
(* A store starts well typed, with every thread idle.                      *)
(***************************************************************************)
LEMMA InitTypedControl == Init => TypedControl
  BY ConstantAssumption
  DEF Init, TypedControl, TypeOK, Control, State, Hash, Locked, Status

(***************************************************************************)
(* The steps of ingest keep types and control.                             *)
(***************************************************************************)
LEMMA IngestTypedControl ==
    ASSUME TypedControl, NEW h \in Handler, Ingest(h)
    PROVE  TypedControl'
<1> USE DEF TypedControl, TypeOK, Control, Locked, Status, Request
<1>0. request[h] \in Request /\ pc[h] \in Locked /\ lock = h
  BY DEF Ingest, RefuseLegacy, FindBinding, BindSource, RefusePeer,
         AnswerStored, RefuseChain, RefuseStream, Admit, WriteArtifact,
         WriteEvent, WriteManifest, WriteState
<1>e. /\ request[h].event \in Event
      /\ request[h].event.source_id \in Source
      /\ request[h].event.sequence \in Nat
      /\ request[h].event.event_hash \in Hash
      /\ request[h].peer \in Cert
  BY <1>0, EventAssumption DEF Hash
<1>1. CASE RefuseLegacy(h)
  BY <1>0, <1>1, ConstantAssumption DEF RefuseLegacy, Answer, disk
<1>2. CASE FindBinding(h)
  BY <1>0, <1>2 DEF FindBinding, Goto, disk
<1>3. CASE BindSource(h)
  <2>1. state' \in [Source -> State]
    BY <1>e, <1>3 DEF BindSource, State
  <2> QED
    BY <1>0, <1>3, <2>1 DEF BindSource, Goto
<1>4. CASE RefusePeer(h)
  BY <1>0, <1>4, ConstantAssumption DEF RefusePeer, Answer, disk
<1>5. CASE AnswerStored(h)
  BY <1>0, <1>5, ConstantAssumption DEF AnswerStored, Answer, disk
<1>6. CASE RefuseChain(h)
  BY <1>0, <1>6, ConstantAssumption DEF RefuseChain, Answer, disk
<1>7. CASE RefuseStream(h)
  BY <1>0, <1>7, ConstantAssumption DEF RefuseStream, Answer, disk
<1>8. CASE Admit(h)
  BY <1>0, <1>8 DEF Admit, Goto, disk
<1>9. CASE WriteArtifact(h)
  BY <1>0, <1>e, <1>9 DEF WriteArtifact, Goto
<1>10. CASE WriteEvent(h)
  BY <1>0, <1>e, <1>10 DEF WriteEvent, Goto
<1>11. CASE WriteManifest(h)
  BY <1>0, <1>e, <1>11 DEF WriteManifest, Goto
<1>12. CASE WriteState(h)
  <2>1. state' \in [Source -> State]
    BY <1>e, <1>12 DEF WriteState, State
  <2>2. ledger' \in [Source -> Seq(Event)]
    BY <1>e, <1>12 DEF WriteState
  <2> QED
    BY <1>0, <1>12, <2>1, <2>2, ConstantAssumption DEF WriteState, Answer
<1> QED
  BY <1>1, <1>2, <1>3, <1>4, <1>5, <1>6, <1>7, <1>8, <1>9, <1>10, <1>11, <1>12
  DEF Ingest

(***************************************************************************)
(* Every step keeps types and control.                                     *)
(***************************************************************************)
LEMMA NextTypedControl == TypedControl /\ [Next]_vars => TypedControl'
<1> SUFFICES ASSUME TypedControl, [Next]_vars PROVE TypedControl'
  OBVIOUS
<1> USE DEF TypedControl, TypeOK, Control, Locked, Status, Request
<1>1. ASSUME NEW h \in Handler, NEW e \in Event, NEW c \in Cert, Receive(h, e, c)
      PROVE  TypedControl'
  BY <1>1 DEF Receive, disk
<1>2. ASSUME NEW h \in Handler, Acquire(h) PROVE TypedControl'
  BY <1>2, ConstantAssumption DEF Acquire, disk
<1>3. ASSUME NEW h \in Handler, Ingest(h) PROVE TypedControl'
  BY <1>3, IngestTypedControl
<1>4. ASSUME NEW h \in Handler, Reply(h) PROVE TypedControl'
  BY <1>4 DEF Reply, Idle, disk
<1>5. ASSUME NEW h \in Handler, LoseReply(h) PROVE TypedControl'
  BY <1>5 DEF LoseReply, Idle, disk
<1>6. ASSUME NEW h \in Handler, IOError(h) PROVE TypedControl'
  BY <1>6, ConstantAssumption DEF IOError, Idle, disk
<1>7. CASE Crash
  BY <1>7, ConstantAssumption DEF Crash, disk
<1>8. CASE UNCHANGED vars
  BY <1>8 DEF vars, disk, threads
<1> QED
  BY <1>1, <1>2, <1>3, <1>4, <1>5, <1>6, <1>7, <1>8 DEF Next

(***************************************************************************)
(* Type correctness of the store and its threads.                          *)
(***************************************************************************)
THEOREM TypeCorrect == Spec => []TypeOK
<1>1. TypedControl => TypeOK
  BY DEF TypedControl
<1> QED
  BY <1>1, InitTypedControl, NextTypedControl, PTL DEF Spec

(***************************************************************************)
(* Types and control together, as the other proofs use them.               *)
(***************************************************************************)
LEMMA ControlCorrect == Spec => []TypedControl
  BY InitTypedControl, NextTypedControl, PTL DEF Spec

-----------------------------------------------------------------------------
(***************************************************************************)
(* The inductive invariant of the evidence store.  What the run checks is  *)
(* not inductive by itself: that a stored event extends the ledger follows *)
(* from what the writing thread has checked and still holds.               *)
(***************************************************************************)
LedgerStored ==
    \A s \in Source : \A i \in 1 .. Len(ledger[s]) :
        /\ ledger[s][i].source_id = s
        /\ ledger[s][i].sequence = i
        /\ ledger[s][i] \in events

LegacyBlocked ==
    /\ \A s \in LegacySource : state[s].peer = Unbound
    /\ \A e \in LegacyEvent : state[e.source_id].peer \notin Cert
    /\ LegacyEvent \subseteq events

DiskInv ==
    /\ StateSummarisesLedger
    /\ LedgerStored
    /\ events \subseteq artifacts
    /\ StoredExtendsLedger
    /\ BindingPrecedesEvidence
    /\ LegacyBlocked

(***************************************************************************)
(* What a thread has established when it is past each check of ingest.     *)
(***************************************************************************)
ThreadKnows(h) ==
    LET e == request[h].event IN
    /\ pc[h] = "check" => state[e.source_id].peer \in Cert
    /\ pc[h] \in Locked \ {"open", "check"} => OwnerCalls(h) /\ NextInChain(e)
    /\ pc[h] = "event" => e \in artifacts
    /\ pc[h] \in {"manifest", "state"} => e \in events
    /\ status[h] \in Positive => OwnerCalls(h) /\ e \in events
    /\ status[h] # "collision"

ThreadInv == \A h \in Handler : ThreadKnows(h)

AckInv ==
    \A e \in acked : e \in events /\ state[e.source_id].peer \in Cert

StoreInv == DiskInv /\ ThreadInv /\ AckInv

(***************************************************************************)
(* A fresh or legacy store satisfies the invariant.                        *)
(***************************************************************************)
LEMMA InitStoreInv == Init => StoreInv
<1> SUFFICES ASSUME Init PROVE StoreInv
  OBVIOUS
<1>1. DiskInv
  <2>1. /\ \A x \in Source :
              /\ state[x].sequence = 0 /\ state[x].event_hash = Genesis
              /\ state[x].peer \notin Cert
              /\ x \in LegacySource => state[x].peer = Unbound
        /\ events = LegacyEvent /\ artifacts = LegacyEvent
    BY ConstantAssumption DEF Init
  <2>2. \A x \in LegacyEvent : x.source_id \in Source
    BY ConstantAssumption, EventAssumption
  <2>3. LegacySource \subseteq Source
    BY ConstantAssumption
  <2>4. ledger \in [Source -> Seq(Event)]
    BY InitTypedControl DEF TypedControl, TypeOK
  <2>5. \A x \in Source : Len(ledger[x]) = 0
    BY DEF Init
  <2> QED
    <3>1. StateSummarisesLedger
      BY <2>1, <2>4, <2>5 DEF StateSummarisesLedger
    <3>2. LedgerStored
      BY <2>4, <2>5 DEF LedgerStored
    <3>3. LegacyBlocked
      BY <2>1, <2>2, <2>3 DEF LegacyBlocked
    <3> QED
      BY <2>1, <3>1, <3>2, <3>3
      DEF DiskInv, StoredExtendsLedger, BindingPrecedesEvidence
<1>2. ThreadInv /\ AckInv
  BY DEF Init, ThreadInv, ThreadKnows, AckInv, Locked, Positive
<1> QED
  BY <1>1, <1>2 DEF StoreInv

(***************************************************************************)
(* The disk part depends on the directories only.                          *)
(***************************************************************************)
LEMMA DiskUnchanged == DiskInv /\ UNCHANGED disk => DiskInv'
  BY DEF DiskInv, disk, StateSummarisesLedger, LedgerStored,
         StoredExtendsLedger, BindingPrecedesEvidence, LegacyBlocked

(***************************************************************************)
(* Each step of ingest keeps the disk part.                                *)
(***************************************************************************)
LEMMA IngestDiskInv ==
    ASSUME TypedControl, StoreInv, NEW h \in Handler, Ingest(h)
    PROVE  DiskInv'
<1> DEFINE e == request[h].event
           s == e.source_id
<1> USE DEF StoreInv
<1>0. request[h] \in Request /\ pc[h] \in Locked
  BY DEF Ingest, RefuseLegacy, FindBinding, BindSource, RefusePeer,
         AnswerStored, RefuseChain, RefuseStream, Admit, WriteArtifact,
         WriteEvent, WriteManifest, WriteState, TypedControl, Control, Locked
<1>e. /\ e \in Event /\ s \in Source /\ e.sequence \in Nat \ {0}
      /\ request[h].peer \in Cert
  BY <1>0, EventAssumption DEF Request
<1>t. /\ state \in [Source -> State] /\ ledger \in [Source -> Seq(Event)]
      /\ events \subseteq Event /\ artifacts \subseteq Event
  BY DEF TypedControl, TypeOK
<1>l. \A x \in Event : x.source_id \in Source /\ x.sequence \in Nat \ {0}
  BY EventAssumption
<1>1. CASE UNCHANGED disk
  BY <1>1, DiskUnchanged
<1>2. CASE BindSource(h)
  <2>1. /\ state[s].peer = NoFile /\ ~HasOrphanEvents(s)
        /\ state' = [state EXCEPT ![s] = [sequence |-> 0, event_hash |-> Genesis,
                                          peer |-> request[h].peer]]
        /\ UNCHANGED <<artifacts, events, ledger>>
    BY <1>2 DEF BindSource
  <2>2. ledger[s] = <<>>
    BY <1>e, <1>t, <2>1, ConstantAssumption DEF DiskInv, StateSummarisesLedger
  <2>3. StateSummarisesLedger'
    BY <1>e, <1>t, <2>1, <2>2 DEF DiskInv, StateSummarisesLedger
  <2>4. LedgerStored' /\ (events \subseteq artifacts)' /\ StoredExtendsLedger'
    BY <2>1 DEF DiskInv, LedgerStored, StoredExtendsLedger
  <2>5. BindingPrecedesEvidence'
    BY <1>e, <1>t, <1>l, <2>1 DEF DiskInv, BindingPrecedesEvidence
  <2>6. LegacyBlocked'
    BY <1>e, <1>t, <1>l, <2>1, ConstantAssumption
    DEF DiskInv, LegacyBlocked, HasOrphanEvents
  <2> QED
    BY <2>3, <2>4, <2>5, <2>6 DEF DiskInv
<1>3. CASE WriteArtifact(h)
  <2>1. /\ artifacts' = artifacts \cup {e}
        /\ UNCHANGED <<state, events, ledger>>
    BY <1>3 DEF WriteArtifact
  <2>2. state[s].peer \in Cert
    BY <1>e, <1>3 DEF WriteArtifact, ThreadInv, ThreadKnows, Locked, OwnerCalls
  <2>3. BindingPrecedesEvidence'
    BY <2>1, <2>2 DEF DiskInv, BindingPrecedesEvidence
  <2> QED
    BY <2>1, <2>3 DEF DiskInv, StateSummarisesLedger, LedgerStored,
       StoredExtendsLedger, LegacyBlocked
<1>4. CASE WriteEvent(h)
  <2>1. /\ events' = events \cup {e}
        /\ UNCHANGED <<state, artifacts, ledger>>
    BY <1>4 DEF WriteEvent
  <2>2. state[s].peer \in Cert /\ NextInChain(e) /\ e \in artifacts
    BY <1>e, <1>4 DEF WriteEvent, ThreadInv, ThreadKnows, Locked, OwnerCalls
  <2>3. /\ e.sequence = Len(ledger[s]) + 1
        /\ e.previous_event_hash = IF e.sequence = 1 THEN Genesis
                                   ELSE ledger[s][e.sequence - 1].event_hash
    <3>1. Len(ledger[s]) \in Nat
      BY <1>e, <1>t
    <3>2. /\ state[s].sequence = Len(ledger[s])
          /\ state[s].event_hash = IF Len(ledger[s]) = 0 THEN Genesis
                                   ELSE ledger[s][Len(ledger[s])].event_hash
      BY <1>e DEF DiskInv, StateSummarisesLedger
    <3> QED
      BY <2>2, <3>1, <3>2 DEF NextInChain
  <2>4. StoredExtendsLedger'
    <3> SUFFICES ASSUME NEW x \in events' \ LegacyEvent
                 PROVE  /\ x.sequence <= Len(ledger'[x.source_id]) + 1
                        /\ x.previous_event_hash =
                             IF x.sequence = 1 THEN Genesis
                             ELSE ledger'[x.source_id][x.sequence - 1].event_hash
      BY DEF StoredExtendsLedger
    <3>1. CASE x = e
      <4>1. Len(ledger[s]) \in Nat
        BY <1>e, <1>t
      <4> QED
        BY <2>1, <2>3, <3>1, <4>1
    <3>2. CASE x # e
      BY <2>1, <3>2 DEF DiskInv, StoredExtendsLedger
    <3> QED
      BY <3>1, <3>2
  <2>5. BindingPrecedesEvidence'
    BY <2>1, <2>2 DEF DiskInv, BindingPrecedesEvidence
  <2>6. (events \subseteq artifacts)'
    BY <2>1, <2>2 DEF DiskInv
  <2> QED
    BY <2>1, <2>4, <2>5, <2>6 DEF DiskInv, StateSummarisesLedger, LedgerStored,
       LegacyBlocked
<1>5. CASE WriteManifest(h)
  BY <1>5 DEF WriteManifest, DiskInv, StateSummarisesLedger, LedgerStored,
     StoredExtendsLedger, BindingPrecedesEvidence, LegacyBlocked
<1>6. CASE WriteState(h)
  <2>1. /\ state' = [state EXCEPT ![s] = [sequence |-> e.sequence,
                                          event_hash |-> e.event_hash,
                                          peer |-> request[h].peer]]
        /\ ledger' = [ledger EXCEPT ![s] = Append(@, e)]
        /\ UNCHANGED <<artifacts, events>>
    BY <1>6 DEF WriteState
  <2>2. /\ request[h].peer = state[s].peer /\ NextInChain(e)
        /\ e \in events
    BY <1>e, <1>6 DEF WriteState, ThreadInv, ThreadKnows, Locked, OwnerCalls
  <2>3. e.sequence = Len(ledger[s]) + 1
    BY <1>e, <1>t, <2>2 DEF NextInChain, DiskInv, StateSummarisesLedger
  <2>4. \A x \in Source : state'[x].peer = state[x].peer
    BY <1>e, <1>t, <2>1, <2>2 DEF State
  <2>5. /\ \A x \in Source \ {s} : ledger'[x] = ledger[x]
        /\ Len(ledger'[s]) = Len(ledger[s]) + 1
        /\ ledger'[s][Len(ledger[s]) + 1] = e
        /\ \A i \in 1 .. Len(ledger[s]) : ledger'[s][i] = ledger[s][i]
    BY <1>e, <1>t, <2>1
  <2>6. StateSummarisesLedger'
    BY <1>e, <1>t, <2>1, <2>3, <2>5 DEF DiskInv, StateSummarisesLedger
  <2>7. LedgerStored'
    <3> SUFFICES ASSUME NEW x \in Source, NEW i \in 1 .. Len(ledger'[x])
                 PROVE  /\ ledger'[x][i].source_id = x
                        /\ ledger'[x][i].sequence = i
                        /\ ledger'[x][i] \in events
      BY <2>1 DEF LedgerStored
    <3>1. Len(ledger[x]) \in Nat
      BY <1>t
    <3>2. CASE x = s /\ i = Len(ledger[s]) + 1
      <4>1. ledger'[x][i] = e
        BY <2>5, <3>2
      <4> QED
        BY <1>e, <1>t, <2>2, <2>3, <3>2, <4>1
    <3>3. CASE ~(x = s /\ i = Len(ledger[s]) + 1)
      <4>1. i \in 1 .. Len(ledger[x]) /\ ledger'[x][i] = ledger[x][i]
        <5>1. CASE x = s
          <6>1. Len(ledger'[x]) = Len(ledger[s]) + 1 /\ Len(ledger[s]) \in Nat
            BY <2>5, <3>1, <5>1
          <6>2. i \in 1 .. Len(ledger[s])
            BY <3>3, <5>1, <6>1
          <6> QED
            BY <2>5, <5>1, <6>2
        <5>2. CASE x # s
          BY <2>5, <5>2
        <5> QED
          BY <5>1, <5>2
      <4> QED
        BY <4>1 DEF DiskInv, LedgerStored
    <3> QED
      BY <3>2, <3>3
  <2>8. StoredExtendsLedger'
    <3> SUFFICES ASSUME NEW x \in events \ LegacyEvent
                 PROVE  /\ x.sequence <= Len(ledger'[x.source_id]) + 1
                        /\ x.previous_event_hash =
                             IF x.sequence = 1 THEN Genesis
                             ELSE ledger'[x.source_id][x.sequence - 1].event_hash
      BY <2>1 DEF StoredExtendsLedger
    <3>1. /\ x.sequence <= Len(ledger[x.source_id]) + 1
          /\ x.previous_event_hash =
                IF x.sequence = 1 THEN Genesis
                ELSE ledger[x.source_id][x.sequence - 1].event_hash
      BY DEF DiskInv, StoredExtendsLedger
    <3>2. x.source_id \in Source /\ x.sequence \in Nat \ {0}
      BY <1>t, <1>l
    <3>3. CASE x.source_id = s
      <4>1. Len(ledger[x.source_id]) \in Nat
        BY <3>2, <1>t
      <4>2. x.sequence # 1 => x.sequence - 1 \in 1 .. Len(ledger[x.source_id])
        BY <3>1, <3>2, <3>3, <4>1
      <4>3. /\ Len(ledger'[x.source_id]) = Len(ledger[x.source_id]) + 1
            /\ x.sequence # 1 =>
                  ledger'[x.source_id][x.sequence - 1] =
                  ledger[x.source_id][x.sequence - 1]
        BY <3>3, <4>2, <2>5
      <4> QED
        <5>1. x.sequence <= Len(ledger'[x.source_id]) + 1
          BY <3>1, <3>2, <4>1, <4>3
        <5> QED
          BY <3>1, <4>3, <5>1
    <3>4. CASE x.source_id # s
      BY <3>1, <3>2, <3>4, <2>5
    <3> QED
      BY <3>3, <3>4
  <2>9. BindingPrecedesEvidence' /\ LegacyBlocked' /\ (events \subseteq artifacts)'
    BY <1>t, <1>l, <2>1, <2>4, ConstantAssumption
    DEF DiskInv, BindingPrecedesEvidence, LegacyBlocked
  <2> QED
    BY <2>6, <2>7, <2>8, <2>9 DEF DiskInv
<1> QED
  BY <1>1, <1>2, <1>3, <1>4, <1>5, <1>6
  DEF Ingest, RefuseLegacy, FindBinding, RefusePeer, AnswerStored, RefuseChain,
      RefuseStream, Admit

(***************************************************************************)
(* No step of ingest rebinds a bound source or removes an event file.      *)
(***************************************************************************)
LEMMA IngestMonotone ==
    ASSUME TypedControl, StoreInv, NEW h \in Handler, Ingest(h)
    PROVE  /\ \A s \in Source : state[s].peer \in Cert => state'[s].peer = state[s].peer
           /\ events \subseteq events'
<1> USE DEF StoreInv
<1>t. state \in [Source -> State]
  BY DEF TypedControl, TypeOK
<1>1. CASE UNCHANGED disk
  BY <1>1 DEF disk
<1>2. CASE BindSource(h)
  BY <1>2, <1>t, ConstantAssumption DEF BindSource, State
<1>3. CASE WriteArtifact(h) \/ WriteEvent(h) \/ WriteManifest(h)
  BY <1>3 DEF WriteArtifact, WriteEvent, WriteManifest
<1>4. CASE WriteState(h)
  <2>1. request[h].peer = state[request[h].event.source_id].peer
    BY <1>4 DEF WriteState, ThreadInv, ThreadKnows, Locked, OwnerCalls
  <2> QED
    BY <1>4, <1>t, <2>1 DEF WriteState, State
<1> QED
  BY <1>1, <1>2, <1>3, <1>4
  DEF Ingest, RefuseLegacy, FindBinding, RefusePeer, AnswerStored, RefuseChain,
      RefuseStream, Admit

(***************************************************************************)
(* What the thread that takes the step knows afterwards.                   *)
(***************************************************************************)
LEMMA IngestOwnThread ==
    ASSUME TypedControl, StoreInv, NEW h \in Handler, Ingest(h)
    PROVE  ThreadKnows(h)'
<1> DEFINE e == request[h].event
<1> USE DEF StoreInv, ThreadKnows, Locked, Positive
<1>0. /\ request[h] \in Request /\ pc[h] \in Locked /\ status[h] = "none"
      /\ pc \in [Handler -> Locked \cup {"idle", "waiting", "reply"}]
      /\ status \in [Handler -> Status]
      /\ state \in [Source -> State]
  BY DEF Ingest, RefuseLegacy, FindBinding, BindSource, RefusePeer,
         AnswerStored, RefuseChain, RefuseStream, Admit, WriteArtifact,
         WriteEvent, WriteManifest, WriteState, TypedControl, Control, TypeOK
<1>e. e \in Event /\ e.source_id \in Source /\ request[h].peer \in Cert
  BY <1>0, EventAssumption DEF Request
<1>k. ThreadKnows(h)
  BY DEF ThreadInv
<1>1. CASE RefuseLegacy(h) \/ RefusePeer(h) \/ RefuseChain(h) \/ RefuseStream(h)
  BY <1>0, <1>1 DEF RefuseLegacy, RefusePeer, RefuseChain, RefuseStream, Answer
<1>2. CASE FindBinding(h)
  BY <1>0, <1>2 DEF FindBinding, Goto, disk
<1>3. CASE BindSource(h)
  BY <1>0, <1>e, <1>3 DEF BindSource, Goto
<1>4. CASE AnswerStored(h)
  <2>1. e \in events /\ e \in artifacts /\ OwnerCalls(h)
    BY <1>4 DEF AnswerStored, DiskInv
  <2>2. pc'[h] = "reply" /\ status'[h] = "replayed" /\ UNCHANGED <<request, disk>>
    BY <1>0, <1>4, <2>1 DEF AnswerStored, Answer
  <2> QED
    BY <2>1, <2>2 DEF OwnerCalls, disk
<1>5. CASE Admit(h)
  BY <1>0, <1>5 DEF Admit, Goto, disk, OwnerCalls, NextInChain
<1>6. CASE WriteArtifact(h)
  BY <1>0, <1>k, <1>6 DEF WriteArtifact, Goto, OwnerCalls, NextInChain
<1>7. CASE WriteEvent(h)
  BY <1>0, <1>k, <1>7 DEF WriteEvent, Goto, OwnerCalls, NextInChain
<1>8. CASE WriteManifest(h)
  BY <1>0, <1>k, <1>8 DEF WriteManifest, Goto, OwnerCalls, NextInChain
<1>9. CASE WriteState(h)
  <2>1. pc'[h] = "reply" /\ status'[h] = "accepted" /\ UNCHANGED <<request, events>>
    BY <1>0, <1>9 DEF WriteState, Answer
  <2>2. state'[e.source_id].peer = request[h].peer
    BY <1>0, <1>e, <1>9 DEF WriteState
  <2>3. e \in events
    BY <1>9, <1>k DEF WriteState
  <2> QED
    BY <2>1, <2>2, <2>3 DEF OwnerCalls
<1> QED
  BY <1>1, <1>2, <1>3, <1>4, <1>5, <1>6, <1>7, <1>8, <1>9 DEF Ingest

(***************************************************************************)
(* The other threads are outside ingest; what they know, if anything, is   *)
(* that an event of theirs is stored and its source bound to their client. *)
(***************************************************************************)
LEMMA IngestOtherThread ==
    ASSUME TypedControl, StoreInv, NEW h \in Handler, Ingest(h),
           NEW g \in Handler, g # h
    PROVE  ThreadKnows(g)'
<1> USE DEF ThreadKnows, Locked, Positive
<1>1. /\ pc'[g] = pc[g] /\ status'[g] = status[g] /\ request'[g] = request[g]
      /\ pc[g] \notin Locked /\ lock = h
  BY DEF Ingest, RefuseLegacy, FindBinding, BindSource, RefusePeer,
         AnswerStored, RefuseChain, RefuseStream, Admit, WriteArtifact,
         WriteEvent, WriteManifest, WriteState, TypedControl, Control, TypeOK,
         Answer, Goto
<1>2. ThreadKnows(g)
  BY DEF StoreInv, ThreadInv
<1>3. ASSUME status[g] \in Positive
      PROVE  OwnerCalls(g)' /\ request'[g].event \in events'
  <2>1. request[g] \in Request
    BY <1>3 DEF TypedControl, Control
  <2>2. request[g].event.source_id \in Source /\ request[g].peer \in Cert
    BY <2>1, EventAssumption DEF Request
  <2> QED
    BY <1>1, <1>2, <1>3, <2>2, IngestMonotone DEF OwnerCalls
<1> QED
  BY <1>1, <1>2, <1>3

(***************************************************************************)
(* Acknowledged events stay stored, their sources bound.                   *)
(***************************************************************************)
LEMMA IngestAckInv ==
    ASSUME TypedControl, StoreInv, NEW h \in Handler, Ingest(h)
    PROVE  AckInv'
<1>1. acked' = acked
  BY DEF Ingest, RefuseLegacy, FindBinding, BindSource, RefusePeer,
         AnswerStored, RefuseChain, RefuseStream, Admit, WriteArtifact,
         WriteEvent, WriteManifest, WriteState, Answer, Goto
<1>2. \A e \in acked : e.source_id \in Source
  BY EventAssumption DEF TypedControl, TypeOK
<1> QED
  BY <1>1, <1>2, IngestMonotone DEF StoreInv, AckInv

(***************************************************************************)
(* Every step keeps the invariant.                                         *)
(***************************************************************************)
LEMMA NextStoreInv == TypedControl /\ StoreInv /\ [Next]_vars => StoreInv'
<1> SUFFICES ASSUME TypedControl, StoreInv, [Next]_vars PROVE StoreInv'
  OBVIOUS
<1> USE DEF StoreInv
<1>t. /\ pc \in [Handler -> Locked \cup {"idle", "waiting", "reply"}]
      /\ status \in [Handler -> Status]
      /\ request \in [Handler -> Request \cup {NoRequest}]
  BY DEF TypedControl, TypeOK
<1>c. \A h \in Handler : pc[h] # "reply" => status[h] = "none"
  BY DEF TypedControl, Control
<1>1. ASSUME NEW h \in Handler, NEW e \in Event, NEW c \in Cert, Receive(h, e, c)
      PROVE  StoreInv'
  <2>1. DiskInv' /\ AckInv'
    BY <1>1, DiskUnchanged DEF Receive, AckInv, disk
  <2>2. ThreadInv'
    BY <1>1, <1>t, <1>c DEF Receive, ThreadInv, ThreadKnows, OwnerCalls,
       NextInChain, Locked, Positive, disk
  <2> QED
    BY <2>1, <2>2
<1>2. ASSUME NEW h \in Handler, Acquire(h) PROVE StoreInv'
  <2>1. DiskInv' /\ AckInv'
    BY <1>2, DiskUnchanged DEF Acquire, AckInv, disk
  <2>2. ThreadInv'
    BY <1>2, <1>t, <1>c DEF Acquire, ThreadInv, ThreadKnows, OwnerCalls,
       NextInChain, Locked, Positive, disk
  <2> QED
    BY <2>1, <2>2
<1>3. ASSUME NEW h \in Handler, Ingest(h) PROVE StoreInv'
  <2>1. ThreadInv'
    BY <1>3, IngestOwnThread, IngestOtherThread DEF ThreadInv
  <2> QED
    BY <1>3, <2>1, IngestDiskInv, IngestAckInv
<1>4. ASSUME NEW h \in Handler, UNCHANGED disk, Idle(h) PROVE DiskInv' /\ ThreadInv'
  <2>1. ThreadInv'
    BY <1>4, <1>t DEF Idle, ThreadInv, ThreadKnows, OwnerCalls, NextInChain,
       Locked, Positive, disk
  <2> QED
    BY <1>4, <2>1, DiskUnchanged
<1>5. ASSUME NEW h \in Handler, Reply(h) PROVE StoreInv'
  <2>1. DiskInv' /\ ThreadInv'
    BY <1>4, <1>5 DEF Reply
  <2>2. ASSUME status[h] \in Positive
        PROVE  /\ request[h].event \in events
               /\ state[request[h].event.source_id].peer \in Cert
    <3>1. request[h] \in Request
      BY <1>5 DEF Reply, TypedControl, Control
    <3> QED
      BY <2>2, <3>1 DEF ThreadInv, ThreadKnows, OwnerCalls, Request
  <2>3. AckInv'
    BY <1>5, <2>2 DEF Reply, AckInv, disk
  <2> QED
    BY <2>1, <2>3
<1>6. ASSUME NEW h \in Handler, LoseReply(h) \/ IOError(h) PROVE StoreInv'
  <2>1. DiskInv' /\ ThreadInv'
    BY <1>4, <1>6 DEF LoseReply, IOError
  <2>2. AckInv'
    BY <1>6 DEF LoseReply, IOError, AckInv, disk
  <2> QED
    BY <2>1, <2>2
<1>7. CASE Crash
  <2>1. DiskInv' /\ AckInv'
    BY <1>7, DiskUnchanged DEF Crash, AckInv, disk
  <2>2. ThreadInv'
    BY <1>7 DEF Crash, ThreadInv, ThreadKnows, Locked, Positive
  <2> QED
    BY <2>1, <2>2
<1>8. CASE UNCHANGED vars
  <2>1. DiskInv' /\ AckInv'
    BY <1>8, DiskUnchanged DEF vars, AckInv, disk
  <2>2. ThreadInv'
    BY <1>8 DEF vars, disk, threads, ThreadInv, ThreadKnows, OwnerCalls, NextInChain
  <2> QED
    BY <2>1, <2>2
<1> QED
  BY <1>1, <1>2, <1>3, <1>5, <1>6, <1>7, <1>8 DEF Next

(***************************************************************************)
(* The store's invariant, with any number of crashes and I/O errors.       *)
(***************************************************************************)
LEMMA StoreCorrect == Spec => [](TypedControl /\ StoreInv)
<1>1. Init => TypedControl /\ StoreInv
  BY InitTypedControl, InitStoreInv
<1>2. TypedControl /\ StoreInv /\ [Next]_vars => (TypedControl /\ StoreInv)'
  BY NextTypedControl, NextStoreInv
<1> QED
  BY <1>1, <1>2, PTL DEF Spec

-----------------------------------------------------------------------------
(***************************************************************************)
(* Lines 155-181: whatever crashes, retries and competing clients come in  *)
(* between, state.json summarises the accepted chain, every stored event   *)
(* is a link of it or a candidate for its next one, and an event file      *)
(* always has its artifact.                                                *)
(***************************************************************************)
THEOREM ChainIntegrity == Spec => []ChainIsSound
<1>1. TypedControl /\ StoreInv => ChainIsSound
  BY DEF StoreInv, DiskInv, ThreadInv, ThreadKnows, NoCollisionAnswer, ChainIsSound
<1> QED
  BY <1>1, StoreCorrect, PTL

(***************************************************************************)
(* Lines 137-154: evidence of a source exists only under a binding, and    *)
(* only the certificate it names has events written or confirmed, at every *)
(* moment of every interleaving and after every crash.                     *)
(***************************************************************************)
THEOREM SourcesKeepTheirOwner == Spec => []SourcesAreOwned
<1>1. TypedControl /\ StoreInv => SourcesAreOwned
  BY DEF StoreInv, DiskInv, ThreadInv, ThreadKnows, OnlyOwnerServed,
         OwnerCalls, Locked, SourcesAreOwned
<1> QED
  BY <1>1, StoreCorrect, PTL

(***************************************************************************)
(* A positive answer, first or replayed, is only ever given for an event   *)
(* that is on disk with its artifact and with the whole chain before it.   *)
(***************************************************************************)
THEOREM AcknowledgedEvidenceIsDurable == Spec => []AckedIsDurable
<1>1. TypedControl /\ StoreInv => AckedIsDurable
  <2> SUFFICES ASSUME TypedControl, StoreInv, NEW e \in acked
               PROVE  /\ e \in events \cap artifacts
                      /\ \A i \in 1 .. e.sequence - 1 :
                            /\ i \in DOMAIN ledger[e.source_id]
                            /\ ledger[e.source_id][i] \in events \cap artifacts
    BY DEF AckedIsDurable
  <2> DEFINE s == e.source_id
  <2>1. /\ e \in Event /\ s \in Source /\ e.sequence \in Nat \ {0}
        /\ ledger[s] \in Seq(Event)
    BY EventAssumption DEF TypedControl, TypeOK
  <2>2. e \in events /\ state[s].peer \in Cert /\ events \subseteq artifacts
    BY DEF StoreInv, AckInv, DiskInv
  <2>3. e \notin LegacyEvent
    BY <2>2 DEF StoreInv, DiskInv, LegacyBlocked
  <2>4. e.sequence <= Len(ledger[s]) + 1
    BY <2>2, <2>3 DEF StoreInv, DiskInv, StoredExtendsLedger
  <2>5. \A i \in 1 .. e.sequence - 1 : i \in 1 .. Len(ledger[s])
    BY <2>1, <2>4
  <2>6. \A i \in 1 .. Len(ledger[s]) :
           i \in DOMAIN ledger[s] /\ ledger[s][i] \in events
    BY <2>1 DEF StoreInv, DiskInv, LedgerStored
  <2> QED
    BY <2>2, <2>5, <2>6
<1> QED
  BY <1>1, StoreCorrect, PTL

(***************************************************************************)
(* Lines 139-147: state without a fingerprint and events without state     *)
(* block their source for good.                                            *)
(***************************************************************************)
THEOREM LegacySourcesStayBlocked == Spec => []LegacyStaysBlocked
<1>1. TypedControl /\ StoreInv => LegacyStaysBlocked
  <2> SUFFICES ASSUME TypedControl, StoreInv,
                      NEW s \in LegacySource \cup {e.source_id : e \in LegacyEvent}
               PROVE  /\ state[s].peer \notin Cert
                      /\ ledger[s] = <<>>
                      /\ \A e \in events \cup artifacts :
                            e.source_id = s => e \in LegacyEvent
    BY DEF LegacyStaysBlocked
  <2>1. s \in Source
    BY ConstantAssumption, EventAssumption
  <2>2. state[s].peer \notin Cert
    BY ConstantAssumption DEF StoreInv, DiskInv, LegacyBlocked
  <2>3. ledger[s] \in Seq(Event) /\ Len(ledger[s]) \in Nat
    BY <2>1 DEF TypedControl, TypeOK
  <2>4. Len(ledger[s]) = 0
    BY <2>1, <2>2, <2>3 DEF StoreInv, DiskInv, StateSummarisesLedger
  <2>5. ledger[s] = <<>>
    BY <2>3, <2>4
  <2>6. \A e \in events \cup artifacts : e.source_id = s => e \in LegacyEvent
    BY <2>2 DEF StoreInv, DiskInv, BindingPrecedesEvidence
  <2> QED
    BY <2>2, <2>5, <2>6
<1> QED
  BY <1>1, StoreCorrect, PTL

(***************************************************************************)
(* The head of a source changes in two ways only: the binding of a source  *)
(* nobody has opened, and the step to a stored successor of the old head.  *)
(***************************************************************************)
HeadStep(s) ==
    \/ state'[s] = state[s]
    \/ state[s].peer = NoFile /\ state'[s].peer \in Cert /\ state'[s].sequence = 0
    \/ /\ state[s].peer \in Cert /\ state'[s].peer = state[s].peer
       /\ state'[s].sequence = state[s].sequence + 1
       /\ \E e \in events \cap artifacts :
             /\ e.event_hash = state'[s].event_hash
             /\ e.previous_event_hash = state[s].event_hash

(***************************************************************************)
(* Each step of ingest moves each head in one of these ways.               *)
(***************************************************************************)
LEMMA IngestHeadStep ==
    ASSUME TypedControl, StoreInv, NEW h \in Handler, Ingest(h), NEW s \in Source
    PROVE  HeadStep(s)
<1> USE DEF StoreInv, HeadStep
<1>t. state \in [Source -> State]
  BY DEF TypedControl, TypeOK
<1>1. CASE UNCHANGED state
  BY <1>1
<1>2. CASE BindSource(h)
  <2>1. request[h].peer \in Cert
    BY <1>2 DEF BindSource, TypedControl, Control, Request
  <2> QED
    BY <1>2, <1>t, <2>1 DEF BindSource
<1>3. CASE WriteState(h)
  <2> DEFINE e == request[h].event
  <2>1. /\ OwnerCalls(h) /\ NextInChain(e) /\ e \in events /\ e \in artifacts
        /\ request[h].peer \in Cert
    BY <1>3 DEF WriteState, ThreadInv, ThreadKnows, Locked, DiskInv,
       TypedControl, Control, Request
  <2>2. CASE s = e.source_id
    <3>1. /\ state'[s].sequence = e.sequence
          /\ state'[s].event_hash = e.event_hash
          /\ state'[s].peer = request[h].peer
      BY <1>3, <1>t, <2>2 DEF WriteState
    <3> QED
      BY <2>1, <2>2, <3>1 DEF OwnerCalls, NextInChain
  <2>3. CASE s # e.source_id
    BY <1>3, <1>t, <2>3 DEF WriteState
  <2> QED
    BY <2>2, <2>3
<1> QED
  BY <1>1, <1>2, <1>3
  DEF Ingest, RefuseLegacy, FindBinding, RefusePeer, AnswerStored, RefuseChain,
      RefuseStream, Admit, WriteArtifact, WriteEvent, WriteManifest, disk

(***************************************************************************)
(* Lines 150-178: state.json of a source is only ever bound once or        *)
(* advanced to a stored event that names the old head as its predecessor.  *)
(***************************************************************************)
THEOREM HeadsOnlyAdvance == Spec => StateOnlyAdvances
<1>1. TypedControl /\ StoreInv /\ [Next]_vars =>
        [\A s \in Source : HeadStep(s)]_state
  <2> SUFFICES ASSUME TypedControl, StoreInv, [Next]_vars, NEW s \in Source
               PROVE  state' = state \/ HeadStep(s)
    OBVIOUS
  <2>1. ASSUME NEW h \in Handler, Ingest(h) PROVE HeadStep(s)
    BY <2>1, IngestHeadStep
  <2> QED
    BY <2>1 DEF Next, Receive, Acquire, Reply, LoseReply, IOError, Crash, vars, disk
<1> QED
  BY <1>1, StoreCorrect, PTL DEF Spec, StateOnlyAdvances, HeadStep

-----------------------------------------------------------------------------
(***************************************************************************)
(* Each step of ingest is a step of the abstract ledger or leaves bindings *)
(* and ledgers alone.                                                      *)
(***************************************************************************)
LEMMA IngestLedgerStep ==
    ASSUME TypedControl, StoreInv, NEW h \in Handler, Ingest(h)
    PROVE  Ledger!LedgerStep \/ UNCHANGED <<owners, ledger>>
<1> DEFINE e == request[h].event
           s == e.source_id
<1> USE DEF StoreInv
<1>t. state \in [Source -> State] /\ ledger \in [Source -> Seq(Event)]
  BY DEF TypedControl, TypeOK
<1>1. CASE UNCHANGED <<state, ledger>>
  BY <1>1 DEF owners
<1>2. CASE BindSource(h)
  <2>1. request[h].peer \in Cert /\ s \in Source
    BY <1>2, EventAssumption DEF BindSource, TypedControl, Control, Request
  <2>2. owners[s] = NoFile
    BY <1>2, <2>1 DEF BindSource, owners
  <2>3. owners' = [owners EXCEPT ![s] = request[h].peer]
    BY <1>2, <1>t, <2>1 DEF BindSource, owners
  <2>4. UNCHANGED ledger
    BY <1>2 DEF BindSource
  <2>5. \E x \in Source, c \in Cert : Ledger!Bind(x, c)
    BY <2>1, <2>2, <2>3, <2>4 DEF Ledger!Bind, owners
  <2> QED
    BY <2>5, Zenon DEF Ledger!LedgerStep
<1>3. CASE WriteState(h)
  <2>1. request[h].peer \in Cert /\ e \in Event /\ s \in Source
    BY <1>3, EventAssumption DEF WriteState, TypedControl, Control, Request
  <2>2. OwnerCalls(h) /\ NextInChain(e)
    BY <1>3 DEF WriteState, ThreadInv, ThreadKnows, Locked
  <2>3. owners[s] \in Cert
    BY <2>1, <2>2 DEF OwnerCalls, owners
  <2>4. owners' = owners
    BY <1>3, <1>t, <2>1, <2>2 DEF WriteState, OwnerCalls, owners
  <2>5. ledger' = [ledger EXCEPT ![s] = Append(@, e)]
    BY <1>3 DEF WriteState
  <2>6. /\ ledger[s] \in Seq(Event) /\ Len(ledger[s]) \in Nat
        /\ ledger[s] = <<>> <=> Len(ledger[s]) = 0
    BY <1>t, <2>1
  <2>7. /\ e.sequence = Len(ledger[s]) + 1
        /\ e.previous_event_hash =
              IF Len(ledger[s]) = 0 THEN Genesis
              ELSE ledger[s][Len(ledger[s])].event_hash
    BY <2>1, <2>2 DEF NextInChain, DiskInv, StateSummarisesLedger
  <2>8. Ledger!AppendEvent(e)
    BY <2>3, <2>4, <2>5, <2>6, <2>7 DEF Ledger!AppendEvent, Ledger!HeadHash, owners
  <2> QED
    BY <2>1, <2>8 DEF Ledger!LedgerStep
<1> QED
  BY <1>1, <1>2, <1>3
  DEF Ingest, RefuseLegacy, FindBinding, RefusePeer, AnswerStored, RefuseChain,
      RefuseStream, Admit, WriteArtifact, WriteEvent, WriteManifest, disk

(***************************************************************************)
(* Other steps touch neither.                                              *)
(***************************************************************************)
LEMMA NextLedgerStep ==
    TypedControl /\ StoreInv /\ [Next]_vars =>
        Ledger!LedgerStep \/ UNCHANGED <<owners, ledger>>
<1> SUFFICES ASSUME TypedControl, StoreInv, [Next]_vars
             PROVE  Ledger!LedgerStep \/ UNCHANGED <<owners, ledger>>
  OBVIOUS
<1>1. ASSUME NEW h \in Handler, Ingest(h)
      PROVE  Ledger!LedgerStep \/ UNCHANGED <<owners, ledger>>
  BY <1>1, IngestLedgerStep
<1>2. CASE UNCHANGED <<state, ledger>>
  BY <1>2 DEF owners
<1> QED
  BY <1>1, <1>2
  DEF Next, Receive, Acquire, Reply, LoseReply, IOError, Crash, vars, disk

(***************************************************************************)
(* The store is empty when the abstract ledger is.                         *)
(***************************************************************************)
LEMMA InitLedger == Init => Ledger!Init
  BY ConstantAssumption DEF Init, Ledger!Init, owners

(***************************************************************************)
(* With any number of crashes and I/O errors, the bindings and chains that *)
(* state.json files describe evolve only as the abstract ledger allows.    *)
(***************************************************************************)
THEOREM StoreImplementsLedger == Spec => LedgerImplemented
<1>1. TypedControl /\ StoreInv /\ [Next]_vars =>
        [Ledger!LedgerStep]_<<owners, ledger>>
  BY NextLedgerStep
<1> QED
  BY <1>1, InitLedger, StoreCorrect, PTL
  DEF Spec, LedgerImplemented, Ledger!LedgerSpec, owners

-----------------------------------------------------------------------------
(***************************************************************************)
(* Without faults a stored event is either in its source's chain or held   *)
(* by the thread about to put it there.  A crash or an I/O error between   *)
(* the event file and state.json is what breaks this.                      *)
(***************************************************************************)
Linked(e) == e \in Entries(e.source_id)

BeingLinked(e) ==
    \E h \in Handler : pc[h] \in {"manifest", "state"} /\ request[h].event = e

LinkInv ==
    /\ \A e \in events \ LegacyEvent : Linked(e) \/ BeingLinked(e)
    /\ \A h \in Handler : status[h] \in Positive => Linked(request[h].event)
    /\ \A e \in acked : Linked(e)

(***************************************************************************)
(* Chains only grow.                                                       *)
(***************************************************************************)
LEMMA IngestEntries ==
    ASSUME TypedControl, NEW h \in Handler, Ingest(h), NEW e \in Event, Linked(e)
    PROVE  Linked(e)'
<1>t. e.source_id \in Source /\ ledger \in [Source -> Seq(Event)]
  BY EventAssumption DEF TypedControl, TypeOK
<1>1. CASE UNCHANGED ledger
  BY <1>1 DEF Linked, Entries
<1>2. CASE WriteState(h)
  <2> DEFINE f == request[h].event
  <2>1. f \in Event /\ f.source_id \in Source
    BY <1>2, EventAssumption DEF WriteState, TypedControl, Control, Request
  <2>2. ledger' = [ledger EXCEPT ![f.source_id] = Append(@, f)]
    BY <1>2 DEF WriteState
  <2>3. PICK i \in 1 .. Len(ledger[e.source_id]) : ledger[e.source_id][i] = e
    BY <1>t DEF Linked, Entries
  <2>4. ledger'[e.source_id] \in Seq(Event)
    BY <1>t, <2>1, <2>2
  <2>5. i \in 1 .. Len(ledger'[e.source_id]) /\ ledger'[e.source_id][i] = e
    <3>1. CASE e.source_id = f.source_id
      BY <1>t, <2>1, <2>2, <2>3, <3>1
    <3>2. CASE e.source_id # f.source_id
      BY <1>t, <2>1, <2>2, <2>3, <3>2
    <3> QED
      BY <3>1, <3>2
  <2>6. i \in DOMAIN ledger'[e.source_id]
    BY <2>4, <2>5
  <2> QED
    BY <2>5, <2>6 DEF Linked, Entries
<1> QED
  BY <1>1, <1>2
  DEF Ingest, RefuseLegacy, FindBinding, BindSource, RefusePeer, AnswerStored,
      RefuseChain, RefuseStream, Admit, WriteArtifact, WriteEvent, WriteManifest,
      disk

(***************************************************************************)
(* WriteState puts its event into the chain.                               *)
(***************************************************************************)
LEMMA WriteStateLinks ==
    ASSUME TypedControl, NEW h \in Handler, WriteState(h),
           NEW e \in Event, request[h].event = e
    PROVE  Linked(e)'
<1> DEFINE s == e.source_id
<1>1. /\ s \in Source
      /\ ledger \in [Source -> Seq(Event)]
      /\ ledger' = [ledger EXCEPT ![s] = Append(@, e)]
  BY EventAssumption DEF WriteState, TypedControl, TypeOK
<1>2. /\ Len(ledger[s]) \in Nat
      /\ ledger'[s] \in Seq(Event)
      /\ Len(ledger'[s]) = Len(ledger[s]) + 1
      /\ ledger'[s][Len(ledger[s]) + 1] = e
  BY <1>1
<1>3. Len(ledger[s]) + 1 \in DOMAIN ledger'[s]
  BY <1>2
<1> QED
  BY <1>1, <1>2, <1>3 DEF Linked, Entries

(***************************************************************************)
(* Ingest keeps the link invariant: the event file and state.json are      *)
(* written by one thread in one hold of the lock.                          *)
(***************************************************************************)
LEMMA IngestLinkInv ==
    ASSUME TypedControl, StoreInv, LinkInv, NEW h \in Handler, Ingest(h)
    PROVE  LinkInv'
<1>p. PICK e \in Event : request[h].event = e
  BY DEF Ingest, RefuseLegacy, FindBinding, BindSource, RefusePeer,
         AnswerStored, RefuseChain, RefuseStream, Admit, WriteArtifact,
         WriteEvent, WriteManifest, WriteState, TypedControl, Control, Request
<1>t. /\ events \subseteq Event /\ acked \subseteq Event
      /\ pc \in [Handler -> Locked \cup {"idle", "waiting", "reply"}]
      /\ status \in [Handler -> Status]
  BY DEF TypedControl, TypeOK
<1>0. /\ request[h] \in Request /\ pc[h] \in Locked
      /\ status[h] = "none" /\ UNCHANGED <<request, acked>>
      /\ \A g \in Handler \ {h} :
            pc'[g] = pc[g] /\ status'[g] = status[g] /\ pc[g] \notin Locked
  BY DEF Ingest, RefuseLegacy, FindBinding, BindSource, RefusePeer,
         AnswerStored, RefuseChain, RefuseStream, Admit, WriteArtifact,
         WriteEvent, WriteManifest, WriteState, TypedControl, TypeOK, Control,
         Request, Locked, Answer, Goto
<1>1. \A f \in events \ LegacyEvent : Linked(f) \/ (f = e /\ pc[h] \in {"manifest", "state"})
  BY <1>0, <1>p DEF LinkInv, BeingLinked, Locked
<1>2. \A f \in Event : Linked(f) => Linked(f)'
  BY IngestEntries
<1>3. ASSUME NEW f \in events' \ LegacyEvent PROVE Linked(f)' \/ BeingLinked(f)'
  <2>1. CASE WriteEvent(h)
    <3>1. pc'[h] \in {"manifest", "state"} /\ events' = events \cup {e}
      BY <1>t, <1>p, <2>1 DEF WriteEvent, Goto
    <3>2. pc[h] = "event"
      BY <2>1 DEF WriteEvent
    <3>3. CASE f = e
      BY <1>0, <1>p, <3>1, <3>3 DEF BeingLinked
    <3>4. CASE f # e
      BY <1>1, <1>2, <1>t, <3>1, <3>2, <3>4
    <3> QED
      BY <3>3, <3>4
  <2>2. CASE WriteManifest(h)
    <3>1. pc'[h] = "state" /\ events' = events
      BY <1>t, <2>2 DEF WriteManifest, Goto
    <3> QED
      BY <1>0, <1>p, <1>1, <1>2, <1>t, <3>1 DEF BeingLinked
  <2>3. CASE WriteState(h)
    <3>1. events' = events /\ Linked(e)'
      BY <1>p, <2>3, WriteStateLinks DEF WriteState
    <3> QED
      BY <1>1, <1>2, <1>t, <3>1
  <2>4. CASE pc[h] \notin {"event", "manifest", "state"}
    <3>1. events' = events
      BY <2>4 DEF Ingest, RefuseLegacy, FindBinding, BindSource, RefusePeer,
         AnswerStored, RefuseChain, RefuseStream, Admit, WriteArtifact,
         WriteEvent, WriteManifest, WriteState, disk
    <3> QED
      BY <1>1, <1>2, <1>t, <2>4, <3>1
  <2> QED
    BY <2>1, <2>2, <2>3, <2>4
    DEF Ingest, RefuseLegacy, FindBinding, BindSource, RefusePeer,
        AnswerStored, RefuseChain, RefuseStream, Admit, WriteArtifact
<1>4. ASSUME status'[h] \in Positive PROVE Linked(e)'
  <2>1. CASE AnswerStored(h)
    <3>1. e \in events /\ OwnerCalls(h) /\ pc[h] = "check"
      BY <1>p, <2>1 DEF AnswerStored
    <3>2. e \notin LegacyEvent
      BY <1>0, <1>p, <3>1 DEF OwnerCalls, StoreInv, DiskInv, LegacyBlocked, Request
    <3> QED
      BY <1>1, <1>2, <3>1, <3>2
  <2>2. CASE WriteState(h)
    BY <1>p, <2>2, WriteStateLinks
  <2>3. CASE ~AnswerStored(h) /\ ~WriteState(h)
    BY <1>0, <1>t, <1>4, <2>3
    DEF Ingest, RefuseLegacy, FindBinding, BindSource, RefusePeer, RefuseChain,
        RefuseStream, Admit, WriteArtifact, WriteEvent, WriteManifest, Answer,
        Goto, Positive
  <2> QED
    BY <2>1, <2>2, <2>3
<1>5. ASSUME NEW g \in Handler, status'[g] \in Positive,
             NEW f \in Event, request[g].event = f
      PROVE  Linked(f)'
  <2>1. CASE g = h
    BY <1>4, <1>5, <1>p, <2>1
  <2>2. CASE g # h
    <3>1. status[g] \in Positive
      BY <1>0, <1>5, <2>2
    <3>2. Linked(request[g].event)
      BY <3>1 DEF LinkInv
    <3>3. Linked(f)
      BY <1>5, <3>2
    <3> QED
      BY <1>2, <3>3
  <2> QED
    BY <2>1, <2>2
<1>6. ASSUME NEW g \in Handler, status'[g] \in Positive
      PROVE  Linked(request[g].event)'
  <2>1. PICK f \in Event : request[g].event = f
    BY <1>0, <1>6, <1>p DEF TypedControl, Control, Request, Positive
  <2>2. Linked(f)'
    BY <1>5, <1>6, <2>1
  <2> QED
    BY <1>0, <2>1, <2>2 DEF Linked, Entries
<1>7. ASSUME NEW f \in acked' PROVE Linked(f)'
  BY <1>0, <1>2, <1>t DEF LinkInv
<1> QED
  BY <1>3, <1>6, <1>7 DEF LinkInv

(***************************************************************************)
(* Faults are only counted up, so that there was none before a step if     *)
(* there is none after it.                                                 *)
(***************************************************************************)
LEMMA FaultsOnlyGrow ==
    ASSUME TypedControl, [Next]_vars, faults' = 0
    PROVE  /\ faults = 0
           /\ ~Crash /\ \A h \in Handler : ~IOError(h)
<1>1. faults \in Nat
  BY ConstantAssumption DEF TypedControl, TypeOK
<1>2. ~Crash /\ \A h \in Handler : ~IOError(h)
  BY <1>1 DEF Crash, IOError
<1>3. UNCHANGED faults
  <2>1. ASSUME NEW h \in Handler, Ingest(h) PROVE UNCHANGED faults
    BY <2>1 DEF Ingest, RefuseLegacy, FindBinding, BindSource, RefusePeer,
         AnswerStored, RefuseChain, RefuseStream, Admit, WriteArtifact, WriteEvent,
         WriteManifest, WriteState, Answer, Goto
  <2> QED
    BY <1>2, <2>1 DEF Next, Receive, Acquire, Reply, LoseReply, vars
<1> QED
  BY <1>2, <1>3

(***************************************************************************)
(* Every step that is no fault keeps the link invariant.                   *)
(***************************************************************************)
LEMMA NextLinkInv ==
    ASSUME TypedControl, StoreInv, LinkInv, [Next]_vars, faults' = 0
    PROVE  LinkInv'
<1> USE DEF LinkInv, Linked, BeingLinked, Entries, Positive
<1>t. /\ pc \in [Handler -> Locked \cup {"idle", "waiting", "reply"}]
      /\ status \in [Handler -> Status]
      /\ request \in [Handler -> Request \cup {NoRequest}]
  BY DEF TypedControl, TypeOK
<1>c. \A h \in Handler : pc[h] # "reply" => status[h] = "none"
  BY DEF TypedControl, Control
<1>1. ASSUME NEW h \in Handler, NEW e \in Event, NEW c \in Cert, Receive(h, e, c)
      PROVE  LinkInv'
  BY <1>1, <1>t, <1>c DEF Receive, disk
<1>2. ASSUME NEW h \in Handler, Acquire(h) PROVE LinkInv'
  BY <1>2, <1>t DEF Acquire, disk
<1>3. ASSUME NEW h \in Handler, Ingest(h) PROVE LinkInv'
  BY <1>3, IngestLinkInv
<1>4. ASSUME NEW h \in Handler, Reply(h) PROVE LinkInv'
  <2>1. /\ pc[h] = "reply" /\ pc' = [pc EXCEPT ![h] = "idle"]
        /\ request' = [request EXCEPT ![h] = NoRequest]
        /\ status' = [status EXCEPT ![h] = "none"]
        /\ UNCHANGED <<events, ledger>>
    BY <1>4 DEF Reply, Idle, disk
  <2>2. \A e \in events \ LegacyEvent : Linked(e)' \/ BeingLinked(e)'
    BY <2>1, <1>t
  <2>3. \A g \in Handler : status'[g] \in Positive => Linked(request[g].event)'
    BY <2>1, <1>t
  <2>4. ASSUME NEW e \in acked' PROVE Linked(e)'
    BY <1>4, <2>1 DEF Reply
  <2> QED
    BY <2>1, <2>2, <2>3, <2>4
<1>5. ASSUME NEW h \in Handler, LoseReply(h) PROVE LinkInv'
  BY <1>5, <1>t DEF LoseReply, Idle, disk
<1>6. ~Crash /\ \A h \in Handler : ~IOError(h)
  BY FaultsOnlyGrow
<1>7. CASE UNCHANGED vars
  BY <1>7 DEF vars, disk, threads
<1> QED
  BY <1>1, <1>2, <1>3, <1>4, <1>5, <1>6, <1>7 DEF Next

(***************************************************************************)
(* The link invariant holds until the first fault.                         *)
(***************************************************************************)
LEMMA LinksUntilFault == Spec => [](faults = 0 => LinkInv)
<1>1. Init => (faults = 0 => LinkInv)
  BY DEF Init, LinkInv, Positive
<1>2. TypedControl /\ StoreInv /\ (faults = 0 => LinkInv) /\ [Next]_vars
        => (faults = 0 => LinkInv)'
  BY NextLinkInv, FaultsOnlyGrow
<1> QED
  BY <1>1, <1>2, StoreCorrect, PTL DEF Spec

(***************************************************************************)
(* As long as nothing crashes and no write fails, an acknowledged event is *)
(* an entry of its source's chain, and no two acknowledged events share a  *)
(* place in it.                                                            *)
(***************************************************************************)
THEOREM ReliableAcksAreLinked == Spec => []LinkedUntilFault
<1>1. TypedControl /\ StoreInv /\ (faults = 0 => LinkInv) => LinkedUntilFault
  <2> SUFFICES ASSUME TypedControl, StoreInv, faults = 0, LinkInv
               PROVE  LinkedUntilFault
    BY DEF LinkedUntilFault
  <2>1. AckedIsLinked
    BY DEF LinkInv, Linked, AckedIsLinked
  <2>2. ASSUME NEW e \in acked, NEW f \in acked,
               e.source_id = f.source_id, e.sequence = f.sequence
        PROVE  e = f
    <3> DEFINE s == e.source_id
    <3>1. s \in Source /\ ledger[s] \in Seq(Event)
      BY EventAssumption DEF TypedControl, TypeOK
    <3>2. PICK i \in 1 .. Len(ledger[s]) : ledger[s][i] = e
      BY <2>1, <3>1 DEF AckedIsLinked, Entries
    <3>3. PICK j \in 1 .. Len(ledger[s]) : ledger[s][j] = f
      BY <2>1, <2>2, <3>1 DEF AckedIsLinked, Entries
    <3>4. i = e.sequence /\ j = f.sequence
      BY <3>1, <3>2, <3>3 DEF StoreInv, DiskInv, LedgerStored
    <3> QED
      BY <2>2, <3>2, <3>3, <3>4
  <2> QED
    BY <2>1, <2>2 DEF LinkedUntilFault
<1> QED
  BY <1>1, StoreCorrect, LinksUntilFault, PTL

(***************************************************************************)
(* Each step is a step of the abstract ledger with acknowledgements; only  *)
(* Reply acknowledges.                                                     *)
(***************************************************************************)
LEMMA NextAbstract ==
    ASSUME TypedControl, StoreInv, LinkInv, [Next]_vars
    PROVE  Ledger!Next \/ UNCHANGED <<owners, ledger, acked>>
<1>1. ASSUME NEW h \in Handler, Reply(h)
      PROVE  Ledger!Next \/ UNCHANGED <<owners, ledger, acked>>
  <2>1. UNCHANGED <<owners, ledger>>
    BY <1>1 DEF Reply, disk, owners
  <2>2. CASE status[h] \in Positive
    <3>1. PICK e \in Event : request[h].event = e
      BY <1>1 DEF Reply, TypedControl, Control, Request
    <3>2. acked' = acked \cup {e}
      BY <1>1, <2>2, <3>1 DEF Reply
    <3>3. Linked(request[h].event)
      BY <2>2 DEF LinkInv
    <3>4. \E i \in DOMAIN ledger[e.source_id] : ledger[e.source_id][i] = e
      BY <3>1, <3>3 DEF Linked, Entries
    <3>5. Ledger!Acknowledge(e)
      BY <2>1, <3>2, <3>4 DEF Ledger!Acknowledge, owners
    <3> QED
      BY <3>5 DEF Ledger!Next
  <2>3. CASE status[h] \notin Positive
    BY <1>1, <2>1, <2>3 DEF Reply
  <2> QED
    BY <2>2, <2>3
<1>2. ASSUME NEW h \in Handler, Ingest(h) PROVE UNCHANGED acked
  BY <1>2 DEF Ingest, RefuseLegacy, FindBinding, BindSource, RefusePeer,
       AnswerStored, RefuseChain, RefuseStream, Admit, WriteArtifact, WriteEvent,
       WriteManifest, WriteState, Answer, Goto
<1>3. CASE UNCHANGED acked
  BY <1>3, NextLedgerStep DEF Ledger!Next
<1> QED
  BY <1>1, <1>2, <1>3
  DEF Next, Receive, Acquire, LoseReply, IOError, Crash, vars

(***************************************************************************)
(* Until the first fault the store implements the abstract ledger with its *)
(* acknowledgements.                                                       *)
(***************************************************************************)
THEOREM ReliableStoreImplementsLedgerAndAcks == Spec => AcksImplementedUntilFault
<1>1. TypedControl /\ StoreInv /\ (faults = 0 => LinkInv) /\ [Next]_vars =>
        [faults' = 0 => Ledger!Next \/ UNCHANGED <<owners, ledger, acked>>]_vars
  BY NextAbstract, FaultsOnlyGrow
<1> QED
  BY <1>1, StoreCorrect, LinksUntilFault, PTL DEF Spec, AcksImplementedUntilFault
-----------------------------------------------------------------------------
(***************************************************************************)
(* The inductive invariant of the manifests.  That a manifest names a      *)
(* complete stream and is never replaced rests on what the writing thread  *)
(* has verified and still holds, and on its stream having no manifest      *)
(* while it holds it: another final chunk on disk would have been a second *)
(* chunk with its index.                                                   *)
(***************************************************************************)
IsPart(f, e) ==
    /\ f.stream # NoStream
    /\ f.stream.stream_id = e.stream.stream_id
    /\ f.source_id = e.source_id
    /\ f.stream.whole = e.stream.whole
    /\ f.output = e.stream.whole[f.stream.chunk_index + 1]

Complete(e) ==
    \A k \in 0 .. e.stream.chunk_count - 1 :
        \E f \in events \cap artifacts : IsPart(f, e) /\ f.stream.chunk_index = k

NamesFinal(i) ==
    LET e == manifests[i] IN
    /\ e \in events
    /\ IsFinal(e)
    /\ e.stream.stream_id = i
    /\ Complete(e)

ThreadVerified(h) ==
    LET e == request[h].event IN
    /\ pc[h] \in {"artifact", "event"} => e \notin events
    /\ pc[h] = "manifest" => IsFinal(e)
    /\ pc[h] \in {"artifact", "event", "manifest"} /\ IsFinal(e) =>
          StreamVerified(e) /\ manifests[e.stream.stream_id] = NoManifest

ManifestInv ==
    /\ \A i \in StreamId : manifests[i] # NoManifest => NamesFinal(i)
    /\ \A h \in Handler : ThreadVerified(h)

(***************************************************************************)
(* _verify_final_stream is about the stored chunks and e: writing e's own  *)
(* files does not change its verdict.                                      *)
(***************************************************************************)
LEMMA VerifiedStays ==
    ASSUME NEW e, StreamVerified(e), IsFinal(e), e \in artifacts',
           artifacts \subseteq artifacts', events' = events \cup {e}
    PROVE  StreamVerified(e)'
<1>1. ChunksOf(e)' \cup {e} = ChunksOf(e) \cup {e}
  BY DEF ChunksOf
<1>2. ChunksOf(e)' \subseteq artifacts'
  BY DEF ChunksOf, StreamVerified
<1> QED
  BY <1>1, <1>2 DEF StreamVerified

(***************************************************************************)
(* A verified stream that is wholly on disk is complete: each index has    *)
(* one chunk, so the chunk that was assembled at its place is the stored.  *)
(***************************************************************************)
LEMMA VerifiedIsComplete ==
    ASSUME NEW e, StreamVerified(e), IsFinal(e), e \in events,
           events \subseteq artifacts, e.stream.chunk_count \in Nat
    PROVE  Complete(e)
<1> DEFINE chunks == ChunksOf(e)
           count == e.stream.chunk_count
<1>1. chunks \cup {e} = chunks
  BY DEF ChunksOf, IsFinal
<1>2. /\ \A f, g \in chunks : f.stream.chunk_index = g.stream.chunk_index => f = g
      /\ {f.stream.chunk_index : f \in chunks} = 0 .. count - 1
      /\ \A f \in chunks :
            f.source_id = e.source_id /\ f.stream.whole = e.stream.whole
      /\ Assembled(chunks, count) = e.stream.whole
  BY <1>1 DEF StreamVerified
<1> SUFFICES ASSUME NEW k \in 0 .. count - 1
             PROVE  \E f \in events \cap artifacts :
                       IsPart(f, e) /\ f.stream.chunk_index = k
  BY DEF Complete
<1>3. PICK f \in chunks : f.stream.chunk_index = k
  BY <1>2
<1>4. k + 1 \in 1 .. count /\ (k + 1) - 1 = k
  OBVIOUS
<1>5. f = CHOOSE g \in chunks : g.stream.chunk_index = k
  BY <1>2, <1>3
<1>6. Assembled(chunks, count)[k + 1] = f.output
  <2> HIDE DEF chunks, count
  <2> QED
    BY <1>4, <1>5 DEF Assembled
<1>7. f \in events /\ f.stream # NoStream /\ f.stream.stream_id = e.stream.stream_id
  BY DEF ChunksOf
<1>8. f.output = e.stream.whole[f.stream.chunk_index + 1]
  BY <1>2, <1>3, <1>6
<1> QED
  BY <1>2, <1>3, <1>7, <1>8 DEF IsPart

(***************************************************************************)
(* A stream that has a manifest has no other final chunk to come: the new  *)
(* one would be verified together with the old one, which has its index.   *)
(***************************************************************************)
LEMMA NoSecondFinal ==
    ASSUME ManifestInv, NEW e, StreamVerified(e), IsFinal(e), e \notin events,
           e.stream.stream_id \in StreamId
    PROVE  manifests[e.stream.stream_id] = NoManifest
<1> DEFINE m == manifests[e.stream.stream_id]
<1> SUFFICES ASSUME m # NoManifest PROVE FALSE
  OBVIOUS
<1>1. /\ m \in events /\ m.stream # NoStream
      /\ m.stream.stream_id = e.stream.stream_id
      /\ m.stream.chunk_index = m.stream.chunk_count - 1
  BY DEF ManifestInv, NamesFinal, IsFinal
<1>2. m \in ChunksOf(e)
  BY <1>1 DEF ChunksOf
<1>3. m.stream.chunk_count = e.stream.chunk_count
  BY <1>2 DEF StreamVerified
<1>4. m.stream.chunk_index = e.stream.chunk_index
  BY <1>1, <1>3 DEF IsFinal
<1>5. m = e
  BY <1>2, <1>4 DEF StreamVerified
<1> QED
  BY <1>1, <1>5

(***************************************************************************)
(* What a thread has verified outlasts every step that leaves it, the      *)
(* stored events and the manifests alone.                                  *)
(***************************************************************************)
LEMMA VerifiedUnchanged ==
    ASSUME NEW h, ThreadVerified(h), pc'[h] = pc[h], request'[h] = request[h],
           UNCHANGED <<events, artifacts, manifests>>
    PROVE  ThreadVerified(h)'
  BY DEF ThreadVerified, StreamVerified, ChunksOf, IsFinal

(***************************************************************************)
(* A manifest that stands keeps standing while events and artifacts only   *)
(* grow.                                                                   *)
(***************************************************************************)
LEMMA NamesFinalStays ==
    ASSUME NEW i, NamesFinal(i), manifests'[i] = manifests[i],
           events \subseteq events', artifacts \subseteq artifacts'
    PROVE  NamesFinal(i)'
<1>1. Complete(manifests[i])'
  BY DEF NamesFinal, Complete
<1> QED
  BY <1>1 DEF NamesFinal, IsFinal, Complete

(***************************************************************************)
(* Each step of ingest keeps the invariant of the manifests.               *)
(***************************************************************************)
LEMMA IngestManifestInv ==
    ASSUME TypedControl, StoreInv, ManifestInv, NEW h \in Handler, Ingest(h)
    PROVE  ManifestInv'
<1> DEFINE e == request[h].event
           i == e.stream.stream_id
<1>0. /\ request[h] \in Request /\ pc[h] \in Locked
      /\ \A g \in Handler \ {h} :
            pc'[g] = pc[g] /\ request'[g] = request[g] /\ pc[g] \notin Locked
  BY DEF Ingest, RefuseLegacy, FindBinding, BindSource, RefusePeer,
         AnswerStored, RefuseChain, RefuseStream, Admit, WriteArtifact,
         WriteEvent, WriteManifest, WriteState, TypedControl, TypeOK, Control,
         Locked, Answer, Goto
<1>e. /\ e \in Event
      /\ IsFinal(e) => i \in StreamId /\ e.stream.chunk_count \in Nat
  BY <1>0, EventAssumption DEF Request, IsFinal
<1>t. /\ pc \in [Handler -> Locked \cup {"idle", "waiting", "reply"}]
      /\ manifests \in [StreamId -> Event \cup {NoManifest}]
  BY DEF TypedControl, TypeOK
<1>v. ThreadVerified(h)
  BY DEF ManifestInv
\* Threads without the lock have verified nothing.
<1>g. ASSUME NEW g \in Handler \ {h} PROVE ThreadVerified(g)'
  BY <1>0 DEF ThreadVerified, Locked
\* The manifests stand as long as none is written.
<1>m. ASSUME UNCHANGED manifests, events \subseteq events', artifacts \subseteq artifacts'
      PROVE  \A j \in StreamId : manifests'[j] # NoManifest => NamesFinal(j)'
  BY <1>m, NamesFinalStays DEF ManifestInv
<1>1. CASE pc'[h] \in {"check", "reply", "state"} /\ UNCHANGED <<events, artifacts, manifests>>
  <2>1. ThreadVerified(h)'
    BY <1>1 DEF ThreadVerified
  <2> QED
    BY <1>1, <1>g, <1>m, <2>1 DEF ManifestInv
<1>2. CASE Admit(h)
  <2>1. /\ e \notin events /\ (IsFinal(e) => StreamVerified(e))
        /\ pc'[h] = "artifact" /\ UNCHANGED <<request, events, artifacts, manifests>>
    BY <1>2, <1>t DEF Admit, Goto, disk
  <2>2. IsFinal(e) => manifests[i] = NoManifest
    BY <1>e, <2>1, NoSecondFinal
  <2>3. ThreadVerified(h)'
    BY <2>1, <2>2 DEF ThreadVerified, StreamVerified, ChunksOf, IsFinal
  <2> QED
    BY <1>g, <1>m, <2>1, <2>3 DEF ManifestInv
<1>3. CASE WriteArtifact(h)
  <2>1. /\ pc[h] = "artifact" /\ pc'[h] = "event"
        /\ artifacts' = artifacts \cup {e}
        /\ UNCHANGED <<request, events, manifests>>
    BY <1>3, <1>t DEF WriteArtifact, Goto
  <2>2. IsFinal(e) /\ StreamVerified(e) => StreamVerified(e)'
    BY <2>1 DEF StreamVerified, ChunksOf
  <2>3. ThreadVerified(h)'
    BY <1>v, <2>1, <2>2 DEF ThreadVerified, IsFinal
  <2> QED
    BY <1>g, <1>m, <2>1, <2>3 DEF ManifestInv
<1>4. CASE WriteEvent(h)
  <2>1. /\ pc[h] = "event"
        /\ pc'[h] = IF IsFinal(e) THEN "manifest" ELSE "state"
        /\ events' = events \cup {e}
        /\ UNCHANGED <<request, artifacts, manifests>>
    BY <1>4, <1>t DEF WriteEvent, Goto
  <2>2. e \in artifacts
    BY <2>1 DEF StoreInv, ThreadInv, ThreadKnows
  <2>3. IsFinal(e) /\ StreamVerified(e) => StreamVerified(e)'
    BY <2>1, <2>2, VerifiedStays
  <2>4. ThreadVerified(h)'
    <3>1. CASE IsFinal(e)
      BY <1>v, <2>1, <2>3, <3>1 DEF ThreadVerified, IsFinal
    <3>2. CASE ~IsFinal(e)
      BY <2>1, <3>2 DEF ThreadVerified
    <3> QED
      BY <3>1, <3>2
  <2> QED
    BY <1>g, <1>m, <2>1, <2>4 DEF ManifestInv
<1>5. CASE WriteManifest(h)
  <2>1. /\ pc[h] = "manifest" /\ pc'[h] = "state"
        /\ manifests' = [manifests EXCEPT ![i] = e]
        /\ UNCHANGED <<request, events, artifacts>>
    BY <1>5, <1>t DEF WriteManifest, Goto
  <2>2. IsFinal(e) /\ StreamVerified(e) /\ e \in events /\ events \subseteq artifacts
    BY <1>v, <2>1 DEF ThreadVerified, StoreInv, ThreadInv, ThreadKnows, DiskInv
  <2>3. Complete(e)
    BY <1>e, <2>2, VerifiedIsComplete
  <2>4. ASSUME NEW j \in StreamId, manifests'[j] # NoManifest PROVE NamesFinal(j)'
    <3>1. CASE j = i
      <4>1. manifests'[j] = e
        BY <1>t, <2>1, <3>1
      <4> QED
        BY <2>1, <2>2, <2>3, <3>1, <4>1 DEF NamesFinal, IsFinal, Complete
    <3>2. CASE j # i
      <4>1. manifests'[j] = manifests[j]
        BY <1>t, <2>1, <3>2
      <4> QED
        BY <2>1, <2>4, <4>1, NamesFinalStays DEF ManifestInv
    <3> QED
      BY <3>1, <3>2
  <2>5. ThreadVerified(h)'
    BY <2>1 DEF ThreadVerified
  <2> QED
    BY <1>g, <2>4, <2>5 DEF ManifestInv
<1>6. CASE WriteState(h) \/ BindSource(h)
  <2>1. pc'[h] \in {"check", "reply"} /\ UNCHANGED <<events, artifacts, manifests>>
    BY <1>6, <1>t DEF WriteState, BindSource, Answer, Goto
  <2> QED
    BY <1>1, <2>1
<1>7. CASE RefuseLegacy(h) \/ FindBinding(h) \/ RefusePeer(h) \/ AnswerStored(h)
             \/ RefuseChain(h) \/ RefuseStream(h)
  <2>1. pc'[h] \in {"check", "reply"} /\ UNCHANGED <<events, artifacts, manifests>>
    BY <1>7, <1>t DEF RefuseLegacy, FindBinding, RefusePeer, AnswerStored,
       RefuseChain, RefuseStream, Answer, Goto, disk
  <2> QED
    BY <1>1, <2>1
<1> QED
  BY <1>2, <1>3, <1>4, <1>5, <1>6, <1>7 DEF Ingest

(***************************************************************************)
(* Every step keeps it; a crash or a lost reply only forgets.              *)
(***************************************************************************)
LEMMA NextManifestInv ==
    TypedControl /\ StoreInv /\ ManifestInv /\ [Next]_vars => ManifestInv'
<1> SUFFICES ASSUME TypedControl, StoreInv, ManifestInv, [Next]_vars
             PROVE  ManifestInv'
  OBVIOUS
<1>1. ASSUME NEW h \in Handler, Ingest(h) PROVE ManifestInv'
  BY <1>1, IngestManifestInv
<1>2. ASSUME UNCHANGED disk,
             \A g \in Handler : \/ pc'[g] \in {"idle", "waiting", "open"}
                                \/ pc'[g] = pc[g] /\ request'[g] = request[g]
      PROVE  ManifestInv'
  <2>1. ASSUME NEW j \in StreamId, manifests'[j] # NoManifest PROVE NamesFinal(j)'
    BY <1>2, <2>1, NamesFinalStays DEF ManifestInv, disk
  <2>2. ASSUME NEW g \in Handler PROVE ThreadVerified(g)'
    <3>1. CASE pc'[g] \in {"idle", "waiting", "open"}
      BY <3>1 DEF ThreadVerified
    <3>2. CASE pc'[g] = pc[g] /\ request'[g] = request[g]
      <4>1. ThreadVerified(g) /\ UNCHANGED <<events, artifacts, manifests>>
        BY <1>2 DEF ManifestInv, disk
      <4> QED
        BY <3>2, <4>1, VerifiedUnchanged
    <3> QED
      BY <1>2, <3>1, <3>2
  <2> QED
    BY <2>1, <2>2 DEF ManifestInv
<1>t. /\ pc \in [Handler -> Locked \cup {"idle", "waiting", "reply"}]
      /\ request \in [Handler -> Request \cup {NoRequest}]
  BY DEF TypedControl, TypeOK
<1>3. ASSUME NEW h \in Handler, NEW e \in Event, NEW c \in Cert, Receive(h, e, c)
      PROVE  ManifestInv'
  BY <1>2, <1>3, <1>t DEF Receive
<1>4. ASSUME NEW h \in Handler, Acquire(h) PROVE ManifestInv'
  BY <1>2, <1>4, <1>t DEF Acquire
<1>5. ASSUME NEW h \in Handler, Idle(h), UNCHANGED disk PROVE ManifestInv'
  BY <1>2, <1>5, <1>t DEF Idle
<1>6. ASSUME NEW h \in Handler, Reply(h) \/ LoseReply(h) \/ IOError(h)
      PROVE  ManifestInv'
  BY <1>5, <1>6 DEF Reply, LoseReply, IOError
<1>7. CASE Crash
  BY <1>2, <1>7 DEF Crash
<1>8. CASE UNCHANGED vars
  BY <1>2, <1>8 DEF vars, threads
<1> QED
  BY <1>1, <1>3, <1>4, <1>6, <1>7, <1>8 DEF Next

(***************************************************************************)
(* The manifests' invariant, with any number of crashes and I/O errors.    *)
(***************************************************************************)
LEMMA ManifestCorrect == Spec => []ManifestInv
<1>1. Init => ManifestInv
  <2> SUFFICES ASSUME Init PROVE ManifestInv
    OBVIOUS
  <2> QED
    BY DEF Init, ManifestInv, ThreadVerified
<1> QED
  BY <1>1, NextManifestInv, StoreCorrect, PTL DEF Spec

(***************************************************************************)
(* Lines 164-174: a manifest names a stored final chunk whose stream is    *)
(* wholly on disk, from one source, and is the output the chunk declares.  *)
(***************************************************************************)
THEOREM ManifestsAreComplete == Spec => []ManifestIsComplete
<1>1. ManifestInv => ManifestIsComplete
  <2> SUFFICES ASSUME ManifestInv, NEW i \in StreamId, manifests[i] # NoManifest,
                      NEW k \in 0 .. manifests[i].stream.chunk_count - 1
               PROVE  \E f \in {g \in events : /\ g.stream # NoStream
                                               /\ g.stream.stream_id = i
                                               /\ g.stream.chunk_index = k}
                                 \cap artifacts :
                         /\ f.source_id = manifests[i].source_id
                         /\ f.stream.whole = manifests[i].stream.whole
                         /\ f.output = manifests[i].stream.whole[k + 1]
    BY DEF ManifestIsComplete, ManifestInv, NamesFinal
  <2> DEFINE e == manifests[i]
  <2>1. Complete(e) /\ e.stream.stream_id = i
    BY DEF ManifestInv, NamesFinal
  <2>2. PICK f \in events \cap artifacts : IsPart(f, e) /\ f.stream.chunk_index = k
    BY <2>1 DEF Complete
  <2> QED
    BY <2>1, <2>2 DEF IsPart
<1> QED
  BY <1>1, ManifestCorrect, PTL

(***************************************************************************)
(* Each step of ingest leaves the manifests that are there alone.          *)
(***************************************************************************)
LEMMA IngestKeepsManifests ==
    ASSUME TypedControl, ManifestInv, NEW h \in Handler, Ingest(h),
           NEW i \in StreamId, manifests[i] # NoManifest
    PROVE  manifests'[i] = manifests[i]
<1>1. CASE WriteManifest(h)
  <2> DEFINE e == request[h].event
  <2>1. pc[h] = "manifest" /\ manifests' = [manifests EXCEPT ![e.stream.stream_id] = e]
    BY <1>1 DEF WriteManifest
  <2>2. manifests[e.stream.stream_id] = NoManifest
    BY <2>1 DEF ManifestInv, ThreadVerified
  <2>3. i # e.stream.stream_id
    BY <2>2
  <2>4. manifests \in [StreamId -> Event \cup {NoManifest}]
    BY DEF TypedControl, TypeOK
  <2> QED
    BY <2>1, <2>3, <2>4
<1>2. CASE UNCHANGED manifests
  BY <1>2
<1> QED
  BY <1>1, <1>2
  DEF Ingest, RefuseLegacy, FindBinding, BindSource, RefusePeer, AnswerStored,
      RefuseChain, RefuseStream, Admit, WriteArtifact, WriteEvent, WriteState, disk

(***************************************************************************)
(* Lines 164-174: a manifest is written once.  No crash, retry or later    *)
(* final chunk, of this or another source, replaces it.                    *)
(***************************************************************************)
THEOREM ManifestsAreFinal == Spec => ManifestIsFinal
<1>1. TypedControl /\ ManifestInv /\ [Next]_vars =>
        [\A i \in StreamId :
            manifests[i] # NoManifest => manifests'[i] = manifests[i]]_manifests
  <2> SUFFICES ASSUME TypedControl, ManifestInv, [Next]_vars,
                      NEW i \in StreamId, manifests[i] # NoManifest
               PROVE  manifests'[i] = manifests[i]
    OBVIOUS
  <2>1. ASSUME NEW h \in Handler, Ingest(h) PROVE manifests'[i] = manifests[i]
    BY <2>1, IngestKeepsManifests
  <2> QED
    BY <2>1 DEF Next, Receive, Acquire, Reply, LoseReply, IOError, Crash, vars, disk
<1> QED
  BY <1>1, ManifestCorrect, ControlCorrect, PTL DEF Spec, ManifestIsFinal

-----------------------------------------------------------------------------
(***************************************************************************)
(* Without faults a stored final chunk has its manifest or is held by the  *)
(* thread about to write it.                                               *)
(***************************************************************************)
HasManifest(e) == IsFinal(e) => manifests[e.stream.stream_id] = e

BeingNamed(e) ==
    \E h \in Handler : pc[h] = "manifest" /\ request[h].event = e

NamedInv ==
    /\ \A e \in events \ LegacyEvent : HasManifest(e) \/ BeingNamed(e)
    /\ \A h \in Handler : status[h] \in Positive => HasManifest(request[h].event)
    /\ \A e \in acked : HasManifest(e)

(***************************************************************************)
(* A manifest that names its chunk goes on naming it.                      *)
(***************************************************************************)
LEMMA IngestHasManifest ==
    ASSUME TypedControl, ManifestInv, NEW h \in Handler, Ingest(h),
           NEW e \in Event, HasManifest(e)
    PROVE  HasManifest(e)'
<1>1. CASE IsFinal(e)
  <2>1. e.stream.stream_id \in StreamId /\ e # NoManifest
    BY <1>1, EventAssumption, ConstantAssumption DEF IsFinal
  <2>2. manifests[e.stream.stream_id] = e
    BY <1>1 DEF HasManifest
  <2>3. manifests'[e.stream.stream_id] = e
    BY <2>1, <2>2, IngestKeepsManifests
  <2> QED
    BY <2>3 DEF HasManifest
<1>2. CASE ~IsFinal(e)
  BY <1>2 DEF HasManifest, IsFinal
<1> QED
  BY <1>1, <1>2

(***************************************************************************)
(* WriteManifest gives its chunk a manifest; a chunk that goes straight to *)
(* state.json is not final and needs none.                                 *)
(***************************************************************************)
LEMMA WrittenHasManifest ==
    ASSUME TypedControl, NEW h \in Handler, NEW e \in Event, request[h].event = e,
           \/ WriteManifest(h) /\ ManifestInv
           \/ WriteEvent(h) /\ pc'[h] # "manifest"
    PROVE  HasManifest(e)'
<1>t. /\ pc \in [Handler -> Locked \cup {"idle", "waiting", "reply"}]
      /\ manifests \in [StreamId -> Event \cup {NoManifest}]
  BY DEF TypedControl, TypeOK
<1>1. CASE WriteManifest(h) /\ ManifestInv
  <2>1. pc[h] = "manifest" /\ manifests' = [manifests EXCEPT ![e.stream.stream_id] = e]
    BY <1>1 DEF WriteManifest
  <2>2. IsFinal(e)
    BY <1>1, <2>1 DEF ManifestInv, ThreadVerified
  <2>3. e.stream.stream_id \in StreamId
    BY <2>2, EventAssumption DEF IsFinal
  <2> QED
    BY <1>t, <2>1, <2>3 DEF HasManifest
<1>2. CASE WriteEvent(h) /\ pc'[h] # "manifest"
  <2>1. pc'[h] = IF IsFinal(e) THEN "manifest" ELSE "state"
    BY <1>t, <1>2 DEF WriteEvent, Goto
  <2> QED
    BY <1>2, <2>1 DEF HasManifest, IsFinal
<1> QED
  BY <1>1, <1>2

(***************************************************************************)
(* Ingest keeps the invariant: event file and manifest are written by one  *)
(* thread in one hold of the lock.                                         *)
(***************************************************************************)
LEMMA IngestNamedInv ==
    ASSUME TypedControl, StoreInv, ManifestInv, NamedInv, NEW h \in Handler, Ingest(h)
    PROVE  NamedInv'
<1>p. PICK e \in Event : request[h].event = e
  BY DEF Ingest, RefuseLegacy, FindBinding, BindSource, RefusePeer,
         AnswerStored, RefuseChain, RefuseStream, Admit, WriteArtifact,
         WriteEvent, WriteManifest, WriteState, TypedControl, Control, Request
<1>t. /\ events \subseteq Event /\ acked \subseteq Event
      /\ pc \in [Handler -> Locked \cup {"idle", "waiting", "reply"}]
      /\ status \in [Handler -> Status]
  BY DEF TypedControl, TypeOK
<1>0. /\ request[h] \in Request /\ pc[h] \in Locked
      /\ status[h] = "none" /\ UNCHANGED <<request, acked>>
      /\ \A g \in Handler \ {h} :
            pc'[g] = pc[g] /\ status'[g] = status[g] /\ pc[g] \notin Locked
  BY DEF Ingest, RefuseLegacy, FindBinding, BindSource, RefusePeer,
         AnswerStored, RefuseChain, RefuseStream, Admit, WriteArtifact,
         WriteEvent, WriteManifest, WriteState, TypedControl, TypeOK, Control,
         Request, Locked, Answer, Goto
<1>1. \A f \in events \ LegacyEvent : HasManifest(f) \/ (f = e /\ pc[h] = "manifest")
  BY <1>0, <1>p DEF NamedInv, BeingNamed, Locked
<1>2. \A f \in Event : HasManifest(f) => HasManifest(f)'
  BY IngestHasManifest
<1>3. ASSUME NEW f \in events' \ LegacyEvent PROVE HasManifest(f)' \/ BeingNamed(f)'
  <2>1. CASE WriteEvent(h)
    <3>1. events' = events \cup {e} /\ pc[h] = "event"
      BY <1>p, <2>1 DEF WriteEvent
    <3>2. CASE f = e /\ pc'[h] = "manifest"
      BY <1>0, <1>p, <3>2 DEF BeingNamed
    <3>3. CASE f = e /\ pc'[h] # "manifest"
      BY <1>p, <2>1, <3>3, WrittenHasManifest
    <3>4. CASE f # e
      BY <1>1, <1>2, <1>t, <3>1, <3>4
    <3> QED
      BY <3>2, <3>3, <3>4
  <2>2. CASE WriteManifest(h)
    <3>1. events' = events /\ HasManifest(e)'
      BY <1>p, <2>2, WrittenHasManifest DEF WriteManifest
    <3> QED
      BY <1>1, <1>2, <1>t, <3>1
  <2>3. CASE pc[h] \notin {"event", "manifest"}
    <3>1. events' = events
      BY <2>3 DEF Ingest, RefuseLegacy, FindBinding, BindSource, RefusePeer,
         AnswerStored, RefuseChain, RefuseStream, Admit, WriteArtifact,
         WriteEvent, WriteManifest, WriteState, disk
    <3> QED
      BY <1>1, <1>2, <1>t, <2>3, <3>1
  <2> QED
    BY <2>1, <2>2, <2>3
    DEF Ingest, RefuseLegacy, FindBinding, BindSource, RefusePeer,
        AnswerStored, RefuseChain, RefuseStream, Admit, WriteArtifact, WriteState
<1>4. ASSUME status'[h] \in Positive PROVE HasManifest(e)'
  <2>1. CASE AnswerStored(h) \/ WriteState(h)
    <3>1. /\ pc[h] \in {"check", "state"} /\ OwnerCalls(h) /\ e \in events
      BY <1>p, <2>1
      DEF AnswerStored, WriteState, StoreInv, ThreadInv, ThreadKnows, Locked
    <3>2. e \notin LegacyEvent
      BY <1>0, <1>p, <3>1 DEF OwnerCalls, StoreInv, DiskInv, LegacyBlocked, Request
    <3> QED
      BY <1>1, <1>2, <3>1, <3>2
  <2>2. CASE ~AnswerStored(h) /\ ~WriteState(h)
    BY <1>0, <1>t, <1>4, <2>2
    DEF Ingest, RefuseLegacy, FindBinding, BindSource, RefusePeer, RefuseChain,
        RefuseStream, Admit, WriteArtifact, WriteEvent, WriteManifest, Answer,
        Goto, Positive
  <2> QED
    BY <2>1, <2>2
<1>5. ASSUME NEW g \in Handler, status'[g] \in Positive
      PROVE  HasManifest(request[g].event)'
  <2>1. PICK f \in Event : request[g].event = f
    BY <1>0, <1>5, <1>p DEF TypedControl, Control, Request, Positive
  <2>2. HasManifest(f)'
    <3>1. CASE g = h
      BY <1>4, <1>5, <1>p, <2>1, <3>1
    <3>2. CASE g # h
      <4>1. status[g] \in Positive
        BY <1>0, <1>5, <3>2
      <4>2. HasManifest(request[g].event)
        BY <4>1 DEF NamedInv
      <4>3. HasManifest(f)
        BY <2>1, <4>2
      <4> QED
        BY <1>2, <4>3
    <3> QED
      BY <3>1, <3>2
  <2> QED
    BY <1>0, <2>1, <2>2 DEF HasManifest, IsFinal
<1>6. ASSUME NEW f \in acked' PROVE HasManifest(f)'
  BY <1>0, <1>2, <1>t DEF NamedInv
<1> QED
  BY <1>3, <1>5, <1>6 DEF NamedInv

(***************************************************************************)
(* Every step that is no fault keeps it.                                   *)
(***************************************************************************)
LEMMA NextNamedInv ==
    ASSUME TypedControl, StoreInv, ManifestInv, NamedInv, [Next]_vars, faults' = 0
    PROVE  NamedInv'
<1> USE DEF NamedInv, HasManifest, IsFinal, BeingNamed, Positive
<1>t. /\ pc \in [Handler -> Locked \cup {"idle", "waiting", "reply"}]
      /\ status \in [Handler -> Status]
      /\ request \in [Handler -> Request \cup {NoRequest}]
  BY DEF TypedControl, TypeOK
<1>c. \A h \in Handler : pc[h] # "reply" => status[h] = "none"
  BY DEF TypedControl, Control
<1>1. ASSUME NEW h \in Handler, NEW e \in Event, NEW c \in Cert, Receive(h, e, c)
      PROVE  NamedInv'
  BY <1>1, <1>t, <1>c DEF Receive, disk
<1>2. ASSUME NEW h \in Handler, Acquire(h) PROVE NamedInv'
  BY <1>2, <1>t, <1>c DEF Acquire, disk
<1>3. ASSUME NEW h \in Handler, Ingest(h) PROVE NamedInv'
  BY <1>3, IngestNamedInv
<1>4. ASSUME NEW h \in Handler, Reply(h) PROVE NamedInv'
  <2>1. /\ pc[h] = "reply" /\ pc' = [pc EXCEPT ![h] = "idle"]
        /\ request' = [request EXCEPT ![h] = NoRequest]
        /\ status' = [status EXCEPT ![h] = "none"]
        /\ UNCHANGED <<events, manifests>>
    BY <1>4 DEF Reply, Idle, disk
  <2>2. \A e \in events \ LegacyEvent : HasManifest(e)' \/ BeingNamed(e)'
    BY <2>1, <1>t
  <2>3. \A g \in Handler : status'[g] \in Positive => HasManifest(request[g].event)'
    BY <2>1, <1>t
  <2>4. ASSUME NEW e \in acked' PROVE HasManifest(e)'
    BY <1>4, <2>1 DEF Reply
  <2> QED
    BY <2>1, <2>2, <2>3, <2>4
<1>5. ASSUME NEW h \in Handler, LoseReply(h) PROVE NamedInv'
  BY <1>5, <1>t DEF LoseReply, Idle, disk
<1>6. ~Crash /\ \A h \in Handler : ~IOError(h)
  BY FaultsOnlyGrow
<1>7. CASE UNCHANGED vars
  BY <1>7 DEF vars, disk, threads
<1> QED
  BY <1>1, <1>2, <1>3, <1>4, <1>5, <1>6, <1>7 DEF Next

(***************************************************************************)
(* Lines 164-181: as long as nothing crashes and no write fails, a client  *)
(* that has the answer to a final chunk has the manifest of its output,    *)
(* first answer or replay.                                                 *)
(***************************************************************************)
THEOREM ReliableFinalsHaveManifests == Spec => []ManifestUntilFault
<1>1. Init => (faults = 0 => NamedInv)
  BY DEF Init, NamedInv, Positive
<1>2. /\ TypedControl /\ StoreInv /\ ManifestInv
      /\ (faults = 0 => NamedInv) /\ [Next]_vars
      => (faults = 0 => NamedInv)'
  BY NextNamedInv, FaultsOnlyGrow
<1>3. (faults = 0 => NamedInv) => ManifestUntilFault
  BY DEF NamedInv, HasManifest, ManifestUntilFault
<1> QED
  BY <1>1, <1>2, <1>3, StoreCorrect, ManifestCorrect, PTL DEF Spec
=============================================================================
