--------------------------- MODULE CollectorStore ---------------------------
(***************************************************************************)
(* central_collector.py: the collector's durable store and the HTTP        *)
(* handler threads that call CollectorStore.ingest.                        *)
(*                                                                         *)
(* The store is four directories.  Every file is written by _atomic_write  *)
(* (temporary file, fsync, os.replace), so a file is either the old one or *)
(* the new one, and each write is one action here; a crash or an OSError   *)
(* can fall between any two of them.  All threads serialise on one lock.   *)
(*                                                                         *)
(* An event file is named by event_id, the SHA-256 of the canonical event, *)
(* so it is identified with the event it holds, and an artifact, pinned by *)
(* the digest in the event, with that event too.                           *)
(***************************************************************************)
EXTENDS Naturals, Sequences

CONSTANTS Source,        \* source_id values
          Cert,          \* SHA-256 fingerprints of client certificates
          Handler,       \* server threads
          Event,         \* validated canonical events clients may post
          StreamId,      \* stream_id values of multi-chunk outputs
          LegacySource,  \* sources whose state.json predates certificate binding
          LegacyEvent,   \* event files left by a collector without source state
          MaxFaults,     \* bound on crashes and I/O errors in one behaviour
          Genesis, NoFile, Unbound, NoStream, NoManifest, NoHandler, NoRequest

Hash == {e.event_hash : e \in Event}

(***************************************************************************)
(* An event carries a source, a positive sequence, the hash of its         *)
(* predecessor and, when it is a chunk of an output, the stream it belongs *)
(* to.  whole stands for stream_digest and stream_byte_length.  Hashes are *)
(* collision free.                                                         *)
(***************************************************************************)
ASSUME EventAssumption ==
    /\ \A e \in Event :
          /\ e.source_id \in Source
          /\ e.sequence \in Nat \ {0}
          /\ \/ e.stream = NoStream
             \/ /\ e.stream.stream_id \in StreamId
                /\ e.stream.chunk_count \in Nat
                /\ e.stream.chunk_index \in 0 .. e.stream.chunk_count - 1
    /\ \A e, f \in Event : e.event_hash = f.event_hash => e = f

ASSUME ConstantAssumption ==
    /\ LegacySource \subseteq Source
    /\ LegacyEvent \subseteq Event
    /\ MaxFaults \in Nat
    /\ Genesis \notin Hash
    /\ NoFile \notin Cert /\ Unbound \notin Cert /\ NoFile # Unbound
    /\ NoManifest \notin Event
    /\ NoHandler \notin Handler
    /\ NoRequest \notin [event : Event, peer : Cert]

VARIABLES state,      \* sources/<s>/state.json
          artifacts,  \* events whose artifact file exists
          events,     \* events whose event file exists
          manifests,  \* manifests[i]: the final event the manifest of stream i names
          lock,       \* CollectorStore._lock
          pc,         \* where each handler thread is in do_POST and ingest
          request,    \* the event and peer certificate it serves
          status,     \* the answer it is about to send
          ledger,     \* history: the events each state.json has named as head
          acked,      \* history: events a client has a 200 or 201 for
          faults      \* crashes and I/O errors so far

disk == <<state, artifacts, events, manifests, ledger>>
threads == <<lock, pc, request, status>>
vars == <<disk, threads, acked, faults>>

Request == [event : Event, peer : Cert]
State == [sequence : Nat, event_hash : Hash \cup {Genesis},
          peer : Cert \cup {NoFile, Unbound}]
Locked == {"open", "check", "artifact", "event", "manifest", "state"}
Status == {"none", "accepted", "replayed", "bad_stream", "other_cert",
           "legacy", "collision", "mismatch"}
Positive == {"accepted", "replayed"}

IsFinal(e) ==
    e.stream # NoStream /\ e.stream.chunk_index = e.stream.chunk_count - 1

\* Mutant of ChunksOf: looks only among the chunks of the same source.
ChunksOfSource(e) ==
    {f \in events : /\ f.source_id = e.source_id
                    /\ f.stream # NoStream /\ f.stream.stream_id = e.stream.stream_id}

(***************************************************************************)
(* _verify_final_stream: the stored chunks of e's stream and e itself have *)
(* distinct indexes 0 .. chunk_count-1, their artifacts are there, they    *)
(* agree on source, endpoint and stream metadata, and their outputs in     *)
(* order are what the stream commits to.                                   *)
(***************************************************************************)
ChunksOf(e) ==
    {f \in events : f.stream # NoStream /\ f.stream.stream_id = e.stream.stream_id}

Assembled(chunks, count) ==
    [i \in 1 .. count |->
        (CHOOSE f \in chunks : f.stream.chunk_index = i - 1).output]

\* Mutant of StreamVerified: counts the indexes, compares nothing else.
StreamCounted(e) ==
    LET chunks == ChunksOf(e) \cup {e} IN
    {f.stream.chunk_index : f \in chunks} = 0 .. e.stream.chunk_count - 1

StreamVerified(e) ==
    LET stored == ChunksOf(e)
        chunks == stored \cup {e}
    IN  /\ stored \subseteq artifacts
        /\ \A f, g \in chunks :
              f.stream.chunk_index = g.stream.chunk_index => f = g
        /\ {f.stream.chunk_index : f \in chunks} = 0 .. e.stream.chunk_count - 1
        /\ \A f \in chunks :
              /\ f.source_id = e.source_id
              /\ f.endpoint_id = e.endpoint_id
              /\ f.stream.chunk_count = e.stream.chunk_count
              /\ f.stream.whole = e.stream.whole
        /\ Assembled(chunks, e.stream.chunk_count) = e.stream.whole

-----------------------------------------------------------------------------
(***************************************************************************)
(* A store directory is empty or was left by a collector that did not bind *)
(* sources: state files without a fingerprint, event files without state.  *)
(***************************************************************************)
Init ==
    /\ state = [s \in Source |->
                  [sequence |-> 0, event_hash |-> Genesis,
                   peer |-> IF s \in LegacySource THEN Unbound ELSE NoFile]]
    /\ artifacts = LegacyEvent
    /\ events = LegacyEvent
    /\ manifests = [i \in StreamId |-> NoManifest]
    /\ lock = NoHandler
    /\ pc = [h \in Handler |-> "idle"]
    /\ request = [h \in Handler |-> NoRequest]
    /\ status = [h \in Handler |-> "none"]
    /\ ledger = [s \in Source |-> <<>>]
    /\ acked = {}
    /\ faults = 0

(***************************************************************************)
(* do_POST accepts a connection with client certificate c and a body that  *)
(* validate_attachment_request accepts as event e.  (A body it rejects is  *)
(* answered 400 and touches nothing.)                                      *)
(***************************************************************************)
Receive(h, e, c) ==
    /\ pc[h] = "idle"
    /\ pc' = [pc EXCEPT ![h] = "waiting"]
    /\ request' = [request EXCEPT ![h] = [event |-> e, peer |-> c]]
    /\ UNCHANGED <<disk, lock, status, acked, faults>>

Acquire(h) ==
    /\ pc[h] = "waiting"
    /\ lock = NoHandler
    /\ lock' = h
    /\ pc' = [pc EXCEPT ![h] = "open"]
    /\ UNCHANGED <<disk, request, status, acked, faults>>

Goto(h, label) ==
    /\ pc' = [pc EXCEPT ![h] = label]
    /\ UNCHANGED <<lock, request, status, acked, faults>>

(***************************************************************************)
(* ingest returns: the with block gives the lock back, do_POST replies.    *)
(***************************************************************************)
Answer(h, answer) ==
    /\ pc' = [pc EXCEPT ![h] = "reply"]
    /\ status' = [status EXCEPT ![h] = answer]
    /\ lock' = NoHandler
    /\ UNCHANGED <<request, acked, faults>>

-----------------------------------------------------------------------------
(***************************************************************************)
(* Lines 137-151: find the source's binding, or make it.                   *)
(***************************************************************************)
HasOrphanEvents(s) == \E f \in events : f.source_id = s

RefuseLegacy(h) ==
    LET s == request[h].event.source_id IN
    /\ pc[h] = "open"
    /\ \/ state[s].peer = Unbound
       \/ state[s].peer = NoFile /\ HasOrphanEvents(s)
    /\ Answer(h, "legacy")
    /\ UNCHANGED disk

FindBinding(h) ==
    LET s == request[h].event.source_id IN
    /\ pc[h] = "open"
    /\ state[s].peer \in Cert
    /\ Goto(h, "check")
    /\ UNCHANGED disk

\* Mutant of BindSource: binds although events of the source exist.
BindOrphaned(h) ==
    LET s == request[h].event.source_id IN
    /\ pc[h] = "open"
    /\ state[s].peer = NoFile
    /\ state' = [state EXCEPT ![s] = [sequence |-> 0, event_hash |-> Genesis,
                                      peer |-> request[h].peer]]
    /\ Goto(h, "check")
    /\ UNCHANGED <<artifacts, events, manifests, ledger>>

\* Mutant of BindSource: binds a bound source again.
BindAgain(h) ==
    LET s == request[h].event.source_id IN
    /\ pc[h] = "open"
    /\ state[s].peer # Unbound
    /\ state' = [state EXCEPT ![s] = [sequence |-> 0, event_hash |-> Genesis,
                                      peer |-> request[h].peer]]
    /\ Goto(h, "check")
    /\ UNCHANGED <<artifacts, events, manifests, ledger>>

BindSource(h) ==
    LET s == request[h].event.source_id IN
    /\ pc[h] = "open"
    /\ state[s].peer = NoFile
    /\ ~HasOrphanEvents(s)
    /\ state' = [state EXCEPT ![s] = [sequence |-> 0, event_hash |-> Genesis,
                                      peer |-> request[h].peer]]
    /\ Goto(h, "check")
    /\ UNCHANGED <<artifacts, events, manifests, ledger>>

\* Mutant of OwnerCalls: any certificate will do.
AnyoneCalls(h) == request[h].peer \in Cert

(***************************************************************************)
(* Lines 152-165: certificate, replay, chain and stream, in this order.    *)
(***************************************************************************)
OwnerCalls(h) == request[h].peer = state[request[h].event.source_id].peer

RefusePeer(h) ==
    /\ pc[h] = "check"
    /\ ~OwnerCalls(h)
    /\ Answer(h, "other_cert")
    /\ UNCHANGED disk

\* Mutant of AnswerStored: recognises replays before it looks at the certificate.
AnswerStoredToAnyone(h) ==
    LET e == request[h].event IN
    /\ pc[h] = "check"
    /\ e \in events
    /\ Answer(h, IF e \in artifacts THEN "replayed" ELSE "collision")
    /\ UNCHANGED disk

AnswerStored(h) ==
    LET e == request[h].event IN
    /\ pc[h] = "check"
    /\ OwnerCalls(h)
    /\ e \in events
    /\ Answer(h, IF e \in artifacts THEN "replayed" ELSE "collision")
    /\ UNCHANGED disk

\* Mutant of NextInChain: does not compare the hashes.
NextInSequence(e) == e.sequence = state[e.source_id].sequence + 1

NextInChain(e) ==
    /\ e.sequence = state[e.source_id].sequence + 1
    /\ e.previous_event_hash = state[e.source_id].event_hash

RefuseChain(h) ==
    LET e == request[h].event IN
    /\ pc[h] = "check"
    /\ OwnerCalls(h)
    /\ e \notin events
    /\ ~NextInChain(e)
    /\ Answer(h, "mismatch")
    /\ UNCHANGED disk

RefuseStream(h) ==
    LET e == request[h].event IN
    /\ pc[h] = "check"
    /\ OwnerCalls(h)
    /\ e \notin events
    /\ NextInChain(e)
    /\ IsFinal(e) /\ ~StreamVerified(e)
    /\ Answer(h, "bad_stream")
    /\ UNCHANGED disk

Admit(h) ==
    LET e == request[h].event IN
    /\ pc[h] = "check"
    /\ OwnerCalls(h)
    /\ e \notin events
    /\ NextInChain(e)
    /\ IsFinal(e) => StreamVerified(e)
    /\ Goto(h, "artifact")
    /\ UNCHANGED disk

\* Mutant of WriteArtifact: goes on to the state file, the event is not written.
WriteArtifactOnly(h) ==
    /\ pc[h] = "artifact"
    /\ artifacts' = artifacts \cup {request[h].event}
    /\ Goto(h, "state")
    /\ UNCHANGED <<state, events, manifests, ledger>>

(***************************************************************************)
(* Lines 166-181: the writes of an admitted event, one file at a time.     *)
(***************************************************************************)
WriteArtifact(h) ==
    /\ pc[h] = "artifact"
    /\ artifacts' = artifacts \cup {request[h].event}
    /\ Goto(h, "event")
    /\ UNCHANGED <<state, events, manifests, ledger>>

\* Mutant of WriteEvent: no manifest for the final chunk.
WriteEventOnly(h) ==
    /\ pc[h] = "event"
    /\ events' = events \cup {request[h].event}
    /\ Goto(h, "state")
    /\ UNCHANGED <<state, artifacts, manifests, ledger>>

\* Mutant of WriteEvent: answers before the state file is written.
WriteEventAndAnswer(h) ==
    /\ pc[h] = "event"
    /\ events' = events \cup {request[h].event}
    /\ Answer(h, "accepted")
    /\ UNCHANGED <<state, artifacts, manifests, ledger>>

WriteEvent(h) ==
    LET e == request[h].event IN
    /\ pc[h] = "event"
    /\ events' = events \cup {e}
    /\ Goto(h, IF IsFinal(e) THEN "manifest" ELSE "state")
    /\ UNCHANGED <<state, artifacts, manifests, ledger>>

WriteManifest(h) ==
    LET e == request[h].event IN
    /\ pc[h] = "manifest"
    /\ manifests' = [manifests EXCEPT ![e.stream.stream_id] = e]
    /\ Goto(h, "state")
    /\ UNCHANGED <<state, artifacts, events, ledger>>

\* Mutant of WriteState: the new state file has no fingerprint.
WriteStateUnbound(h) ==
    LET e == request[h].event
        s == e.source_id
    IN  /\ pc[h] = "state"
        /\ state' = [state EXCEPT ![s] = [sequence |-> e.sequence,
                                          event_hash |-> e.event_hash]]
        /\ ledger' = [ledger EXCEPT ![s] = Append(@, e)]
        /\ Answer(h, "accepted")
        /\ UNCHANGED <<artifacts, events, manifests>>

WriteState(h) ==
    LET e == request[h].event
        s == e.source_id
    IN  /\ pc[h] = "state"
        /\ state' = [state EXCEPT ![s] = [sequence |-> e.sequence,
                                          event_hash |-> e.event_hash,
                                          peer |-> request[h].peer]]
        /\ ledger' = [ledger EXCEPT ![s] = Append(@, e)]
        /\ Answer(h, "accepted")
        /\ UNCHANGED <<artifacts, events, manifests>>

-----------------------------------------------------------------------------
(***************************************************************************)
(* The thread is done with its request: the client reads the answer, or    *)
(* the connection is gone by then.                                         *)
(***************************************************************************)
Idle(h) ==
    /\ pc' = [pc EXCEPT ![h] = "idle"]
    /\ request' = [request EXCEPT ![h] = NoRequest]
    /\ status' = [status EXCEPT ![h] = "none"]

Reply(h) ==
    /\ pc[h] = "reply"
    /\ Idle(h)
    /\ acked' = IF status[h] \in Positive
                THEN acked \cup {request[h].event} ELSE acked
    /\ UNCHANGED <<disk, lock, faults>>

LoseReply(h) ==
    /\ pc[h] = "reply"
    /\ Idle(h)
    /\ UNCHANGED <<disk, lock, acked, faults>>

\* Mutant of IOError: the exception skips the release of the lock.
IOErrorKeepsLock(h) ==
    /\ faults < MaxFaults
    /\ faults' = faults + 1
    /\ pc[h] \in Locked
    /\ Idle(h)
    /\ UNCHANGED <<disk, lock, acked>>

(***************************************************************************)
(* An OSError inside ingest: the with block releases the lock, do_POST     *)
(* does not catch it and the connection is dropped without an answer.      *)
(***************************************************************************)
IOError(h) ==
    /\ faults < MaxFaults
    /\ faults' = faults + 1
    /\ pc[h] \in Locked
    /\ lock' = NoHandler
    /\ Idle(h)
    /\ UNCHANGED <<disk, acked>>

(***************************************************************************)
(* The collector process dies and is started again on the same directory.  *)
(***************************************************************************)
Crash ==
    /\ faults < MaxFaults
    /\ faults' = faults + 1
    /\ lock' = NoHandler
    /\ pc' = [h \in Handler |-> "idle"]
    /\ request' = [h \in Handler |-> NoRequest]
    /\ status' = [h \in Handler |-> "none"]
    /\ UNCHANGED <<disk, acked>>

Ingest(h) ==
    \/ RefuseLegacy(h) \/ FindBinding(h) \/ BindSource(h)
    \/ RefusePeer(h) \/ AnswerStored(h) \/ RefuseChain(h)
    \/ RefuseStream(h) \/ Admit(h)
    \/ WriteArtifact(h) \/ WriteEvent(h) \/ WriteManifest(h) \/ WriteState(h)

Next ==
    \/ \E h \in Handler :
          \/ \E e \in Event, c \in Cert : Receive(h, e, c)
          \/ Acquire(h) \/ Ingest(h)
          \/ Reply(h) \/ LoseReply(h) \/ IOError(h)
    \/ Crash

Spec == Init /\ [][Next]_vars

(***************************************************************************)
(* A thread that holds the lock keeps running: nothing in ingest waits.    *)
(***************************************************************************)
FairSpec == Spec /\ \A h \in Handler : WF_vars(Ingest(h))

-----------------------------------------------------------------------------
TypeOK ==
    /\ state \in [Source -> State]
    /\ artifacts \subseteq Event
    /\ events \subseteq Event
    /\ manifests \in [StreamId -> Event \cup {NoManifest}]
    /\ lock \in Handler \cup {NoHandler}
    /\ pc \in [Handler -> Locked \cup {"idle", "waiting", "reply"}]
    /\ request \in [Handler -> Request \cup {NoRequest}]
    /\ status \in [Handler -> Status]
    /\ ledger \in [Source -> Seq(Event)]
    /\ acked \subseteq Event
    /\ faults \in 0 .. MaxFaults

Entries(s) == {ledger[s][i] : i \in DOMAIN ledger[s]}

(***************************************************************************)
(* state.json is a faithful summary of everything accepted from the source *)
(* (number of entries, hash of the last), and an unbound source has none.  *)
(***************************************************************************)
StateSummarisesLedger ==
    \A s \in Source :
        LET n == Len(ledger[s]) IN
        /\ state[s].sequence = n
        /\ state[s].event_hash = IF n = 0 THEN Genesis ELSE ledger[s][n].event_hash
        /\ n > 0 => state[s].peer \in Cert

(***************************************************************************)
(* Lines 161-167: whatever crash or retry comes in between, every event    *)
(* file the collector writes is a link of the accepted chain of its source *)
(* or a candidate for its next link; it names its true predecessor.        *)
(***************************************************************************)
StoredExtendsLedger ==
    \A e \in events \ LegacyEvent :
        LET s == e.source_id IN
        /\ e.sequence <= Len(ledger[s]) + 1
        /\ e.previous_event_hash =
              IF e.sequence = 1 THEN Genesis
              ELSE ledger[s][e.sequence - 1].event_hash

(***************************************************************************)
(* A positive answer is worth something: the event and its artifact are on *)
(* disk, and so is every event of the chain it extends.                    *)
(***************************************************************************)
AckedIsDurable ==
    \A e \in acked :
        /\ e \in events \cap artifacts
        /\ \A i \in 1 .. e.sequence - 1 :
              /\ i \in DOMAIN ledger[e.source_id]
              /\ ledger[e.source_id][i] \in events \cap artifacts

(***************************************************************************)
(* Lines 148-151: no evidence file of a source exists before the source    *)
(* is bound, so no crash leaves evidence another certificate can claim.    *)
(***************************************************************************)
BindingPrecedesEvidence ==
    \A e \in (artifacts \cup events) \ LegacyEvent : state[e.source_id].peer \in Cert

(***************************************************************************)
(* Lines 139-147: a source with legacy state or legacy events stays        *)
(* blocked for migration: nobody is bound to it, nothing is added to it.   *)
(***************************************************************************)
LegacyStaysBlocked ==
    \A s \in LegacySource \cup {e.source_id : e \in LegacyEvent} :
        /\ state[s].peer \notin Cert
        /\ ledger[s] = <<>>
        /\ \A e \in events \cup artifacts : e.source_id = s => e \in LegacyEvent

(***************************************************************************)
(* Lines 152-154: a thread writes for, or confirms an event to, only the   *)
(* certificate the source is bound to when it does so.                     *)
(***************************************************************************)
OnlyOwnerServed ==
    \A h \in Handler :
        pc[h] \in Locked \ {"open", "check"} \/ status[h] \in Positive
        => request[h].peer = state[request[h].event.source_id].peer

(***************************************************************************)
(* Line 161: the "event ID collision" answer is dead code: since the       *)
(* artifact is written first, an event file always has its artifact.       *)
(***************************************************************************)
NoCollisionAnswer == \A h \in Handler : status[h] # "collision"

(***************************************************************************)
(* The three together: an unforked chain per source, known from state.json *)
(* and the files alone.                                                    *)
(***************************************************************************)
ChainIsSound == StateSummarisesLedger /\ StoredExtendsLedger /\ NoCollisionAnswer

(***************************************************************************)
(* A source's evidence belongs to one certificate, before and after it is  *)
(* on disk.                                                                *)
(***************************************************************************)
SourcesAreOwned == BindingPrecedesEvidence /\ OnlyOwnerServed

(***************************************************************************)
(* Lines 164-174: a manifest names a stored final chunk whose stream is    *)
(* complete on disk, of one source, and assembles to what it declares.     *)
(***************************************************************************)
ManifestIsComplete ==
    \A i \in StreamId : manifests[i] # NoManifest =>
        LET e == manifests[i]
            parts(k) == {f \in events : /\ f.stream # NoStream
                                        /\ f.stream.stream_id = i
                                        /\ f.stream.chunk_index = k}
        IN  /\ e \in events
            /\ \A k \in 0 .. e.stream.chunk_count - 1 :
                  \E f \in parts(k) \cap artifacts :
                      /\ f.source_id = e.source_id
                      /\ f.stream.whole = e.stream.whole
                      /\ f.output = e.stream.whole[k + 1]

(***************************************************************************)
(* docs/central-collector.md: monotonic links per source, and a replay     *)
(* gets the same answer.  Every acknowledged event is an entry of its      *)
(* source's chain.                                                         *)
(***************************************************************************)
AckedIsLinked == \A e \in acked : e \in Entries(e.source_id)

(***************************************************************************)
(* Until the first fault every acknowledged event is linked, and no two of *)
(* a source share a sequence number, however handlers interleave.          *)
(***************************************************************************)
LinkedUntilFault ==
    faults = 0 =>
        /\ AckedIsLinked
        /\ \A e, f \in acked :
              e.source_id = f.source_id /\ e.sequence = f.sequence => e = f

(***************************************************************************)
(* Until the first fault an acknowledged final chunk has its manifest.     *)
(***************************************************************************)
ManifestUntilFault ==
    faults = 0 => \A e \in acked : IsFinal(e) => manifests[e.stream.stream_id] = e

(***************************************************************************)
(* A binding, legacy or not, is never taken back or given to another, and  *)
(* the head of a source only moves to a stored successor of the old head.  *)
(***************************************************************************)
StateOnlyAdvances ==
    [][\A s \in Source :
          \/ state'[s] = state[s]
          \/ state[s].peer = NoFile /\ state'[s].peer \in Cert
             /\ state'[s].sequence = 0
          \/ /\ state[s].peer \in Cert /\ state'[s].peer = state[s].peer
             /\ state'[s].sequence = state[s].sequence + 1
             /\ \E e \in events \cap artifacts :
                   /\ e.event_hash = state'[s].event_hash
                   /\ e.previous_event_hash = state[s].event_hash]_state

(***************************************************************************)
(* The manifest of a stream is written once: no later final chunk, of this *)
(* or another source, replaces it.                                         *)
(***************************************************************************)
ManifestIsFinal ==
    [][\A i \in StreamId :
          manifests[i] # NoManifest => manifests'[i] = manifests[i]]_manifests

(***************************************************************************)
(* Whatever ingest meets, it gives the lock back.                          *)
(***************************************************************************)
LockIsReleased == lock # NoHandler ~> lock = NoHandler

(***************************************************************************)
(* The store implements the abstract ledger; until the first fault every   *)
(* step is also the abstract one with regard to acknowledgements.          *)
(***************************************************************************)
owners == [s \in Source |-> state[s].peer]
Ledger == INSTANCE SourceLedger WITH owner <- owners

LedgerImplemented == Ledger!LedgerSpec
AcksImplementedUntilFault ==
    [][faults' = 0 => Ledger!Next \/ UNCHANGED <<owners, ledger, acked>>]_vars
=============================================================================
