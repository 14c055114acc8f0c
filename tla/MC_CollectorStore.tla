-------------------------- MODULE MC_CollectorStore --------------------------
(***************************************************************************)
(* Instances of CollectorStore for TLC.  Their events are given by hand,   *)
(* with short names for hashes; that producers make such events and that   *)
(* validate_attachment_request accepts these requests and no garbled one   *)
(* is checked against EvidenceProtocol by the assumptions at the end.      *)
(***************************************************************************)
EXTENDS CollectorStore, EvidenceProtocol, FiniteSets, SequencesExt, TLC

CONSTANTS c1, c2, h1, h2, genesis, noStream

(***************************************************************************)
(* The events as CollectorStore has them, with short names for hashes.     *)
(*                                                                         *)
(* One source whose producer may fork (b1 competes with a1), and whose     *)
(* second output is a stream of two chunks, a2 and a3.  Two other final    *)
(* chunks compete with a3: y3 of the same output, x3 that commits to       *)
(* another one.                                                            *)
(***************************************************************************)
Ev(name, source, sequence, previous, stream, output) ==
    [event_hash |-> name, source_id |-> source, endpoint_id |-> "endpoint",
     sequence |-> sequence, previous_event_hash |-> previous,
     stream |-> stream, output |-> output]

Part(id, index, count, whole) ==
    [stream_id |-> id, chunk_index |-> index, chunk_count |-> count, whole |-> whole]

a1 == Ev("a1", "s1", 1, genesis, noStream, <<1>>)
b1 == Ev("b1", "s1", 1, genesis, noStream, <<2>>)
a2 == Ev("a2", "s1", 2, "a1", Part("S", 0, 2, <<<<1, 2>>, <<3>>>>), <<1, 2>>)
a3 == Ev("a3", "s1", 3, "a2", Part("S", 1, 2, <<<<1, 2>>, <<3>>>>), <<3>>)
x3 == Ev("x3", "s1", 3, "a2", Part("S", 1, 2, <<<<1, 2>>, <<4>>>>), <<3>>)
y3 == [a3 EXCEPT !.event_hash = "y3"]

OneSource == {"s1"}
ForkEvents == {a1, b1, a2, a3, x3, y3}

(***************************************************************************)
(* Several sources: t1 and t2 are the chunks of one stream, d1 of another  *)
(* source names the same stream; s3 has state without a fingerprint, s4    *)
(* has an event file without state; u1 comes from the Windows spool.       *)
(***************************************************************************)
t1 == Ev("t1", "s1", 1, genesis, Part("S", 0, 2, <<<<1, 2>>, <<3>>>>), <<1, 2>>)
t2 == Ev("t2", "s1", 2, "t1", Part("S", 1, 2, <<<<1, 2>>, <<3>>>>), <<3>>)
d1 == Ev("d1", "s2", 1, genesis, Part("S", 0, 1, <<<<9>>>>), <<9>>)
u1 == Ev("u1", "s3", 1, genesis, noStream, <<1>>)
o1 == Ev("o1", "s4", 1, genesis, noStream, <<1>>)
o2 == Ev("o2", "s4", 2, "o1", noStream, <<2>>)

FourSources == {"s1", "s2", "s3", "s4"}
MixedEvents == {t1, t2, d1, u1, o1, o2}
MixedLegacyEvents == {o1}
MixedLegacySources == {"s3"}

Nothing == {}
Streams == {"S"}
Handlers == Permutations({h1, h2})

-----------------------------------------------------------------------------
(***************************************************************************)
(* The requests clients make of them.                                      *)
(***************************************************************************)
Text(name) == [of |-> name, form |-> "lower"]
endpoint == Text("endpoint")
MCIdentifier ==
    {endpoint, Text("s1"), Text("s2"), Text("s3"), Text("s4"), WindowsSource(Text("w"))}
MCReference == {Text("reference"), Text("w")}
MCSummary == {"Windows controlled-launch output"}

Evidence(output) ==
    [kind |-> "command-observation", digest |-> Sha256(output), byte_length |-> Len(output),
     retention_reference |-> Text("reference"), classification |-> "restricted"]

Single(source, sequence, previous, evidence, output) ==
    AttachmentRequest(MakeEvent(endpoint, Text(source), sequence, previous, evidence), output)

Streamed(source, sequence, previous, output) ==
    OutputStream(endpoint, Text(source), sequence, previous, Evidence(output), output)

HashOf(v) == Canonical(v, endpoint).event_hash
Output(v) == v.output_base64.of

A1 == Single("s1", 1, None, Evidence(<<1>>), <<1>>)
B1 == Single("s1", 1, None, Evidence(<<2>>), <<2>>)
A == Streamed("s1", 2, HashOf(A1), <<1, 2, 3>>)
part == A[2].event.evidence
Y3 == Single("s1", 3, HashOf(A[1]), [part EXCEPT !.classification = "internal"], <<3>>)
X3 == Single("s1", 3, HashOf(A[1]), [part EXCEPT !.stream_digest = Sha256(<<1, 2, 4>>)], <<3>>)

T == Streamed("s1", 1, None, <<1, 2, 3>>)
D1 == Single("s2", 1, None,
             [Streamed("s2", 1, None, <<9>>)[1].event.evidence
                EXCEPT !.stream_id = T[1].event.evidence.stream_id], <<9>>)
raw == [schema |-> WindowsSchema, id |-> [of |-> "w", form |-> "upper"],
        kind |-> "controlled-launch", host |-> "host",
        output_sha256 |-> [of |-> <<1>>, form |-> "upper"], output_bytes |-> 1]
windows == [schema |-> WindowsSchema, event |-> raw, output_base64 |-> Base64(<<1>>),
            output_sha256 |-> Sha256(<<1>>)]
U1 == [windows EXCEPT !.event =
          raw @@ [source_id |-> Text("s3"), sequence |-> 1, previous_event_hash |-> None]]
O1 == Single("s4", 1, None, Evidence(<<1>>), <<1>>)
O2 == Single("s4", 2, HashOf(O1), Evidence(<<2>>), <<2>>)

ForkRequests == {A1, B1, A[1], A[2], X3, Y3}
MixedRequests == {T[1], T[2], D1, U1, O1, O2}

(***************************************************************************)
(* What the network or a faulty producer makes of A1: all of it is refused *)
(* before ingest takes the lock.                                           *)
(***************************************************************************)
Garbled ==
    {[A1 EXCEPT !.output_base64.of = <<2>>],
     [A1 EXCEPT !.output_base64.form = "text"],
     [A1 EXCEPT !.output_base64.of = <<2>>, !.output_sha256 = Sha256(<<2>>)],
     [A1 EXCEPT !.event.sequence = 2],
     [A1 EXCEPT !.event.previous_event_hash = Sha256(<<>>)],
     [A1 EXCEPT !.event.evidence.classification = "internal"],
     [A1 EXCEPT !.event.event_hash = HashOf(B1)],
     [A1 EXCEPT !.schema = WindowsSchema],
     [A[2] EXCEPT !.event.evidence.final = FALSE],
     Single("s1", 1, None, Evidence(<<1, 2, 3>>), <<1, 2, 3>>),
     Single("s1", 0, None, Evidence(<<1>>), <<1>>),
     Single("s1", 1, None, [Evidence(<<1>>) EXCEPT !.kind = "keystrokes"], <<1>>),
     Single("s1", 1, None, [Evidence(<<1>>) EXCEPT !.digest.form = "upper"], <<1>>),
     Single("s3", 3, None, [part EXCEPT !.chunk_index = 0], <<3>>),
     Single("s3", 3, None, [f \in DOMAIN part \ {"final"} |-> part[f]], <<3>>),
     [windows EXCEPT !.event.output_bytes = 2],
     [windows EXCEPT !.event = raw @@ [source_id |-> Text("s3")]],
     [U1 EXCEPT !.event.previous_event_hash = [of |-> <<>>, form |-> "upper"]]}

(***************************************************************************)
(* What ingest works on when a request is accepted: hashes by their names, *)
(* and for the digest of a stream the chunks it is the digest of.          *)
(***************************************************************************)
Ingested(v, Name(_)) ==
    LET event == Canonical(v, endpoint)
        evidence == event.evidence
    IN  [event_hash |-> Name(event.event_hash), source_id |-> event.source_id.of,
         endpoint_id |-> event.endpoint_id.of, sequence |-> event.sequence,
         previous_event_hash |->
            IF event.previous_event_hash = None THEN genesis
            ELSE Name(event.previous_event_hash),
         stream |->
            IF "stream_id" \notin DOMAIN evidence THEN noStream
            ELSE Part(Name(evidence.stream_id), evidence.chunk_index, evidence.chunk_count,
                      LET output == evidence.stream_digest.of IN
                      [n \in 1 .. ChunkCount(output) |-> Chunk(output, n - 1)]),
         output |-> Output(v)]

\* Equal to the given events, for some choice of names.
AreTheEvents(requests, posted, stream, names) ==
    LET Name(hash) ==
            IF hash = stream THEN "S"
            ELSE CHOOSE name \in DOMAIN names : HashOf(names[name]) = hash
    IN  {Ingested(v, Name) : v \in {r \in requests \cup Garbled : Accepted(r, endpoint)}}
            = posted

(***************************************************************************)
(* The events of the runs are what make_event and make_output_stream       *)
(* produce and validate_attachment_request accepts.                        *)
(***************************************************************************)
ASSUME EventsAreProduced ==
    /\ AreTheEvents(ForkRequests, ForkEvents, part.stream_id,
          [a1 |-> A1, b1 |-> B1, a2 |-> A[1], a3 |-> A[2], x3 |-> X3, y3 |-> Y3])
    /\ AreTheEvents(MixedRequests, MixedEvents, T[1].event.evidence.stream_id,
          [t1 |-> T[1], t2 |-> T[2], d1 |-> D1, u1 |-> U1, o1 |-> O1, o2 |-> O2])

(***************************************************************************)
(* make_output_stream against what receivers and replays check, for every  *)
(* output of up to five bytes: the chunks are the output, each is accepted *)
(* on its own, they are a chain, and only the last one is final.           *)
(***************************************************************************)
ASSUME StreamsAreAccepted ==
    \A n \in 1 .. 5 : \A output \in [1 .. n -> {0, 1}] :
        LET requests == Streamed("s1", 1, None, output)
            made == [i \in DOMAIN requests |-> requests[i].event]
        IN  /\ IsOutputStream(requests, endpoint, Text("s1"), 1, None, Evidence(output), output)
            /\ FlattenSeq([i \in DOMAIN requests |-> Output(requests[i])]) = output
            /\ \A i \in DOMAIN requests :
                  /\ Attachable(made[i], Output(requests[i]))
                  /\ Accepted(requests[i], endpoint)
                  /\ made[i].evidence.final <=> i = Len(requests)
            /\ ChainValid(made)
            /\ Len(made) > 1 => ~ChainValid(Tail(made))

(***************************************************************************)
(* A Windows record without a chain is the only event of its own source,   *)
(* the same one however a retry spells id and digests.                     *)
(***************************************************************************)
ASSUME WindowsRecordsAreCanonical ==
    LET respelled == [windows EXCEPT !.event.id.form = "lower",
                                     !.event.output_sha256.form = "lower",
                                     !.output_sha256.form = "upper"]
    IN  /\ Accepted(windows, endpoint) /\ Accepted(respelled, endpoint)
        /\ Canonical(windows, endpoint) = Canonical(respelled, endpoint)
        /\ ChainValid(<<Canonical(windows, endpoint)>>)

\* An evidence object that is incomplete and has an optional field is no
\* EvidenceProtocolError but a KeyError: the handler thread ends unanswered.
ASSUME IncompleteRaises ==
    LET complete == Evidence(<<1>>) @@ [summary |-> None] IN
    \A lost \in RequiredFields :
        LET v == [f \in DOMAIN complete \ {lost} |-> complete[f]] IN
        EvidenceRaises(v) /\ ~EvidenceValid(v)
=============================================================================
