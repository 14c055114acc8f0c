-------------------------- MODULE EvidenceProtocol --------------------------
(***************************************************************************)
(* redteam_evidence_protocol.py: what events, attachments and streams of   *)
(* chunks are, how producers make them and what a receiver accepts.        *)
(*                                                                         *)
(* A Python mapping is a record and its keys are the record's DOMAIN; what *)
(* a receiver is given may lack fields or have others.  canonical_json and *)
(* SHA-256 are taken together as an injection: a digest is a record of     *)
(* what it is the digest of and of its spelling, as are other texts whose  *)
(* spelling matters.  An output is a sequence of bytes.  Values have the   *)
(* types the code tests for.                                               *)
(***************************************************************************)
EXTENDS Integers, Sequences

CONSTANTS Identifier,       \* texts that _ID matches
          Reference,        \* retention references of 1 to 512 characters
          Summary,          \* summaries of at most 512 characters
          None,
          MaxArtifactBytes, \* MAX_ARTIFACT_BYTES, 48 * 1024
          MaxChunks,        \* 1_000_000
          MaxLength         \* 2**63 - 1

ASSUME ProtocolAssumption ==
    /\ MaxArtifactBytes \in Nat \ {0}
    /\ MaxChunks \in Nat \ {0}
    /\ MaxLength \in Nat

Protocol == "redteam-evidence/v1"
AttachmentSchema == "redteam-evidence/attachment/v1"
WindowsSchema == "redteam-evidence/windows/v1"
EvidenceKinds == {"command-observation", "session-boundary", "integrity-alert"}
Classifications == {"internal", "restricted"}

StreamFields == {"stream_id", "chunk_index", "chunk_count", "stream_digest",
                 "stream_byte_length", "final"}
RequiredFields == {"kind", "digest", "byte_length", "retention_reference", "classification"}
EvidenceFields == RequiredFields \cup StreamFields \cup {"summary"}
EventFields == {"protocol", "endpoint_id", "source_id", "sequence",
                "previous_event_hash", "evidence", "event_id", "event_hash"}
RequestFields == {"schema", "event", "output_base64", "output_sha256"}
ChainFields == {"source_id", "sequence", "previous_event_hash"}
WindowsRequired == {"schema", "id", "kind", "host", "output_sha256", "output_bytes"}
WindowsFields ==
    WindowsRequired \cup ChainFields \cup StreamFields \cup
    {"state", "started_utc", "ended_utc", "user", "file_path", "arguments",
     "exit_code", "output_path"}

Sha256(value) == [of |-> value, form |-> "lower"]
IsDigest(digest) == digest.form = "lower"
Lower(text) == IF text.form = "upper" THEN [text EXCEPT !.form = "lower"] ELSE text
Base64(output) == [of |-> output, form |-> "base64"]

-----------------------------------------------------------------------------
(***************************************************************************)
(* _evidence.                                                              *)
(***************************************************************************)
StreamValid(v) ==
    /\ IsDigest(v.stream_id) /\ IsDigest(v.stream_digest)
    /\ v.chunk_count \in 1 .. MaxChunks
    /\ v.chunk_index \in 0 .. v.chunk_count - 1
    /\ v.stream_byte_length >= v.byte_length
    /\ v.final = (v.chunk_index = v.chunk_count - 1)

AllOrNone(v, fields) == DOMAIN v \cap fields \in {{}, fields}

EvidenceValid(v) ==
    /\ DOMAIN v \subseteq EvidenceFields /\ RequiredFields \subseteq DOMAIN v
    /\ v.kind \in EvidenceKinds /\ v.classification \in Classifications
    /\ IsDigest(v.digest) /\ v.byte_length \in 0 .. MaxLength
    /\ v.retention_reference \in Reference
    /\ "summary" \in DOMAIN v => v.summary \in Summary \cup {None}
    /\ AllOrNone(v, StreamFields)
    /\ StreamFields \subseteq DOMAIN v => StreamValid(v)

(***************************************************************************)
(* set(value) < required is a test for proper subsets: a value that lacks  *)
(* one field and has an optional one passes it, and ends in a KeyError.    *)
(***************************************************************************)
EvidenceRaises(v) ==
    /\ DOMAIN v \subseteq EvidenceFields
    /\ ~(RequiredFields \subseteq DOMAIN v) /\ ~(DOMAIN v \subseteq RequiredFields)

WithoutNone(v) ==
    [field \in {f \in DOMAIN v : f = "summary" => v[f] # None} |-> v[field]]

(***************************************************************************)
(* make_event: its conditions, and its result.                             *)
(***************************************************************************)
EventArguments(endpoint, source, sequence, previous) ==
    /\ endpoint \in Identifier /\ source \in Identifier
    /\ sequence \in Nat \ {0}
    /\ previous = None \/ IsDigest(previous)

MakeEvent(endpoint, source, sequence, previous, evidence) ==
    LET identity == [protocol |-> Protocol, endpoint_id |-> endpoint, source_id |-> source,
                     sequence |-> sequence, previous_event_hash |-> previous,
                     evidence |-> WithoutNone(evidence)]
        id == Sha256(identity)
    IN  [protocol |-> Protocol, endpoint_id |-> endpoint, source_id |-> source,
         sequence |-> sequence, previous_event_hash |-> previous,
         evidence |-> WithoutNone(evidence),
         event_id |-> id, event_hash |-> Sha256(<<id, identity>>)]

Remade(v) == MakeEvent(v.endpoint_id, v.source_id, v.sequence, v.previous_event_hash, v.evidence)

\* validate_event, which returns Remade(v).
EventValid(v) ==
    /\ DOMAIN v = EventFields
    /\ v.protocol = Protocol
    /\ EventArguments(v.endpoint_id, v.source_id, v.sequence, v.previous_event_hash)
    /\ EvidenceValid(v.evidence)
    /\ v.event_id = Remade(v).event_id /\ v.event_hash = Remade(v).event_hash

-----------------------------------------------------------------------------
\* make_attachment_request.
Describes(evidence, output) ==
    evidence.digest = Sha256(output) /\ evidence.byte_length = Len(output)

Attachable(event, output) ==
    /\ EventValid(event)
    /\ Len(output) <= MaxArtifactBytes
    /\ Describes(event.evidence, output)

AttachmentRequest(event, output) ==
    [schema |-> AttachmentSchema, event |-> event,
     output_base64 |-> Base64(output), output_sha256 |-> Sha256(output)]

(***************************************************************************)
(* make_output_stream: the chunks of an output as chained events, the last *)
(* one marked.                                                             *)
(***************************************************************************)
Streamable(evidence, output) == output # <<>> /\ Describes(evidence, output)

ChunkCount(output) == (Len(output) + MaxArtifactBytes - 1) \div MaxArtifactBytes

Chunk(output, index) ==
    LET end == (index + 1) * MaxArtifactBytes IN
    SubSeq(output, index * MaxArtifactBytes + 1,
           IF end <= Len(output) THEN end ELSE Len(output))

OutputStreamId(endpoint, source, sequence, output) ==
    Sha256([endpoint_id |-> endpoint, source_id |-> source, sequence |-> sequence,
            digest |-> Sha256(output), length |-> Len(output)])

ChunkEvidence(evidence, stream, output, index) ==
    LET chunk == Chunk(output, index) IN
    [field \in DOMAIN evidence \cup StreamFields |->
        CASE field = "digest"             -> Sha256(chunk)
          [] field = "byte_length"        -> Len(chunk)
          [] field = "stream_id"          -> stream
          [] field = "chunk_index"        -> index
          [] field = "chunk_count"        -> ChunkCount(output)
          [] field = "stream_digest"      -> Sha256(output)
          [] field = "stream_byte_length" -> Len(output)
          [] field = "final"              -> index = ChunkCount(output) - 1
          [] OTHER                        -> evidence[field]]

OutputStream(endpoint, source, sequence, previous, evidence, output) ==
    LET stream == OutputStreamId(endpoint, source, sequence, output)
        event[i \in 0 .. ChunkCount(output) - 1] ==
            MakeEvent(endpoint, source, sequence + i,
                  IF i = 0 THEN previous ELSE event[i - 1].event_hash,
                  ChunkEvidence(evidence, stream, output, i))
    IN  [n \in 1 .. ChunkCount(output) |->
            AttachmentRequest(event[n - 1], Chunk(output, n - 1))]

\* The same as a condition on the requests.
IsOutputStream(requests, endpoint, source, sequence, previous, evidence, output) ==
    LET stream == OutputStreamId(endpoint, source, sequence, output) IN
    /\ Len(requests) = ChunkCount(output)
    /\ \A n \in 1 .. Len(requests) :
          requests[n] =
              AttachmentRequest(
                  MakeEvent(endpoint, source, sequence + n - 1,
                            IF n = 1 THEN previous ELSE requests[n - 1].event.event_hash,
                            ChunkEvidence(evidence, stream, output, n - 1)),
                  Chunk(output, n - 1))

-----------------------------------------------------------------------------
\* _decode_output.
Decodes(base64, digest) ==
    /\ IsDigest(Lower(digest))
    /\ base64.form = "base64"
    /\ Len(base64.of) <= MaxArtifactBytes
    /\ Sha256(base64.of) = Lower(digest)

(***************************************************************************)
(* adapt_windows_attachment: a record of the Windows spool as an event of  *)
(* its own source, or at the place in a chain it names.                    *)
(***************************************************************************)
WindowsValid(v) ==
    LET raw == v.event IN
    /\ DOMAIN v = RequestFields
    /\ DOMAIN raw \subseteq WindowsFields /\ WindowsRequired \subseteq DOMAIN raw
    /\ raw.schema = WindowsSchema
    /\ raw.id.form \in {"lower", "upper"}
    /\ raw.kind = "controlled-launch" /\ raw.host # ""
    /\ Decodes(v.output_base64, v.output_sha256)
    /\ Lower(raw.output_sha256) = Lower(v.output_sha256)
    /\ raw.output_bytes = Len(v.output_base64.of)
    /\ AllOrNone(raw, ChainFields) /\ AllOrNone(raw, StreamFields)

WindowsEvidence(v) ==
    LET raw == v.event
        fixed == [kind |-> "command-observation", digest |-> Lower(v.output_sha256),
                  byte_length |-> Len(v.output_base64.of),
                  retention_reference |-> Lower(raw.id), classification |-> "restricted",
                  summary |-> "Windows controlled-launch output"]
    IN  [field \in DOMAIN fixed \cup (DOMAIN raw \cap StreamFields) |->
            IF field \in StreamFields THEN raw[field] ELSE fixed[field]]

WindowsSource(id) == [id EXCEPT !.form = "windows"]

WindowsEvent(v, endpoint) ==
    LET raw == v.event
        chained == ChainFields \subseteq DOMAIN raw
    IN  MakeEvent(endpoint,
              IF chained THEN raw.source_id ELSE WindowsSource(Lower(raw.id)),
              IF chained THEN raw.sequence ELSE 1,
              IF chained THEN raw.previous_event_hash ELSE None,
              WindowsEvidence(v))

(***************************************************************************)
(* validate_attachment_request: what is accepted, and the event it yields. *)
(***************************************************************************)
FromWindows(v) == "schema" \in DOMAIN v /\ v.schema = WindowsSchema

Accepted(v, endpoint) ==
    IF FromWindows(v)
    THEN /\ endpoint # None
         /\ WindowsValid(v)
         /\ EventValid(WindowsEvent(v, endpoint))
    ELSE /\ DOMAIN v = RequestFields
         /\ v.schema = AttachmentSchema
         /\ EventValid(v.event)
         /\ Decodes(v.output_base64, v.output_sha256)
         /\ Describes(v.event.evidence, v.output_base64.of)

Canonical(v, endpoint) == IF FromWindows(v) THEN WindowsEvent(v, endpoint) ELSE Remade(v.event)

\* verify_source_chain.
ChainValid(events) ==
    \A i \in 1 .. Len(events) :
        /\ EventValid(events[i])
        /\ events[i].source_id = events[1].source_id
        /\ events[i].endpoint_id = events[1].endpoint_id
        /\ events[i].sequence = i
        /\ events[i].previous_event_hash = (IF i = 1 THEN None ELSE events[i - 1].event_hash)
=============================================================================
