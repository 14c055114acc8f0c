----------------------- MODULE EvidenceProtocolProofs -----------------------
(***************************************************************************)
(* What make_event and make_output_stream produce is accepted, for every   *)
(* output, limit and place in a chain.                                     *)
(***************************************************************************)
EXTENDS EvidenceProtocol, SharedLemmas, TLAPS

Limit == MaxArtifactBytes

(***************************************************************************)
(* The quotient of a division.                                             *)
(***************************************************************************)
LEMMA Quotient ==
    ASSUME NEW a \in Nat, NEW b \in Nat \ {0}
    PROVE  /\ a \div b \in Nat
           /\ (a \div b) * b <= a
           /\ a < (a \div b) * b + b
  BY SMT

(***************************************************************************)
(* Products of natural numbers keep the order of a factor.                 *)
(***************************************************************************)
LEMMA Products ==
    ASSUME NEW i \in Nat, NEW j \in Nat, i < j, NEW b \in Nat
    PROVE  /\ i * b \in Nat /\ (i + 1) * b = i * b + b
           /\ i * b + b <= j * b
  BY SMT

(***************************************************************************)
(* Lines 156 and 162: the chunks of an output are not empty and within the *)
(* limit, which only the last may fall short of.                           *)
(***************************************************************************)
LEMMA ChunkBounds ==
    ASSUME NEW S, NEW output \in Seq(S), output # <<>>,
           NEW index \in 0 .. ChunkCount(output) - 1
    PROVE  /\ ChunkCount(output) \in Nat \ {0}
           /\ Chunk(output, index) \in Seq(S)
           /\ Len(Chunk(output, index)) \in 1 .. Limit
           /\ Len(Chunk(output, index)) <= Len(output)
           /\ Len(Chunk(output, index)) =
                 IF index * Limit + Limit <= Len(output) THEN Limit ELSE Len(output) - index * Limit
           /\ \A k \in 1 .. Len(Chunk(output, index)) :
                 Chunk(output, index)[k] = output[index * Limit + k]
<1> DEFINE n == Len(output)
           c == ChunkCount(output)
           low == index * Limit
           high == IF low + Limit <= n THEN low + Limit ELSE n
<1>1. Limit \in Nat \ {0} /\ n \in Nat \ {0}
  BY ProtocolAssumption DEF Limit
<1>2. n + Limit - 1 \in Nat /\ c = (n + Limit - 1) \div Limit
  BY <1>1 DEF ChunkCount, Limit
<1>3. c \in Nat /\ c * Limit <= n + Limit - 1 /\ n + Limit - 1 < c * Limit + Limit
  <2> HIDE DEF c, n
  <2> QED BY <1>1, <1>2, Quotient
<1>4. index \in Nat /\ index < c
  <2> HIDE DEF n
  <2> QED BY <1>3
<1>5. low \in Nat /\ (index + 1) * Limit = low + Limit /\ low + Limit <= c * Limit
  <2> HIDE DEF c
  <2> QED BY <1>1, <1>3, <1>4, Products
<1>6. c # 0
  <2> HIDE DEF c, low, n
  <2> QED BY <1>3, <1>4
<1>7. low + 1 \in 1 .. n /\ high \in low + 1 .. n /\ high - low \in 1 .. Limit
  <2>1. c * Limit \in Nat
    <3> HIDE DEF c
    <3> QED BY <1>1, <1>3
  <2> HIDE DEF c, low, n
  <2> QED BY <1>1, <1>3, <1>5, <2>1
<1>8. Chunk(output, index) = SubSeq(output, low + 1, high)
  BY <1>5 DEF Chunk, Limit
<1>9. /\ SubSeq(output, low + 1, high) \in Seq(S)
      /\ Len(SubSeq(output, low + 1, high)) = high - low
      /\ \A k \in 1 .. high - low : SubSeq(output, low + 1, high)[k] = output[low + k]
  <2> HIDE DEF low, high
  <2>1. low \in Nat /\ high \in Nat /\ low + 1 <= high /\ high <= n
    BY <1>5, <1>7, <1>1
  <2> QED BY <2>1
<1>10. high - low \in 1 .. Limit /\ high - low <= n
  <2> HIDE DEF low, high
  <2> QED BY <1>7, <1>5, <1>1
<1>11. /\ Chunk(output, index) \in Seq(S)
       /\ Len(Chunk(output, index)) = high - low
       /\ \A k \in 1 .. high - low : Chunk(output, index)[k] = output[index * Limit + k]
  BY <1>8, <1>9
<1>12. high - low = IF low + Limit <= n THEN Limit ELSE n - low
  <2> HIDE DEF low, n
  <2> QED BY <1>1, <1>5
<1>13. low = index * Limit
  OBVIOUS
<1> HIDE DEF low, high, c, n
<1> QED BY <1>3, <1>6, <1>10, <1>11, <1>12, <1>13 DEF c, n

(***************************************************************************)
(* make_output_stream neither loses nor repeats a byte: byte p of the      *)
(* output is in the chunk (p - 1) \div Limit, and in no other.               *)
(***************************************************************************)
THEOREM ChunksAreTheOutput ==
    ASSUME NEW S, NEW output \in Seq(S), output # <<>>, NEW p \in 1 .. Len(output)
    PROVE  /\ \E i \in 0 .. ChunkCount(output) - 1 : \E k \in 1 .. Len(Chunk(output, i)) :
                 p = i * Limit + k /\ Chunk(output, i)[k] = output[p]
           /\ \A i, j \in 0 .. ChunkCount(output) - 1 :
              \A k \in 1 .. Len(Chunk(output, i)), l \in 1 .. Len(Chunk(output, j)) :
                 p = i * Limit + k /\ p = j * Limit + l => i = j /\ k = l
<1>1. Limit \in Nat \ {0} /\ Len(output) \in Nat \ {0}
  BY ProtocolAssumption DEF Limit
<1> DEFINE n == Len(output)
           c == ChunkCount(output)
           q == (p - 1) \div Limit
<1>2. c = (n + Limit - 1) \div Limit
  BY DEF ChunkCount, Limit
<1>3. c \in Nat /\ c * Limit <= n + Limit - 1 /\ n + Limit - 1 < c * Limit + Limit
  <2> HIDE DEF c, n
  <2>1. n + Limit - 1 \in Nat
    BY <1>1 DEF n
  <2> QED BY <1>1, <1>2, <2>1, Quotient
<1>4. q \in Nat /\ q * Limit <= p - 1 /\ p - 1 < q * Limit + Limit
  <2>1. p - 1 \in Nat
    BY <1>1
  <2> HIDE DEF q
  <2> QED BY <1>1, <2>1, Quotient DEF q
<1>5. q < c
  <2>1. CASE c <= q
    <3>1. c * Limit <= q * Limit
      <4> HIDE DEF c, q
      <4>1. CASE c = q
        BY <4>1, <1>1, <1>3
      <4>2. CASE c < q
        <5>1. c * Limit + Limit <= q * Limit /\ c * Limit \in Nat /\ q * Limit \in Int
          BY <4>2, <1>1, <1>3, <1>4, Products
        <5> QED BY <5>1, <1>1
      <4> QED BY <2>1, <4>1, <4>2, <1>3, <1>4
    <3>2. c * Limit \in Nat /\ q * Limit \in Nat
      <4> HIDE DEF c, q
      <4> QED BY <1>1, <1>3, <1>4
    <3> HIDE DEF c, q
    <3> QED BY <1>1, <1>3, <1>4, <3>1, <3>2
  <2> HIDE DEF c, q
  <2> QED BY <2>1, <1>3, <1>4
<1>6. q \in 0 .. c - 1
  <2> HIDE DEF c, q
  <2> QED BY <1>3, <1>4, <1>5
<1>7. \A i \in 0 .. c - 1 :
         /\ Len(Chunk(output, i)) \in 1 .. Limit
         /\ Len(Chunk(output, i)) = IF i * Limit + Limit <= n THEN Limit ELSE n - i * Limit
         /\ \A k \in 1 .. Len(Chunk(output, i)) : Chunk(output, i)[k] = output[i * Limit + k]
  BY ChunkBounds
<1>8. \E i \in 0 .. c - 1 : \E k \in 1 .. Len(Chunk(output, i)) :
         p = i * Limit + k /\ Chunk(output, i)[k] = output[p]
  <2> DEFINE r == p - q * Limit
  <2>1. q * Limit \in Nat
    <3> HIDE DEF q
    <3> QED BY <1>1, <1>4
  <2>2. Len(Chunk(output, q)) = IF q * Limit + Limit <= n THEN Limit ELSE n - q * Limit
    <3> HIDE DEF q, c
    <3> QED BY <1>6, <1>7
  <2>3. r \in 1 .. Len(Chunk(output, q)) /\ p = q * Limit + r
    <3> DEFINE m == q * Limit
    <3>1. m \in Nat /\ m <= p - 1 /\ p - 1 < m + Limit
      <4> HIDE DEF q
      <4> QED BY <1>4, <2>1
    <3>2. Len(Chunk(output, q)) = IF m + Limit <= n THEN Limit ELSE n - m
      <4> HIDE DEF q
      <4> QED BY <2>2
    <3>3. p \in 1 .. n
      OBVIOUS
    <3>4. r = p - m
      OBVIOUS
    <3> HIDE DEF m, n, q, r
    <3>5. p = m + r /\ r \in 1 .. Limit /\ r <= n - m
      BY <1>1, <3>1, <3>3, <3>4 DEF n
    <3>6. r \in 1 .. Len(Chunk(output, q))
      BY <1>1, <3>1, <3>2, <3>5 DEF n
    <3> QED BY <3>5, <3>6 DEF m
  <2>4. Chunk(output, q)[r] = output[q * Limit + r]
    <3> HIDE DEF q, c, r
    <3> QED BY <1>6, <1>7, <2>3
  <2> HIDE DEF q, c, r
  <2> QED BY <1>6, <2>3, <2>4
<1>9. ASSUME NEW i \in 0 .. c - 1, NEW j \in 0 .. c - 1,
             NEW k \in 1 .. Len(Chunk(output, i)), NEW l \in 1 .. Len(Chunk(output, j)),
             p = i * Limit + k, p = j * Limit + l
      PROVE  i = j /\ k = l
  <2>1. k \in 1 .. Limit /\ l \in 1 .. Limit
    <3> HIDE DEF c
    <3> QED BY <1>1, <1>7
  <2>2. i \in Nat /\ j \in Nat /\ i * Limit \in Nat /\ j * Limit \in Nat
    <3> HIDE DEF c
    <3> QED BY <1>1, <1>3
  <2>3. ~ i < j
    <3> SUFFICES ASSUME i < j PROVE FALSE
      OBVIOUS
    <3>1. i * Limit + Limit <= j * Limit
      BY <1>1, <2>2, Products
    <3> QED BY <1>1, <1>9, <2>1, <2>2, <3>1
  <2>4. ~ j < i
    <3> SUFFICES ASSUME j < i PROVE FALSE
      OBVIOUS
    <3>1. j * Limit + Limit <= i * Limit
      BY <1>1, <2>2, Products
    <3> QED BY <1>1, <1>9, <2>1, <2>2, <3>1
  <2>5. i = j
    BY <2>2, <2>3, <2>4
  <2> QED BY <1>9, <2>1, <2>2, <2>5
<1> HIDE DEF q
<1> QED BY <1>8, <1>9

-----------------------------------------------------------------------------
(***************************************************************************)
(* Dropping an empty summary keeps evidence valid, and is done once.       *)
(***************************************************************************)
LEMMA CleanedEvidence ==
    ASSUME NEW v, EvidenceValid(v)
    PROVE  /\ EvidenceValid(WithoutNone(v))
           /\ WithoutNone(WithoutNone(v)) = WithoutNone(v)
           /\ \A f \in DOMAIN v : f # "summary" =>
                 f \in DOMAIN WithoutNone(v) /\ WithoutNone(v)[f] = v[f]
<1> DEFINE w == WithoutNone(v)
           D == {f \in DOMAIN v : f = "summary" => v[f] # None}
<1>1. w = [f \in D |-> v[f]]
  BY DEF WithoutNone
<1>2. DOMAIN w = D /\ \A f \in D : w[f] = v[f]
  BY <1>1
<1>3. \A f \in DOMAIN v : f # "summary" => f \in D
  OBVIOUS
<1>4. "summary" \notin RequiredFields /\ "summary" \notin StreamFields
  BY DEF RequiredFields, StreamFields
<1>5. RequiredFields \subseteq D /\ D \subseteq DOMAIN v
  BY <1>3, <1>4 DEF EvidenceValid
<1>6. DOMAIN v \cap StreamFields = D \cap StreamFields
  BY <1>3, <1>4
<1>7. EvidenceValid(w)
  <2>1. StreamFields \subseteq D => StreamValid(w)
    <3>1. SUFFICES ASSUME StreamFields \subseteq D PROVE StreamValid(w)
      OBVIOUS
    <3>2. StreamValid(v)
      BY <3>1, <1>5 DEF EvidenceValid
    <3>3. \A f \in StreamFields \cup RequiredFields : w[f] = v[f]
      BY <3>1, <1>2, <1>5
    <3>4. /\ w.stream_id = v.stream_id /\ w.stream_digest = v.stream_digest
          /\ w.chunk_count = v.chunk_count /\ w.chunk_index = v.chunk_index
          /\ w.stream_byte_length = v.stream_byte_length /\ w.final = v.final
          /\ w.byte_length = v.byte_length
      <4> HIDE DEF w
      <4> QED BY <3>3 DEF StreamFields, RequiredFields
    <3> HIDE DEF w
    <3> QED BY <3>2, <3>4 DEF StreamValid
  <2>2. \A f \in RequiredFields : w[f] = v[f]
    BY <1>2, <1>5
  <2>3. /\ w.kind = v.kind /\ w.classification = v.classification
        /\ w.digest = v.digest /\ w.byte_length = v.byte_length
        /\ w.retention_reference = v.retention_reference
    <3> HIDE DEF w
    <3> QED BY <2>2 DEF RequiredFields
  <2>4. "summary" \in D => w.summary = v.summary
    BY <1>2
  <2>5. AllOrNone(w, StreamFields)
    <3> HIDE DEF w
    <3> QED BY <1>2, <1>6 DEF EvidenceValid, AllOrNone
  <2> HIDE DEF w, D
  <2> QED BY <1>2, <1>5, <2>1, <2>3, <2>4, <2>5 DEF EvidenceValid
<1>8. WithoutNone(w) = w
  <2>1. {f \in DOMAIN w : f = "summary" => w[f] # None} = D
    <3> HIDE DEF w
    <3> QED BY <1>2
  <2>2. WithoutNone(w) = [f \in {f \in DOMAIN w : f = "summary" => w[f] # None} |-> w[f]]
    BY DEF WithoutNone
  <2>3. WithoutNone(w) = [f \in D |-> w[f]]
    BY <2>1, <2>2
  <2>4. [f \in D |-> w[f]] = [f \in D |-> v[f]]
    <3> HIDE DEF w, D
    <3> QED BY <1>2
  <2> QED BY <1>1, <2>3, <2>4
<1> HIDE DEF w, D
<1> QED BY <1>2, <1>3, <1>7, <1>8 DEF w

(***************************************************************************)
(* What make_event returns for valid arguments validate_event accepts, and *)
(* returns unchanged.                                                      *)
(***************************************************************************)
THEOREM MadeEventsAreValid ==
    ASSUME NEW endpoint, NEW source, NEW sequence, NEW previous, NEW evidence,
           EventArguments(endpoint, source, sequence, previous), EvidenceValid(evidence)
    PROVE  LET event == MakeEvent(endpoint, source, sequence, previous, evidence) IN
           EventValid(event) /\ Remade(event) = event
<1> DEFINE event == MakeEvent(endpoint, source, sequence, previous, evidence)
           cleaned == WithoutNone(evidence)
<1>1. /\ event.endpoint_id = endpoint /\ event.source_id = source
      /\ event.sequence = sequence /\ event.previous_event_hash = previous
      /\ event.evidence = cleaned /\ event.protocol = Protocol
      /\ DOMAIN event = EventFields
  BY DEF MakeEvent, EventFields
<1>2. EvidenceValid(cleaned) /\ WithoutNone(cleaned) = cleaned
  BY CleanedEvidence
<1>3. Remade(event) = MakeEvent(endpoint, source, sequence, previous, cleaned)
  <2> HIDE DEF event, cleaned
  <2> QED BY <1>1 DEF Remade
<1>4. MakeEvent(endpoint, source, sequence, previous, cleaned) = event
  <2> HIDE DEF cleaned
  <2> QED BY <1>2 DEF MakeEvent, cleaned
<1> HIDE DEF event, cleaned
<1> QED BY <1>1, <1>2, <1>3, <1>4 DEF EventValid, event

-----------------------------------------------------------------------------
(***************************************************************************)
(* A chunk's evidence is valid and describes the chunk.                    *)
(***************************************************************************)
LEMMA ChunkEvidenceIsValid ==
    ASSUME NEW S, NEW output \in Seq(S), NEW evidence, NEW stream,
           EvidenceValid(evidence), Streamable(evidence, output), IsDigest(stream),
           ChunkCount(output) <= MaxChunks, NEW index \in 0 .. ChunkCount(output) - 1
    PROVE  LET v == ChunkEvidence(evidence, stream, output, index) IN
           /\ EvidenceValid(v)
           /\ v.digest = Sha256(Chunk(output, index))
           /\ v.byte_length = Len(Chunk(output, index))
           /\ v.final = (index = ChunkCount(output) - 1)
<1> DEFINE v == ChunkEvidence(evidence, stream, output, index)
           chunk == Chunk(output, index)
           c == ChunkCount(output)
<1>1. output # <<>> /\ Len(output) = evidence.byte_length
  BY DEF Streamable, Describes
<1>2. Len(output) \in 0 .. MaxLength /\ MaxLength \in Nat
  BY <1>1, ProtocolAssumption DEF EvidenceValid
<1>3. c \in Nat \ {0} /\ Len(chunk) \in 1 .. Limit /\ Len(chunk) <= Len(output)
  BY <1>1, ChunkBounds
<1>4. DOMAIN v = DOMAIN evidence \cup StreamFields
  BY DEF ChunkEvidence
<1>5. /\ v.stream_id = stream /\ v.chunk_index = index /\ v.chunk_count = c
      /\ v.stream_digest = Sha256(output) /\ v.stream_byte_length = Len(output)
      /\ v.final = (index = c - 1)
  BY DEF ChunkEvidence, StreamFields
<1>6. v.digest = Sha256(chunk) /\ v.byte_length = Len(chunk)
  BY DEF ChunkEvidence, EvidenceValid, RequiredFields
<1>7. /\ v.kind = evidence.kind /\ v.classification = evidence.classification
      /\ v.retention_reference = evidence.retention_reference
  BY DEF ChunkEvidence, EvidenceValid, RequiredFields
<1>8. "summary" \in DOMAIN v => "summary" \in DOMAIN evidence /\ v.summary = evidence.summary
  BY DEF ChunkEvidence, StreamFields
<1>9. StreamValid(v)
  <2>1. IsDigest(Sha256(output))
    BY DEF IsDigest, Sha256
  <2>2. MaxChunks \in Nat
    BY ProtocolAssumption
  <2> HIDE DEF v, chunk, c
  <2>3. v.chunk_count \in 1 .. MaxChunks /\ v.chunk_index \in 0 .. v.chunk_count - 1
    BY <1>3, <1>5, <2>2 DEF c
  <2>4. v.stream_byte_length >= v.byte_length
    BY <1>2, <1>3, <1>5, <1>6
  <2>5. v.final = (v.chunk_index = v.chunk_count - 1)
    BY <1>5
  <2> QED BY <1>5, <2>1, <2>3, <2>4, <2>5 DEF StreamValid
<1>10. IsDigest(v.digest) /\ v.byte_length \in 0 .. MaxLength
  <2>1. IsDigest(Sha256(chunk))
    BY DEF IsDigest, Sha256
  <2> HIDE DEF v, chunk
  <2> QED BY <1>2, <1>3, <1>6, <2>1, ProtocolAssumption DEF Limit
<1>11. AllOrNone(v, StreamFields)
  <2> HIDE DEF v
  <2> QED BY <1>4 DEF AllOrNone
<1>12. /\ DOMAIN v \subseteq EvidenceFields /\ RequiredFields \subseteq DOMAIN v
  <2> HIDE DEF v
  <2> QED BY <1>4 DEF EvidenceValid, EvidenceFields
<1> HIDE DEF v, chunk, c
<1>13. EvidenceValid(v)
  BY <1>7, <1>8, <1>9, <1>10, <1>11, <1>12 DEF EvidenceValid
<1> QED BY <1>5, <1>6, <1>13 DEF v, chunk, c

\* Every request is valid, is accepted as the event it carries, and only the
\* last is final.
AcceptedAsSent(requests, output, peer) ==
    \A n \in 1 .. Len(requests) :
        /\ Attachable(requests[n].event, Chunk(output, n - 1))
        /\ Accepted(requests[n], peer)
        /\ Canonical(requests[n], peer) = requests[n].event
        /\ requests[n].event.evidence.final <=> n = Len(requests)

EventsOf(requests) == [n \in 1 .. Len(requests) |-> requests[n].event]

(***************************************************************************)
(* Requests that carry the chunks of an output, each chained to the one    *)
(* before it, are accepted as they were sent, only the last is final, and  *)
(* from the start of a source they are a chain verify_source_chain accepts.*)
(***************************************************************************)
LEMMA LinkedRequestsAreAccepted ==
    ASSUME NEW S, NEW output \in Seq(S), NEW endpoint, NEW source, NEW sequence,
           NEW previous, NEW evidence, NEW requests, NEW peer,
           EventArguments(endpoint, source, sequence, previous),
           EvidenceValid(evidence), Streamable(evidence, output),
           ChunkCount(output) <= MaxChunks,
           IsOutputStream(requests, endpoint, source, sequence, previous, evidence, output)
    PROVE  /\ AcceptedAsSent(requests, output, peer)
           /\ sequence = 1 /\ previous = None => ChainValid(EventsOf(requests))
<1> DEFINE c == ChunkCount(output)
           stream == OutputStreamId(endpoint, source, sequence, output)
           before(n) == IF n = 1 THEN previous ELSE requests[n - 1].event.event_hash
           part(n) == ChunkEvidence(evidence, stream, output, n - 1)
           made(n) == MakeEvent(endpoint, source, sequence + n - 1, before(n), part(n))
<1>1. Len(requests) = c /\ c \in Nat \ {0}
  <2>1. c \in Nat \ {0}
    <3>1. output # <<>>
      BY DEF Streamable
    <3>2. Limit \in Nat \ {0} /\ Len(output) \in Nat \ {0}
      BY <3>1, ProtocolAssumption DEF Limit
    <3>3. Len(output) + Limit - 1 \in Nat /\ c = (Len(output) + Limit - 1) \div Limit
      BY <3>2 DEF ChunkCount, Limit
    <3>4. c \in Nat /\ Len(output) + Limit - 1 < c * Limit + Limit
      <4> HIDE DEF c
      <4> QED BY <3>2, <3>3, Quotient
    <3>5. c # 0
      <4> HIDE DEF c
      <4> QED BY <3>2, <3>4
    <3> QED BY <3>4, <3>5
  <2> QED BY <2>1 DEF IsOutputStream
<1>2. ASSUME NEW n \in 1 .. Len(requests)
      PROVE  requests[n] = AttachmentRequest(made(n), Chunk(output, n - 1))
  BY DEF IsOutputStream
<1>3. ASSUME NEW n \in 1 .. Len(requests)
      PROVE  /\ requests[n].event = made(n) /\ requests[n].schema = AttachmentSchema
             /\ requests[n].output_base64 = Base64(Chunk(output, n - 1))
             /\ requests[n].output_sha256 = Sha256(Chunk(output, n - 1))
             /\ DOMAIN requests[n] = RequestFields
  <2> HIDE DEF made
  <2>1. requests[n] = AttachmentRequest(made(n), Chunk(output, n - 1))
    BY <1>2
  <2> QED BY <2>1 DEF AttachmentRequest, RequestFields
<1>4. ASSUME NEW n \in 1 .. Len(requests)
      PROVE  EventArguments(endpoint, source, sequence + n - 1, before(n))
  <2>1. sequence + n - 1 \in Nat \ {0}
    <3> HIDE DEF c
    <3> QED BY <1>1 DEF EventArguments
  <2>2. CASE n = 1
    BY <2>1, <2>2 DEF EventArguments
  <2>3. CASE n # 1
    <3>1. n - 1 \in 1 .. Len(requests)
      <4> HIDE DEF c
      <4> QED BY <1>1, <2>3
    <3>2. before(n) = made(n - 1).event_hash
      <4>1. before(n) = requests[n - 1].event.event_hash
        BY <2>3
      <4> HIDE DEF made, before
      <4> QED BY <1>3, <3>1, <4>1
    <3>3. IsDigest(made(n - 1).event_hash)
      BY DEF MakeEvent, IsDigest, Sha256
    <3> HIDE DEF made, before
    <3> QED BY <2>1, <3>2, <3>3 DEF EventArguments
  <2> QED BY <2>2, <2>3
<1>5. ASSUME NEW n \in 1 .. Len(requests)
      PROVE  /\ EvidenceValid(part(n))
             /\ part(n).digest = Sha256(Chunk(output, n - 1))
             /\ part(n).byte_length = Len(Chunk(output, n - 1))
             /\ part(n).final = (n = c)
             /\ Len(Chunk(output, n - 1)) \in 1 .. Limit
  <2>1. n - 1 \in 0 .. c - 1 /\ (n - 1 = c - 1 <=> n = c)
    <3> HIDE DEF c
    <3> QED BY <1>1
  <2>2. IsDigest(stream)
    BY DEF OutputStreamId, IsDigest, Sha256
  <2>3. Len(Chunk(output, n - 1)) \in 1 .. Limit
    <3> HIDE DEF c
    <3> QED BY <2>1, ChunkBounds DEF c, Streamable
  <2>4. /\ EvidenceValid(part(n))
        /\ part(n).digest = Sha256(Chunk(output, n - 1))
        /\ part(n).byte_length = Len(Chunk(output, n - 1))
        /\ part(n).final = (n - 1 = c - 1)
    <3> HIDE DEF stream
    <3> QED BY <2>1, <2>2, ChunkEvidenceIsValid
  <2> HIDE DEF part, c
  <2> QED BY <2>1, <2>3, <2>4
<1>6. ASSUME NEW n \in 1 .. Len(requests)
      PROVE  EventValid(made(n)) /\ Remade(made(n)) = made(n)
  <2> HIDE DEF part, before
  <2> QED BY <1>4, <1>5, MadeEventsAreValid
<1>7. ASSUME NEW n \in 1 .. Len(requests)
      PROVE  /\ made(n).evidence.digest = Sha256(Chunk(output, n - 1))
             /\ made(n).evidence.byte_length = Len(Chunk(output, n - 1))
             /\ made(n).evidence.final = (n = c)
  <2>1. made(n).evidence = WithoutNone(part(n))
    <3> HIDE DEF part, before
    <3> QED BY DEF MakeEvent
  <2>2. {"digest", "byte_length", "final"} \subseteq DOMAIN part(n)
    BY DEF ChunkEvidence, EvidenceValid, RequiredFields, StreamFields
  <2>3. \A f \in {"digest", "byte_length", "final"} : WithoutNone(part(n))[f] = part(n)[f]
    <3> HIDE DEF part
    <3> QED BY <1>5, <2>2, CleanedEvidence
  <2> HIDE DEF made, part, c
  <2> QED BY <1>5, <2>1, <2>3
<1>8. ASSUME NEW n \in 1 .. Len(requests)
      PROVE  /\ Attachable(requests[n].event, Chunk(output, n - 1))
             /\ Accepted(requests[n], peer)
             /\ Canonical(requests[n], peer) = requests[n].event
             /\ requests[n].event.evidence.final <=> n = Len(requests)
  <2> HIDE DEF made, c
  <2>1. Describes(made(n).evidence, Chunk(output, n - 1))
    BY <1>7 DEF Describes
  <2>2. Len(Chunk(output, n - 1)) <= MaxArtifactBytes
    BY <1>5, ProtocolAssumption DEF Limit
  <2>3. Decodes(Base64(Chunk(output, n - 1)), Sha256(Chunk(output, n - 1)))
    BY <2>2 DEF Decodes, Base64, Sha256, IsDigest, Lower
  <2>4. ~FromWindows(requests[n])
    BY <1>3 DEF FromWindows, AttachmentSchema, WindowsSchema
  <2>5. Base64(Chunk(output, n - 1)).of = Chunk(output, n - 1)
    BY DEF Base64
  <2>6. Attachable(requests[n].event, Chunk(output, n - 1))
    BY <1>3, <1>6, <2>1, <2>2 DEF Attachable
  <2>7. Accepted(requests[n], peer)
    BY <1>3, <1>6, <2>1, <2>3, <2>4, <2>5 DEF Accepted
  <2>8. Canonical(requests[n], peer) = requests[n].event
    BY <1>3, <1>6, <2>4 DEF Canonical
  <2> QED BY <1>1, <1>3, <1>7, <2>6, <2>7, <2>8
<1>9. ASSUME sequence = 1, previous = None
      PROVE  ChainValid([n \in 1 .. Len(requests) |-> requests[n].event])
  <2> DEFINE events == [n \in 1 .. Len(requests) |-> requests[n].event]
  <2>1. Len(events) = Len(requests)
    <3> HIDE DEF c
    <3> QED BY <1>1
  <2>2. ASSUME NEW n \in 1 .. Len(requests)
        PROVE  /\ events[n] = made(n) /\ made(n).sequence = n
               /\ made(n).source_id = source /\ made(n).endpoint_id = endpoint
               /\ made(n).previous_event_hash = before(n)
    <3>1. events[n] = made(n)
      <4> HIDE DEF made
      <4> QED BY <1>3
    <3>2. sequence + n - 1 = n
      <4> HIDE DEF c
      <4> QED BY <1>9, <1>1
    <3>3. /\ made(n).sequence = sequence + n - 1
          /\ made(n).source_id = source /\ made(n).endpoint_id = endpoint
          /\ made(n).previous_event_hash = before(n)
      <4> HIDE DEF part, before
      <4> QED BY DEF MakeEvent
    <3> HIDE DEF made, events, before
    <3> QED BY <3>1, <3>2, <3>3
  <2>3. ASSUME NEW n \in 1 .. Len(requests)
        PROVE  before(n) = IF n = 1 THEN None ELSE events[n - 1].event_hash
    <3>1. CASE n = 1
      BY <1>9, <3>1
    <3>2. CASE n # 1
      <4>1. n - 1 \in 1 .. Len(requests)
        <5> HIDE DEF c
        <5> QED BY <1>1, <3>2
      <4> QED BY <3>2, <4>1
    <3> QED BY <3>1, <3>2
  <2>4. 1 \in 1 .. Len(requests)
    <3> HIDE DEF c
    <3> QED BY <1>1
  <2> HIDE DEF made, events, before
  <2>5. ASSUME NEW n \in 1 .. Len(events)
        PROVE  /\ EventValid(events[n])
               /\ events[n].source_id = events[1].source_id
               /\ events[n].endpoint_id = events[1].endpoint_id
               /\ events[n].sequence = n
               /\ events[n].previous_event_hash =
                     (IF n = 1 THEN None ELSE events[n - 1].event_hash)
    BY <1>6, <2>1, <2>2, <2>3, <2>4
  <2>6. ChainValid(events)
    BY <2>5 DEF ChainValid
  <2> QED BY <2>6 DEF events
<1>10. AcceptedAsSent(requests, output, peer)
  <2> HIDE DEF c
  <2> QED BY <1>8 DEF AcceptedAsSent
<1> QED BY <1>9, <1>10 DEF EventsOf

-----------------------------------------------------------------------------
(***************************************************************************)
(* The recursive function of make_output_stream: an event for each index,  *)
(* each naming the hash of the one before it.                              *)
(***************************************************************************)
IsEvents(event, count, endpoint, source, sequence, previous, evidence, stream, output) ==
    event = [i \in 0 .. count - 1 |->
                MakeEvent(endpoint, source, sequence + i,
                          IF i = 0 THEN previous ELSE event[i - 1].event_hash,
                          ChunkEvidence(evidence, stream, output, i))]

\* There is such a function for every number of chunks.
LEMMA EventsExist ==
    ASSUME NEW count \in Nat, NEW endpoint, NEW source, NEW sequence, NEW previous,
           NEW evidence, NEW stream, NEW output
    PROVE  \E event : IsEvents(event, count, endpoint, source, sequence, previous, evidence,
                               stream, output)
<1> DEFINE Made(i, hash) == MakeEvent(endpoint, source, sequence + i, hash,
                                      ChunkEvidence(evidence, stream, output, i))
           Fits(e, m) == e = [i \in 0 .. m - 1 |->
                                 Made(i, IF i = 0 THEN previous ELSE e[i - 1].event_hash)]
           S == {m \in Nat : \E e : Fits(e, m)}
<1> HIDE DEF Made
<1>1. 0 \in S
  <2>1. Fits([i \in 0 .. 0 - 1 |-> 0], 0)
    OBVIOUS
  <2> QED
    BY <2>1
<1>2. ASSUME NEW m \in Nat, m \in S
      PROVE  m + 1 \in S
  <2>1. PICK f : Fits(f, m)
    BY <1>2
  <2> DEFINE e == [i \in 0 .. m + 1 - 1 |-> IF i \in 0 .. m - 1 THEN f[i]
                      ELSE Made(i, IF i = 0 THEN previous ELSE f[i - 1].event_hash)]
  <2>2. ASSUME NEW i \in 0 .. m + 1 - 1
        PROVE  e[i] = Made(i, IF i = 0 THEN previous ELSE e[i - 1].event_hash)
    <3>1. i # 0 => i - 1 \in 0 .. m - 1 /\ e[i - 1] = f[i - 1]
      OBVIOUS
    <3>2. CASE i \in 0 .. m - 1
      BY <2>1, <3>1, <3>2
    <3>3. CASE i \notin 0 .. m - 1
      BY <3>1, <3>3
    <3> QED
      BY <3>2, <3>3
  <2>3. e = [i \in 0 .. m + 1 - 1 |-> e[i]]
    OBVIOUS
  <2> HIDE DEF e
  <2>4. Fits(e, m + 1)
    <3> DEFINE next(i) == Made(i, IF i = 0 THEN previous ELSE e[i - 1].event_hash)
    <3>1. \A i \in 0 .. m + 1 - 1 : e[i] = next(i)
      BY <2>2
    <3>2. e = [i \in 0 .. m + 1 - 1 |-> next(i)]
      <4> HIDE DEF next
      <4> QED BY <2>3, <3>1
    <3> QED
      BY <3>2
  <2>5. m + 1 \in Nat
    OBVIOUS
  <2> QED
    BY <2>4, <2>5, Zenon
<1>3. Nat \subseteq S
  <2> HIDE DEF S
  <2> QED
    BY <1>1, <1>2, Induction
<1> QED
  BY <1>3 DEF IsEvents, Made

(***************************************************************************)
(* What make_output_stream returns is a stream, each request's event the   *)
(* successor of the one before it.                                         *)
(***************************************************************************)
LEMMA OutputStreamIsOne ==
    ASSUME NEW S, NEW output \in Seq(S), NEW endpoint, NEW source, NEW sequence \in Nat,
           NEW previous, NEW evidence
    PROVE  IsOutputStream(OutputStream(endpoint, source, sequence, previous, evidence, output),
                          endpoint, source, sequence, previous, evidence, output)
<1> DEFINE c == ChunkCount(output)
           stream == OutputStreamId(endpoint, source, sequence, output)
           Made(i, hash) == MakeEvent(endpoint, source, sequence + i, hash,
                                      ChunkEvidence(evidence, stream, output, i))
           event == CHOOSE event :
                        event = [i \in 0 .. c - 1 |->
                                    Made(i, IF i = 0 THEN previous ELSE event[i - 1].event_hash)]
           requests == OutputStream(endpoint, source, sequence, previous, evidence, output)
<1>1. c \in Nat
  <2>1. Limit \in Nat \ {0} /\ Len(output) \in Nat
    BY ProtocolAssumption DEF Limit
  <2>2. Len(output) + Limit - 1 \in Nat /\ c = (Len(output) + Limit - 1) \div Limit
    BY <2>1 DEF ChunkCount, Limit
  <2> QED
    <3> HIDE DEF c
    <3> QED BY <2>1, <2>2, Quotient
<1>2. requests = [n \in 1 .. c |-> AttachmentRequest(event[n - 1], Chunk(output, n - 1))]
  BY Zenon DEF OutputStream
<1>3. event = [i \in 0 .. c - 1 |->
                  Made(i, IF i = 0 THEN previous ELSE event[i - 1].event_hash)]
  <2>1. \E e : IsEvents(e, c, endpoint, source, sequence, previous, evidence, stream, output)
    <3> HIDE DEF c, stream
    <3> QED BY <1>1, EventsExist
  <2> QED BY <2>1, Zenon DEF IsEvents
<1> HIDE DEF c, stream, event, requests
<1>4. /\ Len(requests) = c
      /\ \A n \in 1 .. c : requests[n] = AttachmentRequest(event[n - 1], Chunk(output, n - 1))
  BY <1>1, <1>2
<1>5. ASSUME NEW n \in 1 .. c
      PROVE  event[n - 1] =
                 MakeEvent(endpoint, source, sequence + n - 1,
                           IF n = 1 THEN previous ELSE requests[n - 1].event.event_hash,
                           ChunkEvidence(evidence, stream, output, n - 1))
  <2>1. n - 1 \in 0 .. c - 1 /\ (n - 1 = 0 <=> n = 1) /\ sequence + (n - 1) = sequence + n - 1
    BY <1>1
  <2>2. event[n - 1] = Made(n - 1, IF n = 1 THEN previous ELSE event[n - 1 - 1].event_hash)
    <3> HIDE DEF Made
    <3> QED BY <1>3, <2>1
  <2>3. n # 1 => requests[n - 1].event = event[n - 1 - 1]
    <3>1. n # 1 => n - 1 \in 1 .. c
      BY <1>1
    <3> QED BY <1>4, <3>1 DEF AttachmentRequest
  <2> QED BY <2>1, <2>2, <2>3
<1>6. IsOutputStream(requests, endpoint, source, sequence, previous, evidence, output)
  BY <1>4, <1>5 DEF IsOutputStream, c, stream
<1> QED BY <1>6 DEF requests

(***************************************************************************)
(* What make_output_stream makes of an output is accepted chunk by chunk   *)
(* as it was sent, only the last chunk is final, and from the start of a   *)
(* source the chunks are a chain verify_source_chain accepts.              *)
(***************************************************************************)
THEOREM StreamsAreAccepted ==
    ASSUME NEW S, NEW output \in Seq(S), NEW endpoint, NEW source, NEW sequence,
           NEW previous, NEW evidence, NEW peer,
           EventArguments(endpoint, source, sequence, previous),
           EvidenceValid(evidence), Streamable(evidence, output),
           ChunkCount(output) <= MaxChunks
    PROVE  LET requests == OutputStream(endpoint, source, sequence, previous, evidence, output)
           IN  /\ Len(requests) = ChunkCount(output)
               /\ AcceptedAsSent(requests, output, peer)
               /\ sequence = 1 /\ previous = None => ChainValid(EventsOf(requests))
<1>1. PICK requests :
          requests = OutputStream(endpoint, source, sequence, previous, evidence, output)
  OBVIOUS
<1>2. sequence \in Nat
  BY DEF EventArguments
<1>3. IsOutputStream(requests, endpoint, source, sequence, previous, evidence, output)
  BY <1>1, <1>2, OutputStreamIsOne
<1>4. Len(requests) = ChunkCount(output)
  BY <1>3 DEF IsOutputStream
<1>5. /\ AcceptedAsSent(requests, output, peer)
      /\ sequence = 1 /\ previous = None => ChainValid(EventsOf(requests))
  BY <1>3, LinkedRequestsAreAccepted
<1> QED
  BY <1>1, <1>4, <1>5, Zenon

-----------------------------------------------------------------------------
(***************************************************************************)
(* The event hash is of every field of the event.                          *)
(***************************************************************************)
LEMMA EventsByHash ==
    ASSUME NEW endpoint, NEW source, NEW sequence, NEW previous, NEW evidence,
           NEW endpoint2, NEW source2, NEW sequence2, NEW previous2, NEW evidence2,
           MakeEvent(endpoint, source, sequence, previous, evidence).event_hash
             = MakeEvent(endpoint2, source2, sequence2, previous2, evidence2).event_hash
    PROVE  MakeEvent(endpoint, source, sequence, previous, evidence)
             = MakeEvent(endpoint2, source2, sequence2, previous2, evidence2)
<1> DEFINE Identity(e, s, n, h, v) ==
               [protocol |-> Protocol, endpoint_id |-> e, source_id |-> s, sequence |-> n,
                previous_event_hash |-> h, evidence |-> WithoutNone(v)]
           i == Identity(endpoint, source, sequence, previous, evidence)
           j == Identity(endpoint2, source2, sequence2, previous2, evidence2)
<1>1. /\ MakeEvent(endpoint, source, sequence, previous, evidence).event_hash
            = Sha256(<<Sha256(i), i>>)
      /\ MakeEvent(endpoint2, source2, sequence2, previous2, evidence2).event_hash
            = Sha256(<<Sha256(j), j>>)
  BY DEF MakeEvent
<1>2. i = j
  <2> HIDE DEF i, j
  <2>1. Sha256(<<Sha256(i), i>>).of = Sha256(<<Sha256(j), j>>).of
    BY <1>1
  <2>2. <<Sha256(i), i>> = <<Sha256(j), j>>
    BY <2>1 DEF Sha256
  <2> QED BY <2>2
<1>3. /\ i.endpoint_id = endpoint /\ i.source_id = source /\ i.sequence = sequence
      /\ i.previous_event_hash = previous /\ i.evidence = WithoutNone(evidence)
      /\ j.endpoint_id = endpoint2 /\ j.source_id = source2 /\ j.sequence = sequence2
      /\ j.previous_event_hash = previous2 /\ j.evidence = WithoutNone(evidence2)
  OBVIOUS
<1>4. /\ endpoint = endpoint2 /\ source = source2 /\ sequence = sequence2
      /\ previous = previous2 /\ WithoutNone(evidence) = WithoutNone(evidence2)
  <2> HIDE DEF i, j
  <2> QED BY <1>2, <1>3
<1> QED BY <1>4 DEF MakeEvent

(***************************************************************************)
(* An accepted request's event is make_event's for valid evidence, whose   *)
(* digest is the digest of the output sent with it.                        *)
(***************************************************************************)
LEMMA AcceptedIsMade ==
    ASSUME NEW v, NEW peer, Accepted(v, peer)
    PROVE  \E endpoint, source, sequence, previous, evidence :
               /\ EventArguments(endpoint, source, sequence, previous)
               /\ Canonical(v, peer) = MakeEvent(endpoint, source, sequence, previous, evidence)
               /\ EvidenceValid(WithoutNone(evidence))
               /\ WithoutNone(evidence).digest = Sha256(v.output_base64.of)
<1>1. CASE FromWindows(v)
  <2> DEFINE raw == v.event
             e == WindowsEvidence(v)
             chained == ChainFields \subseteq DOMAIN raw
             s == IF chained THEN raw.source_id ELSE WindowsSource(Lower(raw.id))
             n == IF chained THEN raw.sequence ELSE 1
             h == IF chained THEN raw.previous_event_hash ELSE None
             made == MakeEvent(peer, s, n, h, e)
  <2>1. Canonical(v, peer) = made
    BY <1>1 DEF Canonical, WindowsEvent
  <2>2. EventValid(made) /\ WindowsValid(v)
    BY <1>1 DEF Accepted, WindowsEvent
  <2>3. /\ made.endpoint_id = peer /\ made.source_id = s /\ made.sequence = n
        /\ made.previous_event_hash = h /\ made.evidence = WithoutNone(e)
    <3> HIDE DEF e, s, n, h
    <3> QED BY DEF MakeEvent
  <2>4. EventArguments(peer, s, n, h) /\ EvidenceValid(WithoutNone(e))
    <3> HIDE DEF made, e, s, n, h
    <3> QED BY <2>2, <2>3 DEF EventValid
  <2>5. e.digest = Lower(v.output_sha256) /\ "digest" \in DOMAIN e
    BY DEF WindowsEvidence, StreamFields
  <2>6. Lower(v.output_sha256) = Sha256(v.output_base64.of)
    BY <2>2 DEF WindowsValid, Decodes
  <2>7. WithoutNone(e).digest = e.digest
    <3> HIDE DEF e
    <3> QED BY <2>5 DEF WithoutNone
  <2> HIDE DEF made, e, s, n, h
  <2> QED BY <2>1, <2>4, <2>5, <2>6, <2>7 DEF made
<1>2. CASE ~FromWindows(v)
  <2> DEFINE raw == v.event
  <2>1. EventValid(raw) /\ Describes(raw.evidence, v.output_base64.of)
    BY <1>2 DEF Accepted
  <2>2. Canonical(v, peer) = MakeEvent(raw.endpoint_id, raw.source_id, raw.sequence,
                                       raw.previous_event_hash, raw.evidence)
    BY <1>2 DEF Canonical, Remade
  <2>3. EvidenceValid(raw.evidence)
        /\ EventArguments(raw.endpoint_id, raw.source_id, raw.sequence, raw.previous_event_hash)
    BY <2>1 DEF EventValid
  <2>4. EvidenceValid(WithoutNone(raw.evidence))
        /\ WithoutNone(raw.evidence).digest = raw.evidence.digest
    <3>1. "digest" \in DOMAIN raw.evidence
      BY <2>3 DEF EvidenceValid, RequiredFields
    <3> HIDE DEF raw
    <3> QED BY <2>3, <3>1, CleanedEvidence
  <2>5. raw.evidence.digest = Sha256(v.output_base64.of)
    BY <2>1 DEF Describes
  <2> HIDE DEF raw
  <2> QED BY <2>2, <2>3, <2>4, <2>5
<1> QED BY <1>1, <1>2

(***************************************************************************)
(* One hash, one event, one output: requests that are accepted, whatever   *)
(* their form and who sends them, and yield the same event hash, yield the *)
(* same event and carry the same output.  ingest and the spools take equal *)
(* hashes for a repetition.                                                *)
(***************************************************************************)
THEOREM HashesCommit ==
    ASSUME NEW v, NEW peer, Accepted(v, peer), NEW v2, NEW peer2, Accepted(v2, peer2),
           Canonical(v, peer).event_hash = Canonical(v2, peer2).event_hash
    PROVE  /\ Canonical(v, peer) = Canonical(v2, peer2)
           /\ v.output_base64.of = v2.output_base64.of
<1>1. PICK endpoint, source, sequence, previous, evidence :
          /\ Canonical(v, peer) = MakeEvent(endpoint, source, sequence, previous, evidence)
          /\ WithoutNone(evidence).digest = Sha256(v.output_base64.of)
  BY AcceptedIsMade
<1>2. PICK endpoint2, source2, sequence2, previous2, evidence2 :
          /\ Canonical(v2, peer2) = MakeEvent(endpoint2, source2, sequence2, previous2, evidence2)
          /\ WithoutNone(evidence2).digest = Sha256(v2.output_base64.of)
  BY AcceptedIsMade
<1>3. Canonical(v, peer) = Canonical(v2, peer2)
  BY <1>1, <1>2, EventsByHash
<1>4. /\ Canonical(v, peer).evidence = WithoutNone(evidence)
      /\ Canonical(v2, peer2).evidence = WithoutNone(evidence2)
  BY <1>1, <1>2 DEF MakeEvent
<1>5. Sha256(v.output_base64.of).of = Sha256(v2.output_base64.of).of
  BY <1>1, <1>2, <1>3, <1>4
<1> QED BY <1>3, <1>5 DEF Sha256
=============================================================================
