--------------------------- MODULE MC_EvidenceSpool ---------------------------
(***************************************************************************)
(* Instances of EvidenceSpool for TLC: a chain of two events and an event  *)
(* of another source; the chain is queued by one enqueue_stream call.      *)
(***************************************************************************)
EXTENDS EvidenceSpool, TLC

CONSTANTS p1, p2

Ev(source, sequence) == [source_id |-> source, sequence |-> sequence]

e1 == Ev("s1", 1)
e2 == Ev("s1", 2)
f1 == Ev("s2", 1)

Events == {e1, e2, f1}
Batches == {<<e1, e2>>, <<f1>>}
Chain == {e1, e2}
ChainBatch == {<<e1, e2>>}
Processes == Permutations({p1, p2})
=============================================================================
