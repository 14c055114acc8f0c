---------------------------- MODULE SharedLemmas ----------------------------
(***************************************************************************)
(* Lemmas for several proofs: induction over the natural numbers, for      *)
(* EvidenceProtocolProofs and SessionViewerProofs, and the prefixes of     *)
(* sequences, which LinuxTransportProofs and MacTransportProofs compare    *)
(* the histories of evidence chains by.                                    *)
(***************************************************************************)
EXTENDS Naturals, Sequences, SequencesExt, SequenceTheorems, WellFoundedInduction, TLAPS

(***************************************************************************)
(* Induction over the natural numbers, as a statement about sets: the      *)
(* numbers that are not in S have no least one.                            *)
(***************************************************************************)
LEMMA Induction ==
    ASSUME NEW S, 0 \in S, \A n \in Nat : n \in S => n + 1 \in S
    PROVE  Nat \subseteq S
<1> DEFINE T == Nat \ S
           R == OpToRel(<, Nat)
<1>1. \A a, b \in Nat : a < b => <<a, b>> \in R
  BY DEF OpToRel
<1>2. IsWellFoundedOn(R, Nat)
  BY ONLY NatLessThanWellFounded, Zenon
<1> HIDE DEF R
<1> SUFFICES ASSUME T # {} PROVE FALSE
  OBVIOUS
<1>3. PICK x \in T : \A y \in T : ~ (<<y, x>> \in R)
  <2>1. T \subseteq Nat
    OBVIOUS
  <2> HIDE DEF T
  <2> QED
    BY <1>2, <2>1, WFMin, Zenon
<1>4. x \in Nat /\ x # 0 /\ x - 1 \in Nat /\ x - 1 < x /\ x - 1 + 1 = x
  BY <1>3
<1>5. x - 1 \in S
  BY <1>1, <1>3, <1>4
<1> QED
  BY <1>3, <1>4, <1>5

(***************************************************************************)
(* Prefixes, element by element.                                           *)
(***************************************************************************)
LEMMA PrefixByIndex ==
    ASSUME NEW S, NEW s \in Seq(S), NEW t \in Seq(S)
    PROVE  IsPrefix(s, t) <=> Len(s) <= Len(t) /\ \A i \in 1 .. Len(s) : s[i] = t[i]
<1>1. ASSUME Len(s) <= Len(t)
      PROVE  /\ SubSeq(s, 1, Len(s)) = s
             /\ SubSeq(t, 1, Len(s)) \in Seq(S) /\ Len(SubSeq(t, 1, Len(s))) = Len(s)
             /\ \A i \in 1 .. Len(s) : SubSeq(t, 1, Len(s))[i] = t[i]
  <2>1. Len(s) \in 0 .. Len(t) /\ Len(s) \in Nat
    BY <1>1
  <2> QED
    BY <2>1, SubSeqFull
<1>2. ASSUME NEW u \in Seq(S), Len(u) = Len(s)
      PROVE  s = u <=> \A i \in 1 .. Len(s) : s[i] = u[i]
  BY <1>2, SeqEqual
<1> QED
  BY <1>1, <1>2 DEF IsPrefix

(***************************************************************************)
(* Being a prefix is transitive.                                           *)
(***************************************************************************)
LEMMA PrefixTransitive ==
    ASSUME NEW S, NEW s \in Seq(S), NEW t \in Seq(S), NEW u \in Seq(S),
           IsPrefix(s, t), IsPrefix(t, u)
    PROVE  IsPrefix(s, u)
<1>1. Len(s) <= Len(t) /\ \A i \in 1 .. Len(s) : s[i] = t[i]
  BY PrefixByIndex
<1>2. Len(t) <= Len(u) /\ \A i \in 1 .. Len(t) : t[i] = u[i]
  BY PrefixByIndex
<1>3. Len(s) <= Len(u) /\ \A i \in 1 .. Len(s) : s[i] = u[i]
  BY <1>1, <1>2
<1> QED
  BY <1>3, PrefixByIndex

(***************************************************************************)
(* A sequence is a prefix of itself, and the empty one of any sequence.    *)
(***************************************************************************)
LEMMA PrefixReflexive ==
    ASSUME NEW S, NEW s \in Seq(S)
    PROVE  IsPrefix(s, s) /\ IsPrefix(<<>>, s)
<1>1. <<>> \in Seq(S) /\ Len(<<>>) = 0 /\ Len(s) \in Nat
  OBVIOUS
<1>2. Len(<<>>) <= Len(s) /\ \A i \in 1 .. Len(<<>>) : <<>>[i] = s[i]
  BY <1>1
<1>3. IsPrefix(<<>>, s)
  BY <1>1, <1>2, PrefixByIndex, Zenon
<1>4. IsPrefix(s, s)
  BY <1>1, PrefixByIndex
<1> QED
  BY <1>3, <1>4

(***************************************************************************)
(* Prefixes(t) is the set of the prefixes of t.                            *)
(***************************************************************************)
LEMMA PrefixesAreSo ==
    ASSUME NEW S, NEW s \in Seq(S), NEW t \in Seq(S)
    PROVE  s \in Prefixes(t) <=> IsPrefix(s, t)
<1>1. ASSUME NEW l \in 0 .. Len(t), s = SubSeq(t, 1, l)
      PROVE  IsPrefix(s, t)
  <2>1. Len(s) = l /\ \A i \in 1 .. l : s[i] = t[i]
    BY <1>1
  <2> QED
    BY <2>1, PrefixByIndex
<1>2. ASSUME IsPrefix(s, t)
      PROVE  Len(s) \in 0 .. Len(t) /\ s = SubSeq(t, 1, Len(s))
  <2>1. SubSeq(s, 1, Len(s)) = s
    BY SubSeqFull
  <2> QED
    BY <1>2, <2>1 DEF IsPrefix
<1> QED
  BY <1>1, <1>2 DEF Prefixes

(***************************************************************************)
(* All but the last element of a sequence are a prefix of it.              *)
(***************************************************************************)
LEMMA FrontIsPrefix ==
    ASSUME NEW S, NEW e \in Seq(S), e # <<>>
    PROVE  IsPrefix(Front(e), e)
<1>1. Len(e) \in Nat /\ Len(e) >= 1
  BY EmptySeq
<1>2. Len(e) - 1 \in 0 .. Len(e)
  BY <1>1
<1>3. SubSeq(e, 1, Len(e) - 1) \in Seq(S)
  BY <1>1
<1>4. SubSeq(e, 1, Len(e) - 1) \in Prefixes(e)
  BY <1>2, Zenon DEF Prefixes
<1> QED
  BY <1>3, <1>4, PrefixesAreSo DEF Front
=============================================================================
