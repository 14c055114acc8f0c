---------------------------- MODULE SourceLedger ----------------------------
(***************************************************************************)
(* What the central collector promises its clients, without files, locks,  *)
(* handlers or crashes.  Every source owns one append-only ledger of       *)
(* events, is bound once and for ever to the client certificate that       *)
(* opened it, and an acknowledged event is an entry of its source's        *)
(* ledger.  CollectorStore is shown to implement this module.              *)
(***************************************************************************)
EXTENDS Naturals, Sequences

CONSTANTS Source,   \* the source_id values
          Cert,     \* client certificate fingerprints
          Event,    \* canonical events
          Genesis,  \* the previous_event_hash of a source's first event
          NoFile,   \* owner of a source the collector has never opened
          Unbound   \* owner of a source left by a collector without bindings

VARIABLES owner,    \* owner[s]: the certificate s is bound to
          ledger,   \* ledger[s]: the accepted events of s, in order
          acked     \* the events some client holds a positive answer for

(***************************************************************************)
(* The hash a new event of source s must name as its predecessor.          *)
(***************************************************************************)
HeadHash(s) ==
    IF ledger[s] = <<>> THEN Genesis ELSE ledger[s][Len(ledger[s])].event_hash

Init ==
    /\ owner \in [Source -> {NoFile, Unbound}]
    /\ ledger = [s \in Source |-> <<>>]
    /\ acked = {}

(***************************************************************************)
(* A certificate claims a source nobody has opened before.                 *)
(***************************************************************************)
Bind(s, c) ==
    /\ owner[s] = NoFile
    /\ owner' = [owner EXCEPT ![s] = c]
    /\ UNCHANGED ledger

(***************************************************************************)
(* An event joins the ledger of its bound source as its next link.         *)
(***************************************************************************)
AppendEvent(e) ==
    LET s == e.source_id IN
    /\ owner[s] \in Cert
    /\ e.sequence = Len(ledger[s]) + 1
    /\ e.previous_event_hash = HeadHash(s)
    /\ ledger' = [ledger EXCEPT ![s] = Append(@, e)]
    /\ UNCHANGED owner

(***************************************************************************)
(* A client learns that its event was accepted: the first time or again.   *)
(***************************************************************************)
Acknowledge(e) ==
    /\ \E i \in DOMAIN ledger[e.source_id] : ledger[e.source_id][i] = e
    /\ acked' = acked \cup {e}
    /\ UNCHANGED <<owner, ledger>>

LedgerStep ==
    \/ \E s \in Source, c \in Cert : Bind(s, c)
    \/ \E e \in Event : AppendEvent(e)

Next ==
    \/ LedgerStep /\ UNCHANGED acked
    \/ \E e \in Event : Acknowledge(e)

(***************************************************************************)
(* LedgerSpec speaks of bindings and ledgers only; Spec adds what an       *)
(* acknowledgement is worth.                                               *)
(***************************************************************************)
LedgerSpec == Init /\ [][LedgerStep]_<<owner, ledger>>

Spec == Init /\ [][Next]_<<owner, ledger, acked>>
=============================================================================
