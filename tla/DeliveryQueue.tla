---------------------------- MODULE DeliveryQueue ----------------------------
(***************************************************************************)
(* What a durable forward spool promises its producer: whatever is put in  *)
(* stays in until the collector has accepted it.  Delivery is at least     *)
(* once: an event may be offered again after it was settled.               *)
(* EvidenceSpool is shown to implement this module; the transports build   *)
(* on it.                                                                  *)
(***************************************************************************)
CONSTANT Event

VARIABLES outbox,        \* events the spool still owes the collector
          acknowledged,  \* events the spool knows were accepted
          accepted       \* events the collector has accepted

Init ==
    /\ outbox = {}
    /\ acknowledged = {}
    /\ accepted = {}

Enqueue(e) ==
    /\ outbox' = outbox \cup {e}
    /\ UNCHANGED <<acknowledged, accepted>>

Deliver(e) ==
    /\ e \in outbox
    /\ accepted' = accepted \cup {e}
    /\ UNCHANGED <<outbox, acknowledged>>

(***************************************************************************)
(* The acknowledgement of e takes it, or one of its copies, out.           *)
(***************************************************************************)
Settle(e) ==
    /\ e \in outbox
    /\ e \in accepted
    /\ acknowledged' = acknowledged \cup {e}
    /\ outbox' \in {outbox, outbox \ {e}}
    /\ UNCHANGED accepted

Next == \E e \in Event : Enqueue(e) \/ Deliver(e) \/ Settle(e)

Spec == Init /\ [][Next]_<<outbox, acknowledged, accepted>>
=============================================================================
