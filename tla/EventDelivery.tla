---------------------------- MODULE EventDelivery ----------------------------
(***************************************************************************)
(* What BatchProcessor promises its caller, without channels, batches or   *)
(* tasks: an offered event is accepted or refused once; an accepted event  *)
(* is handled at most once, or given up, never both.                       *)
(***************************************************************************)
CONSTANTS
    Events,
    Results   \* the ways an event may be handled

VARIABLE status   \* of each event: "new", "pending", "refused", "given_up",
                  \* or the result it was handled with

DeliveryInit == status = [e \in Events |-> "new"]

Settle(e, from, to) == status[e] = from /\ status' = [status EXCEPT ![e] = to]

Accept(e) == Settle(e, "new", "pending")

Refuse(e) == Settle(e, "new", "refused")

Handle(e) == \E result \in Results : Settle(e, "pending", result)

\* A batch is given up as a whole.
GiveUp(es) ==
    /\ \A e \in es : status[e] = "pending"
    /\ status' = [e \in Events |-> IF e \in es THEN "given_up" ELSE status[e]]

DeliveryNext ==
    \/ \E e \in Events : Accept(e) \/ Refuse(e) \/ Handle(e)
    \/ \E es \in SUBSET Events : GiveUp(es)

DeliverySpec == DeliveryInit /\ [][DeliveryNext]_status
=============================================================================
