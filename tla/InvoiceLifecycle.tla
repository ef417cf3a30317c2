-------------------------- MODULE InvoiceLifecycle --------------------------
(***************************************************************************)
(* What the invoice table promises to everyone who reads it: how the       *)
(* status of an invoice may evolve, whichever handler, background job or   *)
(* Stripe event writes it.  A draft is never re-entered, a paid invoice    *)
(* stays paid, a cancelled one can only be revived by a payment, and no    *)
(* invoice is ever paid in part.  Only the overdue scan moves several      *)
(* invoices in one step.                                                   *)
(***************************************************************************)
CONSTANT Invoice

VARIABLE status

Flow == [absent         |-> {"draft"},
         draft          |-> {"sent", "cancelled"},
         sent           |-> {"viewed", "overdue", "cancelled", "paid"},
         viewed         |-> {"overdue", "cancelled", "paid"},
         overdue        |-> {"cancelled", "paid"},
         cancelled      |-> {"paid"},
         paid           |-> {}]

Init == status = [i \in Invoice |-> "absent"]

(* One invoice follows an edge of Flow. *)
Move(i) == \E to \in Flow[status[i]] : status' = [status EXCEPT ![i] = to]

(* Any number of unpaid invoices become overdue together. *)
Lapse ==
  \E S \in SUBSET {i \in Invoice : status[i] \in {"sent", "viewed"}} :
    status' = [i \in Invoice |-> IF i \in S THEN "overdue" ELSE status[i]]

Next == Lapse \/ \E i \in Invoice : Move(i)

Spec == Init /\ [][Next]_status
=============================================================================
