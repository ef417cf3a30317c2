----------------------------- MODULE MCPayments -----------------------------
(* A reachable state to start from: every invoice sent, its e-mail queued,  *)
(* with the largest total.                                                  *)
EXTENDS Payments, TLC

SentInit ==
  /\ invoice = [i \in Invoice |-> [status |-> "sent", pastDue |-> FALSE,
                                   total |-> Max(Total)]]
  /\ editing = {}
  /\ email = [i \in Invoice |-> "queued"]
  /\ owed = [i \in Invoice |-> [e \in InvoiceEvent |-> 0]]
  /\ fired = [i \in Invoice |-> [e \in InvoiceEvent |-> 0]]
  /\ PaymentInit

SentSpec == SentInit /\ [][Next]_vars

(* Webhook and refund requests are alike. *)
Alike == Permutations(Worker) \cup Permutations(Refund)
=============================================================================
