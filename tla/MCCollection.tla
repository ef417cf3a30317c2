---------------------------- MODULE MCCollection ----------------------------
(***************************************************************************)
(* Collecting one invoice from either of two starts, each with the actors  *)
(* that it is about.  From an empty table, two POST /pay requests with one *)
(* key, which may expire, run beside create, PATCH and send, and one       *)
(* webhook request at a time; a card may be declined.  From a sent         *)
(* invoice, two webhook requests and two refunds run at a time, without    *)
(* keys and declines.                                                      *)
(***************************************************************************)
EXTENDS MCPayments

VARIABLE start

CollectionInit == \/ start = "empty" /\ Init
                  \/ start = "sent" /\ SentInit

(* Bounds on the steps of each. *)
KeysAndOneWebhook ==
  /\ \A p \in Payment : checkout'[p].pc # "idle" => checkout'[p].key \in Key
  /\ Cardinality({w \in Worker : worker'[w].pc # "idle"}) <= 1
  /\ \A r \in Refund : refund'[r].pc = "idle"

NoKeysNoDeclines ==
  \A p \in Payment : /\ checkout'[p].key = NoKey
                     /\ event'[Ev("payment_failed", p)] = "none"

CollectionNext ==
  /\ Next
  /\ start = "empty" => KeysAndOneWebhook
  /\ start = "sent" => NoKeysNoDeclines
  /\ UNCHANGED start

CollectionSpec == CollectionInit /\ [][CollectionNext]_<<vars, start>>
=============================================================================
