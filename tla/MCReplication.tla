--------------------------- MODULE MCReplication ---------------------------
(***************************************************************************)
(* Replication on small instances: up to three nodes, one or two payments, *)
(* two requests.                                                           *)
(***************************************************************************)
EXTENDS ReplicationProperties, TLC

CONSTANTS n1, n2, n3, p1, p2, r1, r2

\* Two payments of the same id, a payment and a cancellation of it, two ids.
JobPayPay    == r1 :> [op |-> "pay", payment_id |-> p1] @@
                r2 :> [op |-> "pay", payment_id |-> p1]
JobPayCancel == r1 :> [op |-> "pay", payment_id |-> p1] @@
                r2 :> [op |-> "cancel", payment_id |-> p1]
JobTwo       == r1 :> [op |-> "pay", payment_id |-> p1] @@
                r2 :> [op |-> "pay", payment_id |-> p2]

\* Of pay_pay: the nodes that may lead, and the payments of one id, are alike.
Alike == Permutations({n1, n2}) \cup Permutations({r1, r2})
=============================================================================
