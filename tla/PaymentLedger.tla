--------------------------- MODULE PaymentLedger ---------------------------
(***************************************************************************)
(* What replication promises about the ledgers, with no mention of leases, *)
(* messages or requests.  A payment is recorded as PENDING at a node, is   *)
(* decided once at a node that may decide, and every other node learns the *)
(* decision from one that has it.  A finalized row never changes.          *)
(***************************************************************************)
EXTENDS Naturals

CONSTANTS Node, PaymentID,
          Decider      \* the nodes that may ever process a payment as leader

VARIABLE status        \* status[n][p]: the status of p in the table of n

FinalStatus == {"COMMITTED", "FAILED", "CANCELED"}

TypeOK == status \in [Node -> [PaymentID -> {"ABSENT", "PENDING"} \cup FinalStatus]]

Init == status = [n \in Node |-> [p \in PaymentID |-> "ABSENT"]]

Record(n, p) ==
  /\ status[n][p] = "ABSENT"
  /\ status' = [status EXCEPT ![n][p] = "PENDING"]

Decide(n, p, s) ==
  /\ n \in Decider
  /\ status[n][p] = "PENDING"
  /\ status' = [status EXCEPT ![n][p] = s]

Learn(n, p, s) ==
  /\ status[n][p] = "PENDING"
  /\ \E m \in Node : status[m][p] = s
  /\ status' = [status EXCEPT ![n][p] = s]

Next == \E n \in Node, p \in PaymentID :
          \/ Record(n, p)
          \/ \E s \in FinalStatus : Decide(n, p, s) \/ Learn(n, p, s)

Spec == Init /\ [][Next]_status

Agree(m, n, p) ==
  status[m][p] \in FinalStatus /\ status[n][p] \in FinalStatus
    => status[m][p] = status[n][p]

\* No two nodes ever finalize a payment differently (CommitByPaymentID,
\* FailByPaymentID, CancelByPaymentID on different nodes).
Agreement == \A m, n \in Node, p \in PaymentID : Agree(m, n, p)

\* While payment p is final at n, its status at n does not change.
FinalIsForever ==
  [][\A n \in Node, p \in PaymentID :
       status[n][p] \in FinalStatus => status'[n][p] = status[n][p]]_status
=============================================================================
