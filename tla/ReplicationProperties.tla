----------------------- MODULE ReplicationProperties -----------------------
(***************************************************************************)
(* What replication is checked for.  A property that needs one possible    *)
(* leader, or no fault, says so; the runs and the theorems choose the      *)
(* constants accordingly.                                                  *)
(***************************************************************************)
EXTENDS Replication

TypeOK ==
  /\ ledger \in [Node -> Table]
  /\ logHead \in Nat
  /\ term \in Nat
  /\ lease \in [holder : Electable \cup {None}, term : Nat, live : BOOLEAN]
  /\ members \subseteq Node
  /\ status \in [Node -> [role : Role, leader : Electable \cup {None}, term : Nat]]
  /\ alive \subseteq Node
  /\ pc \in [Request -> PC]
  /\ home \in [Request -> Node \cup {None}]
  /\ reqTerm \in [Request -> Nat]
  /\ nextIndex \in [Request -> Nat]
  /\ idx \in [Request -> Nat]
  /\ fol \in [Request -> SUBSET Node]
  /\ waiting \in [Request -> SUBSET Node]
  /\ acks \in [Request -> SUBSET Node]
  /\ resp \in [Request -> Response]
  /\ gone \subseteq Request
  /\ appendNet \subseteq Request \X Node
  /\ decideNet \subseteq Request \X Node
  /\ cuPc \in [Node -> {"idle", "ask", "append", "finalize"}]
  /\ cuSrc \in [Node -> Electable \cup {None}]
  /\ cuFrom \in [Node -> Nat]
  /\ cuEntries \in [Node -> SUBSET Entry]
  /\ faults \in 0 .. MaxFaults

\* A log index names one payment: rows of two nodes with the same log_index are
\* rows of the same payment, whoever led when it was assigned (AdvanceLogHead).
IndexUnique ==
  \A m, n \in Node, p, q \in PaymentID :
    /\ Exists(ledger[m], p)
    /\ Exists(ledger[n], q)
    /\ ledger[m][p].log_index = ledger[n][q].log_index
    => p = q

\* No payment is final with one status on one node and another on another,
\* whatever commits, cancels and catch-ups crossed (processPaymentRequest,
\* stripeCancelCheckoutSessionHandler); needs a single possible leader.
Agreement ==
  \A m, n \in Node, p \in PaymentID :
    IsFinal(ledger[m], p) /\ IsFinal(ledger[n], p)
      => ledger[m][p].status = ledger[n][p].status

\* A payment and a cancellation of the same payment never both answer OK,
\* though the cancel handler takes no lock; needs a single possible leader.
NeverPaidAndCanceled ==
  \A r, q \in Request :
    /\ pid(r) = pid(q)
    /\ resp[r] = "OK"
    /\ resp[q] = "OK"
    => op(r) = op(q)

\* All tables that hold a payment hold it at the same log_index; needs a
\* single possible leader and requests that all go through lockPaymentID.
IndexAgreement ==
  \A m, n \in Node, p \in PaymentID :
    Exists(ledger[m], p) /\ Exists(ledger[n], p)
      => ledger[m][p].log_index = ledger[n][p].log_index

\* The handler of r gave payment p a log index, and its node has it as s.
DecidedBy(r, p, s) ==
  /\ pid(r) = p
  /\ idx[r] > 0
  /\ row(r).status = s
  /\ s = "CANCELED" <=> op(r) = "cancel"

\* The terms of two requests tell their leaders apart, unless they led under a
\* lease whose acquisition failed halfway, which has term 0 (AcquireFails).
TwoTerms(q, r) == reqTerm[q] # reqTerm[r] \/ reqTerm[q] = 0

\* Two nodes that finalized a payment differently got that from two requests for
\* it, handled by two nodes in two terms: one handler never divides the cluster,
\* and no two of one term do, whatever is lost, late, repeated or cut short.
DivergenceNeedsTwoTerms ==
  \A m, n \in Node, p \in PaymentID :
    /\ IsFinal(ledger[m], p)
    /\ IsFinal(ledger[n], p)
    /\ ledger[m][p].status # ledger[n][p].status
    => \E q, r \in Request :
         /\ DecidedBy(q, p, ledger[m][p].status)
         /\ DecidedBy(r, p, ledger[n][p].status)
         /\ home[q] # home[r]
         /\ TwoTerms(q, r)

\* A payment with two log indexes was paid through two nodes in two terms, or
\* a cancellation of it got a log index too: the mutex of lockPaymentID and the
\* look-up under it keep the payments of one node to one index, whatever is
\* lost, late, repeated or cut short.
IndexSplitNeedsTwoTerms ==
  \A m, n \in Node, p \in PaymentID :
    /\ Exists(ledger[m], p)
    /\ Exists(ledger[n], p)
    /\ ledger[m][p].log_index # ledger[n][p].log_index
    => \/ \E r \in Request : pid(r) = p /\ op(r) = "cancel" /\ idx[r] > 0
       \/ \E q, r \in Request :
            /\ pid(q) = p /\ idx[q] = ledger[m][p].log_index
            /\ pid(r) = p /\ idx[r] = ledger[n][p].log_index
            /\ home[q] # home[r]
            /\ TwoTerms(q, r)

\* When a handler reports a decision, the payment is in the tables of more than
\* half of the nodes it replicated to, itself included (ReplicateWithQuorum).
QuorumHolds ==
  \A r \in Request :
    pc[r] = "notify" =>
      LET cluster == fol[r] \cup {home[r]}
      IN  2 * Cardinality({n \in cluster : Exists(ledger[n], pid(r))}) > Cardinality(cluster)

\* What was answered OK stays in the table of the node that answered, through
\* later requests, late messages, catch-ups and crashes.
OkIsDurable ==
  \A r \in Request : resp[r] = "OK" => row(r).status = Outcome(op(r))

\* Every commit or cancel under way, and every catch-up entry still to be
\* applied, is the final row of some node: no node is told a decision that
\* nobody has stored (service.go sends after its local update, the catch-up
\* handler lists stored rows).
DecisionBacked ==
  /\ \A r \in Request, f \in Node :
       <<r, f>> \in decideNet => row(r).status = Outcome(op(r))
  /\ \A n \in Node : \A e \in cuEntries[n] :
       \E m \in Node : EntryOf(ledger[m], e.payment_id) = e

\* A payment that got a log index and was answered while its client waited is
\* final at its node, whatever its row had become by then: only a hang-up, a crash
\* or a cancellation leaves a row PENDING, on which every later payment of that
\* id is refused (processPaymentRequest).
AnsweredIsFinal ==
  \A r \in Request :
    op(r) = "pay" /\ pc[r] = "done" /\ idx[r] > 0 /\ r \notin gone
      => row(r).status \in FinalStatus

\* The abstract specification: one decision per deciding node, learned by the
\* others, never taken back (PaymentLedger, with the log index left out).
Promise == INSTANCE PaymentLedger WITH
             Decider <- Electable,
             status  <- [n \in Node |-> [p \in PaymentID |-> ledger[n][p].status]]

\* Every store call of the code is an append, a decision of a node that has
\* been leader, or the copy of a decision some node has stored.
ImplementsPromise == Promise!Spec

\* A request whose handler runs is answered, unless its node dies: no lock, no
\* waiting for followers and no cancelled context holds it for ever.
RequestAnswered ==
  \A r \in Request : pc[r] \in Holding ~> pc[r] \in {"done", "lost"}

\* What n has finalized reaches every polling node f: f finalizes it too,
\* or f finalizes something at that log_index or later, from where it will ask the next time
\* (readLocalCommittedHead), or a node dies.
CatchUpProgress ==
  \A n \in Electable, f \in Polling, p \in PaymentID :
    IsFinal(ledger[n], p)
      ~> \/ IsFinal(ledger[f], p)
         \/ \E h \in FinalIndices(ledger[f]) : h >= ledger[n][p].log_index
         \/ alive # Node

(***************************************************************************)
(* The inductive invariants behind these.                                  *)
(***************************************************************************)

\* Log index i was given to a request about payment p.
Issued(p, i) == i > 0 /\ \E r \in Request : pid(r) = p /\ idx[r] = i

IndexInv ==
  /\ \A r \in Request :
       /\ idx[r] <= logHead
       /\ pc[r] \in {"idle", "check", "head", "verify", "advance"} => idx[r] = 0
       /\ pc[r] \in {"members", "replicate", "append", "notify"} => idx[r] > 0
       /\ \A f \in Node : <<r, f>> \in appendNet => idx[r] > 0
  /\ \A r, q \in Request : idx[r] = idx[q] /\ idx[r] > 0 => r = q
  /\ \A n \in Node, p \in PaymentID :
       Exists(ledger[n], p) => Issued(p, ledger[n][p].log_index)
  /\ \A n \in Node : \A e \in cuEntries[n] : Issued(e.payment_id, e.log_index)

\* The handler of r has stored, or found, the outcome r asks for.
Decided(r) ==
  \/ pc[r] = "notify"
  \/ resp[r] = "OK"
  \/ \E f \in Node : <<r, f>> \in decideNet

DecisionInv ==
  /\ \A n \in Node : status[n].role = "LEADER" => n \in Electable
  /\ \A r \in Request :
       /\ pc[r] # "idle" => home[r] \in Electable
       /\ Decided(r) => pc[r] # "idle" /\ row(r).status = Outcome(op(r))
  /\ \A n \in Node : \A e \in cuEntries[n] :
       \E m \in Node : EntryOf(ledger[m], e.payment_id) = e

\* A final row, wherever it is, goes back to the decision of a handler, which
\* the node of that handler still has.
Origins ==
  \A n \in Node, p \in PaymentID :
    IsFinal(ledger[n], p) => \E r \in Request : DecidedBy(r, p, ledger[n][p].status)

\* The handler of r has found no row of its payment and written none yet.
Unwritten == {"head", "verify", "advance", "members", "replicate"}

\* The log index of r is in a table, or on its way to one.
Written(r) ==
  \/ \E n \in Node : Exists(ledger[n], pid(r)) /\ ledger[n][pid(r)].log_index = idx[r]
  \/ \E f \in Node : <<r, f>> \in appendNet

\* Payment p at node h: no cancellation of p has got a log index, and q asks to
\* pay p at h.
Uncanceled(p) == \A r \in Request : pid(r) = p /\ op(r) = "cancel" => idx[r] = 0
Pays(q, p, h) == pid(q) = p /\ op(q) = "pay" /\ pc[q] # "idle" /\ home[q] = h

\* At most one payment of p writes at h, and none is about to once one has.
OneWriter ==
  \A p \in PaymentID, h \in Node : \A q, r \in Request :
    Uncanceled(p) /\ Pays(q, p, h) /\ Pays(r, p, h)
    => /\ pc[q] \in Holding /\ pc[r] \in Holding => q = r
       /\ Written(q) => Exists(ledger[h], p)
       /\ pc[r] \in Unwritten => ~ Written(q)
       /\ Written(q) /\ Written(r) => q = r

\* The terms in which n leads or has handled a request.
TermsOf(n) ==
  UNION {IF lease.holder = n THEN {lease.term} ELSE {},
         IF status[n].role = "LEADER" THEN {status[n].term} ELSE {},
         {reqTerm[r] : r \in {q \in Request : pc[q] # "idle" /\ home[q] = n}}}

\* A term belongs to one node, 0 apart.
TermInv ==
  /\ \A n \in Node : TermsOf(n) \subseteq 0 .. term
  /\ \A m, n \in Node : m # n => TermsOf(m) \cap TermsOf(n) \subseteq {0}

\* While no live process loses its session and no acquisition of the lease fails
\* halfway, whoever acts as leader is leader.
Undisputed ==
  /\ lease.live => lease.holder \in alive
  /\ lease.holder # None => lease.term = term
  /\ \A n \in Node :
       status[n].role = "LEADER" => HoldsLease(n) /\ status[n].term = lease.term
  /\ \A r \in Request :
       /\ pc[r] \in Holding => HoldsLease(home[r]) /\ reqTerm[r] = lease.term
       /\ reqTerm[r] <= term

\* Every process runs, and the lease belongs to a session that lasts.
Running == alive = Node /\ (lease.holder # None => lease.live)

\* Every node has registered, and the handlers past GetFollowerURLs replicate to
\* all the others: none of them read the list before.
Assembled ==
  /\ members = Node
  /\ \A r \in Request :
       pc[r] \in {"replicate", "append", "notify"} => fol[r] = Node \ {home[r]}

(***************************************************************************)
(* What the documents say, and the code does not keep.                     *)
(***************************************************************************)

\* IMPLEMENTATION_PLAN.md:76, of a cluster that fails over: "without ledger
\* divergence".
NoDivergence == Agreement

\* replication-design.md:57: "All committed entries are consistent across a
\* majority of nodes."
CommittedOnMajority ==
  \A n \in Node, p \in PaymentID :
    ledger[n][p].status = "COMMITTED"
      => 2 * Cardinality({m \in Node : Exists(ledger[m], p)}) > Cardinality(Node)

\* MEMBER4_FINAL_DOCUMENTATION.md:17: "Term increases on leadership transition
\* (fencing token)": once an entry of a newer term has a log index, no entry of
\* an older term gets a later one.
FencedTerms ==
  \A r, q \in Request : 0 < idx[r] /\ idx[r] < idx[q] => reqTerm[r] <= reqTerm[q]

\* replication-design.md:9: "all nodes eventually converge to the same ledger
\* state": what the only possible leader has finalized, every node finalizes.
Converges ==
  \A n \in Electable, f \in Node, p \in PaymentID :
    IsFinal(ledger[n], p) ~> IsFinal(ledger[f], p)
=============================================================================
