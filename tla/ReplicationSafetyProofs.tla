---------------------- MODULE ReplicationSafetyProofs ----------------------
(***************************************************************************)
(* The safety properties of Replication, from two inductive invariants:    *)
(* IndexInv follows a log index from the log head to the tables, and       *)
(* DecisionInv a decision from the node that made it to the nodes that     *)
(* learn it.  Both rest on one lemma, StoreStep: what a step may do to the *)
(* tables.                                                                 *)
(***************************************************************************)
EXTENDS ReplicationProofs

(***************************************************************************)
(* The two changes a table knows.                                          *)
(***************************************************************************)

Appended(n, p, i) ==
  /\ ~ Exists(ledger[n], p)
  /\ ledger' = [ledger EXCEPT ![n] = [@ EXCEPT ![p] = [status |-> "PENDING", log_index |-> i]]]

Finalized(n, p, s) ==
  /\ ledger[n][p].status = "PENDING"
  /\ ledger' = [ledger EXCEPT ![n] = [@ EXCEPT ![p].status = s]]

LEMMA AppendStep ==
  ASSUME TypeOK, NEW n \in Node, NEW p \in PaymentID, NEW i,
         SetTable(n, AppendPending(ledger[n], p, i))
  PROVE  ledger' = ledger \/ Appended(n, p, i)
BY DEF TypeOK, SetTable, AppendPending, Appended

LEMMA FinalizeStep ==
  ASSUME TypeOK, NEW n \in Node, NEW p \in PaymentID, NEW s,
         SetTable(n, FinalizeByPaymentID(ledger[n], p, s))
  PROVE  ledger' = ledger \/ Finalized(n, p, s)
BY DEF TypeOK, SetTable, FinalizeByPaymentID, Finalized

\* The rows after such a change.
LEMMA AppendedRows ==
  ASSUME TypeOK, NEW n \in Node, NEW p \in PaymentID, NEW i \in Nat, Appended(n, p, i),
         NEW m \in Node, NEW q \in PaymentID
  PROVE  \/ ledger'[m][q] = ledger[m][q]
         \/ /\ m = n /\ q = p
            /\ ~ Exists(ledger[m], q)
            /\ ledger'[m][q] = [status |-> "PENDING", log_index |-> i]
BY DEF TypeOK, Table, Appended

LEMMA FinalizedRows ==
  ASSUME TypeOK, NEW n \in Node, NEW p \in PaymentID, NEW s \in FinalStatus,
         Finalized(n, p, s), NEW m \in Node, NEW q \in PaymentID
  PROVE  \/ ledger'[m][q] = ledger[m][q]
         \/ /\ m = n /\ q = p
            /\ ledger[m][q].status = "PENDING"
            /\ ledger'[m][q].status = s
            /\ ledger'[m][q].log_index = ledger[m][q].log_index
BY DEF TypeOK, Table, Row, Finalized

\* A handler at n is about to decide s for p.
Decides(n, p, s) ==
  \E r \in Request : /\ pc[r] = "append"
                     /\ home[r] = n /\ pid(r) = p
                     /\ s = "CANCELED" <=> op(r) = "cancel"
                     /\ s # "FAILED" => QuorumReached(r)

\* A decision s about p that node n may store.
Allowed(n, p, s) ==
  /\ s \in FinalStatus
  /\ Decides(n, p, s) \/ \E m \in Node : ledger[m][p].status = s

StoreSteps ==
  \/ ledger' = ledger
  \/ \E n \in Node, p \in PaymentID, i \in Nat : Issued(p, i) /\ Appended(n, p, i)
  \/ \E n \in Node, p \in PaymentID, s \in FinalStatus :
       Allowed(n, p, s) /\ Finalized(n, p, s)

LEMMA StoreStep ==
  ASSUME TypeOK, IndexInv, DecisionInv, [Next]_vars
  PROVE  StoreSteps
<1> USE DEF StoreSteps
<1>1. ASSUME NEW r \in Request, Replicate(r) PROVE StoreSteps
  <2>1. CASE r \in gone
    BY <1>1, <2>1 DEF Replicate
  <2>2. CASE r \notin gone
    <3>1. home[r] \in Node
      BY <1>1, ReplicationAssumption DEF DecisionInv, Replicate
    <3>2. idx[r] \in Nat /\ Issued(pid(r), idx[r])
      BY <1>1 DEF TypeOK, IndexInv, Replicate, Issued
    <3>3. SetTable(home[r], AppendPending(ledger[home[r]], pid(r), idx[r]))
      BY <1>1, <2>2 DEF Replicate
    <3> QED
      BY <3>1, <3>2, <3>3, AppendStep, JobType
  <2> QED
    BY <2>1, <2>2
<1>2. ASSUME NEW r \in Request, NEW f \in Node, DeliverAppend(r, f) PROVE StoreSteps
  <2>1. idx[r] \in Nat /\ Issued(pid(r), idx[r])
    BY <1>2 DEF TypeOK, IndexInv, DeliverAppend, Issued
  <2> QED
    BY <1>2, <2>1, AppendStep, JobType DEF DeliverAppend
<1>3. ASSUME NEW r \in Request, Decide(r) PROVE StoreSteps
  <2>1. home[r] \in Node /\ pc[r] = "append" /\ QuorumReached(r)
    BY <1>3, ReplicationAssumption DEF DecisionInv, Decide
  <2>2. Allowed(home[r], pid(r), Outcome(op(r)))
    BY <2>1, JobType DEF Allowed, Decides, Op, Outcome
  <2> QED
    BY <1>3, <2>1, <2>2, FinalizeStep, JobType DEF Decide
<1>4. ASSUME NEW r \in Request, DecideFails(r) PROVE StoreSteps
  <2>1. home[r] \in Node /\ pc[r] = "append"
    BY <1>4, ReplicationAssumption DEF DecisionInv, DecideFails
  <2>2. "FAILED" \in FinalStatus /\ (op(r) = "pay" => Allowed(home[r], pid(r), "FAILED"))
    BY <2>1 DEF Allowed, Decides, FinalStatus
  <2>3. CASE MarksFailed(r)
    BY <1>4, <2>1, <2>2, <2>3, FinalizeStep, JobType DEF DecideFails, MarksFailed
  <2>4. CASE ~ MarksFailed(r)
    BY <1>4, <2>4 DEF DecideFails
  <2> QED
    BY <2>3, <2>4
<1>5. ASSUME NEW r \in Request, NEW f \in Node, DeliverDecision(r, f) PROVE StoreSteps
  <2>1. /\ home[r] \in Node
        /\ ledger[home[r]][pid(r)].status = Outcome(op(r))
    BY <1>5, ReplicationAssumption DEF DecisionInv, Decided, row, DeliverDecision
  <2>2. Allowed(f, pid(r), Outcome(op(r)))
    BY <2>1, JobType DEF Allowed
  <2> QED
    BY <1>5, <2>2, FinalizeStep, JobType DEF DeliverDecision
<1>6. ASSUME NEW n \in Node, CatchUpAppend(n) PROVE StoreSteps
  <2>1. PICK e \in cuEntries[n] :
          SetTable(n, AppendPending(ledger[n], e.payment_id, e.log_index))
    BY <1>6 DEF CatchUpAppend
  <2>2. /\ e.payment_id \in PaymentID
        /\ e.log_index \in Nat
        /\ Issued(e.payment_id, e.log_index)
    BY DEF TypeOK, Entry, IndexInv
  <2> QED
    BY <2>1, <2>2, AppendStep
<1>7. ASSUME NEW n \in Node, CatchUpFinalize(n) PROVE StoreSteps
  <2>1. PICK e \in cuEntries[n] :
          SetTable(n, FinalizeByPaymentID(ledger[n], e.payment_id, e.status))
    BY <1>7 DEF CatchUpFinalize
  <2>2. e.payment_id \in PaymentID /\ e.status \in FinalStatus
    BY DEF TypeOK, Entry
  <2>3. Allowed(n, e.payment_id, e.status)
    BY <2>2 DEF DecisionInv, EntryOf, Allowed
  <2> QED
    BY <2>1, <2>2, <2>3, FinalizeStep
<1>8. ASSUME NEW r \in Request, RequestNext(r) PROVE StoreSteps
  BY <1>8, <1>1, <1>2, <1>3, <1>4, <1>5
     DEF RequestNext, HandlerStep, Receive, CheckLedger, ReadLogHead, VerifyLease,
         AdvanceLogHead, GetFollowers, CallFails, Notify, Respond, LogIndexFails,
         GetFollowersFails, CallTimesOut, CallLost, ClientGone
<1>9. ASSUME NEW n \in Node, NodeNext(n) PROVE StoreSteps
  BY <1>9, <1>6, <1>7
     DEF NodeNext, CatchUpStep, CatchUpAsk, CatchUpRedirect, CatchUpServe,
         CatchUpRefused, CatchUpTimesOut, CoordinationStep, AcquireLease, AcquireFails,
         RefreshStatus, OldSessionExpires, SessionExpires, DropSession, Register,
         LoseStatus, Crash, Restart
<1>10. CASE UNCHANGED vars
  BY <1>10 DEF vars
<1> QED
  BY <1>8, <1>9, <1>10 DEF Next

(***************************************************************************)
(* Log indices.                                                            *)
(***************************************************************************)

IndexInvRequests ==
  /\ \A r \in Request :
       /\ idx[r] <= logHead
       /\ pc[r] \in {"idle", "check", "head", "verify", "advance"} => idx[r] = 0
       /\ pc[r] \in {"members", "replicate", "append", "notify"} => idx[r] > 0
       /\ \A f \in Node : <<r, f>> \in appendNet => idx[r] > 0
  /\ \A r, q \in Request : idx[r] = idx[q] /\ idx[r] > 0 => r = q

LEMMA AdvanceKeepsIndices ==
  ASSUME TypeOK, IndexInvRequests, NEW r \in Request, AdvanceLogHead(r)
  PROVE  IndexInvRequests' /\ \A q \in Request : idx[q] > 0 => idx'[q] = idx[q]
<1>1. CASE Advances(nextIndex[r])
  <2>1. /\ idx' = [idx EXCEPT ![r] = nextIndex[r]]
        /\ logHead' = nextIndex[r]
        /\ pc' = [pc EXCEPT ![r] = "members"]
        /\ pc[r] = "advance"
        /\ nextIndex[r] > logHead
        /\ appendNet' = appendNet
    BY <1>1 DEF AdvanceLogHead, Advances, Goto, netVars
  <2>2. /\ idx[r] = 0
        /\ logHead \in Nat
        /\ nextIndex[r] \in Nat
        /\ idx \in [Request -> Nat]
        /\ pc \in [Request -> PC]
    BY <2>1 DEF TypeOK, IndexInvRequests
  <2>3. \A q \in Request : idx[q] > 0 => idx'[q] = idx[q]
    BY <2>1, <2>2
  <2>4. ASSUME NEW q \in Request
        PROVE  /\ idx'[q] <= logHead'
               /\ pc'[q] \in {"idle", "check", "head", "verify", "advance"} => idx'[q] = 0
               /\ pc'[q] \in {"members", "replicate", "append", "notify"} => idx'[q] > 0
               /\ \A f \in Node : <<q, f>> \in appendNet' => idx'[q] > 0
    <3>1. CASE q = r
      BY <2>1, <2>2, <3>1
    <3>2. CASE q # r
      BY <2>1, <2>2, <3>2 DEF IndexInvRequests
    <3> QED
      BY <3>1, <3>2
  <2>5. \A p, q \in Request : idx'[p] = idx'[q] /\ idx'[p] > 0 => p = q
    BY <2>1, <2>2 DEF IndexInvRequests
  <2> QED
    BY <2>3, <2>4, <2>5 DEF IndexInvRequests
<1>2. CASE ~ Advances(nextIndex[r])
  <2>1. /\ idx' = idx
        /\ logHead' = logHead
        /\ pc' = [pc EXCEPT ![r] = "done"]
        /\ appendNet' = appendNet
    BY <1>2 DEF AdvanceLogHead, Goto, Answer, netVars
  <2> QED
    BY <2>1 DEF TypeOK, IndexInvRequests
<1> QED
  BY <1>1, <1>2

\* What every other step does to the parts IndexInvRequests speaks of.
Before == {"idle", "check", "head", "verify", "advance"}
After  == {"members", "replicate", "append", "notify"}

Quiet ==
  /\ idx' = idx
  /\ logHead' \in Nat /\ logHead' >= logHead
  /\ \A q \in Request : /\ pc'[q] \in Before => pc[q] \in Before
                        /\ pc'[q] \in After => pc[q] \in After
  /\ \A q \in Request, f \in Node :
       <<q, f>> \in appendNet' => <<q, f>> \in appendNet \/ pc[q] = "replicate"

LEMMA RequestStepIsQuiet ==
  ASSUME TypeOK, NEW r \in Request, RequestNext(r), ~ AdvanceLogHead(r)
  PROVE  Quiet
<1> USE DEF Quiet, Before, After, Goto, Answer, zkVars, netVars, reqVars
<1>1. CASE \E n \in Node : Receive(r, n)
  BY <1>1 DEF TypeOK, Receive
<1>2. CASE CheckLedger(r)
  BY <1>2 DEF TypeOK, CheckLedger
<1>3. CASE ReadLogHead(r)
  BY <1>3 DEF TypeOK, ReadLogHead
<1>4. CASE VerifyLease(r)
  BY <1>4 DEF TypeOK, VerifyLease
<1>5. CASE GetFollowers(r)
  BY <1>5 DEF TypeOK, GetFollowers
<1>6. CASE Replicate(r)
  <2>1. \A q \in Request, f \in Node :
          <<q, f>> \in appendNet' => <<q, f>> \in appendNet \/ pc[q] = "replicate"
    BY <1>6 DEF Replicate
  <2>2. \A q \in Request : /\ pc'[q] \in Before => pc[q] \in Before
                           /\ pc'[q] \in After => pc[q] \in After
    BY <1>6 DEF TypeOK, Replicate
  <2> QED
    BY <1>6, <2>1, <2>2 DEF TypeOK, Replicate
<1>7. CASE \E f \in Node : CallFails(r, f) \/ Notify(r, f)
  BY <1>7 DEF TypeOK, CallFails, Notify
<1>8. CASE Decide(r)
  BY <1>8 DEF TypeOK, Decide
<1>9. CASE DecideFails(r)
  BY <1>9 DEF TypeOK, DecideFails
<1>10. CASE Respond(r)
  BY <1>10 DEF TypeOK, Respond
<1>11. CASE \E f \in Node : DeliverAppend(r, f) \/ DeliverDecision(r, f)
  BY <1>11 DEF TypeOK, DeliverAppend, DeliverDecision
<1>12. CASE LogIndexFails(r)
  BY <1>12 DEF TypeOK, LogIndexFails, Advances
<1>13. CASE GetFollowersFails(r)
  BY <1>13 DEF TypeOK, GetFollowersFails
<1>14. CASE \E f \in Node : CallTimesOut(r, f) \/ CallLost(r, f)
  BY <1>14 DEF TypeOK, CallTimesOut, CallLost
<1>15. CASE ClientGone(r)
  BY <1>15 DEF TypeOK, ClientGone
<1> QED
  BY <1>1, <1>2, <1>3, <1>4, <1>5, <1>6, <1>7, <1>8, <1>9, <1>10, <1>11, <1>12,
     <1>13, <1>14, <1>15 DEF RequestNext, HandlerStep

LEMMA NodeStepIsQuiet ==
  ASSUME TypeOK, NEW n \in Node, NodeNext(n)
  PROVE  Quiet
<1> USE DEF Quiet, Before, After, zkVars, netVars, reqVars
<1>1. CASE CatchUpStep(n) \/ CatchUpTimesOut(n)
  BY <1>1 DEF TypeOK, CatchUpStep, CatchUpAsk, CatchUpRedirect, CatchUpServe,
              CatchUpRefused, CatchUpTimesOut, CatchUpAppend, CatchUpFinalize
<1>2. CASE \/ CoordinationStep(n) \/ AcquireFails(n) \/ LoseStatus(n)
           \/ SessionExpires(n) \/ Restart(n)
  BY <1>2 DEF TypeOK, CoordinationStep, AcquireLease, AcquireFails, RefreshStatus, OldSessionExpires,
              SessionExpires, DropSession, Register, LoseStatus, Restart
<1>3. CASE Crash(n)
  BY <1>3 DEF TypeOK, Crash
<1> QED
  BY <1>1, <1>2, <1>3 DEF NodeNext

LEMMA QuietKeepsIndices ==
  ASSUME TypeOK, IndexInvRequests, Quiet
  PROVE  IndexInvRequests'
BY DEF TypeOK, IndexInvRequests, Quiet, Before, After

\* An index once given out stays with its request.
LEMMA IndicesStep ==
  ASSUME TypeOK, IndexInvRequests, [Next]_vars
  PROVE  IndexInvRequests' /\ \A p, i : Issued(p, i) => Issued(p, i)'
<1>1. IndexInvRequests' /\ \A q \in Request : idx[q] > 0 => idx'[q] = idx[q]
  <2>1. ASSUME NEW r \in Request, AdvanceLogHead(r)
        PROVE  IndexInvRequests' /\ \A q \in Request : idx[q] > 0 => idx'[q] = idx[q]
    BY <2>1, AdvanceKeepsIndices
  <2>2. ASSUME NEW r \in Request, RequestNext(r), ~ AdvanceLogHead(r) PROVE Quiet
    BY <2>2, RequestStepIsQuiet
  <2>3. ASSUME NEW n \in Node, NodeNext(n) PROVE Quiet
    BY <2>3, NodeStepIsQuiet
  <2>4. CASE UNCHANGED vars
    <3>1. Quiet
      BY <2>4 DEF TypeOK, Quiet, vars, zkVars, reqVars, netVars
    <3> QED
      BY <3>1, QuietKeepsIndices DEF Quiet
  <2> QED
    BY <2>1, <2>2, <2>3, <2>4, QuietKeepsIndices DEF Next, Quiet
<1> QED
  BY <1>1 DEF Issued

\* An entry under way was there before the step, or is a row of some table.
LEMMA EntriesStep ==
  ASSUME TypeOK, [Next]_vars, NEW n \in Node, NEW e \in cuEntries'[n]
  PROVE  \/ e \in cuEntries[n]
         \/ /\ e.payment_id \in PaymentID
            /\ \E m \in Node : /\ IsFinal(ledger[m], e.payment_id)
                              /\ EntryOf(ledger[m], e.payment_id) = e
                              /\ ledger' = ledger
<1>1. ASSUME NEW k \in Node, CatchUpServe(k)
      PROVE  \/ e \in cuEntries[n]
             \/ /\ e.payment_id \in PaymentID
                /\ \E m \in Node : /\ IsFinal(ledger[m], e.payment_id)
                                  /\ EntryOf(ledger[m], e.payment_id) = e
                                  /\ ledger' = ledger
  <2> DEFINE found == ListFinalizedAfter(ledger[cuSrc[k]], cuFrom[k])
  <2>1. /\ cuEntries' = [cuEntries EXCEPT ![k] = found]
        /\ ledger' = ledger
        /\ cuSrc[k] \in alive
    BY <1>1 DEF CatchUpServe
  <2>2. cuEntries \in [Node -> SUBSET Entry] /\ alive \subseteq Node
    BY DEF TypeOK
  <2>3. CASE n # k
    BY <2>1, <2>2, <2>3
  <2>4. CASE n = k
    <3>1. e \in found /\ cuSrc[k] \in Node
      BY <2>1, <2>2, <2>4
    <3>2. PICK p \in PaymentID : /\ IsFinal(ledger[cuSrc[k]], p)
                                /\ e = EntryOf(ledger[cuSrc[k]], p)
      BY <3>1 DEF ListFinalizedAfter
    <3>3. e.payment_id = p
      BY <3>2 DEF EntryOf
    <3> QED
      BY <2>1, <3>1, <3>2, <3>3
  <2> QED
    BY <2>3, <2>4
<1>2. ASSUME NEW k \in Node, NodeNext(k), ~ CatchUpServe(k) PROVE e \in cuEntries[n]
  <2>1. CASE CatchUpStep(k) \/ CatchUpTimesOut(k)
    <3>1. cuEntries \in [Node -> SUBSET Entry]
      BY DEF TypeOK
    <3>2. CASE CatchUpAsk(k) \/ CatchUpRedirect(k) \/ CatchUpAppend(k)
      BY <3>2 DEF CatchUpAsk, CatchUpRedirect, CatchUpAppend
    <3>3. CASE CatchUpRefused(k) \/ CatchUpTimesOut(k)
      <4>1. cuEntries' = [cuEntries EXCEPT ![k] = {}]
        BY <3>3 DEF CatchUpRefused, CatchUpTimesOut, CatchUpIdle
      <4> QED
        BY <3>1, <4>1
    <3>4. CASE CatchUpFinalize(k)
      <4>1. PICK x \in cuEntries[k] : cuEntries' = [cuEntries EXCEPT ![k] = @ \ {x}]
        BY <3>4 DEF CatchUpFinalize
      <4> QED
        BY <3>1, <4>1
    <3> QED
      BY <1>2, <2>1, <3>2, <3>3, <3>4 DEF CatchUpStep
  <2>2. CASE Crash(k)
    BY <2>2 DEF TypeOK, Crash, CatchUpIdle
  <2>3. CASE \/ CoordinationStep(k) \/ AcquireFails(k) \/ LoseStatus(k)
             \/ SessionExpires(k) \/ Restart(k)
    BY <2>3 DEF CoordinationStep, AcquireLease, AcquireFails, RefreshStatus, OldSessionExpires,
                SessionExpires, DropSession, Register, LoseStatus, Restart, cuVars
  <2> QED
    BY <1>2, <2>1, <2>2, <2>3 DEF NodeNext
<1>3. ASSUME NEW r \in Request, RequestNext(r) PROVE e \in cuEntries[n]
  <2>1. CASE \E f \in Node : Receive(r, f)
    BY <2>1 DEF Receive, cuVars
  <2>2. CASE CheckLedger(r) \/ ReadLogHead(r) \/ VerifyLease(r) \/ AdvanceLogHead(r)
    BY <2>2 DEF CheckLedger, ReadLogHead, VerifyLease, AdvanceLogHead, cuVars
  <2>3. CASE GetFollowers(r) \/ Replicate(r) \/ Decide(r) \/ DecideFails(r) \/ Respond(r)
    BY <2>3 DEF GetFollowers, Replicate, Decide, DecideFails, Respond, cuVars
  <2>4. CASE \E f \in Node : \/ CallFails(r, f) \/ Notify(r, f)
                             \/ DeliverAppend(r, f) \/ DeliverDecision(r, f)
                             \/ CallTimesOut(r, f) \/ CallLost(r, f)
    BY <2>4 DEF CallFails, Notify, DeliverAppend, DeliverDecision, CallTimesOut,
                CallLost, cuVars
  <2>5. CASE LogIndexFails(r) \/ GetFollowersFails(r) \/ ClientGone(r)
    BY <2>5 DEF LogIndexFails, GetFollowersFails, ClientGone, cuVars
  <2> QED
    BY <1>3, <2>1, <2>2, <2>3, <2>4, <2>5 DEF RequestNext, HandlerStep
<1>4. CASE UNCHANGED vars
  BY <1>4 DEF vars, cuVars
<1> QED
  BY <1>1, <1>2, <1>3, <1>4 DEF Next

LEMMA IndexStays ==
  ASSUME TypeOK, IndexInv, [Next]_vars, NEW q \in Request, idx[q] > 0
  PROVE  idx'[q] = idx[q]
<1>1. IndexInvRequests
  BY DEF IndexInv, IndexInvRequests
<1>2. ASSUME NEW r \in Request, RequestNext(r) PROVE idx'[q] = idx[q]
  BY <1>1, <1>2, AdvanceKeepsIndices, RequestStepIsQuiet DEF Quiet
<1>3. ASSUME NEW n \in Node, NodeNext(n) PROVE idx'[q] = idx[q]
  BY <1>3, NodeStepIsQuiet DEF Quiet
<1>4. CASE UNCHANGED vars
  BY <1>4 DEF vars, reqVars
<1> QED
  BY <1>2, <1>3, <1>4 DEF Next

LEMMA IndexInvStep ==
  ASSUME TypeOK, IndexInv, DecisionInv, [Next]_vars
  PROVE  IndexInv'
<1>1. IndexInvRequests' /\ \A p, i : Issued(p, i) => Issued(p, i)'
  BY IndicesStep DEF IndexInv, IndexInvRequests
<1>2. ASSUME NEW n \in Node, NEW p \in PaymentID, Exists(ledger[n], p)'
      PROVE  Issued(p, ledger[n][p].log_index)'
  <2>1. CASE ledger'[n][p] = ledger[n][p]
    BY <1>1, <1>2, <2>1 DEF IndexInv, Exists
  <2>2. ASSUME NEW m \in Node, NEW q \in PaymentID, NEW i \in Nat,
               Issued(q, i), Appended(m, q, i), ledger'[n][p] # ledger[n][p]
        PROVE  Issued(p, ledger[n][p].log_index)'
    <3>1. p = q /\ ledger'[n][p] = [status |-> "PENDING", log_index |-> i]
      BY <2>2, AppendedRows
    <3>2. ledger'[n][p].log_index = i
      BY <3>1
    <3>3. Issued(q, i)'
      BY <1>1, <2>2
    <3> QED
      BY <3>1, <3>2, <3>3
  <2>3. ASSUME NEW m \in Node, NEW q \in PaymentID, NEW s \in FinalStatus,
               Finalized(m, q, s), ledger'[n][p] # ledger[n][p]
        PROVE  Issued(p, ledger[n][p].log_index)'
    <3>1. /\ ledger[n][p].status = "PENDING"
          /\ ledger'[n][p].log_index = ledger[n][p].log_index
      BY <2>3, FinalizedRows
    <3>2. Issued(p, ledger[n][p].log_index)
      BY <3>1 DEF IndexInv, Exists
    <3> QED
      BY <1>1, <3>1, <3>2
  <2> QED
    BY <2>1, <2>2, <2>3, StoreStep DEF StoreSteps
<1>3. ASSUME NEW n \in Node, NEW e \in cuEntries'[n]
      PROVE  Issued(e.payment_id, e.log_index)'
  <2>1. CASE e \in cuEntries[n]
    BY <1>1, <2>1 DEF IndexInv
  <2>2. CASE /\ e.payment_id \in PaymentID
             /\ \E m \in Node : /\ IsFinal(ledger[m], e.payment_id)
                               /\ EntryOf(ledger[m], e.payment_id) = e
    <3> PICK m \in Node : /\ IsFinal(ledger[m], e.payment_id)
                          /\ EntryOf(ledger[m], e.payment_id) = e
      BY <2>2
    <3>1. Exists(ledger[m], e.payment_id)
      BY <2>2 DEF IsFinal, FinalStatus, Exists
    <3>2. e.log_index = ledger[m][e.payment_id].log_index
      BY <2>2 DEF EntryOf
    <3> QED
      BY <1>1, <2>2, <3>1, <3>2 DEF IndexInv
  <2> QED
    BY <2>1, <2>2, EntriesStep
<1> QED
  BY <1>1, <1>2, <1>3 DEF IndexInv, IndexInvRequests
(***************************************************************************)
(* Decisions.                                                              *)
(***************************************************************************)

\* A final row never changes: sqlite.go updates only PENDING rows.
LEMMA FinalStays ==
  ASSUME TypeOK, StoreSteps, NEW n \in Node, NEW p \in PaymentID, IsFinal(ledger[n], p)
  PROVE  ledger'[n][p] = ledger[n][p]
<1> USE DEF IsFinal, FinalStatus, Exists
<1>1. ASSUME NEW m \in Node, NEW q \in PaymentID, NEW i \in Nat, Appended(m, q, i)
      PROVE  ledger'[n][p] = ledger[n][p]
  BY <1>1, AppendedRows
<1>2. ASSUME NEW m \in Node, NEW q \in PaymentID, NEW s \in FinalStatus, Finalized(m, q, s)
      PROVE  ledger'[n][p] = ledger[n][p]
  BY <1>2, FinalizedRows
<1> QED
  BY <1>1, <1>2 DEF StoreSteps

\* What a step does to the handlers that DecisionInv speaks of.
DecisionFrame ==
  \A q \in Request :
    /\ pc[q] # "idle" => pc'[q] # "idle" /\ home'[q] = home[q]
    /\ pc'[q] # "idle" => pc[q] # "idle" \/ home'[q] \in Electable
    /\ Decided(q)' => \/ Decided(q)
                      \/ pc[q] # "idle" /\ row(q)'.status = Outcome(op(q))

LEMMA RequestDecisionFrame ==
  ASSUME TypeOK, DecisionInv, NEW r \in Request, RequestNext(r)
  PROVE  DecisionFrame
<1> USE DEF DecisionFrame, Decided, Goto, Answer, zkVars, netVars, reqVars
<1>1. ASSUME NEW n \in Node, Receive(r, n) PROVE DecisionFrame
  <2>1. n \in Electable
    BY <1>1 DEF DecisionInv, Receive
  <2> QED
    BY <1>1, <2>1 DEF TypeOK, Receive
<1>2. CASE CheckLedger(r)
  <2>1. /\ home' = home
        /\ ledger' = ledger
        /\ decideNet' = decideNet
        /\ pc[r] = "check"
        /\ pc' \in {[pc EXCEPT ![r] = "done"], [pc EXCEPT ![r] = "head"]}
    BY <1>2 DEF CheckLedger
  <2>2. \/ resp' = resp
        \/ resp' = [resp EXCEPT ![r] = "ERROR"]
        \/ resp' = [resp EXCEPT ![r] = "CONFLICT"]
        \/ resp' = [resp EXCEPT ![r] = "OK"] /\ row(r).status = Outcome(op(r))
    BY <1>2 DEF CheckLedger
  <2>3. pc \in [Request -> PC] /\ resp \in [Request -> Response]
    BY DEF TypeOK
  <2>4. \A q \in Request : row(q)' = row(q)
    BY <2>1 DEF row
  <2> QED
    BY <2>1, <2>2, <2>3, <2>4
<1>3. CASE ReadLogHead(r)
  BY <1>3 DEF TypeOK, ReadLogHead
<1>4. CASE VerifyLease(r)
  BY <1>4 DEF TypeOK, VerifyLease
<1>5. CASE AdvanceLogHead(r)
  <2>1. /\ home' = home
        /\ decideNet' = decideNet
        /\ pc' \in {[pc EXCEPT ![r] = "members"], [pc EXCEPT ![r] = "done"]}
        /\ resp' \in {resp, [resp EXCEPT ![r] = "UNAVAILABLE"]}
        /\ pc[r] # "idle"
    BY <1>5 DEF AdvanceLogHead
  <2> QED
    BY <2>1 DEF TypeOK
<1>6. CASE GetFollowers(r) \/ GetFollowersFails(r)
  BY <1>6 DEF TypeOK, GetFollowers, GetFollowersFails
<1>7. CASE Replicate(r)
  BY <1>7 DEF TypeOK, Replicate
<1>8. CASE \E f \in Node : CallFails(r, f) \/ CallTimesOut(r, f) \/ CallLost(r, f)
  BY <1>8 DEF TypeOK, CallFails, CallTimesOut, CallLost
<1>9. CASE \E f \in Node : Notify(r, f)
  BY <1>9 DEF TypeOK, Notify
<1>10. CASE Decide(r)
  <2>1. /\ home' = home
        /\ decideNet' = decideNet
        /\ resp' = resp
        /\ pc[r] = "append"
        /\ pc' = [pc EXCEPT ![r] = "notify"]
    BY <1>10 DEF Decide
  <2>2. pc \in [Request -> PC]
    BY DEF TypeOK
  <2>3. home[r] \in Node
    BY <2>1, ReplicationAssumption DEF DecisionInv
  <2>4. ledger'[home[r]][pid(r)].status = Outcome(op(r))
    <3>1. /\ ledger[home[r]][pid(r)].status \in {"PENDING", Outcome(op(r))}
          /\ ledger' = [ledger EXCEPT ![home[r]] =
               FinalizeByPaymentID(ledger[home[r]], pid(r), Outcome(op(r)))]
      BY <1>10 DEF Decide, SetTable, FinalizeSucceeds
    <3>2. /\ ledger \in [Node -> Table]
          /\ ledger[home[r]] \in Table
      BY <2>3 DEF TypeOK
    <3>3. ledger'[home[r]] = FinalizeByPaymentID(ledger[home[r]], pid(r), Outcome(op(r)))
      BY <2>3, <3>1, <3>2
    <3> QED
      BY <3>1, <3>2, <3>3, JobType DEF FinalizeByPaymentID, Table, Row
  <2>5. row(r)'.status = Outcome(op(r))
    BY <2>1, <2>4 DEF row
  <2> QED
    BY <2>1, <2>2, <2>5
<1>11. CASE DecideFails(r)
  BY <1>11 DEF TypeOK, DecideFails
<1>12. CASE Respond(r)
  BY <1>12 DEF TypeOK, Respond
<1>13. CASE \E f \in Node : DeliverAppend(r, f) \/ DeliverDecision(r, f)
  <2>1. /\ pc' = pc
        /\ home' = home
        /\ resp' = resp
        /\ decideNet' \subseteq decideNet
    BY <1>13 DEF DeliverAppend, DeliverDecision
  <2> QED
    BY <2>1
<1>14. CASE LogIndexFails(r) \/ ClientGone(r)
  BY <1>14 DEF TypeOK, LogIndexFails, ClientGone
<1> QED
  BY <1>1, <1>2, <1>3, <1>4, <1>5, <1>6, <1>7, <1>8, <1>9, <1>10, <1>11, <1>12,
     <1>13, <1>14 DEF RequestNext, HandlerStep

LEMMA NodeDecisionFrame ==
  ASSUME TypeOK, DecisionInv, NEW n \in Node, NodeNext(n)
  PROVE  DecisionFrame
<1> USE DEF DecisionFrame, Decided, zkVars, netVars, reqVars
<1>1. CASE CatchUpStep(n) \/ CatchUpTimesOut(n)
  BY <1>1 DEF CatchUpStep, CatchUpAsk, CatchUpRedirect, CatchUpServe,
              CatchUpRefused, CatchUpTimesOut, CatchUpAppend, CatchUpFinalize
<1>2. CASE \/ CoordinationStep(n) \/ AcquireFails(n) \/ LoseStatus(n)
           \/ SessionExpires(n) \/ Restart(n)
  BY <1>2 DEF CoordinationStep, AcquireLease, AcquireFails, RefreshStatus, OldSessionExpires,
              SessionExpires, DropSession, Register, LoseStatus, Restart
<1>3. CASE Crash(n)
  BY <1>3 DEF TypeOK, Crash, Holding
<1> QED
  BY <1>1, <1>2, <1>3 DEF NodeNext
\* Only a holder of the lease comes to believe that it leads.
LEMMA LeadersElectable ==
  ASSUME TypeOK, DecisionInv, [Next]_vars, NEW k \in Node, status'[k].role = "LEADER"
  PROVE  k \in Electable
<1>1. ASSUME NEW n \in Node, RefreshStatus(n) PROVE k \in Electable
  <2>1. status' = [status EXCEPT ![n] = LeaseStatus(n)] /\ status \in [Node -> [role : Role, leader : Electable \cup {None}, term : Nat]]
    BY <1>1 DEF RefreshStatus, TypeOK
  <2>2. CASE k = n
    <3>1. LeaseStatus(n).role = "LEADER"
      BY <2>1, <2>2
    <3>2. lease.holder = n
      BY <3>1 DEF LeaseStatus, NoStatus, HoldsLease
    <3> QED
      BY <2>2, <3>2, ReplicationAssumption DEF TypeOK
  <2>3. CASE k # n
    BY <2>1, <2>3 DEF DecisionInv
  <2> QED
    BY <2>2, <2>3
<1>2. ASSUME NEW n \in Node, LoseStatus(n) \/ Crash(n) \/ AcquireFails(n) PROVE k \in Electable
  <2>1. status' = [status EXCEPT ![n] = NoStatus]
    BY <1>2 DEF LoseStatus, Crash, AcquireFails
  <2> QED
    BY <2>1 DEF TypeOK, NoStatus, DecisionInv
<1>3. ASSUME NEW n \in Node, NodeNext(n), ~ RefreshStatus(n), ~ LoseStatus(n), ~ Crash(n),
             ~ AcquireFails(n)
      PROVE  k \in Electable
  <2>1. status' = status
    BY <1>3 DEF NodeNext, CatchUpStep, CatchUpAsk, CatchUpRedirect, CatchUpServe,
                CatchUpRefused, CatchUpTimesOut, CatchUpAppend, CatchUpFinalize,
                CoordinationStep, AcquireLease, OldSessionExpires, SessionExpires,
                DropSession, Register, Restart, nodeVars
  <2> QED
    BY <2>1 DEF DecisionInv
<1>4. ASSUME NEW r \in Request, RequestNext(r) PROVE k \in Electable
  <2>1. status' = status
    <3>1. CASE \E f \in Node : Receive(r, f)
      BY <3>1 DEF Receive, nodeVars
    <3>2. CASE CheckLedger(r) \/ ReadLogHead(r) \/ VerifyLease(r) \/ AdvanceLogHead(r)
      BY <3>2 DEF CheckLedger, ReadLogHead, VerifyLease, AdvanceLogHead, nodeVars
    <3>3. CASE GetFollowers(r) \/ Replicate(r) \/ Decide(r) \/ DecideFails(r) \/ Respond(r)
      BY <3>3 DEF GetFollowers, Replicate, Decide, DecideFails, Respond, nodeVars
    <3>4. CASE \E f \in Node : \/ CallFails(r, f) \/ Notify(r, f)
                               \/ DeliverAppend(r, f) \/ DeliverDecision(r, f)
                               \/ CallTimesOut(r, f) \/ CallLost(r, f)
      BY <3>4 DEF CallFails, Notify, DeliverAppend, DeliverDecision, CallTimesOut,
                  CallLost, nodeVars
    <3>5. CASE LogIndexFails(r) \/ GetFollowersFails(r) \/ ClientGone(r)
      BY <3>5 DEF LogIndexFails, GetFollowersFails, ClientGone, nodeVars
    <3> QED
      BY <1>4, <3>1, <3>2, <3>3, <3>4, <3>5 DEF RequestNext, HandlerStep
  <2> QED
    BY <2>1 DEF DecisionInv
<1>5. CASE UNCHANGED vars
  BY <1>5 DEF vars, nodeVars, DecisionInv
<1> QED
  BY <1>1, <1>2, <1>3, <1>4, <1>5 DEF Next

LEMMA DecisionInvStep ==
  ASSUME TypeOK, IndexInv, DecisionInv, [Next]_vars
  PROVE  DecisionInv'
<1>1. StoreSteps
  BY StoreStep
<1>2. DecisionFrame
  <2>1. CASE UNCHANGED vars
    BY <2>1 DEF DecisionFrame, Decided, vars, reqVars, netVars
  <2> QED
    BY <2>1, RequestDecisionFrame, NodeDecisionFrame DEF Next
<1>3. \A k \in Node : status'[k].role = "LEADER" => k \in Electable
  BY LeadersElectable
<1>4. ASSUME NEW r \in Request
      PROVE  /\ pc'[r] # "idle" => home'[r] \in Electable
             /\ Decided(r)' => pc'[r] # "idle" /\ row(r)'.status = Outcome(op(r))
  <2>1. pc'[r] # "idle" => home'[r] \in Electable
    BY <1>2 DEF DecisionFrame, DecisionInv
  <2>2. ASSUME Decided(r)' PROVE pc'[r] # "idle" /\ row(r)'.status = Outcome(op(r))
    <3>1. CASE Decided(r)
      <4>1. /\ pc[r] # "idle"
            /\ home[r] \in Node
            /\ ledger[home[r]][pid(r)].status = Outcome(op(r))
        BY <3>1, ReplicationAssumption DEF DecisionInv, row
      <4>2. ledger'[home[r]][pid(r)] = ledger[home[r]][pid(r)]
        BY <1>1, <4>1, FinalStays, JobType DEF IsFinal
      <4>3. pc'[r] # "idle" /\ home'[r] = home[r]
        BY <1>2, <4>1 DEF DecisionFrame
      <4> QED
        BY <4>1, <4>2, <4>3 DEF row
    <3>2. CASE ~ Decided(r)
      BY <1>2, <2>2, <3>2 DEF DecisionFrame
    <3> QED
      BY <3>1, <3>2
  <2> QED
    BY <2>1, <2>2
<1>5. ASSUME NEW n \in Node, NEW e \in cuEntries'[n]
      PROVE  \E m \in Node : EntryOf(ledger'[m], e.payment_id) = e
  <2>1. CASE e \in cuEntries[n]
    <3>1. PICK m \in Node : EntryOf(ledger[m], e.payment_id) = e
      BY <2>1 DEF DecisionInv
    <3>2. e \in Entry
      BY <2>1 DEF TypeOK
    <3>3. e.payment_id \in PaymentID /\ IsFinal(ledger[m], e.payment_id)
      <4>1. e.payment_id \in PaymentID /\ e.status \in FinalStatus
        BY <3>2 DEF Entry
      <4>2. e.status = ledger[m][e.payment_id].status
        BY <3>1 DEF EntryOf
      <4> QED
        BY <4>1, <4>2 DEF IsFinal
    <3>4. ledger'[m][e.payment_id] = ledger[m][e.payment_id]
      BY <1>1, <3>3, FinalStays
    <3> QED
      BY <3>1, <3>4 DEF EntryOf
  <2>2. CASE e \notin cuEntries[n]
    BY <2>2, EntriesStep
  <2> QED
    BY <2>1, <2>2
<1> QED
  BY <1>3, <1>4, <1>5, JobType DEF DecisionInv

(***************************************************************************)
(* The two invariants hold.                                                *)
(***************************************************************************)

LEMMA InitInvariants ==
  ASSUME Init
  PROVE  IndexInv /\ DecisionInv
<1>1. IndexInv
  BY DEF Init, IndexInv, Exists, EmptyTable, NoRow
<1>2. DecisionInv
  BY DEF Init, DecisionInv, Decided, NoStatus
<1> QED
  BY <1>1, <1>2

\* IndexInv and DecisionInv are invariants: the handlers of http.go, the
\* replication service and the catch-up loop keep both at every step.
THEOREM InvariantsHold == Spec => [](TypeOK /\ IndexInv /\ DecisionInv)
<1>1. Init => IndexInv /\ DecisionInv
  BY InitInvariants
<1>2. TypeOK /\ IndexInv /\ DecisionInv /\ [Next]_vars => IndexInv' /\ DecisionInv'
  BY IndexInvStep, DecisionInvStep
<1> QED
  BY <1>1, <1>2, TypeCorrect, PTL DEF Spec

(***************************************************************************)
(* What follows from them.                                                 *)
(***************************************************************************)

\* Every log index names one payment, for any number of nodes that lead one
\* after the other or at once: AdvanceLogHead gives an index out once.
THEOREM IndicesAreUnique == Spec => []IndexUnique
<1>1. TypeOK /\ IndexInv => IndexUnique
  <2> SUFFICES ASSUME TypeOK, IndexInv,
                      NEW m \in Node, NEW n \in Node, NEW p \in PaymentID, NEW q \in PaymentID,
                      Exists(ledger[m], p), Exists(ledger[n], q),
                      ledger[m][p].log_index = ledger[n][q].log_index
               PROVE  p = q
    BY DEF IndexUnique
  <2>1. Issued(p, ledger[m][p].log_index) /\ Issued(q, ledger[m][p].log_index)
    BY DEF IndexInv
  <2>2. PICK r \in Request : pid(r) = p /\ idx[r] = ledger[m][p].log_index /\ idx[r] > 0
    BY <2>1 DEF Issued
  <2>3. PICK s \in Request : pid(s) = q /\ idx[s] = ledger[m][p].log_index
    BY <2>1 DEF Issued
  <2>4. r = s
    BY <2>2, <2>3 DEF IndexInv
  <2> QED
    BY <2>2, <2>3, <2>4
<1> QED
  BY <1>1, InvariantsHold, PTL

\* An OK answer of a payment or a cancellation keeps its row at the node that
\* gave it: nothing un-finalizes a row of sqlite.go.
THEOREM OkStaysDurable == Spec => []OkIsDurable
<1>1. DecisionInv => OkIsDurable
  BY DEF DecisionInv, Decided, OkIsDurable
<1> QED
  BY <1>1, InvariantsHold, PTL

\* No commit, cancel or catch-up entry is sent that no table holds.
THEOREM DecisionsAreBacked == Spec => []DecisionBacked
<1>1. DecisionInv => DecisionBacked
  BY DEF DecisionInv, Decided, DecisionBacked
<1> QED
  BY <1>1, InvariantsHold, PTL
=============================================================================
