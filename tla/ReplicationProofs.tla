------------------------- MODULE ReplicationProofs -------------------------
(***************************************************************************)
(* Proofs about Replication, for every set of nodes, payments and requests *)
(* and any number of faults of any kind.                                   *)
(***************************************************************************)
EXTENDS ReplicationProperties, TLAPS

LEMMA JobType ==
  ASSUME NEW r \in Request
  PROVE  /\ op(r) \in Op
         /\ pid(r) \in PaymentID
         /\ Outcome(op(r)) \in FinalStatus
BY ReplicationAssumption DEF op, pid, Op, Outcome, FinalStatus

(***************************************************************************)
(* What the store operators keep.                                          *)
(***************************************************************************)

LEMMA AppendType ==
  ASSUME NEW t \in Table, NEW p \in PaymentID, NEW i \in Nat
  PROVE  AppendPending(t, p, i) \in Table
BY DEF Table, Row, Status, AppendPending, Exists

LEMMA FinalizeType ==
  ASSUME NEW t \in Table, NEW p \in PaymentID, NEW s \in FinalStatus
  PROVE  FinalizeByPaymentID(t, p, s) \in Table
BY DEF Table, Row, Status, FinalStatus, FinalizeByPaymentID

LEMMA ListType ==
  ASSUME NEW t \in Table, NEW i \in Nat
  PROVE  ListFinalizedAfter(t, i) \subseteq Entry
BY DEF Table, Row, Status, FinalStatus, ListFinalizedAfter, EntryOf, Entry, IsFinal

LEMMA IndicesType ==
  ASSUME NEW t \in Table
  PROVE  FinalIndices(t) \subseteq Nat
BY DEF Table, Row, FinalIndices

LEMMA InitType == Init => TypeOK
<1> SUFFICES ASSUME Init PROVE TypeOK
  OBVIOUS
<1>1. EmptyTable \in Table
  BY DEF EmptyTable, Table, NoRow, Row, Status
<1> QED
  BY <1>1, ReplicationAssumption
     DEF Init, TypeOK, NoLease, NoStatus, Role, PC, Response

LEMMA HandlerType ==
  ASSUME TypeOK, NEW r \in Request,
         \/ \E n \in Node : Receive(r, n)
         \/ CheckLedger(r)
         \/ ReadLogHead(r)
         \/ VerifyLease(r)
         \/ AdvanceLogHead(r)
         \/ GetFollowers(r)
  PROVE  TypeOK'
<1>1. CASE \E n \in Node : Receive(r, n)
  BY <1>1 DEF TypeOK, Receive, Goto, zkVars, nodeVars, netVars, cuVars, PC, Holding
<1>2. CASE CheckLedger(r)
  BY <1>2 DEF TypeOK, CheckLedger, Goto, Answer, zkVars, nodeVars, netVars, cuVars,
              PC, Holding, Response
<1>3. CASE ReadLogHead(r)
  BY <1>3 DEF TypeOK, ReadLogHead, Goto, zkVars, nodeVars, netVars, cuVars, PC, Holding
<1>4. CASE VerifyLease(r)
  BY <1>4 DEF TypeOK, VerifyLease, Goto, Answer, zkVars, nodeVars, netVars, cuVars,
              PC, Holding, Response
<1>5. CASE AdvanceLogHead(r)
  <2>1. /\ nextIndex' \in [Request -> Nat]
        /\ pc' \in [Request -> PC]
        /\ resp' \in [Request -> Response]
    BY <1>5 DEF TypeOK, AdvanceLogHead, Goto, Answer, PC, Holding, Response
  <2>2. logHead' \in Nat /\ idx' \in [Request -> Nat]
    BY <1>5 DEF TypeOK, AdvanceLogHead
  <2> QED
    BY <1>5, <2>1, <2>2 DEF TypeOK, AdvanceLogHead, nodeVars, netVars, cuVars
<1>6. CASE GetFollowers(r)
  BY <1>6 DEF TypeOK, GetFollowers, Goto, zkVars, nodeVars, netVars, cuVars, PC, Holding
<1> QED
  BY <1>1, <1>2, <1>3, <1>4, <1>5, <1>6

LEMMA TableType ==
  ASSUME TypeOK, NEW n, NEW t, n \in Node => t \in Table, SetTable(n, t)
  PROVE  ledger' \in [Node -> Table]
BY DEF TypeOK, SetTable

LEMMA ReplicateType ==
  ASSUME TypeOK, NEW r \in Request,
         \/ Replicate(r)
         \/ Decide(r)
         \/ DecideFails(r)
         \/ Respond(r)
         \/ \E f \in Node : CallFails(r, f) \/ Notify(r, f)
  PROVE  TypeOK'
<1>1. CASE Replicate(r)
  <2>1. ledger' \in [Node -> Table]
    <3>1. CASE r \in gone
      BY <1>1, <3>1 DEF Replicate, TypeOK
    <3>2. CASE r \notin gone
      <4>1. home[r] \in Node =>
              AppendPending(ledger[home[r]], pid(r), idx[r]) \in Table
        BY AppendType, JobType DEF TypeOK
      <4> QED
        BY <1>1, <3>2, <4>1, TableType DEF Replicate
    <3> QED
      BY <3>1, <3>2
  <2>2. pc' \in [Request -> PC] /\ resp' \in [Request -> Response]
    BY <1>1 DEF TypeOK, Replicate, Goto, Answer, PC, Holding, Response
  <2>3. /\ fol' \in [Request -> SUBSET Node]
        /\ waiting' \in [Request -> SUBSET Node]
        /\ acks' \in [Request -> SUBSET Node]
    <3>1. /\ fol \in [Request -> SUBSET Node]
          /\ waiting \in [Request -> SUBSET Node]
          /\ acks \in [Request -> SUBSET Node]
      BY DEF TypeOK
    <3>2. CASE r \notin gone
      <4>1. fol' = fol /\ acks' = acks /\ waiting' = [waiting EXCEPT ![r] = fol[r]]
        BY <1>1, <3>2 DEF Replicate
      <4> QED
        BY <3>1, <4>1
    <3>3. CASE r \in gone
      <4>1. Forget(r)
        BY <1>1, <3>3 DEF Replicate
      <4> QED
        BY <3>1, <4>1 DEF Forget
    <3> QED
      BY <3>2, <3>3
  <2>4. appendNet' \subseteq Request \X Node
    <3>1. {<<r, f>> : f \in fol[r] \cap alive} \subseteq Request \X Node
      BY DEF TypeOK
    <3> QED
      BY <1>1, <3>1 DEF TypeOK, Replicate
  <2> QED
    BY <1>1, <2>1, <2>2, <2>3, <2>4 DEF TypeOK, Replicate, zkVars, nodeVars, cuVars
<1>2. CASE Decide(r)
  <2>1. ledger' \in [Node -> Table]
    <3>1. home[r] \in Node =>
            FinalizeByPaymentID(ledger[home[r]], pid(r), Outcome(op(r))) \in Table
      BY FinalizeType, JobType DEF TypeOK
    <3> QED
      BY <1>2, <3>1, TableType DEF Decide
  <2>2. pc' \in [Request -> PC] /\ waiting' \in [Request -> SUBSET Node]
    BY <1>2 DEF TypeOK, Decide, Goto, PC, Holding
  <2> QED
    BY <1>2, <2>1, <2>2 DEF TypeOK, Decide, zkVars, nodeVars, netVars, cuVars
<1>3. CASE DecideFails(r)
  <2>1. ledger' \in [Node -> Table]
    <3>1. home[r] \in Node =>
            FinalizeByPaymentID(ledger[home[r]], pid(r), "FAILED") \in Table
      BY FinalizeType, JobType DEF TypeOK, FinalStatus
    <3>2. CASE MarksFailed(r)
      BY <1>3, <3>1, <3>2, TableType DEF DecideFails
    <3>3. CASE ~ MarksFailed(r)
      BY <1>3, <3>3 DEF DecideFails, TypeOK
    <3> QED
      BY <3>2, <3>3
  <2>2. pc' \in [Request -> PC] /\ resp' \in [Request -> Response]
    BY <1>3 DEF TypeOK, DecideFails, Goto, Answer, PC, Holding, Response
  <2>3. /\ fol' \in [Request -> SUBSET Node]
        /\ waiting' \in [Request -> SUBSET Node]
        /\ acks' \in [Request -> SUBSET Node]
    BY <1>3 DEF TypeOK, DecideFails, Forget
  <2> QED
    BY <1>3, <2>1, <2>2, <2>3 DEF TypeOK, DecideFails, zkVars, nodeVars, netVars, cuVars
<1>4. CASE Respond(r)
  <2>1. pc' \in [Request -> PC] /\ resp' \in [Request -> Response]
    BY <1>4 DEF TypeOK, Respond, Goto, Answer, PC, Holding, Response
  <2>2. /\ fol' \in [Request -> SUBSET Node]
        /\ waiting' \in [Request -> SUBSET Node]
        /\ acks' \in [Request -> SUBSET Node]
    BY <1>4 DEF TypeOK, Respond, Forget
  <2> QED
    BY <1>4, <2>1, <2>2 DEF TypeOK, Respond, zkVars, nodeVars, netVars, cuVars
<1>5. CASE \E f \in Node : CallFails(r, f)
  BY <1>5 DEF TypeOK, CallFails, zkVars, nodeVars, netVars, cuVars
<1>6. CASE \E f \in Node : Notify(r, f)
  BY <1>6 DEF TypeOK, Notify, zkVars, nodeVars, cuVars
<1> QED
  BY <1>1, <1>2, <1>3, <1>4, <1>5, <1>6

LEMMA NetworkType ==
  ASSUME TypeOK, NEW r \in Request, NEW f \in Node,
         DeliverAppend(r, f) \/ DeliverDecision(r, f)
  PROVE  TypeOK'
<1>1. CASE DeliverAppend(r, f)
  <2>1. ledger' \in [Node -> Table]
    <3>1. AppendPending(ledger[f], pid(r), idx[r]) \in Table
      BY AppendType, JobType DEF TypeOK
    <3> QED
      BY <1>1, <3>1, TableType DEF DeliverAppend
  <2>2. acks' \in [Request -> SUBSET Node] /\ waiting' \in [Request -> SUBSET Node]
    <3>1. CASE pc[r] = "append" /\ f \in waiting[r]
      <4>1. /\ acks' = [acks EXCEPT ![r] = @ \cup {f}]
            /\ waiting' = [waiting EXCEPT ![r] = @ \ {f}]
        BY <1>1, <3>1 DEF DeliverAppend
      <4>2. acks' \in [Request -> SUBSET Node]
        BY <4>1 DEF TypeOK
      <4>3. waiting' \in [Request -> SUBSET Node]
        BY <4>1 DEF TypeOK
      <4> QED
        BY <4>2, <4>3
    <3>2. CASE ~ (pc[r] = "append" /\ f \in waiting[r])
      BY <1>1, <3>2 DEF TypeOK, DeliverAppend
    <3> QED
      BY <3>1, <3>2
  <2>3. appendNet' \subseteq Request \X Node
    BY <1>1 DEF TypeOK, DeliverAppend
  <2> QED
    BY <1>1, <2>1, <2>2, <2>3 DEF TypeOK, DeliverAppend, zkVars, nodeVars, cuVars
<1>2. CASE DeliverDecision(r, f)
  <2>1. ledger' \in [Node -> Table]
    <3>1. FinalizeByPaymentID(ledger[f], pid(r), Outcome(op(r))) \in Table
      BY FinalizeType, JobType DEF TypeOK
    <3> QED
      BY <1>2, <3>1, TableType DEF DeliverDecision
  <2> QED
    BY <1>2, <2>1 DEF TypeOK, DeliverDecision, zkVars, nodeVars, reqVars, cuVars
<1> QED
  BY <1>1, <1>2

LEMMA FaultType ==
  ASSUME TypeOK, NEW k, Fault(k)
  PROVE  faults' \in 0 .. MaxFaults
BY ReplicationAssumption DEF TypeOK, Fault

LEMMA RequestFaultType ==
  ASSUME TypeOK, NEW r \in Request,
         \/ LogIndexFails(r)
         \/ GetFollowersFails(r)
         \/ \E f \in Node : CallTimesOut(r, f) \/ CallLost(r, f)
         \/ ClientGone(r)
  PROVE  TypeOK'
<1>1. CASE LogIndexFails(r)
  <2>1. /\ pc' \in [Request -> PC]
        /\ resp' \in [Request -> Response]
        /\ nextIndex' \in [Request -> Nat]
        /\ logHead' \in Nat
    BY <1>1 DEF TypeOK, LogIndexFails, Goto, Answer, PC, Holding, Response
  <2>2. faults' \in 0 .. MaxFaults
    BY <1>1, FaultType DEF LogIndexFails
  <2> QED
    BY <1>1, <2>1, <2>2 DEF TypeOK, LogIndexFails, nodeVars, netVars, cuVars
<1>2. CASE GetFollowersFails(r)
  <2>1. faults' \in 0 .. MaxFaults
    BY <1>2, FaultType DEF GetFollowersFails
  <2> QED
    BY <1>2, <2>1 DEF TypeOK, GetFollowersFails, Goto, PC, Holding, zkVars, nodeVars,
                      netVars, cuVars
<1>3. ASSUME NEW f \in Node, CallTimesOut(r, f) PROVE TypeOK'
  <2>1. faults' \in 0 .. MaxFaults
    BY <1>3, FaultType DEF CallTimesOut
  <2> QED
    BY <1>3, <2>1 DEF TypeOK, CallTimesOut, zkVars, nodeVars, netVars, cuVars
<1>4. ASSUME NEW f \in Node, CallLost(r, f) PROVE TypeOK'
  <2>1. faults' \in 0 .. MaxFaults
    BY <1>4, FaultType DEF CallLost
  <2> QED
    BY <1>4, <2>1 DEF TypeOK, CallLost, zkVars, nodeVars, reqVars, cuVars
<1>5. CASE ClientGone(r)
  <2>1. faults' \in 0 .. MaxFaults
    BY <1>5, FaultType DEF ClientGone
  <2> QED
    BY <1>5, <2>1 DEF TypeOK, ClientGone, zkVars, nodeVars, reqVars, netVars, cuVars
<1> QED
  BY <1>1, <1>2, <1>3, <1>4, <1>5

LEMMA CatchUpType ==
  ASSUME TypeOK, NEW n \in Node, CatchUpStep(n) \/ CatchUpTimesOut(n)
  PROVE  TypeOK'
<1>1. CASE CatchUpAsk(n)
  <2>1. FinalIndices(ledger[n]) \subseteq Nat
    BY IndicesType DEF TypeOK
  <2>2. cuFrom' \in [Node -> Nat]
    BY <1>1, <2>1 DEF TypeOK, CatchUpAsk
  <2> QED
    BY <1>1, <2>2 DEF TypeOK, CatchUpAsk, zkVars, nodeVars, reqVars, netVars
<1>2. CASE CatchUpRedirect(n)
  <2>1. cuSrc[n] \in Node
    BY <1>2, ReplicationAssumption DEF TypeOK, CatchUpRedirect
  <2> QED
    BY <1>2, <2>1 DEF TypeOK, CatchUpRedirect, zkVars, nodeVars, reqVars, netVars
<1>3. CASE CatchUpServe(n)
  <2>1. ListFinalizedAfter(ledger[cuSrc[n]], cuFrom[n]) \subseteq Entry
    BY <1>3, ListType DEF TypeOK, CatchUpServe
  <2>2. cuPc' \in [Node -> {"idle", "ask", "append", "finalize"}]
    BY <1>3 DEF TypeOK, CatchUpServe
  <2>3. cuEntries' \in [Node -> SUBSET Entry]
    BY <1>3, <2>1 DEF TypeOK, CatchUpServe
  <2> QED
    BY <1>3, <2>2, <2>3 DEF TypeOK, CatchUpServe, zkVars, nodeVars, reqVars, netVars
<1>4. CASE CatchUpRefused(n)
  BY <1>4 DEF TypeOK, CatchUpRefused, CatchUpIdle, zkVars, nodeVars, reqVars, netVars
<1>5. CASE CatchUpAppend(n)
  <2>1. ledger' \in [Node -> Table]
    <3>1. PICK e \in cuEntries[n] :
            SetTable(n, AppendPending(ledger[n], e.payment_id, e.log_index))
      BY <1>5 DEF CatchUpAppend
    <3>2. AppendPending(ledger[n], e.payment_id, e.log_index) \in Table
      BY AppendType DEF TypeOK, Entry
    <3> QED
      BY <3>1, <3>2, TableType
  <2> QED
    BY <1>5, <2>1 DEF TypeOK, CatchUpAppend, zkVars, nodeVars, reqVars, netVars
<1>6. CASE CatchUpFinalize(n)
  <2>1. PICK e \in cuEntries[n] :
          /\ SetTable(n, FinalizeByPaymentID(ledger[n], e.payment_id, e.status))
          /\ cuEntries' = [cuEntries EXCEPT ![n] = @ \ {e}]
          /\ cuPc' = [cuPc EXCEPT ![n] = IF cuEntries[n] = {e} THEN "idle" ELSE "append"]
    BY <1>6 DEF CatchUpFinalize
  <2>2. FinalizeByPaymentID(ledger[n], e.payment_id, e.status) \in Table
    BY FinalizeType DEF TypeOK, Entry
  <2>3. ledger' \in [Node -> Table]
    BY <2>1, <2>2, TableType
  <2>4. /\ cuEntries' \in [Node -> SUBSET Entry]
        /\ cuPc' \in [Node -> {"idle", "ask", "append", "finalize"}]
    BY <2>1 DEF TypeOK
  <2> QED
    BY <1>6, <2>3, <2>4 DEF TypeOK, CatchUpFinalize, zkVars, nodeVars, reqVars, netVars
<1>7. CASE CatchUpTimesOut(n)
  <2>1. faults' \in 0 .. MaxFaults
    BY <1>7, FaultType DEF CatchUpTimesOut
  <2> QED
    BY <1>7, <2>1 DEF TypeOK, CatchUpTimesOut, CatchUpIdle, zkVars, nodeVars, reqVars,
                      netVars
<1> QED
  BY <1>1, <1>2, <1>3, <1>4, <1>5, <1>6, <1>7 DEF CatchUpStep

LEMMA NodeType ==
  ASSUME TypeOK, NEW n \in Node,
         \/ CoordinationStep(n)
         \/ AcquireFails(n)
         \/ LoseStatus(n)
         \/ SessionExpires(n)
         \/ Crash(n)
         \/ Restart(n)
  PROVE  TypeOK'
<1>1. CASE AcquireLease(n)
  BY <1>1 DEF TypeOK, AcquireLease, nodeVars, reqVars, netVars, cuVars
<1>2. CASE RefreshStatus(n)
  <2>1. LeaseStatus(n) \in [role : Role, leader : Electable \cup {None}, term : Nat]
    BY DEF TypeOK, LeaseStatus, NoStatus, Role
  <2> QED
    BY <1>2, <2>1 DEF TypeOK, RefreshStatus, zkVars, reqVars, netVars, cuVars
<1>3. ASSUME DropSession(n), faults' \in 0 .. MaxFaults PROVE TypeOK'
  BY <1>3 DEF TypeOK, DropSession, NoLease, nodeVars, reqVars, netVars, cuVars
<1>4. CASE OldSessionExpires(n)
  BY <1>3, <1>4 DEF TypeOK, OldSessionExpires
<1>5. CASE SessionExpires(n)
  BY <1>3, <1>5, FaultType DEF SessionExpires
<1>6. CASE Register(n)
  BY <1>6 DEF TypeOK, Register, nodeVars, reqVars, netVars, cuVars
<1>7. CASE LoseStatus(n)
  <2>1. faults' \in 0 .. MaxFaults
    BY <1>7, FaultType DEF LoseStatus
  <2> QED
    BY <1>7, <2>1 DEF TypeOK, LoseStatus, NoStatus, Role, zkVars, reqVars, netVars, cuVars
<1>8. CASE Crash(n)
  <2>1. faults' \in 0 .. MaxFaults
    BY <1>8, FaultType DEF Crash
  <2>2. /\ pc' \in [Request -> PC]
        /\ nextIndex' \in [Request -> Nat]
        /\ fol' \in [Request -> SUBSET Node]
        /\ waiting' \in [Request -> SUBSET Node]
        /\ acks' \in [Request -> SUBSET Node]
    BY <1>8 DEF TypeOK, Crash, PC
  <2>3. /\ status' \in [Node -> [role : Role, leader : Electable \cup {None}, term : Nat]]
        /\ lease' \in [holder : Electable \cup {None}, term : Nat, live : BOOLEAN]
        /\ alive' \subseteq Node
    BY <1>8 DEF TypeOK, Crash, NoStatus, Role
  <2>4. appendNet' \subseteq Request \X Node /\ decideNet' \subseteq Request \X Node
    BY <1>8 DEF TypeOK, Crash
  <2> QED
    BY <1>8, <2>1, <2>2, <2>3, <2>4 DEF TypeOK, Crash, CatchUpIdle
<1>9. CASE Restart(n)
  BY <1>9 DEF TypeOK, Restart, zkVars, reqVars, netVars, cuVars
<1>10. CASE AcquireFails(n)
  <2>1. faults' \in 0 .. MaxFaults
    BY <1>10, FaultType DEF AcquireFails
  <2> QED
    BY <1>10, <2>1 DEF TypeOK, AcquireFails, NoStatus, Role, reqVars, netVars, cuVars
<1> QED
  BY <1>1, <1>2, <1>4, <1>5, <1>6, <1>7, <1>8, <1>9, <1>10 DEF CoordinationStep

\* Every variable keeps its type, whatever the constants.
THEOREM TypeCorrect == Spec => []TypeOK
<1>1. TypeOK /\ [Next]_vars => TypeOK'
  <2> SUFFICES ASSUME TypeOK, [Next]_vars PROVE TypeOK'
    OBVIOUS
  <2>1. ASSUME NEW r \in Request, RequestNext(r) PROVE TypeOK'
    BY <2>1, HandlerType, ReplicateType, NetworkType, RequestFaultType
       DEF RequestNext, HandlerStep
  <2>2. ASSUME NEW n \in Node, NodeNext(n) PROVE TypeOK'
    BY <2>2, CatchUpType, NodeType DEF NodeNext
  <2>3. CASE UNCHANGED vars
    BY <2>3 DEF TypeOK, vars, zkVars, nodeVars, reqVars, netVars, cuVars
  <2> QED
    BY <2>1, <2>2, <2>3 DEF Next
<1> QED
  BY InitType, <1>1, PTL DEF Spec
=============================================================================
