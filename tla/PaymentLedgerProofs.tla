------------------------ MODULE PaymentLedgerProofs ------------------------
(***************************************************************************)
(* What a system that implements PaymentLedger gets from it: a final row   *)
(* is never taken back and, when a single node decides, no two nodes       *)
(* disagree about a payment.                                               *)
(***************************************************************************)
EXTENDS PaymentLedger, TLAPS

LEMMA TypeStep ==
  ASSUME TypeOK, [Next]_status
  PROVE  TypeOK'
BY DEF TypeOK, Next, Record, Decide, Learn

\* Rows hold one of the five statuses.
THEOREM TypeCorrect == Spec => []TypeOK
<1>1. Init => TypeOK
  BY DEF Init, TypeOK
<1> QED
  BY <1>1, TypeStep, PTL DEF Spec

LEMMA FinalStep ==
  ASSUME TypeOK, [Next]_status, NEW n \in Node, NEW p \in PaymentID,
         status[n][p] \in FinalStatus
  PROVE  status'[n][p] = status[n][p]
BY DEF TypeOK, FinalStatus, Next, Record, Decide, Learn

\* No step changes a final row (UPDATE ... AND status = PENDING in sqlite.go).
THEOREM FinalForever == Spec => FinalIsForever
<1>1. TypeOK /\ [Next]_status =>
        [\A n \in Node, p \in PaymentID :
           status[n][p] \in FinalStatus => status'[n][p] = status[n][p]]_status
  BY FinalStep
<1> QED
  BY <1>1, TypeCorrect, PTL DEF Spec, FinalIsForever

\* With one decider, every final row is a copy of its row.
FromDecider(d) ==
  \A n \in Node, p \in PaymentID :
    status[n][p] \in FinalStatus => status[d][p] = status[n][p]

\* When a single node decides, no two nodes finalize a payment differently: the
\* others only copy (commit, cancel and catch-up calls of the leader).
THEOREM OneDeciderAgrees ==
  ASSUME NEW d \in Node, Decider = {d}
  PROVE  Spec => []Agreement
<1>1. Init => FromDecider(d)
  BY DEF Init, FromDecider, FinalStatus
<1>2. TypeOK /\ FromDecider(d) /\ [Next]_status => FromDecider(d)'
  <2> SUFFICES ASSUME TypeOK, FromDecider(d), [Next]_status,
                      NEW n \in Node, NEW p \in PaymentID, status'[n][p] \in FinalStatus
               PROVE  status'[d][p] = status'[n][p]
    BY DEF FromDecider
  <2>1. CASE status'[n][p] = status[n][p]
    <3>1. status[d][p] = status[n][p]
      BY <2>1 DEF FromDecider
    <3>2. status'[d][p] = status[d][p]
      BY <2>1, <3>1, FinalStep
    <3> QED
      BY <2>1, <3>1, <3>2
  <2>2. CASE status'[n][p] # status[n][p]
    <3>1. PICK m \in Node, q \in PaymentID :
            \/ Record(m, q)
            \/ \E s \in FinalStatus : Decide(m, q, s) \/ Learn(m, q, s)
      BY <2>2 DEF Next
    <3>2. m = n /\ q = p
      BY <2>2, <3>1 DEF TypeOK, Record, Decide, Learn
    <3>3. CASE Record(n, p)
      BY <3>3 DEF TypeOK, Record, FinalStatus
    <3>4. ASSUME NEW s \in FinalStatus, Decide(n, p, s)
          PROVE  status'[d][p] = status'[n][p]
      BY <3>4 DEF Decide
    <3>5. ASSUME NEW s \in FinalStatus, Learn(n, p, s)
          PROVE  status'[d][p] = status'[n][p]
      <4>1. PICK k \in Node : status[k][p] = s
        BY <3>5 DEF Learn
      <4>2. status[d][p] = s
        BY <3>5, <4>1 DEF FromDecider
      <4>3. status'[d][p] = s
        BY <3>5, <4>2, FinalStep
      <4>4. status'[n][p] = s
        BY <3>5 DEF Learn, TypeOK
      <4> QED
        BY <4>3, <4>4
    <3> QED
      BY <3>1, <3>2, <3>3, <3>4, <3>5
  <2> QED
    BY <2>1, <2>2
<1>3. FromDecider(d) => Agreement
  BY DEF FromDecider, Agreement, Agree
<1> QED
  BY <1>1, <1>2, <1>3, TypeCorrect, PTL DEF Spec
=============================================================================
