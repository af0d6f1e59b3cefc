---------------------- MODULE ReplicationPromiseProofs ----------------------
(***************************************************************************)
(* Replication implements PaymentLedger, and what it gets from that; who   *)
(* may disagree: a term belongs to one node, a decision to one handler.    *)
(***************************************************************************)
EXTENDS ReplicationSafetyProofs, ReplicationLeadership

Promised == INSTANCE PaymentLedgerProofs WITH
              Decider <- Electable,
              status  <- [n \in Node |-> [p \in PaymentID |-> ledger[n][p].status]]

Statuses == [n \in Node |-> [p \in PaymentID |-> ledger[n][p].status]]

\* The statuses once n has s for p.
StatusesWith(n, p, s) ==
  [m \in Node |-> [q \in PaymentID |->
     IF m = n /\ q = p THEN s ELSE ledger[m][q].status]]

LEMMA StatusesExcept ==
  ASSUME NEW n \in Node, NEW p \in PaymentID, NEW s
  PROVE  [Statuses EXCEPT ![n][p] = s] = StatusesWith(n, p, s)
<1>1. Statuses[n] = [q \in PaymentID |-> ledger[n][q].status]
  BY DEF Statuses
<1>2. [Statuses[n] EXCEPT ![p] = s] =
        [q \in PaymentID |-> IF q = p THEN s ELSE ledger[n][q].status]
  BY <1>1
<1>3. [Statuses EXCEPT ![n] = [Statuses[n] EXCEPT ![p] = s]] =
        [m \in Node |-> IF m = n THEN [Statuses[n] EXCEPT ![p] = s] ELSE Statuses[m]]
  BY DEF Statuses
<1>4. ASSUME NEW m \in Node
      PROVE  [Statuses EXCEPT ![n][p] = s][m] =
               [q \in PaymentID |-> IF m = n /\ q = p THEN s ELSE ledger[m][q].status]
  <2>1. CASE m = n
    BY <1>1, <1>2, <1>3, <2>1
  <2>2. CASE m # n
    BY <1>3, <2>2 DEF Statuses
  <2> QED
    BY <2>1, <2>2
<1> QED
  BY <1>3, <1>4 DEF StatusesWith

LEMMA AppendIsRecord ==
  ASSUME TypeOK, NEW n \in Node, NEW p \in PaymentID, NEW i \in Nat, Appended(n, p, i)
  PROVE  Promise!Record(n, p)
<1>1. ~ Exists(ledger[n], p)
  BY DEF Appended
<1>2. ledger[n][p].status = "ABSENT"
  BY <1>1 DEF Exists
<1>3. ASSUME NEW m \in Node, NEW q \in PaymentID
      PROVE  ledger'[m][q].status = IF m = n /\ q = p THEN "PENDING" ELSE ledger[m][q].status
  BY DEF TypeOK, Table, Appended
<1>4. Statuses' = [Statuses EXCEPT ![n][p] = "PENDING"]
  <2>1. Statuses' = StatusesWith(n, p, "PENDING")
    BY <1>3 DEF Statuses, StatusesWith
  <2> QED
    BY <2>1, StatusesExcept
<1> QED
  BY <1>2, <1>4 DEF Promise!Record, Statuses

LEMMA FinalizeIsDecideOrLearn ==
  ASSUME TypeOK, DecisionInv, NEW n \in Node, NEW p \in PaymentID, NEW s \in FinalStatus,
         Finalized(n, p, s), Allowed(n, p, s)
  PROVE  Promise!Decide(n, p, s) \/ Promise!Learn(n, p, s)
<1>1. ledger[n][p].status = "PENDING"
  BY DEF Finalized
<1>2. ASSUME NEW m \in Node, NEW q \in PaymentID
      PROVE  ledger'[m][q].status = IF m = n /\ q = p THEN s ELSE ledger[m][q].status
  BY DEF TypeOK, Table, Row, Finalized
<1>3. Statuses' = [Statuses EXCEPT ![n][p] = s]
  <2>1. Statuses' = StatusesWith(n, p, s)
    BY <1>2 DEF Statuses, StatusesWith
  <2> QED
    BY <2>1, StatusesExcept
<1> QED
  BY <1>1, <1>3 DEF Promise!Decide, Promise!Learn, Statuses, Allowed, Decides, DecisionInv

\* Every step of the handlers, the followers and the catch-up loops is a
\* Record, a Decide, a Learn or nothing at all to the ledgers.
THEOREM KeepsPromise == Spec => ImplementsPromise
<1>1. Init => Promise!Init
  BY DEF Init, Promise!Init, EmptyTable, NoRow
<1>2. TypeOK /\ IndexInv /\ DecisionInv /\ [Next]_vars => [Promise!Next]_Statuses
  <2> SUFFICES ASSUME TypeOK, IndexInv, DecisionInv, [Next]_vars
               PROVE  [Promise!Next]_Statuses
    OBVIOUS
  <2>1. CASE ledger' = ledger
    BY <2>1 DEF Statuses
  <2>2. ASSUME NEW n \in Node, NEW p \in PaymentID, NEW i \in Nat, Appended(n, p, i)
        PROVE  Promise!Next
    BY <2>2, AppendIsRecord DEF Promise!Next
  <2>3. ASSUME NEW n \in Node, NEW p \in PaymentID, NEW s \in FinalStatus,
               Allowed(n, p, s), Finalized(n, p, s)
        PROVE  Promise!Next
    BY <2>3, FinalizeIsDecideOrLearn DEF Promise!Next, Promise!FinalStatus, FinalStatus
  <2> QED
    BY <2>1, <2>2, <2>3, StoreStep DEF StoreSteps
<1> QED
  BY <1>1, <1>2, InvariantsHold, PTL DEF Spec, ImplementsPromise, Promise!Spec, Statuses

\* When one node only may become leader, no two nodes ever finalize a payment
\* differently, whatever crashes, is lost or is cancelled.
THEOREM OneLeaderAgrees ==
  ASSUME NEW l \in Node, Electable = {l}
  PROVE  Spec => []Agreement
<1>1. Promised!Spec => []Promised!Agreement
  BY Promised!OneDeciderAgrees
<1>2. /\ Promise!Init => Promised!Init
      /\ [Promise!Next]_Statuses => [Promised!Next]_Statuses
  BY DEF Promise!Init, Promised!Init, Promise!Next, Promised!Next, Promise!Record,
         Promised!Record, Promise!Decide, Promised!Decide, Promise!Learn, Promised!Learn,
         Promise!FinalStatus, Promised!FinalStatus
<1>3. Promised!Agreement => Agreement
  BY DEF Promised!Agreement, Promised!Agree, Promised!FinalStatus, Agreement, IsFinal, FinalStatus
<1> QED
  BY <1>1, <1>2, <1>3, KeepsPromise, PTL
     DEF ImplementsPromise, Promise!Spec, Promised!Spec, Statuses

\* When one node only may become leader, a payment and a cancellation of it
\* never both answer OK: both handlers answer from the same row.
THEOREM OneLeaderAnswers ==
  ASSUME NEW l \in Node, Electable = {l}
  PROVE  Spec => []NeverPaidAndCanceled
<1>1. DecisionInv => NeverPaidAndCanceled
  <2> SUFFICES ASSUME DecisionInv, NEW r \in Request, NEW q \in Request,
                      pid(r) = pid(q), resp[r] = "OK", resp[q] = "OK"
               PROVE  op(r) = op(q)
    BY DEF NeverPaidAndCanceled
  <2>1. home[r] = l /\ home[q] = l
    BY DEF DecisionInv, Decided
  <2>2. row(r).status = Outcome(op(r)) /\ row(q).status = Outcome(op(q))
    BY DEF DecisionInv, Decided
  <2>3. Outcome(op(r)) = Outcome(op(q))
    BY <2>1, <2>2 DEF row
  <2>4. op(r) \in Op /\ op(q) \in Op
    BY ReplicationAssumption DEF op
  <2> QED
    BY <2>3, <2>4 DEF Outcome, Op
<1> QED
  BY <1>1, InvariantsHold, PTL

(***************************************************************************)
(* Terms.  A request carries the term its node remembered, a node          *)
(* remembers the term of the lease it held, and a lease takes a new one.   *)
(***************************************************************************)

\* What a step does to the requests and the roles: a request that begins takes
\* the term of a leader, a node that begins to lead takes that of its lease.
TermFrame ==
  /\ \A q \in Request :
       \/ /\ home'[q] = home[q] /\ reqTerm'[q] = reqTerm[q]
          /\ pc'[q] # "idle" => pc[q] # "idle"
          /\ pc'[q] \in Holding => pc[q] \in Holding
       \/ \E k \in Node : /\ pc[q] = "idle"
                          /\ status[k].role = "LEADER"
                          /\ home'[q] = k /\ reqTerm'[q] = status[k].term
  /\ \A k \in Node :
       status'[k].role = "LEADER" =>
         \/ status'[k] = status[k]
         \/ HoldsLease(k) /\ status'[k].term = lease.term

LEMMA RequestTermFrame ==
  ASSUME TypeOK, NEW r \in Request, RequestNext(r)
  PROVE  TermFrame /\ status' = status /\ alive' = alive /\ term' = term /\ lease' = lease
<1> USE DEF TermFrame, Goto, Answer, zkVars, nodeVars, reqVars, Holding
<1>1. CASE \E n \in Node : Receive(r, n)
  BY <1>1 DEF TypeOK, Receive
<1>2. CASE CheckLedger(r) \/ ReadLogHead(r) \/ VerifyLease(r) \/ AdvanceLogHead(r)
  <2>1. /\ pc[r] \in Holding /\ home' = home /\ reqTerm' = reqTerm
        /\ \A q \in Request \ {r} : pc'[q] = pc[q]
        /\ status' = status /\ alive' = alive /\ term' = term /\ lease' = lease
    BY <1>2 DEF TypeOK, CheckLedger, ReadLogHead, VerifyLease, AdvanceLogHead
  <2> QED
    BY <2>1
<1>3. CASE \/ GetFollowers(r) \/ Replicate(r) \/ Decide(r) \/ DecideFails(r) \/ Respond(r)
           \/ LogIndexFails(r) \/ GetFollowersFails(r)
  <2>1. /\ pc[r] \in Holding /\ home' = home /\ reqTerm' = reqTerm
        /\ \A q \in Request \ {r} : pc'[q] = pc[q]
        /\ status' = status /\ alive' = alive /\ term' = term /\ lease' = lease
    BY <1>3 DEF TypeOK, GetFollowers, Replicate, Decide, DecideFails, Respond, LogIndexFails,
                GetFollowersFails
  <2> QED
    BY <2>1
<1>4. CASE \/ ClientGone(r)
           \/ \E f \in Node : \/ CallFails(r, f) \/ CallTimesOut(r, f) \/ CallLost(r, f)
                              \/ Notify(r, f) \/ DeliverAppend(r, f) \/ DeliverDecision(r, f)
  BY <1>4 DEF ClientGone, CallFails, CallTimesOut, CallLost, Notify, DeliverAppend,
              DeliverDecision
<1> QED
  BY <1>1, <1>2, <1>3, <1>4 DEF RequestNext, HandlerStep

\* What a step does to the lease.
LeaseMoves ==
  \/ term' = term /\ lease' = lease /\ alive \subseteq alive'
  \/ \E n \in Node : AcquireLease(n) \/ AcquireFails(n)
  \/ \E n \in Node : OldSessionExpires(n) \/ SessionExpires(n) \/ Crash(n)

LEMMA NodeTermFrame ==
  ASSUME TypeOK, NEW n \in Node, NodeNext(n)
  PROVE  TermFrame /\ LeaseMoves
<1> USE DEF TermFrame, LeaseMoves, zkVars, nodeVars, reqVars
<1>1. CASE CatchUpStep(n) \/ CatchUpTimesOut(n)
  BY <1>1 DEF CatchUpStep, CatchUpAsk, CatchUpRedirect, CatchUpServe, CatchUpRefused,
              CatchUpTimesOut, CatchUpAppend, CatchUpFinalize
<1>2. CASE RefreshStatus(n)
  BY <1>2 DEF TypeOK, RefreshStatus, LeaseStatus, NoStatus
<1>3. CASE LoseStatus(n)
  BY <1>3 DEF TypeOK, LoseStatus, NoStatus
<1>4. CASE AcquireLease(n) \/ OldSessionExpires(n) \/ SessionExpires(n)
  BY <1>4 DEF AcquireLease, OldSessionExpires, SessionExpires, DropSession
<1>5. CASE Register(n) \/ Restart(n)
  BY <1>5 DEF Register, Restart
<1>6. CASE Crash(n)
  <2>1. /\ home' = home /\ reqTerm' = reqTerm
        /\ \A q \in Request : \/ pc'[q] = pc[q]
                              \/ pc[q] \in Holding /\ pc'[q] = "lost"
    BY <1>6 DEF Crash
  <2>2. \A k \in Node : status'[k] = status[k] \/ status'[k] = NoStatus
    BY <1>6 DEF TypeOK, Crash
  <2> QED
    BY <1>6, <2>1, <2>2 DEF Holding, NoStatus
<1>7. CASE AcquireFails(n)
  BY <1>7 DEF TypeOK, AcquireFails, NoStatus
<1> QED
  BY <1>1, <1>2, <1>3, <1>4, <1>5, <1>6, <1>7 DEF NodeNext, CoordinationStep

LEMMA TermFrames ==
  ASSUME TypeOK, [Next]_vars
  PROVE  TermFrame /\ LeaseMoves
<1>1. CASE UNCHANGED vars
  BY <1>1 DEF vars, reqVars, nodeVars, zkVars, TermFrame, LeaseMoves
<1> QED
  BY <1>1, RequestTermFrame, NodeTermFrame DEF Next, LeaseMoves

\* A term n has after a step and had not before is that of the lease it takes, or
\* the 0 of a lease it half took.
LEMMA TermsStep ==
  ASSUME TypeOK, TermFrame, LeaseMoves, NEW n \in Node, NEW t, t \in TermsOf(n)'
  PROVE  t \in TermsOf(n) \/ (AcquireLease(n) /\ t = term + 1) \/ t = 0
<1>1. CASE lease'.holder = n /\ t = lease'.term
  <2>1. ASSUME NEW k \in Node, AcquireLease(k)
        PROVE  t \in TermsOf(n) \/ (AcquireLease(n) /\ t = term + 1)
    BY <1>1, <2>1 DEF AcquireLease
  <2>2. ASSUME NEW k \in Node, OldSessionExpires(k) \/ SessionExpires(k) \/ Crash(k)
        PROVE  lease'.holder = lease.holder /\ lease'.term = lease.term
    BY <1>1, <2>2, ReplicationAssumption
       DEF TypeOK, OldSessionExpires, SessionExpires, DropSession, Crash, NoLease
  <2>3. ASSUME NEW k \in Node, AcquireFails(k) PROVE t = 0
    BY <1>1, <2>3 DEF AcquireFails
  <2> QED
    BY <1>1, <2>1, <2>2, <2>3 DEF LeaseMoves, TermsOf
<1>2. CASE status'[n].role = "LEADER" /\ t = status'[n].term
  BY <1>2 DEF TermFrame, TermsOf, HoldsLease
<1>3. ASSUME NEW q \in Request, pc'[q] # "idle", home'[q] = n, t = reqTerm'[q]
      PROVE  t \in TermsOf(n)
  BY <1>3 DEF TermFrame, TermsOf
<1> QED
  BY <1>1, <1>2, <1>3 DEF TermsOf

LEMMA TermInvStep ==
  ASSUME TypeOK, TermInv, [Next]_vars
  PROVE  TermInv'
<1>1. TermFrame /\ LeaseMoves
  BY TermFrames
<1>2. term \in Nat /\ term' \in Nat /\ term <= term'
  BY <1>1 DEF TypeOK, LeaseMoves, AcquireLease, AcquireFails, OldSessionExpires, SessionExpires,
              DropSession, Crash
<1>3. \A n \in Node : AcquireLease(n) => term' = term + 1 /\ lease'.holder = n
  BY DEF AcquireLease
<1>4. \A n \in Node : \A t \in TermsOf(n)' :
        t \in TermsOf(n) \/ (AcquireLease(n) /\ t = term + 1) \/ t = 0
  BY <1>1, TermsStep
<1>5. \A n \in Node : \A t \in TermsOf(n) : t \in 0 .. term
  BY DEF TermInv
<1>6. ASSUME NEW n \in Node, NEW t \in TermsOf(n)' PROVE t \in 0 .. term'
  BY <1>2, <1>3, <1>4, <1>5
<1>7. ASSUME NEW m \in Node, NEW n \in Node, NEW t \in TermsOf(m)', t \in TermsOf(n)', t # 0
      PROVE  m = n
  BY <1>2, <1>3, <1>4, <1>5, <1>7 DEF TermInv
<1> QED
  BY <1>6, <1>7 DEF TermInv

\* Two nodes never handle requests in one term, however often the lease moves
\* and however late a node learns of it: a term names its leader.
LEMMA TermsHold == Spec => []TermInv
<1>1. Init => TermInv
  BY ReplicationAssumption DEF Init, TermInv, TermsOf, NoLease, NoStatus
<1>2. TypeOK /\ TermInv /\ [Next]_vars => TermInv'
  BY TermInvStep
<1> QED
  BY <1>1, <1>2, TypeCorrect, PTL DEF Spec

(***************************************************************************)
(* Without an expired session nobody acts on a lease that is gone.         *)
(***************************************************************************)

LEMMA UndisputedStep ==
  ASSUME TypeOK, Undisputed, "expiry" \notin FaultKind, "acquire" \notin FaultKind,
         [Next]_vars
  PROVE  Undisputed'
<1>1. TermFrame /\ LeaseMoves
  BY TermFrames
<1>2. CASE term' = term /\ lease' = lease /\ alive \subseteq alive'
  <2>1. ASSUME NEW k \in Node, status'[k].role = "LEADER"
        PROVE  HoldsLease(k) /\ status'[k].term = lease.term
    BY <1>1, <2>1 DEF TermFrame, Undisputed
  <2>2. ASSUME NEW r \in Request
        PROVE  /\ pc'[r] \in Holding => HoldsLease(home'[r]) /\ reqTerm'[r] = lease.term
               /\ reqTerm'[r] <= term
    <3>1. ASSUME NEW k \in Node, status[k].role = "LEADER"
          PROVE  /\ HoldsLease(k) /\ status[k].term = lease.term
                 /\ status[k].term <= term
      BY <3>1, ReplicationAssumption DEF Undisputed, HoldsLease, TypeOK
    <3> QED
      BY <1>1, <3>1 DEF TermFrame, Undisputed
  <2> QED
    BY <1>2, <2>1, <2>2 DEF Undisputed, HoldsLease
<1>3. ASSUME NEW n \in Node, AcquireLease(n) PROVE Undisputed'
  <2>1. /\ lease.holder = None /\ n \in alive
        /\ lease' = [holder |-> n, term |-> term + 1, live |-> TRUE]
        /\ term' = term + 1 /\ status' = status /\ alive' = alive
        /\ pc' = pc /\ home' = home /\ reqTerm' = reqTerm
    BY <1>3 DEF AcquireLease, nodeVars, reqVars
  <2>2. ~ lease.live
    BY <2>1, ReplicationAssumption DEF Undisputed, TypeOK
  <2>3. /\ \A k \in Node : status[k].role # "LEADER"
        /\ \A r \in Request : pc[r] \notin Holding
    BY <2>2 DEF Undisputed, HoldsLease
  <2>4. \A r \in Request : reqTerm[r] <= term + 1
    BY DEF Undisputed, TypeOK
  <2> QED
    BY <2>1, <2>3, <2>4 DEF Undisputed
<1>4. ASSUME NEW n \in Node, OldSessionExpires(n) PROVE Undisputed'
  <2>1. /\ term' = term /\ alive' = alive /\ status' = status
        /\ pc' = pc /\ home' = home /\ reqTerm' = reqTerm
        /\ lease' = IF lease.holder = n THEN NoLease ELSE lease
        /\ Orphaned(n)
    BY <1>4 DEF OldSessionExpires, DropSession, nodeVars, reqVars
  <2>2. CASE lease.holder # n
    BY <2>1, <2>2 DEF Undisputed, HoldsLease
  <2>3. CASE lease.holder = n
    <3>1. ~ lease.live
      BY <2>1, <2>3 DEF Orphaned, Undisputed
    <3>2. /\ \A k \in Node : status[k].role # "LEADER"
          /\ \A r \in Request : pc[r] \notin Holding
      BY <3>1 DEF Undisputed, HoldsLease
    <3> QED
      BY <2>1, <2>3, <3>2 DEF Undisputed, NoLease
  <2> QED
    BY <2>2, <2>3
<1>5. ASSUME NEW n \in Node, SessionExpires(n) \/ AcquireFails(n) PROVE FALSE
  BY <1>5 DEF SessionExpires, AcquireFails, Fault
<1>6. ASSUME NEW n \in Node, Crash(n) PROVE Undisputed'
  <2>1. /\ term' = term /\ alive' = alive \ {n}
        /\ home' = home /\ reqTerm' = reqTerm
        /\ lease' = IF lease.holder = n THEN [lease EXCEPT !.live = FALSE] ELSE lease
    BY <1>6 DEF Crash
  <2>2. \A k \in Node : status'[k] = IF k = n THEN NoStatus ELSE status[k]
    BY <1>6 DEF Crash, TypeOK
  <2>3. \A r \in Request : pc'[r] \in Holding => pc[r] \in Holding /\ home[r] # n
    BY <1>6 DEF Crash, Holding
  <2>4. /\ lease'.holder = lease.holder /\ lease'.term = lease.term
        /\ lease'.live <=> lease.live /\ lease.holder # n
    BY <2>1 DEF TypeOK
  <2> QED
    BY <2>1, <2>2, <2>3, <2>4 DEF Undisputed, HoldsLease, NoStatus
<1> QED
  BY <1>1, <1>2, <1>3, <1>4, <1>5, <1>6 DEF LeaseMoves

\* The only step that gives an entry an index gives it the highest one, in the
\* term of the lease, which is the highest term.
LEMMA FencedStep ==
  ASSUME TypeOK, IndexInv, Undisputed, FencedTerms, [Next]_vars
  PROVE  FencedTerms'
<1>1. TermFrame
  BY TermFrames
<1>2. \A q \in Request : pc[q] # "idle" => reqTerm'[q] = reqTerm[q]
  BY <1>1 DEF TermFrame
<1>3. \A q \in Request : idx[q] \in Nat /\ idx[q] <= logHead /\ (pc[q] = "idle" => idx[q] = 0)
  BY DEF TypeOK, IndexInv
<1>4. ASSUME NEW r \in Request, AdvanceLogHead(r), Advances(nextIndex[r]) PROVE FencedTerms'
  <2>1. /\ pc[r] = "advance" /\ nextIndex[r] > logHead
        /\ idx' = [idx EXCEPT ![r] = nextIndex[r]] /\ reqTerm' = reqTerm
    BY <1>4 DEF AdvanceLogHead, Advances
  <2>2. /\ idx'[r] > logHead /\ idx'[r] \in Nat /\ logHead \in Nat
        /\ \A q \in Request \ {r} : idx'[q] = idx[q]
    BY <2>1 DEF TypeOK
  <2>3. \A q \in Request : reqTerm[q] <= reqTerm[r]
    <3>1. lease.live /\ lease.holder # None /\ reqTerm[r] = lease.term
      BY <2>1, ReplicationAssumption DEF Undisputed, HoldsLease, Holding, TypeOK
    <3> QED
      BY <3>1 DEF Undisputed
  <2>4. ASSUME NEW p \in Request, NEW q \in Request, 0 < idx'[p], idx'[p] < idx'[q]
        PROVE  reqTerm[p] <= reqTerm[q]
    <3>1. CASE q = r
      BY <2>3, <3>1
    <3>2. CASE q # r
      <4>1. p # r
        BY <1>3, <2>2, <2>4, <3>2
      <4> QED
        BY <2>2, <2>4, <3>2, <4>1 DEF FencedTerms
    <3> QED
      BY <3>1, <3>2
  <2> QED
    BY <2>1, <2>4 DEF FencedTerms
<1>5. CASE idx' = idx
  BY <1>2, <1>3, <1>5 DEF FencedTerms
<1>6. ASSUME NEW r \in Request, AdvanceLogHead(r), ~ Advances(nextIndex[r]) PROVE idx' = idx
  BY <1>6 DEF AdvanceLogHead
<1>7. CASE UNCHANGED vars
  BY <1>5, <1>7 DEF vars, reqVars
<1> QED
  BY <1>4, <1>5, <1>6, <1>7, RequestStepIsQuiet, NodeStepIsQuiet DEF Next, Quiet

\* Unless a live process loses its ZooKeeper session, or the acquisition of a lease
\* fails halfway and leaves it without a term, the term fences: the log indices
\* never go back to an older term.  Crashes, restarts, lost messages and
\* failed ZooKeeper calls do not break that; an expired session does (stale_term).
THEOREM FencedWithoutExpiry ==
  ASSUME "expiry" \notin FaultKind, "acquire" \notin FaultKind
  PROVE  Spec => []FencedTerms
<1>1. Init => Undisputed /\ FencedTerms
  BY ReplicationAssumption DEF Init, Undisputed, FencedTerms, NoLease, NoStatus, Holding
<1>2. TypeOK /\ IndexInv /\ Undisputed /\ FencedTerms /\ [Next]_vars
        => Undisputed' /\ FencedTerms'
  BY UndisputedStep, FencedStep
<1> QED
  BY <1>1, <1>2, InvariantsHold, PTL DEF Spec

(***************************************************************************)
(* Where a decision comes from.                                            *)
(***************************************************************************)

LEMMA DecidedStays ==
  ASSUME TypeOK, IndexInv, DecisionInv, [Next]_vars,
         NEW r \in Request, NEW p \in PaymentID, NEW s \in FinalStatus, DecidedBy(r, p, s)
  PROVE  DecidedBy(r, p, s)'
<1>1. pc[r] # "idle" /\ idx'[r] = idx[r]
  BY IndexStays DEF DecidedBy, IndexInv
<1>2. home[r] \in Node /\ home'[r] = home[r]
  BY <1>1, TermFrames, ReplicationAssumption DEF TermFrame, DecisionInv
<1>3. ledger'[home[r]][p] = ledger[home[r]][p]
  BY <1>2, StoreStep, FinalStays DEF DecidedBy, row, IsFinal
<1> QED
  BY <1>1, <1>2, <1>3 DEF DecidedBy, row

LEMMA OriginsStep ==
  ASSUME TypeOK, IndexInv, DecisionInv, Origins, [Next]_vars
  PROVE  Origins'
<1> SUFFICES ASSUME NEW n \in Node, NEW p \in PaymentID, IsFinal(ledger'[n], p)
             PROVE  \E r \in Request : DecidedBy(r, p, ledger[n][p].status)'
  BY DEF Origins, IsFinal
<1>1. CASE ledger'[n][p] = ledger[n][p]
  BY <1>1, DecidedStays DEF Origins, IsFinal
<1>2. ASSUME NEW m \in Node, NEW q \in PaymentID, NEW i \in Nat, Appended(m, q, i)
      PROVE  ledger'[n][p] = ledger[n][p]
  <2>1. \/ ledger'[n][p] = ledger[n][p]
        \/ ledger'[n][p] = [status |-> "PENDING", log_index |-> i]
    BY <1>2, AppendedRows
  <2>2. ledger'[n][p].status # "PENDING"
    BY DEF IsFinal, FinalStatus
  <2> QED
    BY <2>1, <2>2
<1>3. ASSUME NEW m \in Node, NEW q \in PaymentID, NEW s \in FinalStatus,
             Allowed(m, q, s), Finalized(m, q, s), ledger'[n][p] # ledger[n][p]
      PROVE  \E r \in Request : DecidedBy(r, p, ledger[n][p].status)'
  <2>1. m = n /\ q = p /\ ledger'[n][p].status = s
    BY <1>3, FinalizedRows
  <2>2. ASSUME NEW r \in Request, pc[r] = "append", home[r] = n, pid(r) = p,
               s = "CANCELED" <=> op(r) = "cancel"
        PROVE  DecidedBy(r, p, s)'
    <3>1. idx[r] > 0 /\ idx'[r] = idx[r]
      BY <2>2, IndexStays DEF IndexInv
    <3>2. home'[r] = n
      BY <2>2, TermFrames DEF TermFrame
    <3> QED
      BY <2>1, <2>2, <3>1, <3>2 DEF DecidedBy, row
  <2>3. ASSUME NEW k \in Node, ledger[k][p].status = s
        PROVE  \E r \in Request : DecidedBy(r, p, s)'
    BY <2>3, DecidedStays DEF Origins, IsFinal
  <2> QED
    BY <1>3, <2>1, <2>2, <2>3 DEF Allowed, Decides, DecidedBy
<1> QED
  BY <1>1, <1>2, <1>3, StoreStep DEF StoreSteps

LEMMA OriginsHold == Spec => []Origins
<1>1. Init => Origins
  BY DEF Init, Origins, IsFinal, FinalStatus, EmptyTable, NoRow
<1>2. TypeOK /\ IndexInv /\ DecisionInv /\ Origins /\ [Next]_vars => Origins'
  BY OriginsStep
<1> QED
  BY <1>1, <1>2, InvariantsHold, PTL DEF Spec

\* Two tables disagree only about a payment that two nodes decided, each in a
\* term of its own and with a log index of its own: within a term no crash, lost
\* message, cancelled context or catch-up divides the cluster.
THEOREM DivergenceTakesTwoTerms == Spec => []DivergenceNeedsTwoTerms
<1>1. TypeOK /\ IndexInv /\ DecisionInv /\ TermInv /\ Origins => DivergenceNeedsTwoTerms
  <2> SUFFICES ASSUME TypeOK, IndexInv, DecisionInv, TermInv, Origins,
                      NEW m \in Node, NEW n \in Node, NEW p \in PaymentID,
                      IsFinal(ledger[m], p), IsFinal(ledger[n], p),
                      ledger[m][p].status # ledger[n][p].status
               PROVE  \E q, r \in Request :
                        /\ DecidedBy(q, p, ledger[m][p].status)
                        /\ DecidedBy(r, p, ledger[n][p].status)
                        /\ home[q] # home[r]
                        /\ TwoTerms(q, r)
    BY DEF DivergenceNeedsTwoTerms
  <2>1. PICK q \in Request : DecidedBy(q, p, ledger[m][p].status)
    BY DEF Origins
  <2>2. PICK r \in Request : DecidedBy(r, p, ledger[n][p].status)
    BY DEF Origins
  <2>3. home[q] # home[r]
    BY <2>1, <2>2 DEF DecidedBy, row
  <2>4. /\ pc[q] # "idle" /\ home[q] \in Node
        /\ pc[r] # "idle" /\ home[r] \in Node
    BY <2>1, <2>2, ReplicationAssumption DEF DecidedBy, IndexInv, DecisionInv
  <2>5. reqTerm[q] \in TermsOf(home[q]) /\ reqTerm[r] \in TermsOf(home[r])
    BY <2>4 DEF TermsOf
  <2>6. TwoTerms(q, r)
    BY <2>3, <2>4, <2>5 DEF TermInv, TwoTerms
  <2> QED
    BY <2>1, <2>2, <2>3, <2>6
<1> QED
  BY <1>1, InvariantsHold, TermsHold, OriginsHold, PTL

(***************************************************************************)
(* The lease of Replication is one Leadership allows.  Whoever holds it,   *)
(* live or not, was granted its term: that is what a claim needs.          *)
(***************************************************************************)
LeaseIsGranted ==
  lease.holder # None /\ lease.term # 0 => /\ <<lease.term, lease.holder>> \in grants
                                           /\ lease.term \in 1 .. term

\* A step that is not an acquisition or a refresh at most makes nodes forget
\* their role and the lease lose its holder.
LEMMA QuietLeadership ==
  ASSUME TypeOK, [Next]_vars,
         \A n \in Node : ~ AcquireLease(n) /\ ~ AcquireFails(n) /\ ~ RefreshStatus(n)
  PROVE  /\ term' = term
         /\ \/ lease'.holder = None
            \/ lease'.holder = lease.holder /\ lease'.term = lease.term
         /\ \/ status' = status
            \/ \E n \in Node : status' = [status EXCEPT ![n] = NoStatus]
<1>1. CASE UNCHANGED vars
  BY <1>1 DEF vars, zkVars, nodeVars
<1>2. ASSUME NEW r \in Request, RequestNext(r)
      PROVE  term' = term /\ lease' = lease /\ status' = status
  BY <1>2, RequestTermFrame
<1>3. ASSUME NEW n \in Node, CatchUpStep(n) \/ CatchUpTimesOut(n)
      PROVE  term' = term /\ lease' = lease /\ status' = status
  BY <1>3 DEF CatchUpStep, CatchUpAsk, CatchUpRedirect, CatchUpServe, CatchUpRefused,
              CatchUpTimesOut, CatchUpAppend, CatchUpFinalize, zkVars, nodeVars
<1>4. ASSUME NEW n \in Node, Register(n) \/ Restart(n)
      PROVE  term' = term /\ lease' = lease /\ status' = status
  BY <1>4 DEF Register, Restart, zkVars, nodeVars
<1>5. ASSUME NEW n \in Node, LoseStatus(n)
      PROVE  term' = term /\ lease' = lease /\ status' = [status EXCEPT ![n] = NoStatus]
  BY <1>5 DEF LoseStatus, zkVars
<1>6. ASSUME NEW n \in Node, OldSessionExpires(n) \/ SessionExpires(n)
      PROVE  term' = term /\ status' = status /\ (lease' = NoLease \/ lease' = lease)
  BY <1>6 DEF OldSessionExpires, SessionExpires, DropSession, nodeVars
<1>7. ASSUME NEW n \in Node, Crash(n)
      PROVE  /\ term' = term /\ status' = [status EXCEPT ![n] = NoStatus]
             /\ lease'.holder = lease.holder /\ lease'.term = lease.term
  BY <1>7 DEF TypeOK, Crash
<1> QED
  BY <1>1, <1>2, <1>3, <1>4, <1>5, <1>6, <1>7
     DEF Next, NodeNext, CoordinationStep, NoLease

LEMMA LeaseIsGrantedStep ==
  ASSUME TypeOK, LeaseIsGranted, [HistoryNext]_historyVars
  PROVE  LeaseIsGranted'
<1>1. [Next]_vars
  BY DEF HistoryNext, historyVars
<1>2. term \in Nat
  BY DEF TypeOK
<1>3. CASE \E n \in Node : AcquireLease(n)
  <2>1. PICK n \in Node : AcquireLease(n)
    BY <1>3
  <2>2. term' = term + 1 /\ lease'.holder = n /\ lease'.term = term + 1
    BY <2>1 DEF AcquireLease
  <2>3. Recorded
    BY <1>2, <2>2 DEF HistoryNext, historyVars, vars, zkVars
  <2> QED
    BY <1>2, <2>2, <2>3 DEF LeaseIsGranted, Recorded
<1>4. ASSUME NEW n \in Node, RefreshStatus(n)
      PROVE  term' = term /\ lease' = lease
  BY <1>4 DEF RefreshStatus, zkVars
<1>5. CASE ~ \E n \in Node : AcquireLease(n) \/ AcquireFails(n)
  <2>1. /\ term' = term
        /\ \/ lease'.holder = None
           \/ lease'.holder = lease.holder /\ lease'.term = lease.term
    BY <1>1, <1>4, <1>5, QuietLeadership
  <2>2. grants' = grants
    BY <2>1 DEF HistoryNext, Recorded, historyVars
  <2> QED
    BY <2>1, <2>2 DEF LeaseIsGranted
<1>6. CASE \E n \in Node : AcquireFails(n)
  BY <1>6 DEF AcquireFails, LeaseIsGranted
<1> QED
  BY <1>3, <1>5, <1>6

\* A refresh claims the term of the lease its node holds, or steps down; to lead
\* under term 0 is no claim.
LEMMA RefreshIsClaim ==
  ASSUME TypeOK, LeaseIsGranted, NEW n \in Node, RefreshStatus(n), grants' = grants
  PROVE  L!StepDown(n) \/ \E t \in 1 .. term : L!Claim(n, t)
<1>1. /\ status \in [Node -> [role : Role, leader : Electable \cup {None}, term : Nat]]
      /\ status' = [status EXCEPT ![n] = LeaseStatus(n)]
      /\ term' = term
  BY DEF TypeOK, RefreshStatus, zkVars
<1>2. CASE LeaseStatus(n).role = "LEADER" /\ LeaseStatus(n).term # 0
  <2>1. lease.holder = n /\ LeaseStatus(n).term = lease.term
    BY <1>2 DEF LeaseStatus, HoldsLease, NoStatus
  <2>2. <<lease.term, n>> \in grants /\ lease.term \in 1 .. term
    BY <1>2, <2>1, ReplicationAssumption DEF LeaseIsGranted
  <2>3. Claims' = [Claims EXCEPT ![n] = lease.term]
    BY <1>1, <1>2, <2>1 DEF Claims
  <2>4. L!Claim(n, lease.term)
    BY <1>1, <2>2, <2>3 DEF L!Claim
  <2> QED
    BY <2>2, <2>4
<1>3. CASE LeaseStatus(n).role # "LEADER" \/ LeaseStatus(n).term = 0
  <2>1. Claims' = [Claims EXCEPT ![n] = 0]
    BY <1>1, <1>3 DEF Claims
  <2> QED
    BY <1>1, <2>1 DEF L!StepDown
<1> QED
  BY <1>2, <1>3

\* The terms of Replication are handed out and claimed as Leadership allows:
\* what the handlers rely on is what the coordination is proved to provide.
THEOREM ReplicationImplementsLeadership == HistorySpec => LeaseImplementsLeadership
<1>1. HistoryInit => L!Init /\ LeaseIsGranted
  BY DEF HistoryInit, Init, L!Init, Claims, NoStatus, NoLease, LeaseIsGranted
<1>2. TypeOK /\ LeaseIsGranted /\ [HistoryNext]_historyVars
        => [L!Next]_<<term, grants, Claims>>
  <2> SUFFICES ASSUME TypeOK, LeaseIsGranted, [HistoryNext]_historyVars
               PROVE  L!Next \/ UNCHANGED <<term, grants, Claims>>
    OBVIOUS
  <2>1. [Next]_vars /\ (Recorded \/ grants' = grants)
    BY DEF HistoryNext, historyVars
  <2>2. term' = term => grants' = grants
    BY <2>1 DEF Recorded
  <2>3. ASSUME NEW n \in Node, AcquireLease(n)
        PROVE  L!Grant(n)
    <3>1. /\ term' = term + 1 /\ lease'.holder = n /\ status' = status
          /\ term' # term
      BY <2>3 DEF AcquireLease, TypeOK, nodeVars
    <3>2. Recorded
      BY <3>1 DEF HistoryNext, historyVars, vars, zkVars
    <3> QED
      BY <3>1, <3>2 DEF Recorded, L!Grant, Claims
  <2>4. ASSUME NEW n \in Node, RefreshStatus(n)
        PROVE  L!Next
    <3>1. term' = term
      BY <2>4 DEF RefreshStatus, zkVars
    <3> QED
      BY <2>2, <2>4, <3>1, RefreshIsClaim DEF L!Next
  <2>5. CASE \A n \in Node : ~ AcquireLease(n) /\ ~ AcquireFails(n) /\ ~ RefreshStatus(n)
    <3>1. /\ term' = term
          /\ \/ status' = status
             \/ \E n \in Node : status' = [status EXCEPT ![n] = NoStatus]
      BY <2>1, <2>5, QuietLeadership
    <3>2. ASSUME NEW n \in Node, status' = [status EXCEPT ![n] = NoStatus]
          PROVE  L!StepDown(n)
      <4>1. Claims' = [Claims EXCEPT ![n] = 0]
        BY <3>2 DEF Claims, TypeOK, NoStatus
      <4> QED
        BY <2>2, <3>1, <4>1 DEF L!StepDown
    <3> QED
      BY <2>2, <3>1, <3>2 DEF L!Next, Claims
  <2>6. ASSUME NEW n \in Node, AcquireFails(n)
        PROVE  L!StepDown(n) \/ L!Grant(n)
    <3>1. /\ term' \in {term, term + 1} /\ lease'.holder = n
          /\ term + 1 # term
      BY <2>6 DEF AcquireFails, TypeOK
    <3>2. Claims' = [Claims EXCEPT ![n] = 0]
      BY <2>6 DEF AcquireFails, Claims, TypeOK, NoStatus
    <3>3. CASE term' = term
      BY <2>2, <3>2, <3>3 DEF L!StepDown
    <3>4. CASE term' = term + 1
      <4>1. Recorded
        BY <3>1, <3>4 DEF HistoryNext, historyVars, vars, zkVars
      <4> QED
        BY <3>1, <3>2, <3>4, <4>1 DEF Recorded, L!Grant
    <3> QED
      BY <3>1, <3>3, <3>4
  <2> QED
    BY <2>3, <2>4, <2>5, <2>6 DEF L!Next
<1>3. HistorySpec => Spec
  <2>1. HistoryInit => Init
    BY DEF HistoryInit
  <2>2. [HistoryNext]_historyVars => [Next]_vars
    BY DEF HistoryNext, historyVars
  <2> QED
    BY <2>1, <2>2, PTL DEF HistorySpec, Spec
<1>4. TypeOK /\ LeaseIsGranted /\ [HistoryNext]_historyVars => LeaseIsGranted'
  BY LeaseIsGrantedStep
<1> QED
  BY <1>1, <1>2, <1>3, <1>4, TypeCorrect, PTL
     DEF HistorySpec, LeaseImplementsLeadership, L!Spec, L!vars, Claims
=============================================================================
