---------------------- MODULE ReplicationQuorumProofs ----------------------
(***************************************************************************)
(* What Replication leaves in the tables of a cluster: a payment that is   *)
(* decided is held by a majority, and has one log index unless two nodes   *)
(* in two terms, or a cancellation, gave it another.                       *)
(***************************************************************************)
EXTENDS ReplicationPromiseProofs, FiniteSetTheorems

(***************************************************************************)
(* Rows are not deleted and keep their log index.                          *)
(***************************************************************************)

RowsStay ==
  \A n \in Node, p \in PaymentID :
    Exists(ledger[n], p) => /\ Exists(ledger[n], p)'
                            /\ ledger'[n][p].log_index = ledger[n][p].log_index

LEMMA RowsStayStep ==
  ASSUME TypeOK, StoreSteps
  PROVE  RowsStay
<1> SUFFICES ASSUME NEW n \in Node, NEW p \in PaymentID, Exists(ledger[n], p)
             PROVE  /\ Exists(ledger'[n], p)
                    /\ ledger'[n][p].log_index = ledger[n][p].log_index
  BY DEF RowsStay, Exists
<1>1. ASSUME NEW m \in Node, NEW q \in PaymentID, NEW i \in Nat, Appended(m, q, i)
      PROVE  ledger'[n][p] = ledger[n][p]
  BY <1>1, AppendedRows
<1>2. ASSUME NEW m \in Node, NEW q \in PaymentID, NEW s \in FinalStatus, Finalized(m, q, s)
      PROVE  /\ Exists(ledger'[n], p)
             /\ ledger'[n][p].log_index = ledger[n][p].log_index
  BY <1>2, FinalizedRows DEF Exists, FinalStatus
<1> QED
  BY <1>1, <1>2 DEF StoreSteps, Exists

(***************************************************************************)
(* A majority.  A follower counts once its table has the payment.          *)
(***************************************************************************)

Counted(r) ==
  /\ pc[r] \notin {"append", "notify"} => acks[r] = {}
  /\ pc[r] \notin {"replicate", "append", "notify"} => fol[r] = {}
  /\ home[r] \notin fol[r]
  /\ acks[r] \subseteq fol[r]
  /\ pc[r] = "append" => waiting[r] \subseteq fol[r]
  /\ pc[r] \in {"append", "notify"} => Exists(ledger[home[r]], pid(r))
  /\ \A f \in acks[r] : Exists(ledger[f], pid(r))
  /\ pc[r] = "notify" => QuorumReached(r)

\* The handler of q stands where it stood.
Rests(q) ==
  /\ pc'[q] = pc[q]
  /\ home'[q] = home[q]
  /\ fol'[q] = fol[q]
  /\ waiting'[q] = waiting[q]
  /\ acks'[q] = acks[q]

LEMMA RestsKeepsCounted ==
  ASSUME TypeOK, DecisionInv, RowsStay, NEW q \in Request, Rests(q), Counted(q)
  PROVE  Counted(q)'
<1>1. pc[q] \in {"append", "notify"} => home[q] \in Node
  BY ReplicationAssumption DEF DecisionInv
<1>2. acks[q] \subseteq Node /\ pid(q) \in PaymentID
  BY JobType DEF TypeOK
<1>3. pc[q] \in {"append", "notify"} => Exists(ledger'[home[q]], pid(q))
  BY <1>1, <1>2 DEF Counted, RowsStay, Exists
<1>4. \A f \in acks[q] : Exists(ledger'[f], pid(q))
  BY <1>2 DEF Counted, RowsStay, Exists
<1> QED
  BY <1>3, <1>4 DEF Counted, Rests, Exists, QuorumReached

LEMMA HandlerCounted ==
  ASSUME TypeOK, DecisionInv, RowsStay, NEW r \in Request, Counted(r),
         \/ \E n \in Node : Receive(r, n)
         \/ CheckLedger(r) \/ ReadLogHead(r) \/ VerifyLease(r) \/ AdvanceLogHead(r)
         \/ LogIndexFails(r) \/ GetFollowers(r) \/ GetFollowersFails(r)
  PROVE  Counted(r)' /\ \A q \in Request \ {r} : Rests(q)
<1>1. /\ pc[r] \notin {"replicate", "append", "notify"}
      /\ pc' \in [Request -> PC]
      /\ pc'[r] \notin {"append", "notify"}
      /\ \A q \in Request \ {r} : pc'[q] = pc[q]
      /\ acks' = acks /\ waiting' = waiting
  BY DEF TypeOK, Receive, CheckLedger, ReadLogHead, VerifyLease, AdvanceLogHead, LogIndexFails,
         GetFollowers, GetFollowersFails, Goto, Answer, PC, Holding
<1>2. acks[r] = {} /\ fol[r] = {}
  BY <1>1 DEF Counted
<1>3. CASE \/ \E n \in Node : Receive(r, n)
           \/ CheckLedger(r) \/ ReadLogHead(r) \/ VerifyLease(r) \/ AdvanceLogHead(r)
           \/ LogIndexFails(r) \/ GetFollowersFails(r)
  <2>1. /\ fol' = fol
        /\ \A q \in Request \ {r} : home'[q] = home[q]
    BY <1>3 DEF TypeOK, Receive, CheckLedger, ReadLogHead, VerifyLease, AdvanceLogHead,
                LogIndexFails, GetFollowersFails
  <2> QED
    BY <1>1, <1>2, <2>1 DEF Counted, Rests
<1>4. CASE GetFollowers(r)
  <2>1. /\ pc' = [pc EXCEPT ![r] = "replicate"] /\ home' = home
        /\ fol' = [fol EXCEPT ![r] = members \ {home[r]}]
    BY <1>4 DEF GetFollowers, Goto
  <2>2. pc'[r] = "replicate" /\ fol'[r] = members \ {home[r]}
    BY <2>1 DEF TypeOK
  <2>3. \A q \in Request \ {r} : fol'[q] = fol[q]
    BY <2>1 DEF TypeOK
  <2> QED
    BY <1>1, <1>2, <2>1, <2>2, <2>3 DEF Counted, Rests
<1> QED
  BY <1>3, <1>4

LEMMA ReplicateCounted ==
  ASSUME TypeOK, DecisionInv, RowsStay, NEW r \in Request, Counted(r), Replicate(r)
  PROVE  Counted(r)' /\ \A q \in Request \ {r} : Rests(q)
<1>1. pc[r] = "replicate" /\ home' = home /\ acks[r] = {}
  BY DEF Replicate, Counted
<1>2. CASE r \in gone
  BY <1>1, <1>2 DEF TypeOK, Replicate, Answer, Goto, Forget, Counted, Rests
<1>3. CASE r \notin gone
  <2>1. /\ pc' = [pc EXCEPT ![r] = "append"]
        /\ waiting' = [waiting EXCEPT ![r] = fol[r]]
        /\ fol' = fol /\ acks' = acks
        /\ ledger' = [ledger EXCEPT ![home[r]] =
                        AppendPending(ledger[home[r]], pid(r), idx[r])]
    BY <1>3 DEF Replicate, Goto, SetTable
  <2>2. home[r] \in Node /\ pid(r) \in PaymentID
    BY <1>1, JobType, ReplicationAssumption DEF DecisionInv
  <2>3. Exists(ledger'[home[r]], pid(r))
    BY <2>1, <2>2 DEF TypeOK, Table, AppendPending, Exists
  <2>4. pc'[r] = "append" /\ waiting'[r] = fol[r]
    BY <2>1 DEF TypeOK
  <2>5. \A q \in Request \ {r} : pc'[q] = pc[q] /\ waiting'[q] = waiting[q]
    BY <2>1 DEF TypeOK
  <2> QED
    BY <1>1, <2>1, <2>3, <2>4, <2>5 DEF Counted, Rests, Exists
<1> QED
  BY <1>2, <1>3

LEMMA DeliverCounted ==
  ASSUME TypeOK, DecisionInv, RowsStay, NEW r \in Request, Counted(r),
         NEW f \in Node, DeliverAppend(r, f)
  PROVE  Counted(r)' /\ \A q \in Request \ {r} : Rests(q)
<1>1. pc' = pc /\ home' = home /\ fol' = fol
  BY DEF DeliverAppend
<1>2. CASE pc[r] = "append" /\ f \in waiting[r]
  <2>1. /\ acks' = [acks EXCEPT ![r] = @ \cup {f}]
        /\ waiting' = [waiting EXCEPT ![r] = @ \ {f}]
        /\ ledger' = [ledger EXCEPT ![f] = AppendPending(ledger[f], pid(r), idx[r])]
    BY <1>2 DEF DeliverAppend, SetTable
  <2>2. acks'[r] = acks[r] \cup {f} /\ waiting'[r] = waiting[r] \ {f}
    BY <2>1 DEF TypeOK
  <2>3. \A q \in Request \ {r} : acks'[q] = acks[q] /\ waiting'[q] = waiting[q]
    BY <2>1 DEF TypeOK
  <2>4. home[r] \in Node /\ pid(r) \in PaymentID /\ acks[r] \subseteq Node
    BY <1>2, JobType, ReplicationAssumption DEF DecisionInv, TypeOK
  <2>5. Exists(ledger'[f], pid(r))
    BY <2>1, <2>4 DEF TypeOK, Table, AppendPending, Exists
  <2>6. Exists(ledger'[home[r]], pid(r)) /\ \A g \in acks[r] : Exists(ledger'[g], pid(r))
    BY <1>2, <2>4 DEF Counted, RowsStay, Exists
  <2> QED
    BY <1>1, <1>2, <2>2, <2>3, <2>5, <2>6 DEF Counted, Rests, Exists
<1>3. CASE ~ (pc[r] = "append" /\ f \in waiting[r])
  <2>1. acks' = acks /\ waiting' = waiting
    BY <1>3 DEF DeliverAppend
  <2> QED
    BY <1>1, <2>1, RestsKeepsCounted DEF Rests
<1> QED
  BY <1>2, <1>3

\* The steps that only take followers off the list of those waited for, and the
\* decision of the node itself.
LEMMA CountCounted ==
  ASSUME TypeOK, DecisionInv, RowsStay, NEW r \in Request, Counted(r),
         \/ \E f \in Node : CallFails(r, f) \/ CallTimesOut(r, f) \/ Notify(r, f)
         \/ Decide(r)
  PROVE  Counted(r)' /\ \A q \in Request \ {r} : Rests(q)
<1>1. /\ pc[r] \in {"append", "notify"}
      /\ home' = home /\ fol' = fol /\ acks' = acks
  BY DEF CallFails, CallTimesOut, Notify, Decide
<1>2. home[r] \in Node /\ pid(r) \in PaymentID /\ acks[r] \subseteq Node
  BY <1>1, JobType, ReplicationAssumption DEF DecisionInv, TypeOK
<1>3. Exists(ledger'[home[r]], pid(r)) /\ \A g \in acks[r] : Exists(ledger'[g], pid(r))
  BY <1>1, <1>2 DEF Counted, RowsStay, Exists
<1>4. ASSUME NEW f \in Node, CallFails(r, f) \/ CallTimesOut(r, f) \/ Notify(r, f)
      PROVE  Counted(r)' /\ \A q \in Request \ {r} : Rests(q)
  <2>1. pc' = pc /\ waiting' = [waiting EXCEPT ![r] = @ \ {f}]
    BY <1>4 DEF CallFails, CallTimesOut, Notify
  <2>2. waiting'[r] \subseteq waiting[r] /\ \A q \in Request \ {r} : waiting'[q] = waiting[q]
    BY <2>1 DEF TypeOK
  <2> QED
    BY <1>1, <1>3, <2>1, <2>2 DEF Counted, Rests, Exists, QuorumReached
<1>5. CASE Decide(r)
  <2>1. pc' = [pc EXCEPT ![r] = "notify"] /\ waiting' = [waiting EXCEPT ![r] = fol[r]]
    BY <1>5 DEF Decide, Goto
  <2>2. pc'[r] = "notify" /\ \A q \in Request \ {r} : pc'[q] = pc[q] /\ waiting'[q] = waiting[q]
    BY <2>1 DEF TypeOK
  <2>3. QuorumReached(r)
    BY <1>5 DEF Decide
  <2> QED
    BY <1>1, <1>3, <2>2, <2>3 DEF Counted, Rests, Exists, QuorumReached
<1> QED
  BY <1>4, <1>5

LEMMA AnswerCounted ==
  ASSUME TypeOK, NEW r \in Request, Counted(r), DecideFails(r) \/ Respond(r)
  PROVE  Counted(r)' /\ \A q \in Request \ {r} : Rests(q)
<1>1. home' = home /\ Forget(r) /\ pc' = [pc EXCEPT ![r] = "done"]
  BY DEF DecideFails, Respond, Answer, Goto
<1>2. pc'[r] = "done" /\ fol'[r] = {} /\ acks'[r] = {}
  BY <1>1 DEF TypeOK, Forget
<1>3. \A q \in Request \ {r} : Rests(q)
  BY <1>1 DEF TypeOK, Forget, Rests
<1> QED
  BY <1>2, <1>3 DEF Counted

LEMMA CrashCounted ==
  ASSUME TypeOK, NEW n \in Node, Crash(n), NEW q \in Request, Counted(q)
  PROVE  Rests(q) \/ Counted(q)'
<1>1. CASE home[q] = n /\ pc[q] \in Holding
  <2>1. pc'[q] = "lost" /\ fol'[q] = {} /\ acks'[q] = {}
    BY <1>1 DEF Crash
  <2> QED
    BY <2>1 DEF Counted
<1>2. CASE ~ (home[q] = n /\ pc[q] \in Holding)
  <2>1. Rests(q)
    BY <1>2 DEF Crash, Rests
  <2> QED
    BY <2>1
<1> QED
  BY <1>1, <1>2

CountedInv == \A q \in Request : Counted(q)

LEMMA CountedStep ==
  ASSUME TypeOK, IndexInv, DecisionInv, CountedInv, [Next]_vars
  PROVE  CountedInv'
<1>1. RowsStay
  BY StoreStep, RowsStayStep
<1>2. ASSUME NEW r \in Request, RequestNext(r)
      PROVE  Counted(r)' /\ \A q \in Request \ {r} : Rests(q)
  <2>1. Counted(r)
    BY DEF CountedInv
  <2>2. ASSUME ClientGone(r) \/ \E f \in Node : DeliverDecision(r, f) \/ CallLost(r, f)
        PROVE  Counted(r)' /\ \A q \in Request \ {r} : Rests(q)
    <3>1. UNCHANGED reqVars
      BY <2>2 DEF ClientGone, DeliverDecision, CallLost
    <3>2. \A q \in Request : Rests(q)
      BY <3>1 DEF reqVars, Rests
    <3> QED
      BY <1>1, <2>1, <3>2, RestsKeepsCounted
  <2> QED
    BY <1>1, <1>2, <2>1, <2>2, HandlerCounted, ReplicateCounted, DeliverCounted, CountCounted,
       AnswerCounted
       DEF RequestNext, HandlerStep
<1>3. ASSUME NEW n \in Node, NodeNext(n), NEW q \in Request
      PROVE  Rests(q) \/ Counted(q)'
  <2>1. CASE Crash(n)
    BY <2>1, CrashCounted DEF CountedInv
  <2>2. CASE ~ Crash(n)
    <3>1. UNCHANGED reqVars
      BY <1>3, <2>2
         DEF NodeNext, CatchUpStep, CatchUpAsk, CatchUpRedirect, CatchUpServe, CatchUpRefused,
             CatchUpTimesOut, CatchUpAppend, CatchUpFinalize, CoordinationStep, AcquireLease,
             AcquireFails, RefreshStatus, OldSessionExpires, SessionExpires, DropSession, Register,
             LoseStatus, Restart
    <3> QED
      BY <3>1 DEF reqVars, Rests
  <2> QED
    BY <2>1, <2>2
<1>4. ASSUME UNCHANGED vars, NEW q \in Request PROVE Rests(q)
  BY <1>4 DEF vars, reqVars, Rests
<1>5. ASSUME NEW q \in Request PROVE Rests(q) \/ Counted(q)'
  BY <1>2, <1>3, <1>4 DEF Next
<1> QED
  BY <1>1, <1>5, RestsKeepsCounted DEF CountedInv

LEMMA CountedMeansMajority ==
  ASSUME TypeOK, IsFiniteSet(Node), NEW r \in Request, Counted(r),
         pc[r] \in {"append", "notify"}, QuorumReached(r)
  PROVE  LET cluster == fol[r] \cup {home[r]}
         IN  2 * Cardinality({n \in cluster : Exists(ledger[n], pid(r))}) > Cardinality(cluster)
<1> DEFINE cluster == fol[r] \cup {home[r]}
           having == {n \in cluster : Exists(ledger[n], pid(r))}
           told == acks[r] \cup {home[r]}
<1>1. /\ home[r] \notin fol[r] /\ acks[r] \subseteq fol[r] /\ QuorumReached(r)
      /\ told \subseteq having /\ having \subseteq cluster
  BY DEF Counted
<1>2. IsFiniteSet(fol[r])
  BY FS_Subset DEF TypeOK
<1>3. IsFiniteSet(acks[r])
  BY <1>1, <1>2, FS_Subset
<1>4. Cardinality(fol[r]) \in Nat /\ Cardinality(acks[r]) \in Nat
  BY <1>2, <1>3, FS_CardinalityType
<1>5. IsFiniteSet(cluster) /\ Cardinality(cluster) = Cardinality(fol[r]) + 1
  BY <1>1, <1>2, FS_AddElement
<1>6. home[r] \notin acks[r]
  BY <1>1
<1>7. Cardinality(told) = Cardinality(acks[r]) + 1
  BY <1>3, <1>6, FS_AddElement
<1>8. IsFiniteSet(having)
  BY <1>1, <1>5, FS_Subset
<1>9. Cardinality(having) \in Nat /\ Cardinality(told) <= Cardinality(having)
  BY <1>1, <1>8, FS_Subset, FS_CardinalityType
<1>10. 1 + Cardinality(acks[r]) >= (1 + Cardinality(fol[r])) \div 2 + 1
  BY <1>1 DEF QuorumReached, RequiredQuorum
<1> HIDE DEF cluster, having, told
<1>11. 2 * Cardinality(having) > Cardinality(cluster)
  BY <1>4, <1>5, <1>7, <1>9, <1>10
<1> QED
  BY <1>11 DEF cluster, having

\* When ReplicateWithQuorum decides, more than half of the nodes it wrote to
\* have the payment, whatever the calls that failed, timed out or came twice.
THEOREM DecidedByMajority ==
  ASSUME IsFiniteSet(Node)
  PROVE  Spec => []QuorumHolds
<1>1. Init => CountedInv
  BY DEF Init, CountedInv, Counted
<1>2. TypeOK /\ IndexInv /\ DecisionInv /\ CountedInv /\ [Next]_vars => CountedInv'
  BY CountedStep
<1>3. TypeOK /\ CountedInv => QuorumHolds
  BY CountedMeansMajority DEF CountedInv, Counted, QuorumHolds
<1> QED
  BY <1>1, <1>2, <1>3, InvariantsHold, PTL DEF Spec

(***************************************************************************)
(* What an answered payment leaves at its node.                            *)
(***************************************************************************)

\* r keeps its answer, or gets it now, with a log index only in three ways.
LEMMA AnswerStep ==
  ASSUME TypeOK, IndexInv, DecisionInv, NEW r \in Request, [Next]_vars,
         pc'[r] = "done", idx'[r] > 0, r \notin gone'
  PROVE  /\ r \notin gone
         /\ \/ pc[r] = "done" /\ idx[r] = idx'[r] /\ home'[r] = home[r]
            \/ DecideFails(r)
            \/ Respond(r)
<1> USE DEF Goto, Answer, Holding
<1>1. r \notin gone
  <2>1. ASSUME NEW q \in Request, RequestNext(q) PROVE gone \subseteq gone'
    <3>1. CASE \/ \E n \in Node : Receive(q, n)
               \/ CheckLedger(q) \/ ReadLogHead(q) \/ VerifyLease(q) \/ AdvanceLogHead(q)
               \/ LogIndexFails(q) \/ GetFollowers(q) \/ GetFollowersFails(q)
               \/ Replicate(q) \/ Decide(q) \/ DecideFails(q) \/ Respond(q) \/ ClientGone(q)
      BY <3>1 DEF Receive, CheckLedger, ReadLogHead, VerifyLease, AdvanceLogHead, LogIndexFails,
                  GetFollowers, GetFollowersFails, Replicate, Decide, DecideFails, Respond,
                  ClientGone
    <3>2. CASE \E f \in Node : \/ CallFails(q, f) \/ CallTimesOut(q, f) \/ CallLost(q, f)
                               \/ Notify(q, f) \/ DeliverAppend(q, f) \/ DeliverDecision(q, f)
      BY <3>2 DEF CallFails, CallTimesOut, CallLost, Notify, DeliverAppend, DeliverDecision
    <3> QED
      BY <2>1, <3>1, <3>2 DEF RequestNext, HandlerStep
  <2>2. ASSUME NEW n \in Node, NodeNext(n) PROVE gone' = gone
    BY <2>2
       DEF NodeNext, CatchUpStep, CoordinationStep, CatchUpAsk, CatchUpRedirect, CatchUpServe,
           CatchUpRefused, CatchUpTimesOut, CatchUpAppend, CatchUpFinalize, AcquireLease,
           AcquireFails, RefreshStatus, LoseStatus, OldSessionExpires, SessionExpires,
           DropSession, Register, Crash, Restart
  <2> QED
    BY <2>1, <2>2 DEF Next, vars
<1>2. ASSUME NEW q \in Request, RequestNext(q)
      PROVE  \/ pc[r] = "done" /\ idx[r] = idx'[r] /\ home'[r] = home[r]
             \/ DecideFails(r)
             \/ Respond(r)
  <2>1. CASE \/ CheckLedger(q) \/ VerifyLease(q) \/ LogIndexFails(q)
             \/ \E n \in Node : Receive(q, n)
    BY <2>1 DEF TypeOK, IndexInv, CheckLedger, VerifyLease, LogIndexFails, Receive
  <2>2. CASE AdvanceLogHead(q)
    <3>1. /\ home' = home /\ pc[q] = "advance"
          /\ \/ pc' = [pc EXCEPT ![q] = "members"] /\ idx' = [idx EXCEPT ![q] = nextIndex[q]]
             \/ pc' = [pc EXCEPT ![q] = "done"] /\ idx' = idx
      BY <2>2 DEF AdvanceLogHead
    <3> QED
      BY <3>1 DEF TypeOK, IndexInv
  <2>3. CASE Replicate(q)
    BY <1>1, <2>3 DEF TypeOK, Replicate
  <2>4. CASE DecideFails(q) \/ Respond(q)
    BY <2>4 DEF TypeOK, DecideFails, Respond
  <2>5. CASE \/ ReadLogHead(q) \/ GetFollowers(q) \/ GetFollowersFails(q) \/ Decide(q)
             \/ ClientGone(q)
    BY <2>5 DEF TypeOK, ReadLogHead, GetFollowers, GetFollowersFails, Decide, ClientGone, reqVars
  <2>6. CASE \E f \in Node : \/ CallFails(q, f) \/ CallTimesOut(q, f) \/ CallLost(q, f)
                             \/ Notify(q, f) \/ DeliverAppend(q, f) \/ DeliverDecision(q, f)
    BY <2>6 DEF CallFails, CallTimesOut, CallLost, Notify, DeliverAppend, DeliverDecision, reqVars
  <2> QED
    BY <1>2, <2>1, <2>2, <2>3, <2>4, <2>5, <2>6 DEF RequestNext, HandlerStep
<1>3. ASSUME NEW n \in Node, NodeNext(n)
      PROVE  pc[r] = "done" /\ idx[r] = idx'[r] /\ home'[r] = home[r]
  <2>1. CASE Crash(n)
    BY <2>1 DEF Crash
  <2>2. CASE ~ Crash(n)
    BY <1>3, <2>2
       DEF NodeNext, CatchUpStep, CoordinationStep, CatchUpAsk, CatchUpRedirect, CatchUpServe,
           CatchUpRefused, CatchUpTimesOut, CatchUpAppend, CatchUpFinalize, AcquireLease,
           AcquireFails, RefreshStatus, LoseStatus, OldSessionExpires, SessionExpires,
           DropSession, Register, Restart, reqVars
  <2> QED
    BY <2>1, <2>2
<1>4. CASE UNCHANGED vars
  BY <1>4 DEF vars, reqVars
<1> QED
  BY <1>1, <1>2, <1>3, <1>4 DEF Next

LEMMA AnsweredIsFinalStep ==
  ASSUME TypeOK, IndexInv, DecisionInv, CountedInv, AnsweredIsFinal, [Next]_vars
  PROVE  AnsweredIsFinal'
<1> SUFFICES ASSUME NEW r \in Request,
                    op(r) = "pay", pc'[r] = "done", idx'[r] > 0, r \notin gone'
             PROVE  row(r)'.status \in FinalStatus
  BY DEF AnsweredIsFinal
<1>1. r \notin gone /\ pid(r) \in PaymentID
  BY AnswerStep, JobType
<1>2. StoreSteps
  BY StoreStep
<1>3. CASE pc[r] = "done" /\ idx[r] = idx'[r] /\ home'[r] = home[r]
  <2>1. home[r] \in Node /\ IsFinal(ledger[home[r]], pid(r))
    BY <1>1, <1>3, ReplicationAssumption DEF DecisionInv, AnsweredIsFinal, IsFinal, row
  <2>2. ledger'[home[r]][pid(r)] = ledger[home[r]][pid(r)]
    BY <1>1, <1>2, <2>1, FinalStays
  <2> QED
    BY <1>3, <2>1, <2>2 DEF row, IsFinal
<1>4. CASE DecideFails(r)
  <2>1. home[r] \in Node /\ Exists(ledger[home[r]], pid(r)) /\ home' = home
    BY <1>4, ReplicationAssumption DEF DecisionInv, CountedInv, Counted, DecideFails
  <2>2. ledger' = [ledger EXCEPT ![home[r]] =
                     FinalizeByPaymentID(ledger[home[r]], pid(r), "FAILED")]
    BY <1>1, <1>4 DEF DecideFails, MarksFailed, SetTable
  <2>3. /\ ledger'[home[r]] = FinalizeByPaymentID(ledger[home[r]], pid(r), "FAILED")
        /\ ledger[home[r]] \in Table
    BY <2>1, <2>2 DEF TypeOK
  <2>4. ledger[home[r]][pid(r)].status \in {"PENDING"} \cup FinalStatus
    BY <1>1, <2>1, <2>3 DEF Table, Row, Status, Exists, FinalStatus
  <2>5. ledger'[home[r]][pid(r)].status \in FinalStatus
    BY <1>1, <2>3, <2>4 DEF Table, Row, FinalizeByPaymentID, FinalStatus
  <2> QED
    BY <2>1, <2>5 DEF row
<1>5. CASE Respond(r)
  <2>1. ledger' = ledger /\ home' = home /\ pc[r] = "notify"
    BY <1>5 DEF Respond
  <2>2. row(r).status = Outcome(op(r))
    BY <2>1 DEF DecisionInv, Decided
  <2> QED
    BY <2>1, <2>2 DEF row, Outcome, FinalStatus
<1> QED
  BY <1>3, <1>4, <1>5, AnswerStep

\* A payment whose client waits for the answer does not leave a PENDING row at
\* the node that processed it, whatever fails, times out or crosses with it.
THEOREM AnsweredStaysFinal == Spec => []AnsweredIsFinal
<1>1. Init => CountedInv /\ AnsweredIsFinal
  BY DEF Init, CountedInv, Counted, AnsweredIsFinal
<1>2. TypeOK /\ IndexInv /\ DecisionInv /\ CountedInv /\ AnsweredIsFinal /\ [Next]_vars
        => CountedInv' /\ AnsweredIsFinal'
  BY CountedStep, AnsweredIsFinalStep
<1> QED
  BY <1>1, <1>2, InvariantsHold, PTL DEF Spec

(***************************************************************************)
(* A majority of the whole cluster.                                        *)
(***************************************************************************)

Reliable == FaultKind \cap {"crash", "expiry", "zookeeper"} = {}

LEMMA RunningStep ==
  ASSUME TypeOK, Running, Reliable, [Next]_vars
  PROVE  Running'
<1> USE DEF Reliable, Running, Fault, zkVars, nodeVars, reqVars
<1>1. ASSUME NEW r \in Request, RequestNext(r) PROVE alive' = alive /\ lease' = lease
  BY <1>1 DEF RequestNext, HandlerStep, Receive, CheckLedger, ReadLogHead, VerifyLease,
         AdvanceLogHead, LogIndexFails, GetFollowers, GetFollowersFails, Replicate, Decide,
         DecideFails, Respond, ClientGone, CallFails, CallTimesOut, CallLost, Notify,
         DeliverAppend, DeliverDecision
<1>2. ASSUME NEW n \in Node, NodeNext(n) PROVE Running'
  <2>1. CASE \/ CatchUpStep(n) \/ CatchUpTimesOut(n) \/ RefreshStatus(n) \/ Register(n)
             \/ AcquireLease(n) \/ AcquireFails(n)
    BY <2>1 DEF CatchUpStep, CatchUpAsk, CatchUpRedirect, CatchUpServe, CatchUpRefused,
                CatchUpTimesOut, CatchUpAppend, CatchUpFinalize, RefreshStatus, Register,
                AcquireLease, AcquireFails
  <2>2. /\ ~ OldSessionExpires(n) /\ ~ SessionExpires(n) /\ ~ LoseStatus(n) /\ ~ Crash(n)
        /\ ~ Restart(n)
    BY ReplicationAssumption
       DEF OldSessionExpires, Orphaned, SessionExpires, LoseStatus, Crash, Restart
  <2> QED
    BY <1>2, <2>1, <2>2 DEF NodeNext, CoordinationStep
<1> QED
  BY <1>1, <1>2 DEF Next, vars

LEMMA AssembledStep ==
  ASSUME TypeOK, Running, Assembled, Reliable, [Next]_vars
  PROVE  Assembled'
<1> USE DEF Reliable, Running, Assembled, Fault, Goto, Answer, zkVars, nodeVars, reqVars
<1>1. ASSUME NEW r \in Request, RequestNext(r) PROVE Assembled'
  <2>1. CASE \/ \E n \in Node : Receive(r, n)
             \/ CheckLedger(r) \/ ReadLogHead(r) \/ VerifyLease(r) \/ AdvanceLogHead(r)
    <3>1. /\ members' = members /\ fol' = fol
          /\ \A q \in Request : pc'[q] \in {"replicate", "append", "notify"} =>
                                 pc'[q] = pc[q] /\ home'[q] = home[q]
      BY <2>1 DEF TypeOK, Receive, CheckLedger, ReadLogHead, VerifyLease, AdvanceLogHead
    <3> QED
      BY <3>1
  <2>2. CASE GetFollowers(r)
    BY <2>2 DEF TypeOK, GetFollowers
  <2>3. CASE LogIndexFails(r) \/ GetFollowersFails(r)
    BY <2>3 DEF LogIndexFails, GetFollowersFails
  <2>4. CASE Replicate(r) \/ Decide(r) \/ DecideFails(r) \/ Respond(r)
    <3>1. /\ pc[r] \in {"replicate", "append", "notify"}
          /\ members' = members /\ home' = home
          /\ fol' = fol \/ pc'[r] = "done"
          /\ \A q \in Request \ {r} : pc'[q] = pc[q] /\ fol'[q] = fol[q]
      BY <2>4 DEF TypeOK, Replicate, Decide, DecideFails, Respond, Forget
    <3> QED
      BY <3>1
  <2>5. CASE \/ ClientGone(r)
             \/ \E f \in Node : \/ CallFails(r, f) \/ CallTimesOut(r, f) \/ CallLost(r, f)
                                \/ Notify(r, f) \/ DeliverAppend(r, f) \/ DeliverDecision(r, f)
    BY <2>5 DEF ClientGone, CallFails, CallTimesOut, CallLost, Notify, DeliverAppend,
                DeliverDecision
  <2> QED
    BY <1>1, <2>1, <2>2, <2>3, <2>4, <2>5 DEF RequestNext, HandlerStep
<1>2. ASSUME NEW n \in Node, NodeNext(n) PROVE Assembled'
  <2>1. CASE CatchUpStep(n) \/ CatchUpTimesOut(n) \/ RefreshStatus(n)
    BY <2>1 DEF CatchUpStep, CatchUpAsk, CatchUpRedirect, CatchUpServe, CatchUpRefused,
                CatchUpTimesOut, CatchUpAppend, CatchUpFinalize, RefreshStatus
  <2>2. CASE AcquireLease(n) \/ AcquireFails(n)
    BY <2>2 DEF AcquireLease, AcquireFails
  <2>3. ~ OldSessionExpires(n) /\ ~ SessionExpires(n) /\ ~ LoseStatus(n) /\ ~ Crash(n)
    BY ReplicationAssumption
       DEF OldSessionExpires, Orphaned, SessionExpires, LoseStatus, Crash
  <2>4. ~ Register(n) /\ ~ Restart(n)
    BY DEF Register, Restart
  <2> QED
    BY <1>2, <2>1, <2>2, <2>3, <2>4 DEF NodeNext, CoordinationStep
<1>3. CASE UNCHANGED vars
  BY <1>3 DEF vars
<1> QED
  BY <1>1, <1>2, <1>3 DEF Next

LEMMA CommittedStep ==
  ASSUME TypeOK, IndexInv, DecisionInv, CountedInv, Assembled, IsFiniteSet(Node),
         CommittedOnMajority, [Next]_vars
  PROVE  CommittedOnMajority'
<1> DEFINE Having(p) == {m \in Node : Exists(ledger[m], p)}
           Majority(p) == 2 * Cardinality(Having(p)) > Cardinality(Node)
<1>1. ASSUME NEW p \in PaymentID, NEW m \in Node, ledger[m][p].status = "COMMITTED"
      PROVE  Majority(p)
  BY <1>1 DEF CommittedOnMajority
<1>2. ASSUME NEW p \in PaymentID, NEW n \in Node, Decides(n, p, "COMMITTED")
      PROVE  Majority(p)
  <2>1. PICK r \in Request : pc[r] = "append" /\ pid(r) = p /\ QuorumReached(r)
    BY <1>2 DEF Decides
  <2>2. home[r] \in Node
    BY <2>1, ReplicationAssumption DEF DecisionInv
  <2>3. fol[r] \cup {home[r]} = Node
    BY <2>1, <2>2 DEF Assembled
  <2> QED
    BY <2>1, <2>3, CountedMeansMajority DEF CountedInv
<1>3. ASSUME NEW p \in PaymentID, Majority(p) PROVE Majority(p)'
  <2>1. Having(p) \subseteq Having(p)' /\ Having(p)' \subseteq Node
    BY StoreStep, RowsStayStep DEF RowsStay, Exists
  <2>2. IsFiniteSet(Having(p)')
    BY <2>1, FS_Subset
  <2>3. /\ Cardinality(Having(p)) <= Cardinality(Having(p)')
        /\ IsFiniteSet(Having(p))
    BY <2>1, <2>2, FS_Subset
  <2>4. /\ Cardinality(Having(p)) \in Nat /\ Cardinality(Having(p)') \in Nat
        /\ Cardinality(Node) \in Nat
    BY <2>2, <2>3, FS_CardinalityType
  <2> HIDE DEF Having
  <2> QED
    BY <1>3, <2>3, <2>4
<1>4. ASSUME NEW n \in Node, NEW p \in PaymentID, ledger'[n][p].status = "COMMITTED"
      PROVE  Majority(p)
  <2>1. CASE ledger'[n][p] = ledger[n][p]
    BY <1>1, <1>4, <2>1
  <2>2. ASSUME NEW m \in Node, NEW q \in PaymentID, NEW i \in Nat, Appended(m, q, i)
        PROVE  ledger'[n][p] = ledger[n][p]
    <3>1. \/ ledger'[n][p] = ledger[n][p]
          \/ ledger'[n][p] = [status |-> "PENDING", log_index |-> i]
      BY <2>2, AppendedRows
    <3> QED
      BY <1>4, <3>1
  <2>3. ASSUME NEW m \in Node, NEW q \in PaymentID, NEW s \in FinalStatus,
               Allowed(m, q, s), Finalized(m, q, s), ledger'[n][p] # ledger[n][p]
        PROVE  Majority(p)
    <3>1. m = n /\ q = p /\ s = "COMMITTED"
      BY <1>4, <2>3, FinalizedRows
    <3> QED
      BY <1>1, <1>2, <2>3, <3>1 DEF Allowed
  <2> QED
    BY <2>1, <2>2, <2>3, StoreStep DEF StoreSteps
<1> QED
  BY <1>3, <1>4 DEF CommittedOnMajority

\* replication-design.md:57 holds from the moment all nodes have registered, and
\* what is committed so far is on a majority, for as long as no process stops
\* and ZooKeeper answers and keeps its sessions, whatever calls time out, get
\* lost or are given up.  A leader that commits before the others have
\* registered breaks it without any fault (solitary_commit), and so does each of
\* the three faults left out: the handler then replicates to a smaller cluster,
\* and takes a majority of that.
THEOREM ReliableClusterCommitsOnMajority ==
  ASSUME IsFiniteSet(Node), FaultKind \cap {"crash", "expiry", "zookeeper"} = {}
  PROVE  Spec => [](Assembled /\ CommittedOnMajority => []CommittedOnMajority)
<1>1. Init => Running /\ CountedInv
  BY DEF Init, Running, CountedInv, Counted, NoLease
<1>2. TypeOK /\ IndexInv /\ DecisionInv /\ Running /\ CountedInv /\ [Next]_vars
        => Running' /\ CountedInv'
  BY RunningStep, CountedStep DEF Reliable
<1>3. TypeOK /\ IndexInv /\ DecisionInv /\ Running /\ CountedInv
        /\ Assembled /\ CommittedOnMajority /\ [Next]_vars
        => Assembled' /\ CommittedOnMajority'
  BY AssembledStep, CommittedStep DEF Reliable
<1> QED
  BY <1>1, <1>2, <1>3, InvariantsHold, PTL DEF Spec

(***************************************************************************)
(* One log index.  The payments of one id at one node take turns, and once *)
(* one of them has written the others find its row: the node is the source *)
(* of one log index at most.                                               *)
(***************************************************************************)

\* The handler of q makes its local append.
Writes(q) == pc[q] = "replicate" /\ pc'[q] = "append"

LEMMA WrittenHasIndex ==
  ASSUME IndexInv, NEW r \in Request, Written(r)
  PROVE  idx[r] > 0 /\ pc[r] # "idle"
<1>1. idx[r] > 0
  BY JobType DEF IndexInv, Issued, Written
<1> QED
  BY <1>1 DEF IndexInv

\* An append by which an index gets into a table for the first time.
LEMMA AppendWrites ==
  ASSUME TypeOK, NEW n \in Node, NEW p \in PaymentID, NEW i \in Nat,
         SetTable(n, AppendPending(ledger[n], p, i)),
         NEW r \in Request, NEW m \in Node, Exists(ledger'[m], pid(r)),
         ledger'[m][pid(r)].log_index = idx[r]
  PROVE  Written(r) \/ (pid(r) = p /\ idx[r] = i)
<1>1. pid(r) \in PaymentID
  BY JobType
<1>2. CASE ledger'[m][pid(r)] = ledger[m][pid(r)]
  BY <1>2 DEF Written, Exists
<1>3. CASE ledger'[m][pid(r)] # ledger[m][pid(r)]
  <2>1. Appended(n, p, i)
    BY <1>3, AppendStep
  <2>2. pid(r) = p /\ ledger'[m][pid(r)] = [status |-> "PENDING", log_index |-> i]
    BY <1>1, <1>3, <2>1, AppendedRows
  <2> QED
    BY <2>2
<1> QED
  BY <1>2, <1>3

\* A finalization leaves the indices of a table.
LEMMA FinalizeWrites ==
  ASSUME TypeOK, NEW n \in Node, NEW p \in PaymentID, NEW s \in FinalStatus,
         ledger' = ledger \/ SetTable(n, FinalizeByPaymentID(ledger[n], p, s)),
         NEW r \in Request, NEW m \in Node, Exists(ledger'[m], pid(r)),
         ledger'[m][pid(r)].log_index = idx[r]
  PROVE  Written(r)
<1>1. pid(r) \in PaymentID
  BY JobType
<1>2. CASE ledger'[m][pid(r)] = ledger[m][pid(r)]
  BY <1>2 DEF Written, Exists
<1>3. CASE ledger'[m][pid(r)] # ledger[m][pid(r)]
  <2>1. Finalized(n, p, s)
    BY <1>3, FinalizeStep
  <2>2. /\ ledger[m][pid(r)].status = "PENDING"
        /\ ledger'[m][pid(r)].log_index = ledger[m][pid(r)].log_index
    BY <1>1, <1>3, <2>1, FinalizedRows
  <2> QED
    BY <2>2 DEF Written, Exists
<1> QED
  BY <1>2, <1>3

LEMMA RequestWrites ==
  ASSUME TypeOK, IndexInv, DecisionInv, NEW q \in Request, RequestNext(q),
         NEW r \in Request, Written(r)'
  PROVE  Written(r) \/ Writes(r)
<1>1. PICK m \in Node : \/ /\ Exists(ledger'[m], pid(r))
                           /\ ledger'[m][pid(r)].log_index = idx'[r]
                        \/ <<r, m>> \in appendNet'
  BY DEF Written, Exists
<1>2. CASE AdvanceLogHead(q)
  <2>1. ledger' = ledger /\ appendNet' = appendNet
    BY <1>2 DEF AdvanceLogHead, netVars
  <2>2. CASE idx'[r] = idx[r]
    BY <1>1, <2>1, <2>2 DEF Written
  <2>3. CASE idx'[r] # idx[r]
    <3>1. /\ pc[r] = "advance" /\ idx'[r] = nextIndex[r] /\ nextIndex[r] > logHead
      BY <1>2, <2>3 DEF TypeOK, AdvanceLogHead, Advances
    <3>2. <<r, m>> \notin appendNet
      BY <3>1 DEF IndexInv, TypeOK
    <3>3. ASSUME Exists(ledger[m], pid(r))
          PROVE  ledger[m][pid(r)].log_index <= logHead
      <4>1. PICK x \in Request : ledger[m][pid(r)].log_index = idx[x]
        BY <3>3, JobType DEF IndexInv, Issued
      <4> QED
        BY <4>1 DEF IndexInv
    <3>4. logHead \in Nat /\ nextIndex[r] \in Nat
      BY DEF TypeOK
    <3> QED
      BY <1>1, <2>1, <3>1, <3>2, <3>3, <3>4
  <2> QED
    BY <2>2, <2>3
<1>3. CASE Replicate(q)
  <2>1. idx' = idx /\ pc[q] = "replicate" /\ home[q] \in Node /\ pid(q) \in PaymentID
        /\ idx[q] \in Nat /\ idx[q] > 0
    BY <1>3, JobType, ReplicationAssumption DEF TypeOK, Replicate, DecisionInv, IndexInv
  <2>2. CASE q \in gone
    BY <1>1, <1>3, <2>1, <2>2 DEF Replicate, Written
  <2>3. CASE q \notin gone
    <3>1. /\ SetTable(home[q], AppendPending(ledger[home[q]], pid(q), idx[q]))
          /\ pc'[q] = "append"
          /\ \A f \in Node : <<r, f>> \in appendNet' => <<r, f>> \in appendNet \/ r = q
      BY <1>3, <2>3 DEF TypeOK, Replicate, Goto
    <3>2. CASE r = q
      BY <2>1, <3>1, <3>2 DEF Writes
    <3>3. CASE r # q
      <4>1. idx[r] # idx[q]
        BY <2>1, <3>3 DEF IndexInv
      <4> QED
        BY <1>1, <2>1, <3>1, <3>3, <4>1, AppendWrites DEF Written
    <3> QED
      BY <3>2, <3>3
  <2> QED
    BY <2>2, <2>3
<1>4. ASSUME NEW f \in Node, DeliverAppend(q, f) PROVE Written(r)
  <2>1. /\ idx' = idx /\ appendNet' \subseteq appendNet
        /\ <<q, f>> \in appendNet
        /\ SetTable(f, AppendPending(ledger[f], pid(q), idx[q]))
        /\ pid(q) \in PaymentID /\ idx[q] \in Nat /\ idx[q] > 0
    BY <1>4, JobType DEF TypeOK, DeliverAppend, IndexInv
  <2>2. CASE r = q
    BY <2>1, <2>2 DEF Written
  <2>3. CASE r # q
    <3>1. idx[r] # idx[q]
      BY <2>1, <2>3 DEF IndexInv
    <3> QED
      BY <1>1, <2>1, <3>1, AppendWrites DEF Written
  <2> QED
    BY <2>2, <2>3
<1>5. CASE Decide(q) \/ DecideFails(q) \/ \E f \in Node : DeliverDecision(q, f)
  <2>1. idx' = idx /\ appendNet' \subseteq appendNet
    BY <1>5 DEF Decide, DecideFails, DeliverDecision, netVars, reqVars
  <2>2. PICK n \in Node, s \in FinalStatus :
          ledger' = ledger \/ SetTable(n, FinalizeByPaymentID(ledger[n], pid(q), s))
    <3>1. Decide(q) \/ DecideFails(q) => home[q] \in Node
      BY ReplicationAssumption DEF DecisionInv, Decide, DecideFails
    <3> QED
      BY <1>5, <3>1, JobType DEF Decide, DecideFails, DeliverDecision, FinalStatus
  <2> QED
    BY <1>1, <2>1, <2>2, FinalizeWrites, JobType DEF Written
<1>6. CASE ~ (\/ AdvanceLogHead(q) \/ Replicate(q) \/ Decide(q) \/ DecideFails(q)
              \/ \E f \in Node : DeliverAppend(q, f) \/ DeliverDecision(q, f))
  <2>1. ledger' = ledger /\ idx' = idx /\ appendNet' \subseteq appendNet
    BY <1>6 DEF RequestNext, HandlerStep, Receive, CheckLedger, ReadLogHead, VerifyLease,
           GetFollowers, CallFails, Notify, Respond, LogIndexFails, GetFollowersFails,
           CallTimesOut, CallLost, ClientGone, netVars, reqVars
  <2> QED
    BY <1>1, <2>1 DEF Written
<1> QED
  BY <1>2, <1>3, <1>4, <1>5, <1>6

LEMMA NodeWrites ==
  ASSUME TypeOK, DecisionInv, NEW n \in Node, NodeNext(n), NEW r \in Request, Written(r)'
  PROVE  Written(r)
<1>1. PICK m \in Node : \/ /\ Exists(ledger'[m], pid(r))
                           /\ ledger'[m][pid(r)].log_index = idx'[r]
                        \/ <<r, m>> \in appendNet'
  BY DEF Written, Exists
<1>2. ASSUME NEW e \in cuEntries[n]
      PROVE  /\ e.payment_id \in PaymentID /\ e.log_index \in Nat /\ e.status \in FinalStatus
             /\ pid(r) = e.payment_id /\ idx[r] = e.log_index => Written(r)
  <2>1. e.payment_id \in PaymentID /\ e.log_index \in Nat /\ e.status \in FinalStatus
    BY DEF TypeOK, Entry
  <2>2. PICK k \in Node : EntryOf(ledger[k], e.payment_id) = e
    BY DEF DecisionInv
  <2>3. /\ ledger[k][e.payment_id].status = e.status
        /\ ledger[k][e.payment_id].log_index = e.log_index
    BY <2>2 DEF EntryOf
  <2> QED
    BY <2>1, <2>3 DEF Written, Exists, FinalStatus
<1>3. CASE CatchUpAppend(n)
  <2>1. PICK e \in cuEntries[n] :
          SetTable(n, AppendPending(ledger[n], e.payment_id, e.log_index))
    BY <1>3 DEF CatchUpAppend
  <2>2. idx' = idx /\ appendNet' = appendNet
    BY <1>3 DEF CatchUpAppend, netVars, reqVars
  <2> QED
    BY <1>1, <1>2, <2>1, <2>2, AppendWrites DEF Written
<1>4. CASE CatchUpFinalize(n)
  <2>1. PICK e \in cuEntries[n] :
          SetTable(n, FinalizeByPaymentID(ledger[n], e.payment_id, e.status))
    BY <1>4 DEF CatchUpFinalize
  <2>2. idx' = idx /\ appendNet' = appendNet
    BY <1>4 DEF CatchUpFinalize, netVars, reqVars
  <2> QED
    BY <1>1, <1>2, <2>1, <2>2, FinalizeWrites DEF Written
<1>5. CASE ~ (CatchUpAppend(n) \/ CatchUpFinalize(n))
  <2>1. ledger' = ledger /\ idx' = idx /\ appendNet' \subseteq appendNet
    BY <1>5 DEF NodeNext, CatchUpStep, CatchUpAsk, CatchUpRedirect, CatchUpServe,
           CatchUpRefused, CatchUpTimesOut, CoordinationStep, AcquireLease, AcquireFails,
           RefreshStatus, OldSessionExpires, SessionExpires, DropSession, Register, LoseStatus, Crash,
           Restart, netVars, reqVars
  <2> QED
    BY <1>1, <2>1 DEF Written
<1> QED
  BY <1>3, <1>4, <1>5

\* An index gets into the tables by the local append of its handler.
LEMMA WrittenStep ==
  ASSUME TypeOK, IndexInv, DecisionInv, [Next]_vars, NEW r \in Request, Written(r)'
  PROVE  Written(r) \/ Writes(r)
<1>1. CASE UNCHANGED vars
  BY <1>1 DEF vars, reqVars, netVars, Written
<1> QED
  BY <1>1, RequestWrites, NodeWrites DEF Next

\* A handler moves by its own steps only, unless its node dies.
Moves(q) ==
  /\ pc[q] = "idle" /\ pc'[q] # "idle" => \E n \in Node : Receive(q, n)
  /\ pc[q] # "idle" => pc'[q] # "idle" /\ home'[q] = home[q]
  /\ pc'[q] \in Holding /\ pc[q] \notin Holding => pc[q] = "idle"
  /\ pc'[q] \in Unwritten /\ pc[q] \notin Unwritten => CheckLedger(q)
  /\ Writes(q) => Replicate(q)

LEMMA RequestMoves ==
  ASSUME TypeOK, NEW r \in Request, RequestNext(r)
  PROVE  \A q \in Request : Moves(q)
<1> USE DEF Moves, Writes, Goto, Answer, Holding, Unwritten
<1>1. CASE \E n \in Node : Receive(r, n)
  <2>1. /\ pc[r] = "idle" /\ pc'[r] = "check"
        /\ \A q \in Request \ {r} : pc'[q] = pc[q] /\ home'[q] = home[q]
    BY <1>1 DEF TypeOK, Receive
  <2> QED
    BY <1>1, <2>1
<1>2. CASE CheckLedger(r) \/ Replicate(r)
  <2>1. /\ home' = home /\ \A q \in Request \ {r} : pc'[q] = pc[q]
        /\ pc[r] \in {"check", "replicate"}
        /\ pc'[r] \in {"head", "append", "done"}
        /\ pc[r] = "check" => pc'[r] # "append" /\ CheckLedger(r)
        /\ pc[r] = "replicate" => pc'[r] # "head" /\ Replicate(r)
    BY <1>2 DEF TypeOK, CheckLedger, Replicate
  <2> QED
    BY <2>1
<1>3. CASE \/ ReadLogHead(r) \/ VerifyLease(r) \/ AdvanceLogHead(r) \/ LogIndexFails(r)
           \/ GetFollowers(r) \/ GetFollowersFails(r)
  <2>1. /\ home' = home /\ \A q \in Request \ {r} : pc'[q] = pc[q]
        /\ pc[r] \in {"head", "verify", "advance", "members"}
        /\ pc'[r] \in {"verify", "advance", "members", "replicate", "done"}
    BY <1>3 DEF TypeOK, ReadLogHead, VerifyLease, AdvanceLogHead, LogIndexFails,
                GetFollowers, GetFollowersFails
  <2> QED
    BY <2>1
<1>4. CASE Decide(r) \/ DecideFails(r) \/ Respond(r)
  <2>1. /\ home' = home /\ \A q \in Request \ {r} : pc'[q] = pc[q]
        /\ pc[r] \in {"append", "notify"} /\ pc'[r] \in {"notify", "done"}
    BY <1>4 DEF TypeOK, Decide, DecideFails, Respond
  <2> QED
    BY <2>1
<1>5. CASE \/ ClientGone(r)
           \/ \E f \in Node : \/ CallFails(r, f) \/ CallTimesOut(r, f) \/ CallLost(r, f)
                              \/ Notify(r, f) \/ DeliverAppend(r, f) \/ DeliverDecision(r, f)
  <2>1. pc' = pc /\ home' = home
    BY <1>5 DEF ClientGone, CallFails, CallTimesOut, CallLost, Notify, DeliverAppend,
                DeliverDecision, reqVars
  <2> QED
    BY <2>1
<1> QED
  BY <1>1, <1>2, <1>3, <1>4, <1>5 DEF RequestNext, HandlerStep

LEMMA NodeMoves ==
  ASSUME TypeOK, NEW n \in Node, NodeNext(n)
  PROVE  \A q \in Request : Moves(q)
<1>1. CASE Crash(n)
  <2>1. /\ home' = home
        /\ \A q \in Request : \/ pc'[q] = pc[q]
                              \/ pc[q] \in Holding /\ pc'[q] = "lost"
    BY <1>1 DEF Crash
  <2> QED
    BY <2>1 DEF Moves, Writes, Holding, Unwritten
<1>2. CASE ~ Crash(n)
  <2>1. pc' = pc /\ home' = home
    BY <1>2 DEF NodeNext, CatchUpStep, CatchUpAsk, CatchUpRedirect, CatchUpServe, CatchUpRefused,
           CatchUpTimesOut, CatchUpAppend, CatchUpFinalize, CoordinationStep, AcquireLease,
           AcquireFails, RefreshStatus, OldSessionExpires, SessionExpires, DropSession, Register,
           LoseStatus, Restart, reqVars
  <2> QED
    BY <2>1 DEF Moves, Writes
<1> QED
  BY <1>1, <1>2

LEMMA HandlersMove ==
  ASSUME TypeOK, [Next]_vars
  PROVE  \A q \in Request : Moves(q)
<1>1. CASE UNCHANGED vars
  BY <1>1 DEF vars, reqVars, Moves, Writes
<1> QED
  BY <1>1, RequestMoves, NodeMoves DEF Next

LEMMA NeverCanceled ==
  ASSUME Origins, NEW p \in PaymentID, Uncanceled(p), NEW n \in Node
  PROVE  ledger[n][p].status # "CANCELED"
BY DEF Origins, IsFinal, FinalStatus, DecidedBy, Uncanceled

\* A payment that goes on after its look-up has found no row.
LEMMA CheckFindsNothing ==
  ASSUME TypeOK, Origins, NEW p \in PaymentID, Uncanceled(p), NEW h \in Node,
         NEW r \in Request, Pays(r, p, h), CheckLedger(r), pc'[r] \in Unwritten
  PROVE  ~ Exists(ledger[h], p)
<1>1. row(r).status \notin {"PENDING", "FAILED", "COMMITTED"}
  BY DEF TypeOK, Pays, CheckLedger, Answer, Goto, Refused, Outcome, Unwritten
<1>2. ledger[h][p] \in Row /\ ledger[h][p].status # "CANCELED" /\ row(r) = ledger[h][p]
  BY NeverCanceled DEF TypeOK, Table, Pays, row
<1> QED
  BY <1>1, <1>2 DEF Row, Status, FinalStatus, Exists

LEMMA OneWriterStep ==
  ASSUME TypeOK, IndexInv, DecisionInv, Origins, OneWriter, [Next]_vars
  PROVE  OneWriter'
<1> SUFFICES ASSUME NEW p \in PaymentID, NEW h \in Node, NEW q \in Request, NEW r \in Request,
                    Uncanceled(p)', Pays(q, p, h)', Pays(r, p, h)'
             PROVE  /\ pc'[q] \in Holding /\ pc'[r] \in Holding => q = r
                    /\ Written(q)' => Exists(ledger'[h], p)
                    /\ pc'[r] \in Unwritten => ~ Written(q)'
                    /\ Written(q)' /\ Written(r)' => q = r
  BY DEF OneWriter, Exists
<1>1. Uncanceled(p)
  <2>1. ASSUME NEW x \in Request, pid(x) = p, op(x) = "cancel"
        PROVE  idx[x] = 0
    <3>1. idx'[x] = 0
      BY <2>1 DEF Uncanceled
    <3>2. idx[x] \in Nat
      BY DEF TypeOK
    <3> QED
      BY <3>1, <3>2, IndexStays
  <2> QED
    BY <2>1 DEF Uncanceled
<1>2. \A x \in Request : Moves(x)
  BY HandlersMove
<1>3. ASSUME NEW x \in Request, Pays(x, p, h)', pc[x] # "idle"
      PROVE  Pays(x, p, h)
  BY <1>2, <1>3 DEF Pays, Moves
<1>4. ASSUME NEW x \in Request, Pays(x, p, h)', pc[x] = "idle"
      PROVE  /\ LockFree(x, h)
             /\ \A y \in Request \ {x} : pc'[y] = pc[y] /\ home'[y] = home[y]
  <2>1. PICK n \in Node : Receive(x, n)
    BY <1>2, <1>4 DEF Pays, Moves
  <2>2. home'[x] = n /\ n = h
    BY <1>4, <2>1 DEF TypeOK, Receive, Pays
  <2> QED
    BY <2>1, <2>2 DEF TypeOK, Receive, Goto
<1>5. ASSUME NEW x \in Request, Pays(x, p, h)', Written(x)'
      PROVE  /\ Pays(x, p, h)
             /\ \/ Written(x)
                \/ Writes(x) /\ Replicate(x) /\ pc[x] \in Unwritten /\ pc[x] \in Holding
  <2>1. Written(x) \/ Writes(x)
    BY <1>5, WrittenStep
  <2>2. pc[x] # "idle"
    BY <2>1, WrittenHasIndex DEF Writes
  <2> QED
    BY <1>2, <1>3, <1>5, <2>1, <2>2 DEF Moves, Writes, Unwritten, Holding
<1>6. ASSUME NEW x \in Request, NEW y \in Request, x # y, Pays(x, p, h)', Pays(y, p, h)',
             pc'[x] \in Holding, pc'[y] \in Holding
      PROVE  pc[x] # "idle"
  <2> SUFFICES ASSUME pc[x] = "idle"
               PROVE  FALSE
    OBVIOUS
  <2>1. LockFree(x, h) /\ pc[y] = pc'[y] /\ home[y] = home'[y]
    BY <1>4, <1>6
  <2> QED
    BY <1>6, <2>1 DEF LockFree, Pays
<1>7. ASSUME pc'[q] \in Holding, pc'[r] \in Holding, q # r
      PROVE  FALSE
  <2>1. pc[q] # "idle" /\ pc[r] # "idle"
    BY <1>6, <1>7
  <2>2. pc[q] \in Holding /\ pc[r] \in Holding
    BY <1>2, <1>7, <2>1 DEF Moves
  <2> QED
    BY <1>1, <1>3, <1>7, <2>1, <2>2 DEF OneWriter
<1>8. ASSUME Written(q)'
      PROVE  Exists(ledger'[h], p)
  <2>1. CASE Written(q)
    BY <1>1, <1>5, <1>8, <2>1, StoreStep, RowsStayStep DEF OneWriter, RowsStay, Exists
  <2>2. CASE Writes(q) /\ Replicate(q)
    <3>1. home[q] = h /\ pid(q) = p
      BY <1>5, <1>8 DEF Pays
    <3>2. ledger' = [ledger EXCEPT ![h] = AppendPending(ledger[h], p, idx[q])]
      BY <2>2, <3>1 DEF TypeOK, Writes, Replicate, Answer, Goto, SetTable
    <3> QED
      BY <3>2 DEF TypeOK, Table, AppendPending, Exists
  <2> QED
    BY <1>5, <1>8, <2>1, <2>2
<1>9. ASSUME pc'[r] \in Unwritten, Written(q)'
      PROVE  FALSE
  <2>1. Pays(r, p, h)
    BY <1>2, <1>3, <1>9 DEF Moves, Receive, Goto, TypeOK, Unwritten
  <2>2. CASE pc[r] \in Unwritten
    <3>1. CASE Written(q)
      BY <1>1, <1>5, <1>9, <2>1, <2>2, <3>1 DEF OneWriter
    <3>2. CASE Writes(q) /\ pc[q] \in Holding
      <4>1. q = r
        BY <1>1, <1>5, <1>9, <2>1, <2>2, <3>2 DEF OneWriter, Unwritten, Holding
      <4> QED
        BY <1>9, <3>2, <4>1 DEF Writes, Unwritten
    <3> QED
      BY <1>5, <1>9, <3>1, <3>2
  <2>3. CASE pc[r] \notin Unwritten
    <3>1. CheckLedger(r)
      BY <1>2, <1>9, <2>3 DEF Moves
    <3>2. ~ Exists(ledger[h], p)
      BY <1>1, <1>9, <2>1, <3>1, CheckFindsNothing
    <3>3. ~ Writes(q)
      BY <3>1 DEF TypeOK, CheckLedger, Answer, Goto, Writes
    <3> QED
      BY <1>1, <1>5, <1>9, <3>2, <3>3 DEF OneWriter
  <2> QED
    BY <2>2, <2>3
<1>10. ASSUME Written(q)', Written(r)'
       PROVE  q = r
  <2>1. Pays(q, p, h) /\ Pays(r, p, h)
    BY <1>5, <1>10
  <2> QED
    BY <1>1, <1>5, <1>10, <2>1 DEF OneWriter
<1> QED
  BY <1>7, <1>8, <1>9, <1>10

LEMMA OneWriterHolds == Spec => []OneWriter
<1>1. Init => OneWriter
  BY DEF Init, OneWriter, Pays
<1>2. TypeOK /\ IndexInv /\ DecisionInv /\ Origins /\ OneWriter /\ [Next]_vars => OneWriter'
  BY OneWriterStep
<1> QED
  BY <1>1, <1>2, InvariantsHold, OriginsHold, PTL DEF Spec

\* A payment that no cancellation got an index for has two log indexes only when
\* two nodes paid it in two terms: the mutex and the look-up under it are enough
\* within a term, also when a handler dies with appends still on their way.
THEOREM IndexSplitTakesTwoTerms == Spec => []IndexSplitNeedsTwoTerms
<1>1. TypeOK /\ IndexInv /\ DecisionInv /\ TermInv /\ OneWriter => IndexSplitNeedsTwoTerms
  <2> SUFFICES ASSUME TypeOK, IndexInv, DecisionInv, TermInv, OneWriter,
                      NEW m \in Node, NEW n \in Node, NEW p \in PaymentID,
                      Exists(ledger[m], p), Exists(ledger[n], p),
                      ledger[m][p].log_index # ledger[n][p].log_index,
                      ~ \E r \in Request : pid(r) = p /\ op(r) = "cancel" /\ idx[r] > 0
               PROVE  \E q, r \in Request :
                        /\ pid(q) = p /\ idx[q] = ledger[m][p].log_index
                        /\ pid(r) = p /\ idx[r] = ledger[n][p].log_index
                        /\ home[q] # home[r]
                        /\ TwoTerms(q, r)
    BY DEF IndexSplitNeedsTwoTerms
  <2>1. PICK q \in Request : pid(q) = p /\ idx[q] = ledger[m][p].log_index /\ idx[q] > 0
    BY DEF IndexInv, Issued
  <2>2. PICK r \in Request : pid(r) = p /\ idx[r] = ledger[n][p].log_index /\ idx[r] > 0
    BY DEF IndexInv, Issued
  <2>3. Written(q) /\ Written(r) /\ q # r
    BY <2>1, <2>2 DEF Written
  <2>4. op(q) = "pay" /\ op(r) = "pay"
    BY <2>1, <2>2, JobType DEF Op
  <2>5. /\ pc[q] # "idle" /\ home[q] \in Node
        /\ pc[r] # "idle" /\ home[r] \in Node
    BY <2>3, WrittenHasIndex, ReplicationAssumption DEF DecisionInv
  <2>6. Uncanceled(p)
    <3>1. ASSUME NEW x \in Request, pid(x) = p, op(x) = "cancel" PROVE idx[x] = 0
      BY <3>1 DEF TypeOK
    <3> QED
      BY <3>1 DEF Uncanceled
  <2>7. home[q] # home[r]
    BY <2>1, <2>2, <2>3, <2>4, <2>5, <2>6 DEF OneWriter, Pays
  <2>8. reqTerm[q] \in TermsOf(home[q]) /\ reqTerm[r] \in TermsOf(home[r])
    BY <2>5 DEF TermsOf
  <2>9. TwoTerms(q, r)
    BY <2>5, <2>7, <2>8 DEF TermInv, TwoTerms
  <2> QED
    BY <2>1, <2>2, <2>7, <2>9
<1> QED
  BY <1>1, InvariantsHold, TermsHold, OneWriterHolds, PTL

\* With one possible leader, and requests that all take the mutex of their
\* payment (lockPaymentID), a payment has one log index in all tables.
THEOREM OneLeaderOneIndex ==
  ASSUME NEW l \in Node, Electable = {l}, \A r \in Request : op(r) = "pay"
  PROVE  Spec => []IndexAgreement
<1>1. IndexInv /\ DecisionInv /\ IndexSplitNeedsTwoTerms => IndexAgreement
  <2> SUFFICES ASSUME IndexInv, DecisionInv,
                      NEW q \in Request, NEW r \in Request, idx[q] > 0, idx[r] > 0
               PROVE  home[q] = home[r]
    BY DEF IndexInv, Issued, IndexSplitNeedsTwoTerms, IndexAgreement
  <2> QED
    BY DEF IndexInv, DecisionInv
<1> QED
  BY <1>1, IndexSplitTakesTwoTerms, InvariantsHold, PTL
=============================================================================
