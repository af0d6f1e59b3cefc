-------------------------- MODULE FaultStateProofs --------------------------
(***************************************************************************)
(* Proofs about FaultState, for any number of disturbances.                *)
(***************************************************************************)
EXTENDS FaultState, SequenceTheorems, TLAPS

(***************************************************************************)
(* A snapshot that makes reconcile report HEALTHY is still true as long as *)
(* the state is REJOINED: to forget the catch-up the node has to leave     *)
(* REJOINED, and only reconcile itself brings it back there.               *)
(***************************************************************************)
SnapshotHolds ==
  pc = "transit" /\ snap = Snapshot("REJOINED", TRUE) /\ fault = "REJOINED" => caughtUp

IInv == TypeOK /\ LostSessionIsFailed /\ HealthyIsCaughtUp /\ SnapshotHolds

LEMMA SetFaultStateType ==
  ASSUME fault \in Fault, caughtUp \in BOOLEAN, NEW to \in Fault \cup {"none"},
         SetFaultState(to)
  PROVE  /\ fault' \in Fault /\ caughtUp' \in BOOLEAN
         /\ fault' # fault => fault' = to /\ CanTransition(fault, to)
         /\ fault' = fault => caughtUp' = caughtUp
         /\ fault' \in {"REJOINED", "HEALTHY"} => caughtUp' = caughtUp
BY DEF SetFaultState, CanTransition, Transitions, Forgets, Fault

LEMMA StateForFault == \A e : StateFor(e) \in {"FAILED", "RECOVERING"}
BY DEF StateFor

LEMMA NextStateFault == NextState \in {"REJOINED", "HEALTHY", "none"}
BY DEF NextState

THEOREM FaultStateTypeCorrect == Spec => []TypeOK
<1>1. Init => TypeOK
  <2>1. << >> \in Seq(Event)
    OBVIOUS
  <2>2. NoSnapshot \in [fault : Fault, caughtUp : BOOLEAN]
    BY DEF NoSnapshot, Snapshot, Fault
  <2> SUFFICES ASSUME Init PROVE TypeOK
    OBVIOUS
  <2>3. events \in Seq(Event)
    BY <2>1 DEF Init
  <2>4. snap \in [fault : Fault, caughtUp : BOOLEAN]
    BY <2>2 DEF Init
  <2> QED
    BY <2>3, <2>4 DEF Init, TypeOK, Role, Fault
<1>2. TypeOK /\ [Next]_vars => TypeOK'
  <2> SUFFICES ASSUME TypeOK, [Next]_vars PROVE TypeOK'
    OBVIOUS
  <2> USE DEF TypeOK, environment, eventLoop, reconciling, fields
  <2>1. CASE TakeEvent
    <3>1. Head(events) \in Event /\ Tail(events) \in Seq(Event)
      BY <2>1 DEF TakeEvent
    <3> QED
      BY <2>1, <3>1 DEF TakeEvent, Role
  <2>2. CASE SetEventState
    BY <2>2, SetFaultStateType, StateForFault DEF SetEventState, Fault
  <2>3. CASE Lookup
    BY <2>3 DEF Lookup, RoleOf, Role
  <2>4. CASE WriteRole
    BY <2>4 DEF WriteRole, Role
  <2>5. CASE ReadFaultState
    BY <2>5 DEF ReadFaultState, Snapshot
  <2>6. CASE LeaderCaughtUp
    BY <2>6 DEF LeaderCaughtUp, MarkRecoveryCaughtUp
  <2>7. CASE Transit
    BY <2>7, SetFaultStateType, NextStateFault DEF Transit, Fault, NoSnapshot, Snapshot
  <2>8. CASE Tick
    BY <2>8 DEF Tick
  <2>9. CASE CatchUpAnswered
    BY <2>9 DEF CatchUpAnswered, MarkRecoveryCaughtUp
  <2>10. CASE CatchUpFailed
    BY <2>10 DEF CatchUpFailed, Disturbance
  <2>11. CASE Connect \/ LoseLink \/ SessionExpires
    <3>1. \A e \in Event : Append(events, e) \in Seq(Event)
      OBVIOUS
    <3>2. {"HasSession", "Disconnected", "AuthFailed", "Expired"} \subseteq Event
      BY DEF Event, Bad
    <3>3. CASE Connect
      BY <3>1, <3>2, <3>3 DEF Connect
    <3>4. CASE LoseLink
      BY <3>1, <3>2, <3>4 DEF LoseLink, Disturbance
    <3>5. CASE SessionExpires
      BY <3>1, <3>2, <3>5 DEF SessionExpires, Disturbance
    <3> QED
      BY <2>11, <3>3, <3>4, <3>5
  <2>12. CASE LeaseChanges
    BY <2>12 DEF LeaseChanges, Disturbance
  <2>13. CASE UNCHANGED vars
    BY <2>13 DEF vars
  <2> QED
    BY <2>1, <2>2, <2>3, <2>4, <2>5, <2>6, <2>7, <2>8, <2>9, <2>10, <2>11, <2>12, <2>13
       DEF Next, HandleEvent, Reconcile
<1> QED
  BY <1>1, <1>2, PTL DEF Spec

THEOREM FaultStateInvariant == Spec => []IInv
<1>1. Init => LostSessionIsFailed /\ HealthyIsCaughtUp /\ SnapshotHolds
  BY DEF Init, LostSessionIsFailed, HealthyIsCaughtUp, SnapshotHolds, Bad
<1>2. IInv /\ TypeOK' /\ [Next]_vars => IInv'
  <2> SUFFICES ASSUME IInv, [Next]_vars
               PROVE  LostSessionIsFailed' /\ HealthyIsCaughtUp' /\ SnapshotHolds'
    BY DEF IInv
  <2> USE DEF IInv, LostSessionIsFailed, HealthyIsCaughtUp, SnapshotHolds
  <2>1. fault \in Fault /\ caughtUp \in BOOLEAN
    BY DEF TypeOK
  <2>2. CASE SetEventState
    <3>1. SetFaultState(StateFor(handling)) /\ last' = handling /\ UNCHANGED <<pc, snap>>
      BY <2>2 DEF SetEventState, reconciling
    <3>2. last' \in Bad => fault' = "FAILED"
      BY <2>1, <3>1 DEF SetFaultState, StateFor, CanTransition, Transitions, Fault
    <3>3. fault' \in {"REJOINED", "HEALTHY"} => fault' = fault /\ caughtUp' = caughtUp
      BY <2>1, <3>1, SetFaultStateType, StateForFault DEF Fault
    <3> QED
      BY <3>1, <3>2, <3>3
  <2>3. CASE Transit
    <3>1. SetFaultState(NextState) /\ pc' = "lookup" /\ last' = last /\ pc = "transit"
      BY <2>3 DEF Transit, eventLoop
    <3>2. fault = "FAILED" => fault' = "FAILED"
      BY <3>1, NextStateFault DEF SetFaultState, CanTransition, Transitions
    <3>3. fault' = "HEALTHY" => caughtUp'
      <4>1. CASE fault' = fault
        BY <2>1, <3>1, <4>1, SetFaultStateType, NextStateFault DEF Fault
      <4>2. CASE fault' # fault /\ fault' = "HEALTHY"
        <5>1. NextState = "HEALTHY" /\ fault = "REJOINED" /\ caughtUp' = caughtUp
          <6>1. fault' = NextState /\ CanTransition(fault, NextState) /\ caughtUp' = caughtUp
            BY <2>1, <3>1, <4>2, SetFaultStateType, NextStateFault DEF Fault
          <6> QED
            BY <4>2, <6>1 DEF CanTransition, Transitions
        <5>2. snap = Snapshot("REJOINED", TRUE)
          BY <5>1 DEF NextState
        <5> QED
          BY <3>1, <5>1, <5>2
      <4> QED
        BY <4>1, <4>2
    <3> QED
      BY <3>1, <3>2, <3>3
  <2>4. CASE ReadFaultState
    BY <2>4 DEF ReadFaultState, Snapshot, eventLoop, fields
  <2>5. CASE LeaderCaughtUp \/ CatchUpAnswered
    BY <2>5 DEF LeaderCaughtUp, CatchUpAnswered, MarkRecoveryCaughtUp, eventLoop, reconciling
  <2>6. CASE Lookup \/ WriteRole
    BY <2>6 DEF Lookup, WriteRole, eventLoop
  <2>7. CASE \/ TakeEvent \/ Tick \/ CatchUpFailed \/ Connect \/ LoseLink
             \/ SessionExpires \/ LeaseChanges \/ UNCHANGED vars
    BY <2>7 DEF TakeEvent, Tick, CatchUpFailed, Connect, LoseLink, SessionExpires,
                LeaseChanges, vars, eventLoop, reconciling, fields
  <2> QED
    BY <2>2, <2>3, <2>4, <2>5, <2>6, <2>7 DEF Next, HandleEvent, Reconcile
<1> QED
  BY <1>1, <1>2, FaultStateTypeCorrect, PTL DEF Spec, IInv

\* A node that handled the loss of its session reports FAILED until it has
\* handled a new one.
THEOREM LostSessionStaysFailed == Spec => []LostSessionIsFailed
BY FaultStateInvariant, PTL DEF IInv

\* HEALTHY is never reported on a catch-up that was forgotten since.
THEOREM HealthyStaysCaughtUp == Spec => []HealthyIsCaughtUp
BY FaultStateInvariant, PTL DEF IInv

-----------------------------------------------------------------------------
(* What is handled is what is reported.                                    *)

(***************************************************************************)
(* The fault state is FAILED exactly from the handling of a bad event to   *)
(* that of the next session: only consumeSessionEvents moves it there or   *)
(* away, whatever reconcile decides from its snapshot.                     *)
(***************************************************************************)
FailedIsLost == fault = "FAILED" <=> last \in Bad

\* The latest event of all, whether it is queued, being handled or handled.
Latest ==
  IF events # << >> THEN events[Len(events)]
  ELSE IF handling # "none" THEN handling ELSE last

\* The latest event, when there was one, tells whether the node has a session.
LatestTells ==
  /\ Latest # "none" => (Latest \in Bad <=> link = "down")
  /\ Latest = "none" => link = "down"

ReportInv == TypeOK /\ FailedIsLost /\ LatestTells

LEMMA SetEventStateFails ==
  ASSUME TypeOK, SetEventState
  PROVE  FailedIsLost'
<1>1. SetFaultState(StateFor(handling)) /\ last' = handling /\ fault \in Fault
  BY DEF SetEventState, TypeOK
<1>2. CASE handling \in Bad
  <2>1. SetFaultState("FAILED")
    BY <1>1, <1>2 DEF StateFor
  <2>2. fault' = "FAILED"
    BY <1>1, <2>1 DEF SetFaultState, CanTransition, Transitions, Fault
  <2> QED
    BY <1>1, <1>2, <2>2 DEF FailedIsLost
<1>3. CASE handling \notin Bad
  <2>1. SetFaultState("RECOVERING")
    BY <1>1, <1>3 DEF StateFor
  <2>2. fault' # "FAILED"
    BY <1>1, <2>1 DEF SetFaultState, CanTransition, Transitions, Fault
  <2> QED
    BY <1>1, <1>3, <2>2 DEF FailedIsLost
<1> QED
  BY <1>2, <1>3

\* Reconcile neither enters nor leaves FAILED.
LEMMA TransitKeepsFailed ==
  ASSUME Transit
  PROVE  fault' = "FAILED" <=> fault = "FAILED"
<1>1. SetFaultState(NextState)
  BY DEF Transit
<1> QED
  BY <1>1, NextStateFault DEF SetFaultState, CanTransition, Transitions

\* An event that ZooKeeper's client adds is the latest one.
LEMMA AppendIsLatest ==
  ASSUME TypeOK, NEW e \in Event, events' = Append(events, e)
  PROVE  Latest' = e
<1>1. Append(events, e) # << >> /\ Append(events, e)[Len(Append(events, e))] = e
  BY DEF TypeOK
<1> QED
  BY <1>1 DEF Latest

\* What is last stays last when the head is taken.
LEMMA TailHasLast ==
  ASSUME NEW S, NEW s \in Seq(S), s # << >>, Len(s) # 1
  PROVE  Tail(s) # << >> /\ Tail(s)[Len(Tail(s))] = s[Len(s)]
<1>1. Len(s) \in Nat \ {0}
  BY EmptySeq
<1>2. Len(Tail(s)) = Len(s) - 1 /\ Tail(s) \in Seq(S)
  BY HeadTailProperties
<1>3. Len(Tail(s)) # 0
  BY <1>1, <1>2
<1>4. Tail(s) # << >>
  BY <1>3, EmptySeq
<1>5. Len(Tail(s)) \in 1 .. Len(Tail(s)) /\ Len(Tail(s)) + 1 = Len(s)
  BY <1>1, <1>2
<1>6. Tail(s)[Len(Tail(s))] = s[Len(Tail(s)) + 1]
  BY <1>5, HeadTailProperties
<1> QED
  BY <1>4, <1>5, <1>6

LEMMA HandlingKeepsLatest ==
  ASSUME TypeOK, TakeEvent \/ SetEventState
  PROVE  Latest' = Latest
<1>1. "none" \notin Event
  BY DEF Event, Bad
<1>2. CASE TakeEvent
  <2>1. /\ events \in Seq(Event) /\ events # << >> /\ events' = Tail(events)
        /\ handling' = Head(events) /\ Head(events) \in Event
    BY <1>2 DEF TakeEvent, TypeOK
  <2>2. CASE Len(events) = 1
    <3>1. Tail(events) = << >> /\ Head(events) = events[Len(events)]
      BY <2>1, <2>2
    <3> QED
      BY <1>1, <2>1, <3>1 DEF Latest
  <2>3. CASE Len(events) # 1
    <3>1. Tail(events) # << >> /\ Tail(events)[Len(Tail(events))] = events[Len(events)]
      BY <2>1, <2>3, TailHasLast
    <3> QED
      BY <2>1, <3>1 DEF Latest
  <2> QED
    BY <2>2, <2>3
<1>3. CASE SetEventState
  BY <1>3 DEF SetEventState, Latest
<1> QED
  BY <1>2, <1>3

THEOREM ReportInvariant == Spec => []ReportInv
<1>1. Init => FailedIsLost /\ LatestTells
  BY DEF Init, FailedIsLost, LatestTells, Latest, Bad
<1>2. ReportInv /\ TypeOK' /\ [Next]_vars => ReportInv'
  <2> SUFFICES ASSUME ReportInv, [Next]_vars PROVE FailedIsLost' /\ LatestTells'
    BY DEF ReportInv
  <2> USE DEF ReportInv
  <2>1. CASE TakeEvent
    <3>1. UNCHANGED <<fault, last, link>>
      BY <2>1 DEF TakeEvent, environment
    <3> QED
      BY <2>1, <3>1, HandlingKeepsLatest DEF FailedIsLost, LatestTells
  <2>2. CASE SetEventState
    <3>1. link' = link
      BY <2>2 DEF SetEventState, environment
    <3> QED
      BY <2>2, <3>1, HandlingKeepsLatest, SetEventStateFails DEF LatestTells
  <2>3. CASE Transit
    <3>1. UNCHANGED <<link, events, handling, last>>
      BY <2>3 DEF Transit, environment, eventLoop
    <3> QED
      BY <2>3, <3>1, TransitKeepsFailed DEF FailedIsLost, LatestTells, Latest
  <2>4. ASSUME UNCHANGED <<link, events, handling, last, fault>>
        PROVE  FailedIsLost' /\ LatestTells'
    BY <2>4 DEF FailedIsLost, LatestTells, Latest
  <2>5. CASE Lookup \/ WriteRole \/ ReadFaultState \/ LeaderCaughtUp
    BY <2>4, <2>5 DEF Lookup, WriteRole, ReadFaultState, LeaderCaughtUp,
                      environment, eventLoop, fields
  <2>6. CASE \/ Tick \/ CatchUpAnswered \/ CatchUpFailed \/ LeaseChanges \/ UNCHANGED vars
    BY <2>4, <2>6 DEF Tick, CatchUpAnswered, CatchUpFailed, LeaseChanges, vars,
                      environment, eventLoop, fields
  <2>7. CASE Connect \/ LoseLink \/ SessionExpires
    <3>1. UNCHANGED <<fault, last>>
      BY <2>7 DEF Connect, LoseLink, SessionExpires, fields
    <3>2. FailedIsLost'
      BY <3>1 DEF FailedIsLost
    <3>3. CASE Connect
      <4>1. "HasSession" \in Event /\ "HasSession" \notin Bad /\ "HasSession" # "none"
        BY DEF Event, Bad
      <4>2. Latest' = "HasSession" /\ link' = "up"
        BY <3>3, <4>1, AppendIsLatest DEF Connect
      <4> QED
        BY <3>2, <4>1, <4>2 DEF LatestTells
    <3>4. CASE LoseLink \/ SessionExpires
      <4>1. PICK e \in Bad : events' = Append(events, e)
        BY <3>4 DEF LoseLink, SessionExpires, Bad
      <4>2. e \in Event /\ e # "none" /\ link' = "down"
        BY <3>4 DEF LoseLink, SessionExpires, Event, Bad
      <4> QED
        BY <3>2, <4>1, <4>2, AppendIsLatest DEF LatestTells
    <3> QED
      BY <2>7, <3>3, <3>4
  <2> QED
    BY <2>1, <2>2, <2>3, <2>5, <2>6, <2>7 DEF Next, HandleEvent, Reconcile
<1> QED
  BY <1>1, <1>2, FaultStateTypeCorrect, PTL DEF Spec, ReportInv

\* With every session event handled, FAILED is reported exactly by a node that
\* is cut off from ZooKeeper (consumeSessionEvents, setFaultState, reconcile).
THEOREM HandledEventsAreReported == Spec => []HandledIsReported
<1>1. ReportInv => HandledIsReported
  BY DEF ReportInv, FailedIsLost, LatestTells, Latest, HandledIsReported
<1> QED
  BY <1>1, ReportInvariant, PTL
=============================================================================
