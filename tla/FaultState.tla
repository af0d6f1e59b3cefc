----------------------------- MODULE FaultState -----------------------------
(***************************************************************************)
(* The fault state of one node: FAILED, RECOVERING, REJOINED, HEALTHY      *)
(* (internal/coordination, status.go and manager.go).  Three goroutines    *)
(* write the fields behind one mutex, each in several critical sections:   *)
(* consumeSessionEvents, reconcile and the catch-up loop.  What one read   *)
(* under the lock may be out of date when it writes.  Entering RECOVERING  *)
(* or FAILED forgets the catch-up that was done before.                    *)
(*                                                                         *)
(* The rest of reconcile, elections included, is in Coordination: here     *)
(* lease says whom the leader znode names, and may change at any time.     *)
(***************************************************************************)
EXTENDS Naturals, Sequences

CONSTANT MaxFaults   \* bounds what the environment does

ASSUME FaultStateAssumption == MaxFaults \in Nat

Bad == {"Disconnected", "Expired", "AuthFailed"}
Event == Bad \cup {"HasSession"}
Fault == {"FAILED", "RECOVERING", "REJOINED", "HEALTHY"}
Role == {"LEADER", "FOLLOWER", "UNKNOWN"}

VARIABLES
  link,      \* whether the node has a connection and a session
  lease,     \* the leader znode names this node, another one, or is absent
  events,    \* session events on their way to consumeSessionEvents
  handling,  \* the event whose fault state is still to be set, "none"
  last,      \* history: the last event that was handled, "none"
  role,      \* Status.Role
  fault,     \* Status.FaultState
  caughtUp,  \* Manager.recoveryCaughtUp
  pc,        \* where reconcile is
  found,     \* the role reconcile found in ZooKeeper
  snap,      \* fault and caughtUp as reconcile read them
  loop,      \* where the catch-up loop is
  faults

environment == <<link, lease, faults>>
eventLoop == <<events, handling, last>>
reconciling == <<pc, found, snap>>
fields == <<role, fault, caughtUp>>
vars == <<environment, eventLoop, reconciling, fields, loop>>

Snapshot(f, c) == [fault |-> f, caughtUp |-> c]
NoSnapshot == Snapshot("FAILED", FALSE)

\* NewManager: a process starts RECOVERING and without a session.
Init ==
  /\ link = "down" /\ lease = "none" /\ faults = 0
  /\ events = << >> /\ handling = "none" /\ last = "none"
  /\ role = "UNKNOWN" /\ fault = "RECOVERING" /\ caughtUp = FALSE
  /\ pc = "lookup" /\ found = "UNKNOWN" /\ snap = NoSnapshot
  /\ loop = "wait"

-----------------------------------------------------------------------------
(* canTransitionFaultState, setFaultState, setZKError.                     *)

Transitions ==
  {<<"RECOVERING", "REJOINED">>, <<"RECOVERING", "FAILED">>,
   <<"REJOINED", "HEALTHY">>, <<"REJOINED", "FAILED">>,
   <<"HEALTHY", "FAILED">>, <<"HEALTHY", "RECOVERING">>,
   <<"FAILED", "RECOVERING">>}

\* [mutant of CanTransition] a failed node may rejoin at once.
CanTransitionToo(from, to) ==
  <<from, to>> \in Transitions \cup {<<"FAILED", "REJOINED">>}

\* [mutant of CanTransition] the loss of a session in REJOINED was forgotten.
CanTransitionLess(from, to) ==
  <<from, to>> \in Transitions \ {<<"REJOINED", "FAILED">>}

CanTransition(from, to) == <<from, to>> \in Transitions

Forgets(to) == to \in {"RECOVERING", "FAILED"}

\* [mutant of SetFaultState] the transition is not checked.
SetFaultStateUnchecked(to) ==
  /\ fault' = to
  /\ caughtUp' = (caughtUp /\ ~Forgets(to))

\* The transition is checked against the state at the time of the write.
SetFaultState(to) ==
  IF CanTransition(fault, to)
  THEN /\ fault' = to
       /\ caughtUp' = (caughtUp /\ ~Forgets(to))
  ELSE UNCHANGED <<fault, caughtUp>>

\* [mutant of MarkRecoveryCaughtUp] only a recovering node is marked.
MarkRecovering == caughtUp' = (caughtUp \/ fault = "RECOVERING")

MarkRecoveryCaughtUp == caughtUp' = TRUE

-----------------------------------------------------------------------------
(* consumeSessionEvents: two critical sections for each event.             *)

TakeEvent ==
  /\ handling = "none" /\ events # << >>
  /\ handling' = Head(events)
  /\ events' = Tail(events)
  /\ role' = IF Head(events) \in Bad THEN "UNKNOWN" ELSE role
  /\ UNCHANGED <<environment, last, reconciling, fault, caughtUp, loop>>

StateFor(event) == IF event \in Bad THEN "FAILED" ELSE "RECOVERING"

SetEventState ==
  /\ handling # "none"
  /\ SetFaultState(StateFor(handling))
  /\ last' = handling
  /\ handling' = "none"
  /\ UNCHANGED <<environment, events, reconciling, role, loop>>

-----------------------------------------------------------------------------
(* reconcile, from the reads of ZooKeeper on.                              *)

RoleOf(holder) ==
  CASE holder = "self" -> "LEADER"
    [] holder = "other" -> "FOLLOWER"
    [] OTHER -> "UNKNOWN"

\* [mutant of Lookup] an error of reconcile leaves the role alone.
LookupKeepsRole ==
  /\ pc = "lookup"
  /\ link = "up"
  /\ found' = RoleOf(lease) /\ pc' = "write"
  /\ UNCHANGED <<environment, eventLoop, snap, fields, loop>>

\* Without a connection the calls fail: setZKError, and start over.
Lookup ==
  /\ pc = "lookup"
  /\ \/ /\ link = "up"
        /\ found' = RoleOf(lease) /\ pc' = "write"
        /\ UNCHANGED role
     \/ /\ link = "down"
        /\ role' = "UNKNOWN"
        /\ UNCHANGED <<pc, found>>
  /\ UNCHANGED <<environment, eventLoop, snap, fault, caughtUp, loop>>

\* refreshStatusFromLease writes what it read; without a leader znode
\* setNoLeaderStatus does, and reconcile ends there.
WriteRole ==
  /\ pc = "write"
  /\ role' = found
  /\ pc' = IF found = "UNKNOWN" THEN "lookup" ELSE "snapshot"
  /\ found' = "UNKNOWN"
  /\ UNCHANGED <<environment, eventLoop, snap, fault, caughtUp, loop>>

ReadFaultState ==
  /\ pc = "snapshot"
  /\ snap' = Snapshot(fault, caughtUp)
  /\ pc' = IF role = "LEADER" /\ ~caughtUp THEN "mark" ELSE "transit"
  /\ UNCHANGED <<environment, eventLoop, found, fields, loop>>

\* The leader has nobody to catch up with.
LeaderCaughtUp ==
  /\ pc = "mark"
  /\ MarkRecoveryCaughtUp
  /\ snap' = [snap EXCEPT !.caughtUp = TRUE]
  /\ pc' = "transit"
  /\ UNCHANGED <<environment, eventLoop, found, role, fault, loop>>

\* [mutant of NextState] a rejoined node is taken for healthy.
NextStateHasty ==
  CASE snap = Snapshot("RECOVERING", TRUE) -> "REJOINED"
    [] snap.fault = "REJOINED" -> "HEALTHY"
    [] OTHER -> "none"

NextState ==
  CASE snap = Snapshot("RECOVERING", TRUE) -> "REJOINED"
    [] snap = Snapshot("REJOINED", TRUE) -> "HEALTHY"
    [] OTHER -> "none"

\* What to do is decided by the snapshot.
Transit ==
  /\ pc = "transit"
  /\ SetFaultState(NextState)
  /\ pc' = "lookup"
  /\ snap' = NoSnapshot
  /\ UNCHANGED <<environment, eventLoop, found, role, loop>>

-----------------------------------------------------------------------------
(* runFollowerCatchUpLoop: it asks the leader the status names.            *)

Tick ==
  /\ loop = "wait" /\ role # "UNKNOWN"
  /\ loop' = IF role = "LEADER" THEN "mark" ELSE "ask"
  /\ UNCHANGED <<environment, eventLoop, reconciling, fields>>

\* The answer counts as soon as it is there, before its entries are applied.
CatchUpAnswered ==
  /\ loop \in {"mark", "ask"}
  /\ MarkRecoveryCaughtUp
  /\ loop' = "wait"
  /\ UNCHANGED <<environment, eventLoop, reconciling, role, fault>>

Disturbance == faults < MaxFaults /\ faults' = faults + 1

\* MarkRecoveryCatchUpFailed only notes the reason.
CatchUpFailed ==
  /\ loop = "ask"
  /\ Disturbance
  /\ loop' = "wait"
  /\ UNCHANGED <<link, lease, eventLoop, reconciling, fields>>

-----------------------------------------------------------------------------
(* The environment: ZooKeeper, the client library, the other nodes.        *)

Connect ==
  /\ link = "down"
  /\ link' = "up"
  /\ events' = Append(events, "HasSession")
  /\ UNCHANGED <<lease, faults, handling, last, reconciling, fields, loop>>

LoseLink ==
  /\ link = "up"
  /\ Disturbance
  /\ link' = "down"
  /\ \E e \in {"Disconnected", "AuthFailed"} : events' = Append(events, e)
  /\ UNCHANGED <<lease, handling, last, reconciling, fields, loop>>

\* The client learns of the expiry when it tries to resume the session.
SessionExpires ==
  /\ link = "down"
  /\ Disturbance
  /\ events' = Append(events, "Expired")
  /\ lease' = IF lease = "self" THEN "none" ELSE lease
  /\ UNCHANGED <<link, handling, last, reconciling, fields, loop>>

LeaseChanges ==
  /\ \E holder \in {"self", "other", "none"} :
       /\ holder # lease
       /\ holder = "self" => link = "up"
       /\ lease' = holder
  /\ Disturbance
  /\ UNCHANGED <<link, eventLoop, reconciling, fields, loop>>

-----------------------------------------------------------------------------

Reconcile == Lookup \/ WriteRole \/ ReadFaultState \/ LeaderCaughtUp \/ Transit

HandleEvent == TakeEvent \/ SetEventState

Next ==
  \/ HandleEvent \/ Reconcile \/ Tick \/ CatchUpAnswered \/ CatchUpFailed
  \/ Connect \/ LoseLink \/ SessionExpires \/ LeaseChanges

Spec == Init /\ [][Next]_vars

(***************************************************************************)
(* The three loops never stop; a catch-up request ends within its 3 s      *)
(* timeout.  Nothing makes ZooKeeper reachable or a node lead.             *)
(***************************************************************************)
FairSpec == /\ Spec
            /\ WF_vars(HandleEvent)
            /\ WF_vars(Reconcile)
            /\ WF_vars(Tick)
            /\ WF_vars(CatchUpAnswered)

-----------------------------------------------------------------------------
(* Properties.                                                             *)

\* Type invariant of the fields the three goroutines share.
TypeOK ==
  /\ link \in {"up", "down"}
  /\ lease \in {"self", "other", "none"}
  /\ events \in Seq(Event)
  /\ handling \in Event \cup {"none"}
  /\ last \in Event \cup {"none"}
  /\ role \in Role
  /\ fault \in Fault
  /\ caughtUp \in BOOLEAN
  /\ pc \in {"lookup", "write", "snapshot", "mark", "transit"}
  /\ found \in Role
  /\ snap \in [fault : Fault, caughtUp : BOOLEAN]
  /\ loop \in {"wait", "mark", "ask"}
  /\ faults \in Nat

(***************************************************************************)
(* From the handling of a lost session to the handling of a new one the    *)
(* node reports FAILED: a reconcile that is under way cannot overtake the  *)
(* event with the REJOINED or HEALTHY it had decided on before.            *)
(***************************************************************************)
LostSessionIsFailed == last \in Bad => fault = "FAILED"

(***************************************************************************)
(* A node that reports HEALTHY has a catch-up behind it that no session    *)
(* event has cancelled, though reconcile decides on HEALTHY from what it   *)
(* read earlier.                                                           *)
(***************************************************************************)
HealthyIsCaughtUp == fault = "HEALTHY" => caughtUp

(***************************************************************************)
(* Once no session event is left to handle, the node reports FAILED        *)
(* exactly when it is cut off: no order of losses and reconnections, no    *)
(* transition that is refused and no reconcile in between leaves it FAILED *)
(* with a session, or recovering without one.  (Before its first event a   *)
(* process is RECOVERING without a session.)                               *)
(***************************************************************************)
HandledIsReported ==
  events = << >> /\ handling = "none" /\ last # "none" => (fault = "FAILED" <=> link = "down")

(***************************************************************************)
(* A node that is cut off from ZooKeeper does not keep its role: a role    *)
(* that reconcile writes after the event of the loss goes away again.      *)
(***************************************************************************)
CutOffHasNoRole == <>[](link = "down") => <>[](role = "UNKNOWN")

(***************************************************************************)
(* When the session stays and there is a leader, the node becomes HEALTHY  *)
(* for good, whatever interrupted its recovery before.                     *)
(***************************************************************************)
Recovers == <>[](link = "up" /\ lease # "none") => <>[](fault = "HEALTHY")
=============================================================================
