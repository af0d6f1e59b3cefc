------------------------- MODULE CoordinationProofs -------------------------
(***************************************************************************)
(* Proofs about Coordination, for every set of nodes and any number of     *)
(* faults of any kind: a term has one leader.                              *)
(***************************************************************************)
EXTENDS Coordination, TLAPS

(***************************************************************************)
(* The inductive invariant.  Every term in a lease, in a status or about   *)
(* to be written was taken from the counter by the node named with it.     *)
(***************************************************************************)
TermsAreGranted ==
  /\ \A g \in grants : g[1] <= term
  /\ \A g, h \in grants : g[1] = h[1] => g[2] = h[2]
  /\ lease.term > 0 => <<lease.term, lease.leader>> \in grants
  /\ \A n \in Node :
       /\ pc[n] = "publish" => <<base[n] + 1, n>> \in grants
       /\ seen[n].term > 0 => <<seen[n].term, seen[n].leader>> \in grants
       /\ Leads(n) /\ status[n].term > 0 => <<status[n].term, n>> \in grants

\* No session is used before it exists, and a node that verifies a lease it
\* holds has read a lease that names it: nobody else writes its name.
LeaseIsOwn ==
  \A n \in Node :
    /\ lease.owner[1] = n => lease.owner[2] <= epoch[n]
    /\ pc[n] = "verify" /\ Held(n) => seen[n].leader = n

IInv == Types /\ TermsAreGranted /\ LeaseIsOwn

LEMMA InitType == Init => Types
BY CoordinationAssumption
   DEF Init, Types, Lease, NoLease, Status, NoStatus, Session, Label

LEMMA GotoType ==
  ASSUME pc \in [Node -> Label], NEW n \in Node, NEW l \in Label, Goto(n, l)
  PROVE  pc' \in [Node -> Label]
BY DEF Goto

LEMMA FailType ==
  ASSUME pc \in [Node -> Label], status \in [Node -> Status], NEW n \in Node, Fail(n)
  PROVE  pc' \in [Node -> Label] /\ status' \in [Node -> Status]
<1>1. "member" \in Label /\ NoStatus \in Status
  BY DEF Label, Status, NoStatus
<1> QED
  BY <1>1, GotoType DEF Fail

LEMMA AfterErrorType ==
  ASSUME pc \in [Node -> Label], status \in [Node -> Status], NEW n \in Node,
         AfterError(n)
  PROVE  pc' \in [Node -> Label] /\ status' \in [Node -> Status]
<1>1. "create" \in Label /\ "release" \in Label
  BY DEF Label
<1>2. CASE pc[n] = "candidate"
  BY <1>1, <1>2, GotoType DEF AfterError
<1>3. CASE pc[n] # "candidate" /\ pc[n] \in Mutating
  BY <1>1, <1>3, GotoType DEF AfterError
<1>4. CASE pc[n] # "candidate" /\ pc[n] \notin Mutating
  BY <1>4, FailType DEF AfterError
<1> QED
  BY <1>2, <1>3, <1>4

LEMMA WrittenLease ==
  ASSUME Types, NEW n \in Node, WriteLease(n)
  PROVE  lease' = [leader |-> n, term |-> base[n] + 1, owner |-> lease.owner]
BY DEF WriteLease, Types, Lease

LEMMA LeaseType ==
  ASSUME Types
  PROVE  /\ NoLease \in Lease
         /\ \A n \in Node : /\ PutLease(n) => lease' \in Lease
                            /\ WriteLease(n) => lease' \in Lease
                            /\ session(n) \in Session
                            /\ PutMember(n) => members' \subseteq Node \X Session
                            /\ PutCandidate(n) =>
                                 /\ candidates' \subseteq [owner : Session, seq : Nat \ {0}]
                                 /\ nextSeq' \in Nat \ {0}
                            /\ WriteTerm(n) =>
                                 /\ term' \in Nat
                                 /\ grants' \subseteq (Nat \ {0}) \X Node
<1>1. \A n \in Node : session(n) \in Session
  BY DEF Types, session, Session
<1>2. NoLease \in Lease
  BY DEF NoLease, Lease
<1>3. \A n \in Node : PutLease(n) => lease' \in Lease
  BY <1>1 DEF PutLease, Lease
<1>4. ASSUME NEW n \in Node, WriteLease(n)
      PROVE  lease' \in Lease
  <2>1. lease' = [leader |-> n, term |-> base[n] + 1, owner |-> lease.owner]
    BY <1>4, WrittenLease
  <2>2. base[n] + 1 \in Nat /\ lease.owner \in Session \cup {<<None, 0>>}
    BY DEF Types, Lease
  <2> QED
    BY <2>1, <2>2 DEF Lease
<1>5. \A n \in Node : PutMember(n) => members' \subseteq Node \X Session
  BY <1>1 DEF PutMember, Types
<1>6. ASSUME NEW n \in Node, PutCandidate(n)
      PROVE  /\ candidates' \subseteq [owner : Session, seq : Nat \ {0}]
             /\ nextSeq' \in Nat \ {0}
  BY <1>1, <1>6 DEF PutCandidate, Types
<1>7. ASSUME NEW n \in Node, WriteTerm(n)
      PROVE  /\ term' \in Nat
             /\ grants' \subseteq (Nat \ {0}) \X Node
  BY <1>7 DEF WriteTerm, Types
<1> QED
  BY <1>1, <1>2, <1>3, <1>4, <1>5, <1>6, <1>7

\* One round of reconcile keeps the types.
LEMMA ReconcileType ==
  ASSUME Types, NEW n \in Node, Reconcile(n)
  PROVE  Types'
<1> USE GotoType, FailType, LeaseType DEF Types, Label, process, zookeeper
<1>1. CASE EnsureMember(n)
  BY <1>1 DEF EnsureMember
<1>2. CASE CheckCandidate(n)
  BY <1>2 DEF CheckCandidate
<1>3. CASE CreateCandidate(n)
  BY <1>3 DEF CreateCandidate
<1>4. CASE DetermineEligible(n)
  BY <1>4 DEF DetermineEligible
<1>5. CASE ReadLease(n)
  BY <1>5 DEF ReadLease
<1>6. CASE CreateLease(n)
  BY <1>6 DEF CreateLease
<1>7. CASE RereadLease(n)
  BY <1>7 DEF RereadLease
<1>8. CASE BumpGet(n)
  BY <1>8 DEF BumpGet
<1>9. CASE BumpSet(n)
  BY <1>9 DEF BumpSet
<1>10. CASE PublishTerm(n)
  BY <1>10 DEF PublishTerm
<1>11. CASE ReleaseLease(n)
  BY <1>11 DEF ReleaseLease
<1>12. CASE DeleteLease(n)
  BY <1>12 DEF DeleteLease
<1>13. CASE RefreshStatus(n)
  BY <1>13 DEF RefreshStatus
<1>14. CASE VerifyStatus(n)
  BY <1>14 DEF VerifyStatus, RoleOf, Status, Lease
<1> QED
  BY <1>1, <1>2, <1>3, <1>4, <1>5, <1>6, <1>7, <1>8, <1>9, <1>10, <1>11, <1>12, <1>13, <1>14 DEF Reconcile

LEMMA DropType ==
  ASSUME Types, NEW s \in sessions, DropSession(s),
         UNCHANGED <<process, status, pc, seen, base>>, faults' \in Nat
  PROVE  Types'
BY DEF DropSession, Types, Lease, NoLease, process

\* Faults, sessions and events keep the types.
LEMMA DisturbType ==
  ASSUME Types, NEW n \in Node, Disturb(n) \/ Reconnect(n) \/ HandleExpired(n)
  PROVE  Types'
<1> USE FailType, AfterErrorType, LeaseType DEF Types, process, zookeeper, Fault
<1>1. CASE CallFails(n)
  BY <1>1 DEF CallFails
<1>2. CASE ReplyLost(n)
  BY <1>2 DEF ReplyLost
<1>3. CASE HandleDisconnected(n)
  BY <1>3 DEF HandleDisconnected, Status, NoStatus
<1>4. CASE ExpireSession(n)
  BY <1>4, DropType DEF ExpireSession, Connected
<1>5. CASE Crash(n)
  BY <1>5 DEF Crash
<1>6. CASE Restart(n)
  BY <1>6 DEF Restart, NewSession, Session
<1>7. CASE Reconnect(n)
  BY <1>7 DEF Reconnect, NewSession, Session
<1>8. CASE HandleExpired(n)
  BY <1>8 DEF HandleExpired, Status, NoStatus
<1> QED
  BY <1>1, <1>2, <1>3, <1>4, <1>5, <1>6, <1>7, <1>8 DEF Disturb

LEMMA NextType == Types /\ [Next]_vars => Types'
<1> SUFFICES ASSUME Types, [Next]_vars
             PROVE  Types'
  OBVIOUS
<1>1. CASE UNCHANGED vars
  BY <1>1 DEF Types, vars, zookeeper, process
<1>2. ASSUME NEW s \in sessions, OldSessionExpires(s)
      PROVE  Types'
  BY <1>2, DropType DEF OldSessionExpires, Types
<1> QED
  BY <1>1, <1>2, ReconcileType, DisturbType DEF Next

\* Most steps name no leader: a lease, a read or a status is what it was, or gone.
LEMMA NoNewName ==
  ASSUME LeadersNamed, lease' \in {lease, NoLease},
         \A m \in Node : /\ pc'[m] = "verify" => pc[m] = "verify" /\ seen'[m] = seen[m]
                        /\ status'[m] \in {status[m], NoStatus}
  PROVE  LeadersNamed'
BY DEF LeadersNamed, NoStatus

LEMMA ReconcileNamed ==
  ASSUME Types, LeadersNamed, NEW n \in Node, Reconcile(n)
  PROVE  LeadersNamed'
<1>1. ASSUME NEW l \in Label \ {"verify"}, Goto(n, l)
      PROVE  \A m \in Node : pc'[m] = "verify" => pc[m] = "verify" /\ m # n
  BY <1>1 DEF Types, Goto
<1>2. ASSUME Fail(n)
      PROVE  \A m \in Node : /\ pc'[m] = "verify" => pc[m] = "verify" /\ m # n
                             /\ status'[m] \in {status[m], NoStatus}
  BY <1>2 DEF Types, Fail, Goto
<1> USE <1>1, <1>2, NoNewName DEF Label
<1>3. CASE EnsureMember(n) \/ CheckCandidate(n) \/ CreateCandidate(n)
  BY <1>3 DEF EnsureMember, CheckCandidate, CreateCandidate, zookeeper
<1>4. CASE DetermineEligible(n) \/ ReadLease(n) \/ RereadLease(n)
  BY <1>4 DEF DetermineEligible, ReadLease, RereadLease, zookeeper
<1>5. CASE BumpGet(n) \/ BumpSet(n)
  BY <1>5 DEF BumpGet, BumpSet, zookeeper
<1>6. CASE ReleaseLease(n) \/ DeleteLease(n)
  BY <1>6 DEF ReleaseLease, DeleteLease, zookeeper
<1>7. CASE CreateLease(n)
  <2>1. lease' = lease \/ lease'.leader \in Node
    BY <1>7 DEF CreateLease, PutLease
  <2>2. UNCHANGED <<status, seen>> /\ \A m \in Node : pc'[m] = "verify" => pc[m] = "verify"
    BY <1>7 DEF CreateLease
  <2> QED
    BY <2>1, <2>2 DEF LeadersNamed
<1>8. CASE PublishTerm(n)
  <2>1. lease' = lease \/ lease'.leader \in Node
    BY <1>8, WrittenLease DEF PublishTerm
  <2>2. UNCHANGED <<status, seen>> /\ \A m \in Node : pc'[m] = "verify" => pc[m] = "verify"
    BY <1>8 DEF PublishTerm
  <2> QED
    BY <2>1, <2>2 DEF LeadersNamed
<1>9. CASE RefreshStatus(n)
  <2>1. \A m \in Node : seen'[m] = IF m = n THEN lease ELSE seen[m]
    BY <1>9 DEF RefreshStatus, Types
  <2>2. CASE lease = NoLease
    BY <1>9, <2>1, <2>2 DEF RefreshStatus, zookeeper
  <2>3. CASE lease # NoLease
    <3>1. UNCHANGED <<lease, status>> /\ \A m \in Node : pc'[m] = "verify" => m = n \/ pc[m] = "verify"
      BY <1>9, <2>3 DEF RefreshStatus, Goto, Types, zookeeper
    <3> QED
      BY <2>1, <2>3, <3>1 DEF LeadersNamed
  <2> QED
    BY <2>2, <2>3
<1>10. CASE VerifyStatus(n)
  <2>1. /\ lease' = lease /\ seen[n].leader \in Node
        /\ \A m \in Node : m # n => seen'[m] = seen[m] /\ status'[m] = status[m]
        /\ status'[n].leader = seen[n].leader
        /\ \A m \in Node : pc'[m] = "verify" => pc[m] = "verify" /\ m # n
    BY <1>10 DEF VerifyStatus, LeadersNamed, Types, At, zookeeper
  <2> QED
    BY <2>1 DEF LeadersNamed
<1> QED
  BY <1>3, <1>4, <1>5, <1>6, <1>7, <1>8, <1>9, <1>10 DEF Reconcile

LEMMA AfterErrorNamed ==
  ASSUME Types, NEW n \in Node, Fail(n) \/ AfterError(n)
  PROVE  \A m \in Node : /\ pc'[m] = "verify" => pc[m] = "verify" /\ m # n
                         /\ status'[m] \in {status[m], NoStatus}
<1>1. CASE Fail(n)
  BY <1>1 DEF Types, Fail, Goto
<1>2. CASE pc[n] = "candidate" /\ AfterError(n)
  BY <1>2 DEF Types, AfterError, Goto
<1>3. CASE pc[n] \in Mutating /\ pc[n] # "candidate" /\ AfterError(n)
  BY <1>3 DEF Types, AfterError, Goto
<1>4. CASE pc[n] # "candidate" /\ pc[n] \notin Mutating /\ AfterError(n)
  BY <1>4 DEF Types, AfterError, Fail, Goto
<1> QED
  BY <1>1, <1>2, <1>3, <1>4

LEMMA DisturbNamed ==
  ASSUME Types, LeadersNamed, NEW n \in Node, Disturb(n) \/ Reconnect(n) \/ HandleExpired(n)
  PROVE  LeadersNamed'
<1>1. CASE CallFails(n)
  BY <1>1, AfterErrorNamed, NoNewName DEF CallFails, zookeeper
<1>2. CASE ReplyLost(n)
  <2>1. lease' = lease \/ PutLease(n) \/ WriteLease(n)
    BY <1>2 DEF ReplyLost
  <2>2. lease' = lease \/ lease'.leader \in Node
    BY <2>1, WrittenLease DEF PutLease
  <2>3. /\ seen' = seen
        /\ \A m \in Node : /\ pc'[m] = "verify" => pc[m] = "verify"
                           /\ status'[m] \in {status[m], NoStatus}
    BY <1>2, AfterErrorNamed DEF ReplyLost
  <2> QED
    BY <2>2, <2>3 DEF LeadersNamed, NoStatus
<1>3. CASE HandleDisconnected(n) \/ HandleExpired(n)
  BY <1>3, NoNewName DEF HandleDisconnected, HandleExpired, Types, zookeeper
<1>4. CASE ExpireSession(n)
  BY <1>4, NoNewName DEF ExpireSession, DropSession, process
<1>5. CASE Crash(n)
  <2>1. \A m \in Node : m # n => seen'[m] = seen[m]
    BY <1>5 DEF Crash, Types
  <2> QED
    BY <1>5, <2>1, AfterErrorNamed, NoNewName DEF Crash, zookeeper
<1>6. CASE Restart(n) \/ Reconnect(n)
  BY <1>6, NoNewName DEF Restart, Reconnect, NewSession
<1> QED
  BY <1>1, <1>2, <1>3, <1>4, <1>5, <1>6 DEF Disturb

\* The fields of the managers and the znodes always have their types, and no
\* status has a role without a leader.
THEOREM CoordinationTypeCorrect == Spec => []TypeOK
<1>1. Init => LeadersNamed
  BY DEF Init, LeadersNamed, NoStatus
<1>2. Types /\ LeadersNamed /\ [Next]_vars => LeadersNamed'
  <2> SUFFICES ASSUME Types, LeadersNamed, [Next]_vars PROVE LeadersNamed'
    OBVIOUS
  <2>1. CASE UNCHANGED vars
    BY <2>1 DEF LeadersNamed, vars, zookeeper
  <2>2. ASSUME NEW s \in sessions, OldSessionExpires(s) PROVE LeadersNamed'
    BY <2>2, NoNewName DEF OldSessionExpires, DropSession
  <2> QED
    BY <2>1, <2>2, ReconcileNamed, DisturbNamed DEF Next
<1> QED
  BY <1>1, <1>2, InitType, NextType, PTL DEF Spec, TypeOK

(***************************************************************************)
(* The inductive invariant is preserved.                                   *)
(***************************************************************************)

\* What an error leaves of a round: no role, and nothing to publish.
LEMMA AfterErrorStops ==
  ASSUME Types, NEW n \in Node, Fail(n) \/ AfterError(n)
  PROVE  \A m \in Node : /\ pc'[m] \in {"publish", "verify"} => pc'[m] = pc[m]
                        /\ status'[m] \in {status[m], NoStatus}
                        /\ pc'[n] \notin {"publish", "verify"}
<1>1. CASE Fail(n)
  BY <1>1 DEF Types, Fail, Goto
<1>2. CASE AfterError(n) /\ pc[n] = "candidate"
  BY <1>2 DEF Types, AfterError, Goto
<1>3. CASE AfterError(n) /\ pc[n] # "candidate" /\ pc[n] \in Mutating
  BY <1>3 DEF Types, AfterError, Goto
<1>4. CASE AfterError(n) /\ pc[n] # "candidate" /\ pc[n] \notin Mutating
  BY <1>1, <1>4 DEF AfterError
<1> QED
  BY <1>1, <1>2, <1>3, <1>4

\* Steps that hand out no term and let no node lead.
LEMMA QuietTerms ==
  ASSUME Types, TermsAreGranted, UNCHANGED <<term, grants>>,
         lease'.term > 0 => <<lease'.term, lease'.leader>> \in grants,
         \A m \in Node :
           /\ pc'[m] = "publish" => pc[m] = "publish" /\ base'[m] = base[m]
           /\ seen'[m] \in {seen[m], lease, NoLease}
           /\ status'[m] \in {status[m], NoStatus}
  PROVE  TermsAreGranted'
<1>1. \A m \in Node : pc'[m] = "publish" => <<base'[m] + 1, m>> \in grants'
  BY DEF TermsAreGranted
<1>2. \A m \in Node : seen'[m].term > 0 => <<seen'[m].term, seen'[m].leader>> \in grants'
  <2>1. ~ NoLease.term > 0
    BY DEF NoLease
  <2> QED
    BY <2>1 DEF TermsAreGranted
<1>3. \A m \in Node : Leads(m)' /\ status'[m].term > 0 => <<status'[m].term, m>> \in grants'
  <2>1. NoStatus.role # "LEADER"
    BY DEF NoStatus
  <2> QED
    BY <2>1 DEF TermsAreGranted, Leads
<1> QED
  BY <1>1, <1>2, <1>3 DEF TermsAreGranted

\* A term handed out to a node that does not learn of it.
LEMMA LostTerms ==
  ASSUME Types, TermsAreGranted, NEW n \in Node,
         term' = term + 1, grants' = grants \cup {<<term + 1, n>>},
         UNCHANGED <<lease, seen, base>>,
         \A m \in Node : /\ pc'[m] = "publish" => pc[m] = "publish"
                        /\ status'[m] \in {status[m], NoStatus}
  PROVE  TermsAreGranted'
<1>1. term \in Nat /\ \A g \in grants : g[1] \in Nat /\ g[1] <= term
  BY DEF Types, TermsAreGranted
<1>2. \A g \in grants' : g[1] <= term'
  BY <1>1
<1>3. \A g, h \in grants' : g[1] = h[1] => g[2] = h[2]
  BY <1>1 DEF TermsAreGranted
<1>4. NoStatus.role # "LEADER"
  BY DEF NoStatus
<1> QED
  BY <1>2, <1>3, <1>4 DEF TermsAreGranted, Leads

LEMMA ReconcileTerms ==
  ASSUME Types, TermsAreGranted, LeaseIsOwn, NEW n \in Node, Reconcile(n)
  PROVE  TermsAreGranted'
<1> USE CoordinationAssumption DEF Types, Lease, Status, TermsAreGranted, Leads, NoLease, NoStatus, Goto, Fail,
        process, zookeeper, At
<1>1. CASE EnsureMember(n)
  BY <1>1 DEF EnsureMember
<1>2. CASE CheckCandidate(n)
  BY <1>2 DEF CheckCandidate
<1>3. CASE CreateCandidate(n)
  BY <1>3 DEF CreateCandidate
<1>4. CASE DetermineEligible(n)
  BY <1>4 DEF DetermineEligible
<1>5. CASE ReadLease(n)
  BY <1>5 DEF ReadLease
<1>6. CASE CreateLease(n)
  <2>1. lease' = lease \/ PutLease(n)
    BY <1>6 DEF CreateLease
  <2>2. \A m \in Node : pc'[m] = "publish" => pc[m] = "publish"
    BY <1>6 DEF CreateLease
  <2> QED
    <3>1. CASE lease' = lease
      BY <1>6, <2>2, <3>1, QuietTerms DEF CreateLease
    <3>2. CASE PutLease(n)
      <4>1. ~ lease'.term > 0
        BY <3>2 DEF PutLease
      <4> QED
        BY <1>6, <2>2, <4>1, QuietTerms DEF CreateLease
    <3> QED
      BY <2>1, <3>1, <3>2
<1>7. CASE RereadLease(n)
  <2>1. \A m \in Node : /\ pc'[m] = "publish" => pc[m] = "publish"
                        /\ status'[m] \in {status[m], NoStatus}
    BY <1>7 DEF RereadLease
  <2> QED
    BY <1>7, <2>1, QuietTerms DEF RereadLease
<1>8. CASE BumpGet(n)
  BY <1>8 DEF BumpGet
<1>9. CASE BumpSet(n)
  BY <1>9 DEF BumpSet, WriteTerm, VersionMatches
<1>10. CASE PublishTerm(n)
  BY <1>10 DEF PublishTerm, WriteLease
<1>11. CASE ReleaseLease(n)
  <2>1. \A m \in Node : /\ pc'[m] = "publish" => pc[m] = "publish"
                        /\ status'[m] \in {status[m], NoStatus}
    BY <1>11 DEF ReleaseLease
  <2> QED
    BY <1>11, <2>1, QuietTerms DEF ReleaseLease
<1>12. CASE DeleteLease(n)
  BY <1>12 DEF DeleteLease
<1>13. CASE RefreshStatus(n)
  <2>1. \A m \in Node : /\ pc'[m] = "publish" => pc[m] = "publish"
                        /\ status'[m] \in {status[m], NoStatus}
    BY <1>13 DEF RefreshStatus
  <2>2. \A m \in Node : seen'[m] \in {seen[m], lease}
    BY <1>13 DEF RefreshStatus
  <2> QED
    BY <1>13, <2>1, <2>2, QuietTerms DEF RefreshStatus
<1>14. CASE VerifyStatus(n)
  <2>1. Leads(n)' => Held(n)
    BY <1>14 DEF VerifyStatus, RoleOf
  <2>2. Held(n) => seen[n].leader = n
    BY <1>14 DEF VerifyStatus, RoleOf, LeaseIsOwn
  <2>3. status'[n].term = seen[n].term
    BY <1>14 DEF VerifyStatus, RoleOf
  <2>4. \A m \in Node : Leads(m)' /\ m # n => status'[m] = status[m]
    BY <1>14 DEF VerifyStatus, RoleOf
  <2>5. \A m \in Node : /\ seen'[m] \in {seen[m], NoLease}
                        /\ pc'[m] = "publish" => pc[m] = "publish" /\ base'[m] = base[m]
    BY <1>14 DEF VerifyStatus, RoleOf
  <2>6. UNCHANGED <<lease, term, grants>>
    BY <1>14 DEF VerifyStatus, RoleOf
  <2>7. \A m \in Node : Leads(m)' /\ status'[m].term > 0 => <<status'[m].term, m>> \in grants'
    <3> HIDE DEF Types, Lease, Status
    <3>1. Leads(n)' /\ status'[n].term > 0 => <<status'[n].term, n>> \in grants'
      BY <2>1, <2>2, <2>3, <2>6
    <3> QED
      BY <2>4, <2>6, <3>1
  <2>8. \A m \in Node : seen'[m].term > 0 => <<seen'[m].term, seen'[m].leader>> \in grants'
    <3>1. ~ NoLease.term > 0
      OBVIOUS
    <3> HIDE DEF Types, Lease, Status, NoLease
    <3> QED
      BY <2>5, <2>6, <3>1
  <2> QED
    <3> HIDE DEF Types, Lease, Status, Leads
    <3> QED
      BY <2>5, <2>6, <2>7, <2>8
<1> QED
  BY <1>1, <1>2, <1>3, <1>4, <1>5, <1>6, <1>7, <1>8, <1>9, <1>10, <1>11, <1>12, <1>13, <1>14 DEF Reconcile

LEMMA DisturbTerms ==
  ASSUME Types, TermsAreGranted, NEW n \in Node, Disturb(n) \/ Reconnect(n) \/ HandleExpired(n)
  PROVE  TermsAreGranted'
<1> USE CoordinationAssumption DEF Types, Lease, Status, TermsAreGranted, Leads, NoLease, NoStatus, Goto, Fail,
        process, zookeeper, At
<1>1. CASE CallFails(n)
  <2>1. \A m \in Node : /\ pc'[m] = "publish" => pc[m] = "publish"
                        /\ status'[m] \in {status[m], NoStatus}
    <3> HIDE DEF Types, Fail, NoStatus
    <3> QED
      BY <1>1, AfterErrorStops DEF CallFails
  <2> QED
    BY <1>1, <2>1, QuietTerms DEF CallFails
<1>2. CASE ReplyLost(n)
  <2>1. \A m \in Node : /\ pc'[m] = "publish" => pc[m] = "publish" /\ m # n
                        /\ status'[m] \in {status[m], NoStatus}
    <3> HIDE DEF Types, Fail, NoStatus
    <3> QED
      BY <1>2, AfterErrorStops DEF ReplyLost
  <2>2. CASE UNCHANGED <<lease, term, grants>>
    BY <1>2, <2>1, <2>2, QuietTerms DEF ReplyLost
  <2>3. CASE PutLease(n) /\ UNCHANGED <<term, grants>>
    BY <1>2, <2>1, <2>3, QuietTerms DEF ReplyLost, PutLease
  <2>4. CASE VersionMatches(n) /\ WriteTerm(n) /\ UNCHANGED lease
    <3>1. term' = term + 1 /\ grants' = grants \cup {<<term + 1, n>>}
      BY <2>4 DEF VersionMatches, WriteTerm
    <3>2. UNCHANGED <<base, seen, lease>>
      BY <1>2, <2>4 DEF ReplyLost
    <3> QED
      BY <2>1, <3>1, <3>2, LostTerms
  <2>5. CASE pc[n] = "publish" /\ WriteLease(n) /\ UNCHANGED <<term, grants>>
    <3>1. lease' = [leader |-> n, term |-> base[n] + 1, owner |-> lease.owner]
      BY <2>5, WrittenLease
    <3>2. lease'.term > 0 => <<lease'.term, lease'.leader>> \in grants
      BY <2>5, <3>1
    <3> QED
      BY <1>2, <2>1, <2>5, <3>2, QuietTerms DEF ReplyLost
  <2> QED
    BY <1>2, <2>2, <2>3, <2>4, <2>5 DEF ReplyLost
<1>3. CASE HandleDisconnected(n)
  BY <1>3 DEF HandleDisconnected
<1>4. CASE ExpireSession(n)
  BY <1>4 DEF ExpireSession, DropSession
<1>5. CASE Crash(n)
  BY <1>5 DEF Crash
<1>6. CASE Restart(n)
  BY <1>6 DEF Restart, NewSession
<1>7. CASE Reconnect(n)
  BY <1>7 DEF Reconnect, NewSession
<1>8. CASE HandleExpired(n)
  BY <1>8 DEF HandleExpired
<1> QED
  BY <1>1, <1>2, <1>3, <1>4, <1>5, <1>6, <1>7, <1>8 DEF Disturb

LEMMA ReconcileOwn ==
  ASSUME Types, LeaseIsOwn, NEW n \in Node, Reconcile(n)
  PROVE  LeaseIsOwn'
<1> USE CoordinationAssumption DEF Types, Lease, Session, LeaseIsOwn, Held, NoLease, session, Goto, Fail, process,
        zookeeper, At
<1>1. CASE EnsureMember(n)
  BY <1>1 DEF EnsureMember
<1>2. CASE CheckCandidate(n)
  BY <1>2 DEF CheckCandidate
<1>3. CASE CreateCandidate(n)
  BY <1>3 DEF CreateCandidate
<1>4. CASE DetermineEligible(n)
  BY <1>4 DEF DetermineEligible
<1>5. CASE ReadLease(n)
  BY <1>5 DEF ReadLease
<1>6. CASE CreateLease(n)
  BY <1>6 DEF CreateLease, PutLease
<1>7. CASE RereadLease(n)
  BY <1>7 DEF RereadLease
<1>8. CASE BumpGet(n)
  BY <1>8 DEF BumpGet
<1>9. CASE BumpSet(n)
  BY <1>9 DEF BumpSet, WriteTerm, VersionMatches
<1>10. CASE PublishTerm(n)
  <2>1. CASE WriteLease(n)
    BY <1>10, <2>1, WrittenLease DEF PublishTerm
  <2>2. CASE UNCHANGED lease
    BY <1>10, <2>2 DEF PublishTerm
  <2> QED
    BY <1>10, <2>1, <2>2 DEF PublishTerm
<1>11. CASE ReleaseLease(n)
  BY <1>11 DEF ReleaseLease
<1>12. CASE DeleteLease(n)
  BY <1>12 DEF DeleteLease
<1>13. CASE RefreshStatus(n)
  BY <1>13 DEF RefreshStatus
<1>14. CASE VerifyStatus(n)
  BY <1>14 DEF VerifyStatus, RoleOf, Held
<1> QED
  BY <1>1, <1>2, <1>3, <1>4, <1>5, <1>6, <1>7, <1>8, <1>9, <1>10, <1>11, <1>12, <1>13, <1>14 DEF Reconcile

LEMMA DisturbOwn ==
  ASSUME Types, LeaseIsOwn, NEW n \in Node, Disturb(n) \/ Reconnect(n) \/ HandleExpired(n)
  PROVE  LeaseIsOwn'
<1> USE CoordinationAssumption DEF Types, Lease, Session, LeaseIsOwn, Held, NoLease, session, Goto, Fail, process,
        zookeeper, At
<1>1. CASE CallFails(n)
  BY <1>1 DEF CallFails, AfterError, Mutating
<1>2. CASE ReplyLost(n)
  <2>1. \A m \in Node : pc'[m] = "verify" => pc[m] = "verify" /\ m # n
    <3> HIDE DEF Types, Fail
    <3> QED
      BY <1>2, AfterErrorStops DEF ReplyLost
  <2>2. CASE UNCHANGED lease
    BY <1>2, <2>1, <2>2 DEF ReplyLost
  <2>3. CASE PutLease(n)
    BY <1>2, <2>1, <2>3 DEF ReplyLost, PutLease
  <2>4. CASE WriteLease(n)
    BY <1>2, <2>1, <2>4, WrittenLease DEF ReplyLost
  <2> QED
    BY <1>2, <2>2, <2>3, <2>4 DEF ReplyLost
<1>3. CASE HandleDisconnected(n)
  BY <1>3 DEF HandleDisconnected
<1>4. CASE ExpireSession(n)
  BY <1>4 DEF ExpireSession, DropSession
<1>5. CASE Crash(n)
  BY <1>5 DEF Crash
<1>6. CASE Restart(n)
  BY <1>6 DEF Restart, NewSession
<1>7. CASE Reconnect(n)
  BY <1>7 DEF Reconnect, NewSession
<1>8. CASE HandleExpired(n)
  BY <1>8 DEF HandleExpired
<1> QED
  BY <1>1, <1>2, <1>3, <1>4, <1>5, <1>6, <1>7, <1>8 DEF Disturb

LEMMA IInvInit == Init => IInv
<1> SUFFICES ASSUME Init PROVE TermsAreGranted /\ LeaseIsOwn
  BY InitType DEF IInv
<1> QED
  BY CoordinationAssumption
     DEF Init, TermsAreGranted, LeaseIsOwn, Leads, NoLease, NoStatus

LEMMA IInvNext == IInv /\ [Next]_vars => IInv'
<1> SUFFICES ASSUME IInv, [Next]_vars
             PROVE  TermsAreGranted' /\ LeaseIsOwn'
  BY NextType DEF IInv
<1>1. CASE UNCHANGED vars
  BY <1>1 DEF IInv, TermsAreGranted, LeaseIsOwn, Leads, Held, session, vars,
              zookeeper, process
<1>2. ASSUME NEW s \in sessions, OldSessionExpires(s)
      PROVE  TermsAreGranted' /\ LeaseIsOwn'
  <2>1. lease' \in {lease, NoLease} /\ UNCHANGED <<term, grants, epoch, status, pc, seen, base>>
    BY <1>2 DEF OldSessionExpires, DropSession, process
  <2>2. ~ NoLease.term > 0 /\ NoLease.owner[1] \notin Node
    BY CoordinationAssumption DEF NoLease
  <2> QED
    BY <2>1, <2>2 DEF IInv, TermsAreGranted, LeaseIsOwn, Leads, Held, session
<1> QED
  BY <1>1, <1>2, ReconcileTerms, DisturbTerms, ReconcileOwn, DisturbOwn DEF Next, IInv

THEOREM CoordinationInvariant == Spec => []IInv
BY IInvInit, IInvNext, PTL DEF Spec

(***************************************************************************)
(* The manager implements Leadership.                                      *)
(***************************************************************************)

Believes == [n \in Node |-> IF Leads(n) THEN status[n].term ELSE 0]

\* A step that lets a node's status alone or resets it maps to a step down.
LEMMA Resets ==
  ASSUME NEW n \in Node, status' = [status EXCEPT ![n] = NoStatus] \/ status' = status,
         status \in [Node -> Status], UNCHANGED <<term, grants>>
  PROVE  L!StepDown(n) \/ UNCHANGED <<term, grants, Believes>>
<1>1. CASE status' = status
  BY <1>1 DEF Believes, Leads
<1>2. CASE status' = [status EXCEPT ![n] = NoStatus]
  <2>1. Believes' = [Believes EXCEPT ![n] = 0]
    BY <1>2 DEF Believes, Leads, NoStatus
  <2> QED
    BY <2>1 DEF L!StepDown, Believes
<1> QED
  BY <1>1, <1>2

LEMMA GrantIsGrant ==
  ASSUME IInv, NEW n \in Node, VersionMatches(n), WriteTerm(n), UNCHANGED status
  PROVE  L!Grant(n)
BY DEF VersionMatches, WriteTerm, L!Grant, Leads

\* The term a node claims when it finds itself on the lease was granted to it.
LEMMA VerifyIsClaim ==
  ASSUME IInv, NEW n \in Node, VerifyStatus(n)
  PROVE  L!StepDown(n) \/ \E t \in 1 .. term : L!Claim(n, t)
<1> DEFINE t == IF Held(n) THEN seen[n].term ELSE 0
<1>1. status \in [Node -> Status] /\ seen[n].term \in Nat
  BY DEF IInv, Types, Lease
<1>2. Believes' = [Believes EXCEPT ![n] = t]
  BY <1>1 DEF VerifyStatus, RoleOf, Believes, Leads
<1>3. UNCHANGED <<term, grants>>
  BY DEF VerifyStatus, RoleOf, zookeeper
<1>4. CASE t = 0
  BY <1>2, <1>3, <1>4 DEF L!StepDown, Believes
<1>5. CASE t # 0
  <2>1. Held(n) /\ t = seen[n].term /\ t > 0
    BY <1>1, <1>5
  <2>2. seen[n].leader = n
    BY <2>1 DEF IInv, LeaseIsOwn, VerifyStatus, RoleOf, At
  <2>3. <<t, n>> \in grants
    BY <2>1, <2>2 DEF IInv, TermsAreGranted
  <2>4. t \in 1 .. term
    BY <1>1, <2>1, <2>3 DEF IInv, TermsAreGranted, Types
  <2> HIDE DEF t
  <2> QED
    BY <1>2, <1>3, <2>3, <2>4 DEF L!Claim, Believes
<1> QED
  BY <1>4, <1>5

LEMMA ReconcileImplements ==
  ASSUME IInv, NEW n \in Node, Reconcile(n)
  PROVE  L!Next \/ UNCHANGED <<term, grants, Believes>>
<1>1. CASE VerifyStatus(n)
  BY <1>1, VerifyIsClaim DEF L!Next
<1>2. CASE BumpSet(n) /\ VersionMatches(n)
  BY <1>2, GrantIsGrant DEF BumpSet, L!Next
<1>3. ASSUME ~ VerifyStatus(n), ~ (BumpSet(n) /\ VersionMatches(n))
      PROVE  /\ status' = [status EXCEPT ![n] = NoStatus] \/ status' = status
             /\ UNCHANGED <<term, grants>>
  BY <1>3 DEF Reconcile, EnsureMember, CheckCandidate, CreateCandidate, DetermineEligible,
       ReadLease, CreateLease, RereadLease, BumpGet, BumpSet, PublishTerm, ReleaseLease,
       DeleteLease, RefreshStatus, Fail, zookeeper
<1> QED
  BY <1>1, <1>2, <1>3, Resets DEF L!Next, IInv, Types

LEMMA DisturbImplements ==
  ASSUME IInv, NEW n \in Node, Disturb(n) \/ Reconnect(n) \/ HandleExpired(n)
  PROVE  L!Next \/ UNCHANGED <<term, grants, Believes>>
<1>1. AfterError(n) => status' = [status EXCEPT ![n] = NoStatus] \/ status' = status
  BY DEF AfterError, Fail
<1>2. CASE ReplyLost(n) /\ pc[n] = "bumpSet"
  <2>1. UNCHANGED status
    BY <1>2 DEF ReplyLost, AfterError, Mutating
  <2> QED
    BY <1>2, <2>1, GrantIsGrant DEF ReplyLost, L!Next
<1>3. ASSUME ~ (ReplyLost(n) /\ pc[n] = "bumpSet")
      PROVE  /\ status' = [status EXCEPT ![n] = NoStatus] \/ status' = status
             /\ UNCHANGED <<term, grants>>
  BY <1>1, <1>3 DEF Disturb, CallFails, ReplyLost, HandleDisconnected, ExpireSession, Crash,
       Restart, Reconnect, HandleExpired, Fail, DropSession, NewSession, zookeeper
<1> QED
  BY <1>2, <1>3, Resets DEF L!Next, IInv, Types

\* Every term the manager hands out is a Grant, every status that says LEADER
\* under a term a Claim of a granted term, and all else is no step at all.
THEOREM CoordinationImplementsLeadership == Spec => ImplementsLeadership
<1>1. Init => L!Init
  BY DEF Init, L!Init, Leads, NoStatus
<1>2. IInv /\ [Next]_vars => [L!Next]_<<term, grants, Believes>>
  <2> SUFFICES ASSUME IInv, [Next]_vars
               PROVE  L!Next \/ UNCHANGED <<term, grants, Believes>>
    OBVIOUS
  <2>1. CASE UNCHANGED vars
    BY <2>1 DEF vars, zookeeper, Believes, Leads
  <2>2. ASSUME NEW s \in sessions, OldSessionExpires(s)
        PROVE  UNCHANGED <<term, grants, Believes>>
    BY <2>2 DEF OldSessionExpires, DropSession, Believes, Leads
  <2> QED
    BY <2>1, <2>2, ReconcileImplements, DisturbImplements DEF Next
<1> QED
  BY <1>1, <1>2, CoordinationInvariant, PTL DEF Spec, ImplementsLeadership, L!Spec, L!vars, Believes

\* No two nodes ever act as the leader of the same term.
THEOREM CoordinationOneLeaderPerTerm == Spec => []L!OneLeaderPerTerm
<1>1. IInv => L!OneLeaderPerTerm
  <2> SUFFICES ASSUME IInv, NEW m \in Node, NEW n \in Node,
                      Leads(m), Leads(n), status[m].term = status[n].term,
                      status[m].term # 0
               PROVE  m = n
    BY DEF L!OneLeaderPerTerm
  <2>1. status[m].term > 0 /\ status[n].term > 0
    <3>1. status[m] \in Status /\ status[n] \in Status
      BY DEF IInv, Types
    <3> QED
      BY <3>1 DEF Status
  <2>2. <<status[m].term, m>> \in grants /\ <<status[n].term, n>> \in grants
    BY <2>1 DEF IInv, TermsAreGranted
  <2> QED
    BY <2>2 DEF IInv, TermsAreGranted
<1> QED
  BY <1>1, CoordinationInvariant, PTL

(***************************************************************************)
(* Without an expired session.  The lease then only goes to a node that    *)
(* finds none, and only its owner writes or deletes it: the unconditional  *)
(* Set and Delete of the code do no harm.                                  *)
(***************************************************************************)
Steady ==
  /\ lease.owner[1] = lease.leader
  /\ \A n \in alive : session(n) \in sessions
  /\ \A n \in Node :
       Leads(n) \/ pc[n] \in Mutating \cup {"delete"} => n \in alive /\ Held(n)

\* A step after which nobody has become leader, or entered the part of the
\* round that writes the lease, and the lease is what it was.
LEMMA SteadyFrame ==
  ASSUME Steady, UNCHANGED <<lease, alive, epoch>>, sessions \subseteq sessions',
         \A m \in Node :
           Leads(m)' \/ pc'[m] \in Mutating \cup {"delete"} =>
             Leads(m) \/ pc[m] \in Mutating \cup {"delete"} \/ (m \in alive /\ Held(m))
  PROVE  Steady'
BY DEF Steady, Held, session

LEMMA ReconcileSteady ==
  ASSUME Types, Steady, NEW n \in Node, Reconcile(n)
  PROVE  Steady'
<1> DEFINE Acts(m) == Leads(m) \/ pc[m] \in Mutating \cup {"delete"}
<1> n \in alive
  BY DEF Reconcile, EnsureMember, CheckCandidate, CreateCandidate, DetermineEligible, ReadLease,
         CreateLease, RereadLease, BumpGet, BumpSet, PublishTerm, ReleaseLease, DeleteLease,
         RefreshStatus, VerifyStatus, At, Connected
<1> pc \in [Node -> Label] /\ status \in [Node -> Status]
  BY DEF Types
<1>1. CASE \/ EnsureMember(n) \/ CheckCandidate(n) \/ CreateCandidate(n) \/ DetermineEligible(n)
           \/ ReadLease(n) \/ RereadLease(n) \/ BumpGet(n) \/ RefreshStatus(n)
  <2>1. UNCHANGED <<lease, alive, epoch, sessions>>
    BY <1>1 DEF EnsureMember, CheckCandidate, CreateCandidate, DetermineEligible, ReadLease,
                RereadLease, BumpGet, RefreshStatus, zookeeper, process
  <2>2. \A m \in Node : Acts(m)' => Acts(m)
    BY <1>1 DEF EnsureMember, CheckCandidate, CreateCandidate, DetermineEligible, ReadLease,
                RereadLease, BumpGet, RefreshStatus, At, Goto, Fail, NoStatus, Leads, Mutating
  <2> QED
    BY <2>1, <2>2, SteadyFrame
<1>2. CASE CreateLease(n)
  <2>1. CASE lease # NoLease
    <3>1. UNCHANGED <<lease, alive, epoch, sessions>> /\ \A m \in Node : Acts(m)' => Acts(m)
      BY <1>2, <2>1 DEF CreateLease, process, At, Goto, Leads, Mutating
    <3> QED
      BY <3>1, SteadyFrame
  <2>2. CASE lease = NoLease
    <3>1. /\ lease' = [leader |-> n, term |-> 0, owner |-> session(n)]
          /\ pc' = [pc EXCEPT ![n] = "bumpGet"]
          /\ UNCHANGED <<alive, epoch, sessions, status>>
      BY <1>2, <2>2 DEF CreateLease, PutLease, Goto, process
    <3>2. \A m \in Node : ~ Held(m)
      BY <2>2, CoordinationAssumption DEF NoLease, Held
    <3>3. \A m \in Node : ~ Acts(m)
      BY <3>2 DEF Steady
    <3>4. \A m \in Node : Acts(m)' => m = n
      BY <3>1, <3>3 DEF Leads
    <3> QED
      BY <3>1, <3>4 DEF Steady, Held, session
  <2> QED
    BY <2>1, <2>2
<1>3. CASE BumpSet(n)
  <2>1. UNCHANGED <<lease, alive, epoch, sessions>> /\ \A m \in Node : Acts(m)' => Acts(m)
    BY <1>3 DEF BumpSet, process, At, Goto, Leads, Mutating
  <2> QED
    BY <2>1, SteadyFrame
<1>4. CASE PublishTerm(n)
  <2>1. Held(n) /\ lease # NoLease
    BY <1>4, CoordinationAssumption DEF PublishTerm, At, Steady, Mutating, Held, NoLease
  <2>2. lease' = [leader |-> n, term |-> base[n] + 1, owner |-> lease.owner]
    BY <1>4, <2>1, WrittenLease DEF PublishTerm
  <2>3. UNCHANGED <<alive, epoch, sessions>> /\ \A m \in Node : Acts(m)' => Acts(m)
    BY <1>4, <2>1 DEF PublishTerm, process, At, Goto, Leads, Mutating
  <2>4. lease'.owner = lease.owner /\ lease'.leader = lease.leader
    BY <2>1, <2>2 DEF Held
  <2> QED
    BY <2>3, <2>4 DEF Steady, Held, session
<1>5. CASE ReleaseLease(n)
  <2>1. UNCHANGED <<lease, alive, epoch, sessions>>
    BY <1>5 DEF ReleaseLease, zookeeper, process
  <2>2. \A m \in Node : Acts(m)' => Acts(m) \/ (m = n /\ Held(n))
    BY <1>5 DEF ReleaseLease, Goto, Fail, NoStatus, Leads, Mutating
  <2> QED
    BY <2>1, <2>2, SteadyFrame
<1>6. CASE DeleteLease(n)
  <2>1. /\ lease' = NoLease /\ pc[n] = "delete"
        /\ pc' = [pc EXCEPT ![n] = "member"] /\ status' = [status EXCEPT ![n] = NoStatus]
        /\ UNCHANGED <<alive, epoch, sessions>>
    BY <1>6 DEF DeleteLease, At, Fail, Goto, process
  <2>2. Held(n)
    BY <2>1 DEF Steady
  <2>3. \A m \in Node : Acts(m) => m = n
    BY <2>2 DEF Steady, Held, session
  <2>4. \A m \in Node : ~ Acts(m)'
    BY <2>1, <2>3 DEF Leads, NoStatus, Mutating
  <2> QED
    BY <2>1, <2>4 DEF Steady, NoLease, session
<1>7. CASE VerifyStatus(n)
  <2>1. UNCHANGED <<lease, alive, epoch, sessions>>
    BY <1>7 DEF VerifyStatus, zookeeper, process
  <2>2. \A m \in Node : Acts(m)' => Acts(m) \/ (m = n /\ Held(n))
    BY <1>7 DEF VerifyStatus, RoleOf, Goto, Leads, Mutating
  <2> QED
    BY <2>1, <2>2, SteadyFrame
<1> QED
  BY <1>1, <1>2, <1>3, <1>4, <1>5, <1>6, <1>7 DEF Reconcile

LEMMA AfterErrorSteady ==
  ASSUME Types, NEW n \in Node, AfterError(n)
  PROVE  \A m \in Node : Leads(m)' \/ pc'[m] \in Mutating \cup {"delete"}
                           => Leads(m) \/ pc[m] \in Mutating \cup {"delete"}
<1>1. CASE pc[n] = "candidate" \/ pc[n] \in Mutating
  BY <1>1 DEF Types, AfterError, Goto, Leads, Mutating
<1>2. CASE ~ (pc[n] = "candidate" \/ pc[n] \in Mutating)
  <2>1. Fail(n)
    BY <1>2 DEF AfterError
  <2> QED
    BY <2>1 DEF Types, Fail, Goto, Leads, Mutating, NoStatus
<1> QED
  BY <1>1, <1>2

LEMMA DisturbSteady ==
  ASSUME Types, LeaseIsOwn, Steady, "expiry" \notin FaultKind,
         NEW n \in Node, Disturb(n) \/ Reconnect(n) \/ HandleExpired(n)
  PROVE  Steady'
<1> pc \in [Node -> Label] /\ status \in [Node -> Status]
  BY DEF Types
<1>1. CASE CallFails(n)
  <2>1. UNCHANGED <<lease, alive, epoch, sessions>>
    BY <1>1 DEF CallFails, zookeeper, process
  <2> QED
    BY <1>1, <2>1, SteadyFrame, AfterErrorSteady DEF CallFails
<1>2. CASE ReplyLost(n)
  <2>1. UNCHANGED <<alive, epoch, sessions>> /\ AfterError(n)
    BY <1>2 DEF ReplyLost, process
  <2>2. CASE lease' = lease
    BY <2>1, <2>2, SteadyFrame, AfterErrorSteady
  <2>3. CASE lease = NoLease /\ PutLease(n)
    <3>1. \A m \in Node : ~ Held(m)
      BY <2>3, CoordinationAssumption DEF NoLease, Held
    <3>2. \A m \in Node : ~ (Leads(m) \/ pc[m] \in Mutating \cup {"delete"})'
      BY <2>1, <3>1, AfterErrorSteady DEF Steady
    <3> QED
      BY <2>1, <2>3, <3>2 DEF Steady, PutLease, session
  <2>4. CASE pc[n] = "publish" /\ WriteLease(n)
    <3>1. Held(n)
      BY <2>4 DEF Steady, Mutating
    <3>2. lease'.owner = lease.owner /\ lease'.leader = lease.leader
      BY <2>4, <3>1, WrittenLease DEF Held
    <3> QED
      BY <2>1, <3>2, AfterErrorSteady DEF Steady, Held, session
  <2> QED
    BY <1>2, <2>2, <2>3, <2>4 DEF ReplyLost
<1>3. CASE HandleDisconnected(n)
  BY <1>3, SteadyFrame DEF HandleDisconnected, zookeeper, process, Leads, NoStatus
<1>4. ~ ExpireSession(n)
  BY DEF ExpireSession, Fault
<1>5. CASE Crash(n)
  <2>1. /\ alive' = alive \ {n} /\ UNCHANGED <<lease, epoch, sessions>>
        /\ pc' = [pc EXCEPT ![n] = "member"] /\ status' = [status EXCEPT ![n] = NoStatus]
    BY <1>5 DEF Crash, Fail, Goto, zookeeper
  <2>2. ~ (Leads(n) \/ pc[n] \in Mutating \cup {"delete"})'
    BY <2>1 DEF Leads, NoStatus, Mutating
  <2>3. \A m \in Node \ {n} : pc'[m] = pc[m] /\ status'[m] = status[m]
    BY <2>1
  <2> QED
    BY <2>1, <2>2, <2>3 DEF Steady, Held, session, Leads
<1>6. CASE Restart(n)
  <2>1. /\ n \notin alive /\ alive' = alive \cup {n}
        /\ epoch' = [epoch EXCEPT ![n] = @ + 1]
        /\ sessions' = sessions \cup {<<n, epoch[n] + 1>>}
        /\ UNCHANGED <<lease, pc, status>>
    BY <1>6 DEF Restart, NewSession
  <2>2. epoch'[n] = epoch[n] + 1 /\ \A m \in Node \ {n} : epoch'[m] = epoch[m]
    BY <2>1 DEF Types
  <2>3. session(n)' = <<n, epoch[n] + 1>>
    BY <2>2 DEF session
  <2>4. \A m \in Node : m # n => session(m)' = session(m)
    BY <2>2 DEF session
  <2>5. \A m \in alive' : session(m)' \in sessions'
    BY <2>1, <2>3, <2>4 DEF Steady, Types
  <2> QED
    BY <2>1, <2>4, <2>5 DEF Steady, Held, Leads
<1>7. ~ Reconnect(n)
  BY DEF Reconnect, Connected, Steady
<1>8. CASE HandleExpired(n)
  BY <1>8, SteadyFrame DEF HandleExpired, zookeeper, Leads, NoStatus
<1> QED
  BY <1>1, <1>2, <1>3, <1>4, <1>5, <1>6, <1>7, <1>8 DEF Disturb

LEMMA OldSessionSteady ==
  ASSUME Types, Steady, NEW s \in sessions, OldSessionExpires(s)
  PROVE  Steady'
<1>1. /\ sessions' = sessions \ {s}
      /\ lease' = IF lease.owner = s THEN NoLease ELSE lease
      /\ UNCHANGED <<alive, epoch, pc, status>>
      /\ s[1] \notin alive \/ s # session(s[1])
  BY DEF OldSessionExpires, DropSession, process
<1>2. \A m \in alive : session(m) # s
  BY <1>1 DEF session
<1>3. \A m \in alive : session(m)' \in sessions'
  BY <1>1, <1>2 DEF Steady, session
<1>4. lease'.owner[1] = lease'.leader
  BY <1>1 DEF Steady, NoLease
<1>5. \A m \in alive : Held(m) => Held(m)'
  BY <1>1, <1>2 DEF Held, session
<1> QED
  BY <1>1, <1>3, <1>4, <1>5 DEF Steady, Leads

LEMMA SteadyStep ==
  ASSUME IInv, Steady, "expiry" \notin FaultKind, [Next]_vars
  PROVE  Steady'
<1>1. CASE UNCHANGED vars
  BY <1>1 DEF Steady, Held, Leads, session, vars, zookeeper, process
<1> QED
  BY <1>1, ReconcileSteady, DisturbSteady, OldSessionSteady DEF Next, IInv

\* Unless a live process loses its session, a node whose status says LEADER is
\* the one on the lease: no two nodes lead at the same time, and the lease never
\* names a node that does not own it (tryAcquireLeaderLease, refreshStatusFromLease).
THEOREM OneLeaderWithoutExpiry ==
  ASSUME "expiry" \notin FaultKind
  PROVE  Spec => [](~ Deposed /\ \A m, n \in Node : Leads(m) /\ Leads(n) => m = n)
<1>1. Init => Steady
  BY CoordinationAssumption
     DEF Init, Steady, NoLease, NoStatus, Leads, Mutating, session
<1>2. IInv /\ Steady /\ [Next]_vars => Steady'
  BY SteadyStep
<1>3. Steady => ~ Deposed /\ \A m, n \in Node : Leads(m) /\ Leads(n) => m = n
  BY DEF Steady, Deposed, Held, session
<1> QED
  BY <1>1, <1>2, <1>3, CoordinationInvariant, PTL DEF Spec

(***************************************************************************)
(* With crashes only.  A node creates a candidate when it has none in its  *)
(* session, and does not forget it while that session lasts.               *)
(***************************************************************************)
Remembered ==
  /\ \A n \in Node : expired[n] = 0
  /\ \A c \in candidates :
       LET n == c.owner[1]
       IN  /\ c.owner[2] <= epoch[n]
           /\ n \in alive /\ c.owner = session(n) =>
                candidatePath[n] = c.seq /\ pc[n] # "create"

LEMMA CandidateOwner ==
  ASSUME Types, NEW c \in candidates
  PROVE  c.owner[1] \in Node /\ c.owner[2] \in Nat
BY DEF Types, Session

LEMMA ReconcileRemembered ==
  ASSUME Types, Remembered, NEW n \in Node, Reconcile(n)
  PROVE  Remembered'
<1> pc \in [Node -> Label]
  BY DEF Types
<1>1. UNCHANGED <<alive, epoch, expired>>
  BY DEF Reconcile, EnsureMember, CheckCandidate, CreateCandidate, DetermineEligible, ReadLease,
         CreateLease, RereadLease, BumpGet, BumpSet, PublishTerm, ReleaseLease, DeleteLease,
         RefreshStatus, VerifyStatus, process
<1>2. CASE CreateCandidate(n)
  <2>1. /\ pc[n] = "create" /\ pc' = [pc EXCEPT ![n] = "elect"] /\ n \in alive
        /\ candidates' = candidates \cup {[owner |-> session(n), seq |-> nextSeq]}
        /\ candidatePath' = [candidatePath EXCEPT ![n] = nextSeq]
    BY <1>2 DEF CreateCandidate, PutCandidate, At, Connected, Goto
  <2>2. candidatePath'[n] = nextSeq /\ pc'[n] # "create"
    BY <2>1 DEF Types
  <2>3. \A m \in Node \ {n} : candidatePath'[m] = candidatePath[m] /\ pc'[m] = pc[m]
    BY <2>1 DEF Types
  <2>4. ASSUME NEW c \in candidates'
        PROVE  LET m == c.owner[1]
               IN  /\ c.owner[2] <= epoch[m]
                   /\ m \in alive /\ c.owner = session(m) =>
                        candidatePath'[m] = c.seq /\ pc'[m] # "create"
    <3>1. CASE c \in candidates
      <4>1. c.owner # session(n) /\ c.owner[1] \in Node
        BY <2>1, <3>1, CandidateOwner DEF Remembered, session
      <4>2. c.owner = session(c.owner[1]) => c.owner[1] # n
        BY <4>1
      <4> QED
        BY <2>3, <3>1, <4>1, <4>2 DEF Remembered
    <3>2. CASE c = [owner |-> session(n), seq |-> nextSeq]
      <4>1. c.owner[1] = n /\ c.owner[2] = epoch[n] /\ c.seq = nextSeq /\ epoch[n] \in Nat
        BY <3>2 DEF session, Types
      <4> QED
        BY <2>2, <4>1
    <3> QED
      BY <2>1, <3>1, <3>2
  <2> QED
    BY <1>1, <2>4 DEF Remembered, session
<1>3. CASE CheckCandidate(n)
  <2>1. /\ candidates' = candidates /\ candidatePath' = candidatePath
        /\ pc' = [pc EXCEPT ![n] = IF HasCandidate(n) THEN "elect" ELSE "create"]
    BY <1>3 DEF CheckCandidate, Goto, zookeeper, process
  <2>2. ASSUME NEW c \in candidates, c.owner[1] \in alive, c.owner = session(c.owner[1])
        PROVE  pc'[c.owner[1]] # "create"
    <3>1. CASE c.owner[1] = n
      <4>1. HasCandidate(n)
        BY <2>2, <3>1 DEF Remembered, HasCandidate
      <4> QED
        BY <2>1, <3>1, <4>1
    <3>2. CASE c.owner[1] # n
      BY <2>1, <2>2, <3>2, CandidateOwner DEF Remembered
    <3> QED
      BY <3>1, <3>2
  <2> QED
    BY <1>1, <2>1, <2>2 DEF Remembered, session
<1>4. CASE ~ CreateCandidate(n) /\ ~ CheckCandidate(n)
  <2>1. /\ candidates' = candidates /\ candidatePath' = candidatePath
        /\ \A m \in Node : pc'[m] = "create" => pc[m] = "create"
    BY <1>4 DEF Reconcile, EnsureMember, DetermineEligible, ReadLease, CreateLease, RereadLease,
           BumpGet, BumpSet, PublishTerm, ReleaseLease, DeleteLease, RefreshStatus, VerifyStatus,
           Goto, Fail, zookeeper, process
  <2> QED
    BY <1>1, <2>1, CandidateOwner DEF Remembered, session
<1> QED
  BY <1>2, <1>3, <1>4

LEMMA DisturbRemembered ==
  ASSUME Types, Steady, Remembered, FaultKind \subseteq {"crash"},
         NEW n \in Node, Disturb(n) \/ Reconnect(n) \/ HandleExpired(n)
  PROVE  Remembered'
<1> pc \in [Node -> Label] /\ alive \subseteq Node
  BY DEF Types
<1>1. CASE CallFails(n)
  BY <1>1 DEF CallFails, Fault, Connected, Steady
<1>2. ~ ReplyLost(n) /\ ~ HandleDisconnected(n) /\ ~ ExpireSession(n)
  BY DEF ReplyLost, HandleDisconnected, ExpireSession, Fault
<1>3. ~ Reconnect(n) /\ ~ HandleExpired(n)
  BY DEF Reconnect, HandleExpired, Connected, Steady, Remembered
<1>4. CASE Crash(n)
  <2>1. /\ alive' = alive \ {n} /\ UNCHANGED <<candidates, epoch>>
        /\ candidatePath' = [candidatePath EXCEPT ![n] = 0]
        /\ expired' = [expired EXCEPT ![n] = 0]
        /\ pc' = [pc EXCEPT ![n] = "member"]
    BY <1>4 DEF Crash, Fail, Goto, zookeeper
  <2>2. \A m \in Node : expired'[m] = 0
    BY <2>1 DEF Types, Remembered
  <2>3. \A m \in Node \ {n} : candidatePath'[m] = candidatePath[m] /\ pc'[m] = pc[m]
    BY <2>1 DEF Types
  <2> QED
    BY <2>1, <2>2, <2>3, CandidateOwner DEF Remembered, session
<1>5. CASE Restart(n)
  <2>1. /\ alive' = alive \cup {n} /\ epoch' = [epoch EXCEPT ![n] = @ + 1]
        /\ UNCHANGED <<candidates, candidatePath, expired, pc>>
    BY <1>5 DEF Restart, NewSession
  <2>2. /\ epoch[n] \in Nat /\ epoch'[n] = epoch[n] + 1
        /\ \A m \in Node \ {n} : epoch'[m] = epoch[m]
    BY <2>1 DEF Types
  <2>3. ASSUME NEW c \in candidates
        PROVE  LET m == c.owner[1]
               IN  /\ c.owner[2] <= epoch'[m]
                   /\ m \in alive' /\ c.owner = <<m, epoch'[m]>> =>
                        candidatePath[m] = c.seq /\ pc[m] # "create"
    <3>1. c.owner[1] \in Node /\ c.owner[2] \in Nat /\ c.owner[2] <= epoch[c.owner[1]]
      BY CandidateOwner DEF Remembered
    <3>2. CASE c.owner[1] = n
      <4>1. c.owner[2] <= epoch'[n] /\ c.owner[2] # epoch'[n]
        BY <2>2, <3>1, <3>2
      <4> QED
        BY <3>2, <4>1
    <3>3. CASE c.owner[1] # n
      BY <2>1, <2>2, <3>1, <3>3 DEF Remembered, session
    <3> QED
      BY <3>2, <3>3
  <2> QED
    BY <2>1, <2>3 DEF Remembered, session
<1> QED
  BY <1>1, <1>2, <1>3, <1>4, <1>5 DEF Disturb

LEMMA RememberedStep ==
  ASSUME IInv, Steady, Remembered, FaultKind \subseteq {"crash"}, [Next]_vars
  PROVE  Remembered'
<1>1. CASE UNCHANGED vars
  BY <1>1 DEF Remembered, session, vars, zookeeper, process
<1>2. ASSUME NEW s \in sessions, OldSessionExpires(s) PROVE Remembered'
  BY <1>2 DEF OldSessionExpires, DropSession, process, Remembered, session
<1> QED
  BY <1>1, <1>2, ReconcileRemembered, DisturbRemembered DEF Next, IInv

\* When processes crash and come back but no call fails and no live session
\* expires, neither exception of LeaderUnlessStuck arises: a running node never
\* blocks the election with a candidate znode it forgot (ensureCandidateNode).
THEOREM NeverStuckByCrashes ==
  ASSUME FaultKind \subseteq {"crash"}
  PROVE  Spec => [](~ Deposed /\ \A c \in candidates : ~ Abandoned(c))
<1>1. Init => Steady /\ Remembered
  BY CoordinationAssumption
     DEF Init, Steady, Remembered, NoLease, NoStatus, Leads, Mutating, session
<1>2. IInv /\ Steady /\ Remembered /\ [Next]_vars => Steady' /\ Remembered'
  BY SteadyStep, RememberedStep
<1>3. Types /\ Steady /\ Remembered => ~ Deposed /\ \A c \in candidates : ~ Abandoned(c)
  BY DEF Steady, Remembered, Deposed, Abandoned, Connected
<1>4. IInv => Types
  BY DEF IInv
<1> QED
  BY <1>1, <1>2, <1>3, <1>4, CoordinationInvariant, PTL DEF Spec
=============================================================================
