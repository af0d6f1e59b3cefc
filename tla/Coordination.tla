---------------------------- MODULE Coordination ----------------------------
(***************************************************************************)
(* The coordination manager of every node and the ZooKeeper it talks to    *)
(* (internal/coordination).  A node runs reconcile in a loop: register its *)
(* member and candidate znodes, see whether its candidate is the lowest,   *)
(* if so take the leader lease and a new term, and copy the lease into the *)
(* status the handlers read.  Every step of pc is one ZooKeeper call, so   *)
(* the calls of the nodes interleave; a call may fail, or be applied and   *)
(* lose its reply; sessions expire; nodes crash and come back with a new   *)
(* session while the znodes of the old one are still there.                *)
(*                                                                         *)
(* The persistent znodes (ensureRegistered creates them idempotently)      *)
(* exist from the start.  The log head counter is in Replication.          *)
(***************************************************************************)
EXTENDS Naturals, FiniteSets

CONSTANTS
  Node,
  None,        \* stands for the empty LeaderID
  FaultKind,   \* the faults that may happen, a subset of Faults
  MaxFaults    \* how many of them; bounds the state space

Faults == {"crash", "expiry", "zookeeper"}

ASSUME CoordinationAssumption ==
  /\ None \notin Node
  /\ FaultKind \subseteq Faults
  /\ MaxFaults \in Nat

VARIABLES
  sessions,      \* the sessions ZooKeeper holds open
  members,       \* the member znodes, as pairs <<node, owning session>>
  candidates,    \* the candidate znodes: owning session and sequence number
  nextSeq,       \* the sequence number of the next candidate znode
  lease,         \* the leader znode, NoLease when there is none
  term,          \* the term counter znode
  grants,        \* history: the pairs <<term, node>> written to the counter
  alive,         \* the nodes whose process runs
  epoch,         \* the session of a node is <<node, epoch>>
  candidatePath, \* Manager.candidatePath by its sequence number, 0: empty
  expired,       \* Expired events consumeSessionEvents has yet to handle
  status,        \* role, leader and term of Manager.status
  pc,            \* the ZooKeeper call that is next in reconcile
  seen,          \* the lease refreshStatusFromLease read
  base,          \* the term bumpTermWithCAS read
  faults         \* how many faults there were

zookeeper == <<sessions, members, candidates, nextSeq, lease, term, grants>>
process == <<alive, epoch, candidatePath, expired>>
vars == <<zookeeper, process, status, pc, seen, base, faults>>

Session == Node \X (Nat \ {0})
NoLease == [leader |-> None, term |-> 0, owner |-> <<None, 0>>]
NoStatus == [role |-> "UNKNOWN", leader |-> None, term |-> 0]

session(n) == <<n, epoch[n]>>
Connected(n) == n \in alive /\ session(n) \in sessions
At(n, label) == pc[n] = label /\ Connected(n)
Goto(n, label) == pc' = [pc EXCEPT ![n] = label]

Init ==
  /\ sessions = {<<n, 1>> : n \in Node}
  /\ members = {}
  /\ candidates = {}
  /\ nextSeq = 1
  /\ lease = NoLease
  /\ term = 0
  /\ grants = {}
  /\ alive = Node
  /\ epoch = [n \in Node |-> 1]
  /\ candidatePath = [n \in Node |-> 0]
  /\ expired = [n \in Node |-> 0]
  /\ status = [n \in Node |-> NoStatus]
  /\ pc = [n \in Node |-> "member"]
  /\ seen = [n \in Node |-> NoLease]
  /\ base = [n \in Node |-> 0]
  /\ faults = 0

(***************************************************************************)
(* watchCoordination: an error of reconcile resets the status, and after a *)
(* pause reconcile starts over.  The watches and timers of                 *)
(* waitForCoordinationChange only say when the next round starts.          *)
(***************************************************************************)
Fail(n) ==
  /\ Goto(n, "member")
  /\ status' = [status EXCEPT ![n] = NoStatus]

-----------------------------------------------------------------------------
(* Register: ensureMemberNode, ensureCandidateNode.                        *)

\* [mutant of PutMember] registered once, with the candidate.
PutMemberOnce(n) ==
  members' = IF candidatePath[n] # 0 THEN members ELSE members \cup {<<n, session(n)>>}

PutMember(n) ==
  members' = IF \E e \in members : e[1] = n THEN members
             ELSE members \cup {<<n, session(n)>>}

\* An existing member znode is kept, even one of an earlier session.
EnsureMember(n) ==
  /\ At(n, "member")
  /\ PutMember(n)
  /\ Goto(n, "candidate")
  /\ UNCHANGED <<sessions, candidates, nextSeq, lease, term, grants, process,
                 status, seen, base, faults>>

HasCandidate(n) == \E c \in candidates : c.seq = candidatePath[n]

CheckCandidate(n) ==
  /\ At(n, "candidate")
  /\ Goto(n, IF HasCandidate(n) THEN "elect" ELSE "create")
  /\ UNCHANGED <<zookeeper, process, status, seen, base, faults>>

PutCandidate(n) ==
  /\ candidates' = candidates \cup {[owner |-> session(n), seq |-> nextSeq]}
  /\ nextSeq' = nextSeq + 1

CreateCandidate(n) ==
  /\ At(n, "create")
  /\ PutCandidate(n)
  /\ candidatePath' = [candidatePath EXCEPT ![n] = nextSeq]
  /\ Goto(n, "elect")
  /\ UNCHANGED <<sessions, members, lease, term, grants, alive, epoch, expired,
                 status, seen, base, faults>>

-----------------------------------------------------------------------------
(* Elect and acquire: determineLeaderEligible, tryAcquireLeaderLease.      *)

Lowest(c) == \A d \in candidates : c.seq <= d.seq

Eligible(n) == \E c \in candidates : c.seq = candidatePath[n] /\ Lowest(c)

DetermineEligible(n) ==
  /\ At(n, "elect")
  /\ Goto(n, IF Eligible(n) THEN "lease" ELSE "refresh")
  /\ UNCHANGED <<zookeeper, process, status, seen, base, faults>>

\* Any lease that exists is kept, the node's own one of an earlier round too.
ReadLease(n) ==
  /\ At(n, "lease")
  /\ Goto(n, IF lease = NoLease THEN "acquire" ELSE "refresh")
  /\ UNCHANGED <<zookeeper, process, status, seen, base, faults>>

PutLease(n) == lease' = [leader |-> n, term |-> 0, owner |-> session(n)]

CreateLease(n) ==
  /\ At(n, "acquire")
  /\ IF lease = NoLease
     THEN PutLease(n) /\ Goto(n, "bumpGet")
     ELSE UNCHANGED lease /\ Goto(n, "reread")
  /\ UNCHANGED <<sessions, members, candidates, nextSeq, term, grants, process,
                 status, seen, base, faults>>

RereadLease(n) ==
  /\ At(n, "reread")
  /\ IF lease = NoLease THEN Fail(n)
                        ELSE Goto(n, "refresh") /\ UNCHANGED status
  /\ UNCHANGED <<zookeeper, process, seen, base, faults>>

-----------------------------------------------------------------------------
(* A new term: bumpTermWithCAS and the write of the term into the lease.   *)

BumpGet(n) ==
  /\ At(n, "bumpGet")
  /\ base' = [base EXCEPT ![n] = term]
  /\ Goto(n, "bumpSet")
  /\ UNCHANGED <<zookeeper, process, status, seen, faults>>

\* The counter grows with every write, so its value stands for its version.
VersionMatches(n) == term = base[n]

WriteTerm(n) ==
  /\ term' = base[n] + 1
  /\ grants' = grants \cup {<<base[n] + 1, n>>}

BumpSet(n) ==
  /\ At(n, "bumpSet")
  /\ IF VersionMatches(n)
     THEN WriteTerm(n) /\ Goto(n, "publish")
     ELSE UNCHANGED <<term, grants>> /\ Goto(n, "bumpGet")
  /\ UNCHANGED <<sessions, members, candidates, nextSeq, lease, process,
                 status, seen, base, faults>>

\* Set with version -1 overwrites the lease whoever owns it by now.
WriteLease(n) ==
  /\ lease # NoLease
  /\ lease' = [lease EXCEPT !.leader = n, !.term = base[n] + 1]

PublishTerm(n) ==
  /\ At(n, "publish")
  /\ \/ WriteLease(n) /\ Goto(n, "refresh")
     \/ lease = NoLease /\ UNCHANGED lease /\ Goto(n, "release")
  /\ UNCHANGED <<sessions, members, candidates, nextSeq, term, grants, process,
                 status, seen, base, faults>>

\* [mutant of Held] the leader id in the lease is not compared.
HeldBySession(n) == lease.owner = session(n)

\* verifyLeadershipStillHeld
Held(n) == lease.owner = session(n) /\ lease.leader = n

\* releaseLeaderLeaseIfOwned: a read, and an unconditional delete later.
ReleaseLease(n) ==
  /\ At(n, "release")
  /\ IF Held(n) THEN Goto(n, "delete") /\ UNCHANGED status ELSE Fail(n)
  /\ UNCHANGED <<zookeeper, process, seen, base, faults>>

DeleteLease(n) ==
  /\ At(n, "delete")
  /\ lease' = NoLease
  /\ Fail(n)
  /\ UNCHANGED <<sessions, members, candidates, nextSeq, term, grants, process,
                 seen, base, faults>>

-----------------------------------------------------------------------------
(* The status: refreshStatusFromLease, setNoLeaderStatus.                  *)

\* [mutant of RefreshStatus] a missing lease counts as one that was read.
RefreshWithoutLease(n) ==
  /\ At(n, "refresh")
  /\ seen' = [seen EXCEPT ![n] = lease]
  /\ Goto(n, "verify")
  /\ UNCHANGED <<zookeeper, process, status, base, faults>>

RefreshStatus(n) ==
  /\ At(n, "refresh")
  /\ seen' = [seen EXCEPT ![n] = lease]
  /\ IF lease = NoLease THEN Fail(n)
                        ELSE Goto(n, "verify") /\ UNCHANGED status
  /\ UNCHANGED <<zookeeper, process, base, faults>>

\* [mutant of RoleOf] the role is not taken back.
RoleKept(n) == IF Held(n) \/ status[n].role = "LEADER" THEN "LEADER" ELSE "FOLLOWER"

RoleOf(n) == IF Held(n) THEN "LEADER" ELSE "FOLLOWER"

VerifyStatus(n) ==
  /\ At(n, "verify")
  /\ status' = [status EXCEPT ![n] =
                  [role |-> RoleOf(n), leader |-> seen[n].leader, term |-> seen[n].term]]
  /\ seen' = [seen EXCEPT ![n] = NoLease]
  /\ base' = [base EXCEPT ![n] = 0]
  /\ Goto(n, "member")
  /\ UNCHANGED <<zookeeper, process, faults>>

-----------------------------------------------------------------------------
(* Faults.                                                                 *)

Fault(kind) ==
  /\ kind \in FaultKind
  /\ faults < MaxFaults
  /\ faults' = faults + 1

Mutating == {"bumpGet", "bumpSet", "publish"}   \* of a lease just created

\* After an error the node goes on: to create a candidate when Exists failed,
\* to release the lease when it was being set up, else out of reconcile.
AfterError(n) ==
  CASE pc[n] = "candidate" -> Goto(n, "create") /\ UNCHANGED status
    [] pc[n] \in Mutating -> Goto(n, "release") /\ UNCHANGED status
    [] OTHER -> Fail(n)

\* A call fails and nothing was done.  Without a session no call succeeds.
CallFails(n) ==
  /\ n \in alive
  /\ IF Connected(n) THEN Fault("zookeeper") ELSE UNCHANGED faults
  /\ AfterError(n)
  /\ UNCHANGED <<zookeeper, process, seen, base>>

\* A write is applied and its reply is lost: the node treats it as failed.
ReplyLost(n) ==
  /\ Connected(n)
  /\ Fault("zookeeper")
  /\ \/ /\ pc[n] = "member" /\ PutMember(n)
        /\ UNCHANGED <<candidates, nextSeq, lease, term, grants>>
     \/ /\ pc[n] = "create" /\ PutCandidate(n)
        /\ UNCHANGED <<members, lease, term, grants>>
     \/ /\ pc[n] = "acquire" /\ lease = NoLease /\ PutLease(n)
        /\ UNCHANGED <<members, candidates, nextSeq, term, grants>>
     \/ /\ pc[n] = "bumpSet" /\ VersionMatches(n) /\ WriteTerm(n)
        /\ UNCHANGED <<members, candidates, nextSeq, lease>>
     \/ /\ pc[n] = "publish" /\ WriteLease(n)
        /\ UNCHANGED <<members, candidates, nextSeq, term, grants>>
  /\ AfterError(n)
  /\ UNCHANGED <<sessions, process, seen, base>>

\* A Disconnected event: the session survives, the status is reset.
HandleDisconnected(n) ==
  /\ Connected(n)
  /\ status[n] # NoStatus
  /\ Fault("zookeeper")
  /\ status' = [status EXCEPT ![n] = NoStatus]
  /\ UNCHANGED <<zookeeper, process, pc, seen, base>>

\* [mutant of DropSession] the lease znode is not ephemeral.
DropSessionKeepLease(s) ==
  /\ sessions' = sessions \ {s}
  /\ members' = {e \in members : e[2] # s}
  /\ candidates' = {c \in candidates : c.owner # s}
  /\ UNCHANGED <<lease, nextSeq, term, grants>>

DropSession(s) ==
  /\ sessions' = sessions \ {s}
  /\ members' = {e \in members : e[2] # s}
  /\ candidates' = {c \in candidates : c.owner # s}
  /\ lease' = IF lease.owner = s THEN NoLease ELSE lease
  /\ UNCHANGED <<nextSeq, term, grants>>

\* ZooKeeper drops the session of a running node, which learns of it later.
ExpireSession(n) ==
  /\ Connected(n)
  /\ Fault("expiry")
  /\ DropSession(session(n))
  /\ UNCHANGED <<process, status, pc, seen, base>>

\* The session of a process that is gone, or that was replaced.
OldSessionExpires(s) ==
  /\ s \in sessions
  /\ s[1] \notin alive \/ s # session(s[1])
  /\ DropSession(s)
  /\ UNCHANGED <<process, status, pc, seen, base, faults>>

NewSession(n) ==
  /\ epoch' = [epoch EXCEPT ![n] = @ + 1]
  /\ sessions' = sessions \cup {<<n, epoch[n] + 1>>}
  /\ UNCHANGED <<members, candidates, nextSeq, lease, term, grants>>

\* The client opens a new session by itself; reconcile goes on where it was.
Reconnect(n) ==
  /\ n \in alive /\ ~Connected(n)
  /\ NewSession(n)
  /\ expired' = [expired EXCEPT ![n] = @ + 1]
  /\ UNCHANGED <<alive, candidatePath, status, pc, seen, base, faults>>

\* consumeSessionEvents, a goroutine of its own: reconcile may be far ahead.
HandleExpired(n) ==
  /\ n \in alive
  /\ expired[n] > 0
  /\ expired' = [expired EXCEPT ![n] = @ - 1]
  /\ candidatePath' = [candidatePath EXCEPT ![n] = 0]
  /\ status' = [status EXCEPT ![n] = NoStatus]
  /\ UNCHANGED <<zookeeper, alive, epoch, pc, seen, base, faults>>

Crash(n) ==
  /\ n \in alive
  /\ Fault("crash")
  /\ alive' = alive \ {n}
  /\ candidatePath' = [candidatePath EXCEPT ![n] = 0]
  /\ expired' = [expired EXCEPT ![n] = 0]
  /\ seen' = [seen EXCEPT ![n] = NoLease]
  /\ base' = [base EXCEPT ![n] = 0]
  /\ Fail(n)
  /\ UNCHANGED <<zookeeper, epoch>>

Restart(n) ==
  /\ n \in Node \ alive
  /\ alive' = alive \cup {n}
  /\ NewSession(n)
  /\ UNCHANGED <<candidatePath, expired, status, pc, seen, base, faults>>

-----------------------------------------------------------------------------

Reconcile(n) ==
  \/ EnsureMember(n) \/ CheckCandidate(n) \/ CreateCandidate(n)
  \/ DetermineEligible(n) \/ ReadLease(n) \/ CreateLease(n) \/ RereadLease(n)
  \/ BumpGet(n) \/ BumpSet(n) \/ PublishTerm(n) \/ ReleaseLease(n)
  \/ DeleteLease(n) \/ RefreshStatus(n) \/ VerifyStatus(n)

Disturb(n) ==
  \/ CallFails(n) \/ ReplyLost(n) \/ HandleDisconnected(n)
  \/ ExpireSession(n) \/ Crash(n) \/ Restart(n)

Next ==
  \/ \E n \in Node : \/ Reconcile(n) \/ Disturb(n)
                     \/ Reconnect(n) \/ HandleExpired(n)
  \/ \E s \in sessions : OldSessionExpires(s)

Spec == Init /\ [][Next]_vars

(***************************************************************************)
(* The reconcile loop and the event loop of a running node never stop, the *)
(* client library keeps reconnecting and ZooKeeper times out sessions      *)
(* nobody uses.  Nothing restarts a crashed node.                          *)
(***************************************************************************)
Fairness ==
  /\ \A n \in Node : /\ WF_vars(Reconcile(n))
                     /\ WF_vars(Reconnect(n))
                     /\ WF_vars(HandleExpired(n))
  /\ WF_vars(\E s \in sessions : OldSessionExpires(s))

FairSpec == Spec /\ Fairness

-----------------------------------------------------------------------------
(* Properties.                                                             *)

Lease == [leader : Node \cup {None}, term : Nat, owner : Session \cup {<<None, 0>>}]

Status == [role : {"UNKNOWN", "FOLLOWER", "LEADER"},
           leader : Node \cup {None}, term : Nat]

Label == {"member", "candidate", "create", "elect", "lease", "acquire", "reread",
          "bumpGet", "bumpSet", "publish", "release", "delete", "refresh", "verify"}

\* The types of the variables.
Types ==
  /\ sessions \subseteq Session
  /\ members \subseteq Node \X Session
  /\ candidates \subseteq [owner : Session, seq : Nat \ {0}]
  /\ nextSeq \in Nat \ {0}
  /\ lease \in Lease
  /\ term \in Nat
  /\ grants \subseteq (Nat \ {0}) \X Node
  /\ alive \subseteq Node
  /\ epoch \in [Node -> Nat \ {0}]
  /\ candidatePath \in [Node -> Nat]
  /\ expired \in [Node -> Nat]
  /\ status \in [Node -> Status]
  /\ pc \in [Node -> Label]
  /\ seen \in [Node -> Lease]
  /\ base \in [Node -> Nat]
  /\ faults \in Nat

\* What a node has read as a lease, or made its status of, names a node.
LeadersNamed ==
  /\ lease = NoLease \/ lease.leader \in Node
  /\ \A n \in Node : pc[n] = "verify" => seen[n].leader \in Node
  /\ \A n \in Node : status[n].role # "UNKNOWN" => status[n].leader \in Node

\* Type invariant of the manager's fields and the znodes it uses.  A status with a
\* role names a leader, which was read from a lease that existed
\* (refreshStatusFromLease).
TypeOK == Types /\ LeadersNamed

Leads(n) == status[n].role = "LEADER"

(***************************************************************************)
(* The manager implements Leadership: in whatever order the calls of the   *)
(* nodes interleave and fail, the counter hands out every term once, and a *)
(* node whose status says LEADER under a term bumped the counter to it     *)
(* (or leads under term 0, which is no term: see README, findings).        *)
(***************************************************************************)
L == INSTANCE Leadership WITH
       granted <- grants,
       believes <- [n \in Node |-> IF Leads(n) THEN status[n].term ELSE 0]

ImplementsLeadership == L!Spec

(***************************************************************************)
(* A node that is not on the lease does not stay LEADER: reconcile, or the *)
(* event of its lost session, takes the role away, unless the node gets    *)
(* the lease again.                                                        *)
(***************************************************************************)
StaleLeaderStepsDown ==
  \A n \in Node : Leads(n) /\ ~Held(n) ~> ~Leads(n) \/ Held(n)

(***************************************************************************)
(* A running node is listed as a member, so that the leader replicates to  *)
(* it: also after a quick restart, when ensureMemberNode finds the znode   *)
(* of the earlier session, which vanishes later.                           *)
(***************************************************************************)
Listed(n) == \E e \in members : e[1] = n

MemberReturns == \A n \in Node : []<>(Listed(n) \/ n \notin alive)

\* The lowest candidate is held by a live session whose node forgot it.
Abandoned(c) ==
  /\ Lowest(c)
  /\ Connected(c.owner[1]) /\ session(c.owner[1]) = c.owner
  /\ candidatePath[c.owner[1]] # c.seq

Deposed == lease # NoLease /\ lease.owner[1] # lease.leader

SomeoneLeads == \E n \in Node : Leads(n) /\ Held(n)

(***************************************************************************)
(* A cluster with a running node gets a leader again after every fault,    *)
(* with two exceptions that the code can run into and never leaves: the    *)
(* lowest candidate znode belongs to a node that forgot it, or the lease   *)
(* names a node that does not own it.                                      *)
(***************************************************************************)
LeaderUnlessStuck ==
  \/ []<>SomeoneLeads
  \/ <>[](\E c \in candidates : Abandoned(c))
  \/ <>[]Deposed
  \/ <>[](alive = {})

(***************************************************************************)
(* What IMPLEMENTATION_PLAN.md:76 promises ("Leader failure triggers       *)
(* automatic failover and service recovery"): when the process that owns   *)
(* the lease is gone, a running node leads eventually.                     *)
(***************************************************************************)
LeaderFailover ==
  lease.term > 0 /\ lease.owner[1] \notin alive
    ~> SomeoneLeads \/ alive = {}
=============================================================================
