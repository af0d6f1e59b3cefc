---------------------------- MODULE Replication ----------------------------
(***************************************************************************)
(* Payment processing and quorum replication: the /pay and                 *)
(* /stripe/cancel-checkout-session handlers of the node that believes it   *)
(* is the leader (internal/api/http.go), the append, commit and cancel     *)
(* handlers of its followers (internal/api/handlers.go), the replication   *)
(* service between them (internal/replication/service.go) and the          *)
(* catch-up loop of every node (cmd/quorapay-node/main.go).                *)
(*                                                                         *)
(* A request is a handler goroutine with a program counter; every store,   *)
(* ZooKeeper or HTTP call it makes is a step, so that handlers, follower   *)
(* handlers, catch-up loops, elections and crashes interleave between      *)
(* them.  The leader lease is the one of internal/coordination at the      *)
(* granularity a request sees: the role a node remembers, the lease it     *)
(* checks before it advances the log head, and the log head.               *)
(***************************************************************************)
EXTENDS LedgerStore, FiniteSets

CONSTANTS
  Node,
  Request,      \* the requests that reach a node
  Job,          \* what request r asks: [op, payment_id]
  None,         \* no node
  Electable,    \* the nodes that may become leader
  Polling,      \* the nodes whose catch-up loop gets to tick
  FaultKind,    \* the faults that may happen, a subset of Faults
  MaxFaults     \* how many may happen

Op     == {"pay", "cancel"}
Faults == {"crash", "expiry", "acquire", "zookeeper", "timeout", "hangup", "poll"}

ASSUME ReplicationAssumption ==
  /\ Job \in [Request -> [op : Op, payment_id : PaymentID]]
  /\ Electable \subseteq Node
  /\ Polling \subseteq Node
  /\ FaultKind \subseteq Faults
  /\ None \notin Node
  /\ MaxFaults \in Nat

VARIABLES
  ledger,       \* ledger[n]: the payments table of n (survives a crash)
  logHead,      \* ZooKeeper: /log_head
  term,         \* ZooKeeper: /term
  lease,        \* ZooKeeper: /leader; live = it belongs to the current session
  members,      \* ZooKeeper: the nodes under /members
  status,       \* status[n]: what CurrentStatus() of n returns
  alive,        \* the nodes whose process runs
  pc,           \* pc[r]: where the handler of r stands
  home,         \* home[r]: the node that runs the handler of r
  reqTerm,      \* reqTerm[r]: the term its log entry carries
  nextIndex,    \* nextIndex[r]: log head read + 1
  idx,          \* idx[r]: the log index of its entry, 0 before it has one
  fol,          \* fol[r]: the followers it replicates to
  waiting,      \* waiting[r]: followers whose call is still to end
  acks,         \* acks[r]: followers whose append succeeded
  resp,         \* resp[r]: the answer of the handler
  gone,         \* requests whose context is cancelled (client hung up)
  appendNet,    \* <<r, f>>: the append of r is on its way to f
  decideNet,    \* <<r, f>>: the commit or cancel of r is on its way to f
  cuPc,         \* cuPc[n]: where the catch-up loop of n stands
  cuSrc,        \* cuSrc[n]: the node it asks
  cuFrom,       \* cuFrom[n]: the from_log_index it asks for
  cuEntries,    \* cuEntries[n]: the entries it still has to apply
  faults        \* the faults so far

zkVars   == <<logHead, term, lease, members>>
nodeVars == <<status, alive>>
reqVars  == <<pc, home, reqTerm, nextIndex, idx, fol, waiting, acks, resp>>
netVars  == <<appendNet, decideNet>>
cuVars   == <<cuPc, cuSrc, cuFrom, cuEntries>>
vars     == <<ledger, zkVars, nodeVars, reqVars, gone, netVars, cuVars, faults>>

Role     == {"LEADER", "FOLLOWER", "UNKNOWN"}
NoStatus == [role |-> "UNKNOWN", leader |-> None, term |-> 0]
NoLease  == [holder |-> None, term |-> 0, live |-> FALSE]
Response == {"NONE", "OK", "CONFLICT", "ERROR", "UNAVAILABLE"}

\* Between lockPaymentID and its deferred unlock.
Holding == {"check", "head", "verify", "advance", "members", "replicate",
            "append", "notify"}
PC      == {"idle", "done", "lost"} \cup Holding

Init ==
  /\ ledger = [n \in Node |-> EmptyTable]
  /\ logHead = 0
  /\ term = 0
  /\ lease = NoLease
  /\ members = {}
  /\ status = [n \in Node |-> NoStatus]
  /\ alive = Node
  /\ pc = [r \in Request |-> "idle"]
  /\ home = [r \in Request |-> None]
  /\ reqTerm = [r \in Request |-> 0]
  /\ nextIndex = [r \in Request |-> 0]
  /\ idx = [r \in Request |-> 0]
  /\ fol = [r \in Request |-> {}]
  /\ waiting = [r \in Request |-> {}]
  /\ acks = [r \in Request |-> {}]
  /\ resp = [r \in Request |-> "NONE"]
  /\ gone = {}
  /\ appendNet = {}
  /\ decideNet = {}
  /\ cuPc = [n \in Node |-> "idle"]
  /\ cuSrc = [n \in Node |-> None]
  /\ cuFrom = [n \in Node |-> 0]
  /\ cuEntries = [n \in Node |-> {}]
  /\ faults = 0

op(r)   == Job[r].op
pid(r)  == Job[r].payment_id
row(r)  == ledger[home[r]][pid(r)]     \* its payment in the table of its node

\* What a successful handler makes of the payment.
Outcome(o) == IF o = "pay" THEN "COMMITTED" ELSE "CANCELED"

Fault(k) == k \in FaultKind /\ faults < MaxFaults /\ faults' = faults + 1

Goto(r, l)    == pc' = [pc EXCEPT ![r] = l]
Answer(r, a)  == Goto(r, "done") /\ resp' = [resp EXCEPT ![r] = a]
Forget(r)     == /\ fol' = [fol EXCEPT ![r] = {}]
                 /\ waiting' = [waiting EXCEPT ![r] = {}]
                 /\ acks' = [acks EXCEPT ![r] = {}]
SetTable(n, t) == ledger' = [ledger EXCEPT ![n] = t]

(***************************************************************************)
(* The handler of a request.                                               *)
(***************************************************************************)

\* [mutant of LockFree] no mutex.
NoLock(r, n) == TRUE

\* A payment waits for the mutex of its payment_id; a cancellation takes none.
LockFree(r, n) ==
  op(r) = "pay" =>
    \A q \in Request :
      ~ (op(q) = "pay" /\ pid(q) = pid(r) /\ home[q] = n /\ pc[q] \in Holding)

\* The mutex is taken, then the role is read, once.  A node that is not leader
\* hands the request on or refuses it; at the leader it is a request like any.
Receive(r, n) ==
  /\ pc[r] = "idle"
  /\ n \in alive
  /\ LockFree(r, n)
  /\ status[n].role = "LEADER"
  /\ Goto(r, "check")
  /\ home' = [home EXCEPT ![r] = n]
  /\ reqTerm' = [reqTerm EXCEPT ![r] = status[n].term]
  /\ UNCHANGED <<ledger, zkVars, nodeVars, nextIndex, idx, fol, waiting, acks,
                 resp, gone, netVars, cuVars, faults>>

\* The statuses at which the handler stops with a conflict.
Refused(o) == IF o = "pay" THEN {"PENDING", "FAILED"} ELSE {"COMMITTED", "FAILED"}

CheckLedger(r) ==
  /\ pc[r] = "check"
  /\ \/ r \in gone /\ Answer(r, "ERROR")
     \/ r \notin gone /\ row(r).status = Outcome(op(r)) /\ Answer(r, "OK")
     \/ r \notin gone /\ row(r).status \in Refused(op(r)) /\ Answer(r, "CONFLICT")
     \/ /\ r \notin gone
        /\ row(r).status \notin Refused(op(r)) \cup {Outcome(op(r))}
        /\ Goto(r, "head")
        /\ UNCHANGED resp
  /\ UNCHANGED <<ledger, zkVars, nodeVars, home, reqTerm, nextIndex, idx, fol,
                 waiting, acks, gone, netVars, cuVars, faults>>

ReadLogHead(r) ==
  /\ pc[r] = "head"
  /\ Goto(r, "verify")
  /\ nextIndex' = [nextIndex EXCEPT ![r] = logHead + 1]
  /\ UNCHANGED <<ledger, zkVars, nodeVars, home, reqTerm, idx, fol, waiting,
                 acks, resp, gone, netVars, cuVars, faults>>

HoldsLease(n) == lease.holder = n /\ lease.live

VerifyLease(r) ==
  /\ pc[r] = "verify"
  /\ \/ HoldsLease(home[r]) /\ Goto(r, "advance") /\ UNCHANGED resp
     \/ ~ HoldsLease(home[r]) /\ Answer(r, "UNAVAILABLE")
  /\ UNCHANGED <<ledger, zkVars, nodeVars, home, reqTerm, nextIndex, idx, fol,
                 waiting, acks, gone, netVars, cuVars, faults>>

\* [mutant of Advances] off by one: an index already given out passes.
AdvancesOrStays(i) == i >= logHead

\* The log head may only grow.
Advances(i) == i > logHead

\* The Get/Set loop on /log_head, at the Set that succeeds or the Get that
\* finds an index no lower than the one wanted.
AdvanceLogHead(r) ==
  /\ pc[r] = "advance"
  /\ nextIndex' = [nextIndex EXCEPT ![r] = 0]
  /\ \/ /\ Advances(nextIndex[r])
        /\ logHead' = nextIndex[r]
        /\ idx' = [idx EXCEPT ![r] = nextIndex[r]]
        /\ Goto(r, "members")
        /\ UNCHANGED resp
     \/ /\ ~ Advances(nextIndex[r])
        /\ Answer(r, "UNAVAILABLE")
        /\ UNCHANGED <<logHead, idx>>
  /\ UNCHANGED <<ledger, term, lease, members, nodeVars, home, reqTerm, fol,
                 waiting, acks, gone, netVars, cuVars, faults>>

\* A ZooKeeper call of the handler fails; the Set of the log head may have
\* been applied all the same.
LogIndexFails(r) ==
  /\ pc[r] \in {"head", "verify", "advance"}
  /\ Fault("zookeeper")
  /\ Answer(r, "UNAVAILABLE")
  /\ nextIndex' = [nextIndex EXCEPT ![r] = 0]
  /\ \/ UNCHANGED logHead
     \/ pc[r] = "advance" /\ Advances(nextIndex[r]) /\ logHead' = nextIndex[r]
  /\ UNCHANGED <<ledger, term, lease, members, nodeVars, home, reqTerm, idx, fol,
                 waiting, acks, gone, netVars, cuVars>>

GetFollowers(r) ==
  /\ pc[r] = "members"
  /\ Goto(r, "replicate")
  /\ fol' = [fol EXCEPT ![r] = members \ {home[r]}]
  /\ UNCHANGED <<ledger, zkVars, nodeVars, home, reqTerm, nextIndex, idx,
                 waiting, acks, resp, gone, netVars, cuVars, faults>>

\* GetFollowerURLs returns an error: the handler goes on with no follower.
GetFollowersFails(r) ==
  /\ pc[r] = "members"
  /\ Fault("zookeeper")
  /\ Goto(r, "replicate")
  /\ UNCHANGED <<ledger, zkVars, nodeVars, home, reqTerm, nextIndex, idx, fol,
                 waiting, acks, resp, gone, netVars, cuVars>>

\* The local append, then one concurrent call per follower.  A duplicate row
\* is accepted; a cancelled context fails the append and the look-up after it.
Replicate(r) ==
  /\ pc[r] = "replicate"
  /\ \/ /\ r \notin gone
        /\ SetTable(home[r], AppendPending(ledger[home[r]], pid(r), idx[r]))
        /\ Goto(r, "append")
        /\ waiting' = [waiting EXCEPT ![r] = fol[r]]
        /\ appendNet' = appendNet \cup {<<r, f>> : f \in fol[r] \cap alive}
        /\ UNCHANGED <<fol, acks, resp>>
     \/ /\ r \in gone
        /\ Answer(r, "UNAVAILABLE")
        /\ Forget(r)
        /\ UNCHANGED <<ledger, appendNet>>
  /\ UNCHANGED <<zkVars, nodeVars, home, reqTerm, nextIndex, idx, gone, decideNet,
                 cuVars, faults>>

\* internalAppendHandler at f: a duplicate row is acknowledged too, and the
\* term of the request is never compared with anything.
DeliverAppend(r, f) ==
  /\ <<r, f>> \in appendNet
  /\ f \in alive
  /\ SetTable(f, AppendPending(ledger[f], pid(r), idx[r]))
  /\ appendNet' = appendNet \ {<<r, f>>}
  /\ IF pc[r] = "append" /\ f \in waiting[r]
     THEN /\ acks' = [acks EXCEPT ![r] = @ \cup {f}]
          /\ waiting' = [waiting EXCEPT ![r] = @ \ {f}]
     ELSE UNCHANGED <<acks, waiting>>
  /\ UNCHANGED <<zkVars, nodeVars, pc, home, reqTerm, nextIndex, idx, fol, resp,
                 gone, decideNet, cuVars, faults>>

\* The call to f ends without an acknowledgement: no connection, a rejection
\* for clock skew (the append is gone) or a cancelled context.
CallFails(r, f) ==
  /\ pc[r] = "append"
  /\ f \in waiting[r]
  /\ <<r, f>> \notin appendNet \/ r \in gone
  /\ waiting' = [waiting EXCEPT ![r] = @ \ {f}]
  /\ UNCHANGED <<ledger, zkVars, nodeVars, pc, home, reqTerm, nextIndex, idx, fol,
                 acks, resp, gone, netVars, cuVars, faults>>

\* The 5 s timeout of the HTTP client passes; f may still apply the append.
CallTimesOut(r, f) ==
  /\ pc[r] = "append"
  /\ f \in waiting[r]
  /\ <<r, f>> \in appendNet
  /\ Fault("timeout")
  /\ waiting' = [waiting EXCEPT ![r] = @ \ {f}]
  /\ UNCHANGED <<ledger, zkVars, nodeVars, pc, home, reqTerm, nextIndex, idx, fol,
                 acks, resp, gone, netVars, cuVars>>

\* A message never reaches the store of f: lost, or refused by the handler.
CallLost(r, f) ==
  /\ <<r, f>> \in appendNet \cup decideNet
  /\ Fault("timeout")
  /\ \/ appendNet' = appendNet \ {<<r, f>>} /\ appendNet' # appendNet /\ UNCHANGED decideNet
     \/ decideNet' = decideNet \ {<<r, f>>} /\ decideNet' # decideNet /\ UNCHANGED appendNet
  /\ UNCHANGED <<ledger, zkVars, nodeVars, reqVars, gone, cuVars>>

\* [mutant of RequiredQuorum] half of the nodes, rounded down.
HalfQuorum(F) == (1 + Cardinality(F)) \div 2

RequiredQuorum(F) == (1 + Cardinality(F)) \div 2 + 1
QuorumReached(r)  == 1 + Cardinality(acks[r]) >= RequiredQuorum(fol[r])

\* Every call has ended, a quorum acknowledged and the local row follows.
Decide(r) ==
  /\ pc[r] = "append"
  /\ waiting[r] = {}
  /\ QuorumReached(r)
  /\ r \notin gone
  /\ FinalizeSucceeds(ledger[home[r]], pid(r), Outcome(op(r)))
  /\ SetTable(home[r], FinalizeByPaymentID(ledger[home[r]], pid(r), Outcome(op(r))))
  /\ Goto(r, "notify")
  /\ waiting' = [waiting EXCEPT ![r] = fol[r]]
  /\ UNCHANGED <<zkVars, nodeVars, home, reqTerm, nextIndex, idx, fol, acks, resp,
                 gone, netVars, cuVars, faults>>

\* [mutant of MarksFailed] the call of FailByPaymentID is forgotten.
MarksNothing(r) == FALSE

\* FailByPaymentID after a failed replication: a cancelled context defeats it,
\* and a cancellation does not call it.
MarksFailed(r) == op(r) = "pay" /\ r \notin gone

\* No quorum, or the local row cannot follow.
DecideFails(r) ==
  /\ pc[r] = "append"
  /\ waiting[r] = {}
  /\ \/ ~ QuorumReached(r)
     \/ r \in gone
     \/ ~ FinalizeSucceeds(ledger[home[r]], pid(r), Outcome(op(r)))
  /\ IF MarksFailed(r)
     THEN SetTable(home[r], FinalizeByPaymentID(ledger[home[r]], pid(r), "FAILED"))
     ELSE UNCHANGED ledger
  /\ Answer(r, "UNAVAILABLE")
  /\ Forget(r)
  /\ UNCHANGED <<zkVars, nodeVars, home, reqTerm, nextIndex, idx, gone, netVars,
                 cuVars, faults>>

\* CommitToFollower or CancelToFollower, one follower after the other; a call
\* that fails is not repeated.
Notify(r, f) ==
  /\ pc[r] = "notify"
  /\ f \in waiting[r]
  /\ r \notin gone
  /\ waiting' = [waiting EXCEPT ![r] = @ \ {f}]
  /\ decideNet' = IF f \in alive THEN decideNet \cup {<<r, f>>} ELSE decideNet
  /\ UNCHANGED <<ledger, zkVars, nodeVars, pc, home, reqTerm, nextIndex, idx, fol,
                 acks, resp, gone, appendNet, cuVars, faults>>

\* [mutant of Notified] every follower has to be told, whatever the context.
NotifiedAll(r) == waiting[r] = {}

\* With its context cancelled the remaining calls fail at once.
Notified(r) == waiting[r] = {} \/ r \in gone

Respond(r) ==
  /\ pc[r] = "notify"
  /\ Notified(r)
  /\ Answer(r, "OK")
  /\ Forget(r)
  /\ UNCHANGED <<ledger, zkVars, nodeVars, home, reqTerm, nextIndex, idx, gone,
                 netVars, cuVars, faults>>

\* internalCommitHandler, internalCancelHandler at f: a row that is absent or
\* already final stays as it is.
DeliverDecision(r, f) ==
  /\ <<r, f>> \in decideNet
  /\ f \in alive
  /\ SetTable(f, FinalizeByPaymentID(ledger[f], pid(r), Outcome(op(r))))
  /\ decideNet' = decideNet \ {<<r, f>>}
  /\ UNCHANGED <<zkVars, nodeVars, reqVars, gone, appendNet, cuVars, faults>>

\* The client of r hangs up: net/http cancels the request context.
ClientGone(r) ==
  /\ pc[r] \in Holding
  /\ r \notin gone
  /\ Fault("hangup")
  /\ gone' = gone \cup {r}
  /\ UNCHANGED <<ledger, zkVars, nodeVars, reqVars, netVars, cuVars>>

\* The steps the handler takes by itself.
HandlerStep(r) ==
  \/ CheckLedger(r)
  \/ ReadLogHead(r)
  \/ VerifyLease(r)
  \/ AdvanceLogHead(r)
  \/ GetFollowers(r)
  \/ Replicate(r)
  \/ \E f \in Node : CallFails(r, f) \/ Notify(r, f)
  \/ Decide(r)
  \/ DecideFails(r)
  \/ Respond(r)

RequestNext(r) ==
  \/ \E n \in Node : Receive(r, n)
  \/ HandlerStep(r)
  \/ \E f \in Node : DeliverAppend(r, f) \/ DeliverDecision(r, f)
  \/ LogIndexFails(r)
  \/ GetFollowersFails(r)
  \/ \E f \in Node : CallTimesOut(r, f) \/ CallLost(r, f)
  \/ ClientGone(r)

(***************************************************************************)
(* runFollowerCatchUpLoop of a node and internalCatchUpHandler of the node *)
(* it asks.                                                                *)
(***************************************************************************)

CatchUpIdle(n) ==
  /\ cuPc' = [cuPc EXCEPT ![n] = "idle"]
  /\ cuSrc' = [cuSrc EXCEPT ![n] = None]
  /\ cuFrom' = [cuFrom EXCEPT ![n] = 0]
  /\ cuEntries' = [cuEntries EXCEPT ![n] = {}]

CatchUpAsk(n) ==
  /\ n \in Polling \cap alive
  /\ cuPc[n] = "idle"
  /\ status[n].role # "LEADER"
  /\ status[n].leader # None
  /\ cuPc' = [cuPc EXCEPT ![n] = "ask"]
  /\ cuSrc' = [cuSrc EXCEPT ![n] = status[n].leader]
  /\ \E h \in FinalIndices(ledger[n]) :
       /\ IsLocalHead(ledger[n], h)
       /\ cuFrom' = [cuFrom EXCEPT ![n] = h]
  /\ UNCHANGED <<ledger, zkVars, nodeVars, reqVars, gone, netVars, cuEntries, faults>>

\* 307 to the leader the asked node knows of.
CatchUpRedirect(n) ==
  /\ cuPc[n] = "ask"
  /\ cuSrc[n] \in alive
  /\ status[cuSrc[n]].role # "LEADER"
  /\ status[cuSrc[n]].leader # None
  /\ cuSrc' = [cuSrc EXCEPT ![n] = status[cuSrc[n]].leader]
  /\ UNCHANGED <<ledger, zkVars, nodeVars, reqVars, gone, netVars, cuPc, cuFrom,
                 cuEntries, faults>>

CatchUpServe(n) ==
  /\ cuPc[n] = "ask"
  /\ cuSrc[n] \in alive
  /\ status[cuSrc[n]].role = "LEADER"
  /\ LET found == ListFinalizedAfter(ledger[cuSrc[n]], cuFrom[n])
     IN  /\ cuEntries' = [cuEntries EXCEPT ![n] = found]
         /\ cuPc' = [cuPc EXCEPT ![n] = IF found = {} THEN "idle" ELSE "append"]
  /\ cuSrc' = [cuSrc EXCEPT ![n] = None]
  /\ cuFrom' = [cuFrom EXCEPT ![n] = 0]
  /\ UNCHANGED <<ledger, zkVars, nodeVars, reqVars, gone, netVars, faults>>

\* The asked node is down or knows no leader, or the client stops after ten
\* redirects.
CatchUpRefused(n) ==
  /\ cuPc[n] = "ask"
  /\ cuSrc[n] \notin alive \/ status[cuSrc[n]].role # "LEADER"
  /\ CatchUpIdle(n)
  /\ UNCHANGED <<ledger, zkVars, nodeVars, reqVars, gone, netVars, faults>>

\* The 3 s of the catch-up context pass.
CatchUpTimesOut(n) ==
  /\ cuPc[n] = "ask"
  /\ Fault("poll")
  /\ CatchUpIdle(n)
  /\ UNCHANGED <<ledger, zkVars, nodeVars, reqVars, gone, netVars>>

CatchUpAppend(n) ==
  /\ cuPc[n] = "append"
  /\ \E e \in cuEntries[n] :
       /\ IsFirst(e, cuEntries[n])
       /\ SetTable(n, AppendPending(ledger[n], e.payment_id, e.log_index))
  /\ cuPc' = [cuPc EXCEPT ![n] = "finalize"]
  /\ UNCHANGED <<zkVars, nodeVars, reqVars, gone, netVars, cuSrc, cuFrom, cuEntries,
                 faults>>

\* [mutant of CatchUpFinalize] every entry is committed, whatever its status.
CatchUpCommit(n) ==
  /\ cuPc[n] = "finalize"
  /\ \E e \in cuEntries[n] :
       /\ IsFirst(e, cuEntries[n])
       /\ SetTable(n, FinalizeByPaymentID(ledger[n], e.payment_id, "COMMITTED"))
       /\ cuEntries' = [cuEntries EXCEPT ![n] = @ \ {e}]
       /\ cuPc' = [cuPc EXCEPT ![n] = IF cuEntries[n] = {e} THEN "idle" ELSE "append"]
  /\ UNCHANGED <<zkVars, nodeVars, reqVars, gone, netVars, cuSrc, cuFrom, faults>>

CatchUpFinalize(n) ==
  /\ cuPc[n] = "finalize"
  /\ \E e \in cuEntries[n] :
       /\ IsFirst(e, cuEntries[n])
       /\ SetTable(n, FinalizeByPaymentID(ledger[n], e.payment_id, e.status))
       /\ cuEntries' = [cuEntries EXCEPT ![n] = @ \ {e}]
       /\ cuPc' = [cuPc EXCEPT ![n] = IF cuEntries[n] = {e} THEN "idle" ELSE "append"]
  /\ UNCHANGED <<zkVars, nodeVars, reqVars, gone, netVars, cuSrc, cuFrom, faults>>

CatchUpStep(n) ==
  \/ CatchUpAsk(n)
  \/ CatchUpRedirect(n)
  \/ CatchUpServe(n)
  \/ CatchUpRefused(n)
  \/ CatchUpAppend(n)
  \/ CatchUpFinalize(n)

(***************************************************************************)
(* The leader lease and the life of a node.                                *)
(***************************************************************************)

\* reconcile of an eligible node that finds no /leader znode.  It registers
\* first, so the first leader may be alone in /members; the others follow when
\* they get to it.
AcquireLease(n) ==
  /\ n \in Electable \cap alive \cap members
  /\ lease.holder = None
  /\ term' = term + 1
  /\ lease' = [holder |-> n, term |-> term + 1, live |-> TRUE]
  /\ UNCHANGED <<ledger, logHead, members, nodeVars, reqVars, gone, netVars, cuVars,
                 faults>>

\* ZooKeeper fails after it created /leader, before or after the bump, and the
\* release fails with it: the znode stays, with term 0, and n takes it for its
\* own at the next tick.  Of a release that succeeds only a skipped term would
\* remain.
AcquireFails(n) ==
  /\ n \in Electable \cap alive \cap members
  /\ lease.holder = None
  /\ Fault("acquire")
  /\ term' \in {term, term + 1}
  /\ lease' = [holder |-> n, term |-> 0, live |-> TRUE]
  /\ status' = [status EXCEPT ![n] = NoStatus]
  /\ UNCHANGED <<ledger, logHead, members, alive, reqVars, gone, netVars, cuVars>>

\* [mutant of LeaseStatus] a node that has led takes any lease for its own.
LeaseStatusKept(n) ==
  IF lease.holder = None THEN NoStatus
  ELSE [role   |-> IF HoldsLease(n) \/ status[n].role = "LEADER" THEN "LEADER" ELSE "FOLLOWER",
        leader |-> lease.holder,
        term   |-> lease.term]

\* refreshStatusFromLease, or setNoLeaderStatus when there is no lease; reconcile
\* gets there once it has registered.
LeaseStatus(n) ==
  IF lease.holder = None THEN NoStatus
  ELSE [role   |-> IF HoldsLease(n) THEN "LEADER" ELSE "FOLLOWER",
        leader |-> lease.holder,
        term   |-> lease.term]

RefreshStatus(n) ==
  /\ n \in alive \cap members
  /\ status[n] # LeaseStatus(n)
  /\ status' = [status EXCEPT ![n] = LeaseStatus(n)]
  /\ UNCHANGED <<ledger, zkVars, alive, reqVars, gone, netVars, cuVars, faults>>

\* setZKError: the node cannot reach ZooKeeper and forgets role and leader.
LoseStatus(n) ==
  /\ n \in alive
  /\ status[n].role # "UNKNOWN"
  /\ Fault("zookeeper")
  /\ status' = [status EXCEPT ![n] = NoStatus]
  /\ UNCHANGED <<ledger, zkVars, alive, reqVars, gone, netVars, cuVars>>

\* ZooKeeper drops the ephemeral znodes of n with its session.
DropSession(n) ==
  /\ n \in members \/ lease.holder = n
  /\ members' = members \ {n}
  /\ lease' = IF lease.holder = n THEN NoLease ELSE lease
  /\ UNCHANGED <<ledger, logHead, term, nodeVars, reqVars, gone, netVars, cuVars>>

\* The session of a process that died, or that a restarted process has left.
Orphaned(n) == n \notin alive \/ (lease.holder = n /\ ~ lease.live)

OldSessionExpires(n) == Orphaned(n) /\ DropSession(n) /\ UNCHANGED faults

\* n was cut off from ZooKeeper, or paused, beyond the 5 s session timeout.
SessionExpires(n) == ~ Orphaned(n) /\ DropSession(n) /\ Fault("expiry")

\* ensureMemberNode, in the first session of the process or in a new one.
Register(n) ==
  /\ n \in alive \ members
  /\ members' = members \cup {n}
  /\ UNCHANGED <<ledger, logHead, term, lease, nodeVars, reqVars, gone, netVars,
                 cuVars, faults>>

\* The process is killed: its handlers and its catch-up loop vanish, connections to
\* it break, its table stays; its znodes stay until the session expires, at once
\* after a graceful stop, whose Close ends it.
Crash(n) ==
  /\ n \in alive
  /\ Fault("crash")
  /\ alive' = alive \ {n}
  /\ status' = [status EXCEPT ![n] = NoStatus]
  /\ lease' = IF lease.holder = n THEN [lease EXCEPT !.live = FALSE] ELSE lease
  /\ LET hit == {r \in Request : home[r] = n /\ pc[r] \in Holding}
     IN  /\ pc' = [r \in Request |-> IF r \in hit THEN "lost" ELSE pc[r]]
         /\ nextIndex' = [r \in Request |-> IF r \in hit THEN 0 ELSE nextIndex[r]]
         /\ fol' = [r \in Request |-> IF r \in hit THEN {} ELSE fol[r]]
         /\ waiting' = [r \in Request |-> IF r \in hit THEN {} ELSE waiting[r]]
         /\ acks' = [r \in Request |-> IF r \in hit THEN {} ELSE acks[r]]
  /\ appendNet' = {m \in appendNet : m[2] # n}
  /\ decideNet' = {m \in decideNet : m[2] # n}
  /\ CatchUpIdle(n)
  /\ UNCHANGED <<ledger, logHead, term, members, home, reqTerm, idx, resp, gone>>

Restart(n) ==
  /\ n \notin alive
  /\ alive' = alive \cup {n}
  /\ UNCHANGED <<ledger, zkVars, status, reqVars, gone, netVars, cuVars, faults>>

\* What ZooKeeper and the coordination loop of n do without a fault.
CoordinationStep(n) ==
  \/ AcquireLease(n)
  \/ RefreshStatus(n)
  \/ OldSessionExpires(n)
  \/ Register(n)

NodeNext(n) ==
  \/ CatchUpStep(n)
  \/ CatchUpTimesOut(n)
  \/ CoordinationStep(n)
  \/ AcquireFails(n)
  \/ LoseStatus(n)
  \/ SessionExpires(n)
  \/ Crash(n)
  \/ Restart(n)

Next ==
  \/ \E r \in Request : RequestNext(r)
  \/ \E n \in Node : NodeNext(n)

Spec == Init /\ [][Next]_vars

\* A handler, a catch-up loop and a coordination loop keep running while their
\* process does, ZooKeeper ends orphaned sessions, and a message that is not
\* lost arrives at a node that stays up.  No process is sure to be restarted
\* and no request is sure to come.
Fairness ==
  /\ \A r \in Request :
       /\ WF_vars(HandlerStep(r))
       /\ \A f \in Node : WF_vars(DeliverAppend(r, f)) /\ WF_vars(DeliverDecision(r, f))
  /\ \A n \in Node :
       /\ WF_vars(CatchUpStep(n))
       /\ WF_vars(AcquireLease(n))
       /\ WF_vars(RefreshStatus(n))
       /\ WF_vars(OldSessionExpires(n))
       /\ WF_vars(Register(n))

FairSpec == Spec /\ Fairness
=============================================================================
