# Quorapay in TLA+

Quorapay is a small replicated payment ledger in Go: a cluster of nodes, each
with a SQLite table of payments, elects a leader through ZooKeeper; the leader
takes payments and cancellations, replicates each to its followers, and decides
it when a majority has acknowledged; a gateway in front finds the leader. This
directory holds the models of the replication, of the coordination through
ZooKeeper, of the fault state of a node and of the way of a request through the
gateway and the nodes, the instances TLC checks, and the proofs TLAPS checks.

Paths below are relative to the repository.

## The system

| Component | Source | State it keeps | Operations | Talks to |
|---|---|---|---|---|
| pay and cancel handlers | `internal/api/http.go` | a mutex per payment id; one goroutine per request | lock, read the role, check the ledger, get a log index, replicate, answer; hand over to the leader | coordination (status, log head, followers), replication, store |
| replication service | `internal/replication/service.go`, `client.go` | none beyond a call | local append, concurrent appends, count acknowledgements, local decision, commit or cancel calls | store, followers over HTTP |
| follower handlers | `internal/api/handlers.go` | none beyond a call | append, commit, cancel, catch-up, status, ledger | store, time sync |
| node store | `internal/storage/sqlite.go` | the `payments` table | AppendPending, Commit/Fail/CancelByPaymentID, look-ups and lists | - |
| catch-up loop | `cmd/quorapay-node/main.go` | a 2 s ticker | ask the leader for what follows the local head, append and finalize each entry | leader over HTTP, store, coordination |
| coordination manager | `internal/coordination` | ZooKeeper: `/members`, `/election`, `/leader`, `/term`, `/log_head`; in memory: the last status, candidate path, fault state | register, elect, acquire and verify the lease, advance the log head | ZooKeeper |
| time sync | `internal/timesync` | Lamport clock, skew per node | tick, receive, validate a timestamp | - |
| gateway | `cmd/quorapay-gateway` | none | find the leader, forward, once again if the leader changed | nodes over HTTP |
| Stripe client | `internal/payment/stripe.go` | none | create and read a checkout session | Stripe |
| admin service | `internal/admin*`, `cmd/quorapay-admin` | none | stop, start, restart a container | Docker |
| web client, scripts | `client/web`, `scripts` | - | - | gateway |

What makes them hard:

* Every request is a goroutine and every store, ZooKeeper or HTTP call in it is
  a point where others run. Payments of one id are serialised by a mutex at one
  node; cancellations take no mutex.
* A node acts on the role it remembers. ZooKeeper is asked again only when the
  log head is advanced, and followers compare no term at all.
* The follower calls are made once. What is lost is left to the catch-up loop.
* A request context is cancelled when the client hangs up, and every later call
  made with it fails, the one that should mark the payment FAILED included.
* A crash leaves tables as they are at any point of this; nothing restarts a
  process by itself.

What each component must get right:

* store: a payment has one row; a final row never changes.
* coordination: one holder of the lease; terms grow; a log index is given out
  once.
* replication: a decision stands on a majority of the nodes it was sent to; no
  node is told a decision that nobody stored; ledgers do not disagree.
* handlers: an answer stays true; a payment and its cancellation are not both
  answered OK; a handler ends.
* catch-up: what the leader finalized reaches every node.
* fault state: the transitions of `canTransitionFaultState`, HEALTHY only with a
  catch-up mark that no later session event has cancelled. The mark is set when
  the leader has answered, before the entries of the answer are applied.
* routing: a forwarded request ends, and is processed by one leader only; a
  finalization is answered OK only when the customer has paid.
* time sync: logical time grows along what a node sends and receives.

`PROJECT.json` lists the places in the code where each of these is at risk
("hazards") with the properties that watch them.

## Modules

| Module | What it is |
|---|---|
| `LedgerStore` | the payments table and the store calls, as operators on a function from payment ids to rows |
| `Replication` | requests, follower handlers, replication, catch-up, and the leader lease as they see it |
| `ReplicationProperties` | type invariant, safety, action and liveness properties, the inductive invariants, what the documents claim |
| `PaymentLedger` | the abstract specification: record, decide, learn |
| `Coordination` | members, candidates, lease, terms, sessions; every ZooKeeper call of `reconcile` a step |
| `Leadership` | the abstract specification: grant a term, claim it, step down |
| `FaultState` | the fault state of one node and the three goroutines that write it |
| `Routing` | gateway and node handlers of one payment: look-up, hand-over, retry, mutex, Stripe; composed with `PaymentLedger` |
| `ReplicationLeadership` | `Replication` with a history of the terms handed out, as an implementation of `Leadership` |
| `MCReplication`, `MCLeadership`, `MCRouting` | workloads for TLC |
| `PaymentLedgerProofs` | what any implementation of `PaymentLedger` gets |
| `ReplicationProofs` | type correctness of `Replication` |
| `ReplicationSafetyProofs` | the inductive invariants and the safety theorems |
| `ReplicationPromiseProofs` | `Replication` implements `PaymentLedger` and `Leadership`; agreement under one leader; what a divergence takes |
| `CoordinationProofs` | type correctness, the inductive invariant, `Coordination` implements `Leadership`; what deposed leaders and forgotten candidates take |
| `FaultStateProofs` | type correctness and the invariants of `FaultState` |
| `ReplicationQuorumProofs` | what a decision leaves in the tables of the cluster; what a payment with two log indexes takes |
| `RoutingProofs` | type correctness, true answers, paid commits and the payment mutex of `Routing` |

### LedgerStore

A row is its status and log index; amount, currency and times are left out,
because no decision of the code reads them back. `AppendPending` is the INSERT
under the UNIQUE constraint, `FinalizeByPaymentID` the three updates
`... WHERE status = PENDING`, `FinalizeSucceeds` their nil result,
`ListFinalizedAfter` the list that catch-up serves, `IsLocalHead` the index
`readLocalCommittedHead` finds.

### Replication

`Request` is the workload; `Job[r]` says whether `r` pays or cancels and which
payment. `pc[r]` is where its handler stands:

| `pc` | Code |
|---|---|
| `idle` | the request has not reached the leader |
| `check` | role read, ledger not yet (`http.go:523`, `321`) |
| `head`, `verify`, `advance` | `CurrentLogHead`, then the lease check and the Get/Set loop of `leaderAdvanceLogHead` |
| `members` | `GetFollowerURLs` |
| `replicate` | before the local append (`service.go:88`) |
| `append` | follower appends under way (`service.go:119-155`) |
| `notify` | decided locally, commit or cancel calls under way (`service.go:167-184`, `295-310`) |
| `done`, `lost` | answered; or its process died |

`Receive` covers payments, Stripe finalisations (both run
`processPaymentRequest`) and cancellations at a node whose remembered role is
LEADER. A node with another role hands the request on or refuses it and touches
nothing of this state; that part is `Routing`. `simulate_outcome` refuses a request before it touches
anything and is left out for the same reason.

`gone` holds requests whose context is cancelled. Store calls made with it
fail; ZooKeeper calls do not use it. `appendNet` and `decideNet` hold calls on
their way: delivery may come after the caller gave up, at any later time, also
after the request was answered. `CallFails` ends a call without acknowledgement
when nothing is on its way any more (refused connection, clock-skew rejection)
or its context is cancelled; `CallTimesOut` ends one that may still land;
`CallLost` drops one.

The lease has three parts: holder, term, and whether it belongs to the holder's
current session (`live`), which is what `verifyLeadershipStillHeld` compares.
`AcquireLease` is the whole of `tryAcquireLeaderLease`, `RefreshStatus` the
whole of `refreshStatusFromLease`; both are several ZooKeeper calls in the code,
which `Coordination` takes apart. `AcquireFails` is an acquisition that fails
after its Create and whose release fails too: the lease stays, with term 0, and
its owner leads under it. The stalled Set of the lease that overwrites a
successor's is left to `Coordination`: nobody leads under what it writes, so all
it changes for a request is when a lease is free. Any node of `Electable` may acquire a free lease: the order of candidate znodes
only fixes which one does.

At the start nobody is registered. A node adds itself with `Register`
(`ensureMemberNode`, the first call of `reconcile`), and only a registered node
acquires a lease or refreshes its status, so the first leader may find an empty
follower list. `Crash` is a process that is killed: tables and znodes stay, and
the znodes go when the old session expires (`OldSessionExpires`). A graceful stop
closes the session at once (`manager.go:196`), which is the two steps in a row.
A new session registers with `Register` too, and finds the old member znode in
place if it is still there. Here a node is registered before it acquires a free
lease; a round of `reconcile` in which the member znode goes after the first call
and before the others is left to `Coordination`.

The faults are crash, session expiry, half-failed acquisitions of the lease,
ZooKeeper errors, call timeouts and losses, client hang-ups and catch-up timeouts; `FaultKind` selects, `MaxFaults`
bounds them. Everything else (order of steps, delivery order, elections of a
free lease, restarts) is free.

### PaymentLedger

A payment is recorded PENDING at a node, decided at a node of `Decider`, or
learned by a node from one that has it. `Replication` implements it with
`Decider <- Electable` and the statuses of the tables: a store call of a leader
is a decision, one of a follower or a catch-up loop must be the copy of a
decision somebody stores. A late or repeated call that changed a final row, or
told a decision nobody holds, would not be such a step. `liveness` checks it with a
node that cannot lead: every decision in its table has to be the copy of one in the
table of the leader. `KeepsPromise` proves it for every `Electable`.

### Coordination and Leadership

`pc[n]` of `Coordination` names the ZooKeeper call that comes next in `reconcile` of node `n`:

| `pc` | Call |
|---|---|
| `member` | `ensureMemberNode` (Exists and Create are one step: both leave a znode that is there alone) |
| `candidate`, `create` | Exists of the candidate it knows; Create of a new one (`election.go:34`, `40`) |
| `elect` | Children of `/election` |
| `lease`, `acquire`, `reread` | Get, Create, Get of the lease in `tryAcquireLeaderLease` |
| `bumpGet`, `bumpSet` | Get and compare-and-set of the term in `bumpTermWithCAS` |
| `publish` | Set of the lease with version -1 (`lease.go:67`) |
| `release`, `delete` | `releaseLeaderLeaseIfOwned` |
| `refresh`, `verify` | the two reads of `refreshStatusFromLease`, the second with the write of the status |

A session is the pair of its node and a number; member, candidate and lease
znodes name the session that owns them and go with it (`DropSession`).
`CallFails` is a call without effect, `ReplyLost` one with effect and an error
all the same; `AfterError` is what the code does then, which differs from call to
call. `Reconnect` gives a running node a new session; the Expired event that goes
with it is handled by another goroutine, as late as it likes (`HandleExpired`),
and clears the path of whatever candidate the node has by then. A crash keeps
the znodes until `OldSessionExpires`.

`Leadership` says what this is for: a counter hands out terms one by one, each to
one node, and a node leads only under a term handed to it. `Coordination`
implements it with `granted` a history of the writes of `/term` and `believes`
the term of a node whose status says LEADER. A leader under term 0 counts as
having no term: `tryAcquireLeaderLease` may leave a lease of term 0 behind when
the calls after its Create fail, and the next round keeps it.

`TypeOK` has a part beyond types, `LeadersNamed`: a node that writes a status with
a role read a lease that existed and takes the leader from it.

`Replication` has the lease at a coarser grain, and `ReplicationLeadership` says
that this grain is a fair one: with `grants`, a history of whom each term of `/term`
was handed to, it implements `Leadership` too. `HistorySpec` adds the history and
restricts nothing. What the handlers assume about terms is then what the
coordination provides.

### FaultState

One node. `consumeSessionEvents` handles an event in two critical sections
(`TakeEvent`: the role, `SetEventState`: the fault state); `reconcile` looks
ZooKeeper up, writes the role, reads fault state and catch-up mark, perhaps sets
the mark, and then makes the transition it decided on (`Lookup` to `Transit`);
the catch-up loop sets the mark when the leader has answered. They interleave
freely. `SetFaultState` checks the transition against the state at the time of
the write, and that is what keeps a late REJOINED or HEALTHY from overtaking a
lost session. The environment gives and takes the connection, expires sessions
and moves the lease; `MaxFaults` bounds what it does.

### Routing

One payment, a few requests of three kinds: a finalization or a cancellation
through the gateway, and the plain `POST /pay` that a client may send to a node
itself (`src/README.md:168`, `http.go:139`). A frame is a call that somebody waits for or works
on: the gateway's own for a request, one at a node for each call it makes, one at
the next node for each call that one makes. `pc` of a frame:

| `pc` | Code |
|---|---|
| `find` | gateway: `findLeaderURL`; or a client that is about to call a node (`PayDirectly`) |
| `called` | gateway or node: waits for the answer of a call |
| `stripe` | `GetCheckoutSession` of a finalization at the node it enters |
| `lock` | waits for the mutex of the payment; the wait does not look at the context |
| `route` | reads the role: process, hand on or refuse |
| `check`, `record`, `decide` | leader: ledger check, local append, local decision |
| `ended` | has an answer, which the caller has not taken yet |

`CallFails` is a refused or broken connection, the end of an HTTP timeout (10 s at
the gateway, 5 s at a node) or a cancelled context; what was called goes on with
`gone` set, its store and HTTP calls fail, and it keeps the mutex to its end. The
gateway looks again and sends again only to another URL; a node sends a payment
again, once, when it knows another leader by then, which may be itself; a
cancellation is handed on without a lock and without a second attempt.

The ledgers are those of `PaymentLedger`, whose `Record`, `Decide` and `Learn` are
the steps of handlers and of replication here: `Replication` implements it
(`KeepsPromise`), so `Routing` needs no lease and no follower calls. What a node
believes about the leader changes as it likes, except that a node that leads
names itself, which `CoordinationProofs` shows of the code (`LeaseIsOwn`).

Only the node a finalization enters asks Stripe; what it hands on is a `POST /pay`
like that of any client, and `payHandler` asks nobody. A client's own one commits a
payment that was never paid for. The frame of such a client stands where that of the
gateway does and makes one attempt. `CommittedIsPaid` therefore says two things: no
table has the payment COMMITTED before the customer paid, unless somebody sent a
`POST /pay` directly (`PaidDirectly`); and no finalization is answered OK before
the customer paid, whoever committed the payment.

## Runs

The runs of `Replication` have two requests and do not check deadlock: when both
are answered the system may come to rest. So may `routing`. `coordination`,
`election_stuck` and `fault_state` check it.

| Run | Instance | Checks | States |
|---|---|---|---|
| `pay_pay` | 3 nodes, two may lead and the third polls, two payments of one id, 2 crashes, timeouts or hang-ups | `IndexSplitNeedsTwoTerms`, `QuorumHolds` | 1.8 M |
| `pay_cancel` | 3 nodes, one may lead, a payment and its cancellation, 1 crash, timeout or hang-up | `TypeOK`, `Agreement`, `NeverPaidAndCanceled`, `DecisionBacked`, `AnsweredIsFinal` | 1.9 M |
| `failover` | 2 nodes, both may lead, a payment and its cancellation, 1 fault of any kind | `OkIsDurable`, `DivergenceNeedsTwoTerms`, `LeaseImplementsLeadership` | 0.87 M |
| `liveness` | 2 nodes, one may lead, two payments, 1 fault of any kind | `IndexUnique`, `ImplementsPromise`, `RequestAnswered`, `CatchUpProgress` | 160 k |
| `coordination` | 2 nodes, 1 crash, session expiry, failed call or lost reply | `TypeOK`, `ImplementsLeadership`, `StaleLeaderStepsDown`, `MemberReturns`, `LeaderUnlessStuck` | 57 k |
| `fault_state` | 1 node, 4 disturbances | `TypeOK`, `LostSessionIsFailed`, `HealthyIsCaughtUp`, `HandledIsReported`, `CutOffHasNoRole`, `Recovers` | 120 k |
| `routing` | 2 nodes, a finalization with a direct payment, or a cancellation alone, 3 hops, 1 change of belief, 1 crash, 1 early timeout | `TypeOK`, `AnswersAreTrue`, `CommittedIsPaid`, `PaymentMutex`, `HandlersEnd` | 0.48 M |
| `divergence_after_failover` | 2 nodes, both may lead, 1 crash | `NoDivergence` fails | - |
| `solitary_commit` | 3 nodes, one may lead, no fault | `CommittedOnMajority` fails | - |
| `convergence_gap` | 2 nodes, one may lead, 1 timeout or loss | `Converges` fails | - |
| `stale_term` | 2 nodes, one may lead, 1 session expiry | `FencedTerms` fails | - |
| `election_stuck` | 2 nodes, 2 crashes or ZooKeeper errors | `LeaderFailover` fails | - |

Why these bounds show something. Two requests are what the races of this code
are made of: two handlers of one payment, or two handlers after one log index.
Three nodes are the smallest cluster in which a majority is not everybody; two
nodes that may both lead are the smallest with a failover, a stale leader and
two leaders at once. `QuorumHolds` needs three nodes (of two, a majority is both)
and two faults, one for each follower call that fails; one fault is enough for
every other property. `pay_pay` identifies states that differ by a permutation of
the two nodes that may lead, or of the two payments: neither the model nor the
two properties tell them apart. `IndexUnique` is checked with one leader and proved for any
number. `ImplementsPromise` is checked with a node that cannot lead, because a
decision of a node that can need not be a copy.

In `coordination` two nodes are a holder and a successor, and one fault is
enough for a deposed leader, for a restart over the znodes of the old session,
and for both traps that `LeaderUnlessStuck` names: a lowest candidate whose node
forgot it, and a lease that names a node other than its owner. Without either
exception the property fails within the bound. In `fault_state` four disturbances
make two losses of the session with a catch-up, or a lease change, between them.
In `routing` three hops and one change of belief are a call that comes back to
the node it started from, by way of another node or at once; an early timeout
leaves a handler at work that nobody waits for, while the gateway tries again.
Three hops also cut a call that two nodes hand back and forth, and one change of
belief is too little for a node that becomes leader and is sent its own retry: the
theorems hold for any value of both. `Loads` says which requests come together: a
finalization and a direct payment, whose handlers take turns at the mutex and of
which only one asked Stripe, or a cancellation alone, whose calls no mutex holds
up. A payment and its cancellation meet in the tables only, and that is in
`pay_cancel` and `failover`. A call that waits for a mutex may time out without being counted: nothing else
ends a call that waits for its own caller. Each property has a mutant
of the code (`PROJECT.json`) that its run refutes within the same bounds.

`Agreement` and `NeverPaidAndCanceled` are stated for one possible leader. With
two they do not hold, which `divergence_after_failover` shows; `DivergenceNeedsTwoTerms`
and `IndexSplitNeedsTwoTerms` are what holds with any number. Both say "in two
terms, or under a lease of term 0" (`TwoTerms`): such a lease, left by `AcquireFails`,
does not tell its leaders apart. `IndexSplitNeedsTwoTerms` leaves out payments a
cancellation got a log index for: a payment goes past a CANCELED row, and its
appends carry an index of their own.

### Where code and documents part

* `divergence_after_failover`: `IMPLEMENTATION_PLAN.md:76` promises failover
  "without ledger divergence". The next leader may hold the payment PENDING (the
  old one died between its commit and the commit calls), the cancel handler goes
  on from a PENDING row, and the two tables end COMMITTED and CANCELED.
* `solitary_commit`: `replication-design.md:57`, "All committed entries are
  consistent across a majority of nodes". The follower list is taken for the
  cluster (`http.go:636`, `service.go:71`). At a start the first leader may find it
  empty, because the others have not registered yet, and commit as a quorum of one
  while two more nodes run; no fault is needed. A failed `GetFollowerURLs` leaves an
  empty list as well.
* `convergence_gap`: `replication-design.md:9`, "all nodes eventually converge".
  A follower asks for what follows its highest finalized index, so a decision it
  missed below that index never comes again.
* `stale_term`: `MEMBER4_FINAL_DOCUMENTATION.md:17` calls the term a fencing
  token. The term of an entry is read before the lease is verified and nothing
  compares it, so an entry of an old term can follow one of a new term.
* `election_stuck`: `IMPLEMENTATION_PLAN.md:76` promises "automatic failover". A
  node whose Exists failed, or whose Create was applied without a reply, makes a
  second candidate and forgets the first. When the first is the lowest, no node
  finds itself eligible, and after the next crash of the leader there is no other
  as long as the session of the forgotten candidate lives. A late Expired event
  (`manager.go:233`) leads to the same place.

## Fairness

`FairSpec` adds weak fairness of:

* the steps a handler takes by itself: a goroutine keeps running, and every
  wait in it ends (the HTTP client has a 5 s timeout);
* delivery of a call that is on its way to a node that stays up;
* the catch-up loop (a 2 s ticker) and the coordination loop (at most 5 s
  between two reconciliations);
* the end of a dead process's session, which ZooKeeper times out.

`Coordination` has the same for `reconcile`, for reconnecting (the client library
does it for ever), for the event loop and for the end of dead sessions.
`FaultState` has it for its three loops, none for the environment: `Recovers` and
`CutOffHasNoRole` assume a connection that stays or stays away, in the property.
`Routing` has it for the handlers together: some handler goes on as long as one
can, and a waiting call is ended by its HTTP timeout at the latest. The number of
steps is finite, so a weaker form is not needed.

There is none for `Restart` (processes are restarted by hand), for the arrival
of requests, or for faults. `RequestAnswered` and `CatchUpProgress` therefore
excuse a node that died.

## Proofs

All theorems hold for any number of nodes, payments, requests and faults, under
the ASSUME of the module alone (`ReplicationAssumption`, `CoordinationAssumption`,
`FaultStateAssumption`, `RoutingAssumption`, `NoneIsNoCall`: types of the constants)
unless said otherwise.

| Theorem | Says |
|---|---|
| `ReplicationProofs!TypeCorrect` | `Spec => []TypeOK` |
| `ReplicationSafetyProofs!InvariantsHold` | `IndexInv` and `DecisionInv` are invariants |
| `ReplicationSafetyProofs!IndicesAreUnique` | `Spec => []IndexUnique` |
| `ReplicationSafetyProofs!OkStaysDurable` | `Spec => []OkIsDurable` |
| `ReplicationSafetyProofs!DecisionsAreBacked` | `Spec => []DecisionBacked` |
| `ReplicationPromiseProofs!KeepsPromise` | `Spec => ImplementsPromise`, the refinement |
| `ReplicationPromiseProofs!OneLeaderAgrees` | `Electable = {l}` gives `Spec => []Agreement` |
| `ReplicationPromiseProofs!OneLeaderAnswers` | `Electable = {l}` gives `Spec => []NeverPaidAndCanceled` |
| `ReplicationPromiseProofs!DivergenceTakesTwoTerms` | `Spec => []DivergenceNeedsTwoTerms` |
| `ReplicationPromiseProofs!FencedWithoutExpiry` | without session expiry and half-failed acquisitions `Spec => []FencedTerms` |
| `ReplicationPromiseProofs!ReplicationImplementsLeadership` | `HistorySpec => LeaseImplementsLeadership`, the second refinement |
| `PaymentLedgerProofs!OneDeciderAgrees` | one decider gives agreement, in the abstract |
| `PaymentLedgerProofs!FinalForever` | a final row is never taken back, in the abstract |
| `CoordinationProofs!CoordinationTypeCorrect` | `Spec => []TypeOK`, `LeadersNamed` included |
| `CoordinationProofs!CoordinationImplementsLeadership` | `Spec => ImplementsLeadership`, the refinement |
| `CoordinationProofs!CoordinationOneLeaderPerTerm` | no two nodes lead under one term |
| `CoordinationProofs!OneLeaderWithoutExpiry` | without session expiry no leader is deposed and at most one node leads |
| `CoordinationProofs!NeverStuckByCrashes` | with crashes alone no candidate is forgotten and no leader deposed |
| `FaultStateProofs!FaultStateTypeCorrect` | `Spec => []TypeOK` |
| `FaultStateProofs!LostSessionStaysFailed` | `Spec => []LostSessionIsFailed` |
| `FaultStateProofs!HealthyStaysCaughtUp` | `Spec => []HealthyIsCaughtUp` |
| `FaultStateProofs!HandledEventsAreReported` | `Spec => []HandledIsReported` |
| `ReplicationQuorumProofs!DecidedByMajority` | `IsFiniteSet(Node)` gives `Spec => []QuorumHolds` |
| `ReplicationQuorumProofs!IndexSplitTakesTwoTerms` | `Spec => []IndexSplitNeedsTwoTerms` |
| `ReplicationQuorumProofs!OneLeaderOneIndex` | `Electable = {l}` and only payments give `Spec => []IndexAgreement` |
| `ReplicationQuorumProofs!ReliableClusterCommitsOnMajority` | `IsFiniteSet(Node)`, without crashes, session expiry and ZooKeeper errors, gives `Spec => [](Assembled /\ CommittedOnMajority => []CommittedOnMajority)`: from the moment all have registered and no handler works with a list read before |
| `ReplicationQuorumProofs!AnsweredStaysFinal` | `Spec => []AnsweredIsFinal` |
| `RoutingProofs!RoutingTypeCorrect` | `Spec => []TypeOK` |
| `RoutingProofs!TrueAnswers` | `Spec => []AnswersAreTrue` |
| `RoutingProofs!PaidBeforeCommitted` | `Spec => []CommittedIsPaid`, direct payments included |
| `RoutingProofs!OneHandlerAtATime` | `Spec => []PaymentMutex` |

The argument. No property above is inductive as it stands: rows are written from
calls that were sent long before, so what is on its way has to be part of the
invariant.

* `IndexInv` follows an index. It is at most the log head and given to one
  request (`AdvanceLogHead` asks for more than the head); a handler has one
  exactly from there on; every row and every catch-up entry carries an index
  given to a request about its payment (`Issued`).
* `DecisionInv` follows a decision. A node whose role is LEADER may lead, and so
  may the node of every request; a request that is past its local decision, is
  answered OK or has a decision call on its way finds its outcome in the row of
  its node; every catch-up entry is a row of some table.
* `StoreStep` says what a step may do to the tables: nothing, append a PENDING
  row with an issued index, or finalize a PENDING row with a status that the node
  may decide or that some table holds (`Allowed`). With `FinalStays`, a final row
  never changes, this keeps `DecisionInv`; and it is the refinement, step by
  step.
* `OneLeaderAgrees` is `OneDeciderAgrees` carried over by `KeepsPromise`; there
  the invariant is that every final row is a copy of the decider's.
* Of `Coordination`, `IInv` adds two parts to the types. `TermsAreGranted`: a term
  was granted once and is at most the counter, and the terms a lease, a read lease
  and the status of a leader carry were granted to the node they name.
  `LeaseIsOwn`: a node that finds itself on the lease when it verifies had read a
  lease that names it. The second is what the unconditional Set of the lease
  needs: it overwrites the lease of a successor, but with its own id and term.
* Of `FaultState`, the invariant adds `SnapshotHolds`: a snapshot that makes
  `reconcile` report HEALTHY is still true as long as the state is REJOINED,
  because to forget the catch-up the node has to leave REJOINED, and only
  `reconcile` brings it back.
* For `QuorumHolds`, `Counted` follows the acknowledgements of a handler: who is
  in `acks` is a follower and has the row, the node itself is no follower of its
  own and has the row from its local append on, and a handler past its decision
  had the quorum. That rows stay (`RowsStay`, from `StoreStep`) keeps it; that a
  quorum with the node itself is more than half is then arithmetic on
  cardinalities.
* For `IndexSplitNeedsTwoTerms`, `OneWriter` looks at the payments of one id at one
  node. Their handlers hold the mutex one at a time; once one has written its index,
  to a table or into an append that is on its way, the node's own table has the
  payment and none of the others goes past its ledger check; so at most one writes.
  A handler that died leaves appends behind, which is why messages count as
  written. Two indexes of one payment then have two handlers at two nodes, and with
  `TermInv` two terms. `IndexAgreement`, one index under one possible leader, is a
  corollary (`OneLeaderOneIndex`).
* For `DivergenceNeedsTwoTerms`, `TermInv` follows the terms of a node, those of
  its lease, of a status that says LEADER and of the handlers it has run: none is
  above that of `/term`, and no two nodes have one in common but 0, because a term is
  granted with the lease. `Origins` says where final rows come from: a handler
  of the payment that got an index, and whose node holds the same status. Two
  statuses of one payment then have two handlers at two nodes, a table having one
  row for it, hence two terms. The theorem has no hypothesis: it bounds what
  `divergence_after_failover` shows.
* For `FencedTerms` without expiry, `Undisputed` says that a node whose status says
  LEADER holds the lease in its live session, and that a handler which may still
  get an index has the term of that lease, the highest. A session that ends while
  its process lives lets a handler of an old term go on, and a half-failed
  acquisition makes one of term 0; the theorem excludes these two faults only.
* For `LeaseImplementsLeadership`, `LeaseIsGranted`: the term of a lease, unless 0,
  was granted to its holder, whether its session still lives or not. A refresh of
  the status is then a claim of a granted term or a step down, an acquisition a
  grant, and every other step leaves terms alone and at most makes nodes forget
  their role.
* For `CommittedOnMajority` in a reliable cluster, `Running` says that every process
  runs and the lease belongs to a session that lasts, and `Assembled` that all nodes
  are registered and a handler past `GetFollowerURLs` has every other node in its
  list, so the quorum of `DecidedByMajority` is one of the whole cluster. `Assembled`
  does not hold at the start, where nobody is registered, and need never come to
  hold while handlers work with an old list; once it does it stays, and from then on
  every new commit is on a majority. What was committed alone before is the
  hypothesis `CommittedOnMajority` inside the box, and `solitary_commit` shows that
  it cannot be dropped. Each of the three faults that the theorem excludes breaks
  the property by itself, in small instances that TLC refutes.
* For `AnsweredIsFinal`, an answer after the local append comes with a decision at
  the node or with `FailByPaymentID`, which fails only with a cancelled context; a
  row that is final stays so. Requests whose client has gone and cancellations are
  the ones that may leave a row PENDING.
* Of `Coordination` without expiry, `Steady` says that the session of a live
  process is open, that the lease is owned by the node it names, and that whoever
  leads, or is about to change the lease or the term, is alive and holds the
  lease. With crashes alone, `Remembered` adds that the candidate of a live session
  is the one its node remembers. They mark off the two ways in which
  `LeaderUnlessStuck` lets the cluster stay without a leader, and what
  `election_stuck` needs.
* Of `FaultState`, `FailedIsLost` and `LatestTells` give `HandledIsReported`: the
  state is FAILED exactly when the event handled last was bad, because only the
  event loop enters or leaves FAILED; and the latest event, queued or handled, is
  bad exactly when there is no connection.
* Of `Routing`, every frame has a part in the invariant. `StripeAsked`: a
  finalization past the Stripe check, at whatever hop, is about a session
  somebody saw paid, and a session does not become unpaid. `TrueAnswer`: a frame
  that has an OK has it from a table that holds the decision, and passes it on
  unchanged. `PaidAnswer`: a finalization that has an OK had its session paid.
  `Placed` says where a frame can be, which the others need. `PaidInv` then follows
  COMMITTED to the first table that has it: a handler decided it whose request is a
  finalization past Stripe or a direct payment, and the frame of a direct payment's
  client is never given up, so `PaidDirectly` lasts (`RootsRemain`).
* For `PaymentMutex` an id has to mean one handler. `TreeInv` says so: a call under
  way was opened by each frame above it that is still there (`OpenedOnce`), in an
  attempt that frame will not make again, and the frame of the gateway stays
  (`RootsStay`). A new call therefore never takes the id of one that goes on
  unobserved, which the mutex may be held by.

Only model-checked: liveness (`RequestAnswered`, `CatchUpProgress`, `HandlersEnd`,
`StaleLeaderStepsDown`, `MemberReturns`, `LeaderUnlessStuck`, `CutOffHasNoRole`,
`Recovers`), which rests on fairness and ENABLED and is out of reach of the prover.
The violation runs refute what they check. Inductions over data and RECURSIVE
operators are out of its reach too; the models use neither.

## Not modelled

* Time synchronisation (`internal/timesync`): the Lamport clock, the skew tracker
  and the validation of timestamps. No decision about a payment depends on them:
  a rejection for skew is an append that never reaches the store, and logical
  time orders lists. A restart sets the clock to 0, so such a list may show a
  later payment first.
* Amounts, currencies and other payload fields, the unit amount sent to Stripe
  among them (`stripe.go:70` truncates it).
* `ListPayments` and the status, ledger, events and cluster endpoints only read.
* Restarts in `Routing`: a node that is back knows no leader and refuses until it
  does. Replication and coordination have them.
* Disk failures of SQLite other than a cancelled context, and loss of a table.
* The admin panel (it runs docker commands: `Crash` and `Restart` here), the web
  client (one that leaves is `ClientGone`), scripts and deployment files.
