------------------------------ MODULE Routing ------------------------------
(***************************************************************************)
(* How a request about one payment reaches the node that decides it: the   *)
(* gateway looks for the leader and calls it, or a client calls a node     *)
(* itself; a node that does not lead calls the node it believes does,      *)
(* every caller gives up after a while and may try another node, and       *)
(* nobody tells apart a late answer from a lost one.  The ledgers change   *)
(* as PaymentLedger allows, which Replication implements; what a node      *)
(* believes changes as Coordination lets it.                               *)
(*                                                                         *)
(* A call is a frame, named by its request and the attempts that led to    *)
(* it: <<>> is the gateway's own, <<2>> the one its second attempt opened  *)
(* at a node, <<2, 1>> the one that node opened at the next.  A client     *)
(* that calls a node itself stands where the gateway does, and makes what  *)
(* would be the second attempt only.                                       *)
(***************************************************************************)
EXTENDS Naturals, Sequences, FiniteSets

CONSTANTS Node, Request, Payment, None,
          Op,          \* Op[r]: what request r asks, of the gateway or (pay) of a node
          FirstLeader, \* the node that leads at the start
          Loads,       \* bound: the requests that may come together
          MaxHops,     \* bound: nodes one attempt of the gateway may pass
          MaxChanges,  \* bound: changes of what a node believes
          MaxCrashes,  \* bound: crashes
          MaxTimeouts  \* bound: calls cut although they would be answered

ASSUME RoutingAssumption ==
  /\ Op \in [Request -> {"finalize", "cancel", "pay"}]
  /\ FirstLeader \in Node
  /\ None \notin Node
  /\ Loads \subseteq SUBSET Request
  /\ MaxHops \in Nat
  /\ MaxChanges \in Nat /\ MaxCrashes \in Nat /\ MaxTimeouts \in Nat

VARIABLES
  ledger,    \* ledger[n][p]: the status of p in the table of n
  session,   \* the checkout session of the payment at Stripe
  belief,    \* belief[n]: the role and leader URL that n remembers
  up,        \* the nodes whose process runs
  frame,     \* the calls that somebody waits for or works on
  lock,      \* lock[n]: the frame that holds the payment's mutex at n
  changes, crashes, timeouts

vars == <<ledger, session, belief, up, frame, lock, changes, crashes, timeouts>>
nodes == <<belief, up, changes, crashes>>
rest == <<nodes, timeouts>>

Ledger == INSTANCE PaymentLedger
            WITH PaymentID <- {Payment}, Decider <- Node, status <- ledger

Belief == {b \in [leads : BOOLEAN, url : Node \cup {None}] : b.leads => b.url # None}

Path == UNION {[1 .. k -> {1, 2}] : k \in 0 .. MaxHops}
Id   == [req : Request, path : Path]

\* A mutex that nobody holds is not held by a call.
ASSUME NoneIsNoCall == None \notin Id

Frame == [at   : Node \cup {None},        \* None is the gateway or the client
          pc   : {"find", "stripe", "lock", "route", "called",
                  "check", "record", "decide", "ended"},
          url  : Node \cup {None},        \* the node called last
          try  : 1 .. 2,
          gone : BOOLEAN,                 \* nobody waits for the answer
          ans  : {"none", "OK", "refused", "error"}]

Open(n, pc) == [at |-> n, pc |-> pc, url |-> None, try |-> 1, gone |-> FALSE, ans |-> "none"]

Init ==
  /\ ledger = [n \in Node |-> [p \in {Payment} |-> "ABSENT"]]
  /\ session = "none"
  /\ belief = [n \in Node |-> [leads |-> n = FirstLeader, url |-> FirstLeader]]
  /\ up = Node
  /\ frame = <<>>
  /\ lock = [n \in Node |-> None]
  /\ changes = 0 /\ crashes = 0 /\ timeouts = 0

-----------------------------------------------------------------------------
(* Frames                                                                  *)

Active    == DOMAIN frame
Child(id) == [id EXCEPT !.path = Append(@, frame[id].try)]
Parent(id) == [id EXCEPT !.path = SubSeq(@, 1, Len(@) - 1)]
At(id, pc) == id \in Active /\ frame[id].pc = pc
Serves(id) == ~frame[id].gone       \* store and HTTP calls use the request context

\* The frames of ids, with id as f, and those of lost no longer waited for.
Frames(ids, id, f, lost) ==
  [x \in ids |-> IF x = id THEN f
                  ELSE IF x \in lost THEN [frame[x] EXCEPT !.gone = TRUE] ELSE frame[x]]

\* What stays when the frames of lost are given up: an answered one goes, one
\* at work goes on with its context cancelled.
Kept(lost) == Active \ {y \in lost : At(y, "ended")}

\* [mutant of Unlock] an early return forgets the mutex.
UnlockIfOK(id, a) ==
  lock' = [n \in Node |-> IF lock[n] = id /\ a = "OK" THEN None ELSE lock[n]]

\* [mutant of Unlock] every handler unlocks, whether or not it has locked.
UnlockUnowned(id, a) ==
  lock' = [n \in Node |-> IF n = frame[id].at THEN None ELSE lock[n]]

Unlock(id, a) == lock' = [n \in Node |-> IF lock[n] = id THEN None ELSE lock[n]]

\* The handler of id returns.  An answer nobody waits for is dropped.
Return(id, a, lost) ==
  /\ Unlock(id, a)
  /\ LET f == [frame[id] EXCEPT !.pc = "ended", !.ans = a]
     IN  frame' = Frames(Kept(lost) \ (IF f.gone THEN {id} ELSE {}), id, f, lost)

Goto(id, pc) == frame' = [frame EXCEPT ![id].pc = pc]

\* Processed as a payment: a finalization, or a POST /pay.
IsPayment(id) == Op[id.req] # "cancel"

\* Where the handler of a call starts: a finalization enters at the Stripe
\* check, and is handed on as the POST /pay that a client may make as well.
Entry(id) == IF ~IsPayment(id) THEN "route"
             ELSE IF Op[id.req] = "finalize" /\ id.path = <<>> THEN "stripe" ELSE "lock"

\* id calls node u, in its attempt k, having given up the frames of lost.
\* Without a node that listens, or with a cancelled context, no frame opens.
Call(id, u, k, lost) ==
  LET f == [frame[id] EXCEPT !.pc = "called", !.url = u, !.try = k]
      c == [id EXCEPT !.path = Append(@, k)]
      opens == u \in up /\ Serves(id) /\ Len(id.path) < MaxHops
      after == Frames(Kept(lost), id, f, lost)
  IN  /\ frame' = [x \in DOMAIN after \cup (IF opens THEN {c} ELSE {}) |->
                     IF x = c THEN Open(u, Entry(id)) ELSE after[x]]
      /\ UNCHANGED lock

-----------------------------------------------------------------------------
(* The gateway                                                             *)

\* A client asks.  Only a created session can be finalized.
Arrive(r) ==
  LET id == [req |-> r, path |-> <<>>]
  IN  /\ id \notin Active
      /\ \E load \in Loads : {r} \cup {x.req : x \in Active} \subseteq load
      /\ Op[r] = "finalize" => session # "none"
      /\ frame' = Frames(Active \cup {id}, id, Open(None, "find"), {})
      /\ UNCHANGED <<ledger, session, lock, rest>>

\* The second look sends again only when it finds another node.
Resend(id, u) ==
  IF u = frame[id].url THEN Return(id, "error", {})
                       ELSE Call(id, u, frame[id].try, {})

\* Any node that answers and knows a leader decides the look: the ones before
\* it in the list may be down or slow.
FindLeader(id) ==
  /\ At(id, "find") /\ Op[id.req] # "pay"
  /\ \/ \E n \in up : belief[n].url # None /\ Resend(id, belief[n].url)
     \/ Return(id, "error", {})
  /\ UNCHANGED <<ledger, session, rest>>

\* The client of a POST /pay calls a node of its choice, once.
PayDirectly(id) ==
  /\ At(id, "find") /\ Op[id.req] = "pay"
  /\ \E n \in Node : Call(id, n, 2, {})
  /\ UNCHANGED <<ledger, session, rest>>

-----------------------------------------------------------------------------
(* Calls                                                                   *)

\* [mutant of Answered] the status code of the answer is not looked at.
AnsweredAsOK(id) == "OK"

\* The code and body of an answer are passed on.
Answered(id) == frame[Child(id)].ans

CallAnswered(id) ==
  /\ At(id, "called")
  /\ At(Child(id), "ended")
  /\ Return(id, Answered(id), {Child(id)})
  /\ UNCHANGED <<ledger, session, rest>>

\* [mutant of Latest] the leader is called again and again.
LatestAlways(id) == {u \in {belief[frame[id].at].url} \ {None} : IsPayment(id)}

\* Where a payment is sent after its first call failed.
Latest(id) ==
  {u \in {belief[frame[id].at].url} \ {None} :
     IsPayment(id) /\ frame[id].try = 1 /\ u # frame[id].url}

\* The connection was refused or broke, the context of the request is gone, or
\* the timeout of the HTTP client is over.
CallBreaks(id) ==
  \/ (Child(id) \notin Active \/ ~Serves(id) \/ At(Child(id), "lock")) /\ UNCHANGED timeouts
  \/ /\ Serves(id) /\ Child(id) \in Active /\ ~At(Child(id), "lock")
     /\ timeouts < MaxTimeouts
     /\ timeouts' = timeouts + 1

\* The caller tries again or gives up.  What it had called goes on alone.
CallFails(id) ==
  /\ At(id, "called")
  /\ CallBreaks(id)
  /\ LET lost == {Child(id)} \cap Active
     IN  IF frame[id].at = None
           THEN IF frame[id].try = 1
                  THEN /\ frame' = Frames(Kept(lost), id,
                                    [frame[id] EXCEPT !.pc = "find", !.try = 2], lost)
                       /\ UNCHANGED lock
                  ELSE Return(id, "error", lost)
           ELSE \/ \E u \in Latest(id) : Call(id, u, frame[id].try + 1, lost)
                \/ Latest(id) = {} /\ Return(id, "refused", lost)
  /\ UNCHANGED <<ledger, session, nodes>>

-----------------------------------------------------------------------------
(* A handler at a node                                                     *)

\* [mutant of Paid] a session that exists counts as paid.
PaidOrOpen == session # "none"

Paid == session = "paid"

\* GetCheckoutSession and the check that the session is paid.
CallStripe(id) ==
  /\ At(id, "stripe")
  /\ \/ Serves(id) /\ Paid /\ Goto(id, "lock") /\ UNCHANGED lock
     \/ Return(id, "refused", {})
  /\ UNCHANGED <<ledger, session, rest>>

\* The wait for the mutex does not look at the context.
LockPaymentID(id) ==
  /\ At(id, "lock")
  /\ lock[frame[id].at] = None
  /\ lock' = [lock EXCEPT ![frame[id].at] = id]
  /\ Goto(id, "route")
  /\ UNCHANGED <<ledger, session, rest>>

Route(id) ==
  /\ At(id, "route")
  /\ LET b == belief[frame[id].at]
     IN  \/ b.leads /\ Goto(id, "check") /\ UNCHANGED lock
         \/ ~b.leads /\ b.url # None /\ Call(id, b.url, 1, {})
         \/ ~b.leads /\ b.url = None /\ Return(id, "refused", {})
  /\ UNCHANGED <<ledger, session, rest>>

Row(id) == ledger[frame[id].at][Payment]

Verdict(id) == IF IsPayment(id) THEN "COMMITTED" ELSE "CANCELED"

\* The leader looks at its table before it asks for a log index.  A payment
\* finds nothing it could process in any row but a cancelled one, which it will
\* not be able to commit; a cancellation goes on from a pending row too.
CheckLedger(id) ==
  /\ At(id, "check")
  /\ \/ Serves(id) /\ Row(id) = Verdict(id) /\ Return(id, "OK", {})
     \/ /\ Serves(id)
        /\ Row(id) \in {"ABSENT", IF IsPayment(id) THEN "CANCELED" ELSE "PENDING"}
        /\ Goto(id, "record") /\ UNCHANGED lock
     \/ Return(id, "refused", {})
  /\ UNCHANGED <<ledger, session, rest>>

\* FailByPaymentID in the table of the handler's node.
Fail(id) == Serves(id) /\ Ledger!Decide(frame[id].at, Payment, "FAILED")

\* The local append.  A row that is there by now serves as well as a new one.
RecordPayment(id) ==
  /\ At(id, "record")
  /\ \/ /\ Serves(id)
        /\ \/ Ledger!Record(frame[id].at, Payment)
           \/ Row(id) # "ABSENT" /\ UNCHANGED ledger
        /\ Goto(id, "decide") /\ UNCHANGED lock
     \/ IsPayment(id) /\ Fail(id) /\ Return(id, "refused", {})
     \/ Return(id, "refused", {}) /\ UNCHANGED ledger
  /\ UNCHANGED <<session, rest>>

\* With a quorum the leader decides and answers, without one a payment fails.
Decide(id) ==
  /\ At(id, "decide")
  /\ \/ /\ Serves(id)
        /\ \/ Ledger!Decide(frame[id].at, Payment, Verdict(id))
           \/ Row(id) = Verdict(id) /\ UNCHANGED ledger
        /\ Return(id, "OK", {})
     \/ IsPayment(id) /\ Fail(id) /\ Return(id, "refused", {})
     \/ Return(id, "refused", {}) /\ UNCHANGED ledger
  /\ UNCHANGED <<session, rest>>

HandlerStep(id) ==
  \/ FindLeader(id) \/ PayDirectly(id) \/ CallAnswered(id) \/ CallFails(id)
  \/ CallStripe(id) \/ LockPaymentID(id) \/ Route(id)
  \/ CheckLedger(id) \/ RecordPayment(id) \/ Decide(id)

-----------------------------------------------------------------------------
(* Around the handlers                                                     *)

\* A node asks Stripe for a session, whatever its role.
CreateCheckoutSession ==
  /\ up # {} /\ session = "none"
  /\ session' = "open"
  /\ UNCHANGED <<ledger, frame, lock, rest>>

\* The customer pays at Stripe.
PayAtStripe ==
  /\ session = "open"
  /\ session' = "paid"
  /\ UNCHANGED <<ledger, frame, lock, rest>>

\* A call of a leader, or catch-up, reaches the table of another node.
Replicated(n) ==
  /\ \/ (\E m \in Node : ledger[m][Payment] # "ABSENT") /\ Ledger!Record(n, Payment)
     \/ \E s \in Ledger!FinalStatus : Ledger!Learn(n, Payment, s)
  /\ UNCHANGED <<session, frame, lock, rest>>

\* Coordination changes the status a node remembers.
BeliefChanges(n) ==
  /\ n \in up /\ changes < MaxChanges
  /\ \E b \in {x \in Belief : x.leads => x.url = n} \ {belief[n]} :
       belief' = [belief EXCEPT ![n] = b]
  /\ changes' = changes + 1
  /\ UNCHANGED <<ledger, session, frame, lock, up, crashes, timeouts>>

\* Calls served at n break, calls made from n are no longer waited for.  Restarts
\* are left out: a node that is back refuses everything until it has a leader.
Crash(n) ==
  /\ n \in up /\ crashes < MaxCrashes
  /\ crashes' = crashes + 1
  /\ up' = up \ {n}
  /\ lock' = [lock EXCEPT ![n] = None]
  /\ LET orphan(x) == /\ x.path # <<>> /\ Parent(x) \in Active
                      /\ frame[Parent(x)].at = n
     IN  frame' = [x \in {y \in Active : frame[y].at # n /\ ~(orphan(y) /\ At(y, "ended"))} |->
                     IF orphan(x) THEN [frame[x] EXCEPT !.gone = TRUE] ELSE frame[x]]
  /\ UNCHANGED <<ledger, session, belief, changes, timeouts>>

Next == \/ \E r \in Request : Arrive(r)
        \/ \E id \in Active : HandlerStep(id)
        \/ CreateCheckoutSession \/ PayAtStripe
        \/ \E n \in Node : Replicated(n) \/ BeliefChanges(n) \/ Crash(n)

Spec == Init /\ [][Next]_vars

\* Goroutines run, and every call ends by the timeout of its HTTP client.
Fairness == WF_vars(\E id \in Active : HandlerStep(id))

FairSpec == Spec /\ Fairness

-----------------------------------------------------------------------------
(* Properties                                                              *)

\* Every reachable state is well typed; no call is tried a third time
\* (forwardToLeader, processPaymentRequest).
TypeOK ==
  /\ ledger \in [Node -> [{Payment} -> {"ABSENT", "PENDING"} \cup Ledger!FinalStatus]]
  /\ session \in {"none", "open", "paid"}
  /\ belief \in [Node -> Belief]
  /\ up \subseteq Node
  /\ Active \subseteq Id
  /\ frame \in [Active -> Frame]
  /\ lock \in [Node -> Id \cup {None}]
  /\ changes \in 0 .. MaxChanges /\ crashes \in 0 .. MaxCrashes
  /\ timeouts \in 0 .. MaxTimeouts

\* An OK, however many hops, failed attempts and retries it came through, is
\* about something that happened: a finalized payment is COMMITTED in some
\* table, a cancelled one CANCELED.
AnswersAreTrue ==
  \A id \in Active :
    frame[id].ans = "OK" => \E n \in Node : ledger[n][Payment] = Verdict(id)

\* A client has asked a node itself to process the payment.
PaidDirectly == \E id \in Active : id.path = <<>> /\ Op[id.req] = "pay"

\* No table says COMMITTED before the customer paid at Stripe, although only the
\* first node of a finalization asks Stripe and hands on a plain POST /pay
\* (stripeFinalizeCheckoutSessionHandler), unless a client has sent such a POST
\* /pay of its own, which nobody checks (payHandler); and no finalization is
\* answered OK before the customer paid, whoever committed the payment.
CommittedIsPaid ==
  /\ (\E n \in Node : ledger[n][Payment] = "COMMITTED") => session = "paid" \/ PaidDirectly
  /\ \A id \in Active : Op[id.req] = "finalize" /\ frame[id].ans = "OK" => session = "paid"

\* id works on a payment at its node, past lockPaymentID.
Works(id) ==
  /\ id \in Active /\ IsPayment(id) /\ id.path # <<>>
  /\ frame[id].pc \in {"route", "called", "check", "record", "decide"}

\* At a node one handler at a time works on the payment, though retries and
\* calls in a circle bring the same request there again while the first handler
\* goes on unobserved; and nobody leaves the mutex locked who has answered, was
\* given up or crashed with its node (processPaymentRequest, lockPaymentID).
PaymentMutex ==
  /\ \A id \in Active : Works(id) => lock[frame[id].at] = id
  /\ \A n \in Node : lock[n] # None => Works(lock[n]) /\ frame[lock[n]].at = n

\* Every handler ends and every request gets its answer, also when a call leads
\* back to the node that makes it, while it holds the mutex of the payment the
\* call waits for (forwardToLeader, processPaymentRequest, lockPaymentID).
HandlersEnd == <>[](\A id \in Active : At(id, "ended"))
=============================================================================
