--------------------------- MODULE RoutingProofs ---------------------------
(***************************************************************************)
(* Proofs about Routing, for any number of nodes, requests, hops, changes  *)
(* of leader, crashes and timeouts.                                        *)
(***************************************************************************)
EXTENDS Routing, SequenceTheorems, TLAPS

\* Some table has status s for the payment.
Has(s) == \E n \in Node : ledger[n][Payment] = s

\* The frames of the gateway are the roots, all others are at a node.
Placed(id) == IF id.path = <<>> THEN frame[id].pc \in {"find", "called", "ended"}
                                ELSE frame[id].at \in Node

\* Whoever works on a finalization, past the Stripe check of the node that
\* received it from the gateway, does so after somebody saw the session paid.
StripeAsked(id) ==
  Op[id.req] = "finalize" /\ id.path # <<>> /\ frame[id].pc \notin {"stripe", "ended"}
    => session = "paid"

TrueAnswer(id) == frame[id].ans = "OK" => Has(Verdict(id))

\* No finalization is answered OK unless somebody saw the session paid.
PaidAnswer(id) == Op[id.req] = "finalize" /\ frame[id].ans = "OK" => session = "paid"

FrameInv(id) == Placed(id) /\ StripeAsked(id) /\ TrueAnswer(id) /\ PaidAnswer(id)

FrameType == frame \in [Active -> Frame] /\ Active \subseteq Id

FramesInv ==
  FrameType /\ lock \in [Node -> Id \cup {None}] /\ \A x \in Active : FrameInv(x)

LedgerType == ledger \in [Node -> [{Payment} -> {"ABSENT", "PENDING"} \cup Ledger!FinalStatus]]

Others ==
  /\ LedgerType
  /\ session \in {"none", "open", "paid"}
  /\ belief \in [Node -> Belief]
  /\ up \subseteq Node
  /\ changes \in 0 .. MaxChanges /\ crashes \in 0 .. MaxCrashes
  /\ timeouts \in 0 .. MaxTimeouts

IInv == Others /\ FramesInv

-----------------------------------------------------------------------------
(* Ids                                                                     *)

LEMMA RootPath == <<>> \in Path
<1>1. << >> \in [1 .. 0 -> {1, 2}]
  OBVIOUS
<1>2. 0 \in 0 .. MaxHops
  BY RoutingAssumption
<1> QED
  BY <1>1, <1>2 DEF Path

LEMMA LongerPath ==
  ASSUME NEW path \in Path, NEW k \in {1, 2}
  PROVE  /\ Append(path, k) # <<>>
         /\ Len(path) < MaxHops => Append(path, k) \in Path
<1>1. PICK j \in 0 .. MaxHops : path \in [1 .. j -> {1, 2}]
  BY DEF Path
<1>2. j \in Nat /\ path \in Seq({1, 2}) /\ Len(path) = j
  BY <1>1
<1>3. Append(path, k) \in [1 .. j + 1 -> {1, 2}] /\ Append(path, k) # <<>>
  <2>1. Append(path, k) \in Seq({1, 2}) /\ Len(Append(path, k)) = j + 1
    BY <1>2
  <2>2. Append(path, k) \in [1 .. Len(Append(path, k)) -> {1, 2}]
    BY <2>1, LenProperties
  <2>3. Append(path, k) # <<>>
    BY <1>2, AppendProperties
  <2> QED
    BY <2>1, <2>2, <2>3
<1>4. Len(path) < MaxHops => j + 1 \in 0 .. MaxHops
  BY <1>2, RoutingAssumption
<1> QED
  BY <1>3, <1>4 DEF Path

\* The call that a frame opens is about the same request, one hop further.
LEMMA CalledId ==
  ASSUME NEW id \in Id, NEW k \in {1, 2}
  PROVE  /\ [id EXCEPT !.path = Append(@, k)].req = id.req
         /\ [id EXCEPT !.path = Append(@, k)].path # <<>>
         /\ Len(id.path) < MaxHops => [id EXCEPT !.path = Append(@, k)] \in Id
<1>1. id.path \in Path /\ id.req \in Request
  BY DEF Id
<1>2. [id EXCEPT !.path = Append(@, k)] = [req |-> id.req, path |-> Append(id.path, k)]
  BY DEF Id
<1> QED
  BY <1>1, <1>2, LongerPath DEF Id

-----------------------------------------------------------------------------
(* What a step does to the frames                                          *)

\* x has the place, the step and the answer of g.
Keeps(x, g) == x.at = g.at /\ x.pc = g.pc /\ x.ans = g.ans

\* Frame x is what it was, but that nobody may wait for it any more.
Same(x) == x \in Active /\ Keeps(frame'[x], frame[x])

\* Frame id goes on at pc with answer a.
Moves(id, pc, a) ==
  frame'[id].at = frame[id].at /\ frame'[id].pc = pc /\ frame'[id].ans = a

LEMMA FramesStep ==
  ASSUME FrameType, NEW xs, NEW i, NEW fr \in Frame, NEW ls,
         xs \subseteq Active \cup {i}
  PROVE  /\ Frames(xs, i, fr, ls) \in [xs -> Frame]
         /\ \A x \in xs : \/ x = i /\ Frames(xs, i, fr, ls)[x] = fr
                          \/ x \in Active /\ Keeps(Frames(xs, i, fr, ls)[x], frame[x])
<1>1. \A x \in Active : frame[x] \in Frame
  BY DEF FrameType
<1>2. \A x \in Active : /\ [frame[x] EXCEPT !.gone = TRUE] \in Frame
                        /\ Keeps([frame[x] EXCEPT !.gone = TRUE], frame[x])
  BY <1>1 DEF Frame, Keeps
<1>3. \A x \in Active : Keeps(frame[x], frame[x])
  BY DEF Keeps
<1> DEFINE fs == Frames(xs, i, fr, ls)
<1>4. fs = [x \in xs |-> IF x = i THEN fr
                          ELSE IF x \in ls THEN [frame[x] EXCEPT !.gone = TRUE] ELSE frame[x]]
  BY DEF Frames
<1> HIDE DEF fs
<1>5. \A x \in xs : fs[x] \in Frame
  BY <1>1, <1>2, <1>4
<1>6. fs \in [xs -> Frame]
  BY <1>4, <1>5
<1>7. \A x \in xs : (x = i /\ fs[x] = fr) \/ (x \in Active /\ Keeps(fs[x], frame[x]))
  <2> SUFFICES ASSUME NEW x \in xs, x # i PROVE x \in Active /\ Keeps(fs[x], frame[x])
    BY <1>4 DEF Keeps
  <2>1. x \in Active
    OBVIOUS
  <2>2. CASE x \in ls
    BY <1>2, <1>4, <2>1, <2>2
  <2>3. CASE x \notin ls
    BY <1>3, <1>4, <2>1, <2>3
  <2> QED
    BY <2>1, <2>2, <2>3
<1> QED
  BY <1>6, <1>7 DEF fs

LEMMA ReturnStep ==
  ASSUME FrameType, NEW id \in Active, NEW a \in {"OK", "refused", "error", "none"}, NEW lost,
         Return(id, a, lost)
  PROVE  /\ FrameType'
         /\ \A x \in Active' : Same(x) \/ (x = id /\ Moves(id, "ended", a))
         /\ lock \in [Node -> Id \cup {None}] => lock' \in [Node -> Id \cup {None}]
<1> DEFINE f   == [frame[id] EXCEPT !.pc = "ended", !.ans = a]
           ids == Kept(lost) \ (IF f.gone THEN {id} ELSE {})
<1>1. frame[id] \in Frame
  BY DEF FrameType
<1>2. f.at = frame[id].at /\ f.pc = "ended" /\ f.ans = a
  BY <1>1 DEF Frame
<1>3. f \in Frame
  BY <1>1 DEF Frame
<1>4. ids \subseteq Active
  BY DEF Kept
<1>5. frame' = Frames(ids, id, f, lost)
  BY DEF Return
<1> HIDE DEF ids, f
<1>6. ids \subseteq Active \cup {id}
  BY <1>4
<1>7. frame' \in [ids -> Frame]
  BY <1>3, <1>5, <1>6, FramesStep
<1>8. \A x \in ids : (x = id /\ frame'[x] = f) \/ (x \in Active /\ Keeps(frame'[x], frame[x]))
  BY <1>3, <1>5, <1>6, FramesStep
<1>9. Active' = ids
  BY <1>7 DEF Active
<1>10. FrameType'
  BY <1>4, <1>7, <1>9 DEF FrameType
<1>11. lock' = [n \in Node |-> IF lock[n] = id THEN None ELSE lock[n]]
  BY DEF Return, Unlock
<1>12. \A x \in Active' : Same(x) \/ (x = id /\ Moves(id, "ended", a))
  <2> SUFFICES ASSUME NEW x \in ids PROVE Same(x) \/ (x = id /\ Moves(id, "ended", a))
    BY <1>9
  <2>1. CASE x = id /\ frame'[x] = f
    BY <1>2, <2>1 DEF Moves
  <2>2. CASE x \in Active /\ Keeps(frame'[x], frame[x])
    BY <2>2 DEF Same, Keeps
  <2> QED
    BY <1>8, <2>1, <2>2
<1>13. lock \in [Node -> Id \cup {None}] => lock' \in [Node -> Id \cup {None}]
  BY <1>11
<1> QED
  BY <1>10, <1>12, <1>13

LEMMA GotoStep ==
  ASSUME FrameType, NEW id \in Active, Goto(id, "lock") \/ Goto(id, "route")
           \/ Goto(id, "check") \/ Goto(id, "record") \/ Goto(id, "decide")
  PROVE  /\ FrameType' /\ Active' = Active
         /\ \A x \in Active' : Same(x) \/ x = id
         /\ frame'[id].at = frame[id].at /\ frame'[id].ans = frame[id].ans
         /\ \A pc : Goto(id, pc) => frame'[id].pc = pc
<1>1. \A x \in Active : frame[x] \in Frame
  BY DEF FrameType
<1>2. PICK pc \in {"lock", "route", "check", "record", "decide"} : Goto(id, pc)
  OBVIOUS
<1>3. frame' = [frame EXCEPT ![id] = [frame[id] EXCEPT !.pc = pc]]
  BY <1>2 DEF Goto, FrameType
<1>4. [frame[id] EXCEPT !.pc = pc] \in Frame
  BY <1>1 DEF Frame
<1>5. frame' \in [Active -> Frame] /\ Active' = Active
  BY <1>3, <1>4 DEF FrameType, Active
<1>6. FrameType'
  BY <1>5 DEF FrameType
<1>7. \A x \in Active \ {id} : frame'[x] = frame[x]
  BY <1>3 DEF FrameType
<1>8. frame'[id] = [frame[id] EXCEPT !.pc = pc]
  BY <1>3 DEF FrameType
<1>9. frame'[id].at = frame[id].at /\ frame'[id].ans = frame[id].ans /\ frame'[id].pc = pc
  BY <1>1, <1>8 DEF Frame
<1>10. ASSUME NEW q, Goto(id, q) PROVE frame'[id].pc = q
  <2>1. frame'[id] = [frame[id] EXCEPT !.pc = q]
    BY <1>10 DEF Goto, FrameType
  <2> QED
    BY <1>1, <2>1 DEF Frame
<1> QED
  BY <1>5, <1>6, <1>7, <1>9, <1>10 DEF Same, Keeps

LEMMA CallStep ==
  ASSUME FrameType, NEW id \in Active, NEW u \in Node, up \subseteq Node,
         NEW k \in {1, 2}, NEW lost, Call(id, u, k, lost)
  PROVE  /\ FrameType' /\ lock' = lock
         /\ \A x \in Active' :
              \/ Same(x)
              \/ x = id /\ Moves(id, "called", frame[id].ans)
              \/ /\ x.req = id.req /\ x.path # <<>>
                 /\ frame'[x] = Open(u, Entry(id))
<1> DEFINE f == [frame[id] EXCEPT !.pc = "called", !.url = u, !.try = k]
           c == [id EXCEPT !.path = Append(@, k)]
           opens == u \in up /\ Serves(id) /\ Len(id.path) < MaxHops
           after == Frames(Kept(lost), id, f, lost)
<1>1. frame[id] \in Frame /\ id \in Id
  BY DEF FrameType
<1>2. f.at = frame[id].at /\ f.pc = "called" /\ f.ans = frame[id].ans
  BY <1>1 DEF Frame
<1>3. f \in Frame
  <2>1. k \in 1 .. 2
    OBVIOUS
  <2> QED
    BY <1>1, <2>1 DEF Frame
<1>4. Kept(lost) \subseteq Active \cup {id}
  BY DEF Kept
<1>5. frame' = [x \in DOMAIN after \cup (IF opens THEN {c} ELSE {}) |->
                  IF x = c THEN Open(u, Entry(id)) ELSE after[x]] /\ lock' = lock
  BY DEF Call
<1>6. c.req = id.req /\ c.path # <<>> /\ (opens => c \in Id)
  BY <1>1, CalledId
<1>7. Open(u, Entry(id)) \in Frame
  BY DEF Open, Entry, Frame
<1> HIDE DEF f, c, opens
<1>8. after \in [Kept(lost) -> Frame]
  BY <1>3, <1>4, FramesStep
<1>9. \A x \in Kept(lost) : (x = id /\ after[x] = f) \/ (x \in Active /\ Keeps(after[x], frame[x]))
  BY <1>3, <1>4, FramesStep
<1> HIDE DEF after
<1>10. frame' \in [Kept(lost) \cup (IF opens THEN {c} ELSE {}) -> Frame]
  BY <1>5, <1>7, <1>8
<1>11. Active' = Kept(lost) \cup (IF opens THEN {c} ELSE {})
  BY <1>10 DEF Active
<1>12. Active' \subseteq Id
  BY <1>4, <1>6, <1>11 DEF FrameType
<1>13. \A x \in Active' : \/ x = c /\ frame'[x] = Open(u, Entry(id))
                          \/ x \in Kept(lost) /\ frame'[x] = after[x]
  BY <1>5, <1>8, <1>11
<1>14. FrameType'
  BY <1>10, <1>11, <1>12 DEF FrameType
<1> QED
  BY <1>2, <1>5, <1>6, <1>9, <1>13, <1>14 DEF Same, Moves, Keeps
-----------------------------------------------------------------------------
(* What a step keeps of the invariant                                      *)

\* Decisions and payments at Stripe are not taken back.
Stable ==
  /\ \A s \in Ledger!FinalStatus : Has(s) => Has(s)'
  /\ session = "paid" => session' = "paid"

LEMMA VerdictIsFinal == \A id : Verdict(id) \in Ledger!FinalStatus
BY DEF Verdict, Ledger!FinalStatus

LEMMA UnchangedStable == UNCHANGED <<ledger, session>> => Stable
BY DEF Stable, Has

LEMMA SameKeeps ==
  ASSUME NEW x, Same(x), FrameInv(x), Stable
  PROVE  FrameInv(x)'
BY VerdictIsFinal
   DEF Same, Keeps, FrameInv, Placed, StripeAsked, TrueAnswer, PaidAnswer, Stable, Verdict, IsPayment

LEMMA ReturnKeeps ==
  ASSUME IInv, NEW id \in Active, NEW a \in {"OK", "refused", "error", "none"}, NEW lost,
         Return(id, a, lost), Stable, a = "OK" => Has(Verdict(id))',
         a = "OK" /\ Op[id.req] = "finalize" => session = "paid"
  PROVE  /\ FrameType' /\ lock' \in [Node -> Id \cup {None}]
         /\ \A x \in Active' : FrameInv(x)'
<1>1. FrameType /\ lock \in [Node -> Id \cup {None}]
  BY DEF IInv, FramesInv, Others
<1>2. /\ FrameType' /\ lock' \in [Node -> Id \cup {None}]
      /\ \A x \in Active' : Same(x) \/ (x = id /\ Moves(id, "ended", a))
  BY <1>1, ReturnStep
<1>3. ASSUME Moves(id, "ended", a) PROVE FrameInv(id)'
  BY <1>3 DEF Moves, IInv, FramesInv, FrameInv, Placed, StripeAsked, TrueAnswer, PaidAnswer,
              Stable, Verdict, IsPayment
<1>4. \A x \in Active' : Same(x) => FrameInv(x)'
  BY SameKeeps DEF IInv, FramesInv, Same
<1> QED
  BY <1>2, <1>3, <1>4

LEMMA CallKeeps ==
  ASSUME IInv, NEW id \in Active, frame[id].pc \notin {"stripe", "ended"},
         NEW u \in Node, NEW k \in {1, 2}, NEW lost, Call(id, u, k, lost),
         UNCHANGED <<ledger, session>>
  PROVE  /\ FrameType' /\ lock' \in [Node -> Id \cup {None}]
         /\ \A x \in Active' : FrameInv(x)'
<1>1. FrameType /\ up \subseteq Node /\ lock \in [Node -> Id \cup {None}]
  BY DEF IInv, FramesInv, Others
<1>2. /\ FrameType' /\ lock' = lock
      /\ \A x \in Active' :
           \/ Same(x)
           \/ x = id /\ Moves(id, "called", frame[id].ans)
           \/ /\ x.req = id.req /\ x.path # <<>>
              /\ frame'[x] = Open(u, Entry(id))
  BY <1>1, CallStep
<1>3. FrameInv(id)
  BY DEF IInv, FramesInv
<1>4. ASSUME Moves(id, "called", frame[id].ans) PROVE FrameInv(id)'
  BY <1>3, <1>4
     DEF Moves, FrameInv, Placed, StripeAsked, TrueAnswer, PaidAnswer, Verdict, IsPayment, Has
<1>5. ASSUME NEW x, x.req = id.req, x.path # <<>>, frame'[x] = Open(u, Entry(id))
      PROVE  FrameInv(x)'
  <2>1. frame'[x].at = u /\ frame'[x].pc = Entry(id) /\ frame'[x].ans = "none"
    BY <1>5 DEF Open
  <2>2. Placed(x)'
    BY <1>5, <2>1 DEF Placed
  <2>3. StripeAsked(x)'
    BY <1>3, <1>5, <2>1 DEF StripeAsked, Entry, IsPayment, FrameInv
  <2> QED
    BY <2>1, <2>2, <2>3 DEF FrameInv, TrueAnswer, PaidAnswer
<1>6. \A x \in Active' : Same(x) => FrameInv(x)'
  BY SameKeeps, UnchangedStable DEF IInv, FramesInv, Same
<1> QED
  BY <1>1, <1>2, <1>4, <1>5, <1>6

LEMMA GotoKeeps ==
  ASSUME IInv, NEW id \in Active, id.path # <<>>,
         NEW pc \in {"lock", "route", "check", "record", "decide"}, Goto(id, pc),
         frame[id].pc = "stripe" => session = "paid", frame[id].pc # "ended", Stable
  PROVE  FrameType' /\ \A x \in Active' : FrameInv(x)'
<1>1. FrameType /\ FrameInv(id)
  BY DEF IInv, FramesInv, Others
<1>2. /\ FrameType' /\ Active' = Active
      /\ \A x \in Active' : Same(x) \/ x = id
      /\ frame'[id].at = frame[id].at /\ frame'[id].ans = frame[id].ans
      /\ frame'[id].pc = pc
  BY <1>1, GotoStep
<1>3. \A x \in Active' : Same(x) => FrameInv(x)'
  BY SameKeeps DEF IInv, FramesInv, Same
<1>4. FrameInv(id)'
  BY <1>1, <1>2, VerdictIsFinal
     DEF FrameInv, Placed, StripeAsked, TrueAnswer, PaidAnswer, Stable, Verdict, IsPayment
<1> QED
  BY <1>2, <1>3, <1>4

LEMMA LedgerStep ==
  ASSUME LedgerType, NEW n \in Node, NEW s \in Ledger!FinalStatus,
         \/ Ledger!Record(n, Payment)
         \/ Ledger!Decide(n, Payment, s)
         \/ Ledger!Learn(n, Payment, s)
  PROVE  /\ LedgerType'
         /\ \A t \in Ledger!FinalStatus : Has(t) => Has(t)'
         /\ Ledger!Decide(n, Payment, s) => Has(s)'
         /\ Has("COMMITTED")' =>
              Has("COMMITTED") \/ (s = "COMMITTED" /\ Ledger!Decide(n, Payment, s))
<1>1. LedgerType'
  BY DEF LedgerType, Ledger!Record, Ledger!Decide, Ledger!Learn, Ledger!FinalStatus
<1>2. \A m \in Node : ledger[m][Payment] \in Ledger!FinalStatus
                        => ledger'[m][Payment] = ledger[m][Payment]
  BY DEF LedgerType, Ledger!Record, Ledger!Decide, Ledger!Learn, Ledger!FinalStatus
<1>3. Ledger!Decide(n, Payment, s) => ledger'[n][Payment] = s
  BY DEF LedgerType, Ledger!Decide
<1>4. Has("COMMITTED")' => \/ Has("COMMITTED")
                           \/ s = "COMMITTED" /\ Ledger!Decide(n, Payment, s)
  <2>1. CASE Ledger!Record(n, Payment)
    BY <2>1 DEF Has, LedgerType, Ledger!Record
  <2>2. CASE Ledger!Decide(n, Payment, s)
    BY <2>2 DEF Has, LedgerType, Ledger!Decide
  <2>3. CASE Ledger!Learn(n, Payment, s)
    BY <2>3 DEF Has, LedgerType, Ledger!Learn
  <2> QED
    BY <2>1, <2>2, <2>3
<1>5. \A t \in Ledger!FinalStatus : Has(t) => Has(t)'
  BY <1>2 DEF Has
<1>6. Ledger!Decide(n, Payment, s) => Has(s)'
  BY <1>3 DEF Has
<1> QED
  BY <1>1, <1>4, <1>5, <1>6

LEMMA OthersUnchanged ==
  ASSUME Others, UNCHANGED <<ledger, session, rest>>
  PROVE  Others'
BY DEF Others, LedgerType, rest, nodes

LEMMA ArriveStep ==
  ASSUME IInv, NEW r \in Request, Arrive(r)
  PROVE  IInv'
<1> DEFINE id == [req |-> r, path |-> <<>>]
<1>1. id \in Id /\ id.path = <<>>
  BY RootPath DEF Id
<1>2. Open(None, "find") \in Frame
  BY DEF Open, Frame
<1>3. frame' = Frames(Active \cup {id}, id, Open(None, "find"), {})
  BY DEF Arrive
<1>4. Others /\ FramesInv /\ FrameType
  BY DEF IInv, FramesInv
<1> HIDE DEF id
<1>5. /\ frame' \in [Active \cup {id} -> Frame]
      /\ \A x \in Active \cup {id} :
           \/ x = id /\ frame'[x] = Open(None, "find")
           \/ x \in Active /\ Keeps(frame'[x], frame[x])
  BY <1>2, <1>3, <1>4, FramesStep
<1>6. Active' = Active \cup {id}
  BY <1>5 DEF Active
<1>7. FrameType'
  BY <1>1, <1>4, <1>5, <1>6 DEF FrameType
<1>8. \A x \in Active' : x # id => FrameInv(x)'
  BY <1>4, <1>5, <1>6, SameKeeps, UnchangedStable DEF FramesInv, Same, Arrive
<1>9. frame'[id] = Open(None, "find") => FrameInv(id)'
  BY <1>1 DEF FrameInv, Placed, StripeAsked, TrueAnswer, PaidAnswer, Open
<1>10. Keeps(frame'[id], frame[id]) /\ id \in Active => FrameInv(id)'
  BY <1>4, SameKeeps, UnchangedStable DEF FramesInv, Same, Arrive
<1>11. FramesInv'
  BY <1>4, <1>5, <1>6, <1>7, <1>8, <1>9, <1>10 DEF FramesInv, Arrive
<1> QED
  BY <1>4, <1>11, OthersUnchanged DEF IInv, Arrive

LEMMA FindLeaderStep ==
  ASSUME IInv, NEW id \in Active, FindLeader(id)
  PROVE  IInv'
<1>1. Others /\ FramesInv /\ frame[id] \in Frame
  BY DEF IInv, FramesInv, FrameType
<1>2. UNCHANGED <<ledger, session>> /\ frame[id].pc = "find"
  BY DEF FindLeader, At
<1>3. ASSUME NEW a \in {"error"}, Return(id, a, {}) PROVE FramesInv'
  BY <1>2, <1>3, ReturnKeeps, UnchangedStable DEF FramesInv
<1>4. ASSUME NEW u \in Node, Call(id, u, frame[id].try, {}) PROVE FramesInv'
  <2>1. frame[id].try \in {1, 2}
    BY <1>1 DEF Frame
  <2> QED
    BY <1>2, <1>4, <2>1, CallKeeps DEF FramesInv
<1>5. \A n \in up : belief[n].url # None => belief[n].url \in Node
  BY <1>1 DEF Others, Belief
<1>6. FramesInv'
  BY <1>3, <1>4, <1>5 DEF FindLeader, Resend
<1> QED
  BY <1>1, <1>6, OthersUnchanged DEF IInv, FindLeader

LEMMA PayDirectlyStep ==
  ASSUME IInv, NEW id \in Active, PayDirectly(id)
  PROVE  IInv'
<1>1. Others /\ FramesInv
  BY DEF IInv
<1>2. UNCHANGED <<ledger, session>> /\ frame[id].pc = "find"
  BY DEF PayDirectly, At
<1>3. PICK n \in Node : Call(id, n, 2, {})
  BY DEF PayDirectly
<1>4. FramesInv'
  BY <1>2, <1>3, CallKeeps DEF FramesInv
<1> QED
  BY <1>1, <1>4, OthersUnchanged DEF IInv, PayDirectly

LEMMA CallAnsweredStep ==
  ASSUME IInv, NEW id \in Active, CallAnswered(id)
  PROVE  IInv'
<1>1. Others /\ FramesInv /\ frame[id] \in Frame /\ id \in Id /\ FrameType
  BY DEF IInv, FramesInv, FrameType
<1>2. Child(id) \in Active /\ frame[Child(id)] \in Frame /\ FrameInv(Child(id))
  BY <1>1 DEF CallAnswered, At, FramesInv, FrameType
<1>3. frame[id].try \in {1, 2}
  BY <1>1 DEF Frame
<1>4. Child(id).req = id.req
  BY <1>1, <1>3, CalledId DEF Child
<1>5. Answered(id) \in {"OK", "refused", "error", "none"}
  BY <1>2 DEF Answered, Frame
<1>6. Answered(id) = "OK" => Has(Verdict(id))'
  BY <1>2, <1>4 DEF Answered, FrameInv, TrueAnswer, Verdict, IsPayment, Has, CallAnswered
<1>7. Return(id, Answered(id), {Child(id)})
  BY DEF CallAnswered
<1>8. Stable
  BY UnchangedStable DEF CallAnswered
<1>9. Answered(id) = "OK" /\ Op[id.req] = "finalize" => session = "paid"
  BY <1>2, <1>4 DEF Answered, FrameInv, PaidAnswer
<1>10. FramesInv'
  BY <1>5, <1>6, <1>7, <1>8, <1>9, ReturnKeeps DEF FramesInv
<1> QED
  BY <1>1, <1>10, OthersUnchanged DEF IInv, CallAnswered

LEMMA CallFailsStep ==
  ASSUME IInv, NEW id \in Active, CallFails(id)
  PROVE  IInv'
<1> DEFINE lost == {Child(id)} \cap Active
<1>1. Others /\ FramesInv /\ FrameType /\ frame[id] \in Frame /\ id \in Id /\ FrameInv(id)
  BY DEF IInv, FramesInv, FrameType
<1>2. UNCHANGED <<ledger, session, nodes>> /\ frame[id].pc = "called" /\ CallBreaks(id)
  BY DEF CallFails, At
<1>3. timeouts' \in 0 .. MaxTimeouts
  BY <1>1, <1>2, RoutingAssumption DEF CallBreaks, Others
<1>4. Others'
  BY <1>1, <1>2, <1>3 DEF Others, LedgerType, nodes
<1>5. Stable
  BY <1>2, UnchangedStable
<1>6. /\ lost \subseteq Active
      /\ IF frame[id].at = None
           THEN IF frame[id].try = 1
                  THEN /\ frame' = Frames(Kept(lost), id,
                                    [frame[id] EXCEPT !.pc = "find", !.try = 2], lost)
                       /\ UNCHANGED lock
                  ELSE Return(id, "error", lost)
           ELSE \/ \E u \in Latest(id) : Call(id, u, frame[id].try + 1, lost)
                \/ Latest(id) = {} /\ Return(id, "refused", lost)
  BY DEF CallFails
<1> HIDE DEF lost
<1>7. ASSUME NEW a \in {"error", "refused"}, Return(id, a, lost) PROVE FramesInv'
  BY <1>5, <1>7, ReturnKeeps DEF FramesInv
<1>8. ASSUME frame[id].at # None, NEW u \in Latest(id), Call(id, u, frame[id].try + 1, lost)
      PROVE  FramesInv'
  <2>1. frame[id].at \in Node
    BY <1>1, <1>8 DEF Frame
  <2>2. frame[id].try + 1 \in {1, 2}
    BY <1>8 DEF Latest
  <2>3. u \in Node
    BY <1>1, <1>8, <2>1 DEF Latest, Others, Belief
  <2> QED
    BY <1>2, <1>8, <2>2, <2>3, CallKeeps DEF FramesInv
<1>9. ASSUME frame' = Frames(Kept(lost), id, [frame[id] EXCEPT !.pc = "find", !.try = 2], lost),
             UNCHANGED lock
      PROVE  FramesInv'
  <2> DEFINE f == [frame[id] EXCEPT !.pc = "find", !.try = 2]
  <2>1. f.at = frame[id].at /\ f.pc = "find" /\ f.ans = frame[id].ans
    BY <1>1 DEF Frame
  <2>2. f \in Frame
    <3>1. 2 \in 1 .. 2
      OBVIOUS
    <3> QED
      BY <1>1, <3>1 DEF Frame
  <2>3. frame' = Frames(Kept(lost), id, f, lost) /\ Kept(lost) \subseteq Active \cup {id}
    BY <1>9 DEF Kept
  <2> HIDE DEF f
  <2>4. frame' \in [Kept(lost) -> Frame]
    BY <1>1, <2>2, <2>3, FramesStep
  <2>5. \A x \in Kept(lost) :
           \/ x = id /\ frame'[x] = f
           \/ x \in Active /\ Keeps(frame'[x], frame[x])
    BY <1>1, <2>2, <2>3, FramesStep
  <2>6. Active' = Kept(lost) /\ Kept(lost) \subseteq Active
    BY <2>4 DEF Active, Kept
  <2>7. FrameType'
    BY <1>1, <2>4, <2>6 DEF FrameType
  <2>8. frame'[id] = f => FrameInv(id)'
    BY <1>1, <1>2, <2>1
       DEF FrameInv, Placed, StripeAsked, TrueAnswer, PaidAnswer, Has, Verdict, IsPayment
  <2>9. \A x \in Active : Keeps(frame'[x], frame[x]) => FrameInv(x)'
    BY <1>1, <1>5, SameKeeps DEF FramesInv, Same
  <2> QED
    BY <1>1, <1>9, <2>5, <2>6, <2>7, <2>8, <2>9 DEF FramesInv
<1>10. FramesInv'
  BY <1>6, <1>7, <1>8, <1>9
<1> QED
  BY <1>4, <1>10 DEF IInv

\* The steps of a handler at its node that leave the tables alone.
LEMMA LocalStep ==
  ASSUME IInv, NEW id \in Active,
         CallStripe(id) \/ LockPaymentID(id) \/ Route(id) \/ CheckLedger(id)
  PROVE  IInv'
<1>1. /\ Others /\ FramesInv /\ FrameType /\ frame[id] \in Frame /\ id \in Id
      /\ FrameInv(id) /\ lock \in [Node -> Id \cup {None}]
  BY DEF IInv, FramesInv, FrameType
<1>2. UNCHANGED <<ledger, session, rest>> /\ frame[id].pc \in {"stripe", "lock", "route", "check"}
  BY DEF CallStripe, LockPaymentID, Route, CheckLedger, At
<1>3. id.path # <<>> /\ frame[id].at \in Node
  BY <1>1, <1>2 DEF FrameInv, Placed
<1>4. Stable
  BY <1>2, UnchangedStable
<1>5. ASSUME Return(id, "refused", {}) PROVE FramesInv'
  BY <1>4, <1>5, ReturnKeeps DEF FramesInv
<1>6. ASSUME NEW pc \in {"lock", "route", "check", "record"}, Goto(id, pc),
             frame[id].pc = "stripe" => session = "paid", lock' \in [Node -> Id \cup {None}]
      PROVE  FramesInv'
  BY <1>2, <1>3, <1>4, <1>6, GotoKeeps DEF FramesInv
<1>7. ASSUME CallStripe(id) PROVE FramesInv'
  <2>1. ASSUME Paid, Goto(id, "lock"), UNCHANGED lock PROVE FramesInv'
    BY <1>1, <1>6, <2>1 DEF Paid
  <2> QED
    BY <1>5, <1>7, <2>1 DEF CallStripe
<1>8. ASSUME LockPaymentID(id) PROVE FramesInv'
  <2>1. lock' \in [Node -> Id \cup {None}]
    BY <1>1, <1>8 DEF LockPaymentID
  <2> QED
    BY <1>6, <1>8, <2>1 DEF LockPaymentID, At
<1>9. ASSUME Route(id) PROVE FramesInv'
  <2>1. ASSUME NEW u \in Node, Call(id, u, 1, {}) PROVE FramesInv'
    BY <1>2, <1>9, <2>1, CallKeeps DEF FramesInv, Route, At
  <2>2. belief[frame[id].at].url \in Node \cup {None}
    BY <1>1, <1>3 DEF Others, Belief
  <2> QED
    BY <1>1, <1>5, <1>6, <1>9, <2>1, <2>2 DEF Route, At
<1>10. ASSUME CheckLedger(id) PROVE FramesInv'
  <2>1. ASSUME Row(id) = Verdict(id), Return(id, "OK", {}) PROVE FramesInv'
    <3>1. Has(Verdict(id))'
      BY <1>2, <1>3, <2>1 DEF Row, Has, Verdict, IsPayment
    <3>2. Op[id.req] = "finalize" => session = "paid"
      BY <1>1, <1>3, <1>10 DEF FrameInv, StripeAsked, CheckLedger, At
    <3> QED
      BY <1>4, <2>1, <3>1, <3>2, ReturnKeeps DEF FramesInv
  <2> QED
    BY <1>1, <1>5, <1>6, <1>10, <2>1 DEF CheckLedger, At
<1>11. FramesInv'
  BY <1>7, <1>8, <1>9, <1>10
<1> QED
  BY <1>1, <1>2, <1>11, OthersUnchanged DEF IInv

LEMMA RecordPaymentStep ==
  ASSUME IInv, NEW id \in Active, RecordPayment(id) \/ Decide(id)
  PROVE  IInv'
<1>1. /\ Others /\ FramesInv /\ FrameType /\ FrameInv(id) /\ LedgerType
      /\ lock \in [Node -> Id \cup {None}]
  BY DEF IInv, FramesInv, FrameType, Others
<1>2. UNCHANGED <<session, rest>> /\ frame[id].pc \in {"record", "decide"}
  BY DEF RecordPayment, Decide, At
<1>3. id.path # <<>> /\ frame[id].at \in Node
  BY <1>1, <1>2 DEF FrameInv, Placed
<1>4. Op[id.req] = "finalize" => session = "paid"
  BY <1>1, <1>2, <1>3 DEF FrameInv, StripeAsked
<1> DEFINE TablesKept == LedgerType' /\ Stable
<1>6. ASSUME UNCHANGED ledger PROVE TablesKept
  BY <1>1, <1>2, <1>6, UnchangedStable DEF LedgerType
<1>7. ASSUME Ledger!Record(frame[id].at, Payment) PROVE TablesKept
  <2>1. "FAILED" \in Ledger!FinalStatus
    BY DEF Ledger!FinalStatus
  <2>2. LedgerType' /\ \A t \in Ledger!FinalStatus : Has(t) => Has(t)'
    BY <1>1, <1>3, <1>7, <2>1, LedgerStep
  <2> QED
    BY <1>2, <2>2 DEF Stable
<1>8. ASSUME NEW s \in Ledger!FinalStatus, Ledger!Decide(frame[id].at, Payment, s)
      PROVE  TablesKept /\ Has(s)'
  <2>1. LedgerType' /\ (\A t \in Ledger!FinalStatus : Has(t) => Has(t)') /\ Has(s)'
    BY <1>1, <1>3, <1>8, LedgerStep
  <2> QED
    BY <1>2, <2>1 DEF Stable
<1> HIDE DEF TablesKept
<1>9. ASSUME Fail(id) PROVE TablesKept
  <2>1. "FAILED" \in Ledger!FinalStatus
    BY DEF Ledger!FinalStatus
  <2> QED
    BY <1>8, <1>9, <2>1 DEF Fail
<1>10. ASSUME Ledger!Decide(frame[id].at, Payment, Verdict(id)) PROVE TablesKept /\ Has(Verdict(id))'
  BY <1>8, <1>10, VerdictIsFinal
<1>11. ASSUME Row(id) = Verdict(id), UNCHANGED ledger PROVE TablesKept /\ Has(Verdict(id))'
  BY <1>3, <1>6, <1>11 DEF Row, Has, Verdict, IsPayment
<1>12. ASSUME TablesKept, Goto(id, "decide"), UNCHANGED lock PROVE TablesKept /\ FramesInv'
  BY <1>1, <1>2, <1>3, <1>12, GotoKeeps DEF FramesInv, TablesKept
<1>13. ASSUME TablesKept, Return(id, "refused", {}) PROVE TablesKept /\ FramesInv'
  BY <1>13, ReturnKeeps DEF FramesInv, TablesKept
<1>14. ASSUME TablesKept, Has(Verdict(id))', Return(id, "OK", {}) PROVE TablesKept /\ FramesInv'
  BY <1>4, <1>14, ReturnKeeps DEF FramesInv, TablesKept
<1>15. ASSUME RecordPayment(id) PROVE TablesKept /\ FramesInv'
  BY <1>6, <1>7, <1>9, <1>12, <1>13, <1>15 DEF RecordPayment
<1>16. ASSUME Decide(id) PROVE TablesKept /\ FramesInv'
  BY <1>6, <1>9, <1>10, <1>11, <1>13, <1>14, <1>16 DEF Decide
<1>17. TablesKept /\ FramesInv'
  BY <1>15, <1>16
<1> QED
  BY <1>1, <1>2, <1>17 DEF IInv, Others, TablesKept, rest, nodes

\* Frames that nobody touches stay good while the tables and Stripe move on.
LEMMA FramesUnchanged ==
  ASSUME FramesInv, UNCHANGED <<frame, lock>>, Stable
  PROVE  FramesInv'
<1>1. \A x \in Active : Same(x)
  BY DEF Same, Keeps
<1>2. \A x \in Active : FrameInv(x)'
  BY <1>1, SameKeeps DEF FramesInv
<1> QED
  BY <1>2 DEF FramesInv, FrameType, Active

LEMMA EnvironmentStep ==
  ASSUME IInv, \/ CreateCheckoutSession \/ PayAtStripe
               \/ \E n \in Node : Replicated(n) \/ BeliefChanges(n)
  PROVE  IInv'
<1>1. Others /\ FramesInv /\ LedgerType
  BY DEF IInv, Others
<1>2. ASSUME CreateCheckoutSession \/ PayAtStripe PROVE Others' /\ Stable /\ UNCHANGED <<frame, lock>>
  BY <1>1, <1>2 DEF CreateCheckoutSession, PayAtStripe, Others, Stable, Has, LedgerType,
                    rest, nodes
<1>3. ASSUME NEW n \in Node, Replicated(n) PROVE Others' /\ Stable /\ UNCHANGED <<frame, lock>>
  <2>1. "FAILED" \in Ledger!FinalStatus
    BY DEF Ledger!FinalStatus
  <2>2. LedgerType' /\ \A t \in Ledger!FinalStatus : Has(t) => Has(t)'
    BY <1>1, <1>3, <2>1, LedgerStep DEF Replicated
  <2> QED
    BY <1>1, <1>3, <2>2 DEF Replicated, Others, Stable, rest, nodes
<1>4. ASSUME NEW n \in Node, BeliefChanges(n) PROVE Others' /\ Stable /\ UNCHANGED <<frame, lock>>
  <2>1. belief' \in [Node -> Belief]
    BY <1>1, <1>4 DEF BeliefChanges, Others
  <2>2. changes' \in 0 .. MaxChanges
    BY <1>1, <1>4, RoutingAssumption DEF BeliefChanges, Others
  <2> QED
    BY <1>1, <1>4, <2>1, <2>2
       DEF BeliefChanges, Others, Stable, Has, LedgerType
<1> QED
  BY <1>1, <1>2, <1>3, <1>4, FramesUnchanged DEF IInv

LEMMA CrashStep ==
  ASSUME IInv, NEW n \in Node, Crash(n)
  PROVE  IInv'
<1> DEFINE orphan(x) == /\ x.path # <<>> /\ Parent(x) \in Active
                        /\ frame[Parent(x)].at = n
           left == {y \in Active : frame[y].at # n /\ ~(orphan(y) /\ At(y, "ended"))}
<1>1. Others /\ FramesInv /\ FrameType /\ \A x \in Active : frame[x] \in Frame
  BY DEF IInv, FramesInv, FrameType
<1>2. frame' = [x \in left |-> IF orphan(x) THEN [frame[x] EXCEPT !.gone = TRUE] ELSE frame[x]]
  BY DEF Crash
<1> HIDE DEF orphan
<1>3. \A x \in left : frame'[x] \in Frame /\ Keeps(frame'[x], frame[x])
  BY <1>1, <1>2 DEF Frame, Keeps
<1>4. Active' = left /\ left \subseteq Active
  BY <1>2 DEF Active
<1>5. FrameType'
  BY <1>1, <1>2, <1>3, <1>4 DEF FrameType
<1>6. Stable
  BY UnchangedStable DEF Crash
<1>7. \A x \in Active' : FrameInv(x)'
  BY <1>1, <1>3, <1>4, <1>6, SameKeeps DEF FramesInv, Same
<1>8. lock' \in [Node -> Id \cup {None}]
  BY <1>1 DEF FramesInv, Crash
<1>9. crashes' \in 0 .. MaxCrashes
  BY <1>1, RoutingAssumption DEF Others, Crash
<1>10. Others'
  BY <1>1, <1>9 DEF Others, Crash, LedgerType
<1> QED
  BY <1>5, <1>7, <1>8, <1>10 DEF IInv, FramesInv

-----------------------------------------------------------------------------
(* No id is used twice                                                     *)

Root(x) == [req |-> x.req, path |-> <<>>]

\* The call that id makes in its attempt k.
CallOf(id, k) == [id EXCEPT !.path = Append(@, k)]

\* a is a call that led to x.
Above(a, x) == /\ a.req = x.req /\ Len(a.path) < Len(x.path)
               /\ \A i \in 1 .. Len(a.path) : a.path[i] = x.path[i]

\* Attempt k of frame a has been made.
Opened(a, k) ==
  \/ k < frame[a].try
  \/ k = frame[a].try /\ frame[a].pc \notin {"find", "stripe", "lock", "route"}

\* The gateway waits until it has an answer, however long a node it has given up
\* goes on.
RootsStay ==
  \A x \in Active : /\ Root(x) \in Active
                    /\ frame[Root(x)].at = None /\ ~frame[Root(x)].gone

\* A call that is under way was opened by each frame above it that is still
\* there, in an attempt that frame will not repeat.
OpenedOnce ==
  \A a, x \in Active : Above(a, x) => Opened(a, x.path[Len(a.path) + 1])

\* Only the gateway looks for a leader, only payments ask Stripe or wait, and a
\* handler that has not been routed yet has made no attempt.
Stage(x) ==
  /\ frame[x].pc = "find" => x.path = <<>>
  /\ frame[x].pc \in {"stripe", "lock", "route"} => frame[x].try = 1
  /\ frame[x].pc \in {"stripe", "lock"} => IsPayment(x)

TreeInv == RootsStay /\ OpenedOnce /\ \A x \in Active : Stage(x)

MutexInv == IInv /\ TreeInv /\ PaymentMutex

\* What every step sees to: the tree of calls and the mutexes stay in order, and no
\* request that arrived is forgotten.
RootsRemain == \A x \in Active : x.path = <<>> => x \in Active'

Onward == TreeInv' /\ PaymentMutex' /\ RootsRemain

LEMMA PathIsSeq ==
  ASSUME NEW x \in Id
  PROVE  /\ x.path \in Seq({1, 2}) /\ Len(x.path) \in Nat
         /\ x = [req |-> x.req, path |-> x.path]
<1>1. x.path \in Path
  BY DEF Id
<1>2. PICK j \in 0 .. MaxHops : x.path \in [1 .. j -> {1, 2}]
  BY <1>1 DEF Path
<1>3. j \in Nat /\ x.path \in Seq({1, 2}) /\ Len(x.path) = j
  BY <1>2
<1> QED
  BY <1>3 DEF Id

LEMMA NotAboveItself == \A x \in Id : ~Above(x, x)
BY PathIsSeq DEF Above

LEMMA AboveChild ==
  ASSUME NEW id \in Id, NEW k \in {1, 2}, NEW c, c = CallOf(id, k)
  PROVE  /\ Above(id, c) /\ c.path[Len(id.path) + 1] = k
         /\ \A b \in Id : Above(b, c) =>
              \/ b = id
              \/ Above(b, id) /\ c.path[Len(b.path) + 1] = id.path[Len(b.path) + 1]
         /\ \A y \in Id : Above(c, y) => Above(id, y) /\ y.path[Len(id.path) + 1] = k
<1>1. id.path \in Seq({1, 2}) /\ Len(id.path) \in Nat
  BY PathIsSeq
<1>2. c.req = id.req /\ c.path = Append(id.path, k)
  BY DEF Id, CallOf
<1>3. /\ Len(c.path) = Len(id.path) + 1 /\ c.path[Len(id.path) + 1] = k
      /\ \A i \in 1 .. Len(id.path) : c.path[i] = id.path[i]
  BY <1>1, <1>2, AppendProperties
<1>4. Above(id, c)
  BY <1>1, <1>2, <1>3 DEF Above
<1>5. ASSUME NEW b \in Id, Above(b, c)
      PROVE  \/ b = id
             \/ Above(b, id) /\ c.path[Len(b.path) + 1] = id.path[Len(b.path) + 1]
  <2>1. b.path \in Seq({1, 2}) /\ Len(b.path) \in Nat
    BY PathIsSeq
  <2>2. b.req = id.req /\ \A i \in 1 .. Len(b.path) : b.path[i] = c.path[i]
    BY <1>2, <1>5 DEF Above
  <2>3. Len(b.path) < Len(id.path) + 1
    BY <1>3, <1>5 DEF Above
  <2>4. \A i \in 1 .. Len(b.path) : b.path[i] = id.path[i]
    BY <1>1, <1>3, <2>1, <2>2, <2>3
  <2>5. CASE Len(b.path) = Len(id.path)
    <3>1. b.path = id.path
      BY <1>1, <2>1, <2>4, <2>5, SeqEqual
    <3> QED
      BY <2>2, <3>1, PathIsSeq
  <2>6. CASE Len(b.path) < Len(id.path)
    <3>1. Len(b.path) + 1 \in 1 .. Len(id.path)
      BY <1>1, <2>1, <2>6
    <3> QED
      BY <1>3, <2>2, <2>4, <2>6, <3>1 DEF Above
  <2> QED
    BY <1>1, <2>1, <2>3, <2>5, <2>6
<1>6. ASSUME NEW y \in Id, Above(c, y)
      PROVE  Above(id, y) /\ y.path[Len(id.path) + 1] = k
  <2>1. Len(y.path) \in Nat
    BY PathIsSeq
  <2>2. /\ y.req = id.req /\ Len(id.path) + 1 < Len(y.path)
        /\ \A i \in 1 .. Len(id.path) + 1 : c.path[i] = y.path[i]
    BY <1>2, <1>3, <1>6 DEF Above
  <2>3. \A i \in 1 .. Len(id.path) : id.path[i] = y.path[i]
    BY <1>1, <1>3, <2>2
  <2>4. Len(id.path) + 1 \in 1 .. Len(id.path) + 1
    BY <1>1
  <2> QED
    BY <1>1, <1>3, <2>1, <2>2, <2>3, <2>4 DEF Above
<1> QED
  BY <1>3, <1>4, <1>5, <1>6

\* Frame x is no earlier than it was.
Ripens(x) ==
  /\ frame'[x].at = frame[x].at
  /\ x.path = <<>> => frame'[x].gone = frame[x].gone
  /\ \A k \in {1, 2} : Opened(x, k) => Opened(x, k)'

\* Frame x is what it was, but that nobody may wait for the call any more.
Ages(x) ==
  /\ frame'[x].at = frame[x].at /\ frame'[x].pc = frame[x].pc
  /\ frame'[x].try = frame[x].try
  /\ x.path = <<>> => frame'[x].gone = frame[x].gone

LEMMA AgesRipens ==
  ASSUME NEW x, Ages(x)
  PROVE  Ripens(x) /\ (Stage(x) => Stage(x)') /\ (x \in Active /\ x \in Active' => (Works(x)' <=> Works(x)))
BY DEF Ages, Ripens, Opened, Stage, Works, IsPayment

LEMMA TreeStays ==
  ASSUME TreeInv, FrameType, Active' \subseteq Active,
         \A x \in Active' : Ripens(x) /\ Stage(x)',
         \A x \in Active \ Active' : x.path # <<>>
  PROVE  TreeInv'
<1>1. ASSUME NEW x \in Active'
      PROVE  Root(x) \in Active' /\ frame'[Root(x)].at = None /\ ~frame'[Root(x)].gone
  <2>1. Root(x) \in Active /\ frame[Root(x)].at = None /\ ~frame[Root(x)].gone
    BY DEF TreeInv, RootsStay
  <2>2. Root(x).path = <<>>
    BY DEF Root
  <2> QED
    BY <2>1, <2>2 DEF Ripens
<1>2. ASSUME NEW a \in Active', NEW x \in Active', Above(a, x)
      PROVE  Opened(a, x.path[Len(a.path) + 1])'
  <2>1. Opened(a, x.path[Len(a.path) + 1])
    BY <1>2 DEF TreeInv, OpenedOnce
  <2>2. x.path[Len(a.path) + 1] \in {1, 2}
    BY <1>2, PathIsSeq DEF FrameType, Above
  <2> QED
    BY <2>1, <2>2 DEF Ripens
<1> QED
  BY <1>1, <1>2 DEF TreeInv, RootsStay, OpenedOnce, Root, Above

\* An attempt that was not made yet has no frame below it.
LEMMA ChildIsNew ==
  ASSUME TreeInv, FrameType, NEW id \in Active, NEW k \in {1, 2}, ~Opened(id, k),
         NEW c, c = CallOf(id, k)
  PROVE  c \notin Active /\ \A y \in Active : ~Above(c, y)
BY AboveChild DEF TreeInv, OpenedOnce, FrameType

LEMMA TreeGrows ==
  ASSUME TreeInv, FrameType, NEW id \in Active, NEW k \in {1, 2}, ~Opened(id, k),
         NEW c, c = CallOf(id, k),
         Active' \subseteq Active \cup {c}, Active' \subseteq Id,
         \A x \in Active' \ {c} : Ripens(x) /\ Stage(x)',
         Opened(id, k)', Stage(c)',
         \A x \in Active \ Active' : x.path # <<>>
  PROVE  TreeInv'
<1>1. c.req = id.req /\ c.path # <<>>
  BY CalledId DEF FrameType, CallOf
<1>2. Root(c) = Root(id)
  BY <1>1 DEF Root
<1>3. ASSUME NEW x \in Active'
      PROVE  Root(x) \in Active' /\ frame'[Root(x)].at = None /\ ~frame'[Root(x)].gone
  <2>1. Root(x) \in Active /\ frame[Root(x)].at = None /\ ~frame[Root(x)].gone
    BY <1>2 DEF TreeInv, RootsStay
  <2>2. Root(x).path = <<>>
    BY DEF Root
  <2> QED
    BY <1>1, <2>1, <2>2 DEF Ripens
<1>4. \A b \in Id : Above(b, c) =>
         \/ b = id
         \/ Above(b, id) /\ c.path[Len(b.path) + 1] = id.path[Len(b.path) + 1]
  BY AboveChild DEF FrameType
<1>5. c.path[Len(id.path) + 1] = k
  BY AboveChild DEF FrameType
<1>6. ASSUME NEW a \in Active', NEW x \in Active', Above(a, x)
      PROVE  Opened(a, x.path[Len(a.path) + 1])'
  <2>1. x \in Id /\ a \in Id
    BY DEF FrameType
  <2>2. x.path[Len(a.path) + 1] \in {1, 2}
    BY <1>6, <2>1, PathIsSeq DEF Above
  <2>3. CASE x \in Active /\ a \in Active
    <3>1. a # c
      BY <2>3, ChildIsNew
    <3>2. Opened(a, x.path[Len(a.path) + 1])
      BY <1>6, <2>3 DEF TreeInv, OpenedOnce
    <3> QED
      BY <2>2, <3>1, <3>2 DEF Ripens
  <2>4. CASE x = c
    <3>1. \/ a = id /\ x.path[Len(a.path) + 1] = k
          \/ Above(a, id) /\ x.path[Len(a.path) + 1] = id.path[Len(a.path) + 1]
      BY <1>4, <1>5, <1>6, <2>1, <2>4
    <3>2. a # c
      BY <1>6, <2>1, <2>4, NotAboveItself
    <3>3. CASE Above(a, id) /\ x.path[Len(a.path) + 1] = id.path[Len(a.path) + 1]
      <4>1. Opened(a, x.path[Len(a.path) + 1])
        BY <3>2, <3>3 DEF TreeInv, OpenedOnce
      <4> QED
        BY <2>2, <3>2, <4>1 DEF Ripens
    <3> QED
      BY <3>1, <3>3
  <2>5. CASE x \in Active /\ a = c
    BY <1>6, <2>5, ChildIsNew
  <2> QED
    BY <2>3, <2>4, <2>5
<1> QED
  BY <1>3, <1>6 DEF TreeInv, RootsStay, OpenedOnce, Root, Above


LEMMA FramesAge ==
  ASSUME FrameType, NEW xs, NEW i, NEW fr, NEW ls, xs \subseteq Active,
         \A x \in ls : x.path # <<>>
  PROVE  /\ DOMAIN Frames(xs, i, fr, ls) = xs
         /\ i \in xs => Frames(xs, i, fr, ls)[i] = fr
         /\ \A x \in xs \ {i} :
              /\ Frames(xs, i, fr, ls)[x].at = frame[x].at
              /\ Frames(xs, i, fr, ls)[x].pc = frame[x].pc
              /\ Frames(xs, i, fr, ls)[x].try = frame[x].try
              /\ x.path = <<>> => Frames(xs, i, fr, ls)[x].gone = frame[x].gone
<1>1. \A x \in Active : frame[x] \in Frame
  BY DEF FrameType
<1>2. \A x \in Active : LET g == [frame[x] EXCEPT !.gone = TRUE] IN
        g.at = frame[x].at /\ g.pc = frame[x].pc /\ g.try = frame[x].try
  BY <1>1 DEF Frame
<1> DEFINE fs == Frames(xs, i, fr, ls)
<1>3. fs = [x \in xs |-> IF x = i THEN fr
                          ELSE IF x \in ls THEN [frame[x] EXCEPT !.gone = TRUE] ELSE frame[x]]
  BY DEF Frames
<1> HIDE DEF fs
<1>4. ASSUME NEW x \in xs \ {i}
      PROVE  /\ fs[x].at = frame[x].at /\ fs[x].pc = frame[x].pc /\ fs[x].try = frame[x].try
             /\ x.path = <<>> => fs[x].gone = frame[x].gone
  <2>1. CASE x \in ls
    <3>1. fs[x] = [frame[x] EXCEPT !.gone = TRUE]
      BY <1>3, <2>1
    <3> QED
      BY <1>2, <2>1, <3>1
  <2>2. CASE x \notin ls
    <3>1. fs[x] = frame[x]
      BY <1>3, <2>2
    <3> QED
      BY <3>1
  <2> QED
    BY <2>1, <2>2
<1>5. DOMAIN fs = xs /\ (i \in xs => fs[i] = fr)
  BY <1>3
<1> QED
  BY <1>4, <1>5 DEF fs

\* The frames of the gateway are those whose caller is the client.
LEMMA RootsWait ==
  ASSUME RootsStay, FrameType, NEW x \in Active
  PROVE  x.path = <<>> => frame[x].at = None /\ ~frame[x].gone
<1>1. x.path = <<>> => Root(x) = x
  BY PathIsSeq DEF Root, FrameType
<1> QED
  BY <1>1 DEF RootsStay

LEMMA ReturnAges ==
  ASSUME FrameType, RootsStay, NEW id \in Active, NEW a, NEW lost,
         \A x \in lost : x.path # <<>>, Return(id, a, lost)
  PROVE  /\ Active' \subseteq Active
         /\ \A x \in Active' \ {id} : Ages(x)
         /\ id \in Active' => /\ frame'[id].at = frame[id].at /\ frame'[id].pc = "ended"
                              /\ frame'[id].try = frame[id].try
                              /\ frame'[id].gone = frame[id].gone
         /\ \A x \in Active \ Active' :
              x.path # <<>> /\ (x = id \/ frame[x].pc = "ended")
<1> DEFINE f   == [frame[id] EXCEPT !.pc = "ended", !.ans = a]
           ids == Kept(lost) \ (IF f.gone THEN {id} ELSE {})
<1>1. frame[id] \in Frame
  BY DEF FrameType
<1>2. /\ f.at = frame[id].at /\ f.pc = "ended" /\ f.try = frame[id].try
      /\ f.gone = frame[id].gone
  BY <1>1 DEF Frame
<1>3. ids \subseteq Active
  BY DEF Kept
<1>4. \A x \in Active \ ids : x.path # <<>> /\ (x = id \/ frame[x].pc = "ended")
  <2> SUFFICES ASSUME NEW x \in Active \ ids
               PROVE  x.path # <<>> /\ (x = id \/ frame[x].pc = "ended")
    OBVIOUS
  <2>1. CASE x \in lost /\ At(x, "ended")
    BY <2>1 DEF At
  <2>2. CASE x = id /\ f.gone
    BY <1>2, <2>2, RootsWait
  <2> QED
    BY <2>1, <2>2 DEF Kept
<1>5. frame' = Frames(ids, id, f, lost)
  BY DEF Return
<1> HIDE DEF ids, f
<1>6. /\ DOMAIN frame' = ids
      /\ id \in ids => frame'[id] = f
      /\ \A x \in ids \ {id} :
           /\ frame'[x].at = frame[x].at /\ frame'[x].pc = frame[x].pc
           /\ frame'[x].try = frame[x].try
           /\ x.path = <<>> => frame'[x].gone = frame[x].gone
  BY <1>3, <1>5, FramesAge
<1>7. Active' = ids
  BY <1>6 DEF Active
<1> QED
  BY <1>2, <1>3, <1>4, <1>6, <1>7 DEF Ages

LEMMA CallAges ==
  ASSUME FrameType, TreeInv, NEW id \in Active, NEW u, NEW k \in {1, 2}, NEW lost,
         \A x \in lost : x.path # <<>>, id \notin lost, Call(id, u, k, lost),
         ~Opened(id, k), NEW c, c = CallOf(id, k)
  PROVE  /\ Active' \subseteq Active \cup {c} /\ id \in Active' /\ id # c
         /\ \A x \in Active' \ {id, c} : Ages(x)
         /\ frame'[id].at = frame[id].at /\ frame'[id].pc = "called"
         /\ frame'[id].try = k /\ frame'[id].gone = frame[id].gone
         /\ c \in Active' => frame'[c] = Open(u, Entry(id))
         /\ \A x \in Active \ Active' : x.path # <<>> /\ frame[x].pc = "ended"
<1> DEFINE f == [frame[id] EXCEPT !.pc = "called", !.url = u, !.try = k]
           opens == u \in up /\ Serves(id) /\ Len(id.path) < MaxHops
           after == Frames(Kept(lost), id, f, lost)
<1>1. frame[id] \in Frame
  BY DEF FrameType
<1>2. f.at = frame[id].at /\ f.pc = "called" /\ f.try = k /\ f.gone = frame[id].gone
  BY <1>1 DEF Frame
<1>3. Kept(lost) \subseteq Active /\ id \in Kept(lost)
  BY DEF Kept
<1>4. frame' = [x \in DOMAIN after \cup (IF opens THEN {c} ELSE {}) |->
                  IF x = c THEN Open(u, Entry(id)) ELSE after[x]]
  BY DEF Call, CallOf
<1>5. \A x \in Active \ Kept(lost) : x.path # <<>> /\ frame[x].pc = "ended"
  BY DEF Kept, At
<1>6. c \notin Active
  BY ChildIsNew
<1> HIDE DEF f, opens
<1>7. /\ DOMAIN after = Kept(lost)
      /\ after[id] = f
      /\ \A x \in Kept(lost) \ {id} :
           /\ after[x].at = frame[x].at /\ after[x].pc = frame[x].pc
           /\ after[x].try = frame[x].try
           /\ x.path = <<>> => after[x].gone = frame[x].gone
  BY <1>3, FramesAge
<1> HIDE DEF after
<1>8. Active' = Kept(lost) \cup (IF opens THEN {c} ELSE {})
  BY <1>4, <1>7 DEF Active
<1>9. \A x \in Active' \ {c} : x \in Kept(lost) /\ frame'[x] = after[x]
  BY <1>4, <1>7, <1>8
<1>10. c \in Active' => frame'[c] = Open(u, Entry(id))
  BY <1>4, <1>7, <1>8
<1> QED
  BY <1>2, <1>3, <1>5, <1>6, <1>7, <1>8, <1>9, <1>10 DEF Ages


-----------------------------------------------------------------------------
(* The mutex of a payment                                                  *)

\* What the steps of the handlers have in common for the tree.
LEMMA AgesKeeps ==
  ASSUME TreeInv, NEW x \in Active, Ages(x)
  PROVE  Ripens(x) /\ Stage(x)'
BY AgesRipens DEF TreeInv

LEMMA ReturnMutex ==
  ASSUME MutexInv, NEW id \in Active, NEW a, NEW lost,
         \A x \in lost : x.path # <<>>, Return(id, a, lost)
  PROVE  Onward
<1>1. FrameType /\ TreeInv /\ RootsStay
  BY DEF MutexInv, IInv, FramesInv, TreeInv
<1>2. /\ Active' \subseteq Active
      /\ \A x \in Active' \ {id} : Ages(x)
      /\ id \in Active' => /\ frame'[id].at = frame[id].at /\ frame'[id].pc = "ended"
                           /\ frame'[id].try = frame[id].try
                           /\ frame'[id].gone = frame[id].gone
      /\ \A x \in Active \ Active' :
           x.path # <<>> /\ (x = id \/ frame[x].pc = "ended")
  BY <1>1, ReturnAges
<1>3. id \in Active' => Ripens(id) /\ Stage(id)'
  BY <1>2 DEF Ripens, Opened, Stage
<1>4. \A x \in Active' : Ripens(x) /\ Stage(x)'
  BY <1>1, <1>2, <1>3, AgesKeeps
<1>5. TreeInv'
  BY <1>1, <1>2, <1>4, TreeStays
<1>6. lock \in [Node -> Id \cup {None}] /\ PaymentMutex
  BY DEF MutexInv, IInv, FramesInv
<1>7. lock' = [n \in Node |-> IF lock[n] = id THEN None ELSE lock[n]]
  BY DEF Return, Unlock
<1>8. ASSUME NEW x \in Active', Works(x)' PROVE lock'[frame'[x].at] = x
  <2>1. x # id
    BY <1>2, <1>8 DEF Works
  <2>2. Works(x) /\ frame'[x].at = frame[x].at /\ x.path # <<>> /\ x \in Active
    BY <1>2, <1>8, <2>1 DEF Ages, Works, IsPayment
  <2>3. lock[frame[x].at] = x
    BY <1>6, <2>2 DEF PaymentMutex
  <2>4. frame[x].at \in Node
    BY <2>2 DEF MutexInv, IInv, FramesInv, FrameInv, Placed
  <2> QED
    BY <1>7, <2>1, <2>2, <2>3, <2>4
<1>9. ASSUME NEW n \in Node, lock'[n] # None PROVE (Works(lock[n]) /\ frame[lock[n]].at = n)'
  <2>1. lock'[n] = lock[n] /\ lock[n] # id
    BY <1>7, <1>9
  <2>2. Works(lock[n]) /\ frame[lock[n]].at = n
    BY <1>6, <1>9, <2>1 DEF PaymentMutex
  <2>3. lock[n] \in Active'
    BY <1>2, <2>1, <2>2 DEF Works
  <2>4. Ages(lock[n])
    BY <1>2, <2>1, <2>3
  <2>5. ASSUME NEW y, y = lock[n], y = lock'[n] PROVE (Works(lock[n]) /\ frame[lock[n]].at = n)'
    BY <2>2, <2>3, <2>4, <2>5 DEF Ages, Works, IsPayment
  <2> QED
    BY <2>1, <2>5
<1> QED
  BY <1>2, <1>5, <1>8, <1>9 DEF PaymentMutex, Onward, RootsRemain

LEMMA CallMutex ==
  ASSUME MutexInv, NEW id \in Active, frame[id].pc \in {"find", "route", "called"},
         NEW u, NEW k \in {1, 2}, NEW lost, \A x \in lost : x.path # <<>>,
         id \notin lost, Call(id, u, k, lost), ~Opened(id, k), frame[id].try \in 1 .. k,
         FrameType'
  PROVE  Onward
<1> DEFINE c == CallOf(id, k)
<1>1. FrameType /\ TreeInv /\ RootsStay /\ id \in Id
  BY DEF MutexInv, IInv, FramesInv, TreeInv, FrameType
<1>2. /\ Active' \subseteq Active \cup {c} /\ id \in Active' /\ id # c
      /\ \A x \in Active' \ {id, c} : Ages(x)
      /\ frame'[id].at = frame[id].at /\ frame'[id].pc = "called"
      /\ frame'[id].try = k /\ frame'[id].gone = frame[id].gone
      /\ c \in Active' => frame'[c] = Open(u, Entry(id))
      /\ \A x \in Active \ Active' : x.path # <<>> /\ frame[x].pc = "ended"
  BY <1>1, CallAges
<1>3. c.req = id.req /\ c.path # <<>>
  BY <1>1, CalledId DEF CallOf
<1>4. c \notin Active
  BY <1>1, ChildIsNew
<1>5. IsPayment(c) <=> IsPayment(id)
  BY <1>3 DEF IsPayment
<1>6. c \in Active' => frame'[c].pc = Entry(id) /\ frame'[c].try = 1
  BY <1>2 DEF Open
<1>7. /\ IsPayment(id) => Entry(id) \in {"stripe", "lock"}
      /\ ~IsPayment(id) => Entry(id) = "route"
  BY DEF Entry
<1>8. Entry(id) \in {"stripe", "lock", "route"}
  BY DEF Entry
<1> HIDE DEF c
<1>9. ~Works(c)'
  BY <1>3, <1>5, <1>6, <1>7, <1>8 DEF Works, IsPayment
<1>10. c \in Active' => Stage(c)'
  BY <1>3, <1>5, <1>6, <1>7, <1>8 DEF Stage, IsPayment
<1>11. Ripens(id) /\ Stage(id)' /\ Opened(id, k)'
  <2>1. \A j \in {1, 2} : Opened(id, j) => Opened(id, j)'
    BY <1>2 DEF Opened
  <2> QED
    BY <1>2, <2>1 DEF Ripens, Stage, Opened
<1>12. \A x \in Active' \ {c} : Ripens(x) /\ Stage(x)'
  BY <1>1, <1>2, <1>11, AgesKeeps
<1>13. TreeInv'
  <2>1. c = CallOf(id, k)
    BY DEF c
  <2>2. Active' \subseteq Id
    BY DEF FrameType
  <2>3. CASE c \in Active'
    BY <1>1, <1>2, <1>10, <1>11, <1>12, <2>1, <2>2, <2>3, TreeGrows
  <2>4. CASE c \notin Active'
    <3>1. Active' \subseteq Active
      BY <1>2, <2>4
    <3>2. \A x \in Active' : Ripens(x) /\ Stage(x)'
      BY <1>12, <2>4
    <3>3. \A x \in Active \ Active' : x.path # <<>>
      BY <1>2
    <3> QED
      BY <1>1, <3>1, <3>2, <3>3, TreeStays
  <2> QED
    BY <2>3, <2>4
<1>14. Works(id)' <=> Works(id)
  <2>1. frame[id].pc = "find" => id.path = <<>>
    BY <1>1 DEF TreeInv, Stage
  <2> QED
    BY <1>2, <2>1 DEF Works, IsPayment
<1>15. \A x \in Active' : Works(x)' => Works(x) /\ x \in Active /\ frame'[x].at = frame[x].at
  BY <1>2, <1>9, <1>14 DEF Ages, Works, IsPayment
<1>16. \A x \in Active : Works(x) => Works(x)' /\ frame'[x].at = frame[x].at
  <2> SUFFICES ASSUME NEW x \in Active, Works(x) PROVE Works(x)' /\ frame'[x].at = frame[x].at
    OBVIOUS
  <2>1. x \in Active' /\ x # c
    BY <1>2, <1>4 DEF Works
  <2> QED
    BY <1>2, <1>14, <2>1 DEF Ages, Works, IsPayment
<1>17. PaymentMutex /\ lock' = lock
  BY DEF MutexInv, Call
<1>18. \A x : Works(x) => x \in Active
  BY DEF Works
<1>19. RootsRemain
  BY <1>2 DEF RootsRemain
<1> QED
  BY <1>13, <1>15, <1>16, <1>17, <1>18, <1>19 DEF PaymentMutex, Onward


LEMMA GotoAges ==
  ASSUME FrameType, NEW id \in Active, NEW pc, Goto(id, pc)
  PROVE  /\ Active' = Active
         /\ \A x \in Active \ {id} : Ages(x)
         /\ frame'[id].at = frame[id].at /\ frame'[id].pc = pc
         /\ frame'[id].try = frame[id].try /\ frame'[id].gone = frame[id].gone
<1>1. frame[id] \in Frame
  BY DEF FrameType
<1>2. frame' = [frame EXCEPT ![id] = [frame[id] EXCEPT !.pc = pc]]
  BY DEF Goto, FrameType
<1>3. DOMAIN frame' = DOMAIN frame /\ frame'[id] = [frame[id] EXCEPT !.pc = pc]
  BY <1>2 DEF FrameType
<1>4. \A x \in Active \ {id} : frame'[x] = frame[x]
  BY <1>2 DEF FrameType
<1> QED
  BY <1>1, <1>3, <1>4 DEF Active, Frame, Ages

\* A handler goes on at its node; to route it only gets with the mutex.
LEMMA GotoMutex ==
  ASSUME MutexInv, NEW id \in Active, NEW pc, Goto(id, pc), UNCHANGED lock,
         \/ frame[id].pc = "stripe" /\ pc = "lock"
         \/ frame[id].pc = "route" /\ pc = "check"
         \/ frame[id].pc = "check" /\ pc = "record"
         \/ frame[id].pc = "record" /\ pc = "decide"
  PROVE  Onward
<1>1. FrameType /\ TreeInv
  BY DEF MutexInv, IInv, FramesInv
<1>2. /\ Active' = Active
      /\ \A x \in Active \ {id} : Ages(x)
      /\ frame'[id].at = frame[id].at /\ frame'[id].pc = pc
      /\ frame'[id].try = frame[id].try /\ frame'[id].gone = frame[id].gone
  BY <1>1, GotoAges
<1>3. Ripens(id) /\ Stage(id)'
  BY <1>1, <1>2 DEF TreeInv, Ripens, Stage, Opened, IsPayment
<1>4. \A x \in Active' : Ripens(x) /\ Stage(x)'
  BY <1>1, <1>2, <1>3, AgesKeeps
<1>5. TreeInv'
  BY <1>1, <1>2, <1>4, TreeStays
<1>6. \A x \in Active : (Works(x)' <=> Works(x)) /\ frame'[x].at = frame[x].at
  BY <1>2 DEF Ages, Works, IsPayment
<1>7. \A x : Works(x) => x \in Active
  BY DEF Works
<1>8. PaymentMutex
  BY DEF MutexInv
<1> QED
  BY <1>2, <1>5, <1>6, <1>7, <1>8 DEF PaymentMutex, Onward, RootsRemain

LEMMA LockMutex ==
  ASSUME MutexInv, NEW id \in Active, LockPaymentID(id)
  PROVE  Onward
<1>1. /\ FrameType /\ TreeInv /\ PaymentMutex
      /\ lock \in [Node -> Id \cup {None}] /\ FrameInv(id)
  BY DEF MutexInv, IInv, FramesInv
<1> DEFINE n == frame[id].at
<1>2. /\ frame[id].pc = "lock" /\ lock[n] = None
      /\ lock' = [lock EXCEPT ![n] = id] /\ Goto(id, "route")
  BY DEF LockPaymentID, At
<1>3. n \in Node /\ id.path # <<>>
  BY <1>1, <1>2 DEF FrameInv, Placed
<1>4. /\ Active' = Active
      /\ \A x \in Active \ {id} : Ages(x)
      /\ frame'[id].at = n /\ frame'[id].pc = "route"
      /\ frame'[id].try = frame[id].try /\ frame'[id].gone = frame[id].gone
  BY <1>1, <1>2, GotoAges
<1>5. Ripens(id) /\ Stage(id)' /\ IsPayment(id)
  BY <1>1, <1>2, <1>4 DEF TreeInv, Ripens, Stage, Opened, IsPayment
<1>6. \A x \in Active' : Ripens(x) /\ Stage(x)'
  BY <1>1, <1>4, <1>5, AgesKeeps
<1>7. TreeInv'
  BY <1>1, <1>4, <1>6, TreeStays
<1>8. Works(id)'
  BY <1>3, <1>4, <1>5 DEF Works, IsPayment
<1>9. \A x \in Active \ {id} : Works(x)' => Works(x) /\ frame'[x].at = frame[x].at
  BY <1>4 DEF Ages, Works, IsPayment
<1>10. \A x \in Active : Works(x) => Works(x)' /\ frame'[x].at = frame[x].at /\ x # id
  BY <1>2, <1>4 DEF Ages, Works, IsPayment
<1>11. ASSUME NEW x \in Active', Works(x)' PROVE lock'[frame'[x].at] = x
  <2>1. CASE x = id
    BY <1>1, <1>2, <1>3, <1>4, <2>1
  <2>2. CASE x # id
    <3>1. x \in Active /\ Works(x) /\ frame'[x].at = frame[x].at
      BY <1>4, <1>9, <1>11, <2>2
    <3>2. lock[frame[x].at] = x /\ x # None
      BY <1>1, <3>1, NoneIsNoCall DEF PaymentMutex, FrameType
    <3> QED
      BY <1>1, <1>2, <3>1, <3>2
  <2> QED
    BY <2>1, <2>2
<1>12. ASSUME NEW m \in Node, lock'[m] # None PROVE (Works(lock[m]) /\ frame[lock[m]].at = m)'
  <2>1. CASE m = n
    <3>1. lock'[m] = id
      BY <1>1, <1>2, <2>1
    <3> QED
      BY <1>4, <1>8, <2>1, <3>1
  <2>2. CASE m # n
    <3>1. lock'[m] = lock[m]
      BY <1>1, <1>2, <2>2
    <3>2. Works(lock[m]) /\ frame[lock[m]].at = m /\ lock[m] \in Active
      BY <1>1, <1>12, <3>1 DEF PaymentMutex, Works
    <3>3. ASSUME NEW y, y = lock[m], y = lock'[m]
          PROVE  (Works(lock[m]) /\ frame[lock[m]].at = m)'
      BY <1>10, <3>2, <3>3
    <3> QED
      BY <3>1, <3>3
  <2> QED
    BY <2>1, <2>2
<1> QED
  BY <1>4, <1>7, <1>11, <1>12 DEF PaymentMutex, Onward, RootsRemain

\* A step that leaves the frames and the mutexes alone.
LEMMA MutexUnchanged ==
  ASSUME TreeInv, PaymentMutex, UNCHANGED <<frame, lock>>
  PROVE  Onward
<1>1. Active' = Active
  BY DEF Active
<1>2. TreeInv'
  BY <1>1 DEF TreeInv, RootsStay, OpenedOnce, Opened, Stage, IsPayment
<1>3. PaymentMutex'
  BY <1>1 DEF PaymentMutex, Works, IsPayment
<1> QED
  BY <1>1, <1>2, <1>3 DEF Onward, RootsRemain

LEMMA ArriveMutex ==
  ASSUME MutexInv, NEW r \in Request, Arrive(r)
  PROVE  Onward
<1> DEFINE id == [req |-> r, path |-> <<>>]
           new == Open(None, "find")
<1>1. FrameType /\ TreeInv /\ PaymentMutex
  BY DEF MutexInv, IInv, FramesInv
<1>2. id \notin Active /\ frame' = Frames(Active \cup {id}, id, new, {}) /\ lock' = lock
  BY DEF Arrive
<1>3. frame' = [x \in Active \cup {id} |-> IF x = id THEN new ELSE frame[x]]
  BY <1>2 DEF Frames
<1>4. id.path = <<>> /\ id.req = r /\ Root(id) = id
  BY DEF Root
<1>5. new.at = None /\ new.pc = "find" /\ ~new.gone
  BY DEF Open
<1> HIDE DEF id, new
<1>6. /\ Active' = Active \cup {id} /\ frame'[id] = new
      /\ \A x \in Active : frame'[x] = frame[x] /\ x # id
  BY <1>2, <1>3 DEF Active
<1>7. \A x \in Active : Root(x) # id
  BY <1>1, <1>2 DEF TreeInv, RootsStay
<1>8. RootsStay'
  BY <1>1, <1>4, <1>5, <1>6 DEF TreeInv, RootsStay, Root
<1>9. ASSUME NEW a \in Active', NEW x \in Active', Above(a, x)
      PROVE  Opened(a, x.path[Len(a.path) + 1])'
  <2>1. x # id
    <3> SUFFICES ASSUME x = id PROVE FALSE
      OBVIOUS
    <3>1. Len(a.path) < 0
      BY <1>4, <1>9 DEF Above
    <3>2. Len(a.path) \in Nat
      <4>1. CASE a = id
        BY <1>4, <4>1
      <4>2. CASE a \in Active
        BY <1>1, <4>2, PathIsSeq DEF FrameType
      <4> QED
        BY <1>6, <4>1, <4>2
    <3> QED
      BY <3>1, <3>2
  <2>2. a # id
    <3> SUFFICES ASSUME a = id PROVE FALSE
      OBVIOUS
    <3>1. Root(x) = id
      BY <1>4, <1>9 DEF Above, Root, id
    <3> QED
      BY <1>6, <1>7, <2>1, <3>1
  <2>3. Opened(a, x.path[Len(a.path) + 1])
    BY <1>1, <1>6, <1>9, <2>1, <2>2 DEF TreeInv, OpenedOnce
  <2> QED
    BY <1>6, <2>2, <2>3 DEF Opened
<1>10. \A x \in Active' : Stage(x)'
  BY <1>1, <1>4, <1>5, <1>6 DEF TreeInv, Stage, IsPayment
<1>11. TreeInv'
  BY <1>8, <1>9, <1>10 DEF TreeInv, OpenedOnce, Above
<1>12. \A x \in Active' : Works(x)' => Works(x) /\ frame'[x].at = frame[x].at
  BY <1>4, <1>6 DEF Works, IsPayment
<1>13. \A x : Works(x) => Works(x)' /\ frame'[x].at = frame[x].at
  BY <1>6 DEF Works, IsPayment
<1>14. \A x : Works(x) => x \in Active
  BY DEF Works
<1>15. RootsRemain
  BY <1>6 DEF RootsRemain
<1> QED
  BY <1>1, <1>2, <1>11, <1>12, <1>13, <1>14, <1>15 DEF PaymentMutex, Onward

LEMMA FindLeaderMutex ==
  ASSUME MutexInv, IInv', NEW id \in Active, FindLeader(id)
  PROVE  Onward
<1>1. /\ FrameType /\ FrameType' /\ frame[id] \in Frame /\ frame[id].pc = "find"
  BY DEF MutexInv, IInv, FramesInv, FrameType, FindLeader, At
<1>2. ASSUME NEW u, NEW k, k = frame[id].try, NEW none, none = {}, Call(id, u, k, none)
      PROVE  Onward
  <2>1. k \in {1, 2} /\ frame[id].try \in 1 .. k
    BY <1>1, <1>2 DEF Frame
  <2>2. ~Opened(id, k)
    BY <1>1, <1>2, <2>1 DEF Opened
  <2>3. id \notin none /\ \A x \in none : x.path # <<>>
    BY <1>2
  <2> QED
    BY <1>1, <1>2, <2>1, <2>2, <2>3, CallMutex
<1>3. ASSUME Return(id, "error", {}) PROVE Onward
  BY <1>3, ReturnMutex
<1> QED
  BY <1>2, <1>3 DEF FindLeader, Resend

LEMMA PayDirectlyMutex ==
  ASSUME MutexInv, IInv', NEW id \in Active, PayDirectly(id)
  PROVE  Onward
<1>1. FrameType' /\ frame[id] \in Frame /\ frame[id].pc = "find"
  BY DEF MutexInv, IInv, FramesInv, FrameType, PayDirectly, At
<1>2. frame[id].try \in 1 .. 2 /\ ~Opened(id, 2)
  BY <1>1 DEF Frame, Opened
<1>3. ASSUME NEW u, NEW none, none = {}, Call(id, u, 2, none) PROVE Onward
  <2>1. id \notin none /\ \A x \in none : x.path # <<>>
    BY <1>3
  <2> QED
    BY <1>1, <1>2, <1>3, <2>1, CallMutex
<1> QED
  BY <1>3 DEF PayDirectly

\* A frame is no call of its own, and no call is a frame of the gateway.
LEMMA ChildIsOther ==
  ASSUME FrameType, NEW id \in Active
  PROVE  Child(id) # id /\ Child(id).path # <<>>
<1>1. id \in Id /\ frame[id].try \in {1, 2}
  BY DEF FrameType, Frame
<1>2. Child(id) = CallOf(id, frame[id].try)
  BY DEF Child, CallOf
<1>3. Child(id).path # <<>>
  BY <1>1, CalledId DEF Child
<1>4. Above(id, Child(id))
  BY <1>1, <1>2, AboveChild
<1> QED
  BY <1>1, <1>3, <1>4, NotAboveItself

LEMMA CallFailsMutex ==
  ASSUME MutexInv, IInv', NEW id \in Active, CallFails(id)
  PROVE  Onward
<1> DEFINE lost == {Child(id)} \cap Active
<1>1. /\ FrameType /\ FrameType' /\ frame[id] \in Frame /\ frame[id].pc = "called"
      /\ TreeInv /\ PaymentMutex /\ FrameInv(id)
  BY DEF MutexInv, IInv, FramesInv, FrameType, CallFails, At
<1>2. id \notin lost /\ \A x \in lost : x.path # <<>>
  BY <1>1, ChildIsOther
<1>3. /\ lost \subseteq Active
      /\ IF frame[id].at = None
           THEN IF frame[id].try = 1
                  THEN /\ frame' = Frames(Kept(lost), id,
                                    [frame[id] EXCEPT !.pc = "find", !.try = 2], lost)
                       /\ UNCHANGED lock
                  ELSE Return(id, "error", lost)
           ELSE \/ \E u \in Latest(id) : Call(id, u, frame[id].try + 1, lost)
                \/ Latest(id) = {} /\ Return(id, "refused", lost)
  BY DEF CallFails
<1> HIDE DEF lost
<1>4. ASSUME NEW a, Return(id, a, lost) PROVE Onward
  BY <1>2, <1>4, ReturnMutex
<1>5. ASSUME NEW u \in Latest(id), Call(id, u, frame[id].try + 1, lost)
      PROVE  Onward
  <2>1. frame[id].try = 1 /\ frame[id].try + 1 = 2
    BY <1>5 DEF Latest
  <2>2. ~Opened(id, 2)
    BY <2>1 DEF Opened
  <2>3. Call(id, u, 2, lost) /\ frame[id].try \in 1 .. 2
    BY <1>5, <2>1
  <2> QED
    BY <1>1, <1>2, <2>2, <2>3, CallMutex
<1>6. ASSUME frame[id].at = None, frame[id].try = 1, UNCHANGED lock,
             frame' = Frames(Kept(lost), id, [frame[id] EXCEPT !.pc = "find", !.try = 2], lost)
      PROVE  Onward
  <2> DEFINE f == [frame[id] EXCEPT !.pc = "find", !.try = 2]
  <2>1. f.at = None /\ f.pc = "find" /\ f.try = 2 /\ f.gone = frame[id].gone
    BY <1>1, <1>6 DEF Frame
  <2>2. Kept(lost) \subseteq Active /\ id \in Kept(lost)
    BY <1>2 DEF Kept
  <2>3. \A x \in Active \ Kept(lost) : x.path # <<>> /\ frame[x].pc = "ended"
    BY <1>2 DEF Kept, At
  <2>4. frame' = Frames(Kept(lost), id, f, lost)
    BY <1>6
  <2> HIDE DEF f
  <2>5. /\ Active' = Kept(lost) /\ frame'[id] = f
        /\ \A x \in Active' \ {id} : Ages(x)
    BY <1>1, <1>2, <2>2, <2>4, FramesAge DEF Active, Ages
  <2>6. id.path = <<>>
    <3>1. id.path # <<>> => frame[id].at \in Node
      BY <1>1 DEF FrameInv, Placed
    <3> QED
      BY <1>6, <3>1, RoutingAssumption
  <2>7. Ripens(id) /\ Stage(id)'
    BY <1>1, <1>6, <2>1, <2>5, <2>6 DEF Ripens, Stage, Opened
  <2>8. \A x \in Active' : Ripens(x) /\ Stage(x)'
    BY <1>1, <2>2, <2>5, <2>7, AgesKeeps
  <2>9. TreeInv'
    BY <1>1, <2>2, <2>3, <2>5, <2>8, TreeStays
  <2>10. \A x \in Active' : Works(x)' => Works(x) /\ frame'[x].at = frame[x].at
    BY <2>2, <2>5, <2>6 DEF Works, Ages, IsPayment
  <2>11. \A x : Works(x) => Works(x)' /\ frame'[x].at = frame[x].at
    BY <2>2, <2>3, <2>5, <2>6 DEF Works, Ages, IsPayment
  <2>12. RootsRemain
    BY <2>3, <2>5 DEF RootsRemain
  <2> QED
    BY <1>1, <1>6, <2>2, <2>5, <2>9, <2>10, <2>11, <2>12 DEF PaymentMutex, Onward
<1> QED
  BY <1>3, <1>4, <1>5, <1>6


LEMMA CallAnsweredMutex ==
  ASSUME MutexInv, NEW id \in Active, CallAnswered(id)
  PROVE  Onward
<1>1. \A x \in {Child(id)} : x.path # <<>>
  BY ChildIsOther DEF MutexInv, IInv, FramesInv
<1>2. Return(id, Answered(id), {Child(id)})
  BY DEF CallAnswered
<1> QED
  BY <1>1, <1>2, ReturnMutex

LEMMA LocalMutex ==
  ASSUME MutexInv, IInv', NEW id \in Active,
         \/ CallStripe(id) \/ Route(id) \/ CheckLedger(id) \/ RecordPayment(id) \/ Decide(id)
  PROVE  Onward
<1>1. FrameType /\ FrameType' /\ frame[id] \in Frame /\ TreeInv
  BY DEF MutexInv, IInv, FramesInv, FrameType
<1>2. ASSUME NEW a, Return(id, a, {}) PROVE Onward
  BY <1>2, ReturnMutex
<1>3. CASE CallStripe(id)
  <2>1. ASSUME Goto(id, "lock"), UNCHANGED lock PROVE Onward
    BY <1>3, <2>1, GotoMutex DEF CallStripe, At
  <2> QED
    BY <1>2, <1>3, <2>1 DEF CallStripe
<1>4. CASE Route(id)
  <2>1. ASSUME Goto(id, "check"), UNCHANGED lock PROVE Onward
    BY <1>4, <2>1, GotoMutex DEF Route, At
  <2>2. ASSUME NEW u, NEW none, none = {}, Call(id, u, 1, none) PROVE Onward
    <3>1. frame[id].pc = "route" /\ frame[id].try = 1
      BY <1>1, <1>4 DEF Route, At, TreeInv, Stage
    <3>2. ~Opened(id, 1) /\ frame[id].try \in 1 .. 1
      BY <3>1 DEF Opened
    <3>3. id \notin none /\ \A x \in none : x.path # <<>>
      BY <2>2
    <3> QED
      BY <1>1, <2>2, <3>1, <3>2, <3>3, CallMutex
  <2> QED
    BY <1>2, <1>4, <2>1, <2>2 DEF Route
<1>5. CASE CheckLedger(id)
  <2>1. ASSUME Goto(id, "record"), UNCHANGED lock PROVE Onward
    BY <1>5, <2>1, GotoMutex DEF CheckLedger, At
  <2> QED
    BY <1>2, <1>5, <2>1 DEF CheckLedger
<1>6. CASE RecordPayment(id)
  <2>1. ASSUME Goto(id, "decide"), UNCHANGED lock PROVE Onward
    BY <1>6, <2>1, GotoMutex DEF RecordPayment, At
  <2> QED
    BY <1>2, <1>6, <2>1 DEF RecordPayment
<1>7. CASE Decide(id)
  BY <1>2, <1>7 DEF Decide
<1> QED
  BY <1>3, <1>4, <1>5, <1>6, <1>7

LEMMA CrashMutex ==
  ASSUME MutexInv, NEW n \in Node, Crash(n)
  PROVE  Onward
<1> DEFINE orphan(x) == /\ x.path # <<>> /\ Parent(x) \in Active
                        /\ frame[Parent(x)].at = n
           left == {y \in Active : frame[y].at # n /\ ~(orphan(y) /\ At(y, "ended"))}
<1>1. /\ FrameType /\ TreeInv /\ PaymentMutex /\ lock \in [Node -> Id \cup {None}]
      /\ \A x \in Active : frame[x] \in Frame
  BY DEF MutexInv, IInv, FramesInv, FrameType
<1>2. frame' = [x \in left |-> IF orphan(x) THEN [frame[x] EXCEPT !.gone = TRUE] ELSE frame[x]]
  BY DEF Crash
<1>3. \A x \in Active \ left : frame[x].at = n \/ (x.path # <<>> /\ frame[x].pc = "ended")
  BY DEF At
<1>4. \A x : orphan(x) => x.path # <<>>
  OBVIOUS
<1> HIDE DEF orphan
<1>5. Active' = left /\ left \subseteq Active
  BY <1>2 DEF Active
<1>6. \A x \in left : Ages(x) /\ frame[x].at # n
  <2> SUFFICES ASSUME NEW x \in left PROVE Ages(x) /\ frame[x].at # n
    OBVIOUS
  <2>1. CASE orphan(x)
    <3>1. frame'[x] = [frame[x] EXCEPT !.gone = TRUE] /\ x.path # <<>>
      BY <1>2, <1>4, <2>1
    <3> QED
      BY <1>1, <3>1 DEF Ages, Frame
  <2>2. CASE ~orphan(x)
    <3>1. frame'[x] = frame[x]
      BY <1>2, <2>2
    <3> QED
      BY <3>1 DEF Ages
  <2> QED
    BY <2>1, <2>2
<1> HIDE DEF left
<1>7. n # None
  BY RoutingAssumption
<1>8. \A x \in Active \ Active' : x.path # <<>>
  <2> SUFFICES ASSUME NEW x \in Active \ left PROVE x.path # <<>>
    BY <1>5
  <2>1. x.path = <<>> => frame[x].at = None
    BY <1>1, RootsWait DEF TreeInv
  <2> QED
    BY <1>3, <1>7, <2>1
<1>9. \A x \in Active' : Ripens(x) /\ Stage(x)'
  BY <1>1, <1>5, <1>6, AgesKeeps
<1>10. TreeInv'
  BY <1>1, <1>5, <1>8, <1>9, TreeStays
<1>11. lock' = [lock EXCEPT ![n] = None]
  BY DEF Crash
<1>12. ASSUME NEW x \in Active', Works(x)' PROVE lock'[frame'[x].at] = x
  <2>1. Works(x) /\ frame'[x].at = frame[x].at /\ frame[x].at # n /\ x \in Active
    BY <1>5, <1>6, <1>12 DEF Ages, Works, IsPayment
  <2>2. lock[frame[x].at] = x
    BY <1>1, <2>1 DEF PaymentMutex
  <2>3. frame[x].at \in Node
    BY <2>1 DEF MutexInv, IInv, FramesInv, FrameInv, Placed, Works
  <2> QED
    BY <1>1, <1>11, <2>1, <2>2, <2>3
<1>13. ASSUME NEW m \in Node, lock'[m] # None PROVE (Works(lock[m]) /\ frame[lock[m]].at = m)'
  <2>1. m # n /\ lock'[m] = lock[m]
    BY <1>1, <1>11, <1>13
  <2>2. Works(lock[m]) /\ frame[lock[m]].at = m
    BY <1>1, <1>13, <2>1 DEF PaymentMutex
  <2>3. lock[m] \in left
    BY <1>3, <2>1, <2>2 DEF Works
  <2>4. ASSUME NEW y, y = lock[m], y = lock'[m]
        PROVE  (Works(lock[m]) /\ frame[lock[m]].at = m)'
    BY <1>5, <1>6, <2>2, <2>3, <2>4 DEF Ages, Works, IsPayment
  <2> QED
    BY <2>1, <2>4
<1> QED
  BY <1>8, <1>10, <1>12, <1>13 DEF PaymentMutex, Onward, RootsRemain


-----------------------------------------------------------------------------
(* Theorems                                                                *)

\* Routing reaches no state in which a frame is misplaced, a finalization is
\* worked on unpaid, an answer is untrue or an unpaid payment COMMITTED.
THEOREM RoutingInvariant == Spec => []IInv
<1>1. Init => IInv
  <2> SUFFICES ASSUME Init PROVE IInv
    OBVIOUS
  <2>1. Others
    BY RoutingAssumption DEF Init, Others, LedgerType, Belief
  <2>2. Active = {} /\ frame \in [{} -> Frame]
    BY DEF Init, Active
  <2>3. FramesInv
    BY <2>2 DEF Init, FramesInv, FrameType
  <2> QED
    BY <2>1, <2>3 DEF IInv
<1>2. IInv /\ [Next]_vars => IInv'
  <2> SUFFICES ASSUME IInv, [Next]_vars PROVE IInv'
    OBVIOUS
  <2>1. ASSUME NEW r \in Request, Arrive(r) PROVE IInv'
    BY <2>1, ArriveStep
  <2>2. ASSUME NEW id \in Active, HandlerStep(id) PROVE IInv'
    BY <2>2, FindLeaderStep, PayDirectlyStep, CallAnsweredStep, CallFailsStep, LocalStep,
       RecordPaymentStep
       DEF HandlerStep
  <2>3. CASE CreateCheckoutSession \/ PayAtStripe
    BY <2>3, EnvironmentStep
  <2>4. ASSUME NEW n \in Node, Replicated(n) \/ BeliefChanges(n) \/ Crash(n) PROVE IInv'
    BY <2>4, EnvironmentStep, CrashStep
  <2>5. CASE UNCHANGED vars
    <3>1. UNCHANGED <<ledger, session, rest, frame, lock>>
      BY <2>5 DEF vars, rest, nodes
    <3> QED
      BY <3>1, OthersUnchanged, FramesUnchanged, UnchangedStable DEF IInv
  <2> QED
    BY <2>1, <2>2, <2>3, <2>4, <2>5 DEF Next
<1> QED
  BY <1>1, <1>2, PTL DEF Spec

\* Every reachable state is well typed.
THEOREM RoutingTypeCorrect == Spec => []TypeOK
<1>1. IInv => TypeOK
  BY DEF IInv, Others, FramesInv, FrameType, LedgerType, TypeOK
<1> QED
  BY <1>1, RoutingInvariant, PTL

\* A handler that answers OK tells the truth, whatever calls it took
\* (processPaymentRequest, cancelHandler and the gateway pass answers on).
THEOREM TrueAnswers == Spec => []AnswersAreTrue
<1>1. IInv => AnswersAreTrue
  BY DEF IInv, FramesInv, FrameInv, TrueAnswer, AnswersAreTrue, Has, Verdict
<1> QED
  BY <1>1, RoutingInvariant, PTL

LEMMA EveryStepOnward ==
  ASSUME MutexInv, IInv', [Next]_vars
  PROVE  Onward
<1>1. TreeInv /\ PaymentMutex
  BY DEF MutexInv
<1>2. ASSUME NEW r \in Request, Arrive(r) PROVE Onward
  BY <1>2, ArriveMutex
<1>3. ASSUME NEW id \in Active, HandlerStep(id) PROVE Onward
  BY <1>3, FindLeaderMutex, PayDirectlyMutex, CallAnsweredMutex, CallFailsMutex, LockMutex,
     LocalMutex
     DEF HandlerStep
<1>4. CASE CreateCheckoutSession \/ PayAtStripe
  BY <1>1, <1>4, MutexUnchanged DEF CreateCheckoutSession, PayAtStripe
<1>5. ASSUME NEW n \in Node, Replicated(n) \/ BeliefChanges(n) PROVE Onward
  BY <1>1, <1>5, MutexUnchanged DEF Replicated, BeliefChanges
<1>6. ASSUME NEW n \in Node, Crash(n) PROVE Onward
  BY <1>6, CrashMutex
<1>7. CASE UNCHANGED vars
  BY <1>1, <1>7, MutexUnchanged DEF vars
<1> QED
  BY <1>2, <1>3, <1>4, <1>5, <1>6, <1>7 DEF Next

(***************************************************************************)
(* No id is used for two calls, so that a mutex held by an id is held by   *)
(* one handler, and this handler goes on to the Return that unlocks.       *)
(***************************************************************************)
THEOREM MutexInvariant == Spec => []MutexInv
<1>1. Init => TreeInv /\ PaymentMutex
  <2> SUFFICES ASSUME Init PROVE TreeInv /\ PaymentMutex
    OBVIOUS
  <2>1. Active = {} /\ \A n \in Node : lock[n] = None
    BY DEF Init, Active
  <2> QED
    BY <2>1 DEF TreeInv, RootsStay, OpenedOnce, PaymentMutex
<1>2. MutexInv /\ IInv' /\ [Next]_vars => MutexInv'
  BY EveryStepOnward DEF MutexInv, Onward
<1>3. MutexInv <=> IInv /\ TreeInv /\ PaymentMutex
  BY DEF MutexInv
<1> QED
  BY <1>1, <1>2, <1>3, RoutingInvariant, PTL DEF Spec

\* Of the handlers that a payment has at a node, through whatever retries and
\* circular calls, one at a time is past lockPaymentID, and every way out of
\* processPaymentRequest, a crash included, gives the mutex back.
THEOREM OneHandlerAtATime == Spec => []PaymentMutex
<1>1. MutexInv => PaymentMutex
  BY DEF MutexInv
<1> QED
  BY <1>1, MutexInvariant, PTL

\* A table says COMMITTED for the first time when a payment is decided; its first
\* node asked Stripe, or its client is the one that asked a node directly.
PaidInv == Has("COMMITTED") => session = "paid" \/ PaidDirectly

LEMMA FirstCommit ==
  ASSUME IInv, [Next]_vars, Has("COMMITTED")', ~Has("COMMITTED")
  PROVE  \E id \in Active : At(id, "decide") /\ IsPayment(id)
<1>1. LedgerType /\ \A id \in Active : FrameInv(id)
  BY DEF IInv, Others, FramesInv
<1>2. ledger' # ledger
  BY DEF Has
<1>3. ASSUME NEW n \in Node, Ledger!Record(n, Payment) PROVE FALSE
  BY <1>1, <1>3 DEF Has, LedgerType, Ledger!Record
<1>4. ASSUME NEW n \in Node, NEW s, Ledger!Learn(n, Payment, s) PROVE FALSE
  BY <1>1, <1>4 DEF Has, LedgerType, Ledger!Learn
<1>5. ASSUME NEW n \in Node, NEW s, Ledger!Decide(n, Payment, s) PROVE s = "COMMITTED"
  BY <1>1, <1>5 DEF Has, LedgerType, Ledger!Decide
<1>6. ASSUME NEW id \in Active, HandlerStep(id) PROVE At(id, "decide") /\ IsPayment(id)
  <2>1. CASE RecordPayment(id)
    <3>1. frame[id].at \in Node
      BY <1>1, <2>1 DEF RecordPayment, At, FrameInv, Placed
    <3> QED
      BY <1>2, <1>3, <1>5, <2>1, <3>1 DEF RecordPayment, Fail
  <2>2. CASE Decide(id)
    <3>1. frame[id].at \in Node
      BY <1>1, <2>2 DEF Decide, At, FrameInv, Placed
    <3> QED
      BY <1>2, <1>5, <2>2, <3>1 DEF Decide, Fail, Verdict
  <2>3. CASE FindLeader(id) \/ PayDirectly(id) \/ CallAnswered(id) \/ CallFails(id)
    BY <1>2, <2>3 DEF FindLeader, PayDirectly, CallAnswered, CallFails
  <2>4. CASE CallStripe(id) \/ LockPaymentID(id) \/ Route(id) \/ CheckLedger(id)
    BY <1>2, <2>4 DEF CallStripe, LockPaymentID, Route, CheckLedger
  <2> QED
    BY <1>6, <2>1, <2>2, <2>3, <2>4 DEF HandlerStep
<1>7. ASSUME NEW n \in Node, Replicated(n) \/ BeliefChanges(n) \/ Crash(n) PROVE FALSE
  BY <1>2, <1>3, <1>4, <1>7 DEF Replicated, BeliefChanges, Crash
<1>8. ASSUME NEW r \in Request, Arrive(r) PROVE FALSE
  BY <1>2, <1>8 DEF Arrive
<1>9. ~CreateCheckoutSession /\ ~PayAtStripe /\ ~UNCHANGED vars
  BY <1>2 DEF CreateCheckoutSession, PayAtStripe, vars
<1> QED
  BY <1>6, <1>7, <1>8, <1>9 DEF Next

LEMMA PaidStays == [Next]_vars /\ session = "paid" => session' = "paid"
<1> SUFFICES ASSUME [Next]_vars, session = "paid" PROVE session' = session
  OBVIOUS
<1>1. ASSUME NEW id \in Active, HandlerStep(id) PROVE UNCHANGED session
  BY <1>1 DEF HandlerStep, FindLeader, PayDirectly, CallAnswered, CallFails, CallStripe,
              LockPaymentID, Route, CheckLedger, RecordPayment, Decide
<1>2. ASSUME NEW n \in Node, Replicated(n) \/ BeliefChanges(n) \/ Crash(n)
      PROVE  UNCHANGED session
  BY <1>2 DEF Replicated, BeliefChanges, Crash
<1>3. ASSUME NEW r \in Request, Arrive(r) PROVE UNCHANGED session
  BY <1>3 DEF Arrive
<1> QED
  BY <1>1, <1>2, <1>3 DEF Next, CreateCheckoutSession, PayAtStripe, vars

LEMMA PaidStep ==
  ASSUME MutexInv, IInv', PaidInv, [Next]_vars
  PROVE  PaidInv'
<1>1. IInv /\ RootsStay /\ \A id \in Active : FrameInv(id)
  BY DEF MutexInv, IInv, FramesInv, TreeInv
<1>2. PaidDirectly => PaidDirectly'
  BY EveryStepOnward DEF Onward, RootsRemain, PaidDirectly
<1>3. ASSUME Has("COMMITTED")', ~Has("COMMITTED") PROVE session = "paid" \/ PaidDirectly
  <2>1. PICK id \in Active : At(id, "decide") /\ IsPayment(id)
    BY <1>1, <1>3, FirstCommit
  <2>2. Op[id.req] \in {"finalize", "pay"}
    BY <1>1, <2>1, RoutingAssumption DEF IsPayment, IInv, FramesInv, FrameType, Id
  <2>3. CASE Op[id.req] = "finalize"
    BY <1>1, <2>1, <2>3 DEF FrameInv, Placed, StripeAsked, At
  <2>4. CASE Op[id.req] = "pay"
    <3>1. Root(id) \in Active /\ Root(id).path = <<>> /\ Root(id).req = id.req
      BY <1>1 DEF RootsStay, Root
    <3> QED
      BY <2>4, <3>1 DEF PaidDirectly
  <2> QED
    BY <2>2, <2>3, <2>4
<1> QED
  BY <1>2, <1>3, PaidStays DEF PaidInv

\* Nothing is COMMITTED before the customer paid, although only the first node
\* of a finalization asks Stripe (stripeFinalizeCheckoutSessionHandler), except by
\* a POST /pay that a client sent itself (payHandler); and whoever committed the
\* payment, no finalization is answered OK before the customer paid.
THEOREM PaidBeforeCommitted == Spec => []CommittedIsPaid
<1>1. Init => PaidInv
  BY DEF Init, PaidInv, Has
<1>2. MutexInv /\ IInv' /\ PaidInv /\ [Next]_vars => PaidInv'
  BY PaidStep
<1>3. IInv /\ PaidInv => CommittedIsPaid
  BY DEF IInv, FramesInv, FrameInv, PaidAnswer, PaidInv, Has, CommittedIsPaid
<1> QED
  BY <1>1, <1>2, <1>3, RoutingInvariant, MutexInvariant, PTL DEF Spec
=============================================================================
