----------------------------- MODULE Leadership -----------------------------
(***************************************************************************)
(* What the coordination of the cluster promises, without ZooKeeper: terms *)
(* are handed out one after the other, each to one node, and a node only   *)
(* leads under a term that was handed to it.  Which node gets the next     *)
(* term, and when a node takes or drops its claim, is left open.           *)
(***************************************************************************)
EXTENDS Naturals

CONSTANT Node

VARIABLES
  term,      \* the last term handed out
  granted,   \* the pairs <<term, node>> handed out so far
  believes   \* for each node the term it acts as the leader of, 0: none

vars == <<term, granted, believes>>

Init ==
  /\ term = 0
  /\ granted = {}
  /\ believes = [n \in Node |-> 0]

\* A node that is handed a term may drop the claim it had.
Grant(n) ==
  /\ term' = term + 1
  /\ granted' = granted \cup {<<term + 1, n>>}
  /\ believes' \in {believes, [believes EXCEPT ![n] = 0]}

Claim(n, t) ==
  /\ <<t, n>> \in granted
  /\ believes' = [believes EXCEPT ![n] = t]
  /\ UNCHANGED <<term, granted>>

StepDown(n) ==
  /\ believes' = [believes EXCEPT ![n] = 0]
  /\ UNCHANGED <<term, granted>>

Next == \E n \in Node : \/ Grant(n)
                        \/ \E t \in 1 .. term : Claim(n, t)
                        \/ StepDown(n)

Spec == Init /\ [][Next]_vars

(***************************************************************************)
(* A term is never the term of two leaders, not even while one of them has *)
(* not yet noticed that it lost its lease: entries of two leaders carry    *)
(* different terms.                                                        *)
(***************************************************************************)
OneLeaderPerTerm ==
  \A m, n \in Node : believes[m] = believes[n] /\ believes[m] # 0 => m = n
=============================================================================
