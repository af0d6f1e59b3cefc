----------------------------- MODULE MCRouting -----------------------------
(***************************************************************************)
(* Routing on small instances: two nodes, up to three requests.            *)
(***************************************************************************)
EXTENDS Routing, TLC

CONSTANTS n1, n2, r1, r2, r3

\* A checkout is finalized while a client pays for it by POST /pay; another time
\* it is cancelled.
OpAll == r1 :> "finalize" @@ r2 :> "pay" @@ r3 :> "cancel"
PayTwiceOrCancel == {{r1, r2}, {r3}}
=============================================================================
