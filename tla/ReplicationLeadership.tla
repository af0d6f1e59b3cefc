----------------------- MODULE ReplicationLeadership -----------------------
(***************************************************************************)
(* Replication and the promise of the coordination.  Replication takes the *)
(* lease, the term and the status of a node in a few steps of its own,     *)
(* where Coordination has every ZooKeeper call.  Both implement Leadership: *)
(* what Replication assumes of the lease is what Coordination provides.    *)
(*                                                                         *)
(* Leadership remembers whom each term was handed to.  Replication has no  *)
(* use for that, so it is added here as a history variable.                *)
(***************************************************************************)
EXTENDS ReplicationProperties

VARIABLE grants   \* the pairs <<term, node>>, as /term was written

historyVars == <<vars, grants>>

HistoryInit == Init /\ grants = {}

\* A node that bumps the term is the one that acquires the lease.
Recorded ==
  grants' = IF term' = term THEN grants ELSE grants \cup {<<term', lease'.holder>>}

HistoryNext == Next /\ Recorded

HistorySpec == HistoryInit /\ [][HistoryNext]_historyVars

Claims == [n \in Node |-> IF status[n].role = "LEADER" THEN status[n].term ELSE 0]

L == INSTANCE Leadership WITH granted <- grants, believes <- Claims

(***************************************************************************)
(* Terms are granted one by one, and a node whose remembered role is       *)
(* LEADER, however stale, was granted the term it remembers with it        *)
(* (tryAcquireLeaderLease, refreshStatusFromLease, setZKError).            *)
(***************************************************************************)
LeaseImplementsLeadership == L!Spec
=============================================================================
