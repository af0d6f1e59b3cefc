---------------------------- MODULE MCLeadership ----------------------------
(***************************************************************************)
(* The instances of MCReplication with the history of the terms.           *)
(***************************************************************************)
EXTENDS MCReplication, ReplicationLeadership
=============================================================================
