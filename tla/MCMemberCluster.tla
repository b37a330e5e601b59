--------------------------- MODULE MCMemberCluster ---------------------------
(***************************************************************************)
(* Instances of MemberCluster: one object of each sort.  Gateways meet     *)
(* only in the fan-out, which treats them alike, so one is enough.         *)
(***************************************************************************)
EXTENDS MemberCluster
=============================================================================
