---------------------------- MODULE MCMemberToken ----------------------------
(***************************************************************************)
(* An instance of MemberToken for TLC: the unit of time is an hour, a run  *)
(* is rounded up to one, and tokens live six hours instead of twelve, so   *)
(* that renewals come often in a small state space.                        *)
(***************************************************************************)
EXTENDS MemberToken
=============================================================================
