---------------------------- MODULE MCDelegation ----------------------------
(* Delegation as it is: one delegation is one instance. *)
EXTENDS Delegation
=============================================================================
