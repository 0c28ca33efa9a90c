---------------------------- MODULE MCCollection ----------------------------
(* An instance of Collection for TLC. *)
EXTENDS Collection
=============================================================================
