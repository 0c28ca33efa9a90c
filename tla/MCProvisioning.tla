--------------------------- MODULE MCProvisioning ---------------------------
(* Instances of Provisioning for TLC: the constants are in the .cfg files. *)
EXTENDS Provisioning
=============================================================================
