------------------------ MODULE MCProvisioningOverlap ------------------------
(* An instance of ProvisioningOverlap for TLC. *)
EXTENDS ProvisioningOverlap, TLC

CallersAlike == Permutations(Callers)
=============================================================================
