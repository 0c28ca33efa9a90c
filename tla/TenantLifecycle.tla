-------------------------- MODULE TenantLifecycle --------------------------
(***************************************************************************)
(* What the tenant registry promises of a tenant's provisioning status     *)
(* (platform/tenant-registry/src/lifecycle.rs): it only moves along        *)
(*                                                                         *)
(*     pending -> provisioning -> active                                   *)
(*                            \-> failed                                  *)
(*                                                                         *)
(* plus creation and the retry endpoint's failed -> pending.  Who moves    *)
(* it, when, and through which steps is left to Provisioning.              *)
(***************************************************************************)

(* is_valid_provisioning_transition *)
ValidTransition ==
    {<<"pending", "provisioning">>, <<"provisioning", "active">>,
     <<"provisioning", "failed">>}

(* The transitions of the two API handlers. *)
ApiTransition == {<<"none", "pending">>, <<"failed", "pending">>}
=============================================================================
