---------------------------- MODULE MCComponents ----------------------------
(***************************************************************************)
(* Components on small instances: one or two of each kind of thing, enough *)
(* workers for two of them to meet.  The functions among the constants are *)
(* defined here, the rest of the values are in the configuration.          *)
(***************************************************************************)
EXTENDS Components

(* PartyOf, VendorOf and Total. *)
Party == [x \in {"x1"} |-> "q1"]
Vendor == <<"v1", "v2">>
Totals == <<2, 1>>
=============================================================================
