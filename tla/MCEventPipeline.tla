-------------------------- MODULE MCEventPipeline --------------------------
(* An instance of EventPipeline for TLC: the constants are in the .cfg file. *)
EXTENDS EventPipeline
=============================================================================
