------------------------- MODULE MCOutboxPublisher -------------------------
(* Instances of OutboxPublisher for TLC: the constants are in the .cfg     *)
(* files.                                                                  *)
EXTENDS OutboxPublisher
=============================================================================
