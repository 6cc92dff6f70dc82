-------------------------- MODULE MCBlockingQueue --------------------------
(* BlockingQueue with four threads and three items, for TLC. *)
EXTENDS BlockingQueue
=============================================================================
