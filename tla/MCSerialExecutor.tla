-------------------------- MODULE MCSerialExecutor --------------------------
(* SerialExecutor with two workers and two clients, for TLC. *)
EXTENDS SerialExecutor
=============================================================================
