--------------------------- MODULE MCAsyncLogger ---------------------------
(* AsyncLogger with a queue of one, for TLC. *)
EXTENDS AsyncLogger
=============================================================================
