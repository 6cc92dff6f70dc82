---------------------------- MODULE MCEventLoop ----------------------------
(* EventLoop on small sets, for TLC. *)
EXTENDS EventLoop

\* A delay in the past; the intervals give the timers that lie in the future.
MCDelay == {-1}
=============================================================================
