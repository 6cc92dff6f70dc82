----------------------------- MODULE MCWorkers -----------------------------
(***************************************************************************)
(* Two components that do not interact, in one run: the thread pool and    *)
(* the asynchronous logger.  `part' picks one of them at the start; it     *)
(* moves, the other stays where it began.                                  *)
(***************************************************************************)
EXTENDS ThreadPool

CONSTANTS Thread, QueueCapacity, Policy, MaxSeq   \* of the logger

VARIABLES part,
          queue, stopping, nextSeq, processed, pc, item, writer, batch, sink, flushed,
          queued, messages, before, missed

logger == <<queue, stopping, nextSeq, processed, pc, item, writer, batch, sink, flushed,
            queued, messages, before, missed>>

L == INSTANCE AsyncLogger WITH Capacity <- QueueCapacity, wpc <- writer, accepted <- queued

MCInit == part \in {"pool", "logger"} /\ Init /\ L!Init

MCNext ==
    /\ UNCHANGED part
    /\ \/ part = "pool" /\ Next /\ UNCHANGED logger
       \/ part = "logger" /\ L!Next /\ UNCHANGED vars

\* The fairness of ThreadPool; what needs the logger's is checked in MCAsyncLogger.
MCSpec ==
    /\ MCInit /\ [][MCNext]_<<part, vars, logger>>
    /\ \A c \in Controller : WF_vars(part = "pool" /\ ControllerStep(c))
    /\ \A s \in Submitter : WF_vars(part = "pool" /\ SubmitStep(s))
    /\ \A w \in Worker : WF_vars(part = "pool" /\ WorkerStep(w))

-----------------------------------------------------------------------------
\* AsyncLogger: when the worker is gone, every message that was accepted is written,
\* once, in the order of the queue, and flushed.
LoggerDrains == L!StopDrains

\* AsyncLogger: when flush() returns, what had been accepted before it is written, and
\* flushed unless a later number overtook it.
FlushCovers == L!FlushCovers
=============================================================================
