----------------------------- MODULE MCThreads -----------------------------
(***************************************************************************)
(* Three components that do not interact, in one run: the object pool, the *)
(* loop threads and the timer queue.  `part' picks one of them at the      *)
(* start; it moves, the others stay where they began.                      *)
(***************************************************************************)
EXTENDS ObjectPool

CONSTANTS Loop, Caller, Delays, MaxTimers, MaxGeneration, MaxTime

ASSUME TimerAssumption == Delays \subseteq Nat

VARIABLES part,
          mStarted, spent, latch, mLoop, thread, quit, wake, late, owner, loops, next, phase,
          started, stopped, heap, nextId, generation, cancelled, now, keeper, place, made,
          wpc, held, quiet

threads == <<mStarted, spent, latch, mLoop, thread, quit, wake, late, owner, loops, next, phase>>
timers == <<started, stopped, heap, nextId, generation, cancelled, now, keeper, place, made,
            wpc, held, quiet>>

T == INSTANCE EventLoopThreads WITH used <- spent
Q == INSTANCE TimerQueue WITH owner <- keeper, pc <- place

MCInit == part \in {"pool", "threads", "timers"} /\ Init /\ T!Init /\ Q!Init

MCNext ==
    /\ UNCHANGED part
    /\ \/ part = "pool" /\ Next /\ UNCHANGED <<threads, timers>>
       \/ part = "threads" /\ T!Next /\ UNCHANGED <<vars, timers>>
       \/ part = "timers" /\ Q!Next /\ UNCHANGED <<vars, threads>>

\* The fairness of EventLoopThreads and of TimerQueue.
MCSpec ==
    /\ MCInit /\ [][MCNext]_<<part, vars, threads, timers>>
    /\ \A i \in Loop : WF_threads(part = "threads" /\ T!ThreadStep(i))
    /\ WF_threads(part = "threads" /\ \E i \in Loop : T!OwnerReturns(i))
    /\ WF_timers(part = "timers" /\ Q!WorkerStep)
    /\ WF_timers(part = "timers" /\ Q!StopStep)
    /\ \A c \in Caller : WF_timers(part = "timers" /\ Q!CallStep(c))

-----------------------------------------------------------------------------
\* EventLoopThreads: getNextLoop() always has a live loop to return until the pool of
\* loops is destroyed.
LoopsAlive == T!LoopsAlive

\* EventLoopThreads: a quit() that comes after loop() was entered is never lost.
LateStopReturns == T!LateStopReturns

\* TimerQueue: a timer that cancel(), cancelAll() or stop() reached is never handed
\* over again.
CancelledNeverStarts == Q!CancelledNeverStarts

\* TimerQueue: a due timer does not wait for another call, and stop() returns.
WorkerNeverStuck == Q!WorkerNeverStuck
=============================================================================
