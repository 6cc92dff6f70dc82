-------------------------- MODULE EventLoopThreads --------------------------
(***************************************************************************)
(* net::EventLoopThread and net::EventLoopThreadPool: threads that each    *)
(* own an EventLoop, created by startLoop(), which waits on a              *)
(* CountDownLatch for the loop's address, dealt out round robin by         *)
(* getNextLoop(), and ended by stop().  The members are plain variables:   *)
(* one thread, the owner, makes all the calls.                             *)
(*                                                                         *)
(* Of each EventLoop this module keeps what stop() depends on, as EventLoop *)
(* has it: the quit flag, its reset on entry to loop(), the poll and the   *)
(* wake-up byte.                                                           *)
(***************************************************************************)
EXTENDS Naturals, Sequences

CONSTANT Loop   \* the EventLoopThread objects

VARIABLES
    mStarted,   \* EventLoopThread::m_started
    used,       \* Thread::m_started: a Thread starts once
    latch,      \* m_latch's count
    mLoop,      \* m_loop # nullptr
    thread,     \* where the thread is in threadFunc()
    quit,       \* EventLoop::m_quit
    wake,       \* a byte is in the loop's wake-up socket
    late,       \* history: quit() was called after loop() was entered
    owner,      \* the call the owner is in, and on which object
    loops,      \* EventLoopThreadPool::m_loops
    next,       \* EventLoopThreadPool::m_next, from 0
    phase       \* the pool: "starting" in start(), "serving" after it,
                \* "closing" in the destructor

threadVars == <<mLoop, thread, quit, wake>>
poolVars   == <<loops, next, phase>>
vars == <<threadVars, poolVars, mStarted, used, latch, late, owner>>

Idle == <<"idle">>

Init ==
    /\ mStarted = [i \in Loop |-> FALSE] /\ used = [i \in Loop |-> FALSE]
    /\ latch = [i \in Loop |-> 1] /\ mLoop = [i \in Loop |-> FALSE]
    /\ thread = [i \in Loop |-> "none"] /\ quit = [i \in Loop |-> FALSE]
    /\ wake = [i \in Loop |-> FALSE] /\ late = [i \in Loop |-> FALSE]
    /\ owner = Idle /\ loops = <<>> /\ next = 0
    /\ phase = "starting"

-----------------------------------------------------------------------------
\* The owner: startLoop() up to the latch, for a loop not started yet.
StartLoop(i) ==
    /\ owner = Idle /\ phase = "starting" /\ ~mStarted[i] /\ ~used[i]
    /\ mStarted' = [mStarted EXCEPT ![i] = TRUE]
    /\ used' = [used EXCEPT ![i] = TRUE]
    /\ thread' = [thread EXCEPT ![i] = "construct"]
    /\ owner' = <<"latch", i>>
    /\ UNCHANGED <<mLoop, quit, wake, poolVars, latch, late>>

\* The thread cannot be created: the exception destroys the new object, whose
\* stop() finds nothing to join, and leaves the pool's start() with the loops
\* it has.
StartLoopFails(i) ==
    /\ owner = Idle /\ phase = "starting" /\ ~used[i]
    /\ used' = [used EXCEPT ![i] = TRUE]
    /\ phase' = "serving"
    /\ UNCHANGED <<threadVars, loops, next, mStarted, latch, late, owner>>

\* startLoop() on an object that was stopped throws, because its Thread has been
\* used up, and leaves m_started set.
RestartThrows(i) ==
    /\ owner = Idle /\ phase = "closing" /\ ~mStarted[i] /\ used[i]
    /\ mStarted' = [mStarted EXCEPT ![i] = TRUE]
    /\ UNCHANGED <<threadVars, poolVars, used, latch, late, owner>>

\* Mutant: startLoop() does not wait for the latch.
StartLoopNoWait(i) ==
    /\ owner = <<"latch", i>>
    /\ loops' = Append(loops, i)
    /\ owner' = Idle
    /\ UNCHANGED <<threadVars, mStarted, used, latch, late, next, phase>>

\* The latch opens; the pool's start() keeps the address (m_loops.emplace_back).
StartLoopReturns(i) ==
    /\ owner = <<"latch", i>> /\ latch[i] = 0 /\ mLoop[i]
    /\ loops' = Append(loops, i)
    /\ owner' = Idle
    /\ UNCHANGED <<threadVars, mStarted, used, latch, late, next, phase>>

\* getNextLoop() returns the loop at m_next, or the base loop when there is none.
GetNextLoop ==
    /\ owner = Idle /\ phase = "serving" /\ loops # <<>>
    /\ next' = IF next + 1 >= Len(loops) THEN 0 ELSE next + 1
    /\ UNCHANGED <<threadVars, mStarted, used, latch, late, owner, loops, phase>>

\* The pool's start() returns (with fewer loops than Loop has, when the pool is
\* smaller); later its destructor runs.
PoolPhase ==
    /\ owner = Idle /\ phase # "closing"
    /\ phase' = IF phase = "starting" THEN "serving" ELSE "closing"
    /\ UNCHANGED <<threadVars, mStarted, used, latch, late, owner, loops, next>>

\* Mutant: quit() without the wake-up of the poll.
StopSilently(i) ==
    /\ owner = Idle /\ mStarted[i] /\ phase = "closing"
    /\ owner' = <<"join", i>>
    /\ IF mLoop[i]
         THEN /\ quit' = [quit EXCEPT ![i] = TRUE]
              /\ late' = [late EXCEPT ![i] = thread[i] # "enter"]
         ELSE UNCHANGED <<quit, late>>
    /\ UNCHANGED <<mLoop, thread, wake, poolVars, mStarted, used, latch>>

\* stop(): m_loop is read and told to quit ...
Stop(i) ==
    /\ owner = Idle /\ mStarted[i] /\ phase = "closing"
    /\ owner' = <<"join", i>>
    /\ IF mLoop[i]
         THEN /\ quit' = [quit EXCEPT ![i] = TRUE]
              /\ wake' = [wake EXCEPT ![i] = TRUE]
              /\ late' = [late EXCEPT ![i] = thread[i] # "enter"]
         ELSE UNCHANGED <<quit, wake, late>>
    /\ UNCHANGED <<mLoop, thread, poolVars, mStarted, used, latch>>

\* ... and the thread, if there is one, is joined.
StopJoined(i) ==
    /\ owner = <<"join", i>> /\ thread[i] \in {"none", "exited"}
    /\ mLoop' = [mLoop EXCEPT ![i] = FALSE]
    /\ mStarted' = [mStarted EXCEPT ![i] = FALSE]
    /\ owner' = Idle
    /\ UNCHANGED <<thread, quit, wake, poolVars, used, latch, late>>

-----------------------------------------------------------------------------
\* threadFunc(): the loop is constructed and published, loop() entered (which
\* resets m_quit), left, and m_loop cleared before the loop dies.
Move(i, from, to) == thread[i] = from /\ thread' = [thread EXCEPT ![i] = to]

Construct(i) ==
    /\ Move(i, "construct", "publish")
    /\ mLoop' = [mLoop EXCEPT ![i] = TRUE]
    /\ UNCHANGED <<quit, wake, poolVars, mStarted, used, latch, late, owner>>

Publish(i) ==
    /\ Move(i, "publish", "enter")
    /\ latch' = [latch EXCEPT ![i] = 0]
    /\ UNCHANGED <<mLoop, quit, wake, poolVars, mStarted, used, late, owner>>

EnterLoop(i) ==
    /\ Move(i, "enter", "test")
    /\ quit' = [quit EXCEPT ![i] = FALSE]
    /\ UNCHANGED <<mLoop, wake, poolVars, mStarted, used, latch, late, owner>>

TestQuit(i) ==
    /\ Move(i, "test", IF quit[i] THEN "left" ELSE "poll")
    /\ UNCHANGED <<mLoop, quit, wake, poolVars, mStarted, used, latch, late, owner>>

\* The poll returns when woken, and at its timeout.
Poll(i) ==
    /\ Move(i, "poll", "test")
    /\ wake' = [wake EXCEPT ![i] = FALSE]
    /\ UNCHANGED <<mLoop, quit, poolVars, mStarted, used, latch, late, owner>>

LeaveThread(i) ==
    /\ Move(i, "left", "exited")
    /\ mLoop' = [mLoop EXCEPT ![i] = FALSE]
    /\ UNCHANGED <<quit, wake, poolVars, mStarted, used, latch, late, owner>>

Woken(i) == wake[i] /\ Poll(i)
ThreadStep(i) ==
    Construct(i) \/ Publish(i) \/ EnterLoop(i) \/ TestQuit(i) \/ Woken(i) \/ LeaveThread(i)

OwnerReturns(i) == StartLoopReturns(i) \/ StopJoined(i)

Next ==
    \/ \E i \in Loop : \/ StartLoop(i) \/ StartLoopFails(i) \/ RestartThrows(i) \/ Stop(i)
                       \/ OwnerReturns(i) \/ ThreadStep(i) \/ Poll(i)
    \/ GetNextLoop \/ PoolPhase

Spec == Init /\ [][Next]_vars

\* The loop threads and their owner, which is one thread, run; the poll's timeout is
\* not counted on.
Fairness ==
    /\ \A i \in Loop : WF_vars(ThreadStep(i))
    /\ WF_vars(\E i \in Loop : OwnerReturns(i))
FairSpec == Spec /\ Fairness

-----------------------------------------------------------------------------
Stages == {"none", "construct", "publish", "enter", "test", "poll", "left", "exited"}

TypeOK ==
    /\ {mStarted, used, mLoop, quit, wake, late} \subseteq [Loop -> BOOLEAN]
    /\ latch \in [Loop -> 0..1] /\ thread \in [Loop -> Stages]
    /\ owner \in {Idle} \cup ({"latch", "join"} \X Loop)
    /\ loops \in Seq(Loop) /\ next \in Nat /\ (loops # <<>> => next < Len(loops))
    /\ phase \in {"starting", "serving", "closing"}

\* getNextLoop() always has a loop to return that is constructed and whose thread
\* is on its way into loop() or inside it, until the pool is destroyed: also after
\* a start() that failed part way.
LoopsAlive ==
    phase # "closing" =>
        /\ \A k \in DOMAIN loops : thread[loops[k]] \in {"enter", "test", "poll"}
        /\ next \in 0..(Len(loops) - 1) \/ loops = <<>>

\* A quit() that comes after loop() was entered is never lost: stop() returns.
\* (One that comes between the latch and the reset in loop() is.)
LateStopReturns ==
    (\E i \in Loop : owner = <<"join", i>> /\ late[i]) ~> (owner = Idle)
=============================================================================
