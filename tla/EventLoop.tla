----------------------------- MODULE EventLoop -----------------------------
(***************************************************************************)
(* net::EventLoop with its WakeupChannel: one loop thread that processes   *)
(* timers, polls, handles the active channels and runs queued functors,    *)
(* and other threads that queue functors, arm and cancel timers and call   *)
(* quit().                                                                 *)
(*                                                                         *)
(* A step is what one thread does between two points where another thread  *)
(* can see or change the shared state: m_mutex protects m_pendingFunctors, *)
(* m_quit and m_nextTimerId are atomics, and the wake-up bytes live in the *)
(* kernel's socket buffer.  Callbacks (functors, timers, channels) are     *)
(* bodies in which the loop thread calls the loop's own interface.         *)
(***************************************************************************)
EXTENDS Integers, Sequences, FiniteSets

CONSTANTS
    Thread,      \* the threads other than the loop's
    Functor,     \* the functors users may queue, each once
    MaxTimer,    \* bound: how many timers are ever created
    Delay,       \* the delays given to runAfter, in ticks
    Interval,    \* the intervals given to runEvery, in ticks
    MaxTime,     \* bound: the clock's horizon
    IdlePoll,    \* the poll timeout of a loop without timers (10000 ms)
    WakeRoom,    \* how many bytes the wake-up socket's buffer holds
    WakeChunk,   \* how many bytes one read of the wake-up socket takes
    MayQuit      \* bound: whether quit() is ever called

ASSUME LoopAssumption ==
    /\ MaxTimer \in Nat /\ MaxTime \in Nat /\ IdlePoll \in Nat \ {0}
    /\ Delay \subseteq Int /\ Interval \subseteq Nat \ {0}
    /\ WakeRoom \in Nat \ {0} /\ WakeChunk \in Nat \ {0} /\ MayQuit \in BOOLEAN

VARIABLES
    lpc,        \* where the loop thread is; "out" is outside loop()
    body,       \* whose callback it is executing, if any
    mQuit,      \* m_quit
    told,       \* another thread called quit() since loop() was last entered
    pending,    \* m_pendingFunctors
    running,    \* the local vector of doPendingFunctors
    calling,    \* m_callingPendingFunctors
    wake,       \* bytes in the wake-up socket
    ready,      \* m_activeChannels still to be handled
    tpc,        \* what another thread still has to do in its call
    now,        \* steady_clock
    snap,       \* processTimers' own now (0 outside processTimers)
    deadline,   \* when the current poll times out (0 outside poll)
    armed,      \* ids handed out so far: m_nextTimerId - 1
    due,        \* TimerTask::expiration
    every,      \* TimerTask::interval, 0 for a one-shot timer
    cancelled,  \* TimerTask::cancelled, as the set of such tasks
    heap,       \* m_timers
    timerMap,   \* the keys of m_timerMap
    firing,     \* the timer whose callback runs, 0 for none
    posted,     \* history: everything queued, in queueing order
    done,       \* history: every functor run, in running order
    asked,      \* history: timers on which cancelTimerInLoop has run
    early       \* history: those of asked that were not added yet then

loopVars  == <<lpc, body, ready, snap, deadline, firing>>
queueVars == <<pending, running, calling, posted, done>>
timerVars == <<armed, due, every, cancelled, heap, timerMap, asked, early>>
vars == <<loopVars, queueVars, timerVars, mQuit, told, wake, tpc, now>>

TimerId == 1..MaxTimer
Origin  == {"thread", "functor", "timer", "channel", "owner"}
Call    == [kind : {"user"}, id : Functor, from : Origin]
           \cup [kind : {"add", "cancel"}, id : TimerId, from : Origin]

Init ==
    /\ lpc = "out" /\ body = "none" /\ ready = {} /\ snap = 0 /\ deadline = 0
    /\ firing = 0 /\ mQuit = FALSE /\ told = FALSE
    /\ pending = <<>> /\ running = <<>> /\ calling = FALSE /\ wake = 0
    /\ tpc = [t \in Thread |-> "idle"]
    /\ now = 0 /\ armed = 0 /\ heap = {} /\ timerMap = {} /\ cancelled = {}
    /\ due = [i \in TimerId |-> 0] /\ every = [i \in TimerId |-> 0]
    /\ posted = <<>> /\ done = <<>> /\ asked = {} /\ early = {}

-----------------------------------------------------------------------------
\* The pieces the handlers share.

\* WakeupChannel::wakeup: one byte; the result of a write to a full socket
\* buffer is ignored.
Wakeup == wake' = IF wake < WakeRoom THEN wake + 1 ELSE wake

\* TimerCompare: earliest expiration first, then the smallest id.
Before(i, j) == due[i] < due[j] \/ (due[i] = due[j] /\ i < j)
Top == CHOOSE i \in heap : \A j \in heap \ {i} : Before(i, j)

\* queueInLoop, up to the wake-up.
Enqueue(fn) ==
    /\ pending' = Append(pending, fn)
    /\ posted' = Append(posted, fn)

\* addTimerInLoop(i), the wake-up of the loop's own poll included.
AddTimerInLoop(i) ==
    /\ IF heap = {} \/ due'[i] < due'[Top] THEN Wakeup ELSE UNCHANGED wake
    /\ timerMap' = timerMap \cup {i}
    /\ heap' = heap \cup {i}

Queued(kind, i) ==
    \E s \in {pending, running} :
        \E k \in DOMAIN s : s[k].kind = kind /\ s[k].id = i

\* Mutant: the timer is looked for among the scheduled ones, so that a timer
\* that cancels itself from its callback is not found.
CancelScheduledOnly(i) ==
    /\ asked' = asked \cup {i}
    /\ early' = IF Queued("add", i) THEN early \cup {i} ELSE early
    /\ IF i \in heap
         THEN cancelled' = cancelled \cup {i} /\ timerMap' = timerMap \ {i}
         ELSE UNCHANGED <<cancelled, timerMap>>

CancelTimerInLoop(i) ==
    /\ asked' = asked \cup {i}
    /\ early' = IF Queued("add", i) THEN early \cup {i} ELSE early
    /\ IF i \in timerMap
         THEN cancelled' = cancelled \cup {i} /\ timerMap' = timerMap \ {i}
         ELSE UNCHANGED <<cancelled, timerMap>>

\* runAfter and runEvery: a new TimerTask; a negative delay counts as zero.
NewTimer(d, p) ==
    /\ armed < MaxTimer
    /\ armed' = armed + 1
    /\ due' = [due EXCEPT ![armed + 1] = now + (IF d < 0 THEN 0 ELSE d)]
    /\ every' = [every EXCEPT ![armed + 1] = p]

TimerArgs == {<<d, 0>> : d \in Delay} \cup {<<p, p>> : p \in Interval}
Fresh(f) == \A k \in DOMAIN posted : posted[k].kind = "user" => posted[k].id # f

-----------------------------------------------------------------------------
\* Calls from other threads: the call proper, and the wakeup() it ends with.

Post(t, fn) ==
    /\ tpc[t] = "idle"
    /\ Enqueue(fn)
    /\ tpc' = [tpc EXCEPT ![t] = "wake"]
    /\ UNCHANGED <<loopVars, running, calling, done, mQuit, told, wake, now>>

QueueInLoop(t, f) ==
    /\ Fresh(f)
    /\ Post(t, [kind |-> "user", id |-> f, from |-> "thread"])
    /\ UNCHANGED timerVars

RunTimer(t, d, p) ==
    /\ NewTimer(d, p)
    /\ Post(t, [kind |-> "add", id |-> armed + 1, from |-> "thread"])
    /\ UNCHANGED <<cancelled, heap, timerMap, asked, early>>

\* Bound: each timer is cancelled once.
CancelTimer(t, i) ==
    /\ i <= armed /\ ~Queued("cancel", i) /\ i \notin asked
    /\ Post(t, [kind |-> "cancel", id |-> i, from |-> "thread"])
    /\ UNCHANGED timerVars

\* Mutant: quit() sets the flag and leaves the loop in its poll.
QuitOnly(t) ==
    /\ MayQuit /\ tpc[t] = "idle" /\ ~told
    /\ mQuit' = TRUE /\ told' = TRUE
    /\ UNCHANGED <<loopVars, queueVars, timerVars, wake, tpc, now>>

\* Bound: other threads call quit() once per run of loop(); a second call only
\* writes one more wake-up byte.
Quit(t) ==
    /\ MayQuit /\ tpc[t] = "idle" /\ ~told
    /\ mQuit' = TRUE /\ told' = TRUE
    /\ tpc' = [tpc EXCEPT ![t] = "wake"]
    /\ UNCHANGED <<loopVars, queueVars, timerVars, wake, now>>

\* Mutant: the caller's wakeup() is missing.
CallerSleeps(t) ==
    /\ tpc[t] = "wake"
    /\ tpc' = [tpc EXCEPT ![t] = "idle"]
    /\ UNCHANGED <<loopVars, queueVars, timerVars, mQuit, told, wake, now>>

CallerWakes(t) ==
    /\ tpc[t] = "wake"
    /\ Wakeup
    /\ tpc' = [tpc EXCEPT ![t] = "idle"]
    /\ UNCHANGED <<loopVars, queueVars, timerVars, mQuit, told, now>>

-----------------------------------------------------------------------------
\* Calls from the loop thread: from a callback, or before loop() is entered.

MayCall == lpc = "out" \/ body # "none"
From == IF lpc = "out" THEN "owner" ELSE body

OwnQueueInLoop(f) ==
    /\ MayCall /\ Fresh(f)
    /\ Enqueue([kind |-> "user", id |-> f, from |-> From])
    /\ IF calling THEN Wakeup ELSE UNCHANGED wake
    /\ UNCHANGED <<loopVars, timerVars, running, calling, done, mQuit, told, tpc, now>>

OwnRunTimer(d, p) ==
    /\ MayCall
    /\ NewTimer(d, p)
    /\ AddTimerInLoop(armed + 1)
    /\ UNCHANGED <<loopVars, queueVars, cancelled, asked, early, mQuit, told, tpc, now>>

OwnCancelTimer(i) ==
    /\ MayCall /\ i <= armed /\ i \notin asked
    /\ CancelTimerInLoop(i)
    /\ UNCHANGED <<loopVars, queueVars, armed, due, every, heap, mQuit, told, wake, tpc, now>>

OwnQuit ==
    /\ MayQuit /\ MayCall /\ ~mQuit
    /\ mQuit' = TRUE
    /\ UNCHANGED <<loopVars, queueVars, timerVars, told, wake, tpc, now>>

-----------------------------------------------------------------------------
\* loop()

Enter ==
    /\ lpc = "out"
    /\ mQuit' = FALSE /\ told' = FALSE
    /\ lpc' = "test"
    /\ UNCHANGED <<body, ready, snap, deadline, firing, queueVars, timerVars, wake, tpc, now>>

Test ==
    /\ lpc = "test"
    /\ IF mQuit THEN lpc' = "out" /\ UNCHANGED snap
                ELSE lpc' = "timers" /\ snap' = now
    /\ UNCHANGED <<body, ready, deadline, firing, queueVars, timerVars, mQuit, told, wake, tpc, now>>

\* processTimers, called before the poll ("timers") and after the functors
\* ("timersAgain").
InTimers == lpc \in {"timers", "timersAgain"} /\ body = "none"

TopIsDue == heap # {} /\ Top \notin cancelled /\ due[Top] <= snap

\* A cancelled timer is popped, and so is one that is due but not in the map.
DropDead ==
    /\ InTimers /\ heap # {}
    /\ Top \notin cancelled => TopIsDue /\ Top \notin timerMap
    /\ heap' = heap \ {Top}
    /\ UNCHANGED <<loopVars, queueVars, armed, due, every, cancelled, timerMap, asked, early,
                   mQuit, told, wake, tpc, now>>

Fire ==
    /\ InTimers /\ TopIsDue /\ Top \in timerMap
    /\ heap' = heap \ {Top}
    /\ firing' = Top /\ body' = "timer"
    /\ UNCHANGED <<lpc, ready, snap, deadline, queueVars, armed, due, every, cancelled, timerMap,
                   asked, early, mQuit, told, wake, tpc, now>>

\* Mutant: the entry of a one-shot timer stays in m_timerMap.
FiredKeepsEntry ==
    /\ body = "timer"
    /\ body' = "none" /\ firing' = 0
    /\ IF every[firing] # 0 /\ firing \notin cancelled
         THEN /\ due' = [due EXCEPT ![firing] = now + every[firing]]
              /\ heap' = heap \cup {firing}
         ELSE UNCHANGED <<due, heap>>
    /\ UNCHANGED <<lpc, ready, snap, deadline, queueVars, armed, every, cancelled, timerMap, asked,
                   early, mQuit, told, wake, tpc, now>>

Fired ==
    /\ body = "timer"
    /\ body' = "none" /\ firing' = 0
    /\ IF every[firing] # 0 /\ firing \notin cancelled
         THEN /\ due' = [due EXCEPT ![firing] = now + every[firing]]
              /\ heap' = heap \cup {firing}
              /\ UNCHANGED timerMap
         ELSE timerMap' = timerMap \ {firing} /\ UNCHANGED <<due, heap>>
    /\ UNCHANGED <<lpc, ready, snap, deadline, queueVars, armed, every, cancelled, asked, early,
                   mQuit, told, wake, tpc, now>>

\* Mutant: the poll takes no notice of the timers.
PollDeadlineIdle == now + IdlePoll

\* getPollTimeoutMs.
PollDeadline ==
    IF heap = {} THEN now + IdlePoll
    ELSE IF Top \in cancelled \/ due[Top] <= now THEN now ELSE due[Top]

TimersDone ==
    /\ InTimers /\ (heap # {} => Top \notin cancelled /\ due[Top] > snap)
    /\ IF lpc = "timers" THEN lpc' = "poll" /\ deadline' = PollDeadline
                         ELSE lpc' = "test" /\ UNCHANGED deadline
    /\ snap' = 0
    /\ UNCHANGED <<body, ready, firing, queueVars, timerVars, mQuit, told, wake, tpc, now>>

\* The poll returns: with the wake-up channel readable, at its deadline, or for
\* a reason outside the loop (another channel is ready, or a signal).
PollReturns(channels) ==
    /\ lpc = "poll"
    /\ lpc' = "events"
    /\ ready' = channels \cup (IF wake > 0 THEN {"wakeup"} ELSE {})
    /\ deadline' = 0
    /\ UNCHANGED <<body, snap, firing, queueVars, timerVars, mQuit, told, wake, tpc, now>>

PollWoken == wake > 0 /\ PollReturns({})
PollTimeout == now >= deadline /\ PollReturns({})
PollOther == \E channels \in {{}, {"user"}} : PollReturns(channels)

\* handleWakeupRead: reads until a read is short.
ReadWakeup ==
    /\ lpc = "events" /\ body = "none" /\ "wakeup" \in ready
    /\ wake' = IF wake < WakeChunk THEN 0 ELSE wake - WakeChunk
    /\ ready' = IF wake < WakeChunk THEN ready \ {"wakeup"} ELSE ready
    /\ UNCHANGED <<lpc, body, snap, deadline, firing, queueVars, timerVars, mQuit, told, tpc, now>>

HandleChannel ==
    /\ lpc = "events" /\ body = "none" /\ "user" \in ready
    /\ ready' = ready \ {"user"}
    /\ body' = "channel"
    /\ UNCHANGED <<lpc, snap, deadline, firing, queueVars, timerVars, mQuit, told, wake, tpc, now>>

ChannelHandled ==
    /\ body = "channel"
    /\ body' = "none"
    /\ UNCHANGED <<lpc, ready, snap, deadline, firing, queueVars, timerVars, mQuit, told, wake, tpc, now>>

\* Mutant: the pending functors are copied, not swapped out.
SwapCopies ==
    /\ lpc = "events" /\ body = "none" /\ ready = {}
    /\ calling' = TRUE
    /\ running' = pending
    /\ lpc' = "functors"
    /\ UNCHANGED <<body, ready, snap, deadline, firing, pending, posted, done, timerVars, mQuit, told,
                   wake, tpc, now>>

\* doPendingFunctors: only the loop thread reads m_callingPendingFunctors, so
\* setting it and the swap are one step.
SwapFunctors ==
    /\ lpc = "events" /\ body = "none" /\ ready = {}
    /\ calling' = TRUE
    /\ running' = pending /\ pending' = <<>>
    /\ lpc' = "functors"
    /\ UNCHANGED <<body, ready, snap, deadline, firing, posted, done, timerVars, mQuit, told, wake, tpc, now>>

Running(kind) ==
    lpc = "functors" /\ body = "none" /\ running # <<>> /\ Head(running).kind = kind

RunUser ==
    /\ Running("user")
    /\ body' = "functor"
    /\ UNCHANGED <<lpc, ready, snap, deadline, firing, queueVars, timerVars, mQuit, told, wake, tpc, now>>

FunctorRan ==
    /\ done' = Append(done, Head(running))
    /\ running' = Tail(running)
    /\ UNCHANGED <<lpc, ready, snap, deadline, firing, pending, calling, posted, mQuit, told, tpc, now>>

UserRan ==
    /\ body = "functor"
    /\ body' = "none"
    /\ FunctorRan
    /\ UNCHANGED <<timerVars, wake>>

RunAdd ==
    /\ Running("add")
    /\ FunctorRan
    /\ UNCHANGED <<body, armed, due, every, cancelled, asked, early>>
    /\ AddTimerInLoop(Head(running).id)

RunCancel ==
    /\ Running("cancel")
    /\ FunctorRan
    /\ CancelTimerInLoop(Head(running).id)
    /\ UNCHANGED <<body, armed, due, every, heap, wake>>

FunctorsDone ==
    /\ lpc = "functors" /\ body = "none" /\ running = <<>>
    /\ calling' = FALSE
    /\ lpc' = "timersAgain" /\ snap' = now
    /\ UNCHANGED <<body, ready, deadline, firing, pending, running, posted, done, timerVars, mQuit, told,
                   wake, tpc, now>>

Tick ==
    /\ now < MaxTime
    /\ now' = now + 1
    /\ UNCHANGED <<loopVars, queueVars, timerVars, mQuit, told, wake, tpc>>

-----------------------------------------------------------------------------
LoopStep ==
    \/ Test \/ DropDead \/ Fire \/ Fired \/ TimersDone
    \/ PollWoken \/ PollTimeout \/ ReadWakeup \/ HandleChannel \/ ChannelHandled
    \/ SwapFunctors \/ RunUser \/ UserRan \/ RunAdd \/ RunCancel \/ FunctorsDone

OwnCall ==
    \/ \E f \in Functor : OwnQueueInLoop(f)
    \/ \E a \in TimerArgs : OwnRunTimer(a[1], a[2])
    \/ \E i \in TimerId : OwnCancelTimer(i)
    \/ OwnQuit

ThreadCall(t) ==
    \/ \E f \in Functor : QueueInLoop(t, f)
    \/ \E a \in TimerArgs : RunTimer(t, a[1], a[2])
    \/ \E i \in TimerId : CancelTimer(t, i)
    \/ Quit(t)

Next ==
    \/ LoopStep \/ Enter \/ PollOther \/ OwnCall \/ Tick
    \/ \E t \in Thread : ThreadCall(t) \/ CallerWakes(t)

Spec == Init /\ [][Next]_vars

\* The loop thread and the callers keep running; callbacks return.  Nothing makes
\* other channels ready, signals arrive, time pass or anybody call the loop.
FairSpec == Spec /\ WF_vars(LoopStep) /\ \A t \in Thread : WF_vars(CallerWakes(t))

\* In addition, time passes.
TimedSpec == FairSpec /\ WF_vars(Tick)

-----------------------------------------------------------------------------
TypeOK ==
    /\ lpc \in {"out", "test", "timers", "poll", "events", "functors", "timersAgain"}
    /\ body \in {"none", "timer", "functor", "channel"}
    /\ ready \subseteq {"wakeup", "user"}
    /\ pending \in Seq(Call) /\ running \in Seq(Call)
    /\ posted \in Seq(Call) /\ done \in Seq(Call)
    /\ {mQuit, told, calling} \subseteq BOOLEAN
    /\ wake \in 0..WakeRoom
    /\ tpc \in [Thread -> {"idle", "wake"}]
    /\ {now, snap} \subseteq 0..MaxTime /\ deadline \in Nat
    /\ armed \in 0..MaxTimer /\ firing \in TimerId \cup {0}
    /\ due \in [TimerId -> Nat] /\ every \in [TimerId -> Interval \cup {0}]
    /\ cancelled \cup heap \cup timerMap \cup asked \cup early \subseteq TimerId

\* Everything queued runs once, in the order it was queued, whoever queued it and
\* however the swap of doPendingFunctors interleaves with queueInLoop.
FunctorsInOrder == posted = done \o running \o pending

\* The loop never sleeps on queued work: while it polls, whatever another thread,
\* a functor or a channel callback queued has a byte in the wake-up socket or a
\* caller about to write one.  (What a timer callback queues, or the loop's own
\* thread before loop(), has none and waits for the poll's timeout.)
NoSleepOnWork ==
    lpc = "poll" /\ (\E k \in DOMAIN pending : pending[k].from \notin {"timer", "owner"})
        => wake > 0 \/ \E t \in Thread : tpc[t] = "wake"

\* m_timers and m_timerMap agree: apart from the timer whose callback is running,
\* the map holds exactly the scheduled timers that were not cancelled, and no
\* timer is cancelled while the map still has it.  Nothing leaks, and the "not in
\* the map" exit of processTimers is never needed.
TimerBooksAgree ==
    /\ timerMap \ {firing} = heap \ cancelled
    /\ firing # 0 => firing \notin heap /\ (firing \in timerMap <=> firing \notin cancelled)

\* A timer the loop knows of never fires after cancelTimerInLoop: not when it is
\* due already, not when it cancels itself, not when it repeats.
CancelledStaysQuiet ==
    [][\A i \in asked \ early : firing' = i => firing = i]_vars

\* A timer that was cancelled never fires.
CancelPreventsFiring ==
    [][\A i \in asked : firing' = i => firing = i]_vars

\* quit() of another thread ends a loop that has been entered, without the clock.
QuitEndsLoop == told ~> lpc = "out"

\* Every scheduled timer whose time comes fires, unless it is cancelled or the
\* loop ends.
DueTimersFire ==
    \A i \in TimerId :
        (i \in heap /\ due[i] <= MaxTime) ~> (firing = i \/ i \in cancelled \/ lpc = "out")
=============================================================================
