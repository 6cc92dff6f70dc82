-------------------------- MODULE EventLoopProofs --------------------------
(***************************************************************************)
(* Safety of EventLoop for any number of threads, functors and timers and  *)
(* any size of the wake-up socket.                                         *)
(***************************************************************************)
EXTENDS EventLoop, TLAPS

\* What a pop returns is what was accepted first among what is queued: moving the
\* head of the queue to the end of the delivered items keeps their concatenation.
LEMMA MoveHead ==
    ASSUME NEW S, NEW d \in Seq(S), NEW q \in Seq(S), q # <<>>
    PROVE  Append(d, Head(q)) \o Tail(q) = d \o q
<1>1. Len(Append(d, Head(q)) \o Tail(q)) = Len(d \o q)
  OBVIOUS
<1>2. ASSUME NEW i \in 1..Len(d \o q)
      PROVE  (Append(d, Head(q)) \o Tail(q))[i] = (d \o q)[i]
  OBVIOUS
<1>3. QED
  BY <1>1, <1>2

\* What the arguments need of the types.
LoopTypes ==
    /\ pending \in Seq(Call) /\ running \in Seq(Call)
    /\ posted \in Seq(Call) /\ done \in Seq(Call)
    /\ wake \in Nat
    /\ tpc \in [Thread -> {"idle", "wake"}]
    /\ armed \in 0..MaxTimer
    /\ body \in {"none", "timer", "functor", "channel"}

\* Where in loop() callbacks of each kind run and functors are under way.
Phases ==
    /\ calling <=> lpc = "functors"
    /\ running # <<>> => lpc = "functors"
    /\ body = "functor" => lpc = "functors" /\ running # <<>>
    /\ body = "channel" => lpc = "events"
    /\ body = "timer" => lpc \in {"timers", "timersAgain"}

LoopInv == LoopTypes /\ Phases

\* The disjuncts of Next that queue nothing and run no functor.
Quiet ==
    \/ Test \/ DropDead \/ Fire \/ Fired \/ TimersDone \/ Enter \/ Tick \/ OwnQuit
    \/ ReadWakeup \/ HandleChannel \/ ChannelHandled \/ RunUser \/ FunctorsDone
    \/ \E channels \in {{}, {"user"}} : PollReturns(channels)
    \/ \E a \in TimerArgs : OwnRunTimer(a[1], a[2])
    \/ \E i \in TimerId : OwnCancelTimer(i)
    \/ \E t \in Thread : Quit(t) \/ CallerWakes(t)

\* A thread's or the loop's own call that queues a functor.
Queues(fn) ==
    \/ \E t \in Thread, f \in Functor :
          fn = [kind |-> "user", id |-> f, from |-> "thread"] /\ QueueInLoop(t, f)
    \/ \E t \in Thread, a \in TimerArgs :
          fn = [kind |-> "add", id |-> armed + 1, from |-> "thread"] /\ RunTimer(t, a[1], a[2])
    \/ \E t \in Thread, i \in TimerId :
          fn = [kind |-> "cancel", id |-> i, from |-> "thread"] /\ CancelTimer(t, i)
    \/ \E f \in Functor :
          fn = [kind |-> "user", id |-> f, from |-> From] /\ OwnQueueInLoop(f)

\* The steps of the loop fall into four classes, as far as functors go.
LEMMA StepKinds ==
    ASSUME Next
    PROVE  Quiet \/ (\E fn : Queues(fn)) \/ SwapFunctors \/ UserRan \/ RunAdd \/ RunCancel
<1>1. CASE \E t \in Thread : ThreadCall(t)
  BY <1>1, Zenon DEF ThreadCall, Quiet, Queues
<1>2. CASE OwnCall
  BY <1>2, Zenon DEF OwnCall, Quiet, Queues
<1>3. CASE LoopStep \/ PollOther
  BY <1>3, Zenon DEF LoopStep, PollOther, PollWoken, PollTimeout, Quiet
<1>4. QED
  BY <1>1, <1>2, <1>3, Zenon DEF Next, Quiet

\* queueInLoop appends one functor, of the loop's types, to what is pending.
LEMMA QueuesAppends ==
    ASSUME LoopInv, NEW fn, Queues(fn)
    PROVE  /\ fn \in Call
           /\ pending' = Append(pending, fn) /\ posted' = Append(posted, fn)
           /\ UNCHANGED <<loopVars, running, calling, done>>
           /\ wake' \in Nat /\ armed' \in 0..MaxTimer /\ tpc' \in [Thread -> {"idle", "wake"}]
<1> USE DEF LoopInv, LoopTypes, Post, Enqueue, timerVars
<1>1. CASE \E t \in Thread, f \in Functor :
          fn = [kind |-> "user", id |-> f, from |-> "thread"] /\ QueueInLoop(t, f)
  BY <1>1 DEF QueueInLoop, Call, Origin
<1>2. CASE \E t \in Thread, a \in TimerArgs :
          fn = [kind |-> "add", id |-> armed + 1, from |-> "thread"] /\ RunTimer(t, a[1], a[2])
  <2>1. armed + 1 \in TimerId /\ armed' = armed + 1
    BY <1>2, LoopAssumption DEF RunTimer, NewTimer, TimerId
  <2>2. armed' \in 0..MaxTimer
    BY <2>1, LoopAssumption DEF TimerId
  <2>3. QED
    BY <1>2, <2>1, <2>2 DEF RunTimer, Call, Origin
<1>3. CASE \E t \in Thread, i \in TimerId :
          fn = [kind |-> "cancel", id |-> i, from |-> "thread"] /\ CancelTimer(t, i)
  BY <1>3 DEF CancelTimer, Call, Origin
<1>4. CASE \E f \in Functor :
          fn = [kind |-> "user", id |-> f, from |-> From] /\ OwnQueueInLoop(f)
  <2>1. From \in Origin
    BY <1>4, Zenon DEF OwnQueueInLoop, MayCall, From, Origin
  <2>2. wake' \in Nat
    BY <1>4 DEF OwnQueueInLoop, Wakeup
  <2>3. QED
    BY <1>4, <2>1, <2>2 DEF OwnQueueInLoop, Call
<1>5. QED
  BY <1>1, <1>2, <1>3, <1>4, Zenon DEF Queues

\* Steps that queue nothing and run no functor leave the queues alone, and change
\* the loop's place as loop() prescribes.
LEMMA QuietStep ==
    ASSUME LoopInv, Quiet
    PROVE  UNCHANGED <<pending, running, posted, done>> /\ LoopInv'
<1> USE DEF LoopInv, LoopTypes, Phases, loopVars, queueVars, timerVars, Wakeup
<1>1. CASE Test \/ DropDead \/ Fire \/ Fired \/ TimersDone \/ Enter \/ Tick \/ OwnQuit
  <2>1. CASE Test \/ Enter \/ Tick \/ OwnQuit
    BY <2>1, SMTT(30) DEF Test, Enter, Tick, OwnQuit, InTimers
  <2>2. CASE DropDead \/ Fire
    BY <2>2, SMTT(30) DEF DropDead, Fire, InTimers
  <2>3. CASE Fired \/ TimersDone
    BY <2>3, SMTT(30) DEF Fired, TimersDone, InTimers
  <2>4. QED
    BY <1>1, <2>1, <2>2, <2>3, Zenon
<1>2. CASE ReadWakeup
  BY <1>2, LoopAssumption DEF ReadWakeup
<1>3. CASE HandleChannel \/ ChannelHandled \/ RunUser \/ FunctorsDone
  BY <1>3 DEF HandleChannel, ChannelHandled, RunUser, Running, FunctorsDone
<1>4. CASE \E channels \in {{}, {"user"}} : PollReturns(channels)
  BY <1>4 DEF PollReturns
<1>5. CASE \E a \in TimerArgs : OwnRunTimer(a[1], a[2])
  BY <1>5, LoopAssumption DEF OwnRunTimer, NewTimer, AddTimerInLoop
<1>6. CASE \E i \in TimerId : OwnCancelTimer(i)
  BY <1>6 DEF OwnCancelTimer, CancelTimerInLoop
<1>7. CASE \E t \in Thread : Quit(t) \/ CallerWakes(t)
  <2>1. ASSUME NEW t \in Thread, Quit(t) PROVE LoopInv'
    BY <2>1, Zenon DEF Quit
  <2>2. ASSUME NEW t \in Thread, CallerWakes(t) PROVE LoopInv'
    BY <2>2 DEF CallerWakes
  <2>3. QED
    BY <1>7, <2>1, <2>2, SMTT(30) DEF Quit, CallerWakes
<1>8. QED
  BY <1>1, <1>2, <1>3, <1>4, <1>5, <1>6, <1>7, Zenon DEF Quiet

\* Running a functor takes it from the front of the local vector.
LEMMA RunStep ==
    ASSUME LoopInv, UserRan \/ RunAdd \/ RunCancel
    PROVE  /\ running # <<>>
           /\ done' = Append(done, Head(running)) /\ running' = Tail(running)
           /\ UNCHANGED <<pending, posted>>
           /\ LoopInv'
<1> USE DEF LoopInv, LoopTypes, Phases, FunctorRan, timerVars, Wakeup
<1>1. running # <<>>
  BY Zenon DEF UserRan, RunAdd, RunCancel, Running
<1>2. done' = Append(done, Head(running)) /\ running' = Tail(running)
      /\ UNCHANGED <<pending, posted, lpc, calling, tpc, armed>>
  BY Zenon DEF UserRan, RunAdd, RunCancel
<1>3. Head(running) \in Call /\ Tail(running) \in Seq(Call)
  BY <1>1
<1>4. wake' \in Nat
  BY DEF UserRan, RunAdd, RunCancel, AddTimerInLoop
<1>5. lpc = "functors" /\ body' = "none"
  BY <1>1, Zenon DEF UserRan, RunAdd, RunCancel, Running
<1>6. QED
  BY <1>1, <1>2, <1>3, <1>4, <1>5

\* The phases of loop() keep callbacks and functors where they belong.
LEMMA LoopInvariant == Spec => []LoopInv
<1>1. Init => LoopInv
  BY LoopAssumption DEF Init, LoopInv, LoopTypes, Phases
<1>2. ASSUME LoopInv, [Next]_vars PROVE LoopInv'
  <2>1. CASE UNCHANGED vars
    BY <1>2, <2>1, Zenon DEF vars, loopVars, queueVars, timerVars, LoopInv, LoopTypes, Phases
  <2>2. ASSUME NEW fn, Queues(fn) PROVE LoopInv'
    <3>1. LoopTypes'
      <4>1. /\ fn \in Call
            /\ pending' = Append(pending, fn) /\ posted' = Append(posted, fn)
            /\ UNCHANGED <<body, running, done>>
            /\ wake' \in Nat /\ armed' \in 0..MaxTimer /\ tpc' \in [Thread -> {"idle", "wake"}]
        BY <1>2, <2>2, QueuesAppends, Zenon DEF loopVars
      <4>2. pending' \in Seq(Call) /\ posted' \in Seq(Call)
        BY <1>2, <4>1 DEF LoopInv, LoopTypes
      <4>3. QED
        BY <1>2, <4>1, <4>2, Zenon DEF LoopInv, LoopTypes
    <3>2. Phases'
      BY <1>2, <2>2, QueuesAppends, Zenon DEF loopVars, LoopInv, Phases
    <3>3. QED
      BY <3>1, <3>2, Zenon DEF LoopInv
  <2>3. CASE SwapFunctors
    BY <1>2, <2>3, Zenon DEF SwapFunctors, timerVars, LoopInv, LoopTypes, Phases
  <2>4. QED
    BY <1>2, <2>1, <2>2, <2>3, StepKinds, QuietStep, RunStep, Zenon
<1>3. QED
  BY <1>1, <1>2, PTL DEF Spec

-----------------------------------------------------------------------------
\* However queueInLoop interleaves with the swap of doPendingFunctors, everything
\* queued runs once and in the order it was queued.
THEOREM LoopFunctorsInOrder == Spec => []FunctorsInOrder
<1>1. Init => FunctorsInOrder
  BY DEF Init, FunctorsInOrder
<1>2. ASSUME LoopInv, FunctorsInOrder, [Next]_vars PROVE FunctorsInOrder'
  <2> USE DEF LoopInv, LoopTypes, FunctorsInOrder
  <2>1. CASE UNCHANGED vars \/ Quiet
    BY <1>2, <2>1, QuietStep, Zenon DEF vars, queueVars
  <2>2. ASSUME NEW fn, Queues(fn) PROVE FunctorsInOrder'
    <3>1. posted' = Append(posted, fn) /\ pending' = Append(pending, fn)
          /\ fn \in Call /\ UNCHANGED <<done, running>>
      BY <1>2, <2>2, QueuesAppends, Zenon
    <3>2. (done \o running) \o Append(pending, fn) = Append((done \o running) \o pending, fn)
      BY <1>2, <3>1
    <3>3. QED
      BY <1>2, <3>1, <3>2, Zenon
  <2>3. CASE SwapFunctors
    <3>1. running = <<>> /\ running' = pending /\ pending' = <<>> /\ UNCHANGED <<done, posted>>
      BY <1>2, <2>3, Zenon DEF SwapFunctors, Phases
    <3>2. QED
      BY <1>2, <3>1
  <2>4. CASE UserRan \/ RunAdd \/ RunCancel
    <3>1. Append(done, Head(running)) \o Tail(running) = done \o running
      BY <1>2, <2>4, RunStep, MoveHead, Zenon
    <3>2. QED
      BY <1>2, <2>4, <3>1, RunStep, Zenon
  <2>5. QED
    BY <1>2, <2>1, <2>2, <2>3, <2>4, StepKinds, Zenon
<1>3. QED
  BY <1>1, <1>2, LoopInvariant, PTL DEF Spec

-----------------------------------------------------------------------------
\* Something is pending that the loop must not sleep on, and somebody has written
\* or is about to write a wake-up byte.
Urgent == \E k \in DOMAIN pending : pending[k].from \notin {"timer", "owner"}
Announced == wake > 0 \/ \E t \in Thread : tpc[t] = "wake"

\* Bytes are read only between the poll and the swap, which takes all functors.
WakeInv == lpc # "events" /\ Urgent => Announced

\* Outside the handling of events no step takes a wake-up back.
LEMMA AnnouncedStays ==
    ASSUME LoopInv, Announced, lpc # "events",
           Quiet \/ UserRan \/ RunAdd \/ RunCancel \/ \E fn : Queues(fn)
    PROVE  Announced'
<1> USE LoopAssumption DEF LoopInv, LoopTypes, Announced, Wakeup, loopVars, queueVars, timerVars
<1>1. CASE Test \/ DropDead \/ Fire \/ Fired \/ TimersDone \/ Enter \/ Tick \/ OwnQuit
  BY <1>1, Zenon DEF Test, DropDead, Fire, Fired, TimersDone, Enter, Tick, OwnQuit
<1>2. CASE ReadWakeup \/ HandleChannel \/ ChannelHandled \/ RunUser \/ FunctorsDone
  BY <1>2, Zenon DEF ReadWakeup, HandleChannel, ChannelHandled, RunUser, FunctorsDone
<1>3. CASE \E channels \in {{}, {"user"}} : PollReturns(channels)
  BY <1>3, Zenon DEF PollReturns
<1>4. CASE \E a \in TimerArgs : OwnRunTimer(a[1], a[2])
  BY <1>4 DEF OwnRunTimer, AddTimerInLoop
<1>5. CASE \E i \in TimerId : OwnCancelTimer(i)
  BY <1>5, Zenon DEF OwnCancelTimer
<1>6. ASSUME NEW t \in Thread, Quit(t) PROVE Announced'
  BY <1>6, Zenon DEF Quit
<1>7. ASSUME NEW t \in Thread, CallerWakes(t) PROVE Announced'
  BY <1>7 DEF CallerWakes
<1>8. CASE UserRan \/ RunAdd \/ RunCancel
  BY <1>8, SMTT(30) DEF UserRan, RunAdd, RunCancel, FunctorRan, AddTimerInLoop
<1>9. CASE \E fn : Queues(fn)
  <2>1. ASSUME NEW t \in Thread, NEW fn, Post(t, fn) PROVE Announced'
    BY <2>1, Zenon DEF Post
  <2>2. ASSUME NEW f \in Functor, OwnQueueInLoop(f) PROVE Announced'
    BY <2>2 DEF OwnQueueInLoop
  <2>3. QED
    BY <1>9, <2>1, <2>2, Zenon DEF Queues, QueueInLoop, RunTimer, CancelTimer
<1>10. QED
  BY <1>1, <1>2, <1>3, <1>4, <1>5, <1>6, <1>7, <1>8, <1>9, Zenon DEF Quiet

\* A functor that another thread, a functor or a channel callback queues is
\* announced, except while events are handled.
LEMMA UrgentIsAnnounced ==
    ASSUME LoopInv, lpc # "events", NEW fn, Queues(fn), fn.from \notin {"timer", "owner"}
    PROVE  Announced'
<1> USE DEF LoopInv, LoopTypes, Announced, Post
<1>1. CASE \E t \in Thread, f \in Functor : QueueInLoop(t, f)
  BY <1>1, Zenon DEF QueueInLoop
<1>2. CASE \E t \in Thread, a \in TimerArgs : RunTimer(t, a[1], a[2])
  BY <1>2, Zenon DEF RunTimer
<1>3. CASE \E t \in Thread, i \in TimerId : CancelTimer(t, i)
  BY <1>3, Zenon DEF CancelTimer
<1>4. ASSUME NEW f \in Functor, fn = [kind |-> "user", id |-> f, from |-> From], OwnQueueInLoop(f)
      PROVE  Announced'
  <2>1. calling
    BY <1>4, Zenon DEF OwnQueueInLoop, MayCall, From, Phases
  <2>2. QED
    BY <1>4, <2>1, LoopAssumption DEF OwnQueueInLoop, Wakeup
<1>5. QED
  BY <1>1, <1>2, <1>3, <1>4, Zenon DEF Queues

\* While the loop polls, whatever a thread, a functor or a channel callback queued
\* has a byte in the wake-up socket or a caller about to write one.
THEOREM LoopNoSleepOnWork == Spec => []NoSleepOnWork
<1>1. Init => WakeInv
  BY DEF Init, WakeInv, Urgent
<1>2. ASSUME LoopInv, WakeInv, [Next]_vars PROVE WakeInv'
  <2>1. CASE UNCHANGED vars
    BY <1>2, <2>1, Zenon DEF vars, loopVars, queueVars, WakeInv, Urgent, Announced
  <2>2. CASE Quiet \/ UserRan \/ RunAdd \/ RunCancel
    <3>1. UNCHANGED pending
      BY <1>2, <2>2, QuietStep, RunStep, Zenon
    <3>2. lpc = "events" => lpc' = "events"
      BY <2>2, Zenon DEF Quiet, UserRan, RunAdd, RunCancel, FunctorRan, Running, Test, DropDead, Fire, Fired,
                  TimersDone, InTimers, Enter, Tick, OwnQuit, ReadWakeup, HandleChannel,
                  ChannelHandled, RunUser, FunctorsDone, PollReturns, OwnRunTimer,
                  OwnCancelTimer, Quit, CallerWakes, loopVars
    <3>3. QED
      BY <1>2, <2>2, <3>1, <3>2, AnnouncedStays, Zenon DEF WakeInv, Urgent
  <2>3. ASSUME NEW fn, Queues(fn) PROVE WakeInv'
    <3>1. pending' = Append(pending, fn) /\ UNCHANGED lpc
      BY <1>2, <2>3, QueuesAppends, Zenon DEF loopVars
    <3>2. Urgent' => Urgent \/ fn.from \notin {"timer", "owner"}
      BY <1>2, <3>1 DEF Urgent, LoopInv, LoopTypes
    <3>3. QED
      BY <1>2, <2>3, <3>1, <3>2, AnnouncedStays, UrgentIsAnnounced, Zenon DEF WakeInv
  <2>4. CASE SwapFunctors
    BY <2>4 DEF SwapFunctors, WakeInv, Urgent
  <2>5. QED
    BY <1>2, <2>1, <2>2, <2>3, <2>4, StepKinds, Zenon
<1>3. WakeInv => NoSleepOnWork
  BY Zenon DEF WakeInv, NoSleepOnWork, Urgent, Announced
<1>4. QED
  BY <1>1, <1>2, <1>3, LoopInvariant, PTL DEF Spec

-----------------------------------------------------------------------------
\* The functors still to run, in order, and the timers that wait in them to be
\* added.
ToRun == running \o pending
Registering(i) == \E k \in DOMAIN ToRun : ToRun[k].kind = "add" /\ ToRun[k].id = i

\* Timers are created before anything is done with them.
Created ==
    /\ heap \cup timerMap \cup cancelled \cup asked \subseteq 1..armed
    /\ firing \in 0..armed /\ (firing # 0 <=> body = "timer")
    /\ \A k \in DOMAIN ToRun : ToRun[k].kind # "user" => ToRun[k].id \in 1..armed

\* A timer is added once, and nothing is known of it before.
AddedOnce ==
    /\ \A j, k \in DOMAIN ToRun :
          ToRun[j].kind = "add" /\ ToRun[k].kind = "add" /\ ToRun[j].id = ToRun[k].id => j = k
    /\ \A i \in heap \cup timerMap \cup cancelled \cup {firing} : ~Registering(i)

\* A timer that was there, or over, when it was cancelled does not come back.
Gone == \A i \in asked \ early : i \notin timerMap /\ ~Registering(i)

TimerInv == Created /\ AddedOnce /\ TimerBooksAgree /\ Gone

\* Queueing a functor: what waits to be added is what waited, and the new timer if
\* it is a registration.
LEMMA ToRunAppend ==
    ASSUME LoopInv, NEW fn, Queues(fn)
    PROVE  /\ ToRun \in Seq(Call) /\ fn \in Call /\ ToRun' = Append(ToRun, fn)
           /\ \A i : Registering(i)' <=> Registering(i) \/ (fn.kind = "add" /\ fn.id = i)
<1>1. /\ fn \in Call /\ pending' = Append(pending, fn) /\ running' = running
      /\ pending \in Seq(Call) /\ running \in Seq(Call)
  BY QueuesAppends, Zenon DEF LoopInv, LoopTypes
<1>2. ToRun \in Seq(Call) /\ ToRun' = Append(ToRun, fn)
  BY <1>1 DEF ToRun
<1>3. DOMAIN ToRun' = DOMAIN ToRun \cup {Len(ToRun) + 1}
      /\ ToRun'[Len(ToRun) + 1] = fn /\ \A k \in DOMAIN ToRun : ToRun'[k] = ToRun[k]
  BY <1>1, <1>2
<1>4. QED
  BY <1>1, <1>2, <1>3, Zenon DEF Registering

\* Running a functor: the first one goes, the others move up.
LEMMA ToRunTail ==
    ASSUME LoopInv, UserRan \/ RunAdd \/ RunCancel
    PROVE  /\ ToRun \in Seq(Call) /\ 1 \in DOMAIN ToRun /\ ToRun[1] = Head(running)
           /\ \A k \in DOMAIN ToRun' : k + 1 \in DOMAIN ToRun /\ ToRun'[k] = ToRun[k + 1] /\ k \in Nat \ {0}
           /\ \A i : Registering(i)' => Registering(i)
<1>1. running \in Seq(Call) /\ pending \in Seq(Call) /\ running # <<>>
      /\ running' = Tail(running) /\ pending' = pending
  BY RunStep, Zenon DEF LoopInv, LoopTypes
<1>2. ToRun \in Seq(Call) /\ 1 \in DOMAIN ToRun /\ ToRun[1] = Head(running)
  BY <1>1 DEF ToRun
<1>3. \A k \in DOMAIN ToRun' : k + 1 \in DOMAIN ToRun /\ ToRun'[k] = ToRun[k + 1] /\ k \in Nat \ {0}
  BY <1>1 DEF ToRun
<1>4. QED
  BY <1>2, <1>3, Zenon DEF Registering

\* Steps that touch neither the queues' contents nor the timers.
LEMMA TimersUntouched ==
    ASSUME TimerInv, (body' = "timer") <=> (body = "timer"),
           UNCHANGED <<armed, heap, timerMap, cancelled, asked, early, firing>>, ToRun' = ToRun
    PROVE  TimerInv'
BY Zenon DEF TimerInv, Created, AddedOnce, TimerBooksAgree, Gone, Registering

\* processTimers: popping dead timers, firing, and re-arming or forgetting.
LEMMA ProcessTimersStep ==
    ASSUME LoopInv, TimerInv, DropDead \/ Fire \/ Fired
    PROVE  TimerInv'
<1> USE DEF TimerInv, loopVars, queueVars
<1>1. armed \in Nat /\ armed' = armed /\ ToRun' = ToRun /\ UNCHANGED <<cancelled, asked, early>>
  <2>1. armed \in Nat
    BY LoopAssumption DEF LoopInv, LoopTypes
  <2>2. UNCHANGED <<running, pending, armed, cancelled, asked, early>>
    BY Zenon DEF DropDead, Fire, Fired
  <2>3. QED
    BY <2>1, <2>2, Zenon DEF ToRun
<1>2. \A i : Registering(i)' <=> Registering(i)
  BY <1>1, Zenon DEF Registering
<1>3. CASE DropDead
  <2>1. heap' = heap \ {Top} /\ UNCHANGED <<timerMap, firing, body>>
        /\ (Top \in cancelled \/ Top \notin timerMap) /\ body = "none"
    BY <1>3, Zenon DEF DropDead, InTimers
  <2>2. firing = 0 /\ timerMap = heap \ cancelled
    BY <1>1, <2>1 DEF Created, TimerBooksAgree
  <2>3. TimerBooksAgree'
    BY <1>1, <2>1, <2>2, Zenon DEF Created, TimerBooksAgree
  <2>4. QED
    BY <1>1, <1>2, <2>1, <2>3, Zenon DEF Created, AddedOnce, Gone
<1>4. CASE Fire
  <2>1. /\ heap' = heap \ {Top} /\ firing' = Top /\ body' = "timer" /\ UNCHANGED timerMap
        /\ Top \in timerMap /\ Top \notin cancelled /\ body = "none"
    BY <1>4, Zenon DEF Fire, TopIsDue, InTimers
  <2>2. firing = 0 /\ timerMap = heap \ cancelled
    BY <1>1, <2>1 DEF Created, TimerBooksAgree
  <2>3. TimerBooksAgree'
    BY <1>1, <2>1, <2>2, Zenon DEF Created, TimerBooksAgree
  <2>4. Created'
    BY <1>1, <2>1 DEF Created
  <2>5. QED
    BY <1>1, <1>2, <2>1, <2>3, <2>4, Zenon DEF AddedOnce, Gone
<1>5. CASE Fired
  <2>1. body = "timer" /\ body' = "none" /\ firing # 0 /\ firing' = 0
    BY <1>5, Zenon DEF Fired, Created
  <2>2. \/ /\ firing \notin cancelled /\ heap' = heap \cup {firing} /\ timerMap' = timerMap
        \/ timerMap' = timerMap \ {firing} /\ heap' = heap
    BY <1>5, Zenon DEF Fired
  <2>3. TimerBooksAgree'
    BY <1>1, <2>1, <2>2 DEF Created, TimerBooksAgree
  <2>4. Created'
    BY <1>1, <2>1, <2>2 DEF Created
  <2>5. AddedOnce'
    <3>1. ~Registering(0)
      BY <1>1 DEF Created, Registering
    <3>2. QED
      BY <1>1, <1>2, <2>1, <2>2, <3>1, Zenon DEF AddedOnce
  <2>6. QED
    BY <1>1, <1>2, <2>2, <2>3, <2>4, <2>5, Zenon DEF Gone
<1>6. QED
  BY <1>3, <1>4, <1>5, Zenon

\* A registration, by the loop's own thread or when the queued functor runs, is the
\* first the books hear of a timer.
LEMMA OwnRunTimerStep ==
    ASSUME LoopInv, TimerInv, NEW d, NEW p, OwnRunTimer(d, p)
    PROVE  TimerInv'
<1> USE DEF TimerInv
<1> DEFINE n == armed + 1
<1>1. /\ armed \in Nat /\ armed' = n /\ heap' = heap \cup {n} /\ timerMap' = timerMap \cup {n}
      /\ UNCHANGED <<cancelled, asked, early, firing, body>> /\ ToRun' = ToRun
  BY LoopAssumption DEF LoopInv, LoopTypes, OwnRunTimer, NewTimer, AddTimerInLoop, ToRun, loopVars,
                        queueVars
<1>2. n \notin 0..armed /\ n \in 1..n /\ \A i \in 1..armed : i \in 1..n
  BY <1>1
<1>3. ~Registering(n) /\ \A i : Registering(i)' <=> Registering(i)
  BY <1>1, <1>2 DEF Created, Registering
<1> HIDE DEF n
<1>4. Created'
  <2>1. firing' \in 0..armed'
    BY <1>1 DEF Created, n
  <2>2. QED
    BY <1>1, <1>2, <2>1, Zenon DEF Created
<1>5. TimerBooksAgree'
  BY <1>1, <1>2 DEF Created, TimerBooksAgree
<1>6. AddedOnce'
  BY <1>1, <1>3, Zenon DEF AddedOnce
<1>7. Gone'
  BY <1>1, <1>2, <1>3 DEF Gone, Created
<1>8. QED
  BY <1>4, <1>5, <1>6, <1>7, Zenon

\* cancelTimerInLoop(i), called on the loop's thread or run as a functor.
LEMMA CancelStep ==
    ASSUME LoopInv, TimerInv, NEW i \in 1..armed, CancelTimerInLoop(i),
           UNCHANGED <<armed, heap, firing>>, (body' = "timer") <=> (body = "timer"),
           Created', \A j : Registering(j)' => Registering(j),
           \A j, k \in DOMAIN ToRun' :
              ToRun'[j].kind = "add" /\ ToRun'[k].kind = "add" /\ ToRun'[j].id = ToRun'[k].id => j = k
    PROVE  TimerInv'
<1> USE DEF TimerInv, CancelTimerInLoop
<1>1. TimerBooksAgree'
  BY Zenon DEF TimerBooksAgree, Created
<1>2. AddedOnce'
  <2>1. \A j \in timerMap' \cup cancelled' : j \in timerMap \cup cancelled
    BY Zenon
  <2>2. QED
    BY <2>1, Zenon DEF AddedOnce
<1>3. Gone'
  <2>1. Registering(i) => Queued("add", i)
    <3>1. ASSUME NEW k \in DOMAIN ToRun
          PROVE  \/ \E j \in DOMAIN running : running[j] = ToRun[k]
                 \/ \E j \in DOMAIN pending : pending[j] = ToRun[k]
      <4>1. CASE k <= Len(running)
        BY <4>1 DEF ToRun, LoopInv, LoopTypes
      <4>2. CASE k > Len(running)
        <5>1. k - Len(running) \in DOMAIN pending /\ pending[k - Len(running)] = ToRun[k]
          BY <4>2 DEF ToRun, LoopInv, LoopTypes
        <5>2. QED
          BY <5>1, Zenon
      <4>3. QED
        BY <4>1, <4>2, SMTT(30) DEF ToRun, LoopInv, LoopTypes
    <3>2. QED
      BY <3>1 DEF Registering, Queued
  <2>2. i \notin timerMap' /\ timerMap' \subseteq timerMap
    BY Zenon
  <2>3. asked' \ early' \subseteq (asked \ early) \cup {i} /\ (i \notin early' => ~Queued("add", i))
    BY Zenon
  <2>4. QED
    BY <2>1, <2>2, <2>3, Zenon DEF Gone
<1>4. QED
  BY <1>1, <1>2, <1>3, Zenon

\* The functors that run leave their successors' timers and their uniqueness.
LEMMA TailKeeps ==
    ASSUME LoopInv, TimerInv, UserRan \/ RunAdd \/ RunCancel
    PROVE  /\ \A k \in DOMAIN ToRun' : ToRun'[k].kind # "user" => ToRun'[k].id \in 1..armed
           /\ \A j, k \in DOMAIN ToRun' :
                 ToRun'[j].kind = "add" /\ ToRun'[k].kind = "add" /\ ToRun'[j].id = ToRun'[k].id => j = k
<1>1. \A k \in DOMAIN ToRun' : k + 1 \in DOMAIN ToRun /\ ToRun'[k] = ToRun[k + 1] /\ k \in Nat
  BY ToRunTail, Zenon
<1>2. QED
  BY <1>1 DEF TimerInv, Created, AddedOnce

\* addTimerInLoop, cancelTimerInLoop and a user's functor, taken from the queue.
LEMMA RunTimerInv ==
    ASSUME LoopInv, TimerInv, UserRan \/ RunAdd \/ RunCancel
    PROVE  TimerInv'
<1>1. /\ \A k \in DOMAIN ToRun' : ToRun'[k].kind # "user" => ToRun'[k].id \in 1..armed
      /\ \A j, k \in DOMAIN ToRun' :
            ToRun'[j].kind = "add" /\ ToRun'[k].kind = "add" /\ ToRun'[j].id = ToRun'[k].id => j = k
      /\ \A i : Registering(i)' => Registering(i)
      /\ 1 \in DOMAIN ToRun /\ ToRun[1] = Head(running)
  BY TailKeeps, ToRunTail, Zenon
<1>2. UNCHANGED <<armed, firing>> /\ (body' = "timer" <=> body = "timer")
  BY Zenon DEF UserRan, RunAdd, RunCancel, FunctorRan, timerVars
<1>3. CASE UserRan
  <2>1. UNCHANGED <<armed, heap, timerMap, cancelled, asked, early, firing>>
    BY <1>2, <1>3, Zenon DEF UserRan, timerVars
  <2>2. QED
    BY <1>1, <1>2, <2>1, Zenon DEF TimerInv, Created, AddedOnce, TimerBooksAgree, Gone
<1>4. CASE RunCancel
  <2> DEFINE c == Head(running).id
  <2>1. c \in 1..armed /\ CancelTimerInLoop(c) /\ UNCHANGED heap
    BY <1>1, <1>4, Zenon DEF RunCancel, Running, TimerInv, Created
  <2>2. timerMap' \cup cancelled' \cup asked' \subseteq 1..armed
    BY <2>1, Zenon DEF CancelTimerInLoop, TimerInv, Created
  <2>3. Created'
    BY <1>1, <1>2, <2>1, <2>2, Zenon DEF TimerInv, Created
  <2>4. QED
    BY <1>1, <1>2, <2>1, <2>3, CancelStep, Zenon
<1>5. CASE RunAdd
  <2>1. PICK n \in 1..armed :
          /\ heap' = heap \cup {n} /\ timerMap' = timerMap \cup {n}
          /\ UNCHANGED <<cancelled, asked, early>> /\ ToRun[1].kind = "add" /\ ToRun[1].id = n
    BY <1>1, <1>5, Zenon DEF RunAdd, Running, AddTimerInLoop, TimerInv, Created
  <2>2. Registering(n)
    BY <1>1, <2>1, Zenon DEF Registering
  <2>3. ASSUME NEW k \in DOMAIN ToRun', ToRun'[k].kind = "add", ToRun'[k].id = n PROVE FALSE
    <3>1. k + 1 \in DOMAIN ToRun /\ ToRun'[k] = ToRun[k + 1] /\ k \in Nat \ {0}
      BY ToRunTail, Zenon
    <3>2. k + 1 = 1
      BY <1>1, <2>1, <2>3, <3>1, Zenon DEF TimerInv, AddedOnce
    <3>3. QED
      BY <3>1, <3>2
  <2>4. \A i : Registering(i)' => Registering(i) /\ i # n
    BY <1>1, <2>3, Zenon DEF Registering
  <2>5. n \notin heap \cup timerMap \cup cancelled \cup {firing} /\ n \notin asked \ early
    BY <2>2, Zenon DEF TimerInv, AddedOnce, Gone
  <2>6. Created'
    BY <1>1, <1>2, <2>1 DEF TimerInv, Created
  <2>7. TimerBooksAgree'
    BY <1>2, <2>1, <2>5, Zenon DEF TimerInv, TimerBooksAgree
  <2>8. AddedOnce' /\ Gone'
    BY <1>1, <1>2, <2>1, <2>4, <2>5, Zenon DEF TimerInv, AddedOnce, Gone
  <2>9. QED
    BY <2>6, <2>7, <2>8, Zenon DEF TimerInv
<1>6. QED
  BY <1>3, <1>4, <1>5, Zenon

\* A queued registration is of a new timer; a queued cancellation is of a timer
\* that exists.
LEMMA QueuesTimerInv ==
    ASSUME LoopInv, TimerInv, NEW fn, Queues(fn)
    PROVE  TimerInv'
<1>1. /\ ToRun \in Seq(Call) /\ fn \in Call /\ ToRun' = Append(ToRun, fn)
      /\ \A i : Registering(i)' <=> Registering(i) \/ (fn.kind = "add" /\ fn.id = i)
  BY ToRunAppend, Zenon
<1>2. /\ DOMAIN ToRun' = DOMAIN ToRun \cup {Len(ToRun) + 1}
      /\ ToRun'[Len(ToRun) + 1] = fn /\ \A k \in DOMAIN ToRun : ToRun'[k] = ToRun[k]
  BY <1>1
<1>3. UNCHANGED <<firing, body>>
  BY QueuesAppends, Zenon DEF loopVars
<1>4. UNCHANGED <<heap, timerMap, cancelled, asked, early>>
  BY Zenon DEF Queues, QueueInLoop, RunTimer, CancelTimer, OwnQueueInLoop, timerVars
<1>5. armed \in Nat
  BY LoopAssumption DEF LoopInv, LoopTypes
<1>6. \/ fn.kind = "user" /\ armed' = armed
      \/ fn.kind = "cancel" /\ fn.id \in 1..armed /\ armed' = armed
      \/ fn.kind = "add" /\ fn.id = armed + 1 /\ armed' = armed + 1
  <2>1. CASE \E t \in Thread, a \in TimerArgs :
            fn = [kind |-> "add", id |-> armed + 1, from |-> "thread"] /\ RunTimer(t, a[1], a[2])
    BY <2>1 DEF RunTimer, NewTimer
  <2>2. CASE \E t \in Thread, i \in TimerId :
            fn = [kind |-> "cancel", id |-> i, from |-> "thread"] /\ CancelTimer(t, i)
    <3>1. PICK i \in TimerId : /\ fn = [kind |-> "cancel", id |-> i, from |-> "thread"]
                              /\ i <= armed /\ armed' = armed
      BY <2>2, Zenon DEF CancelTimer, timerVars
    <3>2. i \in 1..armed
      BY <1>5, <3>1, LoopAssumption DEF TimerId
    <3>3. QED
      BY <3>1, <3>2, Zenon
  <2>3. CASE \/ \E t \in Thread, f \in Functor :
                 fn = [kind |-> "user", id |-> f, from |-> "thread"] /\ QueueInLoop(t, f)
             \/ \E f \in Functor :
                 fn = [kind |-> "user", id |-> f, from |-> From] /\ OwnQueueInLoop(f)
    <3>1. \E f, from : fn = [kind |-> "user", id |-> f, from |-> from]
      <4>1. CASE \E t \in Thread, f \in Functor :
                fn = [kind |-> "user", id |-> f, from |-> "thread"] /\ QueueInLoop(t, f)
        BY <4>1, Zenon
      <4>2. CASE \E f \in Functor :
                fn = [kind |-> "user", id |-> f, from |-> From] /\ OwnQueueInLoop(f)
        BY <4>2, Zenon
      <4>3. QED
        BY <2>3, <4>1, <4>2, Zenon
    <3>2. fn.kind = "user"
      BY <3>1
    <3>3. armed' = armed
      BY <2>3, Zenon DEF QueueInLoop, OwnQueueInLoop, timerVars
    <3>4. QED
      BY <3>2, <3>3, Zenon
  <2>4. QED
    BY <2>1, <2>2, <2>3, Zenon DEF Queues
<1>7. 1..armed \subseteq 1..armed' /\ 0..armed \subseteq 0..armed'
      /\ (fn.kind # "user" => fn.id \in 1..armed')
  BY <1>5, <1>6
<1>8. fn.kind = "add" => fn.id \notin 0..armed
  BY <1>5, <1>6
<1>9. Created'
  <2>1. \A k \in DOMAIN ToRun' : ToRun'[k].kind # "user" => ToRun'[k].id \in 1..armed'
    BY <1>2, <1>7, Zenon DEF TimerInv, Created
  <2>2. QED
    BY <1>3, <1>4, <1>7, <2>1, Zenon DEF TimerInv, Created
<1>10. AddedOnce'
  <2>1. \A k \in DOMAIN ToRun : ToRun[k].kind = "add" /\ fn.kind = "add" => ToRun[k].id # fn.id
    <3>1. \A k \in DOMAIN ToRun : ToRun[k].kind = "add" => ToRun[k].id \in 0..armed
      BY <1>5 DEF TimerInv, Created
    <3>2. QED
      BY <1>8, <3>1, Zenon
  <2>2. \A j, k \in DOMAIN ToRun' :
           ToRun'[j].kind = "add" /\ ToRun'[k].kind = "add" /\ ToRun'[j].id = ToRun'[k].id => j = k
    BY <1>2, <2>1, Zenon DEF TimerInv, AddedOnce
  <2>3. \A i \in heap \cup timerMap \cup cancelled \cup {firing} : i \in 0..armed
    BY <1>5 DEF TimerInv, Created
  <2>4. \A i \in heap \cup timerMap \cup cancelled \cup {firing} : ~Registering(i)'
    BY <1>1, <1>8, <2>3, Zenon DEF TimerInv, AddedOnce
  <2>5. QED
    BY <1>3, <1>4, <2>2, <2>4, Zenon DEF AddedOnce
<1>11. Gone'
  <2>1. \A i \in asked : i \in 0..armed
    BY <1>5 DEF TimerInv, Created
  <2>2. QED
    BY <1>1, <1>4, <1>8, <2>1, Zenon DEF TimerInv, Gone
<1>12. TimerBooksAgree'
  BY <1>3, <1>4, Zenon DEF TimerInv, TimerBooksAgree
<1>13. QED
  BY <1>9, <1>10, <1>11, <1>12, Zenon DEF TimerInv

\* Of the steps that queue nothing and run no functor, processTimers and the
\* loop's own calls are the ones that concern timers.
LEMMA QuietTimerInv ==
    ASSUME LoopInv, TimerInv, Quiet
    PROVE  TimerInv'
<1>1. ToRun' = ToRun
  BY QuietStep, Zenon DEF ToRun
<1>2. CASE DropDead \/ Fire \/ Fired
  BY <1>2, ProcessTimersStep, Zenon
<1>3. CASE \E a \in TimerArgs : OwnRunTimer(a[1], a[2])
  BY <1>3, OwnRunTimerStep, Zenon
<1>4. ASSUME NEW i \in TimerId, OwnCancelTimer(i) PROVE TimerInv'
  <2>1. i \in 1..armed /\ CancelTimerInLoop(i) /\ UNCHANGED <<armed, heap, firing, body>>
    BY <1>4, LoopAssumption DEF OwnCancelTimer, TimerId, loopVars, LoopInv, LoopTypes
  <2>2. timerMap' \cup cancelled' \cup asked' \subseteq 1..armed
    BY <2>1, Zenon DEF CancelTimerInLoop, TimerInv, Created
  <2>3. Created'
    BY <1>1, <2>1, <2>2, Zenon DEF TimerInv, Created
  <2>4. \A j : Registering(j)' => Registering(j)
    BY <1>1, Zenon DEF Registering
  <2>5. QED
    BY <1>1, <2>1, <2>3, <2>4, CancelStep, Zenon DEF TimerInv, AddedOnce
<1>5. CASE Test \/ TimersDone \/ Enter \/ Tick \/ OwnQuit \/ ReadWakeup \/ FunctorsDone
  <2>1. UNCHANGED <<armed, heap, timerMap, cancelled, asked, early, firing, body>>
    BY <1>5, Zenon DEF Test, TimersDone, Enter, Tick, OwnQuit, ReadWakeup, FunctorsDone, loopVars, timerVars
  <2>2. QED
    BY <1>1, <2>1, TimersUntouched, Zenon
<1>6. CASE HandleChannel \/ ChannelHandled \/ RunUser
  <2>1. UNCHANGED <<armed, heap, timerMap, cancelled, asked, early, firing>>
        /\ (body' = "timer" <=> body = "timer")
    BY <1>6, Zenon DEF HandleChannel, ChannelHandled, RunUser, Running, timerVars
  <2>2. QED
    BY <1>1, <2>1, TimersUntouched, Zenon
<1>7. CASE \/ \E channels \in {{}, {"user"}} : PollReturns(channels)
           \/ \E t \in Thread : Quit(t) \/ CallerWakes(t)
  <2>1. UNCHANGED <<armed, heap, timerMap, cancelled, asked, early, firing, body>>
    BY <1>7, Zenon DEF PollReturns, Quit, CallerWakes, loopVars, timerVars
  <2>2. QED
    BY <1>1, <2>1, TimersUntouched, Zenon
<1>8. QED
  BY <1>2, <1>3, <1>4, <1>5, <1>6, <1>7, Zenon DEF Quiet

\* What is known of a timer agrees everywhere, in every reachable state.
LEMMA TimerInvariant == Spec => []TimerInv
<1>1. Init => TimerInv
  <2>1. ASSUME Init PROVE TimerInv
    <3>1. ToRun = <<>> /\ heap = {} /\ timerMap = {} /\ cancelled = {} /\ asked = {}
          /\ firing = 0 /\ armed = 0 /\ body = "none"
      BY <2>1 DEF Init, ToRun
    <3>2. DOMAIN ToRun = {}
      BY <3>1
    <3>3. Created
      BY <3>1, <3>2 DEF Created
    <3>4. AddedOnce
      BY <3>2, Zenon DEF AddedOnce, Registering
    <3>5. TimerBooksAgree /\ Gone
      BY <3>1, Zenon DEF TimerBooksAgree, Gone
    <3>6. QED
      BY <3>3, <3>4, <3>5, Zenon DEF TimerInv
  <2>2. QED
    BY <2>1, Zenon
<1>2. ASSUME LoopInv, TimerInv, [Next]_vars PROVE TimerInv'
  <2>1. CASE UNCHANGED vars
    <3>1. ToRun' = ToRun
          /\ UNCHANGED <<armed, heap, timerMap, cancelled, asked, early, firing, body>>
      BY <2>1, Zenon DEF vars, loopVars, queueVars, timerVars, ToRun
    <3>2. QED
      BY <1>2, <3>1, TimersUntouched, Zenon
  <2>2. CASE SwapFunctors
    <3>1. running = <<>> /\ running' = pending /\ pending' = <<>> /\ pending \in Seq(Call)
      BY <1>2, <2>2, Zenon DEF SwapFunctors, LoopInv, LoopTypes, Phases
    <3>2. ToRun' = ToRun
      BY <3>1 DEF ToRun
    <3>3. UNCHANGED <<armed, heap, timerMap, cancelled, asked, early, firing, body>>
      BY <2>2, Zenon DEF SwapFunctors, timerVars
    <3>4. QED
      BY <1>2, <3>2, <3>3, TimersUntouched, Zenon
  <2>3. QED
    BY <1>2, <2>1, <2>2, StepKinds, QuietTimerInv, QueuesTimerInv, RunTimerInv, Zenon
<1>3. QED
  BY <1>1, <1>2, LoopInvariant, PTL DEF Spec

\* m_timers and m_timerMap agree for every schedule of timers: apart from the timer
\* whose callback runs, the map holds exactly the scheduled timers that were not
\* cancelled.
THEOREM LoopTimerBooksAgree == Spec => []TimerBooksAgree
<1>1. TimerInv => TimerBooksAgree
  BY Zenon DEF TimerInv
<1>2. QED
  BY <1>1, TimerInvariant, PTL

\* A timer the loop knows of does not fire once cancelTimerInLoop has run for it.
THEOREM LoopCancelledStaysQuiet == Spec => CancelledStaysQuiet
<1> DEFINE Silent == \A i \in asked \ early : firing' = i => firing = i
<1>1. ASSUME LoopInv, TimerInv, [Next]_vars PROVE [Silent]_vars
  <2>1. firing' \in {firing, 0} \/ Fire
    <3>1. CASE Quiet
      BY <3>1, Zenon DEF Quiet, Test, DropDead, Fired, TimersDone, Enter, Tick, OwnQuit, ReadWakeup,
                  HandleChannel, ChannelHandled, RunUser, FunctorsDone, PollReturns, OwnRunTimer,
                  OwnCancelTimer, Quit, CallerWakes, loopVars
    <3>2. CASE SwapFunctors \/ UserRan \/ RunAdd \/ RunCancel
      BY <3>2, Zenon DEF SwapFunctors, UserRan, RunAdd, RunCancel, FunctorRan
    <3>3. ASSUME NEW fn, Queues(fn) PROVE firing' = firing
      BY <1>1, <3>3, QueuesAppends, Zenon DEF loopVars
    <3>4. QED
      BY <1>1, <3>1, <3>2, <3>3, StepKinds, Zenon DEF vars, loopVars
  <2>2. 0 \notin asked
    BY <1>1, LoopAssumption DEF TimerInv, Created, LoopInv, LoopTypes
  <2>3. Fire => firing' \in timerMap
    BY Zenon DEF Fire
  <2>4. QED
    BY <1>1, <2>1, <2>2, <2>3, Zenon DEF TimerInv, Gone
<1>2. QED
  BY <1>1, LoopInvariant, TimerInvariant, PTL DEF Spec, CancelledStaysQuiet
=============================================================================
