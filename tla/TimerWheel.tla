----------------------------- MODULE TimerWheel -----------------------------
(***************************************************************************)
(* time::TimerMgr (src/time/timer_wheel.cpp): hierarchical timing wheels.  *)
(* Wheel 0 moves one slot per tick, wheel w + 1 one slot per turn of wheel *)
(* w.  A timer goes to the wheel its timeout reaches, with what is left to *)
(* wait when its slot comes up, and is registered again then ("cascades"). *)
(*                                                                         *)
(* One thread owns the wheels.  tick() catches up with the clock step by   *)
(* step, and the handlers it calls register and unregister timers.  The    *)
(* list of a slot is a set: its order decides only which handler is first. *)
(* The code's 256 * 64^4 slots make 2^32, the range of its uint32_t; here  *)
(* the range is the product of the Counts.                                 *)
(***************************************************************************)
EXTENDS Integers, Sequences, FiniteSetsExt

CONSTANTS Timer,     \* the Timer objects
          Counts,    \* ELEMENT_CNT_PER_WHEEL, wheel 0 first
          Timeouts,  \* the timeouts asked for
          MaxLag,    \* bound: ticks the clock is ahead of the wheels
          MaxNow     \* bound: the clock

VARIABLES
    now,       \* the clock, nowS() or nowMs()
    lastTick,  \* last_tick_
    cur,       \* cur_slot of each wheel
    slot,      \* the wheel and slot a timer is linked in, or None
    left,      \* Timer::timeout_
    wheel,     \* step()'s wheel_no, or -1 outside of tick()
    target,    \* the clock value this tick() catches up to
    calling,   \* a handler is running
    epoch,     \* history: lastTick when the wheels were at slot 0
    due,       \* history: the clock value a timer was registered for
    slack,     \* history: how far the clock was ahead at its cascades
    aligned    \* history: always registered with the wheels in step

vars == <<now, lastTick, cur, slot, left, wheel, target, calling, epoch, due, slack, aligned>>
timerVars == <<slot, left, due, slack, aligned>>

Wheels == 0..(Len(Counts) - 1)
Count(w) == Counts[w + 1]
\* BASE_TICK_PER_WHEEL; RIGHT_SHIFT_PER_WHEEL divides by Count.
Base[w \in Wheels] == IF w = 0 THEN 1 ELSE Base[w - 1] * Count(w - 1)
Width == Base[Len(Counts) - 1] * Count(Len(Counts) - 1)
None == <<-1, -1>>

Init ==
    /\ now = 1 /\ lastTick = 1 /\ epoch = 1 /\ target = 0
    /\ cur = [w \in Wheels |-> 0]
    /\ wheel = -1 /\ calling = FALSE
    /\ slot = [t \in Timer |-> None] /\ left = [t \in Timer |-> 0]
    /\ due = [t \in Timer |-> 0] /\ slack = [t \in Timer |-> 0]
    /\ aligned = [t \in Timer |-> FALSE]

\* registerTimer(timer, timeout): the backlog of the clock is added to the timeout,
\* 0 becomes 1, and the timer goes to the first wheel whose slots reach that far.
Backlog == IF now > lastTick THEN now - lastTick ELSE 0
Ticks(timeout) == LET n == (Backlog + timeout) % Width IN IF n = 0 THEN 1 ELSE n

WheelFor(n) ==
    CHOOSE w \in Wheels :
        /\ w = Len(Counts) - 1 \/ n \div Base[w] < Count(w)
        /\ \A v \in 0..(w - 1) : n \div Base[v] >= Count(v)

\* Mutant: every wheel is taken to have passed its present slot.
LeftNoCarry(n, w) ==
    LET passed(v) == Base[v] * (Count(v) - cur[v])
    IN (n - MapThenSumSet(passed, 0..(w - 1)) - Base[w] * ((n \div Base[w]) - 1)) % Width

Left(n, w) ==
    LET passed(v) == Base[v] * (Count(v) - cur[v] - (IF v = 0 THEN 0 ELSE 1))
    IN (n - MapThenSumSet(passed, 0..(w - 1)) - Base[w] * ((n \div Base[w]) - 1)) % Width

\* The wheels that registration looks at stand at the slot lastTick says.
InStep(timeout) ==
    \A w \in 0..WheelFor(Ticks(timeout)) :
        cur[w] = ((lastTick - epoch) \div Base[w]) % Count(w)

UnLink(t) ==
    /\ slot' = [slot EXCEPT ![t] = None]
    /\ due' = [due EXCEPT ![t] = 0] /\ slack' = [slack EXCEPT ![t] = 0]
    /\ aligned' = [aligned EXCEPT ![t] = FALSE]

Link(t, timeout) ==
    LET n == Ticks(timeout)
        w == WheelFor(n)
    IN /\ left' = [left EXCEPT ![t] = Left(n, w)]
       /\ slot' = [slot EXCEPT ![t] = <<w, ((n \div Base[w]) + cur[w]) % Count(w)>>]

-----------------------------------------------------------------------------
\* The user's calls, from outside of tick() or from a handler.
UserTurn == wheel = -1 \/ calling

RegisterTimer(t, timeout) ==
    /\ UserTurn
    /\ Link(t, timeout)
    /\ due' = [due EXCEPT ![t] = now + IF timeout + Backlog = 0 THEN 1 ELSE timeout]
    /\ slack' = [slack EXCEPT ![t] = 0]
    /\ aligned' = [aligned EXCEPT ![t] = InStep(timeout)]
    /\ UNCHANGED <<now, lastTick, cur, wheel, target, calling, epoch>>

UnRegisterTimer(t) ==
    /\ UserTurn /\ slot[t] # None
    /\ UnLink(t)
    /\ UNCHANGED <<now, lastTick, cur, left, wheel, target, calling, epoch>>

\* initTick() and clear() put the wheels back to slot 0; initTick() leaves the
\* timers where they are.
InitTick ==
    /\ wheel = -1
    /\ lastTick' = now /\ epoch' = now
    /\ cur' = [w \in Wheels |-> 0]
    /\ aligned' = [t \in Timer |-> FALSE]
    /\ UNCHANGED <<now, slot, left, wheel, target, calling, due, slack>>

Clear ==
    /\ wheel = -1
    /\ slot' = [t \in Timer |-> None]
    /\ cur' = [w \in Wheels |-> 0]
    /\ epoch' = lastTick
    /\ due' = [t \in Timer |-> 0] /\ slack' = [t \in Timer |-> 0]
    /\ aligned' = [t \in Timer |-> FALSE]
    /\ UNCHANGED <<now, lastTick, left, wheel, target, calling>>

-----------------------------------------------------------------------------
\* tick(): each step() moves wheel 0, and wheel w + 1 when wheel w comes round.
Turn(w) == cur' = [cur EXCEPT ![w] = (@ + 1) % Count(w)] /\ wheel' = w

Tick ==
    /\ wheel = -1 /\ now > lastTick
    /\ target' = now
    /\ lastTick' = lastTick + 1
    /\ Turn(0)
    /\ UNCHANGED <<now, timerVars, calling, epoch>>

InSlot == {t \in Timer : wheel # -1 /\ slot[t] = <<wheel, cur[wheel]>>}
Expires(t) == wheel = 0 \/ left[t] = 0

Fire(t) ==
    /\ ~calling /\ t \in InSlot /\ Expires(t)
    /\ UnLink(t)
    /\ calling' = TRUE
    /\ UNCHANGED <<now, lastTick, cur, left, wheel, target, epoch>>

HandlerReturns ==
    /\ calling
    /\ calling' = FALSE
    /\ UNCHANGED <<now, lastTick, cur, timerVars, wheel, target, epoch>>

\* A timer that has still to wait is registered again, with the backlog added.
Cascade(t) ==
    /\ ~calling /\ t \in InSlot /\ ~Expires(t)
    /\ Link(t, left[t])
    /\ slack' = [slack EXCEPT ![t] = @ + Backlog]
    /\ aligned' = [aligned EXCEPT ![t] = @ /\ InStep(left[t])]
    /\ UNCHANGED <<now, lastTick, cur, wheel, target, calling, epoch, due>>

NextWheel ==
    /\ wheel # -1 /\ ~calling /\ InSlot = {}
    /\ cur[wheel] = 0 /\ wheel + 1 \in Wheels
    /\ Turn(wheel + 1)
    /\ UNCHANGED <<now, lastTick, timerVars, target, calling, epoch>>

StepDone == wheel # -1 /\ ~calling /\ InSlot = {} /\ (cur[wheel] # 0 \/ wheel + 1 \notin Wheels)

NextStep ==
    /\ StepDone /\ lastTick < target
    /\ lastTick' = lastTick + 1
    /\ Turn(0)
    /\ UNCHANGED <<now, timerVars, target, calling, epoch>>

TickReturns ==
    /\ StepDone /\ lastTick = target
    /\ wheel' = -1 /\ target' = 0
    /\ UNCHANGED <<now, lastTick, cur, timerVars, calling, epoch>>

ClockAdvances ==
    /\ now < MaxNow /\ now - lastTick < MaxLag
    /\ now' = now + 1
    /\ UNCHANGED <<lastTick, cur, timerVars, wheel, target, calling, epoch>>

Next ==
    \/ \E t \in Timer : \/ Fire(t) \/ Cascade(t) \/ UnRegisterTimer(t)
                        \/ \E d \in Timeouts : RegisterTimer(t, d)
    \/ InitTick \/ Clear \/ Tick \/ HandlerReturns \/ NextWheel \/ NextStep
    \/ TickReturns \/ ClockAdvances

Spec == Init /\ [][Next]_vars

-----------------------------------------------------------------------------
TypeOK ==
    /\ {now, lastTick, epoch, target} \subseteq 0..MaxNow
    /\ \A w \in Wheels : cur[w] \in 0..(Count(w) - 1)
    /\ \A t \in Timer : \/ slot[t] = None
                        \/ \E w \in Wheels : slot[t] \in {w} \X (0..(Count(w) - 1))
    /\ left \in [Timer -> 0..(Width - 1)] /\ due \in [Timer -> Nat] /\ slack \in [Timer -> Nat]
    /\ aligned \in [Timer -> BOOLEAN] /\ wheel \in Wheels \cup {-1} /\ calling \in BOOLEAN

\* A timer registered with the wheels it uses in step with last_tick_ fires on the
\* tick it was registered for, however many wheels it goes through and wherever
\* they stand, plus the backlog of the clock that each of its cascades added to
\* it again: never early, and on time when tick() is never behind.
FiresOnTick ==
    \A t \in InSlot : aligned[t] /\ Expires(t) => lastTick = due[t] + slack[t]
=============================================================================
