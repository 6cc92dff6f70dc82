----------------------------- MODULE TimerQueue -----------------------------
(***************************************************************************)
(* thread::TimerQueue (src/thread/timer_queue.cpp): a worker thread sleeps *)
(* until the earliest timer of m_tasks is due and runs it, or submits it   *)
(* to a thread pool.  Any thread arms and cancels timers; one thread, the  *)
(* owner, starts and stops the queue.                                      *)
(*                                                                         *)
(* A critical section is one step, with one exception: a worker whose wait *)
(* predicate is false owns m_mutex for one more step ("park", "parkUntil") *)
(* before it sleeps.  stop() sets m_stopped without the mutex, so that     *)
(* store can fall into this step.  The stop token is requested after       *)
(* m_stopped is set and tested only together with it or just before it, so *)
(* m_stopped stands for both.  What a task does to the queue is what any   *)
(* thread can do while it runs.                                            *)
(***************************************************************************)
EXTENDS Naturals, FiniteSets

CONSTANTS Caller,     \* the threads that arm and cancel timers
          Delays,     \* the delays and intervals they ask for
          MaxTimers,  \* bound: timers made
          MaxGeneration, \* bound: calls of cancelAll()
          MaxTime     \* bound: the clock, and the deadline of a new timer

VARIABLES
    started,     \* m_started
    stopped,     \* m_stopped
    heap,        \* m_tasks, whose order is by expiration, then id
    nextId,      \* m_nextId
    generation,  \* m_cancelGeneration
    cancelled,   \* m_cancelled
    now,         \* the steady clock
    owner,       \* the owner's place in start() and stop()
    pc, made,    \* each caller's place, and the timer it has made
    wpc, held,   \* the worker's place, and the timer it holds (top, timerTask)
    quiet        \* history: timers cancelled before the worker was committed

vars == <<started, stopped, heap, nextId, generation, cancelled, now, owner, pc,
          made, wpc, held, quiet>>
queue == <<heap, nextId, generation, cancelled, quiet>>
flags == <<started, stopped, now, owner>>

Ids == 1..MaxTimers
None == [id |-> 0, expiration |-> 0, interval |-> 0, generation |-> 0]

Init ==
    /\ started = FALSE /\ stopped = TRUE
    /\ heap = {} /\ nextId = 0 /\ generation = 0 /\ cancelled = {}
    /\ now = 0 /\ owner = "out"
    /\ pc = [c \in Caller |-> "idle"] /\ made = [c \in Caller |-> None]
    /\ wpc = "none" /\ held = None
    /\ quiet = {}

\* Nobody is about to sleep on m_cv with m_mutex locked.
Free == wpc \notin {"park", "parkUntil"}

\* isCancelledLocked().  Mutant: cancelAll() is forgotten.
IsCancelledById(x) == x.id \in cancelled

IsCancelled(x) == x.generation < generation \/ x.id \in cancelled

Before(x, y) ==
    x.expiration < y.expiration \/ (x.expiration = y.expiration /\ x.id < y.id)
IsTop(x, h) == x \in h /\ \A y \in h \ {x} : Before(x, y)

\* m_cv.notify_all(): the worker evaluates its predicate again.
NotifyAll ==
    wpc' = CASE wpc = "asleep" -> "wait"
             [] wpc = "asleepUntil" -> "waitUntil"
             [] OTHER -> wpc

\* The timers a cancellation of ids still reaches: all but the one the worker has
\* looked at for the last time and is about to hand over.
Reached(ids) == IF wpc = "execute" THEN ids \ {held.id} ELSE ids

-----------------------------------------------------------------------------
\* start().  m_started stays set for good: a queue starts once.
Start ==
    /\ owner = "out" /\ ~started
    /\ started' = TRUE /\ stopped' = FALSE
    /\ wpc' = "wait"
    /\ UNCHANGED <<queue, now, owner, pc, made, held>>

\* The thread cannot be created.
StartFails ==
    /\ owner = "out" /\ ~started
    /\ started' = TRUE /\ stopped' = TRUE
    /\ UNCHANGED <<queue, now, owner, pc, made, wpc, held>>

\* stop(): the exchange of m_stopped, the critical section, the notification and
\* the join.
Stop ==
    /\ owner = "out" /\ ~stopped
    /\ stopped' = TRUE
    /\ owner' = "clear"
    /\ UNCHANGED <<queue, started, now, pc, made, wpc, held>>

StopClears ==
    /\ owner = "clear" /\ Free
    /\ generation' = generation + 1
    /\ heap' = {} /\ cancelled' = {}
    /\ quiet' = quiet \cup Reached(1..nextId)
    /\ owner' = "notify"
    /\ UNCHANGED <<nextId, started, stopped, now, pc, made, wpc, held>>

StopNotifies ==
    /\ owner = "notify"
    /\ NotifyAll
    /\ owner' = "join"
    /\ UNCHANGED <<queue, started, stopped, now, pc, made, held>>

StopReturns ==
    /\ owner = "join" /\ wpc = "exited"
    /\ owner' = "out"
    /\ UNCHANGED <<queue, started, stopped, now, pc, made, wpc, held>>

-----------------------------------------------------------------------------
\* runAt(), runAfter() and runEvery(): started() is tested, the timer made under
\* the mutex, pushed under it a second time, and the worker notified.
CallRun(c) ==
    /\ pc[c] = "idle" /\ started /\ ~stopped
    /\ nextId + Cardinality({b \in Caller : pc[b] = "make"}) < MaxTimers
    /\ pc' = [pc EXCEPT ![c] = "make"]
    /\ UNCHANGED <<queue, flags, made, wpc, held>>

MakeTimer(c, d, repeat) ==
    /\ pc[c] = "make" /\ Free /\ now + d <= MaxTime
    /\ nextId' = nextId + 1
    /\ made' = [made EXCEPT ![c] =
           [id |-> nextId + 1, expiration |-> now + d,
            interval |-> IF repeat THEN d ELSE 0, generation |-> generation]]
    /\ pc' = [pc EXCEPT ![c] = "push"]
    /\ UNCHANGED <<heap, generation, cancelled, quiet, flags, wpc, held>>

PushTask(c) ==
    /\ pc[c] = "push" /\ Free
    /\ heap' = heap \cup {made[c]}
    /\ made' = [made EXCEPT ![c] = None]
    /\ pc' = [pc EXCEPT ![c] = "notify"]
    /\ UNCHANGED <<nextId, generation, cancelled, quiet, flags, wpc, held>>

\* Mutant: the worker is not notified of a new timer.
PushSilently(c) ==
    /\ pc[c] = "notify"
    /\ pc' = [pc EXCEPT ![c] = "idle"]
    /\ UNCHANGED <<queue, flags, made, wpc, held>>

PushNotifies(c) ==
    /\ pc[c] = "notify"
    /\ NotifyAll
    /\ pc' = [pc EXCEPT ![c] = "idle"]
    /\ UNCHANGED <<queue, flags, made, held>>

\* The ids callers know.
Returned == (1..nextId) \ {made[c].id : c \in Caller}

\* cancel(): the notification is inside the critical section, and only for an id
\* that was not cancelled already.
Cancel(c, i) ==
    /\ pc[c] = "idle" /\ Free /\ i \in Returned \ cancelled
    /\ cancelled' = cancelled \cup {i}
    /\ quiet' = quiet \cup Reached({i})
    /\ NotifyAll
    /\ UNCHANGED <<heap, nextId, generation, flags, pc, made, held>>

CancelAll(c) ==
    /\ pc[c] = "idle" /\ Free /\ generation < MaxGeneration
    /\ generation' = generation + 1
    /\ cancelled' = {}
    /\ quiet' = quiet \cup Reached(1..nextId)
    /\ pc' = [pc EXCEPT ![c] = "notify"]
    /\ UNCHANGED <<heap, nextId, flags, made, wpc, held>>

-----------------------------------------------------------------------------
\* workerLoop() with the mutex held: the cancelled timers on top are dropped; the
\* first other one is taken when it is due and waited for when it is not, which
\* tests m_stopped again.
Live == {x \in heap : ~IsCancelled(x)}
Dropped == {x \in heap : IsCancelled(x) /\ \A y \in Live : Before(x, y)}

Scan ==
    /\ cancelled' = cancelled \ {x.id : x \in Dropped}
    /\ IF Live = {}
         THEN heap' = {} /\ wpc' = "wait" /\ held' = None
         ELSE \E top \in Live :
              /\ IsTop(top, Live) /\ held' = top
              /\ IF top.expiration > now
                   THEN heap' = heap \ Dropped /\ wpc' = "parkUntil"
                   ELSE heap' = heap \ (Dropped \cup {top}) /\ wpc' = "check"
    /\ UNCHANGED <<nextId, generation, quiet, flags, pc, made>>

Goto(w) ==
    /\ wpc' = w
    /\ UNCHANGED <<queue, flags, pc, made, held>>

Exit ==
    /\ wpc' = "exited" /\ held' = None
    /\ UNCHANGED <<queue, flags, pc, made>>

Wait ==
    /\ wpc = "wait"
    /\ \/ stopped /\ Exit
       \/ ~stopped /\ heap = {} /\ Goto("park")
       \/ ~stopped /\ heap # {} /\ Scan

Sleep ==
    \/ wpc = "park" /\ Goto("asleep")
    \/ wpc = "parkUntil" /\ Goto("asleepUntil")

\* wait_until() returns at the deadline or when its predicate holds.
WaitUntil ==
    /\ \/ wpc = "waitUntil"
       \/ wpc = "asleepUntil" /\ now >= held.expiration
    /\ LET over == ~(\E x \in heap : IsTop(x, heap) /\ x.id = held.id) \/ now >= held.expiration
       IN \/ stopped /\ Exit
          \/ ~stopped /\ over /\ Scan
          \/ ~stopped /\ ~over /\ Goto("parkUntil")

\* The second look at the timer, under the mutex again.
Check ==
    /\ wpc = "check"
    /\ IF IsCancelled(held)
         THEN cancelled' = cancelled \ {held.id} /\ wpc' = "wait" /\ held' = None
         ELSE wpc' = "execute" /\ UNCHANGED <<cancelled, held>>
    /\ UNCHANGED <<heap, nextId, generation, quiet, flags, pc, made>>

\* executeTask(): the task is started, or handed to the pool.  The worker is in
\* "again" while a task it runs itself has not ended.
Execute == wpc = "execute" /\ Goto("again")

\* A repeating timer is looked at a third time and, unless it was cancelled or the
\* queue stopped, pushed with a new deadline.
Again ==
    /\ wpc = "again"
    /\ LET dropped == held.interval # 0 /\ IsCancelled(held)
       IN /\ cancelled' = IF dropped THEN cancelled \ {held.id} ELSE cancelled
          /\ IF held.interval = 0 \/ dropped
               THEN wpc' = "wait" /\ held' = None
               ELSE wpc' = "rearm" /\ UNCHANGED held
    /\ UNCHANGED <<heap, nextId, generation, quiet, flags, pc, made>>

Rearm ==
    /\ wpc = "rearm"
    /\ IF stopped
         THEN wpc' = "wait" /\ held' = None
         ELSE wpc' = "repush" /\ held' = [held EXCEPT !.expiration = now + held.interval]
    /\ UNCHANGED <<queue, flags, pc, made>>

Repush ==
    /\ wpc = "repush"
    /\ heap' = heap \cup {held}
    /\ held' = None
    /\ wpc' = "wait"
    /\ UNCHANGED <<nextId, generation, cancelled, quiet, flags, pc, made>>

Tick ==
    /\ now < MaxTime
    /\ now' = now + 1
    /\ UNCHANGED <<queue, started, stopped, owner, pc, made, wpc, held>>

-----------------------------------------------------------------------------
WorkerStep ==
    Wait \/ Sleep \/ WaitUntil \/ Check \/ Execute \/ Again
         \/ Rearm \/ Repush
StopStep == StopClears \/ StopNotifies \/ StopReturns
CallStep(c) == PushTask(c) \/ PushNotifies(c)

Next ==
    \/ Start \/ StartFails \/ Stop \/ StopStep \/ WorkerStep \/ Tick
    \/ \E c \in Caller :
          \/ CallRun(c) \/ CallStep(c) \/ CancelAll(c)
          \/ \E d \in Delays, r \in BOOLEAN : (r => d > 0) /\ MakeTimer(c, d, r)
          \/ \E i \in Ids : Cancel(c, i)

Spec == Init /\ [][Next]_vars

\* Threads inside the queue run on, and a task ends; the clock and the callers
\* need not.
Fairness == WF_vars(WorkerStep) /\ WF_vars(StopStep) /\ \A c \in Caller : WF_vars(CallStep(c))
FairSpec == Spec /\ Fairness

-----------------------------------------------------------------------------
Timer == [id : 0..MaxTimers, expiration : Nat, interval : Nat, generation : Nat]

TypeOK ==
    /\ {started, stopped} \subseteq BOOLEAN
    /\ heap \subseteq Timer /\ made \in [Caller -> Timer] /\ held \in Timer
    /\ nextId \in 0..MaxTimers /\ generation \in Nat
    /\ cancelled \subseteq Ids /\ quiet \subseteq Ids
    /\ now \in 0..MaxTime
    /\ owner \in {"out", "clear", "notify", "join"}
    /\ pc \in [Caller -> {"idle", "make", "push", "notify"}]
    /\ wpc \in {"none", "wait", "park", "asleep", "parkUntil", "asleepUntil",
                "waitUntil", "check", "execute", "again", "rearm", "repush",
                "exited"}

\* A timer that cancel(), cancelAll() or stop() reached is never handed over again,
\* wherever it was: in the heap, made and not pushed yet, taken and not looked at
\* for the second time, or running and about to be pushed again.
CancelledNeverStarts ==
    [][wpc = "execute" /\ wpc' # "execute" => held.id \notin quiet]_vars

\* The worker never sleeps through what it has to do.  A timer that is due leaves
\* the heap, handed over or dropped, unless the queue is stopped: no push,
\* cancellation or earlier timer leaves the worker asleep on it.  And stop()
\* returns, though m_stopped is set outside the mutex the worker sleeps on.
WorkerNeverStuck ==
    /\ \A i \in Ids : (\E x \in heap : x.id = i /\ x.expiration <= now)
                      ~> (stopped \/ ~ \E x \in heap : x.id = i /\ x.expiration <= now)
    /\ (owner = "clear") ~> (owner = "out")
=============================================================================
