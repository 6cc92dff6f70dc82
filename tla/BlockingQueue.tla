--------------------------- MODULE BlockingQueue ---------------------------
(***************************************************************************)
(* sync::BlockingQueue (include/dbase/sync/blocking_queue.h): a bounded    *)
(* queue protected by one mutex, with the condition variables m_notEmpty   *)
(* and m_notFull.                                                          *)
(*                                                                         *)
(* Every critical section is one step (the mutex excludes all others while *)
(* it runs).  What the mutex does not cover is a step of its own: the      *)
(* notify_one that emplace and the pops issue after unlock(), the time     *)
(* between being notified and owning the mutex again, spurious wake-ups,   *)
(* and the time between popFor's timeout and its last look at the queue.   *)
(***************************************************************************)
EXTENDS Integers, Sequences, FiniteSets

CONSTANTS Thread,    \* the threads that call the queue
          Item,      \* the values pushed; each is offered once
          NoItem,    \* "no value in hand"
          Capacity   \* m_capacity; 0 is "unbounded"

ASSUME QueueAssumption ==
    /\ NoItem \notin Item
    /\ Capacity \in Nat
    /\ IsFiniteSet(Thread)

VARIABLES queue,     \* m_queue
          stopped,   \* m_stopped
          accepted,  \* history: items accepted, in order
          delivered, \* history: items handed to a consumer, in order
          pc,        \* where each thread is in the operation it called
          arg,       \* the value a pushing thread holds
          offered,   \* history: the values some push or tryPush was called with
          sawStop    \* history: some pop or popFor threw "BlockingQueue stopped"

vars == <<queue, stopped, accepted, delivered, pc, arg, offered, sawStop>>

\* "push", "pop", "popFor": owns or is about to own the mutex and evaluates the
\* predicate; "expired": popFor timed out and evaluates it for the last time;
\* "wait...": inside condition_variable::wait; "signal...": unlocked, about to
\* call notify_one.
PC == {"idle", "push", "waitNotFull", "signalNotEmpty", "pop", "popFor",
       "expired", "waitPop", "waitPopFor", "signalNotFull"}

WaitingNotFull  == {t \in Thread : pc[t] = "waitNotFull"}
WaitingNotEmpty == {t \in Thread : pc[t] \in {"waitPop", "waitPopFor"}}

\* Where a waiting thread resumes.
Resume(p) == CASE p = "waitNotFull" -> "push"
               [] p = "waitPop"     -> "pop"
               [] p = "waitPopFor"  -> "popFor"

\* notify_one by t, which then is at `after': one waiter, if any, resumes.
NotifyOne(t, waiters, after) ==
    IF waiters = {}
    THEN pc' = [pc EXCEPT ![t] = after]
    ELSE \E u \in waiters :
            pc' = [pc EXCEPT ![t] = after, ![u] = Resume(pc[u])]

Q == INSTANCE BoundedQueue

Init ==
    /\ Q!QInit
    /\ pc = [t \in Thread |-> "idle"]
    /\ arg = [t \in Thread |-> NoItem]
    /\ offered = {}
    /\ sawStop = FALSE

-----------------------------------------------------------------------------
\* push / emplace

CallPush(t, x) ==
    /\ pc[t] = "idle"
    /\ x \notin offered
    /\ pc' = [pc EXCEPT ![t] = "push"]
    /\ arg' = [arg EXCEPT ![t] = x]
    /\ offered' = offered \cup {x}
    /\ UNCHANGED <<queue, stopped, accepted, delivered, sawStop>>

PushWait(t) ==
    /\ pc[t] = "push"
    /\ ~stopped /\ ~Q!HasRoom
    /\ pc' = [pc EXCEPT ![t] = "waitNotFull"]
    /\ UNCHANGED <<queue, stopped, accepted, delivered, arg, offered, sawStop>>

\* Mutant: the predicate compares with <= and lets one item too many in.
PushAcceptOffByOne(t) ==
    /\ pc[t] = "push"
    /\ ~stopped
    /\ Capacity = 0 \/ Len(queue) <= Capacity
    /\ queue' = Append(queue, arg[t])
    /\ accepted' = Append(accepted, arg[t])
    /\ pc' = [pc EXCEPT ![t] = "signalNotEmpty"]
    /\ arg' = [arg EXCEPT ![t] = NoItem]
    /\ UNCHANGED <<stopped, delivered, offered, sawStop>>

\* Mutant: the stop test after the wait is dropped, so a stopped queue accepts.
PushAcceptStopped(t) ==
    /\ pc[t] = "push"
    /\ stopped \/ Q!HasRoom
    /\ queue' = Append(queue, arg[t])
    /\ accepted' = Append(accepted, arg[t])
    /\ pc' = [pc EXCEPT ![t] = "signalNotEmpty"]
    /\ arg' = [arg EXCEPT ![t] = NoItem]
    /\ UNCHANGED <<stopped, delivered, offered, sawStop>>

PushThrow(t) ==
    /\ pc[t] = "push"
    /\ stopped
    /\ pc' = [pc EXCEPT ![t] = "idle"]
    /\ arg' = [arg EXCEPT ![t] = NoItem]
    /\ UNCHANGED <<queue, stopped, accepted, delivered, offered, sawStop>>

PushAccept(t) ==
    /\ pc[t] = "push"
    /\ Q!Accept(arg[t])
    /\ pc' = [pc EXCEPT ![t] = "signalNotEmpty"]
    /\ arg' = [arg EXCEPT ![t] = NoItem]
    /\ UNCHANGED <<offered, sawStop>>

PushSignal(t) ==
    /\ pc[t] = "signalNotEmpty"
    /\ NotifyOne(t, WaitingNotEmpty, "idle")
    /\ UNCHANGED <<queue, stopped, accepted, delivered, arg, offered, sawStop>>

-----------------------------------------------------------------------------
\* tryPush: one critical section, the notify included.

TryPush(t, x) ==
    /\ pc[t] = "idle"
    /\ x \notin offered
    /\ offered' = offered \cup {x}
    /\ \/ /\ stopped \/ ~Q!HasRoom
          /\ UNCHANGED <<queue, stopped, accepted, delivered, pc>>
       \/ /\ Q!Accept(x)
          /\ NotifyOne(t, WaitingNotEmpty, "idle")
    /\ UNCHANGED <<arg, sawStop>>

-----------------------------------------------------------------------------
\* pop, popFor, tryPop

CallPop(t) ==
    /\ pc[t] = "idle"
    /\ pc' \in {[pc EXCEPT ![t] = p] : p \in {"pop", "popFor"}}
    /\ UNCHANGED <<queue, stopped, accepted, delivered, arg, offered, sawStop>>

PopWait(t) ==
    /\ pc[t] \in {"pop", "popFor"}
    /\ ~stopped /\ queue = <<>>
    /\ pc' = [pc EXCEPT ![t] = IF @ = "pop" THEN "waitPop" ELSE "waitPopFor"]
    /\ UNCHANGED <<queue, stopped, accepted, delivered, arg, offered, sawStop>>

PopThrow(t) ==
    /\ pc[t] \in {"pop", "popFor", "expired"}
    /\ stopped /\ queue = <<>>
    /\ pc' = [pc EXCEPT ![t] = "idle"]
    /\ sawStop' = TRUE
    /\ UNCHANGED <<queue, stopped, accepted, delivered, arg, offered>>

PopTake(t) ==
    /\ pc[t] \in {"pop", "popFor", "expired"}
    /\ Q!Deliver
    /\ pc' = [pc EXCEPT ![t] = "signalNotFull"]
    /\ UNCHANGED <<arg, offered, sawStop>>

\* Mutant: a pop frees a slot and tells nobody.
PopSignalNobody(t) ==
    /\ pc[t] = "signalNotFull"
    /\ pc' = [pc EXCEPT ![t] = "idle"]
    /\ UNCHANGED <<queue, stopped, accepted, delivered, arg, offered, sawStop>>

PopSignal(t) ==
    /\ pc[t] = "signalNotFull"
    /\ NotifyOne(t, WaitingNotFull, "idle")
    /\ UNCHANGED <<queue, stopped, accepted, delivered, arg, offered, sawStop>>

\* wait_for's clock runs out while the thread waits on m_notEmpty.
PopTimeout(t) ==
    /\ pc[t] = "waitPopFor"
    /\ pc' = [pc EXCEPT ![t] = "expired"]
    /\ UNCHANGED <<queue, stopped, accepted, delivered, arg, offered, sawStop>>

\* popFor returns nullopt: timed out and the predicate is still false.
PopNothing(t) ==
    /\ pc[t] = "expired"
    /\ ~stopped /\ queue = <<>>
    /\ pc' = [pc EXCEPT ![t] = "idle"]
    /\ UNCHANGED <<queue, stopped, accepted, delivered, arg, offered, sawStop>>

TryPop(t) ==
    /\ pc[t] = "idle"
    /\ Q!Deliver
    /\ pc' = [pc EXCEPT ![t] = "signalNotFull"]
    /\ UNCHANGED <<arg, offered, sawStop>>

-----------------------------------------------------------------------------
\* stop(): sets the flag and wakes every waiter, all under the mutex.
Stop(t) ==
    /\ pc[t] = "idle"
    /\ Q!Close
    /\ pc' = [u \in Thread |-> IF u \in WaitingNotFull \cup WaitingNotEmpty
                               THEN Resume(pc[u]) ELSE pc[u]]
    /\ UNCHANGED <<arg, offered, sawStop>>

\* condition_variable::wait may return without a notification.
SpuriousWakeup(t) ==
    /\ t \in WaitingNotFull \cup WaitingNotEmpty
    /\ pc' = [pc EXCEPT ![t] = Resume(@)]
    /\ UNCHANGED <<queue, stopped, accepted, delivered, arg, offered, sawStop>>

-----------------------------------------------------------------------------
\* What a thread inside an operation does next when it owns the processor.
Step(t) ==
    \/ PushWait(t) \/ PushThrow(t) \/ PushAccept(t) \/ PushSignal(t)
    \/ PopWait(t) \/ PopThrow(t) \/ PopTake(t) \/ PopSignal(t) \/ PopNothing(t)

Call(t) ==
    \/ \E x \in Item : CallPush(t, x) \/ TryPush(t, x)
    \/ CallPop(t) \/ TryPop(t) \/ Stop(t)

Next == \E t \in Thread : Step(t) \/ Call(t) \/ PopTimeout(t) \/ SpuriousWakeup(t)

Spec == Init /\ [][Next]_vars

-----------------------------------------------------------------------------
TypeOK ==
    /\ queue \in Seq(Item) /\ accepted \in Seq(Item) /\ delivered \in Seq(Item)
    /\ stopped \in BOOLEAN /\ sawStop \in BOOLEAN
    /\ pc \in [Thread -> PC]
    /\ arg \in [Thread -> Item \cup {NoItem}]
    /\ \A t \in Thread : (pc[t] \in {"push", "waitNotFull"}) <=> (arg[t] # NoItem)
    /\ offered \subseteq Item

\* No interleaving of producers lets the queue exceed m_capacity: the room that
\* waitUntilPushable saw is still there when emplace_back runs.
CapacityRespected == Capacity # 0 => Len(queue) <= Capacity

\* FIFO without loss or duplication: at every moment, what was accepted is what
\* was delivered followed by what is still in m_queue.
FifoNoLoss == accepted = delivered \o queue

\* Once some consumer has been told "BlockingQueue stopped", the queue is empty
\* for good: no item was or will be left behind (pop keeps draining after stop(),
\* emplace refuses after stop()).
StopMeansDrained == sawStop => stopped /\ queue = <<>>

\* The threads that will look at m_queue, or wake someone who will.
NotEmptySignals == {t \in Thread : pc[t] \in {"signalNotEmpty", "pop", "popFor", "expired"}}
NotFullSignals  == {t \in Thread : pc[t] \in {"signalNotFull", "push"}}

\* No lost wake-up, although notify_one comes after unlock() and a wait can end
\* by timeout: while a consumer sleeps, every queued item has a thread that will
\* take it or signal it; while a producer sleeps, so has every free slot; and
\* nobody sleeps through stop().
NoLostNotEmpty ==
    WaitingNotEmpty # {} => ~stopped /\ Len(queue) <= Cardinality(NotEmptySignals)
NoLostNotFull ==
    WaitingNotFull # {} =>
        ~stopped /\ Capacity # 0 /\ Capacity - Len(queue) <= Cardinality(NotFullSignals)
NoLostWakeup == NoLostNotEmpty /\ NoLostNotFull

\* BlockingQueue implements the atomic queue of BoundedQueue: each critical
\* section is at most one atomic operation, everything else a stuttering step.
RefinesBoundedQueue == Q!QSpec
=============================================================================
