---------------------------- MODULE BoundedQueue ----------------------------
(***************************************************************************)
(* What sync::BlockingQueue promises its users, with the mutex and the two *)
(* condition variables abstracted away: an atomic FIFO queue of bounded    *)
(* capacity (0 means unbounded) that can be closed once, after which       *)
(* nothing is accepted any more but everything accepted is still           *)
(* delivered.  BlockingQueue.tla refines this module; ThreadPool.tla and   *)
(* SerialExecutor.tla use its operations.                                  *)
(***************************************************************************)
EXTENDS Naturals, Sequences

CONSTANTS Item,      \* the values that can be queued
          Capacity   \* m_capacity; 0 is "unbounded"

VARIABLES queue,     \* m_queue
          stopped,   \* m_stopped
          accepted,  \* history: every item accepted, in order
          delivered  \* history: every item handed to a consumer, in order

qvars == <<queue, stopped, accepted, delivered>>

QInit ==
    /\ queue = <<>>
    /\ stopped = FALSE
    /\ accepted = <<>>
    /\ delivered = <<>>

\* m_capacity == 0 || m_queue.size() < m_capacity
HasRoom == Capacity = 0 \/ Len(queue) < Capacity

Accept(x) ==
    /\ ~stopped
    /\ HasRoom
    /\ queue' = Append(queue, x)
    /\ accepted' = Append(accepted, x)
    /\ UNCHANGED <<stopped, delivered>>

Deliver ==
    /\ queue # <<>>
    /\ queue' = Tail(queue)
    /\ delivered' = Append(delivered, Head(queue))
    /\ UNCHANGED <<stopped, accepted>>

Close ==
    /\ ~stopped
    /\ stopped' = TRUE
    /\ UNCHANGED <<queue, accepted, delivered>>

QNext == (\E x \in Item : Accept(x)) \/ Deliver \/ Close

QSpec == QInit /\ [][QNext]_qvars

=============================================================================
