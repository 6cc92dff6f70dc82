---------------------------- MODULE SerialQueue ----------------------------
(***************************************************************************)
(* What thread::SerialExecutor promises: the tasks accepted by submit()    *)
(* run one at a time, in the order of acceptance.                          *)
(***************************************************************************)
EXTENDS Naturals, Sequences

CONSTANTS Task, NoTask

VARIABLES pending,   \* accepted, not yet begun
          running,   \* the task being run, or NoTask
          ran        \* tasks that have been run, in order

svars == <<pending, running, ran>>

SInit == pending = <<>> /\ running = NoTask /\ ran = <<>>

AcceptTask(x) == pending' = Append(pending, x) /\ UNCHANGED <<running, ran>>

BeginTask ==
    /\ running = NoTask
    /\ pending # <<>>
    /\ running' = Head(pending)
    /\ pending' = Tail(pending)
    /\ UNCHANGED ran

EndTask ==
    /\ running # NoTask
    /\ ran' = Append(ran, running)
    /\ running' = NoTask
    /\ UNCHANGED pending

SNext == (\E x \in Task : AcceptTask(x)) \/ BeginTask \/ EndTask

SSpec == SInit /\ [][SNext]_svars

=============================================================================
