----------------------------- MODULE ThreadPool -----------------------------
(***************************************************************************)
(* thread::ThreadPool: N workers that take tasks from one BlockingQueue.   *)
(* The queue is used through its atomic specification, BoundedQueue (which *)
(* BlockingQueue refines); submit() blocks in it while it is full.         *)
(*                                                                         *)
(* Any controller may call start() and stop(), at any time except that     *)
(* nobody calls stop() on a pool whose start() is still running: both      *)
(* write m_workers without a lock, so that is outside the class's          *)
(* contract.  submit() may be called at any time by clients and, when      *)
(* Reentrant, by the tasks the workers run.                                *)
(***************************************************************************)
EXTENDS Naturals, Sequences, FiniteSets

CONSTANTS Worker,      \* the threads of m_workers
          Client,      \* other threads calling submit
          Controller,  \* threads calling start and stop
          Task,        \* the tasks submitted; each is submitted once
          NoTask,
          Capacity,    \* m_queueCapacity; 0 is "unbounded"
          Reentrant    \* may a running task call submit?

ASSUME PoolAssumption ==
    /\ NoTask \notin Task
    /\ Capacity \in Nat
    /\ Reentrant \in BOOLEAN
    /\ Worker \cap Client = {}

VARIABLES tasks, closed,      \* m_tasks: its content and its m_stopped
          accepted,           \* history: tasks pushed, in order
          begun,              \* history: tasks taken by a worker, in order
          mStarted, mStopped, \* m_started, m_stopped
          ctl,                \* where each controller is in start() or stop()
          wpc, cur,           \* each worker's place in workerLoop and its task
          sub,                \* the task a thread is inside submit() with
          finished,           \* history: tasks whose callable has returned
          refused             \* history: tasks whose submit() threw

vars == <<tasks, closed, accepted, begun, mStarted, mStopped, ctl, wpc, cur,
          sub, finished, refused>>

queueVars == <<tasks, closed, accepted, begun>>

Submitter == Worker \cup Client

M_tasks == INSTANCE BoundedQueue
           WITH Item <- Task, queue <- tasks, stopped <- closed, delivered <- begun

InSubmit == {sub[s] : s \in Submitter} \ {NoTask}
Fresh(x) == /\ x \notin refused
            /\ x \notin InSubmit
            /\ \A i \in DOMAIN accepted : accepted[i] # x

\* started()
Started == mStarted /\ ~mStopped

Init ==
    /\ M_tasks!QInit
    /\ mStarted = FALSE
    /\ mStopped = TRUE
    /\ ctl = [c \in Controller |-> "idle"]
    /\ wpc = [w \in Worker |-> "none"]
    /\ cur = [w \in Worker |-> NoTask]
    /\ sub = [s \in Submitter |-> NoTask]
    /\ finished = {}
    /\ refused = {}

-----------------------------------------------------------------------------
\* start().  The call that loses the exchange throws and changes nothing.

StartClaim(c) ==
    /\ ctl[c] = "idle"
    /\ ~mStarted
    /\ mStarted' = TRUE
    /\ ctl' = [ctl EXCEPT ![c] = "open"]
    /\ UNCHANGED <<queueVars, mStopped, wpc, cur, sub, finished, refused>>

StartOpen(c) ==
    /\ ctl[c] = "open"
    /\ mStopped' = FALSE
    /\ ctl' = [ctl EXCEPT ![c] = "spawn"]
    /\ UNCHANGED <<queueVars, mStarted, wpc, cur, sub, finished, refused>>

\* worker.start(), for one worker after the other; after the last, start() returns.
StartWorker(c) ==
    /\ ctl[c] = "spawn"
    /\ \E w \in Worker :
          /\ wpc[w] = "none"
          /\ wpc' = [wpc EXCEPT ![w] = "pop"]
          /\ ctl' = [ctl EXCEPT ![c] = IF \A v \in Worker \ {w} : wpc[v] # "none"
                                       THEN "idle" ELSE "spawn"]
    /\ UNCHANGED <<queueVars, mStarted, mStopped, cur, sub, finished, refused>>

\* A thread cannot be created: start() calls stop() and rethrows.
StartFail(c) ==
    /\ ctl[c] = "spawn"
    /\ mStopped' = TRUE
    /\ ctl' = [ctl EXCEPT ![c] = "close"]
    /\ UNCHANGED <<queueVars, mStarted, wpc, cur, sub, finished, refused>>

-----------------------------------------------------------------------------
\* stop(), also called by the destructor.

StartInProgress == \E d \in Controller : ctl[d] \in {"open", "spawn"}

StopCall(c) ==
    /\ ctl[c] = "idle"
    /\ ~StartInProgress
    /\ ~mStopped
    /\ mStopped' = TRUE
    /\ ctl' = [ctl EXCEPT ![c] = "close"]
    /\ UNCHANGED <<queueVars, mStarted, wpc, cur, sub, finished, refused>>

\* The exchange fails: somebody else is stopping the pool, or it never ran.
StopEarly(c) ==
    /\ ctl[c] = "idle"
    /\ ~StartInProgress
    /\ mStopped
    /\ UNCHANGED vars

\* Mutant: m_tasks.stop() is forgotten.
StopCloseSkipped(c) ==
    /\ ctl[c] = "close"
    /\ ctl' = [ctl EXCEPT ![c] = "join"]
    /\ UNCHANGED <<queueVars, mStarted, mStopped, wpc, cur, sub, finished, refused>>

StopClose(c) ==
    /\ ctl[c] = "close"
    /\ M_tasks!Close
    /\ ctl' = [ctl EXCEPT ![c] = "join"]
    /\ UNCHANGED <<mStarted, mStopped, wpc, cur, sub, finished, refused>>

StopJoin(c) ==
    /\ ctl[c] = "join"
    /\ \A w \in Worker : wpc[w] \in {"none", "exited"}
    /\ ctl' = [ctl EXCEPT ![c] = "stopped"]
    /\ UNCHANGED <<queueVars, mStarted, mStopped, wpc, cur, sub, finished, refused>>

-----------------------------------------------------------------------------
\* submit(): the started() test and the push are two steps.

MaySubmit(s) ==
    /\ sub[s] = NoTask
    /\ s \in Worker => Reentrant /\ wpc[s] = "run"

SubmitCheck(s, x) ==
    /\ MaySubmit(s)
    /\ Fresh(x)
    /\ \/ Started /\ sub' = [sub EXCEPT ![s] = x] /\ UNCHANGED refused
       \/ ~Started /\ refused' = refused \cup {x} /\ UNCHANGED sub
    /\ UNCHANGED <<queueVars, mStarted, mStopped, ctl, wpc, cur, finished>>

SubmitPush(s) ==
    /\ sub[s] # NoTask
    /\ M_tasks!Accept(sub[s])
    /\ sub' = [sub EXCEPT ![s] = NoTask]
    /\ UNCHANGED <<mStarted, mStopped, ctl, wpc, cur, finished, refused>>

\* push() threw: logic_error "ThreadPool is stopped".
SubmitThrow(s) ==
    /\ sub[s] # NoTask
    /\ closed
    /\ refused' = refused \cup {sub[s]}
    /\ sub' = [sub EXCEPT ![s] = NoTask]
    /\ UNCHANGED <<queueVars, mStarted, mStopped, ctl, wpc, cur, finished>>

-----------------------------------------------------------------------------
\* workerLoop().  popFor(200) returning nullopt only repeats the loop.

\* Mutant: reads the task without removing it.
WorkerPeek(w) ==
    /\ wpc[w] = "pop"
    /\ tasks # <<>>
    /\ begun' = Append(begun, Head(tasks))
    /\ cur' = [cur EXCEPT ![w] = Head(tasks)]
    /\ wpc' = [wpc EXCEPT ![w] = "run"]
    /\ UNCHANGED <<tasks, closed, accepted, mStarted, mStopped, ctl, sub, finished, refused>>

WorkerPop(w) ==
    /\ wpc[w] = "pop"
    /\ M_tasks!Deliver
    /\ cur' = [cur EXCEPT ![w] = Head(tasks)]
    /\ wpc' = [wpc EXCEPT ![w] = "run"]
    /\ UNCHANGED <<mStarted, mStopped, ctl, sub, finished, refused>>

\* The callable returns (or throws into its packaged_task).
WorkerDone(w) ==
    /\ wpc[w] = "run"
    /\ sub[w] = NoTask
    /\ finished' = finished \cup {cur[w]}
    /\ cur' = [cur EXCEPT ![w] = NoTask]
    /\ wpc' = [wpc EXCEPT ![w] = "pop"]
    /\ UNCHANGED <<queueVars, mStarted, mStopped, ctl, sub, refused>>

\* Mutant: leaves as soon as the queue is stopped, whatever it still holds.
WorkerExitEager(w) ==
    /\ wpc[w] = "pop"
    /\ closed
    /\ wpc' = [wpc EXCEPT ![w] = "exited"]
    /\ UNCHANGED <<queueVars, mStarted, mStopped, ctl, cur, sub, finished, refused>>

\* popFor threw: the queue is stopped and empty.
WorkerExit(w) ==
    /\ wpc[w] = "pop"
    /\ closed /\ tasks = <<>>
    /\ wpc' = [wpc EXCEPT ![w] = "exited"]
    /\ UNCHANGED <<queueVars, mStarted, mStopped, ctl, cur, sub, finished, refused>>

-----------------------------------------------------------------------------
ControllerStep(c) == StartOpen(c) \/ StartWorker(c) \/ StopClose(c) \/ StopJoin(c)
ControllerCall(c) == StartClaim(c) \/ StartFail(c) \/ StopCall(c) \/ StopEarly(c)
SubmitStep(s) == SubmitPush(s) \/ SubmitThrow(s)
WorkerStep(w) == WorkerPop(w) \/ WorkerDone(w) \/ WorkerExit(w)

Next ==
    \/ \E c \in Controller : ControllerCall(c) \/ ControllerStep(c)
    \/ \E s \in Submitter : SubmitStep(s) \/ \E x \in Task : SubmitCheck(s, x)
    \/ \E w \in Worker : WorkerStep(w)

Spec == Init /\ [][Next]_vars

\* Running threads keep running and every task returns.
FairSpec ==
    /\ Spec
    /\ \A c \in Controller : WF_vars(ControllerStep(c))
    /\ \A s \in Submitter : WF_vars(SubmitStep(s))
    /\ \A w \in Worker : WF_vars(WorkerStep(w))

-----------------------------------------------------------------------------
Running == {w \in Worker : wpc[w] = "run"}

TypeOK ==
    /\ tasks \in Seq(Task) /\ accepted \in Seq(Task) /\ begun \in Seq(Task)
    /\ closed \in BOOLEAN /\ mStarted \in BOOLEAN /\ mStopped \in BOOLEAN
    /\ ctl \in [Controller -> {"idle", "open", "spawn", "close", "join", "stopped"}]
    /\ wpc \in [Worker -> {"none", "pop", "run", "exited"}]
    /\ cur \in [Worker -> Task \cup {NoTask}]
    /\ \A w \in Worker : (wpc[w] = "run") <=> (cur[w] # NoTask)
    /\ sub \in [Submitter -> Task \cup {NoTask}]
    /\ finished \subseteq Task /\ refused \subseteq Task

\* Every accepted task is run by exactly one worker, in the order of acceptance,
\* and a task whose submit() threw is run by none: whatever the interleaving of
\* submit(), stop() and the workers.
ExactlyOnce ==
    /\ accepted = begun \o tasks
    /\ \A i, j \in DOMAIN accepted : accepted[i] = accepted[j] => i = j
    /\ \A i \in DOMAIN begun :
          \/ begun[i] \in finished /\ \A w \in Running : cur[w] # begun[i]
          \/ begun[i] \notin finished /\ \E w \in Running : cur[w] = begun[i]
    /\ \A v, w \in Running : cur[v] = cur[w] => v = w
    /\ \A x \in refused : x \notin finished /\ \A i \in DOMAIN accepted : accepted[i] # x

\* When the stop() that won the exchange has returned, every task accepted so far
\* has been run to its end, also those whose submit() raced with stop(); the
\* exception is a pool whose start() failed before its first thread existed.
StopDrains ==
    ((\E c \in Controller : ctl[c] = "stopped") /\ (\E w \in Worker : wpc[w] # "none"))
        => /\ tasks = <<>>
           /\ \A i \in DOMAIN accepted : accepted[i] \in finished

\* Every accepted task is eventually run, stop() or not, once a worker exists; and
\* the stop() that won the exchange returns, with every worker gone.
TasksAndStopEnd ==
    /\ \A x \in Task :
          ((\E i \in DOMAIN accepted : accepted[i] = x) /\ (\E w \in Worker : wpc[w] # "none"))
              ~> x \in finished
    /\ \A c \in Controller :
          ctl[c] = "close" ~> (ctl[c] = "stopped" /\ \A w \in Worker : wpc[w] \in {"none", "exited"})

=============================================================================
