--------------------------- MODULE SerialExecutor ---------------------------
(***************************************************************************)
(* thread::SerialExecutor: runs its tasks one at a time on a shared        *)
(* ThreadPool.  There is no lock around the whole: submit() pushes into a  *)
(* BlockingQueue and then tries to claim m_running; the claimer submits a  *)
(* drain() job to the pool; drain() empties the queue, gives m_running     *)
(* back and looks at the queue once more.                                  *)
(*                                                                         *)
(* The pool appears as ThreadPool.tla shows it to a user: a drain job it   *)
(* accepted is run once by some worker, and from some moment on (stop())   *)
(* it accepts none.  The task queue is BoundedQueue.                       *)
(***************************************************************************)
EXTENDS Naturals, Sequences

CONSTANTS Worker,     \* the pool's threads
          Client,     \* other threads calling submit
          Task,       \* the tasks submitted; each is submitted once
          NoTask,
          Capacity,   \* queueCapacity; 0 is "unbounded"
          Reentrant   \* may a running task submit to its own executor?

ASSUME SerialAssumption ==
    /\ NoTask \notin Task
    /\ Capacity \in Nat
    /\ Reentrant \in BOOLEAN
    /\ Worker \cap Client = {}

VARIABLES tasks, closed,      \* m_tasks: its content and its m_stopped
          accepted,           \* history: tasks pushed, in order
          begun,              \* history: tasks popped by drain(), in order
          mStarted, mStopped, \* m_started, m_stopped
          mRunning,           \* m_running
          startPc, stopPc,    \* where start() and the first stop() are
          poolOpen,           \* the pool accepts jobs
          poolJobs,           \* drain() jobs accepted by the pool, not yet run
          pc,                 \* where each thread is
          arg,                \* the task a submitting thread holds
          cur,                \* the task a worker is running
          ran                 \* history: tasks that have been run, in order

vars == <<tasks, closed, accepted, begun, mStarted, mStopped, mRunning, startPc,
          stopPc, poolOpen, poolJobs, pc, arg, cur, ran>>

queueVars == <<tasks, closed, accepted, begun>>
flagVars == <<mStarted, mStopped, startPc, stopPc, poolOpen>>

Thread == Worker \cup Client

M_tasks == INSTANCE BoundedQueue
           WITH Item <- Task, queue <- tasks, stopped <- closed, delivered <- begun

\* Where a thread that leaves submit() or schedule() goes on: a running task
\* that called submit() goes on running.
Return(t) == IF t \in Worker /\ cur[t] # NoTask THEN "run" ELSE "idle"

Fresh(x) == /\ \A t \in Thread : arg[t] # x
            /\ \A i \in DOMAIN accepted : accepted[i] # x

Init ==
    /\ M_tasks!QInit
    /\ mStarted = FALSE /\ mStopped = FALSE /\ mRunning = FALSE
    /\ startPc = "idle" /\ stopPc = "idle"
    /\ poolOpen = TRUE
    /\ poolJobs = 0
    /\ pc = [t \in Thread |-> "idle"]
    /\ arg = [t \in Thread |-> NoTask]
    /\ cur = [w \in Worker |-> NoTask]
    /\ ran = <<>>

-----------------------------------------------------------------------------
\* start() and stop() by some owner; pool.stop() by the pool's.

StartClaim ==
    /\ startPc = "idle" /\ ~mStarted
    /\ mStarted' = TRUE
    /\ startPc' = "store"
    /\ UNCHANGED <<queueVars, mStopped, mRunning, stopPc, poolOpen, poolJobs, pc, arg, cur, ran>>

StartStore ==
    /\ startPc = "store"
    /\ mStopped' = FALSE
    /\ startPc' = "done"
    /\ UNCHANGED <<queueVars, mStarted, mRunning, stopPc, poolOpen, poolJobs, pc, arg, cur, ran>>

\* m_stopped starts out FALSE, so a stop() before start() wins the exchange too.
StopClaim ==
    /\ stopPc = "idle" /\ ~mStopped
    /\ mStopped' = TRUE
    /\ stopPc' = "close"
    /\ UNCHANGED <<queueVars, mStarted, mRunning, startPc, poolOpen, poolJobs, pc, arg, cur, ran>>

StopClose ==
    /\ stopPc = "close"
    /\ M_tasks!Close
    /\ stopPc' = "done"
    /\ UNCHANGED <<mStarted, mStopped, mRunning, startPc, poolOpen, poolJobs, pc, arg, cur, ran>>

PoolStop ==
    /\ poolOpen
    /\ poolOpen' = FALSE
    /\ UNCHANGED <<queueVars, mStarted, mStopped, mRunning, startPc, stopPc, poolJobs, pc, arg, cur, ran>>

-----------------------------------------------------------------------------
\* submit()

MaySubmit(t) == IF t \in Client THEN pc[t] = "idle" ELSE Reentrant /\ pc[t] = "run"

\* The started() test passes; when it fails submit() throws and nothing changes.
SubmitCheck(t, x) ==
    /\ MaySubmit(t)
    /\ Fresh(x)
    /\ mStarted /\ ~mStopped
    /\ pc' = [pc EXCEPT ![t] = "push"]
    /\ arg' = [arg EXCEPT ![t] = x]
    /\ UNCHANGED <<queueVars, flagVars, mRunning, poolJobs, cur, ran>>

\* Mutant: submit() only pushes.
SubmitPushOnly(t) ==
    /\ pc[t] = "push"
    /\ M_tasks!Accept(arg[t])
    /\ pc' = [pc EXCEPT ![t] = Return(t)]
    /\ arg' = [arg EXCEPT ![t] = NoTask]
    /\ UNCHANGED <<flagVars, mRunning, poolJobs, cur, ran>>

SubmitPush(t) ==
    /\ pc[t] = "push"
    /\ M_tasks!Accept(arg[t])
    /\ pc' = [pc EXCEPT ![t] = "schedule"]
    /\ arg' = [arg EXCEPT ![t] = NoTask]
    /\ UNCHANGED <<flagVars, mRunning, poolJobs, cur, ran>>

SubmitThrow(t) ==
    /\ pc[t] = "push"
    /\ closed
    /\ pc' = [pc EXCEPT ![t] = Return(t)]
    /\ arg' = [arg EXCEPT ![t] = NoTask]
    /\ UNCHANGED <<queueVars, flagVars, mRunning, poolJobs, cur, ran>>

-----------------------------------------------------------------------------
\* schedule()

\* Mutant: test and set of m_running without an atomic exchange.
ScheduleClaimAlways(t) ==
    /\ pc[t] = "schedule"
    /\ mRunning' = TRUE
    /\ pc' = [pc EXCEPT ![t] = "poolSubmit"]
    /\ UNCHANGED <<queueVars, flagVars, poolJobs, arg, cur, ran>>

ScheduleClaim(t) ==
    /\ pc[t] = "schedule"
    /\ mRunning' = TRUE
    /\ pc' = [pc EXCEPT ![t] = IF mRunning THEN Return(t) ELSE "poolSubmit"]
    /\ UNCHANGED <<queueVars, flagVars, poolJobs, arg, cur, ran>>

PoolSubmit(t) ==
    /\ pc[t] = "poolSubmit"
    /\ poolOpen
    /\ poolJobs' = poolJobs + 1
    /\ pc' = [pc EXCEPT ![t] = Return(t)]
    /\ UNCHANGED <<queueVars, flagVars, mRunning, arg, cur, ran>>

\* The pool threw: give m_running back and rethrow, to the caller of submit() or,
\* from drain(), into the packaged_task of the job, which nobody looks at.
PoolRefuse(t) ==
    /\ pc[t] = "poolSubmit"
    /\ ~poolOpen
    /\ mRunning' = FALSE
    /\ pc' = [pc EXCEPT ![t] = Return(t)]
    /\ UNCHANGED <<queueVars, flagVars, poolJobs, arg, cur, ran>>

-----------------------------------------------------------------------------
\* drain(), on a worker of the pool

DrainBegin(w) ==
    /\ pc[w] = "idle"
    /\ poolJobs > 0
    /\ poolJobs' = poolJobs - 1
    /\ pc' = [pc EXCEPT ![w] = "tryPop"]
    /\ UNCHANGED <<queueVars, flagVars, mRunning, arg, cur, ran>>

DrainPop(w) ==
    /\ pc[w] = "tryPop"
    /\ M_tasks!Deliver
    /\ cur' = [cur EXCEPT ![w] = Head(tasks)]
    /\ pc' = [pc EXCEPT ![w] = "run"]
    /\ UNCHANGED <<flagVars, mRunning, poolJobs, arg, ran>>

DrainRan(w) ==
    /\ pc[w] = "run"
    /\ ran' = Append(ran, cur[w])
    /\ cur' = [cur EXCEPT ![w] = NoTask]
    /\ pc' = [pc EXCEPT ![w] = "tryPop"]
    /\ UNCHANGED <<queueVars, flagVars, mRunning, poolJobs, arg>>

DrainEmpty(w) ==
    /\ pc[w] = "tryPop"
    /\ tasks = <<>>
    /\ pc' = [pc EXCEPT ![w] = "release"]
    /\ UNCHANGED <<queueVars, flagVars, mRunning, poolJobs, arg, cur, ran>>

\* Mutant: returns without the second look.
DrainReleaseBlindly(w) ==
    /\ pc[w] = "release"
    /\ mRunning' = FALSE
    /\ pc' = [pc EXCEPT ![w] = "idle"]
    /\ UNCHANGED <<queueVars, flagVars, poolJobs, arg, cur, ran>>

\* m_running.store(false)
DrainRelease(w) ==
    /\ pc[w] = "release"
    /\ mRunning' = FALSE
    /\ pc' = [pc EXCEPT ![w] = "recheck"]
    /\ UNCHANGED <<queueVars, flagVars, poolJobs, arg, cur, ran>>

\* !m_tasks.empty(), then !m_stopped: two loads.
DrainRecheck(w) ==
    /\ pc[w] = "recheck"
    /\ pc' = [pc EXCEPT ![w] = IF tasks = <<>> THEN "idle" ELSE "recheckStopped"]
    /\ UNCHANGED <<queueVars, flagVars, mRunning, poolJobs, arg, cur, ran>>

DrainRecheckStopped(w) ==
    /\ pc[w] = "recheckStopped"
    /\ pc' = [pc EXCEPT ![w] = IF mStopped THEN "idle" ELSE "schedule"]
    /\ UNCHANGED <<queueVars, flagVars, mRunning, poolJobs, arg, cur, ran>>

-----------------------------------------------------------------------------
SubmitStep(t) == SubmitPush(t) \/ SubmitThrow(t) \/ ScheduleClaim(t) \/ PoolSubmit(t) \/ PoolRefuse(t)

DrainStep(w) ==
    \/ DrainBegin(w) \/ DrainPop(w) \/ DrainRan(w) \/ DrainEmpty(w)
    \/ DrainRelease(w) \/ DrainRecheck(w) \/ DrainRecheckStopped(w)

OwnerStep == StartStore \/ StopClose
OwnerCall == StartClaim \/ StopClaim \/ PoolStop

Next ==
    \/ OwnerCall \/ OwnerStep
    \/ \E t \in Thread : SubmitStep(t) \/ \E x \in Task : SubmitCheck(t, x)
    \/ \E w \in Worker : DrainStep(w)

Spec == Init /\ [][Next]_vars

\* Threads keep running, every task returns, and the pool runs the job it took.
FairSpec ==
    /\ Spec
    /\ WF_vars(OwnerStep)
    /\ \A t \in Thread : WF_vars(SubmitStep(t))
    /\ \A w \in Worker : WF_vars(DrainStep(w))

-----------------------------------------------------------------------------
TypeOK ==
    /\ tasks \in Seq(Task) /\ accepted \in Seq(Task) /\ begun \in Seq(Task)
    /\ ran \in Seq(Task)
    /\ closed \in BOOLEAN /\ mStarted \in BOOLEAN /\ mStopped \in BOOLEAN
    /\ mRunning \in BOOLEAN /\ poolOpen \in BOOLEAN
    /\ startPc \in {"idle", "store", "done"} /\ stopPc \in {"idle", "close", "done"}
    /\ poolJobs \in Nat
    /\ pc \in [Thread -> {"idle", "push", "schedule", "poolSubmit", "tryPop", "run",
                          "release", "recheck", "recheckStopped"}]
    /\ arg \in [Thread -> Task \cup {NoTask}]
    /\ cur \in [Worker -> Task \cup {NoTask}]
    /\ \A w \in Worker : pc[w] = "run" => cur[w] # NoTask

\* At most one worker runs a task of the executor at any time, although only an
\* atomic flag that travels from submit() through the pool to drain() guards it.
OneAtATime ==
    \A v, w \in Worker : cur[v] # NoTask /\ cur[w] # NoTask => v = w

\* The right to drain is unique: m_running is set exactly when one thread or one
\* pool job holds it.
Holder(t) == \/ pc[t] \in {"poolSubmit", "tryPop", "release"}
             \/ t \in Worker /\ cur[t] # NoTask
UniqueDrainer ==
    /\ mRunning <=> (poolJobs > 0 \/ \E t \in Thread : Holder(t))
    /\ poolJobs > 0 => poolJobs = 1 /\ \A t \in Thread : ~Holder(t)
    /\ \A s, t \in Thread : Holder(s) /\ Holder(t) => s = t

\* While neither stop() nor the pool's stop() has been called, a queued task is
\* never stranded: either a drain is under way or a thread is about to start one.
NoStrandedTask ==
    (stopPc = "idle" /\ poolOpen /\ tasks # <<>>) =>
        \/ mRunning
        \/ \E t \in Thread : pc[t] \in {"schedule", "recheck", "recheckStopped"}

\* The executor implements SerialQueue.
CurrentTask == IF \E w \in Worker : cur[w] # NoTask
               THEN cur[CHOOSE w \in Worker : cur[w] # NoTask] ELSE NoTask
S == INSTANCE SerialQueue WITH pending <- tasks, running <- CurrentTask
RefinesSerialQueue == S!SSpec

\* Every accepted task is eventually run unless stop() or the pool's stop() is
\* called; the thread that ran an earlier task may have to schedule it.
AcceptedTasksRun ==
    \A x \in Task :
        (\E i \in DOMAIN accepted : accepted[i] = x) ~>
            ((\E i \in DOMAIN ran : ran[i] = x) \/ stopPc # "idle" \/ ~poolOpen)

=============================================================================
