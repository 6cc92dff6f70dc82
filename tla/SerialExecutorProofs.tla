------------------------ MODULE SerialExecutorProofs ------------------------
(***************************************************************************)
(* Safety of SerialExecutor, and that it implements SerialQueue, for any   *)
(* number of pool workers, clients and tasks and any queue capacity.       *)
(***************************************************************************)
EXTENDS SerialExecutor, TLAPS

USE DEF M_tasks!qvars, M_tasks!QInit, M_tasks!HasRoom, M_tasks!Accept,
        M_tasks!Deliver, M_tasks!Close, queueVars, flagVars

\* Which places a client and a worker with or without a task can be at.
Places ==
    /\ \A c \in Client : pc[c] \in {"idle", "push", "schedule", "poolSubmit"}
    /\ \A w \in Worker :
          /\ pc[w] \in {"run", "push"} => cur[w] # NoTask
          /\ cur[w] # NoTask => pc[w] \in {"run", "push", "schedule"}
    /\ \A t \in Thread : pc[t] = "push" => arg[t] # NoTask
    /\ stopPc = "idle" => ~mStopped

SerialInv == TypeOK /\ Places /\ UniqueDrainer

\* Every operation leaves every variable in its type.
LEMMA TypeStep == ASSUME SerialInv, [Next]_vars PROVE TypeOK'
<1> USE DEF SerialInv, TypeOK, Thread, Return
<1>1. CASE UNCHANGED vars
  BY <1>1 DEF vars
<1>2. CASE OwnerCall
  BY <1>2 DEF OwnerCall, StartClaim, StopClaim, PoolStop
<1>3. CASE OwnerStep
  BY <1>3 DEF OwnerStep, StartStore, StopClose
<1>4. ASSUME NEW t \in Thread, NEW x \in Task, SubmitCheck(t, x) PROVE TypeOK'
  BY <1>4 DEF SubmitCheck
<1>5. ASSUME NEW t \in Thread, SubmitPush(t) PROVE TypeOK'
  <2>1. arg[t] \in Task
    BY <1>5 DEF SubmitPush, Places
  <2>2. QED
    BY <1>5, <2>1 DEF SubmitPush
<1>6. ASSUME NEW t \in Thread, SubmitThrow(t) PROVE TypeOK'
  BY <1>6 DEF SubmitThrow
<1>7. ASSUME NEW t \in Thread, ScheduleClaim(t) PROVE TypeOK'
  BY <1>7 DEF ScheduleClaim
<1>8. ASSUME NEW t \in Thread, PoolSubmit(t) PROVE TypeOK'
  BY <1>8 DEF PoolSubmit
<1>9. ASSUME NEW t \in Thread, PoolRefuse(t) PROVE TypeOK'
  BY <1>9 DEF PoolRefuse
<1>10. ASSUME NEW w \in Worker, DrainBegin(w) PROVE TypeOK'
  BY <1>10 DEF DrainBegin
<1>11. ASSUME NEW w \in Worker, DrainPop(w) PROVE TypeOK'
  <2>1. Head(tasks) \in Task /\ Head(tasks) # NoTask
    BY <1>11, SerialAssumption DEF DrainPop
  <2>2. QED
    BY <1>11, <2>1 DEF DrainPop
<1>12. ASSUME NEW w \in Worker, DrainRan(w) PROVE TypeOK'
  <2>1. cur[w] \in Task
    BY <1>12 DEF DrainRan
  <2>2. QED
    BY <1>12, <2>1 DEF DrainRan
<1>13. ASSUME NEW w \in Worker, DrainEmpty(w) \/ DrainRecheck(w) \/ DrainRecheckStopped(w)
       PROVE  TypeOK'
  BY <1>13 DEF DrainEmpty, DrainRecheck, DrainRecheckStopped
<1>14. ASSUME NEW w \in Worker, DrainRelease(w) PROVE TypeOK'
  BY <1>14 DEF DrainRelease
<1>15. QED
  BY <1>1, <1>2, <1>3, <1>4, <1>5, <1>6, <1>7, <1>8, <1>9, <1>10, <1>11, <1>12, <1>13, <1>14
     DEF Next, SubmitStep, DrainStep

\* A worker running a task of the executor only leaves it to submit.
LEMMA PlacesStep == ASSUME SerialInv, [Next]_vars PROVE Places'
<1> USE DEF SerialInv, TypeOK, Thread, Return, Places
<1>1. CASE UNCHANGED vars
  BY <1>1 DEF vars
<1>2. CASE OwnerCall
  BY <1>2 DEF OwnerCall, StartClaim, StopClaim, PoolStop
<1>3. CASE OwnerStep
  BY <1>3 DEF OwnerStep, StartStore, StopClose
<1>4. ASSUME NEW t \in Thread, NEW x \in Task, SubmitCheck(t, x) PROVE Places'
  BY <1>4, SerialAssumption DEF SubmitCheck, MaySubmit
<1>5. ASSUME NEW t \in Thread, SubmitPush(t) PROVE Places'
  BY <1>5 DEF SubmitPush
<1>6. ASSUME NEW t \in Thread, SubmitThrow(t) PROVE Places'
  BY <1>6, SerialAssumption DEF SubmitThrow
<1>7. ASSUME NEW t \in Thread, ScheduleClaim(t) PROVE Places'
  <2>1. t \in Worker /\ cur[t] # NoTask => mRunning
    BY DEF UniqueDrainer, Holder
  <2>2. QED
    BY <1>7, <2>1, SerialAssumption DEF ScheduleClaim
<1>8. ASSUME NEW t \in Thread, PoolSubmit(t) PROVE Places'
  BY <1>8, SerialAssumption DEF PoolSubmit
<1>9. ASSUME NEW t \in Thread, PoolRefuse(t) PROVE Places'
  BY <1>9, SerialAssumption DEF PoolRefuse
<1>10. ASSUME NEW w \in Worker, DrainBegin(w) PROVE Places'
  BY <1>10, SerialAssumption DEF DrainBegin
<1>11. ASSUME NEW w \in Worker, DrainPop(w) PROVE Places'
  <2>1. Head(tasks) # NoTask
    BY <1>11, SerialAssumption DEF DrainPop
  <2>2. QED
    BY <1>11, <2>1, SerialAssumption DEF DrainPop
<1>12. ASSUME NEW w \in Worker, DrainRan(w) PROVE Places'
  BY <1>12, SerialAssumption DEF DrainRan
<1>13. ASSUME NEW w \in Worker, DrainEmpty(w) \/ DrainRecheck(w) \/ DrainRecheckStopped(w)
       PROVE  Places'
  <2>1. CASE DrainEmpty(w)
    BY <2>1, SerialAssumption DEF DrainEmpty
  <2>2. CASE DrainRecheck(w)
    BY <2>2, SerialAssumption DEF DrainRecheck
  <2>3. CASE DrainRecheckStopped(w)
    BY <2>3, SerialAssumption DEF DrainRecheckStopped
  <2>4. QED
    BY <1>13, <2>1, <2>2, <2>3
<1>14. ASSUME NEW w \in Worker, DrainRelease(w) PROVE Places'
  BY <1>14, SerialAssumption, SMTT(30) DEF DrainRelease
<1>15. QED
  BY <1>1, <1>2, <1>3, <1>4, <1>5, <1>6, <1>7, <1>8, <1>9, <1>10, <1>11, <1>12, <1>13, <1>14
     DEF Next, SubmitStep, DrainStep

\* m_running and its holder change hands together.
LEMMA DrainerStep == ASSUME SerialInv, [Next]_vars PROVE UniqueDrainer'
<1> USE DEF SerialInv, TypeOK, Thread, Return, Places, UniqueDrainer, Holder
<1>1. CASE UNCHANGED <<mRunning, poolJobs, pc, cur>>
  BY <1>1
<1>4. ASSUME NEW t \in Thread, NEW x \in Task, SubmitCheck(t, x) PROVE UniqueDrainer'
  BY <1>4, SerialAssumption DEF SubmitCheck, MaySubmit
<1>5. ASSUME NEW t \in Thread, SubmitPush(t) PROVE UniqueDrainer'
  BY <1>5 DEF SubmitPush
<1>6. ASSUME NEW t \in Thread, SubmitThrow(t) PROVE UniqueDrainer'
  BY <1>6, SerialAssumption DEF SubmitThrow
<1>7. ASSUME NEW t \in Thread, ScheduleClaim(t) PROVE UniqueDrainer'
  <2>1. CASE mRunning
    <3>1. \A s \in Thread : Holder(s)' <=> Holder(s)
      BY <1>7, <2>1, SerialAssumption DEF ScheduleClaim
    <3>2. QED
      BY <1>7, <2>1, <3>1 DEF ScheduleClaim
  <2>2. CASE ~mRunning
    BY <1>7, <2>2 DEF ScheduleClaim
  <2>3. QED
    BY <2>1, <2>2
<1>8. ASSUME NEW t \in Thread, PoolSubmit(t) PROVE UniqueDrainer'
  <2>1. poolJobs' = 1 /\ mRunning' /\ \A s \in Thread : ~Holder(s)'
    BY <1>8, SerialAssumption DEF PoolSubmit
  <2>2. QED
    BY <2>1
<1>9. ASSUME NEW t \in Thread, PoolRefuse(t) PROVE UniqueDrainer'
  <2>1. poolJobs' = 0 /\ mRunning' = FALSE /\ \A s \in Thread : ~Holder(s)'
    BY <1>9, SerialAssumption DEF PoolRefuse
  <2>2. QED
    BY <2>1
<1>10. ASSUME NEW w \in Worker, DrainBegin(w) PROVE UniqueDrainer'
  <2>1. poolJobs' = 0 /\ mRunning' /\ \A s \in Thread : Holder(s)' <=> s = w
    BY <1>10 DEF DrainBegin
  <2>2. QED
    BY <2>1
<1>11. ASSUME NEW w \in Worker, DrainPop(w) \/ DrainRan(w) \/ DrainEmpty(w)
       PROVE  UniqueDrainer'
  <2>1. \A s \in Thread : Holder(s)' <=> Holder(s)
    <3>1. CASE DrainPop(w)
      <4>1. Head(tasks) # NoTask
        BY <3>1, SerialAssumption DEF DrainPop
      <4>2. QED
        BY <3>1, <4>1 DEF DrainPop
    <3>2. CASE DrainRan(w)
      BY <3>2 DEF DrainRan
    <3>3. CASE DrainEmpty(w)
      BY <3>3 DEF DrainEmpty
    <3>4. QED
      BY <1>11, <3>1, <3>2, <3>3
  <2>2. poolJobs' = poolJobs /\ mRunning' = mRunning
    BY <1>11 DEF DrainPop, DrainRan, DrainEmpty
  <2>3. QED
    BY <2>1, <2>2
<1>12. ASSUME NEW w \in Worker, DrainRecheck(w) \/ DrainRecheckStopped(w)
       PROVE  UniqueDrainer'
  BY <1>12 DEF DrainRecheck, DrainRecheckStopped
<1>13. ASSUME NEW w \in Worker, DrainRelease(w) PROVE UniqueDrainer'
  <2>1. poolJobs' = 0 /\ mRunning' = FALSE /\ \A s \in Thread : ~Holder(s)'
    BY <1>13 DEF DrainRelease
  <2>2. QED
    BY <2>1
<1>14. QED
  BY <1>1, <1>4, <1>5, <1>6, <1>7, <1>8, <1>9, <1>10, <1>11, <1>12, <1>13
     DEF Next, SubmitStep, DrainStep, vars, OwnerCall, StartClaim, StopClaim, PoolStop,
         OwnerStep, StartStore, StopClose

\* The inductive invariant.
LEMMA SerialInvariant == Spec => []SerialInv
<1>1. Init => SerialInv
  <2> SUFFICES ASSUME Init PROVE SerialInv
    OBVIOUS
  <2>1. tasks \in Seq(Task) /\ accepted \in Seq(Task) /\ begun \in Seq(Task) /\ ran \in Seq(Task)
    BY DEF Init
  <2>2. /\ closed \in BOOLEAN /\ mStarted \in BOOLEAN /\ mStopped \in BOOLEAN
        /\ mRunning \in BOOLEAN /\ poolOpen \in BOOLEAN
    BY DEF Init
  <2>3. TypeOK
    BY <2>1, <2>2 DEF Init, TypeOK, Thread
  <2>4. Places /\ UniqueDrainer
    BY DEF Init, Places, UniqueDrainer, Holder, Thread
  <2>5. QED
    BY <2>3, <2>4 DEF SerialInv
<1>2. SerialInv /\ [Next]_vars => SerialInv'
  BY TypeStep, PlacesStep, DrainerStep DEF SerialInv
<1>3. QED
  BY <1>1, <1>2, PTL DEF Spec

\* m_running is set exactly while one thread or one pool job has the right to
\* drain, and therefore no two workers ever run tasks of the executor together.
THEOREM SerialOneAtATime == Spec => [](OneAtATime /\ UniqueDrainer)
<1>1. SerialInv => OneAtATime /\ UniqueDrainer
  BY DEF SerialInv, UniqueDrainer, OneAtATime, Holder, Thread
<1>2. QED
  BY <1>1, SerialInvariant, PTL

\* Before any stop, a queued task always has somebody who will run it.
THEOREM SerialNoStrandedTask == Spec => []NoStrandedTask
<1>1. Init => NoStrandedTask
  BY DEF Init, NoStrandedTask
<1>2. ASSUME SerialInv, NoStrandedTask, [Next]_vars PROVE NoStrandedTask'
  <2> USE <1>2 DEF SerialInv, TypeOK, Thread, Return, Places, NoStrandedTask
  <2>1. CASE UNCHANGED vars
    BY <2>1 DEF vars
  <2>2. CASE OwnerCall
    BY <2>2 DEF OwnerCall, StartClaim, StopClaim, PoolStop
  <2>3. CASE OwnerStep
    BY <2>3 DEF OwnerStep, StartStore, StopClose
  <2>4. ASSUME NEW t \in Thread, NEW x \in Task, SubmitCheck(t, x) PROVE NoStrandedTask'
    BY <2>4, SerialAssumption DEF SubmitCheck, MaySubmit
  <2>5. ASSUME NEW t \in Thread, SubmitPush(t) PROVE NoStrandedTask'
    BY <2>5 DEF SubmitPush
  <2>6. ASSUME NEW t \in Thread, SubmitThrow(t) PROVE NoStrandedTask'
    BY <2>6 DEF SubmitThrow
  <2>7. ASSUME NEW t \in Thread, ScheduleClaim(t) PROVE NoStrandedTask'
    BY <2>7 DEF ScheduleClaim
  <2>8. ASSUME NEW t \in Thread, PoolSubmit(t) PROVE NoStrandedTask'
    BY <2>8 DEF PoolSubmit, UniqueDrainer, Holder
  <2>9. ASSUME NEW t \in Thread, PoolRefuse(t) PROVE NoStrandedTask'
    BY <2>9 DEF PoolRefuse
  <2>10. ASSUME NEW w \in Worker, DrainBegin(w) \/ DrainPop(w) \/ DrainRan(w) \/ DrainEmpty(w)
         PROVE  NoStrandedTask'
    <3>1. mRunning
      BY <2>10 DEF DrainBegin, DrainPop, DrainRan, DrainEmpty, UniqueDrainer, Holder
    <3>2. QED
      BY <2>10, <3>1, ZenonT(30) DEF DrainBegin, DrainPop, DrainRan, DrainEmpty
  <2>11. ASSUME NEW w \in Worker, DrainRelease(w) PROVE NoStrandedTask'
    BY <2>11 DEF DrainRelease
  <2>12. ASSUME NEW w \in Worker, DrainRecheck(w) \/ DrainRecheckStopped(w)
         PROVE  NoStrandedTask'
    BY <2>12, ZenonT(30) DEF DrainRecheck, DrainRecheckStopped
  <2>13. QED
    BY <2>1, <2>2, <2>3, <2>4, <2>5, <2>6, <2>7, <2>8, <2>9, <2>10, <2>11, <2>12
       DEF Next, SubmitStep, DrainStep
<1>3. QED
  BY <1>1, <1>2, SerialInvariant, PTL DEF Spec

-----------------------------------------------------------------------------
\* What CurrentTask is, given that at most one worker has a task.
LEMMA CurrentTaskValue ==
    ASSUME OneAtATime, NEW w \in Worker, cur[w] # NoTask PROVE CurrentTask = cur[w]
  BY DEF OneAtATime, CurrentTask

\* The executor implements SerialQueue: submit() is AcceptTask at the moment of
\* its push, drain() begins and ends the tasks one by one.
THEOREM SerialRefinement == Spec => RefinesSerialQueue
<1> USE DEF S!svars
<1>1. Init => S!SInit
  BY SMTT(30) DEF Init, S!SInit, CurrentTask
<1>2. ASSUME SerialInv, SerialInv', [Next]_vars PROVE [S!SNext]_(S!svars)
  <2>0. OneAtATime /\ OneAtATime'
    BY <1>2 DEF SerialInv, UniqueDrainer, OneAtATime, Holder, Thread
  <2>1. CASE UNCHANGED <<tasks, cur, ran>>
    BY <2>1 DEF CurrentTask
  <2>2. ASSUME NEW t \in Thread, SubmitPush(t) PROVE S!SNext
    <3>1. arg[t] \in Task
      BY <1>2, <2>2 DEF SubmitPush, SerialInv, Places, TypeOK
    <3>2. S!AcceptTask(arg[t])
      BY <2>2 DEF SubmitPush, S!AcceptTask, CurrentTask
    <3>3. QED
      BY <3>1, <3>2 DEF S!SNext
  <2>3. ASSUME NEW w \in Worker, DrainPop(w) PROVE S!SNext
    <3>1. Head(tasks) # NoTask /\ cur' = [cur EXCEPT ![w] = Head(tasks)]
      BY <1>2, <2>3, SerialAssumption DEF DrainPop, SerialInv, TypeOK
    <3>2. \A v \in Worker : cur[v] = NoTask
      BY <1>2, <2>3 DEF DrainPop, SerialInv, UniqueDrainer, Holder, Thread, Places
    <3>3. CurrentTask = NoTask
      BY <3>2 DEF CurrentTask
    <3>4. cur'[w] = Head(tasks)
      BY <1>2, <3>1 DEF SerialInv, TypeOK
    <3>5. CurrentTask' = Head(tasks)
      BY <2>0, <3>1, <3>4 DEF CurrentTask, OneAtATime
    <3>6. S!BeginTask
      BY <2>3, <3>3, <3>5 DEF DrainPop, S!BeginTask
    <3>7. QED
      BY <3>6 DEF S!SNext
  <2>4. ASSUME NEW w \in Worker, DrainRan(w) PROVE S!SNext
    <3>1. cur[w] # NoTask /\ cur' = [cur EXCEPT ![w] = NoTask]
      BY <1>2, <2>4 DEF DrainRan, SerialInv, TypeOK
    <3>2. CurrentTask = cur[w]
      BY <2>0, <3>1, CurrentTaskValue
    <3>3. \A v \in Worker : cur'[v] = NoTask
      BY <1>2, <2>0, <3>1 DEF OneAtATime, SerialInv, TypeOK
    <3>4. CurrentTask' = NoTask
      BY <3>3 DEF CurrentTask
    <3>5. S!EndTask
      BY <2>4, <3>1, <3>2, <3>4 DEF DrainRan, S!EndTask
    <3>6. QED
      BY <3>5 DEF S!SNext
  <2>5. QED
    BY <1>2, <2>1, <2>2, <2>3, <2>4, SMTT(30)
       DEF Next, SubmitStep, DrainStep, vars, OwnerCall, StartClaim, StopClaim, PoolStop,
           OwnerStep, StartStore, StopClose, SubmitCheck, SubmitThrow, ScheduleClaim,
           PoolSubmit, PoolRefuse, DrainBegin, DrainEmpty, DrainRelease, DrainRecheck,
           DrainRecheckStopped
<1>3. QED
  BY <1>1, <1>2, SerialInvariant, PTL DEF Spec, RefinesSerialQueue, S!SSpec

=============================================================================
