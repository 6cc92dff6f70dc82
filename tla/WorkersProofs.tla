--------------------------- MODULE WorkersProofs ---------------------------
(***************************************************************************)
(* ThreadPool for every set of workers, clients and tasks and every        *)
(* capacity: a submitted task runs exactly once, and what stop() leaves.   *)
(* AsyncLogger for every set of callers, every capacity and policy and any *)
(* number of calls: what was accepted is written when the worker has left, *)
(* and what flush() promises when it returns.                              *)
(***************************************************************************)
EXTENDS MCWorkers, TLAPS

-----------------------------------------------------------------------------
\* ThreadPool

\* What a pop returns is what was accepted first among what is queued: moving the
\* head of the queue to the end of the delivered items keeps their concatenation.
LEMMA MoveHead ==
    ASSUME NEW S, NEW d \in Seq(S), NEW q \in Seq(S), q # <<>>
    PROVE  Append(d, Head(q)) \o Tail(q) = d \o q
<1>1. Len(Append(d, Head(q)) \o Tail(q)) = Len(d \o q)
  OBVIOUS
<1>2. ASSUME NEW i \in 1..Len(d \o q)
      PROVE  (Append(d, Head(q)) \o Tail(q))[i] = (d \o q)[i]
  OBVIOUS
<1>3. QED
  BY <1>1, <1>2

USE DEF M_tasks!qvars, M_tasks!QInit, M_tasks!HasRoom, M_tasks!Accept,
        M_tasks!Deliver, M_tasks!Close

\* Every operation of the pool leaves every variable in its type.
LEMMA TypeCorrect == Spec => []TypeOK
<1>1. Init => TypeOK
  <2> SUFFICES ASSUME Init PROVE TypeOK
    BY Zenon
  <2>1. tasks \in Seq(Task) /\ accepted \in Seq(Task) /\ begun \in Seq(Task)
    BY DEF Init
  <2>2. closed \in BOOLEAN /\ mStarted \in BOOLEAN /\ mStopped \in BOOLEAN
    BY Zenon DEF Init
  <2>3. QED
    BY <2>1, <2>2, Zenon DEF Init, TypeOK
<1>2. TypeOK /\ [Next]_vars => TypeOK'
  <2> SUFFICES ASSUME TypeOK, [Next]_vars PROVE TypeOK'
    BY Zenon
  <2> USE DEF TypeOK, queueVars, Submitter
  <2>1. CASE UNCHANGED vars
    BY <2>1, Zenon DEF vars
  <2>2. ASSUME NEW c \in Controller, StartClaim(c) PROVE TypeOK'
    BY <2>2, Zenon DEF StartClaim
  <2>3. ASSUME NEW c \in Controller, StartOpen(c) PROVE TypeOK'
    BY <2>3, Zenon DEF StartOpen
  <2>4. ASSUME NEW c \in Controller, StartWorker(c) PROVE TypeOK'
    BY <2>4, Zenon DEF StartWorker
  <2>5. ASSUME NEW c \in Controller, StartFail(c) PROVE TypeOK'
    BY <2>5, Zenon DEF StartFail
  <2>6. ASSUME NEW c \in Controller, StopCall(c) \/ StopEarly(c) PROVE TypeOK'
    BY <2>6, Zenon DEF StopCall, StopEarly, vars
  <2>7. ASSUME NEW c \in Controller, StopClose(c) PROVE TypeOK'
    BY <2>7, Zenon DEF StopClose
  <2>8. ASSUME NEW c \in Controller, StopJoin(c) PROVE TypeOK'
    BY <2>8, Zenon DEF StopJoin
  <2>9. ASSUME NEW s \in Submitter, NEW x \in Task, SubmitCheck(s, x) PROVE TypeOK'
    BY <2>9 DEF SubmitCheck
  <2>10. ASSUME NEW s \in Submitter, SubmitPush(s) PROVE TypeOK'
    BY <2>10 DEF SubmitPush
  <2>11. ASSUME NEW s \in Submitter, SubmitThrow(s) PROVE TypeOK'
    BY <2>11, Zenon DEF SubmitThrow
  <2>12. ASSUME NEW w \in Worker, WorkerPop(w) PROVE TypeOK'
    <3>1. Head(tasks) \in Task /\ Head(tasks) # NoTask
      BY <2>12, PoolAssumption DEF WorkerPop
    <3>2. QED
      BY <2>12, <3>1 DEF WorkerPop
  <2>13. ASSUME NEW w \in Worker, WorkerDone(w) PROVE TypeOK'
    BY <2>13, Zenon DEF WorkerDone
  <2>14. ASSUME NEW w \in Worker, WorkerExit(w) PROVE TypeOK'
    BY <2>14, Zenon DEF WorkerExit
  <2>15. QED
    BY <2>1, <2>2, <2>3, <2>4, <2>5, <2>6, <2>7, <2>8, <2>9, <2>10, <2>11, <2>12, Zenon,
       <2>13, <2>14 DEF Next, ControllerCall, ControllerStep, SubmitStep, WorkerStep
<1>3. QED
  BY <1>1, <1>2, PTL DEF Spec

-----------------------------------------------------------------------------
\* Only one controller runs start(), nobody stops meanwhile, and nothing has
\* happened before it.
Lifecycle ==
    /\ ~mStarted => mStopped /\ \A c \in Controller : ctl[c] = "idle"
    /\ \A c, d \in Controller : ctl[c] \in {"open", "spawn"} /\ c # d => ctl[d] = "idle"

\* What has been reached once m_tasks.stop() ran, once a worker left and once all
\* workers were joined.
Shutdown ==
    /\ \A c \in Controller : ctl[c] \in {"join", "stopped"} => closed
    /\ \A w \in Worker : wpc[w] = "exited" => closed /\ tasks = <<>>
    /\ \A c \in Controller : ctl[c] = "stopped" => \A w \in Worker : wpc[w] \in {"none", "exited"}

\* A task taken from the queue is being run or has been run.
Accounted ==
    /\ accepted = begun \o tasks
    /\ \A i \in DOMAIN begun : begun[i] \in finished
                               \/ \E w \in Worker : wpc[w] = "run" /\ cur[w] = begun[i]

DrainInv == TypeOK /\ Lifecycle /\ Shutdown /\ Accounted

\* The three parts explain StopDrains.
LEMMA DrainInvSuffices == DrainInv => StopDrains
<1> SUFFICES ASSUME DrainInv, NEW c \in Controller, ctl[c] = "stopped",
                    NEW w \in Worker, wpc[w] # "none"
             PROVE  tasks = <<>> /\ \A i \in DOMAIN accepted : accepted[i] \in finished
  BY Zenon DEF StopDrains
<1>1. tasks = <<>> /\ \A v \in Worker : wpc[v] # "run"
  BY Zenon DEF DrainInv, Shutdown, TypeOK
<1>2. accepted = begun
  BY <1>1, SMTT(30) DEF DrainInv, Accounted, TypeOK
<1>3. QED
  BY <1>1, <1>2, Zenon DEF DrainInv, Accounted

\* start() and stop() keep apart.
LEMMA LifecycleStep == ASSUME DrainInv, [Next]_vars PROVE Lifecycle'
<1> USE DEF DrainInv, TypeOK, Lifecycle
<1>1. CASE UNCHANGED <<mStarted, mStopped, ctl>>
  BY <1>1, Zenon
<1>2. ASSUME NEW c \in Controller, StartClaim(c) PROVE Lifecycle'
  BY <1>2 DEF StartClaim
<1>3. ASSUME NEW c \in Controller, StartOpen(c) PROVE Lifecycle'
  BY <1>3 DEF StartOpen
<1>4. ASSUME NEW c \in Controller, StartWorker(c) PROVE Lifecycle'
  BY <1>4 DEF StartWorker
<1>5. ASSUME NEW c \in Controller, StartFail(c) PROVE Lifecycle'
  BY <1>5, Zenon DEF StartFail
<1>6. ASSUME NEW c \in Controller, StopCall(c) PROVE Lifecycle'
  BY <1>6, Zenon DEF StopCall, StartInProgress
<1>7. ASSUME NEW c \in Controller, StopClose(c) PROVE Lifecycle'
  BY <1>7, Zenon DEF StopClose
<1>8. ASSUME NEW c \in Controller, StopJoin(c) PROVE Lifecycle'
  BY <1>8, Zenon DEF StopJoin
<1>9. QED
  BY <1>1, <1>2, <1>3, <1>4, <1>5, <1>6, <1>7, <1>8
     DEF Next, ControllerCall, ControllerStep, SubmitStep, WorkerStep, vars, StopEarly,
         SubmitCheck, SubmitPush, SubmitThrow, WorkerPop, WorkerDone, WorkerExit

\* The shutdown sequence: closed, drained, joined.
LEMMA ShutdownStep == ASSUME DrainInv, [Next]_vars PROVE Shutdown'
<1> USE DEF DrainInv, TypeOK, Shutdown, queueVars
<1>1. CASE UNCHANGED <<tasks, closed, ctl, wpc>>
  BY <1>1, Zenon
<1>2. ASSUME NEW c \in Controller, StartClaim(c) \/ StartOpen(c) \/ StartFail(c) \/ StopCall(c)
      PROVE  Shutdown'
  BY <1>2, SMTT(30) DEF StartClaim, StartOpen, StartFail, StopCall
<1>3. ASSUME NEW c \in Controller, StartWorker(c) PROVE Shutdown'
  <2>1. \A d \in Controller : ctl[d] # "stopped" /\ ctl'[d] # "stopped"
    BY <1>3 DEF StartWorker, Lifecycle
  <2>2. \A d \in Controller : ctl'[d] \notin {"join", "stopped"}
    BY <1>3 DEF StartWorker, Lifecycle
  <2>3. QED
    BY <1>3, <2>1, <2>2, Zenon DEF StartWorker
<1>4. ASSUME NEW c \in Controller, StopClose(c) PROVE Shutdown'
  BY <1>4, Zenon DEF StopClose
<1>5. ASSUME NEW c \in Controller, StopJoin(c) PROVE Shutdown'
  BY <1>5, Zenon DEF StopJoin
<1>6. ASSUME NEW s \in Submitter, SubmitPush(s) PROVE Shutdown'
  BY <1>6, Zenon DEF SubmitPush
<1>7. ASSUME NEW w \in Worker, WorkerPop(w) PROVE Shutdown'
  BY <1>7, Zenon DEF WorkerPop
<1>8. ASSUME NEW w \in Worker, WorkerDone(w) PROVE Shutdown'
  BY <1>8, Zenon DEF WorkerDone
<1>9. ASSUME NEW w \in Worker, WorkerExit(w) PROVE Shutdown'
  BY <1>9, Zenon DEF WorkerExit
<1>10. QED
  BY <1>1, <1>2, <1>3, <1>4, <1>5, <1>6, <1>7, <1>8, <1>9, Zenon
     DEF Next, ControllerCall, ControllerStep, SubmitStep, WorkerStep, vars, StopEarly,
         SubmitCheck, SubmitThrow

\* No task is lost between the queue and its end.
LEMMA AccountedStep == ASSUME DrainInv, [Next]_vars PROVE Accounted'
<1> USE DEF DrainInv, TypeOK, Accounted, queueVars
<1>1. CASE UNCHANGED <<tasks, accepted, begun, finished, wpc, cur>>
  BY <1>1, Zenon
<1>2. ASSUME NEW c \in Controller, StartWorker(c) PROVE Accounted'
  BY <1>2 DEF StartWorker
<1>3. ASSUME NEW s \in Submitter, SubmitPush(s) PROVE Accounted'
  <2>1. sub[s] \in Task
    BY <1>3, Zenon DEF SubmitPush
  <2>2. begun \in Seq(Task) /\ tasks \in Seq(Task)
    BY Zenon
  <2>3. Append(begun \o tasks, sub[s]) = begun \o Append(tasks, sub[s])
    BY ONLY <2>1, <2>2, SMTT(30)
  <2>4. QED
    BY <1>3, <2>3, Zenon DEF SubmitPush
<1>4. ASSUME NEW w \in Worker, WorkerPop(w) PROVE Accounted'
  <2>1. begun \in Seq(Task) /\ tasks \in Seq(Task) /\ tasks # <<>> /\ Head(tasks) \in Task
    BY <1>4 DEF WorkerPop
  <2>2. Append(begun, Head(tasks)) \o Tail(tasks) = begun \o tasks
    BY ONLY <2>1, MoveHead, Zenon
  <2>3. accepted' = begun' \o tasks'
    BY <1>4, <2>2, Zenon DEF WorkerPop
  <2>4. ASSUME NEW i \in DOMAIN begun'
        PROVE  begun'[i] \in finished' \/ \E v \in Worker : wpc'[v] = "run" /\ cur'[v] = begun'[i]
    <3>1. CASE i \in DOMAIN begun
      <4>1. begun'[i] = begun[i]
        BY <1>4, <2>1, <3>1 DEF WorkerPop
      <4>2. QED
        BY <1>4, <3>1, <4>1, Zenon DEF WorkerPop
    <3>2. CASE i \notin DOMAIN begun
      <4>1. begun'[i] = Head(tasks)
        BY <1>4, <2>1, <2>4, <3>2 DEF WorkerPop
      <4>2. QED
        BY <1>4, <4>1 DEF WorkerPop
    <3>3. QED
      BY <3>1, <3>2, Zenon
  <2>5. QED
    BY <2>3, <2>4, Zenon
<1>5. ASSUME NEW w \in Worker, WorkerDone(w) PROVE Accounted'
  BY <1>5, Zenon DEF WorkerDone
<1>6. ASSUME NEW w \in Worker, WorkerExit(w) PROVE Accounted'
  BY <1>6, Zenon DEF WorkerExit
<1>7. QED
  BY <1>1, <1>2, <1>3, <1>4, <1>5, <1>6, Zenon
     DEF Next, ControllerCall, ControllerStep, SubmitStep, WorkerStep, vars, StartClaim,
         StartOpen, StartFail, StopCall, StopEarly, StopClose, StopJoin, SubmitCheck, SubmitThrow

\* The inductive invariant.
LEMMA DrainInvariant == Spec => []DrainInv
<1>1. Init => Lifecycle /\ Shutdown /\ Accounted
  BY DEF Init, Lifecycle, Shutdown, Accounted
<1>2. ASSUME DrainInv, [Next]_vars PROVE (Lifecycle /\ Shutdown /\ Accounted)'
  BY <1>2, LifecycleStep, ShutdownStep, AccountedStep, Zenon
<1>3. QED
  BY <1>1, <1>2, TypeCorrect, PTL DEF Spec, DrainInv

\* When the winning stop() has returned, everything ever accepted has been run.
THEOREM PoolStopDrains == Spec => []StopDrains
<1>1. Spec => []DrainInv
  BY DrainInvariant, ZenonT(30)
<1>2. QED
  BY <1>1, DrainInvSuffices, PTL

-----------------------------------------------------------------------------
\* A task is in at most one of: a submit() under way, the accepted tasks (once),
\* the refused tasks.
Unique ==
    /\ \A i, j \in DOMAIN accepted : accepted[i] = accepted[j] => i = j
    /\ \A s \in Submitter : sub[s] # NoTask =>
          sub[s] \notin refused /\ \A i \in DOMAIN accepted : accepted[i] # sub[s]
    /\ \A r, s \in Submitter : sub[r] # NoTask /\ sub[r] = sub[s] => r = s
    /\ \A x \in refused : \A i \in DOMAIN accepted : accepted[i] # x

\* What runs or has run was taken from the queue, and not both.
Origin ==
    /\ \A x \in finished : \E i \in DOMAIN begun : begun[i] = x
    /\ \A w \in Worker : wpc[w] = "run" =>
          cur[w] \notin finished /\ \E i \in DOMAIN begun : begun[i] = cur[w]
    /\ \A v, w \in Worker : wpc[v] = "run" /\ wpc[w] = "run" /\ cur[v] = cur[w] => v = w

OnceInv == DrainInv /\ Unique /\ Origin

\* submit() introduces a task once.
LEMMA UniqueStep == ASSUME OnceInv, [Next]_vars PROVE Unique'
<1> USE DEF OnceInv, DrainInv, TypeOK, Unique, queueVars
<1>1. CASE UNCHANGED <<accepted, sub, refused>>
  BY <1>1, Zenon
<1>2. ASSUME NEW s \in Submitter, NEW x \in Task, SubmitCheck(s, x) PROVE Unique'
  <2>1. x # NoTask /\ \A r \in Submitter : sub[r] # x
    BY <1>2, PoolAssumption DEF SubmitCheck, Fresh, InSubmit
  <2>2. x \notin refused /\ \A i \in DOMAIN accepted : accepted[i] # x
    BY <1>2, Zenon DEF SubmitCheck, Fresh
  <2>3. CASE sub' = [sub EXCEPT ![s] = x] /\ refused' = refused /\ accepted' = accepted
    BY <2>1, <2>2, <2>3
  <2>4. CASE sub' = sub /\ refused' = refused \cup {x} /\ accepted' = accepted
    BY <2>1, <2>2, <2>4, Zenon
  <2>5. QED
    BY <1>2, <2>3, <2>4, Zenon DEF SubmitCheck
<1>3. ASSUME NEW s \in Submitter, SubmitPush(s) PROVE Unique'
  <2>1. /\ DOMAIN accepted' = 1..(Len(accepted) + 1) /\ DOMAIN accepted = 1..Len(accepted)
        /\ accepted'[Len(accepted) + 1] = sub[s]
        /\ \A i \in DOMAIN accepted : accepted'[i] = accepted[i]
        /\ Len(accepted) \in Nat
    BY <1>3 DEF SubmitPush
  <2>2. /\ sub' = [sub EXCEPT ![s] = NoTask] /\ refused' = refused /\ sub[s] # NoTask
    BY <1>3, Zenon DEF SubmitPush
  <2>3. \A i, j \in DOMAIN accepted' : accepted'[i] = accepted'[j] => i = j
    BY <2>1, <2>2
  <2>4. \A r \in Submitter : sub'[r] # NoTask =>
          sub'[r] \notin refused' /\ \A i \in DOMAIN accepted' : accepted'[i] # sub'[r]
    BY <2>1, <2>2, SMTT(30)
  <2>5. \A x \in refused' : \A i \in DOMAIN accepted' : accepted'[i] # x
    <3>1. sub[s] \notin refused
      BY <2>2, Zenon
    <3>2. ASSUME NEW x \in refused, NEW i \in DOMAIN accepted' PROVE accepted'[i] # x
      <4>1. CASE i = Len(accepted) + 1
        BY <2>1, <3>1, <4>1, Zenon
      <4>2. CASE i \in DOMAIN accepted
        BY <2>1, <4>2, Zenon
      <4>3. QED
        BY <2>1, <4>1, <4>2
    <3>3. QED
      BY <2>2, <3>2, Zenon
  <2>6. \A q, r \in Submitter : sub'[q] # NoTask /\ sub'[q] = sub'[r] => q = r
    BY <2>2
  <2>7. QED
    BY <2>3, <2>4, <2>5, <2>6, Zenon
<1>4. ASSUME NEW s \in Submitter, SubmitThrow(s) PROVE Unique'
  BY <1>4 DEF SubmitThrow
<1>5. QED
  BY <1>1, <1>2, <1>3, <1>4
     DEF Next, ControllerCall, ControllerStep, SubmitStep, WorkerStep, vars, StartClaim,
         StartOpen, StartWorker, StartFail, StopCall, StopEarly, StopClose, StopJoin,
         WorkerPop, WorkerDone, WorkerExit

\* The next task a worker takes has not been taken before.
LEMMA HeadIsNew ==
    ASSUME OnceInv, tasks # <<>> PROVE \A i \in DOMAIN begun : begun[i] # Head(tasks)
<1>1. begun \in Seq(Task) /\ tasks \in Seq(Task) /\ accepted = begun \o tasks
  BY Zenon DEF OnceInv, DrainInv, TypeOK, Accounted
<1>2. /\ \A i \in DOMAIN begun : i \in DOMAIN accepted /\ accepted[i] = begun[i] /\ i # Len(begun) + 1
      /\ Len(begun) + 1 \in DOMAIN accepted /\ accepted[Len(begun) + 1] = Head(tasks)
  BY <1>1
<1>3. QED
  BY <1>2, Zenon DEF OnceInv, Unique

\* Taking and finishing a task keep it accounted for once.
LEMMA OriginStep == ASSUME OnceInv, [Next]_vars PROVE Origin'
<1> USE DEF OnceInv, DrainInv, TypeOK, Origin, queueVars
<1>1. CASE UNCHANGED <<begun, finished, wpc, cur>>
  BY <1>1, Zenon
<1>2. ASSUME NEW c \in Controller, StartWorker(c) PROVE Origin'
  BY <1>2 DEF StartWorker
<1>3. ASSUME NEW w \in Worker, WorkerPop(w) PROVE Origin'
  <2>1. \A i \in DOMAIN begun : begun[i] # Head(tasks)
    BY <1>3, HeadIsNew, Zenon DEF WorkerPop
  <2>2. /\ DOMAIN begun' = 1..(Len(begun) + 1) /\ DOMAIN begun = 1..Len(begun)
        /\ begun'[Len(begun) + 1] = Head(tasks)
        /\ \A i \in DOMAIN begun : i \in DOMAIN begun' /\ begun'[i] = begun[i]
        /\ Len(begun) + 1 \in DOMAIN begun'
    <3>1. begun' = Append(begun, Head(tasks)) /\ begun \in Seq(Task)
      BY <1>3, Zenon DEF WorkerPop
    <3>2. tasks \in Seq(Task) /\ tasks # <<>>
      BY <1>3, Zenon DEF WorkerPop
    <3>3. QED
      BY ONLY <3>1, <3>2, SMTT(30)
  <2>3. /\ cur' = [cur EXCEPT ![w] = Head(tasks)]
        /\ wpc' = [wpc EXCEPT ![w] = "run"]
        /\ finished' = finished
    BY <1>3, Zenon DEF WorkerPop
  <2>4. \A x \in finished' : \E i \in DOMAIN begun' : begun'[i] = x
    BY <2>2, <2>3
  <2>5. Head(tasks) \notin finished /\ \A v \in Worker : wpc[v] = "run" => cur[v] # Head(tasks)
    BY <2>1, Zenon
  <2>6. \A v \in Worker : wpc'[v] = "run" =>
          cur'[v] \notin finished' /\ \E i \in DOMAIN begun' : begun'[i] = cur'[v]
    <3> TAKE v \in Worker
    <3>1. CASE v = w
      BY <2>2, <2>3, <2>5, <3>1, Zenon
    <3>2. CASE v # w
      <4>1. wpc'[v] = wpc[v] /\ cur'[v] = cur[v]
        BY <2>3, <3>2, Zenon
      <4>2. ASSUME wpc[v] = "run"
            PROVE  cur[v] \notin finished /\ \E i \in DOMAIN begun : begun[i] = cur[v]
        BY <4>2, Zenon
      <4>3. ASSUME NEW i \in DOMAIN begun PROVE i \in DOMAIN begun' /\ begun'[i] = begun[i]
        BY <2>2, Zenon
      <4>4. QED
        BY ONLY <2>3, <4>1, <4>2, <4>3
    <3>3. QED
      BY <3>1, <3>2, Zenon
  <2>7. \A u, v \in Worker : wpc'[u] = "run" /\ wpc'[v] = "run" /\ cur'[u] = cur'[v] => u = v
    BY <2>3, <2>5
  <2>8. QED
    BY <2>4, <2>6, <2>7, Zenon
<1>4. ASSUME NEW w \in Worker, WorkerDone(w) PROVE Origin'
  BY <1>4 DEF WorkerDone
<1>5. ASSUME NEW w \in Worker, WorkerExit(w) PROVE Origin'
  BY <1>5 DEF WorkerExit
<1>6. QED
  BY <1>1, <1>2, <1>3, <1>4, <1>5, Zenon
     DEF Next, ControllerCall, ControllerStep, SubmitStep, WorkerStep, vars, StartClaim,
         StartOpen, StartFail, StopCall, StopEarly, StopClose, StopJoin, SubmitCheck,
         SubmitPush, SubmitThrow

\* The parts of ExactlyOnce.
LEMMA OnceInvSuffices == OnceInv => ExactlyOnce
<1> SUFFICES ASSUME OnceInv PROVE ExactlyOnce
  BY Zenon
<1> USE DEF OnceInv, DrainInv, TypeOK
<1>1. accepted = begun \o tasks /\ \A i, j \in DOMAIN accepted : accepted[i] = accepted[j] => i = j
  BY Zenon DEF Accounted, Unique
<1>2. \A i \in DOMAIN begun :
          \/ begun[i] \in finished /\ \A w \in Running : cur[w] # begun[i]
          \/ begun[i] \notin finished /\ \E w \in Running : cur[w] = begun[i]
  BY Zenon DEF Accounted, Origin, Running
<1>3. \A v, w \in Running : cur[v] = cur[w] => v = w
  BY Zenon DEF Origin, Running
<1>4. \A i \in DOMAIN begun : i \in DOMAIN accepted /\ accepted[i] = begun[i]
  BY <1>1
<1>5. \A x \in refused : x \notin finished /\ \A i \in DOMAIN accepted : accepted[i] # x
  BY <1>4 DEF Unique, Origin
<1>6. QED
  BY <1>1, <1>2, <1>3, <1>5, Zenon DEF ExactlyOnce

\* Every accepted task is run by exactly one worker in the order of acceptance,
\* and a refused one by none.
THEOREM PoolExactlyOnce == Spec => []ExactlyOnce
<1>1. Init => Unique /\ Origin
  BY DEF Init, Unique, Origin
<1>2. ASSUME OnceInv, [Next]_vars PROVE (Unique /\ Origin)'
  BY <1>2, UniqueStep, OriginStep, Zenon
<1>3. Spec => []OnceInv
  BY <1>1, <1>2, DrainInvariant, PTL DEF Spec, OnceInv
<1>4. QED
  BY <1>3, OnceInvSuffices, PTL


-----------------------------------------------------------------------------
\* AsyncLogger

\* The items of m_queue and the places of the callers and of the worker.
LItem == [seq : Nat, kind : L!Kind]
Calls == {"enqueue", "park", "blocked"}
Waits == {"notify", "flushTest", "flushPark", "flushBlocked"}
LPlace == Calls \cup Waits \cup {"idle", "direct", "stopNotify", "stopFlushNotify", "join"}
Drained == {"test", "park", "blocked", "final", "exited"}

LTypes ==
    /\ queue \in Seq(LItem) /\ batch \in Seq(LItem) /\ queued \in Seq(LItem)
    /\ messages \in Seq(Nat) /\ sink \in Seq(Nat)
    /\ nextSeq \in Nat /\ flushed \in Nat
    /\ pc \in [Thread -> LPlace] /\ item \in [Thread -> LItem] /\ before \in [Thread -> Nat]
    /\ stopping \in BOOLEAN /\ writer \in Drained \cup {"notify", "item", "mark"}

\* The worker holds a batch only while it writes it, and it leaves only when nothing can
\* be accepted any more.
WorkerOk ==
    /\ writer \in Drained => batch = <<>>
    /\ writer = "mark" => batch # <<>>
    /\ writer \in {"final", "exited"} => stopping /\ queue = <<>>
    /\ writer = "exited" => flushed = Len(sink)

\* rank[k] is how many messages there are among the first k accepted items.
Ranks(rank) ==
    /\ rank \in [Nat -> Nat]
    /\ rank[0] = 0 /\ rank[Len(queued)] = Len(messages)
    /\ \A k \in 1..Len(queued) :
          IF queued[k].kind = "log"
          THEN rank[k] = rank[k - 1] + 1 /\ messages[rank[k]] = queued[k].seq
          ELSE rank[k] = rank[k - 1]
    /\ \A j, k \in 0..Len(queued) : j <= k => rank[j] <= rank[k]

\* d of the accepted items are marked, those of the batch and of the queue are left.
Left(d) ==
    /\ Len(queued) = d + Len(batch) + Len(queue)
    /\ \A i \in 1..Len(batch) : queued[d + i] = batch[i]
    /\ \A i \in 1..Len(queue) : queued[d + Len(batch) + i] = queue[i]

\* The first w accepted items are written, and what is flushed covers the flush items
\* among them.
Written(w, rank) ==
    /\ Len(sink) = rank[w] /\ \A i \in 1..Len(sink) : sink[i] = messages[i]
    /\ flushed <= Len(sink)
    /\ \A k \in 1..w : queued[k].kind = "flush" => rank[k] <= flushed

\* The item the worker marks is written already.
W(d) == IF writer = "mark" THEN d + 1 ELSE d

Books(d, rank) ==
    /\ Ranks(rank) /\ Left(d) /\ Written(W(d), rank)
    /\ processed = IF d = 0 THEN 0 ELSE queued[d].seq

\* Every call has a number of its own.
Numbers ==
    /\ \A k \in 1..Len(queued) : queued[k].seq \in 1..nextSeq
    /\ \A j, k \in 1..Len(queued) : queued[j].seq = queued[k].seq => j = k
    /\ \A t \in Thread : pc[t] \in Calls =>
          /\ item[t].seq \in 1..nextSeq
          /\ \A k \in 1..Len(queued) : queued[k].seq # item[t].seq
          /\ \A u \in Thread \ {t} : pc[u] \in Calls => item[u].seq # item[t].seq

\* A caller at p with item x, whose flush() began when b messages were accepted: those
\* come before every item with its number or a later one.
FlushOk(p, x, b, rank) ==
    /\ p \in Calls \cup Waits /\ x.kind = "flush" =>
          /\ b <= Len(messages) /\ x.seq >= 1
          /\ \A k \in 1..Len(queued) : queued[k].seq >= x.seq => b <= rank[k]
    /\ p \in Waits /\ x.kind = "flush" => \E k \in 1..Len(queued) : queued[k] = x
    /\ p \in Waits \ {"notify"} => x.kind = "flush"

Flushes(rank) == \A t \in Thread : FlushOk(pc[t], item[t], before[t], rank)

LogInv ==
    /\ LTypes /\ WorkerOk /\ Numbers
    /\ \E d \in Nat, rank \in [Nat -> Nat] : Books(d, rank) /\ Flushes(rank)

-----------------------------------------------------------------------------
\* Positions in a sequence of n - 1 items, of which d are done, b are in a batch and q
\* in a queue.
LEMMA Positions ==
    ASSUME NEW n \in Nat, NEW d \in Nat, NEW b \in Nat, NEW q \in Nat, n - 1 = d + b + q
    PROVE  /\ d \in 0..(n - 1) /\ (b > 0 => d + 1 \in 0..(n - 1))
           /\ \A i \in 1..(q + 1) : i # q + 1 => i \in 1..q /\ d + b + i \in 1..(n - 1)
OBVIOUS

\* What Head and Tail leave of a sequence that is not empty.
LEMMA NonEmpty ==
    ASSUME NEW S, NEW s \in Seq(S), s # <<>>
    PROVE  /\ Len(s) \in Nat /\ Len(s) > 0 /\ Head(s) = s[1] /\ Head(s) \in S
           /\ Tail(s) \in Seq(S) /\ Len(Tail(s)) \in Nat /\ Len(s) = Len(Tail(s)) + 1
           /\ \A i \in 1..Len(Tail(s)) : Tail(s)[i] = s[i + 1]
OBVIOUS

\* Sequences with the same items are equal.
LEMMA SameItems ==
    ASSUME NEW S, NEW s \in Seq(S), NEW t \in Seq(S), Len(s) = Len(t),
           \A i \in 1..Len(s) : s[i] = t[i]
    PROVE  s = t
<1>1. s = [i \in 1..Len(s) |-> s[i]] /\ t = [i \in 1..Len(t) |-> t[i]]
  OBVIOUS
<1> QED
  BY <1>1, Zenon

\* Sequences that agree up to n begin with the same n items.
LEMMA SameBeginnings ==
    ASSUME NEW S, NEW s \in Seq(S), NEW t \in Seq(S), NEW n \in Nat, n <= Len(s), n <= Len(t),
           \A i \in 1..n : s[i] = t[i]
    PROVE  SubSeq(s, 1, n) = SubSeq(t, 1, n)
<1>1. /\ SubSeq(s, 1, n) \in Seq(S) /\ Len(SubSeq(s, 1, n)) = n
      /\ \A i \in 1..n : SubSeq(s, 1, n)[i] = s[i]
  OBVIOUS
<1>2. /\ SubSeq(t, 1, n) \in Seq(S) /\ Len(SubSeq(t, 1, n)) = n
      /\ \A i \in 1..n : SubSeq(t, 1, n)[i] = t[i]
  OBVIOUS
<1> QED
  BY <1>1, <1>2, SameItems, Zenon

\* LogInv holds when the logger is constructed.
LEMMA LogInvInit == L!Init => LogInv
<1> SUFFICES ASSUME L!Init PROVE LogInv
  BY Zenon
<1>1. LTypes
  <2>1. L!NoCall \in LItem
    BY Zenon DEF LItem, L!NoCall, L!Kind
  <2>2. \A S : <<>> \in Seq(S)
    OBVIOUS
  <2>3. "idle" \in LPlace /\ "test" \in Drained /\ 0 \in Nat
    BY Zenon DEF LPlace, Drained
  <2> QED
    BY <2>1, <2>2, <2>3, Zenon DEF L!Init, LTypes
<1>2. WorkerOk /\ Numbers
  BY DEF L!Init, WorkerOk, Numbers, Calls
<1> DEFINE r == [k \in Nat |-> 0]
<1>3. Ranks(r) /\ Left(0) /\ Written(0, r)
  BY DEF L!Init, Ranks, Left, Written
<1>4. Books(0, r) /\ Flushes(r)
  BY <1>3, Zenon DEF L!Init, Books, W, Flushes, FlushOk, Calls, Waits
<1> QED
  BY <1>1, <1>2, <1>4, Zenon DEF LogInv

\* Caller t moves within its call, or out of it.
Keeps(t) ==
    /\ pc'[t] \in Calls => pc[t] \in Calls
    /\ pc'[t] \in Waits => pc[t] \in Waits
    /\ pc'[t] \in Calls \cup Waits => item'[t] = item[t] /\ before'[t] = before[t]
    /\ pc'[t] \in Waits \ {"notify"} => item[t].kind = "flush"

CallersMove ==
    /\ pc' \in [Thread -> LPlace] /\ item' \in [Thread -> LItem] /\ before' \in [Thread -> Nat]
    /\ \A t \in Thread : Keeps(t)

\* Callers that wait, wake up or return leave the numbers and the flushes in order.
LEMMA CallersKept ==
    ASSUME Numbers, NEW rank, Flushes(rank), CallersMove,
           UNCHANGED <<queued, messages, nextSeq>>
    PROVE  Numbers' /\ Flushes(rank)'
<1>1. Numbers'
  <2>1. ASSUME NEW t \in Thread, pc'[t] \in Calls
        PROVE  /\ item'[t].seq \in 1..nextSeq
               /\ \A k \in 1..Len(queued) : queued[k].seq # item'[t].seq
               /\ \A u \in Thread \ {t} : pc'[u] \in Calls => item'[u].seq # item'[t].seq
    BY <2>1, ZenonT(30) DEF Numbers, CallersMove, Keeps
  <2> QED
    BY <2>1, Zenon DEF Numbers
<1>2. Flushes(rank)'
  <2>1. ASSUME NEW t \in Thread PROVE FlushOk(pc[t], item[t], before[t], rank)'
    <3>1. FlushOk(pc[t], item[t], before[t], rank) /\ Keeps(t)
      BY Zenon DEF Flushes, CallersMove
    <3> QED
      BY <3>1, Zenon DEF FlushOk, Keeps
  <2> QED
    BY <2>1, Zenon DEF Flushes
<1> QED
  BY <1>1, <1>2, Zenon

\* What was written stays written when only sink->flush() is called.
LEMMA BooksKept ==
    ASSUME NEW d \in Nat, NEW rank, Books(d, rank), LTypes,
           UNCHANGED <<queue, batch, queued, messages, sink, processed>>,
           flushed' = flushed \/ flushed' = Len(sink),
           writer' = "mark" <=> writer = "mark"
    PROVE  Books(d, rank)'
<1>1. Ranks(rank)' /\ Left(d)' /\ W(d)' = W(d)
  BY Zenon DEF Books, Ranks, Left, W
<1>2. Written(W(d), rank)'
  <2>1. flushed \in Nat /\ Len(sink) \in Nat /\ flushed <= Len(sink)
    BY DEF LTypes, Books, Written
  <2>2. \A k \in 1..W(d) : queued[k].kind = "flush" => rank[k] \in Nat /\ rank[k] <= flushed'
    <3> TAKE k \in 1..W(d)
    <3> HAVE queued[k].kind = "flush"
    <3>1. rank[k] <= flushed
      BY Zenon DEF Books, Written
    <3>2. k \in Nat /\ rank[k] \in Nat
      BY DEF Books, Ranks, W
    <3> QED
      BY <2>1, <3>1, <3>2
  <2>3. flushed' <= Len(sink)
    BY <2>1
  <2> QED
    BY <1>1, <2>2, <2>3, Zenon DEF Books, Written
<1> QED
  BY <1>1, <1>2, Zenon DEF Books

\* Steps that move callers and the worker, and flush the sinks at most.
LEMMA LogMoves ==
    ASSUME LogInv, CallersMove, WorkerOk',
           UNCHANGED <<queue, batch, queued, messages, sink, processed, nextSeq>>,
           flushed' = flushed \/ flushed' = Len(sink),
           stopping' \in BOOLEAN, writer' \in Drained \cup {"notify", "item", "mark"},
           writer' = "mark" <=> writer = "mark"
    PROVE  LogInv'
<1>1. PICK d \in Nat, rank \in [Nat -> Nat] : Books(d, rank) /\ Flushes(rank)
  BY Zenon DEF LogInv
<1>2. LTypes /\ Numbers
  BY Zenon DEF LogInv
<1>3. LTypes'
  <2>1. flushed' \in Nat
    <3>1. flushed \in Nat /\ sink \in Seq(Nat)
      BY <1>2, Zenon DEF LTypes
    <3>2. Len(sink) \in Nat
      BY ONLY <3>1
    <3> QED
      BY <3>1, <3>2, Zenon
  <2>2. /\ queue' \in Seq(LItem) /\ batch' \in Seq(LItem) /\ queued' \in Seq(LItem)
        /\ messages' \in Seq(Nat) /\ sink' \in Seq(Nat) /\ nextSeq' \in Nat
    BY <1>2, Zenon DEF LTypes
  <2> QED
    BY <2>1, <2>2, Zenon DEF LTypes, CallersMove
<1>4. Numbers' /\ Flushes(rank)'
  BY <1>1, <1>2, CallersKept, Zenon
<1>5. Books(d, rank)'
  BY <1>1, <1>2, BooksKept, Zenon
<1> QED
  BY <1>1, <1>3, <1>4, <1>5, Zenon DEF LogInv

\* log() and flush() take the next number.
LEMMA LogTakesNumber ==
    ASSUME LogInv, NEW t \in Thread, NEW kind \in L!Kind, pc[t] = "idle",
           nextSeq' = nextSeq + 1, pc' = [pc EXCEPT ![t] = "enqueue"],
           item' = [item EXCEPT ![t] = [seq |-> nextSeq + 1, kind |-> kind]],
           before' = [before EXCEPT ![t] = IF kind = "flush" THEN Len(messages) ELSE @],
           UNCHANGED <<queue, stopping, writer, batch, processed, sink, flushed, queued, messages>>
    PROVE  LogInv'
<1>1. PICK d \in Nat, rank \in [Nat -> Nat] : Books(d, rank) /\ Flushes(rank)
  BY Zenon DEF LogInv
<1>2. LTypes /\ Numbers /\ WorkerOk
  BY Zenon DEF LogInv
<1>0. PICK x : x = [seq |-> nextSeq + 1, kind |-> kind]
  BY Zenon
<1>3. x \in LItem /\ x.seq = nextSeq + 1 /\ x.kind = kind /\ Len(messages) \in Nat /\ nextSeq \in Nat
  <2>1. messages \in Seq(Nat) /\ nextSeq \in Nat
    BY <1>2, Zenon DEF LTypes
  <2> QED
    BY <1>0, <2>1 DEF LItem
<1>4. /\ pc'[t] = "enqueue" /\ item'[t] = x
      /\ before'[t] = IF kind = "flush" THEN Len(messages) ELSE before[t]
      /\ \A u \in Thread \ {t} : pc'[u] = pc[u] /\ item'[u] = item[u] /\ before'[u] = before[u]
  BY <1>0, <1>2, Zenon DEF LTypes
<1>5. LTypes'
  <2>1. pc' \in [Thread -> LPlace]
    BY <1>2, Zenon DEF LTypes, LPlace, Calls
  <2>2. item' \in [Thread -> LItem] /\ before' \in [Thread -> Nat]
    BY <1>0, <1>2, <1>3, Zenon DEF LTypes
  <2>3. nextSeq' \in Nat
    BY <1>3
  <2> QED
    BY <1>2, <2>1, <2>2, <2>3, Zenon DEF LTypes
<1>6. Numbers'
  <2>1. 1..nextSeq \subseteq 1..nextSeq' /\ nextSeq + 1 \in 1..nextSeq' /\ nextSeq + 1 \notin 1..nextSeq
    BY <1>3
  <2>2. \A k \in 1..Len(queued) : queued[k].seq \in 1..nextSeq
    BY <1>2, Zenon DEF Numbers
  <2>3. ASSUME NEW u \in Thread, pc'[u] \in Calls
        PROVE  /\ item'[u].seq \in 1..nextSeq'
               /\ \A k \in 1..Len(queued) : queued[k].seq # item'[u].seq
               /\ \A v \in Thread \ {u} : pc'[v] \in Calls => item'[v].seq # item'[u].seq
    <3>0. \A v \in Thread \ {t} : pc'[v] \in Calls =>
              /\ item'[v].seq \in 1..nextSeq
              /\ \A k \in 1..Len(queued) : queued[k].seq # item'[v].seq
              /\ \A w \in Thread \ {t, v} : pc'[w] \in Calls => item'[w].seq # item'[v].seq
      <4> TAKE v \in Thread \ {t}
      <4> HAVE pc'[v] \in Calls
      <4>1. v \in Thread /\ pc[v] \in Calls /\ item'[v] = item[v]
        BY <1>4, Zenon
      <4>2. /\ item[v].seq \in 1..nextSeq
            /\ \A k \in 1..Len(queued) : queued[k].seq # item[v].seq
            /\ \A w \in Thread \ {v} : pc[w] \in Calls => item[w].seq # item[v].seq
        BY <1>2, <4>1, Zenon DEF Numbers
      <4> QED
        BY <1>4, <4>1, <4>2, Zenon
    <3>1. CASE u = t
      <4>1. item'[u].seq = nextSeq + 1
        BY <1>3, <1>4, <3>1, Zenon
      <4> QED
        BY <2>1, <2>2, <3>0, <3>1, <4>1, Zenon
    <3>2. CASE u # t
      <4>1. item'[t].seq = nextSeq + 1
        BY <1>3, <1>4, Zenon
      <4> QED
        BY <2>1, <2>3, <3>0, <3>2, <4>1, Zenon
    <3> QED
      BY <3>1, <3>2, Zenon
  <2> QED
    BY <1>2, <2>1, <2>2, <2>3, Zenon DEF Numbers
<1>7. Flushes(rank)'
  <2>1. ASSUME NEW u \in Thread PROVE FlushOk(pc[u], item[u], before[u], rank)'
    <3>1. CASE u # t
      <4>1. FlushOk(pc[u], item[u], before[u], rank)
        BY <1>1, Zenon DEF Flushes
      <4> QED
        BY <1>4, <3>1, <4>1, Zenon DEF FlushOk
    <3>2. CASE u = t
      <4>1. "enqueue" \notin Waits
        BY Zenon DEF Waits
      <4>2. /\ Len(messages) <= Len(messages) /\ nextSeq + 1 >= 1
            /\ \A a \in 1..nextSeq : ~(a >= nextSeq + 1)
        BY <1>3
      <4>3. \A k \in 1..Len(queued) : ~(queued[k].seq >= nextSeq + 1)
        BY <1>2, <4>2, Zenon DEF Numbers
      <4>4. PICK b : b = before'[t] /\ (kind = "flush" => b = Len(messages))
        BY <1>4, Zenon
      <4>5. FlushOk("enqueue", x, b, rank)'
        BY <1>3, <4>1, <4>2, <4>3, <4>4, Zenon DEF FlushOk
      <4> QED
        BY <1>4, <3>2, <4>4, <4>5, Zenon
    <3> QED
      BY <3>1, <3>2, Zenon
  <2> QED
    BY <2>1, Zenon DEF Flushes
<1>8. Books(d, rank)' /\ WorkerOk'
  <2>1. Books(d, rank)'
    BY <1>1, <1>2, BooksKept, Zenon
  <2> QED
    BY <1>2, <2>1, Zenon DEF WorkerOk
<1> QED
  BY <1>5, <1>6, <1>7, <1>8, Zenon DEF LogInv

\* enqueueItem puts an item into m_queue.
LEMMA LogEnqueues ==
    ASSUME LogInv, NEW t \in Thread, L!Enqueue(t)
    PROVE  LogInv'
<1>1. PICK d \in Nat, rank \in [Nat -> Nat] : Books(d, rank) /\ Flushes(rank)
  BY Zenon DEF LogInv
<1>2. LTypes /\ Numbers /\ WorkerOk
  BY Zenon DEF LogInv
<1>3. PICK x : x = item[t] /\ x \in LItem
  BY <1>2, Zenon DEF LTypes
<1>4. /\ pc[t] = "enqueue" /\ ~stopping /\ queue' = Append(queue, x)
      /\ queued' = Append(queued, x) /\ pc' = [pc EXCEPT ![t] = "notify"]
      /\ messages' = IF x.kind = "log" THEN Append(messages, x.seq) ELSE messages
      /\ UNCHANGED <<nextSeq, stopping, item, before, writer, batch, processed, sink, flushed>>
  BY <1>3, Zenon DEF L!Enqueue, L!worker
<1>5. PICK n \in Nat \ {0} : n = Len(queued) + 1 /\ n - 1 = Len(queued)
  <2>1. queued \in Seq(LItem)
    BY <1>2, Zenon DEF LTypes
  <2> QED
    BY ONLY <2>1
<1>6. /\ queued' \in Seq(LItem) /\ Len(queued') = n /\ queued'[n] = x
      /\ \A k \in 1..(n - 1) : queued'[k] = queued[k]
  <2>0. x \in LItem
    BY <1>3, Zenon
  <2>1. queued \in Seq(LItem)
    BY <1>2, Zenon DEF LTypes
  <2>2. /\ Append(queued, x) \in Seq(LItem) /\ Len(Append(queued, x)) = Len(queued) + 1
        /\ Append(queued, x)[Len(queued) + 1] = x
        /\ \A i \in 1..Len(queued) : Append(queued, x)[i] = queued[i]
    BY ONLY <2>0, <2>1
  <2> QED
    BY <1>4, <1>5, <2>2, Zenon
<1>7. /\ queue' \in Seq(LItem) /\ Len(queue) \in Nat /\ Len(queue') = Len(queue) + 1
      /\ queue'[Len(queue) + 1] = x /\ \A k \in 1..Len(queue) : queue'[k] = queue[k]
  <2>0. x \in LItem
    BY <1>3, Zenon
  <2>1. queue \in Seq(LItem)
    BY <1>2, Zenon DEF LTypes
  <2>2. /\ Append(queue, x) \in Seq(LItem) /\ Len(queue) \in Nat
        /\ Len(Append(queue, x)) = Len(queue) + 1 /\ Append(queue, x)[Len(queue) + 1] = x
        /\ \A i \in 1..Len(queue) : Append(queue, x)[i] = queue[i]
    BY ONLY <2>0, <2>1, SMTT(30)
  <2>3. queue' = Append(queue, x)
    BY <1>4, Zenon
  <2> QED
    BY ONLY <2>2, <2>3, Zenon
<1>8. x.seq \in Nat /\ (x.kind = "log" \/ x.kind = "flush")
  BY <1>3, Zenon DEF LItem, L!Kind
<1>9. PICK m \in Nat :
        /\ m = Len(messages) /\ \A i \in 1..m : messages'[i] = messages[i]
        /\ messages' \in Seq(Nat)
        /\ IF x.kind = "log" THEN Len(messages') = m + 1 /\ messages'[m + 1] = x.seq
                             ELSE Len(messages') = m
  <2>1. messages \in Seq(Nat)
    BY <1>2, Zenon DEF LTypes
  <2>2. Len(messages) \in Nat
    BY ONLY <2>1
  <2>3. /\ Append(messages, x.seq) \in Seq(Nat)
        /\ Len(Append(messages, x.seq)) = Len(messages) + 1
        /\ Append(messages, x.seq)[Len(messages) + 1] = x.seq
        /\ \A i \in 1..Len(messages) : Append(messages, x.seq)[i] = messages[i]
    BY ONLY <1>8, <2>1
  <2>4. CASE x.kind = "log"
    BY <1>4, <2>2, <2>3, <2>4, Zenon
  <2>5. CASE x.kind # "log"
    BY <1>4, <2>1, <2>2, <2>5, Zenon
  <2> QED
    BY <2>4, <2>5, Zenon
<1>10. PICK r \in [Nat -> Nat] :
         /\ r[n] = (IF x.kind = "log" THEN m + 1 ELSE m)
         /\ \A k \in Nat \ {n} : r[k] = rank[k]
  <2> DEFINE f == [rank EXCEPT ![n] = IF x.kind = "log" THEN m + 1 ELSE m]
  <2>1. m + 1 \in Nat
    OBVIOUS
  <2>2. f \in [Nat -> Nat]
    BY <2>1, Zenon
  <2> QED
    BY <2>2, Zenon
<1>11. Ranks(rank) /\ Left(d) /\ Written(W(d), rank)
  BY <1>1, Zenon DEF Books
<1>12. rank[n - 1] = m /\ r[n - 1] = m /\ \A k \in 0..(n - 1) : r[k] = rank[k] /\ rank[k] <= m
  <2>1. /\ rank[Len(queued)] = m
        /\ \A j, k \in 0..Len(queued) : j <= k => rank[j] <= rank[k]
    BY <1>9, <1>11, Zenon DEF Ranks
  <2>2. \A k \in 0..(n - 1) : k \in Nat \ {n} /\ k <= n - 1 /\ n - 1 \in 0..(n - 1)
    OBVIOUS
  <2>3. n - 1 \in Nat \ {n}
    OBVIOUS
  <2> QED
    BY <1>5, <1>10, <2>1, <2>2, <2>3, Zenon
<1>13. Ranks(r)'
  <2>1. r[0] = 0 /\ r[n] = Len(messages')
    <3>1. 0 \in Nat \ {n}
      BY Zenon
    <3> QED
      BY <1>9, <1>10, <1>11, <3>1, Zenon DEF Ranks
  <2>2. ASSUME NEW k \in 1..n
        PROVE  IF queued'[k].kind = "log"
               THEN r[k] = r[k - 1] + 1 /\ messages'[r[k]] = queued'[k].seq
               ELSE r[k] = r[k - 1]
    <3>1. CASE k = n
      BY <1>6, <1>9, <1>10, <1>12, <3>1, Zenon
    <3>2. CASE k # n
      <4>1. k \in 1..(n - 1) /\ k \in 0..(n - 1) /\ k - 1 \in 0..(n - 1)
        BY <3>2
      <4>2. IF queued[k].kind = "log"
            THEN rank[k] = rank[k - 1] + 1 /\ messages[rank[k]] = queued[k].seq
            ELSE rank[k] = rank[k - 1]
        BY <1>5, <1>11, <4>1, Zenon DEF Ranks
      <4>3. queued'[k] = queued[k] /\ r[k] = rank[k] /\ r[k - 1] = rank[k - 1] /\ rank[k] <= m
        BY <1>6, <1>12, <4>1, Zenon
      <4>4. queued[k].kind = "log" => rank[k] \in 1..m
        <5>1. k \in Nat /\ k - 1 \in Nat /\ rank[k] \in Nat /\ rank[k - 1] \in Nat
          BY <4>1
        <5> QED
          BY <4>2, <4>3, <5>1
      <4> QED
        BY <1>9, <4>2, <4>3, <4>4, Zenon
    <3> QED
      BY <3>1, <3>2, Zenon
  <2>3. ASSUME NEW j \in 0..n, NEW k \in 0..n, j <= k PROVE r[j] <= r[k]
    <3>1. CASE k = n
      <4>1. CASE j = n
        BY <1>10, <3>1, <4>1
      <4>2. CASE j # n
        <5>1. j \in 0..(n - 1)
          BY <4>2
        <5>2. r[j] <= m /\ r[j] \in Nat
          BY <1>12, <5>1
        <5> QED
          BY <1>10, <3>1, <5>2
      <4> QED
        BY <4>1, <4>2, Zenon
    <3>2. CASE k # n
      <4>1. j \in 0..(n - 1) /\ k \in 0..(n - 1)
        BY <2>3, <3>2
      <4> QED
        BY <1>5, <1>11, <1>12, <2>3, <4>1, Zenon DEF Ranks
    <3> QED
      BY <3>1, <3>2, Zenon
  <2> QED
    BY <1>6, <2>1, <2>2, <2>3, Zenon DEF Ranks
<1>14. Left(d)'
  <2>1. Len(batch) \in Nat /\ batch' = batch
    <3>1. batch \in Seq(LItem) /\ batch' = batch
      BY <1>2, <1>4, Zenon DEF LTypes
    <3> QED
      BY ONLY <3>1
  <2>2. /\ n - 1 = d + Len(batch) + Len(queue)
        /\ Len(queue) \in Nat /\ Len(batch) \in Nat /\ Len(queue') = Len(queue) + 1
    BY <1>5, <1>7, <1>11, <2>1, Zenon DEF Left
  <2>3. n = d + Len(batch) + Len(queue')
    BY ONLY <2>2
  <2>4. \A i \in 1..Len(batch) : d + i \in 1..(n - 1)
    BY ONLY <2>2
  <2>5. \A i \in 1..Len(batch) : queued'[d + i] = batch[i]
    BY <1>6, <1>11, <2>4, Zenon DEF Left
  <2>6. ASSUME NEW i \in 1..Len(queue') PROVE queued'[d + Len(batch) + i] = queue'[i]
    <3>1. CASE i = Len(queue) + 1
      <4>1. d + Len(batch) + i = n
        BY ONLY <2>2, <3>1
      <4> QED
        BY <1>6, <1>7, <3>1, <4>1, Zenon
    <3>2. CASE i # Len(queue) + 1
      <4>1. i \in 1..Len(queue) /\ d + Len(batch) + i \in 1..(n - 1)
        <5>1. i \in 1..(Len(queue) + 1) /\ n \in Nat
          BY <2>2, Zenon
        <5> QED
          BY <2>2, <3>2, <5>1, Positions, Zenon
      <4>2. queued'[d + Len(batch) + i] = queued[d + Len(batch) + i]
        BY <1>6, <4>1, Zenon
      <4>3. queued[d + Len(batch) + i] = queue[i]
        BY <1>11, <4>1, Zenon DEF Left
      <4>4. queue'[i] = queue[i]
        BY <1>7, <4>1, Zenon
      <4> QED
        BY <4>2, <4>3, <4>4, Zenon
    <3> QED
      BY <3>1, <3>2, Zenon
  <2> QED
    BY <1>6, <2>1, <2>3, <2>5, <2>6, Zenon DEF Left
<1>15. Written(W(d), r)' /\ W(d)' = W(d)
  <2>1. W(d) \in 0..(n - 1)
    <3>1. batch \in Seq(LItem) /\ (writer = "mark" => batch # <<>>)
      BY <1>2, Zenon DEF LTypes, WorkerOk
    <3>2. Len(batch) \in Nat /\ (writer = "mark" => Len(batch) > 0)
      <4>1. Len(batch) \in Nat
        BY ONLY <3>1
      <4> QED
        BY <3>1, <4>1, NonEmpty, Zenon
    <3>3. d \in Nat /\ n - 1 = d + Len(batch) + Len(queue) /\ Len(queue) \in Nat
      BY <1>5, <1>7, <1>11, Zenon DEF Left
    <3> QED
      BY <3>2, <3>3, Positions, Zenon DEF W
  <2>2. W(d)' = W(d) /\ sink' = sink /\ flushed' = flushed
    BY <1>4, Zenon DEF W
  <2>3. Len(sink) = r[W(d)] /\ Len(sink) <= m
    BY <1>11, <1>12, <2>1, Zenon DEF Written
  <2>4. ASSUME NEW i \in 1..Len(sink) PROVE sink[i] = messages'[i]
    <3>1. Len(sink) \in Nat
      <4>1. sink \in Seq(Nat)
        BY <1>2, Zenon DEF LTypes
      <4> QED
        BY ONLY <4>1
    <3>2. i \in 1..m
      BY ONLY <2>3, <2>4, <3>1
    <3> QED
      BY <1>9, <1>11, <3>2, Zenon DEF Written
  <2>5. ASSUME NEW k \in 1..W(d), queued'[k].kind = "flush" PROVE r[k] <= flushed
    <3>1. k \in 1..(n - 1) /\ k \in 0..(n - 1)
      BY ONLY <2>1, <2>5
    <3>2. queued'[k] = queued[k] /\ r[k] = rank[k]
      BY <1>6, <1>12, <3>1, Zenon
    <3> QED
      BY <1>11, <2>5, <3>2, Zenon DEF Written
  <2>6. flushed <= Len(sink)
    BY <1>11, Zenon DEF Written
  <2> QED
    BY <2>2, <2>3, <2>4, <2>5, <2>6, Zenon DEF Written
<1>16. Books(d, r)'
  <2>1. processed' = (IF d = 0 THEN 0 ELSE queued'[d].seq)
    <3>1. CASE d = 0
      BY <1>1, <1>4, <3>1, Zenon DEF Books
    <3>2. CASE d # 0
      <4>1. Len(batch) \in Nat
        <5>1. batch \in Seq(LItem)
          BY <1>2, Zenon DEF LTypes
        <5> QED
          BY ONLY <5>1
      <4>2. n - 1 = d + Len(batch) + Len(queue) /\ Len(queue) \in Nat
        BY <1>5, <1>7, <1>11, Zenon DEF Left
      <4>3. d \in 1..(n - 1)
        BY ONLY <3>2, <4>1, <4>2
      <4> QED
        BY <1>1, <1>4, <1>6, <3>2, <4>3, Zenon DEF Books
    <3> QED
      BY <3>1, <3>2, Zenon
  <2> QED
    BY <1>13, <1>14, <1>15, <2>1, Zenon DEF Books
<1>17. /\ pc' \in [Thread -> LPlace] /\ pc'[t] = "notify" /\ item' = item /\ before' = before
       /\ \A u \in Thread \ {t} : pc'[u] = pc[u]
  BY <1>2, <1>4, Zenon DEF LTypes, LPlace, Waits
<1>18. Numbers'
  <2>1. "notify" \notin Calls /\ "enqueue" \in Calls
    BY Zenon DEF Calls
  <2>2. ASSUME NEW u \in Thread, pc'[u] \in Calls
        PROVE  /\ u # t /\ pc[u] \in Calls /\ item[u].seq \in 1..nextSeq
               /\ x.seq # item[u].seq
               /\ \A k \in 1..(n - 1) : queued[k].seq # item[u].seq
               /\ \A v \in Thread \ {u} : pc[v] \in Calls => item[v].seq # item[u].seq
    BY <1>2, <1>3, <1>4, <1>5, <1>17, <2>1, <2>2, Zenon DEF Numbers
  <2>3. \A k \in 1..n : k \in 1..(n - 1) \/ k = n
    OBVIOUS
  <2>4. /\ x.seq \in 1..nextSeq /\ \A k \in 1..(n - 1) : queued[k].seq # x.seq
    BY <1>2, <1>3, <1>4, <1>5, <2>1, Zenon DEF Numbers
  <2>5. \A k \in 1..n : queued'[k].seq \in 1..nextSeq
    BY <1>2, <1>5, <1>6, <2>3, <2>4, Zenon DEF Numbers
  <2>6. \A j, k \in 1..n : queued'[j].seq = queued'[k].seq => j = k
    BY <1>2, <1>5, <1>6, <2>3, <2>4, Zenon DEF Numbers
  <2>7. ASSUME NEW u \in Thread, pc'[u] \in Calls
        PROVE  /\ item'[u].seq \in 1..nextSeq'
               /\ \A k \in 1..n : queued'[k].seq # item'[u].seq
               /\ \A v \in Thread \ {u} : pc'[v] \in Calls => item'[v].seq # item'[u].seq
    <3>1. item' = item /\ nextSeq' = nextSeq
      BY <1>4, <1>17, Zenon
    <3>2. ASSUME NEW k \in 1..n PROVE queued'[k].seq # item[u].seq
      <4>1. CASE k = n
        BY <1>6, <2>2, <2>7, <4>1, Zenon
      <4>2. CASE k \in 1..(n - 1)
        BY <1>6, <2>2, <2>7, <4>2, Zenon
      <4> QED
        BY <2>3, <4>1, <4>2, Zenon
    <3>3. \A v \in Thread \ {u} : pc'[v] \in Calls => item[v].seq # item[u].seq
      BY <2>2, <2>7, Zenon
    <3>4. item[u].seq \in 1..nextSeq
      BY <2>2, <2>7, Zenon
    <3> QED
      BY <3>1, <3>2, <3>3, <3>4, Zenon
  <2> QED
    BY <1>4, <1>6, <2>5, <2>6, <2>7, Zenon DEF Numbers
<1>19. Flushes(r)'
  <2>1. m <= Len(messages') /\ m <= r[n] /\ r[n] \in Nat /\ Len(messages') \in Nat
    <3>1. IF x.kind = "log" THEN Len(messages') = m + 1 /\ r[n] = m + 1
                            ELSE Len(messages') = m /\ r[n] = m
      BY <1>9, <1>10, Zenon
    <3>2. m + 1 \in Nat /\ m <= m + 1 /\ m <= m
      BY ONLY m \in Nat
    <3> QED
      BY <3>1, <3>2, Zenon
  <2>2. ASSUME NEW u \in Thread PROVE FlushOk(pc[u], item[u], before[u], r)'
    <3>1. /\ FlushOk(pc[u], item[u], before[u], rank)
          /\ item'[u] = item[u] /\ before'[u] = before[u] /\ before[u] \in Nat
      BY <1>1, <1>2, <1>17, Zenon DEF Flushes, LTypes
    <3>2. pc'[u] \in Calls \cup Waits => pc[u] \in Calls \cup Waits
      BY <1>4, <1>17, Zenon DEF Calls
    <3>3. ASSUME pc'[u] \in Calls \cup Waits, item[u].kind = "flush"
          PROVE  /\ before[u] <= Len(messages') /\ item[u].seq >= 1
                 /\ \A k \in 1..n : queued'[k].seq >= item[u].seq => before[u] <= r[k]
      <4>1. /\ before[u] <= m /\ item[u].seq >= 1
            /\ \A k \in 1..(n - 1) : queued[k].seq >= item[u].seq => before[u] <= rank[k]
        BY <1>5, <1>9, <3>1, <3>2, <3>3, Zenon DEF FlushOk
      <4>2. before[u] <= Len(messages') /\ before[u] <= r[n]
        <5>1. \A a, b, c \in Nat : a <= b /\ b <= c => a <= c
          BY ONLY TRUE
        <5> QED
          BY <2>1, <3>1, <4>1, <5>1, Zenon
      <4>3. ASSUME NEW k \in 1..n, queued'[k].seq >= item[u].seq PROVE before[u] <= r[k]
        <5>1. CASE k = n
          BY <4>2, <5>1, Zenon
        <5>2. CASE k # n
          <6>1. k \in 1..(n - 1) /\ k \in 0..(n - 1)
            BY <5>2
          <6> QED
            BY <1>6, <1>12, <4>1, <4>3, <6>1, Zenon
        <5> QED
          BY <5>1, <5>2, Zenon
      <4> QED
        BY <4>1, <4>2, <4>3, Zenon
    <3>4. ASSUME pc'[u] \in Waits, item[u].kind = "flush"
          PROVE  \E k \in 1..n : queued'[k] = item[u]
      <4>1. CASE u = t
        <5>1. n \in 1..n
          OBVIOUS
        <5> QED
          BY <1>3, <1>6, <4>1, <5>1, Zenon
      <4>2. CASE u # t
        <5>1. PICK k \in 1..(n - 1) : queued[k] = item[u]
          BY <1>5, <1>17, <3>1, <3>4, <4>2, Zenon DEF FlushOk
        <5>2. k \in 1..n
          OBVIOUS
        <5> QED
          BY <1>6, <5>1, <5>2, Zenon
      <4> QED
        BY <4>1, <4>2, Zenon
    <3>5. pc'[u] \in Waits \ {"notify"} => item[u].kind = "flush"
      BY <1>17, <3>1, Zenon DEF FlushOk
    <3> QED
      BY <1>6, <3>1, <3>3, <3>4, <3>5, Zenon DEF FlushOk
  <2> QED
    BY <2>2, Zenon DEF Flushes
<1>20. LTypes'
  BY <1>2, <1>4, <1>6, <1>7, <1>9, <1>17, Zenon DEF LTypes
<1>21. WorkerOk'
  BY <1>2, <1>4, Zenon DEF WorkerOk
<1> QED
  BY <1>16, <1>18, <1>19, <1>20, <1>21, Zenon DEF LogInv

\* Callers that no step touches.
LEMMA CallersStay ==
    ASSUME LTypes, NEW rank, Flushes(rank), UNCHANGED <<pc, item, before>>
    PROVE  CallersMove
<1>1. ASSUME NEW t \in Thread PROVE Keeps(t)
  BY Zenon DEF Flushes, FlushOk, Keeps
<1> QED
  BY <1>1, Zenon DEF CallersMove, LTypes

\* The worker swaps the queue for its empty batch.
LEMMA LogSwap == ASSUME LogInv, L!SwapBatch PROVE LogInv'
<1>1. PICK d \in Nat, rank \in [Nat -> Nat] : Books(d, rank) /\ Flushes(rank)
  BY Zenon DEF LogInv
<1>2. LTypes /\ Numbers /\ WorkerOk
  BY Zenon DEF LogInv
<1>3. /\ writer = "test" /\ writer' = "notify" /\ batch' = queue /\ queue' = <<>>
      /\ UNCHANGED <<nextSeq, stopping, pc, item, before, processed, sink, flushed, queued, messages>>
  BY Zenon DEF L!SwapBatch, L!callers, L!history
<1>4. batch = <<>> /\ queue \in Seq(LItem)
  BY <1>2, <1>3, Zenon DEF WorkerOk, Drained, LTypes
<1>5. Len(batch) = 0 /\ Len(queue') = 0 /\ batch' = queue
  BY <1>3, <1>4, Zenon
<1>6. PICK q \in Nat : q = Len(queue)
  BY <1>4
<1>7. Left(d)'
  <2>1. /\ Len(queued) = d + 0 + q
        /\ \A i \in 1..q : queued[d + 0 + i] = queue[i]
    BY <1>1, <1>5, <1>6, Zenon DEF Books, Left
  <2>2. /\ d + 0 + q = d + q + 0 /\ \A i \in 1..q : d + 0 + i = d + i
        /\ \A i \in 1..0 : FALSE
    BY ONLY d \in Nat, q \in Nat
  <2>3. Len(batch') = q /\ queued' = queued /\ Len(queue') = 0 /\ batch' = queue
    BY <1>3, <1>5, <1>6, Zenon
  <2>4. \A i \in 1..q : queued[d + i] = queue[i]
    BY <2>1, <2>2, Zenon
  <2> QED
    BY <2>1, <2>2, <2>3, <2>4, Zenon DEF Left
<1>8. Ranks(rank)' /\ Written(W(d), rank)' /\ W(d)' = W(d)
  <2>1. W(d)' = W(d)
    BY <1>3, Zenon DEF W
  <2> QED
    BY <1>1, <1>3, <2>1, Zenon DEF Books, Ranks, Written
<1>9. Books(d, rank)'
  BY <1>1, <1>3, <1>7, <1>8, Zenon DEF Books
<1>10. Numbers' /\ Flushes(rank)'
  BY <1>1, <1>2, <1>3, CallersStay, CallersKept, Zenon
<1>11. LTypes'
  <2>1. <<>> \in Seq(LItem) /\ "notify" \in Drained \cup {"notify", "item", "mark"}
    OBVIOUS
  <2> QED
    BY <1>2, <1>3, <1>4, <2>1, Zenon DEF LTypes
<1>12. WorkerOk'
  BY <1>3, Zenon DEF WorkerOk, Drained
<1> QED
  BY <1>9, <1>10, <1>11, <1>12, Zenon DEF LogInv

\* The worker counts its item done and wakes the callers of flush().
LEMMA LogMark == ASSUME LogInv, L!MarkProcessed PROVE LogInv'
<1>1. PICK d \in Nat, rank \in [Nat -> Nat] : Books(d, rank) /\ Flushes(rank)
  BY Zenon DEF LogInv
<1>2. LTypes /\ Numbers /\ WorkerOk
  BY Zenon DEF LogInv
<1>3. /\ writer = "mark" /\ writer' = "item" /\ batch' = Tail(batch)
      /\ processed' = Head(batch).seq
      /\ pc' = [t \in Thread |-> IF pc[t] = "flushBlocked" THEN "flushTest" ELSE pc[t]]
      /\ UNCHANGED <<nextSeq, queue, stopping, item, before, sink, flushed, queued, messages>>
  BY Zenon DEF L!MarkProcessed, L!NotifyFlushCv, L!history
<1>4. batch # <<>> /\ batch \in Seq(LItem) /\ queue \in Seq(LItem)
  BY <1>2, <1>3, Zenon DEF WorkerOk, LTypes
<1>5. PICK b \in Nat : /\ Len(batch) = b + 1 /\ Len(batch') = b /\ batch' \in Seq(LItem)
                        /\ Head(batch) = batch[1] /\ \A i \in 1..b : batch'[i] = batch[i + 1]
  BY <1>3, <1>4, NonEmpty, Zenon
<1>6. PICK e \in Nat : e = d + 1
  BY ONLY d \in Nat
<1>7. PICK q \in Nat : q = Len(queue)
  BY <1>4
<1>8. Left(d)
  BY <1>1, Zenon DEF Books
<1>9. /\ e # 0 /\ 1 \in 1..(b + 1) /\ d + (b + 1) + q = e + b + q
      /\ \A i \in 1..b : i + 1 \in 1..(b + 1) /\ d + (i + 1) = e + i
      /\ \A i \in 1..q : d + (b + 1) + i = e + b + i
  BY ONLY <1>6, d \in Nat, b \in Nat, q \in Nat
<1>10. Left(e)'
  <2>1. Len(queued) = e + b + q
    BY <1>5, <1>7, <1>8, <1>9, Zenon DEF Left
  <2>2. ASSUME NEW i \in 1..b PROVE queued[e + i] = batch'[i]
    <3>1. i + 1 \in 1..Len(batch) /\ d + (i + 1) = e + i /\ batch'[i] = batch[i + 1]
      BY <1>5, <1>9, Zenon
    <3>2. queued[d + (i + 1)] = batch[i + 1]
      BY <1>8, <3>1, Zenon DEF Left
    <3> QED
      BY <3>1, <3>2, Zenon
  <2>3. ASSUME NEW i \in 1..q PROVE queued[e + b + i] = queue[i]
    BY <1>5, <1>7, <1>8, <1>9, ZenonT(30) DEF Left
  <2> QED
    BY <1>3, <1>5, <1>7, <2>1, <2>2, <2>3, Zenon DEF Left
<1>11. W(d) = e /\ W(e)' = e
  BY <1>3, <1>6, Zenon DEF W
<1>12. Ranks(rank)' /\ Written(W(e), rank)'
  BY <1>1, <1>3, <1>11, Zenon DEF Books, Ranks, Written
<1>13. processed' = (IF e = 0 THEN 0 ELSE queued'[e].seq)
  BY <1>3, <1>5, <1>6, <1>8, <1>9, Zenon DEF Left
<1>14. Books(e, rank)'
  BY <1>10, <1>12, <1>13, Zenon DEF Books
<1>15. CallersMove
  <2>1. ASSUME NEW t \in Thread PROVE Keeps(t)
    <3>1. FlushOk(pc[t], item[t], before[t], rank)
      BY <1>1, Zenon DEF Flushes
    <3>2. pc'[t] = (IF pc[t] = "flushBlocked" THEN "flushTest" ELSE pc[t])
      BY <1>3, Zenon
    <3>3. "flushBlocked" \in Waits \ {"notify"} /\ "flushTest" \in Waits /\ "flushTest" \notin Calls
      BY Zenon DEF Calls, Waits
    <3> QED
      BY <1>3, <3>1, <3>2, <3>3, Zenon DEF Keeps, FlushOk
  <2>2. pc' \in [Thread -> LPlace]
    BY <1>2, <1>3, Zenon DEF LTypes, LPlace, Waits
  <2> QED
    BY <1>2, <1>3, <2>1, <2>2, Zenon DEF CallersMove, LTypes
<1>16. Numbers' /\ Flushes(rank)'
  BY <1>1, <1>2, <1>3, <1>15, CallersKept, Zenon
<1>17. LTypes'
  BY <1>2, <1>3, <1>5, <1>15, Zenon DEF LTypes, CallersMove
<1>18. WorkerOk'
  BY <1>3, Zenon DEF WorkerOk, Drained
<1> QED
  BY <1>14, <1>16, <1>17, <1>18, Zenon DEF LogInv

\* The worker writes the first item of its batch, or flushes the sinks for it.
LEMMA LogWrite == ASSUME LogInv, L!WriteItem PROVE LogInv'
<1>1. PICK d \in Nat, rank \in [Nat -> Nat] : Books(d, rank) /\ Flushes(rank)
  BY Zenon DEF LogInv
<1>2. LTypes /\ Numbers /\ WorkerOk
  BY Zenon DEF LogInv
<1>3. PICK x : x = Head(batch)
  BY Zenon
<1>4. /\ writer = "item" /\ writer' = "mark" /\ batch # <<>>
      /\ sink' = (IF x.kind = "flush" THEN sink ELSE Append(sink, x.seq))
      /\ flushed' = Len(sink') \/ (x.kind = "log" /\ flushed' = flushed)
      /\ UNCHANGED <<nextSeq, queue, stopping, pc, item, before, batch, processed, queued, messages>>
  BY <1>3, Zenon DEF L!WriteItem, L!callers, L!history
<1>5. batch \in Seq(LItem) /\ sink \in Seq(Nat) /\ flushed \in Nat /\ queue \in Seq(LItem)
  BY <1>2, Zenon DEF LTypes
<1>6. PICK b \in Nat : Len(batch) = b + 1 /\ x = batch[1] /\ x \in LItem
  BY <1>3, <1>4, <1>5, NonEmpty, Zenon
<1>7. PICK q \in Nat : q = Len(queue)
  BY <1>5
<1>8. PICK s \in Nat : s = Len(sink)
  BY <1>5
<1>9. PICK e \in Nat : e = d + 1
  BY ONLY d \in Nat
<1>10. x.seq \in Nat /\ (x.kind = "log" \/ x.kind = "flush")
  BY <1>6, Zenon DEF LItem, L!Kind
<1>11. Ranks(rank) /\ Left(d) /\ Written(d, rank) /\ W(d)' = e
  <2>1. W(d) = d /\ W(d)' = e
    BY <1>4, <1>9, Zenon DEF W
  <2> QED
    BY <1>1, <2>1, Zenon DEF Books
<1>12. Len(queued) = d + (b + 1) + q /\ queued[d + 1] = x
  <2>1. 1 \in 1..(b + 1)
    BY ONLY b \in Nat
  <2> QED
    BY <1>6, <1>7, <1>11, <2>1, Zenon DEF Left
<1>13. /\ e \in 1..Len(queued) /\ e - 1 = d /\ d \in 0..Len(queued) /\ e \in 0..Len(queued)
       /\ \A k \in 1..d : k \in Nat
       /\ \A k \in 1..e : k \in 1..d \/ k = e
  <2>1. ASSUME NEW l, l = d + (b + 1) + q
        PROVE  /\ e \in 1..l /\ e - 1 = d /\ d \in 0..l /\ e \in 0..l
               /\ \A k \in 1..d : k \in Nat
               /\ \A k \in 1..e : k \in 1..d \/ k = e
    BY ONLY <1>9, <2>1, d \in Nat, b \in Nat, q \in Nat
  <2> QED
    BY <1>12, <2>1, Zenon
<1>14. IF x.kind = "log" THEN rank[e] = rank[d] + 1 /\ messages[rank[e]] = x.seq
                         ELSE rank[e] = rank[d]
  BY <1>9, <1>11, <1>12, <1>13, Zenon DEF Ranks
<1>15. s = rank[d] /\ (\A i \in 1..s : sink[i] = messages[i]) /\ flushed <= s
       /\ \A k \in 1..d : queued[k].kind = "flush" => rank[k] <= flushed
  BY <1>8, <1>11, Zenon DEF Written
<1>16. Written(e, rank)' /\ sink' \in Seq(Nat) /\ flushed' \in Nat
  <2>1. CASE x.kind = "log"
    <3>1. /\ Append(sink, x.seq) \in Seq(Nat) /\ Len(Append(sink, x.seq)) = Len(sink) + 1
          /\ Append(sink, x.seq)[Len(sink) + 1] = x.seq
          /\ \A i \in 1..Len(sink) : Append(sink, x.seq)[i] = sink[i]
      BY ONLY <1>5, <1>10
    <3>2. x.kind # "flush"
      BY <2>1, Zenon
    <3>3. /\ sink' \in Seq(Nat) /\ Len(sink') = s + 1 /\ sink'[s + 1] = x.seq
          /\ \A i \in 1..s : sink'[i] = sink[i]
      BY <1>4, <1>8, <3>1, <3>2, Zenon
    <3>4. s + 1 \in Nat /\ \A i \in 1..(s + 1) : i \in 1..s \/ i = s + 1
      BY ONLY s \in Nat
    <3>5. rank[e] = s + 1 /\ messages[s + 1] = x.seq
      BY <1>14, <1>15, <2>1, Zenon
    <3>6. \A i \in 1..(s + 1) : sink'[i] = messages[i]
      BY <1>15, <3>3, <3>4, <3>5, Zenon
    <3>7. flushed' \in Nat /\ flushed <= flushed' /\ flushed' <= s + 1
      <4>1. flushed' = s + 1 \/ flushed' = flushed
        BY <1>4, <3>3, Zenon
      <4>2. flushed <= flushed /\ flushed <= s + 1 /\ s + 1 <= s + 1
        <5>1. \A f, z \in Nat : f <= z => f <= f /\ f <= z + 1 /\ z + 1 <= z + 1
          BY ONLY TRUE
        <5> QED
          BY <1>5, <1>15, <5>1, Zenon
      <4> QED
        BY <1>5, <3>4, <4>1, <4>2, Zenon
    <3>8. ASSUME NEW k \in 1..e, queued[k].kind = "flush" PROVE rank[k] <= flushed'
      <4>1. k \in 1..d /\ rank[k] <= flushed
        BY <1>9, <1>12, <1>13, <1>15, <3>2, <3>8, Zenon
      <4>2. rank[k] \in Nat
        BY <1>13, <4>1, Zenon
      <4>3. \A a, bb, c \in Nat : a <= bb /\ bb <= c => a <= c
        BY ONLY TRUE
      <4> QED
        BY <1>5, <3>7, <4>1, <4>2, <4>3, Zenon
    <3> QED
      BY <1>4, <3>3, <3>5, <3>6, <3>7, <3>8, Zenon DEF Written
  <2>2. CASE x.kind = "flush"
    <3>1. sink' = sink /\ flushed' = s
      BY <1>4, <1>8, <2>2, Zenon
    <3>2. rank[e] = s
      BY <1>14, <1>15, <2>2, Zenon
    <3>3. s <= s
      BY ONLY s \in Nat
    <3>4. ASSUME NEW k \in 1..e, queued[k].kind = "flush" PROVE rank[k] <= s
      <4>1. CASE k = e
        BY <3>2, <3>3, <4>1, Zenon
      <4>2. CASE k \in 1..d
        <5>1. rank[k] <= flushed /\ rank[k] \in Nat
          BY <1>13, <1>15, <3>4, <4>2, Zenon
        <5>2. \A a, bb, c \in Nat : a <= bb /\ bb <= c => a <= c
          BY ONLY TRUE
        <5> QED
          BY <1>5, <1>15, <5>1, <5>2, Zenon
      <4> QED
        BY <1>13, <4>1, <4>2, Zenon
    <3> QED
      BY <1>4, <1>5, <1>8, <1>15, <3>1, <3>2, <3>3, <3>4, Zenon DEF Written
  <2> QED
    BY <1>10, <2>1, <2>2, Zenon
<1>17. Books(d, rank)'
  BY <1>1, <1>4, <1>11, <1>16, Zenon DEF Books, Ranks, Left
<1>18. Numbers' /\ Flushes(rank)'
  BY <1>1, <1>2, <1>4, CallersStay, CallersKept, Zenon
<1>19. LTypes'
  BY <1>2, <1>4, <1>16, Zenon DEF LTypes
<1>20. WorkerOk'
  BY <1>4, Zenon DEF WorkerOk, Drained
<1> QED
  BY <1>17, <1>18, <1>19, <1>20, Zenon DEF LogInv

\* A caller that others at most wake up.
Woken(u) ==
    /\ item'[u] = item[u] /\ before'[u] = before[u]
    /\ \/ pc'[u] = pc[u]
       \/ pc[u] = "blocked" /\ pc'[u] = "enqueue"
       \/ pc[u] = "flushBlocked" /\ pc'[u] = "flushTest"

\* Being woken up is a move within the call.
LEMMA WokenKeeps ==
    ASSUME NEW u \in Thread, NEW rank, FlushOk(pc[u], item[u], before[u], rank), Woken(u)
    PROVE  Keeps(u)
<1>1. /\ "blocked" \in Calls /\ "enqueue" \in Calls /\ "flushBlocked" \in Waits \ {"notify"}
      /\ "flushTest" \in Waits /\ "flushTest" \notin Calls /\ "enqueue" \notin Waits
  BY Zenon DEF Calls, Waits
<1>2. CASE pc'[u] = pc[u]
  BY <1>2, Zenon DEF Woken, Keeps, FlushOk
<1>3. CASE pc[u] = "blocked" /\ pc'[u] = "enqueue"
  BY <1>1, <1>3, Zenon DEF Woken, Keeps, FlushOk
<1>4. CASE pc[u] = "flushBlocked" /\ pc'[u] = "flushTest"
  BY <1>1, <1>4, Zenon DEF Woken, Keeps, FlushOk
<1> QED
  BY <1>2, <1>3, <1>4, Zenon DEF Woken

\* Steps of a caller that waits, wakes up, returns or stops the logger, and what they
\* leave alone.
LEMMA LogCalls ==
    ASSUME LogInv, NEW t \in Thread,
           \/ L!DirectFlush(t) \/ L!EnqueueRefused(t) \/ L!EnqueueParks(t)
           \/ L!EnqueueNotify(t) \/ L!FlushParks(t) \/ L!FlushReturns(t) \/ L!Sleep(t)
           \/ L!StopNotify(t) \/ L!StopFlushNotify(t) \/ L!Join(t) \/ L!Stop(t)
           \/ (L!CallFlush(t) /\ stopping)
    PROVE  LogInv'
<1>1. PICK rank \in [Nat -> Nat] : Flushes(rank)
  BY Zenon DEF LogInv
<1>2. LTypes /\ WorkerOk
  BY Zenon DEF LogInv
<1>3. FlushOk(pc[t], item[t], before[t], rank) /\ pc[t] \in LPlace
  BY <1>1, <1>2, Zenon DEF Flushes, LTypes
<1>4. /\ UNCHANGED <<queue, batch, queued, messages, sink, processed, nextSeq>>
      /\ flushed' = flushed \/ flushed' = Len(sink)
      /\ stopping' = stopping \/ stopping' = TRUE
      /\ writer' = writer \/ (writer = "blocked" /\ writer' = "test")
      /\ writer # "exited" \/ writer' = writer
      /\ flushed' = flushed \/ UNCHANGED writer
  BY Zenon DEF L!DirectFlush, L!EnqueueRefused, L!EnqueueParks, L!EnqueueNotify, L!FlushParks,
     L!FlushReturns, L!Sleep, L!StopNotify, L!StopFlushNotify, L!Join, L!Stop, L!CallFlush,
     L!Goto, L!NotifyCv, L!NotifyFlushCv, L!history, L!worker, L!TakeNumber
<1> DEFINE Typed == /\ pc' \in [Thread -> LPlace] /\ item' \in [Thread -> LItem]
                    /\ before' \in [Thread -> Nat]
           Others == \A u \in Thread \ {t} : Woken(u)
<1> HIDE DEF Typed, Others
<1>5. /\ pc \in [Thread -> LPlace] /\ item \in [Thread -> LItem] /\ before \in [Thread -> Nat]
  BY <1>2, Zenon DEF LTypes
<1>6. /\ \A p \in {"idle", "direct", "park", "blocked", "enqueue", "flushTest", "flushPark",
                    "flushBlocked", "stopNotify", "stopFlushNotify", "join"} : p \in LPlace
      /\ L!NoCall \in LItem /\ 0 \in Nat
  BY Zenon DEF LPlace, Calls, Waits, LItem, L!NoCall, L!Kind
<1>7. ASSUME NEW p \in LPlace, pc' = [pc EXCEPT ![t] = p],
             \/ UNCHANGED <<item, before>>
             \/ /\ item' = [item EXCEPT ![t] = L!NoCall]
                /\ before' = [before EXCEPT ![t] = 0]
      PROVE  Typed /\ Others /\ pc'[t] = p
  <2>1. Typed
    BY <1>5, <1>6, <1>7, Zenon DEF Typed
  <2>2. Others
    BY <1>5, <1>7, Zenon DEF Others, Woken
  <2> QED
    BY <1>5, <1>7, <2>1, <2>2, Zenon
<1>8. ASSUME NEW p \in LPlace \ {"blocked"},
             pc' = [u \in Thread |-> IF [pc EXCEPT ![t] = p][u] = "blocked" THEN "enqueue"
                                     ELSE [pc EXCEPT ![t] = p][u]],
             item' = item \/ item' = [item EXCEPT ![t] = L!NoCall], before' = before
      PROVE  Typed /\ Others /\ pc'[t] = p
  <2>1. \A u \in Thread : [pc EXCEPT ![t] = p][u] = IF u = t THEN p ELSE pc[u]
    BY <1>5, Zenon
  <2>2. Typed
    BY <1>5, <1>6, <1>8, <2>1, Zenon DEF Typed
  <2>3. Others
    BY <1>5, <1>8, <2>1, Zenon DEF Others, Woken
  <2> QED
    BY <1>5, <1>8, <2>1, <2>2, <2>3, Zenon
<1>9. ASSUME NEW p \in LPlace \ {"flushBlocked"},
             pc' = [u \in Thread |-> IF [pc EXCEPT ![t] = p][u] = "flushBlocked" THEN "flushTest"
                                     ELSE [pc EXCEPT ![t] = p][u]],
             UNCHANGED <<item, before>>
      PROVE  Typed /\ Others /\ pc'[t] = p
  <2>1. \A u \in Thread : [pc EXCEPT ![t] = p][u] = IF u = t THEN p ELSE pc[u]
    BY <1>5, Zenon
  <2>2. Typed
    BY <1>5, <1>6, <1>9, <2>1, Zenon DEF Typed
  <2>3. Others
    BY <1>5, <1>9, <2>1, Zenon DEF Others, Woken
  <2> QED
    BY <1>5, <1>9, <2>1, <2>2, <2>3, Zenon
<1>10. ASSUME Typed, Others, pc'[t] \notin Calls \cup Waits PROVE CallersMove
  <2>1. Keeps(t)
    BY <1>10, Zenon DEF Keeps
  <2>2. ASSUME NEW u \in Thread \ {t} PROVE Keeps(u)
    BY <1>1, <1>10, WokenKeeps, Zenon DEF Flushes, Others
  <2> QED
    BY <1>10, <2>1, <2>2, Zenon DEF CallersMove, Typed
<1>11. ASSUME Typed, Others, item' = item, before' = before,
              \/ pc[t] \in Calls /\ pc'[t] \in Calls
              \/ pc[t] \in Waits /\ pc'[t] \in Waits /\ item[t].kind = "flush"
       PROVE  CallersMove
  <2>0. \A p \in Calls : p \notin Waits
    BY Zenon DEF Calls, Waits
  <2>1. Keeps(t)
    BY <1>11, <2>0, Zenon DEF Keeps
  <2>2. ASSUME NEW u \in Thread \ {t} PROVE Keeps(u)
    BY <1>1, <1>11, WokenKeeps, Zenon DEF Flushes, Others
  <2> QED
    BY <1>11, <2>1, <2>2, Zenon DEF CallersMove, Typed
<1>12. /\ \A p \in {"idle", "direct", "stopNotify", "stopFlushNotify", "join"} :
                p \notin Calls \cup Waits /\ p # "blocked" /\ p # "flushBlocked"
       /\ {"enqueue", "park", "blocked"} \subseteq Calls
       /\ {"notify", "flushTest", "flushPark", "flushBlocked"} \subseteq Waits
       /\ "flushTest" # "blocked" /\ "flushTest" # "notify" /\ "flushPark" # "notify"
  BY Zenon DEF Calls, Waits
<1>13. pc[t] \in {"flushTest", "flushPark"} => item[t].kind = "flush"
  BY <1>3, <1>12, Zenon DEF FlushOk
<1>14. CallersMove
  <2>1. CASE L!DirectFlush(t) \/ L!FlushReturns(t) \/ L!Join(t)
    <3>1. Typed /\ Others /\ pc'[t] = "idle"
      BY <1>6, <1>7, <2>1, Zenon DEF L!DirectFlush, L!FlushReturns, L!Join, L!Goto, L!Return
    <3> QED
      BY <1>10, <1>12, <3>1, Zenon
  <2>2. CASE L!EnqueueRefused(t)
    <3>1. Typed /\ Others /\ (pc'[t] = "idle" \/ pc'[t] = "direct")
      BY <1>6, <1>7, <2>2, Zenon DEF L!EnqueueRefused, L!Return
    <3> QED
      BY <1>10, <1>12, <3>1, Zenon
  <2>3. CASE L!Stop(t)
    <3>1. Typed /\ Others /\ pc'[t] = "stopNotify"
      BY <1>6, <1>7, <2>3, Zenon DEF L!Stop
    <3> QED
      BY <1>10, <1>12, <3>1, Zenon
  <2>4. CASE L!CallFlush(t) /\ stopping
    <3>1. Typed /\ Others /\ pc'[t] = "direct"
      BY <1>6, <1>7, <2>4, Zenon DEF L!CallFlush
    <3> QED
      BY <1>10, <1>12, <3>1, Zenon
  <2>5. CASE L!EnqueueParks(t)
    <3>1. Typed /\ Others /\ pc'[t] = "park" /\ item' = item /\ before' = before
      BY <1>6, <1>7, <2>5, Zenon DEF L!EnqueueParks, L!Goto
    <3> QED
      BY <1>11, <1>12, <2>5, <3>1, Zenon DEF L!EnqueueParks
  <2>6. CASE L!FlushParks(t)
    <3>1. Typed /\ Others /\ pc'[t] = "flushPark" /\ item' = item /\ before' = before
      BY <1>6, <1>7, <2>6, Zenon DEF L!FlushParks, L!Goto
    <3> QED
      BY <1>11, <1>12, <1>13, <2>6, <3>1, Zenon DEF L!FlushParks
  <2>7. CASE L!Sleep(t) /\ pc[t] = "park"
    <3>1. Typed /\ Others /\ pc'[t] = "blocked" /\ item' = item /\ before' = before
      BY <1>6, <1>7, <2>7, Zenon DEF L!Sleep, L!Goto
    <3> QED
      BY <1>11, <1>12, <2>7, <3>1, Zenon
  <2>8. CASE L!Sleep(t) /\ pc[t] = "flushPark"
    <3>1. Typed /\ Others /\ pc'[t] = "flushBlocked" /\ item' = item /\ before' = before
      BY <1>6, <1>7, <2>8, Zenon DEF L!Sleep, L!Goto
    <3> QED
      BY <1>11, <1>12, <1>13, <2>8, <3>1, Zenon
  <2>9. CASE L!EnqueueNotify(t) /\ item[t].kind = "log"
    <3>1. Typed /\ Others /\ pc'[t] = "idle"
      <4>1. item[t].kind # "flush"
        BY <2>9, Zenon
      <4> QED
        BY <1>6, <1>8, <1>12, <2>9, <4>1, Zenon DEF L!EnqueueNotify, L!NotifyCv
    <3> QED
      BY <1>10, <1>12, <3>1, Zenon
  <2>10. CASE L!EnqueueNotify(t) /\ item[t].kind = "flush"
    <3>1. Typed /\ Others /\ pc'[t] = "flushTest" /\ item' = item /\ before' = before
      <4>1. item[t].kind # "log"
        BY <2>10, Zenon
      <4> QED
        BY <1>6, <1>8, <1>12, <2>10, <4>1, Zenon DEF L!EnqueueNotify, L!NotifyCv
    <3> QED
      BY <1>11, <1>12, <2>10, <3>1, Zenon DEF L!EnqueueNotify
  <2>11. CASE L!StopNotify(t)
    <3>1. Typed /\ Others /\ pc'[t] = "stopFlushNotify"
      BY <1>6, <1>8, <1>12, <2>11, Zenon DEF L!StopNotify, L!NotifyCv
    <3> QED
      BY <1>10, <1>12, <3>1, Zenon
  <2>12. CASE L!StopFlushNotify(t)
    <3>1. Typed /\ Others /\ pc'[t] = "join"
      BY <1>6, <1>9, <1>12, <2>12, Zenon DEF L!StopFlushNotify, L!NotifyFlushCv
    <3> QED
      BY <1>10, <1>12, <3>1, Zenon
  <2> QED
    BY <2>1, <2>2, <2>3, <2>4, <2>5, <2>6, <2>7, <2>8, <2>9, <2>10, <2>11, <2>12, Zenon
       DEF L!Sleep, L!EnqueueNotify
<1>15. /\ stopping' \in BOOLEAN /\ writer' \in Drained \cup {"notify", "item", "mark"}
       /\ writer' = "mark" <=> writer = "mark"
  BY <1>2, <1>4, Zenon DEF LTypes, Drained
<1>16. WorkerOk'
  <2>1. CASE writer' = writer
    <3>1. stopping => stopping'
      BY <1>4, Zenon
    <3>2. writer = "exited" => flushed' = Len(sink')
      BY <1>2, <1>4, Zenon DEF WorkerOk
    <3>3. queue' = queue /\ batch' = batch
      BY <1>4, Zenon
    <3> QED
      BY <1>2, <2>1, <3>1, <3>2, <3>3, Zenon DEF WorkerOk
  <2>2. CASE writer = "blocked" /\ writer' = "test"
    BY <1>2, <1>4, <2>2, Zenon DEF WorkerOk, Drained
  <2> QED
    BY <1>4, <2>1, <2>2, Zenon
<1> QED
  BY <1>4, <1>14, <1>15, <1>16, LogMoves, Zenon

\* Steps of the worker that neither take, write nor mark an item, and wake-ups for no
\* reason.
LEMMA LogWorks ==
    ASSUME LogInv,
           \/ L!WorkerParks \/ L!WorkerSleeps \/ L!WorkerLeaves \/ L!WorkerNotify
           \/ L!BatchDone \/ L!FinalFlush \/ L!SpuriousWakeup
    PROVE  LogInv'
<1>1. PICK rank \in [Nat -> Nat] : Flushes(rank)
  BY Zenon DEF LogInv
<1>2. LTypes /\ WorkerOk
  BY Zenon DEF LogInv
<1>3. /\ pc \in [Thread -> LPlace] /\ item \in [Thread -> LItem] /\ before \in [Thread -> Nat]
  BY <1>2, Zenon DEF LTypes
<1>4. UNCHANGED <<queue, stopping, batch, queued, messages, sink, processed, nextSeq, item, before>>
  BY Zenon DEF L!WorkerParks, L!WorkerSleeps, L!WorkerLeaves, L!WorkerNotify, L!BatchDone,
     L!FinalFlush, L!SpuriousWakeup, L!WorkerGoto, L!callers, L!history
<1>5. /\ flushed' = flushed \/ (flushed' = Len(sink) /\ writer' = "exited")
      /\ \/ writer = "test" /\ writer' = "park"
         \/ writer = "park" /\ writer' = "blocked"
         \/ writer = "test" /\ writer' = "final" /\ stopping /\ queue = <<>>
         \/ writer = "notify" /\ writer' = "item"
         \/ writer = "item" /\ writer' = "test" /\ batch = <<>>
         \/ writer = "final" /\ writer' = "exited" /\ flushed' = Len(sink)
         \/ writer = "blocked" /\ writer' = "test"
         \/ writer' = writer /\ flushed' = flushed
  BY Zenon DEF L!WorkerParks, L!WorkerSleeps, L!WorkerLeaves, L!WorkerNotify, L!BatchDone,
     L!FinalFlush, L!SpuriousWakeup, L!WorkerGoto, L!NotifyCv
<1>6. /\ "enqueue" \in LPlace /\ "flushTest" \in LPlace /\ "enqueue" # "blocked"
      /\ "flushBlocked" # "blocked"
  BY Zenon DEF LPlace, Calls, Waits
<1>7. pc' \in [Thread -> LPlace] /\ \A u \in Thread : Woken(u)
  <2>1. CASE pc' = pc
    BY <1>3, <1>4, <2>1, Zenon DEF Woken
  <2>2. CASE pc' = [u \in Thread |-> IF pc[u] = "blocked" THEN "enqueue" ELSE pc[u]]
    BY <1>3, <1>4, <1>6, <2>2, Zenon DEF Woken
  <2>3. ASSUME NEW t \in Thread, pc[t] \in {"blocked", "flushBlocked"},
               pc' = [pc EXCEPT ![t] = IF @ = "blocked" THEN "enqueue" ELSE "flushTest"]
        PROVE  pc' \in [Thread -> LPlace] /\ \A u \in Thread : Woken(u)
    <3>1. pc' \in [Thread -> LPlace]
      BY <1>3, <1>6, <2>3, Zenon
    <3>2. \A u \in Thread \ {t} : Woken(u)
      BY <1>3, <1>4, <2>3, Zenon DEF Woken
    <3>3. pc'[t] = (IF pc[t] = "blocked" THEN "enqueue" ELSE "flushTest")
      BY <1>3, <2>3, Zenon
    <3>4. Woken(t)
      BY <1>4, <1>6, <2>3, <3>3, Zenon DEF Woken
    <3> QED
      BY <3>1, <3>2, <3>4, Zenon
  <2> QED
    BY <2>1, <2>2, <2>3, Zenon DEF L!WorkerParks, L!WorkerSleeps, L!WorkerLeaves, L!WorkerNotify,
       L!BatchDone, L!FinalFlush, L!SpuriousWakeup, L!WorkerGoto, L!NotifyCv, L!callers
<1>8. CallersMove
  <2>1. \A u \in Thread : Keeps(u)
    BY <1>1, <1>7, WokenKeeps, Zenon DEF Flushes
  <2> QED
    BY <1>3, <1>4, <1>7, <2>1, Zenon DEF CallersMove
<1>9. /\ stopping' \in BOOLEAN /\ writer' \in Drained \cup {"notify", "item", "mark"}
      /\ writer' = "mark" <=> writer = "mark"
  <2>1. stopping \in BOOLEAN /\ writer \in Drained \cup {"notify", "item", "mark"}
    BY <1>2, Zenon DEF LTypes
  <2>2. writer' \in Drained \cup {"notify", "item", "mark"} /\ (writer' = "mark" <=> writer = "mark")
    BY <1>5, <2>1, Zenon DEF Drained
  <2> QED
    BY <1>4, <2>1, <2>2, Zenon
<1>10. WorkerOk'
  <2>1. (stopping => stopping') /\ queue' = queue /\ batch' = batch /\ sink' = sink
    BY <1>4, Zenon
  <2>2. CASE writer' = writer /\ flushed' = flushed
    BY <1>2, <2>1, <2>2, Zenon DEF WorkerOk
  <2>3. CASE ~(writer' = writer /\ flushed' = flushed)
    <3>1. writer' \in Drained => batch = <<>>
      BY <1>2, <1>5, <2>3, Zenon DEF WorkerOk, Drained
    <3>2. writer' # "mark"
      BY <1>5, <2>3, Zenon
    <3>3. writer' \in {"final", "exited"} => stopping /\ queue = <<>>
      BY <1>2, <1>5, <2>3, Zenon DEF WorkerOk
    <3>4. writer' = "exited" => flushed' = Len(sink)
      BY <1>5, <2>3, Zenon
    <3> QED
      BY <2>1, <3>1, <3>2, <3>3, <3>4, Zenon DEF WorkerOk
  <2> QED
    BY <2>2, <2>3, Zenon
<1> QED
  BY <1>4, <1>5, <1>8, <1>9, <1>10, LogMoves, Zenon

\* Every step of the callers and of the worker keeps LogInv.
LEMMA LogInvNext == LogInv /\ [L!Next]_(L!vars) => LogInv'
<1> SUFFICES ASSUME LogInv, [L!Next]_(L!vars) PROVE LogInv'
  BY Zenon
<1>1. CASE UNCHANGED L!vars
  <2>1. UNCHANGED <<queue, stopping, nextSeq, processed, pc, item, writer, batch, sink, flushed,
                    queued, messages, before>>
    BY <1>1, Zenon DEF L!vars
  <2>2. PICK rank : Flushes(rank)
    BY Zenon DEF LogInv
  <2>3. LTypes /\ CallersMove
    BY <2>1, <2>2, CallersStay, Zenon DEF LogInv
  <2>4. stopping' \in BOOLEAN /\ writer' \in Drained \cup {"notify", "item", "mark"}
    BY <2>1, <2>3, Zenon DEF LTypes
  <2>5. WorkerOk'
    <3>1. WorkerOk /\ (stopping => stopping')
      BY <2>1, Zenon DEF LogInv
    <3> QED
      BY <2>1, <3>1, Zenon DEF WorkerOk
  <2> QED
    BY <2>1, <2>3, <2>4, <2>5, LogMoves, Zenon
<1>2. ASSUME NEW t \in Thread, L!CallLog(t) PROVE LogInv'
  <2>1. LTypes /\ "log" \in L!Kind /\ "log" # "flush"
    BY Zenon DEF LogInv, L!Kind
  <2>2. before' = [before EXCEPT ![t] = IF "log" = "flush" THEN Len(messages) ELSE @]
    <3>1. before' = before /\ before \in [Thread -> Nat]
      BY <1>2, <2>1, Zenon DEF L!CallLog, LTypes
    <3> QED
      BY <2>1, <3>1, Zenon
  <2> QED
    BY <1>2, <2>1, <2>2, LogTakesNumber, Zenon DEF L!CallLog, L!TakeNumber, L!worker, L!history
<1>3. ASSUME NEW t \in Thread, L!CallFlush(t), ~stopping PROVE LogInv'
  <2>1. "flush" \in L!Kind
    BY Zenon DEF L!Kind
  <2>2. before' = [before EXCEPT ![t] = IF "flush" = "flush" THEN Len(messages) ELSE @]
    BY <1>3, Zenon DEF L!CallFlush
  <2> QED
    BY <1>3, <2>1, <2>2, LogTakesNumber, Zenon DEF L!CallFlush, L!TakeNumber, L!worker, L!history
<1>4. CASE L!WorkerLoop \/ L!SpuriousWakeup
  BY <1>4, LogSwap, LogWrite, LogMark, LogWorks, Zenon DEF L!WorkerLoop
<1>5. ASSUME NEW t \in Thread, L!Stop(t) \/ L!Caller(t) \/ (L!CallFlush(t) /\ stopping)
      PROVE  LogInv'
  BY <1>5, LogCalls, LogEnqueues, Zenon DEF L!Caller
<1> QED
  BY <1>1, <1>2, <1>3, <1>4, <1>5, Zenon DEF L!Next

\* LogInv holds in every state of the logger.
LEMMA LogInvAlways == L!Spec => []LogInv
<1> QED
  BY LogInvInit, LogInvNext, PTL DEF L!Spec

\* When the worker has left, everything that was accepted is in the sinks.
LEMMA LogInvDrains == LogInv => LoggerDrains
<1> SUFFICES ASSUME LogInv, writer = "exited" PROVE stopping /\ sink = messages /\ flushed = Len(sink)
  BY Zenon DEF LoggerDrains, L!StopDrains
<1>1. PICK d \in Nat, rank \in [Nat -> Nat] : Books(d, rank)
  BY Zenon DEF LogInv
<1>2. batch = <<>> /\ queue = <<>> /\ stopping /\ flushed = Len(sink) /\ W(d) = d
  BY Zenon DEF LogInv, WorkerOk, Drained, W
<1>3. Len(queued) = d
  <2>1. Len(queued) = d + Len(batch) + Len(queue) /\ Len(batch) = 0 /\ Len(queue) = 0
    BY <1>1, <1>2, Zenon DEF Books, Left
  <2> QED
    BY ONLY <2>1, d \in Nat
<1>4. Len(sink) = Len(messages) /\ \A i \in 1..Len(sink) : sink[i] = messages[i]
  BY <1>1, <1>2, <1>3, Zenon DEF Books, Written, Ranks
<1>5. sink \in Seq(Nat) /\ messages \in Seq(Nat)
  BY Zenon DEF LogInv, LTypes
<1>6. sink = messages
  BY <1>4, <1>5, SameItems, Zenon
<1> QED
  BY <1>2, <1>6, Zenon

\* stop(): once the worker has left, every accepted message is in the sinks, once, in
\* the order of the queue, and flushed.
THEOREM LoggerStopDrains == L!Spec => []LoggerDrains
<1> QED
  BY LogInvAlways, LogInvDrains, PTL

\* The wait of flush() ends only when its number was passed.
LEMMA FlushReturnsWhenPassed ==
    ASSUME LogInv, L!Next, NEW t \in Thread, pc[t] = "flushTest", pc'[t] = "idle"
    PROVE  processed >= item[t].seq
<1>1. pc \in [Thread -> LPlace]
  BY Zenon DEF LogInv, LTypes
<1>2. "flushTest" # "idle" /\ "flushTest" # "blocked" /\ "flushTest" # "flushBlocked"
  BY Zenon
<1>3. ~L!WorkerLoop /\ ~L!SpuriousWakeup
  BY <1>1, <1>2, Zenon DEF L!WorkerLoop, L!SpuriousWakeup, L!WorkerParks, L!WorkerSleeps,
     L!WorkerLeaves, L!SwapBatch, L!WorkerNotify, L!WriteItem, L!MarkProcessed, L!BatchDone,
     L!FinalFlush, L!WorkerGoto, L!NotifyCv, L!NotifyFlushCv, L!callers
<1>4. ASSUME NEW u \in Thread,
             \/ L!CallLog(u) \/ L!CallFlush(u) \/ L!Stop(u) \/ L!DirectFlush(u)
             \/ L!EnqueueRefused(u) \/ L!EnqueueParks(u) \/ L!Enqueue(u)
             \/ L!EnqueueNotify(u) \/ L!FlushParks(u) \/ L!Sleep(u)
             \/ L!StopNotify(u) \/ L!StopFlushNotify(u) \/ L!Join(u)
      PROVE  FALSE
  <2>1. CASE u = t
    BY <1>1, <1>4, <2>1, Zenon DEF L!CallLog, L!CallFlush, L!Stop, L!DirectFlush, L!EnqueueRefused,
       L!EnqueueParks, L!Enqueue, L!EnqueueNotify, L!FlushParks, L!Sleep, L!StopNotify,
       L!StopFlushNotify, L!Join, L!Goto
  <2>2. CASE u # t
    BY <1>1, <1>2, <1>4, <2>2, Zenon DEF L!CallLog, L!CallFlush, L!Stop, L!DirectFlush,
       L!EnqueueRefused, L!EnqueueParks, L!Enqueue, L!EnqueueNotify, L!FlushParks, L!Sleep,
       L!StopNotify, L!StopFlushNotify, L!Join, L!Goto, L!Return, L!TakeNumber, L!NotifyCv,
       L!NotifyFlushCv
  <2> QED
    BY <2>1, <2>2, Zenon
<1>5. PICK u \in Thread : L!FlushReturns(u)
  BY <1>3, <1>4, Zenon DEF L!Next, L!Caller
<1>6. u = t
  BY <1>1, <1>2, <1>5, Zenon DEF L!FlushReturns, L!Return
<1> QED
  BY <1>5, <1>6, Zenon DEF L!FlushReturns

\* A flush() whose number was passed: what had been accepted before it is written, and
\* flushed unless a later number got into the queue first.
LEMMA PassedIsCovered ==
    ASSUME LogInv, NEW t \in Thread, pc[t] = "flushTest", processed >= item[t].seq
    PROVE  /\ before[t] <= Len(sink)
           /\ SubSeq(sink, 1, before[t]) = SubSeq(messages, 1, before[t])
           /\ flushed >= before[t] \/ L!Overtaken(t)
<1>1. PICK d \in Nat, rank \in [Nat -> Nat] : Books(d, rank) /\ Flushes(rank)
  BY Zenon DEF LogInv
<1>2. LTypes /\ Numbers /\ WorkerOk
  BY Zenon DEF LogInv
<1>3. PICK x : x = item[t] /\ x \in LItem
  BY <1>2, Zenon DEF LTypes
<1>4. PICK b \in Nat : b = before[t]
  BY <1>2, Zenon DEF LTypes
<1>5. FlushOk("flushTest", x, b, rank) /\ "flushTest" \in Waits \ {"notify"}
  BY <1>1, <1>3, <1>4, Zenon DEF Flushes, Waits
<1>6. /\ b <= Len(messages) /\ x.seq >= 1
      /\ \A k \in 1..Len(queued) : queued[k].seq >= x.seq => b <= rank[k]
  BY <1>5, Zenon DEF FlushOk
<1>7. PICK p \in 1..Len(queued) : queued[p] = x
  BY <1>5, Zenon DEF FlushOk
<1>8. x.kind = "flush" /\ x.seq \in Nat /\ processed >= x.seq
  BY <1>3, <1>5, Zenon DEF FlushOk, LItem
<1>9. Ranks(rank) /\ Left(d) /\ Written(W(d), rank) /\ processed = (IF d = 0 THEN 0 ELSE queued[d].seq)
  BY <1>1, Zenon DEF Books
<1>10. d # 0
  <2>1. \A z \in Nat : z >= 1 => ~(0 >= z)
    BY ONLY TRUE
  <2> QED
    BY <1>6, <1>8, <1>9, <2>1, Zenon
<1>11. PICK n \in Nat : n = Len(queued)
  <2>1. queued \in Seq(LItem)
    BY <1>2, Zenon DEF LTypes
  <2> QED
    BY ONLY <2>1
<1>12. /\ d \in 1..n /\ d \in 0..n /\ W(d) \in 0..n /\ d <= W(d) /\ p \in 1..n
       /\ (p <= d => p \in 1..W(d))
  <2>1. batch \in Seq(LItem) /\ queue \in Seq(LItem) /\ (writer = "mark" => batch # <<>>)
    BY <1>2, Zenon DEF LTypes, WorkerOk
  <2>2. PICK lb \in Nat : lb = Len(batch)
    BY <2>1
  <2>3. PICK lq \in Nat : lq = Len(queue)
    BY <2>1
  <2>4. n = d + lb + lq /\ (writer = "mark" => lb > 0) /\ p \in 1..n
    BY <1>7, <1>9, <1>11, <2>1, <2>2, <2>3, NonEmpty, Zenon DEF Left
  <2>5. W(d) = d \/ (W(d) = d + 1 /\ lb > 0)
    BY <2>4, Zenon DEF W
  <2>6. n = d + lb + lq /\ d # 0
    BY <1>10, <2>4, Zenon
  <2>7. /\ d \in 1..n /\ d \in 0..n /\ d <= d /\ \A i \in 1..n : i <= d => i \in 1..d
        /\ lb > 0 => /\ d + 1 \in 0..n /\ d <= d + 1
                     /\ \A i \in 1..n : i <= d => i \in 1..(d + 1)
    BY ONLY <2>6, n \in Nat, d \in Nat, lb \in Nat, lq \in Nat, SMTT(30)
  <2> QED
    BY <2>4, <2>5, <2>7, Zenon
<1>13. PICK s \in Nat : s = Len(sink)
  <2>1. sink \in Seq(Nat)
    BY <1>2, Zenon DEF LTypes
  <2> QED
    BY ONLY <2>1
<1>14. \A a, e, f \in Nat : a <= e /\ e <= f => a <= f
  BY ONLY TRUE
<1>15. b <= rank[d] /\ rank[d] <= s
  <2>1. b <= rank[d]
    BY <1>6, <1>8, <1>9, <1>10, <1>11, <1>12, Zenon
  <2>2. rank[d] <= rank[W(d)] /\ rank[W(d)] = s
    BY <1>9, <1>11, <1>12, <1>13, Zenon DEF Ranks, Written
  <2> QED
    BY <2>1, <2>2, Zenon
<1>16. b <= s
  BY <1>14, <1>15, Zenon
<1>17. SubSeq(sink, 1, b) = SubSeq(messages, 1, b)
  <2>1. sink \in Seq(Nat) /\ messages \in Seq(Nat)
    BY <1>2, Zenon DEF LTypes
  <2>2. \A i \in 1..b : i \in 1..s
    BY ONLY <1>16, b \in Nat, s \in Nat
  <2>3. \A i \in 1..b : sink[i] = messages[i]
    BY <1>9, <1>13, <2>2, Zenon DEF Written
  <2> QED
    BY <1>6, <1>13, <1>16, <2>1, <2>3, SameBeginnings, Zenon
<1>18. flushed >= b \/ L!Overtaken(t)
  <2>1. CASE p <= d
    <3>1. rank[p] <= flushed
      BY <1>7, <1>8, <1>9, <1>12, <2>1, Zenon DEF Written
    <3>2. x.seq >= x.seq
      <4>1. \A z \in Nat : z >= z
        BY ONLY TRUE
      <4> QED
        BY <1>8, <4>1, Zenon
    <3>3. b <= rank[p]
      BY <1>6, <1>7, <3>2, Zenon
    <3>4. flushed \in Nat /\ p \in Nat
      BY <1>2, <1>12 DEF LTypes
    <3>5. \A a, e, f \in Nat : a <= e /\ e <= f => f >= a
      BY ONLY TRUE
    <3> QED
      BY <3>1, <3>3, <3>4, <3>5, Zenon
  <2>2. CASE ~(p <= d)
    <3>1. d < p /\ d # p
      BY ONLY <1>12, <2>2, d \in Nat, n \in Nat
    <3>2. queued[d].seq >= x.seq /\ queued[d].seq # x.seq
      BY <1>2, <1>7, <1>8, <1>9, <1>10, <1>11, <1>12, <3>1, Zenon DEF Numbers
    <3>3. queued[d].seq > x.seq
      <4>1. queued[d].seq \in 1..nextSeq /\ nextSeq \in Nat
        BY <1>2, <1>11, <1>12, Zenon DEF Numbers, LTypes
      <4>2. \A y \in 1..nextSeq : \A z \in Nat : y >= z /\ y # z => y > z
        BY ONLY <4>1
      <4> QED
        BY <1>8, <3>2, <4>1, <4>2, Zenon
    <3>4. d \in DOMAIN queued /\ p \in DOMAIN queued
      <4>1. queued \in Seq(LItem)
        BY <1>2, Zenon DEF LTypes
      <4>2. DOMAIN queued = 1..Len(queued)
        BY ONLY <4>1
      <4> QED
        BY <1>11, <1>12, <4>2, Zenon
    <3> QED
      BY <1>3, <1>7, <3>1, <3>3, <3>4, Zenon DEF L!Overtaken
  <2> QED
    BY <2>1, <2>2, Zenon
<1> QED
  BY <1>4, <1>13, <1>16, <1>17, <1>18, Zenon

\* FlushCovers: when flush() returns from its wait, what had been accepted before the
\* call is written, and flushed unless a later number overtook it in the queue.
THEOREM LoggerFlushCovers == L!Spec => FlushCovers
<1>1. LogInv /\ [L!Next]_(L!vars) =>
        [\A t \in Thread :
            pc[t] = "flushTest" /\ pc'[t] = "idle" =>
                /\ before[t] <= Len(sink)
                /\ SubSeq(sink, 1, before[t]) = SubSeq(messages, 1, before[t])
                /\ flushed >= before[t] \/ L!Overtaken(t)]_(L!vars)
  BY FlushReturnsWhenPassed, PassedIsCovered, Zenon
<1> QED
  BY <1>1, LogInvAlways, PTL DEF L!Spec, FlushCovers, L!FlushCovers
=============================================================================
