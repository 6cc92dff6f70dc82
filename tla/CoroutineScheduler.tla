------------------------- MODULE CoroutineScheduler -------------------------
(***************************************************************************)
(* coro/coroutine_scheduler.cpp and coro/task.h.  A coroutine is a chain   *)
(* of frames: each awaits the next, which its Task object owns.  The       *)
(* scheduler keeps two handles per id: the root, to destroy the chain, and *)
(* the frame that yielded last, to resume it.  One thread drives it; a     *)
(* coroutine may itself resume, schedule or destroy another one.  One that *)
(* destroys or resumes itself is outside the model (see the README).       *)
(*                                                                         *)
(* Reading a frame that has been freed is undefined: done() of such a      *)
(* handle may say anything.                                                *)
(***************************************************************************)
EXTENDS Integers, Sequences

CONSTANTS
    MaxIds,     \* bound: coroutines created
    MaxFrames,  \* bound: frames allocated
    MaxReady    \* bound: length of ready_

VARIABLES
    coros,      \* coros_: the entry of an id
    next_id,    \* next_id_
    ready,      \* ready_
    frame,      \* the frames: what each does and which one awaits it, 0 for none
    active      \* tls_id_: the ids being resumed, the inner one last

vars == <<coros, next_id, ready, frame, active>>

None == [root |-> -1, current |-> -1]
Status(f) == frame[f].status

Init ==
    /\ coros = [i \in 1..MaxIds |-> None] /\ next_id = 1
    /\ ready = <<>> /\ frame = <<>> /\ active = <<>>

NewFrame(awaiter, status) == Append(frame, [status |-> status, awaiter |-> awaiter])

\* The frames of a chain, from one of them down to the one that runs or yielded.
Chain(f) ==
    LET below[g \in DOMAIN frame] ==
            {g} \cup UNION {below[h] : h \in {h \in DOMAIN frame : frame[h].awaiter = g
                                                               /\ Status(h) # "freed"}}
    IN  IF f > 0 THEN below[f] ELSE {}

\* destroy() of a root frees the frames its Task objects own.
Free(f) ==
    [g \in DOMAIN frame |-> IF g \in Chain(f) THEN [frame[g] EXCEPT !.status = "freed"] ELSE frame[g]]

Outside(i) == i \notin {active[k] : k \in DOMAIN active}

-----------------------------------------------------------------------------
Create ==
    /\ next_id <= MaxIds /\ Len(frame) < MaxFrames
    /\ frame' = NewFrame(0, "suspended")
    /\ coros' = [coros EXCEPT ![next_id] = [root |-> Len(frame) + 1, current |-> Len(frame) + 1]]
    /\ next_id' = next_id + 1
    /\ UNCHANGED <<ready, active>>

\* The old frames go first; a Task without a handle leaves the entry empty.
Restart(i) ==
    /\ coros[i] # None /\ Outside(i) /\ Len(frame) < MaxFrames
    /\ \/ /\ frame' = Append(Free(coros[i].root), [status |-> "suspended", awaiter |-> 0])
          /\ coros' = [coros EXCEPT ![i] = [root |-> Len(frame) + 1, current |-> Len(frame) + 1]]
       \/ /\ frame' = Free(coros[i].root)
          /\ coros' = [coros EXCEPT ![i] = [root |-> 0, current |-> 0]]
    /\ UNCHANGED <<next_id, ready, active>>

Destroy(i) ==
    /\ coros[i] # None /\ Outside(i)
    /\ frame' = Free(coros[i].root) /\ coros' = [coros EXCEPT ![i] = None]
    /\ UNCHANGED <<next_id, ready, active>>

Resumable(i) == coros[i].current > 0

Schedule(i) ==
    /\ Resumable(i) /\ Len(ready) < MaxReady
    /\ ready' = Append(ready, i)
    /\ UNCHANGED <<coros, next_id, frame, active>>

\* What done() may say of a handle.
Done(f, frames) == IF frames[f].status = "freed" THEN BOOLEAN ELSE {frames[f].status = "final"}

\* The end of Resume(): current is cleared when its frame is done.
ResumeEnds(i, entry, frames) ==
    \E done \in IF entry.current > 0 THEN Done(entry.current, frames) ELSE {FALSE} :
        coros' = [coros EXCEPT ![i] = IF done THEN [entry EXCEPT !.current = 0] ELSE entry]

\* Resume(): a frame that is done is not resumed.  (A freed frame cannot be.)
Resume(i) ==
    /\ Resumable(i) /\ Outside(i)
    /\ LET f == coros[i].current
       IN  \/ /\ Status(f) = "suspended"
              /\ frame' = [frame EXCEPT ![f].status = "running"]
              /\ active' = Append(active, i)
              /\ UNCHANGED coros
           \/ /\ TRUE \in Done(f, frame)
              /\ ResumeEnds(i, coros[i], frame)
              /\ UNCHANGED <<frame, active>>
    /\ UNCHANGED next_id

\* RunOnce() drops the ids that have nothing to resume, then resumes the next.
RunOnce ==
    \/ \E k \in DOMAIN ready :
        /\ Resumable(ready[k]) /\ \A j \in 1..k - 1 : ~Resumable(ready[j])
        /\ Resume(ready[k])
        /\ ready' = SubSeq(ready, k + 1, Len(ready))
    \/ /\ ready # <<>> /\ \A k \in DOMAIN ready : ~Resumable(ready[k])
       /\ ready' = <<>>
       /\ UNCHANGED <<coros, next_id, frame, active>>

\* The running coroutine: its innermost frame awaits a new one, yields, or ends.
Running(f) ==
    /\ active # <<>> /\ Status(f) = "running"
    /\ f \in Chain(coros[active[Len(active)]].root)
Leave == active' = SubSeq(active, 1, Len(active) - 1)

AwaitChild(f) ==
    /\ Running(f) /\ Len(frame) < MaxFrames
    /\ frame' = [NewFrame(f, "running") EXCEPT ![f].status = "awaiting"]
    /\ UNCHANGED <<coros, next_id, ready, active>>

\* YieldAwaiter: await_suspend records the frame as the current one.
Yield(f) ==
    /\ Running(f)
    /\ frame' = [frame EXCEPT ![f].status = "suspended"]
    /\ LET i == active[Len(active)]
       IN  ResumeEnds(i, [coros[i] EXCEPT !.current = f], frame')
    /\ Leave
    /\ UNCHANGED <<next_id, ready>>

\* FinalAwaiter: the frame that awaits continues and drops the Task of the finished
\* one, which frees it; the root stays, suspended at its end.
Finish(f) ==
    LET up == frame[f].awaiter
        i  == active[Len(active)]
    IN  /\ Running(f)
        /\ \/ /\ up > 0
              /\ frame' = [frame EXCEPT ![f].status = "freed", ![up].status = "running"]
              /\ UNCHANGED <<coros, active>>
           \/ /\ up = 0
              /\ frame' = [frame EXCEPT ![f].status = "final"]
              /\ ResumeEnds(i, coros[i], frame')
              /\ Leave
        /\ UNCHANGED <<next_id, ready>>

Next ==
    \/ Create \/ RunOnce
    \/ \E i \in 1..MaxIds :
        \/ Restart(i) \/ Destroy(i) \/ Schedule(i)
        \/ Resume(i) /\ UNCHANGED ready
    \/ \E f \in DOMAIN frame : AwaitChild(f) \/ Yield(f) \/ Finish(f)

Spec == Init /\ [][Next]_vars

-----------------------------------------------------------------------------
\* "current" is the frame that is suspended and will be resumed: between two calls
\* Resume() never leaves a finished or a freed frame in the entry.
CurrentIsSuspended ==
    \A i \in 1..MaxIds :
        Outside(i) /\ Resumable(i) => Status(coros[i].current) = "suspended"
=============================================================================
