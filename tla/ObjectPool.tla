----------------------------- MODULE ObjectPool -----------------------------
(***************************************************************************)
(* memory/object_pool.h: threads take objects from the pool and give them  *)
(* back, as unique_ptrs or through the deleter of a shared_ptr that may    *)
(* outlive the pool.  The mutex is dropped around the factory and the      *)
(* reset callback, so reserve() and release() act on what they saw before. *)
(*                                                                         *)
(* The pool is destroyed while no thread is inside it; a deleter that has  *)
(* found the lifetime token alive counts as inside, which the code leaves  *)
(* to the application.  The counters of stats() are left out.              *)
(***************************************************************************)
EXTENDS Integers, Sequences, FiniteSets, Functions

CONSTANTS
    Thread,
    MaxIdle,        \* m_maxIdle
    Reserves,       \* the counts passed to reserve()
    MaxObjects      \* bound: objects ever created

ASSUME ObjectAssumption == MaxIdle \in Nat /\ MaxObjects \in Nat /\ Reserves \subseteq Nat

VARIABLES
    alive,      \* the pool, and with it m_lifetime, exists
    idle,       \* m_idle
    owned,      \* the objects a thread holds as unique_ptrs
    shared,     \* the objects held by shared_ptrs from makeShared()
    deleted,    \* history: how often an object was destroyed
    used,       \* history: objects handed out since they were last reset
    born,       \* objects constructed, the names 1..born
    pc,         \* what a thread does in the pool
    job         \* the objects a call works on, 0 for one it still has to create

vars == <<alive, idle, owned, shared, deleted, used, born, pc, job>>

Goto(t, label, j) == pc' = [pc EXCEPT ![t] = label] /\ job' = [job EXCEPT ![t] = j]
Destroyed(objects) == deleted' = [o \in 1..MaxObjects |-> deleted[o] + IF o \in objects THEN 1 ELSE 0]

Init ==
    /\ alive = TRUE /\ idle = <<>> /\ shared = {} /\ used = {} /\ born = 0
    /\ owned = [t \in Thread |-> {}] /\ deleted = [o \in 1..MaxObjects |-> 0]
    /\ pc = [t \in Thread |-> "out"] /\ job = [t \in Thread |-> <<>>]

-----------------------------------------------------------------------------
\* acquire() or makeShared(), which hands the object to a shared_ptr.
Acquire(t) ==
    /\ alive /\ pc[t] = "out" /\ born < MaxObjects
    /\ \E kind \in {"acquire", "makeShared"} : Goto(t, kind, <<>>)
    /\ UNCHANGED <<alive, idle, owned, shared, deleted, used, born>>

HandOut(t, o) ==
    /\ owned' = IF pc[t] = "makeShared" THEN owned ELSE [owned EXCEPT ![t] = @ \cup {o}]
    /\ shared' = IF pc[t] = "makeShared" THEN shared \cup {o} ELSE shared
    /\ used' = used \cup {o}
    /\ Goto(t, "out", <<>>)

AcquireIdle(t) ==
    /\ pc[t] \in {"acquire", "makeShared"} /\ job[t] = <<>> /\ idle # <<>>
    /\ HandOut(t, idle[Len(idle)])
    /\ idle' = SubSeq(idle, 1, Len(idle) - 1)
    /\ UNCHANGED <<alive, deleted, born>>

AcquireFindsNone(t) ==
    /\ pc[t] \in {"acquire", "makeShared"} /\ job[t] = <<>> /\ idle = <<>>
    /\ Goto(t, pc[t], <<0>>)
    /\ UNCHANGED <<alive, idle, owned, shared, deleted, used, born>>

\* createObject(): the factory runs outside the mutex.
CreateObject(t) ==
    /\ pc[t] \in {"acquire", "makeShared"} /\ job[t] = <<0>> /\ born < MaxObjects
    /\ born' = born + 1
    /\ HandOut(t, born + 1)
    /\ UNCHANGED <<alive, idle, deleted>>

\* The factory throws: the call is left, and what reserve() had created goes with it.
CreateThrows(t) ==
    /\ pc[t] = "reserve" \/ (pc[t] \in {"acquire", "makeShared"} /\ job[t] = <<0>>)
    /\ \E n \in 0..(Len(job[t]) - 1) :
        /\ born + n <= MaxObjects /\ born' = born + n
        /\ Destroyed((born + 1)..(born + n))
    /\ Goto(t, "out", <<>>)
    /\ UNCHANGED <<alive, idle, owned, shared, used>>

\* create(): a new object, past the pool.
Create(t) ==
    /\ alive /\ pc[t] = "out" /\ born < MaxObjects
    /\ born' = born + 1
    /\ HandOut(t, born + 1)
    /\ UNCHANGED <<alive, idle, deleted>>

\* release() copies the reset callback under the mutex.
Release(t, o) ==
    /\ alive /\ pc[t] = "out" /\ o \in owned[t]
    /\ owned' = [owned EXCEPT ![t] = @ \ {o}]
    /\ Goto(t, "reset", <<o>>)
    /\ UNCHANGED <<alive, idle, shared, deleted, used, born>>

\* It runs the callback outside; with no room for idle objects at all it ends.
ReleaseResets(t) ==
    /\ pc[t] = "reset"
    /\ used' = used \ Range(job[t])
    /\ IF MaxIdle = 0 THEN Destroyed(Range(job[t])) /\ Goto(t, "out", <<>>)
       ELSE Goto(t, "return", job[t]) /\ UNCHANGED deleted
    /\ UNCHANGED <<alive, idle, owned, shared, born>>

\* The callback throws: release() is left and the object goes with it.
ResetThrows(t) ==
    /\ pc[t] = "reset"
    /\ Destroyed(Range(job[t])) /\ Goto(t, "out", <<>>)
    /\ UNCHANGED <<alive, idle, owned, shared, used, born>>

\* Mutant: what fits was computed before the mutex was dropped.
PutIdleUnchecked(objects) ==
    /\ idle' = idle \o objects
    /\ UNCHANGED deleted
\* The objects that fit are kept, the others are destroyed.
PutIdle(objects) ==
    LET room == MaxIdle - Len(idle)
        n    == IF room < Len(objects) THEN room ELSE Len(objects)
    IN  /\ idle' = idle \o SubSeq(objects, 1, n)
        /\ Destroyed(Range(SubSeq(objects, n + 1, Len(objects))))

\* The last step of release() and of reserve(), under the mutex.
Return(t) ==
    /\ pc[t] = "return"
    /\ PutIdle(job[t])
    /\ Goto(t, "out", <<>>)
    /\ UNCHANGED <<alive, owned, shared, used, born>>

Reserve(t, count) ==
    /\ alive /\ pc[t] = "out" /\ count > 0 /\ MaxIdle > 0
    /\ Len(idle) < count /\ Len(idle) < MaxIdle
    /\ Goto(t, "reserve", [k \in 1..((IF count < MaxIdle THEN count ELSE MaxIdle) - Len(idle)) |-> 0])
    /\ UNCHANGED <<alive, idle, owned, shared, deleted, used, born>>

\* The objects are created outside the mutex.
ReserveCreates(t) ==
    /\ pc[t] = "reserve" /\ born + Len(job[t]) <= MaxObjects
    /\ born' = born + Len(job[t])
    /\ Goto(t, "return", [k \in 1..Len(job[t]) |-> born + k])
    /\ UNCHANGED <<alive, idle, owned, shared, deleted, used>>

\* The last shared_ptr to an object goes: its deleter tests the lifetime token.
DropShared(t, o) ==
    /\ pc[t] = "out" /\ o \in shared
    /\ shared' = shared \ {o}
    /\ IF alive THEN Goto(t, "reset", <<o>>) /\ UNCHANGED deleted
       ELSE Destroyed({o}) /\ UNCHANGED <<pc, job>>
    /\ UNCHANGED <<alive, idle, owned, used, born>>

\* A holder destroys its unique_ptr.
Discard(t, o) ==
    /\ pc[t] = "out" /\ o \in owned[t]
    /\ owned' = [owned EXCEPT ![t] = @ \ {o}]
    /\ Destroyed({o})
    /\ UNCHANGED <<alive, idle, shared, used, born, pc, job>>

Clear(t) ==
    /\ alive /\ pc[t] = "out"
    /\ Destroyed(Range(idle)) /\ idle' = <<>>
    /\ UNCHANGED <<alive, owned, shared, used, born, pc, job>>

DestroyPool ==
    /\ alive /\ \A t \in Thread : pc[t] = "out"
    /\ alive' = FALSE /\ idle' = <<>> /\ Destroyed(Range(idle))
    /\ UNCHANGED <<owned, shared, used, born, pc, job>>

Next ==
    \/ \E t \in Thread :
        \/ Acquire(t) \/ AcquireIdle(t) \/ AcquireFindsNone(t) \/ CreateObject(t) \/ Create(t)
        \/ ReleaseResets(t) \/ ResetThrows(t) \/ Return(t) \/ ReserveCreates(t) \/ Clear(t)
        \/ CreateThrows(t)
        \/ \E count \in Reserves : Reserve(t, count)
        \/ \E o \in 1..born : Release(t, o) \/ DropShared(t, o) \/ Discard(t, o)
    \/ DestroyPool

Spec == Init /\ [][Next]_vars

-----------------------------------------------------------------------------
\* Where object o is: in the pool, held, on its way through a call, or destroyed,
\* each as often as it is so.
Places(o) ==
         {<<"idle", k>> : k \in {k \in DOMAIN idle : idle[k] = o}}
    \cup {<<"owned", t>> : t \in {t \in Thread : o \in owned[t]}}
    \cup {<<"shared", n>> : n \in IF o \in shared THEN {1} ELSE {}}
    \cup {<<"call", t>> : t \in {t \in Thread :
                                pc[t] \in {"reset", "return"} /\ o \in Range(job[t])}}
    \cup {<<"deleted", n>> : n \in 1..deleted[o]}

TypeOK ==
    /\ alive \in BOOLEAN /\ idle \in Seq(1..born) /\ born \in 0..MaxObjects
    /\ owned \in [Thread -> SUBSET (1..born)] /\ shared \subseteq 1..born /\ used \subseteq 1..born
    /\ pc \in [Thread -> {"out", "acquire", "makeShared", "reset", "return", "reserve"}]

\* No object is lost, shared by two holders or destroyed twice, whichever calls
\* overlap and whether the pool or the shared_ptr goes first; the pool keeps at most
\* maxIdle objects, each of them reset since it was last handed out.
ObjectsConserved ==
    /\ \A o \in 1..born : LET places == Places(o) IN \E p \in places : places = {p}
    /\ Len(idle) <= MaxIdle /\ Range(idle) \cap used = {}
=============================================================================
