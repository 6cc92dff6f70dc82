------------------------ MODULE BlockingQueueProofs ------------------------
(***************************************************************************)
(* Safety of BlockingQueue for every set of threads and items and every    *)
(* capacity.                                                               *)
(***************************************************************************)
EXTENDS BlockingQueue, TLAPS, FiniteSetTheorems

\* What a pop returns is what was accepted first among what is queued: moving the
\* head of the queue to the end of the delivered items keeps their concatenation.
LEMMA MoveHead ==
    ASSUME NEW S, NEW d \in Seq(S), NEW q \in Seq(S), q # <<>>
    PROVE  Append(d, Head(q)) \o Tail(q) = d \o q
<1>1. Len(Append(d, Head(q)) \o Tail(q)) = Len(d \o q)
  OBVIOUS
<1>2. ASSUME NEW i \in 1..Len(d \o q)
      PROVE  (Append(d, Head(q)) \o Tail(q))[i] = (d \o q)[i]
  OBVIOUS
<1>3. QED
  BY <1>1, <1>2

\* The definitions of the operations, to expand them all in one place.
USE DEF Q!qvars, Q!QInit, Q!HasRoom, Q!Accept, Q!Deliver, Q!Close

-----------------------------------------------------------------------------
\* Every operation of the queue leaves every variable in its type.
LEMMA TypeCorrect == Spec => []TypeOK
<1>1. Init => TypeOK
  <2> SUFFICES ASSUME Init PROVE TypeOK
    OBVIOUS
  <2>1. queue \in Seq(Item) /\ accepted \in Seq(Item) /\ delivered \in Seq(Item)
    BY DEF Init
  <2>2. stopped \in BOOLEAN /\ sawStop \in BOOLEAN
    BY DEF Init
  <2>3. pc \in [Thread -> PC] /\ arg \in [Thread -> Item \cup {NoItem}]
    BY DEF Init, PC
  <2>4. QED
    BY <2>1, <2>2, <2>3 DEF Init, TypeOK
<1>2. TypeOK /\ [Next]_vars => TypeOK'
  <2> SUFFICES ASSUME TypeOK, [Next]_vars PROVE TypeOK'
    OBVIOUS
  <2> USE DEF TypeOK, PC
  <2>1. CASE UNCHANGED vars
    BY <2>1 DEF vars
  <2>2. ASSUME NEW t \in Thread, NEW x \in Item, CallPush(t, x) PROVE TypeOK'
    BY <2>2, QueueAssumption DEF CallPush
  <2>3. ASSUME NEW t \in Thread, PushWait(t) PROVE TypeOK'
    BY <2>3 DEF PushWait
  <2>4. ASSUME NEW t \in Thread, PushThrow(t) PROVE TypeOK'
    BY <2>4 DEF PushThrow
  <2>5. ASSUME NEW t \in Thread, PushAccept(t) PROVE TypeOK'
    BY <2>5 DEF PushAccept
  <2>6. ASSUME NEW t \in Thread, PushSignal(t) PROVE TypeOK'
    BY <2>6 DEF PushSignal, NotifyOne, Resume, WaitingNotEmpty
  <2>7. ASSUME NEW t \in Thread, NEW x \in Item, TryPush(t, x) PROVE TypeOK'
    <3>1. CASE UNCHANGED <<queue, stopped, accepted, delivered, pc>>
      BY <2>7, <3>1 DEF TryPush
    <3>2. CASE Q!Accept(x) /\ NotifyOne(t, WaitingNotEmpty, "idle")
      <4>1. /\ pc' \in [Thread -> PC]
            /\ \A u \in Thread : (pc'[u] \in {"push", "waitNotFull"}) <=> (arg[u] # NoItem)
        BY <2>7, <3>2, SMTT(30) DEF TryPush, NotifyOne, Resume, WaitingNotEmpty
      <4>2. QED
        BY <2>7, <3>2, <4>1 DEF TryPush
    <3>3. QED
      BY <2>7, <3>1, <3>2 DEF TryPush
  <2>8. ASSUME NEW t \in Thread, CallPop(t) PROVE TypeOK'
    BY <2>8 DEF CallPop
  <2>9. ASSUME NEW t \in Thread, PopWait(t) PROVE TypeOK'
    BY <2>9 DEF PopWait
  <2>10. ASSUME NEW t \in Thread, PopThrow(t) PROVE TypeOK'
    BY <2>10 DEF PopThrow
  <2>11. ASSUME NEW t \in Thread, PopTake(t) PROVE TypeOK'
    BY <2>11 DEF PopTake
  <2>12. ASSUME NEW t \in Thread, PopSignal(t) PROVE TypeOK'
    BY <2>12 DEF PopSignal, NotifyOne, Resume, WaitingNotFull
  <2>13. ASSUME NEW t \in Thread, PopTimeout(t) PROVE TypeOK'
    BY <2>13 DEF PopTimeout
  <2>14. ASSUME NEW t \in Thread, PopNothing(t) PROVE TypeOK'
    BY <2>14 DEF PopNothing
  <2>15. ASSUME NEW t \in Thread, TryPop(t) PROVE TypeOK'
    BY <2>15 DEF TryPop
  <2>16. ASSUME NEW t \in Thread, Stop(t) PROVE TypeOK'
    BY <2>16 DEF Stop, Resume, WaitingNotFull, WaitingNotEmpty
  <2>17. ASSUME NEW t \in Thread, SpuriousWakeup(t) PROVE TypeOK'
    BY <2>17 DEF SpuriousWakeup, Resume, WaitingNotFull, WaitingNotEmpty
  <2>18. QED
    BY <2>1, <2>2, <2>3, <2>4, <2>5, <2>6, <2>7, <2>8, <2>9, <2>10, <2>11, <2>12,
       <2>13, <2>14, <2>15, <2>16, <2>17 DEF Next, Step, Call
<1>3. QED
  BY <1>1, <1>2, PTL DEF Spec

-----------------------------------------------------------------------------
\* FifoNoLoss, CapacityRespected and StopMeansDrained are inductive together
\* with TypeOK: each is disturbed only by an accept, a take or a stop.
SafetyInv == TypeOK /\ FifoNoLoss /\ CapacityRespected /\ StopMeansDrained

\* The one step of each kind that changes the queue.
LEMMA AcceptSafe ==
    ASSUME SafetyInv, NEW x \in Item, Q!Accept(x), sawStop' = sawStop
    PROVE  FifoNoLoss' /\ CapacityRespected' /\ StopMeansDrained'
<1>1. FifoNoLoss'
  <2>1. delivered \in Seq(Item) /\ queue \in Seq(Item)
    BY DEF SafetyInv, TypeOK
  <2>2. Append(delivered \o queue, x) = delivered \o Append(queue, x)
    BY ONLY <2>1, x \in Item
  <2>3. QED
    BY <2>2 DEF SafetyInv, FifoNoLoss
<1>2. CapacityRespected'
  BY QueueAssumption DEF SafetyInv, TypeOK, CapacityRespected
<1>3. StopMeansDrained'
  BY DEF SafetyInv, StopMeansDrained
<1>4. QED
  BY <1>1, <1>2, <1>3

\* The same for a delivery to the caller.
LEMMA DeliverSafe ==
    ASSUME SafetyInv, Q!Deliver, sawStop' = sawStop
    PROVE  FifoNoLoss' /\ CapacityRespected' /\ StopMeansDrained'
<1>1. FifoNoLoss'
  BY MoveHead, SMTT(30) DEF SafetyInv, TypeOK, FifoNoLoss
<1>2. CapacityRespected'
  BY QueueAssumption DEF SafetyInv, TypeOK, CapacityRespected
<1>3. StopMeansDrained'
  BY DEF SafetyInv, StopMeansDrained
<1>4. QED
  BY <1>1, <1>2, <1>3

\* Whatever threads call push, pop, popFor, tryPush, tryPop and stop in whatever
\* order, the queue never exceeds its capacity, delivers what it accepted in
\* order and without loss, and is empty once a consumer was told it is stopped.
THEOREM QueueSafety == Spec => [](FifoNoLoss /\ CapacityRespected /\ StopMeansDrained)
<1>1. Init => FifoNoLoss /\ CapacityRespected /\ StopMeansDrained
  BY QueueAssumption DEF Init, FifoNoLoss, CapacityRespected, StopMeansDrained
<1>2. ASSUME SafetyInv, [Next]_vars
      PROVE  FifoNoLoss' /\ CapacityRespected' /\ StopMeansDrained'
  <2>1. CASE UNCHANGED <<queue, stopped, accepted, delivered, sawStop>>
    BY <1>2, <2>1 DEF SafetyInv, FifoNoLoss, CapacityRespected, StopMeansDrained
  <2>2. ASSUME NEW t \in Thread, PushAccept(t)
        PROVE  FifoNoLoss' /\ CapacityRespected' /\ StopMeansDrained'
    <3>1. arg[t] \in Item
      BY <1>2, <2>2 DEF SafetyInv, TypeOK, PushAccept
    <3>2. QED
      BY <1>2, <2>2, <3>1, AcceptSafe DEF PushAccept
  <2>3. ASSUME NEW t \in Thread, NEW x \in Item, TryPush(t, x)
        PROVE  FifoNoLoss' /\ CapacityRespected' /\ StopMeansDrained'
    BY <1>2, <2>1, <2>3, AcceptSafe DEF TryPush
  <2>4. ASSUME NEW t \in Thread, PopTake(t) \/ TryPop(t)
        PROVE  FifoNoLoss' /\ CapacityRespected' /\ StopMeansDrained'
    BY <1>2, <2>4, DeliverSafe DEF PopTake, TryPop
  <2>5. ASSUME NEW t \in Thread, PopThrow(t)
        PROVE  FifoNoLoss' /\ CapacityRespected' /\ StopMeansDrained'
    BY <1>2, <2>5 DEF PopThrow, SafetyInv, FifoNoLoss, CapacityRespected, StopMeansDrained
  <2>6. ASSUME NEW t \in Thread, Stop(t)
        PROVE  FifoNoLoss' /\ CapacityRespected' /\ StopMeansDrained'
    BY <1>2, <2>6 DEF Stop, SafetyInv, FifoNoLoss, CapacityRespected, StopMeansDrained
  <2>7. QED
    BY <1>2, <2>1, <2>2, <2>3, <2>4, <2>5, <2>6
       DEF Next, Step, Call, vars, CallPush, PushWait, PushThrow, PushSignal, CallPop,
           PopWait, PopSignal, PopTimeout, PopNothing, SpuriousWakeup
<1>3. QED
  BY <1>1, <1>2, TypeCorrect, PTL DEF Spec, SafetyInv

\* BlockingQueue implements the atomic bounded queue: accepting, taking and
\* stopping are atomic, and waiting, waking and notifying are invisible.
THEOREM QueueRefinement == Spec => RefinesBoundedQueue
<1>1. Init => Q!QInit
  BY DEF Init
<1>2. ASSUME TypeOK, [Next]_vars PROVE [Q!QNext]_(Q!qvars)
  <2>1. CASE UNCHANGED <<queue, stopped, accepted, delivered>>
    BY <2>1
  <2>2. ASSUME NEW t \in Thread, PushAccept(t) PROVE Q!QNext
    <3>1. arg[t] \in Item
      BY <1>2, <2>2 DEF TypeOK, PushAccept
    <3>2. QED
      BY <2>2, <3>1 DEF PushAccept, Q!QNext
  <2>3. ASSUME NEW t \in Thread, NEW x \in Item, TryPush(t, x)
        PROVE  [Q!QNext]_(Q!qvars)
    BY <2>3 DEF TryPush, Q!QNext
  <2>4. ASSUME NEW t \in Thread, PopTake(t) \/ TryPop(t) \/ Stop(t) PROVE Q!QNext
    BY <2>4 DEF PopTake, TryPop, Stop, Q!QNext
  <2>5. QED
    BY <1>2, <2>1, <2>2, <2>3, <2>4
       DEF Next, Step, Call, vars, CallPush, PushWait, PushThrow, PushSignal, CallPop,
           PopWait, PopThrow, PopSignal, PopTimeout, PopNothing, SpuriousWakeup
<1>3. QED
  BY <1>1, <1>2, TypeCorrect, PTL DEF Spec, RefinesBoundedQueue, Q!QSpec

-----------------------------------------------------------------------------
\* How the number of threads in a set changes when one joins, leaves or is
\* replaced by another.
LEMMA Count ==
    ASSUME NEW A \in SUBSET Thread, NEW B \in SUBSET Thread
    PROVE  /\ Cardinality(A) \in Nat /\ Cardinality(B) \in Nat
           /\ A \subseteq B => Cardinality(A) <= Cardinality(B)
           /\ \A t \in Thread : t \notin A /\ A \cup {t} \subseteq B
                                 => Cardinality(A) + 1 <= Cardinality(B)
           /\ \A t \in Thread : A \ {t} \subseteq B
                                 => Cardinality(A) - 1 <= Cardinality(B)
           /\ \A t, u \in Thread : u \notin A /\ (A \ {t}) \cup {u} \subseteq B
                                 => Cardinality(A) <= Cardinality(B)
<1>1. IsFiniteSet(A) /\ IsFiniteSet(B) /\ Cardinality(A) \in Nat /\ Cardinality(B) \in Nat
  BY QueueAssumption, FS_Subset, FS_CardinalityType
<1>2. ASSUME NEW C, C \subseteq B PROVE Cardinality(C) <= Cardinality(B)
  BY <1>1, <1>2, FS_Subset
<1>3. ASSUME NEW t \in Thread, t \notin A, A \cup {t} \subseteq B
      PROVE  Cardinality(A) + 1 <= Cardinality(B)
  <2>1. Cardinality(A \cup {t}) <= Cardinality(B)
    BY <1>2, <1>3
  <2>2. Cardinality(A \cup {t}) = Cardinality(A) + 1
    BY <1>1, <1>3, FS_AddElement
  <2>3. QED
    BY <1>1, <2>1, <2>2
<1>4. ASSUME NEW t \in Thread, A \ {t} \subseteq B
      PROVE  Cardinality(A) - 1 <= Cardinality(B)
  <2>1. Cardinality(A \ {t}) <= Cardinality(B)
    BY <1>2, <1>4
  <2>2. Cardinality(A \ {t}) = IF t \in A THEN Cardinality(A) - 1 ELSE Cardinality(A)
    BY <1>1, FS_RemoveElement
  <2>3. QED
    BY <1>1, <2>1, <2>2
<1>5. ASSUME NEW t \in Thread, NEW u \in Thread, u \notin A, (A \ {t}) \cup {u} \subseteq B
      PROVE  Cardinality(A) <= Cardinality(B)
  <2>1. IsFiniteSet(A \ {t}) /\
        Cardinality(A \ {t}) = IF t \in A THEN Cardinality(A) - 1 ELSE Cardinality(A)
    BY <1>1, FS_RemoveElement
  <2>2. Cardinality((A \ {t}) \cup {u}) = Cardinality(A \ {t}) + 1
    BY <1>5, <2>1, FS_AddElement
  <2>3. Cardinality((A \ {t}) \cup {u}) <= Cardinality(B)
    BY <1>2, <1>5
  <2>4. QED
    BY <1>1, <2>1, <2>2, <2>3
<1>6. QED
  BY <1>1, <1>2, <1>3, <1>4, <1>5

\* No consumer sleeps while an item is queued that nobody is on the way to.
LEMMA NotEmptyStep ==
    ASSUME TypeOK, NoLostNotEmpty, Next PROVE NoLostNotEmpty'
<1> DEFINE E == NotEmptySignals
<1> USE DEF TypeOK, PC
<1>a. /\ E \in SUBSET Thread /\ E' \in SUBSET Thread
      /\ Len(queue) \in Nat
  BY DEF NotEmptySignals
<1>b. ASSUME stopped' = stopped, WaitingNotEmpty' \subseteq WaitingNotEmpty,
             \/ queue' = queue /\ E \subseteq E'
             \/ Len(queue') = Len(queue) - 1 /\ \E t \in Thread : E \ {t} \subseteq E'
             \/ /\ Len(queue') = Len(queue) + 1
                /\ \E t \in Thread : t \notin E /\ E \cup {t} \subseteq E'
             \/ queue' = queue /\ \E t, u \in Thread : u \notin E /\ (E \ {t}) \cup {u} \subseteq E'
      PROVE  NoLostNotEmpty'
  <2> HIDE DEF E
  <2>1. Len(queue) <= Cardinality(E) => Len(queue)' <= Cardinality(E')
    <3>1. CASE queue' = queue /\ E \subseteq E'
      BY <1>a, <3>1, Count
    <3>2. CASE Len(queue') = Len(queue) - 1 /\ \E t \in Thread : E \ {t} \subseteq E'
      BY <1>a, <3>2, Count
    <3>3. CASE /\ Len(queue') = Len(queue) + 1
               /\ \E t \in Thread : t \notin E /\ E \cup {t} \subseteq E'
      <4>1. PICK t \in Thread : t \notin E /\ E \cup {t} \subseteq E'
        BY <3>3
      <4>2. Cardinality(E) \in Nat /\ Cardinality(E') \in Nat /\ Cardinality(E) + 1 <= Cardinality(E')
        BY ONLY <1>a, <4>1, Count
      <4>3. QED
        BY <1>a, <3>3, <4>2
    <3>4. CASE queue' = queue /\ \E t, u \in Thread : u \notin E /\ (E \ {t}) \cup {u} \subseteq E'
      BY <1>a, <3>4, Count, SMTT(30)
    <3>5. QED
      BY <1>b, <3>1, <3>2, <3>3, <3>4
  <2>2. QED
    BY <1>b, <2>1 DEF NoLostNotEmpty, E
<1>c. ASSUME queue' = <<>>, stopped' = FALSE PROVE NoLostNotEmpty'
  <2>1. Len(queue') = 0 /\ Cardinality(E') \in Nat
    BY <1>a, <1>c, Count, SMTT(30)
  <2>2. QED
    BY <1>c, <2>1 DEF NoLostNotEmpty
<1>d. ASSUME WaitingNotEmpty' = {} PROVE NoLostNotEmpty'
  BY <1>d DEF NoLostNotEmpty
<1> USE DEF WaitingNotEmpty, WaitingNotFull, NotEmptySignals, NotifyOne, Resume
<1>1. ASSUME NEW t \in Thread, NEW x \in Item, CallPush(t, x) PROVE NoLostNotEmpty'
  BY <1>1, <1>b DEF CallPush
<1>2. ASSUME NEW t \in Thread, PushWait(t) PROVE NoLostNotEmpty'
  BY <1>2, <1>b DEF PushWait
<1>3. ASSUME NEW t \in Thread, PushThrow(t) PROVE NoLostNotEmpty'
  BY <1>3, <1>b DEF PushThrow
<1>4. ASSUME NEW t \in Thread, PushAccept(t) PROVE NoLostNotEmpty'
  <2>1. Len(queue') = Len(queue) + 1 /\ t \notin E /\ E \cup {t} \subseteq E'
    BY <1>4 DEF PushAccept
  <2>2. stopped' = stopped /\ WaitingNotEmpty' \subseteq WaitingNotEmpty
    BY <1>4 DEF PushAccept
  <2>3. QED
    BY <2>1, <2>2, <1>b
<1>5. ASSUME NEW t \in Thread, PushSignal(t) PROVE NoLostNotEmpty'
  <2>1. CASE WaitingNotEmpty = {}
    <3>1. WaitingNotEmpty' = {}
      BY <1>5, <2>1 DEF PushSignal
    <3>2. QED
      BY <3>1, <1>d
  <2>2. CASE WaitingNotEmpty # {}
    <3>1. PICK u \in WaitingNotEmpty :
             pc' = [pc EXCEPT ![t] = "idle", ![u] = Resume(pc[u])]
      BY <1>5, <2>2 DEF PushSignal
    <3>2. u \notin E /\ (E \ {t}) \cup {u} \subseteq E' /\ WaitingNotEmpty' \subseteq WaitingNotEmpty
      BY <1>5, <3>1 DEF PushSignal
    <3>3. QED
      BY <1>5, <1>b, <3>2 DEF PushSignal
  <2>3. QED
    BY <2>1, <2>2
<1>6. ASSUME NEW t \in Thread, NEW x \in Item, TryPush(t, x) PROVE NoLostNotEmpty'
  <2>1. CASE UNCHANGED <<queue, stopped, accepted, delivered, pc>>
    BY <2>1 DEF NoLostNotEmpty
  <2>2. CASE Q!Accept(x) /\ NotifyOne(t, WaitingNotEmpty, "idle") /\ WaitingNotEmpty = {}
    <3>1. WaitingNotEmpty' = {}
      BY <1>6, <2>2 DEF TryPush
    <3>2. QED
      BY <3>1, <1>d
  <2>3. CASE Q!Accept(x) /\ NotifyOne(t, WaitingNotEmpty, "idle") /\ WaitingNotEmpty # {}
    <3>1. PICK u \in WaitingNotEmpty :
             pc' = [pc EXCEPT ![t] = "idle", ![u] = Resume(pc[u])]
      BY <2>3
    <3>2. u \notin E /\ E \cup {u} \subseteq E' /\ WaitingNotEmpty' \subseteq WaitingNotEmpty
      BY <1>6, <3>1 DEF TryPush
    <3>3. stopped' = stopped /\ Len(queue') = Len(queue) + 1
      BY <2>3
    <3>4. QED
      BY <1>b, <3>2, <3>3
  <2>4. QED
    BY <1>6, <2>1, <2>2, <2>3 DEF TryPush
<1>7. ASSUME NEW t \in Thread, CallPop(t) PROVE NoLostNotEmpty'
  BY <1>7, <1>b DEF CallPop
<1>8. ASSUME NEW t \in Thread, PopWait(t) PROVE NoLostNotEmpty'
  BY <1>8, <1>c DEF PopWait
<1>9. ASSUME NEW t \in Thread, PopThrow(t) PROVE NoLostNotEmpty'
  <2>1. WaitingNotEmpty = {}
    BY <1>9 DEF PopThrow, NoLostNotEmpty
  <2>2. WaitingNotEmpty' = {}
    BY <1>9, <2>1 DEF PopThrow
  <2>3. QED
    BY <2>2, <1>d
<1>10. ASSUME NEW t \in Thread, PopTake(t) PROVE NoLostNotEmpty'
  <2>1. Len(queue') = Len(queue) - 1 /\ E \ {t} \subseteq E'
    BY <1>10 DEF PopTake
  <2>2. QED
    BY <1>10, <1>b, <2>1 DEF PopTake
<1>11. ASSUME NEW t \in Thread, PopSignal(t) PROVE NoLostNotEmpty'
  BY <1>11, <1>b DEF PopSignal
<1>12. ASSUME NEW t \in Thread, PopTimeout(t) PROVE NoLostNotEmpty'
  BY <1>12, <1>b DEF PopTimeout
<1>13. ASSUME NEW t \in Thread, PopNothing(t) PROVE NoLostNotEmpty'
  BY <1>13, <1>c DEF PopNothing
<1>14. ASSUME NEW t \in Thread, TryPop(t) PROVE NoLostNotEmpty'
  <2>1. Len(queue') = Len(queue) - 1 /\ E \ {t} \subseteq E'
    BY <1>14 DEF TryPop
  <2>2. QED
    BY <1>14, <1>b, <2>1 DEF TryPop
<1>15. ASSUME NEW t \in Thread, Stop(t) PROVE NoLostNotEmpty'
  <2>1. WaitingNotEmpty' = {}
    BY <1>15 DEF Stop
  <2>2. QED
    BY <2>1, <1>d
<1>16. ASSUME NEW t \in Thread, SpuriousWakeup(t) PROVE NoLostNotEmpty'
  BY <1>16, <1>b DEF SpuriousWakeup
<1>17. QED
  BY <1>1, <1>2, <1>3, <1>4, <1>5, <1>6, <1>7, <1>8, <1>9, <1>10, <1>11, <1>12,
     <1>13, <1>14, <1>15, <1>16, SMTT(30) DEF Next, Step, Call

\* No producer sleeps while there is a free slot that nobody is on the way to.
LEMMA NotFullStep ==
    ASSUME TypeOK, NoLostNotFull, Next PROVE NoLostNotFull'
<1> DEFINE F == NotFullSignals
<1> USE DEF TypeOK, PC
<1>a. /\ F \in SUBSET Thread /\ F' \in SUBSET Thread
      /\ Len(queue) \in Nat /\ Capacity \in Nat
  BY QueueAssumption DEF NotFullSignals
<1>b. ASSUME stopped' = stopped, WaitingNotFull' \subseteq WaitingNotFull,
             \/ queue' = queue /\ F \subseteq F'
             \/ Len(queue') = Len(queue) + 1 /\ \E t \in Thread : F \ {t} \subseteq F'
             \/ /\ Len(queue') = Len(queue) - 1
                /\ \E t \in Thread : t \notin F /\ F \cup {t} \subseteq F'
             \/ queue' = queue /\ \E t, u \in Thread : u \notin F /\ (F \ {t}) \cup {u} \subseteq F'
      PROVE  NoLostNotFull'
  <2> HIDE DEF F
  <2>1. Capacity - Len(queue) <= Cardinality(F) => Capacity - Len(queue') <= Cardinality(F')
    <3>1. CASE queue' = queue /\ F \subseteq F'
      <4>1. Cardinality(F) \in Nat /\ Cardinality(F') \in Nat /\ Cardinality(F) <= Cardinality(F')
        BY ONLY <1>a, <3>1, Count
      <4>2. QED
        BY <1>a, <3>1, <4>1
    <3>2. CASE Len(queue') = Len(queue) + 1 /\ \E t \in Thread : F \ {t} \subseteq F'
      <4>1. PICK t \in Thread : F \ {t} \subseteq F'
        BY <3>2
      <4>2. Cardinality(F) \in Nat /\ Cardinality(F') \in Nat /\ Cardinality(F) - 1 <= Cardinality(F')
        BY ONLY <1>a, <4>1, Count
      <4>3. QED
        BY <1>a, <3>2, <4>2
    <3>3. CASE /\ Len(queue') = Len(queue) - 1
               /\ \E t \in Thread : t \notin F /\ F \cup {t} \subseteq F'
      <4>1. PICK t \in Thread : t \notin F /\ F \cup {t} \subseteq F'
        BY <3>3
      <4>2. Cardinality(F) \in Nat /\ Cardinality(F') \in Nat /\ Cardinality(F) + 1 <= Cardinality(F')
        BY ONLY <1>a, <4>1, Count
      <4>3. QED
        BY <1>a, <3>3, <4>2
    <3>4. CASE queue' = queue /\ \E t, u \in Thread : u \notin F /\ (F \ {t}) \cup {u} \subseteq F'
      <4>1. Cardinality(F) \in Nat /\ Cardinality(F') \in Nat /\ Cardinality(F) <= Cardinality(F')
        BY ONLY <1>a, <3>4, Count
      <4>2. QED
        BY <1>a, <3>4, <4>1
    <3>5. QED
      BY <1>b, <3>1, <3>2, <3>3, <3>4
  <2>2. QED
    BY <1>b, <2>1 DEF NoLostNotFull, F
<1>c. ASSUME queue' = queue, stopped' = FALSE, ~Q!HasRoom PROVE NoLostNotFull'
  <2>1. Cardinality(F') \in Nat
    BY ONLY <1>a, Count
  <2>2. QED
    BY <1>a, <1>c, <2>1 DEF NoLostNotFull, F
<1>d. ASSUME WaitingNotFull' = {} PROVE NoLostNotFull'
  BY <1>d DEF NoLostNotFull
<1> USE DEF WaitingNotEmpty, WaitingNotFull, NotFullSignals, NotifyOne, Resume
<1>1. ASSUME NEW t \in Thread, NEW x \in Item, CallPush(t, x) PROVE NoLostNotFull'
  BY <1>1, <1>b DEF CallPush
<1>2. ASSUME NEW t \in Thread, PushWait(t) PROVE NoLostNotFull'
  BY <1>2, <1>c DEF PushWait
<1>3. ASSUME NEW t \in Thread, PushThrow(t) PROVE NoLostNotFull'
  <2>1. WaitingNotFull = {}
    BY <1>3 DEF PushThrow, NoLostNotFull
  <2>2. WaitingNotFull' = {}
    BY <1>3, <2>1 DEF PushThrow
  <2>3. QED
    BY <2>2, <1>d
<1>4. ASSUME NEW t \in Thread, PushAccept(t) PROVE NoLostNotFull'
  <2>1. Len(queue') = Len(queue) + 1 /\ F \ {t} \subseteq F'
    BY <1>4 DEF PushAccept
  <2>2. QED
    BY <1>4, <1>b, <2>1 DEF PushAccept
<1>5. ASSUME NEW t \in Thread, PushSignal(t) PROVE NoLostNotFull'
  BY <1>5, <1>b, SMTT(30) DEF PushSignal
<1>6. ASSUME NEW t \in Thread, NEW x \in Item, TryPush(t, x) PROVE NoLostNotFull'
  <2>1. CASE UNCHANGED <<queue, stopped, accepted, delivered, pc>>
    BY <2>1 DEF NoLostNotFull
  <2>2. CASE Q!Accept(x) /\ NotifyOne(t, WaitingNotEmpty, "idle")
    <3>1. F \ {t} \subseteq F' /\ WaitingNotFull' \subseteq WaitingNotFull
      BY <1>6, <2>2 DEF TryPush
    <3>2. stopped' = stopped /\ Len(queue') = Len(queue) + 1
      BY <2>2
    <3>3. QED
      BY <1>b, <3>1, <3>2
  <2>3. QED
    BY <1>6, <2>1, <2>2 DEF TryPush
<1>7. ASSUME NEW t \in Thread, CallPop(t) PROVE NoLostNotFull'
  BY <1>7, <1>b DEF CallPop
<1>8. ASSUME NEW t \in Thread, PopWait(t) PROVE NoLostNotFull'
  BY <1>8, <1>b DEF PopWait
<1>9. ASSUME NEW t \in Thread, PopThrow(t) PROVE NoLostNotFull'
  BY <1>9, <1>b DEF PopThrow
<1>10. ASSUME NEW t \in Thread, PopTake(t) \/ TryPop(t) PROVE NoLostNotFull'
  <2>1. Len(queue') = Len(queue) - 1 /\ t \notin F /\ F \cup {t} \subseteq F'
    BY <1>10 DEF PopTake, TryPop
  <2>2. stopped' = stopped /\ WaitingNotFull' \subseteq WaitingNotFull
    BY <1>10 DEF PopTake, TryPop
  <2>3. QED
    BY <1>b, <2>1, <2>2, SMTT(30)
<1>11. ASSUME NEW t \in Thread, PopSignal(t) PROVE NoLostNotFull'
  <2>1. CASE WaitingNotFull = {}
    <3>1. WaitingNotFull' = {}
      BY <1>11, <2>1 DEF PopSignal
    <3>2. QED
      BY <3>1, <1>d
  <2>2. CASE WaitingNotFull # {}
    <3>1. PICK u \in WaitingNotFull :
             pc' = [pc EXCEPT ![t] = "idle", ![u] = Resume(pc[u])]
      BY <1>11, <2>2 DEF PopSignal
    <3>2. u \notin F /\ (F \ {t}) \cup {u} \subseteq F' /\ WaitingNotFull' \subseteq WaitingNotFull
      BY <1>11, <3>1 DEF PopSignal
    <3>3. QED
      BY <1>11, <1>b, <3>2 DEF PopSignal
  <2>3. QED
    BY <2>1, <2>2
<1>12. ASSUME NEW t \in Thread, PopTimeout(t) PROVE NoLostNotFull'
  BY <1>12, <1>b DEF PopTimeout
<1>13. ASSUME NEW t \in Thread, PopNothing(t) PROVE NoLostNotFull'
  BY <1>13, <1>b DEF PopNothing
<1>14. ASSUME NEW t \in Thread, Stop(t) PROVE NoLostNotFull'
  <2>1. WaitingNotFull' = {}
    BY <1>14 DEF Stop
  <2>2. QED
    BY <2>1, <1>d
<1>15. ASSUME NEW t \in Thread, SpuriousWakeup(t) PROVE NoLostNotFull'
  BY <1>15, <1>b DEF SpuriousWakeup
<1>16. QED
  BY <1>1, <1>2, <1>3, <1>4, <1>5, <1>6, <1>7, <1>8, <1>9, <1>10, <1>11, <1>12,
     <1>13, <1>14, <1>15, SMTT(30) DEF Next, Step, Call

\* Although emplace and the pops call notify_one after unlock(), although a wait
\* can time out or end spuriously, and although tryPush and tryPop overtake
\* sleepers, no wake-up is lost.
THEOREM QueueNoLostWakeup == Spec => []NoLostWakeup
<1>1. Init => NoLostWakeup
  BY DEF Init, NoLostWakeup, NoLostNotEmpty, NoLostNotFull, WaitingNotEmpty, WaitingNotFull
<1>2. ASSUME TypeOK, NoLostWakeup, [Next]_vars PROVE NoLostWakeup'
  <2>1. CASE Next
    BY <1>2, <2>1, NotEmptyStep, NotFullStep DEF NoLostWakeup
  <2>2. CASE UNCHANGED vars
    BY <1>2, <2>2 DEF vars, NoLostWakeup, NoLostNotEmpty, NoLostNotFull, WaitingNotEmpty,
                      WaitingNotFull, NotEmptySignals, NotFullSignals
  <2>3. QED
    BY <1>2, <2>1, <2>2
<1>3. QED
  BY <1>1, <1>2, TypeCorrect, PTL DEF Spec

=============================================================================
