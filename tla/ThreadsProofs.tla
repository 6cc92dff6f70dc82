---------------------------- MODULE ThreadsProofs ----------------------------
(***************************************************************************)
(* The components of MCThreads, each for any constants.                    *)
(*                                                                         *)
(* ObjectPool, for any threads, objects and maxIdle: PoolInv says that     *)
(* there is a map from objects to places which agrees with all pointers of *)
(* the pool, of its users and of the calls under way; a step moves some    *)
(* objects to one place and destroys others.                               *)
(*                                                                         *)
(* EventLoopThreads, for any loops: LoopInv.                               *)
(*                                                                         *)
(* TimerQueue, for any callers, delays and bounds: QuietInv says that a    *)
(* cancelled timer is in one place only, and that wherever it waits        *)
(* isCancelledLocked() recognises it.                                      *)
(***************************************************************************)
EXTENDS MCThreads, TLAPS

Label == {"out", "acquire", "makeShared", "reset", "return", "reserve"}
InCall == {"reset", "return"}

\* No pointer twice.
Distinct(s) == \A i, j \in DOMAIN s : s[i] = s[j] => i = j

\* The objects in the hands of a call of thread t.
Carried(t) == IF pc[t] \in InCall THEN Range(job[t]) ELSE {}

Types ==
    /\ alive \in BOOLEAN /\ born \in 0..MaxObjects /\ idle \in Seq(1..born)
    /\ owned \in [Thread -> SUBSET (1..born)] /\ shared \subseteq 1..born /\ used \subseteq 1..born
    /\ pc \in [Thread -> Label]
    /\ job = [t \in Thread |-> job[t]]
    /\ deleted \in [1..MaxObjects -> Nat] /\ \A o \in 1..MaxObjects : o > born => deleted[o] = 0

Jobs ==
    \A t \in Thread :
        /\ pc[t] = "reserve" => Len(job[t]) \in Nat \ {0}
        /\ pc[t] \in InCall => /\ job[t] \in Seq(1..born)
                               /\ Distinct(job[t])
        /\ pc[t] = "return" => Range(job[t]) \cap used = {}

\* The pool holds different objects, each of them reset, and not too many.
Stock ==
    /\ Distinct(idle)
    /\ Len(idle) <= MaxIdle /\ Range(idle) \cap used = {}

Kind == {"idle", "owned", "shared", "carried", "gone"}

\* Object o is in the place kind[o], in the hands of by[o] where it is in someone's.
Located(kind, by) ==
    /\ kind \in [1..born -> Kind] /\ by \in [1..born -> Thread]
    /\ \A o \in 1..born :
        /\ o \in Range(idle) <=> kind[o] = "idle"
        /\ \A t \in Thread : o \in owned[t] <=> kind[o] = "owned" /\ by[o] = t
        /\ o \in shared <=> kind[o] = "shared"
        /\ \A t \in Thread : o \in Carried(t) <=> kind[o] = "carried" /\ by[o] = t
        /\ deleted[o] = IF kind[o] = "gone" THEN 1 ELSE 0

PoolInv == Types /\ Jobs /\ Stock /\ \E kind, by : Located(kind, by)

-----------------------------------------------------------------------------
\* The elements of a sequence are of the sequence's type.
LEMMA RangeSeq == \A S : \A s \in Seq(S) : \A x \in Range(s) : x \in S
<1>1. SUFFICES ASSUME NEW S, NEW s \in Seq(S), NEW x \in Range(s) PROVE x \in S
  BY Zenon
<1>2. PICK i \in DOMAIN s : x = s[i]
  BY Zenon DEF Range
<1>3. i \in 1..Len(s)
  BY <1>2
<1>4. QED
  BY <1>2, <1>3

\* What vector::reserve and emplace_back build is a sequence.
LEMMA ArraySeq == \A S : \A n \in Nat : \A f \in [1..n -> S] : f \in Seq(S)
  OBVIOUS

\* The elements of the empty sequence and of one with a single element.
LEMMA RangeSmall == Range(<<>>) = {} /\ \A x : Range(<<x>>) = {x}
<1>1. Range(<<>>) = {}
  BY DEF Range
<1>2. ASSUME NEW x PROVE Range(<<x>>) = {x}
  <2>1. DOMAIN <<x>> = {1} /\ <<x>>[1] = x
    OBVIOUS
  <2>2. QED
    BY <2>1, Zenon DEF Range
<1>3. QED
  BY <1>1, <1>2, Zenon

\* Cutting a sequence of different elements in two separates its elements.
LEMMA RangeCut ==
    ASSUME NEW S, NEW s \in Seq(S), Distinct(s),
           NEW n \in 0..Len(s)
    PROVE  /\ SubSeq(s, 1, n) \in Seq(S) /\ Len(SubSeq(s, 1, n)) = n
           /\ Distinct(SubSeq(s, 1, n))
           /\ Range(s) = Range(SubSeq(s, 1, n)) \cup Range(SubSeq(s, n + 1, Len(s)))
           /\ Range(SubSeq(s, 1, n)) \cap Range(SubSeq(s, n + 1, Len(s))) = {}
<1> DEFINE a == SubSeq(s, 1, n)
           b == SubSeq(s, n + 1, Len(s))
<1>0. DOMAIN s = 1..Len(s) /\ Len(s) \in Nat
  OBVIOUS
<1>1. a \in Seq(S) /\ Len(a) = n /\ DOMAIN a = 1..n /\ \A i \in 1..n : a[i] = s[i]
  OBVIOUS
<1>2. DOMAIN b = 1..(Len(s) - n) /\ \A i \in 1..(Len(s) - n) : b[i] = s[n + i]
  OBVIOUS
<1> HIDE DEF a, b
<1>3. Range(s) \subseteq Range(a) \cup Range(b)
  <2>1. SUFFICES ASSUME NEW i \in 1..Len(s) PROVE s[i] \in Range(a) \cup Range(b)
    BY <1>0, Zenon DEF Range
  <2>2. CASE i <= n
    BY <1>1, <2>2 DEF Range
  <2>3. CASE i > n
    <3>1. i - n \in 1..(Len(s) - n) /\ n + (i - n) = i
      BY <2>3
    <3>2. i - n \in DOMAIN b /\ b[i - n] = s[i]
      BY <1>2, <3>1, Zenon
    <3>3. QED
      BY <3>2, Zenon DEF Range
  <2>4. QED
    BY <1>0, <2>2, <2>3
<1>4. Range(a) \cup Range(b) \subseteq Range(s)
  <2>1. \A i \in 1..n : i \in DOMAIN s
    BY <1>0
  <2>2. \A i \in 1..(Len(s) - n) : n + i \in DOMAIN s
    BY <1>0
  <2>3. Range(a) \subseteq Range(s)
    BY <1>1, <2>1, Zenon DEF Range
  <2>4. Range(b) \subseteq Range(s)
    BY <1>2, <2>2, Zenon DEF Range
  <2>5. QED
    BY <2>3, <2>4, Zenon
<1>5. Range(a) \cap Range(b) = {}
  <2>1. SUFFICES ASSUME NEW i \in 1..n, NEW j \in 1..(Len(s) - n), s[i] = s[n + j] PROVE FALSE
    <3>1. \A x \in Range(a) : \E i \in 1..n : x = s[i]
      BY <1>1 DEF Range
    <3>2. \A x \in Range(b) : \E j \in 1..(Len(s) - n) : x = s[n + j]
      BY <1>2, Zenon DEF Range
    <3>3. QED
      BY <3>1, <3>2, Zenon
  <2>2. i \in DOMAIN s /\ n + j \in DOMAIN s /\ i # n + j
    BY <1>0
  <2>3. QED
    BY <2>1, <2>2, Zenon DEF Distinct
<1>6. Distinct(a)
  BY <1>0, <1>1 DEF Distinct
<1>7. QED
  BY <1>1, <1>3, <1>4, <1>5, <1>6, Zenon DEF a, b

\* c is a followed by b, which have no element twice and none in common.
Joined(c, a, b) == c = a \o b /\ Range(a) \cap Range(b) = {} /\ Distinct(a) /\ Distinct(b)

\* Putting sequences of different elements together.
LEMMA RangeConcat ==
    ASSUME NEW S, NEW a \in Seq(S), NEW b \in Seq(S), NEW c, Joined(c, a, b)
    PROVE  /\ c \in Seq(S) /\ Len(c) = Len(a) + Len(b)
           /\ Range(c) = Range(a) \cup Range(b)
           /\ Distinct(c)
<1>0. c \in Seq(S) /\ Len(c) = Len(a) + Len(b) /\ Distinct(a) /\ Distinct(b)
  BY DEF Joined
<1>1. /\ DOMAIN a = 1..Len(a) /\ DOMAIN b = 1..Len(b) /\ DOMAIN c = 1..(Len(a) + Len(b))
      /\ Len(a) \in Nat /\ Len(b) \in Nat
  BY <1>0
<1>2. /\ \A i \in 1..Len(a) : c[i] = a[i]
      /\ \A i \in 1..Len(b) : c[Len(a) + i] = b[i]
  BY DEF Joined
<1>3. \A i \in DOMAIN c : i \in DOMAIN a \/ i - Len(a) \in DOMAIN b
  BY <1>1
<1>4. \A i \in DOMAIN c : i - Len(a) \in DOMAIN b => c[i] = b[i - Len(a)]
  <2>1. SUFFICES ASSUME NEW i \in DOMAIN c, i - Len(a) \in DOMAIN b PROVE c[i] = b[i - Len(a)]
    BY Zenon
  <2>2. i - Len(a) \in 1..Len(b) /\ Len(a) + (i - Len(a)) = i
    BY <1>1, <2>1
  <2>3. QED
    BY <1>2, <2>2, Zenon
<1>5. Range(c) \subseteq Range(a) \cup Range(b)
  BY <1>1, <1>2, <1>3, <1>4 DEF Range
<1>6. Range(a) \cup Range(b) \subseteq Range(c)
  <2>1. \A i \in DOMAIN a : i \in DOMAIN c /\ c[i] = a[i]
    BY <1>1, <1>2
  <2>2. \A i \in DOMAIN b : Len(a) + i \in DOMAIN c /\ c[Len(a) + i] = b[i]
    BY <1>1, <1>2
  <2>3. QED
    BY ONLY <2>1, <2>2 DEF Range
<1>7. ASSUME NEW i \in DOMAIN c, NEW j \in DOMAIN c, c[i] = c[j] PROVE i = j
  <2>1. CASE i \in DOMAIN a /\ j \in DOMAIN a
    BY ONLY <1>1, <1>2, <1>7, <2>1, <1>0, Zenon DEF Distinct
  <2>2. CASE i - Len(a) \in DOMAIN b /\ j - Len(a) \in DOMAIN b
    <3>1. i - Len(a) = j - Len(a)
      BY ONLY <1>4, <1>7, <2>2, <1>0, Zenon DEF Distinct
    <3>2. QED
      BY <1>1, <3>1
  <2>3. CASE i \in DOMAIN a /\ j - Len(a) \in DOMAIN b
    <3>1. c[i] \in Range(a) /\ c[j] \in Range(b)
      BY <1>1, <1>2, <1>4, <2>3, Zenon DEF Range
    <3>2. QED
      BY <1>7, <3>1, Zenon DEF Joined
  <2>4. CASE i - Len(a) \in DOMAIN b /\ j \in DOMAIN a
    <3>1. c[i] \in Range(b) /\ c[j] \in Range(a)
      BY <1>1, <1>2, <1>4, <2>4, Zenon DEF Range
    <3>2. QED
      BY <1>7, <3>1, Zenon DEF Joined
  <2>5. QED
    BY <1>3, <2>1, <2>2, <2>3, <2>4, Zenon
<1>8. QED
  BY <1>0, <1>5, <1>6, <1>7, Zenon DEF Distinct

-----------------------------------------------------------------------------
\* A step that brings the objects M to place k, to thread u where that matters,
\* and destroys the objects G.
Moves(M, k, u, G) ==
    /\ born \in Nat /\ born' \in Nat /\ born <= born' /\ (born + 1)..born' \subseteq M \cup G
    /\ M \subseteq 1..born' /\ G \subseteq 1..born' /\ M \cap G = {}
    /\ M \cup (G \ 1..born) # {} => u \in Thread
    /\ k \in Kind \ {"gone"}
    /\ Range(idle') = (Range(idle) \ (M \cup G)) \cup (IF k = "idle" THEN M ELSE {})
    /\ \A t \in Thread :
        owned'[t] = (owned[t] \ (M \cup G)) \cup (IF k = "owned" /\ t = u THEN M ELSE {})
    /\ shared' = (shared \ (M \cup G)) \cup (IF k = "shared" THEN M ELSE {})
    /\ \A t \in Thread :
        Carried(t)' = (Carried(t) \ (M \cup G)) \cup (IF k = "carried" /\ t = u THEN M ELSE {})
    /\ \A o \in 1..born' :
        deleted'[o] = IF o \in G THEN 1 ELSE IF o \in M THEN 0 ELSE deleted[o]

\* After such a step each object has a place again.
LEMMA Moved ==
    ASSUME NEW M, NEW k, NEW u, NEW G, Moves(M, k, u, G), \E kind, by : Located(kind, by)
    PROVE  (\E kind, by : Located(kind, by))'
<1>1. PICK kind, by : Located(kind, by)
  BY Zenon
<1> DEFINE kindN == [o \in 1..born' |-> IF o \in M THEN k ELSE IF o \in G THEN "gone" ELSE kind[o]]
           byN   == [o \in 1..born' |-> IF o \in M \/ o \notin 1..born THEN u ELSE by[o]]
<1>2. \A o \in 1..born' : o \in M \/ o \in G \/ o \in 1..born
  BY DEF Moves
<1>3. kindN \in [1..born' -> Kind]
  BY <1>1, <1>2 DEF Moves, Located, Kind
<1>4. byN \in [1..born' -> Thread]
  BY <1>1, <1>2, Zenon DEF Moves, Located
<1>5. ASSUME NEW o \in 1..born'
      PROVE  /\ o \in Range(idle') <=> kindN[o] = "idle"
             /\ \A t \in Thread : o \in owned'[t] <=> kindN[o] = "owned" /\ byN[o] = t
             /\ o \in shared' <=> kindN[o] = "shared"
             /\ \A t \in Thread : o \in Carried(t)' <=> kindN[o] = "carried" /\ byN[o] = t
             /\ deleted'[o] = IF kindN[o] = "gone" THEN 1 ELSE 0
  <2>1. CASE o \in M
    <3>1. kindN[o] = k /\ byN[o] = u /\ o \notin G /\ k # "gone"
      BY <2>1, Zenon DEF Moves
    <3>2. QED
      BY <2>1, <3>1 DEF Moves, Kind
  <2>2. CASE o \in G
    <3>1. kindN[o] = "gone" /\ o \notin M
      BY <2>2, Zenon DEF Moves
    <3>2. QED
      BY <2>2, <3>1 DEF Moves
  <2>3. CASE o \notin M /\ o \notin G
    <3>1. o \in 1..born /\ kindN[o] = kind[o] /\ byN[o] = by[o]
      BY <1>2, <2>3, Zenon
    <3>2. /\ o \in Range(idle') <=> o \in Range(idle)
          /\ \A t \in Thread : o \in owned'[t] <=> o \in owned[t]
          /\ o \in shared' <=> o \in shared
          /\ \A t \in Thread : o \in Carried(t)' <=> o \in Carried(t)
          /\ deleted'[o] = deleted[o]
      BY <2>3 DEF Moves
    <3>3. QED
      BY <1>1, <3>1, <3>2 DEF Located
  <2>4. QED
    BY <2>1, <2>2, <2>3, Zenon
<1> HIDE DEF kindN, byN
<1>6. PICK kn, bn : kn = kindN /\ bn = byN
  BY Zenon
<1>7. Located(kn, bn)'
  BY <1>3, <1>4, <1>5, <1>6, Zenon DEF Located
<1>8. QED
  BY <1>7, Zenon

-----------------------------------------------------------------------------
\* A thread goes to another place in its call: the other threads stay where they are.
LEMMA GotoOne ==
    ASSUME Types, NEW t \in Thread, NEW label \in Label, NEW j, Goto(t, label, j)
    PROVE  /\ pc' \in [Thread -> Label] /\ job' = [s \in Thread |-> job'[s]]
           /\ pc'[t] = label /\ job'[t] = j
           /\ \A s \in Thread \ {t} : pc'[s] = pc[s] /\ job'[s] = job[s]
           /\ Carried(t)' = IF label \in InCall THEN Range(j) ELSE {}
           /\ \A s \in Thread \ {t} : Carried(s)' = Carried(s)
<1>1. /\ pc' \in [Thread -> Label] /\ job' = [s \in Thread |-> job'[s]]
      /\ pc'[t] = label /\ job'[t] = j
      /\ \A s \in Thread \ {t} : pc'[s] = pc[s] /\ job'[s] = job[s]
  BY Zenon DEF Types, Goto
<1>2. QED
  BY <1>1, Zenon DEF Carried

\* What calls work on stays in order when one thread goes on to work on j.
LEMMA JobsGoto ==
    ASSUME Types, Jobs, NEW t \in Thread, NEW label \in Label, NEW j, Goto(t, label, j),
           born \in Nat, born' \in Nat, born <= born',
           label = "reserve" => Len(j) \in Nat \ {0},
           label \in InCall => /\ j \in Seq(1..born')
                              /\ Distinct(j),
           label = "return" => Range(j) \cap used' = {},
           \A s \in Thread \ {t} : Carried(s) \cap (used' \ used) = {}
    PROVE  Jobs'
<1>1. SUFFICES ASSUME NEW s \in Thread
               PROVE  /\ pc'[s] = "reserve" => Len(job'[s]) \in Nat \ {0}
                      /\ pc'[s] \in InCall =>
                            /\ job'[s] \in Seq(1..born')
                            /\ Distinct(job'[s])
                      /\ pc'[s] = "return" => Range(job'[s]) \cap used' = {}
  BY Zenon DEF Jobs
<1>2. CASE s = t
  BY <1>2, GotoOne
<1>3. CASE s # t
  <2>1. pc'[s] = pc[s] /\ job'[s] = job[s]
    BY <1>3, GotoOne, Zenon
  <2>2. pc[s] = "reserve" => Len(job[s]) \in Nat \ {0}
    BY Zenon DEF Jobs
  <2>3. ASSUME pc[s] \in InCall
        PROVE  /\ job[s] \in Seq(1..born')
               /\ Distinct(job[s])
    <3>1. /\ job[s] \in Seq(1..born)
          /\ Distinct(job[s])
      BY <2>3, Zenon DEF Jobs
    <3>2. 1..born \subseteq 1..born'
      OBVIOUS
    <3>3. QED
      BY <3>1, <3>2
  <2>4. ASSUME pc[s] = "return" PROVE Range(job[s]) \cap used' = {}
    BY <1>3, <2>4, Zenon DEF Jobs, Carried, InCall
  <2>5. QED
    BY <2>1, <2>2, <2>3, <2>4, Zenon
<1>4. QED
  BY <1>2, <1>3, Zenon

\* An object has one place only.
LEMMA Apart ==
    ASSUME PoolInv
    PROVE  /\ \A o \in Range(idle) : o \in 1..born /\ o \notin shared /\ deleted[o] = 0
           /\ \A o \in shared : o \in 1..born /\ o \notin Range(idle) /\ deleted[o] = 0
           /\ \A t \in Thread : \A o \in owned[t] :
                 /\ o \in 1..born /\ o \notin Range(idle) /\ o \notin shared /\ deleted[o] = 0
                 /\ \A s \in Thread \ {t} : o \notin owned[s]
           /\ \A t \in Thread : \A o \in Carried(t) :
                 /\ o \in 1..born /\ o \notin Range(idle) /\ o \notin shared /\ deleted[o] = 0
                 /\ \A s \in Thread : o \notin owned[s] /\ (s # t => o \notin Carried(s))
<1>1. PICK kind, by : Located(kind, by)
  BY Zenon DEF PoolInv
<1>2. \A o \in Range(idle) : o \in 1..born
  BY RangeSeq, Zenon DEF PoolInv, Types
<1>3. \A t \in Thread : \A o \in owned[t] : o \in 1..born
  BY Zenon DEF PoolInv, Types
<1>4. \A t \in Thread : \A o \in Carried(t) : o \in 1..born
  <2>1. SUFFICES ASSUME NEW t \in Thread, NEW o \in Carried(t) PROVE o \in 1..born
    BY Zenon
  <2>2. job[t] \in Seq(1..born) /\ o \in Range(job[t])
    BY Zenon DEF PoolInv, Jobs, Carried
  <2>3. QED
    BY <2>2, RangeSeq, Zenon
<1>5. \A o \in shared : o \in 1..born
  BY Zenon DEF PoolInv, Types
<1>6. QED
  BY <1>1, <1>2, <1>3, <1>4, <1>5 DEF Located

\* Destroying objects that exist counts each of them once.
LEMMA DestroyedOnce ==
    ASSUME Types, NEW G, Destroyed(G), born' \in 0..MaxObjects, G \subseteq 1..born',
           MaxObjects \in Nat, \A o \in G : deleted[o] = 0, born <= born'
    PROVE  /\ deleted' \in [1..MaxObjects -> Nat]
           /\ \A o \in 1..MaxObjects : o > born' => deleted'[o] = 0
           /\ \A o \in 1..born' : deleted'[o] = IF o \in G THEN 1 ELSE deleted[o]
<1>1. deleted' = [o \in 1..MaxObjects |-> deleted[o] + IF o \in G THEN 1 ELSE 0]
  BY Zenon DEF Destroyed
<1>2. \A o \in 1..MaxObjects : deleted[o] \in Nat /\ (o > born => deleted[o] = 0)
  BY Zenon DEF Types
<1>3. born \in Nat
  BY DEF Types
<1>4. QED
  BY <1>1, <1>2, <1>3

-----------------------------------------------------------------------------
\* The actions.  A step that only takes a thread on, with no object in its hands.
LEMMA OnlyGoto ==
    ASSUME PoolInv, NEW t \in Thread, NEW label \in Label \ InCall, NEW j, Goto(t, label, j),
           pc[t] \notin InCall, label = "reserve" => Len(j) \in Nat \ {0},
           UNCHANGED <<alive, idle, owned, shared, deleted, used, born>>
    PROVE  PoolInv'
<1>1. born \in Nat
  BY DEF PoolInv, Types
<1>2. Types'
  BY GotoOne, Zenon DEF PoolInv, Types
<1>3. Jobs'
  BY <1>1, JobsGoto DEF PoolInv, InCall
<1>4. Stock'
  BY Zenon DEF PoolInv, Stock
<1>5. \A s \in Thread : Carried(s)' = Carried(s)
  BY GotoOne, Zenon DEF PoolInv, Carried
<1>6. Moves({}, "idle", t, {})
  BY <1>1, <1>5 DEF Moves, Kind
<1>7. QED
  BY <1>2, <1>3, <1>4, <1>6, Moved, Zenon DEF PoolInv

\* A thread gets an object, from the pool or newly created.
LEMMA HandsOut ==
    ASSUME PoolInv, NEW t \in Thread, NEW o, HandOut(t, o), pc[t] \notin InCall,
           \/ o \in Range(idle) /\ born' = born
           \/ o = born + 1 /\ born' = born + 1 /\ born < MaxObjects,
           idle' \in Seq(1..born'), Range(idle') = Range(idle) \ {o}, Len(idle') <= MaxIdle,
           Distinct(idle'),
           UNCHANGED <<alive, deleted>>
    PROVE  PoolInv'
<1>1. born \in Nat /\ MaxObjects \in Nat /\ born <= MaxObjects
  BY ObjectAssumption DEF PoolInv, Types
<1>2. born' \in 0..MaxObjects /\ born <= born' /\ o \in 1..born'
  BY <1>1, Apart
<1>3. deleted[o] = 0
  BY <1>1, <1>2, Apart, SMTT(30) DEF PoolInv, Types
<1>4. \A s \in Thread : o \notin Carried(s)
  BY <1>1, Apart
<1>5. \A s \in Thread : o \notin owned[s]
  BY <1>1, Apart
<1>6. o \notin shared
  BY <1>1, Apart
<1>7. Goto(t, "out", <<>>) /\ used' = used \cup {o}
  BY Zenon DEF HandOut
<1>8. /\ "out" \in Label
      /\ owned \in [Thread -> SUBSET (1..born)] /\ shared \subseteq 1..born /\ used \subseteq 1..born
  BY Zenon DEF PoolInv, Types, Label
<1>9. 1..born \subseteq 1..born'
  BY <1>1, <1>2
<1>10. owned' \in [Thread -> SUBSET (1..born')] /\ shared' \subseteq 1..born'
  BY <1>2, <1>8, <1>9, Zenon DEF HandOut
<1>11. \A m \in 1..MaxObjects : m > born' => deleted'[m] = 0
  BY <1>1, <1>2 DEF PoolInv, Types
<1>12. Types'
  BY <1>2, <1>7, <1>8, <1>9, <1>10, <1>11, GotoOne, Zenon DEF PoolInv, Types
<1>13. Jobs'
  <2>1. \A s \in Thread \ {t} : Carried(s) \cap (used' \ used) = {}
    BY <1>4, <1>7, Zenon
  <2>2. Types /\ Jobs /\ born' \in Nat /\ "out" \notin InCall
    BY <1>1, <1>2 DEF PoolInv, InCall
  <2>3. QED
    BY ONLY t \in Thread, <1>1, <1>2, <1>7, <1>8, <2>1, <2>2, JobsGoto, Zenon
<1>14. Stock'
  BY <1>7, Zenon DEF PoolInv, Stock
<1>15. \A s \in Thread : Carried(s)' = Carried(s) /\ Carried(s) \ {o} = Carried(s)
  <2>1. Carried(t)' = {} /\ \A s \in Thread \ {t} : Carried(s)' = Carried(s)
    BY <1>7, <1>8, GotoOne, Zenon DEF PoolInv, InCall
  <2>2. Carried(t) = {}
    BY Zenon DEF Carried
  <2>3. QED
    BY <1>4, <2>1, <2>2, Zenon
<1>16. Moves({o}, IF pc[t] = "makeShared" THEN "shared" ELSE "owned", t, {})
  <2> DEFINE k == IF pc[t] = "makeShared" THEN "shared" ELSE "owned"
  <2>1. /\ born \in Nat /\ born' \in Nat /\ born <= born' /\ (born + 1)..born' \subseteq {o}
        /\ {o} \subseteq 1..born' /\ k \in Kind \ {"gone", "idle", "carried"}
    BY <1>1, <1>2 DEF Kind
  <2>2. \A s \in Thread :
          owned'[s] = (owned[s] \ {o}) \cup (IF k = "owned" /\ s = t THEN {o} ELSE {})
    BY <1>5, <1>8, Zenon DEF HandOut
  <2>3. shared' = (shared \ {o}) \cup (IF k = "shared" THEN {o} ELSE {})
    BY <1>6, Zenon DEF HandOut
  <2>4. \A m \in 1..born' : deleted'[m] = IF m \in {o} THEN 0 ELSE deleted[m]
    BY <1>3, Zenon
  <2> HIDE DEF k
  <2>5. Moves({o}, k, t, {})
    BY <1>15, <2>1, <2>2, <2>3, <2>4 DEF Moves
  <2>6. QED
    BY <2>5, Zenon DEF k
<1>17. QED
  BY <1>12, <1>13, <1>14, <1>16, Moved, Zenon DEF PoolInv

\* A call destroys what it carries and is left.
LEMMA CallDestroys ==
    ASSUME PoolInv, NEW t \in Thread, pc[t] = "reset", Destroyed(Range(job[t])),
           Goto(t, "out", <<>>), used' \subseteq used, UNCHANGED <<alive, idle, owned, shared, born>>
    PROVE  PoolInv'
<1> DEFINE G == Range(job[t])
<1>1. born \in Nat /\ MaxObjects \in Nat /\ born \in 0..MaxObjects
  BY ObjectAssumption DEF PoolInv, Types
<1>2. G = Carried(t)
  BY Zenon DEF Carried, InCall
<1>3. /\ G \subseteq 1..born /\ \A o \in G : deleted[o] = 0
      /\ G \cap Range(idle) = {} /\ G \cap shared = {}
      /\ \A s \in Thread : G \cap owned[s] = {} /\ (s # t => G \cap Carried(s) = {})
  BY <1>2, Apart, SMTT(20)
<1> HIDE DEF G
<1>4. /\ deleted' \in [1..MaxObjects -> Nat]
      /\ \A o \in 1..MaxObjects : o > born' => deleted'[o] = 0
      /\ \A o \in 1..born' : deleted'[o] = IF o \in G THEN 1 ELSE deleted[o]
  BY <1>1, <1>3, DestroyedOnce DEF G, PoolInv
<1>5. "out" \in Label
  BY Zenon DEF Label
<1>6. Types'
  BY <1>4, <1>5, GotoOne, ZenonT(30) DEF PoolInv, Types
<1>7. Jobs'
  BY <1>1, <1>5, JobsGoto DEF PoolInv, InCall
<1>8. Stock'
  BY Zenon DEF PoolInv, Stock
<1>9. Carried(t)' = {} /\ \A s \in Thread \ {t} : Carried(s)' = Carried(s)
  BY <1>5, GotoOne, Zenon DEF PoolInv, InCall
<1>10. Moves({}, "idle", t, G)
  BY <1>1, <1>2, <1>3, <1>4, <1>9 DEF Moves, Kind
<1>11. QED
  BY <1>6, <1>7, <1>8, <1>10, Moved, Zenon DEF PoolInv

\* The reset callback of release() returns: the object goes on to the pool, or out.
LEMMA ReleaseResetsStep ==
    ASSUME PoolInv, NEW t \in Thread, ReleaseResets(t) PROVE PoolInv'
<1>1. CASE MaxIdle = 0
  BY <1>1, CallDestroys, Zenon DEF ReleaseResets
<1>2. CASE MaxIdle # 0
  <2>1. /\ pc[t] = "reset" /\ used' = used \ Range(job[t]) /\ Goto(t, "return", job[t])
        /\ UNCHANGED <<alive, idle, owned, shared, born, deleted>>
    BY <1>2, Zenon DEF ReleaseResets
  <2>2. born \in Nat /\ "return" \in Label
    BY DEF PoolInv, Types, Label
  <2>3. Types'
    BY <2>1, <2>2, GotoOne, Zenon DEF PoolInv, Types
  <2>4. Jobs'
    <3>1. /\ job[t] \in Seq(1..born)
          /\ Distinct(job[t])
      BY <2>1, Zenon DEF PoolInv, Jobs, InCall
    <3>2. Range(job[t]) \cap used' = {} /\ used' \subseteq used
      BY <2>1, Zenon
    <3>3. QED
      BY <2>1, <2>2, <3>1, <3>2, JobsGoto DEF PoolInv
  <2>5. Stock'
    BY <2>1, Zenon DEF PoolInv, Stock
  <2>6. \A s \in Thread : Carried(s)' = Carried(s)
    BY <2>1, <2>2, GotoOne DEF PoolInv, Carried, InCall
  <2>7. Moves({}, "idle", t, {})
    BY <2>1, <2>2, <2>6 DEF Moves, Kind
  <2>8. QED
    BY <2>3, <2>4, <2>5, <2>7, Moved, Zenon DEF PoolInv
<1>3. QED
  BY <1>1, <1>2, Zenon

\* A holder's object goes into the hands of a call of release().
LEMMA Releases ==
    ASSUME PoolInv, NEW t \in Thread, NEW o, Goto(t, "reset", <<o>>), pc[t] = "out",
           \/ o \in owned[t] /\ owned' = [owned EXCEPT ![t] = @ \ {o}] /\ shared' = shared
           \/ o \in shared /\ shared' = shared \ {o} /\ owned' = owned,
           UNCHANGED <<alive, idle, deleted, used, born>>
    PROVE  PoolInv'
<1>1. born \in Nat /\ "reset" \in Label /\ owned \in [Thread -> SUBSET (1..born)]
  BY DEF PoolInv, Types, Label
<1>2. o \in 1..born /\ deleted[o] = 0 /\ o \notin Range(idle)
  BY Apart, Zenon
<1>3. \A s \in Thread : o \notin Carried(s)
  BY Apart, Zenon
<1>4. \A s \in Thread : owned'[s] = owned[s] \ {o}
  BY <1>1, Apart
<1>5. shared' = shared \ {o}
  BY Apart
<1>6. Types'
  <2>1. owned' \in [Thread -> SUBSET (1..born)]
    BY <1>1, Zenon
  <2>2. pc' \in [Thread -> Label] /\ job' = [s \in Thread |-> job'[s]]
    BY <1>1, GotoOne, Zenon DEF PoolInv
  <2>3. QED
    BY <1>1, <1>5, <2>1, <2>2, Zenon DEF PoolInv, Types
<1>7. Jobs'
  <2>1. PICK j : j = <<o>>
    BY Zenon
  <2>2. j \in Seq(1..born') /\ Distinct(j)
    BY <1>2, <2>1 DEF Distinct
  <2>3. Goto(t, "reset", j)
    BY <2>1, Zenon
  <2>4. born' = born /\ used' \ used = {}
    BY Zenon
  <2>5. QED
    BY ONLY PoolInv, t \in Thread, <1>1, <2>2, <2>3, <2>4, JobsGoto DEF PoolInv
<1>8. Stock'
  BY Zenon DEF PoolInv, Stock
<1>9. Carried(t) = {} /\ Carried(t)' = {o} /\ \A s \in Thread \ {t} : Carried(s)' = Carried(s)
  BY <1>1, GotoOne, RangeSmall DEF PoolInv, Carried, InCall
<1>10. Moves({o}, "carried", t, {})
  BY <1>1, <1>2, <1>3, <1>4, <1>5, <1>9 DEF Moves, Kind
<1>11. QED
  BY <1>6, <1>7, <1>8, <1>10, Moved, Zenon DEF PoolInv

\* Objects that are not in the hands of a call are destroyed.
LEMMA Destroys ==
    ASSUME PoolInv, NEW G, Destroyed(G), UNCHANGED <<used, born, pc, job>>, alive' \in BOOLEAN,
           \/ G = Range(idle) /\ idle' = <<>> /\ UNCHANGED <<owned, shared>>
           \/ \E t \in Thread : \E o \in owned[t] :
                 G = {o} /\ owned' = [owned EXCEPT ![t] = @ \ {o}] /\ UNCHANGED <<idle, shared>>
           \/ \E o \in shared : G = {o} /\ shared' = shared \ {o} /\ UNCHANGED <<idle, owned>>
    PROVE  PoolInv'
<1>1. /\ born \in Nat /\ MaxObjects \in Nat /\ born \in 0..MaxObjects /\ MaxIdle \in Nat
      /\ owned \in [Thread -> SUBSET (1..born)] /\ idle \in Seq(1..born) /\ shared \subseteq 1..born
  BY ObjectAssumption DEF PoolInv, Types
<1>2. G \subseteq 1..born /\ \A o \in G : deleted[o] = 0
  BY Apart
<1>3. \A s \in Thread : G \cap Carried(s) = {}
  BY Apart
<1>4. /\ owned' \in [Thread -> SUBSET (1..born)] /\ \A s \in Thread : owned'[s] = owned[s] \ G
      /\ shared' = shared \ G
  <2>1. CASE G = Range(idle) /\ idle' = <<>> /\ UNCHANGED <<owned, shared>>
    BY <1>1, <2>1, Apart, Zenon
  <2>2. ASSUME NEW t \in Thread, NEW o \in owned[t], G = {o},
               owned' = [owned EXCEPT ![t] = @ \ {o}], UNCHANGED <<idle, shared>>
        PROVE  /\ owned' \in [Thread -> SUBSET (1..born)]
               /\ \A s \in Thread : owned'[s] = owned[s] \ G
               /\ shared' = shared \ G
    <3>1. o \notin shared /\ \A s \in Thread \ {t} : o \notin owned[s]
      BY Apart, Zenon
    <3>2. QED
      BY <1>1, <2>2, <3>1
  <2>3. CASE \E o \in shared : G = {o} /\ shared' = shared \ {o} /\ UNCHANGED <<idle, owned>>
    BY <1>1, <2>3, Apart
  <2>4. QED
    BY <2>1, <2>2, <2>3, Zenon
<1>5. Range(idle') = Range(idle) \ G /\ idle' \in Seq(1..born)
  <2>1. CASE idle' = <<>> /\ G = Range(idle)
    BY <2>1, RangeSmall
  <2>2. CASE idle' = idle /\ G \cap Range(idle) = {}
    BY <1>1, <2>2, Zenon
  <2>3. QED
    BY <2>1, <2>2, Apart
<1>6. /\ deleted' \in [1..MaxObjects -> Nat]
      /\ \A o \in 1..MaxObjects : o > born' => deleted'[o] = 0
      /\ \A o \in 1..born' : deleted'[o] = IF o \in G THEN 1 ELSE deleted[o]
  <2>1. Destroyed(G) /\ Types
    BY Zenon DEF PoolInv
  <2>2. /\ born' \in 0..MaxObjects /\ G \subseteq 1..born' /\ born <= born'
        /\ MaxObjects \in Nat /\ \A o \in G : deleted[o] = 0
    BY <1>1, <1>2
  <2>3. QED
    BY ONLY <2>1, <2>2, DestroyedOnce, Zenon
<1>7. Types'
  BY <1>1, <1>4, <1>5, <1>6, Zenon DEF PoolInv, Types
<1>8. Jobs'
  BY Zenon DEF PoolInv, Jobs
<1>9. Stock'
  <2>1. CASE idle' = <<>>
    BY <1>1, <2>1, RangeSmall DEF Stock, Distinct
  <2>2. CASE idle' = idle
    BY <2>2, Zenon DEF PoolInv, Stock
  <2>3. QED
    BY <2>1, <2>2, Zenon
<1>10. \A s \in Thread : Carried(s)' = Carried(s)
  BY Zenon DEF Carried
<1>11. Moves({}, "shared", 0, G)
  <2>1. born' = born
    BY Zenon
  <2>2. /\ born \in Nat /\ born' \in Nat /\ born <= born' /\ (born + 1)..born' \subseteq {} \cup G
        /\ G \subseteq 1..born' /\ {} \cup (G \ 1..born) = {} /\ "shared" \in Kind \ {"gone"}
    BY ONLY <1>1, <1>2, <2>1 DEF Kind
  <2>3. Range(idle') = Range(idle) \ G /\ shared' = shared \ G
    BY <1>4, <1>5, Zenon
  <2>4. \A s \in Thread : owned'[s] = owned[s] \ G /\ Carried(s)' = Carried(s) \ G
    BY ONLY <1>3, <1>4, <1>10, Zenon
  <2>5. QED
    BY ONLY <1>6, <2>2, <2>3, <2>4, Zenon DEF Moves
<1>12. QED
  BY <1>7, <1>8, <1>9, <1>11, Moved, Zenon DEF PoolInv

\* The factory throws: what a reserve() had created goes, and nothing else.
LEMMA CreateThrowsStep ==
    ASSUME PoolInv, NEW t \in Thread, CreateThrows(t) PROVE PoolInv'
<1>1. /\ born \in Nat /\ MaxObjects \in Nat /\ born \in 0..MaxObjects /\ "out" \in Label
      /\ idle \in Seq(1..born) /\ owned \in [Thread -> SUBSET (1..born)]
      /\ shared \subseteq 1..born /\ used \subseteq 1..born
  BY ObjectAssumption DEF PoolInv, Types, Label
<1>2. pc[t] \notin InCall /\ Goto(t, "out", <<>>) /\ UNCHANGED <<alive, idle, owned, shared, used>>
  BY Zenon DEF CreateThrows, InCall
<1>3. PICK n \in Nat : born' = born + n /\ born + n <= MaxObjects /\ Destroyed((born + 1)..(born + n))
  <2>1. pc[t] = "reserve" => Len(job[t]) \in Nat
    BY Zenon DEF PoolInv, Jobs
  <2>2. Len(job[t]) \in Nat
    BY <2>1 DEF CreateThrows
  <2>3. QED
    BY <2>2 DEF CreateThrows
<1>4. PICK G : G = (born + 1)..(born + n)
  BY Zenon
<1>5. /\ born' \in 0..MaxObjects /\ born <= born' /\ G \subseteq 1..born' /\ 1..born \subseteq 1..born'
      /\ G \cap (1..born) = {}
  BY <1>1, <1>3, <1>4
<1>6. \A o \in G : deleted[o] = 0
  BY <1>1, <1>3, <1>4 DEF PoolInv, Types
<1>7. /\ deleted' \in [1..MaxObjects -> Nat]
      /\ \A o \in 1..MaxObjects : o > born' => deleted'[o] = 0
      /\ \A o \in 1..born' : deleted'[o] = IF o \in G THEN 1 ELSE deleted[o]
  <2>1. Types /\ Destroyed(G)
    BY <1>3, <1>4, Zenon DEF PoolInv
  <2>2. QED
    BY ONLY <1>1, <1>5, <1>6, <2>1, DestroyedOnce, Zenon
<1>8. Types'
  <2>1. idle' \in Seq(1..born') /\ owned' \in [Thread -> SUBSET (1..born')]
    BY <1>1, <1>2, <1>5
  <2>2. pc' \in [Thread -> Label] /\ job' = [s \in Thread |-> job'[s]]
    BY <1>1, <1>2, GotoOne, Zenon DEF PoolInv
  <2>3. QED
    BY <1>1, <1>2, <1>5, <1>7, <2>1, <2>2, Zenon DEF PoolInv, Types
<1>9. Jobs'
  BY <1>1, <1>2, <1>5, JobsGoto DEF PoolInv, InCall
<1>10. Stock'
  BY <1>2, Zenon DEF PoolInv, Stock
<1>11. \A s \in Thread : Carried(s)' = Carried(s)
  BY <1>1, <1>2, GotoOne DEF PoolInv, Carried, InCall
<1>12. Moves({}, "shared", t, G)
  <2>1. /\ born \in Nat /\ born' \in Nat /\ (born + 1)..born' \subseteq {} \cup G
        /\ "shared" \in Kind \ {"gone"}
    BY <1>1, <1>3, <1>4 DEF Kind
  <2>2. Range(idle') = Range(idle) \ G /\ shared' = shared \ G
    BY <1>2, <1>5, Apart, Zenon
  <2>3. \A s \in Thread : owned'[s] = owned[s] \ G /\ Carried(s)' = Carried(s) \ G
    BY <1>2, <1>5, <1>11, Apart, Zenon
  <2>4. QED
    BY ONLY t \in Thread, <1>5, <1>7, <2>1, <2>2, <2>3 DEF Moves
<1>13. QED
  BY <1>8, <1>9, <1>10, <1>12, Moved, Zenon DEF PoolInv

\* reserve() creates its objects: they are in its hands only.
LEMMA ReserveCreatesStep ==
    ASSUME PoolInv, NEW t \in Thread, ReserveCreates(t) PROVE PoolInv'
<1>1. /\ born \in Nat /\ MaxObjects \in Nat /\ born \in 0..MaxObjects /\ "return" \in Label
      /\ idle \in Seq(1..born) /\ owned \in [Thread -> SUBSET (1..born)]
      /\ shared \subseteq 1..born /\ used \subseteq 1..born
  BY ObjectAssumption DEF PoolInv, Types, Label
<1>2. PICK n : n = Len(job[t])
  BY Zenon
<1>3. n \in Nat \ {0} /\ pc[t] = "reserve"
  BY <1>2, Zenon DEF PoolInv, Jobs, ReserveCreates
<1>4. PICK j : j = [k \in 1..n |-> born + k]
  BY Zenon
<1>5. /\ born' = born + n /\ born + n <= MaxObjects /\ Goto(t, "return", j)
      /\ UNCHANGED <<alive, idle, owned, shared, deleted, used>>
  BY <1>2, <1>4, Zenon DEF ReserveCreates
<1>6. PICK M : M = (born + 1)..(born + n)
  BY Zenon
<1>7. /\ born' \in 0..MaxObjects /\ born <= born' /\ M \subseteq 1..born' /\ 1..born \subseteq 1..born'
      /\ M \cap (1..born) = {}
  BY <1>1, <1>3, <1>5, <1>6
<1>8. /\ j \in Seq(1..born') /\ Distinct(j)
  <2>1. \A k \in 1..n : born + k \in 1..born'
    BY <1>1, <1>3, <1>5
  <2>2. j \in [1..n -> 1..born']
    BY <1>4, <2>1, Zenon
  <2>3. j \in Seq(1..born')
    BY <1>3, <2>2, ArraySeq, Zenon
  <2>4. QED
    BY <1>1, <1>3, <1>4, <2>3 DEF Distinct
<1>9. Range(j) = M
  <2>1. DOMAIN j = 1..n /\ \A k \in 1..n : j[k] = born + k
    BY <1>4, Zenon
  <2>2. \A o \in M : o - born \in 1..n /\ o = born + (o - born)
    BY <1>1, <1>3, <1>6
  <2>3. \A k \in 1..n : born + k \in M
    BY <1>1, <1>3, <1>6
  <2>4. QED
    BY <2>1, <2>2, <2>3 DEF Range
<1>10. Types'
  <2>1. idle' \in Seq(1..born') /\ owned' \in [Thread -> SUBSET (1..born')]
    BY <1>1, <1>5, <1>7
  <2>2. pc' \in [Thread -> Label] /\ job' = [s \in Thread |-> job'[s]]
    BY <1>1, <1>5, GotoOne, Zenon DEF PoolInv
  <2>3. \A o \in 1..MaxObjects : o > born' => deleted'[o] = 0
    BY <1>1, <1>5, <1>7 DEF PoolInv, Types
  <2>4. QED
    BY <1>1, <1>5, <1>7, <2>1, <2>2, <2>3, Zenon DEF PoolInv, Types
<1>11. Jobs'
  <2>1. Range(j) \cap used' = {} /\ used' \ used = {}
    BY <1>1, <1>5, <1>7, <1>9, Zenon
  <2>2. Types /\ Jobs /\ Goto(t, "return", j) /\ born' \in Nat
    BY <1>1, <1>5, <1>7 DEF PoolInv
  <2>3. QED
    BY ONLY t \in Thread, <1>1, <1>7, <1>8, <2>1, <2>2, JobsGoto, Zenon
<1>12. Stock'
  BY <1>5, Zenon DEF PoolInv, Stock
<1>13. Carried(t) = {} /\ Carried(t)' = M /\ \A s \in Thread \ {t} : Carried(s)' = Carried(s)
  BY <1>1, <1>3, <1>5, <1>9, GotoOne, SMTT(30) DEF PoolInv, Carried, InCall
<1>14. Moves(M, "carried", t, {})
  <2>1. /\ born \in Nat /\ born' \in Nat /\ (born + 1)..born' \subseteq M \cup {}
        /\ "carried" \in Kind \ {"gone"}
    BY <1>1, <1>5, <1>6, <1>7 DEF Kind
  <2>2. Range(idle') = Range(idle) \ M /\ shared' = shared \ M
    BY <1>5, <1>7, Apart, Zenon
  <2>3. \A s \in Thread : owned'[s] = owned[s] \ M /\ Carried(s) \ M = Carried(s)
    BY <1>5, <1>7, Apart, Zenon
  <2>4. \A o \in 1..born' : deleted'[o] = IF o \in M THEN 0 ELSE deleted[o]
    BY <1>1, <1>5, <1>6, <1>7 DEF PoolInv, Types
  <2>5. QED
    BY ONLY t \in Thread, <1>7, <1>13, <2>1, <2>2, <2>3, <2>4, SMTT(30) DEF Moves
<1>15. QED
  BY <1>10, <1>11, <1>12, <1>14, Moved, Zenon DEF PoolInv

\* Objects come back to the pool, as many as it has room for now; the others go.
LEMMA ReturnStep ==
    ASSUME PoolInv, NEW t \in Thread, Return(t) PROVE PoolInv'
<1>1. /\ born \in Nat /\ MaxObjects \in Nat /\ born \in 0..MaxObjects /\ "out" \in Label
      /\ idle \in Seq(1..born) /\ MaxIdle \in Nat /\ Len(idle) <= MaxIdle /\ Len(idle) \in Nat
      /\ Distinct(idle)
  BY ObjectAssumption DEF PoolInv, Types, Label, Stock
<1>2. PICK j : j = job[t]
  BY Zenon
<1>3. /\ j \in Seq(1..born) /\ Range(j) = Carried(t) /\ Range(j) \cap used = {}
      /\ Distinct(j)
  BY <1>2, Zenon DEF PoolInv, Jobs, Carried, InCall, Return
<1>4. PICK n \in 0..Len(j) :
        /\ Len(idle) + n <= MaxIdle
        /\ idle' = idle \o SubSeq(j, 1, n) /\ Destroyed(Range(SubSeq(j, n + 1, Len(j))))
  <2> DEFINE room == MaxIdle - Len(idle)
             m    == IF room < Len(j) THEN room ELSE Len(j)
  <2>1. m \in 0..Len(j) /\ Len(idle) + m <= MaxIdle
    BY <1>1, <1>3
  <2>2. idle' = idle \o SubSeq(j, 1, m) /\ Destroyed(Range(SubSeq(j, m + 1, Len(j))))
    BY <1>2, Zenon DEF Return, PutIdle
  <2> HIDE DEF m
  <2>3. QED
    BY <2>1, <2>2, Zenon
<1>5. Goto(t, "out", <<>>) /\ UNCHANGED <<alive, owned, shared, used, born>>
  BY Zenon DEF Return
<1>6. PICK a, M, G : /\ a = SubSeq(j, 1, n) /\ M = Range(SubSeq(j, 1, n))
                     /\ G = Range(SubSeq(j, n + 1, Len(j)))
  BY Zenon
<1>7. /\ a \in Seq(1..born) /\ Len(a) = n /\ M = Range(a)
      /\ Distinct(a)
      /\ M \cup G = Carried(t) /\ M \cap G = {}
  <2>1. /\ SubSeq(j, 1, n) \in Seq(1..born) /\ Len(SubSeq(j, 1, n)) = n
        /\ Distinct(SubSeq(j, 1, n))
        /\ Range(j) = Range(SubSeq(j, 1, n)) \cup Range(SubSeq(j, n + 1, Len(j)))
        /\ Range(SubSeq(j, 1, n)) \cap Range(SubSeq(j, n + 1, Len(j))) = {}
    BY ONLY <1>3, <1>4, RangeCut, Zenon
  <2>2. QED
    BY ONLY <1>3, <1>6, <2>1, Zenon
<1>8. /\ M \cup G \subseteq 1..born /\ \A o \in M \cup G : deleted[o] = 0
      /\ (M \cup G) \cap Range(idle) = {} /\ (M \cup G) \cap shared = {}
      /\ \A s \in Thread :
            (M \cup G) \cap owned[s] = {} /\ (s # t => (M \cup G) \cap Carried(s) = {})
  BY <1>7, Apart, Zenon
<1>9. /\ Range(idle') = Range(idle) \cup M /\ Distinct(idle')
      /\ idle' \in Seq(1..born) /\ Len(idle') = Len(idle) + n
  <2>1. idle' = idle \o a /\ Range(idle) \cap Range(a) = {}
    BY <1>4, <1>6, <1>7, <1>8, Zenon
  <2>2. PICK c : c = idle'
    BY Zenon
  <2>3. c = idle \o a
    BY <2>1, <2>2, Zenon
  <2>4. /\ c \in Seq(1..born) /\ Len(c) = Len(idle) + Len(a)
        /\ Range(c) = Range(idle) \cup Range(a)
        /\ Distinct(c)
    <3>1. Joined(c, idle, a)
      BY <1>1, <1>7, <2>1, <2>3, Zenon DEF Joined
    <3>2. QED
      BY ONLY <1>1, <1>7, <3>1, RangeConcat, Zenon
  <2>5. QED
    BY ONLY <1>7, <2>2, <2>4, Zenon
<1>10. idle' \in Seq(1..born) /\ Len(idle') <= MaxIdle
  BY <1>4, <1>9, Zenon
<1>11. /\ deleted' \in [1..MaxObjects -> Nat]
       /\ \A o \in 1..MaxObjects : o > born' => deleted'[o] = 0
       /\ \A o \in 1..born' : deleted'[o] = IF o \in G THEN 1 ELSE deleted[o]
  <2>1. Destroyed(G) /\ Types
    BY <1>4, <1>6, Zenon DEF PoolInv
  <2>2. /\ born' \in 0..MaxObjects /\ G \subseteq 1..born' /\ born <= born'
        /\ \A o \in G : deleted[o] = 0
    BY <1>1, <1>5, <1>8
  <2>3. QED
    BY ONLY <1>1, <2>1, <2>2, DestroyedOnce, Zenon
<1>12. Types'
  <2>1. pc' \in [Thread -> Label] /\ job' = [s \in Thread |-> job'[s]]
    BY <1>1, <1>5, GotoOne, Zenon DEF PoolInv
  <2>2. QED
    BY <1>5, <1>10, <1>11, <2>1, Zenon DEF PoolInv, Types
<1>13. Jobs'
  BY <1>1, <1>5, JobsGoto DEF PoolInv, InCall
<1>14. Stock'
  <2>1. Range(idle') \cap used' = {}
    BY <1>3, <1>5, <1>7, <1>9, Zenon DEF PoolInv, Stock
  <2>2. QED
    BY <1>9, <1>10, <2>1, Zenon DEF Stock
<1>15. Carried(t)' = {} /\ \A s \in Thread \ {t} : Carried(s)' = Carried(s)
  BY <1>1, <1>5, GotoOne, Zenon DEF PoolInv, InCall
<1>16. Moves(M, "idle", t, G)
  <2>1. /\ born \in Nat /\ born' \in Nat /\ born <= born' /\ (born + 1)..born' \subseteq M \cup G
        /\ M \subseteq 1..born' /\ G \subseteq 1..born' /\ "idle" \in Kind \ {"gone"}
    BY <1>1, <1>5, <1>8 DEF Kind
  <2>2. Range(idle') = (Range(idle) \ (M \cup G)) \cup M /\ shared' = shared \ (M \cup G)
    BY <1>5, <1>8, <1>9, Zenon
  <2>3. \A s \in Thread :
          owned'[s] = owned[s] \ (M \cup G) /\ Carried(s)' = Carried(s) \ (M \cup G)
    BY <1>5, <1>7, <1>8, <1>15
  <2>4. \A o \in 1..born' : deleted'[o] = IF o \in G THEN 1 ELSE IF o \in M THEN 0 ELSE deleted[o]
    BY <1>5, <1>8, <1>11, Zenon
  <2>5. QED
    BY ONLY t \in Thread, <1>7, <2>1, <2>2, <2>3, <2>4, Zenon DEF Moves
<1>17. QED
  BY <1>12, <1>13, <1>14, <1>16, Moved, Zenon DEF PoolInv

\* acquire() takes the last idle object.
LEMMA AcquireIdleStep ==
    ASSUME PoolInv, NEW t \in Thread, AcquireIdle(t) PROVE PoolInv'
<1>1. /\ idle \in Seq(1..born) /\ idle # <<>> /\ MaxIdle \in Nat /\ Len(idle) <= MaxIdle
      /\ Distinct(idle)
  BY ObjectAssumption, Zenon DEF PoolInv, Types, Stock, AcquireIdle
<1>2. PICK n : n = Len(idle) - 1
  BY Zenon
<1>3. n \in 0..Len(idle) /\ n + 1 = Len(idle) /\ n <= MaxIdle
  BY <1>1, <1>2
<1>4. PICK o : o = idle[Len(idle)]
  BY Zenon
<1>5. HandOut(t, o) /\ idle' = SubSeq(idle, 1, n) /\ UNCHANGED <<alive, deleted, born>>
  BY <1>2, <1>4, Zenon DEF AcquireIdle
<1>6. pc[t] \notin InCall
  BY Zenon DEF AcquireIdle, InCall
<1>7. /\ idle' \in Seq(1..born) /\ Len(idle') = n
      /\ Distinct(idle')
      /\ Range(idle) = Range(idle') \cup Range(SubSeq(idle, n + 1, Len(idle)))
      /\ Range(idle') \cap Range(SubSeq(idle, n + 1, Len(idle))) = {}
  <2>1. /\ SubSeq(idle, 1, n) \in Seq(1..born) /\ Len(SubSeq(idle, 1, n)) = n
        /\ Distinct(SubSeq(idle, 1, n))
        /\ Range(idle) = Range(SubSeq(idle, 1, n)) \cup Range(SubSeq(idle, n + 1, Len(idle)))
        /\ Range(SubSeq(idle, 1, n)) \cap Range(SubSeq(idle, n + 1, Len(idle))) = {}
    BY ONLY <1>1, <1>3, RangeCut, Zenon
  <2>2. QED
    BY <1>5, <2>1, Zenon
<1>8. Range(SubSeq(idle, n + 1, Len(idle))) = {o}
  <2>1. PICK b : b = SubSeq(idle, n + 1, Len(idle))
    BY Zenon
  <2>2. DOMAIN b = {1} /\ b[1] = o
    BY ONLY <1>1, <1>3, <1>4, <2>1
  <2>3. QED
    BY <2>1, <2>2, Zenon DEF Range
<1>9. o \in Range(idle) /\ Range(idle') = Range(idle) \ {o}
  BY <1>7, <1>8, Zenon
<1>10. idle' \in Seq(1..born') /\ Len(idle') <= MaxIdle /\ born' = born
  BY <1>3, <1>5, <1>7, Zenon
<1>11. QED
  BY <1>5, <1>6, <1>7, <1>9, <1>10, HandsOut, Zenon

\* createObject() for acquire(), and create().
LEMMA CreateStep ==
    ASSUME PoolInv, NEW t \in Thread, CreateObject(t) \/ Create(t) PROVE PoolInv'
<1>1. /\ born \in Nat /\ idle \in Seq(1..born) /\ Len(idle) <= MaxIdle
      /\ Distinct(idle)
  BY DEF PoolInv, Types, Stock
<1>2. PICK o : o = born + 1
  BY Zenon
<1>3. /\ HandOut(t, o) /\ born < MaxObjects /\ born' = born + 1 /\ pc[t] \notin InCall
      /\ UNCHANGED <<alive, idle, deleted>>
  BY <1>2, Zenon DEF CreateObject, Create, InCall
<1>4. idle' \in Seq(1..born')
  <2>1. 1..born \subseteq 1..born'
    BY <1>1, <1>3
  <2>2. QED
    BY <1>1, <1>3, <2>1
<1>5. Range(idle') = Range(idle) \ {o}
  BY <1>1, <1>2, <1>3, Apart
<1>6. QED
  BY <1>1, <1>2, <1>3, <1>4, <1>5, HandsOut, Zenon

-----------------------------------------------------------------------------
\* Every step keeps each object in one place.
LEMMA PoolStep == ASSUME PoolInv, [Next]_vars PROVE PoolInv'
<1>1. CASE UNCHANGED vars
  <2>1. UNCHANGED <<alive, idle, owned, shared, deleted, used, born, pc, job>>
    BY <1>1, Zenon DEF vars
  <2>2. Types' /\ Jobs' /\ Stock'
    BY <2>1, Zenon DEF PoolInv, Types, Jobs, Stock
  <2>3. \A t \in Thread : Carried(t)' = Carried(t)
    BY <2>1, Zenon DEF Carried
  <2>4. born \in Nat
    BY DEF PoolInv, Types
  <2>5. Moves({}, "idle", 0, {})
    BY <2>1, <2>3, <2>4 DEF Moves, Kind
  <2>6. QED
    BY <2>2, <2>5, Moved, Zenon DEF PoolInv
<1>2. ASSUME NEW t \in Thread, Acquire(t) \/ AcquireFindsNone(t) PROVE PoolInv'
  <2>1. /\ pc[t] \notin InCall
        /\ \E label \in Label \ InCall : \E j : label # "reserve" /\ Goto(t, label, j)
        /\ UNCHANGED <<alive, idle, owned, shared, deleted, used, born>>
    BY <1>2, Zenon DEF Acquire, AcquireFindsNone, InCall, Label
  <2>2. QED
    BY <2>1, OnlyGoto, Zenon
<1>3. ASSUME NEW t \in Thread, NEW count \in Reserves, Reserve(t, count) PROVE PoolInv'
  <2>1. PICK n : n = (IF count < MaxIdle THEN count ELSE MaxIdle) - Len(idle)
    BY Zenon
  <2>2. n \in Nat \ {0}
    <3>1. /\ count \in Nat /\ MaxIdle \in Nat /\ Len(idle) \in Nat
          /\ Len(idle) < count /\ Len(idle) < MaxIdle
      BY <1>3, ObjectAssumption DEF Reserve, PoolInv, Types
    <3>2. QED
      BY ONLY <2>1, <3>1
  <2>3. PICK j : j = [k \in 1..n |-> 0]
    BY Zenon
  <2>4. Len(j) \in Nat \ {0}
    BY <2>2, <2>3
  <2>5. /\ pc[t] \notin InCall /\ Goto(t, "reserve", j) /\ "reserve" \in Label \ InCall
        /\ UNCHANGED <<alive, idle, owned, shared, deleted, used, born>>
    BY <1>3, <2>1, <2>3, Zenon DEF Reserve, InCall, Label
  <2>6. QED
    BY ONLY PoolInv, t \in Thread, <2>4, <2>5, OnlyGoto, Zenon
<1>4. ASSUME NEW t \in Thread, ResetThrows(t) PROVE PoolInv'
  BY <1>4, CallDestroys, Zenon DEF ResetThrows
<1>5. ASSUME NEW t \in Thread, NEW o, Release(t, o) PROVE PoolInv'
  BY <1>5, Releases, Zenon DEF Release
<1>6. ASSUME NEW t \in Thread, NEW o, DropShared(t, o) PROVE PoolInv'
  <2>1. CASE alive
    BY <1>6, <2>1, Releases, Zenon DEF DropShared
  <2>2. CASE ~alive
    <3>1. /\ o \in shared /\ shared' = shared \ {o} /\ Destroyed({o})
          /\ UNCHANGED <<alive, idle, owned, used, born, pc, job>>
      BY <1>6, <2>2, Zenon DEF DropShared
    <3>2. PICK G : G = {o}
      BY Zenon
    <3>3. Destroyed(G) /\ alive' \in BOOLEAN
      BY <3>1, <3>2, Zenon DEF PoolInv, Types
    <3>4. QED
      BY <3>1, <3>2, <3>3, Destroys, Zenon
  <2>3. QED
    BY <2>1, <2>2, Zenon
<1>7. ASSUME NEW t \in Thread, NEW o, Discard(t, o) PROVE PoolInv'
  <2>1. /\ o \in owned[t] /\ owned' = [owned EXCEPT ![t] = @ \ {o}] /\ Destroyed({o})
        /\ UNCHANGED <<alive, idle, shared, used, born, pc, job>>
    BY <1>7, Zenon DEF Discard
  <2>2. PICK G : G = {o}
    BY Zenon
  <2>3. Destroyed(G) /\ alive' \in BOOLEAN
    BY <2>1, <2>2, Zenon DEF PoolInv, Types
  <2>4. QED
    BY <2>1, <2>2, <2>3, Destroys, Zenon
<1>8. ASSUME (\E t \in Thread : Clear(t)) \/ DestroyPool PROVE PoolInv'
  <2>1. /\ Destroyed(Range(idle)) /\ idle' = <<>> /\ UNCHANGED <<owned, shared, used, born, pc, job>>
        /\ alive' \in BOOLEAN
    BY <1>8, Zenon DEF Clear, DestroyPool, PoolInv, Types
  <2>2. QED
    BY <2>1, Destroys, Zenon
<1>9. QED
  BY <1>1, <1>2, <1>3, <1>4, <1>5, <1>6, <1>7, <1>8, ReleaseResetsStep, CreateThrowsStep,
     ReserveCreatesStep, ReturnStep, AcquireIdleStep, CreateStep, Zenon DEF Next

\* An object with one place has one element in Places.
LEMMA OnePlace ==
    ASSUME PoolInv, NEW o \in 1..born PROVE \E p \in Places(o) : Places(o) = {p}
<1>1. PICK kind, by : Located(kind, by)
  BY Zenon DEF PoolInv
<1> DEFINE A == {k \in DOMAIN idle : idle[k] = o}
           B == {t \in Thread : o \in owned[t]}
           C == {t \in Thread : pc[t] \in {"reset", "return"} /\ o \in Range(job[t])}
           S == IF o \in shared THEN {1} ELSE {}
           D == 1..deleted[o]
<1>2. C = {t \in Thread : o \in Carried(t)}
  BY Zenon DEF Carried, InCall
<1>3. /\ o \in Range(idle) <=> kind[o] = "idle"
      /\ \A t \in Thread : o \in owned[t] <=> kind[o] = "owned" /\ by[o] = t
      /\ o \in shared <=> kind[o] = "shared"
      /\ \A t \in Thread : o \in Carried(t) <=> kind[o] = "carried" /\ by[o] = t
      /\ deleted[o] = IF kind[o] = "gone" THEN 1 ELSE 0
      /\ kind[o] \in Kind /\ by[o] \in Thread
  BY <1>1, Zenon DEF Located
<1>4. IF kind[o] = "idle" THEN \E k : A = {k} ELSE A = {}
  <2>1. CASE kind[o] = "idle"
    <3>1. PICK k \in DOMAIN idle : idle[k] = o
      BY <1>3, <2>1, Zenon DEF Range
    <3>2. A = {k}
      BY <3>1, Zenon DEF PoolInv, Stock, Distinct
    <3>3. QED
      BY <2>1, <3>2, Zenon
  <2>2. CASE kind[o] # "idle"
    BY <1>3, <2>2, Zenon DEF Range
  <2>3. QED
    BY <2>1, <2>2, Zenon
<1>5. IF kind[o] = "owned" THEN B = {by[o]} ELSE B = {}
  BY <1>3, Zenon
<1>6. IF kind[o] = "carried" THEN C = {by[o]} ELSE C = {}
  BY <1>2, <1>3, Zenon
<1>7. IF kind[o] = "shared" THEN S = {1} ELSE S = {}
  BY <1>3, Zenon
<1>8. IF kind[o] = "gone" THEN D = {1} ELSE D = {}
  BY <1>3
<1>9. Places(o) = {<<"idle", k>> : k \in A} \cup {<<"owned", t>> : t \in B}
                  \cup {<<"shared", n>> : n \in S} \cup {<<"call", t>> : t \in C}
                  \cup {<<"deleted", n>> : n \in D}
  BY Zenon DEF Places
<1> HIDE DEF A, B, C, S, D
<1>10. kind[o] \in {"idle", "owned", "carried", "shared", "gone"}
  BY <1>3, Zenon DEF Kind
<1>11. CASE kind[o] = "idle"
  <2>1. PICK k : A = {k}
    BY <1>4, <1>11, Zenon
  <2>2. Places(o) = {<<"idle", k>>}
    BY <1>5, <1>6, <1>7, <1>8, <1>9, <1>11, <2>1, Zenon
  <2>3. QED
    BY <2>2, Zenon
<1>12. CASE kind[o] = "owned"
  <2>1. Places(o) = {<<"owned", by[o]>>}
    BY <1>4, <1>5, <1>6, <1>7, <1>8, <1>9, <1>12, Zenon
  <2>2. QED
    BY <2>1, Zenon
<1>13. CASE kind[o] = "carried"
  <2>1. Places(o) = {<<"call", by[o]>>}
    BY <1>4, <1>5, <1>6, <1>7, <1>8, <1>9, <1>13, Zenon
  <2>2. QED
    BY <2>1, Zenon
<1>14. CASE kind[o] = "shared"
  <2>1. Places(o) = {<<"shared", 1>>}
    BY <1>4, <1>5, <1>6, <1>7, <1>8, <1>9, <1>14, Zenon
  <2>2. QED
    BY <2>1, Zenon
<1>15. CASE kind[o] = "gone"
  <2>1. Places(o) = {<<"deleted", 1>>}
    BY <1>4, <1>5, <1>6, <1>7, <1>8, <1>9, <1>15, Zenon
  <2>2. QED
    BY <2>1, Zenon
<1>16. QED
  BY <1>10, <1>11, <1>12, <1>13, <1>14, <1>15, Zenon

\* Whatever calls of whichever threads overlap, and whether the pool or a shared_ptr
\* goes first, every object is in one place and is destroyed at most once, and the
\* pool keeps at most maxIdle objects, each of them reset: ObjectsConserved holds for
\* any set of threads, any number of objects and any maxIdle.
THEOREM PoolObjectsConserved == Spec => []ObjectsConserved
<1>1. Init => PoolInv
  <2>1. SUFFICES ASSUME Init PROVE PoolInv
    BY Zenon
  <2>2. born = 0 /\ idle = <<>> /\ MaxIdle \in Nat /\ MaxObjects \in Nat /\ 1..born = {}
    BY <2>1, ObjectAssumption DEF Init
  <2>3. Types
    <3>1. /\ alive \in BOOLEAN /\ shared = {} /\ used = {} /\ owned = [t \in Thread |-> {}]
          /\ deleted = [o \in 1..MaxObjects |-> 0]
      BY <2>1, Zenon DEF Init
    <3>2. pc \in [Thread -> Label] /\ job = [t \in Thread |-> job[t]]
      BY <2>1, Zenon DEF Init, Label
    <3>3. QED
      BY <2>2, <3>1, <3>2 DEF Types
  <2>4. Jobs
    <3>1. \A t \in Thread : pc[t] = "out"
      BY <2>1, Zenon DEF Init
    <3>2. QED
      BY <3>1, Zenon DEF Jobs, InCall
  <2>5. Stock
    BY <2>2, RangeSmall DEF Stock, Distinct
  <2>6. PICK kind : kind = [o \in {} |-> "idle"]
    BY Zenon
  <2>7. Located(kind, kind)
    BY <2>2, <2>6, Zenon DEF Located
  <2>8. QED
    BY <2>3, <2>4, <2>5, <2>7, Zenon DEF PoolInv
<1>2. PoolInv /\ [Next]_vars => PoolInv'
  BY PoolStep, Zenon
<1>3. PoolInv => ObjectsConserved
  BY OnePlace, Zenon DEF ObjectsConserved, PoolInv, Stock
<1>4. QED
  BY <1>1, <1>2, <1>3, PTL DEF Spec

-----------------------------------------------------------------------------
\* EventLoopThreads

\* The types of EventLoopThreads' variables; getNextLoop()'s index stays in range below.
LoopTypeOK ==
    /\ mStarted \in [Loop -> BOOLEAN] /\ spent \in [Loop -> BOOLEAN]
    /\ latch \in [Loop -> 0..1] /\ mLoop \in [Loop -> BOOLEAN]
    /\ thread \in [Loop -> T!Stages] /\ quit \in [Loop -> BOOLEAN]
    /\ loops \in Seq(Loop) /\ next \in Nat
    /\ phase \in {"starting", "serving", "closing"}

\* Until the destructor runs nobody has asked a loop to quit, so a thread that opened
\* its latch is still in loop() or on its way into it.
LoopInv ==
    /\ LoopTypeOK
    /\ next = 0 \/ next < Len(loops)
    /\ \A l \in Loop : ~spent[l] => thread[l] = "none"
    /\ phase # "closing" =>
        /\ \A l \in Loop :
            /\ ~quit[l]
            /\ thread[l] \in {"none", "construct", "publish"} => latch[l] = 1
            /\ thread[l] \notin {"left", "exited"}
        /\ \A k \in DOMAIN loops : latch[loops[k]] = 0

\* LoopInv holds when the pool of loops is constructed.
LEMMA LoopInvInit == T!Init => LoopInv
  BY DEF T!Init, LoopInv, LoopTypeOK, T!Stages

\* Every step of the owner and of the threads keeps LoopInv.
LEMMA LoopInvNext == LoopInv /\ [T!Next]_(T!vars) => LoopInv'
<1> SUFFICES ASSUME LoopInv, [T!Next]_(T!vars) PROVE LoopInv'
  BY Zenon
<1> USE DEF LoopInv, LoopTypeOK, T!Stages, T!threadVars, T!poolVars
<1>1. ASSUME NEW l \in Loop, T!StartLoop(l) PROVE LoopInv'
  BY <1>1, Zenon DEF T!StartLoop
<1>2. ASSUME NEW l \in Loop, T!StartLoopFails(l) PROVE LoopInv'
  BY <1>2, Zenon DEF T!StartLoopFails
<1>3. ASSUME NEW l \in Loop, T!RestartThrows(l) PROVE LoopInv'
  BY <1>3, Zenon DEF T!RestartThrows
<1>4. ASSUME NEW l \in Loop, T!Stop(l) PROVE LoopInv'
  BY <1>4, ZenonT(30) DEF T!Stop
<1>5. ASSUME NEW l \in Loop, T!StartLoopReturns(l) PROVE LoopInv'
  <2>1. /\ loops' = Append(loops, l) /\ latch[l] = 0
        /\ UNCHANGED <<mStarted, spent, latch, mLoop, thread, quit, next, phase>>
    BY <1>5, Zenon DEF T!StartLoopReturns
  <2>2. /\ loops' \in Seq(Loop) /\ Len(loops') = Len(loops) + 1
        /\ \A k \in 1..Len(loops) : loops'[k] = loops[k]
        /\ loops'[Len(loops) + 1] = l
    BY <2>1
  <2>3. next' = 0 \/ next' < Len(loops')
    BY <2>1, <2>2
  <2>4. phase' # "closing" => \A k \in DOMAIN loops' : latch'[loops'[k]] = 0
    BY <2>1, <2>2
  <2> QED
    BY <2>1, <2>2, <2>3, <2>4, Zenon
<1>6. ASSUME NEW l \in Loop, T!StopJoined(l) PROVE LoopInv'
  BY <1>6, Zenon DEF T!StopJoined
<1>7. ASSUME NEW l \in Loop, T!ThreadStep(l) \/ T!Poll(l) PROVE LoopInv'
  <2> USE DEF T!Move
  <2>1. CASE T!Construct(l)
    BY <2>1, Zenon DEF T!Construct
  <2>2. CASE T!Publish(l)
    BY <2>2 DEF T!Publish
  <2>3. CASE T!EnterLoop(l)
    BY <2>3, Zenon DEF T!EnterLoop
  <2>4. CASE T!TestQuit(l)
    BY <2>4, Zenon DEF T!TestQuit
  <2>5. CASE T!Poll(l)
    BY <2>5, Zenon DEF T!Poll
  <2>6. CASE T!LeaveThread(l)
    BY <2>6, Zenon DEF T!LeaveThread
  <2> QED
    BY <1>7, <2>1, <2>2, <2>3, <2>4, <2>5, <2>6, Zenon DEF T!ThreadStep, T!Woken
<1>8. CASE T!GetNextLoop
  BY <1>8 DEF T!GetNextLoop
<1>9. CASE T!PoolPhase
  BY <1>9, Zenon DEF T!PoolPhase
<1>10. CASE UNCHANGED T!vars
  BY <1>10, Zenon DEF T!vars
<1> QED
  BY <1>1, <1>2, <1>3, <1>4, <1>5, <1>6, <1>7, <1>8, <1>9, <1>10, Zenon
     DEF T!Next, T!OwnerReturns

\* LoopsAlive: until the destructor of EventLoopThreadPool runs, getNextLoop() has a
\* loop to return whose thread is in loop() or on its way into it, also after a start()
\* that failed part way.
THEOREM LoopThreadsAlive == T!Spec => []LoopsAlive
<1>1. LoopInv => LoopsAlive
  BY SMTT(20) DEF LoopInv, LoopTypeOK, LoopsAlive, T!LoopsAlive, T!Stages
<1> QED
  BY <1>1, LoopInvInit, LoopInvNext, PTL DEF T!Spec

-----------------------------------------------------------------------------
\* TimerQueue

\* The timer objects.
QTimer == [id : Nat, expiration : Nat, interval : Nat, generation : Nat]

\* No two timers of a set have the same id.
DistinctIds(h) == \A x, y \in h : x.id = y.id => x = y

\* The worker has taken `held' out of m_tasks.
Carries == wpc \in {"check", "execute", "again", "rearm", "repush"}

\* Caller c has made a timer and not pushed it yet.
Pushing(c) == place[c] = "push"

\* The types of TimerQueue's variables.
QTypeOK ==
    /\ heap \subseteq QTimer /\ made \in [Caller -> QTimer] /\ held \in QTimer
    /\ nextId \in Nat /\ generation \in Nat /\ now \in Nat
    /\ place \in [Caller -> {"idle", "make", "push", "notify"}]
    /\ quiet \subseteq 1..nextId

\* A timer is in one place only: in m_tasks, with the caller that made it, or with the
\* worker that took it.
TimerPlace ==
    /\ DistinctIds(heap)
    /\ \A x \in heap : x.id <= nextId
    /\ \A c \in Caller : Pushing(c) =>
          /\ made[c].id <= nextId
          /\ \A x \in heap : x.id # made[c].id
          /\ \A b \in Caller \ {c} : Pushing(b) => made[b].id # made[c].id
    /\ Carries =>
          /\ held.id <= nextId
          /\ \A x \in heap : x.id # held.id
          /\ \A c \in Caller : Pushing(c) => made[c].id # held.id

\* A timer that was cancelled while it could still be stopped is one that
\* isCancelledLocked() recognises.
Recognised(x) ==
    /\ x.generation <= generation
    /\ x.id \in quiet => Q!IsCancelled(x)

\* The inductive invariant: every timer that could still be handed over and was
\* cancelled is recognised, and none is between its last check and its start.
QuietInv ==
    /\ QTypeOK
    /\ TimerPlace
    /\ \A x \in heap : Recognised(x)
    /\ \A c \in Caller : Pushing(c) => Recognised(made[c])
    /\ Carries => Recognised(held)
    /\ wpc = "execute" => held.id \notin quiet

\* QuietInv holds when the TimerQueue is constructed.
LEMMA QuietInvInit == Q!Init => QuietInv
  BY DEF Q!Init, QuietInv, QTypeOK, TimerPlace, QTimer, Q!None, Carries, Pushing, DistinctIds

\* The timers and what is known of them are left alone.
Still == UNCHANGED <<heap, made, held, nextId, generation, cancelled, quiet>>

\* A step of workerLoop(), of a caller or of the owner that leaves the timers alone, and
\* neither starts a callback nor takes or makes another timer, keeps QuietInv.
LEMMA QuietStill ==
    ASSUME QuietInv, Still, now' \in Nat,
           place' \in [Caller -> {"idle", "make", "push", "notify"}],
           \A c \in Caller : Pushing(c)' => Pushing(c),
           Carries' => Carries,
           wpc' = "execute" => wpc = "execute"
    PROVE  QuietInv'
  BY Zenon DEF QuietInv, QTypeOK, TimerPlace, Recognised, Q!IsCancelled, Still, DistinctIds, Pushing

\* m_cv.notify_all() wakes the worker and leaves every timer where it is.
LEMMA QuietNotify ==
    ASSUME Q!NotifyAll
    PROVE  (Carries' <=> Carries) /\ (wpc' = "execute" <=> wpc = "execute")
  BY Zenon DEF Q!NotifyAll, Carries

\* start(), the steps of stop() around its critical section, and the clock keep QuietInv.
LEMMA QuietOwner ==
    ASSUME QuietInv, Q!Start \/ Q!StartFails \/ Q!Stop \/ Q!StopNotifies \/ Q!StopReturns \/ Q!Tick
    PROVE  QuietInv'
<1> USE DEF Still, Carries, Pushing, Q!queue
<1>0. QTypeOK
  BY Zenon DEF QuietInv
<1>1. CASE Q!Start
  BY <1>0, <1>1, QuietStill, Zenon DEF Q!Start, QTypeOK
<1>2. CASE Q!StartFails
  BY <1>0, <1>2, QuietStill, Zenon DEF Q!StartFails, QTypeOK
<1>3. CASE Q!Stop
  BY <1>0, <1>3, QuietStill, Zenon DEF Q!Stop, QTypeOK
<1>4. CASE Q!StopNotifies
  BY <1>0, <1>4, QuietStill, QuietNotify, Zenon DEF Q!StopNotifies, QTypeOK
<1>5. CASE Q!StopReturns
  BY <1>0, <1>5, QuietStill, Zenon DEF Q!StopReturns, QTypeOK
<1>6. CASE Q!Tick
  BY <1>0, <1>6, QuietStill DEF Q!Tick, QTypeOK
<1> QED
  BY <1>1, <1>2, <1>3, <1>4, <1>5, <1>6, Zenon

\* stop() and cancelAll() make every timer one of an earlier generation.
LEMMA QuietNewGeneration ==
    ASSUME QuietInv, generation' = generation + 1, cancelled' = {},
           heap' \subseteq heap, quiet' = quiet \cup Q!Reached(1..nextId),
           UNCHANGED <<made, held, nextId, now, wpc>>,
           place' \in [Caller -> {"idle", "make", "push", "notify"}],
           \A c \in Caller : Pushing(c)' => Pushing(c)
    PROVE  QuietInv'
<1>1. QTypeOK'
  <2>1. quiet' \subseteq 1..nextId
    BY Zenon DEF QuietInv, QTypeOK, Q!Reached
  <2> QED
    BY <2>1 DEF QuietInv, QTypeOK
<1>2. TimerPlace'
  BY Zenon DEF QuietInv, TimerPlace, DistinctIds, Pushing, Carries
<1>3. \A x \in QTimer : x.generation <= generation => x.generation < generation'
  BY SMTT(30) DEF QuietInv, QTypeOK, QTimer
<1>4. /\ \A x \in heap' : Recognised(x)'
      /\ \A c \in Caller : Pushing(c)' => Recognised(made[c])'
      /\ Carries' => Recognised(held)'
  <2>1. ASSUME NEW x \in QTimer, Recognised(x) PROVE Recognised(x)'
    BY <1>3, <2>1 DEF Recognised, Q!IsCancelled, QuietInv, QTypeOK, QTimer
  <2> QED
    BY <2>1, Zenon DEF QuietInv, QTypeOK, Carries, Pushing
<1>5. wpc' = "execute" => held'.id \notin quiet'
  BY Zenon DEF QuietInv, Q!Reached
<1> QED
  BY <1>1, <1>2, <1>4, <1>5, Zenon DEF QuietInv

\* runAt(), runEvery(), cancel() and cancelAll() keep QuietInv, from whatever thread.
LEMMA QuietCaller ==
    ASSUME QuietInv, NEW c \in Caller,
           \/ Q!CallRun(c) \/ Q!PushTask(c) \/ Q!PushNotifies(c) \/ Q!CancelAll(c)
           \/ \E d \in Delays, r \in BOOLEAN : Q!MakeTimer(c, d, r)
           \/ \E i \in Q!Ids : Q!Cancel(c, i)
    PROVE  QuietInv'
<1>0. QTypeOK
  BY Zenon DEF QuietInv
<1> USE DEF Q!queue, Q!flags
<1>1. CASE Q!CallRun(c)
  BY <1>0, <1>1, QuietStill, Zenon DEF Q!CallRun, QTypeOK, Still, Carries, Pushing
<1>2. CASE Q!PushNotifies(c)
  BY <1>0, <1>2, QuietStill, QuietNotify, Zenon DEF Q!PushNotifies, QTypeOK, Still, Carries, Pushing
<1>3. CASE Q!CancelAll(c)
  BY <1>0, <1>3, QuietNewGeneration, Zenon DEF Q!CancelAll, QTypeOK, Pushing
<1>4. CASE Q!PushTask(c)
  <2>1. /\ Pushing(c) /\ heap' = heap \cup {made[c]} /\ made' = [made EXCEPT ![c] = Q!None]
        /\ place' = [place EXCEPT ![c] = "notify"]
        /\ UNCHANGED <<nextId, generation, cancelled, quiet, now, wpc, held>>
    BY <1>4, Zenon DEF Q!PushTask, Pushing
  <2>2. QTypeOK'
    BY <1>0, <2>1, Zenon DEF QTypeOK, Q!None, QTimer
  <2>3. \A b \in Caller : Pushing(b)' => b # c /\ Pushing(b) /\ made'[b] = made[b]
    BY <1>0, <2>1, Zenon DEF QTypeOK, Pushing
  <2>4. TimerPlace'
    <3>1. TimerPlace /\ heap' = heap \cup {made[c]} /\ nextId' = nextId
      BY <2>1, Zenon DEF QuietInv
    <3>2. /\ made[c].id <= nextId /\ \A x \in heap : x.id # made[c].id
          /\ \A b \in Caller \ {c} : Pushing(b) => made[b].id # made[c].id
          /\ Carries => made[c].id # held.id
      BY <2>1, <3>1, Zenon DEF TimerPlace
    <3>3. DistinctIds(heap') /\ \A x \in heap' : x.id <= nextId'
      BY <3>1, <3>2, Zenon DEF TimerPlace, DistinctIds
    <3>4. ASSUME NEW b \in Caller, Pushing(b)'
          PROVE  /\ made'[b].id <= nextId' /\ \A x \in heap' : x.id # made'[b].id
                 /\ \A a \in Caller \ {b} : Pushing(a)' => made'[a].id # made'[b].id
      BY <2>3, <3>1, <3>2, <3>4, Zenon DEF TimerPlace
    <3>5. Carries' =>
            /\ held'.id <= nextId' /\ \A x \in heap' : x.id # held'.id
            /\ \A b \in Caller : Pushing(b)' => made'[b].id # held'.id
      BY <2>1, <2>3, <3>1, <3>2, Zenon DEF TimerPlace, Carries
    <3>6. QED
      BY <3>3, <3>4, <3>5, Zenon DEF TimerPlace
  <2>5. \A x : Recognised(x)' <=> Recognised(x)
    BY <2>1, Zenon DEF Recognised, Q!IsCancelled
  <2> QED
    BY <2>1, <2>2, <2>3, <2>4, <2>5, Zenon DEF QuietInv, Carries
<1>5. ASSUME NEW d \in Delays, NEW r \in BOOLEAN, Q!MakeTimer(c, d, r) PROVE QuietInv'
  <2> DEFINE x == [id |-> nextId + 1, expiration |-> now + d,
                   interval |-> IF r THEN d ELSE 0, generation |-> generation]
  <2>1. /\ made' = [made EXCEPT ![c] = x] /\ place' = [place EXCEPT ![c] = "push"]
        /\ nextId' = nextId + 1
        /\ UNCHANGED <<heap, generation, cancelled, quiet, now, wpc, held>>
    BY <1>5, Zenon DEF Q!MakeTimer
  <2>2. x \in QTimer /\ x.id = nextId + 1 /\ x.generation = generation
    BY <1>0, TimerAssumption, SMTT(20) DEF QTypeOK, QTimer
  <2>3. QTypeOK' /\ made'[c] = x
    BY <1>0, <2>1, <2>2 DEF QTypeOK
  <2>4. \A b \in Caller \ {c} : (Pushing(b)' <=> Pushing(b)) /\ made'[b] = made[b]
    BY <1>0, <2>1, Zenon DEF QTypeOK, Pushing
  <2> HIDE DEF x
  <2>5. \A y \in QTimer : y.id <= nextId => y.id <= nextId' /\ y.id # x.id
    BY <1>0, <2>1, <2>2, SMTT(20) DEF QTypeOK, QTimer
  <2>6. TimerPlace'
    BY <1>0, <2>1, <2>2, <2>3, <2>4, <2>5 DEF QuietInv, QTypeOK, TimerPlace, DistinctIds, Carries
  <2>7. \A y : Recognised(y)' <=> Recognised(y)
    BY <2>1, Zenon DEF Recognised, Q!IsCancelled
  <2>8. Recognised(x)
    BY <1>0, <2>2 DEF Recognised, QTypeOK
  <2> QED
    BY <2>1, <2>3, <2>4, <2>6, <2>7, <2>8, Zenon DEF QuietInv, Carries
<1>6. ASSUME NEW i \in Q!Ids, Q!Cancel(c, i) PROVE QuietInv'
  <2>1. /\ cancelled' = cancelled \cup {i} /\ quiet' = quiet \cup Q!Reached({i})
        /\ i \in 1..nextId
        /\ UNCHANGED <<heap, made, place, nextId, generation, now, held>>
        /\ (Carries' <=> Carries) /\ (wpc' = "execute" <=> wpc = "execute")
    BY <1>6, QuietNotify, Zenon DEF Q!Cancel, Q!Returned
  <2>2. QTypeOK'
    BY <1>0, <2>1, Zenon DEF QTypeOK, Q!Reached
  <2>3. TimerPlace'
    BY <2>1, Zenon DEF QuietInv, TimerPlace, DistinctIds, Pushing
  <2>4. \A x : Recognised(x) => Recognised(x)'
    BY <2>1, Zenon DEF Recognised, Q!IsCancelled, Q!Reached
  <2>5. wpc' = "execute" => held'.id \notin quiet'
    BY <2>1, Zenon DEF QuietInv, Q!Reached
  <2> QED
    BY <2>1, <2>2, <2>3, <2>4, <2>5, Zenon DEF QuietInv, Pushing
<1> QED
  BY <1>1, <1>2, <1>3, <1>4, <1>5, <1>6, Zenon

\* Forgetting the cancellation of a timer that is dropped leaves the others recognised.
LEMMA StillRecognised ==
    ASSUME NEW x, Recognised(x), NEW ids, cancelled' = cancelled \ ids, x.id \notin ids,
           UNCHANGED <<generation, quiet>>
    PROVE  Recognised(x)'
  BY Zenon DEF Recognised, Q!IsCancelled

\* The worker looks for the first timer that is not cancelled.
LEMMA QuietScan ==
    ASSUME QuietInv, Q!Scan, ~Carries
    PROVE  QuietInv'
<1> DEFINE ids == {x.id : x \in Q!Dropped}
<1>0. QTypeOK /\ TimerPlace /\ DistinctIds(heap)
  BY Zenon DEF QuietInv, TimerPlace
<1>1. /\ cancelled' = cancelled \ ids
      /\ UNCHANGED <<nextId, generation, quiet, now, place, made>>
  BY Zenon DEF Q!Scan, Q!flags
<1>2. Q!Dropped \subseteq heap /\ Q!Live \subseteq heap
  BY Zenon DEF Q!Dropped, Q!Live
<1>3. \A x \in heap \ Q!Dropped : x.id \notin ids
  BY <1>0, <1>2, Zenon DEF DistinctIds
<1>4. \A c \in Caller : Pushing(c) => made[c].id \notin ids
  BY <1>0, <1>2, Zenon DEF TimerPlace
<1>5. \A c \in Caller : Pushing(c)' => Pushing(c) /\ Recognised(made[c])'
  BY <1>1, <1>4, StillRecognised, Zenon DEF QuietInv, Pushing
<1>6. ASSUME heap' = {}, held' = Q!None, wpc' = "wait" PROVE QuietInv'
  <2>1. QTypeOK'
    BY <1>0, <1>1, <1>6, Zenon DEF QTypeOK, QTimer, Q!None
  <2>2. TimerPlace' /\ ~Carries'
    BY <1>0, <1>1, <1>6, Zenon DEF TimerPlace, DistinctIds, Carries, Pushing
  <2> QED
    BY <1>1, <1>5, <1>6, <2>1, <2>2, Zenon DEF QuietInv
<1>7. ASSUME Q!Live # {} PROVE QuietInv'
  <2>1. PICK top \in Q!Live :
          /\ held' = top
          /\ \/ heap' = heap \ Q!Dropped /\ wpc' = "parkUntil"
             \/ heap' = heap \ (Q!Dropped \cup {top}) /\ wpc' = "check"
    BY <1>7, Zenon DEF Q!Scan
  <2>2. held' = top /\ top \in heap /\ top \in QTimer /\ top \notin Q!Dropped
    BY <1>0, <2>1, Zenon DEF QTypeOK, Q!Live, Q!Dropped
  <2>3. \/ heap' = heap \ Q!Dropped /\ wpc' = "parkUntil"
        \/ heap' = heap \ (Q!Dropped \cup {top}) /\ wpc' = "check"
    BY <2>1, Zenon
  <2>4. QTypeOK'
    BY <1>0, <1>1, <2>2, <2>3, Zenon DEF QTypeOK
  <2>5. heap' \subseteq heap \ Q!Dropped /\ (Carries' => top \notin heap')
    BY <2>3, Zenon DEF Carries
  <2>6. TimerPlace'
    BY <1>0, <1>1, <2>2, <2>5, Zenon DEF TimerPlace, DistinctIds, Pushing
  <2>7. \A x \in heap' : Recognised(x)'
    BY <1>1, <1>3, <2>5, StillRecognised, Zenon DEF QuietInv
  <2>8. Recognised(held)'
    BY <1>1, <1>3, <2>2, StillRecognised, Zenon DEF QuietInv, Recognised, Q!IsCancelled
  <2> QED
    BY <1>5, <2>3, <2>4, <2>6, <2>7, <2>8, Zenon DEF QuietInv
<1> QED
  BY <1>6, <1>7, Zenon DEF Q!Scan

\* A step of the worker that drops the timer it carries.
LEMMA QuietDrop ==
    ASSUME QuietInv, Carries,
           cancelled' = cancelled \ {held.id} \/ UNCHANGED cancelled,
           held' = Q!None, wpc' = "wait",
           UNCHANGED <<heap, made, place, nextId, generation, quiet, now>>
    PROVE  QuietInv'
<1>1. QTypeOK'
  BY Zenon DEF QuietInv, QTypeOK, QTimer, Q!None
<1>2. TimerPlace' /\ ~Carries'
  BY Zenon DEF QuietInv, TimerPlace, DistinctIds, Carries, Pushing
<1>3. \A x \in heap' : Recognised(x)'
  BY StillRecognised, Zenon DEF QuietInv, TimerPlace, Recognised, Q!IsCancelled
<1>4. \A c \in Caller : Pushing(c)' => Recognised(made[c])'
  BY StillRecognised, Zenon DEF QuietInv, TimerPlace, Recognised, Q!IsCancelled, Pushing
<1> QED
  BY <1>1, <1>2, <1>3, <1>4, Zenon DEF QuietInv

\* workerLoop(): the steps that wait, take, check, start and re-arm a timer.
LEMMA QuietWorker ==
    ASSUME QuietInv, Q!WorkerStep
    PROVE  QuietInv'
<1>0. QTypeOK
  BY Zenon DEF QuietInv
<1> USE DEF Q!queue, Q!flags
<1>1. ASSUME NEW w, Q!Goto(w), w # "execute", w \in {"again"} => wpc = "execute",
             w \notin {"check", "rearm", "repush"}
      PROVE  QuietInv'
  BY <1>0, <1>1, QuietStill, Zenon DEF Q!Goto, QTypeOK, Still, Carries, Pushing
<1>2. ASSUME Q!Exit, ~Carries PROVE QuietInv'
  <2>1. QTypeOK' /\ ~Carries' /\ wpc' # "execute"
    BY <1>0, <1>2, Zenon DEF Q!Exit, QTypeOK, QTimer, Q!None, Carries
  <2>2. UNCHANGED <<heap, made, place, nextId, generation, cancelled, quiet, now>>
    BY <1>2, Zenon DEF Q!Exit
  <2> QED
    BY <2>1, <2>2, Zenon DEF QuietInv, TimerPlace, DistinctIds, Recognised, Q!IsCancelled, Pushing
<1>3. CASE Q!Wait
  BY <1>1, <1>2, <1>3, QuietScan, Zenon DEF Q!Wait, Carries
<1>4. CASE Q!Sleep
  BY <1>1, <1>4, Zenon DEF Q!Sleep
<1>5. CASE Q!WaitUntil
  BY <1>1, <1>2, <1>5, QuietScan, Zenon DEF Q!WaitUntil, Carries
<1>6. CASE Q!Check
  <2>1. CASE Q!IsCancelled(held)
    BY <1>6, <2>1, QuietDrop, Zenon DEF Q!Check, Carries
  <2>2. CASE ~Q!IsCancelled(held)
    <3>1. /\ Carries /\ Carries' /\ wpc' = "execute"
          /\ UNCHANGED <<heap, made, held, place, nextId, generation, cancelled, quiet, now>>
      BY <1>6, <2>2, Zenon DEF Q!Check, Carries
    <3>2. held.id \notin quiet
      BY <2>2, <3>1, Zenon DEF QuietInv, Recognised
    <3> QED
      BY <3>1, <3>2, Zenon DEF QuietInv, QTypeOK, TimerPlace, DistinctIds, Recognised, Q!IsCancelled, Pushing
  <2> QED
    BY <2>1, <2>2, Zenon
<1>7. CASE Q!Execute
  BY <1>1, <1>7, Zenon DEF Q!Execute
<1>8. CASE Q!Again
  <2>1. CASE wpc' = "wait" /\ held' = Q!None
    BY <1>8, <2>1, QuietDrop, Zenon DEF Q!Again, Carries
  <2>2. CASE wpc' = "rearm" /\ UNCHANGED held
    BY <1>0, <1>8, <2>2, QuietStill, Zenon DEF Q!Again, QTypeOK, Still, Carries, Pushing
  <2> QED
    BY <1>8, <2>1, <2>2, Zenon DEF Q!Again
<1>9. CASE Q!Rearm
  <2>1. CASE stopped
    BY <1>9, <2>1, QuietDrop, Zenon DEF Q!Rearm, Carries
  <2>2. CASE ~stopped
    <3>1. /\ Carries /\ Carries' /\ wpc' # "execute"
          /\ held' = [held EXCEPT !.expiration = now + held.interval]
          /\ UNCHANGED <<heap, made, place, nextId, generation, cancelled, quiet, now>>
      BY <1>9, <2>2, Zenon DEF Q!Rearm, Carries
    <3>2. held' \in QTimer /\ held'.id = held.id /\ held'.generation = held.generation
      BY <1>0, <3>1 DEF QTypeOK, QTimer
    <3>3. QTypeOK'
      BY <1>0, <3>1, <3>2, Zenon DEF QTypeOK
    <3> QED
      BY <3>1, <3>2, <3>3 DEF QuietInv, TimerPlace, DistinctIds, Recognised, Q!IsCancelled, Pushing
  <2> QED
    BY <2>1, <2>2, Zenon
<1>10. CASE Q!Repush
  <2>1. /\ Carries /\ ~Carries' /\ wpc' # "execute"
        /\ heap' = heap \cup {held} /\ held' = Q!None
        /\ UNCHANGED <<made, place, nextId, generation, cancelled, quiet, now>>
    BY <1>10, Zenon DEF Q!Repush, Carries
  <2>2. QTypeOK'
    BY <1>0, <2>1, Zenon DEF QTypeOK, QTimer, Q!None
  <2>3. TimerPlace'
    BY <2>1, Zenon DEF QuietInv, TimerPlace, DistinctIds, Pushing
  <2> QED
    BY <2>1, <2>2, <2>3, Zenon DEF QuietInv, Recognised, Q!IsCancelled, Pushing
<1> QED
  BY <1>3, <1>4, <1>5, <1>6, <1>7, <1>8, <1>9, <1>10, Zenon DEF Q!WorkerStep

\* Every step of the owner, of the callers, of the worker and of the clock keeps QuietInv.
LEMMA QuietInvNext == QuietInv /\ [Q!Next]_(Q!vars) => QuietInv'
<1> SUFFICES ASSUME QuietInv, [Q!Next]_(Q!vars) PROVE QuietInv'
  BY Zenon
<1>1. CASE Q!StopClears
  BY <1>1, QuietNewGeneration, Zenon DEF Q!StopClears, QuietInv, QTypeOK, Pushing
<1>2. CASE UNCHANGED Q!vars
  BY <1>2, QuietStill, Zenon DEF Q!vars, QuietInv, QTypeOK, Still, Carries, Pushing
<1> QED
  BY <1>1, <1>2, QuietOwner, QuietCaller, QuietWorker, Zenon DEF Q!Next, Q!StopStep, Q!CallStep

\* CancelledNeverStarts: a timer that cancel(), cancelAll() or stop() reached before the
\* worker's last look at it is never handed over again.
THEOREM TimersCancelledNeverStart == Q!Spec => CancelledNeverStarts
<1>1. QuietInv => (wpc = "execute" => held.id \notin quiet)
  BY Zenon DEF QuietInv
<1>2. QuietInv /\ [Q!Next]_(Q!vars)
        => [wpc = "execute" /\ wpc' # "execute" => held.id \notin quiet]_(Q!vars)
  BY <1>1, Zenon
<1> QED
  BY <1>2, QuietInvInit, QuietInvNext, PTL DEF Q!Spec, CancelledNeverStarts, Q!CancelledNeverStarts
==============================================================================
