---------------------------- MODULE ServersProofs ----------------------------
(***************************************************************************)
(* The components of MCServers, each for any constants.                    *)
(*                                                                         *)
(* TcpServer, for any connections, loops and timeouts: the three steps of  *)
(* a removal (the close on the connection's loop, the erasure on the       *)
(* server's, the destruction on the connection's) happen once each.        *)
(* ServerInv says which functors of a connection are pending, and on which *)
(* loop; a pending functor is counted by its positions.                    *)
(*                                                                         *)
(* KcpServer, for any keys, loops and bounds: KInv says where the functors *)
(* of a session wait, that at most one of them erases it, and that the one *)
(* of connectEstablished() runs before all others of its session.          *)
(***************************************************************************)
EXTENDS MCServers, TLAPS

\* The functors whose number matters.
Tracked == {"established", "remove", "destroyed"}
Functor == [run : Tracked \cup {"idle", "heartbeat"}, conn : Conn]

Is(x, f, c) == x.run = f /\ x.conn = c

\* Functor f of connection c is not in the queue s, or is there once.
NoneIn(s, f, c) == \A i \in DOMAIN s : ~Is(s[i], f, c)
OneIn(s, f, c) == \E i \in DOMAIN s : Is(s[i], f, c) /\ \A j \in DOMAIN s : Is(s[j], f, c) => j = i

\* The loop on which f runs for c, and whether it is due.
Place(f, c) == IF f = "remove" THEN Main ELSE home[c]
Due(f, c) ==
    \/ f = "established" /\ c \in connections /\ state[c] = "Connecting"
    \/ f = "remove" /\ c \in connections /\ state[c] = "Disconnected"
    \/ f = "destroyed" /\ c \notin connections /\ state[c] = "Disconnected"

Types ==
    /\ connections \subseteq Conn
    /\ home \in [Conn -> Loops]
    /\ state \in [Conn -> {"none", "Connecting", "Connected", "Disconnected", "Destroyed"}]
    /\ queue \in [Loops -> Seq(Functor)]

\* A listed connection has been accepted and is not destroyed; the others are not up.
Listed ==
    \A c \in Conn : state[c] \in IF c \in connections
                                 THEN {"Connecting", "Connected", "Disconnected"}
                                 ELSE {"none", "Disconnected", "Destroyed"}

\* What is pending in the queues q is what is due.
Pends(q) ==
    \A c \in Conn, f \in Tracked, l \in Loops :
        IF l = Place(f, c) /\ Due(f, c) THEN OneIn(q[l], f, c) ELSE NoneIn(q[l], f, c)

ServerInv == Types /\ Listed /\ Pends(queue)

-----------------------------------------------------------------------------
\* Queueing a functor: it is there once more, the others as before.
LEMMA AppendCounts ==
    ASSUME NEW s \in Seq(Functor), NEW x \in Functor, NEW f, NEW c
    PROVE  /\ NoneIn(s, f, c) /\ Is(x, f, c) => OneIn(Append(s, x), f, c)
           /\ ~Is(x, f, c) => /\ NoneIn(s, f, c) => NoneIn(Append(s, x), f, c)
                              /\ OneIn(s, f, c) => OneIn(Append(s, x), f, c)
<1>1. PICK a : a = Append(s, x)
  BY Zenon
<1>2. /\ DOMAIN s = 1..Len(s) /\ DOMAIN a = 1..(Len(s) + 1) /\ Len(s) \in Nat
      /\ a[Len(s) + 1] = x /\ \A i \in DOMAIN s : a[i] = s[i]
  BY <1>1
<1>3. \A i \in DOMAIN a : i \in DOMAIN s \/ i = Len(s) + 1
  BY <1>2
<1>4. DOMAIN s \subseteq DOMAIN a /\ Len(s) + 1 \in DOMAIN a /\ Len(s) + 1 \notin DOMAIN s
  BY <1>2
<1>5. NoneIn(s, f, c) /\ Is(x, f, c) => OneIn(a, f, c)
  BY ONLY <1>2, <1>3, <1>4, Zenon DEF NoneIn, OneIn
<1>6. ~Is(x, f, c) /\ NoneIn(s, f, c) => NoneIn(a, f, c)
  BY ONLY <1>2, <1>3, Zenon DEF NoneIn
<1>7. ~Is(x, f, c) /\ OneIn(s, f, c) => OneIn(a, f, c)
  BY ONLY <1>2, <1>3, <1>4, Zenon DEF OneIn
<1>8. QED
  BY <1>1, <1>5, <1>6, <1>7, Zenon

\* Taking the first functor out of a queue.
LEMMA TailCounts ==
    ASSUME NEW s \in Seq(Functor), s # <<>>, NEW f, NEW c
    PROVE  /\ Tail(s) \in Seq(Functor) /\ Head(s) \in Functor
           /\ NoneIn(s, f, c) => NoneIn(Tail(s), f, c) /\ ~Is(Head(s), f, c)
           /\ OneIn(s, f, c) /\ Is(Head(s), f, c) => NoneIn(Tail(s), f, c)
           /\ OneIn(s, f, c) /\ ~Is(Head(s), f, c) => OneIn(Tail(s), f, c)
<1>1. PICK t, x : t = Tail(s) /\ x = Head(s)
  BY Zenon
<1>2. /\ DOMAIN s = 1..Len(s) /\ DOMAIN t = 1..(Len(s) - 1) /\ Len(s) \in Nat \ {0}
      /\ x = s[1] /\ \A i \in DOMAIN t : t[i] = s[i + 1]
      /\ t \in Seq(Functor) /\ x \in Functor
  BY <1>1
<1>3. \A i \in DOMAIN t : i + 1 \in DOMAIN s /\ i + 1 # 1
  BY <1>2
<1>4. 1 \in DOMAIN s /\ \A i \in DOMAIN s : i = 1 \/ (i - 1 \in DOMAIN t /\ s[i] = t[i - 1])
  <2>1. \A i \in 2..Len(s) : i - 1 \in DOMAIN t /\ (i - 1) + 1 = i
    BY <1>2
  <2>2. QED
    BY <1>2, <2>1
<1>5. NoneIn(s, f, c) => NoneIn(t, f, c) /\ ~Is(x, f, c)
  BY ONLY <1>2, <1>3, <1>4, Zenon DEF NoneIn
<1>6. OneIn(s, f, c) /\ Is(x, f, c) => NoneIn(t, f, c)
  BY ONLY <1>2, <1>3, <1>4, Zenon DEF NoneIn, OneIn
<1>7. ASSUME OneIn(s, f, c), ~Is(x, f, c) PROVE OneIn(t, f, c)
  <2>1. PICK i \in DOMAIN s : Is(s[i], f, c) /\ \A j \in DOMAIN s : Is(s[j], f, c) => j = i
    BY <1>7, Zenon DEF OneIn
  <2>2. i - 1 \in DOMAIN t /\ s[i] = t[i - 1]
    BY <1>2, <1>4, <1>7, <2>1, Zenon
  <2>3. \A j \in DOMAIN t : Is(t[j], f, c) => j = i - 1
    <3>1. \A j \in DOMAIN t : Is(t[j], f, c) => j + 1 = i
      BY <1>2, <1>3, <2>1, Zenon
    <3>2. QED
      BY <1>2, <3>1
  <2>4. QED
    BY <2>1, <2>2, <2>3, Zenon DEF OneIn
<1>8. QED
  BY <1>1, <1>2, <1>5, <1>6, <1>7, Zenon

\* Queueing functors that are not counted.
LEMMA ConcatCounts ==
    ASSUME NEW s \in Seq(Functor), NEW e \in Seq(Functor),
           \A i \in DOMAIN e : e[i].run \notin Tracked, NEW f \in Tracked, NEW c
    PROVE  /\ s \o e \in Seq(Functor)
           /\ NoneIn(s, f, c) => NoneIn(s \o e, f, c)
           /\ OneIn(s, f, c) => OneIn(s \o e, f, c)
<1>1. PICK a : a = s \o e
  BY Zenon
<1>2. /\ a \in Seq(Functor) /\ DOMAIN s = 1..Len(s) /\ DOMAIN e = 1..Len(e)
      /\ DOMAIN a = 1..(Len(s) + Len(e)) /\ Len(s) \in Nat /\ Len(e) \in Nat
      /\ \A i \in DOMAIN s : a[i] = s[i]
      /\ \A i \in 1..(Len(s) + Len(e)) : i > Len(s) => a[i] = e[i - Len(s)]
  BY <1>1
<1>3. \A i \in DOMAIN a : i \in DOMAIN s \/ ~Is(a[i], f, c)
  <2>1. SUFFICES ASSUME NEW i \in DOMAIN a, i \notin DOMAIN s PROVE ~Is(a[i], f, c)
    BY Zenon
  <2>2. i - Len(s) \in DOMAIN e /\ a[i] = e[i - Len(s)]
    BY <1>2, <2>1
  <2>3. QED
    BY <2>2, Zenon DEF Is
<1>4. DOMAIN s \subseteq DOMAIN a
  BY <1>2
<1>5. NoneIn(s, f, c) => NoneIn(a, f, c)
  BY ONLY <1>2, <1>3, Zenon DEF NoneIn
<1>6. OneIn(s, f, c) => OneIn(a, f, c)
  BY ONLY <1>2, <1>3, <1>4, Zenon DEF OneIn
<1>7. QED
  BY <1>1, <1>2, <1>5, <1>6, Zenon

-----------------------------------------------------------------------------
\* The queues r hold what the queues q do, of every functor that is counted ...
Kept(q, r, k, f, d) ==
    /\ NoneIn(q[k], f, d) => NoneIn(r[k], f, d)
    /\ OneIn(q[k], f, d) => OneIn(r[k], f, d)

\* ... and g of c once more on loop l, or once less.
Queued(q, r, l, g, c) ==
    /\ r \in [Loops -> Seq(Functor)]
    /\ \A k \in Loops, f \in Tracked, d \in Conn :
        IF k = l /\ f = g /\ d = c THEN NoneIn(q[k], f, d) => OneIn(r[k], f, d)
                                   ELSE Kept(q, r, k, f, d)
Taken(q, r, l, g, c) ==
    /\ r \in [Loops -> Seq(Functor)]
    /\ \A k \in Loops, f \in Tracked, d \in Conn :
        IF k = l /\ f = g /\ d = c THEN OneIn(q[k], f, d) => NoneIn(r[k], f, d)
                                   ELSE Kept(q, r, k, f, d)

\* queueInLoop() adds one functor and disturbs no other.
LEMMA QueueInLoopCounts ==
    ASSUME NEW q \in [Loops -> Seq(Functor)], NEW l \in Loops, NEW g \in Tracked, NEW c \in Conn
    PROVE  Queued(q, QueueInLoop(q, l, g, c), l, g, c)
<1>1. PICK x : x = [run |-> g, conn |-> c]
  BY Zenon
<1>2. x \in Functor /\ x.run = g /\ x.conn = c
  BY <1>1, Zenon DEF Functor
<1>3. PICK r : r = [q EXCEPT ![l] = Append(@, x)]
  BY Zenon
<1>4. /\ r \in [Loops -> Seq(Functor)] /\ r[l] = Append(q[l], x) /\ q[l] \in Seq(Functor)
      /\ \A k \in Loops : k # l => r[k] = q[k]
  BY <1>2, <1>3
<1>5. SUFFICES ASSUME NEW k \in Loops, NEW f \in Tracked, NEW d \in Conn
               PROVE  IF k = l /\ f = g /\ d = c THEN NoneIn(q[k], f, d) => OneIn(r[k], f, d)
                                                 ELSE Kept(q, r, k, f, d)
  BY <1>1, <1>3, <1>4, Zenon DEF Queued, QueueInLoop
<1>6. CASE k # l
  BY <1>4, <1>6, Zenon DEF Kept
<1>7. CASE k = l
  <2>1. Is(x, f, d) <=> f = g /\ d = c
    BY <1>2, Zenon DEF Is
  <2>2. QED
    BY <1>2, <1>4, <1>7, <2>1, AppendCounts, Zenon DEF Kept
<1>8. QED
  BY <1>6, <1>7, Zenon

\* doPendingFunctors() takes one functor and disturbs no other; one that is counted
\* was due there.
LEMMA TakeCounts ==
    ASSUME Types, NEW l \in Loops, queue[l] # <<>>
    PROVE  /\ Head(queue[l]) \in Functor
           /\ Taken(queue, [queue EXCEPT ![l] = Tail(@)], l,
                    Head(queue[l]).run, Head(queue[l]).conn)
           /\ Pends(queue) /\ Head(queue[l]).run \in Tracked =>
                /\ l = Place(Head(queue[l]).run, Head(queue[l]).conn)
                /\ Due(Head(queue[l]).run, Head(queue[l]).conn)
<1>1. PICK x : x = Head(queue[l])
  BY Zenon
<1>2. PICK r : r = [queue EXCEPT ![l] = Tail(@)]
  BY Zenon
<1>3. queue \in [Loops -> Seq(Functor)] /\ queue[l] \in Seq(Functor)
  BY Zenon DEF Types
<1>4. x \in Functor /\ Tail(queue[l]) \in Seq(Functor)
  BY <1>1, <1>3, TailCounts, Zenon
<1>5. /\ r \in [Loops -> Seq(Functor)] /\ r[l] = Tail(queue[l])
      /\ \A k \in Loops : k # l => r[k] = queue[k]
  BY <1>2, <1>3, <1>4, Zenon
<1>6. Taken(queue, r, l, x.run, x.conn)
  <2>1. SUFFICES ASSUME NEW k \in Loops, NEW f \in Tracked, NEW d \in Conn
                 PROVE  IF k = l /\ f = x.run /\ d = x.conn
                        THEN OneIn(queue[k], f, d) => NoneIn(r[k], f, d)
                        ELSE Kept(queue, r, k, f, d)
    BY <1>5, Zenon DEF Taken
  <2>2. CASE k # l
    BY <1>5, <2>2, Zenon DEF Kept
  <2>3. CASE k = l
    <3>1. Is(x, f, d) <=> f = x.run /\ d = x.conn
      BY Zenon DEF Is
    <3>2. /\ NoneIn(queue[l], f, d) => NoneIn(r[l], f, d)
          /\ OneIn(queue[l], f, d) /\ Is(x, f, d) => NoneIn(r[l], f, d)
          /\ OneIn(queue[l], f, d) /\ ~Is(x, f, d) => OneIn(r[l], f, d)
      BY <1>1, <1>3, <1>5, TailCounts, Zenon
    <3>3. QED
      BY <2>3, <3>1, <3>2, Zenon DEF Kept
  <2>4. QED
    BY <2>2, <2>3, Zenon
<1>7. ASSUME Pends(queue), x.run \in Tracked
      PROVE  l = Place(x.run, x.conn) /\ Due(x.run, x.conn)
  <2>1. x.conn \in Conn
    BY <1>4, Zenon DEF Functor
  <2>2. ~NoneIn(queue[l], x.run, x.conn)
    <3>1. Is(x, x.run, x.conn)
      BY Zenon DEF Is
    <3>2. QED
      BY <1>1, <1>3, <3>1, TailCounts, Zenon
  <2>3. QED
    BY <1>7, <2>1, <2>2, Zenon DEF Pends
<1>8. QED
  BY <1>1, <1>2, <1>4, <1>6, <1>7, Zenon

-----------------------------------------------------------------------------
\* newConnection(): a connection that goes to another loop has connectEstablished
\* pending there, one of the server's own loop is up at once.
LEMMA NewConnectionStep ==
    ASSUME ServerInv, NEW c \in Conn, NEW l \in Loops, NewConnection(c, l)
    PROVE  ServerInv'
<1>1. /\ state[c] = "none" /\ c \notin connections
      /\ connections' = connections \cup {c}
      /\ home' = [home EXCEPT ![c] = l]
      /\ state' = [state EXCEPT ![c] = IF l = Main THEN "Connected" ELSE "Connecting"]
  BY Zenon DEF NewConnection, ServerInv, Listed
<1>2. /\ home \in [Conn -> Loops] /\ queue \in [Loops -> Seq(Functor)]
      /\ home'[c] = l /\ \A d \in Conn : d # c => home'[d] = home[d] /\ state'[d] = state[d]
      /\ state'[c] = IF l = Main THEN "Connected" ELSE "Connecting"
  BY <1>1, Zenon DEF ServerInv, Types
<1>3. IF l = Main THEN queue' = queue ELSE Queued(queue, queue', l, "established", c)
  BY <1>2, QueueInLoopCounts, Zenon DEF NewConnection, Tracked
<1>4. Types'
  <2>1. queue' \in [Loops -> Seq(Functor)]
    BY <1>2, <1>3, Zenon DEF Queued
  <2>2. QED
    BY <1>1, <2>1, Zenon DEF ServerInv, Types
<1>5. Listed'
  BY <1>1, <1>2 DEF ServerInv, Listed
<1>6. ASSUME NEW d \in Conn, NEW f \in Tracked, NEW k \in Loops
      PROVE  IF k = Place(f, d)' /\ Due(f, d)' THEN OneIn(queue'[k], f, d)
                                               ELSE NoneIn(queue'[k], f, d)
  <2>1. IF k = Place(f, d) /\ Due(f, d) THEN OneIn(queue[k], f, d) ELSE NoneIn(queue[k], f, d)
    BY Zenon DEF ServerInv, Pends
  <2>2. CASE d # c
    <3>1. Place(f, d)' = Place(f, d) /\ (Due(f, d)' <=> Due(f, d))
      BY <1>1, <1>2, <2>2, Zenon DEF Place, Due
    <3>2. queue' = queue \/ Kept(queue, queue', k, f, d)
      BY <1>3, <2>2, Zenon DEF Queued
    <3>3. QED
      BY <2>1, <3>1, <3>2, Zenon DEF Kept
  <2>3. CASE d = c
    <3>1. ~Due(f, c) /\ (Due(f, c)' <=> f = "established" /\ l # Main)
      BY <1>1, <1>2 DEF Due
    <3>2. f = "established" => Place(f, c)' = l
      BY <1>2, Zenon DEF Place
    <3>3. IF k = l /\ f = "established" /\ l # Main
          THEN OneIn(queue'[k], f, c) ELSE NoneIn(queue'[k], f, c)
      BY <1>3, <2>1, <2>3, <3>1, Zenon DEF Queued, Kept
    <3>4. QED
      BY <2>3, <3>1, <3>2, <3>3, Zenon
  <2>4. QED
    BY <2>2, <2>3, Zenon
<1>7. QED
  BY <1>4, <1>5, <1>6, Zenon DEF ServerInv, Pends

\* The close of a connection that is up, when q holds what is due: its removal becomes
\* pending on the server's loop.
LEMMA HandleCloseStep ==
    ASSUME Types, Listed, NEW q \in [Loops -> Seq(Functor)], Pends(q),
           NEW c \in Conn, state[c] = "Connected", HandleClose(q, c),
           UNCHANGED <<connections, home>>
    PROVE  ServerInv'
<1>1. /\ c \in connections /\ connections' = connections /\ home' = home
      /\ state' = [state EXCEPT ![c] = "Disconnected"]
  BY Zenon DEF HandleClose, Listed
<1>2. state'[c] = "Disconnected" /\ \A d \in Conn : d # c => state'[d] = state[d]
  BY <1>1, Zenon DEF Types
<1>3. Queued(q, queue', Main, "remove", c)
  BY QueueInLoopCounts, Zenon DEF HandleClose, Tracked, Loops
<1>4. Types'
  BY <1>1, <1>3, Zenon DEF Types, Queued
<1>5. Listed'
  BY <1>1, <1>2 DEF Listed
<1>6. ASSUME NEW d \in Conn, NEW f \in Tracked, NEW k \in Loops
      PROVE  IF k = Place(f, d)' /\ Due(f, d)' THEN OneIn(queue'[k], f, d)
                                               ELSE NoneIn(queue'[k], f, d)
  <2>1. IF k = Place(f, d) /\ Due(f, d) THEN OneIn(q[k], f, d) ELSE NoneIn(q[k], f, d)
    BY Zenon DEF Pends
  <2>2. Place(f, d)' = Place(f, d)
    BY <1>1, Zenon DEF Place
  <2>3. CASE d # c
    <3>1. Due(f, d)' <=> Due(f, d)
      BY <1>1, <1>2, <2>3, Zenon DEF Due
    <3>2. Kept(q, queue', k, f, d)
      BY <1>3, <2>3, Zenon DEF Queued
    <3>3. QED
      BY <2>1, <2>2, <3>1, <3>2, Zenon DEF Kept
  <2>4. CASE d = c
    <3>1. ~Due(f, c) /\ (Due(f, c)' <=> f = "remove")
      BY <1>1, <1>2, Zenon DEF Due
    <3>2. f = "remove" => Place(f, c) = Main
      BY Zenon DEF Place
    <3>3. IF k = Main /\ f = "remove" THEN OneIn(queue'[k], f, c) ELSE NoneIn(queue'[k], f, c)
      BY <1>3, <2>1, <2>4, <3>1, Zenon DEF Queued, Kept
    <3>4. QED
      BY <2>2, <2>4, <3>1, <3>2, <3>3, Zenon
  <2>5. QED
    BY <2>3, <2>4, Zenon
<1>7. QED
  BY <1>4, <1>5, <1>6, Zenon DEF ServerInv, Pends

\* connectEstablished, removeConnectionInLoop and connectDestroyed are each the end of
\* what was due: the first leaves nothing due, the second the destruction, the third
\* nothing again.
LEMMA TrackedStep ==
    ASSUME ServerInv, NEW q, NEW l \in Loops, NEW g \in Tracked, NEW c \in Conn,
           Taken(queue, q, l, g, c), l = Place(g, c), Due(g, c),
           RunFunctor(q, [run |-> g, conn |-> c]), UNCHANGED home
    PROVE  ServerInv'
<1>1. /\ q \in [Loops -> Seq(Functor)] /\ queue \in [Loops -> Seq(Functor)] /\ home' = home
      /\ home \in [Conn -> Loops]
  BY Zenon DEF Taken, ServerInv, Types
<1>2. ASSUME NEW d \in Conn, NEW f \in Tracked, NEW k \in Loops
      PROVE  IF k = Place(f, d) /\ Due(f, d) /\ ~(f = g /\ d = c)
             THEN OneIn(q[k], f, d) ELSE NoneIn(q[k], f, d)
  <2>1. IF k = Place(f, d) /\ Due(f, d) THEN OneIn(queue[k], f, d)
                                        ELSE NoneIn(queue[k], f, d)
    BY Zenon DEF ServerInv, Pends
  <2>2. IF k = l /\ f = g /\ d = c THEN OneIn(queue[k], f, d) => NoneIn(q[k], f, d)
                                   ELSE Kept(queue, q, k, f, d)
    BY Zenon DEF Taken
  <2>3. QED
    BY <2>1, <2>2, Zenon DEF Kept
<1>3. CASE g \in {"established", "destroyed"}
  <2>1. /\ state' = [state EXCEPT ![c] = IF g = "established" THEN "Connected" ELSE "Destroyed"]
        /\ queue' = q /\ connections' = connections
    BY <1>3, Zenon DEF RunFunctor
  <2>2. /\ state'[c] = IF g = "established" THEN "Connected" ELSE "Destroyed"
        /\ \A d \in Conn : d # c => state'[d] = state[d]
    BY <2>1, Zenon DEF ServerInv, Types
  <2>3. Types'
    BY <1>1, <2>1, Zenon DEF ServerInv, Types
  <2>4. Listed'
    BY <1>3, <2>1, <2>2 DEF ServerInv, Listed, Due
  <2>5. ASSUME NEW d \in Conn, NEW f \in Tracked
        PROVE  Place(f, d)' = Place(f, d) /\ (Due(f, d)' <=> Due(f, d) /\ ~(f = g /\ d = c))
    <3>1. CASE d # c
      BY <1>1, <2>1, <2>2, <3>1, Zenon DEF Place, Due
    <3>2. CASE d = c
      BY <1>1, <1>3, <2>1, <2>2, <3>2 DEF Place, Due
    <3>3. QED
      BY <3>1, <3>2, Zenon
  <2>6. Pends(queue)'
    BY <1>2, <2>1, <2>5, Zenon DEF Pends
  <2>7. QED
    BY <2>3, <2>4, <2>6, Zenon DEF ServerInv
<1>4. CASE g = "remove"
  <2>1. /\ c \in connections /\ state[c] = "Disconnected" /\ state' = state
        /\ connections' = connections \ {c}
        /\ queue' = QueueInLoop(q, home[c], "destroyed", c)
    BY <1>4, Zenon DEF RunFunctor, RemoveConnectionInLoop, Due
  <2>2. Queued(q, queue', home[c], "destroyed", c)
    BY <1>1, <2>1, QueueInLoopCounts, Zenon DEF Tracked
  <2>3. Types'
    BY <1>1, <2>1, <2>2, Zenon DEF ServerInv, Types, Queued
  <2>4. Listed'
    BY <2>1, Zenon DEF ServerInv, Listed
  <2>5. ASSUME NEW d \in Conn, NEW f \in Tracked, NEW k \in Loops
        PROVE  IF k = Place(f, d)' /\ Due(f, d)' THEN OneIn(queue'[k], f, d)
                                                 ELSE NoneIn(queue'[k], f, d)
    <3>1. Place(f, d)' = Place(f, d)
      BY <1>1, Zenon DEF Place
    <3>2. CASE d # c
      <4>1. Due(f, d)' <=> Due(f, d)
        BY <2>1, <3>2, Zenon DEF Due
      <4>2. Kept(q, queue', k, f, d)
        BY <2>2, <3>2, Zenon DEF Queued
      <4>3. QED
        BY <1>2, <3>1, <3>2, <4>1, <4>2, Zenon DEF Kept
    <3>3. CASE d = c
      <4>1. (Due(f, c) <=> f = "remove") /\ (Due(f, c)' <=> f = "destroyed")
        BY <2>1, Zenon DEF Due
      <4>2. f = "destroyed" => Place(f, c) = home[c]
        BY Zenon DEF Place
      <4>3. NoneIn(q[k], f, c)
        BY <1>2, <1>4, <3>3, <4>1, Zenon
      <4>4. IF k = home[c] /\ f = "destroyed" THEN OneIn(queue'[k], f, c)
                                              ELSE NoneIn(queue'[k], f, c)
        BY <2>2, <4>3, Zenon DEF Queued, Kept
      <4>5. QED
        BY <3>1, <3>3, <4>1, <4>2, <4>4, Zenon
    <3>4. QED
      BY <3>2, <3>3, Zenon
  <2>6. QED
    BY <2>3, <2>4, <2>5, Zenon DEF ServerInv, Pends
<1>5. QED
  BY <1>3, <1>4, Zenon DEF Tracked

\* doPendingFunctors(), one functor.
LEMMA FunctorStep ==
    ASSUME ServerInv, NEW l \in Loops, DoPendingFunctor(l)
    PROVE  ServerInv'
<1>1. PICK x, q : x = Head(queue[l]) /\ q = [queue EXCEPT ![l] = Tail(@)]
  BY Zenon
<1>2. /\ queue[l] # <<>> /\ RunFunctor(q, x) /\ home' = home
  BY <1>1, Zenon DEF DoPendingFunctor
<1>3. /\ x \in Functor /\ Taken(queue, q, l, x.run, x.conn)
      /\ x.run \in Tracked => l = Place(x.run, x.conn) /\ Due(x.run, x.conn)
  BY <1>1, <1>2, TakeCounts, Zenon DEF ServerInv
<1>4. x = [run |-> x.run, conn |-> x.conn] /\ x.conn \in Conn
  BY <1>3, Zenon DEF Functor
<1>5. CASE x.run \in Tracked
  <2>1. PICK g \in Tracked, c \in Conn : g = x.run /\ c = x.conn
    BY <1>4, <1>5, Zenon
  <2>2. RunFunctor(q, [run |-> g, conn |-> c])
    BY <1>2, <1>4, <2>1, Zenon
  <2>3. QED
    BY <1>2, <1>3, <1>5, <2>1, <2>2, TrackedStep, Zenon
<1>6. CASE x.run \notin Tracked
  <2>1. q \in [Loops -> Seq(Functor)] /\ Types /\ Listed
    BY <1>3, Zenon DEF Taken, ServerInv
  <2>2. \A k \in Loops, f \in Tracked, d \in Conn : Kept(queue, q, k, f, d)
    BY <1>3, <1>6, Zenon DEF Taken
  <2>3. Pends(q)
    BY <2>2, Zenon DEF ServerInv, Pends, Kept
  <2>4. connections' = connections
    BY <1>2, <1>6, Zenon DEF RunFunctor, Tracked
  <2>5. CASE x.run = "idle" /\ state[x.conn] = "Connected" /\ ~IdleCallback
    <3>1. HandleClose(q, x.conn)
      BY <1>2, <2>5, Zenon DEF RunFunctor
    <3>2. QED
      BY <1>2, <1>4, <2>1, <2>3, <2>4, <2>5, <3>1, HandleCloseStep, Zenon
  <2>6. CASE ~(x.run = "idle" /\ state[x.conn] = "Connected" /\ ~IdleCallback)
    <3>1. state' = state /\ queue' = q
      BY <1>2, <1>6, <2>6, Zenon DEF RunFunctor, Tracked
    <3>2. QED
      BY <1>2, <2>1, <2>3, <2>4, <3>1 DEF ServerInv, Types, Listed, Pends, Place, Due
  <2>7. QED
    BY <2>5, <2>6, Zenon
<1>7. QED
  BY <1>5, <1>6, Zenon

\* checkIdleConnections() queues functors that are not counted, as many as there are
\* connections to see to.
LEMMA CheckStep ==
    ASSUME ServerInv, CheckIdleConnections
    PROVE  ServerInv'
<1>1. PICK order \in [Loops -> UNION {Visits(l) : l \in Loops}] :
        /\ \A l \in Loops : order[l] \in Visits(l)
        /\ queue' = [l \in Loops |-> queue[l] \o
             [i \in DOMAIN order[l] |->
                [run |-> IF order[l][i] \in Heartbeat THEN "heartbeat" ELSE "idle",
                 conn |-> order[l][i]]]]
  BY Zenon DEF CheckIdleConnections
<1>2. connections' = connections /\ home' = home /\ state' = state
  BY Zenon DEF CheckIdleConnections
<1>3. queue \in [Loops -> Seq(Functor)]
  BY Zenon DEF ServerInv, Types
<1>4. ASSUME NEW l \in Loops
      PROVE  /\ queue'[l] \in Seq(Functor)
             /\ \A f \in Tracked, d \in Conn : Kept(queue, queue', l, f, d)
  <2> DEFINE h == {c \in Idle \cup Heartbeat : home[c] = l}
  <2>1. h \subseteq connections /\ h \subseteq Conn
    BY Zenon DEF Idle, Heartbeat, ServerInv, Types
  <2>2. PICK n \in 0..Cardinality(h) : order[l] \in [1..n -> h]
    <3>1. order[l] \in Visits(l)
      BY <1>1, Zenon
    <3>2. order[l] \in UNION {[1..n -> h] : n \in 0..Cardinality(h)}
      BY <3>1, Zenon DEF Visits
    <3>3. QED
      BY <3>2, Zenon
  <2> HIDE DEF h
  <2>3. n \in Nat
    OBVIOUS
  <2>4. PICK e : e = [i \in DOMAIN order[l] |->
                        [run |-> IF order[l][i] \in Heartbeat THEN "heartbeat" ELSE "idle",
                         conn |-> order[l][i]]]
    BY Zenon
  <2>5. e \in [1..n -> Functor] /\ \A i \in DOMAIN e : e[i].run \notin Tracked
    BY <2>1, <2>2, <2>4, Zenon DEF Functor, Tracked
  <2>6. e \in Seq(Functor)
    BY <2>3, <2>5
  <2>7. queue'[l] = queue[l] \o e /\ queue[l] \in Seq(Functor)
    BY <1>1, <1>3, <2>4, Zenon
  <2>8. queue'[l] \in Seq(Functor)
    BY <2>6, <2>7
  <2>9. ASSUME NEW f \in Tracked, NEW d \in Conn PROVE Kept(queue, queue', l, f, d)
    BY <2>5, <2>6, <2>7, ConcatCounts, Zenon DEF Kept
  <2>10. QED
    BY <2>8, <2>9, Zenon
<1>5. queue' \in [Loops -> Seq(Functor)]
  BY <1>1, <1>4, Zenon
<1>6. \A d \in Conn, f \in Tracked : Place(f, d)' = Place(f, d) /\ (Due(f, d)' <=> Due(f, d))
  BY <1>2, Zenon DEF Place, Due
<1>7. Pends(queue)'
  BY <1>4, <1>6, Zenon DEF ServerInv, Pends, Kept
<1>8. QED
  BY <1>2, <1>5, <1>7, Zenon DEF ServerInv, Types, Listed

\* Every step of the loops, the peers and time keeps ServerInv.
LEMMA ServerStep == ServerInv /\ [Next]_vars => ServerInv'
<1>1. SUFFICES ASSUME ServerInv, [Next]_vars PROVE ServerInv'
  BY Zenon
<1>2. CASE Accept
  <2>1. PICK c \in Conn, l \in Loops : NewConnection(c, l)
    BY <1>2, Zenon DEF Accept, Loops
  <2>2. QED
    BY <1>1, <2>1, NewConnectionStep, Zenon
<1>3. CASE CheckIdleConnections
  BY <1>1, <1>3, CheckStep, Zenon
<1>4. ASSUME NEW l \in Loops, DoPendingFunctor(l) PROVE ServerInv'
  BY <1>1, <1>4, FunctorStep, Zenon
<1>5. ASSUME NEW c \in Conn, Closes(c) PROVE ServerInv'
  BY <1>1, <1>5, HandleCloseStep, Zenon DEF Closes, ServerInv, Types
<1>6. CASE Tick \/ (\E c \in Conn : Message(c)) \/ UNCHANGED vars
  <2>1. UNCHANGED <<connections, home, state, queue>>
    BY <1>6, Zenon DEF Tick, Message, vars
  <2>2. QED
    BY <1>1, <2>1 DEF ServerInv, Types, Listed, Pends, Place, Due
<1>7. QED
  BY <1>1, <1>2, <1>3, <1>4, <1>5, <1>6, Zenon DEF Next

\* Nothing is listed and nothing pends at the start.
LEMMA ServerStart == Init => ServerInv
<1>1. SUFFICES ASSUME Init PROVE ServerInv
  BY Zenon
<1>2. Types
  BY <1>1 DEF Init, Types, Loops
<1>3. Listed
  BY <1>1, Zenon DEF Init, Listed
<1>4. \A c \in Conn, f \in Tracked, l \in Loops : ~Due(f, c) /\ NoneIn(queue[l], f, c)
  BY <1>1 DEF Init, Due, NoneIn
<1>5. QED
  BY <1>2, <1>3, <1>4, Zenon DEF ServerInv, Pends

\* What is due exactly once, or not at all, is so pending.
LEMMA PendingDue ==
    ASSUME NEW l, NEW f, NEW c, NEW due \in BOOLEAN,
           IF due THEN OneIn(queue[l], f, c) ELSE NoneIn(queue[l], f, c)
    PROVE  Pending(l, f, c, due)
<1>1. PICK S : S = {i \in DOMAIN queue[l] : queue[l][i].run = f /\ queue[l][i].conn = c}
  BY Zenon
<1>2. NoneIn(queue[l], f, c) => S = {}
  BY <1>1, Zenon DEF NoneIn, Is
<1>3. OneIn(queue[l], f, c) => \E i \in S : S = {i}
  BY <1>1, Zenon DEF OneIn, Is
<1>4. QED
  BY <1>1, <1>2, <1>3, Zenon DEF Pending

\* A listed connection of the server is being established, is up, or is closed with
\* exactly one removal under way; one that left m_connections has exactly one
\* destruction under way or behind it (newConnection, removeConnectionInLoop), for any
\* connections, loops and timeouts and however the loops interleave.
THEOREM ServerConnectionsTracked == Spec => []ConnectionsTracked
<1>1. Init => ServerInv
  BY ServerStart, Zenon
<1>2. ServerInv => ConnectionsTracked
  <2>1. SUFFICES ASSUME ServerInv, NEW c \in Conn
                 PROVE  /\ state[c] \in IF c \in connections
                                        THEN {"Connecting", "Connected", "Disconnected"}
                                        ELSE {"none", "Disconnected", "Destroyed"}
                        /\ Pending(home[c], "established", c,
                                   c \in connections /\ state[c] = "Connecting")
                        /\ Pending(Main, "remove", c,
                                   c \in connections /\ state[c] = "Disconnected")
                        /\ Pending(home[c], "destroyed", c,
                                   ~(c \in connections) /\ state[c] = "Disconnected")
    BY Zenon DEF ConnectionsTracked
  <2>2. ASSUME NEW f \in Tracked, NEW due \in BOOLEAN, due <=> Due(f, c)
        PROVE  Pending(Place(f, c), f, c, due)
    <3>1. Place(f, c) \in Loops
      BY <2>1, Zenon DEF Place, ServerInv, Types, Loops
    <3>2. IF due THEN OneIn(queue[Place(f, c)], f, c) ELSE NoneIn(queue[Place(f, c)], f, c)
      BY <2>1, <2>2, <3>1, Zenon DEF ServerInv, Pends
    <3>3. QED
      BY <3>2, PendingDue, Zenon
  <2>3. Pending(home[c], "established", c, c \in connections /\ state[c] = "Connecting")
    BY <2>2, Zenon DEF Tracked, Place, Due
  <2>4. Pending(Main, "remove", c, c \in connections /\ state[c] = "Disconnected")
    BY <2>2, Zenon DEF Tracked, Place, Due
  <2>5. Pending(home[c], "destroyed", c, ~(c \in connections) /\ state[c] = "Disconnected")
    BY <2>2, Zenon DEF Tracked, Place, Due
  <2>6. QED
    BY <2>1, <2>3, <2>4, <2>5, Zenon DEF ServerInv, Listed
<1>3. QED
  BY <1>1, <1>2, ServerStep, PTL DEF Spec

-----------------------------------------------------------------------------
\* The life of a connection goes one way, and it is destroyed only once it has left
\* m_connections.  So connectEstablished, queued by the server's loop, finds the
\* connection Connecting and never throws, and connectDestroyed finds it closed: it
\* does not end a connection that is up and calls no connection callback again.
Advances ==
    \A c \in Conn : state'[c] # state[c] =>
        /\ <<state[c], state'[c]>> \in
                {<<"none", "Connecting">>, <<"none", "Connected">>,
                 <<"Connecting", "Connected">>, <<"Connected", "Disconnected">>,
                 <<"Disconnected", "Destroyed">>}
        /\ state'[c] = "Destroyed" => c \notin connections

\* A step that changes the state of one connection, as Advances allows, is enough.
LEMMA OneAdvances ==
    ASSUME Types, NEW c \in Conn, NEW s, state' = [state EXCEPT ![c] = s],
           <<state[c], s>> \in {<<"none", "Connecting">>, <<"none", "Connected">>,
                                <<"Connecting", "Connected">>, <<"Connected", "Disconnected">>,
                                <<"Disconnected", "Destroyed">>},
           s = "Destroyed" => c \notin connections
    PROVE  Advances
<1>1. state'[c] = s /\ \A d \in Conn : d # c => state'[d] = state[d]
  BY Zenon DEF Types
<1>2. QED
  BY ONLY <1>1, <<state[c], s>> \in {<<"none", "Connecting">>, <<"none", "Connected">>,
                                <<"Connecting", "Connected">>, <<"Connected", "Disconnected">>,
                                <<"Disconnected", "Destroyed">>},
          s = "Destroyed" => c \notin connections, Zenon DEF Advances

\* The states of a connection follow each other as newConnection, connectEstablished,
\* handleClose and connectDestroyed mean them to, for any interleaving of the loops.
THEOREM ServerLifeAdvances == Spec => [][Advances]_vars
<1>1. ServerInv /\ [Next]_vars => [Advances]_vars
  <2>1. SUFFICES ASSUME ServerInv, Next PROVE Advances
    BY Zenon
  <2>2. Types
    BY <2>1, Zenon DEF ServerInv
  <2>3. CASE Accept
    <3>1. PICK c \in Conn, l \in Loops : NewConnection(c, l)
      BY <2>3, Zenon DEF Accept, Loops
    <3>2. PICK s : s = IF l = Main THEN "Connected" ELSE "Connecting"
      BY Zenon
    <3>3. state[c] = "none" /\ state' = [state EXCEPT ![c] = s]
      BY <3>1, <3>2, Zenon DEF NewConnection
    <3>4. QED
      BY <2>2, <3>2, <3>3, OneAdvances, Zenon
  <2>4. ASSUME NEW l \in Loops, DoPendingFunctor(l) PROVE Advances
    <3>1. PICK x, q : x = Head(queue[l]) /\ q = [queue EXCEPT ![l] = Tail(@)]
      BY Zenon
    <3>2. RunFunctor(q, x) /\ queue[l] # <<>>
      BY <2>4, <3>1, Zenon DEF DoPendingFunctor
    <3>3. /\ x \in Functor /\ x.conn \in Conn
          /\ x.run \in Tracked => Due(x.run, x.conn)
      BY <2>1, <3>1, <3>2, TakeCounts, Zenon DEF ServerInv, Functor
    <3>4. CASE x.run = "established"
      <4>1. state[x.conn] = "Connecting" /\ state' = [state EXCEPT ![x.conn] = "Connected"]
        BY <3>2, <3>3, <3>4, Zenon DEF RunFunctor, Tracked, Due
      <4>2. QED
        BY <2>2, <3>3, <4>1, OneAdvances, Zenon
    <3>5. CASE x.run = "destroyed"
      <4>1. /\ state[x.conn] = "Disconnected" /\ x.conn \notin connections
            /\ state' = [state EXCEPT ![x.conn] = "Destroyed"]
        BY <3>2, <3>3, <3>5, Zenon DEF RunFunctor, Tracked, Due
      <4>2. QED
        BY <2>2, <3>3, <4>1, OneAdvances, Zenon
    <3>6. CASE x.run = "idle" /\ state[x.conn] = "Connected" /\ ~IdleCallback
      <4>1. state' = [state EXCEPT ![x.conn] = "Disconnected"]
        BY <3>2, <3>6, Zenon DEF RunFunctor, HandleClose
      <4>2. QED
        BY <2>2, <3>3, <3>6, <4>1, OneAdvances, Zenon
    <3>7. CASE /\ x.run \notin {"established", "destroyed"}
               /\ ~(x.run = "idle" /\ state[x.conn] = "Connected" /\ ~IdleCallback)
      <4>1. state' = state
        BY <3>2, <3>7, Zenon DEF RunFunctor
      <4>2. QED
        BY <4>1, Zenon DEF Advances
    <3>8. QED
      BY <3>4, <3>5, <3>6, <3>7, Zenon
  <2>5. ASSUME NEW c \in Conn, Closes(c) PROVE Advances
    <3>1. state[c] = "Connected" /\ state' = [state EXCEPT ![c] = "Disconnected"]
      BY <2>5, Zenon DEF Closes, HandleClose
    <3>2. QED
      BY <2>2, <3>1, OneAdvances, Zenon
  <2>6. CASE Tick \/ CheckIdleConnections \/ (\E c \in Conn : Message(c))
    BY <2>6, Zenon DEF Tick, CheckIdleConnections, Message, Advances
  <2>7. QED
    BY <2>1, <2>3, <2>4, <2>5, <2>6, Zenon DEF Next
<1>2. Init => ServerInv
  BY ServerStart, Zenon
<1>3. QED
  BY <1>1, <1>2, ServerStep, PTL DEF Spec

-----------------------------------------------------------------------------
\* KcpServer

\* A KcpSession, for any number of unacknowledged messages.
KSession ==
    [key : Key, waitsnd : Nat, idle : BOOLEAN, extra : Nat,
     state : {"Connecting", "Connected", "Disconnecting", "Disconnected"},
     timer : {"none", "armed", "fired"}]

\* A session past connectEstablished(): while it lives, m_updateTimerId names a timer in
\* one of the given states, and no other timer waits; when it is closed, none does.
Timed(s, timers) ==
    /\ s \in KSession /\ s.extra = 0 /\ s.state # "Connecting"
    /\ IF s.state = "Disconnected" THEN s.timer = "none" ELSE s.timer \in timers

\* t is what a function of KcpSession leaves of s.
From(s, t, timers) ==
    /\ Timed(t, timers) /\ t.key = s.key
    /\ s.state = "Disconnected" => t.state = "Disconnected"

\* scheduleUpdate() replaces the timer of a live session, whatever became of the last.
LEMMA ScheduleTimed ==
    ASSUME NEW s, NEW timers, timers \subseteq {"none", "armed", "fired"}, Timed(s, timers)
    PROVE  From(s, K!ScheduleUpdate(s), {"armed"})
  BY Zenon DEF Timed, From, K!ScheduleUpdate, K!RunAfter, K!CancelUpdateTimer, KSession

\* handleClose() leaves no timer behind.
LEMMA CloseTimed ==
    ASSUME NEW s, NEW timers, Timed(s, timers)
    PROVE  From(s, K!HandleClose(s), timers)
  BY Zenon DEF Timed, From, K!HandleClose, K!CancelUpdateTimer, KSession

\* sendInLoop() leaves one timer, or the session as it was.
LEMMA SendTimed ==
    ASSUME NEW s, NEW timers, timers \subseteq {"none", "armed", "fired"}, "armed" \in timers,
           Timed(s, timers)
    PROVE  From(s, K!SendInLoop(s), timers)
<1> DEFINE v == [s EXCEPT !.waitsnd = @ + 1]
           u == K!TouchActive(v)
<1>0. /\ v \in KSession /\ v.key = s.key /\ v.state = s.state
      /\ v.extra = s.extra /\ v.timer = s.timer
  BY DEF Timed, KSession
<1>1. Timed(u, timers) /\ u.key = s.key /\ u.state = s.state
  <2> HIDE DEF v
  <2>1. /\ u \in KSession /\ u.key = v.key /\ u.state = v.state
        /\ u.extra = v.extra /\ u.timer = v.timer
    BY <1>0, Zenon DEF K!TouchActive, KSession
  <2> HIDE DEF u
  <2> QED
    BY <1>0, <2>1, Zenon DEF Timed
<1> HIDE DEF u
<1>2. From(u, K!ScheduleUpdate(u), {"armed"})
  BY <1>1, ScheduleTimed, Zenon
<1>3. From(s, K!ScheduleUpdate(u), timers)
  BY <1>1, <1>2, Zenon DEF From, Timed
<1>4. From(s, s, timers)
  BY Zenon DEF From
<1> QED
  BY <1>3, <1>4, Zenon DEF K!SendInLoop, u, v

\* shutdownInLoop() closes the session or leaves its timer alone.
LEMMA ShutdownTimed ==
    ASSUME NEW s, NEW timers, Timed(s, timers)
    PROVE  From(s, K!ShutdownInLoop(s), timers)
<1> DEFINE d == [s EXCEPT !.state = "Disconnecting"]
<1>1. CASE s.state = "Disconnected"
  BY <1>1, Zenon DEF K!ShutdownInLoop, From
<1>2. CASE s.state # "Disconnected"
  <2>1. Timed(d, timers) /\ d.key = s.key
    BY <1>2, Zenon DEF Timed, KSession
  <2>2. From(d, K!HandleClose(d), timers)
    BY <2>1, CloseTimed, Zenon
  <2> QED
    BY <1>2, <2>1, <2>2, Zenon DEF K!ShutdownInLoop, From
<1> QED
  BY <1>1, <1>2, Zenon

\* Whatever a callback of the application calls, one timer is left, or none of a closed
\* session.
LEMMA ReactTimed ==
    ASSUME NEW s, NEW timers, timers \subseteq {"none", "armed", "fired"}, "armed" \in timers,
           Timed(s, timers), NEW t \in K!React(s)
    PROVE  From(s, t, timers)
  BY SendTimed, ShutdownTimed, CloseTimed, ZenonT(30) DEF K!React, From

\* What one function of the session leaves, the next one may be called on.
LEMMA FromTwice ==
    ASSUME NEW s, NEW t, NEW u, NEW a, NEW b, From(s, t, a), From(t, u, b)
    PROVE  From(s, u, b)
  BY Zenon DEF From

\* drainRecvQueue() and its callbacks leave one timer, or none of a closed session.
LEMMA DrainTimed ==
    ASSUME NEW s, NEW timers, timers \subseteq {"none", "armed", "fired"}, "armed" \in timers,
           Timed(s, timers), NEW readable \in BOOLEAN, NEW u \in K!DrainRecvQueue(s, readable)
    PROVE  From(s, u, timers)
<1> DEFINE read == IF readable THEN K!React(s) ELSE {s}
<1>1. ASSUME NEW t \in read PROVE From(s, t, timers) /\ Timed(t, timers)
  BY ReactTimed, Zenon DEF From
<1>2. ASSUME NEW t \in read, u \in IF t.waitsnd = 0 THEN K!React(t) ELSE {t}
      PROVE  From(s, u, timers)
  <2>1. From(s, t, timers) /\ Timed(t, timers)
    BY <1>1, Zenon
  <2>2. From(t, u, timers)
    BY <1>2, <2>1, ReactTimed, Zenon DEF From
  <2> QED
    BY <2>1, <2>2, FromTwice, Zenon
<1>3. ASSUME NEW t \in read, u = K!HandleClose(t) PROVE From(s, u, timers)
  <2>1. From(s, t, timers) /\ Timed(t, timers)
    BY <1>1, Zenon
  <2>2. From(t, u, timers)
    BY <1>3, <2>1, CloseTimed, Zenon
  <2> QED
    BY <2>1, <2>2, FromTwice, Zenon
<1>4. \/ \E t \in read : u \in IF t.waitsnd = 0 THEN K!React(t) ELSE {t}
      \/ \E t \in read : u = K!HandleClose(t)
  <2>1. CASE readable
    <3> DEFINE A == UNION {IF t.waitsnd = 0 THEN K!React(t) ELSE {t} : t \in read}
               C == {K!HandleClose(t) : t \in read}
    <3>1. K!DrainRecvQueue(s, readable) = A \cup C
      <4>1. K!DrainRecvQueue(s, readable) = A \cup (IF readable THEN C ELSE {})
        BY Zenon DEF K!DrainRecvQueue
      <4> HIDE DEF A, C
      <4> QED
        BY <2>1, <4>1, Zenon
    <3>2. u \in A => \E t \in read : u \in IF t.waitsnd = 0 THEN K!React(t) ELSE {t}
      <4> HIDE DEF read
      <4> QED
        BY Zenon
    <3>3. u \in C => \E t \in read : u = K!HandleClose(t)
      <4> HIDE DEF read
      <4> QED
        BY Zenon
    <3> HIDE DEF A, C, read
    <3> QED
      BY <3>1, <3>2, <3>3, Zenon
  <2>2. CASE ~readable
    BY <2>2, Zenon DEF K!DrainRecvQueue
  <2> QED
    BY <2>1, <2>2, Zenon
<1> QED
  BY <1>2, <1>3, <1>4, Zenon

\* Closing a session that is Disconnecting with nothing left to send leaves no timer.
LEMMA CloseIfSentTimed ==
    ASSUME NEW s, NEW timers, Timed(s, timers)
    PROVE  From(s, K!CloseIfSent(s), timers)
  BY CloseTimed, Zenon DEF K!CloseIfSent, From

\* inputPacketInLoop() leaves one waiting timer, or none of a closed session.
LEMMA InputTimed ==
    ASSUME NEW s, Timed(s, {"armed"}), NEW t \in K!InputPacketInLoop(s)
    PROVE  From(s, t, {"armed"})
<1>1. CASE s.state = "Disconnected"
  BY <1>1 DEF K!InputPacketInLoop, From
<1>2. CASE t \in K!React(s)
  BY <1>2, ReactTimed, Zenon
<1>3. ASSUME NEW n \in 0..s.waitsnd, NEW readable \in BOOLEAN,
             NEW d \in K!DrainRecvQueue([K!TouchActive(s) EXCEPT !.waitsnd = n], readable),
             t = K!CloseIfSent(K!ScheduleUpdate(d))
      PROVE  From(s, t, {"armed"})
  <2> DEFINE a == [K!TouchActive(s) EXCEPT !.waitsnd = n]
  <2>1. From(s, a, {"armed"}) /\ Timed(a, {"armed"})
    <3> DEFINE v == K!TouchActive(s)
    <3>1. /\ v \in KSession /\ v.key = s.key /\ v.state = s.state
          /\ v.extra = s.extra /\ v.timer = s.timer
      BY Zenon DEF Timed, K!TouchActive, KSession
    <3> HIDE DEF v
    <3>2. n \in Nat
      BY DEF Timed, KSession
    <3>3. /\ a \in KSession /\ a.key = v.key /\ a.state = v.state
          /\ a.extra = v.extra /\ a.timer = v.timer
      BY <3>1, <3>2, Zenon DEF KSession, v
    <3> HIDE DEF a
    <3> QED
      BY <3>1, <3>3, Zenon DEF From, Timed
  <2>2. From(a, d, {"armed"}) /\ Timed(d, {"armed"})
    BY <2>1, DrainTimed, Zenon DEF From
  <2>3. From(d, K!ScheduleUpdate(d), {"armed"}) /\ Timed(K!ScheduleUpdate(d), {"armed"})
    BY <2>2, ScheduleTimed, Zenon DEF From
  <2>4. From(K!ScheduleUpdate(d), t, {"armed"})
    BY <1>3, <2>3, CloseIfSentTimed, Zenon
  <2> HIDE DEF a
  <2> QED
    BY <2>1, <2>2, <2>3, <2>4, FromTwice, Zenon
<1>4. \/ s.state = "Disconnected" \/ t \in K!React(s)
      \/ \E n \in 0..s.waitsnd, readable \in BOOLEAN :
         \E d \in K!DrainRecvQueue([K!TouchActive(s) EXCEPT !.waitsnd = n], readable) :
            t = K!CloseIfSent(K!ScheduleUpdate(d))
  BY DEF K!InputPacketInLoop
<1> QED
  BY <1>1, <1>2, <1>3, <1>4, Zenon

\* updateInLoop(), called by the timer that fired, leaves the next one waiting, or none
\* of a closed session.
LEMMA UpdateTimed ==
    ASSUME NEW s, Timed(s, {"armed", "fired"}), s.state # "Disconnected",
           NEW t \in K!UpdateInLoop(s)
    PROVE  From(s, t, {"armed"})
<1>1. PICK d \in K!DrainRecvQueue(s, FALSE) :
        \/ t = K!HandleClose(K!ScheduleUpdate(d))
        \/ t = K!CloseIfSent(K!ScheduleUpdate(d))
  BY Zenon DEF K!UpdateInLoop
<1>2. From(s, d, {"armed", "fired"}) /\ Timed(d, {"armed", "fired"})
  BY DrainTimed, Zenon DEF From
<1>3. From(d, K!ScheduleUpdate(d), {"armed"}) /\ Timed(K!ScheduleUpdate(d), {"armed"})
  BY <1>2, ScheduleTimed, Zenon DEF From
<1>4. From(K!ScheduleUpdate(d), t, {"armed"})
  BY <1>1, <1>3, CloseTimed, CloseIfSentTimed, Zenon
<1> QED
  BY <1>2, <1>3, <1>4, FromTwice, Zenon

-----------------------------------------------------------------------------
\* The functors of the KCP server.
KOps == K!Calls \cup {"establish", "input", "erase"}

\* The erasure of session i waits in the server's loop.
ErasureAt(q, n, i) == n \in DOMAIN q[Main] /\ q[Main][n].op = "erase" /\ q[Main][n].id = i
Erasing(q, i) == \E n \in DOMAIN q[Main] : ErasureAt(q, n, i)

\* The types of the server's state: the loops of the keys, the sessions, m_sessions, the
\* runs of the close callback and the queues.
KTypes(at, objects, m, counts, q) ==
    /\ at \in [Key -> K!Loop] /\ objects \in Seq(KSession)
    /\ m \in [Key -> Nat] /\ counts \in Seq(Nat) /\ Len(counts) = Len(objects)
    /\ q \in [K!Loop -> Seq([op : KOps, id : Nat])]

\* A functor is about a session that exists, and waits where it has to run.
Placed(at, objects, q) ==
    \A l \in K!Loop : \A n \in DOMAIN q[l] :
        /\ q[l][n].id \in DOMAIN objects
        /\ IF q[l][n].op = "erase" THEN l = Main ELSE l = at[objects[q[l][n].id].key]

\* No two erasures of one session wait.
OneErasure(q) ==
    \A i \in Nat : \A n1, n2 \in DOMAIN q[Main] :
        ErasureAt(q, n1, i) /\ ErasureAt(q, n2, i) => n1 = n2

\* m_sessions holds sessions of the right key.
Mapped(m, objects) ==
    \A k \in Key : m[k] # 0 => m[k] \in DOMAIN objects /\ objects[m[k]].key = k

\* What SessionsTracked says of one session; one that waits for connectEstablished()
\* has no timer yet.
SessionHeld(s, i, m, counts, q) ==
    /\ IF s.state = "Connecting" THEN s.timer = "none" /\ s.extra = 0 ELSE Timed(s, {"armed"})
    /\ s.state # "Disconnected" => m[s.key] = i /\ counts[i] = 0 /\ ~Erasing(q, i)
    /\ s.state = "Disconnected" =>
        \/ m[s.key] # i /\ counts[i] = 1 /\ ~Erasing(q, i)
        \/ m[s.key] = i /\ counts[i] = 0 /\ Erasing(q, i)

\* The invariant without what concerns connectEstablished().
Core(at, objects, m, counts, q) ==
    /\ KTypes(at, objects, m, counts, q)
    /\ Placed(at, objects, q) /\ OneErasure(q) /\ Mapped(m, objects)
    /\ \A i \in DOMAIN objects : SessionHeld(objects[i], i, m, counts, q)

\* The functor of connectEstablished() of session i waits in loop l.
EstablishAt(q, l, n, i) == n \in DOMAIN q[l] /\ q[l][n].op = "establish" /\ q[l][n].id = i

\* Every session but i: as long as it is connecting, the functor of
\* connectEstablished() waits, before all others of that session and not in the
\* server's loop; afterwards it does not.
ConnectingBut(objects, at, q, i) ==
    /\ \A j \in DOMAIN objects \ {i} :
        objects[j].state = "Connecting" => \E n \in DOMAIN q[at[objects[j].key]] :
            EstablishAt(q, at[objects[j].key], n, j)
    /\ \A l \in K!Loop : \A n \in DOMAIN q[l] :
        q[l][n].op = "establish" =>
            /\ l # Main /\ q[l][n].id # i
            /\ objects[q[l][n].id].state = "Connecting"
            /\ \A p \in DOMAIN q[l] : p < n => q[l][p].id # q[l][n].id

\* The inductive invariant of KcpServer.
KInv ==
    /\ Core(loopOf, session, sessions, closes, functors)
    /\ ConnectingBut(session, loopOf, functors, 0)

\* KInv holds before any datagram.
LEMMA KInvInit ==
    ASSUME K!Init PROVE KInv
<1>1. KTypes(loopOf, session, sessions, closes, functors)
  BY DEF K!Init, KTypes, K!Loop
<1>2. Placed(loopOf, session, functors) /\ OneErasure(functors) /\ Mapped(sessions, session)
  BY DEF K!Init, Placed, OneErasure, Mapped, ErasureAt, K!Loop
<1>3. \A i \in DOMAIN session : FALSE
  BY DEF K!Init
<1>4. ConnectingBut(session, loopOf, functors, 0)
  BY <1>3, Zenon DEF K!Init, ConnectingBut, K!Loop
<1> QED
  BY <1>1, <1>2, <1>3, <1>4, Zenon DEF KInv, Core

\* One queue of several grows by an element at its end.
LEMMA AppendAt ==
    ASSUME NEW L, NEW S, NEW q \in [L -> Seq(S)], NEW l0 \in L, NEW x \in S, NEW r,
           r = [q EXCEPT ![l0] = Append(@, x)]
    PROVE  /\ r \in [L -> Seq(S)]
           /\ \A l \in L : Len(r[l]) = IF l = l0 THEN Len(q[l]) + 1 ELSE Len(q[l])
           /\ \A l \in L : \A n \in DOMAIN q[l] : n \in DOMAIN r[l] /\ r[l][n] = q[l][n]
           /\ \A l \in L : \A n \in DOMAIN r[l] \ DOMAIN q[l] :
                 l = l0 /\ n = Len(q[l]) + 1 /\ r[l][n] = x
<1>1. /\ \A l \in L : q[l] \in Seq(S)
      /\ r[l0] = Append(q[l0], x) /\ \A l \in L : l # l0 => r[l] = q[l]
  BY Zenon
<1>2. r \in [L -> Seq(S)]
  BY <1>1
<1>3. /\ Len(r[l0]) = Len(q[l0]) + 1
      /\ \A n \in DOMAIN q[l0] : n \in DOMAIN r[l0] /\ r[l0][n] = q[l0][n]
      /\ \A n \in DOMAIN r[l0] \ DOMAIN q[l0] : n = Len(q[l0]) + 1 /\ r[l0][n] = x
  BY <1>1
<1> QED
  BY <1>1, <1>2, <1>3, Zenon

\* One queue of several loses its first element.
LEMMA TailAt ==
    ASSUME NEW L, NEW S, NEW q \in [L -> Seq(S)], NEW l0 \in L, q[l0] # <<>>
    PROVE  LET r == [q EXCEPT ![l0] = Tail(@)]
           IN  /\ r \in [L -> Seq(S)]
               /\ \A l \in L : l # l0 => r[l] = q[l]
               /\ \A n \in DOMAIN r[l0] : n + 1 \in DOMAIN q[l0] /\ r[l0][n] = q[l0][n + 1]
               /\ \A n \in DOMAIN q[l0] :
                     n # 1 => n - 1 \in DOMAIN r[l0] /\ r[l0][n - 1] = q[l0][n]
<1> DEFINE r == [q EXCEPT ![l0] = Tail(@)]
<1>1. /\ q[l0] \in Seq(S) /\ r[l0] = Tail(q[l0]) /\ \A l \in L : l # l0 => r[l] = q[l]
  BY Zenon
<1>2. /\ Tail(q[l0]) \in Seq(S) /\ Len(Tail(q[l0])) = Len(q[l0]) - 1
      /\ \A n \in 1..Len(q[l0]) - 1 : Tail(q[l0])[n] = q[l0][n + 1]
  BY <1>1
<1>3. r \in [L -> Seq(S)]
  BY <1>1, <1>2, Zenon
<1>4. r[l0] \in Seq(S) /\ DOMAIN r[l0] = 1..Len(q[l0]) - 1 /\ DOMAIN q[l0] = 1..Len(q[l0])
  BY <1>1, <1>2
<1> HIDE DEF r
<1> QED
  BY <1>1, <1>2, <1>3, <1>4 DEF r

\* Posting a call or a datagram to the loop of a session keeps the invariant.
LEMMA PostKeeps ==
    ASSUME NEW at, NEW objects, NEW m, NEW counts, NEW q, Core(at, objects, m, counts, q),
           ConnectingBut(objects, at, q, 0),
           NEW i \in DOMAIN objects, NEW op \in K!Calls \cup {"input"}
    PROVE  LET r == K!Post(q, at[objects[i].key], op, i)
           IN  Core(at, objects, m, counts, r) /\ ConnectingBut(objects, at, r, 0)
<1> DEFINE l0 == at[objects[i].key]
           r == K!Post(q, l0, op, i)
<1>a. KTypes(at, objects, m, counts, q)
  BY Zenon DEF Core
<1>b. objects[i] \in KSession /\ i \in Nat
  BY <1>a DEF KTypes
<1>c. l0 \in K!Loop
  BY <1>a, <1>b, Zenon DEF KTypes, KSession
<1>d. op \in KOps /\ op # "erase" /\ op # "establish"
  BY Zenon DEF KOps, K!Calls
<1>0. /\ l0 \in K!Loop /\ op \in KOps /\ op # "erase" /\ op # "establish" /\ i \in Nat
      /\ KTypes(at, objects, m, counts, q) /\ Main \in K!Loop
      /\ q \in [K!Loop -> Seq([op : KOps, id : Nat])]
  BY <1>a, <1>b, <1>c, <1>d, Zenon DEF K!Loop, KTypes
<1> HIDE DEF l0
<1>1. /\ r \in [K!Loop -> Seq([op : KOps, id : Nat])]
      /\ \A l \in K!Loop : Len(r[l]) = IF l = l0 THEN Len(q[l]) + 1 ELSE Len(q[l])
      /\ \A l \in K!Loop : \A n \in DOMAIN q[l] : n \in DOMAIN r[l] /\ r[l][n] = q[l][n]
      /\ \A l \in K!Loop : \A n \in DOMAIN r[l] \ DOMAIN q[l] :
            l = l0 /\ n = Len(q[l]) + 1 /\ r[l][n] = [op |-> op, id |-> i]
  <2> DEFINE x == [op |-> op, id |-> i]
             fs == [op : KOps, id : Nat]
  <2>1. x \in fs
    BY <1>0, Zenon
  <2>2. r = [q EXCEPT ![l0] = Append(@, x)]
    BY Zenon DEF K!Post
  <2>3. q \in [K!Loop -> Seq(fs)] /\ l0 \in K!Loop
    BY <1>0, Zenon
  <2> HIDE DEF r, x, fs
  <2>4. /\ r \in [K!Loop -> Seq(fs)]
        /\ \A l \in K!Loop : Len(r[l]) = IF l = l0 THEN Len(q[l]) + 1 ELSE Len(q[l])
        /\ \A l \in K!Loop : \A n \in DOMAIN q[l] : n \in DOMAIN r[l] /\ r[l][n] = q[l][n]
        /\ \A l \in K!Loop : \A n \in DOMAIN r[l] \ DOMAIN q[l] :
              l = l0 /\ n = Len(q[l]) + 1 /\ r[l][n] = x
    BY <2>1, <2>2, <2>3, AppendAt
  <2> QED
    BY <2>4, Zenon DEF x, fs
<1> HIDE DEF r
<1>2. KTypes(at, objects, m, counts, r)
  BY <1>0, <1>1, Zenon DEF KTypes
<1>3. Placed(at, objects, r)
  <2> SUFFICES ASSUME NEW l \in K!Loop, NEW n \in DOMAIN r[l]
               PROVE  /\ r[l][n].id \in DOMAIN objects
                      /\ IF r[l][n].op = "erase" THEN l = Main
                         ELSE l = at[objects[r[l][n].id].key]
    BY Zenon DEF Placed
  <2>1. CASE n \in DOMAIN q[l]
    BY <1>1, <2>1, SMTT(30) DEF Core, Placed
  <2>2. CASE n \notin DOMAIN q[l]
    BY <1>0, <1>1, <2>2 DEF l0
  <2> QED
    BY <2>1, <2>2, Zenon
<1>4. \A n, j : ErasureAt(r, n, j) <=> ErasureAt(q, n, j)
  BY <1>0, <1>1, SMTT(20) DEF ErasureAt
<1>5. OneErasure(r)
  BY <1>4, ZenonT(30) DEF Core, OneErasure, ErasureAt
<1>6. \A j : Erasing(r, j) <=> Erasing(q, j)
  BY <1>4, Zenon DEF Erasing, ErasureAt
<1>7. \A j \in DOMAIN objects : SessionHeld(objects[j], j, m, counts, r)
  BY <1>6, Zenon DEF Core, SessionHeld
<1>8. ConnectingBut(objects, at, r, 0)
  <2>1. \A j \in DOMAIN objects \ {0} :
        objects[j].state = "Connecting" => \E n \in DOMAIN r[at[objects[j].key]] :
            EstablishAt(r, at[objects[j].key], n, j)
    <3> SUFFICES ASSUME NEW j \in DOMAIN objects \ {0}, objects[j].state = "Connecting"
                 PROVE  \E n \in DOMAIN r[at[objects[j].key]] :
                            EstablishAt(r, at[objects[j].key], n, j)
      BY Zenon
    <3>1. objects[j] \in KSession
      BY <1>0 DEF KTypes
    <3>2. at[objects[j].key] \in K!Loop
      BY <1>0, <3>1, Zenon DEF KTypes, KSession
    <3> QED
      BY <1>1, <3>2 DEF ConnectingBut, EstablishAt
  <2>2. \A l \in K!Loop : \A n \in DOMAIN r[l] :
        r[l][n].op = "establish" =>
            /\ l # Main /\ r[l][n].id # 0
            /\ objects[r[l][n].id].state = "Connecting"
            /\ \A p \in DOMAIN r[l] : p < n => r[l][p].id # r[l][n].id
    <3> TAKE l \in K!Loop
    <3> TAKE n \in DOMAIN r[l]
    <3> HAVE r[l][n].op = "establish"
    <3>1. n \in DOMAIN q[l] /\ r[l][n] = q[l][n]
      BY <1>0, <1>1, SMTT(30)
    <3>2. \A p \in DOMAIN r[l] : p < n => p \in DOMAIN q[l]
      BY <1>0, <1>1, <3>1 DEF KTypes
    <3> QED
      BY <1>1, <3>1, <3>2 DEF ConnectingBut
  <2> QED
    BY <2>1, <2>2, Zenon DEF ConnectingBut
<1> QED
  BY <1>2, <1>3, <1>5, <1>7, <1>8, Zenon DEF Core, r, l0

\* A loop takes its next functor: a session is still connecting exactly when that is the
\* functor of connectEstablished(), because it was posted first.
LEMMA PopKeeps ==
    ASSUME NEW at, NEW objects, NEW m, NEW counts, NEW q, Core(at, objects, m, counts, q),
           ConnectingBut(objects, at, q, 0),
           NEW l0 \in K!Loop, q[l0] # <<>>, Head(q[l0]).op # "erase"
    PROVE  LET r == [q EXCEPT ![l0] = Tail(@)]
               i == Head(q[l0]).id
           IN  /\ i \in DOMAIN objects
               /\ Core(at, objects, m, counts, r) /\ ConnectingBut(objects, at, r, i)
               /\ objects[i].state = "Connecting" <=> Head(q[l0]).op = "establish"
<1> DEFINE r == [q EXCEPT ![l0] = Tail(@)]
           i == q[l0][1].id
           fs == [op : KOps, id : Nat]
<1>a. KTypes(at, objects, m, counts, q) /\ Main \in K!Loop
  BY Zenon DEF Core, K!Loop
<1> HIDE DEF fs
<1>b. q \in [K!Loop -> Seq(fs)] /\ q[l0] \in Seq(fs)
  BY <1>a, Zenon DEF KTypes, fs
<1>c. Head(q[l0]) = q[l0][1] /\ 1 \in DOMAIN q[l0] /\ q[l0][1].op # "erase"
  BY <1>b
<1>d. i \in DOMAIN objects /\ l0 = at[objects[i].key]
  BY <1>c, Zenon DEF Core, Placed
<1>e. i \in Nat /\ i # 0
  BY <1>a, <1>d DEF KTypes
<1>0. /\ KTypes(at, objects, m, counts, q) /\ Main \in K!Loop
      /\ Head(q[l0]) = q[l0][1] /\ 1 \in DOMAIN q[l0] /\ q[l0][1].op # "erase"
      /\ i \in DOMAIN objects /\ l0 = at[objects[i].key] /\ i \in Nat /\ i # 0
  BY <1>a, <1>b, <1>c, <1>d, <1>e, Zenon
<1>1. /\ r \in [K!Loop -> Seq([op : KOps, id : Nat])]
      /\ \A l \in K!Loop : l # l0 => r[l] = q[l]
      /\ \A n \in DOMAIN r[l0] : n + 1 \in DOMAIN q[l0] /\ r[l0][n] = q[l0][n + 1]
      /\ \A n \in DOMAIN q[l0] : n # 1 => n - 1 \in DOMAIN r[l0] /\ r[l0][n - 1] = q[l0][n]
  <2>1. /\ r \in [K!Loop -> Seq(fs)]
        /\ \A l \in K!Loop : l # l0 => r[l] = q[l]
        /\ \A n \in DOMAIN r[l0] : n + 1 \in DOMAIN q[l0] /\ r[l0][n] = q[l0][n + 1]
        /\ \A n \in DOMAIN q[l0] : n # 1 => n - 1 \in DOMAIN r[l0] /\ r[l0][n - 1] = q[l0][n]
    BY <1>b, TailAt, Zenon
  <2> QED
    BY <2>1, Zenon DEF fs
<1> HIDE DEF r, i
<1>2. KTypes(at, objects, m, counts, r)
  BY <1>0, <1>1, Zenon DEF KTypes
<1>3. Placed(at, objects, r)
  <2> SUFFICES ASSUME NEW l \in K!Loop, NEW n \in DOMAIN r[l]
               PROVE  \E p \in DOMAIN q[l] : r[l][n] = q[l][p]
    BY DEF Core, Placed
  <2> QED
    BY <1>1, SMTT(20)
<1>4. \A j : Erasing(r, j) <=> Erasing(q, j)
  <2>1. CASE l0 # Main
    BY <1>0, <1>1, <2>1 DEF Erasing, ErasureAt
  <2>2. CASE l0 = Main
    <3> TAKE j
    <3>1. ASSUME NEW n \in DOMAIN q[Main], ErasureAt(q, n, j)
          PROVE  ErasureAt(r, n - 1, j)
      BY <1>0, <1>1, <2>2, <3>1 DEF ErasureAt
    <3>2. ASSUME NEW n \in DOMAIN r[Main], ErasureAt(r, n, j)
          PROVE  ErasureAt(q, n + 1, j)
      BY <1>0, <1>1, <2>2, <3>2 DEF ErasureAt
    <3> QED
      BY <3>1, <3>2, Zenon DEF Erasing, ErasureAt
  <2> QED
    BY <2>1, <2>2, Zenon
<1>5. OneErasure(r)
  <2> SUFFICES ASSUME NEW j \in Nat, NEW n1 \in DOMAIN r[Main], NEW n2 \in DOMAIN r[Main],
                      ErasureAt(r, n1, j), ErasureAt(r, n2, j)
               PROVE  n1 = n2
    BY Zenon DEF OneErasure
  <2>1. CASE l0 # Main
    <3>1. r[Main] = q[Main]
      BY <1>0, <1>1, <2>1, Zenon
    <3>2. ErasureAt(q, n1, j) /\ ErasureAt(q, n2, j)
      BY <3>1, Zenon DEF ErasureAt
    <3> QED
      BY <3>2, Zenon DEF Core, OneErasure, ErasureAt
  <2>2. CASE l0 = Main
    <3>1. ErasureAt(q, n1 + 1, j) /\ ErasureAt(q, n2 + 1, j)
      BY <1>0, <1>1, <2>2 DEF ErasureAt
    <3>2. n1 + 1 = n2 + 1
      BY <3>1, Zenon DEF Core, OneErasure, ErasureAt
    <3>3. n1 \in Nat /\ n2 \in Nat
      <4>1. r[Main] \in Seq([op : KOps, id : Nat])
        BY <1>0, <1>2, Zenon DEF KTypes
      <4> QED
        BY <4>1, SMTT(30)
    <3> QED
      BY <3>2, <3>3
  <2> QED
    BY <2>1, <2>2, Zenon
<1>7. \A j \in DOMAIN objects : SessionHeld(objects[j], j, m, counts, r)
  BY <1>4, Zenon DEF Core, SessionHeld
<1>8. objects[i].state = "Connecting" <=> q[l0][1].op = "establish"
  <2>1. q[l0][1].op = "establish" => objects[i].state = "Connecting"
    BY <1>0, Zenon DEF ConnectingBut, i
  <2>2. ASSUME objects[i].state = "Connecting" PROVE q[l0][1].op = "establish"
    <3>1. PICK n \in DOMAIN q[l0] : EstablishAt(q, l0, n, i)
      BY <1>0, <2>2, Zenon DEF ConnectingBut
    <3>2. \A p \in DOMAIN q[l0] : p < n => q[l0][p].id # i
      BY <3>1 DEF ConnectingBut, EstablishAt
    <3>3. n = 1
      BY <1>0, <3>2 DEF i, KTypes
    <3> QED
      BY <3>1, <3>3, Zenon DEF EstablishAt
  <2> QED
    BY <2>1, <2>2, Zenon
<1>9. ConnectingBut(objects, at, r, i)
  <2>1. ASSUME NEW j \in DOMAIN objects \ {i}, objects[j].state = "Connecting"
        PROVE  \E n \in DOMAIN r[at[objects[j].key]] :
                    EstablishAt(r, at[objects[j].key], n, j)
    <3> DEFINE h == at[objects[j].key]
    <3>1. h \in K!Loop /\ j # 0
      <4>1. objects[j] \in KSession /\ j # 0
        BY <1>0 DEF KTypes
      <4> QED
        BY <1>0, <4>1, Zenon DEF KTypes, KSession
    <3>2. PICK n \in DOMAIN q[h] : EstablishAt(q, h, n, j)
      BY <2>1, <3>1, Zenon DEF ConnectingBut
    <3> HIDE DEF h
    <3>3. CASE h # l0
      BY <1>1, <3>1, <3>2, <3>3, Zenon DEF EstablishAt, h
    <3>4. CASE h = l0
      <4>1. n # 1
        BY <3>2, <3>4, Zenon DEF EstablishAt, i
      <4>2. EstablishAt(r, h, n - 1, j)
        BY <1>1, <3>2, <3>4, <4>1, Zenon DEF EstablishAt
      <4> QED
        BY <4>2, Zenon DEF EstablishAt, h
    <3> QED
      BY <3>3, <3>4, Zenon
  <2>2. ASSUME NEW l \in K!Loop, NEW n \in DOMAIN r[l], r[l][n].op = "establish"
        PROVE  /\ l # Main /\ r[l][n].id # i
               /\ objects[r[l][n].id].state = "Connecting"
               /\ \A p \in DOMAIN r[l] : p < n => r[l][p].id # r[l][n].id
    <3>1. CASE l # l0
      <4>1. r[l] = q[l]
        BY <1>1, <3>1, Zenon
      <4>2. q[l][n].id # i
        BY <1>0, <2>2, <3>1, <4>1, SMTT(30) DEF Core, Placed
      <4> QED
        BY <2>2, <4>1, <4>2 DEF ConnectingBut
    <3>2. CASE l = l0
      <4>1. /\ n + 1 \in DOMAIN q[l] /\ q[l][n + 1] = r[l][n] /\ 1 < n + 1
            /\ \A p \in DOMAIN r[l] : p + 1 \in DOMAIN q[l] /\ q[l][p + 1] = r[l][p]
            /\ \A p \in DOMAIN r[l] : p < n => p + 1 < n + 1
        BY <1>1, <3>2
      <4>2. /\ l # Main /\ objects[q[l][n + 1].id].state = "Connecting"
            /\ \A p \in DOMAIN q[l] : p < n + 1 => q[l][p].id # q[l][n + 1].id
        BY <2>2, <4>1 DEF ConnectingBut
      <4> QED
        BY <1>0, <3>2, <4>1, <4>2 DEF i
    <3> QED
      BY <3>1, <3>2, Zenon
  <2> QED
    BY <2>1, <2>2, Zenon DEF ConnectingBut
<1> QED
  BY <1>0, <1>2, <1>3, <1>5, <1>7, <1>8, <1>9, Zenon DEF Core, r, i

\* A session changes as its functions may change it; what concerns the map and the queues
\* is kept.
LEMMA ChangeKeeps ==
    ASSUME NEW at, NEW objects, NEW m, NEW counts, NEW q, Core(at, objects, m, counts, q),
           NEW i \in DOMAIN objects, ConnectingBut(objects, at, q, i),
           NEW t, From(objects[i], t, {"armed"})
    PROVE  LET new == [objects EXCEPT ![i] = t]
           IN  /\ KTypes(at, new, m, counts, q) /\ Placed(at, new, q) /\ Mapped(m, new)
               /\ DOMAIN new = DOMAIN objects /\ new[i] = t
               /\ \A j \in DOMAIN objects : j # i => new[j] = objects[j]
               /\ ConnectingBut(new, at, q, 0)
<1> DEFINE new == [objects EXCEPT ![i] = t]
<1>1. KTypes(at, objects, m, counts, q) /\ t \in KSession /\ t.key = objects[i].key
  BY Zenon DEF Core, From, Timed
<1>2. objects \in Seq(KSession)
  BY <1>1, Zenon DEF KTypes
<1>3. /\ new \in Seq(KSession) /\ Len(new) = Len(objects) /\ DOMAIN new = DOMAIN objects
      /\ new[i] = t /\ \A j \in DOMAIN objects : j # i => new[j] = objects[j]
  BY <1>1, <1>2
<1>4. \A j \in DOMAIN objects : new[j].key = objects[j].key /\ j # 0
  BY <1>1, <1>2, <1>3
<1> HIDE DEF new
<1>5. KTypes(at, new, m, counts, q)
  BY <1>1, <1>3, Zenon DEF KTypes
<1>6. Placed(at, new, q)
  BY <1>3, <1>4 DEF Core, Placed
<1>7. Mapped(m, new)
  BY <1>3, <1>4, Zenon DEF Core, Mapped
<1>8. ConnectingBut(new, at, q, 0)
  <2>1. ASSUME NEW j \in DOMAIN new \ {0}, new[j].state = "Connecting"
        PROVE  \E n \in DOMAIN q[at[new[j].key]] : EstablishAt(q, at[new[j].key], n, j)
    <3>1. j # i
      BY <1>3, <2>1, Zenon DEF From, Timed
    <3> QED
      BY <1>3, <2>1, <3>1, Zenon DEF ConnectingBut
  <2>2. ASSUME NEW l \in K!Loop, NEW n \in DOMAIN q[l], q[l][n].op = "establish"
        PROVE  /\ l # Main /\ q[l][n].id # 0
               /\ new[q[l][n].id].state = "Connecting"
               /\ \A p \in DOMAIN q[l] : p < n => q[l][p].id # q[l][n].id
    <3>1. q[l][n].id \in DOMAIN objects
      BY Zenon DEF Core, Placed
    <3> QED
      BY <1>3, <1>4, <2>2, <3>1 DEF ConnectingBut
  <2> QED
    BY <2>1, <2>2, Zenon DEF ConnectingBut
<1> QED
  BY <1>3, <1>5, <1>6, <1>7, <1>8, Zenon DEF new

\* A function of a session has run in its loop, and handleSessionClose with it when the
\* session closed: it is erased at once, or exactly one erasure is posted.
LEMMA StepKeeps ==
    ASSUME NEW objects, NEW m, NEW counts, NEW q, Core(loopOf, objects, m, counts, q),
           NEW i \in DOMAIN objects, ConnectingBut(objects, loopOf, q, i),
           NEW t, From(objects[i], t, {"armed"}), K!SessionStep(objects, i, t, m, counts, q)
    PROVE  /\ Core(loopOf, session', sessions', closes', functors')
           /\ ConnectingBut(session', loopOf, functors', 0)
<1> DEFINE new == [objects EXCEPT ![i] = t]
           closing == objects[i].state # "Disconnected" /\ t.state = "Disconnected"
           here == loopOf[t.key] = Main
<1>0. /\ KTypes(loopOf, new, m, counts, q) /\ Placed(loopOf, new, q) /\ Mapped(m, new)
      /\ DOMAIN new = DOMAIN objects /\ new[i] = t
      /\ \A j \in DOMAIN objects : j # i => new[j] = objects[j]
      /\ ConnectingBut(new, loopOf, q, 0)
  BY ChangeKeeps, Zenon
<1>1. /\ session' = new
      /\ functors' = IF closing /\ ~here THEN K!Post(q, Main, "erase", i) ELSE q
      /\ sessions' = IF closing /\ here THEN K!Erase(m, i) ELSE m
      /\ closes' = IF closing /\ here THEN [counts EXCEPT ![i] = @ + 1] ELSE counts
  BY Zenon DEF K!SessionStep
<1>2. /\ Main \in K!Loop /\ i \in Nat /\ i # 0 /\ t \in KSession /\ t.key = objects[i].key
      /\ Timed(t, {"armed"}) /\ t.state # "Connecting" /\ t.key \in Key
  <2>1. i \in Nat /\ i # 0
    BY DEF Core, KTypes
  <2> QED
    BY <2>1, Zenon DEF From, Timed, K!Loop, KSession
<1>3. OneErasure(q) /\ \A j \in DOMAIN objects : SessionHeld(objects[j], j, m, counts, q)
  BY Zenon DEF Core
<1> HIDE DEF new, here
<1>4. CASE ~closing
  <2>1. session' = new /\ functors' = q /\ sessions' = m /\ closes' = counts
    BY <1>1, <1>4, Zenon
  <2>2. SessionHeld(t, i, m, counts, q)
    <3>1. objects[i].state = "Disconnected" <=> t.state = "Disconnected"
      BY <1>4, Zenon DEF From
    <3> QED
      BY <1>2, <1>3, <3>1, Zenon DEF SessionHeld
  <2>3. \A j \in DOMAIN new : SessionHeld(new[j], j, m, counts, q)
    BY <1>0, <1>3, <2>2, Zenon
  <2> QED
    BY <1>0, <1>3, <2>1, <2>3, Zenon DEF Core
<1>5. ASSUME closing PROVE m[t.key] = i /\ counts[i] = 0 /\ ~Erasing(q, i)
  BY <1>2, <1>3, <1>5, Zenon DEF SessionHeld
<1>6. CASE closing /\ here
  <2>1. session' = new /\ functors' = q /\ sessions' = K!Erase(m, i)
        /\ closes' = [counts EXCEPT ![i] = @ + 1]
    BY <1>1, <1>6, Zenon
  <2> DEFINE m2 == K!Erase(m, i)
             c2 == [counts EXCEPT ![i] = @ + 1]
  <2>2. /\ m2 \in [Key -> Nat] /\ m2[t.key] = 0
        /\ \A k \in Key : m2[k] = IF m[k] = i THEN 0 ELSE m[k]
    BY <1>0, <1>2, <1>5, <1>6, Zenon DEF K!Erase, KTypes
  <2>3. /\ c2 \in Seq(Nat) /\ Len(c2) = Len(counts) /\ c2[i] = 1
        /\ \A j \in DOMAIN new : j # i => c2[j] = counts[j]
    <3>1. counts \in Seq(Nat) /\ DOMAIN counts = DOMAIN new /\ counts[i] = 0
      BY <1>0, <1>5, <1>6 DEF KTypes
    <3> QED
      BY <1>0, <3>1, SMTT(30)
  <2> HIDE DEF m2, c2
  <2>4. KTypes(loopOf, new, m2, c2, q) /\ Mapped(m2, new)
    BY <1>0, <2>2, <2>3, Zenon DEF KTypes, Mapped
  <2>5. SessionHeld(t, i, m2, c2, q)
    BY <1>2, <1>5, <1>6, <2>2, <2>3, Zenon DEF SessionHeld
  <2>6. \A j \in DOMAIN new : SessionHeld(new[j], j, m2, c2, q)
    <3> SUFFICES ASSUME NEW j \in DOMAIN new, j # i PROVE SessionHeld(new[j], j, m2, c2, q)
      BY <1>0, <2>5, Zenon
    <3>1. /\ new[j] = objects[j] /\ c2[j] = counts[j] /\ SessionHeld(objects[j], j, m, counts, q)
          /\ objects[j].key \in Key /\ j # 0
      <4>1. new[j] \in KSession /\ j # 0
        BY <1>0 DEF KTypes
      <4> QED
        BY <1>0, <1>3, <2>3, <4>1, Zenon DEF KSession
    <3>2. m2[objects[j].key] = j <=> m[objects[j].key] = j
      BY <2>2, <3>1, Zenon
    <3> QED
      BY <3>1, <3>2, Zenon DEF SessionHeld
  <2> QED
    BY <1>0, <1>3, <2>1, <2>4, <2>6, Zenon DEF Core, m2, c2
<1>7. CASE closing /\ ~here
  <2> DEFINE r == K!Post(q, Main, "erase", i)
             x == [op |-> "erase", id |-> i]
             fs == [op : KOps, id : Nat]
  <2>1. session' = new /\ functors' = r /\ sessions' = m /\ closes' = counts
    BY <1>1, <1>7, Zenon
  <2>2. /\ r \in [K!Loop -> Seq(fs)] /\ q \in [K!Loop -> Seq(fs)]
        /\ \A l \in K!Loop : Len(r[l]) = IF l = Main THEN Len(q[l]) + 1 ELSE Len(q[l])
        /\ \A l \in K!Loop : \A n \in DOMAIN q[l] : n \in DOMAIN r[l] /\ r[l][n] = q[l][n]
        /\ \A l \in K!Loop : \A n \in DOMAIN r[l] \ DOMAIN q[l] :
              l = Main /\ n = Len(q[l]) + 1 /\ r[l][n] = x
    <3>1. x \in fs
      BY <1>2, Zenon DEF KOps
    <3>2. r = [q EXCEPT ![Main] = Append(@, x)]
      BY Zenon DEF K!Post
    <3>3. q \in [K!Loop -> Seq(fs)]
      BY <1>0, Zenon DEF KTypes
    <3> HIDE DEF r, x, fs
    <3> QED
      BY <1>2, <3>1, <3>2, <3>3, AppendAt
  <2> HIDE DEF r
  <2>3. KTypes(loopOf, new, m, counts, r)
    BY <1>0, <2>2, Zenon DEF KTypes
  <2> DEFINE last == Len(q[Main]) + 1
  <2>4. /\ last \in DOMAIN r[Main] /\ r[Main][last] = x /\ last \notin DOMAIN q[Main]
        /\ \A n \in DOMAIN r[Main] : n \in DOMAIN q[Main] \/ n = last
    <3>1. r[Main] \in Seq(fs) /\ q[Main] \in Seq(fs) /\ Len(r[Main]) = last
      BY <1>2, <2>2, Zenon
    <3>2. last \in DOMAIN r[Main] /\ last \notin DOMAIN q[Main]
      BY <3>1, SMTT(30)
    <3> QED
      BY <1>2, <2>2, <3>1, <3>2
  <2> HIDE DEF last, fs
  <2>5. \A n, j : ErasureAt(r, n, j) <=> (ErasureAt(q, n, j) \/ (n = last /\ j = i))
    BY <1>2, <2>2, <2>4 DEF ErasureAt
  <2>6. \A j : Erasing(r, j) <=> (Erasing(q, j) \/ j = i)
    BY <2>4, <2>5, Zenon DEF Erasing, ErasureAt
  <2>7. OneErasure(r)
    <3> SUFFICES ASSUME NEW j \in Nat, NEW n1 \in DOMAIN r[Main], NEW n2 \in DOMAIN r[Main],
                        ErasureAt(r, n1, j), ErasureAt(r, n2, j)
                 PROVE  n1 = n2
      BY Zenon DEF OneErasure
    <3>1. CASE j = i
      <4>1. ~ErasureAt(q, n1, i) /\ ~ErasureAt(q, n2, i)
        BY <1>5, <1>7, Zenon DEF Erasing, ErasureAt
      <4> QED
        BY <2>5, <3>1, <4>1
    <3>2. CASE j # i
      <4>1. ErasureAt(q, n1, j) /\ ErasureAt(q, n2, j)
        BY <2>5, <3>2
      <4> QED
        BY <1>3, <4>1, Zenon DEF OneErasure, ErasureAt
    <3> QED
      BY <3>1, <3>2, Zenon
  <2>8. Placed(loopOf, new, r)
    <3> SUFFICES ASSUME NEW l \in K!Loop, NEW n \in DOMAIN r[l]
                 PROVE  /\ r[l][n].id \in DOMAIN new
                        /\ IF r[l][n].op = "erase" THEN l = Main
                           ELSE l = loopOf[new[r[l][n].id].key]
      BY Zenon DEF Placed
    <3>1. CASE n \in DOMAIN q[l]
      BY <1>0, <2>2, <3>1, SMTT(20) DEF Placed
    <3>2. CASE n \notin DOMAIN q[l]
      BY <1>0, <2>2, <3>2
    <3> QED
      BY <3>1, <3>2, Zenon
  <2>9. \A j \in DOMAIN new : SessionHeld(new[j], j, m, counts, r)
    <3>1. SessionHeld(t, i, m, counts, r)
      BY <1>2, <1>5, <1>7, <2>6, Zenon DEF SessionHeld
    <3>2. \A j \in DOMAIN objects : j # i => SessionHeld(objects[j], j, m, counts, r)
      BY <1>3, <2>6, Zenon DEF SessionHeld
    <3> QED
      BY <1>0, <3>1, <3>2, Zenon
  <2>10. ConnectingBut(new, loopOf, r, 0)
    <3>1. ASSUME NEW j \in DOMAIN new \ {0}, new[j].state = "Connecting"
          PROVE  \E n \in DOMAIN r[loopOf[new[j].key]] :
                    EstablishAt(r, loopOf[new[j].key], n, j)
      <4>1. new[j] \in KSession
        BY <1>0 DEF KTypes
      <4>2. loopOf[new[j].key] \in K!Loop
        BY <1>0, <4>1, ZenonT(30) DEF KTypes, KSession
      <4> QED
        <5> DEFINE h == loopOf[new[j].key]
        <5>1. PICK n \in DOMAIN q[h] : EstablishAt(q, h, n, j)
          BY <1>0, <3>1, Zenon DEF ConnectingBut
        <5> HIDE DEF h
        <5>2. EstablishAt(r, h, n, j)
          BY <2>2, <4>2, <5>1, Zenon DEF EstablishAt, h
        <5> QED
          BY <5>2, Zenon DEF EstablishAt, h
    <3>2. ASSUME NEW l \in K!Loop, NEW n \in DOMAIN r[l], r[l][n].op = "establish"
          PROVE  /\ l # Main /\ r[l][n].id # 0
                 /\ new[r[l][n].id].state = "Connecting"
                 /\ \A p \in DOMAIN r[l] : p < n => r[l][p].id # r[l][n].id
      <4>1. n \in DOMAIN q[l] /\ r[l][n] = q[l][n]
        BY <2>2, <3>2
      <4>2. l # Main
        BY <1>0, <3>2, <4>1, Zenon DEF ConnectingBut
      <4>3. \A p \in DOMAIN r[l] : p \in DOMAIN q[l] /\ r[l][p] = q[l][p]
        BY <2>2, <4>2, Zenon
      <4>4. /\ q[l][n].id # 0 /\ new[q[l][n].id].state = "Connecting"
            /\ \A p \in DOMAIN q[l] : p < n => q[l][p].id # q[l][n].id
        BY <1>0, <3>2, <4>1, Zenon DEF ConnectingBut
      <4> QED
        BY ONLY <4>1, <4>2, <4>3, <4>4, Zenon
    <3> QED
      BY <3>1, <3>2, Zenon DEF ConnectingBut
  <2> QED
    BY <1>0, <2>1, <2>3, <2>7, <2>8, <2>9, <2>10, Zenon DEF Core
<1> QED
  BY <1>4, <1>6, <1>7, Zenon

\* The erasure of a closed session runs in the server's loop, once.
LEMMA EraseKeeps ==
    ASSUME NEW at, NEW objects, NEW m, NEW counts, NEW q, Core(at, objects, m, counts, q),
           ConnectingBut(objects, at, q, 0),
           NEW l0 \in K!Loop, q[l0] # <<>>, Head(q[l0]).op = "erase"
    PROVE  LET r == [q EXCEPT ![l0] = Tail(@)]
               i == Head(q[l0]).id
               c == [counts EXCEPT ![i] = @ + 1]
           IN  Core(at, objects, K!Erase(m, i), c, r) /\ ConnectingBut(objects, at, r, 0)
<1> DEFINE r == [q EXCEPT ![l0] = Tail(@)]
           i == Head(q[l0]).id
           c == [counts EXCEPT ![i] = @ + 1]
           m2 == K!Erase(m, i)
           fs == [op : KOps, id : Nat]
<1>1. KTypes(at, objects, m, counts, q) /\ Main \in K!Loop
  BY Zenon DEF Core, K!Loop
<1> HIDE DEF fs
<1>2. q \in [K!Loop -> Seq(fs)] /\ q[l0] \in Seq(fs)
  BY <1>1, Zenon DEF KTypes, fs
<1>3. /\ 1 \in DOMAIN q[l0] /\ q[l0][1].op = "erase" /\ i = q[l0][1].id
  BY <1>2
<1>4. l0 = Main /\ i \in DOMAIN objects
  BY <1>3, Zenon DEF Core, Placed
<1>5. i \in Nat /\ i # 0 /\ objects[i] \in KSession
  BY <1>1, <1>4 DEF KTypes
<1> HIDE DEF i
<1>6. /\ r \in [K!Loop -> Seq(fs)]
      /\ \A l \in K!Loop : l # Main => r[l] = q[l]
      /\ \A n \in DOMAIN r[Main] : n + 1 \in DOMAIN q[Main] /\ r[Main][n] = q[Main][n + 1]
      /\ \A n \in DOMAIN q[Main] : n # 1 => n - 1 \in DOMAIN r[Main] /\ r[Main][n - 1] = q[Main][n]
  BY <1>2, <1>4, TailAt
<1> HIDE DEF r
<1>7. ErasureAt(q, 1, i) /\ \A n : ErasureAt(q, n, i) => n = 1
  BY <1>3, <1>4, <1>5, Zenon DEF ErasureAt, Core, OneErasure
<1>8. /\ objects[i].state = "Disconnected" /\ m[objects[i].key] = i /\ counts[i] = 0
      /\ Timed(objects[i], {"armed"})
  <2>1. Erasing(q, i) /\ SessionHeld(objects[i], i, m, counts, q)
    BY <1>4, <1>7, Zenon DEF Erasing, ErasureAt, Core
  <2> QED
    BY <2>1, Zenon DEF SessionHeld
<1>9. /\ m2 \in [Key -> Nat] /\ \A k \in Key : m2[k] = IF m[k] = i THEN 0 ELSE m[k]
  BY <1>1, Zenon DEF K!Erase, KTypes
<1>10. /\ c \in Seq(Nat) /\ Len(c) = Len(counts) /\ c[i] = 1
       /\ \A j \in DOMAIN objects : j # i => c[j] = counts[j]
  <2>1. counts \in Seq(Nat) /\ DOMAIN counts = DOMAIN objects /\ counts[i] = 0
    BY <1>1, <1>8 DEF KTypes
  <2> QED
    BY <1>4, <2>1
<1> HIDE DEF m2, c
<1>11. KTypes(at, objects, m2, c, r) /\ Mapped(m2, objects)
  BY <1>1, <1>6, <1>9, <1>10, Zenon DEF KTypes, Core, Mapped, fs
<1>12. Placed(at, objects, r)
  <2> SUFFICES ASSUME NEW l \in K!Loop, NEW n \in DOMAIN r[l]
               PROVE  \E p \in DOMAIN q[l] : r[l][n] = q[l][p]
    BY DEF Core, Placed
  <2> QED
    BY <1>6, SMTT(20)
<1>13. \A n, j : ErasureAt(r, n, j) => ErasureAt(q, n + 1, j)
  BY <1>6, Zenon DEF ErasureAt
<1>14. r[Main] \in Seq(fs)
  BY <1>1, <1>6, Zenon
<1>15. OneErasure(r)
  <2> SUFFICES ASSUME NEW j \in Nat, NEW n1 \in DOMAIN r[Main], NEW n2 \in DOMAIN r[Main],
                      ErasureAt(r, n1, j), ErasureAt(r, n2, j)
               PROVE  n1 = n2
    BY Zenon DEF OneErasure
  <2>1. ErasureAt(q, n1 + 1, j) /\ ErasureAt(q, n2 + 1, j)
    BY <1>13, Zenon
  <2>2. n1 + 1 = n2 + 1
    BY <2>1, Zenon DEF Core, OneErasure, ErasureAt
  <2> QED
    BY <1>14, <2>2
<1>16. ~Erasing(r, i)
  <2> SUFFICES ASSUME NEW n \in DOMAIN r[Main], ErasureAt(r, n, i) PROVE FALSE
    BY Zenon DEF Erasing
  <2>1. ErasureAt(q, n + 1, i)
    BY <1>13, Zenon
  <2>2. n + 1 = 1
    BY <1>7, <2>1, Zenon
  <2> QED
    BY <1>14, <2>2
<1>17. \A j : j # i => (Erasing(r, j) <=> Erasing(q, j))
  <2> TAKE j
  <2> HAVE j # i
  <2>1. ASSUME NEW n \in DOMAIN q[Main], ErasureAt(q, n, j) PROVE Erasing(r, j)
    <3>1. n # 1
      BY <1>7, <2>1, Zenon DEF ErasureAt
    <3>2. ErasureAt(r, n - 1, j)
      BY <1>6, <2>1, <3>1, Zenon DEF ErasureAt
    <3> QED
      BY <3>2, Zenon DEF Erasing, ErasureAt
  <2> QED
    BY <1>13, <2>1, Zenon DEF Erasing, ErasureAt
<1>18. \A j \in DOMAIN objects : SessionHeld(objects[j], j, m2, c, r)
  <2> TAKE j \in DOMAIN objects
  <2>1. objects[j] \in KSession /\ j # 0 /\ SessionHeld(objects[j], j, m, counts, q)
    BY <1>1 DEF KTypes, Core
  <2>2. objects[j].key \in Key
    BY <2>1, Zenon DEF KSession
  <2>3. CASE j = i
    BY <1>5, <1>8, <1>9, <1>10, <1>16, <2>2, <2>3, Zenon DEF SessionHeld
  <2>4. CASE j # i
    <3>1. m2[objects[j].key] = j <=> m[objects[j].key] = j
      BY <1>9, <2>1, <2>2, <2>4, Zenon
    <3> QED
      BY <1>10, <1>17, <2>1, <2>4, <3>1, Zenon DEF SessionHeld
  <2> QED
    BY <2>3, <2>4, Zenon
<1>19. ConnectingBut(objects, at, r, 0)
  <2>1. ASSUME NEW j \in DOMAIN objects \ {0}, objects[j].state = "Connecting"
        PROVE  \E n \in DOMAIN r[at[objects[j].key]] :
                    EstablishAt(r, at[objects[j].key], n, j)
    <3> DEFINE h == at[objects[j].key]
    <3>1. objects[j] \in KSession
      BY <1>1 DEF KTypes
    <3>2. h \in K!Loop
      BY <1>1, <3>1, Zenon DEF KTypes, KSession
    <3>3. PICK n \in DOMAIN q[h] : EstablishAt(q, h, n, j)
      BY <2>1, Zenon DEF ConnectingBut
    <3> HIDE DEF h
    <3>4. h # Main
      BY <3>2, <3>3, Zenon DEF ConnectingBut, EstablishAt
    <3> QED
      BY <1>6, <3>2, <3>3, <3>4, Zenon DEF h, EstablishAt
  <2>2. ASSUME NEW l \in K!Loop, NEW n \in DOMAIN r[l], r[l][n].op = "establish"
        PROVE  /\ l # Main /\ r[l][n].id # 0
               /\ objects[r[l][n].id].state = "Connecting"
               /\ \A p \in DOMAIN r[l] : p < n => r[l][p].id # r[l][n].id
    <3>1. l # Main
      BY <1>1, <1>6, <2>2, SMTT(30) DEF ConnectingBut
    <3> QED
      BY <1>6, <2>2, <3>1, SMTT(20) DEF ConnectingBut
  <2> QED
    BY <2>1, <2>2, Zenon DEF ConnectingBut
<1> QED
  BY <1>11, <1>12, <1>15, <1>18, <1>19, Zenon DEF Core, m2, c, r, i

\* A session that is not connecting has no functor of connectEstablished().
LEMMA ButSelf ==
    ASSUME NEW at, NEW objects, NEW q, NEW i, ConnectingBut(objects, at, q, 0),
           objects \in Seq(KSession), objects[i].state # "Connecting"
    PROVE  ConnectingBut(objects, at, q, i)
<1>1. \A j \in DOMAIN objects : j # 0
  OBVIOUS
<1> QED
  BY <1>1 DEF ConnectingBut

\* handleRead creates a session and puts it into m_sessions, where no other of its key is.
LEMMA CreateKeeps ==
    ASSUME NEW at, NEW objects, NEW m, NEW counts, NEW q, Core(at, objects, m, counts, q),
           ConnectingBut(objects, at, q, 0), NEW k \in Key, m[k] = 0
    PROVE  LET i == Len(objects) + 1
               new == Append(objects, K!NewSession(k))
               c == Append(counts, 0)
           IN  /\ i \in DOMAIN new /\ new[i] = K!NewSession(k)
               /\ Core(at, new, [m EXCEPT ![k] = i], c, q) /\ ConnectingBut(new, at, q, i)
               /\ \A l \in K!Loop : \A n \in DOMAIN q[l] : q[l][n].id # i
<1> DEFINE i == Len(objects) + 1
           s == K!NewSession(k)
           new == Append(objects, s)
           c == Append(counts, 0)
           m2 == [m EXCEPT ![k] = i]
<1>1. KTypes(at, objects, m, counts, q) /\ objects \in Seq(KSession) /\ counts \in Seq(Nat)
      /\ Len(counts) = Len(objects) /\ m \in [Key -> Nat]
  BY Zenon DEF Core, KTypes
<1>2. /\ s \in KSession /\ s.key = k /\ s.state = "Connecting" /\ s.timer = "none" /\ s.extra = 0
  BY Zenon DEF K!NewSession, KSession
<1> HIDE DEF s
<1>3. /\ new \in Seq(KSession) /\ Len(new) = i /\ i \in Nat /\ i # 0 /\ i \in DOMAIN new
      /\ i \notin DOMAIN objects /\ new[i] = s
      /\ \A j \in DOMAIN objects : j \in DOMAIN new /\ new[j] = objects[j]
      /\ \A j \in DOMAIN new : j # i => j \in DOMAIN objects
  BY <1>1, <1>2
<1>4. c \in Seq(Nat) /\ Len(c) = i /\ c[i] = 0 /\ \A j \in DOMAIN objects : c[j] = counts[j]
  BY <1>1
<1>5. m2 \in [Key -> Nat] /\ m2[k] = i /\ \A k2 \in Key : k2 # k => m2[k2] = m[k2]
  BY <1>1, <1>3, Zenon
<1> HIDE DEF i, new, c, m2
<1>6. KTypes(at, new, m2, c, q)
  BY <1>1, <1>3, <1>4, <1>5, Zenon DEF KTypes
<1>7. \A l \in K!Loop : \A n \in DOMAIN q[l] : q[l][n].id \in DOMAIN objects /\ q[l][n].id # i
  BY <1>3, SMTT(20) DEF Core, Placed
<1>8. Placed(at, new, q)
  BY <1>3, <1>7, SMTT(20) DEF Core, Placed
<1>9. Mapped(m2, new)
  BY <1>2, <1>3, <1>5 DEF Core, Mapped
<1>10. ~Erasing(q, i)
  BY <1>7, Zenon DEF Erasing, ErasureAt, K!Loop
<1>11. \A j \in DOMAIN new : SessionHeld(new[j], j, m2, c, q)
  <2>1. SessionHeld(new[i], i, m2, c, q)
    BY <1>2, <1>3, <1>4, <1>5, <1>10, Zenon DEF SessionHeld
  <2>2. ASSUME NEW j \in DOMAIN objects PROVE SessionHeld(objects[j], j, m2, c, q)
    <3>1. objects[j] \in KSession /\ j # 0 /\ j # i /\ SessionHeld(objects[j], j, m, counts, q)
      BY <1>1, <1>3 DEF Core
    <3>2. objects[j].key \in Key
      BY <3>1, Zenon DEF KSession
    <3>3. m2[objects[j].key] = j <=> m[objects[j].key] = j
      BY <1>5, <3>1, <3>2, Zenon
    <3> QED
      BY <1>4, <3>1, <3>3, Zenon DEF SessionHeld
  <2> QED
    BY <1>3, <2>1, <2>2, Zenon
<1>12. ConnectingBut(new, at, q, i)
  <2>1. ASSUME NEW j \in DOMAIN new \ {i}, new[j].state = "Connecting"
        PROVE  \E n \in DOMAIN q[at[new[j].key]] : EstablishAt(q, at[new[j].key], n, j)
    <3>1. j \in DOMAIN objects \ {0} /\ new[j] = objects[j]
      BY <1>1, <1>3
    <3> QED
      BY <2>1, <3>1, Zenon DEF ConnectingBut
  <2> QED
    BY <1>3, <1>7, <2>1 DEF ConnectingBut
<1>13. OneErasure(q)
  BY Zenon DEF Core
<1> QED
  BY <1>3, <1>6, <1>7, <1>8, <1>9, <1>11, <1>12, <1>13, Zenon DEF Core, new, i, c, m2, s

\* Posting connectEstablished() to the loop of a new session completes the invariant.
LEMMA EstablishKeeps ==
    ASSUME NEW at, NEW objects, NEW m, NEW counts, NEW q, Core(at, objects, m, counts, q),
           NEW i \in DOMAIN objects, ConnectingBut(objects, at, q, i),
           objects[i].state = "Connecting", at[objects[i].key] # Main,
           \A l \in K!Loop : \A n \in DOMAIN q[l] : q[l][n].id # i
    PROVE  LET r == K!Post(q, at[objects[i].key], "establish", i)
           IN  Core(at, objects, m, counts, r) /\ ConnectingBut(objects, at, r, 0)
<1> DEFINE l0 == at[objects[i].key]
           x == [op |-> "establish", id |-> i]
           fs == [op : KOps, id : Nat]
           r == K!Post(q, l0, "establish", i)
<1>1. KTypes(at, objects, m, counts, q) /\ Main \in K!Loop
  BY Zenon DEF Core, K!Loop
<1>2. objects[i] \in KSession /\ i \in Nat /\ i # 0
  BY <1>1 DEF KTypes
<1>3. l0 \in K!Loop /\ l0 # Main
  BY <1>1, <1>2, Zenon DEF KTypes, KSession
<1>4. x \in fs
  BY <1>2, Zenon DEF KOps
<1>5. r = [q EXCEPT ![l0] = Append(@, x)]
  BY Zenon DEF K!Post
<1>6. q \in [K!Loop -> Seq(fs)]
  BY <1>1, Zenon DEF KTypes
<1> HIDE DEF r, x, fs, l0
<1>7. /\ r \in [K!Loop -> Seq(fs)]
      /\ \A l \in K!Loop : Len(r[l]) = IF l = l0 THEN Len(q[l]) + 1 ELSE Len(q[l])
      /\ \A l \in K!Loop : \A n \in DOMAIN q[l] : n \in DOMAIN r[l] /\ r[l][n] = q[l][n]
      /\ \A l \in K!Loop : \A n \in DOMAIN r[l] \ DOMAIN q[l] :
            l = l0 /\ n = Len(q[l]) + 1 /\ r[l][n] = x
  BY <1>3, <1>4, <1>5, <1>6, AppendAt
<1>8. KTypes(at, objects, m, counts, r)
  BY <1>1, <1>7, Zenon DEF KTypes, fs
<1>9. Placed(at, objects, r)
  <2> SUFFICES ASSUME NEW l \in K!Loop, NEW n \in DOMAIN r[l]
               PROVE  /\ r[l][n].id \in DOMAIN objects
                      /\ IF r[l][n].op = "erase" THEN l = Main
                         ELSE l = at[objects[r[l][n].id].key]
    BY Zenon DEF Placed
  <2>1. CASE n \in DOMAIN q[l]
    BY <1>7, <2>1, SMTT(20) DEF Core, Placed
  <2>2. CASE n \notin DOMAIN q[l]
    BY <1>7, <2>2, SMTT(20) DEF l0, x
  <2> QED
    BY <2>1, <2>2, Zenon
<1>10. \A n, j : ErasureAt(r, n, j) <=> ErasureAt(q, n, j)
  BY <1>1, <1>3, <1>7, SMTT(20) DEF ErasureAt
<1>11. OneErasure(r)
  BY <1>10 DEF Core, OneErasure, ErasureAt
<1>12. \A j : Erasing(r, j) <=> Erasing(q, j)
  BY <1>10, Zenon DEF Erasing, ErasureAt
<1>13. \A j \in DOMAIN objects : SessionHeld(objects[j], j, m, counts, r)
  BY <1>12, Zenon DEF Core, SessionHeld
<1>14. ConnectingBut(objects, at, r, 0)
  <2>1. ASSUME NEW j \in DOMAIN objects \ {0}, objects[j].state = "Connecting"
        PROVE  \E n \in DOMAIN r[at[objects[j].key]] :
                    EstablishAt(r, at[objects[j].key], n, j)
    <3> DEFINE h == at[objects[j].key]
    <3>1. objects[j] \in KSession
      BY <1>1 DEF KTypes
    <3>2. h \in K!Loop
      BY <1>1, <3>1, Zenon DEF KTypes, KSession
    <3>3. CASE j = i
      <4> DEFINE last == Len(q[l0]) + 1
      <4>1. r[l0] \in Seq(fs) /\ q[l0] \in Seq(fs) /\ Len(r[l0]) = last
        BY <1>3, <1>6, <1>7, Zenon
      <4>2. last \in DOMAIN r[l0] /\ last \notin DOMAIN q[l0]
        BY <4>1, SMTT(20)
      <4>3. EstablishAt(r, l0, last, i)
        BY <1>3, <1>7, <4>2 DEF EstablishAt, x
      <4> QED
        BY <3>3, <4>3, Zenon DEF EstablishAt, l0
    <3>4. CASE j # i
      <4>1. PICK n \in DOMAIN q[h] : EstablishAt(q, h, n, j)
        BY <2>1, <3>4, Zenon DEF ConnectingBut
      <4> HIDE DEF h
      <4>2. EstablishAt(r, h, n, j)
        BY <1>7, <3>2, <4>1, Zenon DEF EstablishAt
      <4> QED
        BY <4>2, Zenon DEF EstablishAt, h
    <3> QED
      BY <3>3, <3>4, Zenon
  <2>2. ASSUME NEW l \in K!Loop, NEW n \in DOMAIN r[l], r[l][n].op = "establish"
        PROVE  /\ l # Main /\ r[l][n].id # 0
               /\ objects[r[l][n].id].state = "Connecting"
               /\ \A p \in DOMAIN r[l] : p < n => r[l][p].id # r[l][n].id
    <3>0. r[l] \in Seq(fs) /\ q[l] \in Seq(fs)
      BY <1>6, <1>7, Zenon
    <3>1. CASE n \in DOMAIN q[l]
      <4>1. r[l][n] = q[l][n] /\ q[l][n].id \in DOMAIN objects
        BY <1>7, <3>1, Zenon DEF Core, Placed
      <4>2. \A p \in DOMAIN r[l] : p < n => p \in DOMAIN q[l] /\ r[l][p] = q[l][p]
        <5> SUFFICES ASSUME NEW p \in DOMAIN r[l], p < n
                     PROVE  p \in DOMAIN q[l] /\ r[l][p] = q[l][p]
          BY Zenon
        <5>1. p \in DOMAIN q[l]
          BY <3>0, <3>1
        <5> QED
          BY <1>7, <5>1, Zenon
      <4>3. q[l][n].id # 0
        BY <1>1, <4>1, SMTT(30) DEF KTypes
      <4> QED
        BY <2>2, <3>1, <4>1, <4>2, <4>3 DEF ConnectingBut
    <3>2. CASE n \notin DOMAIN q[l]
      <4>1. l = l0 /\ r[l][n] = x /\ n = Len(q[l]) + 1
        BY <1>7, <3>2, Zenon
      <4>2. \A p \in DOMAIN r[l] : p < n => p \in DOMAIN q[l] /\ r[l][p] = q[l][p]
        <5> SUFFICES ASSUME NEW p \in DOMAIN r[l], p < n
                     PROVE  p \in DOMAIN q[l] /\ r[l][p] = q[l][p]
          BY Zenon
        <5>1. p \in DOMAIN q[l]
          BY <3>0, <4>1
        <5> QED
          BY <1>7, <5>1, Zenon
      <4> QED
        BY <1>2, <1>3, <4>1, <4>2 DEF x
    <3> QED
      BY <3>1, <3>2, Zenon
  <2> QED
    BY <2>1, <2>2, Zenon DEF ConnectingBut
<1> QED
  BY <1>8, <1>9, <1>11, <1>13, <1>14, Zenon DEF Core, r, l0

\* Time passes without activity: only the idle mark of a session changes.
LEMMA IdleKeeps ==
    ASSUME KInv, NEW i \in DOMAIN session, K!IdlePasses(i) PROVE KInv'
<1>1. /\ KTypes(loopOf, session, sessions, closes, functors) /\ session \in Seq(KSession)
      /\ session[i] \in KSession
  <2>1. KTypes(loopOf, session, sessions, closes, functors)
    BY Zenon DEF KInv, Core
  <2>2. session \in Seq(KSession)
    BY <2>1, Zenon DEF KTypes
  <2> QED
    BY <2>1, <2>2
<1>2. /\ UNCHANGED <<loopOf, sessions, functors, closes>>
      /\ session' = [session EXCEPT ![i] = [session[i] EXCEPT !.idle = TRUE]]
  BY Zenon DEF K!IdlePasses
<1> DEFINE t == [session[i] EXCEPT !.idle = TRUE]
<1>3. /\ t \in KSession /\ t.key = session[i].key /\ t.state = session[i].state
      /\ t.timer = session[i].timer /\ t.extra = session[i].extra
  BY <1>1, Zenon DEF KSession
<1> HIDE DEF t
<1>4. /\ session' \in Seq(KSession) /\ Len(session') = Len(session)
      /\ DOMAIN session' = DOMAIN session
      /\ session'[i] = t /\ \A j \in DOMAIN session : j # i => session'[j] = session[j]
  BY <1>1, <1>2, <1>3 DEF t
<1>5. \A j \in DOMAIN session :
        /\ session'[j] \in KSession
        /\ session'[j].key = session[j].key /\ session'[j].state = session[j].state
        /\ session'[j].timer = session[j].timer /\ session'[j].extra = session[j].extra
  BY <1>1, <1>3, <1>4
<1>6. KTypes(loopOf, session', sessions, closes, functors)
  BY <1>1, <1>4, Zenon DEF KTypes
<1>7. Placed(loopOf, session', functors) /\ Mapped(sessions, session')
  <2>1. Placed(loopOf, session, functors) /\ Mapped(sessions, session)
    BY Zenon DEF KInv, Core
  <2>2. Placed(loopOf, session', functors)
    BY <1>4, <1>5, <2>1, SMTT(30) DEF Placed
  <2>3. Mapped(sessions, session')
    BY <1>4, <1>5, <2>1, Zenon DEF Mapped
  <2> QED
    BY <2>2, <2>3, Zenon
<1>8. \A j \in DOMAIN session' : SessionHeld(session'[j], j, sessions, closes, functors)
  <2> SUFFICES ASSUME NEW j \in DOMAIN session
               PROVE  SessionHeld(session'[j], j, sessions, closes, functors)
    BY <1>4, Zenon
  <2>1. SessionHeld(session[j], j, sessions, closes, functors)
    BY ZenonT(30) DEF KInv, Core
  <2> QED
    BY <1>5, <2>1, Zenon DEF SessionHeld, Timed
<1>9. ConnectingBut(session', loopOf, functors, 0)
  <2>1. \A l \in K!Loop : \A n \in DOMAIN functors[l] : functors[l][n].id \in DOMAIN session
    BY Zenon DEF KInv, Core, Placed
  <2> QED
    BY <1>4, <1>5, <2>1 DEF KInv, ConnectingBut
<1> QED
  BY <1>2, <1>6, <1>7, <1>8, <1>9, Zenon DEF KInv, Core

\* What KInv says of one session, once connectEstablished() has run and before.
LEMMA HeldTimed ==
    ASSUME KInv, NEW i \in DOMAIN session
    PROVE  /\ session \in Seq(KSession) /\ session[i] \in KSession /\ session[i].key \in Key
           /\ session[i].state # "Connecting" =>
                Timed(session[i], {"armed"}) /\ ConnectingBut(session, loopOf, functors, i)
           /\ session[i].state = "Connecting" =>
                session[i].timer = "none" /\ session[i].extra = 0
<1>1. KTypes(loopOf, session, sessions, closes, functors)
  BY Zenon DEF KInv, Core
<1>2. session \in Seq(KSession) /\ session[i] \in KSession
  BY <1>1 DEF KTypes
<1>3. SessionHeld(session[i], i, sessions, closes, functors)
  BY Zenon DEF KInv, Core
<1>4. session[i].state # "Connecting" => ConnectingBut(session, loopOf, functors, i)
  BY <1>2, ButSelf, Zenon DEF KInv
<1> QED
  BY <1>2, <1>3, <1>4, Zenon DEF SessionHeld, KSession

\* A call from another thread, or a datagram for another loop, keeps KInv.
LEMMA PostedKeeps ==
    ASSUME KInv, NEW i \in DOMAIN session, NEW op \in K!Calls \cup {"input"},
           functors' = K!Post(functors, loopOf[session[i].key], op, i),
           UNCHANGED <<loopOf, session, sessions, closes>>
    PROVE  KInv'
  BY PostKeeps, Zenon DEF KInv

\* connectEstablished() arms the first timer.
LEMMA EstablishTimed ==
    ASSUME NEW s \in KSession, s.state = "Connecting", s.timer = "none", s.extra = 0
    PROVE  /\ From(s, K!ConnectEstablished(s), {"armed"})
           /\ Timed(K!ConnectEstablished(s), {"armed"})
<1> DEFINE u == [s EXCEPT !.state = "Connected"]
<1>1. Timed(u, {"none"}) /\ u.key = s.key
  BY Zenon DEF Timed, KSession
<1>2. From(u, K!ScheduleUpdate(u), {"armed"})
  BY <1>1, ScheduleTimed, Zenon
<1> QED
  BY <1>1, <1>2, Zenon DEF From, K!ConnectEstablished

\* handleRead with the datagram of a known session keeps KInv.
LEMMA ReadKnownKeeps ==
    ASSUME KInv, NEW k \in Key, K!ReadKnown(k), loopOf' = loopOf PROVE KInv'
<1> DEFINE i == sessions[k]
<1>1. i \in DOMAIN session /\ session[i].key = k
  BY Zenon DEF KInv, Core, Mapped, K!ReadKnown
<1>2. CASE loopOf[k] = Main
  <2>1. session[i].state # "Connecting"
    <3>1. i # 0
      BY Zenon DEF K!ReadKnown
    <3>2. \A n \in DOMAIN functors[Main] : functors[Main][n].op # "establish"
      BY Zenon DEF KInv, ConnectingBut, K!Loop
    <3> QED
      BY <1>1, <1>2, <3>1, <3>2 DEF KInv, ConnectingBut, EstablishAt
  <2>2. PICK t \in K!InputPacketInLoop(session[i]) :
            K!SessionStep(session, i, t, sessions, closes, functors)
    BY <1>2, Zenon DEF K!ReadKnown
  <2>3. From(session[i], t, {"armed"}) /\ ConnectingBut(session, loopOf, functors, i)
    BY <1>1, <2>1, <2>2, HeldTimed, InputTimed, Zenon
  <2> QED
    BY <1>1, <2>2, <2>3, StepKeeps, Zenon DEF KInv
<1>3. CASE loopOf[k] # Main
  <2>1. /\ functors' = K!Post(functors, loopOf[session[i].key], "input", i)
        /\ UNCHANGED <<session, sessions, closes>>
    BY <1>1, <1>3, Zenon DEF K!ReadKnown
  <2> QED
    BY <1>1, <2>1, PostedKeeps, Zenon
<1> QED
  BY <1>2, <1>3, Zenon

\* handleRead with the first datagram of a session keeps KInv, whatever the connection
\* callback does.
LEMMA CreateSessionKeeps ==
    ASSUME KInv, NEW k \in Key, K!CreateSession(k), loopOf' = loopOf PROVE KInv'
<1> DEFINE i == Len(session) + 1
           new == K!NewSession(k)
           objects == Append(session, new)
           m == [sessions EXCEPT ![k] = i]
           c == Append(closes, 0)
<1>1. /\ i \in DOMAIN objects /\ objects[i] = new
      /\ Core(loopOf, objects, m, c, functors) /\ ConnectingBut(objects, loopOf, functors, i)
      /\ \A l \in K!Loop : \A n \in DOMAIN functors[l] : functors[l][n].id # i
  <2>1. sessions[k] = 0
    BY Zenon DEF K!CreateSession
  <2> QED
    BY <2>1, CreateKeeps DEF KInv
<1>2. new \in KSession /\ new.state = "Connecting" /\ new.timer = "none" /\ new.extra = 0
      /\ new.key = k
  BY Zenon DEF K!NewSession, KSession
<1>3. CASE loopOf[k] = Main
  <2>1. PICK up \in K!React(K!ConnectEstablished(new)) :
        \E t \in IF up.state = "Disconnected" THEN {up} ELSE K!InputPacketInLoop(up) :
            K!SessionStep(objects, i, t, m, c, functors)
    BY <1>3, Zenon DEF K!CreateSession
  <2>2. PICK t \in IF up.state = "Disconnected" THEN {up} ELSE K!InputPacketInLoop(up) :
            K!SessionStep(objects, i, t, m, c, functors)
    BY <2>1, Zenon
  <2> HIDE DEF new, objects, m, c, i
  <2>3. /\ From(new, K!ConnectEstablished(new), {"armed"})
        /\ Timed(K!ConnectEstablished(new), {"armed"})
    BY <1>2, EstablishTimed, Zenon
  <2>4. From(K!ConnectEstablished(new), up, {"armed"}) /\ Timed(up, {"armed"})
    BY <2>3, ReactTimed, Zenon DEF From
  <2>5. From(up, t, {"armed"})
    BY <2>4, InputTimed, Zenon DEF From
  <2>6. From(objects[i], t, {"armed"})
    BY <1>1, <2>3, <2>4, <2>5, FromTwice, Zenon
  <2> QED
    BY <1>1, <2>2, <2>6, StepKeeps, Zenon DEF KInv
<1>4. CASE loopOf[k] # Main
  <2> DEFINE q == K!Post(functors, loopOf[k], "establish", i)
  <2>1. /\ session' = objects /\ sessions' = m /\ closes' = c
        /\ \E called \in {q} \cup {K!Post(q, loopOf[k], op, i) : op \in K!Calls} :
                functors' = K!Post(called, loopOf[k], "input", i)
    BY <1>4, Zenon DEF K!CreateSession
  <2>2. PICK called \in {q} \cup {K!Post(q, loopOf[k], op, i) : op \in K!Calls} :
                functors' = K!Post(called, loopOf[k], "input", i)
    BY <2>1, Zenon
  <2> HIDE DEF new, objects, m, c, i
  <2>3. /\ Core(loopOf, objects, m, c, q) /\ ConnectingBut(objects, loopOf, q, 0)
    BY <1>1, <1>2, <1>4, EstablishKeeps, Zenon
  <2> HIDE DEF q
  <2>4. Core(loopOf, objects, m, c, called) /\ ConnectingBut(objects, loopOf, called, 0)
    BY <1>1, <1>2, <2>2, <2>3, PostKeeps, Zenon
  <2>5. Core(loopOf, objects, m, c, functors') /\ ConnectingBut(objects, loopOf, functors', 0)
    BY <1>1, <1>2, <2>2, <2>4, PostKeeps, Zenon
  <2> QED
    BY <2>1, <2>5, Zenon DEF KInv
<1> QED
  BY <1>3, <1>4, Zenon

\* Running the next functor of a loop keeps KInv.
LEMMA RunFunctorKeeps ==
    ASSUME KInv, NEW l \in K!Loop, K!RunFunctor(l) PROVE KInv'
<1> DEFINE f == Head(functors[l])
           i == f.id
           s == session[i]
           rest == [functors EXCEPT ![l] = Tail(@)]
<1>1. functors[l] # <<>> /\ loopOf' = loopOf
  BY Zenon DEF K!RunFunctor
<1>2. CASE f.op = "erase"
  <2>1. /\ sessions' = K!Erase(sessions, i) /\ functors' = rest
        /\ closes' = [closes EXCEPT ![i] = @ + 1] /\ session' = session
    BY <1>2, Zenon DEF K!RunFunctor
  <2> QED
    BY <1>1, <1>2, <2>1, EraseKeeps, Zenon DEF KInv
<1>3. CASE f.op # "erase"
  <2>1. /\ i \in DOMAIN session
        /\ Core(loopOf, session, sessions, closes, rest)
        /\ ConnectingBut(session, loopOf, rest, i)
        /\ s.state = "Connecting" <=> f.op = "establish"
    BY <1>1, <1>3, PopKeeps DEF KInv
  <2>2. PICK t : /\ K!SessionStep(session, i, t, sessions, closes, rest)
                 /\ \/ f.op = "establish" /\ t = K!ConnectEstablished(s)
                    \/ f.op = "input" /\ t \in K!InputPacketInLoop(s)
                    \/ f.op = "send" /\ t \in K!React(s)
                    \/ f.op = "shutdown" /\ t = K!ShutdownInLoop(s)
                    \/ f.op = "forceClose" /\ t = K!HandleClose(s)
    <3>1. K!SendInLoop(s) \in K!React(s)
      BY Zenon DEF K!React
    <3> QED
      BY <1>3, <3>1, Zenon DEF K!RunFunctor
  <2> HIDE DEF rest, f, i
  <2>3. s \in KSession
    BY <2>1, HeldTimed, Zenon
  <2>4. From(s, t, {"armed"})
    <3>1. CASE f.op = "establish"
      BY <2>1, <2>2, <2>3, <3>1, HeldTimed, EstablishTimed, Zenon
    <3>2. CASE f.op # "establish"
      <4>1. Timed(s, {"armed"})
        BY <2>1, <3>2, HeldTimed, Zenon
      <4> HIDE DEF s
      <4> QED
        BY <2>2, <3>2, <4>1, InputTimed, ReactTimed, ShutdownTimed, CloseTimed, Zenon
    <3> QED
      BY <3>1, <3>2, Zenon
  <2> QED
    BY <1>1, <2>1, <2>2, <2>4, StepKeeps, Zenon DEF KInv
<1> QED
  BY <1>2, <1>3, Zenon

\* updateInLoop(), when an update timer fires, keeps KInv.
LEMMA FireTimerKeeps ==
    ASSUME KInv, NEW i \in DOMAIN session, K!FireTimer(i) PROVE KInv'
<1> DEFINE s == session[i]
           t == [s EXCEPT !.timer = "fired"]
<1>1. s.state # "Connecting" /\ Timed(s, {"armed"}) /\ s.timer = "armed" /\ s.extra = 0
      /\ ConnectingBut(session, loopOf, functors, i)
  BY HeldTimed DEF K!FireTimer, Timed
<1>2. loopOf' = loopOf /\ \E u \in K!UpdateInLoop(t) :
        K!SessionStep(session, i, u, sessions, closes, functors)
  BY <1>1, Zenon DEF K!FireTimer
<1>3. PICK u \in K!UpdateInLoop(t) : K!SessionStep(session, i, u, sessions, closes, functors)
  BY <1>2, Zenon
<1>4. Timed(t, {"armed", "fired"}) /\ t.state # "Disconnected" /\ t.key = s.key
      /\ s.state # "Disconnected"
  BY <1>1, Zenon DEF Timed, KSession
<1> HIDE DEF t
<1>5. From(t, u, {"armed"})
  BY <1>4, UpdateTimed, Zenon
<1>6. From(s, u, {"armed"})
  BY <1>4, <1>5, Zenon DEF From
<1> QED
  BY <1>1, <1>2, <1>3, <1>6, StepKeeps, Zenon DEF KInv

\* Every step of the server, of its sessions and of their environment keeps KInv.
LEMMA KInvNext ==
    ASSUME KInv, [K!Next]_(K!vars) PROVE KInv'
<1>1. CASE UNCHANGED K!vars
  <2>1. UNCHANGED <<loopOf, session, sessions, closes, functors>>
    BY <1>1, Zenon DEF K!vars
  <2> QED
    BY <2>1, Zenon DEF KInv
<1>2. ASSUME NEW k \in Key, K!HandleRead(k) PROVE KInv'
  <2>1. loopOf' = loopOf /\ (K!ReadKnown(k) \/ K!CreateSession(k))
    BY <1>2, Zenon DEF K!HandleRead
  <2> QED
    BY <2>1, ReadKnownKeeps, CreateSessionKeeps, Zenon
<1>3. ASSUME NEW i \in DOMAIN session, NEW op \in K!Calls, K!Call(i, op) PROVE KInv'
  BY <1>3, PostedKeeps, Zenon DEF K!Call
<1> QED
  BY <1>1, <1>2, <1>3, RunFunctorKeeps, FireTimerKeeps, IdleKeeps, Zenon DEF K!Next

\* SessionsTracked: whatever the loops, the network and the application do, m_sessions and
\* the sessions agree, the close callback runs once, and a live session has one update
\* timer, a closed one none.
THEOREM KcpSessionsTracked == K!Spec => []SessionsTracked
<1>1. KInv => SessionsTracked
  <2> SUFFICES ASSUME KInv, NEW i \in DOMAIN session
               PROVE  LET s == session[i]
                      IN  /\ s.state # "Disconnected" => sessions[s.key] = i /\ closes[i] = 0
                          /\ s.state = "Disconnected" =>
                              \/ sessions[s.key] # i /\ closes[i] = 1
                                    /\ ~K!Pending(Main, "erase", i)
                              \/ sessions[s.key] = i /\ closes[i] = 0
                                    /\ K!Pending(Main, "erase", i)
                          /\ s.state \in {"Connected", "Disconnecting"} =>
                              s.timer = "armed" /\ s.extra = 0
                          /\ s.state = "Disconnected" => s.timer = "none" /\ s.extra = 0
    BY Zenon DEF SessionsTracked, K!SessionsTracked
  <2>1. SessionHeld(session[i], i, sessions, closes, functors)
    BY Zenon DEF KInv, Core
  <2>2. Erasing(functors, i) <=> K!Pending(Main, "erase", i)
    <3>1. functors[Main] \in Seq([op : KOps, id : Nat])
      <4>1. KTypes(loopOf, session, sessions, closes, functors)
        BY Zenon DEF KInv, Core
      <4> QED
        BY <4>1, Zenon DEF KTypes, K!Loop
    <3>2. \A n \in DOMAIN functors[Main] : functors[Main][n] \in [op : KOps, id : Nat]
      <4> DEFINE fs == [op : KOps, id : Nat]
      <4> HIDE DEF fs
      <4>1. functors[Main] \in Seq(fs)
        BY <3>1, Zenon DEF fs
      <4>2. \A n \in DOMAIN functors[Main] : functors[Main][n] \in fs
        BY <4>1
      <4> QED
        BY <4>2, Zenon DEF fs
    <3> DEFINE x == [op |-> "erase", id |-> i]
    <3>3. \A f \in [op : KOps, id : Nat] : f = x <=> f.op = "erase" /\ f.id = i
      OBVIOUS
    <3>4. \A n \in DOMAIN functors[Main] :
            functors[Main][n] = x <=> functors[Main][n].op = "erase" /\ functors[Main][n].id = i
      BY <3>2, <3>3, Zenon
    <3> QED
      BY <3>4, Zenon DEF Erasing, ErasureAt, K!Pending
  <2> QED
    BY <2>1, <2>2, Zenon DEF SessionHeld, Timed
<1> QED
  BY <1>1, KInvInit, KInvNext, PTL DEF K!Spec
==============================================================================
