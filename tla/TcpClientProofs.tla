-------------------------- MODULE TcpClientProofs --------------------------
(***************************************************************************)
(* TcpClient for any number of calls, with and without reconnecting: who   *)
(* owns a socket (Owned), why nothing starts again after stop() (Stopped)  *)
(* and why a wanted connection is never forgotten (Pursued).  Each is an   *)
(* invariant of its own; the second and the third rest on the first.       *)
(***************************************************************************)
EXTENDS TcpClient, FiniteSetTheorems, TLAPS

Client ==
    [started : BOOLEAN, state : {"Disconnected", "Connecting", "Connected"},
     sock : Nat, retryTimer : Nat, requested : BOOLEAN, connection : Nat,
     timers : SUBSET Nat, queue : Seq(Functors), live : SUBSET Nat,
     up : SUBSET Nat, gaveUp : BOOLEAN]

\* Sockets and timers can be numbered.
Good(c) == c \in Client /\ IsFiniteSet(c.live) /\ IsFiniteSet(c.timers)

Runs == {"start", "stop", "restart", "cancel", "destroy", "forceClose"}

\* The arguments for which f is pending in s, and the functors that must not be twice.
Args(s, f) == {s[i].arg : i \in {j \in DOMAIN s : s[j].run = f}}
Once(s) == \A i, j \in DOMAIN s :
              s[i].run \in {"destroy", "restart"} /\ s[i].run = s[j].run /\ s[i].arg = s[j].arg
                  => i = j

\* The attempt, newConnection() (its socket is r), the connection and the pending
\* destructions share the open sockets.  The connector is in state Connected as long as
\* there is a connection and until a pending restart has run, so that neither start nor
\* restart finds an attempt whose socket it would overwrite.
Owned(c, r) ==
    /\ c.live = ({c.sock, r, c.connection} \cup Args(c.queue, "destroy")) \ {0}
    /\ 0 \notin Args(c.queue, "destroy")
    /\ c.sock # 0 <=> c.state = "Connecting"
    /\ c.up = {c.connection} \ {0}
    /\ r # 0 \/ c.connection # 0 => c.state = "Connected"
    /\ r # 0 => c.connection = 0
    /\ {c.sock, r, c.connection} \cap Args(c.queue, "destroy") \subseteq {0}
    /\ Args(c.queue, "restart") # {} => c.state = "Connected" /\ r = 0 /\ c.connection = 0
    /\ Args(c.queue, "restart") \subseteq {0} /\ Once(c.queue)

\* Nothing starts a new attempt, and one under way will be stopped.
Halted(c) ==
    /\ ~c.requested
    /\ c.started => c.state = "Connected" /\ Args(c.queue, "restart") = {}
    /\ c.state = "Connecting" => Args(c.queue, "stop") # {}

\* stop() has halted the connector before it looks for the connection, unless it is
\* asked to connect again; it leaves a connection only with its forceClose pending.
Stopped ==
    /\ quiet \/ (upc = "close" /\ ~cl.requested) => Halted(cl)
    /\ quiet => upc # "connect"
    /\ quiet /\ ~raced =>
        fresh = 0 /\ (cl.connection # 0 => cl.connection \in Args(cl.queue, "forceClose"))

\* As long as nobody stopped the client: it is started once it is asked to connect, and
\* then a connection is there, under way or about to be tried again.
Awaited(c, r) ==
    \/ r # 0 \/ c.connection # 0 \/ Args(c.queue, "restart") # {}
    \/ c.state # "Connected" /\ \/ c.state = "Connecting" \/ c.retryTimer \in c.timers
                                \/ Args(c.queue, "start") # {} \/ c.gaveUp

Unstopped(c) ==
    /\ Args(c.queue, "stop") = {} /\ Args(c.queue, "cancel") = {}
    /\ c.started => c.requested
    /\ ~c.started => c.state = "Disconnected"

Pursued ==
    ~stopped =>
        /\ upc \in {"idle", "connect"}
        /\ Unstopped(cl)
        /\ upc = "connect" => cl.requested
        /\ cl.requested /\ upc # "connect" => cl.started
        /\ Reconnect /\ cl.started => Awaited(cl, fresh)

ClientInv == TypeOK /\ Good(cl) /\ Owned(cl, fresh)

-----------------------------------------------------------------------------
\* There is always a free number for a new socket or timer.
LEMMA UnusedIsFree ==
    ASSUME NEW T, IsFiniteSet(T)
    PROVE  Unused(T) \in Nat \ {0} /\ Unused(T) \notin T
<1>1. PICK n \in Nat : n = Cardinality(T)
  BY FS_CardinalityType, Zenon
<1>2. Cardinality(1..(n + 1)) = n + 1
  BY FS_Interval
<1>3. ~(1..(n + 1) \subseteq T)
  <2>1. SUFFICES ASSUME 1..(n + 1) \subseteq T PROVE FALSE
    BY Zenon
  <2>2. Cardinality(1..(n + 1)) <= Cardinality(T)
    BY <2>1, FS_Subset, Zenon
  <2>3. QED
    BY <1>1, <1>2, <2>2
<1>4. \E m \in 1..(Cardinality(T) + 1) : m \notin T
  BY <1>1, <1>3, Zenon
<1>5. Unused(T) \in 1..(Cardinality(T) + 1) /\ Unused(T) \notin T
  BY <1>4, Zenon DEF Unused
<1>6. QED
  BY <1>1, <1>5

\* What queueInLoop() does to the pending functors.
LEMMA ArgsAppend ==
    ASSUME NEW s \in Seq(Functors), NEW x \in Functors
    PROVE  /\ Append(s, x) \in Seq(Functors)
           /\ \A f : Args(Append(s, x), f) =
                        IF x.run = f THEN Args(s, f) \cup {x.arg} ELSE Args(s, f)
           /\ Once(s) /\ (x.run \in {"destroy", "restart"} => x.arg \notin Args(s, x.run))
                => Once(Append(s, x))
<1>1. PICK a : a = Append(s, x)
  BY Zenon
<1>2. /\ a \in Seq(Functors) /\ DOMAIN s = 1..Len(s) /\ DOMAIN a = 1..(Len(s) + 1)
      /\ Len(s) \in Nat /\ a[Len(s) + 1] = x /\ \A i \in DOMAIN s : a[i] = s[i]
  BY <1>1
<1>3. /\ DOMAIN s \subseteq DOMAIN a /\ Len(s) + 1 \in DOMAIN a
      /\ \A i \in DOMAIN a : i \in DOMAIN s \/ i = Len(s) + 1
  BY <1>2
<1>4. ASSUME NEW f
      PROVE  Args(a, f) = IF x.run = f THEN Args(s, f) \cup {x.arg} ELSE Args(s, f)
  BY ONLY <1>2, <1>3, Zenon DEF Args
<1>5. ASSUME Once(s), x.run \in {"destroy", "restart"} => x.arg \notin Args(s, x.run)
      PROVE  Once(a)
  <2>1. \A i \in DOMAIN s : ~(x.run \in {"destroy", "restart"}
                              /\ s[i].run = x.run /\ s[i].arg = x.arg)
    BY <1>5, Zenon DEF Args
  <2>2. QED
    BY ONLY <1>2, <1>3, <1>5, <2>1, Zenon DEF Once
<1>6. QED
  BY <1>1, <1>2, <1>4, <1>5, Zenon

\* What doPendingFunctors() takes out of them.
LEMMA ArgsTail ==
    ASSUME NEW s \in Seq(Functors), s # <<>>
    PROVE  /\ Tail(s) \in Seq(Functors) /\ Head(s) \in Functors
           /\ \A f : Args(s, f) = IF Head(s).run = f THEN Args(Tail(s), f) \cup {Head(s).arg}
                                                     ELSE Args(Tail(s), f)
           /\ Once(s) => /\ Once(Tail(s))
                         /\ Head(s).run \in {"destroy", "restart"}
                                => Head(s).arg \notin Args(Tail(s), Head(s).run)
<1>1. PICK t, x : t = Tail(s) /\ x = Head(s)
  BY Zenon
<1>2. /\ DOMAIN s = 1..Len(s) /\ DOMAIN t = 1..(Len(s) - 1) /\ Len(s) \in Nat \ {0}
      /\ x = s[1] /\ \A i \in DOMAIN t : t[i] = s[i + 1]
      /\ t \in Seq(Functors) /\ x \in Functors
  BY <1>1
<1>3. \A i \in DOMAIN t : i + 1 \in DOMAIN s /\ i + 1 # 1
  BY <1>2
<1>4. 1 \in DOMAIN s /\ \A i \in DOMAIN s : i = 1 \/ (i - 1 \in DOMAIN t /\ s[i] = t[i - 1])
  <2>1. \A i \in 2..Len(s) : i - 1 \in DOMAIN t /\ (i - 1) + 1 = i
    BY <1>2
  <2>2. QED
    BY <1>2, <2>1
<1>5. ASSUME NEW f
      PROVE  Args(s, f) = IF x.run = f THEN Args(t, f) \cup {x.arg} ELSE Args(t, f)
  <2>1. ASSUME NEW n \in Args(s, f) PROVE n \in Args(t, f) \/ (x.run = f /\ n = x.arg)
    BY ONLY <1>2, <1>4, n \in Args(s, f) DEF Args
  <2>2. ASSUME NEW n \in Args(t, f) PROVE n \in Args(s, f)
    BY ONLY <1>2, <1>3, n \in Args(t, f), Zenon DEF Args
  <2>3. x.run = f => x.arg \in Args(s, f)
    BY ONLY <1>2, <1>4, Zenon DEF Args
  <2>4. QED
    BY ONLY <2>1, <2>2, <2>3, Zenon
<1>6. ASSUME Once(s)
      PROVE  /\ Once(t)
             /\ x.run \in {"destroy", "restart"} => x.arg \notin Args(t, x.run)
  <2>1. \A i, j \in DOMAIN t : i + 1 = j + 1 => i = j
    BY <1>2
  <2>2. Once(t)
    BY ONLY <1>2, <1>3, <1>6, <2>1 DEF Once
  <2>3. x.run \in {"destroy", "restart"} => x.arg \notin Args(t, x.run)
    <3>1. \A i \in DOMAIN t : ~(x.run \in {"destroy", "restart"}
                                /\ t[i].run = x.run /\ t[i].arg = x.arg)
      <4>1. SUFFICES ASSUME NEW i \in DOMAIN t, x.run \in {"destroy", "restart"},
                            t[i].run = x.run, t[i].arg = x.arg
                     PROVE  FALSE
        BY Zenon
      <4>2. PICK j \in DOMAIN s : j = i + 1 /\ j # 1 /\ s[j] = t[i]
        BY <1>2, <1>3, Zenon
      <4>3. 1 \in DOMAIN s /\ x = s[1]
        BY <1>2, <1>4, Zenon
      <4>4. 1 = j
        BY ONLY <1>6, <4>1, <4>2, <4>3, Zenon DEF Once
      <4>5. QED
        BY <4>2, <4>4, Zenon
    <3>2. QED
      BY ONLY <3>1, Zenon DEF Args
  <2>4. QED
    BY <2>2, <2>3, Zenon
<1>7. QED
  BY <1>1, <1>2, <1>5, <1>6, Zenon

\* The ids that are in use are finitely many.
LEMMA NamedTimersFinite ==
    ASSUME NEW c, Good(c)
    PROVE  IsFiniteSet(NamedTimers(c))
<1>1. c.queue \in Seq(Functors) /\ IsFiniteSet(c.timers)
  BY Zenon DEF Good, Client
<1>2. PICK g : g = [i \in DOMAIN c.queue |-> c.queue[i].arg]
  BY Zenon
<1>3. PICK S : S = {c.queue[i].arg : i \in DOMAIN c.queue}
  BY Zenon
<1>4. IsFiniteSet(DOMAIN c.queue)
  <2>1. DOMAIN c.queue = 1..Len(c.queue) /\ Len(c.queue) \in Nat
    BY <1>1
  <2>2. QED
    BY <2>1, FS_Interval
<1>5. g \in Surjection(DOMAIN c.queue, S)
  BY <1>2, <1>3, Zenon DEF Surjection
<1>6. IsFiniteSet(S)
  BY <1>4, <1>5, FS_Surjection, Zenon
<1>7. IsFiniteSet(c.timers \cup {c.retryTimer})
  BY <1>1, FS_AddElement, Zenon
<1>8. NamedTimers(c) = (c.timers \cup {c.retryTimer}) \cup S
  BY <1>3, Zenon DEF NamedTimers
<1>9. QED
  BY <1>6, <1>7, <1>8, FS_Union

-----------------------------------------------------------------------------
\* What the member functions of Connector and TcpClient do to the client.

\* d is c but for the timers and the pending functors.
SameCore(c, d) ==
    /\ d.started = c.started /\ d.state = c.state /\ d.sock = c.sock
    /\ d.requested = c.requested /\ d.connection = c.connection
    /\ d.live = c.live /\ d.up = c.up /\ d.gaveUp = c.gaveUp

\* The functors that do not depend on stop() and cancelTimer() are the same in both.
SameWork(c, d) ==
    /\ \A g \in {"start", "restart", "destroy", "forceClose"} :
            Args(d.queue, g) = Args(c.queue, g)
    /\ Once(c.queue) => Once(d.queue)

\* queueInLoop().
Queues(c, d, f, n) ==
    /\ Good(d) /\ SameCore(c, d) /\ d.timers = c.timers /\ d.retryTimer = c.retryTimer
    /\ \A g : Args(d.queue, g) = IF f = g THEN Args(c.queue, g) \cup {n} ELSE Args(c.queue, g)
    /\ Once(c.queue) /\ (f \in {"destroy", "restart"} => n \notin Args(c.queue, f))
            => Once(d.queue)

\* A queued functor adds its argument and nothing else; destroys and restarts stay
\* unique when the new one was not there.
LEMMA QueueInLoopIs ==
    ASSUME NEW c, Good(c), NEW f \in Runs, NEW n \in Nat
    PROVE  Queues(c, QueueInLoop(c, f, n), f, n)
<1>1. PICK x \in Functors : x = [run |-> f, arg |-> n]
  BY Zenon DEF Functors, Runs
<1>2. x.run = f /\ x.arg = n
  BY <1>1, Zenon
<1>3. PICK q \in Seq(Functors) : q = Append(c.queue, x)
  BY ArgsAppend, Zenon DEF Good, Client
<1>4. /\ \A g : Args(q, g) = IF f = g THEN Args(c.queue, g) \cup {n} ELSE Args(c.queue, g)
      /\ Once(c.queue) /\ (f \in {"destroy", "restart"} => n \notin Args(c.queue, f)) => Once(q)
  <2>1. c.queue \in Seq(Functors)
    BY Zenon DEF Good, Client
  <2>2. /\ \A g : Args(Append(c.queue, x), g) =
                     IF x.run = g THEN Args(c.queue, g) \cup {x.arg} ELSE Args(c.queue, g)
        /\ Once(c.queue) /\ (x.run \in {"destroy", "restart"} => x.arg \notin Args(c.queue, x.run))
              => Once(Append(c.queue, x))
    BY ONLY <2>1, x \in Functors, ArgsAppend, Zenon
  <2>3. QED
    BY ONLY <1>2, <1>3, <2>2, Zenon
<1>5. PICK d : d = [c EXCEPT !.queue = q]
  BY Zenon
<1>6. d = QueueInLoop(c, f, n)
  BY <1>1, <1>3, <1>5, Zenon DEF QueueInLoop, Good, Client
<1>7. /\ d \in Client /\ SameCore(c, d) /\ d.timers = c.timers /\ d.retryTimer = c.retryTimer
      /\ d.queue = q
  BY <1>5, Zenon DEF SameCore, Good, Client
<1>8. Good(d)
  BY <1>7, Zenon DEF Good, SameCore
<1>9. QED
  BY <1>4, <1>6, <1>7, <1>8, Zenon DEF Queues

\* Connector::cancelRetry().
LEMMA CancelRetryIs ==
    ASSUME NEW c, Good(c), NEW inLoop \in BOOLEAN
    PROVE  /\ Good(CancelRetry(c, inLoop)) /\ SameCore(c, CancelRetry(c, inLoop))
           /\ SameWork(c, CancelRetry(c, inLoop))
           /\ Args(CancelRetry(c, inLoop).queue, "stop") = Args(c.queue, "stop")
           /\ inLoop => CancelRetry(c, inLoop).queue = c.queue
<1>1. CASE c.retryTimer = 0
  BY <1>1, Zenon DEF CancelRetry, SameCore, SameWork
<1>2. CASE c.retryTimer # 0 /\ inLoop
  <2>1. PICK d : d = [c EXCEPT !.timers = @ \ {c.retryTimer}, !.retryTimer = 0]
    BY Zenon
  <2>2. d = CancelRetry(c, inLoop)
    BY <1>2, <2>1, Zenon DEF CancelRetry, CancelTimer, Good, Client
  <2>3. d \in Client /\ SameCore(c, d) /\ d.queue = c.queue /\ d.timers = c.timers \ {c.retryTimer}
    BY <2>1, Zenon DEF Good, Client, SameCore
  <2>4. IsFiniteSet(d.timers)
    <3>1. IsFiniteSet(c.timers)
      BY Zenon DEF Good
    <3>2. IsFiniteSet(c.timers \ {c.retryTimer})
      BY <3>1, FS_RemoveElement, Zenon
    <3>3. QED
      BY <2>3, <3>2, Zenon
  <2>5. QED
    BY <2>2, <2>3, <2>4, Zenon DEF Good, SameCore, SameWork
<1>3. CASE c.retryTimer # 0 /\ ~inLoop
  <2>1. PICK e : e = QueueInLoop(c, "cancel", c.retryTimer)
    BY Zenon
  <2>2. "cancel" \in Runs /\ c.retryTimer \in Nat
    BY Zenon DEF Good, Client, Runs
  <2>3. /\ Good(e) /\ SameCore(c, e)
        /\ \A g : Args(e.queue, g) = IF "cancel" = g THEN Args(c.queue, g) \cup {c.retryTimer}
                                                     ELSE Args(c.queue, g)
        /\ Once(c.queue) => Once(e.queue)
    <3>1. Queues(c, e, "cancel", c.retryTimer)
      BY <2>1, <2>2, QueueInLoopIs, Zenon
    <3>2. QED
      BY <3>1, Zenon DEF Queues
  <2>4. PICK d : d = [e EXCEPT !.retryTimer = 0]
    BY Zenon
  <2>5. d = CancelRetry(c, inLoop)
    BY <1>3, <2>1, <2>4, Zenon DEF CancelRetry, CancelTimer
  <2>6. d \in Client /\ SameCore(e, d) /\ d.queue = e.queue /\ d.timers = e.timers
    BY <2>3, <2>4, Zenon DEF Good, Client, SameCore
  <2>7. Good(d) /\ SameCore(c, d)
    BY <2>3, <2>6, Zenon DEF Good, SameCore
  <2>8. SameWork(c, d) /\ Args(d.queue, "stop") = Args(c.queue, "stop")
    BY <2>3, <2>6, Zenon DEF SameWork
  <2>9. QED
    BY <1>3, <2>5, <2>7, <2>8, Zenon
<1>4. QED
  BY <1>1, <1>2, <1>3, Zenon

\* Connector::retry() leaves a timer armed if the connector is started.
LEMMA RetryIs ==
    ASSUME NEW c, Good(c)
    PROVE  /\ Good(Retry(c)) /\ SameCore([c EXCEPT !.state = "Disconnected"], Retry(c))
           /\ Retry(c).queue = c.queue
           /\ c.started => Retry(c).retryTimer \in Retry(c).timers
<1>1. PICK d : d = [c EXCEPT !.state = "Disconnected"]
  BY Zenon
<1>2. d \in Client /\ Good(d) /\ d.queue = c.queue /\ d.started = c.started
  BY <1>1, Zenon DEF Good, Client
<1>3. CASE ~c.started
  BY <1>1, <1>2, <1>3, Zenon DEF Retry, SameCore
<1>4. CASE c.started
  <2>1. PICK e : e = CancelRetry(d, TRUE)
    BY Zenon
  <2>2. Good(e) /\ SameCore(d, e) /\ e.queue = d.queue
    BY <1>2, <2>1, CancelRetryIs, Zenon
  <2>3. PICK id \in Nat : id = NewTimer(e)
    BY <2>2, NamedTimersFinite, UnusedIsFree, Zenon DEF NewTimer
  <2>4. PICK h : h = [e EXCEPT !.retryTimer = id, !.timers = @ \cup {id}]
    BY Zenon
  <2>5. h = Retry(c)
    BY <1>1, <1>4, <2>1, <2>3, <2>4, Zenon DEF Retry
  <2>6. /\ h \in Client /\ SameCore(e, h) /\ h.queue = e.queue /\ h.timers = e.timers \cup {id}
        /\ h.retryTimer = id
    BY <2>2, <2>4, Zenon DEF Good, Client, SameCore
  <2>7. IsFiniteSet(h.timers)
    <3>1. IsFiniteSet(e.timers)
      BY <2>2, Zenon DEF Good
    <3>2. IsFiniteSet(e.timers \cup {id})
      BY <3>1, FS_AddElement, Zenon
    <3>3. QED
      BY <2>6, <3>2, Zenon
  <2>8. Good(h) /\ SameCore(d, h)
    BY <2>2, <2>6, <2>7, Zenon DEF Good, SameCore
  <2>9. QED
    BY <1>1, <1>2, <2>2, <2>5, <2>6, <2>8, Zenon
<1>5. QED
  BY <1>3, <1>4, Zenon

\* Connector::stop().
LEMMA StopIs ==
    ASSUME NEW c, Good(c), NEW inLoop \in BOOLEAN
    PROVE  /\ Good(Stop(c, inLoop)) /\ SameCore([c EXCEPT !.started = FALSE], Stop(c, inLoop))
           /\ SameWork(c, Stop(c, inLoop))
           /\ Args(Stop(c, inLoop).queue, "stop") # {}
<1>1. PICK d : d = [c EXCEPT !.started = FALSE]
  BY Zenon
<1>2. Good(d) /\ d.queue = c.queue
  BY <1>1, Zenon DEF Good, Client
<1>3. PICK e : e = CancelRetry(d, inLoop)
  BY Zenon
<1>4. Good(e) /\ SameCore(d, e) /\ SameWork(d, e)
  BY <1>2, <1>3, CancelRetryIs, Zenon
<1>5. PICK h : h = QueueInLoop(e, "stop", 0)
  BY Zenon
<1>6. h = Stop(c, inLoop)
  BY <1>1, <1>3, <1>5, Zenon DEF Stop
<1>7. "stop" \in Runs
  BY Zenon DEF Runs
<1>8. /\ Good(h) /\ SameCore(e, h)
      /\ \A g : Args(h.queue, g) = IF "stop" = g THEN Args(e.queue, g) \cup {0}
                                                 ELSE Args(e.queue, g)
      /\ Once(e.queue) => Once(h.queue)
  <2>1. Queues(e, h, "stop", 0)
    BY <1>4, <1>5, <1>7, QueueInLoopIs, Zenon
  <2>2. QED
    BY <2>1, Zenon DEF Queues
<1>9. SameCore(d, h)
  BY <1>4, <1>8, Zenon DEF SameCore
<1>10. SameWork(c, h) /\ Args(h.queue, "stop") # {}
  BY <1>2, <1>4, <1>8, Zenon DEF SameWork
<1>11. QED
  BY <1>1, <1>6, <1>8, <1>9, <1>10, Zenon

\* Connector::restart(), when no other restart is pending.
LEMMA RestartIs ==
    ASSUME NEW c, Good(c), Args(c.queue, "restart") = {}
    PROVE  /\ Good(Restart(c)) /\ SameCore([c EXCEPT !.started = TRUE], Restart(c))
           /\ \A g : Args(Restart(c).queue, g) = IF "restart" = g THEN {0} ELSE Args(c.queue, g)
           /\ Once(c.queue) => Once(Restart(c).queue)
<1>1. PICK e : e = CancelRetry(c, TRUE)
  BY Zenon
<1>2. Good(e) /\ SameCore(c, e) /\ e.queue = c.queue
  BY <1>1, CancelRetryIs, Zenon
<1>3. PICK d : d = [e EXCEPT !.started = TRUE]
  BY Zenon
<1>4. Good(d) /\ SameCore([c EXCEPT !.started = TRUE], d) /\ d.queue = c.queue
  BY <1>2, <1>3, Zenon DEF Good, Client, SameCore
<1>5. PICK h : h = QueueInLoop(d, "restart", 0)
  BY Zenon
<1>6. h = Restart(c)
  BY <1>1, <1>3, <1>5, Zenon DEF Restart
<1>7. "restart" \in Runs
  BY Zenon DEF Runs
<1>8. /\ Good(h) /\ SameCore(d, h)
      /\ \A g : Args(h.queue, g) = IF "restart" = g THEN Args(d.queue, g) \cup {0}
                                                    ELSE Args(d.queue, g)
      /\ Once(d.queue) /\ 0 \notin Args(d.queue, "restart") => Once(h.queue)
  <2>1. Queues(d, h, "restart", 0)
    BY <1>4, <1>5, <1>7, QueueInLoopIs, Zenon
  <2>2. QED
    BY <2>1, Zenon DEF Queues
<1>9. SameCore([c EXCEPT !.started = TRUE], h)
  BY <1>4, <1>8, Zenon DEF SameCore
<1>10. QED
  BY <1>4, <1>6, <1>8, <1>9, Zenon

\* handleClose() of the connection, with removeConnection(): the connection is waiting to
\* be destroyed, and a restart is pending if the client reconnects and is asked to.
Closed(c, d) ==
    /\ Good(d) /\ d.connection = 0 /\ d.up = {} /\ d.live = c.live
    /\ d.state = c.state /\ d.sock = c.sock /\ d.requested = c.requested /\ d.gaveUp = c.gaveUp
    /\ d.started = (c.started \/ (Reconnect /\ c.requested))
    /\ Args(d.queue, "destroy") = Args(c.queue, "destroy") \cup {c.connection}
    /\ Args(d.queue, "restart") = IF Reconnect /\ c.requested THEN {0} ELSE {}
    /\ \A g \in {"start", "stop", "cancel", "forceClose"} : Args(d.queue, g) = Args(c.queue, g)
    /\ Once(d.queue)

\* handleClose() of a connection that is up closes the client's only one; of any other
\* it does nothing.
LEMMA HandleCloseIs ==
    ASSUME NEW c, Good(c), NEW r, Owned(c, r), NEW s
    PROVE  /\ s \notin c.up => HandleClose(c, s) = c
           /\ s \in c.up => s = c.connection /\ Closed(c, HandleClose(c, s))
<1>1. s \notin c.up => HandleClose(c, s) = c
  BY Zenon DEF HandleClose
<1>2. ASSUME s \in c.up PROVE s = c.connection /\ Closed(c, HandleClose(c, s))
  <2>1. /\ s = c.connection /\ s # 0 /\ s \in Nat /\ Args(c.queue, "restart") = {}
        /\ s \notin Args(c.queue, "destroy") /\ Once(c.queue) /\ c.up = {s}
    BY <1>2 DEF Owned, Good, Client
  <2>2. PICK d : d = [c EXCEPT !.up = {}, !.connection = 0]
    BY Zenon
  <2>3. /\ Good(d) /\ d.queue = c.queue /\ d.connection = 0 /\ d.up = {} /\ d.live = c.live
        /\ d.state = c.state /\ d.sock = c.sock /\ d.requested = c.requested
        /\ d.gaveUp = c.gaveUp /\ d.started = c.started
    BY <2>2, Zenon DEF Good, Client
  <2>4. PICK e : e = QueueInLoop(d, "destroy", s)
    BY Zenon
  <2>5. "destroy" \in Runs /\ s \in Nat
    BY <2>1, Zenon DEF Runs
  <2>6. /\ Good(e) /\ SameCore(d, e)
        /\ \A g : Args(e.queue, g) = IF "destroy" = g THEN Args(d.queue, g) \cup {s}
                                                      ELSE Args(d.queue, g)
        /\ Once(d.queue) /\ s \notin Args(d.queue, "destroy") => Once(e.queue)
    <3>1. Queues(d, e, "destroy", s)
      BY <2>3, <2>4, <2>5, QueueInLoopIs, Zenon
    <3>2. QED
      BY <3>1, Zenon DEF Queues
  <2>7. /\ Args(e.queue, "restart") = {} /\ Once(e.queue)
        /\ Args(e.queue, "destroy") = Args(c.queue, "destroy") \cup {s}
        /\ \A g \in {"start", "stop", "cancel", "forceClose"} :
                Args(e.queue, g) = Args(c.queue, g)
    BY <2>1, <2>3, <2>6, Zenon
  <2>8. PICK h : h = IF Reconnect /\ c.requested THEN Restart(e) ELSE e
    BY Zenon
  <2>9. h = HandleClose(c, s)
    <3>1. d = [[c EXCEPT !.up = @ \ {s}] EXCEPT !.connection = IF @ = s THEN 0 ELSE @]
      BY <2>1, <2>2 DEF Good, Client
    <3>2. [c EXCEPT !.up = @ \ {s}].requested = c.requested
      BY Zenon DEF Good, Client
    <3>3. QED
      BY <1>2, <2>4, <2>8, <3>1, <3>2 DEF HandleClose, RemoveConnection
  <2>10. CASE Reconnect /\ c.requested
    <3>1. /\ Good(h) /\ SameCore([e EXCEPT !.started = TRUE], h)
          /\ \A g : Args(h.queue, g) = IF "restart" = g THEN {0} ELSE Args(e.queue, g)
          /\ Once(h.queue)
      BY <2>6, <2>7, <2>8, <2>10, RestartIs, Zenon
    <3>2. h.started = TRUE /\ h.connection = e.connection /\ h.up = e.up /\ h.live = e.live
          /\ h.state = e.state /\ h.sock = e.sock /\ h.requested = e.requested
          /\ h.gaveUp = e.gaveUp
      BY <2>6, <3>1, Zenon DEF SameCore, Good, Client
    <3>3. Closed(c, h)
      <4>1. /\ h.connection = 0 /\ h.up = {} /\ h.live = c.live /\ h.state = c.state
            /\ h.sock = c.sock /\ h.requested = c.requested /\ h.gaveUp = c.gaveUp
        BY <2>3, <2>6, <3>2, Zenon DEF SameCore
      <4>2. /\ Args(h.queue, "restart") = {0} /\ Once(h.queue) /\ s = c.connection
            /\ Args(h.queue, "destroy") = Args(c.queue, "destroy") \cup {s}
            /\ \A g \in {"start", "stop", "cancel", "forceClose"} :
                    Args(h.queue, g) = Args(c.queue, g)
        BY <2>1, <2>7, <3>1, Zenon
      <4>3. QED
        BY <2>10, <3>1, <3>2, <4>1, <4>2, Zenon DEF Closed
    <3>4. QED
      BY <2>1, <2>9, <3>3, Zenon
  <2>11. CASE ~(Reconnect /\ c.requested)
    <3>1. Closed(c, h)
      BY <2>1, <2>3, <2>6, <2>7, <2>8, <2>11 DEF Closed, SameCore, Good, Client
    <3>2. QED
      BY <2>1, <2>9, <3>1, Zenon
  <2>12. QED
    BY <2>10, <2>11, Zenon
<1>3. QED
  BY <1>1, <1>2, Zenon

\* A close passes the socket on.
LEMMA ClosedOwned ==
    ASSUME NEW c, Good(c), NEW r, Owned(c, r), c.connection # 0, NEW d, Closed(c, d)
    PROVE  Owned(d, r)
<1>1. /\ r = 0 /\ c.sock = 0 /\ c.state = "Connected" /\ d.sock = 0 /\ d.connection = 0
      /\ c.live = ({0, c.connection} \cup Args(c.queue, "destroy")) \ {0}
      /\ 0 \notin Args(c.queue, "destroy")
  BY DEF Owned, Closed
<1>2. QED
  BY <1>1 DEF Owned, Closed

\* Who owns what does not depend on the timers, nor on what was asked for.
LEMMA SameOwned ==
    ASSUME NEW c, NEW d, NEW r, Owned(c, r), d.state = c.state, d.sock = c.sock,
           d.connection = c.connection, d.live = c.live, d.up = c.up,
           Args(d.queue, "destroy") = Args(c.queue, "destroy"),
           Args(d.queue, "restart") = Args(c.queue, "restart"),
           Once(c.queue) => Once(d.queue)
    PROVE  Owned(d, r)
BY Zenon DEF Owned

\* Connector::startInLoop() with connect(): an attempt, a retry timer, or an error that
\* is not retried.
Tried(c, d) ==
    /\ Good(d) /\ d.queue = c.queue /\ d.started = c.started /\ d.requested = c.requested
    /\ d.connection = c.connection /\ d.up = c.up
    /\ IF c.started /\ c.state = "Disconnected"
       THEN \/ d.state = "Connecting"
            \/ d.state = "Disconnected" /\ (d.retryTimer \in d.timers \/ d.gaveUp)
       ELSE d = c

\* startInLoop() keeps every socket owned, whatever connect() answers.
LEMMA StartInLoopIs ==
    ASSUME NEW c, Good(c), Owned(c, 0), NEW d \in StartInLoop(c)
    PROVE  Tried(c, d) /\ Owned(d, 0)
<1>1. CASE ~(c.started /\ c.state = "Disconnected")
  BY <1>1, Zenon DEF StartInLoop, Tried
<1>2. CASE c.started /\ c.state = "Disconnected"
  <2>1. PICK e : e = [c EXCEPT !.gaveUp = FALSE]
    BY Zenon
  <2>2. /\ Good(e) /\ e.queue = c.queue /\ e.started = c.started /\ e.requested = c.requested
        /\ e.connection = c.connection /\ e.up = c.up /\ e.live = c.live /\ e.sock = c.sock
        /\ e.state = c.state
    BY <2>1, Zenon DEF Good, Client
  <2>3. d \in {Connecting(e), Retry(e), [c EXCEPT !.gaveUp = TRUE]}
    BY <1>2, <2>1, Zenon DEF StartInLoop, Connect
  <2>4. CASE d = [c EXCEPT !.gaveUp = TRUE]
    <3>1. /\ Good(d) /\ d.queue = c.queue /\ d.started = c.started /\ d.requested = c.requested
          /\ d.connection = c.connection /\ d.up = c.up /\ d.live = c.live /\ d.sock = c.sock
          /\ d.state = c.state /\ d.gaveUp
      BY <2>4, Zenon DEF Good, Client
    <3>2. QED
      BY <1>2, <3>1, SameOwned, Zenon DEF Tried
  <2>5. CASE d = Retry(e)
    <3>1. /\ Good(d) /\ d.queue = e.queue /\ d.retryTimer \in d.timers
          /\ SameCore([e EXCEPT !.state = "Disconnected"], d)
      BY <1>2, <2>2, <2>5, RetryIs, Zenon
    <3>2. /\ d.started = c.started /\ d.requested = c.requested /\ d.connection = c.connection
          /\ d.up = c.up /\ d.live = c.live /\ d.sock = c.sock /\ d.state = "Disconnected"
      BY <2>2, <3>1 DEF SameCore, Good, Client
    <3>3. QED
      BY <1>2, <2>2, <3>1, <3>2, SameOwned, Zenon DEF Tried
  <2>6. CASE d = Connecting(e)
    <3>1. PICK s \in Nat \ {0} : s = NewSocket(e) /\ s \notin c.live
      BY <2>2, UnusedIsFree, Zenon DEF NewSocket, Good
    <3>2. d = [e EXCEPT !.state = "Connecting", !.sock = s, !.live = @ \cup {s}]
      BY <2>6, <3>1, Zenon DEF Connecting
    <3>3. /\ d \in Client /\ d.queue = c.queue /\ d.started = c.started
          /\ d.requested = c.requested /\ d.connection = c.connection /\ d.up = c.up
          /\ d.live = c.live \cup {s} /\ d.sock = s /\ d.state = "Connecting"
          /\ d.timers = e.timers
      BY <2>2, <3>1, <3>2 DEF Good, Client
    <3>4. Good(d)
      BY <2>2, <3>3, FS_AddElement DEF Good
    <3>5. Owned(d, 0)
      <4>1. /\ c.sock = 0 /\ c.connection = 0 /\ Args(c.queue, "restart") = {}
            /\ c.live = Args(c.queue, "destroy") \ {0} /\ 0 \notin Args(c.queue, "destroy")
            /\ c.up = {} /\ Once(c.queue)
        BY <1>2, Zenon DEF Owned
      <4>2. QED
        BY <3>1, <3>3, <4>1 DEF Owned
    <3>6. QED
      BY <1>2, <3>3, <3>4, <3>5, Zenon DEF Tried
  <2>7. QED
    BY <2>3, <2>4, <2>5, <2>6, Zenon
<1>3. QED
  BY <1>1, <1>2, Zenon

\* Giving up the attempt and closing its socket.
LEMMA DropSocketIs ==
    ASSUME NEW c, Good(c), NEW r, Owned(c, r), NEW d \in Client,
           d.live = c.live \ {c.sock}, d.sock = 0, c.sock = 0 => d.state = c.state,
           d.state # "Connecting", d.connection = c.connection, d.up = c.up, d.queue = c.queue,
           d.timers = c.timers
    PROVE  Good(d) /\ Owned(d, r)
<1>1. Good(d)
  BY FS_RemoveElement DEF Good
<1>2. CASE c.sock = 0
  <2>1. d.state = c.state /\ 0 \notin c.live /\ d.live = c.live
    BY <1>2, Zenon DEF Owned
  <2>2. QED
    BY <1>1, <1>2, <2>1, Zenon DEF Owned
<1>3. CASE c.sock # 0
  <2>1. /\ c.state = "Connecting" /\ r = 0 /\ c.connection = 0
        /\ Args(c.queue, "restart") = {} /\ c.sock \notin Args(c.queue, "destroy")
        /\ c.live = ({c.sock, 0} \cup Args(c.queue, "destroy")) \ {0}
        /\ 0 \notin Args(c.queue, "destroy") /\ Once(c.queue) /\ c.up = {}
    BY <1>3 DEF Owned
  <2>2. QED
    BY <1>1, <2>1 DEF Owned
<1>4. QED
  BY <1>2, <1>3, Zenon

\* Connector::stopInLoop().
LEMMA StopInLoopIs ==
    ASSUME NEW c, Good(c), NEW r, Owned(c, r)
    PROVE  /\ Good(StopInLoop(c)) /\ Owned(StopInLoop(c), r) /\ StopInLoop(c).queue = c.queue
           /\ ~StopInLoop(c).started /\ StopInLoop(c).state # "Connecting"
           /\ StopInLoop(c).requested = c.requested /\ StopInLoop(c).connection = c.connection
<1>1. PICK d : d = [c EXCEPT !.started = FALSE,
                             !.state = IF @ = "Connecting" THEN "Disconnected" ELSE @,
                             !.live = @ \ {c.sock}, !.sock = 0]
  BY Zenon
<1>2. /\ d \in Client /\ ~d.started /\ d.live = c.live \ {c.sock} /\ d.sock = 0
      /\ d.state = (IF c.state = "Connecting" THEN "Disconnected" ELSE c.state)
      /\ d.connection = c.connection /\ d.up = c.up /\ d.queue = c.queue /\ d.timers = c.timers
      /\ d.requested = c.requested
  BY <1>1, Zenon DEF Good, Client
<1>3. d = StopInLoop(c)
  <2>1. c.sock = 0 => c.live \ {c.sock} = c.live
    BY Zenon DEF Owned
  <2>2. QED
    BY <1>1, <2>1, Zenon DEF StopInLoop, DropSocket, Good, Client
<1>4. c.sock = 0 => d.state = c.state
  BY <1>2, Zenon DEF Owned
<1>5. d.state # "Connecting"
  BY <1>2, Zenon
<1>6. Good(d) /\ Owned(d, r)
  BY <1>2, <1>4, <1>5, DropSocketIs, Zenon
<1>7. QED
  BY <1>2, <1>3, <1>5, <1>6, Zenon

\* Trying again does not end the rest after stop() ...
LEMMA TriedHalted ==
    ASSUME NEW c, NEW d, Halted(c), Tried(c, d)
    PROVE  Halted(d) /\ d = c
BY Zenon DEF Halted, Tried

\* ... and gets a client that was not stopped a step further.
LEMMA TriedAwaited ==
    ASSUME NEW c, NEW d, Tried(c, d), Unstopped(c),
           c.state = "Connected" => c.connection # 0 \/ Args(c.queue, "restart") # {}
    PROVE  Unstopped(d) /\ (c.started => Awaited(d, 0))
<1>1. CASE c.started /\ c.state = "Disconnected"
  BY <1>1, Zenon DEF Tried, Unstopped, Awaited
<1>2. CASE ~(c.started /\ c.state = "Disconnected")
  <2>1. d = c
    BY <1>2, Zenon DEF Tried
  <2>2. c.started => c.state \in {"Connecting", "Connected"}
    BY <1>2, <2>1, Zenon DEF Tried, Good, Client
  <2>3. QED
    BY <2>1, <2>2, Zenon DEF Awaited
<1>3. QED
  BY <1>1, <1>2, Zenon

\* The same for a close.
LEMMA ClosedHalted ==
    ASSUME NEW c, NEW d, Halted(c), Closed(c, d)
    PROVE  Halted(d)
BY Zenon DEF Halted, Closed

\* A close of a connection that is still wanted leaves a restart pending.
LEMMA ClosedAwaited ==
    ASSUME NEW c, NEW d, Good(c), Closed(c, d), Unstopped(c), c.state = "Connected"
    PROVE  /\ Unstopped(d) /\ d.started = c.started /\ c.started
           /\ Reconnect => Awaited(d, 0)
<1>1. c.started \in BOOLEAN /\ c.requested \in BOOLEAN /\ d.started \in BOOLEAN
  BY Zenon DEF Good, Client, Closed
<1>2. c.started /\ c.requested
  BY Zenon DEF Unstopped
<1>3. d.started /\ d.requested
  BY <1>1, <1>2, Zenon DEF Closed
<1>4. Unstopped(d)
  BY <1>3, Zenon DEF Unstopped, Closed
<1>5. Reconnect => Awaited(d, 0)
  BY <1>2, Zenon DEF Closed, Awaited
<1>6. QED
  BY <1>1, <1>2, <1>3, <1>4, <1>5, Zenon

-----------------------------------------------------------------------------
\* The steps.

AllInv == ClientInv /\ Stopped /\ Pursued

\* Only the client changes, in a callback of the loop.
LoopStep == fresh = 0 /\ UNCHANGED <<fresh, upc, calls, stopped, quiet, raced>>

\* What such a step has to show.
LEMMA LoopStepKeeps ==
    ASSUME AllInv, LoopStep, Good(cl'), Owned(cl', 0),
           cl'.requested = cl.requested,
           Halted(cl) => Halted(cl'),
           cl'.connection # 0 /\ cl'.connection \in Args(cl.queue, "forceClose")
              => cl'.connection \in Args(cl'.queue, "forceClose"),
           cl'.connection \in {0, cl.connection},
           ~stopped => /\ Unstopped(cl') /\ (cl.started => cl'.started)
                       /\ Reconnect /\ cl'.started => Awaited(cl', 0)
    PROVE  AllInv'
<1>1. ClientInv'
  BY Zenon DEF AllInv, ClientInv, TypeOK, LoopStep, Good, Client
<1>2. Stopped'
  BY Zenon DEF AllInv, Stopped, LoopStep
<1>3. Pursued'
  BY Zenon DEF AllInv, Pursued, LoopStep
<1>4. QED
  BY <1>1, <1>2, <1>3, Zenon DEF AllInv

\* A callback that comes to startInLoop(), from the client e.
LEMMA StartStep ==
    ASSUME AllInv, LoopStep, NEW e, Good(e), Owned(e, 0), cl' \in StartInLoop(e),
           e.requested = cl.requested, e.started = cl.started, e.connection = cl.connection,
           Halted(cl) => Halted(e),
           Args(e.queue, "forceClose") = Args(cl.queue, "forceClose"),
           ~stopped => Unstopped(e),
           Reconnect /\ ~stopped /\ e.started /\ e.state = "Connected"
              => e.connection # 0 \/ Args(e.queue, "restart") # {}
    PROVE  AllInv'
<1>1. PICK d : d = cl'
  BY Zenon
<1>2. Tried(e, d) /\ Owned(d, 0)
  BY <1>1, StartInLoopIs, Zenon
<1>3. /\ Good(d) /\ d.requested = cl.requested /\ d.started = cl.started
      /\ d.connection = cl.connection /\ d.queue = e.queue
  BY <1>2, Zenon DEF Tried
<1>4. Halted(cl) => Halted(d)
  BY <1>2, TriedHalted, Zenon
<1>5. ASSUME ~stopped PROVE Unstopped(d) /\ (Reconnect /\ d.started => Awaited(d, 0))
  <2>1. Unstopped(e)
    BY <1>5, Zenon
  <2>2. Unstopped(d)
    BY <1>2, <2>1, Zenon DEF Tried, Unstopped
  <2>3. Reconnect /\ d.started => Awaited(d, 0)
    BY <1>2, <1>3, <1>5, <2>1, TriedAwaited, Zenon
  <2>4. QED
    BY <2>2, <2>3, Zenon
<1>6. QED
  BY <1>1, <1>2, <1>3, <1>4, <1>5, LoopStepKeeps, Zenon

\* doPendingFunctors(), one functor.
LEMMA FunctorStep ==
    ASSUME AllInv, DoPendingFunctor
    PROVE  AllInv'
<1>1. PICK x, e : x = Head(cl.queue) /\ e = [cl EXCEPT !.queue = Tail(@)]
  BY Zenon
<1>2. cl.queue # <<>> /\ cl' \in RunFunctor(e, x) /\ LoopStep
  BY <1>1, Zenon DEF DoPendingFunctor, LoopStep
<1>3. /\ Good(cl) /\ cl \in Client /\ cl.queue \in Seq(Functors) /\ Owned(cl, 0)
      /\ fresh = 0 /\ fresh' = 0
  BY <1>2, Zenon DEF AllInv, ClientInv, Good, Client, LoopStep
<1>4. /\ Tail(cl.queue) \in Seq(Functors) /\ x \in Functors
      /\ \A f : Args(cl.queue, f) = IF x.run = f THEN Args(Tail(cl.queue), f) \cup {x.arg}
                                                 ELSE Args(Tail(cl.queue), f)
      /\ Once(cl.queue)
      /\ Once(Tail(cl.queue))
      /\ x.run \in {"destroy", "restart"} => x.arg \notin Args(Tail(cl.queue), x.run)
  BY <1>1, <1>2, <1>3, ArgsTail, Zenon DEF Owned
<1>5. /\ e \in Client /\ SameCore(cl, e) /\ e.queue = Tail(cl.queue)
      /\ e.timers = cl.timers /\ e.retryTimer = cl.retryTimer
  BY <1>1, <1>3, <1>4, Zenon DEF Client, SameCore
<1>6. Good(e) /\ Once(e.queue)
  BY <1>3, <1>4, <1>5, Zenon DEF Good, SameCore
<1>7. /\ x.run \in Runs /\ x.arg \in Nat
      /\ \A f : Args(cl.queue, f) = IF x.run = f THEN Args(e.queue, f) \cup {x.arg}
                                                 ELSE Args(e.queue, f)
  BY <1>4, <1>5, Zenon DEF Functors, Runs
<1>8. x.run \notin {"destroy", "restart"} => Owned(e, 0)
  BY <1>3, <1>5, <1>6, <1>7, SameOwned, Zenon DEF SameCore
<1>9. ~stopped => /\ x.run \notin {"stop", "cancel"} /\ Unstopped(cl) /\ Unstopped(e)
                  /\ Reconnect /\ cl.started => Awaited(cl, 0)
  BY <1>3, <1>5, <1>7, Zenon DEF AllInv, Pursued, Unstopped, SameCore
<1>10. x.run \notin {"stop", "restart"} /\ Halted(cl) => Halted(e)
  BY <1>5, <1>7, Zenon DEF Halted, SameCore
<1>11. CASE x.run = "start"
  <2>1. cl' \in StartInLoop(e)
    BY <1>2, <1>11, Zenon DEF RunFunctor
  <2>2. /\ e.requested = cl.requested /\ e.started = cl.started /\ e.connection = cl.connection
        /\ e.state = cl.state /\ Args(e.queue, "forceClose") = Args(cl.queue, "forceClose")
        /\ Args(e.queue, "restart") = Args(cl.queue, "restart")
    BY <1>5, <1>7, <1>11, Zenon DEF SameCore
  <2>3. Reconnect /\ ~stopped /\ e.started /\ e.state = "Connected"
            => e.connection # 0 \/ Args(e.queue, "restart") # {}
    BY <1>9, <2>2, Zenon DEF Awaited
  <2>4. QED
    BY <1>2, <1>6, <1>8, <1>9, <1>10, <1>11, <2>1, <2>2, <2>3, StartStep, Zenon
<1>12. CASE x.run = "restart"
  <2>1. PICK h : h = [e EXCEPT !.state = "Disconnected"]
    BY Zenon
  <2>2. cl' \in StartInLoop(h)
    BY <1>2, <1>12, <2>1, Zenon DEF RunFunctor
  <2>3. /\ h \in Client /\ h.queue = e.queue /\ h.state = "Disconnected"
        /\ h.started = cl.started /\ h.sock = cl.sock /\ h.requested = cl.requested
        /\ h.connection = cl.connection /\ h.live = cl.live /\ h.up = cl.up
        /\ h.timers = cl.timers
    BY <1>5, <2>1, Zenon DEF Client, SameCore
  <2>4. /\ cl.state = "Connected" /\ cl.connection = 0 /\ cl.sock = 0
        /\ Args(cl.queue, "restart") # {}
    BY <1>3, <1>7, <1>12 DEF Owned
  <2>5. Good(h)
    BY <1>3, <2>3, Zenon DEF Good
  <2>6. Owned(h, 0)
    <3>1. Args(h.queue, "restart") = {}
      <4>1. x.arg = 0 /\ Args(e.queue, "restart") \subseteq {0}
        BY <1>3, <1>7, <1>12 DEF Owned
      <4>2. x.arg \notin Args(e.queue, "restart")
        BY <1>4, <1>5, <1>12, Zenon
      <4>3. QED
        BY <2>3, <4>1, <4>2, Zenon
    <3>2. Args(h.queue, "destroy") = Args(cl.queue, "destroy")
      BY <1>7, <1>12, <2>3, Zenon
    <3>3. QED
      BY <1>3, <1>6, <2>3, <2>4, <3>1, <3>2, Zenon DEF Owned
  <2>7. Halted(cl) => Halted(h)
    BY <2>3, <2>4, Zenon DEF Halted
  <2>8. Args(h.queue, "forceClose") = Args(cl.queue, "forceClose")
    BY <1>7, <1>12, <2>3, Zenon
  <2>9. ~stopped => Unstopped(h)
    BY <1>9, <2>3, Zenon DEF Unstopped
  <2>10. QED
    BY <1>2, <2>2, <2>3, <2>5, <2>6, <2>7, <2>8, <2>9, StartStep, Zenon
<1>13. CASE x.run = "stop"
  <2>1. cl' = StopInLoop(e)
    BY <1>2, <1>13, Zenon DEF RunFunctor
  <2>2. PICK d : d = cl'
    BY Zenon
  <2>3. /\ Good(d) /\ Owned(d, 0) /\ d.queue = e.queue /\ ~d.started /\ d.state # "Connecting"
        /\ d.requested = e.requested /\ d.connection = e.connection
    BY <1>6, <1>8, <1>13, <2>1, <2>2, StopInLoopIs, Zenon
  <2>4. d.requested = cl.requested /\ d.connection = cl.connection
    BY <1>5, <2>3, Zenon DEF SameCore
  <2>5. Halted(cl) => Halted(d)
    BY <2>3, <2>4, Zenon DEF Halted
  <2>6. Args(d.queue, "forceClose") = Args(cl.queue, "forceClose")
    BY <1>7, <1>13, <2>3, Zenon
  <2>7. stopped
    BY <1>9, <1>13, Zenon
  <2>8. QED
    BY <1>2, <2>2, <2>3, <2>4, <2>5, <2>6, <2>7, LoopStepKeeps, Zenon
<1>14. CASE x.run = "cancel"
  <2>1. PICK d : d = [e EXCEPT !.timers = @ \ {x.arg}]
    BY Zenon
  <2>2. d = cl'
    BY <1>2, <1>14, <2>1, Zenon DEF RunFunctor
  <2>3. d \in Client /\ SameCore(e, d) /\ d.queue = e.queue /\ d.timers = e.timers \ {x.arg}
    BY <1>5, <2>1, Zenon DEF Client, SameCore
  <2>4. Good(d)
    BY <1>6, <2>3, FS_RemoveElement DEF Good, SameCore
  <2>5. Owned(d, 0)
    BY <1>8, <1>14, <2>3, SameOwned, Zenon DEF SameCore
  <2>6. d.requested = cl.requested /\ d.connection = cl.connection
    BY <1>5, <2>3, Zenon DEF SameCore
  <2>7. Halted(cl) => Halted(d)
    BY <1>10, <1>14, <2>3, Zenon DEF Halted, SameCore
  <2>8. Args(d.queue, "forceClose") = Args(cl.queue, "forceClose") /\ stopped
    BY <1>7, <1>9, <1>14, <2>3, Zenon
  <2>9. QED
    BY <1>2, <2>2, <2>4, <2>5, <2>6, <2>7, <2>8, LoopStepKeeps, Zenon
<1>15. CASE x.run = "destroy"
  <2>1. PICK d : d = [e EXCEPT !.live = @ \ {x.arg}]
    BY Zenon
  <2>2. d = cl'
    BY <1>2, <1>15, <2>1, Zenon DEF RunFunctor
  <2>3. /\ d \in Client /\ d.queue = e.queue /\ d.timers = cl.timers
        /\ d.retryTimer = cl.retryTimer /\ d.started = cl.started /\ d.state = cl.state
        /\ d.sock = cl.sock /\ d.requested = cl.requested /\ d.connection = cl.connection
        /\ d.up = cl.up /\ d.gaveUp = cl.gaveUp /\ d.live = cl.live \ {x.arg}
    BY <1>5, <2>1, Zenon DEF Client, SameCore
  <2>4. Good(d)
    <3>1. IsFiniteSet(cl.live) /\ IsFiniteSet(cl.timers)
      BY <1>3, Zenon DEF Good
    <3>2. IsFiniteSet(cl.live \ {x.arg})
      BY <3>1, FS_RemoveElement, Zenon
    <3>3. QED
      BY <2>3, <3>1, <3>2, Zenon DEF Good
  <2>5. /\ Args(cl.queue, "destroy") = Args(d.queue, "destroy") \cup {x.arg}
        /\ x.arg \notin Args(d.queue, "destroy") /\ Once(d.queue)
        /\ \A g : g # "destroy" => Args(d.queue, g) = Args(cl.queue, g)
    BY <1>4, <1>5, <1>7, <1>15, <2>3, Zenon
  <2>6. Owned(d, 0)
    <3>1. /\ x.arg \notin {cl.sock, cl.connection} /\ x.arg # 0
          /\ cl.live = ({cl.sock, 0, cl.connection} \cup Args(cl.queue, "destroy")) \ {0}
          /\ 0 \notin Args(cl.queue, "destroy")
          /\ {cl.sock, 0, cl.connection} \cap Args(cl.queue, "destroy") \subseteq {0}
      BY <1>3, <2>5, Zenon DEF Owned
    <3>2. /\ d.live = ({d.sock, 0, d.connection} \cup Args(d.queue, "destroy")) \ {0}
          /\ 0 \notin Args(d.queue, "destroy")
          /\ {d.sock, 0, d.connection} \cap Args(d.queue, "destroy") \subseteq {0}
      BY <2>3, <2>5, <3>1
    <3>3. QED
      BY <1>3, <2>3, <2>5, <3>2, Zenon DEF Owned
  <2>7. Halted(cl) => Halted(d)
    BY <2>3, <2>5, Zenon DEF Halted
  <2>8. ~stopped => Unstopped(d) /\ (Reconnect /\ d.started => Awaited(d, 0))
    BY <1>9, <2>3, <2>5, Zenon DEF Unstopped, Awaited
  <2>9. QED
    BY <1>2, <2>2, <2>3, <2>4, <2>5, <2>6, <2>7, <2>8, LoopStepKeeps, Zenon
<1>16. CASE x.run = "forceClose"
  <2>1. cl' = HandleClose(e, x.arg)
    BY <1>2, <1>16, Zenon DEF RunFunctor
  <2>2. Owned(e, 0) /\ (Halted(cl) => Halted(e))
    BY <1>8, <1>10, <1>16, Zenon
  <2>3. /\ e.requested = cl.requested /\ e.started = cl.started /\ e.connection = cl.connection
        /\ e.state = cl.state /\ e.gaveUp = cl.gaveUp /\ e.up = cl.up
        /\ \A g : g # "forceClose" => Args(e.queue, g) = Args(cl.queue, g)
    BY <1>5, <1>7, <1>16, Zenon DEF SameCore
  <2>4. CASE x.arg \notin e.up
    <3>1. cl' = e
      BY <1>6, <2>1, <2>2, <2>4, HandleCloseIs, Zenon
    <3>2. e.connection # 0 => x.arg # e.connection
      BY <2>2, <2>4, Zenon DEF Owned
    <3>3. e.connection # 0 /\ e.connection \in Args(cl.queue, "forceClose")
            => e.connection \in Args(e.queue, "forceClose")
      BY <1>7, <1>16, <3>2, Zenon
    <3>4. ~stopped /\ Reconnect /\ e.started => Awaited(e, 0)
      BY <1>5, <1>9, <2>3, Zenon DEF Awaited
    <3>5. QED
      BY <1>2, <1>6, <1>9, <2>2, <2>3, <3>1, <3>3, <3>4, LoopStepKeeps, Zenon
  <2>5. CASE x.arg \in e.up
    <3>1. PICK d : d = cl'
      BY Zenon
    <3>2. x.arg = e.connection /\ Closed(e, d) /\ e.connection # 0 /\ e.state = "Connected"
      BY <1>6, <2>1, <2>2, <2>5, <3>1, HandleCloseIs, Zenon DEF Owned
    <3>3. Good(d) /\ d.connection = 0 /\ d.requested = cl.requested
      BY <2>3, <3>2, Zenon DEF Closed
    <3>4. Owned(d, 0)
      BY <1>6, <2>2, <3>2, ClosedOwned, Zenon
    <3>5. Halted(cl) => Halted(d)
      BY <2>2, <3>2, ClosedHalted, Zenon
    <3>6. ~stopped => /\ Unstopped(d) /\ d.started = cl.started
                      /\ Reconnect => Awaited(d, 0)
      BY <1>6, <1>9, <2>3, <3>2, ClosedAwaited, Zenon
    <3>7. QED
      BY <1>2, <3>1, <3>3, <3>4, <3>5, <3>6, LoopStepKeeps, Zenon
  <2>6. QED
    BY <2>4, <2>5, Zenon
<1>17. QED
  BY <1>7, <1>11, <1>12, <1>13, <1>14, <1>15, <1>16, Zenon DEF Runs

\* The retry timer comes to startInLoop() too.
LEMMA TimerStep ==
    ASSUME AllInv, RetryTimerFires
    PROVE  AllInv'
<1>1. PICK i \in cl.timers : cl' \in StartInLoop([cl EXCEPT !.timers = @ \ {i}])
  BY Zenon DEF RetryTimerFires
<1>2. PICK e : e = [cl EXCEPT !.timers = @ \ {i}]
  BY Zenon
<1>3. Good(cl) /\ cl \in Client /\ LoopStep /\ Owned(cl, 0) /\ fresh = 0
  BY Zenon DEF AllInv, ClientInv, Good, RetryTimerFires, LoopStep
<1>4. e \in Client /\ SameCore(cl, e) /\ e.queue = cl.queue /\ e.timers = cl.timers \ {i}
  BY <1>2, <1>3, Zenon DEF Client, SameCore
<1>5. Good(e)
  <2>1. IsFiniteSet(cl.timers \ {i})
    BY <1>3, FS_RemoveElement, Zenon DEF Good
  <2>2. QED
    BY <1>3, <1>4, <2>1, Zenon DEF Good, SameCore
<1>6. Owned(e, 0)
  BY <1>3, <1>4, SameOwned, Zenon DEF SameCore
<1>7. Halted(cl) => Halted(e)
  BY <1>4, Zenon DEF Halted, SameCore
<1>8. ~stopped => Unstopped(e)
  BY <1>4, Zenon DEF AllInv, Pursued, Unstopped, SameCore
<1>9. Reconnect /\ ~stopped /\ e.started /\ e.state = "Connected"
          => e.connection # 0 \/ Args(e.queue, "restart") # {}
  BY <1>3, <1>4, Zenon DEF AllInv, Pursued, Awaited, SameCore
<1>10. /\ e.requested = cl.requested /\ e.started = cl.started /\ e.connection = cl.connection
       /\ Args(e.queue, "forceClose") = Args(cl.queue, "forceClose")
  BY <1>4, Zenon DEF SameCore
<1>11. QED
  BY <1>1, <1>2, <1>3, <1>5, <1>6, <1>7, <1>8, <1>9, <1>10, StartStep, Zenon

\* handleWrite() and handleError() of an attempt that fails.
LEMMA FailStep ==
    ASSUME AllInv, AttemptFails
    PROVE  AllInv'
<1>1. /\ Good(cl) /\ cl \in Client /\ LoopStep /\ Owned(cl, 0) /\ fresh = 0
      /\ cl.state = "Connecting"
  BY Zenon DEF AllInv, ClientInv, Good, AttemptFails, LoopStep
<1>2. PICK e : e = DropSocket(cl)
  BY Zenon
<1>3. /\ e \in Client /\ e.live = cl.live \ {cl.sock} /\ e.sock = 0 /\ e.state = cl.state
      /\ e.queue = cl.queue /\ e.timers = cl.timers /\ e.started = cl.started
      /\ e.requested = cl.requested /\ e.connection = cl.connection /\ e.up = cl.up
  BY <1>1, <1>2, Zenon DEF Client, DropSocket
<1>4. Good(e)
  <2>1. IsFiniteSet(cl.live \ {cl.sock})
    BY <1>1, FS_RemoveElement, Zenon DEF Good
  <2>2. QED
    BY <1>1, <1>3, <2>1, Zenon DEF Good
<1>5. PICK d : d = cl'
  BY Zenon
<1>6. /\ Good(d) /\ d.queue = e.queue /\ SameCore([e EXCEPT !.state = "Disconnected"], d)
      /\ e.started => d.retryTimer \in d.timers
  BY <1>2, <1>4, <1>5, RetryIs, Zenon DEF AttemptFails
<1>7. /\ d.live = e.live /\ d.sock = 0 /\ d.state = "Disconnected" /\ d.queue = cl.queue
      /\ d.started = cl.started /\ d.requested = cl.requested
      /\ d.connection = cl.connection /\ d.up = cl.up
  BY <1>3, <1>6, Zenon DEF SameCore, Client
<1>8. Owned(d, 0)
  <2>1. PICK h : h = [cl EXCEPT !.live = @ \ {cl.sock}, !.sock = 0, !.state = "Disconnected"]
    BY Zenon
  <2>2. /\ h \in Client /\ h.live = cl.live \ {cl.sock} /\ h.sock = 0 /\ h.state = "Disconnected"
        /\ h.connection = cl.connection /\ h.up = cl.up /\ h.queue = cl.queue
        /\ h.timers = cl.timers
    BY <1>1, <2>1, Zenon DEF Client
  <2>3. cl.sock # 0
    BY <1>1, Zenon DEF Owned
  <2>4. Owned(h, 0)
    BY <1>1, <2>2, <2>3, DropSocketIs, Zenon
  <2>5. QED
    BY <1>3, <1>7, <2>2, <2>4, SameOwned
<1>9. Halted(cl) => Halted(d)
  BY <1>1, <1>7, Zenon DEF Halted
<1>10. ~stopped => Unstopped(d) /\ (Reconnect /\ d.started => Awaited(d, 0))
  BY <1>3, <1>6, <1>7, Zenon DEF AllInv, Pursued, Unstopped, Awaited
<1>11. QED
  BY <1>1, <1>5, <1>6, <1>7, <1>8, <1>9, <1>10, LoopStepKeeps, Zenon

\* A close of the connection for a reason of its own.
LEMMA CloseStep ==
    ASSUME AllInv, ConnectionCloses
    PROVE  AllInv'
<1>1. Good(cl) /\ LoopStep /\ Owned(cl, 0) /\ fresh = 0
  BY Zenon DEF AllInv, ClientInv, ConnectionCloses, LoopStep
<1>2. PICK s \in cl.up : cl' = HandleClose(cl, s)
  BY Zenon DEF ConnectionCloses
<1>3. PICK d : d = cl'
  BY Zenon
<1>4. Closed(cl, d) /\ cl.connection # 0 /\ cl.state = "Connected"
  BY <1>1, <1>2, <1>3, HandleCloseIs, Zenon DEF Owned
<1>5. Good(d) /\ d.connection = 0 /\ d.requested = cl.requested
  BY <1>4, Zenon DEF Closed
<1>6. Owned(d, 0)
  BY <1>1, <1>4, ClosedOwned, Zenon
<1>7. Halted(cl) => Halted(d)
  BY <1>4, ClosedHalted, Zenon
<1>8. ~stopped => Unstopped(d) /\ d.started = cl.started /\ (Reconnect => Awaited(d, 0))
  BY <1>1, <1>4, ClosedAwaited, Zenon DEF AllInv, Pursued
<1>9. QED
  BY <1>1, <1>3, <1>5, <1>6, <1>7, <1>8, LoopStepKeeps, Zenon

\* handleWrite() of an attempt that succeeds.
LEMMA SuccessStep ==
    ASSUME AllInv, AttemptSucceeds
    PROVE  AllInv'
<1>1. /\ Good(cl) /\ cl \in Client /\ Owned(cl, 0) /\ fresh = 0 /\ cl.state = "Connecting"
      /\ TypeOK /\ UNCHANGED <<upc, calls, stopped, quiet, raced>>
  BY Zenon DEF AllInv, ClientInv, Good, AttemptSucceeds
<1>2. /\ cl.sock # 0 /\ cl.sock \in Nat /\ cl.connection = 0 /\ Args(cl.queue, "restart") = {}
  BY <1>1, Zenon DEF Owned, Client
<1>3. CASE cl.started /\ cl.requested
  <2>1. PICK d : d = [cl EXCEPT !.state = "Connected", !.sock = 0]
    BY Zenon
  <2>2. d = cl' /\ fresh' = cl.sock
    BY <1>3, <2>1, Zenon DEF AttemptSucceeds
  <2>3. /\ d \in Client /\ d.state = "Connected" /\ d.sock = 0 /\ d.queue = cl.queue
        /\ d.live = cl.live /\ d.timers = cl.timers /\ d.connection = cl.connection
        /\ d.up = cl.up /\ d.started = cl.started /\ d.requested = cl.requested
    BY <1>1, <2>1, Zenon DEF Client
  <2>4. Good(d)
    BY <1>1, <2>3, Zenon DEF Good
  <2>5. Owned(d, cl.sock)
    BY <1>1, <1>2, <2>3 DEF Owned
  <2>6. TypeOK'
    BY <1>1, <1>2, <2>2, <2>3, Zenon DEF TypeOK, Client
  <2>7. ~Halted(cl) /\ cl'.requested
    BY <1>3, <2>2, <2>3, Zenon DEF Halted
  <2>8. Stopped'
    BY <1>1, <2>2, <2>7, Zenon DEF AllInv, Stopped
  <2>9. Unstopped(cl) => Unstopped(d)
    BY <1>3, <2>3, Zenon DEF Unstopped
  <2>10. Awaited(cl', fresh')
    BY <1>2, <2>2, Zenon DEF Awaited
  <2>11. Pursued'
    BY <1>1, <1>3, <2>2, <2>3, <2>9, <2>10, Zenon DEF AllInv, Pursued
  <2>12. QED
    BY <2>2, <2>4, <2>5, <2>6, <2>8, <2>11, Zenon DEF AllInv, ClientInv
<1>4. CASE ~(cl.started /\ cl.requested)
  <2>1. PICK d : d = [cl EXCEPT !.live = @ \ {cl.sock}, !.sock = 0, !.state = "Connected"]
    BY Zenon
  <2>2. d = cl' /\ fresh' = 0
    BY <1>1, <1>4, <2>1, Zenon DEF AttemptSucceeds, DropSocket, Client
  <2>3. /\ d \in Client /\ d.state = "Connected" /\ d.sock = 0 /\ d.queue = cl.queue
        /\ d.live = cl.live \ {cl.sock} /\ d.timers = cl.timers
        /\ d.connection = cl.connection /\ d.up = cl.up /\ d.requested = cl.requested
    BY <1>1, <2>1, Zenon DEF Client
  <2>4. Good(d) /\ Owned(d, 0)
    BY <1>1, <1>2, <2>3, DropSocketIs, Zenon
  <2>5. Halted(cl) => Halted(d)
    BY <1>2, <2>3, Zenon DEF Halted
  <2>6. stopped
    BY <1>1, <1>4, Zenon DEF AllInv, Pursued, Unstopped
  <2>7. LoopStep
    BY <1>1, <2>2, Zenon DEF LoopStep
  <2>8. QED
    BY <2>2, <2>3, <2>4, <2>5, <2>6, <2>7, LoopStepKeeps, Zenon
<1>5. QED
  BY <1>3, <1>4, Zenon

\* The rest of newConnection().
LEMMA NewConnectionStep ==
    ASSUME AllInv, NewConnection
    PROVE  AllInv'
<1>1. /\ Good(cl) /\ cl \in Client /\ Owned(cl, fresh) /\ fresh # 0 /\ fresh \in Nat
      /\ TypeOK /\ fresh' = 0 /\ UNCHANGED <<upc, calls, stopped, quiet, raced>>
  BY Zenon DEF AllInv, ClientInv, Good, NewConnection, TypeOK
<1>2. PICK d : d = [cl EXCEPT !.connection = fresh, !.up = @ \cup {fresh}]
  BY Zenon
<1>3. d = cl'
  BY <1>2, Zenon DEF NewConnection
<1>4. /\ d \in Client /\ d.state = cl.state /\ d.sock = cl.sock /\ d.queue = cl.queue
      /\ d.live = cl.live /\ d.timers = cl.timers /\ d.connection = fresh
      /\ d.up = cl.up \cup {fresh} /\ d.started = cl.started /\ d.requested = cl.requested
  BY <1>1, <1>2, Zenon DEF Client
<1>5. Good(d)
  BY <1>1, <1>4, Zenon DEF Good
<1>6. /\ cl.connection = 0 /\ cl.up = {} /\ cl.state = "Connected" /\ cl.sock = 0
      /\ Args(cl.queue, "restart") = {}
  BY <1>1, Zenon DEF Owned
<1>7. Owned(d, 0)
  <2>1. /\ cl.live = ({0, fresh} \cup Args(cl.queue, "destroy")) \ {0}
        /\ 0 \notin Args(cl.queue, "destroy") /\ fresh \notin Args(cl.queue, "destroy")
        /\ Once(cl.queue)
    BY <1>1, <1>6, Zenon DEF Owned
  <2>2. QED
    BY <1>1, <1>4, <1>6, <2>1 DEF Owned
<1>8. TypeOK'
  BY <1>1, <1>3, <1>4, Zenon DEF TypeOK, Client
<1>9. Halted(cl) => Halted(d)
  BY <1>4, Zenon DEF Halted
<1>10. Stopped'
  BY <1>1, <1>3, <1>4, <1>9, Zenon DEF AllInv, Stopped
<1>11. Pursued'
  <2>1. Unstopped(cl) => Unstopped(d)
    BY <1>4, Zenon DEF Unstopped
  <2>2. Awaited(cl', fresh')
    BY <1>1, <1>3, <1>4, Zenon DEF Awaited
  <2>3. QED
    BY <1>1, <1>3, <1>4, <2>1, <2>2, Zenon DEF AllInv, Pursued
<1>12. QED
  BY <1>1, <1>3, <1>5, <1>7, <1>8, <1>10, <1>11, Zenon DEF AllInv, ClientInv

\* stop() of the connector halts a client that is not asked to connect, and leaves the
\* sockets where they are.
LEMMA StopHalts ==
    ASSUME NEW c, Good(c), NEW r, Owned(c, r), NEW inLoop \in BOOLEAN
    PROVE  /\ Good(Stop(c, inLoop)) /\ Owned(Stop(c, inLoop), r)
           /\ Stop(c, inLoop).requested = c.requested
           /\ Stop(c, inLoop).connection = c.connection
           /\ Args(Stop(c, inLoop).queue, "forceClose") = Args(c.queue, "forceClose")
           /\ ~c.requested => Halted(Stop(c, inLoop))
<1>1. PICK d : d = Stop(c, inLoop)
  BY Zenon
<1>2. /\ Good(d) /\ SameCore([c EXCEPT !.started = FALSE], d) /\ SameWork(c, d)
      /\ Args(d.queue, "stop") # {}
  BY <1>1, StopIs, Zenon
<1>3. /\ d.state = c.state /\ d.sock = c.sock /\ d.requested = c.requested /\ d.live = c.live
      /\ d.connection = c.connection /\ d.up = c.up /\ ~d.started
  BY <1>2, Zenon DEF SameCore, Good, Client
<1>4. Owned(d, r)
  BY <1>2, <1>3, SameOwned, Zenon DEF SameWork
<1>5. ~c.requested => Halted(d)
  BY <1>2, <1>3, Zenon DEF Halted
<1>6. QED
  BY <1>1, <1>2, <1>3, <1>4, <1>5, Zenon DEF SameWork

\* Storing m_connectRequested.
LEMMA RequestIs ==
    ASSUME NEW c, Good(c), NEW r, Owned(c, r), NEW b \in BOOLEAN, NEW d,
           d = [c EXCEPT !.requested = b]
    PROVE  /\ Good(d) /\ Owned(d, r) /\ d.requested = b /\ d.queue = c.queue
           /\ d.state = c.state /\ d.started = c.started /\ d.connection = c.connection
           /\ d.timers = c.timers /\ d.retryTimer = c.retryTimer /\ d.gaveUp = c.gaveUp
<1>1. /\ d \in Client /\ d.requested = b /\ d.queue = c.queue /\ d.state = c.state
      /\ d.started = c.started /\ d.connection = c.connection /\ d.timers = c.timers
      /\ d.retryTimer = c.retryTimer /\ d.live = c.live /\ d.sock = c.sock /\ d.up = c.up
      /\ d.gaveUp = c.gaveUp
  BY Zenon DEF Good, Client
<1>2. Good(d)
  BY <1>1, Zenon DEF Good
<1>3. Owned(d, r)
  BY <1>1, SameOwned, Zenon
<1>4. QED
  BY <1>1, <1>2, <1>3, Zenon

\* connect(), disconnect() and stop() in a callback.
LEMMA LoopCallStep ==
    ASSUME AllInv, LoopCall
    PROVE  AllInv'
<1>1. /\ Good(cl) /\ cl \in Client /\ Owned(cl, 0) /\ fresh = 0 /\ TypeOK
      /\ calls' = calls + 1 /\ calls < MaxCall /\ UNCHANGED <<fresh, upc, raced>>
  BY Zenon DEF AllInv, ClientInv, Good, LoopCall
<1>2. ASSUME Good(cl'), Owned(cl', 0), {stopped', quiet'} \subseteq BOOLEAN PROVE ClientInv'
  BY <1>1, <1>2, ClientAssumption DEF ClientInv, TypeOK, Good, Client
<1>3. CASE /\ cl' \in Start([cl EXCEPT !.requested = TRUE], TRUE)
           /\ quiet' = FALSE /\ UNCHANGED stopped
  <2>1. PICK e : e = [[cl EXCEPT !.requested = TRUE] EXCEPT !.started = TRUE]
    BY Zenon
  <2>2. cl' \in StartInLoop(e)
    BY <1>3, <2>1, Zenon DEF Start
  <2>3. /\ e \in Client /\ e.requested /\ e.started /\ e.queue = cl.queue /\ e.state = cl.state
        /\ e.connection = cl.connection /\ e.timers = cl.timers /\ e.live = cl.live
        /\ e.sock = cl.sock /\ e.up = cl.up
    BY <1>1, <2>1, Zenon DEF Client
  <2>4. Good(e)
    BY <1>1, <2>3, Zenon DEF Good
  <2>5. Owned(e, 0)
    BY <1>1, <2>3, SameOwned, Zenon
  <2>6. PICK d : d = cl'
    BY Zenon
  <2>7. Tried(e, d) /\ Owned(d, 0)
    BY <2>2, <2>4, <2>5, <2>6, StartInLoopIs, Zenon
  <2>8. Good(d) /\ d.requested /\ d.started
    BY <2>3, <2>7, Zenon DEF Tried
  <2>9. Stopped'
    BY <1>3, <2>6, <2>8, Zenon DEF Stopped
  <2>10. ASSUME ~stopped
         PROVE  /\ upc \in {"idle", "connect"} /\ Unstopped(d)
                /\ Reconnect => Awaited(d, 0)
    <3>1. upc \in {"idle", "connect"} /\ Unstopped(cl)
      BY <2>10, Zenon DEF AllInv, Pursued
    <3>2. Unstopped(e)
      BY <2>3, <3>1, Zenon DEF Unstopped
    <3>3. Unstopped(d)
      BY <2>7, <2>8, <3>2, Zenon DEF Tried, Unstopped
    <3>4. ASSUME Reconnect PROVE Awaited(d, 0)
      <4>1. e.state = "Connected" => e.connection # 0 \/ Args(e.queue, "restart") # {}
        <5>1. cl.state = "Connected" => cl.started
          BY <3>1, Zenon DEF Unstopped
        <5>2. cl.started => Awaited(cl, 0)
          BY <1>1, <2>10, <3>4, Zenon DEF AllInv, Pursued
        <5>3. QED
          BY <2>3, <5>1, <5>2, Zenon DEF Awaited
      <4>2. QED
        BY <2>3, <2>7, <3>2, <4>1, TriedAwaited, Zenon
    <3>5. QED
      BY <3>1, <3>3, <3>4, Zenon
  <2>11. Pursued'
    BY <1>1, <1>3, <2>6, <2>8, <2>10, Zenon DEF Pursued
  <2>12. ClientInv'
    BY <1>1, <1>2, <1>3, <2>6, <2>7, <2>8, Zenon DEF TypeOK
  <2>13. QED
    BY <2>9, <2>11, <2>12, Zenon DEF AllInv
<1>4. CASE /\ cl' = LET c == [cl EXCEPT !.requested = FALSE]
                    IN  IF c.connection # 0 THEN c ELSE Stop(c, TRUE)
           /\ stopped' = TRUE /\ UNCHANGED quiet
  <2>1. PICK c : c = [cl EXCEPT !.requested = FALSE]
    BY Zenon
  <2>2. /\ Good(c) /\ Owned(c, 0) /\ ~c.requested /\ c.queue = cl.queue
        /\ c.connection = cl.connection
    BY <1>1, <2>1, RequestIs, ZenonT(30)
  <2>3. PICK d : d = cl'
    BY Zenon
  <2>4. d = IF c.connection # 0 THEN c ELSE Stop(c, TRUE)
    BY <1>4, <2>1, <2>3, Zenon
  <2>5. c.connection # 0 => Halted(c)
    BY <2>2, Zenon DEF Owned, Halted
  <2>6. /\ Good(d) /\ Owned(d, 0) /\ Halted(d) /\ d.connection = cl.connection
        /\ Args(d.queue, "forceClose") = Args(cl.queue, "forceClose")
    BY <2>2, <2>4, <2>5, StopHalts, Zenon
  <2>7. Stopped'
    BY <1>1, <1>4, <2>3, <2>6, Zenon DEF AllInv, Stopped
  <2>8. Pursued'
    BY <1>4, Zenon DEF Pursued
  <2>9. ClientInv'
    BY <1>1, <1>2, <1>4, <2>3, <2>6, Zenon DEF TypeOK
  <2>10. QED
    BY <2>7, <2>8, <2>9, Zenon DEF AllInv
<1>5. CASE /\ cl' = ForceClose(Stop([cl EXCEPT !.requested = FALSE], TRUE), TRUE)
           /\ stopped' = TRUE /\ quiet' = (upc # "connect")
  <2>1. PICK c : c = [cl EXCEPT !.requested = FALSE]
    BY Zenon
  <2>2. Good(c) /\ Owned(c, 0) /\ ~c.requested
    BY <1>1, <2>1, RequestIs, Zenon
  <2>3. PICK e : e = Stop(c, TRUE)
    BY Zenon
  <2>4. Good(e) /\ Owned(e, 0) /\ Halted(e)
    BY <2>2, <2>3, StopHalts, Zenon
  <2>5. PICK d : d = cl'
    BY Zenon
  <2>6. d = IF e.connection = 0 THEN e ELSE HandleClose(e, e.connection)
    BY <1>5, <2>1, <2>3, <2>5, Zenon DEF ForceClose
  <2>7. Good(d) /\ Owned(d, 0) /\ Halted(d) /\ d.connection = 0
    <3>1. CASE e.connection = 0
      BY <2>4, <2>6, <3>1, Zenon
    <3>2. CASE e.connection # 0
      <4>1. e.connection \in e.up
        BY <2>4, <3>2, Zenon DEF Owned
      <4>2. Closed(e, d)
        BY <2>4, <2>6, <3>2, <4>1, HandleCloseIs, Zenon
      <4>3. Good(d) /\ d.connection = 0
        BY <4>2, Zenon DEF Closed
      <4>4. QED
        BY <2>4, <3>2, <4>2, <4>3, ClosedOwned, ClosedHalted, Zenon
    <3>3. QED
      BY <3>1, <3>2, Zenon
  <2>8. Stopped'
    BY <1>1, <1>5, <2>5, <2>7, Zenon DEF Stopped
  <2>9. Pursued'
    BY <1>5, Zenon DEF Pursued
  <2>10. ClientInv'
    BY <1>1, <1>2, <1>5, <2>5, <2>7, Zenon
  <2>11. QED
    BY <2>8, <2>9, <2>10, Zenon DEF AllInv
<1>6. QED
  BY <1>3, <1>4, <1>5, Zenon DEF LoopCall

\* The other thread stores what it wants.
LEMMA StoreStep ==
    ASSUME AllInv, NEW call \in {"connect", "disconnect", "stop"}, NEW b \in BOOLEAN,
           b <=> call = "connect", UserStores(call, b)
    PROVE  AllInv'
<1>1. /\ Good(cl) /\ Owned(cl, fresh) /\ TypeOK /\ fresh' = fresh /\ raced' = raced
      /\ calls' = calls + 1 /\ calls < MaxCall /\ upc' = call /\ quiet' = FALSE
      /\ stopped' = (stopped \/ ~b) /\ upc = "idle"
  BY Zenon DEF AllInv, ClientInv, UserStores
<1>2. PICK d : d = cl'
  BY Zenon
<1>3. d = [cl EXCEPT !.requested = b]
  BY <1>2, Zenon DEF UserStores
<1>4. /\ Good(d) /\ Owned(d, fresh) /\ d.requested = b /\ d.queue = cl.queue
      /\ d.state = cl.state /\ d.started = cl.started /\ d.connection = cl.connection
      /\ d.timers = cl.timers /\ d.retryTimer = cl.retryTimer /\ d.gaveUp = cl.gaveUp
  BY <1>1, <1>3, RequestIs
<1>5. TypeOK'
  <2>1. calls' \in 0..MaxCall
    BY <1>1, ClientAssumption DEF TypeOK
  <2>2. stopped' \in BOOLEAN /\ quiet' \in BOOLEAN /\ raced' \in BOOLEAN
    BY <1>1, Zenon DEF TypeOK
  <2>3. upc' \in {"idle", "connect", "disconnect", "stop", "close"} /\ fresh' \in Nat
    BY <1>1, Zenon DEF TypeOK
  <2>4. cl' \in Client
    BY <1>2, <1>4, Zenon DEF Good
  <2>5. QED
    BY <2>1, <2>2, <2>3, <2>4, Zenon DEF TypeOK, Client
<1>6. Stopped'
  BY <1>1, Zenon DEF Stopped
<1>7. ASSUME ~stopped'
      PROVE  /\ call = "connect" /\ d.requested /\ Unstopped(d)
             /\ Reconnect /\ d.started => Awaited(d, fresh)
  <2>1. ~stopped /\ b
    BY <1>1, <1>7, Zenon
  <2>2. Unstopped(cl) /\ (Reconnect /\ cl.started => Awaited(cl, fresh))
    BY <2>1, Zenon DEF AllInv, Pursued
  <2>3. QED
    BY <1>4, <2>1, <2>2, Zenon DEF Unstopped, Awaited
<1>8. Pursued'
  BY <1>1, <1>2, <1>7, Zenon DEF Pursued
<1>9. QED
  BY <1>1, <1>2, <1>4, <1>5, <1>6, <1>8, Zenon DEF AllInv, ClientInv

\* The other thread's start(): startInLoop becomes pending.
LEMMA UserStartStep ==
    ASSUME AllInv, UserStarts
    PROVE  AllInv'
<1>1. /\ Good(cl) /\ cl \in Client /\ Owned(cl, fresh) /\ TypeOK /\ upc = "connect"
      /\ upc' = "idle" /\ quiet' = FALSE /\ UNCHANGED <<fresh, calls, stopped, raced>>
  BY Zenon DEF AllInv, ClientInv, UserStarts, Good
<1>2. PICK e : e = [cl EXCEPT !.started = TRUE]
  BY Zenon
<1>3. /\ e \in Client /\ e.started /\ e.requested = cl.requested /\ e.queue = cl.queue
      /\ e.state = cl.state /\ e.connection = cl.connection /\ e.timers = cl.timers
      /\ e.live = cl.live /\ e.sock = cl.sock /\ e.up = cl.up
  BY <1>1, <1>2, Zenon DEF Client
<1>4. Good(e)
  BY <1>1, <1>3, Zenon DEF Good
<1>5. PICK d : d = cl'
  BY Zenon
<1>6. d = QueueInLoop(e, "start", 0)
  BY <1>2, <1>5, Zenon DEF UserStarts, Start
<1>7. Queues(e, d, "start", 0)
  <2>1. "start" \in Runs
    BY Zenon DEF Runs
  <2>2. QED
    BY <1>4, <1>6, <2>1, QueueInLoopIs, Zenon
<1>8. /\ Good(d) /\ d.started /\ d.requested = cl.requested /\ d.state = cl.state
      /\ d.connection = cl.connection /\ d.live = cl.live /\ d.sock = cl.sock /\ d.up = cl.up
      /\ Args(d.queue, "start") # {}
      /\ \A g \in {"stop", "cancel", "restart", "destroy"} :
            Args(d.queue, g) = Args(cl.queue, g)
      /\ Once(cl.queue) => Once(d.queue)
  BY <1>3, <1>7, Zenon DEF Queues, SameCore
<1>9. Owned(d, fresh)
  BY <1>1, <1>8, SameOwned, Zenon
<1>10. TypeOK'
  BY <1>1, <1>5, <1>8, Zenon DEF TypeOK, Good, Client
<1>11. Stopped'
  BY <1>1, Zenon DEF Stopped
<1>12. ASSUME ~stopped PROVE Unstopped(d) /\ (Reconnect => Awaited(d, fresh))
  <2>1. Unstopped(cl) /\ cl.requested /\ (Reconnect /\ cl.started => Awaited(cl, fresh))
    BY <1>1, <1>12, Zenon DEF AllInv, Pursued
  <2>2. Unstopped(d)
    BY <1>8, <2>1, Zenon DEF Unstopped
  <2>3. cl.state = "Connected" => cl.started
    BY <2>1, Zenon DEF Unstopped
  <2>4. Reconnect => Awaited(d, fresh)
    BY <1>8, <2>1, <2>3, Zenon DEF Awaited
  <2>5. QED
    BY <2>2, <2>4, Zenon
<1>13. Pursued'
  BY <1>1, <1>5, <1>8, <1>12, Zenon DEF Pursued
<1>14. QED
  BY <1>1, <1>5, <1>8, <1>9, <1>10, <1>11, <1>13, Zenon DEF AllInv, ClientInv

\* The connector's stop() as the other thread's disconnect() and stop() call it.
LEMMA UserStopStep ==
    ASSUME AllInv, UserDisconnects \/ UserStops
    PROVE  AllInv'
<1>1. /\ Good(cl) /\ Owned(cl, fresh) /\ TypeOK /\ upc \in {"disconnect", "stop"}
      /\ upc' \in {"idle", "close"} /\ (upc' = "close" => UserStops)
      /\ UNCHANGED <<fresh, calls, stopped, quiet, raced>>
  BY Zenon DEF AllInv, ClientInv, UserDisconnects, UserStops
<1>2. PICK d : d = cl'
  BY Zenon
<1>3. (d = cl /\ UserDisconnects) \/ d = Stop(cl, FALSE)
  BY <1>2, Zenon DEF UserDisconnects, UserStops
<1>4. /\ Good(d) /\ Owned(d, fresh) /\ d.requested = cl.requested
      /\ d.connection = cl.connection
      /\ Args(d.queue, "forceClose") = Args(cl.queue, "forceClose")
      /\ Halted(cl) => Halted(d)
      /\ UserStops /\ ~cl.requested => Halted(d)
  <2>1. CASE d = Stop(cl, FALSE)
    BY <1>1, <2>1, StopHalts, Zenon DEF Halted
  <2>2. CASE d = cl /\ UserDisconnects
    BY <1>1, <2>2, Zenon DEF UserDisconnects, UserStops
  <2>3. QED
    BY <1>3, <2>1, <2>2, Zenon
<1>5. TypeOK'
  BY <1>1, <1>2, <1>4, Zenon DEF TypeOK, Good, Client
<1>6. Stopped'
  BY <1>1, <1>2, <1>4, Zenon DEF AllInv, Stopped
<1>7. stopped
  BY <1>1, Zenon DEF AllInv, Pursued
<1>8. Pursued'
  BY <1>1, <1>7, Zenon DEF Pursued
<1>9. QED
  BY <1>1, <1>2, <1>4, <1>5, <1>6, <1>8, Zenon DEF AllInv, ClientInv

\* The other thread's stop() looks for the connection and has it closed.
LEMMA UserCloseStep ==
    ASSUME AllInv, UserCloses
    PROVE  AllInv'
<1>1. /\ Good(cl) /\ Owned(cl, fresh) /\ TypeOK /\ upc = "close" /\ upc' = "idle"
      /\ raced' = (raced \/ fresh # 0) /\ quiet' = ~cl.requested
      /\ UNCHANGED <<fresh, calls, stopped>>
  BY Zenon DEF AllInv, ClientInv, UserCloses
<1>2. PICK d : d = cl'
  BY Zenon
<1>3. /\ Good(d) /\ Owned(d, fresh) /\ d.requested = cl.requested
      /\ d.connection = cl.connection
      /\ d.connection # 0 => d.connection \in Args(d.queue, "forceClose")
      /\ Halted(cl) => Halted(d)
  <2>1. CASE cl.connection = 0
    BY <1>1, <1>2, <2>1, Zenon DEF UserCloses, ForceClose
  <2>2. CASE cl.connection # 0
    <3>1. d = QueueInLoop(cl, "forceClose", cl.connection)
      BY <1>2, <2>2, Zenon DEF UserCloses, ForceClose
    <3>2. "forceClose" \in Runs /\ cl.connection \in Nat
      BY <1>1, Zenon DEF Runs, Good, Client
    <3>3. Queues(cl, d, "forceClose", cl.connection)
      BY <1>1, <3>1, <3>2, QueueInLoopIs, Zenon
    <3>4. /\ Good(d) /\ SameCore(cl, d) /\ cl.connection \in Args(d.queue, "forceClose")
          /\ \A g \in {"stop", "restart", "destroy"} : Args(d.queue, g) = Args(cl.queue, g)
          /\ Once(cl.queue) => Once(d.queue)
      BY <3>3, Zenon DEF Queues
    <3>5. Owned(d, fresh)
      BY <1>1, <3>4, SameOwned, Zenon DEF SameCore
    <3>6. QED
      BY <3>4, <3>5, Zenon DEF SameCore, Halted
  <2>3. QED
    BY <2>1, <2>2, Zenon
<1>4. TypeOK'
  BY <1>1, <1>2, <1>3, Zenon DEF TypeOK, Good, Client
<1>5. Stopped'
  BY <1>1, <1>2, <1>3, Zenon DEF AllInv, Stopped
<1>6. stopped
  BY <1>1, Zenon DEF AllInv, Pursued
<1>7. Pursued'
  BY <1>1, <1>6, Zenon DEF Pursued
<1>8. QED
  BY <1>1, <1>2, <1>3, <1>4, <1>5, <1>7, Zenon DEF AllInv, ClientInv

-----------------------------------------------------------------------------
\* The first state of the client.
LEMMA ClientStart == Init => AllInv
<1>1. SUFFICES ASSUME Init PROVE AllInv
  BY Zenon
<1>2. /\ cl \in Client /\ cl.queue = <<>> /\ cl.live = {} /\ cl.timers = {} /\ cl.up = {}
      /\ cl.sock = 0 /\ cl.connection = 0 /\ cl.state = "Disconnected"
      /\ ~cl.started /\ ~cl.requested /\ fresh = 0 /\ upc = "idle" /\ calls = 0
      /\ stopped = FALSE /\ quiet = FALSE /\ raced = FALSE
  BY <1>1 DEF Init, NewClient, Client
<1>3. Good(cl)
  BY <1>2, FS_EmptySet, Zenon DEF Good
<1>4. (\A f : Args(cl.queue, f) = {}) /\ Once(cl.queue)
  BY <1>2 DEF Args, Once
<1>5. Owned(cl, fresh)
  BY <1>2, <1>4, Zenon DEF Owned
<1>6. TypeOK
  <2>1. calls \in 0..MaxCall /\ fresh \in Nat
    BY <1>2, ClientAssumption
  <2>2. QED
    BY <1>2, <2>1, Zenon DEF TypeOK, Client
<1>7. Stopped
  BY <1>2, Zenon DEF Stopped
<1>8. Pursued
  BY <1>2, <1>4, Zenon DEF Pursued, Unstopped
<1>9. QED
  BY <1>3, <1>5, <1>6, <1>7, <1>8, Zenon DEF AllInv, ClientInv

\* Every step of the loop and of the two callers.
LEMMA ClientStep == AllInv /\ [Next]_vars => AllInv'
<1>1. SUFFICES ASSUME AllInv, [Next]_vars PROVE AllInv'
  BY Zenon
<1>2. CASE Loop
  BY <1>1, <1>2, FunctorStep, TimerStep, FailStep, SuccessStep, NewConnectionStep, CloseStep, Zenon
     DEF Loop
<1>3. CASE LoopCall
  BY <1>1, <1>3, LoopCallStep, Zenon
<1>4. CASE UserCall
  <2>1. ASSUME UserStores("connect", TRUE) PROVE AllInv'
    BY <1>1, <2>1, StoreStep, Zenon
  <2>2. ASSUME NEW call \in {"disconnect", "stop"}, UserStores(call, FALSE) PROVE AllInv'
    BY <1>1, <2>2, StoreStep, Zenon
  <2>3. QED
    BY <1>4, <2>1, <2>2, Zenon DEF UserCall
<1>5. CASE User
  BY <1>1, <1>5, UserStartStep, UserStopStep, UserCloseStep, Zenon DEF User
<1>6. CASE UNCHANGED vars
  BY <1>1, <1>6 DEF vars, AllInv, ClientInv, TypeOK, Stopped, Pursued
<1>7. QED
  BY <1>1, <1>2, <1>3, <1>4, <1>5, <1>6, Zenon DEF Next

\* The invariant holds in every reachable state.
LEMMA ClientAlways == Spec => []AllInv
BY ClientStart, ClientStep, PTL DEF Spec

\* An open socket of the client has exactly one owner - the attempt, newConnection(), the
\* connection or a connection waiting to be destroyed - and a socket without owner is
\* closed (Connector::connect, stopInLoop, restart; TcpClient::removeConnection), however
\* attempts, retries, closes and the calls of two threads interleave.
THEOREM ClientSocketsOwned == Spec => []SocketsOwned
<1>1. AllInv => SocketsOwned
  <2>1. SUFFICES ASSUME Owned(cl, fresh) PROVE SocketsOwned
    BY Zenon DEF AllInv, ClientInv
  <2>2. PICK D : D = Queued("destroy")
    BY Zenon
  <2>3. Args(cl.queue, "destroy") = D
    BY <2>2, Zenon DEF Args, Queued
  <2>4. /\ cl.live = ({cl.sock, fresh} \cup cl.up \cup D) \ {0}
        /\ (cl.sock # 0) <=> (cl.state = "Connecting")
        /\ cl.up = {cl.connection} \ {0}
        /\ {cl.sock, fresh, cl.connection} \cap D \subseteq {0}
    BY <2>1, <2>3, Zenon DEF Owned
  <2>5. PICK A, U : A = {cl.sock, fresh} \ {0} /\ U = cl.up
    BY Zenon
  <2>6. Cardinality({}) = 0 /\ \A s : Cardinality({s}) = 1
    BY FS_EmptySet, FS_Singleton, Zenon
  <2>7. Cardinality(A) + Cardinality(U) <= 1
    <3>1. CASE cl.connection # 0
      <4>1. A = {} /\ U = {cl.connection}
        BY <2>1, <2>5, <3>1, Zenon DEF Owned
      <4>2. Cardinality(A) = 0 /\ Cardinality(U) = 1
        BY <2>6, <4>1, Zenon
      <4>3. QED
        BY <4>2
    <3>2. CASE cl.connection = 0 /\ fresh # 0
      <4>1. A = {fresh} /\ U = {}
        BY <2>1, <2>5, <3>2, Zenon DEF Owned
      <4>2. Cardinality(A) = 1 /\ Cardinality(U) = 0
        BY <2>6, <4>1, Zenon
      <4>3. QED
        BY <4>2
    <3>3. CASE cl.connection = 0 /\ fresh = 0
      <4>1. (A = {} \/ A = {cl.sock}) /\ U = {}
        BY <2>1, <2>5, <3>3 DEF Owned
      <4>2. (Cardinality(A) = 0 \/ Cardinality(A) = 1) /\ Cardinality(U) = 0
        BY <2>6, <4>1, Zenon
      <4>3. QED
        BY <4>2
    <3>4. QED
      BY <3>1, <3>2, <3>3, Zenon
  <2>8. QED
    BY <2>2, <2>4, <2>5, <2>7, Zenon DEF SocketsOwned
<1>2. QED
  BY <1>1, ClientAlways, PTL

\* After stop() (TcpClient::stop, Connector::stopInLoop), once the functors pending then
\* have run, no socket is open until connect() is called again; excepted is the stop() of
\* another thread that overtook newConnection().
THEOREM ClientStopIsQuiet == Spec => []StopIsQuiet
<1>1. AllInv => StopIsQuiet
  <2>1. SUFFICES ASSUME AllInv, quiet, ~raced, cl.queue = <<>> PROVE cl.live = {}
    BY Zenon DEF StopIsQuiet
  <2>2. \A f : Args(cl.queue, f) = {}
    BY <2>1 DEF Args
  <2>3. cl.state # "Connecting" /\ fresh = 0 /\ cl.connection = 0
    BY <2>1, <2>2, Zenon DEF AllInv, Stopped, Halted
  <2>4. QED
    BY <2>1, <2>2, <2>3, Zenon DEF AllInv, ClientInv, Owned
<1>2. QED
  BY <1>1, ClientAlways, PTL

\* While a connection is wanted and nobody stopped the client, an attempt, a connection, a
\* retry timer or a pending start or restart is there (Connector::retry, restart,
\* TcpClient::removeConnection); excepted is an error that is not retried.
THEOREM ClientRequestIsPursued == Spec => []RequestIsPursued
<1>1. AllInv => RequestIsPursued
  <2>1. SUFFICES ASSUME AllInv, Reconnect, cl.requested, upc # "connect", ~stopped, ~cl.gaveUp
                 PROVE  \/ cl.state = "Connecting" \/ fresh # 0 \/ cl.connection # 0
                        \/ cl.retryTimer \in cl.timers
                        \/ Queued("start") \cup Queued("restart") # {}
    BY Zenon DEF RequestIsPursued
  <2>2. Awaited(cl, fresh)
    BY <2>1, Zenon DEF AllInv, Pursued
  <2>3. Args(cl.queue, "start") = Queued("start") /\ Args(cl.queue, "restart") = Queued("restart")
    BY Zenon DEF Args, Queued
  <2>4. QED
    BY <2>1, <2>2, <2>3, Zenon DEF Awaited
<1>2. QED
  BY <1>1, ClientAlways, PTL

=============================================================================
