----------------------------- MODULE TcpServer -----------------------------
(***************************************************************************)
(* net::TcpServer (src/net/tcp_server.cpp): connections are accepted and   *)
(* listed by the server's loop and live on the loops of its thread pool.   *)
(* A connection is closed on its own loop, leaves m_connections on the     *)
(* server's and is destroyed on its own again; the idle check runs on the  *)
(* server's loop and acts through functors on the others.                  *)
(*                                                                         *)
(* A functor, a timer or an event handler is one step of its loop, and the *)
(* loops interleave.  queue[l] is the FIFO of pending functors of loop l   *)
(* that EventLoop provides.  Inside a connection (TcpConnection) only the  *)
(* life cycle and the activity stamps are kept.                            *)
(***************************************************************************)
EXTENDS Integers, Sequences, FiniteSets

CONSTANTS Conn,              \* the connections that may be accepted
          IoLoop,            \* the loops of m_threadPool; {} is "the server's own"
          Main,              \* m_loop
          IdleTimeout,       \* m_idleTimeout in ticks, 0 is "off"
          HeartbeatInterval, \* m_heartbeatInterval in ticks, 0 is "off"
          IdleCallback,      \* whether m_idleCallback is set
          MaxQueue           \* bound: functors a check finds pending on a loop

ASSUME ServerAssumption ==
    /\ Main \notin IoLoop
    /\ IdleTimeout \in Nat /\ HeartbeatInterval \in Nat /\ MaxQueue \in Nat
    /\ IdleCallback \in BOOLEAN

VARIABLES connections, \* m_connections
          home,        \* the loop of each connection, once accepted
          state,       \* its life: "none" until accepted, "Destroyed" after connectDestroyed
          idle,        \* its idleFor() in ticks, up to the largest that is told apart
          probe,       \* probeIdleFor() likewise, Never if no probe was sent
          queue        \* the pending functors of each loop

vars == <<connections, home, state, idle, probe, queue>>

Never == -1
Loops == IoLoop \cup {Main}
MaxIdle == IF IdleTimeout > HeartbeatInterval THEN IdleTimeout ELSE HeartbeatInterval

Init ==
    /\ connections = {}
    /\ home = [c \in Conn |-> Main]
    /\ state = [c \in Conn |-> "none"]
    /\ idle = [c \in Conn |-> 0]
    /\ probe = [c \in Conn |-> Never]
    /\ queue = [l \in Loops |-> <<>>]

QueueInLoop(q, l, f, c) == [q EXCEPT ![l] = Append(@, [run |-> f, conn |-> c])]

-----------------------------------------------------------------------------
\* newConnection(): runInLoop makes connectEstablished immediate on m_loop itself.
NewConnection(c, l) ==
    /\ state[c] = "none"
    /\ connections' = connections \cup {c}
    /\ home' = [home EXCEPT ![c] = l]
    /\ state' = [state EXCEPT ![c] = IF l = Main THEN "Connected" ELSE "Connecting"]
    /\ queue' = IF l = Main THEN queue ELSE QueueInLoop(queue, l, "established", c)
    /\ UNCHANGED <<idle, probe>>

Accept == \E c \in Conn, l \in IF IoLoop = {} THEN {Main} ELSE IoLoop : NewConnection(c, l)

\* Mutant: the destruction is queued whether or not the name was still listed, and
\* on the server's loop.
RemoveConnectionInLoopHere(q, c) == QueueInLoop(q, Main, "destroyed", c)

\* removeConnectionInLoop(): a name that is not listed any more is left alone.
RemoveConnectionInLoop(q, c) ==
    IF c \in connections THEN QueueInLoop(q, home[c], "destroyed", c) ELSE q

\* handleClose() of a connection that is not closed yet, and removeConnection().
HandleClose(q, c) ==
    /\ state' = [state EXCEPT ![c] = "Disconnected"]
    /\ queue' = QueueInLoop(q, Main, "remove", c)

\* What a functor does, when q are the queues without it.  "idle" is forceClose(),
\* or m_idleCallback, which is taken to look at the connection only.
RunFunctor(q, f) ==
    LET c == f.conn
    IN  \/ /\ f.run = "established"
           /\ state' = [state EXCEPT ![c] = "Connected"]
           /\ idle' = [idle EXCEPT ![c] = 0]
           /\ probe' = [probe EXCEPT ![c] = Never]
           /\ queue' = q
           /\ UNCHANGED connections
        \/ /\ f.run = "remove"
           /\ connections' = connections \ {c}
           /\ queue' = RemoveConnectionInLoop(q, c)
           /\ UNCHANGED <<state, idle, probe>>
        \/ /\ f.run = "destroyed"
           /\ state' = [state EXCEPT ![c] = "Destroyed"]
           /\ queue' = q
           /\ UNCHANGED <<connections, idle, probe>>
        \/ /\ f.run = "idle"
           /\ IF state[c] = "Connected" /\ ~IdleCallback
              THEN HandleClose(q, c)
              ELSE queue' = q /\ UNCHANGED state
           /\ UNCHANGED <<connections, idle, probe>>
        \/ /\ f.run = "heartbeat"
           /\ probe' = [probe EXCEPT ![c] = 0]
           /\ queue' = q
           /\ UNCHANGED <<connections, state, idle>>

DoPendingFunctor(l) ==
    /\ queue[l] # <<>>
    /\ RunFunctor([queue EXCEPT ![l] = Tail(@)], Head(queue[l]))
    /\ UNCHANGED home

-----------------------------------------------------------------------------
\* The peer sends (touchActive), or the connection ends for any reason of its own.
Message(c) ==
    /\ state[c] = "Connected"
    /\ idle' = [idle EXCEPT ![c] = 0]
    /\ probe' = [probe EXCEPT ![c] = Never]
    /\ UNCHANGED <<connections, home, state, queue>>

Closes(c) ==
    /\ state[c] = "Connected"
    /\ HandleClose(queue, c)
    /\ UNCHANGED <<connections, home, idle, probe>>

\* Mutant: a probed connection is never found idle.
IdleUnprobed == {c \in connections :
            /\ state[c] = "Connected" /\ IdleTimeout > 0 /\ idle[c] >= IdleTimeout
            /\ probe[c] = Never}

\* checkIdleConnections()
Idle == {c \in connections :
            state[c] = "Connected" /\ IdleTimeout > 0 /\ idle[c] >= IdleTimeout}

Heartbeat == {c \in connections \ Idle :
    /\ state[c] = "Connected" /\ HeartbeatInterval > 0
    /\ idle[c] >= HeartbeatInterval
    /\ probe[c] = Never \/ probe[c] >= HeartbeatInterval}

\* m_connections is a hash map: the order in which its connections are visited is
\* not fixed.  These are the orders in which those of loop l may get their functors,
\* one each, heartbeats first.
Visits(l) ==
    LET here == {c \in Idle \cup Heartbeat : home[c] = l}
    IN  {order \in UNION {[1..n -> here] : n \in 0..Cardinality(here)} :
            /\ here = {order[i] : i \in DOMAIN order}
            /\ \A i, j \in DOMAIN order :
                /\ order[i] = order[j] => i = j
                /\ order[i] \in Idle /\ order[j] \in Heartbeat => j < i}

CheckIdleConnections ==
    /\ \A l \in Loops : Len(queue[l]) < MaxQueue
    /\ Idle \cup Heartbeat # {}
    /\ \E order \in [Loops -> UNION {Visits(l) : l \in Loops}] :
        /\ \A l \in Loops : order[l] \in Visits(l)
        /\ LET Functor(c) == [run |-> IF c \in Heartbeat THEN "heartbeat" ELSE "idle", conn |-> c]
           IN  queue' = [l \in Loops |->
                            queue[l] \o [i \in DOMAIN order[l] |-> Functor(order[l][i])]]
    /\ UNCHANGED <<connections, home, state, idle, probe>>

Older(n) == IF n < MaxIdle THEN n + 1 ELSE n

\* Time passes.
Tick ==
    /\ idle' = [c \in Conn |-> IF state[c] = "Connected" THEN Older(idle[c]) ELSE idle[c]]
    /\ probe' = [c \in Conn |-> IF state[c] = "Connected" /\ probe[c] # Never
                                THEN Older(probe[c]) ELSE probe[c]]
    /\ UNCHANGED <<connections, home, state, queue>>

-----------------------------------------------------------------------------
Next ==
    \/ Accept \/ CheckIdleConnections \/ Tick
    \/ \E l \in Loops : DoPendingFunctor(l)
    \/ \E c \in Conn : Message(c) \/ Closes(c)

Spec == Init /\ [][Next]_vars

\* Every loop runs what is pending, and the idle timer keeps firing.  Nothing is
\* assumed of peers and of time.
FairSpec ==
    /\ Spec
    /\ SF_vars(CheckIdleConnections)
    /\ \A l \in Loops : WF_vars(DoPendingFunctor(l))

-----------------------------------------------------------------------------
TypeOK ==
    /\ connections \subseteq Conn
    /\ home \in [Conn -> Loops]
    /\ state \in [Conn -> {"none", "Connecting", "Connected", "Disconnected", "Destroyed"}]
    /\ idle \in [Conn -> 0..MaxIdle] /\ probe \in [Conn -> -1..MaxIdle]
    /\ \A l \in Loops : \A i \in DOMAIN queue[l] : queue[l][i].conn \in Conn

\* Functor f of connection c is pending on loop l exactly once if it is due there, and
\* not at all otherwise.
Pending(l, f, c, due) ==
    LET positions == {i \in DOMAIN queue[l] : queue[l][i].run = f /\ queue[l][i].conn = c}
    IN  IF due THEN \E i \in positions : positions = {i} ELSE positions = {}

\* No connection is lost between the loops and none is handled twice: a listed
\* one is being established, is up, or is closed with exactly one removal under
\* way; one that is not listed any more is closed and has exactly one destruction
\* under way or behind it, and nothing establishes it again.
ConnectionsTracked ==
    \A c \in Conn :
        LET listed == c \in connections
        IN  /\ state[c] \in IF listed THEN {"Connecting", "Connected", "Disconnected"}
                                       ELSE {"none", "Disconnected", "Destroyed"}
            /\ Pending(home[c], "established", c, listed /\ state[c] = "Connecting")
            /\ Pending(Main, "remove", c, listed /\ state[c] = "Disconnected")
            /\ Pending(home[c], "destroyed", c, ~listed /\ state[c] = "Disconnected")

\* A connection that stays silent for the idle timeout is closed, unlisted and
\* destroyed, heartbeats or not, unless it speaks again first.
IdleIsReleased ==
    (IdleTimeout > 0 /\ ~IdleCallback) =>
        \A c \in Conn :
            (state[c] = "Connected" /\ idle[c] >= IdleTimeout) ~>
                (state[c] = "Destroyed" \/ idle[c] < IdleTimeout)

=============================================================================
