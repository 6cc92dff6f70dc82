----------------------------- MODULE TcpClient -----------------------------
(***************************************************************************)
(* net::TcpClient and net::Connector (src/net/tcp_client.cpp,              *)
(* connector.cpp): one client, its connection attempts, its retry timer    *)
(* and the connection it holds.                                            *)
(*                                                                         *)
(* `cl' is the state of both objects and of their event loop; the member   *)
(* functions are operators on it, with a set of results where the kernel   *)
(* chooses.  The loop runs one callback at a time.  The calls connect(),   *)
(* disconnect() and stop() come from callbacks on the loop thread and from *)
(* one other thread, whose accesses interleave with the loop's.  A         *)
(* connection (TcpConnection) is the number of its socket and is up until  *)
(* handleClose; the peer, an error or the keep-alive check may close it at *)
(* any time.  Left out: the length of the retry delay, the destructor.     *)
(***************************************************************************)
EXTENDS Integers, Sequences, FiniteSets

CONSTANTS MaxCall,   \* bound: calls of the user
          Reconnect  \* m_retry

ASSUME ClientAssumption == MaxCall \in Nat /\ Reconnect \in BOOLEAN

VARIABLES cl,        \* the client, see Init
          fresh,     \* the socket newConnection() is wrapping, 0 if none
          upc,       \* where the other thread is in its call
          calls,     \* the number of calls made
          stopped,   \* history: disconnect() or stop() was called
          quiet,     \* history: stop() returned and connect() was not called since
          raced      \* history: stop() looked at m_connection during newConnection()

vars == <<cl, fresh, upc, calls, stopped, quiet, raced>>

NewClient ==
    [started |-> FALSE, state |-> "Disconnected", sock |-> 0, retryTimer |-> 0,
     requested |-> FALSE, connection |-> 0,
     timers |-> {},     \* the armed timers of the loop
     queue |-> <<>>,    \* its pending functors
     live |-> {},       \* the open sockets
     up |-> {},         \* the connections that are not closed
     gaveUp |-> FALSE]  \* the last attempt ended in an error that is not retried

Init ==
    /\ cl = NewClient
    /\ fresh = 0 /\ upc = "idle" /\ calls = 0
    /\ stopped = FALSE /\ quiet = FALSE /\ raced = FALSE

-----------------------------------------------------------------------------
\* EventLoop and kernel, as Connector uses them.

QueueInLoop(c, f, arg) == [c EXCEPT !.queue = Append(@, [run |-> f, arg |-> arg])]

NamedTimers(c) == c.timers \cup {c.retryTimer} \cup {c.queue[i].arg : i \in DOMAIN c.queue}

\* A number that is free: socket numbers are reused once they are closed, like
\* descriptors, and timer ids once nothing names them.
Unused(taken) == CHOOSE n \in 1..(Cardinality(taken) + 1) : n \notin taken
NewTimer(c) == Unused(NamedTimers(c))
NewSocket(c) == Unused(c.live)

\* cancelTimer acts at once on the loop thread and is queued from another.
CancelTimer(c, id, inLoop) ==
    IF inLoop THEN [c EXCEPT !.timers = @ \ {id}] ELSE QueueInLoop(c, "cancel", id)

-----------------------------------------------------------------------------
\* Connector

CancelRetry(c, inLoop) ==
    IF c.retryTimer = 0 THEN c
    ELSE [CancelTimer(c, c.retryTimer, inLoop) EXCEPT !.retryTimer = 0]

\* Mutant: a failed attempt is not retried.
RetryNever(c) == [c EXCEPT !.state = "Disconnected"]

\* retry(): the timer id is never cleared when the timer fires.
Retry(c) ==
    LET d == [c EXCEPT !.state = "Disconnected"]
        e == CancelRetry(d, TRUE)
        id == NewTimer(e)
    IN  IF ~c.started THEN d
        ELSE [e EXCEPT !.retryTimer = id, !.timers = @ \cup {id}]

\* removeAndResetChannelRaw() and close() of what it returns.
DropSocket(c) == [c EXCEPT !.live = @ \ {c.sock}, !.sock = 0]

Connecting(c) ==
    LET s == NewSocket(c)
    IN  [c EXCEPT !.state = "Connecting", !.sock = s, !.live = @ \cup {s}]

\* connect(): in progress, a retryable error, or another error.
Connect(c) ==
    LET d == [c EXCEPT !.gaveUp = FALSE]
    IN  {Connecting(d), Retry(d), [c EXCEPT !.gaveUp = TRUE]}

StartInLoop(c) ==
    IF c.started /\ c.state = "Disconnected" THEN Connect(c) ELSE {c}

\* Mutant: forgets the attempt without closing its socket.
StopInLoopLeaks(c) ==
    [c EXCEPT !.started = FALSE, !.sock = 0,
              !.state = IF @ = "Connecting" THEN "Disconnected" ELSE @]

StopInLoop(c) ==
    LET d == [c EXCEPT !.started = FALSE,
                       !.state = IF @ = "Connecting" THEN "Disconnected" ELSE @]
    IN  IF c.sock # 0 THEN DropSocket(d) ELSE d

Start(c, inLoop) ==
    LET d == [c EXCEPT !.started = TRUE]
    IN  IF inLoop THEN StartInLoop(d) ELSE {QueueInLoop(d, "start", 0)}

\* stop() queues stopInLoop even on the loop thread.
Stop(c, inLoop) ==
    QueueInLoop(CancelRetry([c EXCEPT !.started = FALSE], inLoop), "stop", 0)

Restart(c) ==
    QueueInLoop([CancelRetry(c, TRUE) EXCEPT !.started = TRUE], "restart", 0)

-----------------------------------------------------------------------------
\* TcpClient

\* removeConnection(), the close callback of a connection.
RemoveConnection(c, s) ==
    LET d == [c EXCEPT !.connection = IF @ = s THEN 0 ELSE @]
        e == QueueInLoop(d, "destroy", s)
    IN  IF Reconnect /\ c.requested THEN Restart(e) ELSE e

\* TcpConnection::handleClose, once per connection.
HandleClose(c, s) ==
    IF s \in c.up THEN RemoveConnection([c EXCEPT !.up = @ \ {s}], s) ELSE c

\* forceClose() of the connection the client holds.
ForceClose(c, inLoop) ==
    IF c.connection = 0 THEN c
    ELSE IF inLoop THEN HandleClose(c, c.connection)
         ELSE QueueInLoop(c, "forceClose", c.connection)

\* What a pending functor does.
RunFunctor(c, f) ==
    CASE f.run = "start"      -> StartInLoop(c)
      [] f.run = "stop"       -> {StopInLoop(c)}
      [] f.run = "restart"    -> StartInLoop([c EXCEPT !.state = "Disconnected"])
      [] f.run = "cancel"     -> {[c EXCEPT !.timers = @ \ {f.arg}]}
      [] f.run = "destroy"    -> {[c EXCEPT !.live = @ \ {f.arg}]}
      [] f.run = "forceClose" -> {HandleClose(c, f.arg)}

-----------------------------------------------------------------------------
\* What the loop thread does; fresh = 0 means it is between two callbacks.

DoPendingFunctor ==
    /\ fresh = 0 /\ cl.queue # <<>>
    /\ cl' \in RunFunctor([cl EXCEPT !.queue = Tail(@)], Head(cl.queue))
    /\ UNCHANGED <<fresh, upc, calls, stopped, quiet, raced>>

RetryTimerFires ==
    /\ fresh = 0
    /\ \E i \in cl.timers : cl' \in StartInLoop([cl EXCEPT !.timers = @ \ {i}])
    /\ UNCHANGED <<fresh, upc, calls, stopped, quiet, raced>>

\* handleError(), or handleWrite() with an error or a self-connect.
AttemptFails ==
    /\ fresh = 0 /\ cl.state = "Connecting"
    /\ cl' = Retry(DropSocket(cl))
    /\ UNCHANGED <<fresh, upc, calls, stopped, quiet, raced>>

\* Mutant: newConnection() does not ask whether a connection is still wanted.
AttemptSucceedsAlways ==
    /\ fresh = 0 /\ cl.state = "Connecting"
    /\ cl' = [cl EXCEPT !.state = "Connected", !.sock = 0]
    /\ fresh' = cl.sock
    /\ UNCHANGED <<upc, calls, stopped, quiet, raced>>

\* handleWrite() without an error, and newConnection() up to its first test: a
\* socket that is no longer wanted is closed.
AttemptSucceeds ==
    /\ fresh = 0 /\ cl.state = "Connecting"
    /\ IF cl.started /\ cl.requested
       THEN /\ cl' = [cl EXCEPT !.state = "Connected", !.sock = 0]
            /\ fresh' = cl.sock
       ELSE /\ cl' = [DropSocket(cl) EXCEPT !.state = "Connected"]
            /\ UNCHANGED fresh
    /\ UNCHANGED <<upc, calls, stopped, quiet, raced>>

\* The rest of newConnection().
NewConnection ==
    /\ fresh # 0
    /\ cl' = [cl EXCEPT !.connection = fresh, !.up = @ \cup {fresh}]
    /\ fresh' = 0
    /\ UNCHANGED <<upc, calls, stopped, quiet, raced>>

\* The peer, an error or checkKeepAlive() closes a connection.
ConnectionCloses ==
    /\ fresh = 0
    /\ \E s \in cl.up : cl' = HandleClose(cl, s)
    /\ UNCHANGED <<fresh, upc, calls, stopped, quiet, raced>>

-----------------------------------------------------------------------------
\* Calls from a callback on the loop thread.

LoopCall ==
    /\ fresh = 0 /\ calls < MaxCall
    /\ calls' = calls + 1
    /\ \/ /\ cl' \in Start([cl EXCEPT !.requested = TRUE], TRUE)
          /\ quiet' = FALSE
          /\ UNCHANGED stopped
       \/ /\ cl' = LET c == [cl EXCEPT !.requested = FALSE]
                   IN  IF c.connection # 0 THEN c ELSE Stop(c, TRUE)
          /\ stopped' = TRUE
          /\ UNCHANGED quiet
       \/ /\ cl' = ForceClose(Stop([cl EXCEPT !.requested = FALSE], TRUE), TRUE)
          /\ stopped' = TRUE /\ quiet' = (upc # "connect")
    /\ UNCHANGED <<fresh, upc, raced>>

\* Calls from the other thread, one step per access to shared state.
UserStores(call, requested) ==
    /\ upc = "idle" /\ calls < MaxCall
    /\ calls' = calls + 1
    /\ cl' = [cl EXCEPT !.requested = requested]
    /\ stopped' = (stopped \/ ~requested)
    /\ quiet' = FALSE
    /\ upc' = call
    /\ UNCHANGED <<fresh, raced>>

UserCall ==
    \/ UserStores("connect", TRUE)
    \/ \E call \in {"disconnect", "stop"} : UserStores(call, FALSE)

UserStarts ==
    /\ upc = "connect"
    /\ cl' \in Start(cl, FALSE)
    /\ upc' = "idle"
    /\ quiet' = FALSE
    /\ UNCHANGED <<fresh, calls, stopped, raced>>

\* disconnect() with a connection half-closes it: the peer's answer is awaited.
UserDisconnects ==
    /\ upc = "disconnect"
    /\ cl' = IF cl.connection # 0 THEN cl ELSE Stop(cl, FALSE)
    /\ upc' = "idle"
    /\ UNCHANGED <<fresh, calls, stopped, quiet, raced>>

UserStops ==
    /\ upc = "stop"
    /\ cl' = Stop(cl, FALSE)
    /\ upc' = "close"
    /\ UNCHANGED <<fresh, calls, stopped, quiet, raced>>

UserCloses ==
    /\ upc = "close"
    /\ cl' = ForceClose(cl, FALSE)
    /\ raced' = (raced \/ fresh # 0)
    /\ quiet' = ~cl.requested
    /\ upc' = "idle"
    /\ UNCHANGED <<fresh, calls, stopped>>

-----------------------------------------------------------------------------
Loop ==
    \/ DoPendingFunctor \/ RetryTimerFires \/ AttemptFails \/ AttemptSucceeds
    \/ NewConnection \/ ConnectionCloses

User == UserStarts \/ UserDisconnects \/ UserStops \/ UserCloses

Next == Loop \/ LoopCall \/ UserCall \/ User

Spec == Init /\ [][Next]_vars

-----------------------------------------------------------------------------
Functors == [run : {"start", "stop", "restart", "cancel", "destroy", "forceClose"}, arg : Nat]

TypeOK ==
    /\ cl \in [started : BOOLEAN, state : {"Disconnected", "Connecting", "Connected"},
               sock : Nat, retryTimer : Nat, requested : BOOLEAN, connection : Nat,
               timers : SUBSET Nat, queue : Seq(Functors), live : SUBSET Nat,
               up : SUBSET Nat, gaveUp : BOOLEAN]
    /\ fresh \in Nat /\ calls \in 0..MaxCall
    /\ upc \in {"idle", "connect", "disconnect", "stop", "close"}
    /\ {stopped, quiet, raced} \subseteq BOOLEAN

Queued(f) == {cl.queue[i].arg : i \in {j \in DOMAIN cl.queue : cl.queue[j].run = f}}

\* No socket leaks and none has two owners, however attempts, retries, closes
\* and calls of two threads interleave: an open socket belongs to the attempt, to
\* newConnection(), to the one connection that is up or to a connection waiting
\* to be destroyed, and the attempt has a socket exactly in state Connecting.
SocketsOwned ==
    /\ cl.live = ({cl.sock, fresh} \cup cl.up \cup Queued("destroy")) \ {0}
    /\ (cl.sock # 0) <=> (cl.state = "Connecting")
    /\ Cardinality({cl.sock, fresh} \ {0}) + Cardinality(cl.up) <= 1
    /\ cl.up = {cl.connection} \ {0}
    /\ {cl.sock, fresh, cl.connection} \cap Queued("destroy") \subseteq {0}

\* After stop(), once the functors pending then have run, there is no attempt
\* and no connection, until connect() is called again.  Excepted is a stop() of
\* another thread that looked for the connection while newConnection() was making it.
StopIsQuiet ==
    quiet /\ ~raced /\ cl.queue = <<>> => cl.live = {}

\* While a connection is wanted, something is under way to bring it about: no
\* failure, close or early timer makes the client forget the request.  Excepted
\* are an error that is not retried, and a client that was once told to stop or
\* to disconnect: its connector can stay in state Connected, and then connect()
\* does nothing.
RequestIsPursued ==
    Reconnect /\ cl.requested /\ upc # "connect" /\ ~stopped /\ ~cl.gaveUp =>
        \/ cl.state = "Connecting" \/ fresh # 0 \/ cl.connection # 0
        \/ cl.retryTimer \in cl.timers
        \/ Queued("start") \cup Queued("restart") # {}

=============================================================================
