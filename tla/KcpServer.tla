------------------------------ MODULE KcpServer ------------------------------
(***************************************************************************)
(* net/kcp_server.cpp and net/kcp_session.cpp: reliable sessions over UDP. *)
(* The server's loop (Base) reads datagrams, finds or creates the session  *)
(* of their key (conv, token, peer address) in m_sessions and passes them  *)
(* to the session's io loop.  A session is touched by its own loop only;   *)
(* other threads post functors.  A session that closes asks the server's   *)
(* loop to erase it.                                                       *)
(*                                                                         *)
(* The peer and the network are the environment: a datagram of any key may *)
(* arrive at any time (lost, repeated, late ones included), and what       *)
(* ikcp.c makes of it (an error, acknowledgements, messages) is open.      *)
(* The application reacts in its callbacks and from other threads.         *)
(***************************************************************************)
EXTENDS Integers, Sequences

CONSTANTS
    Key,            \* (conv, token, peer) triples
    Base,           \* the server's loop
    IoLoop,         \* the loops of the thread pool
    MaxSessions,    \* bound: sessions ever created
    MaxSnd,         \* bound: messages a session has unacknowledged
    MaxDatagrams,   \* bound: datagrams received
    MaxCalls        \* bound: calls made by other threads

VARIABLES
    loopOf,     \* getLoopForHash: the io loop of a key
    idleTimeout,\* m_options.idleTimeout > 0
    sessions,   \* m_sessions: the session of a key, 0 for none
    session,    \* the KcpSession objects, in the order of their creation
    queue,      \* the functors queued on a loop
    closes,     \* history: runs of m_closeCallback for a session
    datagrams,  \* received so far
    calls       \* made so far by other threads

vars == <<loopOf, idleTimeout, sessions, session, queue, closes, datagrams, calls>>

Loop == {Base} \cup IoLoop
Calls == {"send", "shutdown", "forceClose"}

-----------------------------------------------------------------------------
\* KcpSession: what its functions do to the object, in its loop.

Session ==
    [key : Key, waitsnd : 0..MaxSnd, idle : BOOLEAN, extra : 0..1,
     state : {"Connecting", "Connected", "Disconnecting", "Disconnected"},
     timer : {"none", "armed", "fired"}]

\* timer is what m_updateTimerId names: no timer, one that waits, or one that has
\* fired; extra counts waiting timers that it no longer names.
NewSession(k) ==
    [key |-> k, state |-> "Connecting", waitsnd |-> 0, idle |-> FALSE,
     timer |-> "none", extra |-> 0]

CancelUpdateTimer(s) == [s EXCEPT !.timer = "none"]

RunAfter(s) ==
    [s EXCEPT !.timer = "armed", !.extra = IF s.timer = "armed" THEN @ + 1 ELSE @]

\* Mutant: the update timer is armed on a closed session too.
ScheduleUpdateAlways(s) == RunAfter(CancelUpdateTimer(s))
ScheduleUpdate(s) ==
    IF s.state = "Disconnected" THEN s ELSE RunAfter(CancelUpdateTimer(s))

TouchActive(s) == [s EXCEPT !.idle = FALSE]

HandleClose(s) ==
    IF s.state = "Disconnected" THEN s
    ELSE [CancelUpdateTimer(s) EXCEPT !.state = "Disconnected"]

ConnectEstablished(s) == ScheduleUpdate([s EXCEPT !.state = "Connected"])

\* At the bound the send fails, which changes nothing.
SendInLoop(s) ==
    IF s.state \in {"Disconnected", "Disconnecting"} \/ s.waitsnd = MaxSnd THEN s
    ELSE ScheduleUpdate(TouchActive([s EXCEPT !.waitsnd = @ + 1]))

ShutdownInLoop(s) ==
    IF s.state = "Disconnected" THEN s
    ELSE LET d == [s EXCEPT !.state = "Disconnecting"]
         IN  IF s.waitsnd = 0 THEN HandleClose(d) ELSE d

\* What a callback of the application may leave: its calls run at once, in the loop.
React(s) == {s, SendInLoop(s), ShutdownInLoop(s), HandleClose(s)}

\* drainRecvQueue(): the message callback may react and the queue is read on
\* whatever it did; a message above maxMessageBytes closes the session and ends the
\* function.  Otherwise, with nothing left to send, the write-complete callback may
\* react as well.
DrainRecvQueue(s, readable) ==
    LET read == IF readable THEN React(s) ELSE {s}
    IN  (UNION {IF t.waitsnd = 0 THEN React(t) ELSE {t} : t \in read})
            \cup (IF readable THEN {HandleClose(t) : t \in read} ELSE {})

CloseIfSent(s) ==
    IF s.state = "Disconnecting" /\ s.waitsnd = 0 THEN HandleClose(s) ELSE s

\* ikcp_input fails, and the error callback may react; or it acknowledges some of
\* what was sent and may complete messages.
InputPacketInLoop(s) ==
    IF s.state = "Disconnected" THEN {s}
    ELSE LET acked   == {[TouchActive(s) EXCEPT !.waitsnd = n] : n \in 0..s.waitsnd}
             drained == UNION {DrainRecvQueue(t, readable) : t \in acked, readable \in BOOLEAN}
         IN  React(s) \cup {CloseIfSent(u) : u \in {ScheduleUpdate(t) : t \in drained}}

\* Mutant: the update does not schedule the next one.
UpdateInLoopOnce(s) ==
    IF s.state = "Disconnected" THEN {s}
    ELSE {IF idleTimeout /\ t.idle THEN HandleClose(t) ELSE CloseIfSent(t) :
             t \in DrainRecvQueue(s, FALSE)}
UpdateInLoop(s) ==
    IF s.state = "Disconnected" THEN {s}
    ELSE {IF idleTimeout /\ t.idle THEN HandleClose(t) ELSE CloseIfSent(t) :
             t \in {ScheduleUpdate(u) : u \in DrainRecvQueue(s, FALSE)}}

-----------------------------------------------------------------------------
Init ==
    /\ loopOf \in IF IoLoop = {} THEN [Key -> {Base}] ELSE [Key -> {Base}] \cup [Key -> IoLoop]
    /\ idleTimeout \in BOOLEAN
    /\ sessions = [k \in Key |-> 0] /\ session = <<>> /\ closes = <<>>
    /\ queue = [l \in Loop |-> <<>>]
    /\ datagrams = 0 /\ calls = 0

Post(q, l, op, i) == [q EXCEPT ![l] = Append(@, [op |-> op, id |-> i])]

Erase(m, i) == [k \in Key |-> IF m[k] = i THEN 0 ELSE m[k]]

\* The session becomes t; its close callback, handleSessionClose, erases it from m,
\* at once in the server's loop and by a functor from another.
SessionStep(objects, i, t, m, counts, q) ==
    LET closing == objects[i].state # "Disconnected" /\ t.state = "Disconnected"
        here    == loopOf[t.key] = Base
    IN  /\ session' = [objects EXCEPT ![i] = t]
        /\ queue' = IF closing /\ ~here THEN Post(q, Base, "erase", i) ELSE q
        /\ sessions' = IF closing /\ here THEN Erase(m, i) ELSE m
        /\ closes' = IF closing /\ here THEN [counts EXCEPT ![i] = @ + 1] ELSE counts

\* handleRead finds the session of the datagram's key.
ReadKnown(k) ==
    LET i == sessions[k]
    IN  /\ i # 0
        /\ IF loopOf[k] = Base
           THEN \E t \in InputPacketInLoop(session[i]) :
                    SessionStep(session, i, t, sessions, closes, queue)
           ELSE /\ queue' = Post(queue, loopOf[k], "input", i)
                /\ UNCHANGED <<session, sessions, closes>>

\* handleRead creates it: the connection callback may react, and the datagram is
\* dropped when that closed the session at once.
CreateSession(k) ==
    LET i       == Len(session) + 1
        new     == NewSession(k)
        objects == Append(session, new)
        m       == [sessions EXCEPT ![k] = i]
        q       == Post(queue, loopOf[k], "establish", i)
    IN  /\ sessions[k] = 0 /\ i <= MaxSessions
        /\ IF loopOf[k] = Base
           THEN \E up \in React(ConnectEstablished(new)) :
                \E t \in IF up.state = "Disconnected" THEN {up} ELSE InputPacketInLoop(up) :
                    SessionStep(objects, i, t, m, Append(closes, 0), queue)
           ELSE /\ session' = objects /\ sessions' = m /\ closes' = Append(closes, 0)
                /\ \E called \in {q} \cup {Post(q, loopOf[k], op, i) : op \in Calls} :
                    queue' = Post(called, loopOf[k], "input", i)

HandleRead(k) ==
    /\ datagrams < MaxDatagrams /\ datagrams' = datagrams + 1
    /\ ReadKnown(k) \/ CreateSession(k)
    /\ UNCHANGED <<loopOf, idleTimeout, calls>>

\* send(), shutdown() and forceClose() from another thread.
Call(i, op) ==
    /\ calls < MaxCalls /\ calls' = calls + 1
    /\ queue' = Post(queue, loopOf[session[i].key], op, i)
    /\ UNCHANGED <<loopOf, idleTimeout, sessions, session, closes, datagrams>>

\* A loop runs its next functor; a failed send only calls the error callback.
RunFunctor(l) ==
    /\ queue[l] # <<>>
    /\ LET f    == Head(queue[l])
           s    == session[f.id]
           rest == [queue EXCEPT ![l] = Tail(@)]
           Step(t) == SessionStep(session, f.id, t, sessions, closes, rest)
       IN  \/ f.op = "establish" /\ Step(ConnectEstablished(s))
           \/ f.op = "input" /\ \E t \in InputPacketInLoop(s) : Step(t)
           \/ f.op = "send" /\ Step(SendInLoop(s))
           \/ /\ f.op = "send" /\ s.state \in {"Connecting", "Connected"}
              /\ \E t \in React(s) : Step(t)
           \/ f.op = "shutdown" /\ Step(ShutdownInLoop(s))
           \/ f.op = "forceClose" /\ Step(HandleClose(s))
           \/ /\ f.op = "erase"
              /\ sessions' = Erase(sessions, f.id) /\ queue' = rest
              /\ closes' = [closes EXCEPT ![f.id] = @ + 1]
              /\ UNCHANGED session
    /\ UNCHANGED <<loopOf, idleTimeout, datagrams, calls>>

\* An update timer fires: the one the session knows of, or another.
FireTimer(i) ==
    LET s == session[i]
        t == IF s.timer = "armed" THEN [s EXCEPT !.timer = "fired"] ELSE [s EXCEPT !.extra = @ - 1]
    IN  /\ s.timer = "armed" \/ s.extra > 0
        /\ \E u \in UpdateInLoop(t) :
                SessionStep(session, i, u, sessions, closes, queue)
        /\ UNCHANGED <<loopOf, idleTimeout, datagrams, calls>>

\* The idle timeout passes without activity.
IdlePasses(i) ==
    /\ idleTimeout /\ ~session[i].idle /\ session[i].state # "Disconnected"
    /\ session' = [session EXCEPT ![i].idle = TRUE]
    /\ UNCHANGED <<loopOf, idleTimeout, sessions, queue, closes, datagrams, calls>>

Next ==
    \/ \E k \in Key : HandleRead(k)
    \/ \E l \in Loop : RunFunctor(l)
    \/ \E i \in DOMAIN session :
        \/ \E op \in Calls : Call(i, op)
        \/ FireTimer(i) \/ IdlePasses(i)

Spec == Init /\ [][Next]_vars

\* The loops run what is queued and what is due, and time passes.  It is enough
\* that some functor runs while any is queued, and some timer fires.
Fairness ==
    /\ WF_vars(\E l \in Loop : RunFunctor(l))
    /\ WF_vars(\E i \in DOMAIN session : FireTimer(i))
    /\ WF_vars(\E i \in DOMAIN session : IdlePasses(i))

FairSpec == Spec /\ Fairness

-----------------------------------------------------------------------------
Pending(l, op, i) == \E n \in DOMAIN queue[l] : queue[l][n] = [op |-> op, id |-> i]

TypeOK ==
    /\ sessions \in [Key -> 0..MaxSessions] /\ closes \in Seq(0..1)
    /\ session \in Seq(Session)

\* m_sessions and the sessions agree whatever the loops and the network do: a live
\* session is the one datagrams of its key reach, a closed one is out of the map or
\* its erasure is on its way, and the close callback runs once.  Between two
\* functors a live session has one update timer waiting, a closed one has none.
SessionsTracked ==
    \A i \in DOMAIN session :
        LET s == session[i]
        IN  /\ s.state # "Disconnected" => sessions[s.key] = i /\ closes[i] = 0
            /\ s.state = "Disconnected" =>
                \/ sessions[s.key] # i /\ closes[i] = 1 /\ ~Pending(Base, "erase", i)
                \/ sessions[s.key] = i /\ closes[i] = 0 /\ Pending(Base, "erase", i)
            /\ s.state \in {"Connected", "Disconnecting"} => s.timer = "armed" /\ s.extra = 0
            /\ s.state = "Disconnected" => s.timer = "none" /\ s.extra = 0

\* A session leaves m_sessions in the end once it is closed, and with an idle
\* timeout also when its peer has gone silent: updateInLoop reschedules itself
\* until then, whatever the callbacks do.
SilentSessionsEnd ==
    \A i \in 1..MaxSessions :
        LET Has == i \in DOMAIN session
        IN  (Has /\ (idleTimeout \/ session[i].state = "Disconnected"))
                ~> (Has /\ sessions[session[i].key] # i)
=============================================================================
