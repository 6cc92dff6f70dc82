--------------------------- MODULE TcpConnection ---------------------------
(***************************************************************************)
(* net::TcpConnection with its Channel: one connection, its loop thread,   *)
(* other threads that call it, the kernel's socket and the peer.           *)
(*                                                                         *)
(* Everything but m_state is touched by the loop thread alone, so a        *)
(* handler is one step, cut where it calls back into user code that calls  *)
(* the connection again: the message callback inside the read loop, the    *)
(* write-complete callback and the connection callback when it comes up.   *)
(* The callbacks for errors, the high-water mark and going down observe.   *)
(* Calls of other threads go through the loop's functor queue, which       *)
(* EventLoop shows to be a queue; only shutdown() writes m_state from      *)
(* where it is called.                                                     *)
(*                                                                         *)
(* The connection is one record, and each member function an operator that *)
(* maps a connection to what becomes of it.  A message is a sequence of    *)
(* bytes <<m, i>>.                                                         *)
(***************************************************************************)
EXTENDS Naturals, Sequences

CONSTANTS
    Thread,       \* threads other than the loop's
    Message,      \* the messages users send, each once
    Size,         \* the length of every message, in bytes
    MaxOutput,    \* m_maxOutputBufferBytes
    Policy,       \* m_outputOverflowPolicy
    PauseMark,    \* m_readPauseHighWaterMark, 0 when flow control is off
    ResumeMark,   \* m_readResumeLowWaterMark
    MaxInput,     \* bound: how many bytes the peer sends
    Remote,       \* the calls other threads make besides send and forceClose
    MaxQueue      \* bound: how many calls of other threads wait in the loop's queue

ASSUME ConnectionAssumption ==
    /\ Size \in [Message -> Nat \ {0}]
    /\ Policy \in {"Ignore", "CloseConnection", "ReportError"}
    /\ {MaxOutput, PauseMark, ResumeMark, MaxInput, MaxQueue} \subseteq Nat
    /\ PauseMark # 0 => ResumeMark < PauseMark
    /\ Remote \subseteq {"shutdown", "startRead", "stopRead"}

VARIABLES
    conn,      \* the TcpConnection
    lpc,       \* the loop thread: "idle", in the read loop, or in a callback
    events,    \* the revents of the channel still to be handled, in order
    queue,     \* the functors queued for this connection
    tpc,       \* a thread inside shutdown(): between the test and the store
    inbox,     \* bytes received and not read yet
    received,  \* bytes received so far
    peerFin,   \* the peer has closed its side
    broken,    \* the kernel reports an error on the socket
    doomed,    \* the owner's close callback has asked for connectDestroyed
    fresh      \* messages not sent yet

vars == <<conn, lpc, events, queue, tpc, inbox, received, peerFin, broken, doomed, fresh>>
kernelVars == <<inbox, received, peerFin, broken>>

\* conn.state     m_state
\* conn.reading, conn.writing   the channel's interest; the poller knows the
\*                channel exactly when one of them is set (updateChannel)
\* conn.out       m_outputBuffer; conn.wire what the kernel has taken
\* conn.taken     history: the bytes of every message sendInLoop accepted
\* conn.paused    m_readPausedByFlowControl
\* conn.fin       shutdownWrite() was called
\* conn.notes     history: the connection callbacks, "up" or "down"
\* conn.closes    history: how often the close callback was called
\* conn.lost      history: a close the peer asked for left input unread
\* conn.destroyed connectDestroyed() has run
\* conn.revived   history: a call of another thread acted on a closed connection
\* conn.cut       history: part of a message was written and the rest did not fit
NewConnection ==
    [state |-> "Connecting", reading |-> FALSE, writing |-> FALSE, out |-> <<>>, wire |-> <<>>,
     taken |-> <<>>, paused |-> FALSE, fin |-> FALSE, notes |-> <<>>, closes |-> 0,
     lost |-> FALSE, destroyed |-> FALSE, revived |-> FALSE, cut |-> FALSE]

Init ==
    /\ conn = NewConnection
    /\ lpc = "idle" /\ events = <<>> /\ queue = <<<<"establish">>>>
    /\ tpc = [t \in Thread |-> "idle"]
    /\ inbox = 0 /\ received = 0 /\ peerFin = FALSE /\ broken = FALSE
    /\ doomed = FALSE /\ fresh = Message

-----------------------------------------------------------------------------
\* The member functions, as what they make of a connection c.

Bytes(m) == [i \in 1..Size[m] |-> <<m, i>>]

\* Mutant: the channel is not disabled.
HandleCloseKeepsChannel(c) ==
    IF c.state = "Disconnected" THEN c
    ELSE [c EXCEPT !.state = "Disconnected", !.notes = Append(@, "down"), !.closes = @ + 1]

HandleClose(c) ==
    IF c.state = "Disconnected" THEN c
    ELSE [c EXCEPT !.state = "Disconnected", !.reading = FALSE, !.writing = FALSE,
                   !.notes = Append(@, "down"), !.closes = @ + 1]

\* handleOutputOverflow: the error callback only observes.
HandleOutputOverflow(c) == IF Policy = "CloseConnection" THEN HandleClose(c) ELSE c

MaybePauseRead(c) ==
    IF PauseMark # 0 /\ ~c.paused /\ Len(c.out) >= PauseMark
    THEN [c EXCEPT !.reading = FALSE, !.paused = TRUE] ELSE c

\* Mutant: reading is never resumed.
MaybeResumeNever(c) == c

MaybeResumeRead(c) ==
    IF PauseMark # 0 /\ c.paused /\ Len(c.out) <= ResumeMark
    THEN [c EXCEPT !.reading = TRUE, !.paused = FALSE] ELSE c

Fits(c, bytes) == Len(c.out) + Len(bytes) <= MaxOutput

\* What follows a successful handleOutputBufferAppend in sendInLoop.
Buffer(c, bytes) == MaybePauseRead([c EXCEPT !.out = @ \o bytes, !.writing = TRUE])

Take(c, bytes) == [c EXCEPT !.taken = @ \o bytes]

\* The kernel takes the first k of the bytes; the rest is buffered, or lost to
\* an overflow.
WriteFirst(c, bytes, k) ==
    LET rest  == SubSeq(bytes, k + 1, Len(bytes))
        after == [c EXCEPT !.wire = @ \o SubSeq(bytes, 1, k)]
    IN  IF rest = <<>> THEN Take(after, bytes)
        ELSE IF Fits(c, rest) THEN Take(Buffer(after, rest), bytes)
        ELSE HandleOutputOverflow(IF k = 0 THEN after
                                  ELSE [Take(after, bytes) EXCEPT !.cut = TRUE])

\* A write after shutdownWrite() or on a broken socket fails.
WriteFails(c) == c.fin \/ broken

\* sendInLoop: the possible outcomes.
SendInLoop(c, m) ==
    IF c.state = "Disconnected" THEN {c}
    ELSE IF c.writing \/ c.out # <<>> THEN {WriteFirst(c, Bytes(m), 0)}
    ELSE IF WriteFails(c) THEN {HandleClose(c)}
    ELSE {WriteFirst(c, Bytes(m), k) : k \in 0..Size[m]}

\* The write-complete callback is called from sendInLoop, as its last act.
WrittenWhole(c, d, m) == Len(d.wire) = Len(c.wire) + Size[m]

ShutdownInLoop(c) ==
    IF c.state # "Disconnected" /\ ~c.writing /\ c.out = <<>> THEN [c EXCEPT !.fin = TRUE] ELSE c

Shutdown(c) == IF c.state # "Connected" THEN c ELSE ShutdownInLoop([c EXCEPT !.state = "Disconnecting"])

StartRead(c) ==
    [c EXCEPT !.reading = TRUE, !.paused = FALSE, !.revived = @ \/ c.state = "Disconnected"]
StopRead(c) == [c EXCEPT !.reading = FALSE]

ConnectEstablished(c) ==
    [c EXCEPT !.state = "Connected", !.reading = TRUE, !.notes = Append(@, "up")]

ConnectDestroyed(c) ==
    [c EXCEPT !.state = "Disconnected", !.reading = FALSE, !.writing = FALSE, !.destroyed = TRUE,
              !.notes = IF c.state # "Disconnected" THEN Append(@, "down") ELSE @]

\* Mutant: what was written stays in the output buffer.
HandleWriteKeeps(c, k) ==
    LET d == MaybeResumeRead([c EXCEPT !.wire = @ \o SubSeq(c.out, 1, k)])
    IN  IF d.out = <<>> THEN [d EXCEPT !.writing = FALSE] ELSE d

\* handleWrite on a socket that has room for k bytes; the write-complete callback
\* and what follows it are Completed.
HandleWrite(c, k) ==
    LET d == MaybeResumeRead([c EXCEPT !.wire = @ \o SubSeq(c.out, 1, k),
                                       !.out = SubSeq(@, k + 1, Len(@))])
    IN  IF d.out = <<>> THEN [d EXCEPT !.writing = FALSE] ELSE d

\* Mutant: a pending shutdown is forgotten once the output is written.
CompletedForgets(c) == c

Completed(c) == IF c.state = "Disconnecting" THEN ShutdownInLoop(c) ELSE c

-----------------------------------------------------------------------------
\* The loop thread.

Resting == lpc = "idle" /\ events = <<>>

\* What a queued call does to the connection c.
Outcomes(c, call) ==
    CASE call[1] = "establish"  -> {ConnectEstablished(c)}
      [] call[1] = "send"       -> SendInLoop(c, call[2])
      [] call[1] = "shutdown"   -> {ShutdownInLoop(c)}
      [] call[1] = "forceClose" -> {HandleClose(c)}
      [] call[1] = "startRead"  -> {StartRead(c)}
      [] call[1] = "stopRead"   -> {StopRead(c)}
      [] call[1] = "destroy"    -> {ConnectDestroyed(c)}

CallsBack(call, c, d) ==
    call[1] = "establish" \/ (call[1] = "send" /\ WrittenWhole(c, d, call[2]))

RunFunctor ==
    /\ Resting /\ queue # <<>>
    /\ queue' = Tail(queue)
    /\ conn' \in Outcomes(conn, Head(queue))
    /\ lpc' = IF CallsBack(Head(queue), conn, conn') THEN "callback" ELSE "idle"
    /\ UNCHANGED <<events, tpc, kernelVars, doomed, fresh>>

\* The event e, when its bit is set in the revents.
Bit(set, e) == IF set THEN <<e>> ELSE <<>>

\* Mutant: the close event is handled first.
ReventsCloseFirst(writable) ==
    Bit(broken, "error")
    \o Bit(broken \/ (peerFin /\ (conn.reading \/ conn.fin)), "close")
    \o Bit(conn.reading /\ (inbox > 0 \/ peerFin \/ broken), "read")
    \o Bit(conn.writing /\ (writable \/ broken), "write")

\* epoll_wait reports what the channel asked for, and errors and hang-ups in any
\* case; handleEventWithGuard handles it in this order.
Revents(writable) ==
    Bit(broken, "error")
    \o Bit(conn.reading /\ (inbox > 0 \/ peerFin \/ broken), "read")
    \o Bit(conn.writing /\ (writable \/ broken), "write")
    \o Bit(broken \/ (peerFin /\ (conn.reading \/ conn.fin)), "close")

Poll(writable) ==
    /\ Resting /\ (conn.reading \/ conn.writing)
    /\ Revents(writable) # <<>>
    /\ events' = Revents(writable)
    /\ UNCHANGED <<conn, lpc, queue, tpc, kernelVars, doomed, fresh>>

\* The next event of the snapshot, when it is e.
Handle(e) ==
    /\ lpc = "idle" /\ events # <<>> /\ Head(events) = e
    /\ UNCHANGED <<queue, tpc, doomed, fresh>>

ErrorEvent ==
    /\ Handle("error")
    /\ conn' = HandleClose(conn)
    /\ events' = Tail(events)
    /\ UNCHANGED <<lpc, kernelVars>>

ReadEvent ==
    /\ Handle("read")
    /\ lpc' = "read"
    /\ events' = Tail(events)
    /\ UNCHANGED <<conn, kernelVars>>

\* A writable socket takes at least one byte.
WriteEvent ==
    /\ Handle("write")
    /\ events' = Tail(events)
    /\ IF ~conn.writing THEN UNCHANGED <<conn, lpc>>
       ELSE IF WriteFails(conn) THEN conn' = HandleClose(conn) /\ UNCHANGED lpc
       ELSE \E k \in 1..Len(conn.out) :
               /\ conn' = HandleWrite(conn, k)
               /\ lpc' = IF conn'.out = <<>> THEN "complete" ELSE "idle"
    /\ UNCHANGED kernelVars

CloseEvent ==
    /\ Handle("close")
    /\ conn' = [HandleClose(conn) EXCEPT
                    !.lost = @ \/ (conn.state # "Disconnected" /\ ~broken /\ inbox > 0)]
    /\ events' = Tail(events)
    /\ UNCHANGED <<lpc, kernelVars>>

\* handleRead: reads until the socket is empty, whatever the message callback did.
ReadSome ==
    /\ lpc = "read" /\ inbox > 0 /\ ~broken
    /\ \E n \in 1..inbox : inbox' = inbox - n
    /\ lpc' = "message"
    /\ UNCHANGED <<conn, events, queue, tpc, received, peerFin, broken, doomed, fresh>>

ReadEnds ==
    /\ lpc = "read" /\ (inbox > 0 => broken)
    /\ conn' = IF peerFin \/ broken THEN HandleClose(conn) ELSE conn
    /\ lpc' = "idle"
    /\ UNCHANGED <<events, queue, tpc, kernelVars, doomed, fresh>>

\* A callback returns.
Return ==
    /\ lpc \in {"message", "complete", "callback"}
    /\ lpc' = IF lpc = "message" THEN "read" ELSE "idle"
    /\ conn' = IF lpc = "complete" THEN Completed(conn) ELSE conn
    /\ UNCHANGED <<events, queue, tpc, kernelVars, doomed, fresh>>

-----------------------------------------------------------------------------
\* Calls of the user: from a callback on the loop thread they act at once.

InCallback == lpc \in {"message", "complete", "callback"}

OwnCall ==
    /\ InCallback
    /\ UNCHANGED <<lpc, events, queue, tpc, kernelVars, doomed>>

OwnSend(m) ==
    /\ OwnCall /\ m \in fresh
    /\ conn' \in SendInLoop(conn, m)
    /\ fresh' = fresh \ {m}

OwnShutdown ==
    /\ OwnCall
    /\ conn' = Shutdown(conn)
    /\ UNCHANGED fresh

OwnForceClose ==
    /\ OwnCall
    /\ conn' = HandleClose(conn)
    /\ UNCHANGED fresh

\* A user who sees that the connection is down does not resume it.
OwnStartRead ==
    /\ OwnCall /\ conn.state # "Disconnected"
    /\ conn' = StartRead(conn)
    /\ UNCHANGED fresh

OwnStopRead ==
    /\ OwnCall
    /\ conn' = StopRead(conn)
    /\ UNCHANGED fresh

\* From other threads they are queued; users have the connection once it is up.
Known == conn.notes # <<>>

QueueCall(t, call) ==
    /\ tpc[t] = "idle" /\ Known /\ Len(queue) < MaxQueue
    /\ queue' = Append(queue, call)
    /\ UNCHANGED <<conn, lpc, events, kernelVars, doomed>>

Send(t, m) ==
    /\ m \in fresh /\ conn.state # "Disconnected"
    /\ QueueCall(t, <<"send", m>>)
    /\ fresh' = fresh \ {m}
    /\ UNCHANGED tpc

\* Bound: one forceClose, startRead or stopRead of each kind is queued at a time.
Control(t, name) ==
    /\ \A k \in DOMAIN queue : queue[k] # <<name>>
    /\ name = "forceClose" => conn.state # "Disconnected"
    /\ QueueCall(t, <<name>>)
    /\ UNCHANGED <<tpc, fresh>>

\* shutdown() tests m_state and stores it in two steps.
ShutdownTest(t) ==
    /\ tpc[t] = "idle" /\ Known /\ conn.state = "Connected"
    /\ tpc' = [tpc EXCEPT ![t] = "shutdown"]
    /\ UNCHANGED <<conn, lpc, events, queue, kernelVars, doomed, fresh>>

ShutdownStore(t) ==
    /\ tpc[t] = "shutdown"
    /\ tpc' = [tpc EXCEPT ![t] = "idle"]
    /\ conn' = [conn EXCEPT !.state = "Disconnecting", !.revived = @ \/ conn.state = "Disconnected"]
    /\ queue' = Append(queue, <<"shutdown">>)
    /\ UNCHANGED <<lpc, events, kernelVars, doomed, fresh>>

\* The owner (TcpServer, TcpClient) asks for connectDestroyed: after the close
\* callback, or because it goes away itself.
Destroy ==
    /\ ~doomed /\ Known
    /\ doomed' = TRUE
    /\ queue' = Append(queue, <<"destroy">>)
    /\ UNCHANGED <<conn, lpc, events, tpc, kernelVars, fresh>>

-----------------------------------------------------------------------------
\* The peer and the kernel.

PeerSends ==
    /\ ~peerFin /\ ~broken /\ received < MaxInput
    /\ inbox' = inbox + 1 /\ received' = received + 1
    /\ UNCHANGED <<conn, lpc, events, queue, tpc, peerFin, broken, doomed, fresh>>

PeerCloses ==
    /\ ~peerFin /\ ~broken
    /\ peerFin' = TRUE
    /\ UNCHANGED <<conn, lpc, events, queue, tpc, inbox, received, broken, doomed, fresh>>

Breaks ==
    /\ ~broken
    /\ broken' = TRUE
    /\ UNCHANGED <<conn, lpc, events, queue, tpc, inbox, received, peerFin, doomed, fresh>>

-----------------------------------------------------------------------------
LoopStep ==
    \/ RunFunctor \/ Poll(TRUE) \/ ErrorEvent \/ ReadEvent \/ WriteEvent \/ CloseEvent
    \/ ReadSome \/ ReadEnds \/ Return

UserCall ==
    \/ \E m \in Message : OwnSend(m)
    \/ OwnShutdown \/ OwnForceClose \/ OwnStartRead \/ OwnStopRead
    \/ \E t \in Thread :
          \/ \E m \in Message : Send(t, m)
          \/ \E name \in {"forceClose"} \cup (Remote \ {"shutdown"}) : Control(t, name)
          \/ "shutdown" \in Remote /\ ShutdownTest(t)

Next ==
    \/ LoopStep \/ Poll(FALSE) \/ UserCall
    \/ \E t \in Thread : ShutdownStore(t)
    \/ Destroy \/ PeerSends \/ PeerCloses \/ Breaks

Spec == Init /\ [][Next]_vars

\* The loop keeps running, callbacks return, the loop polls once in every round
\* however many functors are queued, and the peer keeps reading, so that a full
\* socket becomes writable again.
FairSpec ==
    /\ Spec /\ WF_vars(LoopStep) /\ SF_vars(Poll(TRUE))
    /\ \A t \in Thread : WF_vars(ShutdownStore(t))

-----------------------------------------------------------------------------
States == {"Connecting", "Connected", "Disconnecting", "Disconnected"}
Byte == Message \X Nat
Connection ==
    [state : States, reading : BOOLEAN, writing : BOOLEAN, out : Seq(Byte), wire : Seq(Byte),
     taken : Seq(Byte), paused : BOOLEAN, fin : BOOLEAN, notes : Seq({"up", "down"}), closes : Nat,
     lost : BOOLEAN, destroyed : BOOLEAN, revived : BOOLEAN, cut : BOOLEAN]

TypeOK ==
    /\ conn \in Connection
    /\ Len(conn.out) <= MaxOutput
    /\ lpc \in {"idle", "read", "message", "complete", "callback"}
    /\ events \in Seq({"error", "read", "write", "close"})
    /\ tpc \in [Thread -> {"idle", "shutdown"}]
    /\ {inbox, received} \subseteq 0..MaxInput
    /\ {peerFin, broken, doomed} \subseteq BOOLEAN /\ fresh \subseteq Message

\* The bytes on the wire are those of the accepted messages, whole and in order:
\* what is not on the wire yet is in the output buffer, and shutdown() half-closes
\* only after every accepted byte has been written, also those accepted while it was
\* waiting.  Excepted is a message of which the kernel took a part and whose rest does
\* not fit: CloseConnection makes it the last on the wire (unless shutdown() of
\* another thread revives the connection); the other policies drop the rest and go on.
StreamIntact ==
    IF ~conn.cut THEN conn.wire \o conn.out = conn.taken /\ (conn.fin => conn.out = <<>>)
    ELSE Policy = "CloseConnection" /\ ~conn.revived =>
            conn.state = "Disconnected" /\ conn.wire = SubSeq(conn.taken, 1, Len(conn.wire))

\* Reading paused by flow control is always going to be resumed: there is output
\* above the low-water mark and the channel waits for writability.
PauseHasEnd ==
    conn.paused /\ conn.closes = 0 /\ ~conn.destroyed =>
        conn.writing /\ Len(conn.out) > ResumeMark

\* A connection comes up once and goes down once (connection callback, close
\* callback), and a closed one is not in the poller and stays out of it: unless
\* shutdown() of another thread, between its test and its store of m_state, or a
\* queued startRead() acts on a connection that was closed in the meantime.
ClosedForGood ==
    ~conn.revived =>
        /\ conn.notes \in {<<>>, <<"up">>, <<"up", "down">>} /\ conn.closes <= 1
        /\ conn.state = "Disconnected" => ~conn.reading /\ ~conn.writing

\* A close by the peer loses none of the peer's data: the read handler runs before
\* the close handler and drains the socket.
PeerCloseDeliversAll == ~conn.lost

\* A shutdown completes: the write side is shut down, or the connection closed.
ShutdownCompletes ==
    conn.state = "Disconnecting" ~> (conn.fin \/ conn.closes > 0 \/ conn.destroyed)
=============================================================================
