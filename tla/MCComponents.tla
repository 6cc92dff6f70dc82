---------------------------- MODULE MCComponents ----------------------------
(***************************************************************************)
(* Components that do not interact and that are checked by invariants      *)
(* only, in one run: the TCP client, the frames, the timer wheel, the      *)
(* rotating file sink and fractions.  `part' picks one of them at the      *)
(* start; it moves, the others stay where they began.                      *)
(***************************************************************************)
EXTENDS TcpClient

CONSTANTS Timer, Timeouts, MaxLag, MaxNow,
          MaxMessages, MaxLines

VARIABLES
    part,
    mode, peerMode, wire, input, closed, sent, received,
    now, lastTick, cur, slot, left, wheel, target, calling, epoch, due, slack, aligned,
    files, open, held, rotation, i, line, written, smooth,
    fraction, exact, torn

frameVars == <<mode, peerMode, wire, input, closed, sent, received>>
wheelVars == <<now, lastTick, cur, slot, left, wheel, target, calling, epoch, due, slack, aligned>>
sinkVars == <<files, open, held, rotation, i, line, written, smooth>>
fractionVars == <<fraction, exact, torn>>

F == INSTANCE FramedStream
        WITH kCheapPrepend <- 1, InitialSize <- 2, Extra <- 3, Radix <- 3, FieldBytes <- 2,
             MaxFrameLength <- 6, PeerMaxFrame <- 7, Lengths <- {0, 1, 4, 5}
W == INSTANCE TimerWheel WITH Counts <- <<4, 2, 2>>
S == INSTANCE RotatingFileSink
        WITH m_maxFileSize <- 2, m_maxFiles <- 3, BufferSize <- 1, Sizes <- {1, 2},
             buffer <- held, pc <- rotation
A == INSTANCE Fraction WITH Bits <- 4, x <- fraction

MCInit ==
    /\ part \in {"client", "frames", "wheel", "sink", "fraction"}
    /\ Init /\ W!Init /\ S!Init
    /\ A!Init /\ (part # "fraction" => fraction.num = 0)
    /\ F!Init /\ (part # "frames" => mode = "PayloadOnly" /\ peerMode = mode)

MCNext ==
    /\ UNCHANGED part
    /\ \/ /\ part = "client" /\ Next
          /\ UNCHANGED <<frameVars, wheelVars, sinkVars, fractionVars>>
       \/ /\ part = "frames" /\ F!Next
          /\ UNCHANGED <<vars, wheelVars, sinkVars, fractionVars>>
       \/ /\ part = "wheel" /\ W!Next
          /\ UNCHANGED <<vars, frameVars, sinkVars, fractionVars>>
       \/ /\ part = "sink" /\ S!Next
          /\ UNCHANGED <<vars, frameVars, wheelVars, fractionVars>>
       \/ /\ part = "fraction" /\ A!Next
          /\ UNCHANGED <<vars, frameVars, wheelVars, sinkVars>>

MCSpec ==
    MCInit /\ [][MCNext]_<<part, vars, frameVars, wheelVars, sinkVars, fractionVars>>

-----------------------------------------------------------------------------
\* FramedStream: frames arrive once, in order and whole, however the stream is cut.
FramesIntact == F!FramesIntact

\* TimerWheel: a timer fires on the tick it was registered for, plus the backlog its
\* cascades added.
FiresOnTick == W!FiresOnTick

\* RotatingFileSink: the files hold the newest bytes written, in order, whatever step
\* of a rotation fails.
RotationKeepsNewest == part = "sink" => S!RotationKeepsNewest

\* Fraction: the exact value in lowest terms, or an exception.
FractionExact == part = "fraction" => A!FractionExact
=============================================================================
