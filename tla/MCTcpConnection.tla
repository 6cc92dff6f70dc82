-------------------------- MODULE MCTcpConnection --------------------------
(***************************************************************************)
(* TcpConnection on small sets, for TLC, and in the same run net::Buffer,  *)
(* whose bytes TcpConnection abstracts from.  `part' picks one of the two  *)
(* at the start; it moves, the other stays where it began.                 *)
(***************************************************************************)
EXTENDS TcpConnection, TLC

CONSTANTS m1, m2,
          kCheapPrepend, InitialSize, Extra, MaxCall, MaxBytes   \* of the buffer

ASSUME BufferAssumption ==
    {kCheapPrepend, InitialSize, Extra, MaxCall, MaxBytes} \subseteq Nat

VARIABLES part, buffer, stream, put, prepended

bufferVars == <<buffer, stream, put, prepended>>

B == INSTANCE BufferStream WITH fresh <- put

\* A message of one byte, and one that the kernel may take in parts: of what it
\* leaves, two bytes fit into the output buffer and three do not.
MCSize == m1 :> 1 @@ m2 :> 4

MCInit == part \in {"connection", "buffer"} /\ Init /\ B!Init

MCNext ==
    /\ UNCHANGED part
    /\ \/ part = "connection" /\ Next /\ UNCHANGED bufferVars
       \/ part = "buffer" /\ B!Next /\ UNCHANGED vars

\* The fairness of TcpConnection.
MCSpec ==
    /\ MCInit /\ [][MCNext]_<<part, vars, bufferVars>>
    /\ WF_vars(part = "connection" /\ LoopStep) /\ SF_vars(part = "connection" /\ Poll(TRUE))
    /\ \A t \in Thread : WF_vars(part = "connection" /\ ShutdownStore(t))

-----------------------------------------------------------------------------
\* BufferStream: the readable bytes are those put in and not taken out, in order,
\* whatever makeSpace() moves.
BufferIsStream == B!BufferIsStream
=============================================================================
