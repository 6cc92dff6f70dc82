---------------------------- MODULE BufferStream ----------------------------
(***************************************************************************)
(* The calls a user makes of one net::Buffer, beside the byte sequence the *)
(* buffer stands for.  Every byte put in is a new number.                  *)
(***************************************************************************)
EXTENDS Buffer

CONSTANTS InitialSize,  \* the size asked of the constructor
          Extra,        \* the size of readFdResult()'s second array
          MaxCall,      \* bound: bytes of one call
          MaxBytes      \* bound: bytes put in

VARIABLES buffer,
          stream,     \* history: what the readable bytes should be
          fresh,      \* history: bytes put in so far
          prepended   \* history: prepend() was called

vars == <<buffer, stream, fresh, prepended>>

Init ==
    /\ buffer = New(InitialSize) /\ stream = <<>>
    /\ fresh = 0 /\ prepended = FALSE

Bytes(n) == [i \in 1..n |-> fresh + i]
Takes(n) == ~buffer.wild /\ fresh + n <= MaxBytes /\ fresh' = fresh + n

AppendBytes(n) ==
    /\ Takes(n)
    /\ buffer' = AppendTo(buffer, Bytes(n))
    /\ stream' = stream \o Bytes(n)
    /\ UNCHANGED prepended

ReadFromSocket(n) ==
    /\ n > 0 /\ n <= WritableBytes(buffer) + IF WritableBytes(buffer) < Extra THEN Extra ELSE 0
    /\ Takes(n)
    /\ buffer' = ReadFd(buffer, Bytes(n))
    /\ stream' = stream \o Bytes(n)
    /\ UNCHANGED prepended

PrependBytes(n) ==
    /\ n > 0 /\ n <= buffer.reader
    /\ Takes(n)
    /\ buffer' = Prepend(buffer, Bytes(n))
    /\ stream' = Bytes(n) \o stream
    /\ prepended' = TRUE

\* retrieve(), retrieveAsString(), and writeFdResult() after a write of n bytes.
RetrieveBytes(n) ==
    /\ ~buffer.wild
    /\ buffer' = Retrieve(buffer, n)
    /\ stream' = SubSeq(stream, n + 1, Len(stream))
    /\ UNCHANGED <<fresh, prepended>>

UnwriteBytes(n) ==
    /\ ~buffer.wild /\ n <= ReadableBytes(buffer)
    /\ buffer' = Unwrite(buffer, n)
    /\ stream' = SubSeq(stream, 1, Len(stream) - n)
    /\ UNCHANGED <<fresh, prepended>>

EnsureWritable(n) ==
    /\ ~buffer.wild
    /\ buffer' = EnsureWritableBytes(buffer, n)
    /\ UNCHANGED <<stream, fresh, prepended>>

ShrinkTo(n) ==
    /\ ~buffer.wild
    /\ buffer' = Shrink(buffer, n)
    /\ UNCHANGED <<stream, fresh, prepended>>

Next ==
    \E n \in 0..MaxCall :
        \/ AppendBytes(n) \/ ReadFromSocket(n) \/ PrependBytes(n) \/ RetrieveBytes(n)
        \/ UnwriteBytes(n) \/ EnsureWritable(n) \/ ShrinkTo(n)

Spec == Init /\ [][Next]_vars

-----------------------------------------------------------------------------
TypeOK ==
    /\ fresh \in 0..MaxBytes /\ {prepended, buffer.wild} \subseteq BOOLEAN
    /\ buffer.reader \in Nat /\ buffer.writer \in Nat
    /\ buffer.cells \in Seq(0..MaxBytes) /\ stream \in Seq(1..MaxBytes)

\* Whatever makeSpace() moves, wraps or grows, the readable bytes are those put in
\* and not taken out, in order; and as long as prepend() is not used the indices
\* stay inside the vector.
BufferIsStream ==
    /\ ~buffer.wild => /\ buffer.reader <= buffer.writer
                       /\ buffer.writer <= Len(buffer.cells)
                       /\ View(buffer) = stream
    /\ buffer.wild => prepended
=============================================================================
