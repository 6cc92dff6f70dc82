------------------------------- MODULE Buffer -------------------------------
(***************************************************************************)
(* net::Buffer (src/net/buffer.cpp): bytes between a reader and a writer   *)
(* index of one vector.  A Buffer is a record of the vector and the two    *)
(* indices, which count from 0 as in the code; the member functions are    *)
(* operators that return the Buffer after the call.                        *)
(***************************************************************************)
EXTENDS Integers, Sequences, FiniteSetsExt

CONSTANT kCheapPrepend   \* bytes kept free before the data of a new buffer

Zeros(n) == [i \in 1..n |-> 0]

New(initialSize) ==
    [cells |-> Zeros(kCheapPrepend + initialSize),
     reader |-> kCheapPrepend, writer |-> kCheapPrepend, wild |-> FALSE]

ReadableBytes(b) == b.writer - b.reader
WritableBytes(b) == Len(b.cells) - b.writer
View(b) == SubSeq(b.cells, b.reader + 1, b.writer)

\* memcpy and memmove of the bytes s to index i.
Put(cells, i, s) == [j \in DOMAIN cells |-> IF j \in (i + 1)..(i + Len(s)) THEN s[j - i] ELSE cells[j]]

RetrieveAll(b) == [b EXCEPT !.reader = kCheapPrepend, !.writer = kCheapPrepend]
Retrieve(b, len) ==
    IF len < ReadableBytes(b) THEN [b EXCEPT !.reader = @ + len] ELSE RetrieveAll(b)

\* Mutant: the bytes are moved to the front and the indices are not.
MakeSpaceStaleIndices(b, len) ==
    LET data == View(b)
        room == WritableBytes(b) + b.reader - kCheapPrepend
    IN IF room >= len
       THEN [b EXCEPT !.cells = Put(@, kCheapPrepend, data), !.reader = kCheapPrepend,
                      !.writer = kCheapPrepend + Len(data)]
       ELSE [b EXCEPT !.cells = Put(Zeros(2 * Len(@) + len), kCheapPrepend, data)]

\* makeSpace().  Its test for room subtracts kCheapPrepend last and without a sign:
\* after a prepend() it can wrap round to a huge number, and the bytes are moved
\* past the end of the vector.  Such a buffer is wild: nothing is known of it.  The
\* early return of a buffer without data is the move of no bytes.
MakeSpace(b, len) ==
    LET c    == IF ReadableBytes(b) = 0 THEN RetrieveAll(b) ELSE b
        room == WritableBytes(c) + c.reader - kCheapPrepend
        data == View(c)
        base(cells) == [c EXCEPT !.cells = Put(cells, kCheapPrepend, data),
                                 !.reader = kCheapPrepend,
                                 !.writer = kCheapPrepend + Len(data)]
    IN CASE room < 0    -> [c EXCEPT !.wild = TRUE]
         [] room >= len -> base(c.cells)
         [] OTHER       -> base(Zeros(Max({2 * Len(c.cells), kCheapPrepend + Len(data) + len})))

EnsureWritableBytes(b, len) == IF WritableBytes(b) < len THEN MakeSpace(b, len) ELSE b

\* append(): the bytes are copied behind the data, and hasWritten() counts them.
Write(b, s) ==
    IF b.wild THEN b
    ELSE [b EXCEPT !.cells = Put(@, b.writer, s), !.writer = @ + Len(s)]
AppendTo(b, s) == IF s = <<>> THEN b ELSE Write(EnsureWritableBytes(b, Len(s)), s)

Unwrite(b, len) == [b EXCEPT !.writer = @ - len]

\* prepend() of no more bytes than there are before the data.
Prepend(b, s) ==
    [b EXCEPT !.cells = Put(@, b.reader - Len(s), s), !.reader = @ - Len(s)]

\* readFdResult(): the n bytes s the socket had go to the writable space and, when
\* that is not enough, by way of a second array.
ReadFd(b, s) ==
    LET w == WritableBytes(b)
    IN IF Len(s) <= w THEN Write(b, s)
       ELSE AppendTo(Write(b, SubSeq(s, 1, w)), SubSeq(s, w + 1, Len(s)))

Shrink(b, reserve) == AppendTo(New(ReadableBytes(b) + reserve), View(b))
=============================================================================
