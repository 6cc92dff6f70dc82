-------------------------- MODULE RotatingFileSink --------------------------
(***************************************************************************)
(* log::RotatingFileSink (src/log/sink.cpp): lines go through a buffered   *)
(* stream to file 0; when it is full, file i becomes file i + 1, the       *)
(* oldest goes, and a new file 0 is begun.                                 *)
(*                                                                         *)
(* A call holds m_mutex throughout, so only one is under way.  Its steps   *)
(* on the file system are steps here, because each can fail, which leaves  *)
(* by an exception, and the process can end between two of them.  A file   *)
(* is the sequence of its bytes, a byte is the number of its line.  Errors *)
(* of the stream itself (a full disk) and of asking for the size are       *)
(* outside the model.                                                      *)
(***************************************************************************)
EXTENDS Integers, SequencesExt

CONSTANTS m_maxFileSize, m_maxFiles,
          BufferSize,  \* what the stream holds back at most
          Sizes,       \* the lengths of lines
          MaxLines     \* bound: calls of write()

VARIABLES files,    \* the files 0..m_maxFiles, Absent when they do not exist
          open,     \* m_stream.is_open()
          buffer,   \* bytes the stream has not passed on
          pc, i,    \* the place in rotateNoLock() and its loop variable
          line,     \* the line that write() is about
          written,  \* history: bytes accepted and not lost in a crash or truncated
          smooth    \* history: no step of a rotation has failed

vars == <<files, open, buffer, pc, i, line, written, smooth>>

Absent == <<0>>
Exists(k) == files[k] # Absent
Content(k) == IF Exists(k) THEN files[k] ELSE <<>>
Bytes(n, size) == [b \in 1..size |-> n]

Init ==
    /\ files = [k \in 0..m_maxFiles |-> IF k = 0 THEN <<>> ELSE Absent]
    /\ open = TRUE /\ buffer = <<>>
    /\ pc = "idle" /\ i = 0 /\ line = [number |-> 0, size |-> 0]
    /\ written = <<>> /\ smooth = TRUE

\* m_stream << formatted: the stream passes on what it likes, and at least what it
\* cannot hold.
Put(file, held, l) ==
    LET all == held \o Bytes(l.number, l.size)
    IN \E n \in 0..Len(all) :
        /\ Len(all) - n <= BufferSize
        /\ files' = [files EXCEPT ![0] = file \o SubSeq(all, 1, n)]
        /\ buffer' = SubSeq(all, n + 1, Len(all))
        /\ written' = written \o Bytes(l.number, l.size)

\* write(): the size is that of the file, without what the stream holds back.  A
\* stream that a failed rotation left closed is opened to append; when that fails,
\* write() throws and nothing has changed.
Write(size) ==
    LET l == [number |-> line.number + 1, size |-> size]
        current == Len(Content(0))
    IN /\ pc = "idle" /\ l.number <= MaxLines
       /\ line' = l
       /\ IF current > 0 /\ current + size > m_maxFileSize
            THEN /\ files' = [files EXCEPT ![0] = @ \o buffer]
                 /\ buffer' = <<>> /\ open' = FALSE
                 /\ pc' = "remove"
                 /\ UNCHANGED written
            ELSE /\ Put(Content(0), buffer, l)
                 /\ open' = TRUE /\ UNCHANGED pc
       /\ UNCHANGED <<i, smooth>>

Flush ==
    /\ pc = "idle" /\ open
    /\ files' = [files EXCEPT ![0] = @ \o buffer]
    /\ buffer' = <<>>
    /\ UNCHANGED <<open, pc, i, line, written, smooth>>

-----------------------------------------------------------------------------
\* rotateNoLock(), after the stream was closed.
Rest == UNCHANGED <<open, buffer, line, written, smooth>>

RemoveOldest ==
    /\ pc = "remove"
    /\ files' = [files EXCEPT ![m_maxFiles] = Absent]
    /\ pc' = "shift" /\ i' = m_maxFiles
    /\ Rest

\* Mutant: the files are moved in ascending order, each over the next.
MoveUpAscending ==
    /\ pc = "shift" /\ i > 1
    /\ files' = [k \in DOMAIN files |-> IF k = 0 THEN files[0]
                                       ELSE IF k = m_maxFiles THEN files[1] ELSE Absent]
    /\ i' = 1
    /\ UNCHANGED pc /\ Rest

MoveUp ==
    /\ pc = "shift" /\ i > 1
    /\ files' = IF Exists(i - 1) THEN [files EXCEPT ![i] = files[i - 1], ![i - 1] = Absent]
                                 ELSE files
    /\ i' = i - 1
    /\ UNCHANGED pc /\ Rest

MoveCurrent ==
    /\ pc = "shift" /\ i = 1
    /\ files' = IF Exists(0) THEN [files EXCEPT ![1] = files[0], ![0] = Absent] ELSE files
    /\ pc' = "open" /\ i' = 0
    /\ Rest

\* openNoLock(true), and the line that write() came with.
OpenNew ==
    /\ pc = "open"
    /\ Put(<<>>, <<>>, line)
    /\ open' = TRUE /\ pc' = "idle"
    /\ UNCHANGED <<i, line, smooth>>

\* A removal, a renaming or the opening fails, and write() throws.  Where a target
\* is removed before the renaming, it is one that does not exist any more.
StepFails ==
    /\ pc \in {"remove", "shift", "open"}
    /\ pc' = "idle" /\ i' = 0
    /\ smooth' = FALSE
    /\ UNCHANGED <<files, open, buffer, line, written>>

\* The process ends at any point and what the stream held back is lost.  The next
\* one opens the file again, to append or, if it is told so, to begin anew.
Restart(truncate) ==
    /\ files' = [files EXCEPT ![0] = IF truncate THEN <<>> ELSE Content(0)]
    /\ written' = SubSeq(written, 1, Len(written) - Len(buffer)
                                     - IF truncate THEN Len(Content(0)) ELSE 0)
    /\ open' = TRUE /\ buffer' = <<>> /\ pc' = "idle" /\ i' = 0
    /\ smooth' = (smooth /\ pc = "idle")
    /\ UNCHANGED line

Next ==
    \/ \E size \in Sizes : Write(size)
    \/ Flush \/ RemoveOldest \/ MoveUp \/ MoveCurrent \/ OpenNew \/ StepFails
    \/ \E truncate \in BOOLEAN : Restart(truncate)

Spec == Init /\ [][Next]_vars

-----------------------------------------------------------------------------
TypeOK ==
    /\ files \in [0..m_maxFiles -> Seq(0..MaxLines)] /\ open \in BOOLEAN
    /\ buffer \in Seq(1..MaxLines) /\ Len(buffer) <= BufferSize
    /\ pc \in {"idle", "remove", "shift", "open"} /\ i \in 0..m_maxFiles
    /\ line \in [number : 0..MaxLines, size : Sizes \cup {0}]
    /\ written \in Seq(1..MaxLines) /\ smooth \in BOOLEAN

\* From the oldest file to the stream's buffer, everything that is there.
Kept[k \in 0..m_maxFiles] == (IF k = 0 THEN <<>> ELSE Content(k)) \o
                             (IF k = 0 THEN Content(0) \o buffer ELSE Kept[k - 1])

\* Whatever step of a rotation fails, and wherever the process ends, the files hold
\* the newest bytes written, without a gap and in order.  As long as no step has
\* failed nothing is given up before all m_maxFiles files are in use.  And no file
\* passes the limit, or the length of its one line, by more than the stream held
\* back when write() looked at the size.
RotationKeepsNewest ==
    /\ IsSuffix(Kept[m_maxFiles], written)
    /\ smooth /\ pc = "idle" =>
          \/ Kept[m_maxFiles] = written
          \/ \A k \in 1..m_maxFiles : Exists(k)
    /\ \A k \in DOMAIN files :
          Len(Content(k)) <= Max(Sizes \cup {m_maxFileSize}) + BufferSize
=============================================================================
