------------------------ MODULE TcpConnectionProofs ------------------------
(***************************************************************************)
(* Safety of TcpConnection for any messages and sizes, any limits, water   *)
(* marks and overflow policy, and any number of threads; and of            *)
(* net::Buffer for any sizes.                                              *)
(*                                                                         *)
(* ConnInv says of one connection record what every member function keeps; *)
(* Setup says in which order the steps around it can happen.               *)
(***************************************************************************)
EXTENDS MCTcpConnection, SequenceTheorems, TLAPS

\* The output: what was accepted is on the wire or buffered, and nothing is
\* buffered or waiting for room after the half-close.
Intact(c) ==
    IF ~c.cut THEN c.wire \o c.out = c.taken /\ (c.fin => c.out = <<>> /\ ~c.writing)
    ELSE Policy = "CloseConnection" /\ ~c.revived =>
            c.state = "Disconnected" /\ c.wire = SubSeq(c.taken, 1, Len(c.wire))

\* Flow control: while reading is paused there is output to wait for.
Steady(c) ==
    c.paused => /\ PauseMark # 0
                /\ c.closes = 0 /\ ~c.destroyed => c.writing /\ Len(c.out) > ResumeMark

\* The connection callbacks so far.
WentUp(notes)   == Len(notes) = 1 /\ notes[1] = "up"
WentDown(notes) == Len(notes) = 2 /\ notes[1] = "up" /\ notes[2] = "down"

\* The life of a connection that no other thread revives.
Lived(c) ==
    /\ c.state = "Connecting" => c = NewConnection
    /\ ~c.revived =>
        \/ c.state = "Connecting" /\ c.notes = <<>> /\ c.closes = 0
        \/ c.state \in {"Connected", "Disconnecting"} /\ WentUp(c.notes) /\ c.closes = 0
        \/ /\ c.state = "Disconnected" /\ WentDown(c.notes) /\ c.closes <= 1
           /\ ~c.reading /\ ~c.writing

ConnInv(c) == c \in Connection /\ Intact(c) /\ Steady(c) /\ Lived(c)

\* A connection that has been established, in good order.
Begun(c) == ConnInv(c) /\ c.state # "Connecting"

-----------------------------------------------------------------------------
\* Bytes: cutting a sequence in two and appending the parts one after the other
\* is appending it.
LEMMA AppendParts ==
    ASSUME NEW S, NEW w \in Seq(S), NEW s \in Seq(S), NEW k \in 0..Len(s)
    PROVE  /\ w \o SubSeq(s, 1, k) \in Seq(S) /\ SubSeq(s, k + 1, Len(s)) \in Seq(S)
           /\ (w \o SubSeq(s, 1, k)) \o SubSeq(s, k + 1, Len(s)) = w \o s
<1>1. SubSeq(s, 1, k) \in Seq(S) /\ SubSeq(s, k + 1, Len(s)) \in Seq(S)
  OBVIOUS
<1>2. SubSeq(s, 1, k) \o SubSeq(s, k + 1, Len(s)) = s
  <2>1. 1 \in 1..Len(s) + 1 /\ k \in 1 - 1..Len(s) /\ Len(s) \in k..Len(s)
    OBVIOUS
  <2>2. SubSeq(s, 1, k) \o SubSeq(s, k + 1, Len(s)) = SubSeq(s, 1, Len(s))
    BY <2>1, ConcatAdjacentSubSeq, Zenon
  <2>3. QED
    BY <2>2, SubSeqFull, Zenon
<1>3. (w \o SubSeq(s, 1, k)) \o SubSeq(s, k + 1, Len(s))
        = w \o (SubSeq(s, 1, k) \o SubSeq(s, k + 1, Len(s)))
  <2>1. \A a, b \in Seq(S) : (w \o a) \o b = w \o (a \o b)
    BY ConcatAssociative, SMTT(30)
  <2>2. QED
    BY <1>1, <2>1, Zenon
<1>4. w \o SubSeq(s, 1, k) \in Seq(S)
  <2>1. \A a \in Seq(S) : w \o a \in Seq(S)
    OBVIOUS
  <2>2. QED
    BY <1>1, <2>1, Zenon
<1>5. QED
  BY <1>1, <1>2, <1>3, <1>4, Zenon

\* The same, of bytes.
LEMMA ByteParts ==
    \A w, s \in Seq(Byte) : \A k \in 0..Len(s) :
        /\ w \o SubSeq(s, 1, k) \in Seq(Byte) /\ SubSeq(s, k + 1, Len(s)) \in Seq(Byte)
        /\ (w \o SubSeq(s, 1, k)) \o SubSeq(s, k + 1, Len(s)) = w \o s
BY AppendParts, Zenon

\* The first part of a concatenation is a prefix of it.
LEMMA PrefixOfConcat ==
    ASSUME NEW S, NEW s \in Seq(S), NEW t \in Seq(S)
    PROVE  s = SubSeq(s \o t, 1, Len(s))
OBVIOUS

\* A "down" after an "up".
LEMMA GoesDown ==
    ASSUME NEW n \in Seq({"up", "down"}), WentUp(n)
    PROVE  WentDown(Append(n, "down"))
<1>1. Len(Append(n, "down")) = Len(n) + 1 /\ Append(n, "down")[Len(n) + 1] = "down"
      /\ \A i \in 1..Len(n) : Append(n, "down")[i] = n[i]
  BY AppendProperties
<1>2. Len(n) = 1 /\ n[1] = "up"
  BY Zenon DEF WentUp
<1>3. Len(n) + 1 = 2 /\ 1 \in 1..Len(n)
  BY <1>2
<1>4. QED
  BY <1>1, <1>2, <1>3, Zenon DEF WentDown

\* The callbacks of a connection that went up, and of one that went down again.
LEMMA CallbackSequences ==
    ASSUME NEW n \in Seq({"up", "down"})
    PROVE  /\ WentUp(n) => n = <<"up">>
           /\ WentDown(n) => n = <<"up", "down">>
<1>1. CASE WentUp(n)
  <2>1. <<"up">> \in Seq({"up", "down"}) /\ Len(<<"up">>) = 1 /\ <<"up">>[1] = "up"
    OBVIOUS
  <2>2. \A i \in 1..Len(n) : i = 1
    BY <1>1 DEF WentUp
  <2>3. QED
    BY <1>1, <2>1, <2>2, SeqEqual, Zenon DEF WentUp, WentDown
<1>2. CASE WentDown(n)
  <2> DEFINE t == <<"up", "down">>
  <2>1. t \in Seq({"up", "down"}) /\ Len(t) = 2 /\ t[1] = "up" /\ t[2] = "down"
    OBVIOUS
  <2> HIDE DEF t
  <2>2. Len(n) = 2 /\ \A i \in 1..Len(n) : i = 1 \/ i = 2
    BY <1>2 DEF WentDown
  <2>3. n = t
    BY <1>2, <2>1, <2>2, SeqEqual, Zenon DEF WentDown
  <2>4. QED
    BY <1>2, <2>2, <2>3 DEF WentUp, t
<1>3. QED
  BY <1>1, <1>2, Zenon

-----------------------------------------------------------------------------
\* handleClose() leaves the output as it is and takes the channel out of the poller.
LEMMA HandleCloseEffect ==
    ASSUME NEW c \in Connection, Steady(c), Lived(c), c.state \notin {"Connecting", "Disconnected"},
           NEW d, d = HandleClose(c)
    PROVE  /\ d \in Connection /\ Steady(d) /\ Lived(d) /\ d.state = "Disconnected" /\ ~d.writing
           /\ d.out = c.out /\ d.wire = c.wire /\ d.taken = c.taken
           /\ d.fin = c.fin /\ d.cut = c.cut /\ d.revived = c.revived
<1>1. d = [c EXCEPT !.state = "Disconnected", !.reading = FALSE, !.writing = FALSE,
                    !.notes = Append(c.notes, "down"), !.closes = c.closes + 1]
  BY Zenon DEF HandleClose
<1>2. Append(c.notes, "down") \in Seq({"up", "down"}) /\ c.closes + 1 \in Nat /\ c.closes \in Nat
  BY DEF Connection
<1>3. d \in Connection
  BY <1>1, <1>2, ZenonT(30) DEF Connection, States
<1>4. /\ d.state = "Disconnected" /\ ~d.reading /\ ~d.writing
      /\ d.notes = Append(c.notes, "down") /\ d.closes = c.closes + 1
      /\ d.out = c.out /\ d.wire = c.wire /\ d.taken = c.taken /\ d.paused = c.paused
      /\ d.fin = c.fin /\ d.cut = c.cut /\ d.revived = c.revived /\ d.destroyed = c.destroyed
  BY <1>1, <1>3 DEF Connection
<1>5. Steady(d)
  BY <1>2, <1>4 DEF Steady
<1>6. Lived(d)
  <2>1. ~c.revived => WentUp(c.notes) /\ c.closes = 0
    BY Zenon DEF Lived
  <2>2. WentUp(c.notes) => WentDown(d.notes)
    BY <1>4, GoesDown, Zenon DEF Connection
  <2>3. c.closes = 0 => d.closes <= 1
    BY <1>4
  <2>4. QED
    BY <1>4, <2>1, <2>2, <2>3, Zenon DEF Lived
<1>7. QED
  BY <1>3, <1>4, <1>5, <1>6, Zenon

\* handleClose() of a connection in good order.
LEMMA HandleCloseKeeps ==
    ASSUME NEW c, Begun(c)
    PROVE  Begun(HandleClose(c))
<1> DEFINE d == HandleClose(c)
<1>1. CASE c.state # "Disconnected"
  <2>1. /\ d \in Connection /\ Steady(d) /\ Lived(d) /\ d.state = "Disconnected" /\ ~d.writing
        /\ d.out = c.out /\ d.wire = c.wire /\ d.taken = c.taken
        /\ d.fin = c.fin /\ d.cut = c.cut /\ d.revived = c.revived
    BY <1>1, HandleCloseEffect, Zenon DEF Begun, ConnInv
  <2> HIDE DEF d
  <2>2. Intact(d)
    BY <1>1, <2>1, Zenon DEF Begun, ConnInv, Intact
  <2>3. QED
    BY <2>1, <2>2, Zenon DEF Begun, ConnInv, d
<1>2. QED
  BY <1>1, Zenon DEF HandleClose

\* A step that leaves the output, the callbacks and the state alone keeps everything,
\* if it resumes reading only where it is allowed to.
LEMMA OutputAlone ==
    ASSUME NEW c, Begun(c), NEW d \in Connection,
           d.out = c.out, d.wire = c.wire, d.taken = c.taken, d.fin = c.fin, d.cut = c.cut,
           d.writing = c.writing, d.closes = c.closes, d.destroyed = c.destroyed,
           d.notes = c.notes, d.state = c.state, d.paused => c.paused, c.revived => d.revived,
           d.reading => c.reading \/ c.state # "Disconnected" \/ d.revived
    PROVE  Begun(d)
<1>1. Intact(d)
  BY Zenon DEF Begun, ConnInv, Intact
<1>2. Steady(d)
  BY Zenon DEF Begun, ConnInv, Steady
<1>3. Lived(d)
  BY Zenon DEF Begun, ConnInv, Lived
<1>4. QED
  BY <1>1, <1>2, <1>3, Zenon DEF Begun, ConnInv

\* startRead(), stopRead() and the history of a close with unread input.
LEMMA ReadingKeeps ==
    ASSUME NEW c, Begun(c)
    PROVE  /\ Begun(StartRead(c)) /\ Begun(StopRead(c))
           /\ \A b \in BOOLEAN : Begun([c EXCEPT !.lost = b])
<1>1. c \in Connection
  BY Zenon DEF Begun, ConnInv
<1>2. Begun(StartRead(c))
  <2> DEFINE d == StartRead(c)
  <2>1. d = [c EXCEPT !.reading = TRUE, !.paused = FALSE,
                      !.revived = c.revived \/ c.state = "Disconnected"]
    BY Zenon DEF StartRead
  <2> HIDE DEF d
  <2>2. (c.revived \/ c.state = "Disconnected") \in BOOLEAN
    BY Zenon
  <2>3. d \in Connection
    BY <1>1, <2>1, <2>2 DEF Connection
  <2>4. /\ d.out = c.out /\ d.wire = c.wire /\ d.taken = c.taken /\ d.fin = c.fin /\ d.cut = c.cut
        /\ d.writing = c.writing /\ d.closes = c.closes /\ d.destroyed = c.destroyed
        /\ d.notes = c.notes /\ d.state = c.state /\ ~d.paused
    BY <1>1, <2>1, Zenon DEF Connection
  <2>5. d.revived <=> c.revived \/ c.state = "Disconnected"
    BY <1>1, <2>1, Zenon DEF Connection
  <2>6. QED
    BY <2>3, <2>4, <2>5, OutputAlone, Zenon DEF d
<1>3. Begun(StopRead(c))
  <2> DEFINE d == StopRead(c)
  <2>1. d = [c EXCEPT !.reading = FALSE]
    BY Zenon DEF StopRead
  <2> HIDE DEF d
  <2>2. /\ d \in Connection /\ d.out = c.out /\ d.wire = c.wire /\ d.taken = c.taken
        /\ d.fin = c.fin /\ d.cut = c.cut /\ d.writing = c.writing /\ d.closes = c.closes
        /\ d.destroyed = c.destroyed /\ d.notes = c.notes /\ d.state = c.state
        /\ d.paused = c.paused /\ d.revived = c.revived /\ ~d.reading
    BY <1>1, <2>1, Zenon DEF Connection
  <2>3. QED
    BY <2>2, OutputAlone, Zenon DEF d
<1>4. ASSUME NEW b \in BOOLEAN PROVE Begun([c EXCEPT !.lost = b])
  <2> DEFINE d == [c EXCEPT !.lost = b]
  <2>2. /\ d \in Connection /\ d.out = c.out /\ d.wire = c.wire /\ d.taken = c.taken
        /\ d.fin = c.fin /\ d.cut = c.cut /\ d.writing = c.writing /\ d.closes = c.closes
        /\ d.destroyed = c.destroyed /\ d.notes = c.notes /\ d.state = c.state
        /\ d.paused = c.paused /\ d.revived = c.revived /\ d.reading = c.reading
    BY <1>1, Zenon DEF Connection
  <2> HIDE DEF d
  <2>3. QED
    BY <2>2, OutputAlone, Zenon DEF d
<1>5. QED
  BY <1>2, <1>3, <1>4, Zenon

\* shutdownInLoop() half-closes only when everything is written.
LEMMA ShutdownInLoopKeeps ==
    ASSUME NEW c, Begun(c)
    PROVE  Begun(ShutdownInLoop(c))
<1>1. c \in Connection
  BY Zenon DEF Begun, ConnInv
<1>2. CASE c.state # "Disconnected" /\ ~c.writing /\ c.out = <<>>
  <2> DEFINE d == ShutdownInLoop(c)
  <2>1. d = [c EXCEPT !.fin = TRUE]
    BY <1>2, Zenon DEF ShutdownInLoop
  <2> HIDE DEF d
  <2>2. /\ d \in Connection /\ d.out = c.out /\ d.wire = c.wire /\ d.taken = c.taken
        /\ d.cut = c.cut /\ d.writing = c.writing /\ d.closes = c.closes
        /\ d.destroyed = c.destroyed /\ d.notes = c.notes /\ d.state = c.state
        /\ d.paused = c.paused /\ d.revived = c.revived /\ d.reading = c.reading
    BY <1>1, <2>1, Zenon DEF Connection
  <2>3. Intact(d)
    BY <1>2, <2>2, Zenon DEF Begun, ConnInv, Intact
  <2>4. Steady(d) /\ Lived(d)
    BY <2>2, Zenon DEF Begun, ConnInv, Steady, Lived
  <2>5. QED
    BY <2>2, <2>3, <2>4, Zenon DEF Begun, ConnInv, d
<1>3. QED
  BY <1>2, Zenon DEF ShutdownInLoop

\* The store of m_state in shutdown(), by any thread.
LEMMA DisconnectingKeeps ==
    ASSUME NEW c, Begun(c), NEW b \in BOOLEAN, c.state = "Disconnected" => b, c.revived => b
    PROVE  Begun([c EXCEPT !.state = "Disconnecting", !.revived = b])
<1> DEFINE d == [c EXCEPT !.state = "Disconnecting", !.revived = b]
<1>1. c \in Connection
  BY Zenon DEF Begun, ConnInv
<1>2. /\ d \in Connection /\ d.out = c.out /\ d.wire = c.wire /\ d.taken = c.taken
      /\ d.fin = c.fin /\ d.cut = c.cut /\ d.writing = c.writing /\ d.closes = c.closes
      /\ d.destroyed = c.destroyed /\ d.notes = c.notes /\ d.state = "Disconnecting"
      /\ d.paused = c.paused /\ d.revived = b /\ d.reading = c.reading
  BY <1>1, Zenon DEF Connection, States
<1> HIDE DEF d
<1>3. Intact(d)
  BY <1>2, Zenon DEF Begun, ConnInv, Intact
<1>4. Steady(d) /\ Lived(d)
  BY <1>2, Zenon DEF Begun, ConnInv, Steady, Lived
<1>5. QED
  BY <1>2, <1>3, <1>4, Zenon DEF Begun, ConnInv, d

\* shutdown() on the loop's thread.
LEMMA ShutdownKeeps ==
    ASSUME NEW c, Begun(c)
    PROVE  Begun(Shutdown(c))
<1>1. CASE c.state = "Connected"
  <2>1. c \in Connection /\ c.revived \in BOOLEAN
    BY Zenon DEF Begun, ConnInv, Connection
  <2>2. [c EXCEPT !.state = "Disconnecting"] = [c EXCEPT !.state = "Disconnecting", !.revived = c.revived]
    BY <2>1, Zenon DEF Connection
  <2>3. Begun([c EXCEPT !.state = "Disconnecting"])
    BY <1>1, <2>1, <2>2, DisconnectingKeeps, Zenon
  <2>4. QED
    BY <1>1, <2>3, ShutdownInLoopKeeps, Zenon DEF Shutdown
<1>2. QED
  BY <1>1, Zenon DEF Shutdown

\* connectDestroyed().
LEMMA ConnectDestroyedKeeps ==
    ASSUME NEW c, Begun(c)
    PROVE  Begun(ConnectDestroyed(c))
<1> DEFINE notes == IF c.state # "Disconnected" THEN Append(c.notes, "down") ELSE c.notes
           d == ConnectDestroyed(c)
<1>1. c \in Connection
  BY Zenon DEF Begun, ConnInv
<1>2. d = [c EXCEPT !.state = "Disconnected", !.reading = FALSE, !.writing = FALSE,
                    !.destroyed = TRUE, !.notes = notes]
  BY Zenon DEF ConnectDestroyed
<1>3. notes \in Seq({"up", "down"})
  BY <1>1 DEF Connection
<1>4. ~c.revived => WentDown(notes) /\ c.closes <= 1
  <2>1. CASE c.state = "Disconnected"
    BY <2>1, Zenon DEF Begun, ConnInv, Lived
  <2>2. CASE c.state # "Disconnected"
    <3>1. ~c.revived => WentUp(c.notes) /\ c.closes = 0
      BY <2>2, Zenon DEF Begun, ConnInv, Lived
    <3>2. WentUp(c.notes) => WentDown(notes)
      BY <1>1, <2>2, GoesDown, Zenon DEF Connection
    <3>3. QED
      BY <3>1, <3>2
  <2>3. QED
    BY <2>1, <2>2, Zenon
<1> HIDE DEF d, notes
<1>5. /\ d \in Connection /\ d.out = c.out /\ d.wire = c.wire /\ d.taken = c.taken
      /\ d.fin = c.fin /\ d.cut = c.cut /\ ~d.writing /\ d.closes = c.closes
      /\ d.destroyed /\ d.notes = notes /\ d.state = "Disconnected"
      /\ d.paused = c.paused /\ d.revived = c.revived /\ ~d.reading
  BY <1>1, <1>2, <1>3, Zenon DEF Connection, States
<1>6. Intact(d)
  BY <1>5, Zenon DEF Begun, ConnInv, Intact
<1>7. Steady(d) /\ Lived(d)
  BY <1>4, <1>5, Zenon DEF Begun, ConnInv, Steady, Lived
<1>8. QED
  BY <1>5, <1>6, <1>7, Zenon DEF Begun, ConnInv, d

\* connectEstablished(), of a connection nothing has happened to.
LEMMA EstablishedKeeps ==
    Begun(ConnectEstablished(NewConnection))
<1> DEFINE c == NewConnection
           d == ConnectEstablished(c)
<1>1. c \in Connection
  BY DEF NewConnection, Connection, States
<1>2. Append(<<>>, "up") \in Seq({"up", "down"}) /\ WentUp(Append(<<>>, "up"))
  <2>1. <<>> \in Seq({"up", "down"}) /\ Len(<<>>) = 0
    OBVIOUS
  <2>2. QED
    BY <2>1, AppendProperties DEF WentUp
<1>3. d = [c EXCEPT !.state = "Connected", !.reading = TRUE, !.notes = Append(<<>>, "up")]
  BY Zenon DEF ConnectEstablished, NewConnection
<1>4. /\ c.out = <<>> /\ c.wire = <<>> /\ c.taken = <<>> /\ ~c.fin /\ ~c.cut /\ ~c.writing
      /\ c.closes = 0 /\ ~c.paused /\ ~c.revived
  BY Zenon DEF NewConnection
<1> HIDE DEF d, c
<1>5. /\ d \in Connection /\ d.out = c.out /\ d.wire = c.wire /\ d.taken = c.taken
      /\ d.fin = c.fin /\ d.cut = c.cut /\ d.writing = c.writing /\ d.closes = c.closes
      /\ WentUp(d.notes) /\ d.state = "Connected" /\ d.paused = c.paused /\ d.revived = c.revived
  BY <1>1, <1>2, <1>3, Zenon DEF Connection, States
<1>6. Intact(d)
  BY <1>4, <1>5 DEF Intact
<1>7. Steady(d) /\ Lived(d)
  BY <1>4, <1>5, Zenon DEF Steady, Lived
<1>8. QED
  BY <1>5, <1>6, <1>7, Zenon DEF Begun, ConnInv, d, c

-----------------------------------------------------------------------------
\* handleWrite() moves bytes from the buffer to the wire, in order, and lets go of
\* the pause and of the writable event when it is time.
LEMMA WritingKeeps ==
    ASSUME NEW c, Begun(c), c.writing, ~c.fin, NEW k \in 1..Len(c.out)
    PROVE  Begun(HandleWrite(c, k))
<1> DEFINE w == c.wire \o SubSeq(c.out, 1, k)
           o == SubSeq(c.out, k + 1, Len(c.out))
           e == [c EXCEPT !.wire = w, !.out = o]
           f == MaybeResumeRead(e)
           d == HandleWrite(c, k)
<1>1. c \in Connection /\ c.wire \in Seq(Byte) /\ c.out \in Seq(Byte) /\ ResumeMark \in Nat
  BY ConnectionAssumption, Zenon DEF Begun, ConnInv, Connection
<1>2. w \in Seq(Byte) /\ o \in Seq(Byte) /\ w \o o = c.wire \o c.out
  <2>1. k \in 0..Len(c.out)
    BY <1>1
  <2>2. QED
    BY <1>1, <2>1, ByteParts, Zenon
<1>3. d = IF f.out = <<>> THEN [f EXCEPT !.writing = FALSE] ELSE f
  BY Zenon DEF HandleWrite
<1>4. f = IF PauseMark # 0 /\ e.paused /\ Len(e.out) <= ResumeMark
          THEN [e EXCEPT !.reading = TRUE, !.paused = FALSE] ELSE e
  BY Zenon DEF MaybeResumeRead
<1> HIDE DEF w, o, f, d
<1>5. /\ e \in Connection /\ e.wire = w /\ e.out = o /\ e.taken = c.taken /\ e.fin = c.fin
      /\ e.cut = c.cut /\ e.writing = c.writing /\ e.closes = c.closes /\ e.notes = c.notes
      /\ e.state = c.state /\ e.paused = c.paused /\ e.revived = c.revived
      /\ e.destroyed = c.destroyed
  BY <1>1, <1>2, Zenon DEF Connection
<1> HIDE DEF e
<1>6. /\ f \in Connection /\ f.wire = w /\ f.out = o /\ f.taken = c.taken /\ f.fin = c.fin
      /\ f.cut = c.cut /\ f.closes = c.closes /\ f.notes = c.notes
      /\ f.state = c.state /\ f.revived = c.revived /\ f.destroyed = c.destroyed
      /\ f.writing = c.writing
  BY <1>4, <1>5 DEF Connection
<1>7. f.paused => c.paused /\ ~(PauseMark # 0 /\ Len(o) <= ResumeMark)
  BY <1>4, <1>5, Zenon DEF Connection
<1>8. /\ d \in Connection /\ d.wire = w /\ d.out = o /\ d.taken = c.taken /\ d.fin = c.fin
      /\ d.cut = c.cut /\ d.closes = c.closes /\ d.notes = c.notes /\ d.paused = f.paused
      /\ d.state = c.state /\ d.revived = c.revived /\ d.destroyed = c.destroyed
      /\ (o # <<>> => d.writing)
  BY <1>3, <1>6 DEF Connection
<1>9. c.revived \/ c.state # "Disconnected"
  BY Zenon DEF Begun, ConnInv, Lived
<1>10. Intact(d)
  BY <1>2, <1>8, <1>9, Zenon DEF Begun, ConnInv, Intact
<1>11. Steady(d)
  <2>1. d.paused => c.paused /\ PauseMark # 0 /\ Len(o) > ResumeMark
    BY <1>1, <1>2, <1>7, <1>8 DEF Begun, ConnInv, Steady
  <2>2. Len(o) > ResumeMark => o # <<>>
    BY <1>1, <1>2
  <2>3. QED
    BY <1>8, <2>1, <2>2, Zenon DEF Steady
<1>12. Lived(d)
  BY <1>8, <1>9, Zenon DEF Begun, ConnInv, Lived
<1>13. QED
  BY <1>8, <1>10, <1>11, <1>12, Zenon DEF Begun, ConnInv, d

\* Bytes of a message that sendInLoop() puts behind what is buffered.
LEMMA BufferingKeeps ==
    ASSUME NEW c, Begun(c), c.state # "Disconnected", c.cut \/ ~c.fin,
           NEW w \in Seq(Byte), NEW rest \in Seq(Byte), NEW bytes \in Seq(Byte),
           ~c.cut => w \o (c.out \o rest) = c.taken \o bytes
    PROVE  Begun(Take(Buffer([c EXCEPT !.wire = w], rest), bytes))
<1> DEFINE o == c.out \o rest
           t == c.taken \o bytes
           e == [c EXCEPT !.wire = w, !.out = o, !.writing = TRUE]
           f == MaybePauseRead(e)
           d == [f EXCEPT !.taken = t]
<1>1. c \in Connection /\ c.out \in Seq(Byte) /\ c.taken \in Seq(Byte)
  BY Zenon DEF Begun, ConnInv, Connection
<1>2. o \in Seq(Byte) /\ t \in Seq(Byte) /\ Len(o) >= Len(c.out)
      /\ Len(o) \in Nat /\ Len(c.out) \in Nat
  BY <1>1
<1>3. /\ ResumeMark \in Nat /\ PauseMark \in Nat /\ (PauseMark # 0 => ResumeMark < PauseMark)
  BY ConnectionAssumption, Zenon
<1>4. f = IF PauseMark # 0 /\ ~e.paused /\ Len(e.out) >= PauseMark
          THEN [e EXCEPT !.reading = FALSE, !.paused = TRUE] ELSE e
  BY Zenon DEF MaybePauseRead
<1>5. Take(Buffer([c EXCEPT !.wire = w], rest), bytes) = d
  <2>1. [[c EXCEPT !.wire = w] EXCEPT !.out = @ \o rest, !.writing = TRUE] = e
    BY <1>1, Zenon DEF Connection
  <2>2. Buffer([c EXCEPT !.wire = w], rest) = f
    BY <2>1, Zenon DEF Buffer
  <2>3. f.taken = c.taken
    BY <1>1, <1>4, Zenon DEF Connection
  <2>4. QED
    BY <2>2, <2>3, Zenon DEF Take
<1> HIDE DEF o, t, f
<1>6. /\ e \in Connection /\ e.wire = w /\ e.out = o /\ e.fin = c.fin
      /\ e.cut = c.cut /\ e.writing /\ e.closes = c.closes /\ e.notes = c.notes
      /\ e.state = c.state /\ e.paused = c.paused /\ e.revived = c.revived
      /\ e.destroyed = c.destroyed
  BY <1>1, <1>2, Zenon DEF Connection
<1> HIDE DEF e
<1>7. /\ f \in Connection /\ f.wire = w /\ f.out = o /\ f.fin = c.fin
      /\ f.cut = c.cut /\ f.writing /\ f.closes = c.closes /\ f.notes = c.notes
      /\ f.state = c.state /\ f.revived = c.revived /\ f.destroyed = c.destroyed
  BY <1>4, <1>6, Zenon DEF Connection
<1>8. f.paused => c.paused \/ (PauseMark # 0 /\ Len(o) >= PauseMark)
  BY <1>4, <1>6, Zenon DEF Connection
<1>9. /\ d \in Connection /\ d.wire = w /\ d.out = o /\ d.fin = c.fin /\ d.taken = t
      /\ d.cut = c.cut /\ d.writing /\ d.closes = c.closes /\ d.notes = c.notes
      /\ d.state = c.state /\ d.revived = c.revived /\ d.destroyed = c.destroyed
      /\ d.paused = f.paused
  BY <1>2, <1>7, Zenon DEF Connection
<1> HIDE DEF d
<1>10. Intact(d)
  BY <1>9, Zenon DEF Begun, ConnInv, Intact, o, t
<1>11. Steady(d)
  BY <1>2, <1>3, <1>8, <1>9 DEF Begun, ConnInv, Steady
<1>12. Lived(d)
  BY <1>9, Zenon DEF Begun, ConnInv, Lived
<1>13. QED
  BY <1>5, <1>9, <1>10, <1>11, <1>12, Zenon DEF Begun, ConnInv

\* A message the kernel took as a whole.
LEMMA WrittenKeeps ==
    ASSUME NEW c, Begun(c), c.state # "Disconnected", c.cut \/ ~c.fin, c.out = <<>>,
           NEW bytes \in Seq(Byte)
    PROVE  Begun(Take([c EXCEPT !.wire = c.wire \o bytes], bytes))
<1> DEFINE w == c.wire \o bytes
           t == c.taken \o bytes
           d == [c EXCEPT !.wire = w, !.taken = t]
<1>1. c \in Connection /\ c.wire \in Seq(Byte) /\ c.taken \in Seq(Byte)
  BY Zenon DEF Begun, ConnInv, Connection
<1>2. w \in Seq(Byte) /\ t \in Seq(Byte) /\ w \o <<>> = w /\ c.wire \o <<>> = c.wire
  BY <1>1
<1>3. Take([c EXCEPT !.wire = c.wire \o bytes], bytes) = d
  BY <1>1, Zenon DEF Take, Connection
<1>4. ~c.cut => w = t
  BY <1>2, Zenon DEF Begun, ConnInv, Intact
<1> HIDE DEF w, t
<1>5. /\ d \in Connection /\ d.wire = w /\ d.out = c.out /\ d.fin = c.fin /\ d.taken = t
      /\ d.cut = c.cut /\ d.writing = c.writing /\ d.closes = c.closes /\ d.notes = c.notes
      /\ d.state = c.state /\ d.revived = c.revived /\ d.destroyed = c.destroyed
      /\ d.paused = c.paused /\ d.reading = c.reading
  BY <1>1, <1>2, Zenon DEF Connection
<1> HIDE DEF d
<1>6. Intact(d)
  BY <1>2, <1>4, <1>5, Zenon DEF Begun, ConnInv, Intact
<1>7. Steady(d) /\ Lived(d)
  BY <1>5, Zenon DEF Begun, ConnInv, Steady, Lived
<1>8. QED
  BY <1>3, <1>5, <1>6, <1>7, Zenon DEF Begun, ConnInv

\* A message whose first k bytes the kernel took and whose rest does not fit.
LEMMA CutKeeps ==
    ASSUME NEW c, Begun(c), c.state # "Disconnected", c.out = <<>>,
           NEW bytes \in Seq(Byte), NEW k \in 0..Len(bytes)
    PROVE  Begun(HandleOutputOverflow(
                   [Take([c EXCEPT !.wire = c.wire \o SubSeq(bytes, 1, k)], bytes) EXCEPT !.cut = TRUE]))
<1> DEFINE w == c.wire \o SubSeq(bytes, 1, k)
           rest == SubSeq(bytes, k + 1, Len(bytes))
           t == c.taken \o bytes
           e == [c EXCEPT !.wire = w, !.taken = t, !.cut = TRUE]
           d == HandleClose(e)
<1>1. c \in Connection /\ c.wire \in Seq(Byte) /\ c.taken \in Seq(Byte)
  BY Zenon DEF Begun, ConnInv, Connection
<1>2. w \in Seq(Byte) /\ rest \in Seq(Byte) /\ w \o rest = c.wire \o bytes
  BY <1>1, ByteParts, Zenon
<1>3. t \in Seq(Byte) /\ c.wire \o <<>> = c.wire
  BY <1>1
<1>4. ~c.cut => w = SubSeq(t, 1, Len(w))
  <2>1. ~c.cut => t = w \o rest
    BY <1>2, <1>3, Zenon DEF Begun, ConnInv, Intact
  <2> HIDE DEF w, t, rest
  <2>2. QED
    BY <1>2, <2>1, PrefixOfConcat, Zenon
<1>5. [Take([c EXCEPT !.wire = c.wire \o SubSeq(bytes, 1, k)], bytes) EXCEPT !.cut = TRUE] = e
  BY <1>1, Zenon DEF Take, Connection
<1> HIDE DEF w, t, rest
<1>6. /\ e \in Connection /\ e.wire = w /\ e.out = c.out /\ e.fin = c.fin /\ e.taken = t
      /\ e.cut /\ e.writing = c.writing /\ e.closes = c.closes /\ e.notes = c.notes
      /\ e.state = c.state /\ e.revived = c.revived /\ e.destroyed = c.destroyed
      /\ e.paused = c.paused /\ e.reading = c.reading
  BY <1>1, <1>2, <1>3, Zenon DEF Connection
<1> HIDE DEF e, d
<1>7. Steady(e) /\ Lived(e) /\ e.state \notin {"Connecting", "Disconnected"}
  BY <1>6, Zenon DEF Begun, ConnInv, Steady, Lived
<1>8. CASE Policy = "CloseConnection"
  <2>1. /\ d \in Connection /\ Steady(d) /\ Lived(d) /\ d.state = "Disconnected"
        /\ d.wire = e.wire /\ d.taken = e.taken /\ d.cut = e.cut /\ d.revived = e.revived
    BY <1>6, <1>7, HandleCloseEffect DEF d
  <2>2. c.cut => c.revived
    BY <1>8, Zenon DEF Begun, ConnInv, Intact
  <2>3. Intact(d)
    BY <1>4, <1>6, <2>1, <2>2, Zenon DEF Intact
  <2>4. QED
    BY <1>5, <1>8, <2>1, <2>3, Zenon DEF Begun, ConnInv, HandleOutputOverflow, d
<1>9. CASE Policy # "CloseConnection"
  <2>1. Intact(e)
    BY <1>6, <1>9, Zenon DEF Intact
  <2>2. QED
    BY <1>5, <1>6, <1>7, <1>9, <2>1, Zenon DEF Begun, ConnInv, HandleOutputOverflow
<1>10. QED
  BY <1>8, <1>9, Zenon

\* The three ends of sendInLoop()'s write.
LEMMA WriteFirstKeeps ==
    ASSUME NEW c, Begun(c), c.state # "Disconnected", c.cut \/ ~c.fin,
           NEW bytes \in Seq(Byte), bytes # <<>>, NEW k \in 0..Len(bytes), k = 0 \/ c.out = <<>>
    PROVE  Begun(WriteFirst(c, bytes, k))
<1> DEFINE first == SubSeq(bytes, 1, k)
           rest  == SubSeq(bytes, k + 1, Len(bytes))
           w     == c.wire \o first
           after == [c EXCEPT !.wire = w]
<1>1. c \in Connection /\ c.wire \in Seq(Byte) /\ c.taken \in Seq(Byte) /\ c.out \in Seq(Byte)
  BY Zenon DEF Begun, ConnInv, Connection
<1>2. w \in Seq(Byte) /\ rest \in Seq(Byte) /\ w \o rest = c.wire \o bytes
  BY <1>1, ByteParts, Zenon
<1>3. WriteFirst(c, bytes, k) =
        IF rest = <<>> THEN Take(after, bytes)
        ELSE IF Fits(c, rest) THEN Take(Buffer(after, rest), bytes)
        ELSE HandleOutputOverflow(IF k = 0 THEN after ELSE [Take(after, bytes) EXCEPT !.cut = TRUE])
  BY Zenon DEF WriteFirst
<1>4. k = 0 => rest = bytes /\ w = c.wire
  <2>1. \A s \in Seq(Byte) : SubSeq(s, 1, Len(s)) = s /\ s \o SubSeq(bytes, 1, 0) = s
    BY SubSeqFull
  <2>2. QED
    BY <1>1, <2>1
<1>5. CASE rest = <<>>
  <2>1. k = Len(bytes)
    <3>1. Len(SubSeq(bytes, k + 1, Len(bytes))) = Len(bytes) - k
      OBVIOUS
    <3>2. Len(SubSeq(bytes, k + 1, Len(bytes))) = 0
      <4>1. Len(<<>>) = 0
        BY Zenon
      <4>2. QED
        BY <1>5, <4>1, Zenon
    <3>3. QED
      BY <3>1, <3>2
  <2>2. first = bytes /\ c.out = <<>>
    BY <1>4, <1>5, <2>1, SubSeqFull, Zenon
  <2>3. QED
    BY <1>3, <1>5, <2>2, WrittenKeeps, Zenon
<1>6. CASE rest # <<>> /\ Fits(c, rest)
  <2>1. ~c.cut => c.wire \o c.out = c.taken
    BY Zenon DEF Begun, ConnInv, Intact
  <2>2. \A x, y, z \in Seq(Byte) : x \o (y \o z) = (x \o y) \o z
    BY ConcatAssociative, SMTT(30)
  <2>3. \A x \in Seq(Byte) : <<>> \o x = x /\ x \o <<>> = x
    OBVIOUS
  <2> HIDE DEF rest, w, first
  <2>4. CASE k = 0
    <3>1. w \o (c.out \o rest) = (c.wire \o c.out) \o bytes
      <4>1. rest = bytes /\ w = c.wire
        BY <1>4, <2>4, Zenon
      <4>2. c.wire \o (c.out \o bytes) = (c.wire \o c.out) \o bytes
        <5>1. PICK x \in Seq(Byte), y \in Seq(Byte) : x = c.wire /\ y = c.out
          BY <1>1, Zenon
        <5>2. x \o (y \o bytes) = (x \o y) \o bytes
          BY ONLY <2>2, <5>1, bytes \in Seq(Byte), ZenonT(30)
        <5>3. QED
          BY ONLY <5>1, <5>2, Zenon
      <4>3. QED
        BY <4>1, <4>2, Zenon
    <3>2. ~c.cut => w \o (c.out \o rest) = c.taken \o bytes
      BY <2>1, <3>1, Zenon
    <3>3. QED
      BY <1>2, <1>3, <1>6, <3>2, BufferingKeeps, Zenon
  <2>5. CASE c.out = <<>>
    <3>1. w \o (c.out \o rest) = c.wire \o bytes
      BY <1>2, <2>3, <2>5, Zenon
    <3>2. ~c.cut => w \o (c.out \o rest) = c.taken \o bytes
      BY <1>1, <2>1, <2>3, <2>5, <3>1, Zenon
    <3>3. QED
      BY <1>2, <1>3, <1>6, <3>2, BufferingKeeps, Zenon
  <2>6. QED
    BY <2>4, <2>5, Zenon
<1>7. CASE rest # <<>> /\ ~Fits(c, rest)
  <2>1. CASE k = 0
    <3>1. after = c
      BY <1>1, <1>4, <2>1, Zenon DEF Connection
    <3>2. QED
      BY <1>3, <1>7, <2>1, <3>1, HandleCloseKeeps, Zenon DEF HandleOutputOverflow
  <2>2. CASE k # 0
    BY <1>3, <1>7, <2>2, CutKeeps
  <2>3. QED
    BY <2>1, <2>2, Zenon
<1>8. QED
  BY <1>5, <1>6, <1>7, Zenon

\* sendInLoop(), whatever the kernel does.
LEMMA SendInLoopKeeps ==
    ASSUME NEW c, Begun(c), NEW m \in Message, NEW d \in SendInLoop(c, m)
    PROVE  Begun(d)
<1>1. Bytes(m) \in Seq(Byte) /\ Bytes(m) # <<>> /\ Len(Bytes(m)) = Size[m]
  <2>1. Size[m] \in Nat \ {0}
    BY ConnectionAssumption, Zenon
  <2>2. \A i \in 1..Size[m] : <<m, i>> \in Byte
    BY <2>1 DEF Byte
  <2>3. QED
    BY <2>1, <2>2 DEF Bytes
<1>2. CASE c.state = "Disconnected"
  BY <1>2, Zenon DEF SendInLoop
<1>3. CASE c.state # "Disconnected" /\ (c.writing \/ c.out # <<>>)
  <2>1. c.cut \/ ~c.fin
    BY <1>3, Zenon DEF Begun, ConnInv, Intact
  <2>2. d = WriteFirst(c, Bytes(m), 0) /\ 0 \in 0..Len(Bytes(m))
    BY <1>1, <1>3 DEF SendInLoop
  <2>3. QED
    BY <1>1, <1>3, <2>1, <2>2, WriteFirstKeeps, Zenon
<1>4. CASE c.state # "Disconnected" /\ ~c.writing /\ c.out = <<>>
  <2>1. CASE WriteFails(c)
    BY <1>4, <2>1, HandleCloseKeeps, Zenon DEF SendInLoop
  <2>2. CASE ~WriteFails(c)
    <3>1. PICK k \in 0..Size[m] : d = WriteFirst(c, Bytes(m), k)
      BY <1>4, <2>2, Zenon DEF SendInLoop
    <3>2. QED
      BY <1>1, <1>4, <2>2, <3>1, WriteFirstKeeps, Zenon DEF WriteFails
  <2>3. QED
    BY <2>1, <2>2, Zenon
<1>5. QED
  BY <1>2, <1>3, <1>4, Zenon

-----------------------------------------------------------------------------
\* The functors that wait for the connection, by name.
Calls == {<<name>> : name \in {"establish", "shutdown", "forceClose", "startRead", "stopRead", "destroy"}}
         \cup {<<"send", m>> : m \in Message}

\* connectEstablished() comes first and once: before it nothing else happens to the
\* connection, after it it is not queued again.
Setup ==
    /\ queue \in Seq(Calls) /\ tpc \in [Thread -> {"idle", "shutdown"}]
    /\ conn.state = "Connecting" =>
          /\ lpc = "idle" /\ events = <<>> /\ \A t \in Thread : tpc[t] = "idle"
          /\ Len(queue) = 1 /\ queue[1][1] = "establish"
    /\ conn.state # "Connecting" => \A k \in DOMAIN queue : queue[k][1] # "establish"

Inv == ConnInv(conn) /\ Setup

\* Steps of an established connection: the queue shrinks from the front or grows by
\* a call other than connectEstablished().
LEMMA SetupStays ==
    ASSUME Setup, conn.state # "Connecting", Begun(conn'),
           tpc' \in [Thread -> {"idle", "shutdown"}],
           \/ queue' = queue
           \/ queue # <<>> /\ queue' = Tail(queue)
           \/ \E call \in Calls : call[1] # "establish" /\ queue' = Append(queue, call)
    PROVE  Inv'
<1>1. ConnInv(conn') /\ conn'.state # "Connecting"
  BY Zenon DEF Begun
<1>2. queue' \in Seq(Calls) /\ \A k \in DOMAIN queue' : queue'[k][1] # "establish"
  <2>1. CASE queue' = queue
    BY <2>1, Zenon DEF Setup
  <2>2. CASE queue # <<>> /\ queue' = Tail(queue)
    BY <2>2 DEF Setup
  <2>3. ASSUME NEW call \in Calls, call[1] # "establish", queue' = Append(queue, call)
        PROVE  queue' \in Seq(Calls) /\ \A k \in DOMAIN queue' : queue'[k][1] # "establish"
    BY <2>3 DEF Setup
  <2>4. QED
    BY <2>1, <2>2, <2>3, Zenon
<1>3. QED
  BY <1>1, <1>2, Zenon DEF Inv, Setup

\* A connection that has a callback to run, an event to handle or a user is
\* established.
LEMMA InUse ==
    ASSUME Inv, \/ lpc # "idle" \/ events # <<>> \/ Known \/ conn.reading \/ conn.writing
                \/ \E t \in Thread : tpc[t] # "idle"
    PROVE  Begun(conn) /\ conn.state # "Connecting"
<1>1. conn.state # "Connecting"
  <2>1. SUFFICES ASSUME conn.state = "Connecting" PROVE FALSE
    BY Zenon
  <2>2. conn = NewConnection
    BY <2>1, Zenon DEF Inv, ConnInv, Lived
  <2>3. ~Known /\ ~conn.reading /\ ~conn.writing
    BY <2>2, Zenon DEF NewConnection, Known
  <2>4. QED
    BY <2>1, <2>3, Zenon DEF Inv, Setup
<1>2. QED
  BY <1>1, Zenon DEF Inv, Begun

\* Running a queued call.
LEMMA FunctorInv ==
    ASSUME Inv, RunFunctor
    PROVE  Inv'
<1> DEFINE call == Head(queue)
<1>1. queue # <<>> /\ queue' = Tail(queue) /\ conn' \in Outcomes(conn, call) /\ UNCHANGED tpc
  BY Zenon DEF RunFunctor
<1>2. call \in Calls /\ call = queue[1] /\ 1 \in DOMAIN queue
  BY <1>1 DEF Inv, Setup
<1>3. CASE conn.state = "Connecting"
  <2>1. call[1] = "establish" /\ conn = NewConnection /\ Len(queue) = 1
    BY <1>2, <1>3, Zenon DEF Inv, Setup, ConnInv, Lived
  <2>2. conn' = ConnectEstablished(NewConnection)
    BY <1>1, <2>1, Zenon DEF Outcomes
  <2>3. Begun(conn')
    BY <2>2, EstablishedKeeps, Zenon
  <2>4. queue' \in Seq(Calls) /\ DOMAIN queue' = {}
    BY <1>1, <2>1 DEF Inv, Setup
  <2>5. QED
    BY <1>1, <2>3, <2>4, Zenon DEF Inv, Setup, Begun
<1>4. CASE conn.state # "Connecting"
  <2>1. Begun(conn) /\ call[1] # "establish"
    BY <1>2, <1>4, Zenon DEF Inv, Begun, Setup
  <2>2. Begun(conn')
    <3>1. CASE call[1] = "send"
      <4>1. PICK m \in Message : call = <<"send", m>>
        BY <1>2, <3>1 DEF Calls
      <4>2. conn' \in SendInLoop(conn, m)
        BY <1>1, <4>1 DEF Outcomes
      <4>3. QED
        BY <2>1, <4>2, SendInLoopKeeps, Zenon
    <3>2. CASE call[1] # "send"
      <4>1. call[1] \in {"shutdown", "forceClose", "startRead", "stopRead", "destroy"}
        BY <1>2, <2>1, <3>2 DEF Calls
      <4>2. conn' \in {ShutdownInLoop(conn), HandleClose(conn), StartRead(conn), StopRead(conn),
                       ConnectDestroyed(conn)}
        BY <1>1, <4>1, Zenon DEF Outcomes
      <4>3. QED
        BY <2>1, <4>2, ShutdownInLoopKeeps, HandleCloseKeeps, ReadingKeeps, ConnectDestroyedKeeps, Zenon
    <3>3. QED
      BY <3>1, <3>2, Zenon
  <2>3. QED
    BY <1>1, <1>4, <2>2, SetupStays, Zenon DEF Inv, Setup
<1>5. QED
  BY <1>3, <1>4, Zenon

\* The handlers of the channel's events, and callbacks that return.
LEMMA EventInv ==
    ASSUME Inv, ErrorEvent \/ WriteEvent \/ CloseEvent \/ ReadEnds \/ Return
    PROVE  Inv'
<1>1. UNCHANGED <<queue, tpc>> /\ (lpc # "idle" \/ events # <<>>)
  BY Zenon DEF ErrorEvent, WriteEvent, CloseEvent, ReadEnds, Return, Handle
<1>2. Begun(conn) /\ conn.state # "Connecting"
  BY <1>1, InUse, Zenon
<1>3. Begun(conn')
  <2>1. CASE ErrorEvent
    BY <1>2, <2>1, HandleCloseKeeps, Zenon DEF ErrorEvent
  <2>2. CASE WriteEvent
    <3>1. CASE ~conn.writing
      BY <1>2, <2>2, <3>1, Zenon DEF WriteEvent
    <3>2. CASE conn.writing /\ WriteFails(conn)
      BY <1>2, <2>2, <3>2, HandleCloseKeeps, Zenon DEF WriteEvent
    <3>3. CASE conn.writing /\ ~WriteFails(conn)
      <4>1. PICK k \in 1..Len(conn.out) : conn' = HandleWrite(conn, k)
        BY <2>2, <3>3, Zenon DEF WriteEvent
      <4>2. QED
        BY <1>2, <3>3, <4>1, WritingKeeps, Zenon DEF WriteFails
    <3>4. QED
      BY <3>1, <3>2, <3>3, Zenon
  <2>3. CASE CloseEvent
    <3>1. Begun(HandleClose(conn))
      BY <1>2, HandleCloseKeeps, Zenon
    <3>2. PICK b \in BOOLEAN : conn' = [HandleClose(conn) EXCEPT !.lost = b]
      BY <2>3, Zenon DEF CloseEvent
    <3>3. QED
      BY <3>1, <3>2, ReadingKeeps, Zenon
  <2>4. CASE ReadEnds
    BY <1>2, <2>4, HandleCloseKeeps, Zenon DEF ReadEnds
  <2>5. CASE Return
    BY <1>2, <2>5, ShutdownInLoopKeeps, Zenon DEF Return, Completed
  <2>6. QED
    BY <2>1, <2>2, <2>3, <2>4, <2>5, Zenon
<1>4. QED
  BY <1>1, <1>2, <1>3, SetupStays, Zenon DEF Inv, Setup

\* Calls from callbacks on the loop's thread.
LEMMA OwnCallInv ==
    ASSUME Inv, \/ \E m \in Message : OwnSend(m)
                \/ OwnShutdown \/ OwnForceClose \/ OwnStartRead \/ OwnStopRead
    PROVE  Inv'
<1>1. UNCHANGED <<queue, tpc>> /\ lpc # "idle"
  BY Zenon DEF OwnSend, OwnShutdown, OwnForceClose, OwnStartRead, OwnStopRead, OwnCall, InCallback
<1>2. Begun(conn) /\ conn.state # "Connecting"
  BY <1>1, InUse, Zenon
<1>3. Begun(conn')
  BY <1>2, SendInLoopKeeps, ShutdownKeeps, HandleCloseKeeps, ReadingKeeps, Zenon
     DEF OwnSend, OwnShutdown, OwnForceClose, OwnStartRead, OwnStopRead
<1>4. QED
  BY <1>1, <1>2, <1>3, SetupStays, Zenon DEF Inv, Setup

\* Calls that are queued, by other threads and by the owner.
LEMMA QueuedCallInv ==
    ASSUME Inv,
           \/ \E t \in Thread, m \in Message : Send(t, m)
           \/ \E t \in Thread : \E name \in {"forceClose"} \cup (Remote \ {"shutdown"}) : Control(t, name)
           \/ Destroy
    PROVE  Inv'
<1>1. Known /\ UNCHANGED <<conn, tpc>>
      /\ \E call \in Calls : call[1] # "establish" /\ queue' = Append(queue, call)
  <2>1. CASE \E t \in Thread, m \in Message : Send(t, m)
    BY <2>1, Zenon DEF Send, QueueCall, Calls
  <2>2. ASSUME NEW t \in Thread, NEW name \in {"forceClose"} \cup (Remote \ {"shutdown"}), Control(t, name)
        PROVE  Known /\ UNCHANGED <<conn, tpc>>
               /\ \E call \in Calls : call[1] # "establish" /\ queue' = Append(queue, call)
    <3>1. name \in {"forceClose", "startRead", "stopRead"}
      BY ConnectionAssumption, Zenon
    <3>2. <<name>> \in Calls /\ <<name>>[1] # "establish"
      BY <3>1, Zenon DEF Calls
    <3>3. QED
      BY <2>2, <3>2, Zenon DEF Control, QueueCall
  <2>3. CASE Destroy
    <3>1. <<"destroy">> \in Calls /\ <<"destroy">>[1] # "establish"
      BY Zenon DEF Calls
    <3>2. QED
      BY <2>3, <3>1, Zenon DEF Destroy
  <2>4. QED
    BY <2>1, <2>2, <2>3, Zenon
<1>2. Begun(conn) /\ conn.state # "Connecting"
  BY <1>1, InUse, Zenon
<1>3. QED
  BY <1>1, <1>2, SetupStays, Zenon DEF Inv, Setup

\* shutdown() of another thread, in its two steps.
LEMMA ShutdownInv ==
    ASSUME Inv, NEW t \in Thread, ShutdownTest(t) \/ ShutdownStore(t)
    PROVE  Inv'
<1>1. CASE ShutdownTest(t)
  <2>1. Begun(conn) /\ conn.state # "Connecting"
    BY <1>1, InUse, Zenon DEF ShutdownTest
  <2>2. UNCHANGED <<conn, queue>> /\ tpc' \in [Thread -> {"idle", "shutdown"}]
    BY <1>1, Zenon DEF ShutdownTest, Inv, Setup
  <2>3. QED
    BY <2>1, <2>2, SetupStays, Zenon DEF Inv
<1>2. CASE ShutdownStore(t)
  <2>1. Begun(conn) /\ conn.state # "Connecting"
    BY <1>2, InUse, Zenon DEF ShutdownStore
  <2>2. conn' = [conn EXCEPT !.state = "Disconnecting",
                             !.revived = conn.revived \/ conn.state = "Disconnected"]
    BY <1>2, Zenon DEF ShutdownStore
  <2>3. Begun(conn')
    <3>1. (conn.revived \/ conn.state = "Disconnected") \in BOOLEAN
      BY Zenon
    <3>2. QED
      BY <2>1, <2>2, <3>1, DisconnectingKeeps, Zenon
  <2>4. <<"shutdown">> \in Calls /\ <<"shutdown">>[1] # "establish"
    BY Zenon DEF Calls
  <2>5. queue' = Append(queue, <<"shutdown">>) /\ tpc' \in [Thread -> {"idle", "shutdown"}]
    BY <1>2, Zenon DEF ShutdownStore, Inv, Setup
  <2>6. QED
    BY <2>1, <2>3, <2>4, <2>5, SetupStays, Zenon DEF Inv
<1>3. QED
  BY <1>1, <1>2, Zenon

\* Steps that leave the connection as it is.
LEMMA OtherInv ==
    ASSUME Inv,
           \/ Poll(TRUE) \/ Poll(FALSE) \/ ReadEvent \/ ReadSome
           \/ PeerSends \/ PeerCloses \/ Breaks \/ UNCHANGED vars
    PROVE  Inv'
<1>1. CASE Poll(TRUE) \/ Poll(FALSE) \/ ReadEvent \/ ReadSome
  <2>1. /\ UNCHANGED <<conn, queue, tpc>>
        /\ lpc # "idle" \/ events # <<>> \/ conn.reading \/ conn.writing
    BY <1>1, Zenon DEF Poll, ReadEvent, ReadSome, Handle
  <2>2. Begun(conn) /\ conn.state # "Connecting"
    BY <2>1, InUse, Zenon
  <2>3. QED
    BY <2>1, <2>2, SetupStays, Zenon DEF Inv, Setup
<1>2. CASE PeerSends \/ PeerCloses \/ Breaks \/ UNCHANGED vars
  <2>1. UNCHANGED <<conn, lpc, events, queue, tpc>>
    BY <1>2, Zenon DEF PeerSends, PeerCloses, Breaks, vars
  <2>2. QED
    BY <2>1, Zenon DEF Inv, Setup
<1>3. QED
  BY <1>1, <1>2, Zenon

\* A connection is in good order in every reachable state.
LEMMA ConnInvariant == Spec => []Inv
<1>1. Init => Inv
  <2>1. ASSUME Init PROVE Inv
    <3>1. conn = NewConnection
      BY <2>1, Zenon DEF Init
    <3>2. conn \in Connection
      BY <3>1 DEF NewConnection, Connection, States
    <3>3. Intact(conn) /\ Steady(conn) /\ Lived(conn)
      BY <3>1 DEF NewConnection, Intact, Steady, Lived
    <3>4. Setup
      <4>1. <<"establish">> \in Calls /\ <<"establish">>[1] = "establish"
        BY Zenon DEF Calls
      <4>2. queue \in Seq(Calls) /\ Len(queue) = 1 /\ queue[1][1] = "establish"
        BY <2>1, <4>1 DEF Init
      <4>3. QED
        BY <2>1, <3>1, <4>2 DEF Init, Setup, NewConnection
    <3>5. QED
      BY <3>2, <3>3, <3>4, Zenon DEF Inv, ConnInv
  <2>2. QED
    BY <2>1, Zenon
<1>2. Inv /\ [Next]_vars => Inv'
  BY FunctorInv, EventInv, OwnCallInv, QueuedCallInv, ShutdownInv, OtherInv, Zenon
     DEF Next, LoopStep, UserCall
<1>3. QED
  BY <1>1, <1>2, PTL DEF Spec

-----------------------------------------------------------------------------
\* Whatever the sizes, limits and policy: what was accepted is on the wire or in the
\* output buffer, in order, and the half-close waits for all of it; a message that is
\* cut by an overflow is the last one if the policy is to close.
THEOREM ConnStreamIntact == Spec => []StreamIntact
<1>1. Inv => StreamIntact
  BY Zenon DEF Inv, ConnInv, Intact, StreamIntact
<1>2. QED
  BY <1>1, ConnInvariant, PTL

\* A pause of flow control always has output to wait for, for any pair of marks.
THEOREM ConnPauseHasEnd == Spec => []PauseHasEnd
<1>1. Inv => PauseHasEnd
  BY Zenon DEF Inv, ConnInv, Steady, PauseHasEnd
<1>2. QED
  BY <1>1, ConnInvariant, PTL

\* A connection comes up once and goes down once, and when it is closed it is out of
\* the poller, unless a call of another thread revives it.
THEOREM ConnClosedForGood == Spec => []ClosedForGood
<1>1. ASSUME Inv PROVE ClosedForGood
  <2>1. conn.notes \in Seq({"up", "down"})
    BY <1>1, Zenon DEF Inv, ConnInv, Connection
  <2>2. /\ WentUp(conn.notes) => conn.notes = <<"up">>
        /\ WentDown(conn.notes) => conn.notes = <<"up", "down">>
    BY <2>1, CallbackSequences, Zenon
  <2>3. ~conn.revived => /\ conn.notes = <<>> \/ WentUp(conn.notes) \/ WentDown(conn.notes)
                         /\ conn.closes <= 1
                         /\ conn.state = "Disconnected" => ~conn.reading /\ ~conn.writing
    BY <1>1 DEF Inv, ConnInv, Lived
  <2>4. QED
    BY <2>1, <2>2, <2>3, Zenon DEF ClosedForGood
<1>2. QED
  BY <1>1, ConnInvariant, PTL
-----------------------------------------------------------------------------
\* After the half-close there is no output and the channel does not ask to write.
Finished(c) == c.fin => c.out = <<>> /\ ~c.writing

\* What every member function leaves alone: it loses no input, and nothing is written
\* after the half-close.
Spares(c, d) == d.lost = c.lost /\ Finished(d)

\* The event e is in the snapshot, and still ahead of every close event.
Pending(e) == \E i \in DOMAIN events : events[i] = e
ReadFirst == \E j \in DOMAIN events :
    events[j] = "read" /\ \A i \in DOMAIN events : events[i] = "close" => j < i

\* A close event of a healthy socket was reported because the peer has closed, and
\* the input has been read, is being read, or is read before the close is handled.
Drained ==
    Pending("close") /\ ~broken =>
        peerFin /\ (inbox = 0 \/ lpc \in {"read", "message"} \/ ReadFirst)

DeliveryInv ==
    /\ events \in Seq({"error", "read", "write", "close"}) /\ inbox \in Nat
    /\ {peerFin, broken} \subseteq BOOLEAN
    /\ ~conn.lost /\ Finished(conn) /\ Drained

\* The member functions without bytes.
LEMMA PlainSpares ==
    ASSUME NEW c \in Connection, Finished(c)
    PROVE  /\ Spares(c, HandleClose(c)) /\ Spares(c, ShutdownInLoop(c)) /\ Spares(c, Shutdown(c))
           /\ Spares(c, StartRead(c)) /\ Spares(c, StopRead(c))
           /\ Spares(c, ConnectEstablished(c)) /\ Spares(c, ConnectDestroyed(c))
           /\ Spares(c, Completed(c))
<1>1. Spares(c, HandleClose(c))
  BY Zenon DEF Connection, Finished, Spares, HandleClose
<1>2. Spares(c, ShutdownInLoop(c)) /\ Spares(c, Completed(c))
  BY Zenon DEF Connection, Finished, Spares, ShutdownInLoop, Completed
<1>3. Spares(c, Shutdown(c))
  BY Zenon DEF Connection, Finished, Spares, ShutdownInLoop, Shutdown
<1>4. Spares(c, StartRead(c)) /\ Spares(c, StopRead(c))
  BY Zenon DEF Connection, Finished, Spares, StartRead, StopRead
<1>5. Spares(c, ConnectEstablished(c)) /\ Spares(c, ConnectDestroyed(c))
  BY Zenon DEF Connection, Finished, Spares, ConnectEstablished, ConnectDestroyed
<1>6. QED
  BY <1>1, <1>2, <1>3, <1>4, <1>5, Zenon

\* A write before the half-close, of new bytes.
LEMMA WriteFirstSpares ==
    ASSUME NEW c \in Connection, ~c.fin, NEW bytes, NEW k
    PROVE  Spares(c, WriteFirst(c, bytes, k))
<1> DEFINE rest  == SubSeq(bytes, k + 1, Len(bytes))
           w     == c.wire \o SubSeq(bytes, 1, k)
           after == [c EXCEPT !.wire = w]
           Same(d) == d.lost = c.lost /\ ~d.fin
<1>1. WriteFirst(c, bytes, k) =
        IF rest = <<>> THEN Take(after, bytes)
        ELSE IF Fits(c, rest) THEN Take(Buffer(after, rest), bytes)
        ELSE HandleOutputOverflow(IF k = 0 THEN after ELSE [Take(after, bytes) EXCEPT !.cut = TRUE])
  BY Zenon DEF WriteFirst
<1> HIDE DEF rest, w
<1>2. Same(after) /\ Same(Take(after, bytes)) /\ Same([Take(after, bytes) EXCEPT !.cut = TRUE])
  BY Zenon DEF Connection, Take
<1>3. Same(Take(Buffer(after, rest), bytes))
  BY Zenon DEF Connection, Take, Buffer, MaybePauseRead
<1>4. Same(HandleOutputOverflow(after))
      /\ Same(HandleOutputOverflow([Take(after, bytes) EXCEPT !.cut = TRUE]))
  BY Zenon DEF Connection, Take, HandleOutputOverflow, HandleClose
<1>5. Same(WriteFirst(c, bytes, k))
  BY <1>1, <1>2, <1>3, <1>4, Zenon
<1>6. QED
  BY <1>5, Zenon DEF Spares, Finished

\* A write event, of buffered bytes.
LEMMA HandleWriteSpares ==
    ASSUME NEW c \in Connection, ~c.fin, NEW k
    PROVE  Spares(c, HandleWrite(c, k))
BY Zenon DEF Connection, HandleWrite, MaybeResumeRead, Spares, Finished

\* sendInLoop(), whatever the kernel does.
LEMMA SendSpares ==
    ASSUME NEW c \in Connection, Finished(c), NEW m, NEW d \in SendInLoop(c, m)
    PROVE  Spares(c, d)
<1>1. CASE c.state = "Disconnected"
  BY <1>1, Zenon DEF SendInLoop, Spares
<1>2. CASE c.state # "Disconnected" /\ (c.writing \/ c.out # <<>>)
  BY <1>2, WriteFirstSpares, Zenon DEF SendInLoop, Finished
<1>3. CASE c.state # "Disconnected" /\ ~(c.writing \/ c.out # <<>>)
  BY <1>3, WriteFirstSpares, PlainSpares, Zenon DEF SendInLoop, WriteFails
<1>4. QED
  BY <1>1, <1>2, <1>3, Zenon

\* An event handled from the front of the snapshot leaves the rest in its order.
LEMMA NextEvent ==
    ASSUME DeliveryInv, NEW e, Handle(e), events' = Tail(events), UNCHANGED kernelVars,
           e = "read" => lpc' = "read"
    PROVE  Drained' /\ events' \in Seq({"error", "read", "write", "close"})
<1> USE DEF DeliveryInv
<1>1. events # <<>> /\ events[1] = e /\ lpc = "idle"
  BY DEF Handle
<1>2. /\ events' \in Seq({"error", "read", "write", "close"}) /\ Len(events') = Len(events) - 1
      /\ \A i \in DOMAIN events' : i + 1 \in DOMAIN events /\ events'[i] = events[i + 1]
      /\ \A i \in DOMAIN events : i # 1 => i - 1 \in DOMAIN events' /\ events'[i - 1] = events[i]
      /\ DOMAIN events \subseteq Nat /\ DOMAIN events' \subseteq Nat
  BY <1>1
<1>3. ASSUME Pending("close")', ~broken', inbox' # 0, e # "read"
      PROVE  peerFin' /\ ReadFirst'
  <2>1. Pending("close") /\ ~broken /\ inbox # 0
    BY <1>2, <1>3 DEF Pending, kernelVars
  <2>2. peerFin' /\ ReadFirst
    BY <1>1, <2>1, Zenon DEF Drained, kernelVars
  <2>3. PICK j \in DOMAIN events :
            events[j] = "read" /\ \A i \in DOMAIN events : events[i] = "close" => j < i
    BY <2>2, Zenon DEF ReadFirst
  <2>4. j # 1
    BY <1>1, <1>3, <2>3, Zenon
  <2>5. j - 1 \in DOMAIN events' /\ events'[j - 1] = "read"
    BY <1>2, <2>3, <2>4, Zenon
  <2>6. \A i \in DOMAIN events' : events'[i] = "close" => j - 1 < i
    <3>1. SUFFICES ASSUME NEW i \in DOMAIN events', events'[i] = "close" PROVE j - 1 < i
      BY Zenon
    <3>2. j < i + 1 /\ i \in Nat /\ j \in Nat
      BY <1>2, <2>3, <3>1, Zenon
    <3>3. QED
      BY <3>2
  <2>7. QED
    BY <2>2, <2>5, <2>6, Zenon DEF ReadFirst
<1>4. Pending("close")' /\ ~broken' => peerFin'
  BY <1>2 DEF Pending, Drained, kernelVars
<1>5. QED
  BY <1>2, <1>3, <1>4, Zenon DEF Drained

\* What epoll_wait reports of a channel that is in the poller: with a close there is a
\* read ahead of it, since after the half-close the channel asks for nothing but reading.
LEMMA PollDrains ==
    ASSUME DeliveryInv, NEW writable, Poll(writable)
    PROVE  Drained' /\ events' \in Seq({"error", "read", "write", "close"})
<1> DEFINE Kinds == {"error", "read", "write", "close"}
           r == conn.reading /\ (inbox > 0 \/ peerFin \/ broken)
           w == conn.writing /\ (writable \/ broken)
           h == broken \/ (peerFin /\ (conn.reading \/ conn.fin))
<1>1. events' = Bit(broken, "error") \o Bit(r, "read") \o Bit(w, "write") \o Bit(h, "close")
  BY Zenon DEF Poll, Revents
<1>2. UNCHANGED kernelVars /\ (conn.reading \/ conn.writing)
  BY Zenon DEF Poll
<1>3. \A set : \A e \in Kinds : Bit(set, e) \in Seq(Kinds)
  <2>1. <<>> \in Seq(Kinds) /\ \A e \in Kinds : <<e>> \in Seq(Kinds)
    OBVIOUS
  <2> HIDE DEF Kinds
  <2>2. QED
    BY <2>1, Zenon DEF Bit
<1>4. events' \in Seq(Kinds)
  <2>1. Bit(broken, "error") \in Seq(Kinds) /\ Bit(r, "read") \in Seq(Kinds)
        /\ Bit(w, "write") \in Seq(Kinds) /\ Bit(h, "close") \in Seq(Kinds)
    BY <1>3, Zenon
  <2>2. \A s, t \in Seq(Kinds) : s \o t \in Seq(Kinds)
    OBVIOUS
  <2> HIDE DEF Kinds, r, w, h
  <2>3. QED
    BY <1>1, <2>1, <2>2, Zenon
<1>5. ASSUME Pending("close")', ~broken'
      PROVE  peerFin' /\ ReadFirst'
  <2>1. ~broken
    BY <1>2, <1>5, Zenon DEF kernelVars
  <2>2. events' = Bit(r, "read") \o Bit(w, "write") \o Bit(h, "close")
    <3>1. Bit(broken, "error") = <<>>
      BY <2>1, Zenon DEF Bit
    <3>2. \A s \in Seq(Kinds) : <<>> \o s = s
      OBVIOUS
    <3>3. QED
      BY <1>1, <1>3, <3>1, <3>2
  <2>3. h
    <3>1. SUFFICES ASSUME ~h PROVE FALSE
      BY Zenon
    <3>2. events' \in Seq({"read", "write"})
      <4>1. <<>> \in Seq({"read", "write"}) /\ <<"read">> \in Seq({"read", "write"})
            /\ <<"write">> \in Seq({"read", "write"})
        OBVIOUS
      <4>2. Bit(h, "close") = <<>> /\ Bit(r, "read") \in {<<>>, <<"read">>}
            /\ Bit(w, "write") \in {<<>>, <<"write">>}
        BY <3>1, Zenon DEF Bit
      <4>3. \A x, y \in Seq({"read", "write"}) : x \o y \in Seq({"read", "write"})
        OBVIOUS
      <4> HIDE DEF r, w, h
      <4>4. QED
        BY <2>2, <4>1, <4>2, <4>3, Zenon
    <3>3. QED
      BY <1>5, <3>2 DEF Pending
  <2>4. peerFin /\ conn.reading
    BY <1>2, <2>1, <2>3, Zenon DEF DeliveryInv, Finished
  <2>5. 1 \in DOMAIN events' /\ events'[1] = "read" /\ DOMAIN events' \subseteq Nat \ {0}
    <3>1. PICK u \in Seq(Kinds), v \in Seq(Kinds) : events' = <<"read">> \o u \o v
      <4>1. Bit(r, "read") = <<"read">>
        BY <2>4, Zenon DEF Bit
      <4>2. Bit(w, "write") \in Seq(Kinds) /\ Bit(h, "close") \in Seq(Kinds)
        BY <1>3, Zenon
      <4>3. QED
        BY <2>2, <4>1, <4>2, Zenon
    <3>2. QED
      BY <3>1
  <2>6. \A i \in DOMAIN events' : events'[i] = "close" => 1 < i
    BY <2>5
  <2>7. QED
    BY <1>2, <2>4, <2>5, <2>6, Zenon DEF ReadFirst, kernelVars
<1>6. QED
  BY <1>4, <1>5, Zenon DEF Drained

\* A step that handles no event: the rest of the snapshot stays as it is, and the read
\* loop is not left before the socket is empty.
LEMMA OtherDrains ==
    ASSUME DeliveryInv, UNCHANGED <<events, peerFin, broken>>,
           inbox' = inbox \/ (inbox' \in Nat /\ lpc' \in {"read", "message"}),
           \/ lpc' = lpc
           \/ lpc' \in {"read", "message"}
           \/ lpc \notin {"read", "message"}
           \/ inbox = 0
           \/ events = <<>>
    PROVE  Drained' /\ events' \in Seq({"error", "read", "write", "close"})
<1>1. Pending("close")' = Pending("close") /\ ReadFirst' = ReadFirst
  BY Zenon DEF Pending, ReadFirst
<1>2. events = <<>> => ~Pending("close")
  BY DEF Pending
<1>3. QED
  BY <1>1, <1>2, Zenon DEF Drained, DeliveryInv

\* The loop thread's steps on the connection.
LEMMA LoopDelivers ==
    ASSUME Inv, DeliveryInv, RunFunctor \/ ErrorEvent \/ WriteEvent \/ ReadEnds \/ Return
    PROVE  DeliveryInv'
<1>1. conn \in Connection /\ Finished(conn)
  BY Zenon DEF Inv, ConnInv, DeliveryInv
<1>2. Spares(conn, conn') /\ UNCHANGED kernelVars
  <2>1. CASE RunFunctor
    <3>1. PICK call : call = Head(queue) /\ call \in Calls
      BY <2>1 DEF RunFunctor, Inv, Setup
    <3>2. conn' \in Outcomes(conn, call)
      BY <2>1, <3>1, Zenon DEF RunFunctor
    <3>3. CASE call[1] = "send"
      BY <1>1, <2>1, <3>2, <3>3, SendSpares, Zenon DEF Outcomes, RunFunctor
    <3>4. CASE call[1] # "send"
      <4>1. call[1] \in {"establish", "shutdown", "forceClose", "startRead", "stopRead", "destroy"}
        BY <3>1, <3>4 DEF Calls
      <4>2. conn' \in {ConnectEstablished(conn), ShutdownInLoop(conn), HandleClose(conn),
                       StartRead(conn), StopRead(conn), ConnectDestroyed(conn)}
        BY <3>2, <4>1, Zenon DEF Outcomes
      <4>3. QED
        BY <1>1, <2>1, <4>2, PlainSpares, Zenon DEF RunFunctor
    <3>5. QED
      BY <3>3, <3>4, Zenon
  <2>2. CASE ErrorEvent
    BY <1>1, <2>2, PlainSpares, Zenon DEF ErrorEvent
  <2>3. CASE WriteEvent
    <3>1. UNCHANGED kernelVars
      BY <2>3, Zenon DEF WriteEvent
    <3>2. CASE ~conn.writing
      BY <1>1, <2>3, <3>1, <3>2, Zenon DEF WriteEvent, Spares
    <3>3. CASE conn.writing /\ WriteFails(conn)
      BY <1>1, <2>3, <3>1, <3>3, PlainSpares, Zenon DEF WriteEvent
    <3>4. CASE conn.writing /\ ~WriteFails(conn)
      BY <1>1, <2>3, <3>1, <3>4, HandleWriteSpares, Zenon DEF WriteEvent, WriteFails
    <3>5. QED
      BY <3>2, <3>3, <3>4, Zenon
  <2>4. CASE ReadEnds
    BY <1>1, <2>4, PlainSpares, Zenon DEF ReadEnds, Spares
  <2>5. CASE Return
    BY <1>1, <2>5, PlainSpares, Zenon DEF Return, Spares
  <2>6. QED
    BY <2>1, <2>2, <2>3, <2>4, <2>5, Zenon
<1>3. Drained' /\ events' \in Seq({"error", "read", "write", "close"})
  <2>1. CASE RunFunctor
    <3>1. UNCHANGED <<events, peerFin, broken, inbox>> /\ events = <<>>
      BY <2>1, Zenon DEF RunFunctor, Resting, kernelVars
    <3>2. QED
      BY <3>1, OtherDrains, Zenon
  <2>2. CASE ErrorEvent
    BY <1>2, <2>2, NextEvent, Zenon DEF ErrorEvent
  <2>3. CASE WriteEvent
    BY <1>2, <2>3, NextEvent, Zenon DEF WriteEvent
  <2>4. CASE ReadEnds
    <3>1. CASE broken
      BY <2>4, <3>1, Zenon DEF ReadEnds, kernelVars, Drained, DeliveryInv
    <3>2. CASE ~broken
      <4>1. inbox = 0
        BY <2>4, <3>2 DEF ReadEnds, DeliveryInv
      <4>2. UNCHANGED <<events, peerFin, broken, inbox>>
        BY <2>4, Zenon DEF ReadEnds, kernelVars
      <4>3. QED
        BY <4>1, <4>2, OtherDrains, Zenon
    <3>3. QED
      BY <3>1, <3>2, Zenon
  <2>5. CASE Return
    <3>1. UNCHANGED <<events, peerFin, broken, inbox>>
      BY <2>5, Zenon DEF Return, kernelVars
    <3>2. lpc' \in {"read", "message"} \/ lpc \notin {"read", "message"}
      BY <2>5, Zenon DEF Return
    <3>3. QED
      BY <3>1, <3>2, OtherDrains, Zenon
  <2>6. QED
    BY <2>1, <2>2, <2>3, <2>4, <2>5, Zenon
<1>4. QED
  BY <1>2, <1>3, Zenon DEF DeliveryInv, Spares, kernelVars

\* A close event loses nothing: no read is ahead of the first event, so the input of a
\* healthy socket has been read.
LEMMA CloseDelivers ==
    ASSUME Inv, DeliveryInv, CloseEvent
    PROVE  DeliveryInv'
<1>1. conn \in Connection /\ Finished(conn) /\ ~conn.lost
  BY Zenon DEF Inv, ConnInv, DeliveryInv
<1>2. Handle("close") /\ events' = Tail(events) /\ UNCHANGED kernelVars
  BY Zenon DEF CloseEvent
<1>3. Drained' /\ events' \in Seq({"error", "read", "write", "close"})
  BY <1>2, NextEvent, Zenon
<1>4. ~broken => inbox = 0
  <2>1. 1 \in DOMAIN events /\ events[1] = "close" /\ lpc = "idle" /\ DOMAIN events \subseteq Nat \ {0}
    BY <1>2 DEF Handle, DeliveryInv
  <2>2. Pending("close")
    BY <2>1, Zenon DEF Pending
  <2>3. ~ReadFirst
    BY <2>1 DEF ReadFirst
  <2>4. QED
    BY <2>1, <2>2, <2>3, Zenon DEF DeliveryInv, Drained
<1>5. ~conn'.lost /\ Finished(conn')
  <2>1. Spares(conn, HandleClose(conn)) /\ HandleClose(conn) \in Connection
    <3>1. Append(conn.notes, "down") \in Seq({"up", "down"}) /\ conn.closes + 1 \in Nat
      BY <1>1 DEF Connection
    <3>2. HandleClose(conn) \in Connection
      BY <1>1, <3>1, Zenon DEF Connection, HandleClose, States
    <3>3. QED
      BY <1>1, <3>2, PlainSpares, Zenon
  <2>2. PICK d \in Connection : d = HandleClose(conn)
    BY <2>1, Zenon
  <2>3. conn' = [d EXCEPT !.lost = @ \/ (conn.state # "Disconnected" /\ ~broken /\ inbox > 0)]
    BY <2>2, Zenon DEF CloseEvent
  <2>4. ~(conn.state # "Disconnected" /\ ~broken /\ inbox > 0)
    BY <1>4
  <2>5. conn' = [d EXCEPT !.lost = FALSE] /\ ~d.lost /\ Finished(d)
    BY <1>1, <2>1, <2>2, <2>3, <2>4, Zenon DEF Spares
  <2>6. QED
    BY <2>5, Zenon DEF Connection, Finished
<1>6. QED
  BY <1>2, <1>3, <1>5, Zenon DEF DeliveryInv, kernelVars

\* Calls of users, from callbacks and from other threads.
LEMMA UserDelivers ==
    ASSUME Inv, DeliveryInv, UserCall \/ Destroy \/ \E t \in Thread : ShutdownStore(t)
    PROVE  DeliveryInv'
<1>1. conn \in Connection /\ Finished(conn)
  BY Zenon DEF Inv, ConnInv, DeliveryInv
<1>2. UNCHANGED <<lpc, events, kernelVars>>
  BY Zenon DEF UserCall, OwnSend, OwnShutdown, OwnForceClose, OwnStartRead, OwnStopRead, OwnCall, Send,
         Control, QueueCall, ShutdownTest, ShutdownStore, Destroy
<1>3. Spares(conn, conn')
  <2>1. CASE \E m \in Message : OwnSend(m)
    BY <1>1, <2>1, SendSpares, Zenon DEF OwnSend
  <2>2. CASE OwnShutdown \/ OwnForceClose \/ OwnStartRead \/ OwnStopRead
    BY <1>1, <2>2, PlainSpares, Zenon DEF OwnShutdown, OwnForceClose, OwnStartRead, OwnStopRead
  <2>3. CASE \E t \in Thread : ShutdownStore(t)
    <3>1. PICK b : conn' = [conn EXCEPT !.state = "Disconnecting", !.revived = b]
      BY <2>3, Zenon DEF ShutdownStore
    <3>2. QED
      BY <1>1, <3>1, Zenon DEF Spares, Finished, Connection
  <2>4. CASE UNCHANGED conn
    BY <1>1, <2>4, Zenon DEF Spares
  <2>5. QED
    BY <2>1, <2>2, <2>3, <2>4, Zenon DEF UserCall, Send, Control, QueueCall, ShutdownTest, Destroy
<1>4. Drained' /\ events' \in Seq({"error", "read", "write", "close"})
  BY <1>2, OtherDrains, Zenon DEF kernelVars
<1>5. QED
  BY <1>2, <1>3, <1>4, Zenon DEF DeliveryInv, Spares, kernelVars

\* Polling, reading, and the peer and the kernel, which do not touch the connection.
LEMMA OutsideDelivers ==
    ASSUME Inv, DeliveryInv,
           \/ Poll(TRUE) \/ Poll(FALSE) \/ ReadEvent \/ ReadSome
           \/ PeerSends \/ PeerCloses \/ Breaks \/ UNCHANGED vars
    PROVE  DeliveryInv'
<1>1. UNCHANGED conn /\ ~conn.lost /\ Finished(conn)
  BY Zenon DEF Poll, ReadEvent, ReadSome, PeerSends, PeerCloses, Breaks, vars, DeliveryInv
<1>2. CASE Poll(TRUE) \/ Poll(FALSE)
  <2>1. Drained' /\ events' \in Seq({"error", "read", "write", "close"})
    BY <1>2, PollDrains, Zenon
  <2>2. QED
    BY <1>1, <1>2, <2>1, Zenon DEF Poll, DeliveryInv, kernelVars
<1>3. CASE ReadEvent
  <2>1. Drained' /\ events' \in Seq({"error", "read", "write", "close"})
    BY <1>3, NextEvent, Zenon DEF ReadEvent
  <2>2. QED
    BY <1>1, <1>3, <2>1, Zenon DEF ReadEvent, DeliveryInv, kernelVars
<1>4. CASE ReadSome
  <2>1. inbox' \in Nat /\ lpc' = "message" /\ UNCHANGED <<events, peerFin, broken>>
    BY <1>4 DEF ReadSome, DeliveryInv
  <2>2. Drained' /\ events' \in Seq({"error", "read", "write", "close"})
    BY <2>1, OtherDrains, Zenon
  <2>3. QED
    BY <1>1, <2>1, <2>2, Zenon DEF DeliveryInv
<1>5. CASE PeerSends
  <2>1. ~Pending("close")' /\ inbox' \in Nat /\ UNCHANGED <<events, peerFin, broken>>
    BY <1>5 DEF PeerSends, DeliveryInv, Drained, Pending
  <2>2. QED
    BY <1>1, <2>1, Zenon DEF DeliveryInv, Drained
<1>6. CASE PeerCloses
  <2>1. peerFin' = TRUE /\ UNCHANGED <<lpc, events, inbox, broken>>
    BY <1>6, Zenon DEF PeerCloses
  <2>2. Drained'
    BY <2>1, Zenon DEF DeliveryInv, Drained, Pending, ReadFirst
  <2>3. QED
    BY <1>1, <2>1, <2>2, Zenon DEF DeliveryInv
<1>7. CASE Breaks
  BY <1>1, <1>7, Zenon DEF Breaks, DeliveryInv, Drained
<1>8. CASE UNCHANGED vars
  <2>1. UNCHANGED <<lpc, events, inbox, peerFin, broken>>
    BY <1>8, Zenon DEF vars
  <2>2. QED
    BY <1>1, <2>1, OtherDrains, Zenon DEF DeliveryInv
<1>9. QED
  BY <1>2, <1>3, <1>4, <1>5, <1>6, <1>7, <1>8, Zenon

\* Whatever the messages, limits and callers: when the close handler closes a
\* connection whose peer has closed, no byte of the peer is left unread.
THEOREM ConnPeerCloseDeliversAll == Spec => []PeerCloseDeliversAll
<1>1. Init => DeliveryInv
  <2>1. ASSUME Init PROVE DeliveryInv
    <3>1. conn = NewConnection /\ events = <<>> /\ inbox = 0 /\ peerFin = FALSE /\ broken = FALSE
      BY <2>1, Zenon DEF Init
    <3>2. ~conn.lost /\ Finished(conn)
      BY <3>1, Zenon DEF NewConnection, Finished
    <3>3. events \in Seq({"error", "read", "write", "close"}) /\ ~Pending("close")
      BY <3>1 DEF Pending
    <3>4. QED
      BY <3>1, <3>2, <3>3, Zenon DEF DeliveryInv, Drained
  <2>2. QED
    BY <2>1, Zenon
<1>2. Inv /\ DeliveryInv /\ [Next]_vars => DeliveryInv'
  BY LoopDelivers, CloseDelivers, UserDelivers, OutsideDelivers, Zenon DEF Next, LoopStep
<1>3. DeliveryInv => PeerCloseDeliversAll
  BY Zenon DEF DeliveryInv, PeerCloseDeliversAll
<1>4. QED
  BY <1>1, <1>2, <1>3, ConnInvariant, PTL DEF Spec

-----------------------------------------------------------------------------
(***************************************************************************)
(* net::Buffer.  The bytes are compared where they lie: Agree says that n  *)
(* bytes of f from index i on are those of g from index j on, with indices *)
(* that count from 0.                                                      *)
(***************************************************************************)
Vector(s, len) == s \in Seq(Nat) /\ len \in Nat /\ Len(s) = len
Agree(f, i, g, j, n) == \A p \in 1..n : f[i + p] = g[j + p]

\* A sequence is determined by its length and its bytes.
LEMMA AgreeEqual ==
    ASSUME NEW s, NEW t, NEW n, Vector(s, n), Vector(t, n), Agree(s, 0, t, 0, n)
    PROVE  s = t
<1>1. \A p \in 1..n : 0 + p = p
  OBVIOUS
<1>2. \A p \in 1..Len(s) : s[p] = t[p]
  BY <1>1 DEF Agree, Vector
<1>3. QED
  BY <1>2, SeqEqual DEF Vector

\* What agrees with the same bytes agrees.
LEMMA AgreeTrans ==
    ASSUME NEW f, NEW i, NEW g, NEW j, NEW h, NEW k, NEW n,
           Agree(f, i, g, j, n), Agree(g, j, h, k, n) \/ Agree(h, k, g, j, n)
    PROVE  Agree(f, i, h, k, n)
  BY Zenon DEF Agree

\* A part of bytes that agree.
LEMMA AgreePart ==
    ASSUME NEW f, NEW i \in Nat, NEW g, NEW j \in Nat, NEW n \in Nat, Agree(f, i, g, j, n),
           NEW a \in Nat, NEW m \in Nat, a + m <= n
    PROVE  Agree(f, i + a, g, j + a, m)
<1>1. \A p \in 1..m : a + p \in 1..n /\ i + (a + p) = (i + a) + p /\ j + (a + p) = (j + a) + p
  OBVIOUS
<1>2. QED
  BY <1>1, Zenon DEF Agree

\* Bytes that agree followed by bytes that agree.
LEMMA AgreeBoth ==
    ASSUME NEW f, NEW i \in Nat, NEW g, NEW n \in Nat, NEW m \in Nat, NEW w,
           Agree(f, i, g, 0, n), Agree(f, w, g, n, m), w = i + n
    PROVE  Agree(f, i, g, 0, n + m)
<1>1. \A p \in 1..n + m : p \in 1..n \/
          (p - n \in 1..m /\ w + (p - n) = i + p /\ n + (p - n) = 0 + p)
  OBVIOUS
<1>2. QED
  BY <1>1, Zenon DEF Agree

\* A vector of n bytes is a sequence of length n.
LEMMA VectorLength ==
    ASSUME NEW n \in Nat, NEW v \in [1..n -> Nat]
    PROVE  Vector(v, n)
  BY DEF Vector

\* So is the zeroed vector of a new or grown buffer.
LEMMA ZerosLength ==
    ASSUME NEW n \in Nat
    PROVE  Vector(B!Zeros(n), n)
<1>1. B!Zeros(n) \in [1..n -> Nat]
  BY DEF B!Zeros
<1>2. QED
  BY <1>1, VectorLength, Zenon

\* memcpy of s to index i inside the vector: the size stays, s is there, and what
\* lies before or behind is as it was.
LEMMA PutAgrees ==
    ASSUME NEW cells, NEW size, Vector(cells, size), NEW s, NEW len, Vector(s, len),
           NEW i \in Nat, i + len <= size
    PROVE  /\ Vector(B!Put(cells, i, s), size)
           /\ Agree(B!Put(cells, i, s), i, s, 0, len)
           /\ \A a, m \in Nat : a + m <= i \/ (i + len <= a /\ a + m <= size) =>
                Agree(B!Put(cells, i, s), a, cells, a, m)
<1>0. /\ DOMAIN cells = 1..size /\ size \in Nat /\ Len(s) = len /\ len \in Nat
      /\ cells \in Seq(Nat) /\ s \in Seq(Nat) /\ Len(cells) = size
  BY DEF Vector
<1>1. PICK c : c = B!Put(cells, i, s)
  OBVIOUS
<1>2. c = [j \in 1..size |-> IF j \in (i + 1)..(i + len) THEN s[j - i] ELSE cells[j]]
  BY <1>0, <1>1, Zenon DEF B!Put
<1>3. c \in [1..size -> Nat]
  <2>1. \A j \in (i + 1)..(i + len) : j - i \in 1..Len(s)
    BY <1>0
  <2>2. \A j \in 1..size : (IF j \in (i + 1)..(i + len) THEN s[j - i] ELSE cells[j]) \in Nat
    BY <1>0, <2>1, ElementOfSeq, SMTT(30)
  <2>3. QED
    BY <1>2, <2>2
<1>4. Vector(c, size)
  BY <1>0, <1>3, VectorLength, Zenon
<1>5. ASSUME NEW p \in 1..len PROVE c[i + p] = s[0 + p]
  <2>1. i + p \in 1..size /\ i + p \in (i + 1)..(i + len) /\ i + p - i = 0 + p
    BY <1>0
  <2>2. QED
    BY <1>2, <2>1
<1>6. ASSUME NEW a \in Nat, NEW m \in Nat, a + m <= i \/ (i + len <= a /\ a + m <= size),
             NEW p \in 1..m
      PROVE  c[a + p] = cells[a + p]
  <2>1. a + p \in 1..size /\ a + p \notin (i + 1)..(i + len)
    BY <1>0, <1>6
  <2>2. QED
    BY <1>2, <2>1
<1>7. QED
  BY <1>1, <1>4, <1>5, <1>6, Zenon DEF Agree

\* The bytes of s from index m up to index n.
LEMMA CutAgrees ==
    ASSUME NEW s, NEW len, Vector(s, len), NEW m \in Nat, NEW n \in Nat, m <= n, n <= len
    PROVE  /\ Vector(SubSeq(s, m + 1, n), n - m)
           /\ Agree(SubSeq(s, m + 1, n), 0, s, m, n - m)
<1>0. s \in Seq(Nat) /\ len \in Nat /\ Len(s) = len
  BY DEF Vector
<1>1. /\ m + 1 \in 1..Len(s) + 1 /\ n \in m + 1 - 1..Len(s) /\ n - (m + 1) + 1 = n - m
      /\ n - m \in Nat
  BY <1>0
<1>2. \A i \in 1..n - m : m + 1 + i - 1 = m + i /\ 0 + i = i
  OBVIOUS
<1>3. /\ SubSeq(s, m + 1, n) \in Seq(Nat) /\ Len(SubSeq(s, m + 1, n)) = n - m
      /\ \A i \in 1..n - m : SubSeq(s, m + 1, n)[i] = s[m + 1 + i - 1]
  BY <1>0, <1>1, SubSeqProperties
<1>4. QED
  BY <1>1, <1>2, <1>3, Zenon DEF Vector, Agree

\* s followed by x.
LEMMA JoinAgrees ==
    ASSUME NEW s, NEW len, Vector(s, len), NEW x, NEW m, Vector(x, m)
    PROVE  /\ Vector(s \o x, len + m)
           /\ Agree(s \o x, 0, s, 0, len) /\ Agree(s \o x, len, x, 0, m)
<1>1. s \in Seq(Nat) /\ len \in Nat /\ Len(s) = len /\ x \in Seq(Nat) /\ m \in Nat /\ Len(x) = m
  BY DEF Vector
<1>2. /\ s \o x \in Seq(Nat) /\ Len(s \o x) = len + m /\ len + m \in Nat
      /\ \A i \in 1..len : (s \o x)[i] = s[i]
      /\ \A i \in 1..m : (s \o x)[len + i] = x[i]
  <2>1. s \o x \in Seq(Nat) /\ Len(s \o x) = Len(s) + Len(x) /\ Len(s) + Len(x) \in Nat
    BY <1>1, SMTT(30)
  <2>2. \A i \in 1..Len(s) : (s \o x)[i] = s[i]
    BY <1>1
  <2>3. \A i \in 1..Len(x) : (s \o x)[Len(s) + i] = x[i]
    BY <1>1, SMTT(30)
  <2>4. QED
    BY <1>1, <2>1, <2>2, <2>3
<1>3. (\A i \in 1..len : 0 + i = i) /\ \A i \in 1..m : 0 + i = i
  BY <1>1
<1>4. QED
  BY <1>2, <1>3, Zenon DEF Vector, Agree

-----------------------------------------------------------------------------
\* The parts of a buffer that is not wild.
Buffers == [cells : Seq(Nat), reader : Nat, writer : Nat, wild : BOOLEAN]

Consists(b, cells, reader, writer) ==
    /\ b \in Buffers /\ b.cells = cells /\ b.reader = reader /\ b.writer = writer
    /\ b.wild = FALSE

Indices(size, reader, writer, len) ==
    /\ {size, reader, writer, len, kCheapPrepend} \subseteq Nat
    /\ kCheapPrepend <= size /\ writer <= size /\ writer = reader + len

\* Such a buffer holds s: len bytes between its indices, in a vector of size bytes.
Parts(b, s, cells, size, reader, writer, len) ==
    /\ Consists(b, cells, reader, writer) /\ Vector(cells, size) /\ Vector(s, len)
    /\ Indices(size, reader, writer, len) /\ Agree(cells, reader, s, 0, len)

Holds(b, s) ==
    \E cells, size, reader, writer, len : Parts(b, s, cells, size, reader, writer, len)

\* What a call that may move the bytes leaves: a buffer that holds s, or one that
\* is wild, which only a prepend() can have led to.
Keeps(b, c, s) ==
    /\ c.wild \in BOOLEAN
    /\ ~c.wild => Holds(c, s)
    /\ kCheapPrepend <= b.reader => ~c.wild /\ kCheapPrepend <= c.reader

\* The inductive invariant of BufferStream.
BufferInv ==
    /\ put \in Nat /\ prepended \in BOOLEAN /\ buffer.wild \in BOOLEAN
    /\ ~buffer.wild => Holds(buffer, stream)
    /\ ~prepended => ~buffer.wild /\ kCheapPrepend <= buffer.reader

-----------------------------------------------------------------------------
\* What assignments to the indices of a buffer make of it: to one or to both.
LEMMA AssignIndices ==
    ASSUME NEW b, NEW cells, NEW reader, NEW writer, Consists(b, cells, reader, writer),
           NEW r \in Nat, NEW w \in Nat, NEW d,
           \/ d = [b EXCEPT !.reader = r] /\ w = writer
           \/ d = [b EXCEPT !.writer = w] /\ r = reader
           \/ d = [b EXCEPT !.reader = r, !.writer = w]
    PROVE  Consists(d, cells, r, w)
  BY Zenon DEF Consists, Buffers

\* The same, of assignments to the vector and one or both indices.
LEMMA AssignAll ==
    ASSUME NEW b, NEW cells, NEW reader, NEW writer, Consists(b, cells, reader, writer),
           NEW c, NEW size, Vector(c, size), NEW r \in Nat, NEW w \in Nat, NEW d,
           \/ d = [b EXCEPT !.cells = c, !.reader = r] /\ w = writer
           \/ d = [b EXCEPT !.cells = c, !.writer = w] /\ r = reader
           \/ d = [b EXCEPT !.cells = c, !.reader = r, !.writer = w]
    PROVE  Consists(d, c, r, w)
<1>1. c \in Seq(Nat)
  BY Zenon DEF Vector
<1>2. QED
  BY <1>1, Zenon DEF Consists, Buffers

\* What the accessors return.
LEMMA Accessors ==
    ASSUME NEW b, NEW s, NEW cells, NEW size, NEW reader, NEW writer, NEW len,
           Parts(b, s, cells, size, reader, writer, len)
    PROVE  /\ B!ReadableBytes(b) = len /\ B!WritableBytes(b) = size - writer
           /\ b.reader = reader /\ b.writer = writer /\ b.cells = cells /\ b.wild = FALSE
<1>1. /\ b.reader = reader /\ b.writer = writer /\ b.cells = cells /\ b.wild = FALSE
      /\ Len(cells) = size
  BY Zenon DEF Parts, Consists, Vector
<1>2. reader \in Nat /\ len \in Nat /\ writer = reader + len
  BY DEF Parts, Indices
<1>3. writer - reader = len
  BY <1>2
<1>4. QED
  BY <1>1, <1>3, Zenon DEF B!ReadableBytes, B!WritableBytes

\* A buffer that holds s, where its bytes begin and how much room is behind them.
State(b, s, reader, room) ==
    Holds(b, s) /\ b.wild = FALSE /\ b.reader = reader /\ B!WritableBytes(b) = room

\* A buffer of such parts holds s.
LEMMA PartsHold ==
    ASSUME NEW b, NEW s, NEW cells, NEW size, NEW reader, NEW writer, NEW len,
           Parts(b, s, cells, size, reader, writer, len)
    PROVE  State(b, s, reader, size - writer)
<1>1. Holds(b, s)
  BY Zenon DEF Holds
<1>2. QED
  BY <1>1, Accessors, Zenon DEF State

\* readableView() of a buffer that holds s is s.
LEMMA ViewIsStream ==
    ASSUME NEW b, NEW s, NEW cells, NEW size, NEW reader, NEW writer, NEW len,
           Parts(b, s, cells, size, reader, writer, len)
    PROVE  B!View(b) = s
<1>1. Vector(cells, size) /\ Vector(s, len) /\ Agree(cells, reader, s, 0, len)
  BY Zenon DEF Parts
<1>2. /\ reader \in Nat /\ writer \in Nat /\ reader <= writer /\ writer <= size
      /\ writer - reader = len
  BY DEF Parts, Indices
<1>3. PICK v : v = SubSeq(cells, reader + 1, writer)
  BY Zenon
<1>4. Vector(v, writer - reader) /\ Agree(v, 0, cells, reader, writer - reader)
  BY <1>1, <1>2, <1>3, CutAgrees, Zenon
<1>5. Vector(v, len) /\ Agree(v, 0, cells, reader, len)
  BY <1>2, <1>4, Zenon
<1>6. v = s
  BY <1>1, <1>5, AgreeTrans, AgreeEqual, Zenon
<1>7. B!View(b) = v
  BY <1>3, Accessors, Zenon DEF B!View
<1>8. QED
  BY <1>6, <1>7, Zenon

\* retrieveAll(): nothing is left, and the indices are where a new buffer has them.
LEMMA RetrieveAllEmpties ==
    ASSUME NEW b, NEW s, Holds(b, s)
    PROVE  /\ Holds(B!RetrieveAll(b), <<>>) /\ ~B!RetrieveAll(b).wild
           /\ B!RetrieveAll(b).reader = kCheapPrepend
<1>1. PICK cells, size, reader, writer, len : Parts(b, s, cells, size, reader, writer, len)
  BY Zenon DEF Holds
<1>2. Consists(b, cells, reader, writer)
  BY <1>1, Zenon DEF Parts
<1>3. Vector(cells, size)
  BY <1>1, Zenon DEF Parts
<1>4. kCheapPrepend \in Nat /\ Indices(size, kCheapPrepend, kCheapPrepend, 0)
  BY <1>1 DEF Parts, Indices
<1>5. Consists(B!RetrieveAll(b), cells, kCheapPrepend, kCheapPrepend)
  <2>1. B!RetrieveAll(b) = [b EXCEPT !.reader = kCheapPrepend, !.writer = kCheapPrepend]
    BY Zenon DEF B!RetrieveAll
  <2>2. QED
    BY <1>2, <1>4, <2>1, AssignIndices, Zenon
<1>6. Vector(<<>>, 0) /\ Agree(cells, kCheapPrepend, <<>>, 0, 0)
  BY DEF Vector, Agree
<1>7. Parts(B!RetrieveAll(b), <<>>, cells, size, kCheapPrepend, kCheapPrepend, 0)
  BY <1>3, <1>4, <1>5, <1>6, Zenon DEF Parts
<1>8. State(B!RetrieveAll(b), <<>>, kCheapPrepend, size - kCheapPrepend)
  BY ONLY <1>7, PartsHold, Zenon
<1>9. QED
  BY <1>8, Zenon DEF State

\* retrieve(): the first n bytes are gone, all of them when there are no more.
LEMMA RetrieveTakes ==
    ASSUME NEW b, NEW s, Holds(b, s), NEW n \in Nat
    PROVE  /\ Holds(B!Retrieve(b, n), SubSeq(s, n + 1, Len(s))) /\ ~B!Retrieve(b, n).wild
           /\ kCheapPrepend <= b.reader => kCheapPrepend <= B!Retrieve(b, n).reader
<1>1. PICK cells, size, reader, writer, len : Parts(b, s, cells, size, reader, writer, len)
  BY Zenon DEF Holds
<1>2. /\ Consists(b, cells, reader, writer) /\ Vector(cells, size) /\ Vector(s, len)
      /\ Indices(size, reader, writer, len) /\ Agree(cells, reader, s, 0, len)
  BY <1>1, Zenon DEF Parts
<1>3. /\ size \in Nat /\ len \in Nat /\ reader \in Nat /\ writer \in Nat /\ kCheapPrepend \in Nat
      /\ writer = reader + len /\ writer <= size /\ kCheapPrepend <= size
  BY <1>2 DEF Indices
<1>4. b.reader = reader /\ B!ReadableBytes(b) = len
  BY <1>1, Accessors, Zenon
<1>5. Len(s) = len
  BY <1>2, Zenon DEF Vector
<1>c. Consists(b, cells, reader, writer)
  BY <1>2, Zenon
<1>v. Vector(cells, size)
  BY <1>2, Zenon
<1>6. CASE n < len
  <2>1. /\ n <= len /\ len <= len /\ reader + n \in Nat /\ len - n \in Nat
        /\ n + (len - n) <= len /\ 0 + n = n
        /\ kCheapPrepend <= reader => kCheapPrepend <= reader + n
    BY ONLY n \in Nat, <1>3, <1>6
  <2>2. Consists(B!Retrieve(b, n), cells, reader + n, writer)
    <3>1. B!Retrieve(b, n) = [b EXCEPT !.reader = reader + n]
      BY <1>4, <1>6, Zenon DEF B!Retrieve
    <3>2. QED
      BY <1>3, <1>c, <2>1, <3>1, AssignIndices, Zenon
  <2>3. PICK t : t = SubSeq(s, n + 1, len)
    BY Zenon
  <2>4. Vector(t, len - n) /\ Agree(t, 0, s, n, len - n)
    BY <1>2, <1>3, <2>1, <2>3, CutAgrees, Zenon
  <2>5. Agree(cells, reader + n, s, 0 + n, len - n)
    BY <1>2, <1>3, <2>1, AgreePart, Zenon
  <2>6. Agree(cells, reader + n, t, 0, len - n)
    <3>1. Agree(cells, reader + n, s, n, len - n)
      BY ONLY <2>1, <2>5, Zenon
    <3>2. QED
      BY ONLY <2>4, <3>1, AgreeTrans, Zenon
  <2>7. Indices(size, reader + n, writer, len - n)
    BY <1>3, <1>6 DEF Indices
  <2>8. Holds(B!Retrieve(b, n), t) /\ ~B!Retrieve(b, n).wild /\ B!Retrieve(b, n).reader = reader + n
    <3>1. Parts(B!Retrieve(b, n), t, cells, size, reader + n, writer, len - n)
      BY <1>v, <2>2, <2>4, <2>6, <2>7, Zenon DEF Parts
    <3>2. State(B!Retrieve(b, n), t, reader + n, size - writer)
      BY ONLY <3>1, PartsHold, Zenon
    <3>3. QED
      BY <3>2, Zenon DEF State
  <2>9. QED
    BY <1>4, <1>5, <2>1, <2>3, <2>8, Zenon
<1>7. CASE ~(n < len)
  <2>1. B!Retrieve(b, n) = B!RetrieveAll(b)
    BY <1>4, <1>7, Zenon DEF B!Retrieve
  <2>2. SubSeq(s, n + 1, len) = <<>>
    BY <1>2, <1>3, <1>7 DEF Vector
  <2>3. kCheapPrepend <= kCheapPrepend
    BY <1>3
  <2>4. QED
    BY <1>5, <2>1, <2>2, <2>3, RetrieveAllEmpties, Zenon
<1>8. QED
  BY <1>6, <1>7, Zenon

\* The copy and hasWritten() of append(), when there is room: the bytes x follow s.
LEMMA WriteAppends ==
    ASSUME NEW b, NEW s, Holds(b, s), NEW x, NEW m, Vector(x, m), m <= B!WritableBytes(b)
    PROVE  /\ Holds(B!Write(b, x), s \o x) /\ ~B!Write(b, x).wild
           /\ B!Write(b, x).reader = b.reader
           /\ B!WritableBytes(B!Write(b, x)) = B!WritableBytes(b) - m
<1>1. PICK cells, size, reader, writer, len : Parts(b, s, cells, size, reader, writer, len)
  BY Zenon DEF Holds
<1>2. Consists(b, cells, reader, writer)
  BY <1>1, Zenon DEF Parts
<1>3. Vector(cells, size) /\ Vector(s, len)
  BY <1>1, Zenon DEF Parts
<1>4. Agree(cells, reader, s, 0, len)
  BY <1>1, Zenon DEF Parts
<1>5. /\ b.reader = reader /\ b.writer = writer /\ b.cells = cells /\ b.wild = FALSE
      /\ B!WritableBytes(b) = size - writer
  BY <1>1, Accessors, Zenon
<1>6. m \in Nat /\ Len(x) = m
  BY Zenon DEF Vector
<1>7. m <= size - writer
  BY <1>5, Zenon
<1>8. /\ size \in Nat /\ len \in Nat /\ reader \in Nat /\ writer \in Nat /\ kCheapPrepend \in Nat
      /\ writer = reader + len /\ writer <= size /\ kCheapPrepend <= size
  BY <1>1 DEF Parts, Indices
<1>9. /\ writer + m \in Nat /\ writer + m <= size /\ len + m \in Nat /\ reader + len <= writer
      /\ size - (writer + m) = size - writer - m
  BY ONLY <1>6, <1>7, <1>8
<1>10. PICK c : c = B!Put(cells, writer, x)
  BY Zenon
<1>11. Vector(c, size) /\ Agree(c, writer, x, 0, m) /\ Agree(c, reader, cells, reader, len)
  BY <1>3, <1>8, <1>9, <1>10, PutAgrees, Zenon
<1>12. B!Write(b, x) = [b EXCEPT !.cells = c, !.writer = writer + m]
  BY <1>5, <1>6, <1>10, Zenon DEF B!Write
<1>13. Consists(B!Write(b, x), c, reader, writer + m)
  BY <1>2, <1>8, <1>9, <1>11, <1>12, AssignAll, Zenon
<1>14. PICK t : t = s \o x
  BY Zenon
<1>15. Vector(t, len + m) /\ Agree(t, 0, s, 0, len) /\ Agree(t, len, x, 0, m)
  BY <1>3, <1>14, JoinAgrees, Zenon
<1>16. Agree(c, reader, t, 0, len)
  BY <1>4, <1>11, <1>15, AgreeTrans, Zenon
<1>17. Agree(c, writer, t, len, m)
  BY <1>11, <1>15, AgreeTrans, Zenon
<1>18. Agree(c, reader, t, 0, len + m)
  BY <1>6, <1>8, <1>16, <1>17, AgreeBoth, Zenon
<1>19. Indices(size, reader, writer + m, len + m)
  BY <1>6, <1>8, <1>9 DEF Indices
<1>20. Parts(B!Write(b, x), t, c, size, reader, writer + m, len + m)
  BY <1>11, <1>13, <1>15, <1>18, <1>19, Zenon DEF Parts
<1>21. State(B!Write(b, x), t, reader, size - (writer + m))
  BY ONLY <1>20, PartsHold, Zenon
<1>22. QED
  BY <1>5, <1>9, <1>14, <1>21, Zenon DEF State

\* A copy of the readable bytes s to the beginning of a vector v with room for them.
Based(b, c, len) ==
    [b EXCEPT !.cells = c, !.reader = kCheapPrepend, !.writer = kCheapPrepend + len]
Base(b, s, len, v) == Based(b, B!Put(v, kCheapPrepend, s), len)
Movable(b, s, len, v, n) ==
    Holds(b, s) /\ Vector(s, len) /\ Vector(v, n) /\ kCheapPrepend + len <= n

\* The parts of the buffer after such a copy.
LEMMA BasedConsists ==
    ASSUME NEW b, NEW cells, NEW reader, NEW writer, Consists(b, cells, reader, writer),
           NEW c, NEW size, Vector(c, size), NEW len,
           kCheapPrepend \in Nat /\ kCheapPrepend + len \in Nat
    PROVE  Consists(Based(b, c, len), c, kCheapPrepend, kCheapPrepend + len)
<1>1. PICK w : w = kCheapPrepend + len
  BY Zenon
<1>2. c \in Seq(Nat) /\ w \in Nat
  BY <1>1, Zenon DEF Vector
<1>3. Consists([b EXCEPT !.cells = c, !.reader = kCheapPrepend, !.writer = w],
               c, kCheapPrepend, w)
  BY <1>2, Zenon DEF Consists, Buffers
<1>4. Based(b, c, len) = [b EXCEPT !.cells = c, !.reader = kCheapPrepend, !.writer = w]
  BY ONLY <1>1, Zenon DEF Based
<1>5. QED
  BY ONLY <1>1, <1>3, <1>4, Zenon

\* After such a copy the buffer holds s and has the rest of the vector as room.
LEMMA MoveKeeps ==
    ASSUME NEW b, NEW s, NEW len, NEW v, NEW n, Movable(b, s, len, v, n)
    PROVE  State(Base(b, s, len, v), s, kCheapPrepend, n - (kCheapPrepend + len))
<1>0. Holds(b, s) /\ Vector(s, len) /\ Vector(v, n) /\ kCheapPrepend + len <= n
  BY Zenon DEF Movable
<1>d. PICK d : d = Base(b, s, len, v)
  BY Zenon
<1>1. PICK cells, reader, writer : Consists(b, cells, reader, writer)
  BY <1>0, Zenon DEF Holds, Parts
<1>2. len \in Nat /\ n \in Nat /\ kCheapPrepend \in Nat
  BY <1>0, BufferAssumption DEF Vector
<1>3. PICK c : c = B!Put(v, kCheapPrepend, s)
  BY Zenon
<1>4. kCheapPrepend + len \in Nat /\ Indices(n, kCheapPrepend, kCheapPrepend + len, len)
  BY <1>0, <1>2 DEF Indices
<1>5. Vector(c, n) /\ Agree(c, kCheapPrepend, s, 0, len)
  BY <1>0, <1>2, <1>3, PutAgrees, Zenon
<1>6. Consists(d, c, kCheapPrepend, kCheapPrepend + len)
  <2>0. d = Based(b, c, len)
    BY ONLY <1>d, <1>3, Zenon DEF Base
  <2>1. kCheapPrepend \in Nat /\ kCheapPrepend + len \in Nat
    BY <1>2, <1>4, Zenon
  <2>2. QED
    BY ONLY <1>1, <1>5, <2>0, <2>1, BasedConsists, Zenon
<1>7. Parts(d, s, c, n, kCheapPrepend, kCheapPrepend + len, len)
  BY <1>0, <1>4, <1>5, <1>6, Zenon DEF Parts
<1>8. State(d, s, kCheapPrepend, n - (kCheapPrepend + len))
  BY ONLY <1>7, PartsHold, Zenon
<1>9. QED
  BY <1>d, <1>8, Zenon

\* std::max.
LEMMA MaxOfTwo ==
    ASSUME NEW x \in Nat, NEW y \in Nat
    PROVE  B!Max({x, y}) \in Nat /\ x <= B!Max({x, y}) /\ y <= B!Max({x, y})
<1>1. \E z \in {x, y} : \A w \in {x, y} : z >= w
  OBVIOUS
<1>2. B!Max({x, y}) \in {x, y} /\ \A w \in {x, y} : B!Max({x, y}) >= w
  BY <1>1, Zenon DEF B!Max
<1>3. QED
  BY <1>2

\* makeSpace(): the bytes are as they were and there is room for n more; only a buffer
\* with bytes before the place kept free for prepend() can become wild.
LEMMA MakeSpaceKeeps ==
    ASSUME NEW b, NEW s, Holds(b, s), NEW n \in Nat
    PROVE  /\ Keeps(b, B!MakeSpace(b, n), s)
           /\ ~B!MakeSpace(b, n).wild => n <= B!WritableBytes(B!MakeSpace(b, n))
<1>1. PICK c : c = IF B!ReadableBytes(b) = 0 THEN B!RetrieveAll(b) ELSE b
  BY Zenon
<1>2. Holds(c, s) /\ (kCheapPrepend <= b.reader => kCheapPrepend <= c.reader)
  <2>1. CASE B!ReadableBytes(b) = 0
    <3>1. s = <<>>
      <4>1. PICK cells, size, reader, writer, len : Parts(b, s, cells, size, reader, writer, len)
        BY Zenon DEF Holds
      <4>2. Vector(s, 0)
        BY <2>1, <4>1, Accessors, Zenon DEF Parts
      <4>3. QED
        BY <4>2 DEF Vector
    <3>2. kCheapPrepend <= kCheapPrepend
      BY BufferAssumption
    <3>3. QED
      BY <1>1, <2>1, <3>1, <3>2, RetrieveAllEmpties, Zenon
  <2>2. CASE ~(B!ReadableBytes(b) = 0)
    BY <1>1, <2>2, Zenon
  <2>3. QED
    BY <2>1, <2>2, Zenon
<1>3. PICK cells, size, reader, writer, len : Parts(c, s, cells, size, reader, writer, len)
  BY <1>2, Zenon DEF Holds
<1>4. /\ c.reader = reader /\ c.cells = cells /\ c.wild = FALSE
      /\ B!WritableBytes(c) = size - writer /\ B!View(c) = s
  BY <1>3, Accessors, ViewIsStream, Zenon
<1>5. Vector(cells, size) /\ Vector(s, len)
  BY <1>3, Zenon DEF Parts
<1>6. Len(s) = len /\ Len(cells) = size
  BY <1>5, Zenon DEF Vector
<1>7. /\ size \in Nat /\ len \in Nat /\ reader \in Nat /\ writer \in Nat /\ kCheapPrepend \in Nat
      /\ writer = reader + len /\ writer <= size /\ kCheapPrepend <= size
  BY <1>3 DEF Parts, Indices
<1>8. PICK room \in Int : room = size - writer + reader - kCheapPrepend
  BY <1>7
<1>9. /\ room = size - (kCheapPrepend + len)
      /\ kCheapPrepend <= reader => ~(room < 0)
  BY ONLY <1>7, <1>8
<1> DEFINE most == B!Max({2 * size, kCheapPrepend + len + n})
<1>10. B!MakeSpace(b, n) =
         CASE room < 0    -> [c EXCEPT !.wild = TRUE]
           [] room >= n   -> Base(c, s, len, cells)
           [] OTHER       -> Base(c, s, len, B!Zeros(most))
  BY <1>1, <1>4, <1>6, <1>8, Zenon DEF B!MakeSpace, Base, Based
<1> HIDE DEF most
<1>11. CASE room < 0
  <2>1. B!MakeSpace(b, n) = [c EXCEPT !.wild = TRUE]
    BY <1>7, <1>8, <1>10, <1>11
  <2>2. [c EXCEPT !.wild = TRUE].wild = TRUE
    BY <1>3, Zenon DEF Parts, Consists, Buffers
  <2>3. QED
    BY <1>2, <1>4, <1>9, <1>11, <2>1, <2>2, Zenon DEF Keeps
<1>12. ASSUME NEW d, NEW w, n <= w, State(d, s, kCheapPrepend, w), B!MakeSpace(b, n) = d
       PROVE  /\ Keeps(b, B!MakeSpace(b, n), s)
              /\ ~B!MakeSpace(b, n).wild => n <= B!WritableBytes(B!MakeSpace(b, n))
  <2>1. kCheapPrepend <= kCheapPrepend
    BY <1>7
  <2>2. QED
    BY <1>12, <2>1, Zenon DEF Keeps, State
<1>13. CASE ~(room < 0) /\ room >= n
  <2>1. B!MakeSpace(b, n) = Base(c, s, len, cells)
    BY <1>10, <1>13
  <2>2. kCheapPrepend + len <= size /\ n <= size - (kCheapPrepend + len)
    BY ONLY <1>7, <1>8, <1>9, <1>13, n \in Nat, SMTT(30)
  <2>3. Movable(c, s, len, cells, size)
    BY <1>2, <1>5, <2>2, Zenon DEF Movable
  <2>4. QED
    BY <1>12, <2>1, <2>2, <2>3, MoveKeeps, Zenon
<1>14. CASE ~(room < 0) /\ ~(room >= n)
  <2>1. B!MakeSpace(b, n) = Base(c, s, len, B!Zeros(most))
    BY <1>10, <1>14
  <2>2. most \in Nat /\ kCheapPrepend + len + n <= most
    <3>1. 2 * size \in Nat /\ kCheapPrepend + len + n \in Nat
      BY <1>7
    <3>2. QED
      BY <3>1, MaxOfTwo, Zenon DEF most
  <2>3. kCheapPrepend + len <= most /\ n <= most - (kCheapPrepend + len)
    BY ONLY <1>7, <2>2, n \in Nat
  <2>4. Vector(B!Zeros(most), most)
    BY <2>2, ZerosLength, Zenon
  <2>5. Movable(c, s, len, B!Zeros(most), most)
    BY <1>2, <1>5, <2>3, <2>4, Zenon DEF Movable
  <2>6. QED
    BY <1>12, <2>1, <2>3, <2>5, MoveKeeps, Zenon
<1>15. QED
  BY <1>11, <1>13, <1>14, Zenon
\* AppendParts of the numbers that stand for the bytes of a buffer.
LEMMA NumberParts ==
    \A w, s \in Seq(Nat) : \A k \in 0..Len(s) :
        /\ w \o SubSeq(s, 1, k) \in Seq(Nat) /\ SubSeq(s, k + 1, Len(s)) \in Seq(Nat)
        /\ (w \o SubSeq(s, 1, k)) \o SubSeq(s, k + 1, Len(s)) = w \o s
BY AppendParts, Zenon

\* ensureWritableBytes(): the same, with room in any case.
LEMMA EnsureKeeps ==
    ASSUME NEW b, NEW s, Holds(b, s), NEW n \in Nat
    PROVE  /\ Keeps(b, B!EnsureWritableBytes(b, n), s)
           /\ ~B!EnsureWritableBytes(b, n).wild =>
                n <= B!WritableBytes(B!EnsureWritableBytes(b, n))
<1>1. CASE B!WritableBytes(b) < n
  BY <1>1, MakeSpaceKeeps, Zenon DEF B!EnsureWritableBytes
<1>2. CASE ~(B!WritableBytes(b) < n)
  <2>1. PICK cells, size, reader, writer, len : Parts(b, s, cells, size, reader, writer, len)
    BY Zenon DEF Holds
  <2>2. b.wild = FALSE /\ B!WritableBytes(b) = size - writer
    BY <2>1, Accessors, Zenon
  <2>3. size \in Nat /\ writer \in Nat
    BY <2>1 DEF Parts, Indices
  <2>4. n <= B!WritableBytes(b)
    BY ONLY <1>2, <2>2, <2>3, n \in Nat
  <2>5. B!EnsureWritableBytes(b, n) = b
    BY <1>2, Zenon DEF B!EnsureWritableBytes
  <2>6. QED
    BY <2>2, <2>4, <2>5, Zenon DEF Keeps
<1>3. QED
  BY <1>1, <1>2, Zenon

\* append(): the bytes x follow s, unless the buffer became wild.
LEMMA AppendKeeps ==
    ASSUME NEW b, NEW s, Holds(b, s), NEW x, NEW m, Vector(x, m)
    PROVE  Keeps(b, B!AppendTo(b, x), s \o x)
<1>1. PICK cells, size, reader, writer, len : Parts(b, s, cells, size, reader, writer, len)
  BY Zenon DEF Holds
<1>2. b.wild = FALSE
  BY <1>1, Accessors, Zenon
<1>3. s \in Seq(Nat) /\ Len(x) = m /\ m \in Nat
  BY <1>1, Zenon DEF Parts, Vector
<1>4. CASE x = <<>>
  <2>1. s \o x = s
    BY <1>3, <1>4, ConcatEmptySeq, Zenon
  <2>2. B!AppendTo(b, x) = b
    BY <1>4, Zenon DEF B!AppendTo
  <2>3. QED
    BY <1>2, <2>1, <2>2, Zenon DEF Keeps
<1>5. CASE x # <<>>
  <2>1. PICK c : c = B!EnsureWritableBytes(b, m)
    BY Zenon
  <2>2. Keeps(b, c, s) /\ (~c.wild => m <= B!WritableBytes(c))
    BY <1>3, <2>1, EnsureKeeps, Zenon
  <2>3. B!AppendTo(b, x) = B!Write(c, x)
    BY <1>3, <1>5, <2>1, Zenon DEF B!AppendTo
  <2>4. CASE c.wild
    <3>1. B!Write(c, x) = c
      BY <2>4, Zenon DEF B!Write
    <3>2. QED
      BY <2>2, <2>3, <2>4, <3>1, Zenon DEF Keeps
  <2>5. CASE ~c.wild
    <3>1. Holds(c, s) /\ m <= B!WritableBytes(c)
      BY <2>2, <2>5, Zenon DEF Keeps
    <3>2. Holds(B!Write(c, x), s \o x) /\ ~B!Write(c, x).wild /\ B!Write(c, x).reader = c.reader
      BY <3>1, WriteAppends, Zenon
    <3>3. B!Write(c, x).wild \in BOOLEAN
      BY <3>2, Zenon DEF Holds, Parts, Consists, Buffers
    <3>4. QED
      BY <2>2, <2>3, <3>2, <3>3, Zenon DEF Keeps
  <2>6. QED
    BY <2>4, <2>5, Zenon
<1>6. QED
  BY <1>4, <1>5, Zenon

\* readFdResult(): what does not fit is appended behind what does.
LEMMA ReadKeeps ==
    ASSUME NEW b, NEW s, Holds(b, s), NEW x, NEW m, Vector(x, m)
    PROVE  Keeps(b, B!ReadFd(b, x), s \o x)
<1>1. PICK cells, size, reader, writer, len : Parts(b, s, cells, size, reader, writer, len)
  BY Zenon DEF Holds
<1>2. PICK w : w = B!WritableBytes(b)
  BY Zenon
<1>3. w \in Nat
  <2>1. size \in Nat /\ writer \in Nat /\ writer <= size
    BY <1>1 DEF Parts, Indices
  <2>2. w = size - writer
    BY <1>1, <1>2, Accessors, Zenon
  <2>3. QED
    BY ONLY <2>1, <2>2
<1>4. s \in Seq(Nat) /\ x \in Seq(Nat) /\ Len(x) = m /\ m \in Nat
  BY <1>1, Zenon DEF Parts, Vector
<1>5. CASE m <= w
  <2>1. B!ReadFd(b, x) = B!Write(b, x)
    BY <1>2, <1>4, <1>5, Zenon DEF B!ReadFd
  <2>2. Holds(B!Write(b, x), s \o x) /\ ~B!Write(b, x).wild /\ B!Write(b, x).reader = b.reader
    BY <1>2, <1>5, WriteAppends, Zenon
  <2>3. B!Write(b, x).wild \in BOOLEAN
    BY <2>2, Zenon DEF Holds, Parts, Consists, Buffers
  <2>4. QED
    BY <2>1, <2>2, <2>3, Zenon DEF Keeps
<1>6. CASE ~(m <= w)
  <2>1. w <= m /\ 0 <= w /\ w <= w /\ m <= m /\ w \in 0..m /\ 0 \in Nat /\ 0 + 1 = 1 /\ w - 0 = w
    BY ONLY <1>3, <1>4, <1>6
  <2>2. PICK y, z : y = SubSeq(x, 1, w) /\ z = SubSeq(x, w + 1, m)
    BY Zenon
  <2>3. Vector(y, w)
    <3>1. Vector(SubSeq(x, 0 + 1, w), w - 0)
      BY ONLY Vector(x, m), <1>3, <2>1, CutAgrees, Zenon
    <3>2. QED
      BY ONLY <2>1, <2>2, <3>1, Zenon
  <2>4. Vector(z, m - w)
    BY <1>3, <1>4, <2>1, <2>2, CutAgrees, Zenon
  <2>5. (s \o y) \o z = s \o x
    <3>1. w \in 0..Len(x) /\ z = SubSeq(x, w + 1, Len(x))
      BY ONLY <1>4, <2>1, <2>2, Zenon
    <3>2. (s \o SubSeq(x, 1, w)) \o SubSeq(x, w + 1, Len(x)) = s \o x
      BY ONLY <1>4, <3>1, NumberParts, Zenon
    <3>3. QED
      BY ONLY <2>2, <3>1, <3>2, Zenon
  <2>6. PICK c : c = B!Write(b, y)
    BY Zenon
  <2>7. Holds(c, s \o y) /\ c.reader = b.reader
    BY <1>2, <2>1, <2>3, <2>6, WriteAppends, Zenon
  <2>8. B!ReadFd(b, x) = B!AppendTo(c, z)
    BY <1>2, <1>4, <1>6, <2>2, <2>6, Zenon DEF B!ReadFd
  <2>9. Keeps(c, B!AppendTo(c, z), (s \o y) \o z)
    BY <2>4, <2>7, AppendKeeps, Zenon
  <2>10. QED
    BY <2>5, <2>7, <2>8, <2>9, Zenon DEF Keeps
<1>7. QED
  BY <1>5, <1>6, Zenon

\* prepend(): the bytes x come before s.
LEMMA PrependPuts ==
    ASSUME NEW b, NEW s, Holds(b, s), NEW x, NEW m, Vector(x, m), m <= b.reader
    PROVE  Holds(B!Prepend(b, x), x \o s) /\ B!Prepend(b, x).wild = FALSE
<1>1. PICK cells, size, reader, writer, len : Parts(b, s, cells, size, reader, writer, len)
  BY Zenon DEF Holds
<1>2. Consists(b, cells, reader, writer)
  BY <1>1, Zenon DEF Parts
<1>3. Vector(cells, size) /\ Vector(s, len)
  BY <1>1, Zenon DEF Parts
<1>4. Agree(cells, reader, s, 0, len)
  BY <1>1, Zenon DEF Parts
<1>5. b.reader = reader /\ b.cells = cells
  BY <1>1, Accessors, Zenon
<1>6. m \in Nat /\ Len(x) = m /\ m <= reader
  BY <1>5, Zenon DEF Vector
<1>7. /\ size \in Nat /\ len \in Nat /\ reader \in Nat /\ writer \in Nat /\ kCheapPrepend \in Nat
      /\ writer = reader + len /\ writer <= size /\ kCheapPrepend <= size
  BY <1>1 DEF Parts, Indices
<1>8. PICK r \in Nat : r = reader - m
  BY <1>6, <1>7
<1>9. /\ r + m <= size /\ r + m <= reader /\ reader + len <= size /\ m + len \in Nat
      /\ reader = r + m /\ writer = r + (m + len)
  BY ONLY <1>6, <1>7, <1>8
<1>10. PICK c : c = B!Put(cells, r, x)
  BY Zenon
<1>11. Vector(c, size) /\ Agree(c, r, x, 0, m) /\ Agree(c, reader, cells, reader, len)
  BY <1>3, <1>7, <1>9, <1>10, PutAgrees, Zenon
<1>12. B!Prepend(b, x) = [b EXCEPT !.cells = c, !.reader = r]
  BY <1>5, <1>6, <1>8, <1>10, Zenon DEF B!Prepend
<1>13. Consists(B!Prepend(b, x), c, r, writer)
  BY <1>2, <1>7, <1>11, <1>12, AssignAll, Zenon
<1>14. PICK t : t = x \o s
  BY Zenon
<1>15. Vector(t, m + len) /\ Agree(t, 0, x, 0, m) /\ Agree(t, m, s, 0, len)
  BY <1>3, <1>14, JoinAgrees, Zenon
<1>16. Agree(c, r, t, 0, m)
  BY <1>11, <1>15, AgreeTrans, Zenon
<1>17. Agree(c, reader, t, m, len)
  BY <1>4, <1>11, <1>15, AgreeTrans, Zenon
<1>18. Agree(c, r, t, 0, m + len)
  BY <1>6, <1>7, <1>9, <1>16, <1>17, AgreeBoth, Zenon
<1>19. Indices(size, r, writer, m + len)
  BY <1>6, <1>7, <1>9 DEF Indices
<1>20. Parts(B!Prepend(b, x), t, c, size, r, writer, m + len)
  BY <1>11, <1>13, <1>15, <1>18, <1>19, Zenon DEF Parts
<1>21. State(B!Prepend(b, x), t, r, size - writer)
  BY ONLY <1>20, PartsHold, Zenon
<1>22. QED
  BY <1>14, <1>21, Zenon DEF State

\* unwrite(): the last n bytes are gone.
LEMMA UnwriteTakes ==
    ASSUME NEW b, NEW s, Holds(b, s), NEW n \in Nat, n <= B!ReadableBytes(b)
    PROVE  /\ Holds(B!Unwrite(b, n), SubSeq(s, 1, Len(s) - n)) /\ B!Unwrite(b, n).wild = FALSE
           /\ B!Unwrite(b, n).reader = b.reader
<1>1. PICK cells, size, reader, writer, len : Parts(b, s, cells, size, reader, writer, len)
  BY Zenon DEF Holds
<1>2. Consists(b, cells, reader, writer)
  BY <1>1, Zenon DEF Parts
<1>3. Vector(cells, size) /\ Vector(s, len)
  BY <1>1, Zenon DEF Parts
<1>4. Agree(cells, reader, s, 0, len)
  BY <1>1, Zenon DEF Parts
<1>5. b.reader = reader /\ b.writer = writer /\ B!ReadableBytes(b) = len
  BY <1>1, Accessors, Zenon
<1>6. n <= len /\ Len(s) = len
  BY <1>3, <1>5, Zenon DEF Vector
<1>7. /\ size \in Nat /\ len \in Nat /\ reader \in Nat /\ writer \in Nat /\ kCheapPrepend \in Nat
      /\ writer = reader + len /\ writer <= size /\ kCheapPrepend <= size
  BY <1>1 DEF Parts, Indices
<1>8. PICK k \in Nat : k = len - n
  BY <1>6, <1>7
<1>9. /\ writer - n \in Nat /\ k <= len /\ 0 <= k /\ 0 + k <= len /\ k - 0 = k /\ 0 + 1 = 1
      /\ reader + 0 = reader /\ 0 + 0 = 0 /\ 0 \in Nat /\ writer - n <= size
      /\ writer - n = reader + k
  BY ONLY n \in Nat, <1>6, <1>7, <1>8
<1>10. PICK t : t = SubSeq(s, 1, k)
  BY Zenon
<1>11. Vector(t, k) /\ Agree(t, 0, s, 0, k)
  <2>1. Vector(SubSeq(s, 0 + 1, k), k - 0) /\ Agree(SubSeq(s, 0 + 1, k), 0, s, 0, k - 0)
    BY ONLY <1>3, <1>8, <1>9, CutAgrees, Zenon
  <2>2. QED
    BY ONLY <1>9, <1>10, <2>1, Zenon
<1>12. Agree(cells, reader, s, 0, k)
  <2>1. Agree(cells, reader + 0, s, 0 + 0, k)
    BY ONLY <1>4, <1>7, <1>8, <1>9, AgreePart, Zenon
  <2>2. QED
    BY ONLY <1>9, <2>1, Zenon
<1>13. Agree(cells, reader, t, 0, k)
  BY <1>11, <1>12, AgreeTrans, Zenon
<1>14. B!Unwrite(b, n) = [b EXCEPT !.writer = writer - n]
  BY <1>5, Zenon DEF B!Unwrite
<1>15. Consists(B!Unwrite(b, n), cells, reader, writer - n)
  BY <1>2, <1>7, <1>9, <1>14, AssignIndices, Zenon
<1>16. Indices(size, reader, writer - n, k)
  BY <1>7, <1>8, <1>9 DEF Indices
<1>17. Parts(B!Unwrite(b, n), t, cells, size, reader, writer - n, k)
  BY <1>3, <1>11, <1>13, <1>15, <1>16, Zenon DEF Parts
<1>18. State(B!Unwrite(b, n), t, reader, size - (writer - n))
  BY ONLY <1>17, PartsHold, Zenon
<1>19. QED
  BY <1>5, <1>6, <1>8, <1>10, <1>18, Zenon DEF State

\* A new buffer holds nothing.
LEMMA NewHolds ==
    ASSUME NEW n \in Nat
    PROVE  Holds(B!New(n), <<>>) /\ B!New(n).wild = FALSE /\ B!New(n).reader = kCheapPrepend
<1>1. kCheapPrepend \in Nat
  BY BufferAssumption
<1>2. PICK size \in Nat : size = kCheapPrepend + n
  BY <1>1
<1>3. PICK c : c = B!Zeros(size)
  BY Zenon
<1>4. Vector(c, size)
  BY <1>3, ZerosLength, Zenon
<1>5. Consists(B!New(n), c, kCheapPrepend, kCheapPrepend)
  <2>1. B!New(n) = [cells |-> c, reader |-> kCheapPrepend, writer |-> kCheapPrepend, wild |-> FALSE]
    BY <1>2, <1>3, Zenon DEF B!New
  <2>2. c \in Seq(Nat)
    BY <1>4, Zenon DEF Vector
  <2>3. QED
    BY ONLY <1>1, <2>1, <2>2 DEF Consists, Buffers
<1>6. Vector(<<>>, 0) /\ Agree(c, kCheapPrepend, <<>>, 0, 0)
  BY DEF Vector, Agree
<1>7. Indices(size, kCheapPrepend, kCheapPrepend, 0)
  BY <1>1, <1>2 DEF Indices
<1>8. Parts(B!New(n), <<>>, c, size, kCheapPrepend, kCheapPrepend, 0)
  BY <1>4, <1>5, <1>6, <1>7, Zenon DEF Parts
<1>9. State(B!New(n), <<>>, kCheapPrepend, size - kCheapPrepend)
  BY ONLY <1>8, PartsHold, Zenon
<1>10. QED
  BY <1>9, Zenon DEF State

\* shrink(): the bytes are copied to a new buffer, which has room for them.
LEMMA ShrinkKeeps ==
    ASSUME NEW b, NEW s, Holds(b, s), NEW n \in Nat
    PROVE  /\ Holds(B!Shrink(b, n), s) /\ B!Shrink(b, n).wild = FALSE
           /\ kCheapPrepend <= B!Shrink(b, n).reader
<1>1. PICK cells, size, reader, writer, len : Parts(b, s, cells, size, reader, writer, len)
  BY Zenon DEF Holds
<1>2. B!View(b) = s /\ B!ReadableBytes(b) = len
  BY <1>1, ViewIsStream, Accessors, Zenon
<1>3. Vector(s, len)
  BY <1>1, Zenon DEF Parts
<1>4. s \in Seq(Nat) /\ len \in Nat
  BY <1>3, Zenon DEF Vector
<1>5. len + n \in Nat /\ kCheapPrepend <= kCheapPrepend
  BY <1>4, BufferAssumption
<1>6. PICK c : c = B!New(len + n)
  BY Zenon
<1>7. Holds(c, <<>>) /\ c.reader = kCheapPrepend
  BY <1>5, <1>6, NewHolds, Zenon
<1>8. B!Shrink(b, n) = B!AppendTo(c, s)
  BY <1>2, <1>6, Zenon DEF B!Shrink
<1>9. Keeps(c, B!AppendTo(c, s), <<>> \o s)
  BY <1>3, <1>7, AppendKeeps, Zenon
<1>10. <<>> \o s = s
  BY <1>4, ConcatEmptySeq, Zenon
<1>11. QED
  BY <1>5, <1>7, <1>8, <1>9, <1>10, Zenon DEF Keeps

-----------------------------------------------------------------------------
\* BufferInv after a call that may move the bytes.
LEMMA KeepsInv ==
    ASSUME BufferInv, ~buffer.wild, put' \in Nat, UNCHANGED prepended,
           Keeps(buffer, buffer', stream')
    PROVE  BufferInv'
  BY Zenon DEF BufferInv, Keeps

\* BufferInv holds of the buffer the constructor makes.
LEMMA BufferInvInit == B!Init => BufferInv
<1>1. InitialSize \in Nat /\ kCheapPrepend <= kCheapPrepend /\ 0 \in Nat
  BY BufferAssumption
<1>2. QED
  BY <1>1, NewHolds, Zenon DEF BufferInv, B!Init

\* Every call that is made of a buffer keeps BufferInv.
LEMMA BufferInvNext == BufferInv /\ [B!Next]_(B!vars) => BufferInv'
<1> SUFFICES ASSUME BufferInv, [B!Next]_(B!vars)
             PROVE  BufferInv'
  OBVIOUS
<1>1. /\ put \in Nat /\ prepended \in BOOLEAN /\ (~buffer.wild => Holds(buffer, stream))
      /\ (~prepended => kCheapPrepend <= buffer.reader)
  BY Zenon DEF BufferInv
<1>2. ASSUME NEW n \in Nat PROVE Vector(B!Bytes(n), n) /\ put + n \in Nat
  <2>1. B!Bytes(n) \in [1..n -> Nat] /\ put + n \in Nat
    BY <1>1 DEF B!Bytes
  <2>2. QED
    BY <2>1, VectorLength, Zenon
<1>3. CASE UNCHANGED B!vars
  BY <1>3, Zenon DEF BufferInv, B!vars, Holds
<1>4. ASSUME NEW n \in 0..MaxCall, B!AppendBytes(n) PROVE BufferInv'
  <2>1. n \in Nat
    BY BufferAssumption
  <2>2. ~buffer.wild /\ put' = put + n /\ UNCHANGED prepended
    BY <1>4, Zenon DEF B!AppendBytes, B!Takes
  <2>3. Keeps(buffer, B!AppendTo(buffer, B!Bytes(n)), stream \o B!Bytes(n))
    BY <1>1, <1>2, <2>1, <2>2, AppendKeeps, Zenon
  <2>4. Keeps(buffer, buffer', stream')
    BY <1>4, <2>3, Zenon DEF B!AppendBytes
  <2>5. QED
    BY <1>2, <2>1, <2>2, <2>4, KeepsInv, Zenon
<1>5. ASSUME NEW n \in 0..MaxCall, B!ReadFromSocket(n) PROVE BufferInv'
  <2>1. n \in Nat
    BY BufferAssumption
  <2>2. ~buffer.wild /\ put' = put + n /\ UNCHANGED prepended
    BY <1>5, Zenon DEF B!ReadFromSocket, B!Takes
  <2>3. Keeps(buffer, B!ReadFd(buffer, B!Bytes(n)), stream \o B!Bytes(n))
    BY <1>1, <1>2, <2>1, <2>2, ReadKeeps, Zenon
  <2>4. Keeps(buffer, buffer', stream')
    BY <1>5, <2>3, Zenon DEF B!ReadFromSocket
  <2>5. QED
    BY <1>2, <2>1, <2>2, <2>4, KeepsInv, Zenon
<1>6. ASSUME NEW n \in 0..MaxCall, B!PrependBytes(n) PROVE BufferInv'
  <2>1. n \in Nat
    BY BufferAssumption
  <2>2. ~buffer.wild /\ put' = put + n /\ prepended' = TRUE /\ n <= buffer.reader
    BY <1>6, Zenon DEF B!PrependBytes, B!Takes
  <2>3. /\ Holds(B!Prepend(buffer, B!Bytes(n)), B!Bytes(n) \o stream)
        /\ B!Prepend(buffer, B!Bytes(n)).wild = FALSE
    BY <1>1, <1>2, <2>1, <2>2, PrependPuts, Zenon
  <2>4. Holds(buffer', stream') /\ buffer'.wild = FALSE
    BY <1>6, <2>3, Zenon DEF B!PrependBytes
  <2>5. QED
    BY <1>2, <2>1, <2>2, <2>4, Zenon DEF BufferInv
<1>7. ASSUME NEW n \in 0..MaxCall, B!RetrieveBytes(n) PROVE BufferInv'
  <2>1. n \in Nat
    BY BufferAssumption
  <2>2. ~buffer.wild /\ put' = put /\ prepended' = prepended
    BY <1>7, Zenon DEF B!RetrieveBytes
  <2>3. /\ Holds(buffer', stream') /\ ~buffer'.wild
        /\ kCheapPrepend <= buffer.reader => kCheapPrepend <= buffer'.reader
    BY <1>1, <1>7, <2>1, <2>2, RetrieveTakes, Zenon DEF B!RetrieveBytes
  <2>4. buffer'.wild \in BOOLEAN
    BY <2>3, Zenon DEF Holds, Parts, Consists, Buffers
  <2>5. QED
    BY <1>1, <2>2, <2>3, <2>4, Zenon DEF BufferInv
<1>8. ASSUME NEW n \in 0..MaxCall, B!UnwriteBytes(n) PROVE BufferInv'
  <2>1. n \in Nat
    BY BufferAssumption
  <2>2. ~buffer.wild /\ put' = put /\ prepended' = prepended /\ n <= B!ReadableBytes(buffer)
    BY <1>8, Zenon DEF B!UnwriteBytes
  <2>3. /\ Holds(buffer', stream') /\ buffer'.wild = FALSE
        /\ buffer'.reader = buffer.reader
    BY <1>1, <1>8, <2>1, <2>2, UnwriteTakes, Zenon DEF B!UnwriteBytes
  <2>4. QED
    BY <1>1, <2>2, <2>3, Zenon DEF BufferInv
<1>9. ASSUME NEW n \in 0..MaxCall, B!EnsureWritable(n) PROVE BufferInv'
  <2>1. n \in Nat
    BY BufferAssumption
  <2>2. ~buffer.wild /\ put' = put /\ UNCHANGED prepended
    BY <1>9, Zenon DEF B!EnsureWritable
  <2>3. Keeps(buffer, buffer', stream')
    BY <1>1, <1>9, <2>1, <2>2, EnsureKeeps, Zenon DEF B!EnsureWritable
  <2>4. QED
    BY <1>1, <2>2, <2>3, KeepsInv, Zenon
<1>10. ASSUME NEW n \in 0..MaxCall, B!ShrinkTo(n) PROVE BufferInv'
  <2>1. n \in Nat
    BY BufferAssumption
  <2>2. ~buffer.wild /\ put' = put /\ prepended' = prepended
    BY <1>10, Zenon DEF B!ShrinkTo
  <2>3. Holds(buffer', stream') /\ buffer'.wild = FALSE /\ kCheapPrepend <= buffer'.reader
    BY <1>1, <1>10, <2>1, <2>2, ShrinkKeeps, Zenon DEF B!ShrinkTo
  <2>4. QED
    BY <1>1, <2>2, <2>3, Zenon DEF BufferInv
<1>11. QED
  BY <1>3, <1>4, <1>5, <1>6, <1>7, <1>8, <1>9, <1>10, Zenon DEF B!Next

\* net::Buffer for every reserve, size and number of bytes: whatever makeSpace() moves
\* or grows, the readable bytes are those put in and not taken out, in order.
THEOREM BufferStreamIntact == B!Spec => []BufferIsStream
<1>1. BufferInv => BufferIsStream
  <2> SUFFICES ASSUME BufferInv PROVE BufferIsStream
    OBVIOUS
  <2>1. CASE buffer.wild
    BY <2>1, Zenon DEF BufferInv, BufferIsStream, B!BufferIsStream
  <2>2. CASE ~buffer.wild
    <3>1. PICK cells, size, reader, writer, len :
            Parts(buffer, stream, cells, size, reader, writer, len)
      BY <2>2, Zenon DEF BufferInv, Holds
    <3>2. /\ B!View(buffer) = stream /\ buffer.reader = reader /\ buffer.writer = writer
          /\ Len(buffer.cells) = size
      BY <3>1, ViewIsStream, Accessors, Zenon DEF Parts, Vector
    <3>3. reader <= writer /\ writer <= size
      BY <3>1 DEF Parts, Indices
    <3>4. QED
      BY <2>2, <3>2, <3>3, Zenon DEF BufferIsStream, B!BufferIsStream
  <2>3. QED
    BY <2>1, <2>2, Zenon
<1>2. QED
  BY BufferInvInit, BufferInvNext, <1>1, PTL DEF B!Spec
=============================================================================
