---------------------------- MODULE FramedStream ----------------------------
(***************************************************************************)
(* Frames over a TCP connection: net::FramedTcpServer and LengthFieldCodec *)
(* on top of net::Buffer.  The peer encodes its messages with a codec of   *)
(* its own, the stream is cut anywhere by the reads, and onRawMessage()    *)
(* takes the frames out of the input buffer.                               *)
(*                                                                         *)
(* Bytes are numbers below Radix, which stands for 256.  A message is the  *)
(* length of its payload; all bytes of a payload are its number.           *)
(***************************************************************************)
EXTENDS Buffer, SequencesExt

CONSTANTS Radix,          \* the values of a byte
          FieldBytes,     \* m_lengthFieldBytes
          MaxFrameLength, \* m_maxFrameLength of the server
          PeerMaxFrame,   \* m_maxFrameLength of the peer
          Lengths,        \* the payload lengths the peer sends
          InitialSize,    \* kInitialSize of both buffers
          Extra,          \* the size of readFdResult()'s second array
          MaxMessages     \* bound: messages sent

VARIABLES mode, peerMode, \* m_lengthMode of the two codecs
          wire,           \* bytes sent and not read
          input,          \* the connection's input buffer
          closed,         \* forceClose() was called
          sent,           \* history: the payloads encoded
          received        \* history: the payloads given to the frame callback

vars == <<mode, peerMode, wire, input, closed, sent, received>>

Modes == {"PayloadOnly", "WholeFrame"}

Init ==
    /\ mode \in Modes /\ peerMode \in Modes
    /\ wire = <<>> /\ input = New(InitialSize) /\ closed = FALSE
    /\ sent = <<>> /\ received = <<>>

\* appendLengthField() and peekLengthField(): big endian.
Field(n) == [i \in 1..FieldBytes |-> (n \div Radix^(FieldBytes - i)) % Radix]
PeekField(b) == FoldLeft(LAMBDA n, byte : n * Radix + byte, 0, SubSeq(View(b), 1, FieldBytes))

-----------------------------------------------------------------------------
\* encode(): what it refuses by an exception, and the bytes it appends.
EncodedLength(payload) ==
    Len(payload) + IF peerMode = "PayloadOnly" THEN 0 ELSE FieldBytes

Encodable(payload) ==
    /\ EncodedLength(payload) < Radix^FieldBytes
    /\ Len(payload) + FieldBytes <= PeerMaxFrame

Encode(payload, b) ==
    AppendTo(AppendTo(EnsureWritableBytes(b, Len(payload) + FieldBytes),
                      Field(EncodedLength(payload))), payload)

Send(len) ==
    LET payload == [i \in 1..len |-> (Len(sent) + 1) % Radix] IN
    /\ Len(sent) < MaxMessages /\ Encodable(payload)
    /\ wire' = wire \o View(Encode(payload, New(InitialSize)))
    /\ sent' = Append(sent, payload)
    /\ UNCHANGED <<mode, peerMode, input, closed, received>>

-----------------------------------------------------------------------------
\* tryDecode() as a status, the payload and the buffer after it.
Result(status, payload, b) == [status |-> status, payload |-> payload, buffer |-> b]

TryDecode(b) ==
    LET n == PeekField(b)
        payloadLength == IF mode = "PayloadOnly" THEN n ELSE n - FieldBytes
        frameLength == payloadLength + FieldBytes
        rest == Retrieve(b, FieldBytes)
    IN CASE ReadableBytes(b) < FieldBytes -> Result("NeedMoreData", <<>>, b)
         [] payloadLength < 0 -> Result("InvalidLength", <<>>, b)
         [] frameLength > MaxFrameLength -> Result("ExceedMaxFrameLength", <<>>, b)
         [] ReadableBytes(b) < frameLength -> Result("NeedMoreData", <<>>, b)
         [] OTHER -> Result("Ok", SubSeq(View(rest), 1, payloadLength),
                            Retrieve(rest, payloadLength))

\* Mutant: onRawMessage() takes one frame per read.
DecodeOne(b, got) ==
    LET r == TryDecode(b) IN
    [buffer |-> r.buffer, got |-> IF r.status = "Ok" THEN Append(got, r.payload) ELSE got,
     close |-> r.status \notin {"Ok", "NeedMoreData"}]

\* onRawMessage(), and handleCodecMessages() of a connection with a codec: frames
\* are taken until there is no whole one, or a length field is refused.
RECURSIVE DecodeAll(_, _)
DecodeAll(b, got) ==
    LET r == TryDecode(b) IN
    IF r.status = "Ok" THEN DecodeAll(r.buffer, Append(got, r.payload))
    ELSE [buffer |-> r.buffer, got |-> got, close |-> r.status # "NeedMoreData"]

\* A read of n bytes, and the message callback.  handleRead() goes on with both
\* until the socket is empty, also when the callback has closed the connection.
Read(n) ==
    /\ n <= Len(wire)
    /\ n <= WritableBytes(input) + IF WritableBytes(input) < Extra THEN Extra ELSE 0
    /\ LET d == DecodeAll(ReadFd(input, SubSeq(wire, 1, n)), <<>>)
       IN /\ input' = d.buffer
          /\ received' = received \o d.got
          /\ closed' = (closed \/ d.close)
    /\ wire' = SubSeq(wire, n + 1, Len(wire))
    /\ UNCHANGED <<mode, peerMode, sent>>

Next ==
    \/ \E len \in Lengths : Send(len)
    \/ \E n \in 1..Len(wire) : Read(n)

Spec == Init /\ [][Next]_vars

-----------------------------------------------------------------------------
Byte == 0..(Radix - 1)

TypeOK ==
    /\ mode \in Modes /\ peerMode \in Modes /\ closed \in BOOLEAN
    /\ wire \in Seq(Byte) /\ input.cells \in Seq(Byte)
    /\ sent \in Seq(Seq(Byte)) /\ received \in Seq(Seq(Byte))

Prefix(n) == SubSeq(sent, 1, n)
TooLong(payload) == Len(payload) + FieldBytes > MaxFrameLength

\* With codecs of one kind the frames arrive once, in order and whole, however the
\* stream is cut; none is left in the input buffer when its last byte has been
\* read; and the connection is closed exactly at a frame longer than the server
\* allows, of which and after which nothing is delivered.
FramesIntact ==
    mode = peerMode =>
        /\ IsPrefix(received, sent)
        /\ \A k \in DOMAIN received : ~TooLong(received[k])
        /\ closed => Len(received) < Len(sent) /\ TooLong(sent[Len(received) + 1])
        /\ wire = <<>> /\ ~closed => received = sent
=============================================================================
