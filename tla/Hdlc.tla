-------------------------------- MODULE Hdlc --------------------------------
(***************************************************************************)
(* The serial framing of drv/hdlc/hdlc.c: frames are encoded on one side   *)
(* of a serial line, received byte by byte and decoded on the other.  The  *)
(* line may lose, change and insert bytes, and the receiver's caller may   *)
(* fetch a frame too late.                                                 *)
(***************************************************************************)
EXTENDS Integers, Sequences

CONSTANTS
  Payloads,    \* what is sent
  Noise,       \* the bytes that a disturbed line delivers
  BufferSize,  \* DB_HDLC_BUFFER_SIZE
  MaxNoise     \* bound on the disturbances

Byte == 0 .. 255

Flag          == 126
FlagEscaped   == 94
Escape        == 125
EscapeEscaped == 93

(***************************************************************************)
(* The frame check sequence: a word is the set of the bits that are 1, the *)
(* exclusive or of two words their symmetric difference.                   *)
(***************************************************************************)
Word == SUBSET (0 .. 15)

Bits(n) == {k \in 0 .. 7 : (n \div 2 ^ k) % 2 = 1}
ByteOf(bits) ==
  LET bit(k) == IF k \in bits THEN 2 ^ k ELSE 0
  IN  bit(0) + bit(1) + bit(2) + bit(3) + bit(4) + bit(5) + bit(6) + bit(7)

Xor(a, b) == (a \ b) \cup (b \ a)
ShiftRight(a, n) == {k \in 0 .. 15 : k + n \in a}

FcsInit == 0 .. 15
FcsOk   == {3, 4, 5, 7, 12, 13, 14, 15}

\* The table of 256 words is that of the polynomial 0x8408: an entry is its
\* index after eight shifts.
Shifted(a) ==
  IF 0 \in a THEN Xor(ShiftRight(a, 1), {3, 10, 15}) ELSE ShiftRight(a, 1)
Shifted2(a) == Shifted(Shifted(a))
Shifted4(a) == Shifted2(Shifted2(a))
fcsTable == [i \in SUBSET (0 .. 7) |-> Shifted4(Shifted4(i))]

UpdateFcs(fcs, byte) ==
  Xor(ShiftRight(fcs, 8), fcsTable[Xor(fcs \cap 0 .. 7, Bits(byte))])

FcsOf(bytes) ==
  LET fcs[i \in 0 .. Len(bytes)] ==
        IF i = 0 THEN FcsInit ELSE UpdateFcs(fcs[i - 1], bytes[i])
  IN  fcs[Len(bytes)]

\* The complement of the sum, its low byte first
FcsBytes(bytes) ==
  LET fcs == (0 .. 15) \ FcsOf(bytes)
  IN  <<ByteOf(fcs \cap 0 .. 7), ByteOf(ShiftRight(fcs, 8))>>

(***************************************************************************)
(* Encoding and decoding                                                   *)
(***************************************************************************)
Escaped(byte) ==
  CASE byte = Escape -> <<Escape, EscapeEscaped>>
    [] byte = Flag   -> <<Escape, FlagEscaped>>
    [] OTHER         -> <<byte>>

Stuffed(bytes) ==
  LET body[i \in 0 .. Len(bytes)] ==
        IF i = 0 THEN <<>> ELSE body[i - 1] \o Escaped(bytes[i])
  IN  body[Len(bytes)]

\* What is between the flags
Body(payload) == Stuffed(payload \o FcsBytes(payload))

Encoded(payload) == <<Flag>> \o Body(payload) \o <<Flag>>

\* One byte of a frame: an escape is remembered, and what follows it is
\* dropped unless it is one of the two escaped bytes.
Unescaped(decoder, byte) ==
  CASE byte = Escape -> [decoder EXCEPT !.escape = TRUE]
    [] byte # Escape /\ decoder.escape ->
         [escape |-> FALSE,
          output |-> CASE byte = EscapeEscaped -> Append(decoder.output, Escape)
                       [] byte = FlagEscaped   -> Append(decoder.output, Flag)
                       [] OTHER                -> decoder.output]
    [] OTHER -> [decoder EXCEPT !.output = Append(@, byte)]

Unstuffed(buffer) ==
  LET decoder[i \in 0 .. Len(buffer)] ==
        IF i = 0 THEN [escape |-> FALSE, output |-> <<>>]
        ELSE Unescaped(decoder[i - 1], buffer[i])
  IN  decoder[Len(buffer)]

\* The length leaves out the check sequence.  It is a size_t: a negative one
\* stands for its value modulo 2^32.
Decoded(buffer) ==
  LET output == Unstuffed(buffer).output
  IN  [output |-> output, length |-> Len(output) - 2]

Intact(decoded, payload) ==
  /\ decoded.length = Len(payload)
  /\ SubSeq(decoded.output, 1, decoded.length) = payload

\* A frame fits the receiver's buffer together with a flag before it.
FrameAssumption ==
  /\ BufferSize \in Nat \ {0} /\ MaxNoise \in Nat /\ Noise \subseteq Byte
  /\ Payloads \subseteq Seq(Byte)
  /\ \A p \in Payloads : Len(Body(p)) <= BufferSize - 2
ASSUME FrameAssumption
-----------------------------------------------------------------------------
VARIABLES
  rx,       \* the receiver: state, buffer up to its position, fcs
  payload,  \* what is being sent, or was sent last
  at,       \* the bytes of its frame that have left
  out,      \* history: what was decoded since the frame's first byte
  clean,    \* history: frames sent since the last disturbance, up to 3
  noise     \* the disturbances so far

vars == <<rx, payload, at, out, clean, noise>>

States == {"IDLE", "RECEIVING", "READY", "ERROR"}

Received_NoLimit(r, byte) ==
  IF r.state # "RECEIVING" /\ byte = Flag
  THEN [state |-> "RECEIVING", buffer |-> <<>>, fcs |-> FcsInit]
  ELSE IF r.state = "RECEIVING" /\ r.buffer # <<>> /\ byte = Flag
  THEN [r EXCEPT !.state = "READY"]
  ELSE IF r.state = "RECEIVING"
  THEN [r EXCEPT !.buffer = Append(@, byte), !.fcs = UpdateFcs(@, byte)]
  ELSE r
Received_EmptyFrame(r, byte) ==
  IF r.state # "RECEIVING" /\ byte = Flag
  THEN [state |-> "RECEIVING", buffer |-> <<>>, fcs |-> FcsInit]
  ELSE IF r.state = "RECEIVING" /\ byte = Flag
  THEN [r EXCEPT !.state = "READY"]
  ELSE IF r.state = "RECEIVING" /\ Len(r.buffer) < BufferSize - 1
  THEN [r EXCEPT !.buffer = Append(@, byte), !.fcs = UpdateFcs(@, byte)]
  ELSE r

\* A flag that is not the start of a frame ends it, whatever its check
\* sequence: the error state it is given is overwritten.  A flag right after
\* the start is stored as if it were data.
Received(r, byte) ==
  IF r.state # "RECEIVING"
  THEN IF byte = Flag
       THEN [state |-> "RECEIVING", buffer |-> <<>>, fcs |-> FcsInit] ELSE r
  ELSE IF r.buffer # <<>> /\ byte = Flag
  THEN [r EXCEPT !.state = "READY"]
  ELSE IF Len(r.buffer) >= BufferSize - 1
  THEN [r EXCEPT !.state = "ERROR"]
  ELSE [r EXCEPT !.buffer = Append(@, byte), !.fcs = UpdateFcs(@, byte)]

Frame == Encoded(payload)

\* A fresh receiver is as good as one that has seen two frames.
Init ==
  /\ rx = [state |-> "IDLE", buffer |-> <<>>, fcs |-> {}]
  /\ payload \in Payloads /\ at = 0 /\ out = <<>>
  /\ clean = 3 /\ noise = 0

Send(p) ==
  /\ at = Len(Frame)
  /\ payload' = p /\ at' = 0
  /\ clean' = IF clean < 3 THEN clean + 1 ELSE 3
  /\ UNCHANGED <<rx, out, noise>>

\* The next byte of the frame leaves.
Leaves ==
  /\ at < Len(Frame)
  /\ at' = at + 1
  /\ out' = IF at = 0 THEN <<>> ELSE out
  /\ UNCHANGED payload

Disturbed ==
  /\ noise < MaxNoise
  /\ noise' = noise + 1 /\ clean' = 0

Deliver ==
  /\ rx.state # "READY"
  /\ Leaves
  /\ rx' = Received(rx, Frame[at + 1])
  /\ UNCHANGED <<clean, noise>>

\* The byte comes before the caller has fetched the frame that is ready.
Overrun ==
  /\ rx.state = "READY"
  /\ Leaves /\ Disturbed
  /\ rx' = Received(rx, Frame[at + 1])

Lose ==
  /\ Leaves /\ Disturbed
  /\ UNCHANGED rx

Change(byte) ==
  /\ Leaves /\ Disturbed
  /\ rx' = Received(rx, byte)

Insert(byte) ==
  /\ Disturbed
  /\ rx' = Received(rx, byte)
  /\ UNCHANGED <<payload, at, out>>

Decode ==
  /\ rx.state = "READY"
  /\ rx' = [rx EXCEPT !.state = "IDLE"]
  /\ out' = Append(out, Decoded(rx.buffer))
  /\ UNCHANGED <<payload, at, clean, noise>>

Next ==
  \/ \E p \in Payloads : Send(p)
  \/ Deliver \/ Overrun \/ Lose \/ Decode
  \/ \E byte \in Noise : Change(byte) \/ Insert(byte)

Spec == Init /\ [][Next]_vars
-----------------------------------------------------------------------------
\* The buffer is never written past its end, however many flags are lost.
TypeOK ==
  /\ rx.state \in States /\ rx.fcs \in Word
  /\ rx.buffer \in Seq(Byte) /\ Len(rx.buffer) < BufferSize
  /\ payload \in Payloads /\ at \in 0 .. Len(Frame)
  /\ clean \in 0 .. 3 /\ noise \in 0 .. MaxNoise

\* Whatever happened on the line before, of the frames that follow without
\* a disturbance the third at the latest is decoded, once and unchanged: a
\* receiver that takes the end of one frame for the start of the next gets
\* back in step by itself.
ThirdIntact ==
  at = Len(Frame) /\ clean = 3 /\ rx.state # "READY" =>
    Len(out) = 1 /\ Intact(out[1], payload)

\* A frame whose check sequence is wrong is an error and never ready.  (This
\* is what the comments of the states and of the check say; the run that
\* checks it shows that it does not hold.)
BadFrameIsError == rx.state = "READY" => rx.fcs = FcsOk
=============================================================================
