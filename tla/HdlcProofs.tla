----------------------------- MODULE HdlcProofs -----------------------------
(***************************************************************************)
(* The serial framing, proved for every payload of bytes, any noise and    *)
(* any size of the buffer that the frames fit.                             *)
(*                                                                         *)
(* The encoder, the decoder and the check sequence are recursive functions *)
(* over the positions of a sequence.  What they compute for a sequence of  *)
(* any length is proved by induction over sets: a set that has the empty   *)
(* sequence, and with a sequence also that sequence and one more byte, has *)
(* them all (AllSeqs), because the numbers have no least counterexample.   *)
(* The same principle shows that the functions exist (Recursion), so that  *)
(* each satisfies the equations it is defined by (FcsIs, StuffIs,          *)
(* UnstuffIs).                                                             *)
(*                                                                         *)
(* ThirdIntact says something of the end of a frame only.  Sync tells how  *)
(* the receiver may stand to the frame at each byte: in step with it, one  *)
(* flag ahead, with the flag at its start taken for data, or between two   *)
(* flags, deaf to its bytes.  The first leads to the first, the second to  *)
(* the first and the third to the second with the frame that follows.      *)
(***************************************************************************)
EXTENDS Hdlc, SequenceTheorems, WellFoundedInduction, TLAPS

Rx == [state : States, buffer : Seq(Byte), fcs : Word]

Content == Body(payload)
Size == Len(Content)

InStep ==
  \/ at = 0 /\ rx.state # "RECEIVING"
  \/ /\ at \in 1 .. Size + 1 /\ rx.state = "RECEIVING"
     /\ rx.buffer = SubSeq(Content, 1, at - 1) /\ out = <<>>
  \/ at = Size + 2 /\ rx.state = "READY" /\ rx.buffer = Content /\ out = <<>>
  \/ at = Size + 2 /\ rx.state = "IDLE" /\ out = <<Decoded(Content)>>

Ahead ==
  \/ at = 0 /\ rx.state = "RECEIVING" /\ rx.buffer = <<>>
  \/ /\ at \in 1 .. Size + 1 /\ rx.state = "RECEIVING"
     /\ Len(rx.buffer) = at
  \/ at = Size + 2 /\ rx.state \in {"READY", "IDLE"}

Between ==
  \/ at = 0 /\ rx.state = "RECEIVING" /\ rx.buffer # <<>>
  \/ at \in 1 .. Size + 1 /\ rx.state \in {"READY", "IDLE"}
  \/ at = Size + 2 /\ rx.state = "RECEIVING" /\ rx.buffer = <<>>

Sync ==
  clean >= 1 => \/ InStep
                \/ clean <= 2 /\ Ahead
                \/ clean <= 1 /\ Between

\* The sum is that of the bytes as they were received.
Summed == rx.state \in {"RECEIVING", "READY"} => rx.fcs = FcsOf(rx.buffer)

IInv ==
  /\ rx \in Rx /\ Len(rx.buffer) < BufferSize /\ Summed
  /\ payload \in Payloads /\ at \in 0 .. Size + 2
  /\ clean \in 0 .. 3 /\ noise \in 0 .. MaxNoise
  /\ Sync
-----------------------------------------------------------------------------
\* Induction over sets

\* Every set of numbers that is not empty has a least element.
LEMMA LeastNat ==
  ASSUME NEW T \in SUBSET Nat, NEW n \in T
  PROVE  \E m \in T : \A k \in T : m <= k
<1> DEFINE R == {ss \in Nat \X Nat : ss[1] < ss[2]}
<1>1. IsWellFoundedOn(R, Nat) BY NatLessThanWellFounded DEF OpToRel
<1>2. \A x, y \in Nat : y < x => <<y, x>> \in R OBVIOUS
<1> HIDE DEF R
<1>3. \E x \in T : \A y \in T : ~ (<<y, x>> \in R)
  <2>1. T \subseteq Nat /\ T # {} OBVIOUS
  <2> QED BY <1>1, <2>1, WFMin
<1>4. PICK m \in T : \A y \in T : ~ (<<y, m>> \in R) BY <1>3
<1>5. ASSUME NEW k \in T PROVE m <= k
  <2>1. k \in Nat /\ m \in Nat OBVIOUS
  <2>2. ~ (<<k, m>> \in R) BY <1>4
  <2>3. ~ (k < m) BY <1>2, <2>1, <2>2
  <2> QED BY <2>1, <2>3
<1> QED BY <1>5

\* A set with 0, and with i also i + 1, has all numbers up to n.
LEMMA UpTo ==
  ASSUME NEW n \in Nat, NEW T, 0 \in T,
         \A i \in 0 .. n - 1 : i \in T => i + 1 \in T
  PROVE  0 .. n \subseteq T
<1> SUFFICES ASSUME NEW j \in 0 .. n, j \notin T PROVE FALSE OBVIOUS
<1> DEFINE U == {i \in 0 .. n : i \notin T}
<1>1. U \in SUBSET Nat /\ j \in U OBVIOUS
<1>2. PICK m \in U : \A k \in U : m <= k
  <2> HIDE DEF U
  <2> QED BY <1>1, LeastNat
<1>3. m \in 0 .. n /\ m \notin T OBVIOUS
<1>4. m # 0 BY <1>3
<1>5. m - 1 \in 0 .. n - 1 BY <1>3, <1>4
<1>6. m - 1 \notin U BY <1>2, <1>5
<1>7. m - 1 \in T BY <1>5, <1>6
<1>8. (m - 1) + 1 = m BY <1>3
<1> QED BY <1>3, <1>5, <1>7, <1>8

\* A set with the empty sequence, and with a sequence also all that are one
\* longer, has all sequences.
LEMMA AllSeqs ==
  ASSUME NEW B, NEW T, <<>> \in T,
         \A s \in Seq(B), b \in B : s \in T => Append(s, b) \in T
  PROVE  Seq(B) \subseteq T
<1> SUFFICES ASSUME NEW seq \in Seq(B) PROVE seq \in T OBVIOUS
<1> DEFINE n == Len(seq)
           U == {i \in 0 .. n : SubSeq(seq, 1, i) \in T}
<1>1. n \in Nat OBVIOUS
<1>2. 0 \in U
  <2>1. SubSeq(seq, 1, 0) = <<>> BY SubSeqEmpty
  <2>2. SubSeq(seq, 1, 0) \in T BY <2>1, Zenon
  <2>3. 0 \in 0 .. n BY <1>1
  <2> HIDE DEF n
  <2> QED BY <2>2, <2>3
<1>3. ASSUME NEW i \in 0 .. n - 1, i \in U PROVE i + 1 \in U
  <2> DEFINE s == SubSeq(seq, 1, i)
  <2>1. s \in Seq(B) /\ seq[i + 1] \in B BY <1>1
  <2>2. SubSeq(seq, 1, i + 1) = Append(s, seq[i + 1])
    BY <1>1, SubSeqRecursiveSecond
  <2>3. s \in T BY <1>3
  <2>4. Append(s, seq[i + 1]) \in T BY <2>1, <2>3
  <2>5. i + 1 \in 0 .. n BY <1>1
  <2>6. SubSeq(seq, 1, i + 1) \in T BY <2>2, <2>4
  <2> HIDE DEF n
  <2> QED BY <2>5, <2>6
<1>4. n \in U
  <2> HIDE DEF U, n
  <2>1. 0 .. n \subseteq U BY <1>1, <1>2, <1>3, UpTo
  <2> QED BY <1>1, <2>1
<1>5. SubSeq(seq, 1, n) = seq BY SubSeqFull
<1> QED BY <1>4, <1>5

-----------------------------------------------------------------------------
\* Recursion along a sequence

\* f has the state after each element, from init by step.
Computes(f, S, init, step, seq) ==
  /\ f \in [0 .. Len(seq) -> S] /\ f[0] = init
  /\ \A i \in 1 .. Len(seq) : f[i] = step[<<f[i - 1], seq[i]>>]
Computable(S, init, step, seq) == \E f : Computes(f, S, init, step, seq)

\* There is such a function.
LEMMA Recursion ==
  ASSUME NEW S, NEW B, NEW init \in S, NEW step \in [S \X B -> S],
         NEW seq \in Seq(B)
  PROVE  Computable(S, init, step, seq)
<1> DEFINE n == Len(seq)
           Good(m, f) == /\ f \in [0 .. m -> S] /\ f[0] = init
                         /\ \A i \in 1 .. m : f[i] = step[<<f[i - 1], seq[i]>>]
           T == {m \in 0 .. n : \E f \in [0 .. m -> S] : Good(m, f)}
<1>1. n \in Nat OBVIOUS
<1>2. 0 \in T
  <2> DEFINE f == [i \in 0 .. 0 |-> init]
  <2>1. f \in [0 .. 0 -> S] /\ Good(0, f) OBVIOUS
  <2> HIDE DEF f, Good
  <2> QED BY <1>1, <2>1
<1>3. ASSUME NEW m \in 0 .. n - 1, m \in T PROVE m + 1 \in T
  <2>1. PICK f \in [0 .. m -> S] : Good(m, f) BY <1>3
  <2> DEFINE g == [i \in 0 .. m + 1 |->
                     IF i = m + 1 THEN step[<<f[m], seq[m + 1]>>] ELSE f[i]]
  <2>2. seq[m + 1] \in B /\ f[m] \in S BY <1>1
  <2>3. step[<<f[m], seq[m + 1]>>] \in S BY <2>2
  <2>4. g \in [0 .. m + 1 -> S] BY <2>3
  <2>5. g[0] = init BY <2>1
  <2>6. ASSUME NEW i \in 1 .. m + 1 PROVE g[i] = step[<<g[i - 1], seq[i]>>]
    <3>1. CASE i = m + 1
      <4>1. i - 1 = m /\ m \in 0 .. m + 1 /\ m # m + 1 BY <3>1
      <4>2. g[i - 1] = f[m] BY <4>1
      <4>3. g[i] = step[<<f[m], seq[m + 1]>>] BY <3>1
      <4> HIDE DEF g
      <4> QED BY <3>1, <4>2, <4>3
    <3>2. CASE i # m + 1
      <4>1. i \in 1 .. m /\ i - 1 \in 0 .. m + 1 /\ i - 1 # m + 1 BY <3>2
      <4>2. g[i] = f[i] /\ g[i - 1] = f[i - 1] BY <4>1
      <4>3. f[i] = step[<<f[i - 1], seq[i]>>] BY <2>1, <4>1
      <4> QED BY <4>2, <4>3
    <3> QED BY <3>1, <3>2
  <2>7. m + 1 \in 0 .. n BY <1>1
  <2>8. Good(m + 1, g) BY <2>4, <2>5, <2>6
  <2> QED BY <2>4, <2>7, <2>8
<1>4. n \in T
  <2> HIDE DEF T, n
  <2>1. 0 .. n \subseteq T BY <1>1, <1>2, <1>3, UpTo
  <2> QED BY <1>1, <2>1
<1>5. PICK f \in [0 .. n -> S] : Good(n, f) BY <1>4
<1> QED BY <1>5 DEF Computable, Computes
\* A function that satisfies the equations stays in S.
LEMMA Runs ==
  ASSUME NEW S, NEW B, NEW init \in S, NEW step \in [S \X B -> S],
         NEW seq \in Seq(B), NEW h, h = [i \in 0 .. Len(seq) |-> h[i]],
         h[0] = init,
         \A i \in 1 .. Len(seq) :
           h[i - 1] \in S => h[i] = step[<<h[i - 1], seq[i]>>]
  PROVE  Computes(h, S, init, step, seq)
<1> DEFINE n == Len(seq)
           T == {i \in 0 .. n : h[i] \in S}
<1>1. n \in Nat /\ \A i \in 1 .. n : seq[i] \in B OBVIOUS
<1> HIDE DEF n
<1>2. 0 \in T BY <1>1
<1>3. ASSUME NEW i \in 0 .. n - 1, i \in T PROVE i + 1 \in T
  <2> DEFINE j == i + 1
  <2>1. j \in 1 .. n /\ j \in 0 .. n /\ j - 1 = i BY <1>1
  <2>2. h[i] \in S /\ seq[j] \in B BY <1>1, <1>3, <2>1
  <2> HIDE DEF j
  <2>3. h[j] = step[<<h[i], seq[j]>>] BY <2>1, <2>2 DEF n
  <2>4. h[j] \in S BY <2>2, <2>3
  <2> QED BY <2>1, <2>4 DEF j
<1>4. \A i \in 0 .. n : h[i] \in S
  <2>1. 0 .. n \subseteq T
    <3> HIDE DEF T
    <3> QED BY <1>1, <1>2, <1>3, UpTo
  <2> QED BY <2>1
<1>5. h \in [0 .. n -> S] BY <1>4 DEF n
<1>6. ASSUME NEW i \in 1 .. n PROVE h[i] = step[<<h[i - 1], seq[i]>>]
  <2>1. i - 1 \in 0 .. n BY <1>1
  <2>2. h[i - 1] \in S BY <1>4, <2>1
  <2> QED BY <2>2 DEF n
<1> QED BY <1>5, <1>6 DEF Computes, n

\* One more element is one more step.
LEMMA OneMore ==
  ASSUME NEW S, NEW B, NEW init, NEW step, NEW s \in Seq(B), NEW b \in B,
         NEW f, Computes(f, S, init, step, s),
         NEW g, Computes(g, S, init, step, Append(s, b))
  PROVE  g[Len(Append(s, b))] = step[<<f[Len(s)], b>>]
<1> DEFINE n == Len(s)
           t == Append(s, b)
<1>1. /\ n \in Nat /\ t \in Seq(B) /\ Len(t) = n + 1 /\ t[n + 1] = b
      /\ \A i \in 1 .. n : t[i] = s[i]
  OBVIOUS
<1> HIDE DEF n, t
<1>2. /\ f[0] = init /\ g[0] = init
      /\ \A i \in 1 .. n : f[i] = step[<<f[i - 1], s[i]>>]
      /\ \A i \in 1 .. n + 1 : g[i] = step[<<g[i - 1], t[i]>>]
  BY <1>1 DEF Computes, n, t
<1> DEFINE T == {i \in 0 .. n : f[i] = g[i]}
<1>3. 0 \in T BY <1>1, <1>2
<1>4. ASSUME NEW i \in 0 .. n - 1, i \in T PROVE i + 1 \in T
  <2> DEFINE j == i + 1
  <2>1. j \in 1 .. n /\ j \in 1 .. n + 1 /\ j - 1 = i /\ j \in 0 .. n
    BY <1>1
  <2>2. f[i] = g[i] BY <1>4
  <2> HIDE DEF j
  <2>3. f[j] = step[<<f[i], s[j]>>] BY <1>2, <2>1
  <2>4. g[j] = step[<<g[i], t[j]>>] BY <1>2, <2>1
  <2>5. f[j] = g[j] BY <1>1, <2>1, <2>2, <2>3, <2>4
  <2> QED BY <2>1, <2>5 DEF j
<1>5. n \in T
  <2> HIDE DEF T
  <2>1. 0 .. n \subseteq T BY <1>1, <1>3, <1>4, UpTo
  <2> QED BY <1>1, <2>1
<1>6. f[n] = g[n] BY <1>5
<1>7. n + 1 \in 1 .. n + 1 /\ (n + 1) - 1 = n BY <1>1
<1>8. g[n + 1] = step[<<g[n], t[n + 1]>>] BY <1>2, <1>7
<1>9. g[n + 1] = step[<<f[n], b>>] BY <1>1, <1>6, <1>8
<1> QED BY <1>1, <1>9 DEF n, t
-----------------------------------------------------------------------------
\* The check sequence

LEMMA ShiftedType ==
  ASSUME NEW a \in Word
  PROVE  Shifted(a) \in Word
<1>1. ShiftRight(a, 1) \in Word BY DEF ShiftRight, Word
<1>2. {3, 10, 15} \in Word BY DEF Word
<1>3. Xor(ShiftRight(a, 1), {3, 10, 15}) \in Word
  <2>1. /\ ShiftRight(a, 1) \subseteq 0 .. 15
        /\ {3, 10, 15} \subseteq 0 .. 15
    BY <1>1, <1>2 DEF Word
  <2>2. Xor(ShiftRight(a, 1), {3, 10, 15}) \subseteq 0 .. 15
    BY <2>1 DEF Xor
  <2> QED BY <2>2 DEF Word
<1> QED BY <1>1, <1>3 DEF Shifted

LEMMA UpdateType ==
  ASSUME NEW fcs \in Word, NEW byte \in Byte
  PROVE  UpdateFcs(fcs, byte) \in Word
<1> DEFINE i == Xor(fcs \cap (0 .. 7), Bits(byte))
<1>1. i \in SUBSET (0 .. 7)
  <2>1. fcs \cap (0 .. 7) \subseteq 0 .. 7 OBVIOUS
  <2>2. Bits(byte) \subseteq 0 .. 7 BY DEF Bits
  <2>3. i \subseteq 0 .. 7 BY <2>1, <2>2 DEF Xor
  <2> QED BY <2>3
<1>2. i \in Word BY <1>1 DEF Word
<1> HIDE DEF i
<1>3. Shifted4(Shifted4(i)) \in Word
  BY <1>2, ShiftedType DEF Shifted4, Shifted2
<1>4. fcsTable[i] \in Word BY <1>1, <1>3 DEF fcsTable
<1>5. ShiftRight(fcs, 8) \in Word BY DEF ShiftRight, Word
<1>6. Xor(ShiftRight(fcs, 8), fcsTable[i]) \in Word
  <2>1. ShiftRight(fcs, 8) \subseteq 0 .. 15 /\ fcsTable[i] \subseteq 0 .. 15
    BY <1>4, <1>5 DEF Word
  <2>2. Xor(ShiftRight(fcs, 8), fcsTable[i]) \subseteq 0 .. 15
    BY <2>1 DEF Xor
  <2> QED BY <2>2 DEF Word
<1> QED BY <1>6 DEF UpdateFcs, i

\* The function that FcsOf ends with, and its step
FcsRun(bytes) ==
  CHOOSE fcs : fcs = [i \in 0 .. Len(bytes) |->
    IF i = 0 THEN FcsInit ELSE UpdateFcs(fcs[i - 1], bytes[i])]
FcsStep == [x \in Word \X Byte |-> UpdateFcs(x[1], x[2])]

LEMMA FcsComputed ==
  ASSUME NEW bytes \in Seq(Byte)
  PROVE  Computes(FcsRun(bytes), Word, FcsInit, FcsStep, bytes)
<1> DEFINE n == Len(bytes)
           h == FcsRun(bytes)
<1>1. FcsStep \in [Word \X Byte -> Word] BY UpdateType DEF FcsStep
<1>2. FcsInit \in Word BY DEF FcsInit, Word
<1>3. \A i \in 1 .. n : bytes[i] \in Byte OBVIOUS
<1>4. ASSUME NEW x \in Word, NEW i \in 1 .. n
      PROVE  FcsStep[<<x, bytes[i]>>] = UpdateFcs(x, bytes[i])
  BY <1>3 DEF FcsStep
<1>5. PICK f : Computes(f, Word, FcsInit, FcsStep, bytes)
  <2>1. Computable(Word, FcsInit, FcsStep, bytes) BY <1>1, <1>2, Recursion
  <2> QED BY <2>1 DEF Computable
<1>6. f = [i \in 0 .. n |->
             IF i = 0 THEN FcsInit ELSE UpdateFcs(f[i - 1], bytes[i])]
  <2>1. f \in [0 .. n -> Word] /\ f[0] = FcsInit BY <1>5 DEF Computes
  <2>2. ASSUME NEW i \in 1 .. n PROVE f[i] = UpdateFcs(f[i - 1], bytes[i])
    <3>1. f[i - 1] \in Word BY <2>1
    <3>2. f[i] = FcsStep[<<f[i - 1], bytes[i]>>] BY <1>5 DEF Computes
    <3> QED BY <1>4, <3>1, <3>2
  <2> QED BY <2>1, <2>2
<1>7. h = [i \in 0 .. n |->
             IF i = 0 THEN FcsInit ELSE UpdateFcs(h[i - 1], bytes[i])]
  BY <1>6 DEF FcsRun
<1>8. n \in Nat OBVIOUS
<1> HIDE DEF h, n
<1>9. /\ h = [i \in 0 .. n |-> h[i]] /\ h[0] = FcsInit
      /\ \A i \in 1 .. n : h[i] = UpdateFcs(h[i - 1], bytes[i])
  <2>1. 0 \in 0 .. n /\ \A i \in 1 .. n : i \in 0 .. n /\ i # 0 BY <1>8
  <2>2. h[0] = FcsInit BY <1>7, <2>1
  <2>3. ASSUME NEW i \in 1 .. n PROVE h[i] = UpdateFcs(h[i - 1], bytes[i])
    BY <1>7, <2>1
  <2>4. h = [i \in 0 .. n |-> h[i]] BY <1>7
  <2> QED BY <2>2, <2>3, <2>4
<1>10. \A i \in 1 .. n :
         h[i - 1] \in Word => h[i] = FcsStep[<<h[i - 1], bytes[i]>>]
  BY <1>4, <1>9
<1>11. Computes(h, Word, FcsInit, FcsStep, bytes)
  BY <1>1, <1>2, <1>9, <1>10, Runs DEF n
<1> QED BY <1>11 DEF h

LEMMA FcsIs ==
  ASSUME NEW s \in Seq(Byte), NEW b \in Byte
  PROVE  /\ FcsOf(<<>>) = FcsInit
         /\ FcsOf(s) \in Word
         /\ FcsOf(Append(s, b)) = UpdateFcs(FcsOf(s), b)
<1>1. \A t : FcsOf(t) = FcsRun(t)[Len(t)] BY DEF FcsOf, FcsRun
<1>2. FcsOf(<<>>) = FcsInit
  <2>1. <<>> \in Seq(Byte) /\ Len(<<>>) = 0 OBVIOUS
  <2>2. FcsRun(<<>>)[0] = FcsInit BY <2>1, FcsComputed DEF Computes
  <2> QED BY <1>1, <2>1, <2>2
<1>3. Len(s) \in 0 .. Len(s) OBVIOUS
<1>4. FcsOf(s) \in Word BY <1>1, <1>3, FcsComputed DEF Computes
<1>5. FcsOf(Append(s, b)) = FcsStep[<<FcsOf(s), b>>]
  <2> DEFINE t == Append(s, b)
  <2>1. t \in Seq(Byte) OBVIOUS
  <2>2. /\ Computes(FcsRun(s), Word, FcsInit, FcsStep, s)
        /\ Computes(FcsRun(t), Word, FcsInit, FcsStep, t)
    BY <2>1, FcsComputed
  <2>3. FcsRun(t)[Len(t)] = FcsStep[<<FcsRun(s)[Len(s)], b>>]
    BY <2>2, OneMore
  <2> QED BY <1>1, <2>3
<1> QED BY <1>2, <1>4, <1>5 DEF FcsStep

\* A byte and its bits
Sum8(a, b, c, d, e, f, g, h) ==
  a + 2 * b + 4 * c + 8 * d + 16 * e + 32 * f + 64 * g + 128 * h
Digits8(n, a, b, c, d, e, f, g, h) ==
  /\ n \in 0 .. 255
  /\ n % 2 = a /\ (n \div 2) % 2 = b /\ (n \div 4) % 2 = c
  /\ (n \div 8) % 2 = d /\ (n \div 16) % 2 = e /\ (n \div 32) % 2 = f
  /\ (n \div 64) % 2 = g /\ (n \div 128) % 2 = h
LEMMA SumDigits ==
  ASSUME NEW a \in {0, 1}, NEW b \in {0, 1}, NEW c \in {0, 1}, NEW d \in {0, 1},
         NEW e \in {0, 1}, NEW f \in {0, 1}, NEW g \in {0, 1}, NEW h \in {0, 1}
  PROVE  Digits8(Sum8(a, b, c, d, e, f, g, h), a, b, c, d, e, f, g, h)
<1> DEFINE n == Sum8(a, b, c, d, e, f, g, h)
<1>1. n = a + 2 * b + 4 * c + 8 * d + 16 * e + 32 * f + 64 * g + 128 * h
  BY DEF Sum8
<1> HIDE DEF n
<1> QED BY <1>1 DEF Digits8, n

LEMMA BitsOf ==
  ASSUME NEW w, w \subseteq 0 .. 7
  PROVE  ByteOf(w) \in Byte /\ Bits(ByteOf(w)) = w
<1> DEFINE v(k) == IF k \in w THEN 1 ELSE 0
           n == ByteOf(w)
<1>1. n = Sum8(v(0), v(1), v(2), v(3), v(4), v(5), v(6), v(7))
  BY DEF ByteOf, Sum8
<1>2. Digits8(n, v(0), v(1), v(2), v(3), v(4), v(5), v(6), v(7))
  BY <1>1, SumDigits
<1>3. ASSUME NEW k \in 0 .. 7 PROVE (n \div 2 ^ k) % 2 = 1 <=> k \in w
  <2> HIDE DEF n
  <2>1. k \in {0, 1, 2, 3, 4, 5, 6, 7} OBVIOUS
  <2>2. n \in 0 .. 255 BY <1>2 DEF Digits8
  <2>3. CASE k = 0
    <3>1. 2 ^ k = 1 /\ n \div 1 = n BY <2>2, <2>3
    <3> QED BY <1>2, <2>3, <3>1 DEF Digits8
  <2>4. CASE k = 1 BY <1>2, <2>4 DEF Digits8
  <2>5. CASE k = 2 BY <1>2, <2>5 DEF Digits8
  <2>6. CASE k = 3 BY <1>2, <2>6 DEF Digits8
  <2>7. CASE k = 4 BY <1>2, <2>7 DEF Digits8
  <2>8. CASE k = 5 BY <1>2, <2>8 DEF Digits8
  <2>9. CASE k = 6 BY <1>2, <2>9 DEF Digits8
  <2>10. CASE k = 7 BY <1>2, <2>10 DEF Digits8
  <2> QED BY <2>1, <2>3, <2>4, <2>5, <2>6, <2>7, <2>8, <2>9, <2>10
<1>4. n \in Byte BY <1>2 DEF Digits8, Byte
<1> HIDE DEF n
<1>5. Bits(n) = w BY <1>3 DEF Bits
<1> QED BY <1>4, <1>5 DEF n

\* The two entries of the table that a sum and its complement lead to
LEMMA EntryOfOnes == fcsTable[0 .. 7] = {3, 4, 5, 6, 8, 9, 10, 11}
<1>1. Shifted({0, 1, 2, 3, 4, 5, 6, 7}) =
        {0, 1, 2, 4, 5, 6, 10, 15}
  BY DEF Shifted, ShiftRight, Xor
<1>2. Shifted({0, 1, 2, 4, 5, 6, 10, 15}) =
        {0, 1, 4, 5, 9, 10, 14, 15}
  BY DEF Shifted, ShiftRight, Xor
<1>3. Shifted({0, 1, 4, 5, 9, 10, 14, 15}) =
        {0, 4, 8, 9, 10, 13, 14, 15}
  BY DEF Shifted, ShiftRight, Xor
<1>4. Shifted({0, 4, 8, 9, 10, 13, 14, 15}) =
        {7, 8, 9, 10, 12, 13, 14, 15}
  BY DEF Shifted, ShiftRight, Xor
<1>5. Shifted({7, 8, 9, 10, 12, 13, 14, 15}) =
        {6, 7, 8, 9, 11, 12, 13, 14}
  BY DEF Shifted, ShiftRight, Xor
<1>6. Shifted({6, 7, 8, 9, 11, 12, 13, 14}) =
        {5, 6, 7, 8, 10, 11, 12, 13}
  BY DEF Shifted, ShiftRight, Xor
<1>7. Shifted({5, 6, 7, 8, 10, 11, 12, 13}) =
        {4, 5, 6, 7, 9, 10, 11, 12}
  BY DEF Shifted, ShiftRight, Xor
<1>8. Shifted({4, 5, 6, 7, 9, 10, 11, 12}) =
        {3, 4, 5, 6, 8, 9, 10, 11}
  BY DEF Shifted, ShiftRight, Xor
<1>9. Shifted4({0, 1, 2, 3, 4, 5, 6, 7}) =
        {7, 8, 9, 10, 12, 13, 14, 15}
  BY <1>1, <1>2, <1>3, <1>4, Zenon DEF Shifted4, Shifted2
<1>10. Shifted4({7, 8, 9, 10, 12, 13, 14, 15}) =
        {3, 4, 5, 6, 8, 9, 10, 11}
  BY <1>5, <1>6, <1>7, <1>8, Zenon DEF Shifted4, Shifted2
<1>11. 0 .. 7 \in SUBSET (0 .. 7) /\ 0 .. 7 = {0, 1, 2, 3, 4, 5, 6, 7} OBVIOUS
<1>12. fcsTable[0 .. 7] = Shifted4(Shifted4({0, 1, 2, 3, 4, 5, 6, 7}))
  BY <1>11 DEF fcsTable
<1> QED BY <1>9, <1>10, <1>12

LEMMA EntryOfRest == fcsTable[{0, 1, 2, 7}] = {0, 1, 2, 4, 5, 7, 12, 13, 14, 15}
<1>1. Shifted({0, 1, 2, 7}) =
        {0, 1, 3, 6, 10, 15}
  BY DEF Shifted, ShiftRight, Xor
<1>2. Shifted({0, 1, 3, 6, 10, 15}) =
        {0, 2, 3, 5, 9, 10, 14, 15}
  BY DEF Shifted, ShiftRight, Xor
<1>3. Shifted({0, 2, 3, 5, 9, 10, 14, 15}) =
        {1, 2, 3, 4, 8, 9, 10, 13, 14, 15}
  BY DEF Shifted, ShiftRight, Xor
<1>4. Shifted({1, 2, 3, 4, 8, 9, 10, 13, 14, 15}) =
        {0, 1, 2, 3, 7, 8, 9, 12, 13, 14}
  BY DEF Shifted, ShiftRight, Xor
<1>5. Shifted({0, 1, 2, 3, 7, 8, 9, 12, 13, 14}) =
        {0, 1, 2, 3, 6, 7, 8, 10, 11, 12, 13, 15}
  BY DEF Shifted, ShiftRight, Xor
<1>6. Shifted({0, 1, 2, 3, 6, 7, 8, 10, 11, 12, 13, 15}) =
        {0, 1, 2, 3, 5, 6, 7, 9, 11, 12, 14, 15}
  BY DEF Shifted, ShiftRight, Xor
<1>7. Shifted({0, 1, 2, 3, 5, 6, 7, 9, 11, 12, 14, 15}) =
        {0, 1, 2, 3, 4, 5, 6, 8, 11, 13, 14, 15}
  BY DEF Shifted, ShiftRight, Xor
<1>8. Shifted({0, 1, 2, 3, 4, 5, 6, 8, 11, 13, 14, 15}) =
        {0, 1, 2, 4, 5, 7, 12, 13, 14, 15}
  BY DEF Shifted, ShiftRight, Xor
<1>9. Shifted4({0, 1, 2, 7}) =
        {0, 1, 2, 3, 7, 8, 9, 12, 13, 14}
  BY <1>1, <1>2, <1>3, <1>4, Zenon DEF Shifted4, Shifted2
<1>10. Shifted4({0, 1, 2, 3, 7, 8, 9, 12, 13, 14}) =
        {0, 1, 2, 4, 5, 7, 12, 13, 14, 15}
  BY <1>5, <1>6, <1>7, <1>8, Zenon DEF Shifted4, Shifted2
<1>11. {0, 1, 2, 7} \in SUBSET (0 .. 7) /\ {0, 1, 2, 7} = {0, 1, 2, 7} OBVIOUS
<1>12. fcsTable[{0, 1, 2, 7}] = Shifted4(Shifted4({0, 1, 2, 7}))
  BY <1>11 DEF fcsTable
<1> QED BY <1>9, <1>10, <1>12


\* A sum followed by its complement
LEMMA Residue ==
  ASSUME NEW s \in Word, NEW lo \in Byte, NEW hi \in Byte,
         Bits(lo) = ((0 .. 15) \ s) \cap (0 .. 7),
         Bits(hi) = ShiftRight((0 .. 15) \ s, 8)
  PROVE  UpdateFcs(UpdateFcs(s, lo), hi) = FcsOk
<1> DEFINE a == UpdateFcs(s, lo)
           high == ShiftRight(s, 8)
<1>1. Xor(s \cap (0 .. 7), Bits(lo)) = 0 .. 7 BY DEF Xor
<1>2. a = Xor(high, {3, 4, 5, 6, 8, 9, 10, 11})
  BY <1>1, EntryOfOnes DEF UpdateFcs
<1>3. high \subseteq 0 .. 7 BY DEF ShiftRight, Word
<1>4. Bits(hi) = (0 .. 7) \ high
  BY DEF ShiftRight, Word
<1> HIDE DEF a, high
<1>5. ShiftRight(a, 8) = {0, 1, 2, 3}
  BY <1>2, <1>3 DEF ShiftRight, Xor
<1>6. Xor(a \cap (0 .. 7), Bits(hi)) = {0, 1, 2, 7}
  BY <1>2, <1>3, <1>4 DEF Xor
<1>7. UpdateFcs(a, hi)
        = Xor({0, 1, 2, 3}, {0, 1, 2, 4, 5, 7, 12, 13, 14, 15})
  BY <1>5, <1>6, EntryOfRest DEF UpdateFcs
<1>8. Xor({0, 1, 2, 3}, {0, 1, 2, 4, 5, 7, 12, 13, 14, 15}) = FcsOk
  BY DEF Xor, FcsOk
<1> QED BY <1>7, <1>8 DEF a

-----------------------------------------------------------------------------
\* What the encoder puts between the flags

Plain == Byte \ {Flag}

StuffRun(bytes) ==
  CHOOSE body : body = [i \in 0 .. Len(bytes) |->
    IF i = 0 THEN <<>> ELSE body[i - 1] \o Escaped(bytes[i])]
StuffStep == [x \in Seq(Plain) \X Byte |-> x[1] \o Escaped(x[2])]

LEMMA EscapedType ==
  ASSUME NEW byte \in Byte
  PROVE  /\ Escaped(byte) \in Seq(Plain)
         /\ Len(Escaped(byte)) \in {1, 2}
<1>1. {Escape, EscapeEscaped, FlagEscaped} \subseteq Plain
  BY DEF Plain, Byte, Flag, Escape, EscapeEscaped, FlagEscaped
<1>2. CASE byte = Escape BY <1>1, <1>2 DEF Escaped
<1>3. CASE byte = Flag
  <2>1. Escaped(byte) = <<Escape, FlagEscaped>>
    BY <1>3 DEF Escaped, Flag, Escape
  <2> QED BY <1>1, <2>1
<1>4. CASE byte \notin {Escape, Flag}
  <2>1. Escaped(byte) = <<byte>> /\ byte \in Plain
    BY <1>4 DEF Escaped, Plain
  <2> QED BY <2>1
<1> QED BY <1>2, <1>3, <1>4

LEMMA StuffType ==
  ASSUME NEW body \in Seq(Plain), NEW byte \in Byte
  PROVE  /\ body \o Escaped(byte) \in Seq(Plain)
         /\ Len(body \o Escaped(byte)) \in {Len(body) + 1, Len(body) + 2}
<1> DEFINE e == Escaped(byte)
<1>1. e \in Seq(Plain) /\ Len(e) \in {1, 2} BY EscapedType
<1> HIDE DEF e
<1>2. body \o e \in Seq(Plain) /\ Len(body \o e) = Len(body) + Len(e)
  BY <1>1
<1> QED BY <1>1, <1>2 DEF e

LEMMA StuffComputed ==
  ASSUME NEW bytes \in Seq(Byte)
  PROVE  Computes(StuffRun(bytes), Seq(Plain), <<>>, StuffStep, bytes)
<1> DEFINE n == Len(bytes)
           h == StuffRun(bytes)
<1>1. StuffStep \in [Seq(Plain) \X Byte -> Seq(Plain)] BY StuffType DEF StuffStep
<1>2. <<>> \in Seq(Plain) OBVIOUS
<1>3. \A i \in 1 .. n : bytes[i] \in Byte OBVIOUS
<1>4. ASSUME NEW x \in Seq(Plain), NEW i \in 1 .. n
      PROVE  StuffStep[<<x, bytes[i]>>] = x \o Escaped(bytes[i])
  BY <1>3 DEF StuffStep
<1>5. PICK f : Computes(f, Seq(Plain), <<>>, StuffStep, bytes)
  <2>1. Computable(Seq(Plain), <<>>, StuffStep, bytes) BY <1>1, <1>2, Recursion
  <2> QED BY <2>1 DEF Computable
<1>6. f = [i \in 0 .. n |->
             IF i = 0 THEN <<>> ELSE f[i - 1] \o Escaped(bytes[i])]
  <2>1. f \in [0 .. n -> Seq(Plain)] /\ f[0] = <<>> BY <1>5 DEF Computes
  <2>2. ASSUME NEW i \in 1 .. n PROVE f[i] = f[i - 1] \o Escaped(bytes[i])
    <3>1. f[i - 1] \in Seq(Plain) BY <2>1
    <3>2. f[i] = StuffStep[<<f[i - 1], bytes[i]>>] BY <1>5 DEF Computes
    <3> QED BY <1>4, <3>1, <3>2
  <2>3. ASSUME NEW i \in 0 .. n
        PROVE f[i] = IF i = 0 THEN <<>> ELSE f[i - 1] \o Escaped(bytes[i])
    <3>1. CASE i = 0 BY <2>1, <3>1
    <3>2. CASE i # 0
      <4>1. i \in 1 .. n BY <3>2
      <4> QED BY <2>2, <3>2, <4>1
    <3> QED BY <3>1, <3>2
  <2>4. f = [i \in 0 .. n |-> f[i]] BY <2>1, Zenon
  <2> QED BY <2>3, <2>4, Zenon
<1>7. h = [i \in 0 .. n |->
             IF i = 0 THEN <<>> ELSE h[i - 1] \o Escaped(bytes[i])]
  BY <1>6, Zenon DEF StuffRun
<1>8. n \in Nat OBVIOUS
<1> HIDE DEF h, n
<1>9. /\ h = [i \in 0 .. n |-> h[i]] /\ h[0] = <<>>
      /\ \A i \in 1 .. n : h[i] = h[i - 1] \o Escaped(bytes[i])
  <2>1. 0 \in 0 .. n /\ \A i \in 1 .. n : i \in 0 .. n /\ i # 0 BY <1>8
  <2>2. h[0] = <<>> BY <1>7, <2>1
  <2>3. ASSUME NEW i \in 1 .. n PROVE h[i] = h[i - 1] \o Escaped(bytes[i])
    BY <1>7, <2>1
  <2>4. h = [i \in 0 .. n |-> h[i]] BY <1>7
  <2> QED BY <2>2, <2>3, <2>4
<1>10. \A i \in 1 .. n :
         h[i - 1] \in Seq(Plain) => h[i] = StuffStep[<<h[i - 1], bytes[i]>>]
  BY <1>4, <1>9
<1>11. Computes(h, Seq(Plain), <<>>, StuffStep, bytes)
  BY <1>1, <1>2, <1>9, <1>10, Runs DEF n
<1> QED BY <1>11 DEF h

LEMMA StuffIs ==
  ASSUME NEW s \in Seq(Byte), NEW b \in Byte
  PROVE  /\ Stuffed(<<>>) = <<>>
         /\ Stuffed(s) \in Seq(Plain)
         /\ Stuffed(Append(s, b)) = Stuffed(s) \o Escaped(b)
<1>1. \A t : Stuffed(t) = StuffRun(t)[Len(t)] BY DEF Stuffed, StuffRun
<1>2. Stuffed(<<>>) = <<>>
  <2>1. <<>> \in Seq(Byte) /\ Len(<<>>) = 0 OBVIOUS
  <2>2. StuffRun(<<>>)[0] = <<>> BY <2>1, StuffComputed DEF Computes
  <2> QED BY <1>1, <2>1, <2>2
<1>3. Len(s) \in 0 .. Len(s) OBVIOUS
<1>4. Stuffed(s) \in Seq(Plain) BY <1>1, <1>3, StuffComputed DEF Computes
<1>5. Stuffed(Append(s, b)) = StuffStep[<<Stuffed(s), b>>]
  <2> DEFINE t == Append(s, b)
  <2>1. t \in Seq(Byte) OBVIOUS
  <2>2. /\ Computes(StuffRun(s), Seq(Plain), <<>>, StuffStep, s)
        /\ Computes(StuffRun(t), Seq(Plain), <<>>, StuffStep, t)
    BY <2>1, StuffComputed
  <2>3. StuffRun(t)[Len(t)] = StuffStep[<<StuffRun(s)[Len(s)], b>>]
    BY <2>2, OneMore
  <2> QED BY <1>1, <2>3
<1> QED BY <1>2, <1>4, <1>5 DEF StuffStep

-----------------------------------------------------------------------------
\* What the decoder has after each byte

Decoder == [escape : BOOLEAN, output : Seq(Byte)]
Fresh == [escape |-> FALSE, output |-> <<>>]

UnstuffRun(bytes) ==
  CHOOSE decoder : decoder = [i \in 0 .. Len(bytes) |->
    IF i = 0 THEN [escape |-> FALSE, output |-> <<>>]
    ELSE Unescaped(decoder[i - 1], bytes[i])]
UnstuffStep == [x \in Decoder \X Byte |-> Unescaped(x[1], x[2])]

LEMMA UnstuffType ==
  ASSUME NEW decoder \in Decoder, NEW byte \in Byte
  PROVE  Unescaped(decoder, byte) \in Decoder
<1>1. Escape \in Byte /\ Flag \in Byte BY DEF Byte, Escape, Flag
<1>2. decoder.escape \in BOOLEAN /\ decoder.output \in Seq(Byte)
  BY DEF Decoder
<1>3. \A b \in Byte : Append(decoder.output, b) \in Seq(Byte) BY <1>2
<1>4. CASE byte = Escape BY <1>2, <1>4 DEF Unescaped, Decoder
<1>5. CASE byte # Escape /\ decoder.escape
  <2>1. Unescaped(decoder, byte).output \in Seq(Byte)
    BY <1>1, <1>2, <1>3, <1>5 DEF Unescaped
  <2>2. Unescaped(decoder, byte) =
          [escape |-> FALSE, output |-> Unescaped(decoder, byte).output]
    BY <1>5 DEF Unescaped
  <2>3. [escape |-> FALSE, output |-> Unescaped(decoder, byte).output] \in Decoder
    BY <2>1 DEF Decoder
  <2> HIDE DEF Decoder
  <2> QED BY <2>2, <2>3
<1>6. CASE byte # Escape /\ ~ decoder.escape
  <2>1. Unescaped(decoder, byte) =
          [decoder EXCEPT !.output = Append(@, byte)]
    BY <1>6 DEF Unescaped
  <2> QED BY <1>2, <1>3, <2>1 DEF Decoder
<1> QED BY <1>2, <1>4, <1>5, <1>6

LEMMA UnstuffComputed ==
  ASSUME NEW bytes \in Seq(Byte)
  PROVE  Computes(UnstuffRun(bytes), Decoder, Fresh, UnstuffStep, bytes)
<1> DEFINE n == Len(bytes)
           h == UnstuffRun(bytes)
<1>1. UnstuffStep \in [Decoder \X Byte -> Decoder] BY UnstuffType DEF UnstuffStep
<1>2. Fresh \in Decoder BY DEF Fresh, Decoder
<1>3. \A i \in 1 .. n : bytes[i] \in Byte OBVIOUS
<1>4. ASSUME NEW x \in Decoder, NEW i \in 1 .. n
      PROVE  UnstuffStep[<<x, bytes[i]>>] = Unescaped(x, bytes[i])
  BY <1>3 DEF UnstuffStep
<1>5. PICK f : Computes(f, Decoder, Fresh, UnstuffStep, bytes)
  <2>1. Computable(Decoder, Fresh, UnstuffStep, bytes) BY <1>1, <1>2, Recursion
  <2> QED BY <2>1 DEF Computable
<1>6. f = [i \in 0 .. n |->
             IF i = 0 THEN Fresh ELSE Unescaped(f[i - 1], bytes[i])]
  <2>1. f \in [0 .. n -> Decoder] /\ f[0] = Fresh BY <1>5 DEF Computes
  <2>2. ASSUME NEW i \in 1 .. n PROVE f[i] = Unescaped(f[i - 1], bytes[i])
    <3>1. f[i - 1] \in Decoder BY <2>1
    <3>2. f[i] = UnstuffStep[<<f[i - 1], bytes[i]>>] BY <1>5 DEF Computes
    <3> QED BY <1>4, <3>1, <3>2
  <2> QED BY <2>1, <2>2
<1>7. h = [i \in 0 .. n |->
             IF i = 0 THEN Fresh ELSE Unescaped(h[i - 1], bytes[i])]
  BY <1>6 DEF UnstuffRun, Fresh
<1>8. n \in Nat OBVIOUS
<1> HIDE DEF h, n
<1>9. /\ h = [i \in 0 .. n |-> h[i]] /\ h[0] = Fresh
      /\ \A i \in 1 .. n : h[i] = Unescaped(h[i - 1], bytes[i])
  <2>1. 0 \in 0 .. n /\ \A i \in 1 .. n : i \in 0 .. n /\ i # 0 BY <1>8
  <2>2. h[0] = Fresh BY <1>7, <2>1
  <2>3. ASSUME NEW i \in 1 .. n PROVE h[i] = Unescaped(h[i - 1], bytes[i])
    BY <1>7, <2>1
  <2>4. h = [i \in 0 .. n |-> h[i]] BY <1>7
  <2> QED BY <2>2, <2>3, <2>4
<1>10. \A i \in 1 .. n :
         h[i - 1] \in Decoder => h[i] = UnstuffStep[<<h[i - 1], bytes[i]>>]
  BY <1>4, <1>9
<1>11. Computes(h, Decoder, Fresh, UnstuffStep, bytes)
  BY <1>1, <1>2, <1>9, <1>10, Runs DEF n
<1> QED BY <1>11 DEF h

LEMMA UnstuffIs ==
  ASSUME NEW s \in Seq(Byte), NEW b \in Byte
  PROVE  /\ Unstuffed(<<>>) = Fresh
         /\ Unstuffed(s) \in Decoder
         /\ Unstuffed(Append(s, b)) = Unescaped(Unstuffed(s), b)
<1>1. \A t : Unstuffed(t) = UnstuffRun(t)[Len(t)] BY DEF Unstuffed, UnstuffRun
<1>2. Unstuffed(<<>>) = Fresh
  <2>1. <<>> \in Seq(Byte) /\ Len(<<>>) = 0 OBVIOUS
  <2>2. UnstuffRun(<<>>)[0] = Fresh BY <2>1, UnstuffComputed DEF Computes
  <2> QED BY <1>1, <2>1, <2>2
<1>3. Len(s) \in 0 .. Len(s) OBVIOUS
<1>4. Unstuffed(s) \in Decoder BY <1>1, <1>3, UnstuffComputed DEF Computes
<1>5. Unstuffed(Append(s, b)) = UnstuffStep[<<Unstuffed(s), b>>]
  <2> DEFINE t == Append(s, b)
  <2>1. t \in Seq(Byte) OBVIOUS
  <2>2. /\ Computes(UnstuffRun(s), Decoder, Fresh, UnstuffStep, s)
        /\ Computes(UnstuffRun(t), Decoder, Fresh, UnstuffStep, t)
    BY <2>1, UnstuffComputed
  <2>3. UnstuffRun(t)[Len(t)] = UnstuffStep[<<UnstuffRun(s)[Len(s)], b>>]
    BY <2>2, OneMore
  <2> QED BY <1>1, <2>3
<1> QED BY <1>2, <1>4, <1>5 DEF UnstuffStep

-----------------------------------------------------------------------------
\* Encoding and decoding

\* An escaped byte is decoded, whatever was decoded before it.
LEMMA EscapedDecodes ==
  ASSUME NEW buffer \in Seq(Byte), NEW byte \in Byte,
         NEW output \in Seq(Byte),
         Unstuffed(buffer) = [escape |-> FALSE, output |-> output]
  PROVE  Unstuffed(buffer \o Escaped(byte)) =
           [escape |-> FALSE, output |-> Append(output, byte)]
<1> DEFINE held == [escape |-> TRUE, output |-> output]
<1>1. {Escape, Flag, EscapeEscaped, FlagEscaped} \subseteq Byte
  BY DEF Byte, Escape, Flag, EscapeEscaped, FlagEscaped
<1>2. ASSUME NEW b \in Byte
      PROVE  Unstuffed(Append(buffer, b)) =
               Unescaped([escape |-> FALSE, output |-> output], b)
  BY UnstuffIs
<1>3. ASSUME NEW b \in Byte
      PROVE  Unstuffed(buffer \o <<Escape, b>>) = Unescaped(held, b)
  <2> DEFINE front == Append(buffer, Escape)
  <2>1. front \in Seq(Byte) /\ buffer \o <<Escape, b>> = Append(front, b)
    BY <1>1
  <2>2. Unstuffed(front) = held BY <1>1, <1>2 DEF Unescaped
  <2> HIDE DEF front, held
  <2> QED BY <2>1, <2>2, UnstuffIs
<1>4. CASE byte = Escape
  <2>1. Escaped(byte) = <<Escape, EscapeEscaped>> BY <1>4 DEF Escaped, Escape, Flag
  <2>2. Unescaped(held, EscapeEscaped) =
          [escape |-> FALSE, output |-> Append(output, Escape)]
    BY DEF Unescaped, Escape, EscapeEscaped, FlagEscaped
  <2> HIDE DEF held
  <2> QED BY <1>1, <1>3, <1>4, <2>1, <2>2
<1>5. CASE byte = Flag
  <2>1. Escaped(byte) = <<Escape, FlagEscaped>>
    BY <1>5 DEF Escaped, Flag, Escape
  <2>2. Unescaped(held, FlagEscaped) =
          [escape |-> FALSE, output |-> Append(output, Flag)]
    BY DEF Unescaped, Escape, EscapeEscaped, FlagEscaped
  <2> HIDE DEF held
  <2> QED BY <1>1, <1>3, <1>5, <2>1, <2>2
<1>6. CASE byte \notin {Escape, Flag}
  <2>1. Escaped(byte) = <<byte>> BY <1>6 DEF Escaped
  <2>2. buffer \o <<byte>> = Append(buffer, byte) OBVIOUS
  <2>3. Unescaped([escape |-> FALSE, output |-> output], byte) =
          [escape |-> FALSE, output |-> Append(output, byte)]
    BY <1>6 DEF Unescaped
  <2> QED BY <1>2, <2>1, <2>2, <2>3
<1> QED BY <1>4, <1>5, <1>6

StuffedWell(s) ==
  /\ Stuffed(s) \in Seq(Plain)
  /\ Len(s) <= Len(Stuffed(s)) /\ Len(Stuffed(s)) <= 2 * Len(s)
  /\ Unstuffed(Stuffed(s)) = [escape |-> FALSE, output |-> s]

LEMMA Stuffing ==
  ASSUME NEW bytes \in Seq(Byte)
  PROVE  StuffedWell(bytes)
<1> DEFINE T == {s \in Seq(Byte) : StuffedWell(s)}
<1>1. Plain \subseteq Byte BY DEF Plain
<1>2. <<>> \in T
  <2>1. <<>> \in Seq(Byte) /\ <<>> \in Seq(Plain) /\ Len(<<>>) = 0 OBVIOUS
  <2>2. 0 \in Byte BY DEF Byte
  <2>3. Stuffed(<<>>) = <<>> BY <2>1, <2>2, StuffIs
  <2>4. Unstuffed(<<>>) = [escape |-> FALSE, output |-> <<>>]
    BY <2>1, <2>2, UnstuffIs DEF Fresh
  <2>5. StuffedWell(<<>>)
    <3>1. Stuffed(<<>>) \in Seq(Plain) /\ Len(Stuffed(<<>>)) = 0
      BY <2>1, <2>3, Zenon
    <3>2. Unstuffed(Stuffed(<<>>)) = [escape |-> FALSE, output |-> <<>>]
      BY <2>3, <2>4, Zenon
    <3> QED BY <2>1, <3>1, <3>2 DEF StuffedWell
  <2> QED BY <2>1, <2>5
<1>3. ASSUME NEW s \in Seq(Byte), NEW b \in Byte, s \in T
      PROVE  Append(s, b) \in T
  <2> DEFINE t == Append(s, b)
             old == Stuffed(s)
             new == Stuffed(t)
             e == Escaped(b)
  <2>1. t \in Seq(Byte) /\ Len(t) = Len(s) + 1 /\ Len(s) \in Nat OBVIOUS
  <2>2. /\ old \in Seq(Plain)
        /\ Len(s) <= Len(old) /\ Len(old) <= 2 * Len(s)
        /\ Unstuffed(old) = [escape |-> FALSE, output |-> s]
    BY <1>3 DEF StuffedWell
  <2>3. new = old \o e BY StuffIs
  <2>4. e \in Seq(Plain) /\ Len(e) \in {1, 2} BY EscapedType
  <2>5. old \in Seq(Byte) BY <1>1, <2>2
  <2>6. Unstuffed(new) = [escape |-> FALSE, output |-> t]
    BY <2>2, <2>3, <2>5, EscapedDecodes
  <2> HIDE DEF t, old, new, e
  <2>7. new \in Seq(Plain) /\ Len(new) = Len(old) + Len(e)
    BY <2>2, <2>3, <2>4
  <2>8. Len(old) \in Nat BY <2>2
  <2>9. Len(t) <= Len(new) /\ Len(new) <= 2 * Len(t)
    <3>1. CASE Len(e) = 1 BY <2>1, <2>2, <2>7, <2>8, <3>1
    <3>2. CASE Len(e) = 2 BY <2>1, <2>2, <2>7, <2>8, <3>2
    <3> QED BY <2>4, <3>1, <3>2
  <2>10. StuffedWell(t) BY <2>6, <2>7, <2>9 DEF StuffedWell, new
  <2> QED BY <2>1, <2>10 DEF t
<1>4. Seq(Byte) \subseteq T
  <2> HIDE DEF T
  <2> QED BY <1>2, <1>3, AllSeqs
<1> QED BY <1>4

\* The check sequence is two bytes, the complement of the sum.
LEMMA FcsBytesAre ==
  ASSUME NEW p \in Seq(Byte)
  PROVE  \E lo, hi \in Byte :
           /\ FcsBytes(p) = <<lo, hi>>
           /\ Bits(lo) = ((0 .. 15) \ FcsOf(p)) \cap (0 .. 7)
           /\ Bits(hi) = ShiftRight((0 .. 15) \ FcsOf(p), 8)
<1> DEFINE fcs == (0 .. 15) \ FcsOf(p)
           lo == ByteOf(fcs \cap (0 .. 7))
           hi == ByteOf(ShiftRight(fcs, 8))
<1>1. FcsBytes(p) = <<lo, hi>> BY DEF FcsBytes
<1>2. fcs \cap (0 .. 7) \subseteq 0 .. 7 OBVIOUS
<1>3. ShiftRight(fcs, 8) \subseteq 0 .. 7
  <2>1. fcs \subseteq 0 .. 15 OBVIOUS
  <2> HIDE DEF fcs
  <2> QED BY <2>1 DEF ShiftRight
<1>4. lo \in Byte /\ Bits(lo) = fcs \cap (0 .. 7) BY <1>2, BitsOf
<1>5. hi \in Byte /\ Bits(hi) = ShiftRight(fcs, 8) BY <1>3, BitsOf
<1> HIDE DEF lo, hi
<1> QED BY <1>1, <1>4, <1>5

LEMMA Whole ==
  ASSUME NEW p \in Seq(Byte)
  PROVE  /\ p \o FcsBytes(p) \in Seq(Byte)
         /\ Len(p \o FcsBytes(p)) = Len(p) + 2
         /\ SubSeq(p \o FcsBytes(p), 1, Len(p)) = p
<1>1. PICK lo, hi \in Byte : FcsBytes(p) = <<lo, hi>> BY FcsBytesAre
<1>2. <<lo, hi>> \in Seq(Byte) /\ Len(<<lo, hi>>) = 2 OBVIOUS
<1> DEFINE tail == <<lo, hi>>
<1> HIDE DEF tail
<1>3. /\ p \o tail \in Seq(Byte) /\ Len(p \o tail) = Len(p) + 2
      /\ SubSeq(p \o tail, 1, Len(p)) = p
  BY <1>2 DEF tail
<1> QED BY <1>1, <1>3 DEF tail

\* There is no flag inside the frame of any payload, and escaping no more
\* than doubles it (db_hdlc_encode): what the receiver needs to tell the end
\* of a frame, and a caller to size its buffer.
THEOREM FrameShape ==
  ASSUME NEW p \in Seq(Byte)
  PROVE  /\ Body(p) \in Seq(Byte \ {Flag})
         /\ Len(p) + 2 <= Len(Body(p)) /\ Len(Body(p)) <= 2 * (Len(p) + 2)
BY Whole, Stuffing DEF Body, StuffedWell, Plain

\* Decoding undoes encoding, for every payload: db_hdlc_decode gives back
\* what db_hdlc_encode was given, and its length.
THEOREM RoundTrip ==
  ASSUME NEW p \in Seq(Byte)
  PROVE  Intact(Decoded(Body(p)), p)
<1> DEFINE bytes == p \o FcsBytes(p)
<1>1. /\ bytes \in Seq(Byte) /\ Len(bytes) = Len(p) + 2 /\ Len(p) \in Nat
      /\ SubSeq(bytes, 1, Len(p)) = p
  BY Whole
<1>2. Unstuffed(Body(p)) = [escape |-> FALSE, output |-> bytes]
  BY <1>1, Stuffing DEF StuffedWell, Body
<1> HIDE DEF bytes
<1>3. Decoded(Body(p)) = [output |-> bytes, length |-> Len(bytes) - 2]
  BY <1>2 DEF Decoded
<1>4. Len(bytes) - 2 = Len(p) BY <1>1
<1> QED BY <1>1, <1>3, <1>4 DEF Intact

\* The sum over any payload and the check sequence that db_hdlc_encode gives
\* it is DB_HDLC_FCS_OK.
THEOREM CheckSequence ==
  ASSUME NEW p \in Seq(Byte)
  PROVE  FcsOf(p \o FcsBytes(p)) = FcsOk
<1>1. PICK lo, hi \in Byte :
        /\ FcsBytes(p) = <<lo, hi>>
        /\ Bits(lo) = ((0 .. 15) \ FcsOf(p)) \cap (0 .. 7)
        /\ Bits(hi) = ShiftRight((0 .. 15) \ FcsOf(p), 8)
  BY FcsBytesAre
<1> DEFINE front == Append(p, lo)
<1>2. front \in Seq(Byte) /\ p \o <<lo, hi>> = Append(front, hi) OBVIOUS
<1>3. FcsOf(p) \in Word /\ FcsOf(front) = UpdateFcs(FcsOf(p), lo) BY FcsIs
<1> HIDE DEF front
<1>4. FcsOf(p \o <<lo, hi>>) = UpdateFcs(FcsOf(front), hi) BY <1>2, FcsIs
<1> QED BY <1>1, <1>3, <1>4, Residue
-----------------------------------------------------------------------------
\* A frame

\* What has nothing to escape is sent as it is.
NothingToEscape(s) == \A i \in 1 .. Len(s) : s[i] \notin {Flag, Escape}

LEMMA SentAsItIs ==
  ASSUME NEW bytes \in Seq(Byte), NothingToEscape(bytes)
  PROVE  Stuffed(bytes) = bytes
<1> DEFINE T == {s \in Seq(Byte) : NothingToEscape(s) => Stuffed(s) = s}
<1>1. <<>> \in T
  <2>1. <<>> \in Seq(Byte) OBVIOUS
  <2>2. 0 \in Byte BY DEF Byte
  <2>3. Stuffed(<<>>) = <<>> BY <2>1, <2>2, StuffIs
  <2> QED BY <2>1, <2>3
<1>2. ASSUME NEW s \in Seq(Byte), NEW b \in Byte, s \in T
      PROVE  Append(s, b) \in T
  <2> DEFINE t == Append(s, b)
  <2>1. /\ t \in Seq(Byte) /\ Len(t) = Len(s) + 1 /\ t[Len(s) + 1] = b
        /\ Len(s) \in Nat /\ \A i \in 1 .. Len(s) : t[i] = s[i]
    OBVIOUS
  <2>2. Stuffed(t) = Stuffed(s) \o Escaped(b) BY StuffIs
  <2> HIDE DEF t
  <2>3. ASSUME NothingToEscape(t) PROVE Stuffed(t) = t
    <3>1. \A i \in 1 .. Len(t) : t[i] \notin {Flag, Escape}
      BY <2>3 DEF NothingToEscape
    <3>2. b \notin {Flag, Escape}
      <4>1. Len(s) + 1 \in 1 .. Len(t) BY <2>1
      <4> QED BY <2>1, <3>1, <4>1
    <3>3. \A i \in 1 .. Len(s) : s[i] \notin {Flag, Escape}
      <4>1. \A i \in 1 .. Len(s) : i \in 1 .. Len(t) BY <2>1
      <4> QED BY <2>1, <3>1, <4>1
    <3>4. Stuffed(s) = s BY <1>2, <3>3 DEF NothingToEscape
    <3>5. Escaped(b) = <<b>> BY <3>2 DEF Escaped
    <3>6. s \o <<b>> = t BY DEF t
    <3> QED BY <2>2, <3>4, <3>5, <3>6
  <2> QED BY <2>1, <2>3 DEF t
<1>3. Seq(Byte) \subseteq T
  <2> HIDE DEF T
  <2> QED BY <1>1, <1>2, AllSeqs
<1> QED BY <1>3

LEMMA Contents ==
  ASSUME NEW p \in Payloads
  PROVE  /\ p \in Seq(Byte)
         /\ Body(p) \in Seq(Byte \ {Flag})
         /\ Len(Body(p)) \in Nat /\ Len(Body(p)) >= 2
         /\ Len(Body(p)) <= BufferSize - 2
         /\ BufferSize \in Nat /\ BufferSize >= 4
<1>1. /\ p \in Seq(Byte) /\ Len(Body(p)) <= BufferSize - 2
      /\ BufferSize \in Nat
  BY FrameAssumption DEF FrameAssumption
<1>2. Body(p) \in Seq(Byte \ {Flag}) /\ Len(p) + 2 <= Len(Body(p))
  BY <1>1, FrameShape
<1>3. Len(p) \in Nat /\ Len(Body(p)) \in Nat BY <1>1, <1>2
<1> QED BY <1>1, <1>2, <1>3

LEMMA FrameIs ==
  ASSUME payload \in Payloads
  PROVE  /\ Len(Frame) = Size + 2
         /\ Frame[1] = Flag /\ Frame[Size + 2] = Flag
         /\ \A i \in 1 .. Size : Frame[i + 1] = Content[i]
<1>1. Content \in Seq(Byte \ {Flag}) /\ Size \in Nat
  BY Contents DEF Content, Size
<1>2. Frame = (<<Flag>> \o Content) \o <<Flag>> BY DEF Frame, Encoded, Content
<1>3. Content \in Seq(Byte) /\ Flag \in Byte /\ Len(Content) = Size
  BY <1>1 DEF Byte, Flag, Size
<1> HIDE DEF Content
<1>4. /\ <<Flag>> \in Seq(Byte) /\ Len(<<Flag>>) = 1 /\ <<Flag>>[1] = Flag
  BY <1>3
<1> DEFINE front == <<Flag>> \o Content
<1>5. /\ front \in Seq(Byte) /\ Len(front) = Size + 1
      /\ front[1] = Flag
      /\ \A i \in 1 .. Size : front[i + 1] = Content[i]
  BY <1>1, <1>3, <1>4
<1> HIDE DEF front
<1> DEFINE whole == front \o <<Flag>>
<1>6. /\ Len(whole) = Size + 2
      /\ \A i \in 1 .. Size + 1 : whole[i] = front[i]
      /\ whole[Size + 2] = Flag
  BY <1>1, <1>4, <1>5
<1>7. Frame = whole BY <1>2 DEF front
<1> HIDE DEF whole
<1> QED BY <1>1, <1>5, <1>6, <1>7

LEMMA Bytes ==
  ASSUME payload \in Payloads, at \in 0 .. Size + 2, at < Len(Frame)
  PROVE  /\ at \in 0 .. Size + 1
         /\ Frame[at + 1] \in Byte
         /\ at = 0 => Frame[at + 1] = Flag
         /\ at \in 1 .. Size =>
              Frame[at + 1] = Content[at] /\ Frame[at + 1] # Flag
         /\ at = Size + 1 => Frame[at + 1] = Flag
<1>1. /\ Content \in Seq(Byte \ {Flag}) /\ Size \in Nat
      /\ Len(Content) = Size
  BY Contents DEF Content, Size
<1>2. /\ Len(Frame) = Size + 2
      /\ Frame[1] = Flag /\ Frame[Size + 2] = Flag
      /\ \A i \in 1 .. Size : Frame[i + 1] = Content[i]
  BY FrameIs
<1>3. at \in 0 .. Size + 1 BY <1>1, <1>2
<1>4. Flag \in Byte BY DEF Flag, Byte
<1> HIDE DEF Content, Size, Frame
<1>5. CASE at = 0 BY <1>1, <1>2, <1>4, <1>5
<1>6. CASE at \in 1 .. Size
  <2>1. Content[at] \in Byte \ {Flag} BY <1>1, <1>6
  <2> QED BY <1>1, <1>2, <1>6, <2>1
<1>7. CASE at = Size + 1
  <2>1. at + 1 = Size + 2 BY <1>1, <1>7
  <2> QED BY <1>1, <1>2, <1>4, <1>7, <2>1
<1> QED BY <1>1, <1>3, <1>5, <1>6, <1>7
-----------------------------------------------------------------------------
\* The receiver

LEMMA ReceivedType ==
  ASSUME NEW r \in Rx, Len(r.buffer) < BufferSize, NEW byte \in Byte
  PROVE  /\ Received(r, byte) \in Rx
         /\ Len(Received(r, byte).buffer) < BufferSize
<1>1. BufferSize \in Nat \ {0} BY FrameAssumption DEF FrameAssumption
<1>2. /\ r.state \in States /\ r.buffer \in Seq(Byte) /\ r.fcs \in Word
      /\ r = [state |-> r.state, buffer |-> r.buffer, fcs |-> r.fcs]
  BY DEF Rx
<1>3. UpdateFcs(r.fcs, byte) \in Word BY <1>2, UpdateType
<1>4. FcsInit \in Word BY DEF FcsInit, Word
<1>5. /\ Append(r.buffer, byte) \in Seq(Byte)
      /\ Len(Append(r.buffer, byte)) = Len(r.buffer) + 1
      /\ Len(r.buffer) \in Nat
  BY <1>2
<1>6. \/ Received(r, byte) = r
      \/ Received(r, byte) =
           [state |-> "RECEIVING", buffer |-> <<>>, fcs |-> FcsInit]
      \/ Received(r, byte) =
           [state |-> "READY", buffer |-> r.buffer, fcs |-> r.fcs]
      \/ Received(r, byte) =
           [state |-> "ERROR", buffer |-> r.buffer, fcs |-> r.fcs]
      \/ /\ ~(Len(r.buffer) >= BufferSize - 1)
         /\ Received(r, byte) =
              [state |-> r.state, buffer |-> Append(r.buffer, byte),
               fcs |-> UpdateFcs(r.fcs, byte)]
  BY <1>2 DEF Received
<1>7. {"RECEIVING", "READY", "ERROR"} \subseteq States BY DEF States
<1> DEFINE new == Received(r, byte)
<1>8. CASE new = r BY <1>8
<1>9. CASE new = [state |-> "RECEIVING", buffer |-> <<>>, fcs |-> FcsInit]
  BY <1>1, <1>4, <1>7, <1>9 DEF Rx
<1>10. CASE new = [state |-> "READY", buffer |-> r.buffer, fcs |-> r.fcs]
  BY <1>2, <1>7, <1>10 DEF Rx
<1>11. CASE new = [state |-> "ERROR", buffer |-> r.buffer, fcs |-> r.fcs]
  BY <1>2, <1>7, <1>11 DEF Rx
<1>12. CASE /\ ~(Len(r.buffer) >= BufferSize - 1)
            /\ new = [state |-> r.state, buffer |-> Append(r.buffer, byte),
                      fcs |-> UpdateFcs(r.fcs, byte)]
  <2>1. new \in Rx BY <1>2, <1>3, <1>5, <1>12 DEF Rx
  <2>2. new.buffer = Append(r.buffer, byte) BY <1>12
  <2> QED BY <1>1, <1>5, <1>12, <2>1, <2>2
<1> QED BY <1>6, <1>8, <1>9, <1>10, <1>11, <1>12

LEMMA ReceivedSummed ==
  ASSUME NEW byte \in Byte, rx \in Rx, Summed, rx' = Received(rx, byte)
  PROVE  Summed'
<1>1. rx.buffer \in Seq(Byte) /\ FcsOf(<<>>) = FcsInit
  BY FcsIs DEF Rx
<1>2. FcsOf(Append(rx.buffer, byte)) = UpdateFcs(FcsOf(rx.buffer), byte)
  BY <1>1, FcsIs
<1>3. CASE rx' = rx BY <1>3 DEF Summed
<1>4. CASE rx' = [state |-> "RECEIVING", buffer |-> <<>>, fcs |-> FcsInit]
  BY <1>1, <1>4 DEF Summed
<1>5. CASE rx.state = "RECEIVING" /\ rx' = [rx EXCEPT !.state = "READY"]
  BY <1>5 DEF Summed, Rx
<1>6. CASE rx' = [rx EXCEPT !.state = "ERROR"] BY <1>6 DEF Summed, Rx
<1>7. CASE /\ rx.state = "RECEIVING"
           /\ rx' = [rx EXCEPT !.buffer = Append(@, byte),
                               !.fcs = UpdateFcs(@, byte)]
  BY <1>2, <1>7 DEF Summed, Rx
<1> QED BY <1>3, <1>4, <1>5, <1>6, <1>7 DEF Received

LEMMA Starts ==
  ASSUME NEW r \in Rx, r.state # "RECEIVING"
  PROVE  /\ Received(r, Flag).state = "RECEIVING"
         /\ Received(r, Flag).buffer = <<>>
         /\ \A byte \in Byte \ {Flag} : Received(r, byte) = r
BY DEF Received

LEMMA Ends ==
  ASSUME NEW r \in Rx, r.state = "RECEIVING", r.buffer # <<>>
  PROVE  /\ Received(r, Flag).state = "READY"
         /\ Received(r, Flag).buffer = r.buffer
BY DEF Received, Rx

LEMMA Stores ==
  ASSUME NEW r \in Rx, r.state = "RECEIVING", NEW byte \in Byte,
         byte # Flag \/ r.buffer = <<>>, BufferSize \in Nat,
         Len(r.buffer) < BufferSize - 1
  PROVE  /\ Received(r, byte).state = "RECEIVING"
         /\ Received(r, byte).buffer = Append(r.buffer, byte)
<1>1. r.buffer \in Seq(Byte) /\ Len(r.buffer) \in Nat BY DEF Rx
<1>2. Received(r, byte) =
        [r EXCEPT !.buffer = Append(@, byte), !.fcs = UpdateFcs(@, byte)]
  BY <1>1 DEF Received
<1> QED BY <1>2 DEF Rx
-----------------------------------------------------------------------------
\* The invariant

LEMMA InitInv == Init => IInv
<1> SUFFICES ASSUME Init PROVE IInv OBVIOUS
<1>1. payload \in Payloads /\ at = 0 /\ clean = 3 /\ noise = 0
      /\ rx = [state |-> "IDLE", buffer |-> <<>>, fcs |-> {}]
  BY DEF Init
<1>2. Size \in Nat /\ BufferSize \in Nat /\ BufferSize >= 4
  BY <1>1, Contents DEF Size, Content
<1>3. rx \in Rx /\ Len(rx.buffer) < BufferSize
  BY <1>1, <1>2 DEF Rx, States, Word
<1>4. InStep BY <1>1 DEF InStep
<1>5. MaxNoise \in Nat BY FrameAssumption DEF FrameAssumption
<1> HIDE DEF Size
<1>6. Summed BY <1>1 DEF Summed
<1> QED BY <1>1, <1>2, <1>3, <1>4, <1>5, <1>6 DEF IInv, Sync

\* What every step keeps of the frame that is being sent
LEMMA SameFrame ==
  ASSUME UNCHANGED payload
  PROVE  Content' = Content /\ Size' = Size /\ Frame' = Frame
BY DEF Content, Size, Frame

LEMMA SendInv ==
  ASSUME IInv, NEW p \in Payloads, Send(p)
  PROVE  IInv'
<1>1. /\ at = Len(Frame) /\ payload' = p /\ at' = 0
      /\ clean' = IF clean < 3 THEN clean + 1 ELSE 3
      /\ UNCHANGED <<rx, out, noise>>
  BY DEF Send
<1>2. /\ payload \in Payloads /\ clean \in 0 .. 3 /\ Sync
      /\ noise \in 0 .. MaxNoise /\ rx \in Rx
      /\ Len(rx.buffer) < BufferSize
  BY DEF IInv
<1>3. at = Size + 2 /\ Size \in Nat
  BY <1>1, <1>2, FrameIs, Contents DEF Size, Content
<1>4. Size' \in Nat BY <1>1, Contents DEF Size, Content
<1>5. clean' \in 1 .. 3 BY <1>1, <1>2
<1>6. Sync'
  <2>1. CASE clean = 0
    <3>1. InStep' \/ Ahead' \/ Between'
      BY <1>1 DEF InStep, Ahead, Between
    <3> QED BY <1>1, <2>1, <3>1 DEF Sync
  <2>2. CASE clean >= 1
    <3>1. CASE InStep
      <4>1. rx.state # "RECEIVING" BY <1>3, <3>1 DEF InStep
      <4> QED BY <1>1, <4>1 DEF Sync, InStep
    <3>2. CASE Ahead
      <4>1. rx.state # "RECEIVING" BY <1>3, <3>2 DEF Ahead
      <4> QED BY <1>1, <4>1 DEF Sync, InStep
    <3>3. CASE clean <= 1 /\ Between
      <4>1. rx.state = "RECEIVING" /\ rx.buffer = <<>>
        BY <1>3, <3>3 DEF Between
      <4>2. clean' <= 2 BY <1>1, <1>2, <3>3
      <4> QED BY <1>1, <4>1, <4>2 DEF Sync, Ahead
    <3> QED BY <1>2, <2>2, <3>1, <3>2, <3>3 DEF Sync
  <2> QED BY <1>2, <2>1, <2>2
<1> HIDE DEF Size
<1>7. clean' \in 0 .. 3 BY <1>5
<1>8. at' \in 0 .. Size' + 2
  <2> DEFINE s == Size'
  <2>1. s \in Nat BY <1>4
  <2> HIDE DEF s
  <2>2. at' \in 0 .. s + 2 BY <1>1, <2>1
  <2> QED BY <2>2 DEF s
<1>9. Summed' BY <1>1 DEF IInv, Summed
<1> QED BY <1>1, <1>2, <1>6, <1>7, <1>8, <1>9 DEF IInv

LEMMA DeliverSync ==
  ASSUME IInv, Deliver
  PROVE  Sync'
<1> DEFINE byte == Frame[at + 1]
<1>1. /\ rx.state # "READY" /\ at < Len(Frame) /\ at' = at + 1
      /\ out' = IF at = 0 THEN <<>> ELSE out
      /\ rx' = Received(rx, byte)
      /\ UNCHANGED <<payload, clean, noise>>
  BY DEF Deliver, Leaves
<1>2. /\ payload \in Payloads /\ Sync /\ rx \in Rx
      /\ at \in 0 .. Size + 2
  BY DEF IInv
<1>3. /\ Content \in Seq(Byte \ {Flag}) /\ Size \in Nat /\ Size >= 2
      /\ Size <= BufferSize - 2 /\ Len(Content) = Size
      /\ BufferSize \in Nat
  BY <1>2, Contents DEF Size, Content
<1>4. /\ at \in 0 .. Size + 1 /\ byte \in Byte
      /\ at = 0 => byte = Flag
      /\ at \in 1 .. Size => byte = Content[at] /\ byte # Flag
      /\ at = Size + 1 => byte = Flag
  BY <1>1, <1>2, Bytes
<1>5. Content' = Content /\ Size' = Size BY <1>1, SameFrame
<1> HIDE DEF byte, Content, Size
<1>6. CASE InStep
  <2>1. CASE at = 0
    <3>1. rx.state # "RECEIVING" BY <1>3, <1>6, <2>1 DEF InStep
    <3>2. rx'.state = "RECEIVING" /\ rx'.buffer = <<>>
      BY <1>1, <1>2, <1>4, <2>1, <3>1, Starts
    <3>3. SubSeq(Content, 1, 0) = <<>> BY <1>3
    <3>4. at' = 1 /\ at' - 1 = 0 /\ out' = <<>> BY <1>1, <2>1
    <3> QED BY <1>3, <1>5, <3>2, <3>3, <3>4 DEF InStep, Sync
  <2>2. CASE at \in 1 .. Size + 1
    <3>1. /\ rx.state = "RECEIVING" /\ rx.buffer = SubSeq(Content, 1, at - 1)
          /\ out = <<>>
      BY <1>3, <1>6, <2>2 DEF InStep
    <3>2. Len(rx.buffer) = at - 1 BY <1>3, <2>2, <3>1
    <3>3. out' = <<>> BY <1>1, <2>2, <3>1
    <3>4. CASE at \in 1 .. Size
      <4>1. /\ rx'.state = "RECEIVING"
            /\ rx'.buffer = Append(rx.buffer, byte)
        <5>1. Len(rx.buffer) < BufferSize - 1 BY <1>3, <3>2, <3>4
        <5>2. byte \in Byte /\ byte # Flag BY <1>4, <3>4
        <5> QED BY <1>1, <1>2, <1>3, <3>1, <5>1, <5>2, Stores
      <4>2. Append(SubSeq(Content, 1, at - 1), Content[at])
              = SubSeq(Content, 1, at)
        BY <1>3, <3>4
      <4>3. rx'.buffer = SubSeq(Content, 1, at' - 1)
        BY <1>1, <1>4, <3>1, <3>4, <4>1, <4>2
      <4>4. at' \in 1 .. Size + 1 BY <1>1, <1>3, <3>4
      <4> QED BY <1>5, <3>3, <4>1, <4>3, <4>4 DEF InStep, Sync
    <3>5. CASE at = Size + 1
      <4>1. rx.buffer = Content
        <5>1. SubSeq(Content, 1, Size) = Content BY <1>3
        <5> QED BY <1>3, <3>1, <3>5, <5>1
      <4>2. rx.buffer # <<>> BY <1>3, <3>2, <3>5
      <4>3. rx'.state = "READY" /\ rx'.buffer = Content
        BY <1>1, <1>2, <1>4, <3>1, <3>5, <4>1, <4>2, Ends
      <4> QED BY <1>1, <1>3, <1>5, <3>3, <3>5, <4>3 DEF InStep, Sync
    <3> QED BY <1>3, <2>2, <3>4, <3>5
  <2> QED BY <1>3, <1>4, <2>1, <2>2
<1>7. CASE clean <= 2 /\ Ahead
  <2>1. rx.state = "RECEIVING" /\ Len(rx.buffer) = at
    BY <1>3, <1>4, <1>7 DEF Ahead
  <2>2. CASE at \in 0 .. Size
    <3>1. byte # Flag \/ rx.buffer = <<>>
      BY <1>3, <1>4, <1>7, <2>2 DEF Ahead
    <3>2. rx'.state = "RECEIVING" /\ rx'.buffer = Append(rx.buffer, byte)
      BY <1>1, <1>2, <1>3, <1>4, <2>1, <2>2, <3>1, Stores
    <3>3. Len(rx'.buffer) = at + 1
      <4>1. rx.buffer \in Seq(Byte) BY <1>2 DEF Rx
      <4> QED BY <1>4, <2>1, <3>2, <4>1
    <3>4. at' \in 1 .. Size + 1 /\ Len(rx'.buffer) = at'
      BY <1>1, <1>3, <2>2, <3>3
    <3> QED BY <1>1, <1>5, <1>7, <3>2, <3>4 DEF Ahead, Sync
  <2>3. CASE at = Size + 1
    <3>1. rx.buffer # <<>> BY <1>3, <2>1, <2>3
    <3>2. rx'.state = "READY"
      BY <1>1, <1>2, <1>4, <2>1, <2>3, <3>1, Ends
    <3> QED BY <1>1, <1>3, <1>5, <1>7, <2>3, <3>2 DEF Ahead, Sync
  <2> QED BY <1>3, <1>4, <2>2, <2>3
<1>8. CASE clean <= 1 /\ Between
  <2>1. CASE at = 0
    <3>1. rx.state = "RECEIVING" /\ rx.buffer # <<>>
      BY <1>3, <1>8, <2>1 DEF Between
    <3>2. rx'.state = "READY" BY <1>1, <1>2, <1>4, <2>1, <3>1, Ends
    <3> QED BY <1>1, <1>3, <1>5, <1>8, <2>1, <3>2 DEF Between, Sync
  <2>2. CASE at \in 1 .. Size + 1
    <3>1. rx.state = "IDLE" BY <1>1, <1>3, <1>8, <2>2 DEF Between
    <3>2. CASE at \in 1 .. Size
      <4>1. rx' = rx BY <1>1, <1>2, <1>4, <3>1, <3>2, Starts
      <4> QED BY <1>1, <1>3, <1>5, <1>8, <3>1, <3>2, <4>1 DEF Between, Sync
    <3>3. CASE at = Size + 1
      <4>1. rx'.state = "RECEIVING" /\ rx'.buffer = <<>>
        BY <1>1, <1>2, <1>4, <3>1, <3>3, Starts
      <4> QED BY <1>1, <1>3, <1>5, <1>8, <3>3, <4>1 DEF Between, Sync
    <3> QED BY <1>3, <2>2, <3>2, <3>3
  <2> QED BY <1>3, <1>4, <2>1, <2>2
<1>9. CASE clean = 0 BY <1>1, <1>9 DEF Sync
<1>10. clean \in 0 .. 3 BY DEF IInv
<1> QED BY <1>2, <1>6, <1>7, <1>8, <1>9, <1>10 DEF Sync

LEMMA DeliverInv ==
  ASSUME IInv, Deliver
  PROVE  IInv'
<1>1. /\ at < Len(Frame) /\ at' = at + 1
      /\ rx' = Received(rx, Frame[at + 1])
      /\ UNCHANGED <<payload, clean, noise>>
  BY DEF Deliver, Leaves
<1>2. /\ payload \in Payloads /\ rx \in Rx /\ Len(rx.buffer) < BufferSize
      /\ at \in 0 .. Size + 2
  BY DEF IInv
<1>3. Size \in Nat BY <1>2, Contents DEF Size, Content
<1>4. at \in 0 .. Size + 1 /\ Frame[at + 1] \in Byte BY <1>1, <1>2, Bytes
<1>5. Size' = Size BY <1>1, SameFrame
<1>6. rx' \in Rx /\ Len(rx'.buffer) < BufferSize
  BY <1>1, <1>2, <1>4, ReceivedType
<1>7. Sync' BY DeliverSync
<1> HIDE DEF Size
<1>8. at' \in 0 .. Size' + 2 BY <1>1, <1>3, <1>4, <1>5
<1>9. Summed' BY <1>1, <1>2, <1>4, ReceivedSummed DEF IInv
<1> QED BY <1>1, <1>6, <1>7, <1>8, <1>9 DEF IInv

\* A disturbance only has to leave a receiver that is one.
LEMMA DisturbedInv ==
  ASSUME IInv, Disturbed, UNCHANGED payload,
         at' = at \/ (at < Len(Frame) /\ at' = at + 1),
         \/ rx' = rx
         \/ \E byte \in Byte : rx' = Received(rx, byte)
  PROVE  IInv'
<1>1. /\ payload \in Payloads /\ rx \in Rx /\ Len(rx.buffer) < BufferSize
      /\ at \in 0 .. Size + 2 /\ noise \in 0 .. MaxNoise
  BY DEF IInv
<1>2. Size \in Nat BY <1>1, Contents DEF Size, Content
<1>3. Len(Frame) = Size + 2 BY <1>1, FrameIs
<1>4. Size' = Size BY SameFrame
<1>5. rx' \in Rx /\ Len(rx'.buffer) < BufferSize BY <1>1, ReceivedType
<1>6. MaxNoise \in Nat BY FrameAssumption DEF FrameAssumption
<1>7. clean' = 0 /\ noise' \in 0 .. MaxNoise BY <1>1, <1>6 DEF Disturbed
<1> HIDE DEF Size, Frame
<1>8. at' \in 0 .. Size' + 2 BY <1>1, <1>2, <1>3, <1>4
<1>9. Summed'
  <2>1. Summed BY DEF IInv
  <2>2. CASE rx' = rx BY <2>1, <2>2 DEF Summed
  <2>3. CASE \E byte \in Byte : rx' = Received(rx, byte)
    BY <1>1, <2>1, <2>3, ReceivedSummed
  <2> QED BY <2>2, <2>3
<1> QED BY <1>1, <1>5, <1>7, <1>8, <1>9 DEF IInv, Sync

LEMMA DecodeInv ==
  ASSUME IInv, Decode
  PROVE  IInv'
<1>1. /\ rx.state = "READY" /\ rx' = [rx EXCEPT !.state = "IDLE"]
      /\ out' = Append(out, Decoded(rx.buffer))
      /\ UNCHANGED <<payload, at, clean, noise>>
  BY DEF Decode
<1>2. payload \in Payloads /\ rx \in Rx /\ Sync BY DEF IInv
<1>3. rx' \in Rx /\ rx'.state = "IDLE" /\ rx'.buffer = rx.buffer
  BY <1>1, <1>2 DEF Rx, States
<1>4. Content' = Content /\ Size' = Size BY <1>1, SameFrame
<1>5. Size \in Nat BY <1>2, Contents DEF Size, Content
<1> HIDE DEF Content, Size
<1>6. InStep => InStep'
  <2>1. Append(<<>>, Decoded(Content)) = <<Decoded(Content)>> OBVIOUS
  <2>2. SUFFICES ASSUME InStep PROVE InStep' OBVIOUS
  <2>3. CASE at = 0 BY <1>1, <1>3, <2>3 DEF InStep
  <2>4. CASE at = Size + 2 /\ rx.buffer = Content /\ out = <<>>
    <3>1. out' = <<Decoded(Content)>> BY <1>1, <2>1, <2>4
    <3> QED BY <1>1, <1>3, <1>4, <2>4, <3>1 DEF InStep
  <2> QED BY <1>1, <2>2, <2>3, <2>4 DEF InStep
<1>7. Ahead => Ahead' BY <1>1, <1>3, <1>4, <1>5 DEF Ahead
<1>8. Between => Between' BY <1>1, <1>3, <1>4, <1>5 DEF Between
<1>9. Sync' BY <1>1, <1>2, <1>6, <1>7, <1>8 DEF Sync
<1>10. Summed' BY <1>3 DEF Summed
<1> QED BY <1>1, <1>3, <1>4, <1>9, <1>10 DEF IInv

LEMMA NextInv == IInv /\ [Next]_vars => IInv'
<1> SUFFICES ASSUME IInv, [Next]_vars PROVE IInv' OBVIOUS
<1>1. ASSUME NEW p \in Payloads, Send(p) PROVE IInv' BY <1>1, SendInv
<1>2. CASE Deliver BY <1>2, DeliverInv
<1>3. CASE Overrun
  <2>1. at < Len(Frame) /\ at' = at + 1 /\ UNCHANGED payload /\ Disturbed
        /\ rx' = Received(rx, Frame[at + 1])
    BY <1>3 DEF Overrun, Leaves
  <2>2. Frame[at + 1] \in Byte BY <2>1, Bytes DEF IInv
  <2> QED BY <2>1, <2>2, DisturbedInv
<1>4. CASE Lose BY <1>4, DisturbedInv DEF Lose, Leaves
<1>5. ASSUME NEW byte \in Noise, Change(byte) \/ Insert(byte) PROVE IInv'
  <2>1. byte \in Byte BY FrameAssumption DEF FrameAssumption
  <2>2. /\ Disturbed /\ UNCHANGED payload /\ rx' = Received(rx, byte)
        /\ at' = at \/ (at < Len(Frame) /\ at' = at + 1)
    BY <1>5 DEF Change, Insert, Leaves
  <2> QED BY <2>1, <2>2, DisturbedInv
<1>6. CASE Decode BY <1>6, DecodeInv
<1>7. CASE UNCHANGED vars
  <2>1. Content' = Content /\ Size' = Size BY <1>7, SameFrame DEF vars
  <2> HIDE DEF Content, Size
  <2>2. Summed' BY <1>7 DEF vars, IInv, Summed
  <2> QED BY <1>7, <2>1, <2>2 DEF vars, IInv, Sync, InStep, Ahead, Between
<1> QED BY <1>1, <1>2, <1>3, <1>4, <1>5, <1>6, <1>7 DEF Next
-----------------------------------------------------------------------------
\* The theorems

\* How the receiver stands to the frame on the line, after any disturbance
THEOREM Invariant == Spec => []IInv
<1>1. Init => IInv BY InitInv
<1>2. IInv /\ [Next]_vars => IInv' BY NextInv
<1> QED BY <1>1, <1>2, PTL DEF Spec

\* Every variable keeps its type and the buffer is never written past its
\* end, for every noise and every size of the buffer.
THEOREM TypeCorrect == Spec => []TypeOK
<1>1. IInv => TypeOK
  <2> SUFFICES ASSUME IInv PROVE TypeOK OBVIOUS
  <2>1. Len(Frame) = Size + 2 BY FrameIs DEF IInv
  <2> HIDE DEF Frame, Size
  <2> QED BY <2>1 DEF IInv, TypeOK, Rx
<1> QED BY <1>1, Invariant, PTL

\* Of the frames that follow a disturbance the third at the latest is
\* decoded, once and unchanged, whatever its payload.
THEOREM ThirdIntactCorrect == Spec => []ThirdIntact
<1>1. IInv => ThirdIntact
  <2> SUFFICES ASSUME IInv, at = Len(Frame), clean = 3, rx.state # "READY"
               PROVE  Len(out) = 1 /\ Intact(out[1], payload)
    BY DEF ThirdIntact
  <2>1. payload \in Payloads /\ Sync BY DEF IInv
  <2>2. at = Size + 2 /\ Size \in Nat
    BY <2>1, FrameIs, Contents DEF Size, Content
  <2>3. out = <<Decoded(Content)>>
    <3> HIDE DEF Size, Content, Frame
    <3> QED BY <2>1, <2>2 DEF Sync, InStep
  <2>4. Intact(Decoded(Content), payload)
    BY <2>1, Contents, RoundTrip DEF Content
  <2> QED BY <2>3, <2>4
<1> QED BY <1>1, Invariant, PTL

\* An undisturbed frame that had nothing to escape has the sum the receiver
\* compares with when it is ready.  (The receiver's sum is over the bytes as
\* they were received and the sender's over those before they were escaped:
\* for other frames the two have nothing to do with each other.)
PlainFramePasses ==
  /\ at = Len(Frame) /\ clean = 3 /\ rx.state = "READY"
  /\ NothingToEscape(payload \o FcsBytes(payload))
  => rx.fcs = FcsOk

THEOREM PlainFramePassesCorrect == Spec => []PlainFramePasses
<1>1. IInv => PlainFramePasses
  <2> DEFINE bytes == payload \o FcsBytes(payload)
  <2> SUFFICES ASSUME IInv, at = Len(Frame), clean = 3, rx.state = "READY",
                      NothingToEscape(bytes)
               PROVE  rx.fcs = FcsOk
    BY DEF PlainFramePasses
  <2>1. payload \in Payloads /\ Sync /\ rx.fcs = FcsOf(rx.buffer)
    BY DEF IInv, Summed
  <2>2. payload \in Seq(Byte) BY <2>1, Contents
  <2>3. at = Size + 2 /\ Size \in Nat
    BY <2>1, FrameIs, Contents DEF Size, Content
  <2>4. rx.buffer = Content
    <3> HIDE DEF Size, Content, Frame
    <3> QED BY <2>1, <2>3 DEF Sync, InStep
  <2>5. Content = bytes
    <3>1. bytes \in Seq(Byte) BY <2>2, Whole
    <3>2. Stuffed(bytes) = bytes BY <3>1, SentAsItIs
    <3> QED BY <3>2 DEF Content, Body
  <2>6. FcsOf(bytes) = FcsOk BY <2>2, CheckSequence
  <2> QED BY <2>1, <2>4, <2>5, <2>6
<1> QED BY <1>1, Invariant, PTL
=============================================================================
