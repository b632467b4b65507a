----------------------------- MODULE PCToolProofs -----------------------------
(***************************************************************************)
(* The PC tool and its line to the device, for every number of requests,   *)
(* sessions, changes of mode and frames lost or late: the frame reader     *)
(* stays inside its buffer, a fault of the wire costs it two frames at     *)
(* most, the check sum refuses every frame with one wrong byte, the books  *)
(* of the tool's client agree, the mode it shows is the device's, no       *)
(* answer is taken for another.  And its main window, for every sample and *)
(* button: the plots stay paired, the figures are theirs, what is told is  *)
(* what is shown.  The gains of both ends agree as their numbers allow.    *)
(***************************************************************************)
EXTENDS GCommBase, DeviceLink, MainWindow, PIDGains, ListProofs, SequenceTheorems,
        FiniteSetTheorems, TLAPS

(***************************************************************************)
(* The frame reader never writes outside its buffer: for every size of the *)
(* buffer, whatever is sent and whatever the wire does to it.              *)
(***************************************************************************)

\* Nothing is assumed of the wire: IsDigit is all that the reader knows of a
\* character it stores.
ReaderInv ==
  /\ m_state \in States
  /\ m_buf \in Seq(0..255)
  /\ m_half \in 0..15
  /\ WritesInBounds

\* A digit is worth 0 to 15, in either case of letters.
LEMMA DigitRange ==
  ASSUME NEW ch, IsDigit(ch)
  PROVE  P_char_to_digit(ch) \in 0..15
BY DEF IsDigit, P_char_to_digit

LEMMA InitReader == CommInit => ReaderInv
BY GCommBaseAssumption, EmptySeq
DEF CommInit, ReaderInv, WritesInBounds, States, GCommBaseAssumption

\* A character takes the reader from one state that is in bounds to another.
LEMMA CharacterReader ==
  ASSUME ReaderInv, P_fsm
  PROVE  ReaderInv'
<1> DEFINE ch == Head(wire).ch
<1>1. GCOMMBASE_BUF_SIZE \in Nat
  BY GCommBaseAssumption DEF GCommBaseAssumption
<1>2. ASSUME Fails PROVE ReaderInv'
  BY <1>1, <1>2, EmptySeq DEF Fails, Goes, ReaderInv, WritesInBounds, States
<1>3. CASE m_state = "S0_AWAIT" /\ Await(ch)
  <2>1. CASE ch = Colon
    BY <1>1, <1>3, <2>1, EmptySeq DEF Await, Goes, ReaderInv, WritesInBounds, States
  <2>2. CASE ch # Colon
    BY <1>3, <2>2 DEF Await, reader, ReaderInv, WritesInBounds
  <2>3. QED
    BY <2>1, <2>2
<1>4. CASE m_state = "S1_GET_HI" /\ GetHi(ch)
  <2>1. CASE Fails
    BY <2>1, <1>2
  <2>2. CASE Succeeds
    BY <2>2 DEF Succeeds, ReaderInv, WritesInBounds, States
  <2>3. CASE ~Full /\ IsDigit(ch) /\ Goes("S2_GET_LO", m_buf, P_char_to_digit(ch))
    BY <1>1, <2>3, DigitRange DEF Goes, Full, ReaderInv, WritesInBounds, States
  <2>4. QED
    BY <1>4, <2>1, <2>2, <2>3 DEF GetHi
<1>5. CASE m_state = "S2_GET_LO" /\ GetLo(ch)
  <2>1. CASE Fails
    BY <2>1, <1>2
  <2>2. CASE IsDigit(ch) /\ Goes("S1_GET_HI",
                                 Append(m_buf, 16 * m_half + P_char_to_digit(ch)), 0)
    <3>1. 16 * m_half + P_char_to_digit(ch) \in 0..255
      <4>1. P_char_to_digit(ch) \in 0..15
        BY <2>2, DigitRange
      <4>2. \A a, b \in 0..15 : 16 * a + b \in 0..255
        OBVIOUS
      <4>3. QED
        BY <4>1, <4>2 DEF ReaderInv
    <3>2. /\ m_buf' \in Seq(0..255)
          /\ Len(m_buf') = Len(m_buf) + 1
      BY <2>2, <3>1, SMTT(30) DEF Goes, ReaderInv
    <3>3. Len(m_buf) \in Nat /\ Len(m_buf) < GCOMMBASE_BUF_SIZE
      BY <1>5 DEF ReaderInv, WritesInBounds
    <3>4. QED
      BY <1>1, <2>2, <3>2, <3>3, SMTT(30) DEF Goes, ReaderInv, WritesInBounds, States
  <2>3. QED
    BY <1>5, <2>1, <2>2 DEF GetLo
<1>6. QED
  BY <1>3, <1>4, <1>5 DEF P_fsm

\* The writer and the wire leave the reader alone.
LEMMA StepReader == ReaderInv /\ [CommNext]_commVars => ReaderInv'
<1> SUFFICES ASSUME ReaderInv, [CommNext]_commVars PROVE ReaderInv'
  OBVIOUS
<1>1. CASE P_fsm
  BY <1>1, CharacterReader
<1>2. CASE UNCHANGED reader
  BY <1>2 DEF reader, ReaderInv, WritesInBounds
<1>3. QED
  BY <1>1, <1>2 DEF CommNext, commVars, writeFrame, Drop, Change, Stray

\* Memory safety of the reader: P_fsm writes inside m_buf, always.
THEOREM ReaderInBounds == CommSpec => []WritesInBounds
<1>1. ReaderInv => WritesInBounds
  BY DEF ReaderInv
<1>2. QED
  BY <1>1, InitReader, StepReader, PTL DEF CommSpec

-----------------------------------------------------------------------------
(***************************************************************************)
(* A fault costs two frames at most.  The reader is followed character by  *)
(* character through a frame no fault has touched: what it has stored is   *)
(* the part of the frame that is no longer on the wire.  Of the check sum  *)
(* no more is needed than that it is two bytes.                            *)
(***************************************************************************)

LEMMA WeightIs ==
  /\ Weight[0 + 1] = 1 /\ Weight[1 + 1] = 2 /\ Weight[2 + 1] = 4 /\ Weight[3 + 1] = 8
  /\ Weight[4 + 1] = 16 /\ Weight[5 + 1] = 32 /\ Weight[6 + 1] = 64 /\ Weight[7 + 1] = 128
BY DEF Weight

LEMMA FromBitsIs ==
  ASSUME NEW bits
  PROVE  /\ FromBits(bits) =
              (IF 7 \in bits THEN 128 ELSE 0) + (IF 6 \in bits THEN 64 ELSE 0)
                + (IF 5 \in bits THEN 32 ELSE 0) + (IF 4 \in bits THEN 16 ELSE 0)
                + (IF 3 \in bits THEN 8 ELSE 0) + (IF 2 \in bits THEN 4 ELSE 0)
                + (IF 1 \in bits THEN 2 ELSE 0) + (IF 0 \in bits THEN 1 ELSE 0)
         /\ FromBits(bits) \in 0..255
<1> DEFINE bit(b) == IF b \in bits THEN Weight[b + 1] ELSE 0
<1>1. FromBits(bits) = bit(7) + bit(6) + bit(5) + bit(4) + bit(3) + bit(2) + bit(1) + bit(0)
  BY DEF FromBits
<1>2. /\ bit(7) = (IF 7 \in bits THEN 128 ELSE 0) /\ bit(6) = (IF 6 \in bits THEN 64 ELSE 0)
      /\ bit(5) = (IF 5 \in bits THEN 32 ELSE 0) /\ bit(4) = (IF 4 \in bits THEN 16 ELSE 0)
      /\ bit(3) = (IF 3 \in bits THEN 8 ELSE 0) /\ bit(2) = (IF 2 \in bits THEN 4 ELSE 0)
      /\ bit(1) = (IF 1 \in bits THEN 2 ELSE 0) /\ bit(0) = (IF 0 \in bits THEN 1 ELSE 0)
  BY WeightIs
<1> HIDE DEF bit
<1> QED
  BY <1>1, <1>2

LEMMA SummedIs ==
  ASSUME NEW p \in Seq(0..255)
  PROVE  /\ Summed(p) \in Seq(0..255) /\ Len(Summed(p)) = Len(p) + 2 /\ Len(p) \in Nat
         /\ SubSeq(Summed(p), 1, Len(Summed(p)) - CRC_SIZE) = p
         /\ SubSeq(Summed(p), Len(Summed(p)) - 1, Len(Summed(p))) = P_crc(p)
<1>1. \A bits : FromBits(bits) \in 0..255
  BY FromBitsIs
<1>2. PICK hi \in 0..255, lo \in 0..255 : P_crc(p) = <<hi, lo>>
  BY <1>1 DEF P_crc
<1> DEFINE s == Summed(p)
           c == P_crc(p)
<1>3. c \in Seq(0..255) /\ Len(c) = 2 /\ c[1] = hi /\ c[2] = lo
  BY <1>2
<1>4. s = p \o c
  BY DEF Summed
<1> HIDE DEF s, c
<1>5. /\ s \in Seq(0..255) /\ Len(s) = Len(p) + 2 /\ Len(p) \in Nat
      /\ \A k \in 1..Len(p) : s[k] = p[k]
      /\ s[Len(p) + 1] = c[1] /\ s[Len(p) + 2] = c[2]
  <2> DEFINE B == 0..255
  <2>4. p \in Seq(B) /\ c \in Seq(B)
    BY <1>3
  <2> HIDE DEF B
  <2>5. /\ s \in Seq(B) /\ Len(s) = Len(p) + Len(c) /\ Len(p) \in Nat
        /\ \A k \in 1..(Len(p) + Len(c)) : s[k] = IF k <= Len(p) THEN p[k] ELSE c[k - Len(p)]
    BY <1>4, <2>4, ConcatProperties
  <2>1. s \in Seq(0..255) /\ Len(s) = Len(p) + Len(c) /\ Len(p) \in Nat
    BY <2>5 DEF B
  <2>2. \A k \in 1..(Len(p) + Len(c)) : s[k] = IF k <= Len(p) THEN p[k] ELSE c[k - Len(p)]
    BY <2>5
  <2>3. (Len(p) + 1) - Len(p) = 1 /\ (Len(p) + 2) - Len(p) = 2
    BY <2>1
  <2> QED
    BY <1>3, <2>1, <2>2, <2>3
<1>6. SubSeq(s, 1, Len(p)) = p
  <2>1. /\ SubSeq(s, 1, Len(p)) \in Seq(0..255) /\ Len(SubSeq(s, 1, Len(p))) = Len(p)
        /\ \A k \in 1..Len(p) : SubSeq(s, 1, Len(p))[k] = s[k]
    BY <1>5
  <2> QED
    BY <1>5, <2>1, SeqEqual
<1>7. SubSeq(s, Len(p) + 1, Len(p) + 2) = c
  <2> DEFINE t == SubSeq(s, Len(p) + 1, Len(p) + 2)
             a == Len(p) + 1
  <2>1. t \in Seq(0..255) /\ Len(t) = 2 /\ t[1] = s[Len(p) + 1] /\ t[2] = s[Len(p) + 2]
    <3>1. a \in 1..Len(s) /\ a + 1 \in 1..Len(s) /\ a + 1 = Len(p) + 2 /\ a \in Nat
      BY <1>5
    <3> HIDE DEF a
    <3>2. /\ SubSeq(s, a, a + 1) \in Seq(0..255) /\ Len(SubSeq(s, a, a + 1)) = 2
          /\ SubSeq(s, a, a + 1)[1] = s[a] /\ SubSeq(s, a, a + 1)[2] = s[a + 1]
      <4> DEFINE B == 0..255
      <4>1. s \in Seq(B)
        BY <1>5
      <4> HIDE DEF B
      <4>2. SubSeq(s, a, a + 1) \in Seq(B) /\ Len(SubSeq(s, a, a + 1)) = 2
        BY <3>1, <4>1
      <4>3. SubSeq(s, a, a + 1)[1] = s[a] /\ SubSeq(s, a, a + 1)[2] = s[a + 1]
        BY <3>1, <4>1
      <4> QED
        BY <4>2, <4>3 DEF B
    <3> QED
      BY <3>1, <3>2 DEF a
  <2> HIDE DEF t
  <2>2. \A k \in 1..Len(t) : t[k] = c[k]
    BY <1>5, <2>1
  <2> QED
    BY <1>3, <2>1, <2>2, SeqEqual, SMTT(30) DEF t
<1>8. Len(s) - CRC_SIZE = Len(p) /\ Len(s) - 1 = Len(p) + 1
  BY <1>5 DEF CRC_SIZE
<1> QED
  BY <1>5, <1>6, <1>7, <1>8 DEF s, c

\* A frame read whole checks out and is what was to be sent.
LEMMA ChecksOut ==
  ASSUME NEW p \in Seq(0..255), Fits(p)
  PROVE  /\ P_crc_check(Summed(p)) /\ SubSeq(Summed(p), 1, Len(Summed(p)) - CRC_SIZE) = p
         /\ Len(Summed(p)) <= GCOMMBASE_BUF_SIZE
<1>1. GCOMMBASE_BUF_SIZE \in Nat
  BY GCommBaseAssumption
<1>2. Len(Summed(p)) > CRC_SIZE /\ Len(Summed(p)) <= GCOMMBASE_BUF_SIZE
  <2>1. Len(Summed(p)) = Len(p) + 2
    BY SummedIs
  <2>2. Len(p) \in 1..(GCOMMBASE_BUF_SIZE - 2)
    BY DEF Fits, CRC_SIZE
  <2> QED
    BY <1>1, <2>1, <2>2 DEF CRC_SIZE
<1> QED
  BY <1>2, SummedIs DEF P_crc_check

\* What is written for half a byte is read as it.
LEMMA DigitBack ==
  ASSUME NEW v \in 0..15
  PROVE  LET ch == P_digit_to_char(v) IN
         /\ ch \in 0..127 /\ IsDigit(ch) /\ P_char_to_digit(ch) = v
         /\ ch # Colon /\ ~P_char_is_terminal(ch)
BY DEF P_digit_to_char, IsDigit, P_char_to_digit, Colon, P_char_is_terminal, LF, CR

LEMMA Halves ==
  ASSUME NEW x \in 0..255
  PROVE  x \div 16 \in 0..15 /\ x % 16 \in 0..15 /\ 16 * (x \div 16) + (x % 16) = x
OBVIOUS

\* The characters of a frame, one by one.
LEMMA FramedIs ==
  ASSUME NEW p \in Seq(0..255), NEW b, b = Summed(p)
  PROVE  /\ Framed(p) \in Seq(0..127) /\ Len(Framed(p)) = 2 * Len(b) + 2
         /\ Framed(p)[1] = Colon /\ Framed(p)[2 * Len(b) + 2] = LF
         /\ \A j \in 1..Len(b) : /\ Framed(p)[2 * j] = P_digit_to_char(b[j] \div 16)
                                 /\ Framed(p)[2 * j + 1] = P_digit_to_char(b[j] % 16)
<1> DEFINE last == 2 * Len(b) + 2
           f == Framed(p)
<1>1. b \in Seq(0..255) /\ Len(b) \in Nat /\ \A j \in 1..Len(b) : b[j] \in 0..255
  <2> DEFINE B == 0..255
  <2>1. b \in Seq(B)
    BY SummedIs
  <2> HIDE DEF B
  <2>2. Len(b) \in Nat /\ \A j \in 1..Len(b) : b[j] \in B
    BY <2>1
  <2> QED
    BY <2>1, <2>2 DEF B
<1>2. f = [k \in 1..last |-> IF k = 1 THEN Colon ELSE IF k = last THEN LF
                             ELSE P_writeByte(b[k \div 2])[1 + (k % 2)]]
  BY DEF Framed
<1> HIDE DEF f
<1>3. last \in Nat /\ 1 \in 1..last /\ last \in 1..last /\ last # 1 /\ DOMAIN f = 1..last
  BY <1>1, <1>2
<1>4. f[1] = Colon /\ f[last] = LF
  BY <1>2, <1>3
<1>5. \A x \in 0..255 : /\ P_writeByte(x)[1] = P_digit_to_char(x \div 16)
                        /\ P_writeByte(x)[2] = P_digit_to_char(x % 16)
  BY DEF P_writeByte
<1>6. ASSUME NEW j \in 1..Len(b)
      PROVE  /\ f[2 * j] = P_digit_to_char(b[j] \div 16)
             /\ f[2 * j + 1] = P_digit_to_char(b[j] % 16)
  <2>1. /\ 2 * j \in 1..last /\ 2 * j # 1 /\ 2 * j # last /\ (2 * j) \div 2 = j /\ (2 * j) % 2 = 0
        /\ 2 * j + 1 \in 1..last /\ 2 * j + 1 # 1 /\ 2 * j + 1 # last
        /\ (2 * j + 1) \div 2 = j /\ (2 * j + 1) % 2 = 1
    <3>1. j \in Int /\ 1 <= j /\ j <= Len(b)
      BY <1>1
    <3>2. \A i \in Int : (2 * i) \div 2 = i /\ (2 * i) % 2 = 0
                        /\ (2 * i + 1) \div 2 = i /\ (2 * i + 1) % 2 = 1
      OBVIOUS
    <3>3. (2 * j) \div 2 = j /\ (2 * j) % 2 = 0 /\ (2 * j + 1) \div 2 = j /\ (2 * j + 1) % 2 = 1
      BY <3>1, <3>2
    <3>4. /\ 2 * j \in 1..last /\ 2 * j # 1 /\ 2 * j # last
          /\ 2 * j + 1 \in 1..last /\ 2 * j + 1 # 1 /\ 2 * j + 1 # last
      BY <1>1, <3>1
    <3> QED
      BY <3>3, <3>4
  <2> HIDE DEF last
  <2>2. f[2 * j] = P_writeByte(b[j])[1] /\ f[2 * j + 1] = P_writeByte(b[j])[2]
    BY <1>2, <2>1
  <2> QED
    BY <1>1, <1>5, <2>2
<1>7. ASSUME NEW k \in 1..last PROVE f[k] \in 0..127
  <2>1. CASE k = 1 \/ k = last
    BY <1>4, <2>1 DEF Colon, LF
  <2>2. CASE k # 1 /\ k # last
    <3>1. PICK j \in 1..Len(b) : k = 2 * j \/ k = 2 * j + 1
      <4>1. k \div 2 \in 1..Len(b) /\ (k = 2 * (k \div 2) \/ k = 2 * (k \div 2) + 1)
        BY <1>1, <2>2
      <4> QED
        BY <4>1
    <3>2. b[j] \div 16 \in 0..15 /\ b[j] % 16 \in 0..15
      BY <1>1, Halves
    <3>3. \A v \in 0..15 : P_digit_to_char(v) \in 0..127
      BY DigitBack
    <3>4. f[2 * j] \in 0..127 /\ f[2 * j + 1] \in 0..127
      <4>1. P_digit_to_char(b[j] \div 16) \in 0..127 /\ P_digit_to_char(b[j] % 16) \in 0..127
        BY <3>2, <3>3
      <4> QED
        BY <1>6, <4>1
    <3> QED
      BY <3>1, <3>4
  <2> QED
    BY <2>1, <2>2
<1>8. f \in Seq(0..127) /\ Len(f) = last
  <2> HIDE DEF last
  <2>1. f \in [1..last -> 0..127]
    BY <1>2, <1>7
  <2> QED
    BY <1>3, <2>1
<1> QED
  BY <1>4, <1>6, <1>8 DEF f

Chars == [ch : 0..127, of : 1..Len(Payloads), at : Nat]
EndOf(n) == Len(Framed(Payloads[n]))

\* The character that may come after another one.
Continues(c, d) ==
  IF c.at = 0 THEN d.of = c.of
  ELSE IF c.at = EndOf(c.of) THEN d.of = c.of + 1 /\ d.at = 1
  ELSE d.of = c.of /\ d.at = c.at + 1

\* What the wire holds: the rest of the frames sent, in order and whole, but
\* for stray characters.
WireInv ==
  /\ \A i \in 1..Len(wire) : wire[i].of \in 1..written /\ wire[i].at \in 0..EndOf(wire[i].of)
  /\ \A i \in 1..(Len(wire) - 1) : Continues(wire[i], wire[i + 1])
  /\ Len(wire) > 0 => wire[Len(wire)].of = written /\ wire[Len(wire)].at = EndOf(written)

\* In a frame no fault has touched the characters are the ones written, and a
\* stray one can only come before the first.
Intact ==
  \A i \in 1..Len(wire) : wire[i].of \notin hit =>
    IF wire[i].at = 0
    THEN wire[i].ch \in {LF, CR} /\ i < Len(wire) /\ wire[i + 1].at = 1
    ELSE wire[i].ch = Framed(Payloads[wire[i].of])[wire[i].at]

\* The reader has read the characters of frame n before the k-th.
HasRead(n, k) ==
  \A j \in 0..Len(Summed(Payloads[n])) :
    /\ k = 2 * j + 2 => m_state = "S1_GET_HI" /\ m_buf = SubSeq(Summed(Payloads[n]), 1, j)
    /\ k = 2 * j + 3 => /\ m_state = "S2_GET_LO" /\ m_buf = SubSeq(Summed(Payloads[n]), 1, j)
                        /\ m_half = Summed(Payloads[n])[j + 1] \div 16

\* After a frame the reader waits for the next one.
InStep ==
  /\ Len(wire) = 0 /\ written \notin hit => m_state = "S0_AWAIT"
  /\ Len(wire) > 0 /\ wire[1].of - 1 \notin hit /\ wire[1].of \notin hit =>
       /\ wire[1].at <= 1 => m_state = "S0_AWAIT"
       /\ wire[1].at > 1 /\ Fits(Payloads[wire[1].of]) => HasRead(wire[1].of, wire[1].at)

FrameInv == CommTypeOK /\ ReaderInv /\ WireInv /\ Intact /\ InStep /\ FaultCostsTwoFrames

LEMMA Payload ==
  ASSUME NEW n \in 1..Len(Payloads)
  PROVE  Payloads[n] \in Seq(0..255) /\ EndOf(n) \in Nat /\ EndOf(n) > 1
<1>1. Payloads \in Seq(Seq(0..255))
  BY GCommBaseAssumption
<1>2. Payloads[n] \in Seq(0..255)
  <2> DEFINE S == Seq(0..255)
  <2>1. Payloads \in Seq(S)
    BY <1>1
  <2> HIDE DEF S
  <2>2. Payloads[n] \in S
    BY <2>1
  <2> QED
    BY <2>2 DEF S
<1>3. EndOf(n) = 2 * Len(Summed(Payloads[n])) + 2
  BY <1>2, FramedIs DEF EndOf
<1>4. Len(Summed(Payloads[n])) \in Nat
  BY <1>2, SummedIs
<1> QED
  BY <1>2, <1>3, <1>4

\* A frame is written behind what is on the wire.
LEMMA WrittenBehind ==
  ASSUME CommTypeOK, WireInv, Intact, writeFrame
  PROVE  /\ wire' \in Seq(Chars) /\ WireInv' /\ Intact'
         /\ Len(wire') > Len(wire) /\ \A i \in 1..Len(wire) : wire'[i] = wire[i]
         /\ Len(wire) = 0 => wire'[1].of = written' /\ wire'[1].at = 1
         /\ wire'[Len(wire')].of = written'
<1> DEFINE m == written + 1
           chars == Framed(Payloads[m])
           e == EndOf(m)
           new == [i \in 1..e |-> [ch |-> chars[i], of |-> m, at |-> i]]
           w == Len(wire)
<1>1. /\ m \in 1..Len(Payloads) /\ written' = m /\ hit' = hit /\ written \in Nat
      /\ hit \subseteq 1..written
  BY GCommBaseAssumption DEF CommTypeOK, writeFrame
<1>2. e \in Nat /\ e > 1 /\ chars \in Seq(0..127) /\ e = Len(chars) /\ DOMAIN chars = 1..e
  BY <1>1, Payload, FramedIs DEF EndOf
<1>3. wire' = wire \o new
  <2> HIDE DEF chars, e
  <2> QED
    BY <1>1, <1>2 DEF writeFrame, chars
<1>4. \A i \in 1..e : chars[i] \in 0..127
  <2> DEFINE B == 0..127
  <2> HIDE DEF chars, B, e
  <2>1. chars \in Seq(B)
    BY <1>2 DEF B
  <2>2. \A i \in 1..e : chars[i] \in B
    BY <1>2, <2>1
  <2> QED
    BY <2>2 DEF B
<1> HIDE DEF chars, e, m
<1>5. new \in Seq(Chars) /\ Len(new) = e
  <2>1. \A i \in 1..e : [ch |-> chars[i], of |-> m, at |-> i] \in Chars
    BY <1>1, <1>2, <1>4 DEF Chars
  <2>2. new \in [1..e -> Chars]
    BY <2>1
  <2> HIDE DEF new
  <2> QED
    BY <1>2, <2>2
<1>6. \A i \in 1..e : new[i].ch = chars[i] /\ new[i].of = m /\ new[i].at = i
  OBVIOUS
<1> HIDE DEF new
<1>7. wire \in Seq(Chars) /\ w \in Nat
  BY DEF CommTypeOK, Chars
<1> HIDE DEF w
<1>8. /\ wire' \in Seq(Chars) /\ Len(wire') = w + e
      /\ \A i \in 1..(w + e) : wire'[i] = IF i <= w THEN wire[i] ELSE new[i - w]
  BY <1>3, <1>5, <1>7, ConcatProperties DEF w
<1>9. \A i \in 1..w : wire'[i] = wire[i]
  BY <1>2, <1>7, <1>8
<1>10. \A i \in (w + 1)..(w + e) :
         /\ wire'[i].ch = chars[i - w] /\ wire'[i].of = m /\ wire'[i].at = i - w
         /\ i - w \in 1..e
  <2> SUFFICES ASSUME NEW i \in (w + 1)..(w + e)
               PROVE  /\ wire'[i].ch = chars[i - w] /\ wire'[i].of = m /\ wire'[i].at = i - w
                      /\ i - w \in 1..e
    OBVIOUS
  <2>1. i - w \in 1..e /\ i \in 1..(w + e) /\ ~(i <= w)
    BY <1>2, <1>7
  <2> QED
    BY <1>6, <1>8, <2>1
<1>11. w + 1 \in (w + 1)..(w + e) /\ w + e \in (w + 1)..(w + e) /\ (w + 1) - w = 1 /\ (w + e) - w = e
  BY <1>2, <1>7
<1>12. \A i \in 1..(w + e) : wire'[i].of \in 1..m /\ wire'[i].at \in 0..EndOf(wire'[i].of)
  <2> SUFFICES ASSUME NEW i \in 1..(w + e)
               PROVE  wire'[i].of \in 1..m /\ wire'[i].at \in 0..EndOf(wire'[i].of)
    OBVIOUS
  <2>1. CASE i \in 1..w
    BY <1>1, <1>9, <2>1 DEF WireInv, w, m
  <2>2. CASE i \in (w + 1)..(w + e)
    <3>1. wire'[i].of = m /\ wire'[i].at \in 1..e
      BY <1>10, <2>2
    <3> QED
      BY <1>1, <1>2, <3>1 DEF e
  <2> QED
    BY <1>2, <1>7, <2>1, <2>2
<1>13. \A i \in 1..(w + e - 1) : Continues(wire'[i], wire'[i + 1])
  <2> SUFFICES ASSUME NEW i \in 1..(w + e - 1)
               PROVE  Continues(wire'[i], wire'[i + 1])
    OBVIOUS
  <2>1. CASE i < w
    <3>1. i \in 1..w /\ i + 1 \in 1..w /\ i \in 1..(w - 1)
      BY <1>7, <2>1
    <3> QED
      BY <1>9, <3>1 DEF WireInv, w
  <2>2. CASE i = w
    <3>1. wire'[i].of = written /\ wire'[i].at = EndOf(written) /\ written \in 1..Len(Payloads)
      <4>1. wire'[w] = wire[w] /\ w > 0 /\ w \in 1..w
        BY <1>7, <1>9, <2>2
      <4> QED
        BY <1>1, <2>2, <4>1 DEF WireInv, w, m, CommTypeOK
    <3>2. EndOf(written) # 0
      BY <3>1, Payload
    <3>3. wire'[i + 1].of = m /\ wire'[i + 1].at = 1
      BY <1>10, <1>11, <2>2
    <3> QED
      BY <3>1, <3>2, <3>3 DEF Continues, m
  <2>3. CASE i > w
    <3>1. i \in (w + 1)..(w + e) /\ i + 1 \in (w + 1)..(w + e) /\ (i + 1) - w = (i - w) + 1
          /\ i - w # 0 /\ i - w # e
      BY <1>2, <1>7, <2>3
    <3>2. wire'[i].of = m /\ wire'[i].at = i - w /\ wire'[i + 1].of = m /\ wire'[i + 1].at = (i - w) + 1
      BY <1>10, <3>1
    <3> QED
      BY <3>1, <3>2 DEF Continues, e
  <2> QED
    BY <1>2, <1>7, <2>1, <2>2, <2>3
<1>14. WireInv'
  BY <1>1, <1>2, <1>7, <1>8, <1>10, <1>11, <1>12, <1>13 DEF WireInv, e
<1>15. Intact'
  <2> SUFFICES ASSUME NEW i \in 1..(w + e), wire'[i].of \notin hit
               PROVE  IF wire'[i].at = 0
                      THEN wire'[i].ch \in {LF, CR} /\ i < w + e /\ wire'[i + 1].at = 1
                      ELSE wire'[i].ch = Framed(Payloads[wire'[i].of])[wire'[i].at]
    BY <1>1, <1>8 DEF Intact
  <2>1. CASE i \in 1..w
    <3>1. wire'[i] = wire[i] /\ (i < w => wire'[i + 1] = wire[i + 1])
      BY <1>7, <1>9, <2>1
    <3>2. IF wire[i].at = 0
          THEN wire[i].ch \in {LF, CR} /\ i < w /\ wire[i + 1].at = 1
          ELSE wire[i].ch = Framed(Payloads[wire[i].of])[wire[i].at]
      BY <2>1, <3>1 DEF Intact, w
    <3>3. i < w => i < w + e
      BY <1>2, <1>7
    <3> QED
      BY <3>1, <3>2, <3>3
  <2>2. CASE i \in (w + 1)..(w + e)
    <3>1. wire'[i].ch = chars[i - w] /\ wire'[i].of = m /\ wire'[i].at = i - w /\ i - w # 0
      BY <1>7, <1>10, <2>2
    <3> QED
      BY <3>1 DEF chars
  <2> QED
    BY <1>2, <1>7, <2>1, <2>2
<1>16. Len(wire') > w /\ (w = 0 => wire'[1].of = written' /\ wire'[1].at = 1)
       /\ wire'[Len(wire')].of = written'
  BY <1>1, <1>2, <1>7, <1>8, <1>10, <1>11, SMTT(30)
<1> QED
  BY <1>8, <1>9, <1>14, <1>15, <1>16 DEF w

\* The first character is taken from the wire.
LEMMA TakenOff ==
  ASSUME CommTypeOK, WireInv, Intact, wire # << >>, wire' = Tail(wire), written' = written,
         hit \subseteq hit'
  PROVE  /\ wire' \in Seq(Chars) /\ WireInv' /\ Intact'
         /\ Len(wire) \in Nat \ {0} /\ Len(wire') = Len(wire) - 1
         /\ \A i \in 1..Len(wire') : wire'[i] = wire[i + 1]
         /\ Head(wire) = wire[1] /\ wire[1] \in Chars
<1> DEFINE w == Len(wire)
<1>1. wire \in Seq(Chars)
  BY DEF CommTypeOK, Chars
<1>2. /\ wire' \in Seq(Chars) /\ w \in Nat \ {0} /\ Len(wire') = w - 1
      /\ \A i \in 1..(w - 1) : wire'[i] = wire[i + 1]
      /\ Head(wire) = wire[1] /\ wire[1] \in Chars
  BY <1>1, HeadTailProperties
<1> HIDE DEF w
<1>3. \A i \in 1..(w - 1) : wire'[i].of \in 1..written /\ wire'[i].at \in 0..EndOf(wire'[i].of)
  <2> SUFFICES ASSUME NEW i \in 1..(w - 1)
               PROVE  wire'[i].of \in 1..written /\ wire'[i].at \in 0..EndOf(wire'[i].of)
    OBVIOUS
  <2>1. i + 1 \in 1..w /\ wire'[i] = wire[i + 1]
    BY <1>2
  <2> QED
    BY <2>1 DEF WireInv, w
<1>4. \A i \in 1..((w - 1) - 1) : Continues(wire'[i], wire'[i + 1])
  <2> SUFFICES ASSUME NEW i \in 1..((w - 1) - 1) PROVE Continues(wire'[i], wire'[i + 1])
    OBVIOUS
  <2>1. /\ i \in 1..(w - 1) /\ i + 1 \in 1..(w - 1)
        /\ wire'[i] = wire[i + 1] /\ wire'[i + 1] = wire[(i + 1) + 1]
    BY <1>2
  <2> QED
    BY <2>1 DEF WireInv, w
<1>5. w - 1 > 0 => wire'[w - 1].of = written /\ wire'[w - 1].at = EndOf(written)
  <2>1. w - 1 > 0 => wire'[w - 1] = wire[w]
    <3>1. ASSUME w - 1 > 0 PROVE w - 1 \in 1..(w - 1) /\ (w - 1) + 1 = w
      BY <1>2, <3>1
    <3> QED
      BY <1>2, <3>1
  <2> QED
    BY <1>2, <2>1 DEF WireInv, w
<1>6. WireInv'
  BY <1>2, <1>3, <1>4, <1>5 DEF WireInv
<1>7. Intact'
  <2> SUFFICES ASSUME NEW i \in 1..(w - 1), wire'[i].of \notin hit
               PROVE  IF wire'[i].at = 0
                      THEN wire'[i].ch \in {LF, CR} /\ i < w - 1 /\ wire'[i + 1].at = 1
                      ELSE wire'[i].ch = Framed(Payloads[wire'[i].of])[wire'[i].at]
    BY <1>2 DEF Intact
  <2>1. i + 1 \in 1..w /\ wire'[i] = wire[i + 1] /\ (i < w - 1 => wire'[i + 1] = wire[(i + 1) + 1])
    BY <1>2
  <2>2. IF wire[i + 1].at = 0
        THEN wire[i + 1].ch \in {LF, CR} /\ i + 1 < w /\ wire[(i + 1) + 1].at = 1
        ELSE wire[i + 1].ch = Framed(Payloads[wire[i + 1].of])[wire[i + 1].at]
    BY <2>1 DEF Intact, w
  <2>3. i + 1 < w => i < w - 1
    BY <1>2
  <2> QED
    BY <2>1, <2>2, <2>3
<1> QED
  BY <1>2, <1>6, <1>7 DEF w

\* The first character is changed.
LEMMA Changed1 ==
  ASSUME CommTypeOK, WireInv, Intact, Change
  PROVE  /\ wire' \in Seq(Chars) /\ WireInv' /\ Intact' /\ Len(wire') = Len(wire) /\ Len(wire) > 0
         /\ \A i \in 1..Len(wire) : wire'[i].of = wire[i].of /\ wire'[i].at = wire[i].at
         /\ hit' = hit \cup {wire[1].of} /\ wire[1].of \in 1..written
<1> DEFINE w == Len(wire)
<1>1. wire \in Seq(Chars) /\ w \in Nat /\ wire # << >> /\ w > 0 /\ Head(wire) = wire[1]
  <2>1. wire \in Seq(Chars) /\ wire # << >>
    BY DEF CommTypeOK, Chars, Change, Fault
  <2> QED
    BY <2>1
<1>2. PICK ch \in Noise : wire' = [wire EXCEPT ![1].ch = ch]
  BY DEF Change
<1>3. ch \in 0..127
  BY GCommBaseAssumption
<1>4. hit' = hit \cup {wire[1].of} /\ written' = written
  BY <1>1 DEF Change
<1> DEFINE c == [wire[1] EXCEPT !.ch = ch]
<1>5. 1 \in 1..w /\ wire[1] \in Chars /\ wire' = [wire EXCEPT ![1] = c]
  BY <1>1, <1>2
<1>6. c \in Chars /\ c.of = wire[1].of /\ c.at = wire[1].at
  BY <1>3, <1>5 DEF Chars
<1> HIDE DEF c
<1>7. wire' \in Seq(Chars) /\ Len(wire') = w
      /\ \A i \in 1..w : wire'[i] = IF i = 1 THEN c ELSE wire[i]
  BY <1>1, <1>5, <1>6
<1> HIDE DEF w
<1>8. \A i \in 1..w : wire'[i].of = wire[i].of /\ wire'[i].at = wire[i].at
  BY <1>6, <1>7
<1>9. \A i \in 1..w : wire[i].of \in 1..written /\ wire[i].at \in 0..EndOf(wire[i].of)
  BY DEF WireInv, w
<1>10. \A i \in 1..(w - 1) : Continues(wire'[i], wire'[i + 1])
  <2> SUFFICES ASSUME NEW i \in 1..(w - 1) PROVE Continues(wire'[i], wire'[i + 1])
    OBVIOUS
  <2>1. i \in 1..w /\ i + 1 \in 1..w
    BY <1>1
  <2>2. Continues(wire[i], wire[i + 1])
    BY DEF WireInv, w
  <2> QED
    BY <1>8, <2>1, <2>2 DEF Continues
<1>11. w > 0 => wire'[w].of = written /\ wire'[w].at = EndOf(written)
  <2>1. w > 0 => w \in 1..w
    BY <1>1
  <2> QED
    BY <1>8, <2>1 DEF WireInv, w
<1>12. WireInv'
  BY <1>4, <1>7, <1>8, <1>9, <1>10, <1>11 DEF WireInv
<1>13. Intact'
  <2> SUFFICES ASSUME NEW i \in 1..w, wire'[i].of \notin hit'
               PROVE  IF wire'[i].at = 0
                      THEN wire'[i].ch \in {LF, CR} /\ i < w /\ wire'[i + 1].at = 1
                      ELSE wire'[i].ch = Framed(Payloads[wire'[i].of])[wire'[i].at]
    BY <1>7 DEF Intact
  <2>1. wire[i].of \notin hit /\ i # 1 /\ wire'[i] = wire[i]
    BY <1>4, <1>7, <1>8
  <2>2. IF wire[i].at = 0
        THEN wire[i].ch \in {LF, CR} /\ i < w /\ wire[i + 1].at = 1
        ELSE wire[i].ch = Framed(Payloads[wire[i].of])[wire[i].at]
    BY <2>1 DEF Intact, w
  <2>3. i < w => wire'[i + 1].at = wire[i + 1].at
    <3>1. i < w => i + 1 \in 1..w
      BY <1>1
    <3> QED
      BY <1>8, <3>1
  <2> QED
    BY <2>1, <2>2, <2>3
<1>14. wire[1].of \in 1..written
  BY <1>1, <1>9
<1> QED
  BY <1>1, <1>4, <1>7, <1>8, <1>12, <1>13, <1>14 DEF w

\* A colon that no fault has touched begins its frame.
LEMMA ColonBegins ==
  ASSUME CommTypeOK, WireInv, Intact, Len(wire) > 0, wire[1].ch = Colon, wire[1].of \notin hit
  PROVE  wire[1].at = 1
<1> DEFINE n == wire[1].of
           k == wire[1].at
           p == Payloads[n]
           b == Summed(p)
<1>1. 1 \in 1..Len(wire)
  <2>1. Len(wire) \in Nat
    BY DEF CommTypeOK
  <2> QED
    BY <2>1
<1>2. n \in 1..Len(Payloads) /\ k \in 0..EndOf(n)
  BY <1>1 DEF WireInv, CommTypeOK
<1>3. IF k = 0 THEN wire[1].ch \in {LF, CR} ELSE wire[1].ch = Framed(p)[k]
  BY <1>1 DEF Intact
<1>4. k # 0 /\ Framed(p)[k] = Colon
  BY <1>3 DEF LF, CR, Colon
<1> HIDE DEF n, k
<1>5. p \in Seq(0..255)
  BY <1>2, Payload
<1> HIDE DEF p
<1>6. /\ EndOf(n) = 2 * Len(b) + 2 /\ Len(b) \in Nat /\ \A j \in 1..Len(b) : b[j] \in 0..255
  <2> DEFINE B == 0..255
  <2>1. EndOf(n) = 2 * Len(b) + 2 /\ b \in Seq(B)
    BY <1>5, FramedIs, SummedIs DEF EndOf, p
  <2> HIDE DEF B, b
  <2>2. Len(b) \in Nat /\ \A j \in 1..Len(b) : b[j] \in B
    BY <2>1
  <2> QED
    BY <2>1, <2>2 DEF B
<1>7. /\ Framed(p)[2 * Len(b) + 2] = LF
      /\ \A j \in 1..Len(b) : /\ Framed(p)[2 * j] = P_digit_to_char(b[j] \div 16)
                              /\ Framed(p)[2 * j + 1] = P_digit_to_char(b[j] % 16)
  BY <1>5, FramedIs
<1> HIDE DEF b
<1>8. CASE k = 2 * Len(b) + 2
  BY <1>4, <1>7, <1>8 DEF LF, Colon
<1>9. CASE k # 1 /\ k # 2 * Len(b) + 2
  <2>1. PICK j \in 1..Len(b) : k = 2 * j \/ k = 2 * j + 1
    <3>1. k \div 2 \in 1..Len(b) /\ (k = 2 * (k \div 2) \/ k = 2 * (k \div 2) + 1)
      BY <1>2, <1>4, <1>6, <1>9
    <3> QED
      BY <3>1
  <2>2. b[j] \div 16 \in 0..15 /\ b[j] % 16 \in 0..15
    BY <1>6, Halves
  <2>3. P_digit_to_char(b[j] \div 16) # Colon /\ P_digit_to_char(b[j] % 16) # Colon
    BY <2>2, DigitBack
  <2> QED
    BY <1>4, <1>7, <2>1, <2>3
<1> QED
  BY <1>8, <1>9 DEF k

\* A terminator is put before the first character.
LEMMA StrayBefore ==
  ASSUME CommTypeOK, WireInv, Intact, Stray
  PROVE  /\ wire' \in Seq(Chars) /\ WireInv' /\ Intact' /\ Len(wire') = Len(wire) + 1
         /\ wire'[1].of = wire[1].of /\ wire'[1].at = 0
         /\ Len(wire) > 0 /\ (wire[1].of \notin hit => wire[1].at = 1)
         /\ \A i \in 1..Len(wire) : wire'[i + 1] = wire[i]
<1> DEFINE w == Len(wire)
<1>1. wire \in Seq(Chars) /\ w \in Nat /\ w > 0 /\ Head(wire) = wire[1] /\ 1 \in 1..w /\ wire[1] \in Chars
  <2>1. wire \in Seq(Chars) /\ wire # << >>
    BY DEF CommTypeOK, Chars, Stray, Fault
  <2>2. w \in Nat /\ w > 0 /\ Head(wire) = wire[1]
    BY <2>1
  <2>3. 1 \in 1..w
    BY <2>2
  <2> QED
    BY <2>1, <2>2, <2>3
<1>2. PICK ch \in {LF, CR} : wire' = <<[ch |-> ch, of |-> Head(wire).of, at |-> 0]>> \o wire
  BY DEF Stray
<1> DEFINE c == [ch |-> ch, of |-> wire[1].of, at |-> 0]
<1>3. c \in Chars /\ c.ch = ch /\ c.of = wire[1].of /\ c.at = 0
  BY <1>1 DEF Chars, LF, CR
<1>4. written' = written /\ hit' = hit /\ wire[1].ch = Colon /\ wire' = <<c>> \o wire
  BY <1>1, <1>2 DEF Stray
<1> HIDE DEF c
<1> DEFINE one == <<c>>
<1>5. one \in Seq(Chars) /\ Len(one) = 1 /\ one[1] = c /\ wire' = one \o wire
  BY <1>3, <1>4
<1> HIDE DEF one
<1>6. wire' \in Seq(Chars) /\ Len(wire') = w + 1 /\ wire'[1] = c
      /\ \A i \in 1..w : wire'[i + 1] = wire[i]
  <2>1. /\ wire' \in Seq(Chars) /\ Len(wire') = 1 + w
        /\ \A i \in 1..(1 + w) : wire'[i] = IF i <= 1 THEN one[i] ELSE wire[i - 1]
    <3>1. /\ one \o wire \in Seq(Chars) /\ Len(one \o wire) = Len(one) + Len(wire)
          /\ \A i \in 1..(Len(one) + Len(wire)) :
               (one \o wire)[i] = IF i <= Len(one) THEN one[i] ELSE wire[i - Len(one)]
      BY <1>1, <1>5, ConcatProperties
    <3> QED
      BY <1>5, <3>1
  <2> HIDE DEF w
  <2>2. \A i \in 1..w : i + 1 \in 1..(1 + w) /\ ~(i + 1 <= 1) /\ (i + 1) - 1 = i
    BY <1>1
  <2>3. 1 \in 1..(1 + w) /\ 1 <= 1 /\ 1 + w = w + 1
    BY <1>1
  <2>4. wire'[1] = c
    BY <1>5, <2>1, <2>3
  <2>5. \A i \in 1..w : wire'[i + 1] = wire[i]
    <3> SUFFICES ASSUME NEW i \in 1..w PROVE wire'[i + 1] = wire[i]
      OBVIOUS
    <3> QED
      BY <2>1, <2>2
  <2> QED
    BY <2>1, <2>3, <2>4, <2>5
<1> HIDE DEF w
<1>7. wire[1].of \notin hit => wire[1].at = 1
  BY <1>1, <1>4, ColonBegins DEF w
<1>8. \A i \in 1..(w + 1) : i = 1 \/ (i - 1 \in 1..w /\ (i - 1) + 1 = i)
  BY <1>1
<1>9. \A i \in 1..(w + 1) : wire'[i].of \in 1..written /\ wire'[i].at \in 0..EndOf(wire'[i].of)
  <2> SUFFICES ASSUME NEW i \in 1..(w + 1)
               PROVE  wire'[i].of \in 1..written /\ wire'[i].at \in 0..EndOf(wire'[i].of)
    OBVIOUS
  <2>1. CASE i = 1
    <3>1. wire'[i].of = wire[1].of /\ wire[1].of \in 1..written /\ wire'[i].at = 0
      BY <1>1, <1>3, <1>6, <2>1 DEF WireInv, w
    <3>2. EndOf(wire[1].of) \in Nat
      BY <3>1, Payload DEF CommTypeOK
    <3>3. 0 \in 0..EndOf(wire[1].of)
      BY <3>2
    <3> QED
      BY <3>1, <3>3
  <2>2. CASE i # 1
    <3>1. i - 1 \in 1..w /\ wire'[i] = wire[i - 1]
      BY <1>6, <1>8, <2>2
    <3> QED
      BY <3>1 DEF WireInv, w
  <2> QED
    BY <2>1, <2>2
<1>10. \A i \in 1..((w + 1) - 1) : Continues(wire'[i], wire'[i + 1])
  <2> SUFFICES ASSUME NEW i \in 1..w PROVE Continues(wire'[i], wire'[i + 1])
    BY <1>1
  <2>1. wire'[i + 1] = wire[i]
    BY <1>6
  <2>2. CASE i = 1
    BY <1>3, <1>6, <2>1, <2>2 DEF Continues
  <2>3. CASE i # 1
    <3>1. i - 1 \in 1..w /\ i - 1 \in 1..(w - 1) /\ (i - 1) + 1 = i /\ wire'[i] = wire[i - 1]
      BY <1>1, <1>6, <2>3
    <3>2. Continues(wire[i - 1], wire[(i - 1) + 1])
      BY <3>1 DEF WireInv, w
    <3> QED
      BY <2>1, <3>1, <3>2
  <2> QED
    BY <2>2, <2>3
<1>11. wire'[w + 1].of = written /\ wire'[w + 1].at = EndOf(written)
  <2>1. w \in 1..w
    BY <1>1
  <2>2. wire'[w + 1] = wire[w]
    BY <1>6, <2>1
  <2> QED
    BY <1>1, <2>2 DEF WireInv, w
<1>12. WireInv'
  BY <1>4, <1>6, <1>9, <1>10, <1>11 DEF WireInv
<1>13. Intact'
  <2> SUFFICES ASSUME NEW i \in 1..(w + 1), wire'[i].of \notin hit
               PROVE  IF wire'[i].at = 0
                      THEN wire'[i].ch \in {LF, CR} /\ i < w + 1 /\ wire'[i + 1].at = 1
                      ELSE wire'[i].ch = Framed(Payloads[wire'[i].of])[wire'[i].at]
    BY <1>4, <1>6 DEF Intact
  <2>1. CASE i = 1
    <3>1. wire'[i + 1] = wire[1] /\ wire[1].at = 1
      BY <1>1, <1>3, <1>6, <1>7, <2>1
    <3>2. 1 < w + 1
      BY <1>1
    <3> QED
      BY <1>3, <1>6, <2>1, <3>1, <3>2
  <2>2. CASE i # 1
    <3>1. i - 1 \in 1..w /\ (i - 1) + 1 = i /\ wire'[i] = wire[i - 1]
          /\ (i - 1 < w => i < w + 1 /\ i \in 1..w /\ wire'[i + 1] = wire[i])
      <4>1. i - 1 \in 1..w /\ (i - 1) + 1 = i
        BY <1>8, <2>2
      <4>2. w \in Nat /\ i \in 1..(w + 1)
        BY <1>1
      <4>3. i - 1 < w => i < w + 1 /\ i \in 1..w
        BY <4>2
      <4>4. wire'[i] = wire[i - 1]
        BY <1>6, <4>1
      <4>5. i \in 1..w => wire'[i + 1] = wire[i]
        BY <1>6
      <4> QED
        BY <4>1, <4>3, <4>4, <4>5
    <3>2. IF wire[i - 1].at = 0
          THEN wire[i - 1].ch \in {LF, CR} /\ i - 1 < w /\ wire[(i - 1) + 1].at = 1
          ELSE wire[i - 1].ch = Framed(Payloads[wire[i - 1].of])[wire[i - 1].at]
      BY <3>1 DEF Intact, w
    <3> QED
      BY <3>1, <3>2
  <2> QED
    BY <2>1, <2>2
<1> QED
  BY <1>1, <1>3, <1>6, <1>7, <1>12, <1>13 DEF w

\* A terminator ends whatever the reader was in.
LEMMA TerminalEnds ==
  ASSUME ReaderInv, P_fsm, Head(wire).ch \in {LF, CR}
  PROVE  m_state' = "S0_AWAIT"
<1> DEFINE ch == Head(wire).ch
<1>1. P_char_is_terminal(ch) /\ ~IsDigit(ch) /\ ch # Colon
  BY DEF P_char_is_terminal, IsDigit, LF, CR, Colon
<1> HIDE DEF ch
<1>2. \/ m_state = "S0_AWAIT" /\ Await(ch)
      \/ m_state = "S1_GET_HI" /\ GetHi(ch)
      \/ m_state = "S2_GET_LO" /\ GetLo(ch)
  BY DEF P_fsm, ch
<1> QED
  BY <1>1, <1>2 DEF Await, GetHi, GetLo, Succeeds, Fails, Goes, reader

\* The bytes of the n-th frame.
BytesOf(n) == Summed(Payloads[n])

\* The k-th character of a frame of the bytes b.
IsChar(ch, k, b) ==
  /\ k = 1 => ch = Colon
  /\ k = 2 * Len(b) + 2 => ch = LF
  /\ \A j \in 1..Len(b) : /\ k = 2 * j => ch = P_digit_to_char(b[j] \div 16)
                          /\ k = 2 * j + 1 => ch = P_digit_to_char(b[j] % 16)

LEMMA BytesAre ==
  ASSUME NEW n \in 1..Len(Payloads)
  PROVE  /\ BytesOf(n) \in Seq(0..255) /\ Len(BytesOf(n)) \in Nat
         /\ EndOf(n) = 2 * Len(BytesOf(n)) + 2
         /\ \A j \in 1..Len(BytesOf(n)) : BytesOf(n)[j] \in 0..255
         /\ \A k \in 1..EndOf(n) : IsChar(Framed(Payloads[n])[k], k, BytesOf(n))
<1> DEFINE b == BytesOf(n)
           f == Framed(Payloads[n])
<1>1. Payloads[n] \in Seq(0..255) /\ b = Summed(Payloads[n])
  BY Payload DEF BytesOf
<1>2. b \in Seq(0..255) /\ EndOf(n) = 2 * Len(b) + 2
  <2> HIDE DEF b
  <2>1. b \in Seq(0..255)
    BY <1>1, SummedIs
  <2>2. EndOf(n) = 2 * Len(b) + 2
    BY <1>1, FramedIs DEF EndOf
  <2> QED
    BY <2>1, <2>2
<1>3. /\ f[1] = Colon /\ f[2 * Len(b) + 2] = LF
      /\ \A j \in 1..Len(b) : /\ f[2 * j] = P_digit_to_char(b[j] \div 16)
                              /\ f[2 * j + 1] = P_digit_to_char(b[j] % 16)
  BY <1>1, FramedIs
<1>4. Len(b) \in Nat /\ \A j \in 1..Len(b) : b[j] \in 0..255
  <2> DEFINE B == 0..255
  <2>1. b \in Seq(B)
    BY <1>2
  <2> HIDE DEF B, b
  <2>2. Len(b) \in Nat /\ \A j \in 1..Len(b) : b[j] \in B
    BY <2>1
  <2> QED
    BY <2>2 DEF B
<1> HIDE DEF b, f
<1>5. \A k \in 1..EndOf(n) : IsChar(f[k], k, b)
  BY <1>3 DEF IsChar
<1> QED
  BY <1>2, <1>4, <1>5 DEF b, f

\* What the first character of the wire is, of an untouched frame.
LEMMA HeadIs ==
  ASSUME CommTypeOK, WireInv, Intact, Len(wire) > 0, wire[1].at # 0, wire[1].of \notin hit
  PROVE  /\ wire[1].of \in 1..Len(Payloads) /\ wire[1].at \in 1..EndOf(wire[1].of)
         /\ IsChar(wire[1].ch, wire[1].at, BytesOf(wire[1].of))
<1> DEFINE n == wire[1].of
           k == wire[1].at
<1>1. 1 \in 1..Len(wire)
  <2>1. Len(wire) \in Nat
    BY DEF CommTypeOK
  <2> QED
    BY <2>1
<1>2. n \in 1..written /\ written \in 0..Len(Payloads) /\ k \in 0..EndOf(n)
  BY <1>1 DEF WireInv, CommTypeOK
<1>3. wire[1].ch = Framed(Payloads[n])[k]
  BY <1>1 DEF Intact
<1> HIDE DEF n, k
<1>4. n \in 1..Len(Payloads)
  BY <1>2
<1>5. k \in 1..EndOf(n)
  <2>1. EndOf(n) \in Nat /\ k # 0
    BY <1>4, Payload DEF k
  <2> QED
    BY <1>2, <2>1
<1>6. IsChar(wire[1].ch, k, BytesOf(n))
  BY <1>3, <1>4, <1>5, BytesAre
<1> QED
  BY <1>4, <1>5, <1>6 DEF n, k

\* The places of the two digits of a byte.
LEMMA DigitPlaces ==
  \A m \in Nat : \A l \in 1..m :
    /\ l - 1 \in 0..m /\ l \in 0..m /\ (l - 1) + 1 = l /\ l - 1 < m
    /\ 2 * l = 2 * (l - 1) + 2 /\ 2 * l + 1 = 2 * (l - 1) + 3
    /\ (2 * l) + 1 = 2 * (l - 1) + 3 /\ (2 * l + 1) + 1 = 2 * l + 2
    /\ 2 * l > 1 /\ 2 * l + 1 > 1
OBVIOUS

\* A character further in an untouched frame.
LEMMA CharacterRead ==
  ASSUME FrameInv, P_fsm, Len(wire) > 0, NEW n, n = wire[1].of, NEW k, k = wire[1].at,
         k # 0, k # EndOf(n), n \notin hit, n - 1 \notin hit, Fits(Payloads[n])
  PROVE  HasRead(n, k + 1)'
<1> DEFINE b == BytesOf(n)
           ch == wire[1].ch
<1>1. CommTypeOK /\ ReaderInv /\ WireInv /\ Intact /\ InStep /\ Head(wire) = wire[1]
  <2>1. CommTypeOK /\ ReaderInv /\ WireInv /\ Intact /\ InStep
    BY DEF FrameInv
  <2> QED
    BY <2>1 DEF CommTypeOK
<1>12. n \in 1..Len(Payloads) /\ k \in 1..EndOf(n) /\ IsChar(ch, k, b)
  BY <1>1, HeadIs
<1>2. /\ n \in 1..Len(Payloads) /\ k \in 1..(2 * Len(b) + 2) /\ k # 2 * Len(b) + 2
      /\ Len(b) \in Nat
      /\ b \in Seq(0..255) /\ \A j \in 1..Len(b) : b[j] \in 0..255
  BY <1>12, BytesAre
<1>22. k \in 1..(2 * Len(b) + 2) /\ k # 2 * Len(b) + 2 /\ Len(b) \in Nat
  BY <1>2
<1>3. Len(b) <= GCOMMBASE_BUF_SIZE /\ GCOMMBASE_BUF_SIZE \in Nat
  BY <1>2, Payload, ChecksOut, GCommBaseAssumption DEF BytesOf
<1>4. \/ m_state = "S0_AWAIT" /\ Await(ch)
      \/ m_state = "S1_GET_HI" /\ GetHi(ch)
      \/ m_state = "S2_GET_LO" /\ GetLo(ch)
  BY <1>1 DEF P_fsm
<1>5. /\ k <= 1 => m_state = "S0_AWAIT"
      /\ k > 1 => HasRead(n, k)
  BY <1>1 DEF InStep
<1> HIDE DEF ch, b
<1>6. ASSUME NEW i \in 0..Len(b), k + 1 = 2 * i + 2, m_state' = "S1_GET_HI",
             m_buf' = SubSeq(b, 1, i)
      PROVE  HasRead(n, k + 1)'
  <2> SUFFICES ASSUME NEW j \in 0..Len(b)
               PROVE  /\ k + 1 = 2 * j + 2 => m_state' = "S1_GET_HI" /\ m_buf' = SubSeq(b, 1, j)
                      /\ k + 1 # 2 * j + 3
    BY DEF HasRead, b, BytesOf
  <2>1. (2 * i + 2 = 2 * j + 2 => i = j) /\ 2 * i + 2 # 2 * j + 3
    <3>1. \A a, c \in Int : (2 * a + 2 = 2 * c + 2 => a = c) /\ 2 * a + 2 # 2 * c + 3
      OBVIOUS
    <3>2. i \in Int /\ j \in Int
      BY <1>2
    <3> QED
      BY <3>1, <3>2
  <2> QED
    BY <1>6, <2>1
<1>7. ASSUME NEW i \in 0..Len(b), k + 1 = 2 * i + 3, m_state' = "S2_GET_LO",
             m_buf' = SubSeq(b, 1, i), m_half' = b[i + 1] \div 16
      PROVE  HasRead(n, k + 1)'
  <2> SUFFICES ASSUME NEW j \in 0..Len(b)
               PROVE  /\ k + 1 # 2 * j + 2
                      /\ k + 1 = 2 * j + 3 => /\ m_state' = "S2_GET_LO" /\ m_buf' = SubSeq(b, 1, j)
                                              /\ m_half' = b[j + 1] \div 16
    BY DEF HasRead, b, BytesOf
  <2>1. (2 * i + 3 = 2 * j + 3 => i = j) /\ 2 * i + 3 # 2 * j + 2
    <3>1. \A a, c \in Int : (2 * a + 3 = 2 * c + 3 => a = c) /\ 2 * a + 3 # 2 * c + 2
      OBVIOUS
    <3>2. i \in Int /\ j \in Int
      BY <1>2
    <3> QED
      BY <3>1, <3>2
  <2> QED
    BY <1>7, <2>1
<1>8. CASE k = 1
  <2>3. ch = Colon /\ m_state = "S0_AWAIT"
    BY <1>5, <1>8, <1>12 DEF IsChar
  <2>1. m_state' = "S1_GET_HI" /\ m_buf' = << >>
    BY <1>4, <2>3 DEF Await, Goes
  <2>2. 0 \in 0..Len(b) /\ k + 1 = 2 * 0 + 2 /\ SubSeq(b, 1, 0) = << >>
    BY <1>2, <1>8, SubSeqEmpty
  <2> QED
    BY <1>6, <2>1, <2>2
<1>9. ASSUME NEW j \in 1..Len(b), k = 2 * j PROVE HasRead(n, k + 1)'
  <2>1. j - 1 \in 0..Len(b) /\ k = 2 * (j - 1) + 2 /\ k + 1 = 2 * (j - 1) + 3 /\ k > 1
        /\ (j - 1) + 1 = j /\ j - 1 < Len(b)
    BY <1>9, <1>22, DigitPlaces
  <2>2. m_state = "S1_GET_HI" /\ m_buf = SubSeq(b, 1, j - 1)
    BY <1>5, <2>1 DEF HasRead, b, BytesOf
  <2> DEFINE v == b[j] \div 16
  <2>3. v \in 0..15 /\ ch = P_digit_to_char(v)
    BY <1>2, <1>9, <1>12, Halves DEF IsChar
  <2> HIDE DEF v
  <2>4. IsDigit(ch) /\ P_char_to_digit(ch) = v /\ ~P_char_is_terminal(ch)
    BY <2>3, DigitBack
  <2>5. Len(m_buf) = j - 1
    <3>1. j - 1 \in Nat /\ j - 1 <= Len(b)
      BY <1>2, <2>1
    <3> QED
      BY <1>2, <2>2, <3>1
  <2>6. ~Full
    BY <1>2, <1>3, <2>1, <2>5 DEF Full
  <2>7. m_state' = "S2_GET_LO" /\ m_buf' = m_buf /\ m_half' = v
    BY <1>4, <2>2, <2>4, <2>6 DEF GetHi, Goes
  <2> QED
    BY <1>7, <2>1, <2>2, <2>7 DEF v
<1>10. ASSUME NEW j \in 1..Len(b), k = 2 * j + 1 PROVE HasRead(n, k + 1)'
  <2>1. j - 1 \in 0..Len(b) /\ k = 2 * (j - 1) + 3 /\ k + 1 = 2 * j + 2 /\ k > 1
        /\ (j - 1) + 1 = j /\ j \in 0..Len(b)
    BY <1>10, <1>22, DigitPlaces
  <2> DEFINE h == b[j] \div 16
             v == b[j] % 16
  <2>2. m_state = "S2_GET_LO" /\ m_buf = SubSeq(b, 1, j - 1) /\ m_half = h
    BY <1>5, <2>1 DEF HasRead, b, BytesOf
  <2>3. v \in 0..15 /\ ch = P_digit_to_char(v) /\ 16 * h + v = b[j]
    BY <1>2, <1>10, <1>12, Halves DEF IsChar
  <2> HIDE DEF h, v
  <2>4. IsDigit(ch) /\ P_char_to_digit(ch) = v
    BY <2>3, DigitBack
  <2>5. m_state' = "S1_GET_HI" /\ m_buf' = Append(SubSeq(b, 1, j - 1), b[j])
    BY <1>4, <2>2, <2>3, <2>4 DEF GetLo, Goes
  <2>6. Append(SubSeq(b, 1, j - 1), b[j]) = SubSeq(b, 1, j)
    <3> DEFINE B == 0..255
               s == SubSeq(b, 1, j - 1)
               a == Append(s, b[j])
               t == SubSeq(b, 1, j)
    <3>1. b \in Seq(B) /\ b[j] \in B
      BY <1>2
    <3> HIDE DEF B
    <3>2. j \in 1..Len(b) /\ j - 1 \in Nat /\ j - 1 <= Len(b) /\ j \in Nat
      BY <1>2, <2>1
    <3>3. s \in Seq(B) /\ Len(s) = j - 1 /\ \A i \in 1..(j - 1) : s[i] = b[i]
      BY <3>1, <3>2
    <3>4. t \in Seq(B) /\ Len(t) = j /\ \A i \in 1..j : t[i] = b[i]
      BY <3>1, <3>2
    <3> HIDE DEF s, t
    <3>5. a \in Seq(B) /\ Len(a) = j /\ \A i \in 1..j : a[i] = IF i = j THEN b[j] ELSE s[i]
      BY <3>1, <3>2, <3>3
    <3> HIDE DEF a
    <3>6. \A i \in 1..j : a[i] = t[i]
      <4> SUFFICES ASSUME NEW i \in 1..j PROVE a[i] = t[i]
        OBVIOUS
      <4>1. i # j => i \in 1..(j - 1)
        BY <3>2
      <4> QED
        BY <3>3, <3>4, <3>5, <4>1
    <3> QED
      BY <3>4, <3>5, <3>6, SeqEqual DEF a, s, t
  <2> QED
    BY <1>6, <2>1, <2>5, <2>6
<1>11. k = 1 \/ \E j \in 1..Len(b) : k = 2 * j \/ k = 2 * j + 1
  <2>1. k # 1 => /\ k \div 2 \in 1..Len(b)
                 /\ (k = 2 * (k \div 2) \/ k = 2 * (k \div 2) + 1)
    BY <1>22
  <2> QED
    BY <2>1
<1> QED
  BY <1>8, <1>9, <1>10, <1>11

\* The last character of an untouched frame.
LEMMA LastRead ==
  ASSUME FrameInv, P_fsm, Len(wire) > 0, NEW n, n = wire[1].of, wire[1].at = EndOf(n),
         n \notin hit, n - 1 \notin hit, n \in 1..Len(Payloads), Fits(Payloads[n])
  PROVE  got' = Append(got, Payloads[n])
<1> DEFINE p == Payloads[n]
           b == BytesOf(n)
           ch == wire[1].ch
           k == EndOf(n)
<1>1. CommTypeOK /\ ReaderInv /\ WireInv /\ Intact /\ InStep /\ Head(wire) = wire[1]
  <2>1. CommTypeOK /\ ReaderInv /\ WireInv /\ Intact /\ InStep
    BY DEF FrameInv
  <2> QED
    BY <2>1 DEF CommTypeOK
<1>2. k > 1 /\ k # 0
  BY Payload
<1>12. IsChar(ch, k, b)
  BY <1>1, <1>2, HeadIs
<1>3. /\ k = 2 * Len(b) + 2 /\ Len(b) \in Nat /\ p \in Seq(0..255) /\ b \in Seq(0..255)
      /\ b = Summed(p)
  BY Payload, BytesAre DEF BytesOf
<1>13. ch = LF
  BY <1>3, <1>12 DEF IsChar
<1>4. HasRead(n, k)
  BY <1>1, <1>2 DEF InStep
<1> HIDE DEF k, ch
<1>5. m_state = "S1_GET_HI" /\ m_buf = SubSeq(b, 1, Len(b))
  <2>1. Len(b) \in 0..Len(b)
    BY <1>3
  <2> QED
    BY <1>3, <1>4, <2>1 DEF HasRead
<1>6. SubSeq(b, 1, Len(b)) = b
  <2> DEFINE B == 0..255
             s == SubSeq(b, 1, Len(b))
  <2>1. b \in Seq(B)
    BY <1>3
  <2> HIDE DEF B, b
  <2>2. s \in Seq(B) /\ Len(s) = Len(b) /\ \A i \in 1..Len(b) : s[i] = b[i]
    BY <2>1
  <2> HIDE DEF s
  <2> QED
    BY <2>1, <2>2, SeqEqual DEF s
<1>7. P_crc_check(b) /\ SubSeq(b, 1, Len(b) - CRC_SIZE) = p
  BY <1>3, ChecksOut
<1>8. P_char_is_terminal(ch)
  BY <1>13 DEF P_char_is_terminal
<1> HIDE DEF b, p
<1>9. GetHi(ch)
  BY <1>1, <1>5 DEF P_fsm, ch
<1>10. Succeeds
  BY <1>5, <1>6, <1>7, <1>8, <1>9 DEF GetHi
<1> QED
  BY <1>5, <1>6, <1>7, <1>10 DEF Succeeds, p

\* What a step of the wire leaves of the frames read.
LEMMA GotGrows ==
  ASSUME got \in Seq(Seq(0..255)), NEW x \in Seq(0..255), got' = Append(got, x)
  PROVE  got' \in Seq(Seq(0..255)) /\ Range(got) \subseteq Range(got') /\ x \in Range(got')
<1> DEFINE S == Seq(0..255)
<1>1. got \in Seq(S) /\ x \in S
  OBVIOUS
<1> HIDE DEF S
<1>2. /\ got' \in Seq(S) /\ Len(got) \in Nat /\ Len(got') = Len(got) + 1
      /\ \A i \in 1..Len(got) : got'[i] = got[i]
      /\ got'[Len(got) + 1] = x /\ DOMAIN got' = 1..(Len(got) + 1) /\ DOMAIN got = 1..Len(got)
  BY <1>1
<1>3. \A i \in DOMAIN got : i \in DOMAIN got' /\ got[i] = got'[i]
  BY <1>2
<1>4. Len(got) + 1 \in DOMAIN got'
  BY <1>2
<1> QED
  BY <1>2, <1>3, <1>4 DEF Range, S

LEMMA FitFromStart == CommInit => FrameInv
<1> SUFFICES ASSUME CommInit PROVE FrameInv
  OBVIOUS
<1>1. /\ Payloads \in Seq(Seq(0..255)) /\ MaxDamage \in Nat
      /\ wire = << >> /\ got = << >> /\ hit = {} /\ written = 0 /\ damage = 0
      /\ m_state = "S0_AWAIT" /\ m_buf = << >> /\ m_half = 0
  BY GCommBaseAssumption DEF CommInit
<1>2. Len(Payloads) \in Nat /\ Len(wire) = 0
  BY <1>1
<1>3. CommTypeOK
  BY <1>1, <1>2, EmptySeq DEF CommTypeOK, States
<1>4. WireInv /\ Intact /\ InStep /\ FaultCostsTwoFrames
  BY <1>1, <1>2 DEF WireInv, Intact, InStep, FaultCostsTwoFrames
<1> QED
  BY <1>3, <1>4, InitReader DEF FrameInv

LEMMA WriteFits == FrameInv /\ writeFrame => FrameInv'
<1> SUFFICES ASSUME FrameInv, writeFrame PROVE FrameInv'
  OBVIOUS
<1>1. CommTypeOK /\ ReaderInv /\ WireInv /\ Intact /\ InStep /\ FaultCostsTwoFrames
  BY DEF FrameInv
<1>2. /\ wire' \in Seq(Chars) /\ WireInv' /\ Intact'
      /\ Len(wire') > Len(wire) /\ \A i \in 1..Len(wire) : wire'[i] = wire[i]
      /\ Len(wire) = 0 => wire'[1].of = written' /\ wire'[1].at = 1
      /\ wire'[Len(wire')].of = written'
  BY <1>1, WrittenBehind
<1>3. /\ written' = written + 1 /\ written < Len(Payloads)
      /\ UNCHANGED <<m_state, m_buf, m_half, got, hit, damage>>
  BY DEF writeFrame, reader
<1>4. written \in Nat /\ Len(Payloads) \in Nat /\ hit \subseteq 1..written
      /\ Len(wire) \in Nat /\ Len(wire') \in Nat
  <2>1. Len(Payloads) \in Nat
    BY GCommBaseAssumption
  <2>2. written \in Nat /\ hit \subseteq 1..written
    BY <1>1, <2>1 DEF CommTypeOK
  <2>3. Len(wire') \in Nat
    BY <1>2
  <2>4. Len(wire) \in Nat
    BY <1>1 DEF CommTypeOK
  <2> QED
    BY <2>1, <2>2, <2>3, <2>4
<1>5. CommTypeOK'
  BY <1>1, <1>2, <1>3, <1>4 DEF CommTypeOK, Chars
<1>6. ReaderInv'
  BY <1>1, <1>3 DEF ReaderInv, WritesInBounds
<1>7. InStep'
  <2>1. Len(wire') > 0
    BY <1>2, <1>4
  <2>2. CASE Len(wire) = 0
    <3>1. wire'[1].of = written + 1 /\ wire'[1].at = 1 /\ (written + 1) - 1 = written /\ ~(1 > 1)
      BY <1>2, <1>3, <1>4, <2>2
    <3>2. written \notin hit => m_state = "S0_AWAIT"
      BY <1>1, <2>2 DEF InStep
    <3> QED
      BY <1>3, <2>1, <3>1, <3>2 DEF InStep
  <2>3. CASE Len(wire) # 0
    <3>1. wire'[1] = wire[1] /\ Len(wire) > 0
      BY <1>2, <1>4, <2>3
    <3> QED
      BY <1>1, <1>3, <2>1, <3>1 DEF InStep, HasRead
  <2> QED
    BY <2>2, <2>3
<1>8. FaultCostsTwoFrames'
  <2> SUFFICES ASSUME NEW n \in 1..(written + 1), {n - 1, n} \cap hit = {},
                      \A i \in DOMAIN wire' : wire'[i].of # n, Fits(Payloads[n])
               PROVE  Payloads[n] \in Range(got)
    BY <1>3 DEF FaultCostsTwoFrames
  <2>1. DOMAIN wire' = 1..Len(wire') /\ DOMAIN wire = 1..Len(wire)
    BY <1>1, <1>2 DEF CommTypeOK
  <2>2. Len(wire') \in DOMAIN wire'
    BY <1>2, <1>4, <2>1
  <2>3. n \in 1..written
    BY <1>2, <1>3, <1>4, <2>2
  <2>4. \A i \in DOMAIN wire : wire[i].of # n
    BY <1>2, <1>4, <2>1
  <2> QED
    BY <1>1, <2>3, <2>4 DEF FaultCostsTwoFrames
<1> QED
  BY <1>2, <1>5, <1>6, <1>7, <1>8 DEF FrameInv

LEMMA ReadFits == FrameInv /\ P_fsm => FrameInv'
<1> SUFFICES ASSUME FrameInv, P_fsm PROVE FrameInv'
  OBVIOUS
<1> DEFINE c == wire[1]
           d == wire'[1]
           w == Len(wire)
<1>1. CommTypeOK /\ ReaderInv /\ WireInv /\ Intact /\ InStep /\ FaultCostsTwoFrames
  BY DEF FrameInv
<1>2. /\ wire # << >> /\ wire' = Tail(wire)
      /\ UNCHANGED <<written, hit, damage>>
  BY DEF P_fsm
<1>3. /\ wire' \in Seq(Chars) /\ WireInv' /\ Intact'
      /\ w \in Nat \ {0} /\ Len(wire') = w - 1
      /\ \A i \in 1..(w - 1) : wire'[i] = wire[i + 1]
      /\ Head(wire) = c /\ c \in Chars
  BY <1>1, <1>2, TakenOff
<1>4. ReaderInv'
  BY <1>1, CharacterReader
<1>5. got' = got \/ \E x \in Seq(0..255) : got' = Append(got, x)
  <2>1. m_buf \in Seq(0..255) /\ (P_crc_check(m_buf) => Len(m_buf) > CRC_SIZE)
    BY <1>1 DEF ReaderInv, P_crc_check
  <2>2. P_crc_check(m_buf) => SubSeq(m_buf, 1, Len(m_buf) - CRC_SIZE) \in Seq(0..255)
    <3> DEFINE B == 0..255
    <3>1. m_buf \in Seq(B)
      BY <2>1
    <3> HIDE DEF B
    <3>2. ASSUME P_crc_check(m_buf)
          PROVE  Len(m_buf) - CRC_SIZE \in Nat /\ Len(m_buf) - CRC_SIZE <= Len(m_buf)
      BY <2>1, <3>1, <3>2 DEF CRC_SIZE
    <3>3. ASSUME P_crc_check(m_buf) PROVE SubSeq(m_buf, 1, Len(m_buf) - CRC_SIZE) \in Seq(B)
      BY <3>1, <3>2, <3>3
    <3> QED
      BY <3>3 DEF B
  <2>3. got' = got \/ (P_crc_check(m_buf) /\ Succeeds)
    BY DEF P_fsm, Await, GetHi, GetLo, Fails, Goes
  <2> QED
    BY <2>2, <2>3 DEF Succeeds
<1>6. got' \in Seq(Seq(0..255)) /\ Range(got) \subseteq Range(got')
  <2>1. got \in Seq(Seq(0..255))
    BY <1>1 DEF CommTypeOK
  <2> QED
    BY <1>5, <2>1, GotGrows
<1>7. CommTypeOK'
  BY <1>1, <1>2, <1>3, <1>4, <1>6 DEF CommTypeOK, ReaderInv, Chars
<1>8. c.of \in 1..written /\ c.of \in 1..Len(Payloads) /\ c.at \in 0..EndOf(c.of) /\ c.at \in Nat
      /\ EndOf(c.of) \in Nat /\ EndOf(c.of) > 1
  <2>1. 1 \in 1..w
    BY <1>3
  <2>2. c.of \in 1..written /\ c.of \in 1..Len(Payloads) /\ c.at \in 0..EndOf(c.of) /\ c.at \in Nat
    BY <1>1, <1>3, <2>1 DEF WireInv, Chars
  <2> QED
    BY <2>2, Payload
<1>9. w = 1 => c.of = written /\ c.at = EndOf(c.of)
  BY <1>1, <1>3 DEF WireInv
<1>10. w > 1 => Continues(c, d)
  <2>1. ASSUME w > 1 PROVE 1 \in 1..(w - 1) /\ 1 + 1 = 2
    BY <1>3, <2>1
  <2>2. ASSUME w > 1 PROVE Continues(wire[1], wire[1 + 1]) /\ d = wire[1 + 1]
    BY <1>1, <1>3, <2>1, <2>2 DEF WireInv
  <2> QED
    BY <2>2
<1>11. ASSUME c.of \notin hit, c.at = EndOf(c.of) \/ c.at = 0
       PROVE  m_state' = "S0_AWAIT"
  <2>1. CASE c.at = EndOf(c.of)
    <3>1. IsChar(c.ch, c.at, BytesOf(c.of))
      BY <1>1, <1>3, <1>8, <1>11, <2>1, HeadIs
    <3>2. c.at = 2 * Len(BytesOf(c.of)) + 2
      BY <1>8, <2>1, BytesAre
    <3>3. c.ch = LF
      BY <3>1, <3>2 DEF IsChar
    <3> QED
      BY <1>1, <1>3, <3>3, TerminalEnds
  <2>2. CASE c.at = 0
    <3>1. 1 \in 1..w
      BY <1>3
    <3>2. c.ch \in {LF, CR}
      BY <1>1, <1>11, <2>2, <3>1 DEF Intact
    <3> QED
      BY <1>1, <1>3, <3>2, TerminalEnds
  <2> QED
    BY <1>11, <2>1, <2>2
<1>12. InStep'
  <2>1. CASE w = 1
    <3>1. Len(wire') = 0 /\ ~(Len(wire') > 0)
      BY <1>3, <2>1
    <3>2. written \notin hit => m_state' = "S0_AWAIT"
      BY <1>9, <1>11, <2>1
    <3> QED
      BY <1>2, <3>1, <3>2 DEF InStep
  <2>2. CASE w > 1
    <3> SUFFICES ASSUME NEW n, n = d.of, NEW k, k = d.at, n - 1 \notin hit, n \notin hit
                 PROVE  /\ k <= 1 => m_state' = "S0_AWAIT"
                        /\ k > 1 /\ Fits(Payloads[n]) => HasRead(n, k)'
      <4>1. Len(wire') # 0
        BY <1>3, <2>2
      <4> QED
        BY <1>2, <4>1 DEF InStep, HasRead
    <3>1. Continues(c, d)
      BY <1>10, <2>2
    <3>2. CASE c.at = 0
      <4>1. c.of \notin hit
        BY <3>1, <3>2 DEF Continues
      <4>2. d.at = 1
        <5>1. 1 \in 1..w /\ d = wire[1 + 1]
          BY <1>3, <2>2
        <5> QED
          BY <1>1, <3>2, <4>1, <5>1 DEF Intact
      <4> QED
        BY <1>11, <3>2, <4>1, <4>2
    <3>3. CASE c.at = EndOf(c.of) /\ c.at # 0
      <4>1. d.of = c.of + 1 /\ d.at = 1
        BY <3>1, <3>3 DEF Continues
      <4>2. c.of \notin hit
        <5>1. d.of - 1 = c.of
          BY <1>8, <4>1
        <5> QED
          BY <5>1
      <4> QED
        BY <1>11, <3>3, <4>1, <4>2
    <3>4. CASE c.at # EndOf(c.of) /\ c.at # 0
      <4>1. n = c.of /\ k = c.at + 1 /\ ~(k <= 1) /\ k \in Nat /\ k - 1 = c.at /\ (k - 1) + 1 = k
        BY <1>8, <3>1, <3>4 DEF Continues
      <4>2. ASSUME Fits(Payloads[n]) PROVE HasRead(n, k)'
        <5> DEFINE i == k - 1
        <5>1. /\ n = wire[1].of /\ i = wire[1].at /\ i # 0 /\ i # EndOf(n) /\ i + 1 = k
              /\ n \notin hit /\ n - 1 \notin hit /\ Fits(Payloads[n]) /\ Len(wire) > 0
          BY <1>3, <3>4, <4>1, <4>2
        <5> HIDE DEF i
        <5>2. HasRead(n, i + 1)'
          BY <5>1, CharacterRead
        <5> QED
          BY <5>1, <5>2
      <4> QED
        BY <4>1, <4>2
    <3> QED
      BY <3>2, <3>3, <3>4
  <2> QED
    BY <1>3, <2>1, <2>2
<1>13. FaultCostsTwoFrames'
  <2> SUFFICES ASSUME NEW n \in 1..written, {n - 1, n} \cap hit = {},
                      \A i \in DOMAIN wire' : wire'[i].of # n, Fits(Payloads[n])
               PROVE  Payloads[n] \in Range(got')
    BY <1>2 DEF FaultCostsTwoFrames
  <2>1. DOMAIN wire' = 1..(w - 1) /\ DOMAIN wire = 1..w
    BY <1>1, <1>3 DEF CommTypeOK
  <2>2. \A i \in 1..(w - 1) : wire[i + 1].of # n
    BY <1>3, <2>1
  <2>3. CASE c.of # n
    <3>1. \A i \in DOMAIN wire : wire[i].of # n
      <4> SUFFICES ASSUME NEW i \in 1..w PROVE wire[i].of # n
        BY <2>1
      <4>1. i = 1 \/ (i - 1 \in 1..(w - 1) /\ (i - 1) + 1 = i)
        BY <1>3
      <4> QED
        BY <2>2, <2>3, <4>1
    <3> QED
      BY <1>1, <1>6, <3>1 DEF FaultCostsTwoFrames
  <2>4. CASE c.of = n
    <3>1. c.at = EndOf(n)
      <4>1. CASE w = 1
        BY <1>9, <2>4, <4>1
      <4>2. CASE w > 1
        <5>1. d.of # n /\ Continues(c, d)
          <6>1. 1 \in DOMAIN wire'
            BY <1>3, <2>1, <4>2
          <6> QED
            BY <1>10, <4>2, <6>1
        <5> QED
          BY <2>4, <5>1 DEF Continues
      <4> QED
        BY <1>3, <4>1, <4>2
    <3>2. got' = Append(got, Payloads[n])
      BY <1>3, <1>8, <2>4, <3>1, LastRead
    <3>3. got \in Seq(Seq(0..255)) /\ Payloads[n] \in Seq(0..255)
      BY <1>1, <1>8, <2>4, Payload DEF CommTypeOK
    <3> QED
      BY <3>2, <3>3, GotGrows
  <2> QED
    BY <2>3, <2>4
<1> QED
  BY <1>3, <1>4, <1>7, <1>12, <1>13 DEF FrameInv

\* The faults: what they touch is given up.
LEMMA DropFits == FrameInv /\ Drop => FrameInv'
<1> SUFFICES ASSUME FrameInv, Drop PROVE FrameInv'
  OBVIOUS
<1> DEFINE c == wire[1]
           d == wire'[1]
           w == Len(wire)
<1>1. CommTypeOK /\ ReaderInv /\ WireInv /\ Intact /\ InStep /\ FaultCostsTwoFrames
  BY DEF FrameInv
<1>2. /\ wire # << >> /\ wire' = Tail(wire) /\ damage < MaxDamage /\ damage' = damage + 1
      /\ hit' = hit \cup {Head(wire).of}
      /\ UNCHANGED <<m_state, m_buf, m_half, written, got>>
  BY DEF Drop, Fault, reader
<1>3. /\ wire' \in Seq(Chars) /\ WireInv' /\ Intact'
      /\ w \in Nat \ {0} /\ Len(wire') = w - 1
      /\ \A i \in 1..(w - 1) : wire'[i] = wire[i + 1]
      /\ Head(wire) = c /\ c \in Chars
  BY <1>1, <1>2, TakenOff
<1>4. 1 \in 1..w /\ c.of \in 1..written /\ hit' = hit \cup {c.of}
  <2>1. 1 \in 1..w
    BY <1>3
  <2> QED
    BY <1>1, <1>2, <1>3, <2>1 DEF WireInv
<1>5. CommTypeOK'
  <2>1. damage' \in 0..MaxDamage
    <3>1. damage \in 0..MaxDamage /\ MaxDamage \in Nat
      BY <1>1, GCommBaseAssumption DEF CommTypeOK
    <3> QED
      BY <1>2, <3>1
  <2>2. hit' \subseteq 1..written
    BY <1>1, <1>2, <1>3, <1>4 DEF CommTypeOK
  <2> QED
    BY <1>1, <1>2, <1>3, <1>4, <2>1, <2>2 DEF CommTypeOK, Chars
<1>6. ReaderInv'
  BY <1>1, <1>2 DEF ReaderInv, WritesInBounds
<1>7. InStep'
  <2>1. CASE w = 1
    <3>1. ~(Len(wire') > 0) /\ written \in hit'
      BY <1>1, <1>3, <1>4, <2>1 DEF WireInv
    <3> QED
      BY <1>2, <3>1 DEF InStep
  <2>2. CASE w > 1
    <3>1. 1 \in 1..(w - 1) /\ d = wire[1 + 1]
      BY <1>3, <2>2
    <3>2. d.of = c.of \/ d.of = c.of + 1
      BY <1>1, <3>1 DEF WireInv, Continues
    <3>3. d.of \in hit' \/ d.of - 1 \in hit'
      <4>1. d.of = c.of \/ d.of - 1 = c.of
        BY <1>4, <3>2
      <4> QED
        BY <1>4, <4>1
    <3>4. Len(wire') # 0
      BY <1>3, <2>2
    <3> QED
      BY <3>3, <3>4 DEF InStep
  <2> QED
    BY <1>3, <2>1, <2>2
<1>8. FaultCostsTwoFrames'
  <2> SUFFICES ASSUME NEW n \in 1..written, {n - 1, n} \cap hit' = {},
                      \A i \in DOMAIN wire' : wire'[i].of # n, Fits(Payloads[n])
               PROVE  Payloads[n] \in Range(got)
    BY <1>2 DEF FaultCostsTwoFrames
  <2>1. DOMAIN wire' = 1..(w - 1) /\ DOMAIN wire = 1..w
    BY <1>1, <1>3 DEF CommTypeOK
  <2>2. c.of # n /\ {n - 1, n} \cap hit = {}
    BY <1>4
  <2>3. \A i \in DOMAIN wire : wire[i].of # n
    <3> SUFFICES ASSUME NEW i \in 1..w PROVE wire[i].of # n
      BY <2>1
    <3>1. i = 1 \/ (i - 1 \in 1..(w - 1) /\ (i - 1) + 1 = i)
      BY <1>3
    <3> QED
      BY <1>3, <2>1, <2>2, <3>1
  <2> QED
    BY <1>1, <2>2, <2>3 DEF FaultCostsTwoFrames
<1> QED
  BY <1>3, <1>5, <1>6, <1>7, <1>8 DEF FrameInv

LEMMA ChangeFits == FrameInv /\ Change => FrameInv'
<1> SUFFICES ASSUME FrameInv, Change PROVE FrameInv'
  OBVIOUS
<1>1. CommTypeOK /\ ReaderInv /\ WireInv /\ Intact /\ InStep /\ FaultCostsTwoFrames
  BY DEF FrameInv
<1>2. /\ wire' \in Seq(Chars) /\ WireInv' /\ Intact' /\ Len(wire') = Len(wire) /\ Len(wire) > 0
      /\ \A i \in 1..Len(wire) : wire'[i].of = wire[i].of /\ wire'[i].at = wire[i].at
      /\ hit' = hit \cup {wire[1].of} /\ wire[1].of \in 1..written
  BY <1>1, Changed1
<1>3. /\ damage < MaxDamage /\ damage' = damage + 1
      /\ UNCHANGED <<m_state, m_buf, m_half, written, got>>
  BY DEF Change, Fault, reader
<1>4. CommTypeOK'
  <2>1. damage' \in 0..MaxDamage
    <3>1. damage \in 0..MaxDamage /\ MaxDamage \in Nat
      BY <1>1, GCommBaseAssumption DEF CommTypeOK
    <3> QED
      BY <1>3, <3>1
  <2>2. hit' \subseteq 1..written
    BY <1>1, <1>2, <1>3 DEF CommTypeOK
  <2> QED
    BY <1>1, <1>2, <1>3, <2>1, <2>2 DEF CommTypeOK, Chars
<1>5. ReaderInv'
  BY <1>1, <1>3 DEF ReaderInv, WritesInBounds
<1>6. DOMAIN wire = 1..Len(wire) /\ DOMAIN wire' = 1..Len(wire) /\ Len(wire) \in Nat
  BY <1>1, <1>2 DEF CommTypeOK
<1>7. InStep'
  <2>1. wire'[1].of \in hit' /\ Len(wire') # 0
    BY <1>2, <1>6
  <2> QED
    BY <2>1 DEF InStep
<1>8. FaultCostsTwoFrames'
  BY <1>1, <1>2, <1>3, <1>6 DEF FaultCostsTwoFrames
<1> QED
  BY <1>2, <1>4, <1>5, <1>7, <1>8 DEF FrameInv

LEMMA StrayFits == FrameInv /\ Stray => FrameInv'
<1> SUFFICES ASSUME FrameInv, Stray PROVE FrameInv'
  OBVIOUS
<1>1. CommTypeOK /\ ReaderInv /\ WireInv /\ Intact /\ InStep /\ FaultCostsTwoFrames
  BY DEF FrameInv
<1>2. /\ wire' \in Seq(Chars) /\ WireInv' /\ Intact' /\ Len(wire') = Len(wire) + 1
      /\ wire'[1].of = wire[1].of /\ wire'[1].at = 0
      /\ Len(wire) > 0 /\ (wire[1].of \notin hit => wire[1].at = 1)
      /\ \A i \in 1..Len(wire) : wire'[i + 1] = wire[i]
  BY <1>1, StrayBefore
<1>3. /\ damage < MaxDamage /\ damage' = damage + 1
      /\ UNCHANGED <<m_state, m_buf, m_half, written, got, hit>>
  BY DEF Stray, Fault, reader
<1>4. CommTypeOK'
  <2>1. damage' \in 0..MaxDamage
    <3>1. damage \in 0..MaxDamage /\ MaxDamage \in Nat
      BY <1>1, GCommBaseAssumption DEF CommTypeOK
    <3> QED
      BY <1>3, <3>1
  <2>2. hit' \subseteq 1..written
    BY <1>1, <1>2, <1>3 DEF CommTypeOK
  <2> QED
    BY <1>1, <1>2, <1>3, <2>1, <2>2 DEF CommTypeOK, Chars
<1>5. ReaderInv'
  BY <1>1, <1>3 DEF ReaderInv, WritesInBounds
<1>6. DOMAIN wire = 1..Len(wire) /\ DOMAIN wire' = 1..(Len(wire) + 1) /\ Len(wire) \in Nat
  BY <1>1, <1>2 DEF CommTypeOK
<1>7. InStep'
  <2>1. Len(wire') # 0 /\ ~(wire'[1].at > 1)
    BY <1>2, <1>6
  <2>2. wire[1].of - 1 \notin hit /\ wire[1].of \notin hit => m_state = "S0_AWAIT"
    BY <1>1, <1>2 DEF InStep
  <2> QED
    BY <1>2, <1>3, <2>1, <2>2 DEF InStep
<1>8. FaultCostsTwoFrames'
  <2> SUFFICES ASSUME NEW n \in 1..written, {n - 1, n} \cap hit = {},
                      \A i \in DOMAIN wire' : wire'[i].of # n, Fits(Payloads[n])
               PROVE  Payloads[n] \in Range(got)
    BY <1>3 DEF FaultCostsTwoFrames
  <2>1. \A i \in DOMAIN wire : wire[i].of # n
    <3> SUFFICES ASSUME NEW i \in 1..Len(wire) PROVE wire[i].of # n
      BY <1>6
    <3>1. i + 1 \in DOMAIN wire'
      BY <1>6
    <3> QED
      BY <1>2, <3>1
  <2> QED
    BY <1>1, <2>1 DEF FaultCostsTwoFrames
<1> QED
  BY <1>2, <1>4, <1>5, <1>7, <1>8 DEF FrameInv

\* A fault costs at most the frame it touches and the next one: for every
\* number and contents of the frames, every size of the buffer, every number
\* of faults and whatever they make of the characters.
THEOREM FramesSurviveHolds == CommSpec => []FramesSurvive
<1>1. FrameInv /\ [CommNext]_commVars => FrameInv'
  <2> SUFFICES ASSUME FrameInv, [CommNext]_commVars PROVE FrameInv'
    OBVIOUS
  <2>1. CASE UNCHANGED commVars
    <3> USE <2>1 DEF commVars, reader, FrameInv
    <3>1. CommTypeOK'
      BY DEF CommTypeOK
    <3>2. ReaderInv'
      BY DEF ReaderInv, WritesInBounds
    <3>3. WireInv' /\ Intact'
      BY DEF WireInv, Intact
    <3>4. InStep'
      BY DEF InStep, HasRead
    <3>5. FaultCostsTwoFrames'
      BY DEF FaultCostsTwoFrames
    <3> QED
      BY <3>1, <3>2, <3>3, <3>4, <3>5
  <2> QED
    BY <2>1, WriteFits, ReadFits, DropFits, ChangeFits, StrayFits DEF CommNext
<1>2. FrameInv => FramesSurvive
  BY DEF FrameInv, FramesSurvive
<1> QED
  BY <1>1, <1>2, FitFromStart, PTL DEF CommSpec

-----------------------------------------------------------------------------
(***************************************************************************)
(* The check sum refuses every frame with one wrong byte: each bit shifted *)
(* out comes back as the highest one, so that two different registers stay *)
(* different.                                                              *)
(***************************************************************************)

Registers == SUBSET (0..15)

LEMMA BitKeeps ==
  ASSUME NEW r \in Registers
  PROVE  /\ P_crc_bit(r) \in Registers
         /\ 15 \in P_crc_bit(r) <=> 0 \in r
         /\ \A b \in 0..14 : b + 1 \in r <=>
              IF 0 \in r /\ b \in {13, 0} THEN b \notin P_crc_bit(r) ELSE b \in P_crc_bit(r)
<1> DEFINE shifted == {b - 1 : b \in r \ {0}}
<1>1. \A b \in r : b \in 0..15
  BY DEF Registers
<1>2. \A c : c \in shifted <=> c \in 0..14 /\ c + 1 \in r
  <2>1. ASSUME NEW b \in r \ {0} PROVE b - 1 \in 0..14 /\ (b - 1) + 1 = b
    BY <1>1
  <2>2. ASSUME NEW c \in 0..14, c + 1 \in r PROVE c + 1 \in r \ {0} /\ (c + 1) - 1 = c
    BY <2>2
  <2> QED
    BY <2>1, <2>2
<1>3. P_crc_bit(r) = IF 0 \in r THEN Xor(shifted, {15, 13, 0}) ELSE shifted
  BY DEF P_crc_bit
<1> HIDE DEF shifted
<1>4. \A c : c \in P_crc_bit(r) <=>
        IF 0 \in r /\ c \in {15, 13, 0} THEN c \notin shifted ELSE c \in shifted
  BY <1>3 DEF Xor
<1>5. P_crc_bit(r) \in Registers
  <2>1. \A c \in P_crc_bit(r) : c \in 0..15
    BY <1>2, <1>4
  <2> QED
    BY <2>1 DEF Registers
<1>6. 15 \notin shifted
  BY <1>2
<1>7. ASSUME NEW b \in 0..14
      PROVE  b + 1 \in r <=>
              IF 0 \in r /\ b \in {13, 0} THEN b \notin P_crc_bit(r) ELSE b \in P_crc_bit(r)
  <2>1. b # 15 /\ (b + 1 \in r <=> b \in shifted)
    BY <1>2
  <2> QED
    BY <1>4, <2>1
<1> QED
  BY <1>4, <1>5, <1>6, <1>7

LEMMA BitTells ==
  ASSUME NEW r \in Registers, NEW s \in Registers, P_crc_bit(r) = P_crc_bit(s)
  PROVE  r = s
<1>1. 0 \in r <=> 0 \in s
  BY BitKeeps
<1>2. \A b \in 0..14 : b + 1 \in r <=> b + 1 \in s
  <2> SUFFICES ASSUME NEW b \in 0..14 PROVE b + 1 \in r <=> b + 1 \in s
    OBVIOUS
  <2>1. b + 1 \in r <=>
          IF 0 \in r /\ b \in {13, 0} THEN b \notin P_crc_bit(r) ELSE b \in P_crc_bit(r)
    BY BitKeeps
  <2>2. b + 1 \in s <=>
          IF 0 \in s /\ b \in {13, 0} THEN b \notin P_crc_bit(s) ELSE b \in P_crc_bit(s)
    BY BitKeeps
  <2> QED
    BY <1>1, <2>1, <2>2
<1>3. \A b \in 0..15 : b \in r <=> b \in s
  <2> SUFFICES ASSUME NEW b \in 0..15 PROVE b \in r <=> b \in s
    OBVIOUS
  <2>1. b = 0 \/ (b - 1 \in 0..14 /\ (b - 1) + 1 = b)
    OBVIOUS
  <2> QED
    BY <1>1, <1>2, <2>1
<1> QED
  BY <1>3 DEF Registers

Two(r) == P_crc_bit(P_crc_bit(r))
Four(r) == Two(Two(r))

LEMMA FourTells ==
  ASSUME NEW r \in Registers, NEW s \in Registers
  PROVE  Four(r) \in Registers /\ (Four(r) = Four(s) => r = s)
<1>1. \A q \in Registers : Two(q) \in Registers
  BY BitKeeps DEF Two
<1>2. \A q, t \in Registers : Two(q) = Two(t) => q = t
  BY BitKeeps, BitTells DEF Two
<1> QED
  BY <1>1, <1>2 DEF Four

\* The set of a byte's bits tells the byte.
LEMMA BitsTell ==
  ASSUME NEW x \in 0..255, NEW y \in 0..255, Bits(x) = Bits(y)
  PROVE  x = y
<1>1. \A b \in 0..7 : (x \div Weight[b + 1]) % 2 = 1 <=> (y \div Weight[b + 1]) % 2 = 1
  BY DEF Bits
<1>2. /\ (x \div 1) % 2 = 1 <=> (y \div 1) % 2 = 1
      /\ (x \div 2) % 2 = 1 <=> (y \div 2) % 2 = 1
      /\ (x \div 4) % 2 = 1 <=> (y \div 4) % 2 = 1
      /\ (x \div 8) % 2 = 1 <=> (y \div 8) % 2 = 1
      /\ (x \div 16) % 2 = 1 <=> (y \div 16) % 2 = 1
      /\ (x \div 32) % 2 = 1 <=> (y \div 32) % 2 = 1
      /\ (x \div 64) % 2 = 1 <=> (y \div 64) % 2 = 1
      /\ (x \div 128) % 2 = 1 <=> (y \div 128) % 2 = 1
  <2>1. (x \div Weight[0 + 1]) % 2 = 1 <=> (y \div Weight[0 + 1]) % 2 = 1
    BY <1>1
  <2>2. (x \div Weight[1 + 1]) % 2 = 1 <=> (y \div Weight[1 + 1]) % 2 = 1
    BY <1>1
  <2>3. (x \div Weight[2 + 1]) % 2 = 1 <=> (y \div Weight[2 + 1]) % 2 = 1
    BY <1>1
  <2>4. (x \div Weight[3 + 1]) % 2 = 1 <=> (y \div Weight[3 + 1]) % 2 = 1
    BY <1>1
  <2>5. (x \div Weight[4 + 1]) % 2 = 1 <=> (y \div Weight[4 + 1]) % 2 = 1
    BY <1>1
  <2>6. (x \div Weight[5 + 1]) % 2 = 1 <=> (y \div Weight[5 + 1]) % 2 = 1
    BY <1>1
  <2>7. (x \div Weight[6 + 1]) % 2 = 1 <=> (y \div Weight[6 + 1]) % 2 = 1
    BY <1>1
  <2>8. (x \div Weight[7 + 1]) % 2 = 1 <=> (y \div Weight[7 + 1]) % 2 = 1
    BY <1>1
  <2> QED
    BY <2>1, <2>2, <2>3, <2>4, <2>5, <2>6, <2>7, <2>8, WeightIs
<1>3. \A z \in 0..255 :
        z = 128 * ((z \div 128) % 2) + 64 * ((z \div 64) % 2) + 32 * ((z \div 32) % 2)
              + 16 * ((z \div 16) % 2) + 8 * ((z \div 8) % 2) + 4 * ((z \div 4) % 2)
              + 2 * ((z \div 2) % 2) + ((z \div 1) % 2)
  BY SMTT(60)
<1>4. \A k, l \in Int : (k % 2 = 1 <=> l % 2 = 1) => k % 2 = l % 2
  OBVIOUS
<1>5. (x \div 1) % 2 = (y \div 1) % 2
  BY <1>2, <1>4
<1>6. (x \div 2) % 2 = (y \div 2) % 2
  BY <1>2, <1>4
<1>7. (x \div 4) % 2 = (y \div 4) % 2
  BY <1>2, <1>4
<1>8. (x \div 8) % 2 = (y \div 8) % 2
  BY <1>2, <1>4
<1>9. (x \div 16) % 2 = (y \div 16) % 2
  BY <1>2, <1>4
<1>10. (x \div 32) % 2 = (y \div 32) % 2
  BY <1>2, <1>4
<1>11. (x \div 64) % 2 = (y \div 64) % 2
  BY <1>2, <1>4
<1>12. (x \div 128) % 2 = (y \div 128) % 2
  BY <1>2, <1>4
<1> DEFINE b(z, w) == (z \div w) % 2
<1>13. \A z \in 0..255 :
         z = 128 * b(z, 128) + 64 * b(z, 64) + 32 * b(z, 32) + 16 * b(z, 16) + 8 * b(z, 8)
               + 4 * b(z, 4) + 2 * b(z, 2) + b(z, 1)
  BY <1>3
<1>14. /\ b(x, 1) = b(y, 1) /\ b(x, 2) = b(y, 2) /\ b(x, 4) = b(y, 4) /\ b(x, 8) = b(y, 8)
       /\ b(x, 16) = b(y, 16) /\ b(x, 32) = b(y, 32) /\ b(x, 64) = b(y, 64)
       /\ b(x, 128) = b(y, 128)
  BY <1>5, <1>6, <1>7, <1>8, <1>9, <1>10, <1>11, <1>12
<1> HIDE DEF b
<1> QED
  BY <1>13, <1>14

\* A byte added tells the register before it, and a register tells the byte.
LEMMA ByteTells ==
  /\ \A r \in Registers : \A x \in 0..255 : P_crc_byte_add(r, x) \in Registers
  /\ \A r, s \in Registers : \A x \in 0..255 :
       P_crc_byte_add(r, x) = P_crc_byte_add(s, x) => r = s
  /\ \A r \in Registers : \A x, y \in 0..255 :
       P_crc_byte_add(r, x) = P_crc_byte_add(r, y) => x = y
<1>1. \A q, z : P_crc_byte_add(q, z) = Four(Four(Xor(q, Bits(z))))
  BY DEF P_crc_byte_add, Four, Two
<1>2. \A q \in Registers : \A z : Xor(q, Bits(z)) \in Registers
  <2> SUFFICES ASSUME NEW q \in Registers, NEW z PROVE Xor(q, Bits(z)) \in Registers
    OBVIOUS
  <2>1. \A b \in Bits(z) : b \in 0..7
    BY DEF Bits
  <2>2. \A b \in Bits(z) : b \in 0..15
    BY <2>1
  <2> QED
    BY <2>2 DEF Registers, Xor
<1>3. \A q, t \in Registers : Four(q) \in Registers /\ (Four(q) = Four(t) => q = t)
  BY FourTells
<1>4. \A q, t \in Registers : Four(Four(q)) \in Registers /\ (Four(Four(q)) = Four(Four(t)) => q = t)
  BY <1>3
<1>5. \A a, q, t : (Xor(q, a) = Xor(t, a) => q = t) /\ (Xor(a, q) = Xor(a, t) => q = t)
  <2> SUFFICES ASSUME NEW a, NEW q, NEW t
               PROVE  (Xor(q, a) = Xor(t, a) => q = t) /\ (Xor(a, q) = Xor(a, t) => q = t)
    OBVIOUS
  <2>1. \A u, v, c : c \in Xor(u, v) <=> (c \in u /\ c \notin v) \/ (c \in v /\ c \notin u)
    BY DEF Xor
  <2>2. ASSUME Xor(q, a) = Xor(t, a) PROVE \A c : c \in q <=> c \in t
    BY <2>1, <2>2
  <2>3. ASSUME Xor(a, q) = Xor(a, t) PROVE \A c : c \in q <=> c \in t
    BY <2>1, <2>3
  <2> QED
    BY <2>2, <2>3
<1>6. \A r \in Registers : \A x \in 0..255 : P_crc_byte_add(r, x) \in Registers
  BY <1>1, <1>2, <1>4
<1>7. \A r, s \in Registers : \A x \in 0..255 :
        P_crc_byte_add(r, x) = P_crc_byte_add(s, x) => r = s
  <2> SUFFICES ASSUME NEW r \in Registers, NEW s \in Registers, NEW x \in 0..255,
                      P_crc_byte_add(r, x) = P_crc_byte_add(s, x)
               PROVE  r = s
    OBVIOUS
  <2>1. Xor(r, Bits(x)) = Xor(s, Bits(x))
    BY <1>1, <1>2, <1>4
  <2> QED
    BY <1>5, <2>1
<1>8. \A r \in Registers : \A x, y \in 0..255 :
        P_crc_byte_add(r, x) = P_crc_byte_add(r, y) => x = y
  <2> SUFFICES ASSUME NEW r \in Registers, NEW x \in 0..255, NEW y \in 0..255,
                      P_crc_byte_add(r, x) = P_crc_byte_add(r, y)
               PROVE  x = y
    OBVIOUS
  <2>1. Xor(r, Bits(x)) = Xor(r, Bits(y))
    BY <1>1, <1>2, <1>4
  <2>2. Bits(x) = Bits(y)
    BY <1>5, <2>1
  <2> QED
    BY <2>2, BitsTell
<1> QED
  BY <1>6, <1>7, <1>8

\* f holds the register after each of the bytes.
Runs(f, bytes) ==
  /\ f \in [0..Len(bytes) -> Registers] /\ f[0] = 0..15
  /\ \A i \in 1..Len(bytes) : f[i] = P_crc_byte_add(f[i - 1], bytes[i])

TwoBytes(done) == <<FromBits({b - 8 : b \in done \ (0..7)}), FromBits(done \cap (0..7))>>

LEMMA SumRuns ==
  ASSUME NEW bytes \in Seq(0..255)
  PROVE  \E f : Runs(f, bytes) /\ P_crc(bytes) = TwoBytes(f[Len(bytes)])
<1> DEFINE Step(r, n) == P_crc_byte_add(r, bytes[n])
           Conforms(f, m) == f = [n \in 0..m |-> IF n = 0 THEN 0..15 ELSE Step(f[n - 1], n)]
           Good == {m \in Nat : \E f : Conforms(f, m)}
<1>1. 0 \in Good
  <2>1. Conforms([n \in 0..0 |-> 0..15], 0)
    OBVIOUS
  <2> QED
    BY <2>1
<1>2. ASSUME NEW m \in Good PROVE m + 1 \in Good
  <2>1. PICK f : Conforms(f, m)
    OBVIOUS
  <2> DEFINE g == [n \in 0..(m + 1) |-> IF n = m + 1 THEN Step(f[m], m + 1) ELSE f[n]]
  <2> HIDE DEF Step
  <2>2. \A n \in 0..(m + 1) : g[n] = IF n = 0 THEN 0..15 ELSE Step(g[n - 1], n)
    <3>1. ASSUME NEW n \in 0..m PROVE f[n] = IF n = 0 THEN 0..15 ELSE Step(f[n - 1], n)
      BY <2>1
    <3> QED
      BY <3>1
  <2>3. Conforms(g, m + 1)
    BY <2>2
  <2>4. \E f1 : Conforms(f1, m + 1)
    <3> HIDE DEF g, Conforms
    <3> QED
      BY <2>3
  <2> QED
    BY <2>4
<1>3. Len(bytes) \in Nat /\ Len(bytes) \in Good
  <2> HIDE DEF Good
  <2>1. Good \in SUBSET Nat
    BY DEF Good
  <2>2. Good = Nat
    BY <1>1, <1>2, <2>1, Induction
  <2> QED
    BY <2>2
<1>4. PICK f :
        /\ f = [n \in 0..Len(bytes) |->
                  IF n = 0 THEN 0..15 ELSE P_crc_byte_add(f[n - 1], bytes[n])]
        /\ P_crc(bytes) = TwoBytes(f[Len(bytes)])
  BY <1>3 DEF P_crc, TwoBytes
<1>5. f[0] = 0..15 /\ \A n \in 1..Len(bytes) : f[n] = P_crc_byte_add(f[n - 1], bytes[n])
  <2>1. \A n \in 0..Len(bytes) :
          f[n] = IF n = 0 THEN 0..15 ELSE P_crc_byte_add(f[n - 1], bytes[n])
    BY <1>4
  <2>2. 0 \in 0..Len(bytes) /\ \A n \in 1..Len(bytes) : n \in 0..Len(bytes) /\ n # 0
    BY <1>3
  <2> HIDE DEF Good, Conforms, Step
  <2>3. f[0] = 0..15
    BY <2>1, <2>2
  <2>4. ASSUME NEW n \in 1..Len(bytes) PROVE f[n] = P_crc_byte_add(f[n - 1], bytes[n])
    BY <2>1, <2>2
  <2> QED
    BY <2>3, <2>4
<1>6. \A n \in 0..Len(bytes) : f[n] \in Registers
  <2> DEFINE Kept == {n \in Nat : n <= Len(bytes) => f[n] \in Registers}
  <2>1. 0 \in Kept
    BY <1>5 DEF Registers
  <2>2. ASSUME NEW n \in Kept PROVE n + 1 \in Kept
    <3> SUFFICES ASSUME n + 1 <= Len(bytes) PROVE f[n + 1] \in Registers
      OBVIOUS
    <3>1. n + 1 \in 1..Len(bytes) /\ (n + 1) - 1 = n /\ f[n] \in Registers
      BY <1>3
    <3>2. bytes[n + 1] \in 0..255
      <4> DEFINE B == 0..255
      <4>1. bytes \in Seq(B)
        OBVIOUS
      <4> HIDE DEF B
      <4>2. bytes[n + 1] \in B
        BY <3>1, <4>1
      <4> QED
        BY <4>2 DEF B
    <3>3. f[n + 1] = P_crc_byte_add(f[n], bytes[n + 1])
      BY <1>5, <3>1
    <3> HIDE DEF Kept, Good, Conforms, Step
    <3>4. P_crc_byte_add(f[n], bytes[n + 1]) \in Registers
      BY <3>1, <3>2, ByteTells
    <3> QED
      BY <3>3, <3>4
  <2>3. Kept \in SUBSET Nat
    OBVIOUS
  <2> HIDE DEF Kept
  <2>4. Kept = Nat
    BY <2>1, <2>2, <2>3, Induction
  <2> QED
    BY <1>3, <2>4 DEF Kept
<1>7. f \in [0..Len(bytes) -> Registers]
  BY <1>4, <1>6
<1> QED
  BY <1>4, <1>5, <1>7 DEF Runs

\* Two different registers are two different pairs of bytes.
LEMMA TwoBytesTell ==
  ASSUME NEW r \in Registers, NEW s \in Registers, TwoBytes(r) = TwoBytes(s)
  PROVE  r = s
<1> DEFINE hi(q) == {b - 8 : b \in q \ (0..7)}
           lo(q) == q \cap (0..7)
<1>1. FromBits(hi(r)) = FromBits(hi(s)) /\ FromBits(lo(r)) = FromBits(lo(s))
  BY DEF TwoBytes
<1>2. \A x, y : FromBits(x) = FromBits(y) =>
        /\ (0 \in x <=> 0 \in y) /\ (1 \in x <=> 1 \in y) /\ (2 \in x <=> 2 \in y)
        /\ (3 \in x <=> 3 \in y) /\ (4 \in x <=> 4 \in y) /\ (5 \in x <=> 5 \in y)
        /\ (6 \in x <=> 6 \in y) /\ (7 \in x <=> 7 \in y)
  BY FromBitsIs
<1>3. \A x, y : FromBits(x) = FromBits(y) => \A b \in 0..7 : b \in x <=> b \in y
  <2> SUFFICES ASSUME NEW x, NEW y, FromBits(x) = FromBits(y), NEW b \in 0..7
               PROVE  b \in x <=> b \in y
    OBVIOUS
  <2>1. b = 0 \/ b = 1 \/ b = 2 \/ b = 3 \/ b = 4 \/ b = 5 \/ b = 6 \/ b = 7
    OBVIOUS
  <2> QED
    BY <1>2, <2>1
<1>4. \A q \in Registers : \A b \in 0..15 :
        b \in q <=> IF b \in 0..7 THEN b \in lo(q) ELSE b - 8 \in hi(q)
  <2> SUFFICES ASSUME NEW q \in Registers, NEW b \in 0..15
               PROVE  b \in q <=> IF b \in 0..7 THEN b \in lo(q) ELSE b - 8 \in hi(q)
    OBVIOUS
  <2>1. ASSUME b \notin 0..7, b - 8 \in hi(q) PROVE b \in q
    <3>1. PICK c \in q : b - 8 = c - 8
      BY <2>1
    <3>2. c \in 0..15
      BY DEF Registers
    <3> QED
      BY <3>1, <3>2
  <2> QED
    BY <2>1
<1> HIDE DEF hi, lo
<1>5. \A b \in 0..15 : b \in r <=> b \in s
  <2> SUFFICES ASSUME NEW b \in 0..15 PROVE b \in r <=> b \in s
    OBVIOUS
  <2>1. b \notin 0..7 => b - 8 \in 0..7
    OBVIOUS
  <2> QED
    BY <1>1, <1>3, <1>4, <2>1
<1> QED
  BY <1>5 DEF Registers

\* One byte changed changes the sum.
LEMMA SumTells ==
  ASSUME NEW p \in Seq(0..255), NEW q \in Seq(0..255), Len(p) = Len(q),
         NEW i \in 1..Len(p), p[i] # q[i], \A k \in 1..Len(p) : k # i => p[k] = q[k]
  PROVE  P_crc(p) # P_crc(q)
<1> DEFINE n == Len(p)
<1>1. PICK f : Runs(f, p) /\ P_crc(p) = TwoBytes(f[n])
  BY SumRuns
<1>2. PICK g : Runs(g, q) /\ P_crc(q) = TwoBytes(g[n])
  BY SumRuns
<1>3. n \in Nat /\ \A k \in 1..n : p[k] \in 0..255 /\ q[k] \in 0..255
  <2> DEFINE B == 0..255
  <2>1. p \in Seq(B) /\ q \in Seq(B)
    OBVIOUS
  <2> HIDE DEF B
  <2>2. n \in Nat /\ \A k \in 1..n : p[k] \in B /\ q[k] \in B
    BY <2>1
  <2> QED
    BY <2>2 DEF B
<1>4. /\ f[0] = g[0] /\ \A k \in 0..n : f[k] \in Registers /\ g[k] \in Registers
      /\ \A k \in 1..n : f[k] = P_crc_byte_add(f[k - 1], p[k])
      /\ \A k \in 1..n : g[k] = P_crc_byte_add(g[k - 1], q[k])
  BY <1>1, <1>2 DEF Runs
<1> HIDE DEF n
<1>5. \A k \in 1..n : k - 1 \in 0..n /\ k \in 0..n /\ k - 1 \in Nat
  BY <1>3
<1>6. i \in 1..n /\ \A k \in 1..n : k # i => p[k] = q[k]
  BY DEF n
\* Before the place the registers are the same, from there on they differ.
<1> DEFINE Good == {k \in Nat : k <= n => IF k < i THEN f[k] = g[k] ELSE f[k] # g[k]}
<1>7. 0 \in Good
  BY <1>4, <1>6
<1>8. ASSUME NEW k \in Good PROVE k + 1 \in Good
  <2> SUFFICES ASSUME k + 1 <= n
               PROVE  IF k + 1 < i THEN f[k + 1] = g[k + 1] ELSE f[k + 1] # g[k + 1]
    OBVIOUS
  <2>1. k + 1 \in 1..n /\ (k + 1) - 1 = k /\ k \in 0..n /\ k <= n
    BY <1>3
  <2>2. /\ f[k + 1] = P_crc_byte_add(f[k], p[k + 1]) /\ g[k + 1] = P_crc_byte_add(g[k], q[k + 1])
        /\ f[k] \in Registers /\ g[k] \in Registers
        /\ p[k + 1] \in 0..255 /\ q[k + 1] \in 0..255
    BY <1>3, <1>4, <2>1
  <2>3. IF k < i THEN f[k] = g[k] ELSE f[k] # g[k]
    BY <2>1
  <2>4. CASE k + 1 < i
    <3>1. k < i /\ k + 1 # i
      BY <1>6, <2>4
    <3> QED
      BY <1>6, <2>1, <2>2, <2>3, <2>4, <3>1
  <2>5. CASE k + 1 = i
    <3>1. k < i /\ ~(k + 1 < i)
      BY <1>6, <2>5
    <3>2. f[k] = g[k] /\ p[k + 1] # q[k + 1]
      BY <2>3, <2>5, <3>1
    <3> HIDE DEF Good
    <3>3. ASSUME f[k + 1] = g[k + 1] PROVE FALSE
      <4>1. P_crc_byte_add(f[k], p[k + 1]) = P_crc_byte_add(f[k], q[k + 1])
        BY <2>2, <3>2, <3>3
      <4>2. \A r \in Registers : \A x, y \in 0..255 :
              P_crc_byte_add(r, x) = P_crc_byte_add(r, y) => x = y
        BY ByteTells
      <4>3. f[k] \in Registers /\ p[k + 1] \in 0..255 /\ q[k + 1] \in 0..255
        BY <2>2
      <4>4. p[k + 1] = q[k + 1]
        BY <4>1, <4>2, <4>3
      <4> QED
        BY <3>2, <4>4
    <3> QED
      BY <3>1, <3>3
  <2>6. CASE k + 1 > i
    <3>1. ~(k < i) /\ ~(k + 1 < i) /\ k + 1 # i
      BY <1>6, <2>6
    <3>2. p[k + 1] = q[k + 1] /\ f[k] # g[k]
      BY <1>6, <2>1, <2>3, <3>1
    <3> HIDE DEF Good
    <3>3. ASSUME f[k + 1] = g[k + 1] PROVE FALSE
      <4>1. P_crc_byte_add(f[k], p[k + 1]) = P_crc_byte_add(g[k], p[k + 1])
        BY <2>2, <3>2, <3>3
      <4>2. \A r, s \in Registers : \A x \in 0..255 :
              P_crc_byte_add(r, x) = P_crc_byte_add(s, x) => r = s
        BY ByteTells
      <4>3. f[k] \in Registers /\ g[k] \in Registers /\ p[k + 1] \in 0..255
        BY <2>2
      <4>4. f[k] = g[k]
        <5> DEFINE r == f[k]
                   s == g[k]
                   x == p[k + 1]
        <5>1. r \in Registers /\ s \in Registers /\ x \in 0..255
          BY <4>3
        <5>2. P_crc_byte_add(r, x) = P_crc_byte_add(s, x)
          BY <4>1
        <5> HIDE DEF r, s, x
        <5>3. r = s
          BY <4>2, <5>1, <5>2, ZenonT(30)
        <5> QED
          BY <5>3 DEF r, s
      <4> QED
        BY <3>2, <4>4
    <3> QED
      BY <3>1, <3>3
  <2> QED
    BY <1>6, <2>4, <2>5, <2>6
<1>9. Good = Nat
  <2>1. Good \in SUBSET Nat
    OBVIOUS
  <2> HIDE DEF Good
  <2> QED
    BY <1>7, <1>8, <2>1, Induction
<1>10. f[n] # g[n]
  <2>1. n \in Good /\ n <= n /\ ~(n < i)
    BY <1>3, <1>6, <1>9
  <2> QED
    BY <2>1
<1>11. n \in 0..n
  BY <1>3
<1> QED
  BY <1>1, <1>2, <1>4, <1>10, <1>11, TwoBytesTell

\* A frame with one wrong byte is refused, be it in the payload or in the sum:
\* for every frame, every byte of it and everything the byte can become.
THEOREM OneWrongByteRefused ==
  ASSUME NEW b \in Seq(0..255), P_crc_check(b),
         NEW i \in 1..Len(b), NEW x \in 0..255, x # b[i]
  PROVE  ~P_crc_check([b EXCEPT ![i] = x])
<1> DEFINE c == [b EXCEPT ![i] = x]
           B == 0..255
           n == Len(b) - CRC_SIZE
           p == SubSeq(b, 1, n)
           q == SubSeq(c, 1, n)
           s == SubSeq(b, Len(b) - 1, Len(b))
           t == SubSeq(c, Len(b) - 1, Len(b))
<1>1. b \in Seq(B) /\ x \in B /\ Len(b) > 2 /\ Len(b) \in Nat /\ s = P_crc(p)
  BY DEF P_crc_check, CRC_SIZE
<1> HIDE DEF B
<1>2. c \in Seq(B) /\ Len(c) = Len(b) /\ \A k \in 1..Len(b) : c[k] = IF k = i THEN x ELSE b[k]
  BY <1>1
<1>3. P_crc_check(c) => t = P_crc(q)
  BY <1>2 DEF P_crc_check
<1> HIDE DEF c
<1>4. n \in Nat /\ n >= 1 /\ n = Len(b) - 2 /\ Len(b) - 1 \in 1..Len(b) /\ Len(b) \in 1..Len(b)
  BY <1>1 DEF CRC_SIZE
<1> HIDE DEF n
<1>5. /\ p \in Seq(B) /\ q \in Seq(B) /\ Len(p) = n /\ Len(q) = n
      /\ \A k \in 1..n : p[k] = b[k] /\ q[k] = c[k] /\ k \in 1..Len(b)
  BY <1>1, <1>2, <1>4
<1>6. s[1] = b[Len(b) - 1] /\ s[2] = b[Len(b)] /\ t[1] = c[Len(b) - 1] /\ t[2] = c[Len(b)]
  <2> DEFINE a == Len(b) - 1
  <2>1. a \in Nat /\ a + 1 = Len(b) /\ a >= 1 /\ a + 1 <= Len(b) /\ a + 1 <= Len(c)
    BY <1>1, <1>2
  <2> HIDE DEF a
  <2>2. /\ SubSeq(b, a, a + 1)[1] = b[a] /\ SubSeq(b, a, a + 1)[2] = b[a + 1]
        /\ SubSeq(c, a, a + 1)[1] = c[a] /\ SubSeq(c, a, a + 1)[2] = c[a + 1]
    BY <1>1, <1>2, <2>1
  <2> QED
    BY <2>1, <2>2 DEF a
<1> HIDE DEF p, q, s, t
<1>7. CASE i \in 1..n
  <2>1. p[i] # q[i] /\ \A k \in 1..n : k # i => p[k] = q[k]
    BY <1>2, <1>5, <1>7
  <2>2. P_crc(p) # P_crc(q)
    <3>1. p \in Seq(0..255) /\ q \in Seq(0..255)
      BY <1>5 DEF B
    <3>2. Len(p) = Len(q) /\ i \in 1..Len(p) /\ \A k \in 1..Len(p) : k # i => p[k] = q[k]
      BY <1>5, <1>7, <2>1
    <3> HIDE DEF B
    <3> QED
      BY <2>1, <3>1, <3>2, SumTells
  <2>3. s = t
    <3>1. Len(b) - 1 # i /\ Len(b) # i
      BY <1>4, <1>7
    <3>2. t[1] = s[1] /\ t[2] = s[2]
      BY <1>2, <1>4, <1>6, <3>1
    <3>3. s \in Seq(B) /\ t \in Seq(B) /\ Len(s) = 2 /\ Len(t) = 2
      BY <1>1, <1>2, <1>4 DEF s, t
    <3>4. \A k \in 1..2 : s[k] = t[k]
      BY <3>2
    <3> QED
      BY <3>3, <3>4, SeqEqual
  <2> QED
    BY <1>1, <1>3, <2>2, <2>3 DEF c
<1>8. CASE i \notin 1..n
  <2>1. i = Len(b) - 1 \/ i = Len(b)
    BY <1>1, <1>4, <1>8
  <2>2. p = q
    <3>1. \A k \in 1..n : p[k] = q[k]
      BY <1>2, <1>5, <1>8
    <3> QED
      BY <1>5, <3>1, SeqEqual
  <2>3. s # t
    BY <1>2, <1>4, <1>6, <2>1
  <2> QED
    BY <1>1, <1>3, <2>2, <2>3 DEF c
<1> QED
  BY <1>7, <1>8

-----------------------------------------------------------------------------
(***************************************************************************)
(* The books of the PC tool's client, for every number of requests, of     *)
(* sessions and of frames lost: also when the identifications wrap and a   *)
(* new request takes the number of one that is still awaited.              *)
(***************************************************************************)

IsWaiting(f) == DOMAIN f \subseteq Ruids /\ \A r \in DOMAIN f : f[r] \in Funcs
IsStatuses(f) == DOMAIN f \subseteq Ruids /\ \A r \in DOMAIN f : f[r] \in Statuses

\* The conjuncts of TypeOK that making requests leaves alone.
Others ==
  /\ opened \in BOOLEAN /\ m_ppr_valid \in BOOLEAN /\ m_prosess_started \in BOOLEAN
  /\ m_mode \in Modes \cup {Unknown}
  /\ down \in Seq(Replies \cup Events)
  /\ runMode \in Modes /\ m_permanent_process_send \in BOOLEAN /\ missed \in BOOLEAN

LEMMA RuidType ==
  ASSUME m_ruid_last \in Ruids, NEW i \in Nat
  PROVE  Ruid(i) \in Ruids
  <1>1. RUIDS \in Nat \ {0} /\ m_ruid_last + i - 1 \in Int
    BY DeviceLinkAssumption DEF Ruids
  <1>2. (m_ruid_last + i - 1) % RUIDS \in 0..(RUIDS - 1)
    BY <1>1
  <1> QED
    BY <1>2 DEF Ruid, Ruids

\* Whatever is asked for is awaited: the automatic requests too.
LEMMA RequestKeeps ==
  ASSUME TypeOK,
         NEW funcs \in Seq(Funcs), NEW mode \in {"AUTO", "MANUAL"},
         NEW waiting, IsWaiting(waiting), NEW statuses, IsStatuses(statuses),
         NEW queue \in SUBSET DOMAIN waiting,
         Request(funcs, mode, waiting, statuses, queue)
  PROVE  /\ IsWaiting(m_awaiting_requests')
         /\ IsStatuses(m_statuses')
         /\ m_autoqueue' \subseteq DOMAIN m_awaiting_requests'
         /\ m_ruid_last' \in Ruids
         /\ up' \in Seq(Requests)
  <1> DEFINE new == [r \in {Ruid(i) : i \in DOMAIN funcs} |->
                       funcs[CHOOSE i \in DOMAIN funcs : Ruid(i) = r]]
             marked == [r \in DOMAIN new |-> Asked(new[r], mode)]
             sent == [i \in DOMAIN funcs |-> [ruid |-> Ruid(i), func |-> funcs[i]]]
  <1>1. /\ m_awaiting_requests' = Over(new, waiting)
        /\ m_statuses' = Over(marked, statuses)
        /\ m_autoqueue' = IF mode = "AUTO" THEN queue \cup DOMAIN new ELSE queue
        /\ m_ruid_last' = Ruid(Len(funcs) + 1)
        /\ up' = IF opened' THEN up \o sent ELSE up
    BY DEF Request
  <1>2. DOMAIN funcs = 1..Len(funcs) /\ Len(funcs) \in Nat
        /\ \A i \in DOMAIN funcs : funcs[i] \in Funcs /\ Ruid(i) \in Ruids
    BY RuidType DEF TypeOK
  <1>3. DOMAIN new \subseteq Ruids /\ \A r \in DOMAIN new : new[r] \in Funcs
    BY <1>2
  <1> HIDE DEF new
  <1>4. /\ DOMAIN Over(new, waiting) = DOMAIN new \cup DOMAIN waiting
        /\ \A r \in DOMAIN Over(new, waiting) : Over(new, waiting)[r] \in Funcs
    BY <1>3 DEF IsWaiting, Over
  <1>5. \A r \in DOMAIN marked : marked[r] \in Statuses
    BY <1>3 DEF Statuses, Asked
  <1>6. /\ DOMAIN marked = DOMAIN new
        /\ DOMAIN Over(marked, statuses) = DOMAIN new \cup DOMAIN statuses
        /\ \A r \in DOMAIN Over(marked, statuses) : Over(marked, statuses)[r] \in Statuses
    BY <1>5 DEF IsStatuses, Over
  <1>7. sent \in Seq(Requests)
    BY <1>2 DEF Requests
  <1> QED
    BY <1>1, <1>2, <1>3, <1>4, <1>6, <1>7, RuidType DEF IsWaiting, IsStatuses, TypeOK

\* So a slot that makes requests keeps the books, if the rest of it does.
LEMMA SlotKeeps ==
  ASSUME TypeOK, Others',
         NEW funcs \in Seq(Funcs), NEW mode \in {"AUTO", "MANUAL"},
         NEW waiting, IsWaiting(waiting), NEW statuses, IsStatuses(statuses),
         NEW queue \in SUBSET DOMAIN waiting,
         Request(funcs, mode, waiting, statuses, queue)
  PROVE  RequestsAwaited'
  <1>1. /\ IsWaiting(m_awaiting_requests') /\ IsStatuses(m_statuses')
        /\ m_autoqueue' \subseteq DOMAIN m_awaiting_requests'
        /\ m_ruid_last' \in Ruids /\ up' \in Seq(Requests)
    BY RequestKeeps
  <1> QED
    BY <1>1 DEF RequestsAwaited, TypeOK, AutoqueueAwaited, IsWaiting, IsStatuses, Others

\* What a slot finds in the books, and what it may take out of them.
LEMMA BooksBefore ==
  ASSUME RequestsAwaited
  PROVE  /\ TypeOK /\ Others
         /\ IsWaiting(m_awaiting_requests) /\ IsStatuses(m_statuses)
         /\ m_autoqueue \in SUBSET DOMAIN m_awaiting_requests
         /\ \A r : /\ IsWaiting(Without(m_awaiting_requests, r))
                   /\ m_autoqueue \ {r} \in SUBSET DOMAIN Without(m_awaiting_requests, r)
         /\ \A r, res : res \in {"SUCCESS", "TIMEOUT", "ERROR"} => IsStatuses(Marked(r, res))
  <1>1. /\ TypeOK /\ Others /\ IsWaiting(m_awaiting_requests) /\ IsStatuses(m_statuses)
        /\ m_autoqueue \in SUBSET DOMAIN m_awaiting_requests
    BY DEF RequestsAwaited, TypeOK, AutoqueueAwaited, IsWaiting, IsStatuses, Others
  <1>2. ASSUME NEW r
        PROVE  /\ IsWaiting(Without(m_awaiting_requests, r))
               /\ m_autoqueue \ {r} \in SUBSET DOMAIN Without(m_awaiting_requests, r)
    BY <1>1 DEF Without, IsWaiting
  <1>3. ASSUME NEW r, NEW res \in {"SUCCESS", "TIMEOUT", "ERROR"}
        PROVE  IsStatuses(Marked(r, res))
    <2>1. CASE r \in DOMAIN m_statuses
      <3>1. [m_statuses[r] EXCEPT !.res = res] \in Statuses
        BY <1>1, <2>1 DEF IsStatuses, Statuses
      <3> QED
        BY <1>1, <2>1, <3>1 DEF IsStatuses, Marked
    <2>2. CASE r \notin DOMAIN m_statuses
      BY <1>1, <2>2 DEF Marked
    <2> QED
      BY <2>1, <2>2
  <1> QED
    BY <1>1, <1>2, <1>3

\* A function asked for again is one of the functions.
LEMMA ReloadType ==
  ASSUME NEW func \in Funcs, NEW ppr, NEW mode, NEW started
  PROVE  Reload(func, ppr, mode, started) \in Seq(Funcs)
  BY DEF Reload

-----------------------------------------------------------------------------
LEMMA InitRequestsAwaited == Init => RequestsAwaited
  <1> SUFFICES ASSUME Init PROVE RequestsAwaited
    OBVIOUS
  <1>1. 0 \in Ruids
    BY DeviceLinkAssumption DEF Ruids
  <1>2. m_awaiting_requests = << >> /\ m_statuses = << >> /\ up = << >> /\ down = << >>
    BY DEF Init
  <1>3. /\ DOMAIN m_awaiting_requests = {} /\ DOMAIN m_statuses = {}
        /\ up \in Seq(Requests) /\ down \in Seq(Replies \cup Events)
    BY <1>2
  <1>4. opened \in BOOLEAN /\ m_ppr_valid \in BOOLEAN /\ m_prosess_started \in BOOLEAN
        /\ m_permanent_process_send \in BOOLEAN /\ missed \in BOOLEAN
    BY DEF Init
  <1>5. TypeOK
    BY <1>1, <1>3, <1>4 DEF Init, TypeOK
  <1> QED
    BY <1>5 DEF Init, RequestsAwaited, AutoqueueAwaited

LEMMA ConnectKeeps == ASSUME RequestsAwaited, devConnect PROVE RequestsAwaited'
  <1> DEFINE funcs == <<"00_PULSES_R", "01_MODE_R", "02_KOEF_R", "07_PROCESS_START">>
  <1>1. funcs \in Seq(Funcs)
    BY DEF Funcs
  <1>2. Request(funcs, "AUTO", m_awaiting_requests, m_statuses, m_autoqueue)
    BY DEF devConnect
  <1>3. Others'
    BY BooksBefore DEF devConnect, P_invalidate_all, device, Others
  <1> QED
    BY <1>1, <1>2, <1>3, BooksBefore, SlotKeeps

LEMMA DisconnectKeeps == ASSUME RequestsAwaited, devDisconnect PROVE RequestsAwaited'
  <1> DEFINE stop == [r \in {Ruid(1)} |-> Asked("08_PROCESS_STOP", "AUTO")]
  <1>1. Ruid(1) \in Ruids /\ Ruid(2) \in Ruids
    BY BooksBefore, RuidType DEF TypeOK
  <1>2. Asked("08_PROCESS_STOP", "AUTO") \in Statuses
    BY DEF Asked, Statuses, Funcs
  <1>3. IsStatuses(Over(stop, m_statuses))
    BY <1>1, <1>2, BooksBefore DEF IsStatuses, Over
  <1>4. m_statuses' = Over(stop, m_statuses) /\ m_ruid_last' = Ruid(2)
        /\ m_awaiting_requests' = << >> /\ m_autoqueue' = {} /\ up' = up
    BY DEF devDisconnect
  <1>5. Others'
    BY BooksBefore DEF devDisconnect, P_invalidate_all, device, Others
  <1>6. DOMAIN m_awaiting_requests' = {}
    BY <1>4
  <1> HIDE DEF stop
  <1> QED
    BY <1>1, <1>3, <1>4, <1>5, <1>6, BooksBefore
    DEF RequestsAwaited, TypeOK, AutoqueueAwaited, IsStatuses, Others

LEMMA UserKeeps ==
  ASSUME RequestsAwaited, ManualRequest \/ requestsStatClear
  PROVE  RequestsAwaited'
  <1>1. CASE ManualRequest
    <2>1. PICK func \in Manual :
            Request(<<func>>, "MANUAL", m_awaiting_requests, m_statuses, m_autoqueue)
      BY <1>1 DEF ManualRequest
    <2>2. <<func>> \in Seq(Funcs)
      BY DeviceLinkAssumption
    <2>3. Others'
      BY <1>1, BooksBefore DEF ManualRequest, known, device, Others
    <2> QED
      BY <2>1, <2>2, <2>3, BooksBefore, SlotKeeps
  <1>2. CASE requestsStatClear
    <2>1. PICK kept \in SUBSET DOMAIN m_statuses : m_statuses' = [r \in kept |-> m_statuses[r]]
      BY <1>2 DEF requestsStatClear
    <2> QED
      BY <1>2, <2>1, BooksBefore DEF requestsStatClear, known, device,
         RequestsAwaited, TypeOK, AutoqueueAwaited
  <1> QED
    BY <1>1, <1>2

LEMMA TimeoutKeeps ==
  ASSUME RequestsAwaited, NEW r \in Ruids, P_timeoutEvent(r)
  PROVE  RequestsAwaited'
  <1> DEFINE func == m_awaiting_requests[r]
             again == IF r \in m_autoqueue
                      THEN Reload(func, m_ppr_valid, m_mode, m_prosess_started) ELSE << >>
  <1>1. func \in Funcs
    BY BooksBefore DEF P_timeoutEvent, IsWaiting
  <1>2. again \in Seq(Funcs)
    BY <1>1, ReloadType
  <1>3. Request(again, "AUTO", Without(m_awaiting_requests, r), Marked(r, "TIMEOUT"),
                m_autoqueue \ {r})
    BY DEF P_timeoutEvent
  <1>4. Others'
    BY BooksBefore DEF P_timeoutEvent, known, device, Others
  <1>5. /\ IsWaiting(Without(m_awaiting_requests, r)) /\ IsStatuses(Marked(r, "TIMEOUT"))
        /\ m_autoqueue \ {r} \in SUBSET DOMAIN Without(m_awaiting_requests, r) /\ TypeOK
    BY BooksBefore
  <1> HIDE DEF again
  <1> QED
    BY <1>2, <1>3, <1>4, <1>5, SlotKeeps

-----------------------------------------------------------------------------
LEMMA ReplyKeeps ==
  ASSUME RequestsAwaited, down # << >>, down' = Tail(down),
         Head(down) \in Replies, Head(down).ruid \in DOMAIN m_awaiting_requests,
         UNCHANGED opened, UNCHANGED device,
         Replied(Head(down), m_awaiting_requests[Head(down).ruid])
  PROVE  RequestsAwaited'
  <1> DEFINE msg == Head(down)
             func == m_awaiting_requests[msg.ruid]
             success == func \in DOMAIN Expected => Len(msg.resv) = Expected[func]
             again == IF ~success /\ msg.ruid \in DOMAIN m_statuses
                         /\ m_statuses[msg.ruid].reqmode = "AUTO"
                      THEN Reload(func, m_ppr_valid, m_mode, m_prosess_started) ELSE << >>
             res == IF msg.err THEN "ERROR" ELSE "SUCCESS"
  <1>1. func \in Funcs /\ msg.ruid \in Ruids /\ msg.resv \in Seq(Modes \cup {Unknown})
    BY BooksBefore DEF IsWaiting, Replies
  <1>2. again \in Seq(Funcs)
    BY <1>1, ReloadType
  <1>3. Request(again, "AUTO", Without(m_awaiting_requests, msg.ruid),
                Marked(msg.ruid, res), m_autoqueue \ {msg.ruid})
    BY DEF Replied
  <1>4. m_mode' \in Modes \cup {Unknown}
    <2>1. m_mode' = IF func # "01_MODE_R" THEN m_mode
                    ELSE IF success THEN Head(msg.resv) ELSE Unknown
      BY DEF Replied
    <2>2. CASE func # "01_MODE_R"
      BY <2>1, <2>2, BooksBefore DEF Others
    <2>3. CASE func = "01_MODE_R"
      <3>1. success => Len(msg.resv) = 1
        BY <2>3 DEF Expected
      <3>2. Len(msg.resv) = 1 => Head(msg.resv) \in Modes \cup {Unknown}
        BY <1>1
      <3> QED
        BY <2>1, <2>3, <3>1, <3>2
    <2> QED
      BY <2>2, <2>3
  <1>5. m_ppr_valid' \in BOOLEAN /\ m_prosess_started' \in BOOLEAN /\ missed' \in BOOLEAN
    BY DEF Replied
  <1>6. down' \in Seq(Replies \cup Events)
    BY DEF RequestsAwaited, TypeOK
  <1>7. Others'
    BY <1>4, <1>5, <1>6, BooksBefore DEF device, Others
  <1>8. /\ IsWaiting(Without(m_awaiting_requests, msg.ruid)) /\ IsStatuses(Marked(msg.ruid, res))
        /\ m_autoqueue \ {msg.ruid} \in SUBSET DOMAIN Without(m_awaiting_requests, msg.ruid)
        /\ TypeOK
    BY BooksBefore
  <1> HIDE DEF again, res
  <1> QED
    BY <1>2, <1>3, <1>7, <1>8, SlotKeeps

LEMMA ReceiveKeeps == ASSUME RequestsAwaited, dataReplyReceive PROVE RequestsAwaited'
  <1> DEFINE msg == Head(down)
  <1>1. /\ down # << >> /\ down' = Tail(down) /\ UNCHANGED device
        /\ msg \in Replies \cup Events /\ down' \in Seq(Replies \cup Events)
    BY BooksBefore DEF dataReplyReceive, Others
  <1>2. CASE ~opened /\ missed' = (missed \/ msg.type = "MODE_CHANGED") /\ UNCHANGED <<client, up>>
    <2>1. missed' \in BOOLEAN
      BY <1>2
    <2> QED
      BY <1>1, <1>2, <2>1
      DEF client, known, device, RequestsAwaited, TypeOK, AutoqueueAwaited
  <1>3. CASE /\ opened /\ msg.type = "MODE_CHANGED"
             /\ m_mode' = msg.mode
             /\ missed' = FALSE
             /\ UNCHANGED <<opened, m_ruid_last, m_awaiting_requests, m_statuses,
                            m_autoqueue, m_ppr_valid, m_prosess_started, up>>
    <2>1. msg.mode \in Modes
      BY <1>1, <1>3 DEF Replies, Events
    <2> QED
      BY <1>1, <1>3, <2>1 DEF device, RequestsAwaited, TypeOK, AutoqueueAwaited
  <1>4. CASE /\ opened /\ msg.type = "REPLY" /\ msg.ruid \in DOMAIN m_awaiting_requests
             /\ UNCHANGED opened
             /\ Replied(msg, m_awaiting_requests[msg.ruid])
    <2>1. msg \in Replies
      BY <1>1, <1>4 DEF Events
    <2> QED
      BY <1>1, <1>4, <2>1, ReplyKeeps
  <1>5. CASE UNCHANGED <<client, up, missed>>
    BY <1>1, <1>5 DEF client, known, device, RequestsAwaited, TypeOK, AutoqueueAwaited
  <1> QED
    BY <1>2, <1>3, <1>4, <1>5 DEF dataReplyReceive

-----------------------------------------------------------------------------
(* The device, and the link. *)

LEMMA ValuesType ==
  ASSUME runMode \in Modes, NEW func
  PROVE  Values(func) \in Seq(Modes \cup {Unknown})
  <1> DEFINE six == [i \in 1..6 |-> Unknown]
             M == Modes \cup {Unknown}
  <1>1. << >> \in Seq(M) /\ <<runMode>> \in Seq(M) /\ <<Unknown>> \in Seq(M)
        /\ <<Unknown, Unknown>> \in Seq(M)
    OBVIOUS
  <1>2. six \in Seq(M)
    OBVIOUS
  <1>3. Values(func) \in {<< >>, <<runMode>>, <<Unknown>>, <<Unknown, Unknown>>, six}
    BY Zenon DEF Values
  <1> HIDE DEF six
  <1> QED
    BY <1>1, <1>2, <1>3

LEMMA DeviceKeeps ==
  ASSUME RequestsAwaited, P_comm_reader \/ ModeChanges
  PROVE  RequestsAwaited'
  <1>0. /\ up \in Seq(Requests) /\ down \in Seq(Replies \cup Events) /\ runMode \in Modes
        /\ m_permanent_process_send \in BOOLEAN
    BY DEF RequestsAwaited, TypeOK
  <1>1. CASE P_comm_reader
    <2> DEFINE req == Head(up)
               err == req.func \in Writes /\ runMode \notin Service3
               reply == [type |-> "REPLY", ruid |-> req.ruid, func |-> req.func,
                         err |-> err, resv |-> Values(req.func)]
    <2>1. up # << >> /\ down' = Append(down, reply) /\ up' = Tail(up)
          /\ UNCHANGED <<client, runMode, counts, missed>>
      BY <1>1 DEF P_comm_reader
    <2>2. req \in Requests /\ up' \in Seq(Requests)
      BY <1>0, <2>1
    <2>3. err \in BOOLEAN
      OBVIOUS
    <2>4. reply \in Replies
      BY <1>0, <2>2, <2>3, ValuesType DEF Requests, Replies
    <2>5. down' \in Seq(Replies \cup Events)
      BY <1>0, <2>1, <2>4
    <2>6. m_permanent_process_send' \in {TRUE, FALSE, m_permanent_process_send}
      BY <1>1, Zenon DEF P_comm_reader
    <2> QED
      BY <1>0, <2>1, <2>2, <2>5, <2>6
      DEF client, known, RequestsAwaited, TypeOK, AutoqueueAwaited
  <1>2. CASE ModeChanges
    <2>1. runMode' \in Modes /\ down' = Append(down, [type |-> "MODE_CHANGED", mode |-> runMode'])
      BY <1>2 DEF ModeChanges
    <2>2. down' \in Seq(Replies \cup Events)
      BY <1>0, <2>1 DEF Events
    <2> QED
      BY <1>2, <2>1, <2>2
      DEF ModeChanges, client, known, RequestsAwaited, TypeOK, AutoqueueAwaited
  <1> QED
    BY <1>1, <1>2

LEMMA LossKeeps ==
  ASSUME RequestsAwaited, LoseUp \/ LoseDown
  PROVE  RequestsAwaited'
  <1>0. up \in Seq(Requests) /\ down \in Seq(Replies \cup Events)
    BY DEF RequestsAwaited, TypeOK
  <1>1. CASE LoseUp
    <2>1. up' \in Seq(Requests)
      BY <1>0, <1>1 DEF LoseUp
    <2> QED
      BY <1>1, <2>1 DEF LoseUp, client, known, device, RequestsAwaited, TypeOK, AutoqueueAwaited
  <1>2. CASE LoseDown
    <2>1. down' \in Seq(Replies \cup Events)
      BY <1>0, <1>2 DEF LoseDown
    <2>2. missed' \in BOOLEAN
      BY <1>2 DEF LoseDown
    <2> QED
      BY <1>2, <2>1, <2>2
      DEF LoseDown, client, known, device, RequestsAwaited, TypeOK, AutoqueueAwaited
  <1> QED
    BY <1>1, <1>2

-----------------------------------------------------------------------------
LEMMA NextRequestsAwaited == RequestsAwaited /\ [Next]_vars => RequestsAwaited'
  <1> SUFFICES ASSUME RequestsAwaited, [Next]_vars PROVE RequestsAwaited'
    OBVIOUS
  <1>1. CASE devConnect \/ devDisconnect \/ ManualRequest \/ requestsStatClear
    BY <1>1, ConnectKeeps, DisconnectKeeps, UserKeeps
  <1>2. ASSUME NEW r \in Ruids, P_timeoutEvent(r) PROVE RequestsAwaited'
    BY <1>2, TimeoutKeeps
  <1>3. CASE dataReplyReceive
    BY <1>3, ReceiveKeeps
  <1>4. CASE P_comm_reader \/ ModeChanges \/ LoseUp \/ LoseDown
    BY <1>4, DeviceKeeps, LossKeeps
  <1>5. CASE UNCHANGED vars
    BY <1>5 DEF vars, client, known, device, RequestsAwaited, TypeOK, AutoqueueAwaited
  <1> QED
    BY <1>1, <1>2, <1>3, <1>4, <1>5 DEF Next

\* No automatic request is left in m_autoqueue that nobody awaits, whatever is
\* lost, late or closed: its time-out will ask for it again.
THEOREM RequestsAwaitedHolds == Spec => []RequestsAwaited
  BY InitRequestsAwaited, NextRequestsAwaited, PTL DEF Spec

-----------------------------------------------------------------------------
(***************************************************************************)
(* What the tool knows of the device's mode.  ModeAgrees looks at what has *)
(* arrived; LastNews says the same of what is under way: the last event    *)
(* tells the mode the device is in, and so does every reply sent after it. *)
(* It holds whatever request a reply is taken for: a number that answers   *)
(* another question is no mode.                                            *)
(***************************************************************************)

\* No event comes behind the i-th frame.
Latest(q, i) == \A j \in 1..Len(q) : j > i => q[j].type # "MODE_CHANGED"

\* What a frame tells of the mode is true, if it is a mode.
Tells(frame, mode) ==
  /\ frame.type = "MODE_CHANGED" => frame.mode = mode
  /\ frame.type = "REPLY" /\ Len(frame.resv) = 1 => Head(frame.resv) \in {mode, Unknown}

LastNews == \A i \in 1..Len(down) : Latest(down, i) => Tells(down[i], runMode)

ModeInv == ModeAgrees /\ LastNews

\* One frame less: the others keep their place behind each other.
LEMMA NewsRead ==
  ASSUME TypeOK, LastNews, down # << >>, down' = Tail(down), UNCHANGED runMode
  PROVE  /\ LastNews'
         /\ (\A i \in DOMAIN down' : down'[i].type # "MODE_CHANGED") => Tells(Head(down), runMode)
         /\ (\A i \in DOMAIN down' : down'[i].type # "MODE_CHANGED") /\ Head(down).type # "MODE_CHANGED"
              => \A i \in DOMAIN down : down[i].type # "MODE_CHANGED"
  <1>1. /\ Len(down) \in Nat \ {0} /\ Head(down) = down[1]
        /\ Len(down') = Len(down) - 1 /\ DOMAIN down' = 1..Len(down') /\ DOMAIN down = 1..Len(down)
        /\ \A i \in 1..Len(down') : down'[i] = down[i + 1]
    BY DEF TypeOK
  <1>2. ASSUME NEW i \in 1..Len(down'), Latest(down', i) PROVE Tells(down'[i], runMode')
    <2>1. Latest(down, i + 1)
      <3> SUFFICES ASSUME NEW j \in 1..Len(down), j > i + 1 PROVE down[j].type # "MODE_CHANGED"
        BY DEF Latest
      <3>1. j - 1 \in 1..Len(down') /\ j - 1 > i /\ (j - 1) + 1 = j
        BY <1>1
      <3>2. down'[j - 1] = down[j]
        BY <1>1, <3>1
      <3> QED
        BY <1>2, <3>1, <3>2 DEF Latest
    <2>2. i + 1 \in 1..Len(down) /\ down'[i] = down[i + 1]
      BY <1>1
    <2> QED
      BY <2>1, <2>2 DEF LastNews
  <1>3. ASSUME \A i \in DOMAIN down' : down'[i].type # "MODE_CHANGED" PROVE Latest(down, 1)
    <2> SUFFICES ASSUME NEW j \in 1..Len(down), j > 1 PROVE down[j].type # "MODE_CHANGED"
      BY DEF Latest
    <2>1. j - 1 \in 1..Len(down') /\ (j - 1) + 1 = j
      BY <1>1
    <2>2. down'[j - 1] = down[j]
      BY <1>1, <2>1
    <2> QED
      BY <1>1, <1>3, <2>1, <2>2
  <1>4. LastNews'
    <2> SUFFICES ASSUME NEW i \in 1..Len(down'), Latest(down', i)
                 PROVE  Tells(down'[i], runMode')
      BY DEF LastNews, Latest
    <2> QED
      BY <1>2
  <1>5. (\A i \in DOMAIN down' : down'[i].type # "MODE_CHANGED") => Tells(Head(down), runMode)
    BY <1>1, <1>3 DEF LastNews
  <1>6. (\A i \in DOMAIN down' : down'[i].type # "MODE_CHANGED") /\ Head(down).type # "MODE_CHANGED"
          => \A i \in DOMAIN down : down[i].type # "MODE_CHANGED"
    <2> SUFFICES ASSUME \A i \in DOMAIN down' : down'[i].type # "MODE_CHANGED",
                        Head(down).type # "MODE_CHANGED", NEW i \in DOMAIN down
                 PROVE  down[i].type # "MODE_CHANGED"
      OBVIOUS
    <2>1. i = 1 \/ i > 1
      BY <1>1
    <2> QED
      BY <1>1, <1>3, <2>1 DEF Latest
  <1> QED
    BY <1>4, <1>5, <1>6

\* One frame more.
LEMMA NewsSent ==
  ASSUME TypeOK, LastNews, NEW frame, down' = Append(down, frame), Tells(frame, runMode'),
         frame.type = "MODE_CHANGED" \/ UNCHANGED runMode
  PROVE  LastNews'
  <1>1. /\ Len(down) \in Nat /\ Len(down') = Len(down) + 1
        /\ \A i \in 1..Len(down) : down'[i] = down[i]
        /\ down'[Len(down) + 1] = frame
    BY DEF TypeOK
  <1> SUFFICES ASSUME NEW i \in 1..Len(down'), Latest(down', i) PROVE Tells(down'[i], runMode')
    BY DEF LastNews
  <1>2. CASE i = Len(down) + 1
    BY <1>1, <1>2
  <1>3. CASE i # Len(down) + 1
    <2>1. i \in 1..Len(down) /\ Len(down) + 1 \in 1..Len(down') /\ Len(down) + 1 > i
      BY <1>1, <1>3
    <2>2. UNCHANGED runMode
      BY <1>1, <2>1 DEF Latest
    <2>3. Latest(down, i)
      BY <1>1, <2>1 DEF Latest
    <2> QED
      BY <1>1, <2>1, <2>2, <2>3 DEF LastNews
  <1> QED
    BY <1>2, <1>3

\* What a function answers is no mode, or the device's.
LEMMA ValuesTell ==
  ASSUME NEW func
  PROVE  Len(Values(func)) = 1 => Head(Values(func)) \in {runMode, Unknown}
  <1> DEFINE six == [i \in 1..6 |-> Unknown]
  <1>1. Values(func) \in {<< >>, <<runMode>>, <<Unknown>>, <<Unknown, Unknown>>, six}
    BY Zenon DEF Values
  <1>2. Len(six) = 6
    OBVIOUS
  <1> HIDE DEF six
  <1> QED
    BY <1>1, <1>2

LEMMA ModeRead ==
  ASSUME TypeOK, ModeInv, dataReplyReceive
  PROVE  ModeInv'
  <1> DEFINE msg == Head(down)
             quiet == \A i \in DOMAIN down' : down'[i].type # "MODE_CHANGED"
  <1>1. down # << >> /\ down' = Tail(down) /\ UNCHANGED runMode
    BY DEF dataReplyReceive, device
  <1>2. /\ LastNews'
        /\ quiet => Tells(msg, runMode)
        /\ quiet /\ msg.type # "MODE_CHANGED" => \A i \in DOMAIN down : down[i].type # "MODE_CHANGED"
    BY <1>1, NewsRead DEF ModeInv
  <1>3. msg \in Replies \cup Events
    BY <1>1 DEF TypeOK
  <1>4. ModeAgrees'
    <2> SUFFICES ASSUME opened', m_mode' # Unknown, ~missed', quiet PROVE m_mode' = runMode
      BY <1>1 DEF ModeAgrees
    <2>1. CASE ~opened /\ UNCHANGED <<client, up>>
      BY <2>1 DEF client
    <2>2. CASE opened /\ msg.type = "MODE_CHANGED" /\ m_mode' = msg.mode
      BY <1>2, <2>2 DEF Tells
    <2>3. CASE opened /\ msg.type = "REPLY" /\ Replied(msg, m_awaiting_requests[msg.ruid])
      <3> DEFINE func == m_awaiting_requests[msg.ruid]
      <3>1. CASE func # "01_MODE_R"
        BY <1>2, <2>3, <3>1 DEF Replied, ModeInv, ModeAgrees
      <3>2. CASE func = "01_MODE_R"
        <4>1. Len(msg.resv) = 1 /\ m_mode' = Head(msg.resv)
          BY <2>3, <3>2 DEF Replied, Expected
        <4> QED
          BY <1>2, <2>3, <4>1 DEF Tells
      <3> QED
        BY <3>1, <3>2
    <2>4. CASE opened /\ msg.type = "REPLY" /\ UNCHANGED <<client, up, missed>>
      BY <1>2, <2>4 DEF client, known, ModeInv, ModeAgrees
    <2> QED
      BY <2>1, <2>2, <2>3, <2>4 DEF dataReplyReceive
  <1> QED
    BY <1>2, <1>4 DEF ModeInv

LEMMA NextModeInv == TypeOK /\ ModeInv /\ [Next]_vars => ModeInv'
  <1> SUFFICES ASSUME TypeOK, ModeInv, [Next]_vars PROVE ModeInv'
    OBVIOUS
  <1>1. ASSUME UNCHANGED <<down, runMode>>,
               \/ UNCHANGED <<m_mode, missed, opened>>
               \/ m_mode' = Unknown
        PROVE  ModeInv'
    BY <1>1 DEF ModeInv, ModeAgrees, LastNews
  <1>2. CASE devConnect \/ devDisconnect \/ ManualRequest \/ requestsStatClear \/ LoseUp
    BY <1>1, <1>2 DEF devConnect, devDisconnect, ManualRequest, requestsStatClear, LoseUp,
                      P_invalidate_all, known, device, client
  <1>3. CASE \E r \in Ruids : P_timeoutEvent(r)
    BY <1>1, <1>3 DEF P_timeoutEvent, known, device
  <1>4. CASE dataReplyReceive
    BY <1>4, ModeRead
  <1>5. CASE P_comm_reader
    <2> DEFINE req == Head(up)
               err == req.func \in Writes /\ runMode \notin Service3
               reply == [type |-> "REPLY", ruid |-> req.ruid, func |-> req.func,
                         err |-> err, resv |-> Values(req.func)]
    <2>1. down' = Append(down, reply) /\ UNCHANGED <<client, runMode, missed>>
      BY <1>5 DEF P_comm_reader
    <2>2. reply.type = "REPLY" /\ reply.resv = Values(req.func)
      OBVIOUS
    <2> HIDE DEF reply
    <2>3. Tells(reply, runMode')
      BY <2>1, <2>2, ValuesTell DEF Tells
    <2>4. LastNews'
      BY <2>1, <2>3, NewsSent DEF ModeInv
    <2>5. /\ DOMAIN down = 1..Len(down) /\ DOMAIN down' = 1..(Len(down) + 1) /\ Len(down) \in Nat
          /\ \A i \in 1..Len(down) : down'[i] = down[i]
      BY <2>1 DEF TypeOK
    <2>6. ModeAgrees'
      BY <2>1, <2>5 DEF ModeInv, ModeAgrees, client, known
    <2> QED
      BY <2>4, <2>6 DEF ModeInv
  <1>6. CASE ModeChanges
    <2> DEFINE news == [type |-> "MODE_CHANGED", mode |-> runMode']
    <2>1. down' = Append(down, news)
      BY <1>6 DEF ModeChanges
    <2>2. LastNews'
      BY <2>1, NewsSent DEF ModeInv, Tells
    <2>3. Len(down) + 1 \in DOMAIN down' /\ down'[Len(down) + 1] = news
      BY <2>1 DEF TypeOK
    <2>4. ModeAgrees'
      BY <2>3 DEF ModeAgrees
    <2> QED
      BY <2>2, <2>4 DEF ModeInv
  <1>7. CASE LoseDown
    <2>1. /\ down # << >> /\ down' = Tail(down) /\ UNCHANGED <<runMode, m_mode, opened>>
          /\ missed' = (missed \/ Head(down).type = "MODE_CHANGED")
      BY <1>7 DEF LoseDown, device, client, known
    <2>2. /\ LastNews'
          /\ (\A i \in DOMAIN down' : down'[i].type # "MODE_CHANGED") /\ Head(down).type # "MODE_CHANGED"
               => \A i \in DOMAIN down : down[i].type # "MODE_CHANGED"
      BY <2>1, NewsRead DEF ModeInv
    <2>3. ModeAgrees'
      BY <2>1, <2>2 DEF ModeInv, ModeAgrees
    <2> QED
      BY <2>2, <2>3 DEF ModeInv
  <1>8. CASE UNCHANGED vars
    BY <1>1, <1>8 DEF vars, device, client, known
  <1> QED
    BY <1>2, <1>3, <1>4, <1>5, <1>6, <1>7, <1>8 DEF Next

\* The mode the tool shows is the device's, unless news of another is under way
\* or was lost, through any sequence of sessions, losses and late replies.
THEOREM ModeAgreesHolds == Spec => []ModeAgrees
  <1>1. Init => ModeInv
    BY DEF Init, ModeInv, ModeAgrees, LastNews
  <1>2. RequestsAwaited => TypeOK
    BY DEF RequestsAwaited
  <1>3. ModeInv => ModeAgrees
    BY DEF ModeInv
  <1> QED
    BY <1>1, <1>2, <1>3, RequestsAwaitedHolds, NextModeInv, PTL DEF Spec

-----------------------------------------------------------------------------
(***************************************************************************)
(* Answers.  As long as no identification is given to a request while an   *)
(* earlier request with it still means something, all that is under way    *)
(* with an awaited identification is about the request awaited, and what   *)
(* has an outcome is not awaited any more.                                 *)
(***************************************************************************)

OfTheRequest(q) ==
  \A i \in 1..Len(q) :
    q[i].ruid \in DOMAIN m_awaiting_requests => m_awaiting_requests[q[i].ruid] = q[i].func

AwaitedIsOpen ==
  \A r \in DOMAIN m_awaiting_requests \cap DOMAIN m_statuses : m_statuses[r].res = "AWAITING"

AnswerInv == AnswersTheRequest /\ OfTheRequest(up) /\ AwaitedIsOpen

\* One outcome, as a step.
KeepsOutcomes ==
  \A r \in DOMAIN m_statuses \cap DOMAIN m_statuses' :
    m_statuses[r].res # "AWAITING" => m_statuses'[r] = m_statuses[r]

\* The identifications of one slot differ, and they are the ones given.
LEMMA RuidsGiven ==
  ASSUME m_ruid_last \in Ruids, NEW n \in 0..4, m_ruid_last' = Ruid(n + 1)
  PROVE  /\ Given = {Ruid(i) : i \in 1..n}
         /\ \A i, j \in 1..n : Ruid(i) = Ruid(j) => i = j
  <1>1. RUIDS \in Nat /\ RUIDS > 4 /\ m_ruid_last \in Nat /\ m_ruid_last < RUIDS
    BY DeviceLinkAssumption DEF Ruids
  <1>2. ASSUME NEW k \in 0..4
        PROVE  (m_ruid_last + k) % RUIDS =
                 IF m_ruid_last + k < RUIDS THEN m_ruid_last + k ELSE m_ruid_last + k - RUIDS
    BY <1>1
  <1>3. \A i \in 1..5 : i - 1 \in 0..4 /\ m_ruid_last + i - 1 = m_ruid_last + (i - 1)
    BY <1>1
  <1>4. \A i \in 1..5 : Ruid(i) = IF m_ruid_last + (i - 1) < RUIDS THEN m_ruid_last + (i - 1)
                                  ELSE m_ruid_last + (i - 1) - RUIDS
    BY <1>2, <1>3 DEF Ruid
  <1>5. n + 1 \in 1..5 /\ \A i \in 1..n : i \in 1..5
    OBVIOUS
  <1>6. m_ruid_last' - m_ruid_last = n \/ m_ruid_last' - m_ruid_last = n - RUIDS
    BY <1>1, <1>4, <1>5
  <1>7. n % RUIDS = n /\ (n - RUIDS) % RUIDS = n
    BY <1>1
  <1>8. (m_ruid_last' - m_ruid_last) % RUIDS = n
    BY <1>6, <1>7
  <1>9. \A i, j \in 1..n : Ruid(i) = Ruid(j) => i = j
    BY <1>1, <1>4, <1>5
  <1> QED
    BY <1>8, <1>9 DEF Given

\* What a slot that makes requests adds, and that it leaves the rest alone.
LEMMA RequestAdds ==
  ASSUME TypeOK,
         NEW funcs \in Seq(Funcs), Len(funcs) <= 4, NEW mode \in {"AUTO", "MANUAL"},
         NEW waiting, NEW statuses, NEW queue,
         Request(funcs, mode, waiting, statuses, queue)
  PROVE  /\ DOMAIN m_awaiting_requests' = Given \cup DOMAIN waiting
         /\ DOMAIN m_statuses' = Given \cup DOMAIN statuses
         /\ \A r \in Given : m_statuses'[r].res = "AWAITING"
         /\ \A r \in DOMAIN waiting \ Given : m_awaiting_requests'[r] = waiting[r]
         /\ \A r \in DOMAIN statuses \ Given : m_statuses'[r] = statuses[r]
         /\ \A i \in 1..Len(up') :
              \/ i \in 1..Len(up) /\ up'[i] = up[i]
              \/ /\ up'[i].ruid \in Given
                 /\ m_awaiting_requests'[up'[i].ruid] = up'[i].func
  <1> DEFINE new == [r \in {Ruid(i) : i \in DOMAIN funcs} |->
                       funcs[CHOOSE i \in DOMAIN funcs : Ruid(i) = r]]
             marked == [r \in DOMAIN new |-> Asked(new[r], mode)]
             posted == [i \in DOMAIN funcs |-> [ruid |-> Ruid(i), func |-> funcs[i]]]
  <1>1. /\ m_awaiting_requests' = Over(new, waiting)
        /\ m_statuses' = Over(marked, statuses)
        /\ m_ruid_last' = Ruid(Len(funcs) + 1)
        /\ up' = IF opened' THEN up \o posted ELSE up
    BY DEF Request
  <1>2. DOMAIN funcs = 1..Len(funcs) /\ Len(funcs) \in 0..4
    <2>1. Len(funcs) \in Nat /\ DOMAIN funcs = 1..Len(funcs)
      OBVIOUS
    <2> QED
      BY <2>1
  <1>3. /\ Given = {Ruid(i) : i \in 1..Len(funcs)}
        /\ \A i, j \in 1..Len(funcs) : Ruid(i) = Ruid(j) => i = j
    BY <1>1, <1>2, RuidsGiven DEF TypeOK
  <1>4. DOMAIN new = Given /\ \A i \in 1..Len(funcs) : Ruid(i) \in Given /\ new[Ruid(i)] = funcs[i]
    BY <1>2, <1>3
  <1> HIDE DEF new
  <1>5. DOMAIN marked = Given /\ \A r \in Given : marked[r].res = "AWAITING"
    BY <1>4 DEF Asked
  <1> HIDE DEF marked
  <1>6. /\ DOMAIN m_awaiting_requests' = Given \cup DOMAIN waiting
        /\ \A r \in DOMAIN waiting \ Given : m_awaiting_requests'[r] = waiting[r]
        /\ \A r \in Given : m_awaiting_requests'[r] = new[r]
    BY <1>1, <1>4 DEF Over
  <1>7. /\ DOMAIN m_statuses' = Given \cup DOMAIN statuses
        /\ \A r \in DOMAIN statuses \ Given : m_statuses'[r] = statuses[r]
        /\ \A r \in Given : m_statuses'[r].res = "AWAITING"
    BY <1>1, <1>5 DEF Over
  <1>8. ASSUME NEW i \in 1..Len(up')
        PROVE  \/ i \in 1..Len(up) /\ up'[i] = up[i]
               \/ /\ up'[i].ruid \in Given
                  /\ m_awaiting_requests'[up'[i].ruid] = up'[i].func
    <2>1. CASE up' = up
      BY <2>1
    <2>2. CASE up' = up \o posted
      <3>1. /\ Len(up) \in Nat /\ Len(posted) = Len(funcs)
            /\ \A k \in 1..Len(funcs) : posted[k] = [ruid |-> Ruid(k), func |-> funcs[k]]
        BY <1>2 DEF TypeOK
      <3>2. up \in Seq(Requests) /\ posted \in Seq(Requests)
        <4>1. \A k \in 1..Len(funcs) : funcs[k] \in Funcs /\ Ruid(k) \in Ruids
          BY <1>2, RuidType DEF TypeOK
        <4> QED
          BY <1>2, <4>1 DEF TypeOK, Requests
      <3> HIDE DEF posted
      <3>6. /\ Len(up \o posted) = Len(up) + Len(posted)
            /\ \A k \in 1..(Len(up) + Len(posted)) :
                 (up \o posted)[k] = IF k <= Len(up) THEN up[k] ELSE posted[k - Len(up)]
        BY <3>2, ConcatProperties
      <3>3. /\ Len(up') = Len(up) + Len(funcs)
            /\ \A k \in 1..(Len(up) + Len(funcs)) :
                 up'[k] = IF k <= Len(up) THEN up[k] ELSE posted[k - Len(up)]
        BY <2>2, <3>1, <3>6
      <3>4. CASE i <= Len(up)
        BY <3>1, <3>3, <3>4
      <3>5. CASE i > Len(up)
        <4>1. i - Len(up) \in 1..Len(funcs)
          BY <1>2, <3>1, <3>3, <3>5
        <4>3. up'[i] = posted[i - Len(up)]
          BY <1>2, <3>1, <3>3, <3>5
        <4>2. up'[i] = [ruid |-> Ruid(i - Len(up)), func |-> funcs[i - Len(up)]]
          BY <3>1, <4>1, <4>3
        <4> QED
          BY <1>4, <1>6, <4>1, <4>2
      <3> QED
        BY <1>2, <3>1, <3>3, <3>4, <3>5
    <2> QED
      BY <1>1, <2>1, <2>2
  <1> QED
    BY <1>6, <1>7, <1>8

\* What is under way was in use.
LEMMA UnderWay ==
  ASSUME Given \cap InUse = {}
  PROVE  /\ \A i \in DOMAIN up : up[i].ruid \notin Given
         /\ \A i \in DOMAIN down : down[i].type = "REPLY" => down[i].ruid \notin Given
         /\ \A r \in DOMAIN m_awaiting_requests : r \notin Given
         /\ \A r \in DOMAIN m_statuses : r \notin Given
  BY DEF InUse

\* Frames read or lost: those left were there before.
FramesFrom(new, old) == \A i \in DOMAIN new : \E j \in DOMAIN old : new[i] = old[j]

LEMMA TailFrom ==
  ASSUME NEW S, NEW q \in Seq(S), q # << >>
  PROVE  FramesFrom(Tail(q), q) /\ FramesFrom(q, q) /\ Head(q) = q[1] /\ 1 \in DOMAIN q
  <1>1. /\ Len(q) \in Nat \ {0} /\ DOMAIN q = 1..Len(q) /\ DOMAIN Tail(q) = 1..(Len(q) - 1)
        /\ \A i \in 1..(Len(q) - 1) : Tail(q)[i] = q[i + 1] /\ i + 1 \in 1..Len(q)
    OBVIOUS
  <1> QED
    BY <1>1 DEF FramesFrom

\* A slot that takes entries out of the books and makes requests.
LEMMA SlotAnswers ==
  ASSUME TypeOK, AnswerInv, Given \cap InUse = {},
         NEW funcs \in Seq(Funcs), Len(funcs) <= 4, NEW mode \in {"AUTO", "MANUAL"},
         NEW waiting, NEW statuses, NEW queue,
         Request(funcs, mode, waiting, statuses, queue),
         DOMAIN waiting \subseteq DOMAIN m_awaiting_requests,
         \A r \in DOMAIN waiting : waiting[r] = m_awaiting_requests[r],
         DOMAIN statuses \subseteq DOMAIN m_statuses,
         \A r \in DOMAIN waiting \cap DOMAIN statuses : statuses[r].res = "AWAITING",
         \A r \in DOMAIN statuses : m_statuses[r].res # "AWAITING" => statuses[r] = m_statuses[r],
         FramesFrom(down', down)
  PROVE  AnswerInv' /\ KeepsOutcomes
  <1>1. /\ DOMAIN m_awaiting_requests' = Given \cup DOMAIN waiting
        /\ DOMAIN m_statuses' = Given \cup DOMAIN statuses
        /\ \A r \in Given : m_statuses'[r].res = "AWAITING"
        /\ \A r \in DOMAIN waiting \ Given : m_awaiting_requests'[r] = waiting[r]
        /\ \A r \in DOMAIN statuses \ Given : m_statuses'[r] = statuses[r]
        /\ \A i \in 1..Len(up') :
             \/ i \in 1..Len(up) /\ up'[i] = up[i]
             \/ /\ up'[i].ruid \in Given
                /\ m_awaiting_requests'[up'[i].ruid] = up'[i].func
    BY RequestAdds
  <1>3. AnswersTheRequest'
    <2> SUFFICES ASSUME NEW i \in DOMAIN down', down'[i].type = "REPLY",
                        down'[i].ruid \in DOMAIN m_awaiting_requests'
                 PROVE  m_awaiting_requests'[down'[i].ruid] = down'[i].func
      BY DEF AnswersTheRequest
    <2>1. PICK j \in DOMAIN down : down'[i] = down[j]
      BY DEF FramesFrom
    <2>2. down[j].ruid \in DOMAIN waiting \ Given
      BY <1>1, <2>1, UnderWay
    <2> QED
      BY <1>1, <2>1, <2>2 DEF AnswerInv, AnswersTheRequest
  <1>4. OfTheRequest(up)'
    <2> SUFFICES ASSUME NEW i \in 1..Len(up'), up'[i].ruid \in DOMAIN m_awaiting_requests'
                 PROVE  m_awaiting_requests'[up'[i].ruid] = up'[i].func
      BY <1>1 DEF OfTheRequest
    <2>1. CASE i \in 1..Len(up) /\ up'[i] = up[i]
      <3>1. DOMAIN up = 1..Len(up)
        BY DEF TypeOK
      <3>2. up[i].ruid \in DOMAIN waiting \ Given
        BY <1>1, <2>1, <3>1, UnderWay
      <3> QED
        BY <1>1, <2>1, <3>2 DEF AnswerInv, OfTheRequest
    <2> QED
      BY <1>1, <2>1
  <1>5. AwaitedIsOpen'
    BY <1>1, UnderWay DEF AwaitedIsOpen
  <1>6. KeepsOutcomes
    BY <1>1, UnderWay DEF KeepsOutcomes
  <1> QED
    BY <1>3, <1>4, <1>5, <1>6 DEF AnswerInv

\* The end of a wait, with its outcome.
LEMMA OutcomeMarked ==
  ASSUME TypeOK, AwaitedIsOpen, NEW r \in DOMAIN m_awaiting_requests, NEW res
  PROVE  LET waiting  == Without(m_awaiting_requests, r)
             statuses == Marked(r, res)
         IN  /\ DOMAIN waiting \subseteq DOMAIN m_awaiting_requests
             /\ \A s \in DOMAIN waiting : waiting[s] = m_awaiting_requests[s]
             /\ DOMAIN statuses \subseteq DOMAIN m_statuses
             /\ \A s \in DOMAIN waiting \cap DOMAIN statuses : statuses[s].res = "AWAITING"
             /\ \A s \in DOMAIN statuses :
                  m_statuses[s].res # "AWAITING" => statuses[s] = m_statuses[s]
  <1>1. DOMAIN Without(m_awaiting_requests, r) = DOMAIN m_awaiting_requests \ {r}
        /\ \A s \in DOMAIN m_awaiting_requests \ {r} :
             Without(m_awaiting_requests, r)[s] = m_awaiting_requests[s]
    BY DEF Without
  <1>2. DOMAIN Marked(r, res) = DOMAIN m_statuses
        /\ \A s \in DOMAIN m_statuses \ {r} : Marked(r, res)[s] = m_statuses[s]
    BY DEF Marked
  <1> QED
    BY <1>1, <1>2 DEF AwaitedIsOpen

\* A request is asked again once at most.
LEMMA ReloadOnce ==
  ASSUME NEW func \in Funcs, NEW ppr, NEW mode, NEW started
  PROVE  Reload(func, ppr, mode, started) \in Seq(Funcs) /\ Len(Reload(func, ppr, mode, started)) <= 4
  BY DEF Reload

LEMMA UserAnswers ==
  ASSUME TypeOK, AnswerInv, Given \cap InUse = {},
         devConnect \/ devDisconnect \/ ManualRequest \/ requestsStatClear
  PROVE  AnswerInv' /\ KeepsOutcomes
  <1>0. FramesFrom(down, down)
    BY DEF FramesFrom
  <1>1. CASE devConnect
    <2> DEFINE funcs == <<"00_PULSES_R", "01_MODE_R", "02_KOEF_R", "07_PROCESS_START">>
    <2>1. funcs \in Seq(Funcs) /\ Len(funcs) <= 4
      BY DEF Funcs
    <2>2. Request(funcs, "AUTO", m_awaiting_requests, m_statuses, m_autoqueue) /\ down' = down
      BY <1>1 DEF devConnect
    <2> HIDE DEF funcs
    <2> QED
      BY <1>0, <2>1, <2>2, SlotAnswers DEF AnswerInv, AwaitedIsOpen
  <1>2. CASE ManualRequest
    <2>1. PICK func \in Manual :
            Request(<<func>>, "MANUAL", m_awaiting_requests, m_statuses, m_autoqueue)
      BY <1>2 DEF ManualRequest
    <2>2. <<func>> \in Seq(Funcs) /\ Len(<<func>>) <= 4 /\ down' = down
      BY <1>2, DeviceLinkAssumption DEF ManualRequest
    <2> QED
      BY <1>0, <2>1, <2>2, SlotAnswers DEF AnswerInv, AwaitedIsOpen
  <1>3. CASE devDisconnect
    <2> DEFINE stop == [r \in {Ruid(1)} |-> Asked("08_PROCESS_STOP", "AUTO")]
    <2>1. /\ m_statuses' = Over(stop, m_statuses) /\ m_ruid_last' = Ruid(2)
          /\ m_awaiting_requests' = << >> /\ UNCHANGED <<up, down>>
      BY <1>3 DEF devDisconnect
    <2>2. Given = {Ruid(i) : i \in 1..1}
      <3>1. 1 \in 0..4 /\ 1 + 1 = 2
        OBVIOUS
      <3> QED
        BY <2>1, <3>1, RuidsGiven DEF TypeOK
    <2>3. Ruid(1) \notin DOMAIN m_statuses
      BY <2>2, UnderWay
    <2>4. KeepsOutcomes
      BY <2>1, <2>3 DEF KeepsOutcomes, Over
    <2>5. DOMAIN m_awaiting_requests' = {}
      BY <2>1
    <2> QED
      BY <2>4, <2>5 DEF AnswerInv, AnswersTheRequest, OfTheRequest, AwaitedIsOpen
  <1>4. CASE requestsStatClear
    <2>1. PICK kept \in {{}, {r \in DOMAIN m_statuses : m_statuses[r].res # "TIMEOUT"}} :
            m_statuses' = [r \in kept |-> m_statuses[r]]
      BY <1>4 DEF requestsStatClear
    <2>2. /\ DOMAIN m_statuses' \subseteq DOMAIN m_statuses
          /\ \A r \in DOMAIN m_statuses' : m_statuses'[r] = m_statuses[r]
      BY <2>1
    <2>3. UNCHANGED <<m_awaiting_requests, up, down>>
      BY <1>4 DEF requestsStatClear
    <2> QED
      BY <2>2, <2>3
      DEF AnswerInv, AnswersTheRequest, OfTheRequest, AwaitedIsOpen, KeepsOutcomes
  <1> QED
    BY <1>1, <1>2, <1>3, <1>4

LEMMA TimeoutAnswers ==
  ASSUME RequestsAwaited, AnswerInv, Given \cap InUse = {}, NEW r \in Ruids, P_timeoutEvent(r)
  PROVE  AnswerInv' /\ KeepsOutcomes
  <1> DEFINE func == m_awaiting_requests[r]
             again == IF r \in m_autoqueue
                      THEN Reload(func, m_ppr_valid, m_mode, m_prosess_started) ELSE << >>
             waiting == Without(m_awaiting_requests, r)
             statuses == Marked(r, "TIMEOUT")
  <1>1. r \in DOMAIN m_awaiting_requests /\ down' = down
    BY DEF P_timeoutEvent
  <1>2. func \in Funcs /\ TypeOK
    BY <1>1 DEF RequestsAwaited, TypeOK
  <1>3. again \in Seq(Funcs) /\ Len(again) <= 4
    <2>1. << >> \in Seq(Funcs) /\ Len(<< >>) = 0
      OBVIOUS
    <2> QED
      BY <1>2, <2>1, ReloadOnce
  <1>4. Request(again, "AUTO", waiting, statuses, m_autoqueue \ {r})
    BY DEF P_timeoutEvent
  <1>5. /\ DOMAIN waiting \subseteq DOMAIN m_awaiting_requests
        /\ \A s \in DOMAIN waiting : waiting[s] = m_awaiting_requests[s]
        /\ DOMAIN statuses \subseteq DOMAIN m_statuses
        /\ \A s \in DOMAIN waiting \cap DOMAIN statuses : statuses[s].res = "AWAITING"
        /\ \A s \in DOMAIN statuses :
             m_statuses[s].res # "AWAITING" => statuses[s] = m_statuses[s]
    BY <1>1, <1>2, OutcomeMarked DEF AnswerInv
  <1>6. FramesFrom(down', down)
    BY <1>1 DEF FramesFrom
  <1> HIDE DEF again, waiting, statuses
  <1> QED
    BY <1>2, <1>3, <1>4, <1>5, <1>6, SlotAnswers

LEMMA ReplyAnswers ==
  ASSUME RequestsAwaited, AnswerInv, Given \cap InUse = {}, down # << >>, down' = Tail(down),
         Head(down).type = "REPLY", Head(down).ruid \in DOMAIN m_awaiting_requests,
         Replied(Head(down), m_awaiting_requests[Head(down).ruid])
  PROVE  AnswerInv' /\ KeepsOutcomes
  <1> DEFINE msg == Head(down)
             func == m_awaiting_requests[msg.ruid]
             success == func \in DOMAIN Expected => Len(msg.resv) = Expected[func]
             again == IF ~success /\ msg.ruid \in DOMAIN m_statuses
                         /\ m_statuses[msg.ruid].reqmode = "AUTO"
                      THEN Reload(func, m_ppr_valid, m_mode, m_prosess_started) ELSE << >>
             res == IF msg.err THEN "ERROR" ELSE "SUCCESS"
             waiting == Without(m_awaiting_requests, msg.ruid)
             statuses == Marked(msg.ruid, res)
  <1>2. func \in Funcs /\ TypeOK
    BY DEF RequestsAwaited, TypeOK
  <1>3. again \in Seq(Funcs) /\ Len(again) <= 4
    <2>1. << >> \in Seq(Funcs) /\ Len(<< >>) = 0
      OBVIOUS
    <2> QED
      BY <1>2, <2>1, ReloadOnce
  <1>4. Request(again, "AUTO", waiting, statuses, m_autoqueue \ {msg.ruid})
    BY DEF Replied
  <1>5. /\ DOMAIN waiting \subseteq DOMAIN m_awaiting_requests
        /\ \A s \in DOMAIN waiting : waiting[s] = m_awaiting_requests[s]
        /\ DOMAIN statuses \subseteq DOMAIN m_statuses
        /\ \A s \in DOMAIN waiting \cap DOMAIN statuses : statuses[s].res = "AWAITING"
        /\ \A s \in DOMAIN statuses :
             m_statuses[s].res # "AWAITING" => statuses[s] = m_statuses[s]
    BY <1>2, OutcomeMarked DEF AnswerInv
  <1>6. FramesFrom(down', down)
    BY <1>2, TailFrom DEF TypeOK
  <1> HIDE DEF again, waiting, statuses
  <1> QED
    BY <1>2, <1>3, <1>4, <1>5, <1>6, SlotAnswers

\* A step that touches neither the requests awaited nor their statuses, and
\* leaves frames that were there.
LEMMA QuietAnswers ==
  ASSUME TypeOK, AnswerInv, UNCHANGED <<m_awaiting_requests, m_statuses>>,
         FramesFrom(up', up), FramesFrom(down', down), up' \in Seq(Requests)
  PROVE  AnswerInv' /\ KeepsOutcomes
  <1>1. DOMAIN up = 1..Len(up) /\ DOMAIN up' = 1..Len(up')
    BY DEF TypeOK
  <1>2. OfTheRequest(up)'
    <2> SUFFICES ASSUME NEW i \in DOMAIN up',
                        up'[i].ruid \in DOMAIN m_awaiting_requests'
                 PROVE  m_awaiting_requests'[up'[i].ruid] = up'[i].func
      BY <1>1 DEF OfTheRequest
    <2>1. PICK k \in 1..Len(up) : up'[i] = up[k]
      BY <1>1 DEF FramesFrom
    <2> QED
      BY <2>1 DEF AnswerInv, OfTheRequest
  <1> QED
    BY <1>2 DEF AnswerInv, AnswersTheRequest, AwaitedIsOpen, KeepsOutcomes, FramesFrom

\* The device answers a request under way; an event answers none.
LEMMA DeviceAnswers ==
  ASSUME TypeOK, AnswerInv, P_comm_reader \/ ModeChanges
  PROVE  AnswerInv' /\ KeepsOutcomes
  <1>0. Len(down) \in Nat /\ DOMAIN down = 1..Len(down)
    BY DEF TypeOK
  <1>1. ASSUME NEW frame, down' = Append(down, frame), NEW i \in DOMAIN down'
        PROVE  (i \in DOMAIN down /\ down'[i] = down[i]) \/ down'[i] = frame
    <2>1. /\ DOMAIN down' = 1..(Len(down) + 1) /\ down'[Len(down) + 1] = frame
          /\ \A k \in 1..Len(down) : down'[k] = down[k]
      BY <1>1 DEF TypeOK
    <2>2. i = Len(down) + 1 \/ i \in 1..Len(down)
      BY <1>0, <1>1, <2>1
    <2> QED
      BY <1>0, <2>1, <2>2
  <1>2. CASE P_comm_reader
    <2> DEFINE req == Head(up)
               err == req.func \in Writes /\ runMode \notin Service3
               reply == [type |-> "REPLY", ruid |-> req.ruid, func |-> req.func,
                         err |-> err, resv |-> Values(req.func)]
    <2>1. /\ up # << >> /\ up' = Tail(up) /\ down' = Append(down, reply)
          /\ UNCHANGED <<m_awaiting_requests, m_statuses>>
      BY <1>2 DEF P_comm_reader, client
    <2>2. reply.ruid = req.ruid /\ reply.func = req.func
      OBVIOUS
    <2>3. FramesFrom(up', up) /\ req = up[1] /\ 1 \in DOMAIN up
      BY <2>1, TailFrom DEF TypeOK
    <2>6. up' \in Seq(Requests) /\ DOMAIN up = 1..Len(up) /\ DOMAIN up' = 1..Len(up')
      BY <2>1 DEF TypeOK
    <2>4. reply.ruid \in DOMAIN m_awaiting_requests => m_awaiting_requests[reply.ruid] = reply.func
      BY <2>2, <2>3, <2>6 DEF AnswerInv, OfTheRequest
    <2> HIDE DEF reply
    <2>5. AnswersTheRequest'
      BY <1>1, <2>1, <2>4 DEF AnswerInv, AnswersTheRequest
    <2>7. OfTheRequest(up)'
      BY <2>1, <2>3, <2>6 DEF AnswerInv, OfTheRequest, FramesFrom
    <2> QED
      BY <2>1, <2>5, <2>7 DEF AnswerInv, AwaitedIsOpen, KeepsOutcomes
  <1>3. CASE ModeChanges
    <2> DEFINE news == [type |-> "MODE_CHANGED", mode |-> runMode']
    <2>1. down' = Append(down, news) /\ UNCHANGED <<m_awaiting_requests, m_statuses, up>>
      BY <1>3 DEF ModeChanges, client
    <2>2. news.type # "REPLY"
      OBVIOUS
    <2> HIDE DEF news
    <2>3. AnswersTheRequest'
      BY <1>1, <2>1, <2>2 DEF AnswerInv, AnswersTheRequest
    <2> QED
      BY <2>1, <2>3 DEF AnswerInv, OfTheRequest, AwaitedIsOpen, KeepsOutcomes
  <1> QED
    BY <1>2, <1>3

LEMMA NextAnswerInv ==
  ASSUME RequestsAwaited, AnswerInv, [Next]_vars, [Given \cap InUse = {}]_vars
  PROVE  AnswerInv' /\ [KeepsOutcomes]_vars
  <1>1. TypeOK /\ FramesFrom(up, up) /\ FramesFrom(down, down)
        /\ up \in Seq(Requests) /\ down \in Seq(Replies \cup Events)
    BY DEF RequestsAwaited, TypeOK, FramesFrom
  <1>2. CASE UNCHANGED vars
    <2>1. UNCHANGED <<m_awaiting_requests, m_statuses, up, down>>
      BY <1>2 DEF vars, client
    <2> QED
      BY <1>1, <1>2, <2>1, QuietAnswers
  <1>3. CASE Next /\ Given \cap InUse = {}
    <2>1. CASE devConnect \/ devDisconnect \/ ManualRequest \/ requestsStatClear
      BY <1>1, <1>3, <2>1, UserAnswers
    <2>2. CASE \E r \in Ruids : P_timeoutEvent(r)
      BY <1>3, <2>2, TimeoutAnswers
    <2>3. CASE dataReplyReceive
      <3>1. down # << >> /\ down' = Tail(down) /\ FramesFrom(down', down)
        BY <1>1, <2>3, TailFrom DEF dataReplyReceive
      <3>2. \/ UNCHANGED <<m_awaiting_requests, m_statuses, up>>
            \/ /\ Head(down).type = "REPLY" /\ Head(down).ruid \in DOMAIN m_awaiting_requests
               /\ Replied(Head(down), m_awaiting_requests[Head(down).ruid])
        BY <2>3 DEF dataReplyReceive, client
      <3> QED
        BY <1>1, <1>3, <3>1, <3>2, QuietAnswers, ReplyAnswers
    <2>4. CASE P_comm_reader \/ ModeChanges
      BY <1>1, <2>4, DeviceAnswers
    <2>5. CASE LoseUp \/ LoseDown
      <3>1. UNCHANGED <<m_awaiting_requests, m_statuses>>
        BY <2>5 DEF LoseUp, LoseDown, client
      <3>2. CASE LoseUp
        <4>1. up # << >> /\ up' = Tail(up) /\ down' = down
          BY <3>2 DEF LoseUp
        <4>2. FramesFrom(up', up) /\ up' \in Seq(Requests)
          BY <1>1, <4>1, TailFrom
        <4> QED
          BY <1>1, <3>1, <4>1, <4>2, QuietAnswers
      <3>3. CASE LoseDown
        <4>1. down # << >> /\ down' = Tail(down) /\ up' = up
          BY <3>3 DEF LoseDown
        <4>2. FramesFrom(down', down)
          BY <1>1, <4>1, TailFrom
        <4> QED
          BY <1>1, <3>1, <4>1, <4>2, QuietAnswers
      <3> QED
        BY <2>5, <3>2, <3>3
    <2> QED
      BY <1>3, <2>1, <2>2, <2>3, <2>4, <2>5 DEF Next
  <1> QED
    BY <1>2, <1>3

LEMMA InitAnswerInv == Init => AnswerInv
  BY DEF Init, AnswerInv, AnswersTheRequest, OfTheRequest, AwaitedIsOpen

\* While no identification comes round to one in use, a reply under way is taken
\* for an answer to its own request only, whatever was lost, late or called off.
LEMMA RequestsAnswered == Spec /\ IdentificationsFresh => []AnswersTheRequest
  <1>1. AnswerInv => AnswersTheRequest
    BY DEF AnswerInv
  <1> QED
    BY <1>1, InitAnswerInv, NextAnswerInv, RequestsAwaitedHolds, PTL
    DEF Spec, IdentificationsFresh

\* And then a request has one outcome: no late reply undoes a time-out.
LEMMA OneOutcome == Spec /\ IdentificationsFresh => AnsweredOnce
  <1>1. RequestsAwaited /\ AnswerInv /\ [Next]_vars /\ [Given \cap InUse = {}]_vars =>
          [\A r \in DOMAIN m_statuses \cap DOMAIN m_statuses' :
             m_statuses[r].res # "AWAITING" => m_statuses'[r] = m_statuses[r]]_vars
    BY NextAnswerInv DEF KeepsOutcomes
  <1> QED
    BY <1>1, InitAnswerInv, NextAnswerInv, RequestsAwaitedHolds, PTL
    DEF Spec, IdentificationsFresh, AnsweredOnce

\* A request is answered by its own answer and once, or not at all: as long as
\* requestSend, which gives identifications without a look at those in use,
\* gives none of them again.
THEOREM OneRightAnswer == Spec /\ IdentificationsFresh => AnsweredRightly
  BY RequestsAnswered, OneOutcome, PTL DEF AnsweredRightly

(***************************************************************************)
(* The set point box: what the slider and the spin box end with, for every *)
(* accuracy of both, when one sets the other and is set by it.             *)
(***************************************************************************)

\* A value of the spin box is even, and divided by the step it comes back.
LEMMA Evens ==
  ASSUME NEW q \in Int
  PROVE  SpinUnit * q \in Int /\ (SpinUnit * q) % 2 = 0
  <1>1. SpinUnit \in Nat /\ SpinUnit % 2 = 0
    BY SetpointAssumption DEF SetpointAssumption
  <1>2. SpinUnit * q \in Int
    BY <1>1
  <1>3. SpinUnit \div 2 \in Int /\ SpinUnit = 2 * (SpinUnit \div 2)
    BY <1>1
  <1>4. PICK h \in Int : SpinUnit = 2 * h
    BY <1>3
  <1>5. SpinUnit * q = 2 * (h * q) /\ h * q \in Int
    BY <1>4
  <1> QED
    BY <1>2, <1>5

LEMMA Multiples ==
  ASSUME NEW q \in Int, NEW e \in Int, 0 <= e, e < SpinUnit
  PROVE  (SpinUnit * q + e) \div SpinUnit = q
  BY SetpointAssumption DEF SetpointAssumption

\* What the spin box shows is on its grid, and neither the value of the slider
\* nor the one the slider falls back to leaves it.
OnGrid(r) == r \in Int /\ Rounded(r) = r /\ Rounded(2 * P_dbl_to_int(r)) = r

LEMMA RoundedFacts ==
  ASSUME NEW x \in Int
  PROVE  OnGrid(Rounded(x)) /\ P_dbl_to_int(Rounded(x)) \in Int
  <1>1. SpinUnit \in Nat /\ SpinUnit >= 4 /\ SpinUnit % 2 = 0
    BY SetpointAssumption DEF SetpointAssumption
  <1> DEFINE q == (x + SpinUnit \div 2) \div SpinUnit
             h == SpinUnit \div 2
  <1>2. q \in Int /\ h \in Int /\ 2 <= h /\ 2 * h = SpinUnit
    BY <1>1
  <1>3. Rounded(x) = SpinUnit * q
    BY <1>1, <1>2 DEF Rounded
  <1> HIDE DEF q
  <1> DEFINE r == SpinUnit * q
  <1>4. r \in Int /\ r % 2 = 0
    BY <1>2, Evens
  <1>5. ASSUME NEW e \in Int, 0 <= e + h, e + h < SpinUnit PROVE Rounded(r + e) = r
    <2>1. (SpinUnit * q + (e + h)) \div SpinUnit = q
      BY <1>2, <1>5, Multiples
    <2>2. r + e + h = SpinUnit * q + (e + h)
      BY <1>2, <1>4
    <2>3. Rounded(r + e) = ((r + e + h) \div SpinUnit) * SpinUnit
      BY DEF Rounded
    <2> QED
      BY <1>1, <1>2, <2>1, <2>2, <2>3
  <1> HIDE DEF r
  <1>6. Rounded(r + 0) = r /\ Rounded(r + (0 - 2)) = r
    BY <1>1, <1>2, <1>5
  <1>7. P_dbl_to_int(r) \in Int /\ (2 * P_dbl_to_int(r) = r + 0 \/ 2 * P_dbl_to_int(r) = r + (0 - 2))
    BY <1>4 DEF P_dbl_to_int
  <1>8. r + 0 = r
    BY <1>4
  <1>9. Rounded(x) = r
    BY <1>3 DEF r
  <1> QED
    BY <1>4, <1>6, <1>7, <1>8, <1>9 DEF OnGrid

LEMMA SliderType == ASSUME NEW x \in Int PROVE P_dbl_to_int(x) \in Int
  BY DEF P_dbl_to_int

\* The calls in a closed form: a slider set by the spin box that shows r does
\* not move it again; one moved by hand may, and may be moved back by it.
SpinBoxDoes(w, x) ==
  LET r == Rounded(x)
      d == P_dbl_to_int(r)
  IN  IF r = w.spin THEN w
      ELSE IF d = w.slider
      THEN [value |-> r, slider |-> w.slider, spin |-> r, told |-> Append(w.told, r)]
      ELSE [value |-> 2 * d, slider |-> d, spin |-> r, told |-> Append(Append(w.told, 2 * d), r)]
SliderDoes(w, k) ==
  LET s == SpinBoxDoes([value |-> 2 * k, slider |-> k, spin |-> w.spin, told |-> w.told], 2 * k)
  IN  IF k = w.slider THEN w
      ELSE [value |-> s.value, slider |-> s.slider, spin |-> s.spin, told |-> Append(s.told, s.value)]

\* The body of Handled.
HandledBy(f, c) ==
  LET w == c.w
      x == c.x
      r == Rounded(x)
      shown == f[[slot |-> "spin",
                  w |-> [w EXCEPT !.slider = x, !.value = P_int_to_dbl(x)],
                  x |-> P_int_to_dbl(x)]]
      moved == f[[slot |-> "slider",
                  w |-> [w EXCEPT !.spin = r, !.value = r],
                  x |-> P_dbl_to_int(r)]]
  IN  IF c.slot = "slider"
      THEN IF x = w.slider THEN w ELSE [shown EXCEPT !.told = Append(@, shown.value)]
      ELSE IF r = w.spin THEN w ELSE [moved EXCEPT !.told = Append(@, r)]

Does(c) == IF c.slot = "slider" THEN SliderDoes(c.w, c.x) ELSE SpinBoxDoes(c.w, c.x)

LEMMA DoesType ==
  ASSUME NEW w \in Widgets, NEW x \in Int
  PROVE  SpinBoxDoes(w, x) \in Widgets /\ SliderDoes(w, x) \in Widgets
  <1>1. ASSUME NEW v \in Widgets, NEW y \in Int PROVE SpinBoxDoes(v, y) \in Widgets
    BY <1>1, RoundedFacts DEF SpinBoxDoes, Widgets, OnGrid
  <1>2. [value |-> 2 * x, slider |-> x, spin |-> w.spin, told |-> w.told] \in Widgets /\ 2 * x \in Int
    BY DEF Widgets
  <1>3. SpinBoxDoes([value |-> 2 * x, slider |-> x, spin |-> w.spin, told |-> w.told], 2 * x) \in Widgets
    BY <1>1, <1>2
  <1>4. SliderDoes(w, x) \in Widgets
    BY <1>3 DEF SliderDoes, Widgets
  <1> QED
    BY <1>1, <1>4

LEMMA Changed ==
  ASSUME NEW w \in Widgets, NEW x \in Int, NEW y \in Int
  PROVE  /\ [w EXCEPT !.slider = x, !.value = y] =
              [value |-> y, slider |-> x, spin |-> w.spin, told |-> w.told]
         /\ [w EXCEPT !.spin = x, !.value = y] =
              [value |-> y, slider |-> w.slider, spin |-> x, told |-> w.told]
  <1> DEFINE u == [w EXCEPT !.slider = x, !.value = y]
             v == [w EXCEPT !.spin = x, !.value = y]
  <1>1. /\ u \in Widgets /\ u.value = y /\ u.slider = x /\ u.spin = w.spin /\ u.told = w.told
        /\ v \in Widgets /\ v.value = y /\ v.slider = w.slider /\ v.spin = x /\ v.told = w.told
    BY DEF Widgets
  <1>2. /\ u = [value |-> u.value, slider |-> u.slider, spin |-> u.spin, told |-> u.told]
        /\ v = [value |-> v.value, slider |-> v.slider, spin |-> v.spin, told |-> v.told]
    <2> HIDE DEF u, v
    <2> QED
      BY <1>1 DEF Widgets
  <1> QED
    BY <1>1, <1>2

\* A call of the slider's slot goes on with this record.
LEMMA Slid ==
  ASSUME NEW w \in Widgets, NEW x \in Int
  PROVE  [w EXCEPT !.slider = x, !.value = P_int_to_dbl(x)] =
           [value |-> 2 * x, slider |-> x, spin |-> w.spin, told |-> w.told]
  <1> DEFINE y == 2 * x
  <1>1. y \in Int
    OBVIOUS
  <1> HIDE DEF y
  <1>2. [w EXCEPT !.slider = x, !.value = y] =
          [value |-> y, slider |-> x, spin |-> w.spin, told |-> w.told]
    BY <1>1, Changed
  <1> QED
    BY <1>2 DEF y, P_int_to_dbl

LEMMA ToldMore ==
  ASSUME NEW w \in Widgets, NEW x \in Int
  PROVE  [w EXCEPT !.told = Append(@, x)] =
           [value |-> w.value, slider |-> w.slider, spin |-> w.spin, told |-> Append(w.told, x)]
  <1> DEFINE t == Append(w.told, x)
  <1> HIDE DEF t
  <1>1. [w EXCEPT !.told = t] = [value |-> w.value, slider |-> w.slider, spin |-> w.spin, told |-> t]
    BY DEF Widgets
  <1> QED
    BY <1>1 DEF t

\* The closed form solves the equation of Handled.
LEMMA DoesSolves ==
  ASSUME NEW f, f = [c \in Calls |-> Does(c)], NEW c \in Calls
  PROVE  f[c] = HandledBy(f, c)
  <1> DEFINE w == c.w
             x == c.x
             r == Rounded(x)
             d == P_dbl_to_int(r)
             w1 == [value |-> 2 * x, slider |-> x, spin |-> w.spin, told |-> w.told]
             w2 == [value |-> r, slider |-> w.slider, spin |-> r, told |-> w.told]
             w3 == [value |-> 2 * d, slider |-> d, spin |-> r, told |-> w.told]
  <1>1. w \in Widgets /\ x \in Int /\ c.slot \in {"slider", "spin"}
    BY DEF Calls
  <1>2. OnGrid(r) /\ r \in Int /\ d \in Int /\ 2 * d \in Int /\ 2 * x \in Int /\ Rounded(2 * d) = r
    BY <1>1, RoundedFacts DEF OnGrid
  <1>3. w1 \in Widgets /\ w2 \in Widgets /\ w3 \in Widgets
    BY <1>1, <1>2 DEF Widgets
  <1> HIDE DEF w, x, r, d
  <1>4. /\ [w EXCEPT !.slider = x, !.value = P_int_to_dbl(x)] = w1
        /\ [w EXCEPT !.spin = r, !.value = r] = w2
    <2>1. [w EXCEPT !.slider = x, !.value = P_int_to_dbl(x)] = w1
      BY <1>1, Slid
    <2>2. [w EXCEPT !.spin = r, !.value = r] = w2
      BY <1>1, <1>2, Changed, Zenon
    <2> QED
      BY <2>1, <2>2
  <1>5. /\ [slot |-> "spin", w |-> w1, x |-> 2 * x] \in Calls
        /\ [slot |-> "slider", w |-> w2, x |-> d] \in Calls
    BY <1>1, <1>2, <1>3 DEF Calls
  <1>6. /\ f[[slot |-> "spin", w |-> w1, x |-> 2 * x]] = SpinBoxDoes(w1, 2 * x)
        /\ f[[slot |-> "slider", w |-> w2, x |-> d]] = SliderDoes(w2, d)
        /\ f[c] = IF c.slot = "slider" THEN SliderDoes(w, x) ELSE SpinBoxDoes(w, x)
    BY <1>5 DEF Does, w, x
  <1>7. HandledBy(f, c) =
          IF c.slot = "slider"
          THEN IF x = w.slider THEN w
               ELSE [SpinBoxDoes(w1, 2 * x) EXCEPT !.told = Append(@, SpinBoxDoes(w1, 2 * x).value)]
          ELSE IF r = w.spin THEN w ELSE [SliderDoes(w2, d) EXCEPT !.told = Append(@, r)]
    <2> DEFINE shown == f[[slot |-> "spin",
                           w |-> [w EXCEPT !.slider = x, !.value = P_int_to_dbl(x)],
                           x |-> P_int_to_dbl(x)]]
               moved == f[[slot |-> "slider", w |-> [w EXCEPT !.spin = r, !.value = r], x |-> d]]
    <2>1. HandledBy(f, c) =
            IF c.slot = "slider"
            THEN IF x = w.slider THEN w ELSE [shown EXCEPT !.told = Append(@, shown.value)]
            ELSE IF r = w.spin THEN w ELSE [moved EXCEPT !.told = Append(@, r)]
      BY DEF HandledBy, w, x, r, d
    <2>2. shown = SpinBoxDoes(w1, 2 * x) /\ moved = SliderDoes(w2, d)
      BY <1>4, <1>6 DEF P_int_to_dbl
    <2> HIDE DEF shown, moved
    <2> QED
      BY <2>1, <2>2
  <1>8. SpinBoxDoes(w1, 2 * x) \in Widgets
    BY <1>2, <1>3, DoesType
  <1>9. CASE c.slot = "slider"
    BY <1>1, <1>6, <1>7, <1>8, <1>9 DEF SliderDoes, Widgets
  <1>10. CASE c.slot = "spin"
    <2> HIDE DEF w2
    <2>1. /\ w2.value = r /\ w2.slider = w.slider /\ w2.spin = r /\ w2.told = w.told
          /\ w3 = [value |-> 2 * d, slider |-> d, spin |-> w2.spin, told |-> w2.told]
          /\ w3.value = 2 * d /\ w3.slider = d /\ w3.spin = r /\ w3.told = w.told
      BY DEF w2
    <2> HIDE DEF w3
    <2>2. SpinBoxDoes(w3, 2 * d) = w3
      BY <1>2, <2>1 DEF SpinBoxDoes
    <2>3. SliderDoes(w2, d) = IF d = w.slider THEN w2
                              ELSE [value |-> 2 * d, slider |-> d, spin |-> r, told |-> Append(w.told, 2 * d)]
      <3>1. SliderDoes(w2, d) = IF d = w2.slider THEN w2
                                ELSE [value |-> w3.value, slider |-> w3.slider, spin |-> w3.spin,
                                      told |-> Append(w3.told, w3.value)]
        BY <2>1, <2>2 DEF SliderDoes
      <3> QED
        BY <2>1, <3>1
    <2>4. SpinBoxDoes(w, x) =
            IF r = w.spin THEN w
            ELSE IF d = w.slider
            THEN [value |-> r, slider |-> w.slider, spin |-> r, told |-> Append(w.told, r)]
            ELSE [value |-> 2 * d, slider |-> d, spin |-> r, told |-> Append(Append(w.told, 2 * d), r)]
      BY DEF SpinBoxDoes, r, d
    <2>5. f[c] = SpinBoxDoes(w, x) /\
          HandledBy(f, c) = IF r = w.spin THEN w ELSE [SliderDoes(w2, d) EXCEPT !.told = Append(@, r)]
      BY <1>6, <1>7, <1>10
    <2>6. CASE r = w.spin
      BY <2>4, <2>5, <2>6
    <2>7. CASE r # w.spin /\ d = w.slider
      <3>1. [w2 EXCEPT !.told = Append(@, r)] =
              [value |-> r, slider |-> w.slider, spin |-> r, told |-> Append(w.told, r)]
        BY <1>2, <1>3, <2>1, ToldMore, ZenonT(30)
      <3> QED
        BY <2>3, <2>4, <2>5, <2>7, <3>1
    <2>8. CASE r # w.spin /\ d # w.slider
      <3> DEFINE m == [value |-> 2 * d, slider |-> d, spin |-> r, told |-> Append(w.told, 2 * d)]
      <3>3. /\ m \in Widgets /\ m.value = 2 * d /\ m.slider = d /\ m.spin = r
            /\ m.told = Append(w.told, 2 * d)
        BY <1>1, <1>2 DEF Widgets
      <3>1. [m EXCEPT !.told = Append(@, r)] =
              [value |-> 2 * d, slider |-> d, spin |-> r, told |-> Append(Append(w.told, 2 * d), r)]
        <4> HIDE DEF m
        <4> QED
          BY <1>2, <3>3, ToldMore
      <3>2. SliderDoes(w2, d) = m
        BY <2>3, <2>8
      <3> HIDE DEF m
      <3> QED
        BY <2>4, <2>5, <2>8, <3>1, <3>2
    <2> QED
      BY <2>6, <2>7, <2>8
  <1> QED
    BY <1>1, <1>9, <1>10

LEMMA HandledSolves == Handled = [c \in Calls |-> HandledBy(Handled, c)]
  <1> DEFINE f == [c \in Calls |-> Does(c)]
  <1>1. \A c \in Calls : f[c] = HandledBy(f, c)
    BY DoesSolves
  <1>2. f = [c \in Calls |-> HandledBy(f, c)]
    BY <1>1
  <1> HIDE DEF f
  <1>3. \E g : g = [c \in Calls |-> HandledBy(g, c)]
    BY <1>2
  <1> QED
    BY <1>3 DEF Handled, HandledBy

\* What a solution has for one call, in the words of the slots.
BySlider(w, x) == [value |-> 2 * x, slider |-> x, spin |-> w.spin, told |-> w.told]
BySpinBox(w, r) == [value |-> r, slider |-> w.slider, spin |-> r, told |-> w.told]

SpinCall(g, w, x) == g[[slot |-> "spin", w |-> w, x |-> x]]
SlideCall(g, w, x) == g[[slot |-> "slider", w |-> w, x |-> x]]

LEMMA CallsOf ==
  ASSUME NEW g, \A c \in Calls : g[c] = HandledBy(g, c),
         NEW w \in Widgets, NEW x \in Int
  PROVE  /\ SlideCall(g, w, x) =
              LET shown == SpinCall(g, BySlider(w, x), 2 * x)
              IN  IF x = w.slider THEN w ELSE [shown EXCEPT !.told = Append(@, shown.value)]
         /\ SpinCall(g, w, x) =
              LET r == Rounded(x)
                  moved == SlideCall(g, BySpinBox(w, r), P_dbl_to_int(r))
              IN  IF r = w.spin THEN w ELSE [moved EXCEPT !.told = Append(@, r)]
  <1> DEFINE a == [slot |-> "slider", w |-> w, x |-> x]
             b == [slot |-> "spin", w |-> w, x |-> x]
             r == Rounded(x)
             shown(y, v) == SpinCall(g, v, y)
             moved(y, v) == SlideCall(g, v, y)
  <1>1. a \in Calls /\ b \in Calls
    BY DEF Calls
  <1>2. r \in Int
    BY RoundedFacts DEF OnGrid
  <1>3. [w EXCEPT !.slider = x, !.value = P_int_to_dbl(x)] =
          [value |-> 2 * x, slider |-> x, spin |-> w.spin, told |-> w.told]
    BY Slid
  <1> HIDE DEF r
  <1>4. [w EXCEPT !.spin = r, !.value = r] =
          [value |-> r, slider |-> w.slider, spin |-> r, told |-> w.told]
    BY <1>2, Changed, Zenon
  <1>5. /\ a.slot = "slider" /\ a.w = w /\ a.x = x
        /\ b.slot = "spin" /\ b.w = w /\ b.x = x
    OBVIOUS
  <1> HIDE DEF a, b, shown, moved
  <1>6. HandledBy(g, a) =
          IF x = w.slider THEN w
          ELSE [shown(P_int_to_dbl(x), [w EXCEPT !.slider = x, !.value = P_int_to_dbl(x)]) EXCEPT
                  !.told = Append(@, shown(P_int_to_dbl(x), [w EXCEPT !.slider = x, !.value = P_int_to_dbl(x)]).value)]
    BY <1>5 DEF HandledBy, shown, SpinCall
  <1>7. HandledBy(g, b) =
          IF r = w.spin THEN w
          ELSE [moved(P_dbl_to_int(r), [w EXCEPT !.spin = r, !.value = r]) EXCEPT !.told = Append(@, r)]
    BY <1>5 DEF HandledBy, moved, r, SlideCall
  <1>8. P_int_to_dbl(x) = 2 * x
    BY DEF P_int_to_dbl
  <1>9. g[a] = HandledBy(g, a) /\ g[b] = HandledBy(g, b)
    BY <1>1
  <1> QED
    BY <1>3, <1>4, <1>6, <1>7, <1>8, <1>9 
    DEF a, b, shown, moved, r, BySlider, BySpinBox, SpinCall, SlideCall

\* And it has no other solution: no call goes more than four slots deep.
LEMMA OneSolution ==
  ASSUME NEW g, \A c \in Calls : g[c] = HandledBy(g, c),
         NEW w \in Widgets, NEW x \in Int
  PROVE  SlideCall(g, w, x) = SliderDoes(w, x) /\ SpinCall(g, w, x) = SpinBoxDoes(w, x)
  <1> DEFINE Spin(v, y) == SpinCall(g, v, y)
             Slide(v, y) == SlideCall(g, v, y)
  <1>1. ASSUME NEW v \in Widgets, NEW y \in Int
        PROVE  /\ Slide(v, y) =
                    IF y = v.slider THEN v
                    ELSE [Spin(BySlider(v, y), 2 * y) EXCEPT
                            !.told = Append(@, Spin(BySlider(v, y), 2 * y).value)]
               /\ Spin(v, y) =
                    IF Rounded(y) = v.spin THEN v
                    ELSE [Slide(BySpinBox(v, Rounded(y)), P_dbl_to_int(Rounded(y))) EXCEPT
                            !.told = Append(@, Rounded(y))]
    BY CallsOf, SMTT(30)
  <1> HIDE DEF Spin, Slide
  \* The spin box already shows what the slider would set.
  <1>2. ASSUME NEW v \in Widgets, NEW k \in Int, Rounded(2 * k) = v.spin, k # v.slider
        PROVE  Slide(v, k) = [value |-> 2 * k, slider |-> k, spin |-> v.spin, told |-> Append(v.told, 2 * k)]
    <2> DEFINE u == BySlider(v, k)
    <2>1. u \in Widgets /\ 2 * k \in Int /\ u.spin = v.spin
      BY DEF Widgets, BySlider
    <2>2. Slide(v, k) = [Spin(u, 2 * k) EXCEPT !.told = Append(@, Spin(u, 2 * k).value)]
      BY <1>1, <1>2
    <2>3. u.value = 2 * k /\ u.slider = k /\ u.told = v.told
      BY DEF BySlider
    <2> HIDE DEF u
    <2>6. Rounded(2 * k) = u.spin
      BY <1>2, <2>1
    <2>4. Spin(u, 2 * k) = u
      BY <1>1, <2>1, <2>6
    <2>5. [u EXCEPT !.told = Append(@, 2 * k)] =
            [value |-> u.value, slider |-> u.slider, spin |-> u.spin, told |-> Append(u.told, 2 * k)]
      BY <2>1, ToldMore
    <2> QED
      BY <2>1, <2>2, <2>3, <2>4, <2>5
  <1>3. ASSUME NEW v \in Widgets, NEW y \in Int
        PROVE  Spin(v, y) = SpinBoxDoes(v, y)
    <2> DEFINE r == Rounded(y)
               d == P_dbl_to_int(r)
               u == BySpinBox(v, r)
    <2>1. r \in Int /\ d \in Int /\ 2 * d \in Int /\ Rounded(2 * d) = r
      BY RoundedFacts DEF OnGrid
    <2>2. Spin(v, y) = IF r = v.spin THEN v ELSE [Slide(u, d) EXCEPT !.told = Append(@, r)]
      BY <1>1
    <2>3. SpinBoxDoes(v, y) =
            IF r = v.spin THEN v
            ELSE IF d = v.slider
            THEN [value |-> r, slider |-> v.slider, spin |-> r, told |-> Append(v.told, r)]
            ELSE [value |-> 2 * d, slider |-> d, spin |-> r, told |-> Append(Append(v.told, 2 * d), r)]
      BY DEF SpinBoxDoes
    <2> HIDE DEF r, d
    <2>4. u \in Widgets /\ u.slider = v.slider /\ u.spin = r /\ u.told = v.told /\ u.value = r
      BY <2>1 DEF Widgets, BySpinBox
    <2> HIDE DEF u
    <2>5. CASE r = v.spin
      BY <2>2, <2>3, <2>5
    <2>6. CASE r # v.spin /\ d = v.slider
      <3>1. Slide(u, d) = u
        BY <1>1, <2>1, <2>4, <2>6
      <3>2. [u EXCEPT !.told = Append(@, r)] =
              [value |-> u.value, slider |-> u.slider, spin |-> u.spin, told |-> Append(u.told, r)]
        BY <2>1, <2>4, ToldMore
      <3> QED
        BY <2>2, <2>3, <2>4, <2>6, <3>1, <3>2
    <2>7. CASE r # v.spin /\ d # v.slider
      <3> DEFINE m == [value |-> 2 * d, slider |-> d, spin |-> u.spin, told |-> Append(u.told, 2 * d)]
      <3>1. Slide(u, d) = m
        BY <1>2, <2>1, <2>4, <2>7
      <3>2. m \in Widgets /\ m.value = 2 * d /\ m.slider = d /\ m.spin = r /\ m.told = Append(v.told, 2 * d)
        BY <2>1, <2>4 DEF Widgets
      <3> HIDE DEF m
      <3>3. [m EXCEPT !.told = Append(@, r)] =
              [value |-> m.value, slider |-> m.slider, spin |-> m.spin, told |-> Append(m.told, r)]
        BY <2>1, <3>2, ToldMore
      <3> QED
        BY <2>2, <2>3, <2>7, <3>1, <3>2, <3>3
    <2> QED
      BY <2>5, <2>6, <2>7
  <1>4. Slide(w, x) = SliderDoes(w, x)
    <2> DEFINE u == BySlider(w, x)
               s == SpinBoxDoes(u, 2 * x)
    <2>1. u \in Widgets /\ 2 * x \in Int
      BY DEF Widgets, BySlider
    <2>2. Slide(w, x) = IF x = w.slider THEN w
                        ELSE [Spin(u, 2 * x) EXCEPT !.told = Append(@, Spin(u, 2 * x).value)]
      BY <1>1
    <2>3. SliderDoes(w, x) = IF x = w.slider THEN w
            ELSE [value |-> s.value, slider |-> s.slider, spin |-> s.spin, told |-> Append(s.told, s.value)]
      BY DEF SliderDoes, BySlider
    <2>4. Spin(u, 2 * x) = s /\ s \in Widgets
      BY <1>3, <2>1, DoesType
    <2> HIDE DEF s, u
    <2>5. s.value \in Int
      BY <2>4 DEF Widgets
    <2>6. [s EXCEPT !.told = Append(@, s.value)] =
            [value |-> s.value, slider |-> s.slider, spin |-> s.spin, told |-> Append(s.told, s.value)]
      BY <2>4, <2>5, ToldMore
    <2> QED
      BY <2>2, <2>3, <2>4, <2>6
  <1> QED
    BY <1>3, <1>4 DEF Spin, Slide

LEMMA BoxSet ==
  ASSUME NEW w \in Widgets, NEW x \in Int
  PROVE  /\ SliderSet(w, x) = SliderDoes(w, x) /\ SliderSet(w, x) \in Widgets
         /\ SpinBoxSet(w, x) = SpinBoxDoes(w, x) /\ SpinBoxSet(w, x) \in Widgets
  <1> DEFINE g == Handled
  <1>1. g = [c \in Calls |-> HandledBy(g, c)]
    BY HandledSolves
  <1> HIDE DEF g
  <1>2. \A c \in Calls : g[c] = HandledBy(g, c)
    BY <1>1
  <1>3. SlideCall(g, w, x) = SliderDoes(w, x) /\ SpinCall(g, w, x) = SpinBoxDoes(w, x)
    BY <1>2, OneSolution
  <1>4. SliderDoes(w, x) \in Widgets /\ SpinBoxDoes(w, x) \in Widgets
    BY DoesType
  <1> QED
    BY <1>3, <1>4 DEF g, SliderSet, SpinBoxSet, SlideCall, SpinCall

\* The slider and the spin box agree, and so does the value behind them.
Agree(w) ==
  /\ w \in Widgets /\ OnGrid(w.spin)
  /\ Rounded(w.value) = w.spin /\ Rounded(2 * w.slider) = w.spin
  /\ w.value = 2 * w.slider \/ P_dbl_to_int(w.value) = w.slider

LEMMA LastTold ==
  ASSUME NEW t \in Seq(Int), NEW x \in Int
  PROVE  Append(t, x) # << >> /\ Last(Append(t, x)) = x /\ Append(t, x) \in Seq(Int)
  BY DEF Last

\* A slider or a spin box that is changed leaves all agreed, and tells of it.
LEMMA SpinBoxSets ==
  ASSUME NEW w \in Widgets, NEW x \in Int, Rounded(x) # w.spin
  PROVE  /\ Agree(SpinBoxSet(w, x))
         /\ SpinBoxSet(w, x).told # << >> /\ Last(SpinBoxSet(w, x).told) = SpinBoxSet(w, x).spin
  <1> DEFINE r == Rounded(x)
             d == P_dbl_to_int(r)
             s == SpinBoxSet(w, x)
  <1>1. r \in Int /\ d \in Int /\ 2 * d \in Int /\ OnGrid(r) /\ Rounded(2 * d) = r /\ Rounded(r) = r
    BY RoundedFacts DEF OnGrid
  <1>2. w.told \in Seq(Int) /\ w.slider \in Int
    BY DEF Widgets
  <1>3. s \in Widgets /\
        s = IF d = w.slider
            THEN [value |-> r, slider |-> w.slider, spin |-> r, told |-> Append(w.told, r)]
            ELSE [value |-> 2 * d, slider |-> d, spin |-> r, told |-> Append(Append(w.told, 2 * d), r)]
    BY BoxSet DEF SpinBoxDoes
  <1>4. d = P_dbl_to_int(r)
    OBVIOUS
  <1> HIDE DEF r, d, s
  <1>5. CASE d = w.slider
    <2>1. s.value = r /\ s.slider = d /\ s.spin = r /\ s.told = Append(w.told, r)
      BY <1>3, <1>5
    <2> QED
      BY <1>1, <1>2, <1>3, <1>4, <2>1, LastTold DEF Agree, s
  <1>6. CASE d # w.slider
    <2>1. s.value = 2 * d /\ s.slider = d /\ s.spin = r /\ s.told = Append(Append(w.told, 2 * d), r)
      BY <1>3, <1>6
    <2>2. Append(w.told, 2 * d) \in Seq(Int)
      BY <1>1, <1>2, LastTold
    <2>3. s.told # << >> /\ Last(s.told) = r
      BY <1>1, <2>1, <2>2, LastTold
    <2> QED
      BY <1>1, <1>3, <1>4, <2>1, <2>3 DEF Agree, s
  <1> QED
    BY <1>5, <1>6

LEMMA SliderSets ==
  ASSUME NEW w \in Widgets, OnGrid(w.spin), NEW k \in Int, k # w.slider
  PROVE  /\ Agree(SliderSet(w, k))
         /\ SliderSet(w, k).told # << >> /\ Last(SliderSet(w, k).told) = SliderSet(w, k).value
  <1> DEFINE u == BySlider(w, k)
             t == SpinBoxDoes(u, 2 * k)
             s == SliderSet(w, k)
  <1>1. /\ u \in Widgets /\ 2 * k \in Int
        /\ u.value = 2 * k /\ u.slider = k /\ u.spin = w.spin /\ u.told = w.told
    BY DEF Widgets, BySlider
  <1>2. s \in Widgets /\
        s = [value |-> t.value, slider |-> t.slider, spin |-> t.spin, told |-> Append(t.told, t.value)]
    BY BoxSet DEF SliderDoes, BySlider
  <1> HIDE DEF u
  <1>3. t \in Widgets /\ t = SpinBoxSet(u, 2 * k)
    BY <1>1, BoxSet
  <1>4. Agree(t)
    <2>1. CASE Rounded(2 * k) = u.spin
      <3>1. t = u
        BY <2>1 DEF SpinBoxDoes
      <3> QED
        BY <1>1, <2>1, <3>1 DEF Agree
    <2>2. CASE Rounded(2 * k) # u.spin
      BY <1>1, <1>3, <2>2, SpinBoxSets
    <2> QED
      BY <2>1, <2>2
  <1> HIDE DEF t, s
  <1>5. t.value \in Int /\ t.told \in Seq(Int)
    BY <1>3 DEF Widgets
  <1>6. s.value = t.value /\ s.slider = t.slider /\ s.spin = t.spin /\ s.told = Append(t.told, t.value)
    BY <1>2
  <1> QED
    BY <1>2, <1>4, <1>5, <1>6, LastTold DEF Agree, s

\* One half step of the slider more is the same whole rpm.
LEMMA SameRpm ==
  ASSUME NEW k \in Int
  PROVE  (2 * k + 1) \div Rpm = (2 * k) \div Rpm
  <1>1. Rpm \in Nat \ {0} /\ Rpm % SpinUnit = 0 /\ SpinUnit \in Nat \ {0}
    BY SetpointAssumption, WindowAssumption DEF SetpointAssumption, WindowAssumption
  <1>2. Rpm \div SpinUnit \in Int /\ Rpm = SpinUnit * (Rpm \div SpinUnit)
    BY <1>1
  <1>3. Rpm % 2 = 0
    BY <1>2, Evens
  <1>4. Rpm \div 2 \in Nat /\ Rpm = 2 * (Rpm \div 2)
    BY <1>1, <1>3
  <1>5. PICK h \in Nat : Rpm = 2 * h
    BY <1>4
  <1> DEFINE q == (2 * k) \div Rpm
  <1>6. q \in Int /\ q * Rpm <= 2 * k /\ 2 * k < (q + 1) * Rpm
    BY <1>1
  <1> HIDE DEF q
  <1>7. (q + 1) * Rpm = 2 * ((q + 1) * h) /\ (q + 1) * h \in Int
    BY <1>5, <1>6
  <1>8. q * Rpm \in Int /\ q * Rpm <= 2 * k + 1 /\ 2 * k + 1 < (q + 1) * Rpm
    BY <1>1, <1>6, <1>7
  <1>9. PICK e \in Int : 2 * k + 1 = q * Rpm + e /\ 0 <= e /\ e < Rpm
    <2>1. (q + 1) * Rpm = q * Rpm + Rpm
      BY <1>1, <1>6
    <2> DEFINE e == 2 * k + 1 - q * Rpm
    <2>2. e \in Int /\ 2 * k + 1 = q * Rpm + e /\ 0 <= e /\ e < Rpm
      BY <1>1, <1>8, <2>1
    <2> HIDE DEF e
    <2> QED
      BY <2>2
  <1>10. (q * Rpm + e) \div Rpm = q
    BY <1>1, <1>6, <1>9
  <1> QED
    BY <1>9, <1>10 DEF q

\* A value given leaves all agreed; if nothing is told, the spin box is as it
\* was and the simulation's rpm still one of the two.
LEMMA ValueSets ==
  ASSUME NEW w, Agree(w), w.told = << >>, NEW x \in Int, ~(x \in Short)
  PROVE  /\ Agree(setValue(w, x))
         /\ setValue(w, x).told = << >> =>
              /\ setValue(w, x).spin = w.spin
              /\ w.value \div Rpm \in {setValue(w, x).value \div Rpm, w.spin \div Rpm}
         /\ setValue(w, x).told # << >> =>
              Last(setValue(w, x).told) \in {setValue(w, x).value, setValue(w, x).spin}
  <1> DEFINE u == [w EXCEPT !.value = x]
             k == P_dbl_to_int(x)
             m == SliderSet(u, k)
             s == SpinBoxSet(m, x)
  <1>1. setValue(w, x) = s /\ k \in Int
    BY SliderType DEF setValue
  <1>2. u \in Widgets /\ u.value = x /\ u.slider = w.slider /\ u.spin = w.spin /\ u.told = w.told
    BY DEF Agree, Widgets
  <1>3. k = P_dbl_to_int(x)
    OBVIOUS
  <1> HIDE DEF u, k
  <1>4. m \in Widgets /\ (k = u.slider => m = u)
    BY <1>1, <1>2, BoxSet DEF SliderDoes
  <1>5. k # u.slider => Agree(m) /\ m.told # << >> /\ Last(m.told) = m.value
    BY <1>1, <1>2, SliderSets DEF Agree
  <1> HIDE DEF m
  <1>6. Rounded(x) = m.spin => s = m
    BY <1>4, BoxSet DEF SpinBoxDoes
  <1>7. Rounded(x) # m.spin => Agree(s) /\ s.told # << >> /\ Last(s.told) = s.spin
    BY <1>4, SpinBoxSets
  <1> HIDE DEF s
  <1>8. CASE Rounded(x) # m.spin
    BY <1>1, <1>7, <1>8
  <1>9. CASE Rounded(x) = m.spin /\ k # u.slider
    BY <1>1, <1>5, <1>6, <1>9
  <1>10. CASE Rounded(x) = m.spin /\ k = u.slider
    <2>1. s = u
      BY <1>4, <1>6, <1>10
    <2>2. Agree(u)
      BY <1>2, <1>3, <1>4, <1>10 DEF Agree
    <2>3. w.value \div Rpm \in {x \div Rpm, w.spin \div Rpm}
      <3>1. w.value \in Int /\ w.slider \in Int
        BY DEF Agree, Widgets
      <3>2. x = 2 * w.slider \/ x = 2 * w.slider + 1
        BY <1>2, <1>3, <1>10, <3>1 DEF P_dbl_to_int
      <3>3. CASE w.value = 2 * w.slider \/ w.value = 2 * w.slider + 1
        BY <3>1, <3>2, <3>3, SameRpm
      <3>4. CASE w.value \in Short
        <4>1. w.value % SpinUnit = 0 /\ SpinUnit \in Nat /\ SpinUnit >= 4
          BY <3>4, SetpointAssumption DEF SetpointAssumption
        <4>2. w.value \div SpinUnit \in Int /\ w.value = SpinUnit * (w.value \div SpinUnit)
          BY <3>1, <4>1
        <4>3. PICK q \in Int : w.value = SpinUnit * q
          BY <4>2
        <4>4. SpinUnit \div 2 \in Int /\ 0 <= SpinUnit \div 2 /\ SpinUnit \div 2 < SpinUnit
          BY <4>1
        <4>5. (SpinUnit * q + SpinUnit \div 2) \div SpinUnit = q
          BY <4>4, Multiples
        <4>6. Rounded(w.value) = w.value
          BY <4>1, <4>3, <4>5 DEF Rounded
        <4> QED
          BY <4>6 DEF Agree
      <3>5. w.value \in Short \/ w.value = 2 * w.slider \/ w.value = 2 * w.slider + 1
        BY <3>1 DEF Agree, P_dbl_to_int
      <3> QED
        BY <3>3, <3>4, <3>5
    <2> QED
      BY <1>1, <1>2, <2>1, <2>2, <2>3
  <1> QED
    BY <1>8, <1>9, <1>10

(***************************************************************************)
(* The plots: their length, and the amplitude shown with them.             *)
(***************************************************************************)

LEMMA AppendIs ==
  ASSUME NEW S, NEW s \in Seq(S), NEW x \in S
  PROVE  /\ append(s, x) \in Seq(S)
         /\ Len(append(s, x)) = IF Len(s) < Length THEN Len(s) + 1 ELSE Len(s)
         /\ \A i \in 1..Len(append(s, x)) :
              append(s, x)[i] = IF Len(s) < Length THEN IF i = Len(s) + 1 THEN x ELSE s[i]
                                ELSE IF i = Len(s) THEN x ELSE s[i + 1]
  <1>1. Length \in Nat \ {0}
    BY WindowAssumption DEF WindowAssumption
  <1>2. CASE Len(s) < Length
    BY <1>2 DEF append
  <1>3. CASE ~(Len(s) < Length)
    <2>1. s # << >>
      BY <1>1, <1>3
    <2> DEFINE t == Tail(s)
    <2>2. /\ t \in Seq(S) /\ Len(t) = Len(s) - 1 /\ Len(s) \in Nat \ {0}
          /\ \A i \in 1..(Len(s) - 1) : t[i] = s[i + 1]
      BY <2>1, HeadTailProperties
    <2>3. append(s, x) = Append(t, x)
      BY <1>3 DEF append
    <2> HIDE DEF t
    <2>4. /\ Append(t, x) \in Seq(S) /\ Len(Append(t, x)) = Len(t) + 1
          /\ \A i \in 1..(Len(t) + 1) : Append(t, x)[i] = IF i = Len(t) + 1 THEN x ELSE t[i]
      BY <2>2, AppendProperties
    <2> QED
      BY <1>3, <2>2, <2>3, <2>4
  <1> QED
    BY <1>2, <1>3

\* Values have a first least and a first greatest one.
LEMMA Extremes ==
  ASSUME NEW v \in Seq(Int), v # << >>
  PROVE  /\ MinIndex(v) \in DOMAIN v
         /\ \A j \in DOMAIN v : v[MinIndex(v)] < v[j] \/ (v[MinIndex(v)] = v[j] /\ MinIndex(v) <= j)
         /\ MaxIndex(v) \in DOMAIN v
         /\ \A j \in DOMAIN v : v[MaxIndex(v)] > v[j] \/ (v[MaxIndex(v)] = v[j] /\ MaxIndex(v) <= j)
  <1> DEFINE Least1(i, n) == \A j \in 1..n : v[i] < v[j] \/ (v[i] = v[j] /\ i <= j)
             Most1(i, n) == \A j \in 1..n : v[i] > v[j] \/ (v[i] = v[j] /\ i <= j)
             Has(n) == (\E i \in 1..n : Least1(i, n)) /\ (\E i \in 1..n : Most1(i, n))
             Good == {n \in Nat : n + 1 \in 1..Len(v) => Has(n + 1)}
  <1>1. Len(v) \in Nat \ {0} /\ DOMAIN v = 1..Len(v) /\ \A i \in 1..Len(v) : v[i] \in Int
    BY EmptySeq
  <1>2. 0 \in Good
    BY <1>1
  <1>3. ASSUME NEW n \in Good PROVE n + 1 \in Good
    <2> SUFFICES ASSUME n + 2 \in 1..Len(v) PROVE Has(n + 2)
      OBVIOUS
    <2>1. Has(n + 1) /\ n \in Nat
      BY <1>1
    <2>2. PICK i \in 1..(n + 1) : Least1(i, n + 1)
      BY <2>1
    <2>3. PICK k \in 1..(n + 1) : Most1(k, n + 1)
      BY <2>1
    <2>4. v[i] \in Int /\ v[k] \in Int /\ v[n + 2] \in Int /\ \A j \in 1..(n + 2) : v[j] \in Int
      BY <1>1, <2>1
    <2> DEFINE a == IF v[n + 2] < v[i] THEN n + 2 ELSE i
               b == IF v[n + 2] > v[k] THEN n + 2 ELSE k
    <2>5. a \in 1..(n + 2) /\ Least1(a, n + 2)
      <3>1. CASE v[n + 2] < v[i]
        <4>1. ASSUME NEW j \in 1..(n + 2)
              PROVE  v[n + 2] < v[j] \/ (v[n + 2] = v[j] /\ n + 2 <= j)
          <5>1. CASE j = n + 2
            BY <2>1, <2>4, <5>1
          <5>2. CASE j \in 1..(n + 1)
            <6>1. v[i] < v[j] \/ v[i] = v[j]
              BY <2>2, <5>2
            <6>2. v[j] \in Int /\ v[i] \in Int /\ v[n + 2] \in Int
              BY <2>4
            <6> QED
              BY <3>1, <6>1, <6>2
          <5> QED
            BY <2>1, <5>1, <5>2
        <4>2. n + 2 \in 1..(n + 2)
          BY <2>1
        <4> QED
          BY <3>1, <4>1, <4>2
      <3>2. CASE ~(v[n + 2] < v[i])
        BY <2>1, <2>2, <2>4, <3>2
      <3> QED
        BY <3>1, <3>2
    <2>6. b \in 1..(n + 2) /\ Most1(b, n + 2)
      <3>1. CASE v[n + 2] > v[k]
        <4>1. ASSUME NEW j \in 1..(n + 2)
              PROVE  v[n + 2] > v[j] \/ (v[n + 2] = v[j] /\ n + 2 <= j)
          <5>1. CASE j = n + 2
            BY <2>1, <2>4, <5>1
          <5>2. CASE j \in 1..(n + 1)
            <6>1. v[k] > v[j] \/ v[k] = v[j]
              BY <2>3, <5>2
            <6>2. v[j] \in Int /\ v[k] \in Int /\ v[n + 2] \in Int
              BY <2>4
            <6> QED
              BY <3>1, <6>1, <6>2
          <5> QED
            BY <2>1, <5>1, <5>2
        <4>2. n + 2 \in 1..(n + 2)
          BY <2>1
        <4> QED
          BY <3>1, <4>1, <4>2
      <3>2. CASE ~(v[n + 2] > v[k])
        BY <2>1, <2>3, <2>4, <3>2
      <3> QED
        BY <3>1, <3>2
    <2> HIDE DEF a, b, Least1, Most1
    <2> QED
      BY <2>5, <2>6
  <1>4. Len(v) - 1 \in Good
    <2> HIDE DEF Good
    <2>1. Good \in SUBSET Nat
      BY DEF Good
    <2>2. Good = Nat
      BY <1>2, <1>3, <2>1, Induction
    <2> QED
      BY <1>1, <2>2
  <1>5. Has(Len(v))
    BY <1>1, <1>4
  <1> QED
    BY <1>1, <1>5 DEF MinIndex, MaxIndex

\* The marks of the extremes: the maximum's is at the greatest value, and the
\* minimum's at the least one unless the maximum's took its place.
LEMMA AmplitudeIs ==
  ASSUME NEW v \in Seq(Int), v # << >>
  PROVE  Amplitude(v) = IF Cardinality(ToSet(v)) = 1 THEN v[1] ELSE Max(ToSet(v)) - Min(ToSet(v))
  <1> DEFINE a == MinIndex(v)
             b == MaxIndex(v)
             marks == functionAnalysis(v)
             values == ToSet(v)
  <1>1. /\ a \in DOMAIN v /\ \A j \in DOMAIN v : v[a] < v[j] \/ (v[a] = v[j] /\ a <= j)
        /\ b \in DOMAIN v /\ \A j \in DOMAIN v : v[b] > v[j] \/ (v[b] = v[j] /\ b <= j)
    BY Extremes
  <1>2. Len(v) \in Nat \ {0} /\ DOMAIN v = 1..Len(v) /\ \A i \in 1..Len(v) : v[i] \in Int
    BY EmptySeq
  <1>3. /\ a \in DOMAIN marks /\ b \in DOMAIN marks
        /\ \A i \in DOMAIN marks : marks[i] = "GLOBAL_MAXIMUM" <=> i = b
        /\ \A i \in DOMAIN marks : marks[i] = "GLOBAL_MINIMUM" <=> i = a /\ i # b
    BY DEF functionAnalysis
  <1>4. \A x : x \in values <=> \E i \in 1..Len(v) : x = v[i]
    BY <1>2 DEF ToSet
  <1>5. Amplitude(v) = ValueMarked(v, "GLOBAL_MAXIMUM") - ValueMarked(v, "GLOBAL_MINIMUM")
    BY DEF Amplitude
  <1>6. ValueMarked(v, "GLOBAL_MAXIMUM") =
          IF \E i \in DOMAIN marks : marks[i] = "GLOBAL_MAXIMUM"
          THEN v[CHOOSE i \in DOMAIN marks : marks[i] = "GLOBAL_MAXIMUM"] ELSE 0
    BY DEF ValueMarked
  <1>7. ValueMarked(v, "GLOBAL_MINIMUM") =
          IF \E i \in DOMAIN marks : marks[i] = "GLOBAL_MINIMUM"
          THEN v[CHOOSE i \in DOMAIN marks : marks[i] = "GLOBAL_MINIMUM"] ELSE 0
    BY DEF ValueMarked
  <1> HIDE DEF a, b, marks, values
  <1>8. ValueMarked(v, "GLOBAL_MAXIMUM") = v[b]
    BY <1>3, <1>6
  <1>9. ValueMarked(v, "GLOBAL_MINIMUM") = IF a = b THEN 0 ELSE v[a]
    BY <1>3, <1>7
  <1>10. CASE a = b
    <2>1. \A i \in 1..Len(v) : v[i] = v[a]
      BY <1>1, <1>2, <1>10
    <2>2. 1 \in 1..Len(v) /\ v[1] = v[b]
      BY <1>2, <1>10, <2>1
    <2>3. values = {v[1]}
      BY <1>4, <2>1, <2>2
    <2>4. Cardinality(values) = 1
      BY <2>3, FS_Singleton
    <2>5. Amplitude(v) = v[1]
      BY <1>2, <1>5, <1>8, <1>9, <1>10, <2>2
    <2> QED
      BY <2>4, <2>5 DEF values
  <1>11. CASE a # b
    <2>1. v[a] # v[b]
      BY <1>1, <1>2, <1>11
    <2>2. v[a] \in values /\ v[b] \in values
      BY <1>1, <1>2, <1>4
    <2>3. IsFiniteSet(values)
      <3>1. v \in Surjection(1..Len(v), values)
        BY <1>2, <1>4 DEF Surjection
      <3> QED
        BY <1>2, <3>1, FS_Interval, FS_Surjection
    <2>4. Cardinality(values) # 1
      BY <2>1, <2>2, <2>3, FS_Singleton
    <2>5. Max(values) = v[b]
      <3>1. \A y \in values : y \in Int /\ v[b] >= y
        BY <1>1, <1>2, <1>4
      <3>2. v[b] \in Int
        BY <1>1, <1>2
      <3> QED
        BY <2>2, <3>1, <3>2 DEF Max
    <2>6. Min(values) = v[a]
      <3>1. \A y \in values : y \in Int /\ v[a] <= y
        BY <1>1, <1>2, <1>4
      <3>2. v[a] \in Int
        BY <1>1, <1>2
      <3> QED
        BY <2>2, <3>1, <3>2 DEF Min
    <2> QED
      BY <1>5, <1>8, <1>9, <1>11, <2>4, <2>5, <2>6 DEF values
  <1> QED
    BY <1>10, <1>11

(***************************************************************************)
(* The window: its plots hold the same samples whoever fed them, the       *)
(* amplitude is theirs, and what was told is what the box shows.           *)
(***************************************************************************)

\* The box and what was last told of it.
BoxInv ==
  /\ Agree(widget) /\ widget.told = << >>
  /\ m_sim_setpoint \in Int
  /\ SetpointTold

\* The plots, and the figures drawn with those on the screen.
PlotsInv ==
  /\ samples \in Seq([Columns -> Int]) /\ plots \in [Columns -> Seq(Int)] /\ m_sim_time_ms \in Int
  /\ PlotsInStep
  /\ screen.plots \in [Columns -> Seq(Int)]
  /\ screen.amplitude = Amplitude(screen.plots.pv)

\* What Becomes needs to know of the box's new state w.
Follows(w) ==
  /\ Agree(w)
  /\ w.told = << >> => /\ w.spin = widget.spin
                       /\ widget.value \div Rpm \in {w.value \div Rpm, widget.spin \div Rpm}
  /\ w.told # << >> => Last(w.told) \in {w.value, w.spin}

LEMMA BecomesKeeps ==
  ASSUME BoxInv, NEW w, Follows(w), Becomes(w)
  PROVE  BoxInv'
  <1>1. /\ widget' = [w EXCEPT !.told = << >>] /\ P_setpointValueChanged(w.told) /\ w \in Widgets
    BY DEF Becomes, Follows, Agree
  <1>2. /\ widget' \in Widgets /\ widget'.told = << >>
        /\ widget'.value = w.value /\ widget'.slider = w.slider /\ widget'.spin = w.spin
    BY <1>1, EmptySeq DEF Widgets
  <1>3. Agree(w)
    BY DEF Follows
  <1>4. Agree(widget)' /\ widget'.told = << >>
    BY <1>2, <1>3 DEF Agree
  <1>5. OnGrid(w.spin) /\ w.spin \in Int /\ w.value \in Int /\ Rounded(w.spin) = w.spin
    BY <1>1, <1>3 DEF Agree, OnGrid, Widgets
  <1>6. Rpm \in Nat \ {0}
    BY WindowAssumption DEF WindowAssumption
  <1>7. CASE w.told = << >>
    <2>1. m_sim_setpoint' = m_sim_setpoint /\ asked' = asked /\ told_in' = told_in
      BY <1>1, <1>7 DEF P_setpointValueChanged
    <2>2. w.spin = widget.spin /\ (\/ widget.value \div Rpm = w.value \div Rpm
                                   \/ widget.value \div Rpm = widget.spin \div Rpm)
      BY <1>7 DEF Follows
    <2>3. /\ told_in = "DEVICE" => Rounded(asked) = widget.spin
          /\ told_in = "SIMULATION" =>
               m_sim_setpoint = widget.value \div Rpm \/ m_sim_setpoint = widget.spin \div Rpm
      BY DEF BoxInv, SetpointTold
    <2>5. /\ told_in' = "DEVICE" => Rounded(asked') = widget'.spin
          /\ told_in' = "SIMULATION" =>
               m_sim_setpoint' = widget'.value \div Rpm \/ m_sim_setpoint' = widget'.spin \div Rpm
      BY <1>2, <2>1, <2>2, <2>3
    <2>4. SetpointTold'
      BY <1>2, <1>3, <2>5 DEF Agree, SetpointTold
    <2> QED
      BY <1>4, <2>1, <2>4 DEF BoxInv
  <1>8. CASE w.told # << >>
    <2> DEFINE x == Last(w.told)
    <2>1. /\ told_in' \in {m_runMode, "NONE"}
          /\ told_in' = "DEVICE" => asked' = x
          /\ m_sim_setpoint' = IF m_runMode = "SIMULATION" THEN x \div Rpm ELSE m_sim_setpoint
      BY <1>1, <1>8 DEF P_setpointValueChanged
    <2>2. x = w.value \/ x = w.spin
      BY <1>8 DEF Follows
    <2> HIDE DEF x
    <2>3. x \in Int /\ Rounded(x) = w.spin
      BY <1>3, <1>5, <2>2 DEF Agree
    <2>4. m_sim_setpoint' \in Int
      BY <1>6, <2>1, <2>3 DEF BoxInv
    <2>6. /\ told_in' = "DEVICE" => Rounded(asked') = widget'.spin
          /\ told_in' = "SIMULATION" =>
               m_sim_setpoint' = widget'.value \div Rpm \/ m_sim_setpoint' = widget'.spin \div Rpm
      BY <1>2, <2>1, <2>2, <2>3
    <2>5. SetpointTold'
      BY <1>2, <1>3, <2>6 DEF Agree, SetpointTold
    <2> QED
      BY <1>4, <2>4, <2>5 DEF BoxInv
  <1> QED
    BY <1>7, <1>8

LEMMA BoxStays ==
  ASSUME BoxInv, UNCHANGED setpointVars
  PROVE  BoxInv'
  BY DEF BoxInv, setpointVars, SetpointTold, Agree

\* The three ways the box is set.
LEMMA SetFollows ==
  ASSUME BoxInv
  PROVE  /\ \A x \in Int \ Short : Follows(setValue(widget, x))
         /\ \A k \in Int : Follows(SliderSet(widget, k))
         /\ \A x \in Int : Follows(SpinBoxSet(widget, x))
  <1>1. Agree(widget) /\ widget.told = << >> /\ widget \in Widgets /\ OnGrid(widget.spin)
    BY DEF BoxInv, Agree
  <1>2. Follows(widget)
    BY <1>1 DEF Follows
  <1>3. ASSUME NEW x \in Int \ Short PROVE Follows(setValue(widget, x))
    BY <1>1, ValueSets DEF Follows
  <1>4. ASSUME NEW k \in Int PROVE Follows(SliderSet(widget, k))
    <2>1. CASE k = widget.slider
      <3>1. SliderSet(widget, k) = widget
        BY <1>1, <2>1, BoxSet DEF SliderDoes
      <3> QED
        BY <1>2, <3>1
    <2>2. CASE k # widget.slider
      BY <1>1, <2>2, SliderSets DEF Follows
    <2> QED
      BY <2>1, <2>2
  <1>5. ASSUME NEW x \in Int PROVE Follows(SpinBoxSet(widget, x))
    <2>1. CASE Rounded(x) = widget.spin
      <3>1. SpinBoxSet(widget, x) = widget
        BY <1>1, <2>1, BoxSet DEF SpinBoxDoes
      <3> QED
        BY <1>2, <3>1
    <2>2. CASE Rounded(x) # widget.spin
      BY <1>1, <2>2, SpinBoxSets DEF Follows
    <2> QED
      BY <2>1, <2>2
  <1> QED
    BY <1>3, <1>4, <1>5

\* The plots after one more sample.
LEMMA SampleKeeps ==
  ASSUME PlotsInv, NEW sample, \A c \in Columns : sample[c] \in Int, sample \in [Columns -> Int],
         P_dev_ready_SPPV(sample), m_sim_time_ms' \in Int
  PROVE  PlotsInv'
  <1>1. /\ plots' = [c \in Columns |-> append(plots[c], sample[c])]
        /\ samples' = append(samples, sample) /\ screen' = Drawn(plots')
    BY DEF P_dev_ready_SPPV, P_tickEventCommon
  <1>2. /\ samples \in Seq([Columns -> Int]) /\ plots \in [Columns -> Seq(Int)]
        /\ \A c \in Columns : plots[c] = [i \in DOMAIN samples |-> samples[i][c]]
    BY DEF PlotsInv, PlotsInStep
  <1>3. plots' \in [Columns -> Seq(Int)] /\ samples' \in Seq([Columns -> Int])
    BY <1>1, <1>2, AppendIs
  <1>4. ASSUME NEW c \in Columns PROVE plots'[c] = [i \in DOMAIN samples' |-> samples'[i][c]]
    <2> DEFINE S == [Columns -> Int]
               N == Int
               s == samples
               p == plots[c]
               y == sample[c]
               s1 == append(s, sample)
               p1 == append(p, y)
    <2>1. /\ s \in Seq(S) /\ p \in Seq(Int) /\ Len(p) = Len(s) /\ Len(s) \in Nat
          /\ \A i \in 1..Len(s) : p[i] = s[i][c]
          /\ sample \in S /\ y \in Int /\ y = sample[c]
      BY <1>2, <1>4
    <2>9. p \in Seq(N) /\ y \in N
      BY <2>1
    <2>2. samples' = s1 /\ plots'[c] = p1
      BY <1>1, <1>4
    <2>8. Length \in Nat \ {0}
      BY WindowAssumption DEF WindowAssumption
    <2> HIDE DEF s, p, y, S, N
    <2>3. /\ s1 \in Seq(S) /\ Len(s1) = IF Len(s) < Length THEN Len(s) + 1 ELSE Len(s)
          /\ \A i \in 1..Len(s1) :
               s1[i] = IF Len(s) < Length THEN IF i = Len(s) + 1 THEN sample ELSE s[i]
                       ELSE IF i = Len(s) THEN sample ELSE s[i + 1]
      BY <2>1, AppendIs, ZenonT(60)
    <2>4. /\ p1 \in Seq(N) /\ Len(p1) = IF Len(p) < Length THEN Len(p) + 1 ELSE Len(p)
          /\ \A i \in 1..Len(p1) :
               p1[i] = IF Len(p) < Length THEN IF i = Len(p) + 1 THEN y ELSE p[i]
                       ELSE IF i = Len(p) THEN y ELSE p[i + 1]
      <3> HIDE DEF s1
      <3>1. append(p, y) = p1
        OBVIOUS
      <3> HIDE DEF p1
      <3>2. /\ append(p, y) \in Seq(N)
            /\ Len(append(p, y)) = IF Len(p) < Length THEN Len(p) + 1 ELSE Len(p)
            /\ \A i \in 1..Len(append(p, y)) :
                 append(p, y)[i] = IF Len(p) < Length THEN IF i = Len(p) + 1 THEN y ELSE p[i]
                                   ELSE IF i = Len(p) THEN y ELSE p[i + 1]
        BY <2>9, AppendIs
      <3> QED
        BY <3>1, <3>2
    <2> HIDE DEF s1, p1
    <2>5. Len(p1) = Len(s1) /\ Len(s1) \in Nat /\ DOMAIN s1 = 1..Len(s1) /\ DOMAIN p1 = 1..Len(s1)
      BY <2>1, <2>3, <2>4
    <2>6. ASSUME NEW i \in 1..Len(s1) PROVE p1[i] = s1[i][c]
      <3>1. CASE Len(s) < Length /\ i = Len(s) + 1
        BY <2>1, <2>3, <2>4, <2>5, <2>6, <3>1
      <3>2. CASE Len(s) < Length /\ i # Len(s) + 1
        <4>1. i \in 1..Len(s)
          BY <2>1, <2>3, <3>2
        <4> QED
          BY <2>1, <2>3, <2>4, <2>5, <2>6, <3>2, <4>1
      <3>3. CASE ~(Len(s) < Length) /\ i = Len(s)
        BY <2>1, <2>3, <2>4, <2>5, <2>6, <3>3
      <3>4. CASE ~(Len(s) < Length) /\ i # Len(s)
        <4>1. i + 1 \in 1..Len(s)
          BY <2>1, <2>3, <3>4
        <4> QED
          BY <2>1, <2>3, <2>4, <2>5, <2>6, <3>4, <4>1
      <3> QED
        BY <3>1, <3>2, <3>3, <3>4
    <2>7. p1 = [i \in DOMAIN s1 |-> s1[i][c]]
      <3>2. p1 \in [1..Len(p1) -> N]
        BY <2>4, LenProperties
      <3>1. p1 = [i \in 1..Len(s1) |-> p1[i]]
        BY <2>5, <3>2
      <3> QED
        BY <2>5, <2>6, <3>1
    <2> QED
      BY <2>2, <2>7
  <1>5. screen'.plots = plots' /\ screen'.amplitude = Amplitude(plots'.pv)
    BY <1>1 DEF Drawn
  <1> QED
    BY <1>3, <1>4, <1>5 DEF PlotsInv, PlotsInStep

LEMMA PlotsStay ==
  ASSUME PlotsInv, UNCHANGED <<plots, samples, screen>>, m_sim_time_ms' \in Int
  PROVE  PlotsInv'
  BY DEF PlotsInv, PlotsInStep

LEMMA NoPlotsAre ==
  /\ NoPlots \in [Columns -> Seq(Int)] /\ NoPlots.pv = << >>
  /\ \A c \in Columns : NoPlots[c] = [i \in DOMAIN << >> |-> << >>[i][c]]
  BY EmptySeq DEF NoPlots, Columns

\* Cleared plots, drawn at once or not.
LEMMA ClearKeeps ==
  ASSUME PlotsInv, P_plot_clear, m_sim_time_ms' \in Int, screen' = screen \/ P_tickEventCommon
  PROVE  PlotsInv'
  <1>1. plots' = NoPlots /\ samples' = << >>
    BY DEF P_plot_clear
  <1>2. << >> \in Seq([Columns -> Int])
    BY EmptySeq
  <1>3. PlotsInStep'
    BY <1>1, NoPlotsAre DEF PlotsInStep
  <1>4. CASE screen' = screen
    BY <1>1, <1>2, <1>3, <1>4, NoPlotsAre DEF PlotsInv
  <1>5. CASE P_tickEventCommon
    <2>1. screen'.plots = NoPlots /\ screen'.amplitude = Amplitude(NoPlots.pv)
      BY <1>1, <1>5 DEF P_tickEventCommon, Drawn
    <2> QED
      BY <1>1, <1>2, <1>3, <2>1, NoPlotsAre DEF PlotsInv
  <1> QED
    BY <1>4, <1>5

LEMMA ButtonKeepsWindow ==
  ASSUME BoxInv, PlotsInv,
         \/ P_closeSerialPort \/ setpoint_ModeSelected \/ pause_unpause
         \/ P_button_rpc_request_5_speed_SP_w
         \/ \E x \in {0, Speed33, Speed45} : P_setpointSet(x)
         \/ \E k \in 0..(MaxSetpoint \div 2) : SliderMoved(k)
         \/ \E n \in 0..(MaxSetpoint \div SpinUnit) : SpinBoxTyped(SpinUnit * n)
  PROVE  BoxInv' /\ PlotsInv'
  <1>1. /\ SpinUnit \in Nat \ {0} /\ MaxSetpoint \in Nat
        /\ {0, Speed33, Speed45} \subseteq Int \ Short
    BY SetpointAssumption, WindowAssumption DEF SetpointAssumption, WindowAssumption
  <1>2. m_sim_time_ms \in Int
    BY DEF PlotsInv
  <1>3. CASE P_closeSerialPort \/ setpoint_ModeSelected \/ pause_unpause
    BY <1>2, <1>3, BoxStays, PlotsStay
    DEF P_closeSerialPort, setpoint_ModeSelected, pause_unpause, plotVars
  <1>4. CASE P_button_rpc_request_5_speed_SP_w
    <2>1. /\ told_in' = "DEVICE" => asked' = widget.value
          /\ told_in' # "SIMULATION" /\ m_sim_setpoint' = m_sim_setpoint
          /\ widget' = widget
      BY <1>4 DEF P_button_rpc_request_5_speed_SP_w, P_setpointValueChanged, Last
    <2>2. BoxInv'
      BY <2>1 DEF BoxInv, SetpointTold, Agree
    <2> QED
      BY <1>2, <1>4, <2>2, PlotsStay DEF P_button_rpc_request_5_speed_SP_w, plotVars
  <1>5. CASE \E x \in {0, Speed33, Speed45} : P_setpointSet(x)
    BY <1>1, <1>2, <1>5, SetFollows, BecomesKeeps, PlotsStay DEF P_setpointSet, plotVars
  <1>6. CASE \E k \in 0..(MaxSetpoint \div 2) : SliderMoved(k)
    BY <1>2, <1>6, SetFollows, BecomesKeeps, PlotsStay DEF SliderMoved, plotVars
  <1>7. CASE \E n \in 0..(MaxSetpoint \div SpinUnit) : SpinBoxTyped(SpinUnit * n)
    <2>1. PICK n \in 0..(MaxSetpoint \div SpinUnit) : SpinBoxTyped(SpinUnit * n)
      BY <1>7
    <2>2. SpinUnit * n \in Int
      BY <1>1
    <2> QED
      BY <1>2, <2>1, <2>2, SetFollows, BecomesKeeps, PlotsStay DEF SpinBoxTyped, plotVars
  <1> QED
    BY <1>3, <1>4, <1>5, <1>6, <1>7

LEMMA SourceKeepsWindow ==
  ASSUME BoxInv, PlotsInv,
         \/ P_openSerialPort \/ P_runModeChange
         \/ \E sample \in DeviceSamples : DeviceSends(sample)
         \/ \E result \in SimResults : P_tickEventSimulation(result)
  PROVE  BoxInv' /\ PlotsInv'
  <1>1. /\ 0 \in Int \ Short /\ SpeedAuto \in Int \ Short
        /\ DeviceSamples \subseteq [Columns -> Int] /\ SimResults \subseteq [pv : Int, out : Int]
    BY SetpointAssumption, WindowAssumption DEF SetpointAssumption, WindowAssumption
  <1>2. m_sim_time_ms \in Int
    BY DEF PlotsInv
  <1>3. CASE P_openSerialPort
    <2>1. CASE m_runMode = "DEVICE"
      BY <1>1, <1>2, <1>3, <2>1, SetFollows, BecomesKeeps, ClearKeeps DEF P_openSerialPort
    <2>2. CASE m_runMode # "DEVICE"
      BY <1>2, <1>3, <2>2, BoxStays, PlotsStay DEF P_openSerialPort
    <2> QED
      BY <2>1, <2>2
  <1>4. CASE P_runModeChange
    BY <1>2, <1>4, BoxStays, ClearKeeps DEF P_runModeChange
  <1>5. CASE \E sample \in DeviceSamples : DeviceSends(sample)
    BY <1>1, <1>2, <1>5, BoxStays, SampleKeeps DEF DeviceSends
  <1>6. CASE \E result \in SimResults : P_tickEventSimulation(result)
    <2>1. PICK result \in SimResults : P_tickEventSimulation(result)
      BY <1>6
    <2>2. BoxInv'
      BY <1>1, <2>1, SetFollows, BecomesKeeps, BoxStays DEF P_tickEventSimulation
    <2> DEFINE sample == [time |-> m_sim_time_ms, sp |-> m_sim_setpoint',
                          pv |-> result.pv, out |-> result.out]
    <2>3. result.pv \in Int /\ result.out \in Int /\ m_sim_setpoint' \in Int
      BY <1>1, <2>2 DEF BoxInv
    <2>4. sample \in [Columns -> Int]
      BY <1>2, <2>3 DEF Columns
    <2>5. \A c \in Columns : sample[c] \in Int
      BY <2>4
    <2>6. P_dev_ready_SPPV(sample) /\ m_sim_time_ms' = m_sim_time_ms + 1
      BY <2>1 DEF P_tickEventSimulation
    <2> HIDE DEF sample
    <2> QED
      BY <1>2, <2>2, <2>4, <2>5, <2>6, SampleKeeps
  <1> QED
    BY <1>3, <1>4, <1>5, <1>6

LEMMA InitWindow == WindowInit => BoxInv /\ PlotsInv
  <1> SUFFICES ASSUME WindowInit PROVE BoxInv /\ PlotsInv
    OBVIOUS
  <1>1. SpinUnit \in Nat /\ SpinUnit >= 4
    BY SetpointAssumption DEF SetpointAssumption
  <1>2. SpinUnit \div 2 \in Int /\ 0 <= SpinUnit \div 2 /\ SpinUnit \div 2 < SpinUnit
    BY <1>1
  <1>3. (SpinUnit * 0 + SpinUnit \div 2) \div SpinUnit = 0
    BY <1>2, Multiples
  <1>4. Rounded(0) = 0
    BY <1>1, <1>2, <1>3 DEF Rounded
  <1>5. P_dbl_to_int(0) = 0
    BY SetpointAssumption DEF SetpointAssumption, P_dbl_to_int
  <1>6. OnGrid(0)
    BY <1>4, <1>5 DEF OnGrid
  <1>7. BoxInv
    BY <1>4, <1>5, <1>6, EmptySeq DEF WindowInit, BoxInv, Agree, SetpointTold, NewSetpoint, Widgets
  <1>8. PlotsInv
    BY NoPlotsAre, EmptySeq DEF WindowInit, PlotsInv, PlotsInStep, Drawn
  <1> QED
    BY <1>7, <1>8

LEMMA NextWindow == BoxInv /\ PlotsInv /\ [WindowNext]_windowVars => (BoxInv /\ PlotsInv)'
  <1> SUFFICES ASSUME BoxInv, PlotsInv, [WindowNext]_windowVars PROVE BoxInv' /\ PlotsInv'
    OBVIOUS
  <1>1. CASE UNCHANGED windowVars
    <2>1. m_sim_time_ms \in Int
      BY DEF PlotsInv
    <2> QED
      BY <1>1, <2>1, BoxStays, PlotsStay DEF windowVars, setpointVars
  <1>2. CASE WindowNext
    BY <1>2, ButtonKeepsWindow, SourceKeepsWindow DEF WindowNext
  <1> QED
    BY <1>1, <1>2

LEMMA WindowInvHolds == WindowSpec => [](BoxInv /\ PlotsInv)
  BY InitWindow, NextWindow, PTL DEF WindowSpec

\* Whatever the device and the simulation send, and whenever the port is opened
\* and the source changed: the four plots hold the same samples.
THEOREM PlotsInStepHolds == WindowSpec => []PlotsInStep
  <1>1. PlotsInv => PlotsInStep
    BY DEF PlotsInv
  <1> QED
    BY <1>1, WindowInvHolds, PTL

\* The amplitude on the screen is that of the plot on the screen, wherever its
\* extremes are and however often they occur.
THEOREM AmplitudeShownHolds == WindowSpec => []AmplitudeShown
  <1>1. PlotsInv => AmplitudeShown
    <2> SUFFICES ASSUME PlotsInv, screen.plots.pv # << >> PROVE AmplitudeShown
      BY DEF AmplitudeShown
    <2>1. screen.plots.pv \in Seq(Int)
      BY DEF PlotsInv, Columns
    <2> QED
      BY <2>1, AmplitudeIs DEF PlotsInv, AmplitudeShown
  <1> QED
    BY <1>1, WindowInvHolds, PTL

\* For every accuracy of the slider and the spin box: they end agreed, and what
\* was told last is what they show.
THEOREM SetpointToldHolds == WindowSpec => []SetpointTold
  <1>1. BoxInv => SetpointTold
    BY DEF BoxInv
  <1> QED
    BY <1>1, WindowInvHolds, PTL

(***************************************************************************)
(* The gains on both ends.                                                 *)
(***************************************************************************)

\* A whole quotient lies between two products.
LEMMA QuotientIs ==
  ASSUME NEW p \in Nat, NEW d \in Nat \ {0}
  PROVE  p \div d \in Nat /\ d * (p \div d) <= p /\ p < d * (p \div d) + d
OBVIOUS

LEMMA ProductOrder ==
  ASSUME NEW d \in Nat \ {0}, NEW a \in Int, NEW b \in Int, a < b
  PROVE  d * a + d <= d * b
<1>1. \A c \in Nat : d * c \in Nat
  OBVIOUS
<1>2. b - a - 1 \in Nat
  OBVIOUS
<1>3. d * (b - a - 1) >= 0
  BY <1>1, <1>2
<1>4. d * (b - a - 1) = d * b - d * a - d
  OBVIOUS
<1>5. d * a \in Int /\ d * b \in Int
  OBVIOUS
<1> QED
  BY <1>3, <1>4, <1>5

\* What is cut off after a rounding by less than half a unit is one unit.
LEMMA CutBack ==
  ASSUME NEW p \in Nat, NEW d \in Nat \ {0}, NEW l \in Int,
         -d <= 2 * (p - d * l), 2 * (p - d * l) <= d
  PROVE  l \in Nat /\ p \div d \in {l} \cup (IF l > 0 THEN {l - 1} ELSE {})
<1> DEFINE q == p \div d
<1>1. q \in Nat /\ d * q <= p /\ p < d * q + d
  BY QuotientIs
<1> HIDE DEF q
<1>2. d * q \in Int /\ d * l \in Int
  BY <1>1
<1>3. ~(l < q)
  <2>1. l < q => d * l + d <= d * q
    BY <1>1, ProductOrder
  <2> QED
    BY <1>1, <1>2, <2>1
<1>4. ~(q + 1 < l)
  <2>1. q + 1 < l => d * (q + 1) + d <= d * l
    BY <1>1, ProductOrder
  <2>2. d * (q + 1) = d * q + d
    BY <1>1
  <2> QED
    BY <1>1, <1>2, <2>1, <2>2
<1>5. l >= 0
  BY <1>1, <1>3, <1>4, <1>2, ProductOrder
<1> QED
  BY <1>1, <1>3, <1>4, <1>5 DEF q

\* A gain read into its box and given to the regulator is the gain itself, or
\* one unit nearer to zero.
LEMMA ReadBack ==
  ASSUME NEW raw \in Int, NEW x \in Shown(raw)
  PROVE  FromDouble(x) \in {Limited(raw), TowardZero(Limited(raw))}
<1> DEFINE l == Limited(raw)
<1>1. FracUnit \in Nat \ {0} /\ Decimals \in Nat \ {0} /\ FracUnit <= Decimals /\ MaxGain \in Nat
  BY GainsAssumption
<1>2. x \in Int /\ -FracUnit <= 2 * (x * FracUnit - l * Decimals)
                /\ 2 * (x * FracUnit - l * Decimals) <= FracUnit
  BY <1>1 DEF Shown, BoxValues
<1>3. l \in Int
  <2>1. MaxGain * FracUnit \in Int
    BY <1>1
  <2> QED
    BY <2>1 DEF Limited
<1>4. TowardZero(l) = IF l > 0 THEN l - 1 ELSE IF l < 0 THEN l + 1 ELSE 0
  BY DEF TowardZero
<1> HIDE DEF l
<1>5. /\ x * FracUnit \in Int /\ l * Decimals = Decimals * l /\ Decimals * l \in Int
      /\ (-x) * FracUnit = -(x * FracUnit) /\ Decimals * (-l) = -(Decimals * l)
  BY <1>1, <1>2, <1>3
<1>6. CASE x >= 0
  <2>1. x * FracUnit \in Nat
    <3>1. x \in Nat /\ \A a, b \in Nat : a * b \in Nat
      BY <1>2, <1>6
    <3> QED
      BY <1>1, <3>1
  <2>2. /\ -Decimals <= 2 * (x * FracUnit - Decimals * l)
        /\ 2 * (x * FracUnit - Decimals * l) <= Decimals
    BY <1>1, <1>2, <1>5
  <2>3. l \in Nat /\ (x * FracUnit) \div Decimals \in {l} \cup (IF l > 0 THEN {l - 1} ELSE {})
    BY <1>1, <1>3, <2>1, <2>2, CutBack
  <2>4. FromDouble(x) = (x * FracUnit) \div Decimals
    BY <1>6 DEF FromDouble
  <2> QED
    BY <1>4, <2>3, <2>4 DEF l
<1>7. CASE x < 0
  <2>1. (-x) * FracUnit \in Nat
    BY <1>1, <1>2, <1>7
  <2>2. /\ -Decimals <= 2 * ((-x) * FracUnit - Decimals * (-l))
        /\ 2 * ((-x) * FracUnit - Decimals * (-l)) <= Decimals
    BY <1>1, <1>2, <1>5
  <2>3. /\ -l \in Nat
        /\ ((-x) * FracUnit) \div Decimals \in {-l} \cup (IF -l > 0 THEN {-l - 1} ELSE {})
    BY <1>1, <1>3, <2>1, <2>2, CutBack
  <2>4. FromDouble(x) = -(((-x) * FracUnit) \div Decimals)
    <3>1. FromDouble(x) = -((-(x * FracUnit)) \div Decimals)
      BY <1>2, <1>7 DEF FromDouble
    <3> QED
      BY <1>5, <3>1
  <2> QED
    BY <1>3, <1>4, <2>3, <2>4 DEF l
<1> QED
  BY <1>2, <1>6, <1>7

\* What a box gives, the device takes and a box can show again.
LEMMA BoxGives ==
  ASSUME NEW x \in BoxValues
  PROVE  FromDouble(x) \in Int /\ Limited(FromDouble(x)) = FromDouble(x)
<1>1. FracUnit \in Nat \ {0} /\ Decimals \in Nat \ {0} /\ MaxGain \in Nat
  BY GainsAssumption
<1>2. ASSUME NEW y \in Nat, y <= MaxGain * Decimals
      PROVE  (y * FracUnit) \div Decimals \in 0..(MaxGain * FracUnit)
  <2> DEFINE q == (y * FracUnit) \div Decimals
             m == MaxGain * FracUnit
  <2>1. y * FracUnit \in Nat /\ m \in Nat /\ q \in Nat /\ Decimals * q <= y * FracUnit
    <3>1. y * FracUnit \in Nat /\ m \in Nat
      BY <1>1
    <3> QED
      BY <1>1, <3>1, QuotientIs
  <2>2. y * FracUnit <= Decimals * m
    <3>1. MaxGain * Decimals - y \in Nat
      BY <1>1, <1>2
    <3>2. (MaxGain * Decimals - y) * FracUnit >= 0
      BY <1>1, <3>1
    <3>3. (MaxGain * Decimals - y) * FracUnit = Decimals * (MaxGain * FracUnit) - y * FracUnit
      BY <1>1
    <3> QED
      BY <1>1, <2>1, <3>2, <3>3
  <2> HIDE DEF q, m
  <2>3. m < q => Decimals * m + Decimals <= Decimals * q
    BY <1>1, <2>1, ProductOrder
  <2>4. Decimals * m \in Int /\ Decimals * q \in Int
    BY <1>1, <2>1
  <2> QED
    BY <1>1, <2>1, <2>2, <2>3, <2>4 DEF q, m
<1>3. x \in Int /\ -(MaxGain * Decimals) <= x /\ x <= MaxGain * Decimals
  BY <1>1 DEF BoxValues
<1>4. MaxGain * FracUnit \in Nat /\ -MaxGain * FracUnit = -(MaxGain * FracUnit)
  BY <1>1
<1>5. FromDouble(x) \in Int /\ -(MaxGain * FracUnit) <= FromDouble(x) /\ FromDouble(x) <= MaxGain * FracUnit
  <2>1. CASE x >= 0
    <3>1. FromDouble(x) = (x * FracUnit) \div Decimals
      BY <2>1 DEF FromDouble
    <3>2. FromDouble(x) \in 0..(MaxGain * FracUnit)
      BY <1>2, <1>3, <2>1, <3>1
    <3> QED
      BY <1>4, <3>2
  <2>2. CASE x < 0
    <3>1. FromDouble(x) = -(((-x) * FracUnit) \div Decimals)
      <4>1. FromDouble(x) = -((-(x * FracUnit)) \div Decimals)
        BY <1>3, <2>2 DEF FromDouble
      <4>2. (-x) * FracUnit = -(x * FracUnit)
        BY <1>1, <1>3
      <4> QED
        BY <4>1, <4>2
    <3>2. -x \in Nat /\ -x <= MaxGain * Decimals
      BY <1>1, <1>3, <2>2
    <3>3. ((-x) * FracUnit) \div Decimals \in 0..(MaxGain * FracUnit)
      BY <1>2, <3>2
    <3> QED
      BY <1>4, <3>1, <3>3
  <2> QED
    BY <1>3, <2>1, <2>2
<1> QED
  BY <1>4, <1>5 DEF Limited

GainRequests == [func : {"FUNC_02_KOEF_R", "FUNC_03_KOEF_W"}, gains : [Gains -> Int]]
GainReplies == [gains : [Gains -> Int], fresh : BOOLEAN]

GainTypes ==
  /\ K \in [Gains -> BoxValues] /\ m_koef \in [Gains -> Int]
  /\ to_device \in Seq(GainRequests) /\ to_tool \in Seq(GainReplies)
  /\ apart \in BOOLEAN

\* The last write is still the last one when the first request has gone, and
\* when a read is added; a write that is added is the last one.
LEMMA LastWriteKept ==
  ASSUME NEW s \in Seq(GainRequests), NEW g
  PROVE  /\ LastWriteIs(s, g) /\ s # << >> => LastWriteIs(Tail(s), g)
         /\ LastWriteIs(s, g) => LastWriteIs(Append(s, Read), g)
         /\ LastWriteIs(Append(s, Write(g)), g)
<1>1. ASSUME LastWriteIs(s, g), s # << >> PROVE LastWriteIs(Tail(s), g)
  <2> DEFINE t == Tail(s)
  <2>1. /\ t \in Seq(GainRequests) /\ Len(t) = Len(s) - 1 /\ Len(s) \in Nat
        /\ \A i \in 1..Len(t) : t[i] = s[i + 1]
        /\ DOMAIN s = 1..Len(s) /\ DOMAIN t = 1..Len(t)
    BY <1>1
  <2> HIDE DEF t
  <2>2. ASSUME NEW i \in DOMAIN t, IsWrite(t[i]), \A j \in DOMAIN t : j > i => ~IsWrite(t[j])
        PROVE  t[i].gains = g
    <3>1. i + 1 \in DOMAIN s /\ IsWrite(s[i + 1]) /\ t[i] = s[i + 1]
      BY <2>1, <2>2
    <3>2. ASSUME NEW j \in DOMAIN s, j > i + 1 PROVE ~IsWrite(s[j])
      <4>1. j - 1 \in DOMAIN t /\ j - 1 > i /\ (j - 1) + 1 = j
        BY <2>1, <3>2
      <4> QED
        BY <2>1, <2>2, <4>1
    <3> QED
      BY <1>1, <3>1, <3>2 DEF LastWriteIs
  <2>3. LastWriteIs(t, g)
    BY <2>2 DEF LastWriteIs
  <2> QED
    BY <2>3 DEF t
<1>2. Read \in GainRequests /\ ~IsWrite(Read)
  BY DEF Read, GainRequests, IsWrite
<1>3. ASSUME LastWriteIs(s, g) PROVE LastWriteIs(Append(s, Read), g)
  <2> DEFINE t == Append(s, Read)
  <2>1. Len(t) = Len(s) + 1 /\ Len(s) \in Nat /\ DOMAIN t = 1..Len(t) /\ t[Len(s) + 1] = Read
        /\ \A i \in 1..Len(s) : t[i] = s[i]
    BY <1>2
  <2> HIDE DEF t
  <2>2. ASSUME NEW i \in 1..Len(t), IsWrite(t[i]), \A j \in 1..Len(t) : j > i => ~IsWrite(t[j])
        PROVE  t[i].gains = g
    <3>1. i \in 1..Len(s) /\ IsWrite(s[i])
      BY <1>2, <2>1, <2>2
    <3>2. \A j \in 1..Len(s) : j > i => ~IsWrite(s[j])
      BY <2>1, <2>2
    <3> QED
      BY <1>3, <2>1, <3>1, <3>2 DEF LastWriteIs
  <2> QED
    BY <2>1, <2>2 DEF LastWriteIs, t
<1>4. LastWriteIs(Append(s, Write(g)), g)
  <2> DEFINE w == Write(g)
             t == Append(s, w)
  <2>1. IsWrite(w) /\ w.gains = g
    BY DEF Write, IsWrite
  <2> HIDE DEF w
  <2>2. /\ DOMAIN t = 1..(Len(s) + 1) /\ Len(s) \in Nat /\ t[Len(s) + 1] = w
    OBVIOUS
  <2> HIDE DEF t
  <2>3. ASSUME NEW i \in 1..(Len(s) + 1), \A j \in 1..(Len(s) + 1) : j > i => ~IsWrite(t[j])
        PROVE  t[i].gains = g
    <3>1. i = Len(s) + 1
      BY <2>1, <2>2, <2>3
    <3> QED
      BY <2>1, <2>2, <3>1
  <2> QED
    BY <2>2, <2>3 DEF LastWriteIs, t, w
<1> QED
  BY <1>1, <1>3, <1>4

\* A request that has gone takes no other write with it.
LEMMA WritesLeft ==
  ASSUME NEW s \in Seq(GainRequests), s # << >>
  PROVE  /\ Head(s) \in GainRequests /\ Tail(s) \in Seq(GainRequests)
         /\ WriteIn(s) <=> (IsWrite(Head(s)) \/ WriteIn(Tail(s)))
         /\ IsWrite(Head(s)) /\ ~WriteIn(Tail(s)) =>
              \A g : LastWriteIs(s, g) => Head(s).gains = g
<1>1. /\ Head(s) \in GainRequests /\ Head(s) = s[1] /\ Len(s) \in Nat /\ 1 \in 1..Len(s)
      /\ Tail(s) \in Seq(GainRequests) /\ Len(Tail(s)) = Len(s) - 1
      /\ \A i \in 1..Len(Tail(s)) : Tail(s)[i] = s[i + 1]
      /\ DOMAIN s = 1..Len(s) /\ DOMAIN Tail(s) = 1..Len(Tail(s))
  BY EmptySeq
<1>2. \A i \in 1..Len(s) : i = 1 \/ (i - 1 \in 1..Len(Tail(s)) /\ s[i] = Tail(s)[i - 1])
  BY <1>1
<1>3. WriteIn(s) <=> (IsWrite(Head(s)) \/ WriteIn(Tail(s)))
  <2>1. \A i \in 1..Len(Tail(s)) : i + 1 \in 1..Len(s)
    BY <1>1
  <2> QED
    BY <1>1, <1>2, <2>1 DEF WriteIn
<1>4. ASSUME IsWrite(Head(s)), ~WriteIn(Tail(s)), NEW g, LastWriteIs(s, g)
      PROVE  Head(s).gains = g
  <2>1. ASSUME NEW j \in 1..Len(s), j > 1 PROVE ~IsWrite(s[j])
    <3>1. j - 1 \in 1..Len(Tail(s)) /\ s[j] = Tail(s)[j - 1]
      BY <1>1, <1>2, <2>1
    <3> QED
      BY <1>1, <1>4, <3>1 DEF WriteIn
  <2> QED
    BY <1>1, <1>4, <2>1 DEF LastWriteIs
<1> QED
  BY <1>1, <1>3, <1>4

GainsInv == GainTypes /\ InStepInv

LEMMA ConvertedIs ==
  ASSUME NEW boxes \in [Gains -> BoxValues]
  PROVE  /\ Converted(boxes) \in [Gains -> Int]
         /\ \A k \in Gains : /\ Converted(boxes)[k] = FromDouble(boxes[k])
                             /\ Limited(Converted(boxes)[k]) = Converted(boxes)[k]
<1>1. Converted(boxes) = [k \in Gains |-> FromDouble(boxes[k])]
  BY DEF Converted
<1>2. \A k \in Gains : FromDouble(boxes[k]) \in Int /\ Limited(FromDouble(boxes[k])) = FromDouble(boxes[k])
  BY BoxGives
<1> QED
  BY <1>1, <1>2

LEMMA InitGains == GainsInit => GainsInv
<1> SUFFICES ASSUME GainsInit PROVE GainsInv
  OBVIOUS
<1>1. Typed \subseteq BoxValues /\ StoredGains \subseteq [Gains -> Int]
  BY GainsAssumption
<1>2. GainTypes
  BY <1>1, EmptySeq DEF GainsInit, GainTypes
<1>3. InStepInv
  BY DEF GainsInit, InStepInv, GainsInStep
<1> QED
  BY <1>2, <1>3 DEF GainsInv

\* The boxes and the regulator stay together, whoever sets the boxes.
LEMMA BoxesSet ==
  ASSUME GainsInv, NEW boxes \in [Gains -> BoxValues], SetBoxes(boxes)
  PROVE  K' \in [Gains -> BoxValues] /\ m_pid' = Converted(K')
BY DEF GainsInv, InStepInv, SetBoxes

\* The tool's steps.
LEMMA ToolGains ==
  ASSUME GainsInv,
         \/ \E k \in Gains, x \in Typed : BoxChanged(k, x)
         \/ P_rpc_request_02_koef_r \/ P_rpc_request_03_koef_w \/ P_dev_ready_pidKoefRead
  PROVE  GainsInv'
<1> USE DEF GainsInv
<1>1. ASSUME NEW k \in Gains, NEW x \in Typed, BoxChanged(k, x) PROVE GainsInv'
  <2>1. [K EXCEPT ![k] = x] \in [Gains -> BoxValues]
    BY GainsAssumption DEF GainTypes
  <2>2. K' \in [Gains -> BoxValues] /\ m_pid' = Converted(K')
    BY <1>1, <2>1, BoxesSet DEF BoxChanged
  <2>3. GainTypes'
    BY <1>1, <2>2 DEF BoxChanged, GainTypes
  <2>4. InStepInv'
    BY <1>1, <2>2 DEF BoxChanged, InStepInv, GainsInStep
  <2> QED
    BY <2>3, <2>4
<1>2. CASE P_rpc_request_02_koef_r
  <2>1. Read \in GainRequests /\ ~IsWrite(Read)
    BY DEF Read, GainRequests, IsWrite
  <2>2. GainTypes'
    BY <1>2, <2>1 DEF P_rpc_request_02_koef_r, GainTypes
  <2>3. ~apart' => LastWriteIs(to_device, m_pid)' /\ ~apart
    BY <1>2, LastWriteKept DEF P_rpc_request_02_koef_r, InStepInv, GainTypes
  <2>4. WriteIn(to_device) => WriteIn(Append(to_device, Read))
    <3>1. \A i \in DOMAIN to_device : /\ i \in DOMAIN Append(to_device, Read)
                                      /\ Append(to_device, Read)[i] = to_device[i]
      BY <2>1 DEF GainTypes
    <3> QED
      BY <3>1 DEF WriteIn
  <2>5. InStepInv'
    BY <1>2, <2>3, <2>4 DEF P_rpc_request_02_koef_r, InStepInv, GainsInStep
  <2> QED
    BY <2>2, <2>5
<1>3. CASE P_rpc_request_03_koef_w
  <2> DEFINE w == Write(Converted(K))
  <2>1. w \in GainRequests /\ IsWrite(w)
    BY ConvertedIs DEF Write, GainRequests, IsWrite, GainTypes
  <2>2. LastWriteIs(Append(to_device, Write(m_pid)), m_pid)
    BY LastWriteKept DEF GainTypes
  <2>3. WriteIn(Append(to_device, w))
    <3> HIDE DEF w
    <3>1. /\ Len(to_device) + 1 \in DOMAIN Append(to_device, w)
          /\ Append(to_device, w)[Len(to_device) + 1] = w
      BY <2>1 DEF GainTypes
    <3> QED
      BY <2>1, <3>1 DEF WriteIn
  <2>4. GainTypes'
    <3>1. Append(to_device, w) \in Seq(GainRequests)
      <4> HIDE DEF w
      <4> QED
        BY <2>1 DEF GainTypes
    <3> QED
      BY <1>3, <3>1 DEF P_rpc_request_03_koef_w, GainTypes
  <2>5. InStepInv'
    BY <1>3, <2>2, <2>3 DEF P_rpc_request_03_koef_w, InStepInv, GainsInStep
  <2> QED
    BY <2>4, <2>5
<1>4. CASE P_dev_ready_pidKoefRead
  <2> DEFINE reply == Head(to_tool)
  <2>1. /\ reply \in GainReplies /\ reply = to_tool[1] /\ 1 \in DOMAIN to_tool
        /\ Tail(to_tool) \in Seq(GainReplies)
        /\ \A i \in DOMAIN Tail(to_tool) : i + 1 \in DOMAIN to_tool /\ Tail(to_tool)[i] = to_tool[i + 1]
    BY <1>4, EmptySeq DEF P_dev_ready_pidKoefRead, GainTypes
  <2>2. PICK boxes \in [Gains -> UNION {Shown(reply.gains[k]) : k \in Gains}] :
          (\A k \in Gains : boxes[k] \in Shown(reply.gains[k])) /\ SetBoxes(boxes)
    BY <1>4 DEF P_dev_ready_pidKoefRead
  <2>3. boxes \in [Gains -> BoxValues]
    BY <2>2 DEF Shown
  <2>4. K' = boxes /\ K' \in [Gains -> BoxValues] /\ m_pid' = Converted(K')
    BY <2>2, <2>3, BoxesSet DEF SetBoxes
  <2> HIDE DEF reply
  <2>5. GainTypes'
    <3>1. (~reply.fresh \/ WriteIn(to_device)) \in BOOLEAN
      OBVIOUS
    <3> QED
      BY <1>4, <2>1, <2>4, <3>1 DEF P_dev_ready_pidKoefRead, GainTypes, reply
  <2>6. ~apart' => reply.fresh /\ ~WriteIn(to_device)
    BY <1>4 DEF P_dev_ready_pidKoefRead, reply
  <2>7. GainsInStep'
    <3>1. reply.fresh => reply.gains = m_koef
      BY <2>1 DEF InStepInv
    <3>2. reply.gains \in [Gains -> Int]
      BY <2>1 DEF GainReplies
    <3>3. ASSUME NEW k \in Gains, reply.fresh
          PROVE  m_pid'[k] \in {Limited(m_koef[k]), TowardZero(Limited(m_koef[k]))}
      <4>1. boxes[k] \in Shown(m_koef[k]) /\ m_koef[k] \in Int
        BY <2>2, <3>1, <3>2, <3>3
      <4> QED
        BY <2>4, <4>1, ConvertedIs, ReadBack
    <3> QED
      BY <1>4, <2>6, <3>3 DEF GainsInStep, P_dev_ready_pidKoefRead
  <2>8. ~apart' => LastWriteIs(to_device, m_pid)'
    BY <1>4, <2>6 DEF LastWriteIs, WriteIn, P_dev_ready_pidKoefRead
  <2>9. \A i \in DOMAIN to_tool' : to_tool'[i].fresh => to_tool'[i].gains = m_koef'
    BY <1>4, <2>1 DEF P_dev_ready_pidKoefRead, InStepInv
  <2> QED
    BY <2>4, <2>5, <2>7, <2>8, <2>9 DEF InStepInv
<1> QED
  BY <1>1, <1>2, <1>3, <1>4

\* A step of the device or of the line that may make the replies on their way
\* untrue: they are marked, or the gains are as before.
LEMMA RepliesKept ==
  ASSUME GainsInv, Outdated \/ UNCHANGED <<to_tool, m_koef>>
  PROVE  /\ to_tool' \in Seq(GainReplies)
         /\ \A i \in DOMAIN to_tool' : to_tool'[i].fresh => to_tool'[i].gains = m_koef'
<1> USE DEF GainsInv
<1>1. CASE Outdated
  <2>1. DOMAIN to_tool = 1..Len(to_tool) /\ Len(to_tool) \in Nat
    BY DEF GainTypes
  <2>2. \A i \in DOMAIN to_tool : /\ [to_tool[i] EXCEPT !.fresh = FALSE] \in GainReplies
                                  /\ [to_tool[i] EXCEPT !.fresh = FALSE].fresh = FALSE
    <3>1. \A r \in GainReplies : /\ [r EXCEPT !.fresh = FALSE] \in GainReplies
                                 /\ [r EXCEPT !.fresh = FALSE].fresh = FALSE
      BY DEF GainReplies
    <3>2. \A i \in DOMAIN to_tool : to_tool[i] \in GainReplies
      BY <2>1 DEF GainTypes
    <3> QED
      BY <3>1, <3>2
  <2>3. to_tool' \in [1..Len(to_tool) -> GainReplies] /\ \A i \in DOMAIN to_tool' : to_tool'[i].fresh = FALSE
    BY <1>1, <2>1, <2>2 DEF Outdated
  <2> QED
    BY <2>1, <2>3
<1>2. CASE UNCHANGED <<to_tool, m_koef>>
  BY <1>2 DEF GainTypes, InStepInv
<1> QED
  BY <1>1, <1>2

\* The steps of the device and of the line.
LEMMA DeviceGains ==
  ASSUME GainsInv,
         \/ P_rpc_func_02_koef_r \/ P_rpc_func_03_koef_w \/ DeviceStarts
         \/ RequestLost \/ ReplyLost
  PROVE  GainsInv'
<1> USE DEF GainsInv
<1>1. ASSUME to_device # << >>, to_device' = Tail(to_device)
      PROVE  /\ to_device' \in Seq(GainRequests) /\ Head(to_device) \in GainRequests
             /\ WriteIn(to_device) <=> (IsWrite(Head(to_device)) \/ WriteIn(Tail(to_device)))
             /\ ~apart => LastWriteIs(Tail(to_device), m_pid)
             /\ ~apart /\ IsWrite(Head(to_device)) /\ ~WriteIn(Tail(to_device)) =>
                  Head(to_device).gains = m_pid
  BY <1>1, LastWriteKept, WritesLeft DEF GainTypes, InStepInv
<1>2. CASE P_rpc_func_02_koef_r
  <2>1. to_device # << >> /\ to_device' = Tail(to_device) /\ ~IsWrite(Head(to_device))
    BY <1>2 DEF P_rpc_func_02_koef_r
  <2> DEFINE r == [gains |-> m_koef, fresh |-> TRUE]
  <2>2. r \in GainReplies /\ r.gains = m_koef
    BY DEF GainReplies, GainTypes
  <2>3. to_tool' = Append(to_tool, r)
    BY <1>2 DEF P_rpc_func_02_koef_r
  <2> HIDE DEF r
  <2>4. /\ to_tool' \in Seq(GainReplies)
        /\ \A i \in DOMAIN to_tool' : (i \in DOMAIN to_tool /\ to_tool'[i] = to_tool[i]) \/ to_tool'[i] = r
    BY <2>2, <2>3 DEF GainTypes
  <2>5. GainTypes'
    BY <1>1, <1>2, <2>1, <2>4 DEF P_rpc_func_02_koef_r, GainTypes
  <2>6. GainsInStep' /\ (~apart' => LastWriteIs(to_device, m_pid)')
    BY <1>1, <1>2, <2>1 DEF P_rpc_func_02_koef_r, GainsInStep, InStepInv
  <2>7. \A i \in DOMAIN to_tool' : to_tool'[i].fresh => to_tool'[i].gains = m_koef'
    BY <1>2, <2>2, <2>4 DEF P_rpc_func_02_koef_r, InStepInv
  <2> QED
    BY <1>2, <2>5, <2>6, <2>7 DEF P_rpc_func_02_koef_r, InStepInv
<1>3. CASE P_rpc_func_03_koef_w
  <2>1. to_device # << >> /\ to_device' = Tail(to_device) /\ IsWrite(Head(to_device))
    BY <1>3 DEF P_rpc_func_03_koef_w
  <2>2. CASE m_koef' = Head(to_device).gains /\ Outdated /\ UNCHANGED apart
    <3>1. GainTypes'
      BY <1>1, <1>3, <2>1, <2>2, RepliesKept DEF P_rpc_func_03_koef_w, GainTypes, GainRequests
    <3>2. GainsInStep'
      <4>1. ~apart' /\ ~WriteIn(Tail(to_device)) => m_koef' = m_pid
        BY <1>1, <2>1, <2>2
      <4>2. \A k \in Gains : Limited(m_pid[k]) = m_pid[k]
        BY ConvertedIs DEF GainTypes, InStepInv
      <4> QED
        BY <1>3, <2>1, <4>1, <4>2 DEF P_rpc_func_03_koef_w, GainsInStep
    <3> QED
      BY <1>1, <1>3, <2>1, <2>2, <3>1, <3>2, RepliesKept DEF P_rpc_func_03_koef_w, InStepInv
  <2>3. CASE apart' = (apart \/ ~WriteIn(Tail(to_device))) /\ UNCHANGED <<m_koef, to_tool>>
    <3>1. GainTypes'
      BY <1>1, <1>3, <2>1, <2>3 DEF P_rpc_func_03_koef_w, GainTypes
    <3>2. GainsInStep' /\ (~apart' => ~apart)
      BY <2>1, <2>3 DEF GainsInStep
    <3> QED
      BY <1>1, <1>3, <2>1, <2>3, <3>1, <3>2 DEF P_rpc_func_03_koef_w, InStepInv
  <2> QED
    BY <1>3, <2>2, <2>3 DEF P_rpc_func_03_koef_w
<1>4. CASE DeviceStarts
  <2>1. GainTypes'
    BY <1>4, RepliesKept, GainsAssumption DEF DeviceStarts, GainTypes
  <2>2. GainsInStep' /\ (~apart' => ~apart)
    BY <1>4 DEF DeviceStarts, GainsInStep
  <2> QED
    BY <1>4, <2>1, <2>2, RepliesKept DEF DeviceStarts, InStepInv
<1>5. CASE RequestLost
  <2>1. to_device # << >> /\ to_device' = Tail(to_device)
    BY <1>5 DEF RequestLost
  <2>2. GainTypes'
    BY <1>1, <1>5, <2>1 DEF RequestLost, GainTypes
  <2>3. GainsInStep' /\ (~apart' => ~apart)
    BY <1>1, <1>5, <2>1 DEF RequestLost, GainsInStep, InStepInv
  <2> QED
    BY <1>1, <1>5, <2>1, <2>2, <2>3 DEF RequestLost, InStepInv
<1>6. CASE ReplyLost
  <2>1. /\ Tail(to_tool) \in Seq(GainReplies)
        /\ \A i \in DOMAIN Tail(to_tool) : i + 1 \in DOMAIN to_tool /\ Tail(to_tool)[i] = to_tool[i + 1]
    BY <1>6, EmptySeq DEF ReplyLost, GainTypes
  <2>2. GainTypes'
    BY <1>6, <2>1 DEF ReplyLost, GainTypes
  <2>3. GainsInStep'
    BY <1>6 DEF ReplyLost, GainsInStep, InStepInv
  <2> QED
    BY <1>6, <2>1, <2>2, <2>3 DEF ReplyLost, InStepInv
<1> QED
  BY <1>2, <1>3, <1>4, <1>5, <1>6

\* For every accuracy of the boxes not coarser than the numbers', all gains
\* stored and typed, any number of requests and whatever is lost, refused or
\* overtaken: the simulated regulator and the device agree, but for the limit
\* of the boxes and one unit toward zero, from the write that arrives or the
\* read that is shown until something comes between.
THEOREM GainsInStepHolds == GainsSpec => []GainsInStep
<1>1. GainsInv /\ [GainsNext]_gainVars => GainsInv'
  <2> SUFFICES ASSUME GainsInv, [GainsNext]_gainVars PROVE GainsInv'
    OBVIOUS
  <2>1. CASE UNCHANGED gainVars
    BY <2>1 DEF gainVars, GainsInv, GainTypes, InStepInv, GainsInStep
  <2>2. CASE GainsNext
    BY <2>2, ToolGains, DeviceGains DEF GainsNext
  <2> QED
    BY <2>1, <2>2
<1>2. GainsInv => GainsInStep
  BY DEF GainsInv, InStepInv
<1> QED
  BY <1>1, <1>2, InitGains, PTL DEF GainsSpec
===============================================================================
