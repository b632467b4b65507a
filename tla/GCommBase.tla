----------------------------- MODULE GCommBase ------------------------------
(***************************************************************************)
(* One direction of the serial link: the frame writer of one side, the     *)
(* wire, and the frame reader of the other.  Both sides, firmware and PC,  *)
(* run the same class GCommBase; GComm and Comm only supply the bytes.     *)
(* Characters are their ASCII codes.  The wire may drop a character,       *)
(* change it, or add stray terminators between frames.                     *)
(***************************************************************************)
EXTENDS Integers, Sequences, Functions, SequencesExt, FiniteSetsExt

CONSTANTS
  Payloads,            \* the frames the writer sends, in order
  Noise,               \* what a character may be changed into
  MaxDamage,           \* bound on what the wire does
  GCOMMBASE_BUF_SIZE   \* 32 in the code

ASSUME GCommBaseAssumption ==
  /\ Payloads \in Seq(Seq(0..255)) /\ IsInjective(Payloads)
  /\ Noise \subseteq 0..127
  /\ MaxDamage \in Nat /\ GCOMMBASE_BUF_SIZE \in Nat

CRC_SIZE == 2
Colon == 58
LF == 10
CR == 13

VARIABLES
  m_state, m_buf,   \* the reader: m_buf is the first m_buf_size bytes
  m_half,           \*   and the high digit at m_buf[m_buf_size]
  written,          \* the writer has sent the first `written' of Payloads
  wire,             \* characters to be read: [ch, of, at]; for the properties
                    \*   only, the frame and the place in it, 0 for a stray one
  got,              \* frames readFrame has returned with Error::OK
  hit, damage       \* frames a fault has touched; how many

reader   == <<m_state, m_buf, m_half>>
commVars == <<reader, written, wire, got, hit, damage>>

States == {"S0_AWAIT", "S1_GET_HI", "S2_GET_LO"}

CommTypeOK ==
  /\ m_state \in States
  /\ m_buf \in Seq(0..255)
  /\ m_half \in 0..15
  /\ written \in 0..Len(Payloads)
  /\ wire \in Seq([ch : 0..127, of : 1..Len(Payloads), at : Nat])
  /\ got \in Seq(Seq(0..255))
  /\ hit \subseteq 1..written
  /\ damage \in 0..MaxDamage

-----------------------------------------------------------------------------
(* The check sum: the register is the set of its bits that are 1. *)

Weight == <<1, 2, 4, 8, 16, 32, 64, 128>>
Bits(byte) == {b \in 0..7 : (byte \div Weight[b + 1]) % 2 = 1}
FromBits(bits) ==
  LET bit(b) == IF b \in bits THEN Weight[b + 1] ELSE 0
  IN  bit(7) + bit(6) + bit(5) + bit(4) + bit(3) + bit(2) + bit(1) + bit(0)
Xor(r, s) == (r \ s) \cup (s \ r)

\* Polynomial 0xA001.
P_crc_bit(reg) ==
  LET shifted == {b - 1 : b \in reg \ {0}}
  IN  IF 0 \in reg THEN Xor(shifted, {15, 13, 0}) ELSE shifted

P_crc_byte_add(reg, byte) ==
  LET Two(r) == P_crc_bit(P_crc_bit(r))
      Four(r) == Two(Two(r))
  IN  Four(Four(Xor(reg, Bits(byte))))

\* The two bytes of the sum of some bytes, the high one first.
P_crc(bytes) ==
  LET reg[i \in 0..Len(bytes)] ==
        IF i = 0 THEN 0..15 ELSE P_crc_byte_add(reg[i - 1], bytes[i])
      done == reg[Len(bytes)]
  IN  <<FromBits({b - 8 : b \in done \ (0..7)}), FromBits(done \cap (0..7))>>

\* Mutant: only the low byte of the sum is compared.
P_crc_check_LowByte(bytes) ==
  /\ Len(bytes) > CRC_SIZE
  /\ Last(bytes) = P_crc(SubSeq(bytes, 1, Len(bytes) - CRC_SIZE))[2]

P_crc_check(bytes) ==
  /\ Len(bytes) > CRC_SIZE
  /\ SubSeq(bytes, Len(bytes) - 1, Len(bytes))
       = P_crc(SubSeq(bytes, 1, Len(bytes) - CRC_SIZE))

-----------------------------------------------------------------------------
(* Characters. *)

P_char_is_terminal(ch) == ch \in {LF, CR}

\* Mutant: 'f' is left out.
IsDigit_NoF(ch) == ch \in 48..57 \cup 65..70 \cup 97..101

\* '0'..'9', 'A'..'F', 'a'..'f'.
IsDigit(ch) == ch \in 48..57 \cup 65..70 \cup 97..102

P_char_to_digit(ch) ==
  IF ch <= 57 THEN ch - 48 ELSE IF ch <= 70 THEN ch - 55 ELSE ch - 87

P_digit_to_char(value) == IF value <= 9 THEN value + 48 ELSE value + 87

P_writeByte(byte) == <<P_digit_to_char(byte \div 16), P_digit_to_char(byte % 16)>>

\* The bytes of a frame, and its characters: two for each byte.
Summed(payload) == payload \o P_crc(payload)
Framed(payload) ==
  LET bytes == Summed(payload)
      last == 2 * Len(bytes) + 2
  IN  [k \in 1..last |-> IF k = 1 THEN Colon ELSE IF k = last THEN LF
                         ELSE P_writeByte(bytes[k \div 2])[1 + (k % 2)]]

Fits(payload) == Len(payload) \in 1..(GCOMMBASE_BUF_SIZE - CRC_SIZE)

-----------------------------------------------------------------------------
CommInit ==
  /\ m_state = "S0_AWAIT" /\ m_buf = << >> /\ m_half = 0
  /\ written = 0 /\ wire = << >> /\ got = << >>
  /\ hit = {} /\ damage = 0

writeFrame ==
  /\ written < Len(Payloads)
  /\ written' = written + 1
  /\ LET chars == Framed(Payloads[written'])
     IN  wire' = wire \o [i \in DOMAIN chars |-> [ch |-> chars[i], of |-> written', at |-> i]]
  /\ UNCHANGED <<reader, got, hit, damage>>

\* fsmResult::NEXT: the state changes, nothing is returned.
Goes(state, buf, half) ==
  /\ m_state' = state /\ m_buf' = buf /\ m_half' = half
  /\ UNCHANGED got

\* fsmResult::FAILED within a frame: what was read is dropped.
Fails == Goes("S0_AWAIT", << >>, 0)

\* S0_AWAIT.  Any other character: FAILED, and nothing changes.
Await(ch) ==
  IF ch = Colon THEN Goes("S1_GET_HI", << >>, 0)
                ELSE UNCHANGED <<reader, got>>

\* The frame ends with SUCCESS: readFrame copies it out without its sum.
\* Both its callers pass 32 bytes, so BUFFER_TOO_SMALL does not occur.
Succeeds ==
  /\ got' = Append(got, SubSeq(m_buf, 1, Len(m_buf) - CRC_SIZE))
  /\ m_state' = "S0_AWAIT"
  /\ UNCHANGED <<m_buf, m_half>>

\* Mutant: one byte too late.
Full_OffByOne == Len(m_buf) > GCOMMBASE_BUF_SIZE

\* Whether m_buf has no room for one more byte.
Full == Len(m_buf) >= GCOMMBASE_BUF_SIZE

GetHi(ch) ==
  IF P_char_is_terminal(ch) THEN IF P_crc_check(m_buf) THEN Succeeds ELSE Fails
  ELSE IF Full \/ ~IsDigit(ch) THEN Fails
  ELSE Goes("S2_GET_LO", m_buf, P_char_to_digit(ch))

GetLo(ch) ==
  IF IsDigit(ch)
  THEN Goes("S1_GET_HI", Append(m_buf, 16 * m_half + P_char_to_digit(ch)), 0)
  ELSE Fails

\* One character of readFrame's loop.
P_fsm ==
  /\ wire # << >>
  /\ LET ch == Head(wire).ch
     IN  \/ m_state = "S0_AWAIT"  /\ Await(ch)
         \/ m_state = "S1_GET_HI" /\ GetHi(ch)
         \/ m_state = "S2_GET_LO" /\ GetLo(ch)
  /\ wire' = Tail(wire)
  /\ UNCHANGED <<written, hit, damage>>

-----------------------------------------------------------------------------
(* The wire. *)

Fault == wire # << >> /\ damage < MaxDamage /\ damage' = damage + 1

Drop ==
  /\ Fault
  /\ wire' = Tail(wire)
  /\ hit' = hit \cup {Head(wire).of}
  /\ UNCHANGED <<reader, written, got>>

\* Only in a frame not yet touched: two changed digits can agree with the
\* check sum, as they can for any sum of 16 bits.
Change ==
  /\ Fault /\ Head(wire).of \notin hit
  /\ \E ch \in Noise \ {Head(wire).ch} : wire' = [wire EXCEPT ![1].ch = ch]
  /\ hit' = hit \cup {Head(wire).of}
  /\ UNCHANGED <<reader, written, got>>

\* A terminator outside the frames: it touches none.
Stray ==
  /\ Fault /\ Head(wire).ch = Colon
  /\ \E ch \in {LF, CR} : wire' = <<[ch |-> ch, of |-> Head(wire).of, at |-> 0]>> \o wire
  /\ UNCHANGED <<reader, written, got, hit>>

CommNext == writeFrame \/ P_fsm \/ Drop \/ Change \/ Stray

CommSpec == CommInit /\ [][CommNext]_commVars

-----------------------------------------------------------------------------
(* Properties. *)

\* P_fsm writes m_buf[m_buf_size] only inside the array, in both of the
\* states that write, whatever comes over the wire.
WritesInBounds ==
  /\ Len(m_buf) <= GCOMMBASE_BUF_SIZE
  /\ m_state = "S2_GET_LO" => Len(m_buf) < GCOMMBASE_BUF_SIZE

\* A fault costs at most the frame it touches and the next one (whose start
\* may be taken for a bad digit): every other frame that fits the buffers is
\* received.  Frames too long and stray terminators cost the others nothing.
FaultCostsTwoFrames ==
  \A n \in 1..written :
    (/\ {n - 1, n} \cap hit = {}
     /\ \A i \in DOMAIN wire : wire[i].of # n
     /\ Fits(Payloads[n])) => Payloads[n] \in Range(got)

\* The reader as a whole: its state is sound and it finds the frames again.
FramesSurvive == CommTypeOK /\ FaultCostsTwoFrames

\* The readers get frames that were sent, in order, none twice: the check sum
\* stops what the faults have made of the others.
LastGot == Max({0} \cup {n \in DOMAIN Payloads : Payloads[n] \in Range(got)})

Channel == INSTANCE FrameChannel
  WITH Frames <- Range(Payloads), inflight <- SubSeq(Payloads, LastGot + 1, written)

ImplementsFrameChannel == Channel!Spec

=============================================================================
