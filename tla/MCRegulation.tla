----------------------------- MODULE MCRegulation -----------------------------
(***************************************************************************)
(* Numbers of 8 bits in bytes of 2, with 2 bits of fraction.  A pulse in a *)
(* period of 3/2 seconds is 5/3 rpm, as in the firmware.  Gains: those of  *)
(* the firmware, which are the default; some with an integral part so      *)
(* large that the control wraps; and those that look like an erased memory.*)
(***************************************************************************)
EXTENDS Regulation

MCDefaultGains == <<3, 1, 1>>
MCFreeSpeeds == {-126, 30}
MCGains == {<<-2, 100, 5>>, <<-1, -1, -1>>}

\* Three words of six, a seventh, one argument for six, more than there is room for, one
\* argument said and none sent, a function that is none, a frame cut off before its amount.
MCOthers ==
  {[func |-> 3, argc |-> 6, words |-> SubSeq(WordsOf(<<-2, 100, 5>>), 1, 3)],
   [func |-> 3, argc |-> 6, words |-> Append(WordsOf(<<-2, 100, 5>>), 15)],
   [func |-> 3, argc |-> 1, words |-> <<15>>],
   [func |-> 2, argc |-> 9, words |-> << >>],
   [func |-> 9, argc |-> 1, words |-> << >>],
   [func |-> 10, argc |-> 0, words |-> << >>],
   [func |-> 5, argc |-> Absent, words |-> << >>]}

\* Bound: once a store has been asked for, the motor rests, nothing is measured and nothing streamed, and no
\* frame comes but those that ask for gains and a store.
MCApart ==
  kept # DefaultGains \/ torn \/ storing # StoreIdle =>
    /\ mode \in Stopped /\ m_speed_SP_free = 0 /\ setpoint = 0
    /\ errs = << >> /\ heard = 0 /\ m_speed_PV = 0 /\ output = 0
    /\ ~m_permanent_process_send
    /\ sent.resv = << >>
    /\ SubSeq(m_argv, 1, 6) \in {WordsOf(K) : K \in Gains \cup {<<0, 0, 0>>}}

\* Bound: a store that is cut and then followed by others is cut in its
\* second value, and gains that come of a cut are not stored again.
MCCuts ==
  /\ storing # StoreIdle => m_K \in AllGains
  /\ torn => \E old, new \in AllGains :
               \A i \in Cells :
                 i >= storing \/ storing = StoreIdle =>
                   eeprom[i] = ConfOf(IF i < 7 THEN new ELSE old)[i]
=============================================================================
