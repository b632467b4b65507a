------------------------------- MODULE PIDGains -------------------------------
(***************************************************************************)
(* The gains on both ends: the boxes of the PC tool, the regulator of its  *)
(* simulation, which takes them as fixed-point numbers, and the regulator  *)
(* of the device, which is read from and written to over the link.         *)
(*                                                                         *)
(* A box holds a whole number of its last decimals; raw values are the     *)
(* fixed-point numbers.  Requests and replies keep their order, and any of *)
(* them may be lost or given up (modules GCommBase, DeviceLink).  What the *)
(* tool does on the reply to a write changes nothing here.                 *)
(***************************************************************************)
EXTENDS Integers, Sequences

CONSTANTS
  Gains,         \* Kp, Ki, Kd
  Typed,         \* what a user types, in units of the boxes
  StoredGains,   \* raw gains the device may start with
  Decimals,      \* units of a box in 1
  FracUnit,      \* units of the fixed-point number in 1
  MaxGain,       \* PIDK_SELECTION_MAX, of either sign
  MaxUnderWay    \* requests and replies on the line: a bound of the model

BoxValues == (-MaxGain * Decimals)..(MaxGain * Decimals)

\* The decimals of the boxes are finer than the fraction.
ASSUME GainsAssumption ==
  /\ FracUnit \in Nat \ {0} /\ Decimals \in Nat /\ Decimals >= FracUnit
  /\ MaxGain \in Nat /\ MaxUnderWay \in Nat
  /\ Typed \subseteq BoxValues
  /\ StoredGains \subseteq [Gains -> Int]

VARIABLES
  K,          \* the boxes of CPIDK
  m_pid,      \* the raw gains of the tool's regulator
  m_koef,     \* the device's m_Kp, m_Ki and m_Kd
  to_device,  \* requests on their way
  to_tool     \* replies to reads, on their way back

\* The model's own record: something has come between the two ends since they
\* last agreed.
VARIABLE apart

gainVars == <<K, m_pid, m_koef, to_device, to_tool, apart>>

-----------------------------------------------------------------------------
Read == [func |-> "FUNC_02_KOEF_R", gains |-> [k \in Gains |-> 0]]
Write(gains) == [func |-> "FUNC_03_KOEF_W", gains |-> gains]
IsWrite(request) == request.func = "FUNC_03_KOEF_W"
WriteIn(requests) == \E i \in DOMAIN requests : IsWrite(requests[i])

\* FIXED__FROM_DOUBLE cuts the fraction off.
FromDouble(x) ==
  IF x >= 0 THEN (x * FracUnit) \div Decimals ELSE -((-x * FracUnit) \div Decimals)
Converted(boxes) == [k \in Gains |-> FromDouble(boxes[k])]

\* The box a raw value is set in: limited, and rounded to the nearest decimal, a
\* tie either way.
Limited(raw) ==
  IF raw > MaxGain * FracUnit THEN MaxGain * FracUnit
  ELSE IF raw < -MaxGain * FracUnit THEN -MaxGain * FracUnit
  ELSE raw
Shown(raw) ==
  {x \in BoxValues : LET off == 2 * (x * FracUnit - Limited(raw) * Decimals)
                     IN  -FracUnit <= off /\ off <= FracUnit}

\* After the constructor, which sets the boxes; the device is unknown.
GainsInit ==
  /\ K \in [Gains -> Typed] /\ m_pid = Converted(K)
  /\ m_koef \in StoredGains
  /\ to_device = << >> /\ to_tool = << >>
  /\ apart = TRUE

-----------------------------------------------------------------------------
\* Mutant: the boxes are set with their signals blocked.
SetBoxes_Silently(boxes) == K' = boxes /\ UNCHANGED m_pid

\* Setting boxes: each that changes tells all three gains, and pidK_changed gives
\* them to the regulator; a box that does not change tells nothing.
SetBoxes(boxes) ==
  /\ K' = boxes
  /\ m_pid' = IF boxes # K THEN Converted(boxes) ELSE m_pid

\* One box, by typing or by one of the buttons that try a value.
BoxChanged(k, x) ==
  /\ x # K[k]
  /\ SetBoxes([K EXCEPT ![k] = x])
  /\ apart' = TRUE
  /\ UNCHANGED <<m_koef, to_device, to_tool>>

\* By the button, or on connecting.
P_rpc_request_02_koef_r ==
  /\ Len(to_device) + Len(to_tool) < MaxUnderWay
  /\ to_device' = Append(to_device, Read)
  /\ UNCHANGED <<K, m_pid, m_koef, to_tool, apart>>

\* The button writes what the boxes hold, converted as pidK_changed does.
P_rpc_request_03_koef_w ==
  /\ Len(to_device) + Len(to_tool) < MaxUnderWay
  /\ to_device' = Append(to_device, Write(Converted(K)))
  /\ apart' = FALSE
  /\ UNCHANGED <<K, m_pid, m_koef, to_tool>>

\* A reply that is neither late nor an error.  One that tells of gains the device
\* no longer has, or will not have when the next write arrives, parts the ends.
P_dev_ready_pidKoefRead ==
  /\ to_tool # << >> /\ to_tool' = Tail(to_tool)
  /\ \E boxes \in [Gains -> UNION {Shown(Head(to_tool).gains[k]) : k \in Gains}] :
       /\ \A k \in Gains : boxes[k] \in Shown(Head(to_tool).gains[k])
       /\ SetBoxes(boxes)
  /\ apart' = (~Head(to_tool).fresh \/ WriteIn(to_device))
  /\ UNCHANGED <<m_koef, to_device>>

-----------------------------------------------------------------------------
\* The replies on their way tell of gains that are no longer the device's.
Outdated == to_tool' = [i \in DOMAIN to_tool |-> [to_tool[i] EXCEPT !.fresh = FALSE]]

P_rpc_func_02_koef_r ==
  /\ to_device # << >> /\ ~IsWrite(Head(to_device))
  /\ to_device' = Tail(to_device)
  /\ to_tool' = Append(to_tool, [gains |-> m_koef, fresh |-> TRUE])
  /\ UNCHANGED <<K, m_pid, m_koef, apart>>

\* Only the third service mode takes gains.
P_rpc_func_03_koef_w ==
  /\ to_device # << >> /\ IsWrite(Head(to_device))
  /\ to_device' = Tail(to_device)
  /\ \/ m_koef' = Head(to_device).gains /\ Outdated /\ UNCHANGED apart
     \/ apart' = (apart \/ ~WriteIn(Tail(to_device))) /\ UNCHANGED <<m_koef, to_tool>>
  /\ UNCHANGED <<K, m_pid>>

\* The device starts anew, with stored gains or those it was built with.
DeviceStarts ==
  /\ m_koef' \in StoredGains /\ Outdated
  /\ apart' = (apart \/ ~WriteIn(to_device))
  /\ UNCHANGED <<K, m_pid, to_device>>

RequestLost ==
  /\ to_device # << >> /\ to_device' = Tail(to_device)
  /\ apart' = (apart \/ (IsWrite(Head(to_device)) /\ ~WriteIn(Tail(to_device))))
  /\ UNCHANGED <<K, m_pid, m_koef, to_tool>>

ReplyLost ==
  /\ to_tool # << >> /\ to_tool' = Tail(to_tool)
  /\ UNCHANGED <<K, m_pid, m_koef, to_device, apart>>

GainsNext ==
  \/ \E k \in Gains, x \in Typed : BoxChanged(k, x)
  \/ P_rpc_request_02_koef_r \/ P_rpc_request_03_koef_w \/ P_dev_ready_pidKoefRead
  \/ P_rpc_func_02_koef_r \/ P_rpc_func_03_koef_w \/ DeviceStarts
  \/ RequestLost \/ ReplyLost

GainsSpec == GainsInit /\ [][GainsNext]_gainVars

-----------------------------------------------------------------------------
TowardZero(raw) == IF raw > 0 THEN raw - 1 ELSE IF raw < 0 THEN raw + 1 ELSE 0

\* Once a write has arrived or a read has been answered, and nothing has come
\* between, the simulated regulator works with the device's gains, but for the
\* limit of the boxes and for one unit: eight decimals are rounded to from the
\* fraction and cut back to it.  Whatever was lost, overtaken or refused before
\* does not matter.
GainsInStep ==
  ~apart /\ ~WriteIn(to_device) =>
    \A k \in Gains : m_pid[k] \in {Limited(m_koef[k]), TowardZero(Limited(m_koef[k]))}

\* What makes it so: the last write on its way carries the regulator's gains,
\* and a reply still true tells the device's.
LastWriteIs(requests, gains) ==
  \A i \in DOMAIN requests :
    IsWrite(requests[i]) /\ (\A j \in DOMAIN requests : j > i => ~IsWrite(requests[j]))
      => requests[i].gains = gains

InStepInv ==
  /\ GainsInStep
  /\ m_pid = Converted(K)
  /\ ~apart => LastWriteIs(to_device, m_pid)
  /\ \A i \in DOMAIN to_tool : to_tool[i].fresh => to_tool[i].gains = m_koef
=============================================================================
