----------------------------- MODULE PidRecurrent -----------------------------
(***************************************************************************)
(* nostd::PidRecurrent over fixed-point numbers: what was asked of the     *)
(* motor last, and the last two errors.  Gains are <<Kp, Ki, Kd>>.         *)
(***************************************************************************)
EXTENDS Fixed

NewPid == [K |-> <<0, 0, 0>>, u_prev |-> 0, error_1 |-> 0, error_2 |-> 0]

PidReset(pid) == [pid EXCEPT !.u_prev = 0, !.error_1 = 0, !.error_2 = 0]

\* KpSet, KiSet and KdSet.
PidGains(pid, K) == [pid EXCEPT !.K = K]

\* The regulator after one calculation; u_prev is what it returns.
PidCalculate(pid, setpoint, processVariable) ==
  LET error == FIXED_SUB(setpoint, processVariable)
      P == FIXED_MUL(pid.K[1], FIXED_SUB(error, pid.error_1))
      I == FIXED_ADD(pid.u_prev, FIXED_MUL(pid.K[2], error))
      D == FIXED_MUL(pid.K[3],
             FIXED_ADD(FIXED_SUB(error, FIXED_ADD(pid.error_1, pid.error_1)), pid.error_2))
  IN  [pid EXCEPT !.u_prev = FIXED_ADD(FIXED_ADD(P, I), D),
                  !.error_2 = pid.error_1, !.error_1 = error]
=============================================================================
