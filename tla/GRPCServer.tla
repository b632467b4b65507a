------------------------------ MODULE GRPCServer ------------------------------
(***************************************************************************)
(* How GRPCServer takes a request apart and refuses a malformed one.       *)
(* A frame is [func, argc, words]: the number of the function, the amount  *)
(* it says and the whole words that follow, which may be fewer or more.    *)
(* Frames too short to say as much have func or argc = Absent.  The        *)
(* identification of the request goes back with its reply and is left out. *)
(***************************************************************************)
EXTENDS Integers, Sequences

CONSTANTS
  Funcs,     \* m_func_num: functions registered
  ArgvSize,  \* GRPCSERVER_ARGV_SIZE
  Absent

ASSUME GRPCServerAssumption ==
  Funcs \in Nat /\ ArgvSize \in Nat \ {0} /\ Absent \notin Nat

\* P_decode up to the arguments.
HeadIsGood(frame) ==
  /\ frame.func # Absent /\ frame.func < Funcs
  /\ frame.argc # Absent /\ frame.argc <= ArgvSize

Decodes(frame) == HeadIsGood(frame) /\ Len(frame.words) >= frame.argc

\* The buffer of the arguments afterwards: it is filled word by word and keeps
\* what was there where the frame has nothing, also when the frame is refused.
ArgvAfter(argv, frame) ==
  IF HeadIsGood(frame)
  THEN [i \in 1..ArgvSize |-> IF i <= frame.argc /\ i <= Len(frame.words)
                              THEN frame.words[i] ELSE argv[i]]
  ELSE argv
=============================================================================
