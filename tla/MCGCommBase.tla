---------------------------- MODULE MCGCommBase -----------------------------
(***************************************************************************)
(* Four frames, the third too long for the small buffer; the codes of ":"  *)
(* and LF occur as data.                                                   *)
(***************************************************************************)
EXTENDS GCommBase

MCPayloads == << <<1>>, <<58, 255>>, <<0, 0, 17>>, <<10>> >>
\* '0', 'f', ':', LF, and a character no frame has.
MCNoise == {48, 102, Colon, LF, 63}
=============================================================================
