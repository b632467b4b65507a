--------------------------------- MODULE Fan ----------------------------------
(***************************************************************************)
(* The analysis of a row of measured values in pid/fan.cpp, as far as the  *)
(* window uses it: which points are extreme, and how far apart they are.   *)
(* Points are numbered from 1.                                             *)
(***************************************************************************)
EXTENDS Integers, Sequences

\* pointsCompare, plus one.
pointsCompare(a, b) == IF a < b THEN 0 ELSE IF a = b THEN 1 ELSE 2

\* pointsOriginsGet: the table.
OriginsTable ==
  <<"MONOTONICALLY_GROWING", "NON_MONOTONICALLY_GROWING", "MIDDLE_MAXIMUM",
    "NON_MONOTONICALLY_GROWING", "NON_DECREASING_NON_GROWING", "NON_MONOTONICALLY_DECREASING",
    "MIDDLE_MINIMUM", "NON_MONOTONICALLY_DECREASING", "MONOTONICALLY_DECREASING">>
pointsOriginsGet(p) ==
  OriginsTable[3 * pointsCompare(p[1], p[2]) + pointsCompare(p[2], p[3]) + 1]

\* Extreme::setMin and setMax: the first of the least, and of the greatest.
MinIndex(v) == CHOOSE i \in DOMAIN v : \A j \in DOMAIN v : v[i] < v[j] \/ (v[i] = v[j] /\ i <= j)
MaxIndex(v) == CHOOSE i \in DOMAIN v : \A j \in DOMAIN v : v[i] > v[j] \/ (v[i] = v[j] /\ i <= j)

\* The points in the middle of three that are of this kind.
Middles(v, origin) ==
  {i \in 2..(Len(v) - 1) : pointsOriginsGet(SubSeq(v, i - 1, i + 1)) = origin}

\* Mutant: a local extreme takes the place of the global one.
functionAnalysis_LocalsLast(v) ==
  LET mins == Middles(v, "MIDDLE_MINIMUM")
      maxs == Middles(v, "MIDDLE_MAXIMUM")
  IN  [i \in mins \cup maxs \cup (IF v = << >> THEN {} ELSE {MinIndex(v), MaxIndex(v)}) |->
         IF i \in mins THEN "LOCAL_MINIMUM" ELSE IF i \in maxs THEN "LOCAL_MAXIMUM"
         ELSE IF i = MaxIndex(v) THEN "GLOBAL_MAXIMUM" ELSE "GLOBAL_MINIMUM"]

\* functionAnalysis: the points marked.  The global ones are marked last, the
\* maximum after the minimum, in the same map.
functionAnalysis(v) ==
  LET mins == Middles(v, "MIDDLE_MINIMUM")
      maxs == Middles(v, "MIDDLE_MAXIMUM")
  IN  [i \in mins \cup maxs \cup (IF v = << >> THEN {} ELSE {MinIndex(v), MaxIndex(v)}) |->
         IF i = MaxIndex(v) THEN "GLOBAL_MAXIMUM"
         ELSE IF i = MinIndex(v) THEN "GLOBAL_MINIMUM"
         ELSE IF i \in mins THEN "LOCAL_MINIMUM" ELSE "LOCAL_MAXIMUM"]

\* functionExtremumsGet, and P_tickEventCommon's value at what it finds; 0 if
\* it finds nothing.
ValueMarked(v, mark) ==
  LET marks == functionAnalysis(v)
  IN  IF \E i \in DOMAIN marks : marks[i] = mark
      THEN v[CHOOSE i \in DOMAIN marks : marks[i] = mark] ELSE 0

Amplitude(v) == ValueMarked(v, "GLOBAL_MAXIMUM") - ValueMarked(v, "GLOBAL_MINIMUM")
=============================================================================
