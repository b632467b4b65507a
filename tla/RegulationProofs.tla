--------------------------- MODULE RegulationProofs ---------------------------
(***************************************************************************)
(* What the firmware takes in and what it makes of it: the levels of its   *)
(* debounced inputs, the mean of its potentiometer, and the gains of its   *)
(* regulator, on the line, at work and in the EEPROM.                      *)
(***************************************************************************)
EXTENDS Sketch, Regulation, ListProofs, SequenceTheorems, TLAPS

(***************************************************************************)
(* What the debounced input promises, for every clock width, debounce time *)
(* and length of an iteration that InputAssumption allows.                 *)
(*                                                                         *)
(* ToldInTime is not inductive: the code knows the age of a level only as  *)
(* a difference of two wrapped times.  LastTimeIsChange says that this     *)
(* difference is the age, as long as the age is less than one turn of the  *)
(* clock, and a level not told yet is far younger than that.               *)
(***************************************************************************)

\* The difference of two times is the age while the clock moves on, and the
\* signed difference is that age for less than half a turn.
LEMMA MinusLater ==
  ASSUME NEW t \in Millis, NEW u \in Millis, NEW step \in 0..MaxStep,
         Minus(t, u) + step < MillisMod
  PROVE  Minus(Later(t, step), u) = Minus(t, u) + step
  BY InputAssumption DEF Millis, Minus, Later

LEMMA MinusSelf ==
  ASSUME NEW t \in Millis
  PROVE  Minus(t, t) = 0
  BY InputAssumption DEF Millis, Minus

LEMMA LaterType ==
  ASSUME NEW t \in Millis, NEW step \in 0..MaxStep
  PROVE  Later(t, step) \in Millis
  BY InputAssumption DEF Millis, Later

\* A level not told is judged by its true age.
LEMMA DtIsAge ==
  ASSUME InputInv, NEW step \in 0..MaxStep, held <= DebounceTime
  PROVE  Dt(Later(time_current, step)) = held + step
  <1>1. held \in Nat /\ held + step < MillisMod /\ 2 * (held + step) < MillisMod
    BY InputAssumption DEF InputInv, InputTypeOK
  <1>2. Minus(time_current, m_debounceLastTime) = held
    BY <1>1, InputAssumption DEF InputInv, LastTimeIsChange
  <1>3. Minus(Later(time_current, step), m_debounceLastTime) = held + step
    BY <1>1, <1>2, MinusLater DEF InputInv, InputTypeOK
  <1>4. ~(Signed(held + step) < 0)
    BY <1>1, InputAssumption DEF Signed
  <1> QED
    BY <1>3, <1>4 DEF Dt

\* One sample keeps the invariant.
LEMMA SampleKeepsInputInv ==
  ASSUME InputInv, NEW state \in BOOLEAN, NEW step \in 0..MaxStep, Sample(state, step)
  PROVE  InputInv'
  <1> DEFINE t == Later(time_current, step)
  <1>t. t \in Millis /\ time_current' = t
    BY LaterType DEF InputInv, InputTypeOK, Sample
  <1> HIDE DEF t
  <1>1. CASE state # m_bouncedStatePrev
    <2>1. /\ m_debounceLastTime' = t /\ m_bouncedStatePrev' = state
          /\ m_state_prev' = m_state_prev /\ held' = 0
      BY <1>1 DEF Sample, stateSet, t
    <2>2. InputTypeOK'
      BY <2>1, <1>t, InputAssumption DEF InputInv, InputTypeOK
    <2>3. LastTimeIsChange'
      BY <2>1, <1>t, MinusSelf DEF LastTimeIsChange, Minus
    <2>4. ToldInTime'
      BY <2>1, InputAssumption DEF ToldInTime
    <2> QED
      BY <2>2, <2>3, <2>4 DEF InputInv
  <1>2. CASE state = m_bouncedStatePrev
    <2>1. /\ m_debounceLastTime' = m_debounceLastTime
          /\ m_bouncedStatePrev' = m_bouncedStatePrev
          /\ m_state_prev' = IF Dt(t) > DebounceTime THEN state ELSE m_state_prev
          /\ held' = IF held + step < MillisMod THEN held + step ELSE MillisMod
      BY <1>2 DEF Sample, stateSet, t
    <2>2. InputTypeOK'
      BY <2>1, <1>t, InputAssumption DEF InputInv, InputTypeOK
    <2>3. LastTimeIsChange'
      <3>1. SUFFICES ASSUME held' < MillisMod
                     PROVE  Minus(t, m_debounceLastTime) = held'
        BY <2>1, <1>t DEF LastTimeIsChange, Minus
      <3>2. held' = held + step /\ held < MillisMod
        BY <3>1, <2>1, InputAssumption DEF InputInv, InputTypeOK
      <3>3. Minus(time_current, m_debounceLastTime) = held
        BY <3>2 DEF InputInv, LastTimeIsChange
      <3> QED
        BY <3>1, <3>2, <3>3, MinusLater DEF InputInv, InputTypeOK, t
    <2>4. ToldInTime'
      <3>1. CASE m_state_prev = m_bouncedStatePrev
        BY <3>1, <2>1, <1>2 DEF ToldInTime
      <3>2. CASE m_state_prev # m_bouncedStatePrev
        <4>1. held <= DebounceTime
          BY <3>2 DEF InputInv, ToldInTime
        <4>2. Dt(t) = held + step
          BY <4>1, DtIsAge DEF t
        <4>3. held' = held + step
          BY <4>1, <2>1, InputAssumption DEF InputInv, InputTypeOK
        <4> QED
          BY <4>2, <4>3, <2>1, <1>2, InputAssumption DEF ToldInTime, InputInv, InputTypeOK
      <3> QED
        BY <3>1, <3>2
    <2> QED
      BY <2>2, <2>3, <2>4 DEF InputInv
  <1> QED
    BY <1>1, <1>2

LEMMA InitInputInv == SketchInit => InputInv
  <1> SUFFICES ASSUME InputInit PROVE InputInv
    BY DEF SketchInit
  <1>1. 0 \in Millis /\ 0 \in 0..MillisMod
    BY InputAssumption DEF Millis
  <1>2. InputTypeOK
    BY <1>1 DEF InputInit, InputTypeOK
  <1>3. LastTimeIsChange
    BY <1>1, MinusSelf DEF InputInit, LastTimeIsChange
  <1>4. ToldInTime
    BY DEF InputInit, ToldInTime
  <1> QED
    BY <1>2, <1>3, <1>4 DEF InputInv

LEMMA NextInputInv == InputInv /\ [SketchNext]_sketchVars => InputInv'
  <1> SUFFICES ASSUME InputInv, [SketchNext]_sketchVars PROVE InputInv'
    OBVIOUS
  <1>1. CASE \E state \in BOOLEAN, step \in 0..MaxStep, value \in Values :
               loop(state, step, value)
    BY <1>1, SampleKeepsInputInv DEF loop
  <1>2. CASE UNCHANGED inputVars
    BY <1>2 DEF inputVars, InputInv, InputTypeOK, LastTimeIsChange, ToldInTime, Minus
  <1> QED
    BY <1>1, <1>2 DEF SketchNext, FactorSet, sketchVars

\* A level is told by the first sample after the debounce time, for every width
\* of the clock: the invariant that relates the wrapped times to the real age.
THEOREM LevelsAreToldInTime == SketchSpec => []InputInv
  BY InitInputInv, NextInputInv, PTL DEF SketchSpec

\* No handler is called for a level the samples have shown for less than the
\* debounce time.
THEOREM ToldLevelsAreStable == SketchSpec => ToldOnlyIfStable
  <1>1. ASSUME InputInv, [SketchNext]_sketchVars, m_state_prev' # m_state_prev
        PROVE  m_state_prev' = m_bouncedStatePrev /\ held' > DebounceTime
    <2>1. PICK state \in BOOLEAN, step \in 0..MaxStep : Sample(state, step)
      BY <1>1 DEF SketchNext, FactorSet, loop, sketchVars, inputVars
    <2>2. /\ state = m_bouncedStatePrev
          /\ Dt(Later(time_current, step)) > DebounceTime
          /\ m_state_prev' = state
          /\ held' = IF held + step < MillisMod THEN held + step ELSE MillisMod
      BY <1>1, <2>1 DEF Sample, stateSet
    <2>3. held <= DebounceTime
      BY <1>1, <2>2 DEF InputInv, ToldInTime
    <2>4. Dt(Later(time_current, step)) = held + step
      BY <1>1, <2>3, DtIsAge
    <2> QED
      BY <1>1, <2>2, <2>3, <2>4, InputAssumption DEF InputInv, InputTypeOK
  <1>2. InputInv /\ [SketchNext]_sketchVars =>
          [m_state_prev' # m_state_prev =>
             /\ m_state_prev' = m_bouncedStatePrev
             /\ held' > DebounceTime]_inputVars
    BY <1>1
  <1> QED
    BY <1>2, LevelsAreToldInTime, PTL DEF SketchSpec, ToldOnlyIfStable

-----------------------------------------------------------------------------
(***************************************************************************)
(* The average of the potentiometer, for every length of the window, every *)
(* range of samples and every width of int that AverageAssumption allows.  *)
(*                                                                         *)
(* MeanFollows is not inductive: the mean is between the samples as long   *)
(* as the weight is not above the length, and the code bounds the weight   *)
(* nowhere.  WeightTold says that it is the number of last samples that    *)
(* agree until there is a whole window of them; from then on the mean is   *)
(* the sample, and the weight, even wrapped, does not matter.              *)
(***************************************************************************)

WeightTold ==
  m_factor > 0 =>
    /\ m_len <= m_factor
    /\ m_len > 0 => low <= high
    /\ same < m_factor => m_value_weight = same /\ same <= m_len

AverageInv == MeanFollows /\ WeightTold

\* Products that order keeps.
LEMMA ProductOrder ==
  ASSUME NEW x \in Nat, NEW y \in Nat, NEW n \in Nat, x <= y
  PROVE  x * n <= y * n /\ n * x <= n * y /\ x * n \in Nat /\ y * n \in Nat
  OBVIOUS

\* The mean of two numbers, whatever their weights, is between their bounds.
LEMMA WeightedMean ==
  ASSUME NEW x \in Nat, NEW y \in Nat, NEW l \in Nat, NEW h \in Nat,
         l <= x, l <= y, x <= h, y <= h,
         NEW a \in Nat, NEW b \in Nat, NEW n \in Nat \ {0}, a + b = n
  PROVE  /\ x * a + y * b \in Nat
         /\ x * a + y * b <= h * n
         /\ l <= (x * a + y * b) \div n /\ (x * a + y * b) \div n <= h
  <1>1. l * a <= x * a /\ x * a <= h * a /\ x * a \in Nat /\ l * a \in Nat /\ h * a \in Nat
    BY ProductOrder
  <1>2. l * b <= y * b /\ y * b <= h * b /\ y * b \in Nat /\ l * b \in Nat /\ h * b \in Nat
    BY ProductOrder
  <1>3. l * n = l * a + l * b /\ h * n = h * a + h * b
    OBVIOUS
  <1> DEFINE s == x * a + y * b
  <1>4. s \in Nat /\ l * n <= s /\ s <= h * n
    BY <1>1, <1>2, <1>3
  <1> HIDE DEF s
  <1> DEFINE q == s \div n
  <1>5. q \in Nat /\ q * n <= s /\ s < (q + 1) * n
    BY <1>4
  <1> HIDE DEF q
  <1>6. l <= q
    <2> SUFFICES ASSUME q + 1 <= l PROVE FALSE
      BY <1>5
    <2>1. (q + 1) * n <= l * n
      BY <1>5, ProductOrder
    <2> QED
      BY <1>4, <1>5, <2>1
  <1>7. q <= h
    <2> SUFFICES ASSUME h + 1 <= q PROVE FALSE
      BY <1>5
    <2>1. (h + 1) * n <= q * n
      BY <1>5, ProductOrder
    <2>2. (h + 1) * n = h * n + n
      OBVIOUS
    <2> QED
      BY <1>4, <1>5, <2>1, <2>2
  <1> QED
    BY <1>4, <1>6, <1>7 DEF s, q

\* Sums of at most a whole window of the greatest sample fit an int.
LEMMA AsIntExact ==
  ASSUME NEW h \in Values, NEW n \in Factors, NEW x \in Nat, x <= h * n
  PROVE  AsInt(x) = x
  <1>1. ValueMax \in Nat /\ FactorMax \in Nat /\ IntMod \in Nat /\ 2 * FactorMax * ValueMax < IntMod
    BY AverageAssumption
  <1>2. h \in Nat /\ h <= ValueMax /\ n \in Nat /\ n <= FactorMax
    BY <1>1 DEF Values, Factors
  <1>3. h * n <= ValueMax * n /\ ValueMax * n <= ValueMax * FactorMax
    BY <1>1, <1>2, ProductOrder
  <1>4. h * n \in Nat /\ ValueMax * n \in Nat /\ ValueMax * FactorMax \in Nat
    BY <1>1, <1>2, ProductOrder
  <1>5. 2 * (ValueMax * FactorMax) = 2 * FactorMax * ValueMax
    BY <1>1
  <1>6. 2 * x < IntMod
    BY <1>1, <1>3, <1>4, <1>5
  <1>7. x % IntMod = x
    BY <1>1, <1>6
  <1> QED
    BY <1>6, <1>7 DEF AsInt

\* The new mean, if the weight is within the length.
LEMMA MeanWithin ==
  ASSUME NEW l \in Values, NEW h \in Values, NEW v \in Values, m_mean \in Values,
         l <= m_mean, m_mean <= h, l <= v, v <= h,
         Length \in Factors \ {0}, Weight(v) \in 1..Length
  PROVE  l <= Mean(v) /\ Mean(v) <= h /\ Mean(v) \in Int
  <1> DEFINE n == Length
             b == Weight(v)
             a == n - b
             s == m_mean * a + v * b
  <1>1. /\ l \in Nat /\ h \in Nat /\ v \in Nat /\ m_mean \in Nat
        /\ n \in Nat \ {0} /\ b \in Nat /\ a \in Nat /\ a + b = n
    BY AverageAssumption DEF Values, Factors
  <1>2. n \in Factors /\ Mean(v) = DivC(AsInt(s), n)
    BY DEF Mean
  <1> HIDE DEF n, b, a
  <1>3. s \in Nat /\ s <= h * n /\ l <= s \div n /\ s \div n <= h
    BY <1>1, WeightedMean
  <1> HIDE DEF s
  <1>4. AsInt(s) = s
    BY <1>2, <1>3, AsIntExact
  <1>5. Mean(v) = s \div n
    BY <1>2, <1>3, <1>4 DEF DivC
  <1> QED
    BY <1>1, <1>3, <1>5

\* A mean that is the value stays, whatever the weight.
LEMMA MeanStays ==
  ASSUME NEW v \in Values, m_mean = v, Length \in Factors \ {0}, Weight(v) \in Nat
  PROVE  Mean(v) = v
  <1> DEFINE n == Length
             b == Weight(v)
  <1>1. v \in Nat /\ n \in Nat \ {0} /\ b \in Nat /\ n \in Factors
    BY AverageAssumption DEF Values, Factors
  <1>2. Mean(v) = DivC(AsInt(v * (n - b) + v * b), n)
    BY DEF Mean
  <1> HIDE DEF n, b
  <1>3. v * (n - b) + v * b = v * n
    BY <1>1
  <1>4. v * n \in Nat /\ (v * n) \div n = v
    BY <1>1
  <1>5. AsInt(v * n) = v * n
    BY <1>1, <1>4, AsIntExact
  <1> QED
    BY <1>2, <1>3, <1>4, <1>5 DEF DivC

\* One sample keeps the invariant.
LEMMA AppendKeeps ==
  ASSUME AverageInv, NEW v \in Values, appendValue(v)
  PROVE  AverageInv'
  <1>1. /\ FactorMax \in Nat \ {0} /\ ValueMax \in Nat
        /\ WeightMod \in Nat /\ FactorMax < WeightMod /\ 1 < WeightMod
        /\ Values \subseteq Nat /\ Factors \subseteq Nat
        /\ 0 \in Values /\ ValueMax \in Values /\ 0 \in Factors
    BY AverageAssumption DEF Values, Factors
  <1>2. AverageTypeOK /\ MeanBetween /\ MeanSettles /\ WeightTold
    BY DEF AverageInv, MeanFollows
  <1>3. /\ low' \in Values /\ high' \in Values /\ same' \in Factors /\ m_factor' = m_factor
        /\ low' <= v /\ v <= high' /\ low' <= low /\ high <= high'
    <2>1. same' \in Factors
      BY <1>1, <1>2 DEF appendValue, AverageTypeOK, Factors
    <2> QED
      BY <1>1, <1>2, <2>1 DEF appendValue, AverageTypeOK, Values
  <1>4. CASE m_factor = 0
    <2>1. /\ m_mean' = v /\ m_len' = 0 /\ m_value_prev' = m_value_prev
          /\ m_value_weight' = m_value_weight
      BY <1>4 DEF appendValue
    <2> QED
      BY <1>1, <1>2, <1>3, <1>4, <2>1
      DEF AverageInv, MeanFollows, AverageTypeOK, MeanBetween, MeanSettles, WeightTold
  <1>5. CASE m_factor > 0
    <2> DEFINE n == Length
               w == Weight(v)
    <2>1. /\ m_mean' = Mean(v) /\ m_len' = n /\ m_value_weight' = w /\ m_value_prev' = v
      BY <1>1, <1>2, <1>5 DEF appendValue, AverageTypeOK
    <2>2. /\ n \in Factors \ {0} /\ n <= m_factor /\ m_len <= n
          /\ (n = m_len + 1 \/ n = m_factor)
      BY <1>1, <1>2, <1>5 DEF Length, AverageTypeOK, WeightTold, Factors
    <2>3. w \in 0..(WeightMod - 1)
      <3>1. \A x \in Int : x % WeightMod \in 0..(WeightMod - 1)
        BY <1>1
      <3>2. m_value_weight + 1 \in Int /\ 1 \in 0..(WeightMod - 1)
        BY <1>1, <1>2 DEF AverageTypeOK
      <3> QED
        BY <3>1, <3>2 DEF Weight
    <2>4. CASE v = m_value_prev /\ same >= m_factor
      <3>1. m_mean = v
        BY <1>2, <1>5, <2>4 DEF MeanSettles
      <3>2. Mean(v) = v
        BY <1>1, <2>2, <2>3, <3>1, MeanStays
      <3>3. same' >= m_factor
        BY <1>1, <1>2, <2>4 DEF appendValue, AverageTypeOK, Factors
      <3> QED
        BY <1>1, <1>2, <1>3, <2>1, <2>2, <2>3, <2>4, <3>2, <3>3
        DEF AverageInv, MeanFollows, AverageTypeOK, MeanBetween, MeanSettles, WeightTold
    <2>5. CASE v # m_value_prev \/ same < m_factor
      <3>1. /\ w = same' /\ w \in 1..n
            /\ (m_len = 0 => n = w)
            /\ (same' >= m_factor => n = w)
        <4>1. CASE v # m_value_prev
          <5>1. w = 1 /\ same' = 1
            BY <4>1 DEF Weight, appendValue
          <5>2. m_factor \in Nat /\ n \in Nat \ {0} /\ m_len \in Nat /\ (m_len = 0 => n = 1)
            BY <1>1, <1>2, <1>5, <2>2 DEF AverageTypeOK, Length
          <5> HIDE DEF n, w
          <5> QED
            BY <1>5, <2>2, <5>1, <5>2
        <4>2. CASE v = m_value_prev /\ same < m_factor
          <5>1. m_value_weight = same /\ same <= m_len /\ same \in Nat /\ m_len \in Nat
            BY <1>1, <1>2, <1>5, <4>2 DEF WeightTold, AverageTypeOK
          <5>2. same + 1 \in Nat /\ same + 1 < WeightMod /\ same < FactorMax
            BY <1>1, <1>2, <4>2, <5>1 DEF AverageTypeOK, Factors
          <5>3. w = same + 1 /\ same' = same + 1
            BY <4>2, <5>1, <5>2, <1>1 DEF Weight, appendValue
          <5>4. m_factor \in Nat /\ n \in Nat \ {0} /\ (m_len = 0 => n = 1)
            BY <1>1, <1>2, <1>5, <2>2 DEF AverageTypeOK, Length
          <5> HIDE DEF n, w
          <5> QED
            BY <1>5, <2>2, <4>2, <5>1, <5>3, <5>4
        <4> QED
          BY <2>5, <4>1, <4>2
      <3>2. n = w => Mean(v) = v
        <4> SUFFICES ASSUME n = w PROVE Mean(v) = v
          OBVIOUS
        <4>1. v \in Nat /\ m_mean \in Nat /\ n \in Nat \ {0} /\ v \in Values
          BY <1>1, <1>2, <2>2 DEF AverageTypeOK
        <4>2. n \in Factors
          BY <2>2
        <4>3. Mean(v) = DivC(AsInt(m_mean * (n - n) + v * n), n)
          BY <4>1 DEF Mean
        <4> HIDE DEF n, w
        <4>4. m_mean * (n - n) + v * n = v * n /\ v * n \in Nat /\ (v * n) \div n = v
          BY <4>1
        <4>5. AsInt(v * n) = v * n
          BY <4>1, <4>2, <4>4, AsIntExact
        <4> QED
          BY <4>1, <4>3, <4>4, <4>5 DEF DivC
      <3>3. low' <= Mean(v) /\ Mean(v) <= high' /\ Mean(v) \in Int
        <4>1. CASE n = w
          BY <1>1, <1>3, <3>2, <4>1
        <4>2. CASE n # w
          <5>1. low <= high /\ low <= m_mean /\ m_mean <= high
            BY <1>1, <1>2, <1>5, <3>1, <4>2 DEF WeightTold, MeanBetween, AverageTypeOK
          <5>2. low' <= m_mean /\ m_mean <= high'
            BY <1>1, <1>2, <1>3, <5>1 DEF AverageTypeOK
          <5>3. m_mean \in Values /\ n \in Factors \ {0} /\ w \in 1..n
            BY <1>2, <2>2, <3>1 DEF AverageTypeOK
          <5> QED
            BY <1>3, <5>2, <5>3, MeanWithin
        <4> QED
          BY <4>1, <4>2
      <3>4. Mean(v) \in Values
        BY <1>1, <1>3, <3>3 DEF Values
      <3> HIDE DEF n, w
      <3>5. same' >= m_factor => m_mean' = m_value_prev'
        BY <2>1, <3>1, <3>2
      <3> QED
        BY <1>1, <1>3, <2>1, <2>2, <2>3, <3>1, <3>3, <3>4, <3>5
        DEF AverageInv, MeanFollows, AverageTypeOK, MeanBetween, MeanSettles, WeightTold
    <2> QED
      BY <1>1, <1>2, <2>4, <2>5 DEF AverageTypeOK
  <1> QED
    BY <1>1, <1>2, <1>4, <1>5 DEF AverageTypeOK

LEMMA FactorKeeps ==
  ASSUME AverageInv, NEW factor \in Factors, factorSet(factor)
  PROVE  AverageInv'
  BY AverageAssumption
  DEF AverageInv, MeanFollows, AverageTypeOK, MeanBetween, MeanSettles, WeightTold,
      factorSet, Values, Factors

LEMMA InitAverageInv == SketchInit => AverageInv
  BY AverageAssumption, SketchAssumption
  DEF SketchInit, AverageInit, AverageInv, MeanFollows, AverageTypeOK, MeanBetween, MeanSettles,
      WeightTold, Values, Factors

LEMMA NextAverageInv == AverageInv /\ [SketchNext]_sketchVars => AverageInv'
  <1> SUFFICES ASSUME AverageInv, [SketchNext]_sketchVars PROVE AverageInv'
    OBVIOUS
  <1>1. CASE \E state \in BOOLEAN, step \in 0..MaxStep, value \in Values :
               loop(state, step, value)
    BY <1>1, AppendKeeps DEF loop
  <1>2. CASE \E factor \in Factors : FactorSet(factor)
    BY <1>2, FactorKeeps DEF FactorSet
  <1>3. CASE UNCHANGED sketchVars
    BY <1>3 DEF sketchVars, averageVars, AverageInv, MeanFollows, AverageTypeOK, MeanBetween,
                MeanSettles, WeightTold
  <1> QED
    BY <1>1, <1>2, <1>3 DEF SketchNext

\* The mean is never outside the samples, and is the sample once that has lasted
\* for the window: neither overflow of an int nor the wrap of the weight harms it.
THEOREM MeanFollowsHolds == SketchSpec => []MeanFollows
  <1>1. AverageInv => MeanFollows
    BY DEF AverageInv
  <1> QED
    BY <1>1, InitAverageInv, NextAverageInv, PTL DEF SketchSpec

-----------------------------------------------------------------------------
(***************************************************************************)
(* Numbers as words and bytes: what is taken apart is put together again,  *)
(* for every width.                                                        *)
(***************************************************************************)

\* The quotient is the number whose multiple is the last not above.
LEMMA DivIs ==
  ASSUME NEW y \in Nat, NEW n \in Nat \ {0}, NEW q \in Nat, q * n <= y, y < (q + 1) * n
  PROVE  y \div n = q
  <1> DEFINE p == y \div n
  <1>1. p \in Nat /\ p * n <= y /\ y < (p + 1) * n
    OBVIOUS
  <1> HIDE DEF p
  <1>2. ~(p + 1 <= q)
    <2> SUFFICES ASSUME p + 1 <= q PROVE FALSE
      OBVIOUS
    <2>1. (p + 1) * n <= q * n
      BY <1>1
    <2> QED
      BY <1>1, <2>1
  <1>3. ~(q + 1 <= p)
    <2> SUFFICES ASSUME q + 1 <= p PROVE FALSE
      OBVIOUS
    <2>1. (q + 1) * n <= p * n
      BY <1>1
    <2> QED
      BY <1>1, <2>1
  <1> QED
    BY <1>1, <1>2, <1>3 DEF p

LEMMA DivRest ==
  ASSUME NEW y \in Nat, NEW n \in Nat \ {0}
  PROVE  /\ y \div n \in Nat /\ y % n \in 0..(n - 1)
         /\ y = n * (y \div n) + (y % n)
  OBVIOUS

LEMMA TimesOrder ==
  ASSUME NEW n \in Nat, NEW x \in Nat, NEW y \in Nat, x <= y
  PROVE  n * x <= n * y
  OBVIOUS

\* Dividing twice is dividing by the product.
LEMMA DivTwice ==
  ASSUME NEW y \in Nat, NEW n \in Nat \ {0}, NEW m \in Nat \ {0}
  PROVE  y \div (n * m) = (y \div n) \div m
  <1> DEFINE p == y \div n
             q == p \div m
  <1>1. p \in Nat /\ p * n <= y /\ y + 1 <= (p + 1) * n
    OBVIOUS
  <1>2. q \in Nat /\ q * m <= p /\ p + 1 <= (q + 1) * m
    BY <1>1
  <1> HIDE DEF p, q
  <1>3. (q * m) * n <= p * n /\ (p + 1) * n <= ((q + 1) * m) * n
    <2>1. q * m \in Nat /\ (q + 1) * m \in Nat
      BY <1>2
    <2> QED
      BY <1>1, <1>2, <2>1
  <1>4. (q * m) * n = q * (n * m) /\ ((q + 1) * m) * n = (q + 1) * (n * m)
    BY <1>2
  <1>5. n * m \in Nat \ {0} /\ q * (n * m) <= y /\ y < (q + 1) * (n * m)
    BY <1>1, <1>2, <1>3, <1>4
  <1> DEFINE nm == n * m
  <1> HIDE DEF nm
  <1>6. nm \in Nat \ {0} /\ q * nm <= y /\ y < (q + 1) * nm
    BY <1>5 DEF nm
  <1>7. y \div nm = q
    BY <1>2, <1>6, DivIs
  <1> QED
    BY <1>7 DEF nm, p, q

\* The width is a positive even number, and the numbers are its residues.
LEMMA Widths ==
  /\ Byte \in Nat \ {0, 1} /\ FracUnit \in Nat \ {0}
  /\ Half \in Nat \ {0} /\ FixedMod \in Nat \ {0} /\ FixedMod = Half * Half
  /\ FixedMin \in Int /\ Fixeds \subseteq Int
  <1>1. Byte \in Nat \ {0, 1} /\ FracUnit \in Nat \ {0}
    BY FixedAssumption
  <1>2. Half \in Nat \ {0}
    BY <1>1 DEF Half
  <1>3. FixedMod \in Nat \ {0} /\ FixedMod = Half * Half
    BY <1>2 DEF FixedMod
  <1>4. FixedMin \in Int
    BY <1>3 DEF FixedMin
  <1> QED
    BY <1>1, <1>2, <1>3, <1>4 DEF Fixeds

\* Whatever is calculated is cut to the width.
LEMMA ToFixedType ==
  ASSUME NEW x \in Int
  PROVE  ToFixed(x) \in Fixeds
  <1>1. (x - FixedMin) % FixedMod \in 0..(FixedMod - 1)
    BY Widths
  <1> QED
    BY <1>1, Widths DEF ToFixed, Fixeds

\* The residue of a number, as it is sent, is cut back to the number.
LEMMA ResidueBack ==
  ASSUME NEW x \in Fixeds
  PROVE  x % FixedMod \in 0..(FixedMod - 1) /\ ToFixed(x % FixedMod) = x
  <1> DEFINE M == FixedMod
             N == FixedMin
             y == x % M
  <1>1. M \in Nat \ {0} /\ N \in Int /\ x \in Int /\ N <= x /\ x <= N + M - 1 /\ N <= 0 /\ 0 <= N + M
    BY Widths DEF Fixeds, FixedMin
  <1> HIDE DEF M, N
  <1>2. y \in 0..(M - 1) /\ (y = x \/ y = x + M)
    <2>1. CASE x >= 0
      BY <1>1, <2>1
    <2>2. CASE x < 0
      <3>1. x + M \in 0..(M - 1)
        BY <1>1, <2>2
      <3>2. (x + M) % M = x + M /\ (x + M) % M = x % M
        BY <1>1, <3>1
      <3> QED
        BY <3>1, <3>2
    <2> QED
      BY <1>1, <2>1, <2>2
  <1> HIDE DEF y
  <1>3. (y - N) % M = x - N
    <2>1. x - N \in 0..(M - 1)
      BY <1>1
    <2>2. (x - N) % M = x - N /\ ((x - N) + M) % M = (x - N) % M
      BY <1>1, <2>1
    <2>3. y - N = x - N \/ y - N = (x - N) + M
      BY <1>1, <1>2
    <2> QED
      BY <2>2, <2>3
  <1>4. ToFixed(y) = ((y - N) % M) + N
    BY DEF ToFixed, M, N
  <1> QED
    BY <1>1, <1>2, <1>3, <1>4 DEF y, M

\* Two words make up the number they were split from.
LEMMA WordsBack ==
  ASSUME NEW x \in Fixeds
  PROVE  /\ SPLIT32_HI(x) \in Nat /\ SPLIT32_LO(x) \in Nat
         /\ BUILD_32(SPLIT32_HI(x), SPLIT32_LO(x)) = x
  <1> DEFINE y == x % FixedMod
  <1>1. y \in Nat /\ ToFixed(y) = x
    BY ResidueBack, Widths
  <1> HIDE DEF y
  <1>2. y \div Half \in Nat /\ y % Half \in Nat /\ (y \div Half) * Half + (y % Half) = y
    <2> DEFINE H == Half
    <2>1. H \in Nat \ {0}
      BY Widths
    <2> HIDE DEF H
    <2>2. y \div H \in Nat /\ y % H \in 0..(H - 1) /\ y = H * (y \div H) + (y % H)
      BY <1>1, <2>1, DivRest
    <2>3. H * (y \div H) = (y \div H) * H
      BY <2>1, <2>2
    <2> QED
      BY <2>1, <2>2, <2>3 DEF H
  <1>3. SPLIT32_HI(x) = y \div Half /\ SPLIT32_LO(x) = y % Half
    BY DEF SPLIT32_HI, SPLIT32_LO, y
  <1> QED
    BY <1>1, <1>2, <1>3 DEF BUILD_32

\* Four bytes make up the number they were taken from.
LEMMA BytesBack ==
  ASSUME NEW x \in Fixeds, NEW b,
         b[0] = ByteOf(x, 0), b[1] = ByteOf(x, 1), b[2] = ByteOf(x, 2), b[3] = ByteOf(x, 3)
  PROVE  OfBytes(b) = x
  <1> DEFINE y == x % FixedMod
             B == Byte
             q1 == y \div B
             q2 == q1 \div B
             q3 == q2 \div B
  <1>1. y \in 0..(FixedMod - 1) /\ y \in Nat /\ ToFixed(y) = x
    BY ResidueBack, Widths
  <1>2. B \in Nat \ {0}
    BY Widths
  <1>3. FixedMod = ((B * B) * B) * B
    BY <1>2 DEF FixedMod, Half
  <1>4. /\ b[0] = (y \div 1) % B /\ b[1] = (y \div B) % B
        /\ b[2] = (y \div (B * B)) % B /\ b[3] = (y \div (B * B * B)) % B
    BY DEF ByteOf, BytePlaces
  <1> HIDE DEF y, B
  <1>5. /\ q1 \in Nat /\ q2 \in Nat /\ q3 \in Nat
        /\ y = B * q1 + (y % B) /\ q1 = B * q2 + (q1 % B) /\ q2 = B * q3 + (q2 % B)
    BY <1>1, <1>2, DivRest
  <1>6. B * B \in Nat \ {0} /\ B * B * B \in Nat \ {0} /\ y \div 1 = y
    BY <1>1, <1>2
  <1>7. y \div (B * B) = q2
    BY <1>1, <1>2, DivTwice
  <1>8. y \div (B * B * B) = q3
    <2> DEFINE BB == B * B
    <2>1. y \div (BB * B) = (y \div BB) \div B
      <3> HIDE DEF BB
      <3>1. BB \in Nat \ {0}
        BY <1>6 DEF BB
      <3> QED
        BY <1>1, <1>2, <3>1, DivTwice
    <2> QED
      BY <1>7, <2>1
  <1>9. q3 % B = q3
    <2>1. q3 < B
      <3> SUFFICES ASSUME B <= q3 PROVE FALSE
        BY <1>2, <1>5
      <3> DEFINE BB == B * B
                 BBB == B * BB
                 BBBB == B * BBB
      <3>1. BB \in Nat /\ BBB \in Nat /\ BBBB \in Nat
        BY <1>2
      <3>2. FixedMod = BBBB
        BY <1>2, <1>3
      <3> HIDE DEF q1, q2, q3, BB, BBB, BBBB
      <3>3. BB <= q2
        <4>1. BB <= B * q3
          BY <1>2, <1>5, TimesOrder DEF BB
        <4> QED
          BY <1>2, <1>5, <3>1, <4>1
      <3>4. BBB <= q1
        <4>1. BBB <= B * q2
          BY <1>2, <1>5, <3>1, <3>3, TimesOrder DEF BBB
        <4> QED
          BY <1>2, <1>5, <3>1, <4>1
      <3>5. BBBB <= y
        <4>1. BBBB <= B * q1
          BY <1>2, <1>5, <3>1, <3>4, TimesOrder DEF BBBB
        <4> QED
          BY <1>1, <1>2, <1>5, <3>1, <4>1
      <3> QED
        BY <1>1, <3>1, <3>2, <3>5
    <2>2. B \in Nat /\ q3 \in 0..(B - 1)
      BY <1>2, <1>5, <2>1
    <2> HIDE DEF q3
    <2> QED
      BY <2>2
  <1>10. b[0] + B * b[1] + B * B * b[2] + B * B * B * b[3] = y
    <2>1. b[0] = y % B /\ b[1] = q1 % B /\ b[2] = q2 % B /\ b[3] = q3
      BY <1>4, <1>6, <1>7, <1>8, <1>9
    <2> HIDE DEF q1, q2, q3
    <2> DEFINE r0 == y % B
               r1 == q1 % B
               r2 == q2 % B
    <2>2. r0 \in Nat /\ r1 \in Nat /\ r2 \in Nat
      BY <1>1, <1>2, <1>5, DivRest
    <2>3. y = B * q1 + r0 /\ q1 = B * q2 + r1 /\ q2 = B * q3 + r2
      BY <1>5
    <2> HIDE DEF r0, r1, r2
    <2>4. y = B * (B * (B * q3 + r2) + r1) + r0
      BY <2>3
    <2>5. B * (B * (B * q3 + r2) + r1) + r0 = r0 + B * r1 + B * B * r2 + B * B * B * q3
      BY <1>2, <1>5, <2>2
    <2> QED
      BY <2>1, <2>4, <2>5 DEF r0, r1, r2
  <1>11. OfBytes(b) = ToFixed(b[0] + B * b[1] + B * B * b[2] + B * B * B * b[3])
    BY DEF OfBytes, B
  <1> QED
    BY <1>1, <1>10, <1>11

-----------------------------------------------------------------------------
(***************************************************************************)
(* What the operators of the regulator give: all that is calculated is cut *)
(* to the width.                                                           *)
(***************************************************************************)

Words == 0..(Half - 1)
Triples == [1..3 -> Fixeds]
Pids == [K : Triples, u_prev : Fixeds, error_1 : Fixeds, error_2 : Fixeds]
Sums == [size : 0..Capacity, index : Slots, items : [Slots -> Int], sum : Int]

LEMMA Zeros == 0 \in Fixeds /\ 0 \in Slots /\ 0 \in Words
  <1>1. FixedMod \in Nat \ {0} /\ Half \in Nat \ {0} /\ Capacity \in Nat \ {0}
    BY Widths, FastSumAssumption
  <1> QED
    BY <1>1 DEF Fixeds, FixedMin, Slots, Words

LEMMA FixedTypes ==
  ASSUME NEW a \in Int, NEW b \in Int
  PROVE  /\ FIXED_ADD(a, b) \in Fixeds /\ FIXED_SUB(a, b) \in Fixeds
         /\ FIXED_MUL(a, b) \in Fixeds /\ FIXED_MUL_BY_INT(a, b) \in Fixeds
         /\ FIXED_FROM_INT(a) \in Fixeds
         /\ b > 0 => FIXED_DIV(a, b) \in Fixeds /\ FIXED_DIV_BY_INT(a, b) \in Fixeds
  <1>1. FracUnit \in Nat \ {0}
    BY Widths
  <1>2. a + b \in Int /\ a - b \in Int /\ a * b \in Int /\ a * FracUnit \in Int
    BY <1>1
  <1>3. (a * b) \div FracUnit \in Int
    BY <1>1, <1>2
  <1>4. ASSUME b > 0, NEW c \in Int PROVE Truncated(c, b) \in Int
    <2>1. c \div b \in Int /\ (-c) \div b \in Int
      BY <1>4
    <2> QED
      BY <2>1 DEF Truncated
  <1>5. /\ FIXED_ADD(a, b) \in Fixeds /\ FIXED_SUB(a, b) \in Fixeds
        /\ FIXED_MUL(a, b) \in Fixeds /\ FIXED_MUL_BY_INT(a, b) \in Fixeds
        /\ FIXED_FROM_INT(a) \in Fixeds
    BY <1>2, <1>3, ToFixedType DEF FIXED_ADD, FIXED_SUB, FIXED_MUL, FIXED_MUL_BY_INT, FIXED_FROM_INT
  <1>6. ASSUME b > 0 PROVE FIXED_DIV(a, b) \in Fixeds /\ FIXED_DIV_BY_INT(a, b) \in Fixeds
    <2>1. Truncated(a * FracUnit, b) \in Int /\ Truncated(a, b) \in Int
      BY <1>2, <1>4, <1>6
    <2> QED
      BY <2>1, ToFixedType DEF FIXED_DIV, FIXED_DIV_BY_INT
  <1> QED
    BY <1>5, <1>6

\* One calculation keeps the gains and remembers the error it worked on.
LEMMA PidCalculated ==
  ASSUME NEW pid \in Pids, NEW sp \in Fixeds, NEW pv \in Fixeds
  PROVE  /\ PidCalculate(pid, sp, pv) \in Pids
         /\ PidCalculate(pid, sp, pv).K = pid.K
         /\ PidCalculate(pid, sp, pv).error_1 = FIXED_SUB(sp, pv)
  <1> DEFINE error == FIXED_SUB(sp, pv)
             P == FIXED_MUL(pid.K[1], FIXED_SUB(error, pid.error_1))
             I == FIXED_ADD(pid.u_prev, FIXED_MUL(pid.K[2], error))
             D == FIXED_MUL(pid.K[3],
                    FIXED_ADD(FIXED_SUB(error, FIXED_ADD(pid.error_1, pid.error_1)), pid.error_2))
             u == FIXED_ADD(FIXED_ADD(P, I), D)
  <1>1. Fixeds \subseteq Int
    BY Widths
  <1>2. /\ pid.K \in Triples /\ pid.K[1] \in Fixeds /\ pid.K[2] \in Fixeds /\ pid.K[3] \in Fixeds
        /\ pid.u_prev \in Fixeds /\ pid.error_1 \in Fixeds /\ pid.error_2 \in Fixeds
    BY DEF Pids, Triples
  <1>3. error \in Fixeds
    BY <1>1, FixedTypes
  <1> HIDE DEF error
  <1>4. P \in Fixeds
    <2>1. FIXED_SUB(error, pid.error_1) \in Fixeds
      BY <1>1, <1>2, <1>3, FixedTypes
    <2> QED
      BY <1>1, <1>2, <2>1, FixedTypes
  <1>5. I \in Fixeds
    <2>1. FIXED_MUL(pid.K[2], error) \in Fixeds
      BY <1>1, <1>2, <1>3, FixedTypes
    <2> QED
      BY <1>1, <1>2, <2>1, FixedTypes
  <1>6. D \in Fixeds
    <2>1. FIXED_ADD(pid.error_1, pid.error_1) \in Fixeds
      BY <1>1, <1>2, FixedTypes
    <2>2. FIXED_SUB(error, FIXED_ADD(pid.error_1, pid.error_1)) \in Fixeds
      BY <1>1, <1>3, <2>1, FixedTypes
    <2>3. FIXED_ADD(FIXED_SUB(error, FIXED_ADD(pid.error_1, pid.error_1)), pid.error_2) \in Fixeds
      BY <1>1, <1>2, <2>2, FixedTypes
    <2> QED
      BY <1>1, <1>2, <2>3, FixedTypes
  <1>7. u \in Fixeds
    <2> HIDE DEF P, I, D
    <2>1. FIXED_ADD(P, I) \in Fixeds
      BY <1>1, <1>4, <1>5, FixedTypes
    <2> QED
      BY <1>1, <1>6, <2>1, FixedTypes
  <1>8. PidCalculate(pid, sp, pv) =
          [pid EXCEPT !.u_prev = u, !.error_2 = pid.error_1, !.error_1 = error]
    BY DEF PidCalculate, error
  <1> HIDE DEF u
  <1> QED
    BY <1>2, <1>3, <1>7, <1>8 DEF Pids, error

\* A window that has taken a value is not empty.
LEMMA SumAdded ==
  ASSUME NEW w \in Sums, NEW x \in Int
  PROVE  FastSum_add(w, x) \in Sums /\ FastSum_add(w, x).size \in 1..Capacity
  <1>1. Capacity \in Nat \ {0} /\ SumMod \in Nat \ {0}
    BY FastSumAssumption
  <1>2. /\ w.size \in 0..Capacity /\ w.index \in Slots /\ w.items \in [Slots -> Int] /\ w.sum \in Int
        /\ w.items[w.index] \in Int
    BY DEF Sums
  <1>3. \A y \in Int : (w.sum - y + x) % SumMod \in Int
    <2> SUFFICES ASSUME NEW y \in Int PROVE (w.sum - y + x) % SumMod \in Int
      OBVIOUS
    <2>1. w.sum - y + x \in Int
      BY <1>2
    <2> QED
      BY <1>1, <2>1
  <1> DEFINE first == IF w.size >= Capacity THEN w.items[w.index] ELSE 0
             size == IF w.size < Capacity THEN w.size + 1 ELSE w.size
             index == IF w.index + 1 >= Capacity THEN 0 ELSE w.index + 1
             items == [w.items EXCEPT ![w.index] = x]
             sum == (w.sum - first + x) % SumMod
  <1>4. size \in 1..Capacity /\ size \in 0..Capacity
    BY <1>1, <1>2
  <1>5. index \in Slots
    BY <1>1, <1>2 DEF Slots
  <1>6. items \in [Slots -> Int]
    BY <1>2
  <1>7. sum \in Int
    <2>1. first \in Int
      BY <1>2
    <2> HIDE DEF first
    <2> QED
      BY <1>3, <2>1
  <1>8. FastSum_add(w, x) = [size |-> size, index |-> index, items |-> items, sum |-> sum]
    BY DEF FastSum_add
  <1> HIDE DEF size, index, items, sum
  <1> QED
    BY <1>4, <1>5, <1>6, <1>7, <1>8 DEF Sums

\* The speed a window means.
LEMMA RpmType ==
  ASSUME NEW w \in Sums, w.size \in 1..Capacity
  PROVE  Rpm(w) \in Fixeds
  <1>1. /\ Period \in Nat /\ PerSecond \in Nat /\ PerSecond > 0 /\ PulsesPerRev \in Nat
        /\ PerMinute \in Nat /\ w.size \in Nat /\ w.sum \in Int /\ Fixeds \subseteq Int
    BY RegulationAssumption, Widths, FastSumAssumption DEF Sums
  <1>2. WindowTime(w.size) \in Int
    <2>1. Period * w.size \in Int
      BY <1>1
    <2> DEFINE a == FIXED_FROM_INT(Period * w.size)
               b == FIXED_DIV_BY_INT(a, PerSecond)
    <2>2. a \in Fixeds
      BY <1>1, <2>1, FixedTypes
    <2> HIDE DEF a
    <2>3. b \in Fixeds
      BY <1>1, <2>2, FixedTypes
    <2> HIDE DEF b
    <2>4. FIXED_MUL_BY_INT(b, PulsesPerRev) \in Fixeds
      BY <1>1, <2>3, FixedTypes
    <2> QED
      BY <1>1, <2>4 DEF WindowTime, b, a
  <1>3. WindowTime(w.size) > 0
    BY RegulationAssumption
  <1>4. FIXED_MUL_BY_INT(FIXED_FROM_INT(w.sum), PerMinute) \in Int
    <2> DEFINE a == FIXED_FROM_INT(w.sum)
    <2>1. a \in Fixeds
      BY <1>1, FixedTypes
    <2> HIDE DEF a
    <2>2. FIXED_MUL_BY_INT(a, PerMinute) \in Fixeds
      BY <1>1, <2>1, FixedTypes
    <2> QED
      BY <1>1, <2>2 DEF a
  <1> QED
    BY <1>2, <1>3, <1>4, FixedTypes DEF Rpm

-----------------------------------------------------------------------------
(***************************************************************************)
(* Gains as words of a frame and as bytes of the memory.                   *)
(***************************************************************************)

LEMMA WordTypes ==
  ASSUME NEW x \in Int
  PROVE  SPLIT32_HI(x) \in Words /\ SPLIT32_LO(x) \in Words
  <1> DEFINE y == x % FixedMod
             H == Half
             q == y \div H
  <1>1. H \in Nat \ {0} /\ FixedMod = H * H /\ y \in Nat /\ y < H * H
    <2>1. FixedMod \in Nat \ {0} /\ FixedMod = H * H /\ H \in Nat \ {0}
      BY Widths
    <2> QED
      BY <2>1
  <1> HIDE DEF y, H
  <1>2. q \in Nat /\ y % H \in 0..(H - 1) /\ y = H * q + (y % H)
    BY <1>1, DivRest
  <1>3. q < H
    <2> SUFFICES ASSUME H <= q PROVE FALSE
      BY <1>1, <1>2
    <2> HIDE DEF q
    <2>1. H * H <= H * q
      BY <1>1, <1>2, TimesOrder
    <2>2. H * q <= y
      BY <1>1, <1>2
    <2> QED
      BY <1>1, <1>2, <2>1, <2>2
  <1>4. SPLIT32_HI(x) = q /\ SPLIT32_LO(x) = y % H
    BY DEF SPLIT32_HI, SPLIT32_LO, y, H
  <1> HIDE DEF q
  <1> QED
    BY <1>1, <1>2, <1>3, <1>4 DEF Words, H

LEMMA ByteType ==
  ASSUME NEW x \in Int, NEW i \in 0..3
  PROVE  ByteOf(x, i) \in 0..(Byte - 1)
  <1> DEFINE y == x % FixedMod
             n == BytePlaces[i + 1]
  <1>1. Byte \in Nat \ {0} /\ y \in Nat
    BY Widths
  <1>2. n \in Nat \ {0}
    <2>1. Byte * Byte \in Nat \ {0} /\ Byte * Byte * Byte \in Nat \ {0}
      BY <1>1
    <2> QED
      BY <1>1, <2>1 DEF BytePlaces
  <1> HIDE DEF y, n
  <1>3. y \div n \in Int
    BY <1>1, <1>2
  <1>4. (y \div n) % Byte \in 0..(Byte - 1)
    BY <1>1, <1>3
  <1> QED
    BY <1>4 DEF ByteOf, y, n

LEMMA TripleIsSeq ==
  ASSUME NEW K \in Triples
  PROVE  Len(K) = 3 /\ K[1] \in Fixeds /\ K[2] \in Fixeds /\ K[3] \in Fixeds
  <1>1. \A k \in 1..3 : K[k] \in Fixeds
    BY DEF Triples
  <1>2. Len(K) = 3
    <2> DEFINE F == Fixeds
    <2>1. K \in [1..3 -> F]
      BY DEF Triples
    <2> HIDE DEF F
    <2> QED
      BY <2>1
  <1> QED
    BY <1>1, <1>2

LEMMA TriplesEqual ==
  ASSUME NEW K \in Triples, NEW L \in Triples, K[1] = L[1], K[2] = L[2], K[3] = L[3]
  PROVE  K = L
  <1>1. \A k \in 1..3 : k = 1 \/ k = 2 \/ k = 3
    OBVIOUS
  <1> QED
    BY <1>1 DEF Triples

\* Three values in a frame, and the gains made up of its words.
LEMMA GainsSent ==
  ASSUME NEW K \in Triples
  PROVE  /\ Len(WordsOf(K)) = 6 /\ WordsOf(K) \in [1..6 -> Words]
         /\ ArgvGains(WordsOf(K)) = K
  <1> DEFINE w == WordsOf(K)
  <1>1. Len(K) = 3 /\ K[1] \in Fixeds /\ K[2] \in Fixeds /\ K[3] \in Fixeds
    BY TripleIsSeq
  <1>2. w = [i \in 1..6 |-> IF i % 2 = 1 THEN SPLIT32_HI(K[(i + 1) \div 2])
                                          ELSE SPLIT32_LO(K[i \div 2])]
    <2>1. 2 * Len(K) = 6
      BY <1>1
    <2> QED
      BY <2>1 DEF WordsOf
  <1>3. /\ w[1] = SPLIT32_HI(K[1]) /\ w[2] = SPLIT32_LO(K[1])
        /\ w[3] = SPLIT32_HI(K[2]) /\ w[4] = SPLIT32_LO(K[2])
        /\ w[5] = SPLIT32_HI(K[3]) /\ w[6] = SPLIT32_LO(K[3])
    <2> HIDE DEF w
    <2>1. /\ 1 % 2 = 1 /\ 2 % 2 = 0 /\ 3 % 2 = 1 /\ 4 % 2 = 0 /\ 5 % 2 = 1 /\ 6 % 2 = 0
          /\ (1 + 1) \div 2 = 1 /\ 2 \div 2 = 1 /\ (3 + 1) \div 2 = 2 /\ 4 \div 2 = 2
          /\ (5 + 1) \div 2 = 3 /\ 6 \div 2 = 3
      OBVIOUS
    <2> QED
      BY <1>2, <2>1
  <1>4. w \in [1..6 -> Words]
    <2> HIDE DEF w
    <2>1. \A i \in 1..6 : i = 1 \/ i = 2 \/ i = 3 \/ i = 4 \/ i = 5 \/ i = 6
      OBVIOUS
    <2>2. \A x \in Fixeds : SPLIT32_HI(x) \in Words /\ SPLIT32_LO(x) \in Words
      BY WordTypes, Widths
    <2>3. /\ w[1] \in Words /\ w[2] \in Words /\ w[3] \in Words
          /\ w[4] \in Words /\ w[5] \in Words /\ w[6] \in Words
      BY <1>1, <1>3, <2>2
    <2>4. \A i \in 1..6 : w[i] \in Words
      BY <2>1, <2>3
    <2>5. w = [i \in 1..6 |-> w[i]]
      BY <1>2
    <2> QED
      BY <2>4, <2>5
  <1>5. ArgvGains(w) = K
    <2> HIDE DEF w
    <2>1. /\ BUILD_32(w[1], w[2]) = K[1] /\ BUILD_32(w[3], w[4]) = K[2]
          /\ BUILD_32(w[5], w[6]) = K[3]
      BY <1>1, <1>3, WordsBack
    <2>2. ArgvGains(w) = [k \in 1..3 |-> BUILD_32(w[2 * k - 1], w[2 * k])]
      BY DEF ArgvGains
    <2>3. /\ ArgvGains(w)[1] = K[1] /\ ArgvGains(w)[2] = K[2] /\ ArgvGains(w)[3] = K[3]
      BY <2>1, <2>2
    <2>4. ArgvGains(w) \in Triples
      <3>1. \A k \in 1..3 : k = 1 \/ k = 2 \/ k = 3
        OBVIOUS
      <3>2. \A k \in 1..3 : ArgvGains(w)[k] \in Fixeds
        BY <1>1, <2>3, <3>1
      <3> QED
        BY <2>2, <3>2 DEF Triples
    <2> QED
      BY <2>3, <2>4, TriplesEqual
  <1>6. Len(w) = 6
    <2> HIDE DEF w
    <2> QED
      BY <1>4
  <1> QED
    BY <1>4, <1>5, <1>6

\* The gains depend on six words only.
LEMMA GainsOfWords ==
  ASSUME NEW v, NEW w, \A i \in 1..6 : v[i] = w[i]
  PROVE  ArgvGains(v) = ArgvGains(w)
  <1>1. \A k \in 1..3 : 2 * k - 1 \in 1..6 /\ 2 * k \in 1..6
    OBVIOUS
  <1> QED
    BY <1>1 DEF ArgvGains

\* What is stored is read back.
LEMMA GainsStored ==
  ASSUME NEW K \in Triples
  PROVE  GainsOf(ConfOf(K)) = K /\ ConfOf(K) \in [Cells -> 0..(Byte - 1)]
  <1>1. K[1] \in Fixeds /\ K[2] \in Fixeds /\ K[3] \in Fixeds /\ Fixeds \subseteq Int
    BY TripleIsSeq, Widths
  <1>2. ASSUME NEW i \in Cells
        PROVE  /\ i \div 4 + 1 \in 1..3 /\ i % 4 \in 0..3
               /\ ConfOf(K)[i] = ByteOf(K[i \div 4 + 1], i % 4)
    BY DEF Cells, ConfOf
  <1>3. ConfOf(K) \in [Cells -> 0..(Byte - 1)]
    <2>1. ASSUME NEW i \in Cells PROVE ConfOf(K)[i] \in 0..(Byte - 1)
      <3>1. K[i \div 4 + 1] \in Int
        <4>1. \A k \in 1..3 : K[k] \in Fixeds
          BY DEF Triples
        <4> QED
          BY <1>1, <1>2, <4>1
      <3> QED
        BY <1>2, <3>1, ByteType
    <2> QED
      BY <2>1 DEF ConfOf
  <1>4. ASSUME NEW k \in 1..3 PROVE GainsOf(ConfOf(K))[k] = K[k]
    <2> DEFINE b == [i \in 0..3 |-> ConfOf(K)[4 * (k - 1) + i]]
    <2>1. ASSUME NEW i \in 0..3
          PROVE  /\ 4 * (k - 1) + i \in Cells
                 /\ (4 * (k - 1) + i) \div 4 + 1 = k /\ (4 * (k - 1) + i) % 4 = i
      BY DEF Cells
    <2>2. \A i \in 0..3 : b[i] = ByteOf(K[k], i)
      <3> SUFFICES ASSUME NEW i \in 0..3 PROVE b[i] = ByteOf(K[k], i)
        OBVIOUS
      <3> DEFINE c == 4 * (k - 1) + i
      <3>1. c \in Cells /\ c \div 4 + 1 = k /\ c % 4 = i
        BY <2>1
      <3>2. b[i] = ConfOf(K)[c]
        OBVIOUS
      <3> HIDE DEF b, c
      <3> QED
        BY <1>2, <3>1, <3>2
    <2>3. GainsOf(ConfOf(K))[k] = OfBytes(b)
      BY DEF GainsOf
    <2> HIDE DEF b
    <2>4. K[k] \in Fixeds
      BY DEF Triples
    <2>5. b[0] = ByteOf(K[k], 0) /\ b[1] = ByteOf(K[k], 1)
            /\ b[2] = ByteOf(K[k], 2) /\ b[3] = ByteOf(K[k], 3)
      BY <2>2
    <2> QED
      BY <2>3, <2>4, <2>5, BytesBack
  <1>5. GainsOf(ConfOf(K)) = K
    BY <1>4 DEF GainsOf, Triples
  <1> QED
    BY <1>3, <1>5

\* Whatever the memory holds, gains are read.
LEMMA GainsLoaded ==
  ASSUME NEW conf \in [Cells -> 0..(Byte - 1)]
  PROVE  P_config_load(conf) \in Triples
  <1>1. DefaultGains \in Triples
    BY RegulationAssumption DEF AllGains, Triples
  <1>2. ASSUME NEW k \in 1..3 PROVE GainsOf(conf)[k] \in Fixeds
    <2> DEFINE b == [i \in 0..3 |-> conf[4 * (k - 1) + i]]
    <2>1. b[0] \in Int /\ b[1] \in Int /\ b[2] \in Int /\ b[3] \in Int
      <3>1. Byte \in Nat /\ \A i \in 0..3 : 4 * (k - 1) + i \in Cells
        BY Widths DEF Cells
      <3>2. \A c \in Cells : conf[c] \in Int
        BY <3>1
      <3> QED
        BY <3>1, <3>2
    <2>2. GainsOf(conf)[k] = OfBytes(b)
      BY DEF GainsOf
    <2> HIDE DEF b
    <2>3. b[0] + Byte * b[1] + Byte * Byte * b[2] + Byte * Byte * Byte * b[3] \in Int
      <3>1. Byte \in Int
        BY Widths
      <3> QED
        BY <2>1, <3>1
    <2> QED
      BY <2>2, <2>3, ToFixedType DEF OfBytes
  <1>3. GainsOf(conf) \in Triples
    BY <1>2 DEF GainsOf, Triples
  <1> QED
    BY <1>1, <1>3 DEF P_config_load

-----------------------------------------------------------------------------
(***************************************************************************)
(* RegulatorTold needs that what it is told from has the width.            *)
(* StoredIsRestored is not inductive: it says nothing of a store under     *)
(* way.  StoreFollows says what the bytes written so far are, and what the *)
(* memory holds while no store has begun.                                  *)
(***************************************************************************)

ValuesTyped ==
  /\ m_K \in Triples /\ kept \in Triples
  /\ m_pid \in Pids /\ m_pulses_sum \in Sums
  /\ m_argv \in [1..ArgvSize -> Words]
  /\ pulses \in Nat /\ heard \in Nat

StoreFollows ==
  /\ storing # StoreIdle => \A i \in Cells : i < storing => eeprom[i] = ConfOf(m_K)[i]
  /\ ~torn /\ storing \in {0, StoreIdle} =>
       \/ eeprom = ConfOf(kept)
       \/ kept = DefaultGains /\ eeprom = [i \in Cells |-> Erased]

RegInv == RegulatorTold /\ ValuesTyped /\ StoreFollows

LEMMA PidResets ==
  ASSUME NEW pid \in Pids, NEW K \in Triples
  PROVE  /\ PidReset(pid) \in Pids /\ PidReset(pid).K = pid.K
         /\ PidGains(pid, K) \in Pids /\ PidGains(pid, K).K = K
  <1>1. 0 \in Fixeds
    BY Zeros
  <1> QED
    BY <1>1 DEF PidReset, PidGains, Pids

LEMMA NewPidType == NewPid \in Pids
  <1>1. 0 \in Fixeds
    BY Zeros
  <1>2. <<0, 0, 0>> \in Triples
    BY <1>1 DEF Triples
  <1> QED
    BY <1>1, <1>2 DEF NewPid, Pids

LEMMA SumResets ==
  /\ NewFastSum \in Sums
  /\ \A w \in Sums : FastSum_reset(w) \in Sums
  <1>1. 0 \in Slots /\ 0 \in 0..Capacity
    BY Zeros, FastSumAssumption
  <1>2. NewFastSum \in Sums
    BY <1>1 DEF NewFastSum, Sums
  <1>3. ASSUME NEW w \in Sums PROVE FastSum_reset(w) \in Sums
    <2> DEFINE I == [Slots -> Int]
               N == 0..Capacity
    <2>1. w \in [size : N, index : Slots, items : I, sum : Int] /\ 0 \in N /\ 0 \in Int
      BY <1>1 DEF Sums
    <2> HIDE DEF I, N
    <2>2. [w EXCEPT !.sum = 0, !.size = 0, !.index = 0] \in [size : N, index : Slots, items : I, sum : Int]
      BY <1>1, <2>1
    <2> QED
      BY <2>2 DEF FastSum_reset, Sums, I, N
  <1> QED
    BY <1>2, <1>3

\* What tells neither gains nor an event agrees with the regulator.
LEMMA QuietAgrees ==
  ASSUME m_pid'.K = m_K', sent'.type # "SPPV", sent'.type = "REPLY" => Len(sent'.resv) # 6
  PROVE  GainsAgree' /\ EventAgrees'
  BY DEF GainsAgree, EventAgrees

LEMMA NothingSent ==
  ASSUME sent' = Nothing, m_pid'.K = m_K'
  PROVE  GainsAgree' /\ EventAgrees'
  BY QuietAgrees DEF Nothing

LEMMA DoneSent ==
  ASSUME NEW err, sent' = Reply(err, << >>), m_pid'.K = m_K'
  PROVE  GainsAgree' /\ EventAgrees'
  BY QuietAgrees DEF Reply

LEMMA StoreLeft ==
  ASSUME StoreFollows, UNCHANGED storeVars, m_K' = m_K \/ storing = StoreIdle
  PROVE  StoreFollows'
  BY DEF StoreFollows, storeVars

\* Nothing of the invariant but what is said of the store is about these.
LEMMA RegInvOf ==
  ASSUME RegTypeOK', GainsAgree', EventAgrees', ValuesTyped', StoreFollows'
  PROVE  RegInv'
  BY DEF RegInv, RegulatorTold

LEMMA PulseKeeps == RegInv /\ Pulse => RegInv'
  <1> SUFFICES ASSUME RegInv, Pulse PROVE RegInv'
    OBVIOUS
  <1>1. RegTypeOK /\ ValuesTyped /\ StoreFollows /\ m_pid.K = m_K
    BY DEF RegInv, RegulatorTold, GainsAgree
  <1>2. /\ UNCHANGED <<mode, motor, m_speed_SP_free, setpoint, m_speed_PV, m_pid, m_pulses_sum, m_K,
                       m_permanent_process_send, m_argv, output, eeprom, storing, kept, torn>>
        /\ pulses' = pulses + 1 /\ heard' = heard + 1 /\ sent' = Nothing
    BY DEF Pulse, ctrlVars, pidVars, storeVars
  <1>3. RegTypeOK'
    BY <1>1, <1>2 DEF RegTypeOK
  <1>4. ValuesTyped'
    BY <1>1, <1>2 DEF ValuesTyped
  <1>5. StoreFollows'
    BY <1>1, <1>2, StoreLeft DEF storeVars
  <1> QED
    BY <1>1, <1>2, <1>3, <1>4, <1>5, NothingSent, RegInvOf

\* The regulator is left, or starts anew with its gains.
LEMMA ButtonKeeps == RegInv /\ ButtonOrPotentiometer => RegInv'
  <1> SUFFICES ASSUME RegInv, ButtonOrPotentiometer PROVE RegInv'
    OBVIOUS
  <1>1. RegTypeOK /\ ValuesTyped /\ StoreFollows /\ m_pid.K = m_K
    BY DEF RegInv, RegulatorTold, GainsAgree
  <1>2. /\ UNCHANGED <<m_speed_SP_free, m_speed_PV, m_K, m_permanent_process_send, m_argv, output,
                       eeprom, storing, kept, torn>>
        /\ sent' = Nothing
    BY DEF ButtonOrPotentiometer, storeVars
  <1>3. mode' \in Modes /\ motor' \in BOOLEAN /\ setpoint' \in Fixeds
    <2>1. /\ mode \in Modes /\ motor \in BOOLEAN /\ setpoint \in Fixeds /\ m_speed_SP_free \in Fixeds
          /\ BaseSpeeds \subseteq Fixeds
      BY <1>1, RegulationAssumption DEF RegTypeOK
    <2> QED
      BY <2>1 DEF ButtonOrPotentiometer, MotorLeft, MotorSwitched, Modes, Stopped
  <1>4. MotorLeft \/ P_ctrl_start
    BY DEF ButtonOrPotentiometer, MotorSwitched
  <1>5. m_pid' \in Pids /\ m_pid'.K = m_K' /\ m_pulses_sum' \in Sums /\ pulses' \in Nat /\ heard' \in Nat
    <2>1. CASE MotorLeft
      BY <1>1, <1>2, <2>1 DEF MotorLeft, pidVars, ValuesTyped
    <2>2. CASE P_ctrl_start
      <3>1. m_pid \in Pids /\ m_K \in Triples /\ m_pulses_sum \in Sums
        BY <1>1 DEF ValuesTyped
      <3> QED
        BY <1>1, <1>2, <2>2, <3>1, PidResets, SumResets DEF P_ctrl_start
    <2> QED
      BY <1>4, <2>1, <2>2
  <1>6. RegTypeOK'
    <2>1. m_pid'.u_prev \in Fixeds /\ m_pulses_sum'.size \in 0..Capacity /\ m_pulses_sum'.index \in Slots
      BY <1>5 DEF Pids, Sums
    <2> QED
      BY <1>1, <1>2, <1>3, <2>1 DEF RegTypeOK
  <1>7. ValuesTyped'
    BY <1>1, <1>2, <1>5 DEF ValuesTyped
  <1>8. StoreFollows'
    BY <1>1, <1>2, StoreLeft DEF storeVars
  <1> QED
    BY <1>2, <1>5, <1>6, <1>7, <1>8, NothingSent, RegInvOf

LEMMA FourAndTwo ==
  ASSUME NEW a, NEW b, NEW c, NEW d, NEW e, NEW f
  PROVE  LET r == <<a, b, c, d>> \o <<e, f>> IN r[1] = a /\ r[2] = b /\ r[3] = c /\ r[4] = d
  <1> DEFINE S == {a, b, c, d, e, f}
             s == <<a, b, c, d>>
             t == <<e, f>>
  <1>1. s \in Seq(S) /\ t \in Seq(S) /\ Len(s) = 4 /\ Len(t) = 2
        /\ s[1] = a /\ s[2] = b /\ s[3] = c /\ s[4] = d
    OBVIOUS
  <1> HIDE DEF s, t, S
  <1>2. (s \o t)[1] = s[1] /\ (s \o t)[2] = s[2] /\ (s \o t)[3] = s[3] /\ (s \o t)[4] = s[4]
    <2>1. \A i \in 1..(Len(s) + Len(t)) : (s \o t)[i] = IF i <= Len(s) THEN s[i] ELSE t[i - Len(s)]
      BY <1>1, ConcatProperties
    <2>2. ASSUME NEW i \in 1..4 PROVE (s \o t)[i] = s[i]
      <3>1. i \in 1..(Len(s) + Len(t)) /\ i <= Len(s)
        BY <1>1
      <3> QED
        BY <2>1, <3>1
    <2>3. 1 \in 1..4 /\ 2 \in 1..4 /\ 3 \in 1..4 /\ 4 \in 1..4
      OBVIOUS
    <2> QED
      BY <2>2, <2>3
  <1> QED
    BY <1>1, <1>2 DEF s, t

\* One period: what is told is what has been worked on.
LEMMA TaskKeeps == RegInv /\ P_task_ctrl => RegInv'
  <1> SUFFICES ASSUME RegInv, P_task_ctrl PROVE RegInv'
    OBVIOUS
  <1>1. RegTypeOK /\ ValuesTyped /\ StoreFollows /\ m_pid.K = m_K
    BY DEF RegInv, RegulatorTold, GainsAgree
  <1> DEFINE event == P_rpc_eventSPPV(SpeedSP, m_speed_PV', m_pid'.u_prev)
  <1>2. /\ UNCHANGED <<mode, motor, m_speed_SP_free, setpoint, m_K, m_permanent_process_send, m_argv,
                       eeprom, storing, kept, torn>>
        /\ pulses' = 0 /\ heard' = 0
        /\ m_pulses_sum' = FastSum_add(m_pulses_sum, pulses) /\ m_speed_PV' = Rpm(m_pulses_sum')
        /\ m_pid' = PidCalculate(m_pid, SpeedSP, m_speed_PV')
        /\ output' = IF motor THEN MotorOutput(m_pid'.u_prev) ELSE 0
        /\ sent' = event \/ sent' = Nothing
    BY DEF P_task_ctrl, ctrlVars, storeVars
  <1>3. m_pulses_sum' \in Sums /\ m_pulses_sum'.size \in 1..Capacity
    <2>1. m_pulses_sum \in Sums /\ pulses \in Int
      BY <1>1 DEF ValuesTyped
    <2> QED
      BY <1>2, <2>1, SumAdded
  <1>4. m_speed_PV' \in Fixeds
    <2> DEFINE w == m_pulses_sum'
    <2>1. w \in Sums /\ w.size \in 1..Capacity /\ m_speed_PV' = Rpm(w)
      BY <1>2, <1>3
    <2> HIDE DEF w
    <2> QED
      BY <2>1, RpmType
  <1>5. SpeedSP \in Fixeds
    BY <1>1, Zeros DEF SpeedSP, RegTypeOK
  <1>6. m_pid' \in Pids /\ m_pid'.K = m_K' /\ m_pid'.error_1 = FIXED_SUB(SpeedSP, m_speed_PV')
    <2>1. m_pid \in Pids
      BY <1>1 DEF ValuesTyped
    <2>2. /\ PidCalculate(m_pid, SpeedSP, m_speed_PV') \in Pids
          /\ PidCalculate(m_pid, SpeedSP, m_speed_PV').K = m_pid.K
          /\ PidCalculate(m_pid, SpeedSP, m_speed_PV').error_1 = FIXED_SUB(SpeedSP, m_speed_PV')
      BY <1>4, <1>5, <2>1, PidCalculated
    <2> QED
      BY <1>1, <1>2, <2>2
  <1>7. output' \in 0..OutMax
    <2> DEFINE u == m_pid'.u_prev
               c == IF u < 0 THEN 0 ELSE u
    <2>1. u \in Int /\ OutMax \in Nat /\ FracUnit \in Nat \ {0}
      BY <1>6, Widths, RegulationAssumption DEF Pids
    <2> HIDE DEF u
    <2>2. c \in Nat
      BY <2>1
    <2> HIDE DEF c
    <2>3. c \div FracUnit \in Nat
      BY <2>1, <2>2
    <2>4. MotorOutput(u) \in 0..OutMax
      BY <2>1, <2>3 DEF MotorOutput, FIXED_INT, c
    <2> QED
      BY <1>2, <2>1, <2>4 DEF u
  <1>8. RegTypeOK'
    <2>1. m_pid'.u_prev \in Fixeds /\ m_pulses_sum'.size \in 0..Capacity /\ m_pulses_sum'.index \in Slots
      BY <1>3, <1>6 DEF Pids, Sums
    <2> QED
      BY <1>1, <1>2, <1>4, <1>7, <2>1 DEF RegTypeOK
  <1>9. ValuesTyped'
    BY <1>1, <1>2, <1>3, <1>6 DEF ValuesTyped
  <1>10. StoreFollows'
    BY <1>1, <1>2, StoreLeft DEF storeVars
  <1>11. GainsAgree' /\ EventAgrees'
    <2>1. CASE sent' = Nothing
      BY <1>6, <2>1, NothingSent
    <2>2. CASE sent' = event
      <3> DEFINE sp == SpeedSP
                 pv == m_speed_PV'
                 w == <<SPLIT32_LO(m_pid'.u_prev), SPLIT32_LO(m_pid'.u_prev)>>
                 r == P_event_words(sp, pv, w)
      <3>1. sent'.type = "SPPV" /\ sent'.resv = r
        BY <2>2 DEF P_rpc_eventSPPV
      <3>2. /\ r[1] = SPLIT32_HI(sp) /\ r[2] = SPLIT32_LO(sp)
            /\ r[3] = SPLIT32_HI(pv) /\ r[4] = SPLIT32_LO(pv)
        BY FourAndTwo DEF P_event_words
      <3>3. sp \in Fixeds /\ pv \in Fixeds
        BY <1>4, <1>5
      <3> HIDE DEF sp, pv, r
      <3>4. BUILD_32(r[1], r[2]) = sp /\ BUILD_32(r[3], r[4]) = pv
        BY <3>2, <3>3, WordsBack
      <3>5. EventAgrees'
        BY <1>6, <3>1, <3>4 DEF EventAgrees, sp, pv
      <3>6. GainsAgree'
        BY <1>6, <3>1 DEF GainsAgree
      <3> QED
        BY <3>5, <3>6
    <2> QED
      BY <1>2, <2>1, <2>2
  <1> QED
    BY <1>8, <1>9, <1>10, <1>11, RegInvOf

\* One byte more is what it should be; after the last one all are.
LEMMA StoreKeeps == RegInv /\ P_config_store => RegInv'
  <1> SUFFICES ASSUME RegInv, P_config_store PROVE RegInv'
    OBVIOUS
  <1>1. RegTypeOK /\ ValuesTyped /\ StoreFollows /\ m_pid.K = m_K
    BY DEF RegInv, RegulatorTold, GainsAgree
  <1>2. /\ UNCHANGED <<mode, motor, m_speed_SP_free, setpoint, m_speed_PV, pulses, heard, m_pid,
                       m_pulses_sum, m_K, m_permanent_process_send, m_argv, output>>
        /\ storing \in Cells /\ storing' = storing + 1
        /\ eeprom' = [eeprom EXCEPT ![storing] = ConfOf(m_K)[storing]]
        /\ \/ storing' = StoreIdle /\ kept' = m_K /\ torn' = FALSE /\ sent' = Reply("OK", << >>)
           \/ storing' # StoreIdle /\ kept' = kept /\ torn' = torn /\ sent' = Nothing
    BY <1>1 DEF P_config_store, ctrlVars, pidVars, RegTypeOK
  <1>3. /\ eeprom \in [Cells -> 0..(Byte - 1)] /\ ConfOf(m_K) \in [Cells -> 0..(Byte - 1)]
        /\ m_K \in Triples
    BY <1>1, GainsStored DEF RegTypeOK, ValuesTyped
  <1>4. eeprom' \in [Cells -> 0..(Byte - 1)] /\ storing' \in Cells \cup {StoreIdle}
    <2> DEFINE B == 0..(Byte - 1)
               c == ConfOf(m_K)
    <2>1. storing' \in Cells \cup {StoreIdle}
      BY <1>2 DEF Cells, StoreIdle
    <2>2. storing \in Cells /\ eeprom \in [Cells -> B] /\ c \in [Cells -> B]
          /\ eeprom' = [eeprom EXCEPT ![storing] = c[storing]]
      BY <1>2, <1>3
    <2> HIDE DEF B, c
    <2>3. eeprom' \in [Cells -> B]
      BY <2>2
    <2> QED
      BY <2>1, <2>3 DEF B
  <1>5. RegTypeOK'
    BY <1>1, <1>2, <1>4 DEF RegTypeOK
  <1>6. ValuesTyped'
    BY <1>1, <1>2 DEF ValuesTyped
  <1>7. \A i \in Cells : i < storing' => eeprom'[i] = ConfOf(m_K)[i]
    <2> SUFFICES ASSUME NEW i \in Cells, i < storing' PROVE eeprom'[i] = ConfOf(m_K)[i]
      OBVIOUS
    <2>1. i = storing \/ i < storing
      BY <1>2 DEF Cells
    <2>2. storing # StoreIdle
      BY <1>2 DEF Cells, StoreIdle
    <2> QED
      BY <1>1, <1>2, <1>3, <2>1, <2>2 DEF StoreFollows
  <1>8. StoreFollows'
    <2>1. CASE storing' = StoreIdle
      <3>1. \A i \in Cells : i < StoreIdle
        BY DEF Cells, StoreIdle
      <3>2. eeprom' = ConfOf(m_K)
        BY <1>3, <1>4, <1>7, <2>1, <3>1
      <3>3. kept' = m_K
        BY <1>2, <2>1
      <3> QED
        BY <2>1, <3>2, <3>3 DEF StoreFollows
    <2>2. CASE storing' # StoreIdle
      <3>1. storing' # 0
        BY <1>2 DEF Cells
      <3> QED
        BY <1>2, <1>7, <2>2, <3>1 DEF StoreFollows
    <2> QED
      BY <2>1, <2>2
  <1>9. GainsAgree' /\ EventAgrees'
    BY <1>1, <1>2, NothingSent, DoneSent
  <1> QED
    BY <1>5, <1>6, <1>8, <1>9, RegInvOf

\* A start of the firmware: the gains are read, all else is as new.
LEMMA PowerCutKeeps == RegInv /\ PowerCut => RegInv'
  <1> SUFFICES ASSUME RegInv, PowerCut PROVE RegInv'
    OBVIOUS
  <1>1. RegTypeOK /\ ValuesTyped /\ StoreFollows
    BY DEF RegInv, RegulatorTold
  <1> DEFINE K == P_config_load(eeprom)
  <1>2. K \in Triples
    BY <1>1, GainsLoaded DEF RegTypeOK
  <1>3. /\ mode' = "OTHER_STOPPED" /\ motor' = FALSE
        /\ m_speed_SP_free' = 0 /\ setpoint' = 0 /\ m_speed_PV' = 0 /\ pulses' = 0 /\ heard' = 0
        /\ m_K' = K /\ m_pid' = PidReset(PidGains(NewPid, K)) /\ m_pulses_sum' = NewFastSum
        /\ m_permanent_process_send' = FALSE /\ m_argv' = [i \in 1..ArgvSize |-> 0]
        /\ output' = 0 /\ sent' = Nothing
        /\ torn' = (torn \/ storing \notin {0, StoreIdle}) /\ storing' = StoreIdle
        /\ eeprom' = eeprom /\ kept' = kept
    BY DEF PowerCut, Boot
  <1> HIDE DEF K
  <1>4. m_pid' \in Pids /\ m_pid'.K = m_K'
    <2> DEFINE pid == PidGains(NewPid, K)
    <2>1. pid \in Pids /\ pid.K = K
      BY <1>2, NewPidType, PidResets
    <2> HIDE DEF pid
    <2>2. PidReset(pid) \in Pids /\ PidReset(pid).K = pid.K
      BY <1>2, <2>1, PidResets
    <2> QED
      BY <1>3, <2>1, <2>2 DEF pid
  <1>5. m_pulses_sum' \in Sums
    BY <1>3, SumResets
  <1>6. RegTypeOK'
    <2>1. m_pid'.u_prev \in Fixeds /\ m_pulses_sum'.size \in 0..Capacity /\ m_pulses_sum'.index \in Slots
      BY <1>4, <1>5 DEF Pids, Sums
    <2>2. 0 \in Fixeds /\ 0 \in 0..OutMax
      BY Zeros, RegulationAssumption
    <2> QED
      BY <1>1, <1>3, <2>1, <2>2 DEF RegTypeOK, Modes, Stopped
  <1>7. ValuesTyped'
    BY <1>1, <1>2, <1>3, <1>4, <1>5, Zeros DEF ValuesTyped
  <1>8. StoreFollows'
    BY <1>1, <1>3 DEF StoreFollows
  <1> QED
    BY <1>3, <1>4, <1>6, <1>7, <1>8, NothingSent, RegInvOf

LEMMA InitRegInv == RegInit => RegInv
  <1> SUFFICES ASSUME RegInit PROVE RegInv
    OBVIOUS
  <1> DEFINE K == P_config_load(eeprom)
  <1>1. eeprom \in [Cells -> 0..(Byte - 1)] /\ eeprom = [i \in Cells |-> Erased]
    <2>1. Erased \in 0..(Byte - 1)
      BY Widths DEF Erased
    <2> QED
      BY <2>1 DEF RegInit
  <1>2. K \in Triples /\ DefaultGains \in Triples
    BY <1>1, GainsLoaded, RegulationAssumption DEF AllGains, Triples
  <1>3. /\ m_K = K /\ m_pid = PidReset(PidGains(NewPid, K)) /\ m_pulses_sum = NewFastSum
        /\ kept = DefaultGains /\ sent = Nothing /\ storing = StoreIdle
    BY DEF RegInit
  <1> HIDE DEF K
  <1>4. m_pid \in Pids /\ m_pid.K = m_K
    <2> DEFINE pid == PidGains(NewPid, K)
    <2>1. pid \in Pids /\ pid.K = K
      BY <1>2, NewPidType, PidResets
    <2> HIDE DEF pid
    <2>2. PidReset(pid) \in Pids /\ PidReset(pid).K = pid.K
      BY <1>2, <2>1, PidResets
    <2> QED
      BY <1>3, <2>1, <2>2 DEF pid
  <1>5. m_pulses_sum \in Sums
    BY <1>3, SumResets
  <1>6. RegTypeOK
    <2>1. m_pid.u_prev \in Fixeds /\ m_pulses_sum.size \in 0..Capacity /\ m_pulses_sum.index \in Slots
      BY <1>4, <1>5 DEF Pids, Sums
    <2>2. 0 \in Fixeds /\ 0 \in 0..OutMax
      BY Zeros, RegulationAssumption
    <2> QED
      BY <1>1, <1>3, <2>1, <2>2 DEF RegInit, RegTypeOK, Modes, Stopped
  <1>7. ValuesTyped
    <2>1. pulses = 0 /\ heard = 0 /\ m_argv = [i \in 1..ArgvSize |-> 0]
      BY DEF RegInit
    <2> QED
      BY <1>2, <1>3, <1>4, <1>5, <2>1, Zeros DEF ValuesTyped
  <1>8. StoreFollows
    BY <1>1, <1>3 DEF StoreFollows
  <1>9. GainsAgree /\ EventAgrees
    BY <1>3, <1>4 DEF GainsAgree, EventAgrees, Nothing
  <1> QED
    BY <1>6, <1>7, <1>8, <1>9 DEF RegInv, RegulatorTold

-----------------------------------------------------------------------------
(***************************************************************************)
(* Requests.  Six arguments for the gains, all of them there, come in a    *)
(* frame that asks for gains, and in no other.                             *)
(***************************************************************************)

LEMMA OneValue ==
  ASSUME NEW x \in Int
  PROVE  WordsOf(<<x>>) \in [1..2 -> Words] /\ Len(WordsOf(<<x>>)) = 2
  <1> DEFINE w == WordsOf(<<x>>)
  <1>1. w = [i \in 1..2 |-> IF i % 2 = 1 THEN SPLIT32_HI(<<x>>[(i + 1) \div 2])
                                          ELSE SPLIT32_LO(<<x>>[i \div 2])]
    <2>1. 2 * Len(<<x>>) = 2
      OBVIOUS
    <2> QED
      BY <2>1 DEF WordsOf
  <1> HIDE DEF w
  <1>2. w[1] = SPLIT32_HI(x) /\ w[2] = SPLIT32_LO(x)
    <2>1. 1 % 2 = 1 /\ 2 % 2 = 0 /\ (1 + 1) \div 2 = 1 /\ 2 \div 2 = 1 /\ <<x>>[1] = x
      OBVIOUS
    <2> QED
      BY <1>1, <2>1
  <1>3. \A i \in 1..2 : w[i] \in Words
    <2>1. \A i \in 1..2 : i = 1 \/ i = 2
      OBVIOUS
    <2>2. SPLIT32_HI(x) \in Words /\ SPLIT32_LO(x) \in Words
      BY WordTypes
    <2> QED
      BY <1>2, <2>1, <2>2
  <1>4. w \in [1..2 -> Words]
    <2>1. w = [i \in 1..2 |-> w[i]]
      BY <1>1
    <2> QED
      BY <1>3, <2>1
  <1>5. Len(w) = 2
    BY <1>4
  <1> QED
    BY <1>4, <1>5 DEF w

\* Whatever comes consists of words.
LEMMA FrameWords ==
  ASSUME NEW frame \in Frames
  PROVE  /\ Len(frame.words) \in Nat
         /\ \A i \in 1..Len(frame.words) : frame.words[i] \in Words
  <1>1. CASE \E func \in {0, 1, 2, 4, 6, 7, 8, 9} : frame = Request(func, << >>)
    BY <1>1 DEF Request
  <1>2. CASE \E K \in Gains : frame = koef_w(K)
    <2>1. PICK K \in Gains : frame = koef_w(K)
      BY <1>2
    <2>2. K \in Triples
      BY RegulationAssumption DEF AllGains, Triples
    <2>3. frame.words = WordsOf(K)
      BY <2>1 DEF koef_w, Request
    <2>4. WordsOf(K) \in [1..6 -> Words] /\ Len(WordsOf(K)) = 6
      BY <2>2, GainsSent
    <2> QED
      BY <2>3, <2>4
  <1>3. CASE \E speed \in FreeSpeeds : frame = Request(5, WordsOf(<<speed>>))
    <2>1. PICK speed \in FreeSpeeds : frame = Request(5, WordsOf(<<speed>>))
      BY <1>3
    <2>2. speed \in Int
      BY RegulationAssumption, Widths
    <2>3. frame.words = WordsOf(<<speed>>)
      BY <2>1 DEF Request
    <2>4. WordsOf(<<speed>>) \in [1..2 -> Words] /\ Len(WordsOf(<<speed>>)) = 2
      BY <2>2, OneValue
    <2> QED
      BY <2>3, <2>4
  <1>4. CASE frame \in Others
    <2>1. frame.words \in Seq(Words)
      BY <1>4, RegulationAssumption DEF Words
    <2> HIDE DEF Words
    <2> QED
      BY <2>1
  <1> QED
    BY <1>1, <1>2, <1>3, <1>4 DEF Frames

LEMMA ArgvKept ==
  ASSUME NEW argv \in [1..ArgvSize -> Words], NEW frame \in Frames
  PROVE  ArgvAfter(argv, frame) \in [1..ArgvSize -> Words]
  <1>1. \A i \in 1..Len(frame.words) : frame.words[i] \in Words
    BY FrameWords
  <1>2. Len(frame.words) \in Nat /\ ArgvSize \in Nat
    BY FrameWords, GRPCServerAssumption
  <1>3. ASSUME NEW i \in 1..ArgvSize
        PROVE  (IF i <= frame.argc /\ i <= Len(frame.words) THEN frame.words[i] ELSE argv[i]) \in Words
    <2>1. CASE i <= Len(frame.words)
      <3>1. i \in 1..Len(frame.words)
        BY <1>2, <2>1
      <3> QED
        BY <1>1, <3>1
    <2>2. CASE ~(i <= Len(frame.words))
      BY <2>2
    <2> QED
      BY <2>1, <2>2
  <1> QED
    BY <1>3 DEF ArgvAfter

\* Arguments left in the buffer are never among the gains: the frame is as good
\* as the one that asks for them.
LEMMA GainsAsked ==
  ASSUME NEW argv, NEW frame \in Frames, frame.func = 3, frame.argc = 6, Decodes(frame)
  PROVE  \E K \in Gains :
           /\ koef_w(K).func = 3 /\ koef_w(K).argc = 6 /\ Decodes(koef_w(K))
           /\ ArgvAfter(argv, koef_w(K)) = ArgvAfter(argv, frame)
           /\ ArgvGains(ArgvAfter(argv, frame)) = K
  <1>1. Len(frame.words) \in Nat /\ Len(frame.words) >= 6
    BY FrameWords DEF Decodes
  <1>2. \E K \in Gains : \A i \in 1..6 : frame.words[i] = WordsOf(K)[i]
    <2>1. ~ \E func \in {0, 1, 2, 4, 6, 7, 8, 9} : frame = Request(func, << >>)
      BY DEF Request
    <2>2. ~ \E speed \in FreeSpeeds : frame = Request(5, WordsOf(<<speed>>))
      <3>1. \A w : Request(5, w).func = 5
        BY DEF Request
      <3>2. ASSUME NEW speed \in FreeSpeeds PROVE frame # Request(5, WordsOf(<<speed>>))
        <4> DEFINE w == WordsOf(<<speed>>)
        <4> HIDE DEF w
        <4>1. Request(5, w).func = 5
          BY <3>1
        <4>2. frame # Request(5, w)
          BY <4>1
        <4> QED
          BY <4>2 DEF w
      <3> QED
        BY <3>2
    <2>3. CASE \E K \in Gains : frame = koef_w(K)
      <3>1. PICK K \in Gains : frame = koef_w(K)
        BY <2>3
      <3>2. frame.words = WordsOf(K)
        BY <3>1 DEF koef_w, Request
      <3> QED
        BY <3>2
    <2>4. CASE frame \in Others
      BY <1>1, <2>4, RegulationAssumption
    <2> QED
      BY <2>1, <2>2, <2>3, <2>4 DEF Frames
  <1>3. PICK K \in Gains : \A i \in 1..6 : frame.words[i] = WordsOf(K)[i]
    BY <1>2
  <1>4. K \in Triples
    BY RegulationAssumption DEF AllGains, Triples
  <1>5. koef_w(K).func = 3 /\ koef_w(K).argc = 6 /\ koef_w(K).words = WordsOf(K) /\ Len(WordsOf(K)) = 6
    BY <1>4, GainsSent DEF koef_w, Request
  <1>6. HeadIsGood(frame) /\ 6 <= ArgvSize /\ ArgvSize \in Nat
    BY GRPCServerAssumption DEF Decodes, HeadIsGood
  <1>7. HeadIsGood(koef_w(K)) /\ Decodes(koef_w(K))
    BY <1>5, <1>6 DEF Decodes, HeadIsGood
  <1>8. ArgvAfter(argv, koef_w(K)) = ArgvAfter(argv, frame)
    <2>1. ASSUME NEW i \in 1..ArgvSize
          PROVE  (IF i <= 6 /\ i <= Len(frame.words) THEN frame.words[i] ELSE argv[i]) =
                   (IF i <= 6 /\ i <= 6 THEN WordsOf(K)[i] ELSE argv[i])
      <3>1. CASE i <= 6
        <4>1. i \in 1..6 /\ i <= Len(frame.words)
          BY <1>1, <1>6, <3>1
        <4> QED
          BY <1>3, <3>1, <4>1
      <3>2. CASE ~(i <= 6)
        BY <3>2
      <3> QED
        BY <3>1, <3>2
    <2>2. ArgvAfter(argv, koef_w(K)) =
            [i \in 1..ArgvSize |-> IF i <= 6 /\ i <= 6 THEN WordsOf(K)[i] ELSE argv[i]]
      BY <1>5, <1>7 DEF ArgvAfter
    <2>3. ArgvAfter(argv, frame) =
            [i \in 1..ArgvSize |-> IF i <= 6 /\ i <= Len(frame.words) THEN frame.words[i] ELSE argv[i]]
      BY <1>6 DEF ArgvAfter
    <2> QED
      BY <2>1, <2>2, <2>3
  <1>9. \A i \in 1..6 : ArgvAfter(argv, frame)[i] = WordsOf(K)[i]
    <2> SUFFICES ASSUME NEW i \in 1..6 PROVE ArgvAfter(argv, frame)[i] = WordsOf(K)[i]
      OBVIOUS
    <2>1. i \in 1..ArgvSize /\ i <= 6 /\ i <= Len(frame.words)
      BY <1>1, <1>6
    <2> QED
      BY <1>3, <1>6, <2>1 DEF ArgvAfter
  <1>10. ArgvGains(ArgvAfter(argv, frame)) = ArgvGains(WordsOf(K))
    BY <1>9, GainsOfWords
  <1>11. ArgvGains(WordsOf(K)) = K
    BY <1>4, GainsSent
  <1> QED
    BY <1>5, <1>7, <1>8, <1>10, <1>11

\* A request that leaves the regulator and its gains alone.
LEMMA RegulatorLeft ==
  ASSUME RegInv, storing = StoreIdle, m_argv' \in [1..ArgvSize -> Words],
         UNCHANGED <<ctrlVars, m_speed_PV, pulses, heard, pidVars, m_K, output, eeprom, kept, torn>>,
         m_permanent_process_send' \in BOOLEAN, storing' \in {0, StoreIdle},
         GainsAgree', EventAgrees'
  PROVE  RegInv'
  <1>1. RegTypeOK /\ ValuesTyped /\ StoreFollows
    BY DEF RegInv, RegulatorTold
  <1>2. UNCHANGED <<mode, motor, m_speed_SP_free, setpoint, m_speed_PV, pulses, heard, m_pid,
                    m_pulses_sum, m_K, output, eeprom, kept, torn>>
    BY DEF ctrlVars, pidVars
  <1>3. storing' \in Cells \cup {StoreIdle}
    BY DEF Cells
  <1>4. RegTypeOK'
    BY <1>1, <1>2, <1>3 DEF RegTypeOK
  <1>5. ValuesTyped'
    BY <1>1, <1>2 DEF ValuesTyped
  <1>6. \A i \in Cells : ~(i < 0)
    BY DEF Cells
  <1>7. StoreFollows'
    BY <1>1, <1>2, <1>6 DEF StoreFollows
  <1> QED
    BY <1>4, <1>5, <1>7, RegInvOf

\* What is answered of the gains is what the regulator works with.
LEMMA ReadsAgree ==
  ASSUME RegInv, NEW func, NEW argc, P_rpc_func_reads(func, argc)
  PROVE  GainsAgree' /\ EventAgrees'
  <1>1. RegTypeOK /\ ValuesTyped /\ m_pid.K = m_K
    BY DEF RegInv, RegulatorTold, GainsAgree
  <1>2. m_pid' = m_pid /\ m_K' = m_K
    BY DEF P_rpc_func_reads, Answers, pidVars
  <1>3. m_K \in Triples /\ m_speed_SP_free \in Int /\ m_speed_PV \in Int
    BY <1>1, Widths DEF ValuesTyped, RegTypeOK
  <1>4. \/ sent' = Reply("INVALID_ARGUMENTS_AMOUNT", << >>)
        \/ sent' = Reply("OK", <<PulsesPerRev>>)
        \/ sent' = Reply("OK", <<mode>>)
        \/ sent' = Reply("OK", WordsOf(m_K))
        \/ sent' = Reply("OK", WordsOf(<<m_speed_SP_free>>))
        \/ sent' = Reply("OK", WordsOf(<<m_speed_PV>>))
    <2>1. CASE argc # 0
      BY <2>1 DEF P_rpc_func_reads, Answers
    <2>2. CASE argc = 0
      <3>1. func = 0 \/ func = 1 \/ func = 2 \/ func = 4 \/ func = 6
        BY DEF P_rpc_func_reads
      <3>2. sent' = Reply("OK", CASE func = 0 -> <<PulsesPerRev>>
                                  [] func = 1 -> <<mode>>
                                  [] func = 2 -> WordsOf(m_K)
                                  [] func = 4 -> WordsOf(<<m_speed_SP_free>>)
                                  [] func = 6 -> WordsOf(<<m_speed_PV>>))
        BY <2>2 DEF P_rpc_func_reads, Answers
      <3> QED
        BY <3>1, <3>2
    <2> QED
      BY <2>1, <2>2
  <1>5. CASE sent' = Reply("OK", WordsOf(m_K))
    <2>1. sent'.type = "REPLY" /\ sent'.resv = WordsOf(m_K)
      BY <1>5 DEF Reply
    <2>2. ArgvGains(WordsOf(m_K)) = m_K
      BY <1>3, GainsSent
    <2> QED
      BY <1>1, <1>2, <2>1, <2>2 DEF GainsAgree, EventAgrees
  <1>6. ASSUME NEW err, NEW resv, sent' = Reply(err, resv), Len(resv) # 6
        PROVE  GainsAgree' /\ EventAgrees'
    BY <1>1, <1>2, <1>6, QuietAgrees DEF Reply
  <1>7. /\ Len(<< >>) # 6 /\ Len(<<PulsesPerRev>>) # 6 /\ Len(<<mode>>) # 6
        /\ Len(WordsOf(<<m_speed_SP_free>>)) # 6 /\ Len(WordsOf(<<m_speed_PV>>)) # 6
    <2>1. /\ Len(WordsOf(<<m_speed_SP_free>>)) = 2
          /\ Len(WordsOf(<<m_speed_PV>>)) = 2
      BY <1>3, OneValue
    <2> QED
      BY <2>1
  <1> QED
    BY <1>4, <1>5, <1>6, <1>7

\* New gains start the regulator anew.
LEMMA KoefKeeps ==
  ASSUME RegInv, NEW frame \in Frames, Handle(frame), Decodes(frame),
         P_rpc_func_03_koef_w(frame.func, frame.argc), m_argv' \in [1..ArgvSize -> Words]
  PROVE  RegInv'
  <1>1. RegTypeOK /\ ValuesTyped /\ StoreFollows /\ m_pid.K = m_K
    BY DEF RegInv, RegulatorTold, GainsAgree
  <1>2. /\ storing = StoreIdle /\ m_argv' = ArgvAfter(m_argv, frame)
        /\ m_speed_PV' = m_speed_PV /\ output' = output
    BY DEF Handle
  <1>3. CASE \E err : Answers(err, << >>)
    <2>1. PICK err : Answers(err, << >>)
      BY <1>3
    <2>2. GainsAgree' /\ EventAgrees'
      BY <1>1, <2>1, DoneSent DEF Answers, pidVars
    <2>3. m_permanent_process_send' \in BOOLEAN
      BY <1>1, <2>1 DEF Answers, RegTypeOK
    <2> QED
      BY <1>2, <2>1, <2>2, <2>3, RegulatorLeft DEF Answers, storeVars
  <1>4. CASE /\ frame.func = 3 /\ frame.argc = 6
             /\ m_K' = ArgvGains(m_argv')
             /\ m_pid' = PidReset(PidGains(m_pid, m_K'))
             /\ m_pulses_sum' = FastSum_reset(m_pulses_sum)
             /\ sent' = Reply("OK", << >>)
             /\ UNCHANGED <<ctrlVars, pulses, heard, m_permanent_process_send, storeVars>>
    <2>1. UNCHANGED <<mode, motor, m_speed_SP_free, setpoint, m_speed_PV, pulses, heard, output,
                      m_permanent_process_send, eeprom, storing, kept, torn>>
      BY <1>2, <1>4 DEF ctrlVars, storeVars
    <2>2. m_K' \in Triples
      <3>1. PICK K \in Gains : ArgvGains(ArgvAfter(m_argv, frame)) = K
        BY <1>4, GainsAsked
      <3>2. K \in Triples
        BY RegulationAssumption DEF AllGains, Triples
      <3> QED
        BY <1>2, <1>4, <3>1, <3>2
    <2>3. m_pid' \in Pids /\ m_pid'.K = m_K'
      <3> DEFINE K == m_K'
                 pid == PidGains(m_pid, K)
      <3>1. m_pid \in Pids /\ K \in Triples
        BY <1>1, <2>2 DEF ValuesTyped
      <3>2. m_pid' = PidReset(pid)
        BY <1>4
      <3> HIDE DEF K
      <3>3. pid \in Pids /\ pid.K = K
        BY <3>1, PidResets
      <3> HIDE DEF pid
      <3>4. PidReset(pid) \in Pids /\ PidReset(pid).K = pid.K
        BY <3>1, <3>3, PidResets
      <3> QED
        BY <3>2, <3>3, <3>4 DEF K
    <2>4. m_pulses_sum' \in Sums
      BY <1>1, <1>4, SumResets DEF ValuesTyped
    <2>5. RegTypeOK'
      <3>1. m_pid'.u_prev \in Fixeds /\ m_pulses_sum'.size \in 0..Capacity /\ m_pulses_sum'.index \in Slots
        BY <2>3, <2>4 DEF Pids, Sums
      <3> QED
        BY <1>1, <2>1, <3>1 DEF RegTypeOK
    <2>6. ValuesTyped'
      BY <1>1, <2>1, <2>2, <2>3, <2>4 DEF ValuesTyped
    <2>7. StoreFollows'
      BY <1>1, <1>2, <1>4, StoreLeft
    <2>8. GainsAgree' /\ EventAgrees'
      BY <1>4, <2>3, DoneSent
    <2> QED
      BY <2>5, <2>6, <2>7, <2>8, RegInvOf
  <1> QED
    BY <1>3, <1>4 DEF P_rpc_func_03_koef_w

LEMMA SpeedKeeps ==
  ASSUME RegInv, NEW frame \in Frames, Handle(frame), Decodes(frame),
         P_rpc_func_05_speed_SP_w(frame.func, frame.argc), m_argv' \in [1..ArgvSize -> Words]
  PROVE  RegInv'
  <1>1. RegTypeOK /\ ValuesTyped /\ StoreFollows /\ m_pid.K = m_K
    BY DEF RegInv, RegulatorTold, GainsAgree
  <1>2. storing = StoreIdle /\ m_speed_PV' = m_speed_PV /\ output' = output
    BY DEF Handle
  <1> DEFINE speed == BUILD_32(m_argv'[1], m_argv'[2])
  <1>3. CASE \E err : Answers(err, << >>)
    <2>1. PICK err : Answers(err, << >>)
      BY <1>3
    <2>2. GainsAgree' /\ EventAgrees'
      BY <1>1, <2>1, DoneSent DEF Answers, pidVars
    <2>3. m_permanent_process_send' \in BOOLEAN
      BY <1>1, <2>1 DEF Answers, RegTypeOK
    <2> QED
      BY <1>2, <2>1, <2>2, <2>3, RegulatorLeft DEF Answers, storeVars
  <1>4. CASE /\ frame.argc = 2
             /\ m_speed_SP_free' = speed
             /\ setpoint' = IF mode = "SERVICE_MODE3_STARTED" THEN speed ELSE setpoint
             /\ sent' = Reply("OK", << >>)
             /\ MotorLeft
             /\ UNCHANGED <<mode, m_K, m_permanent_process_send, storeVars>>
    <2>1. UNCHANGED <<mode, motor, m_speed_PV, pulses, heard, m_pid, m_pulses_sum, m_K, output,
                      m_permanent_process_send, eeprom, storing, kept, torn>>
      BY <1>2, <1>4 DEF MotorLeft, pidVars, storeVars
    <2>2. speed \in Fixeds
      <3>1. 1 \in 1..ArgvSize /\ 2 \in 1..ArgvSize
        BY <1>4, GRPCServerAssumption DEF Decodes, HeadIsGood
      <3>2. m_argv'[1] \in Int /\ m_argv'[2] \in Int /\ Half \in Int
        BY <3>1, Widths DEF Words
      <3>3. m_argv'[1] * Half + m_argv'[2] \in Int
        BY <3>2
      <3> QED
        BY <3>3, ToFixedType DEF BUILD_32
    <2> HIDE DEF speed
    <2>3. m_speed_SP_free' \in Fixeds /\ setpoint' \in Fixeds
      BY <1>1, <1>4, <2>2 DEF RegTypeOK
    <2>4. RegTypeOK'
      BY <1>1, <2>1, <2>3 DEF RegTypeOK
    <2>5. ValuesTyped'
      BY <1>1, <2>1 DEF ValuesTyped
    <2>6. StoreFollows'
      BY <1>1, <1>4, StoreLeft
    <2>7. GainsAgree' /\ EventAgrees'
      BY <1>1, <1>4, <2>1, DoneSent
    <2> QED
      BY <2>4, <2>5, <2>6, <2>7, RegInvOf
  <1> QED
    BY <1>3, <1>4 DEF P_rpc_func_05_speed_SP_w

LEMMA HandleKeeps ==
  ASSUME RegInv, NEW frame \in Frames, Handle(frame)
  PROVE  RegInv'
  <1>1. RegTypeOK /\ ValuesTyped /\ m_pid.K = m_K
    BY DEF RegInv, RegulatorTold, GainsAgree
  <1>2. /\ storing = StoreIdle /\ m_argv' = ArgvAfter(m_argv, frame)
        /\ m_speed_PV' = m_speed_PV /\ output' = output
    BY DEF Handle
  <1>3. m_argv' \in [1..ArgvSize -> Words]
    BY <1>1, <1>2, ArgvKept DEF ValuesTyped
  <1>4. CASE ~Decodes(frame)
    <2>1. /\ sent' = Nothing
          /\ UNCHANGED <<ctrlVars, pulses, heard, pidVars, m_K, m_permanent_process_send, storeVars>>
      BY <1>4 DEF Handle
    <2>2. GainsAgree' /\ EventAgrees'
      BY <1>1, <2>1, NothingSent DEF pidVars
    <2>3. m_permanent_process_send' \in BOOLEAN
      BY <1>1, <2>1 DEF RegTypeOK
    <2> QED
      BY <1>2, <1>3, <2>1, <2>2, <2>3, RegulatorLeft DEF storeVars
  <1>5. ASSUME NEW err, NEW resv, Answers(err, resv), GainsAgree' /\ EventAgrees'
        PROVE  RegInv'
    <2>1. m_permanent_process_send' \in BOOLEAN
      BY <1>1, <1>5 DEF Answers, RegTypeOK
    <2> QED
      BY <1>2, <1>3, <1>5, <2>1, RegulatorLeft DEF Answers, storeVars
  <1>6. ASSUME NEW err, Answers(err, << >>)
        PROVE  RegInv'
    <2>1. GainsAgree' /\ EventAgrees'
      BY <1>1, <1>6, DoneSent DEF Answers, pidVars
    <2> QED
      BY <1>5, <1>6, <2>1
  <1>7. CASE P_rpc_func_reads(frame.func, frame.argc)
    <2>1. GainsAgree' /\ EventAgrees'
      BY <1>7, ReadsAgree
    <2>2. \E err, resv : Answers(err, resv)
      BY <1>7 DEF P_rpc_func_reads
    <2> QED
      BY <1>5, <2>1, <2>2
  <1>8. CASE P_rpc_func_process(frame.func, frame.argc)
    <2>1. CASE frame.argc # 0
      BY <1>6, <1>8, <2>1 DEF P_rpc_func_process
    <2>2. CASE frame.argc = 0
      <3>1. /\ m_permanent_process_send' \in BOOLEAN /\ sent' = Reply("OK", << >>)
            /\ UNCHANGED <<ctrlVars, pulses, heard, pidVars, m_K, storeVars>>
        BY <1>8, <2>2 DEF P_rpc_func_process
      <3>2. GainsAgree' /\ EventAgrees'
        BY <1>1, <3>1, DoneSent DEF pidVars
      <3> QED
        BY <1>2, <1>3, <3>1, <3>2, RegulatorLeft DEF storeVars
    <2> QED
      BY <2>1, <2>2
  <1>9. CASE P_rpc_func_09_conf_store(frame.func, frame.argc)
    <2>1. CASE \E err : Answers(err, << >>)
      BY <1>6, <2>1
    <2>2. CASE /\ storing' = 0 /\ sent' = Nothing
               /\ UNCHANGED <<ctrlVars, pulses, heard, pidVars, m_K, m_permanent_process_send,
                              eeprom, kept, torn>>
      <3>1. GainsAgree' /\ EventAgrees'
        BY <1>1, <2>2, NothingSent DEF pidVars
      <3>2. m_permanent_process_send' \in BOOLEAN
        BY <1>1, <2>2 DEF RegTypeOK
      <3> QED
        BY <1>2, <1>3, <2>2, <3>1, <3>2, RegulatorLeft
    <2> QED
      BY <1>9, <2>1, <2>2 DEF P_rpc_func_09_conf_store
  <1>10. CASE Decodes(frame) /\ P_rpc_func_03_koef_w(frame.func, frame.argc)
    BY <1>3, <1>10, KoefKeeps
  <1>11. CASE Decodes(frame) /\ P_rpc_func_05_speed_SP_w(frame.func, frame.argc)
    BY <1>3, <1>11, SpeedKeeps
  <1> QED
    BY <1>4, <1>7, <1>8, <1>9, <1>10, <1>11 DEF Handle

LEMMA NextRegInv == RegInv /\ [RegNext]_regVars => RegInv'
  <1> SUFFICES ASSUME RegInv, [RegNext]_regVars PROVE RegInv'
    OBVIOUS
  <1>1. CASE UNCHANGED regVars
    BY <1>1 DEF regVars, ctrlVars, pidVars, storeVars, tellings, RegInv, RegulatorTold, RegTypeOK,
       GainsAgree, EventAgrees, ValuesTyped, StoreFollows
  <1>2. CASE \E frame \in Frames : Handle(frame)
    BY <1>2, HandleKeeps
  <1> QED
    BY <1>1, <1>2, PulseKeeps, ButtonKeeps, TaskKeeps, StoreKeeps, PowerCutKeeps DEF RegNext

LEMMA RegInvHolds == RegSpec => []RegInv
  BY InitRegInv, NextRegInv, PTL DEF RegSpec

\* What the replies and the events of a run tell of the regulator is what it
\* works with, for every width of the numbers, every gains and set points, and
\* every frame, malformed ones among them.
THEOREM RegulatorToldHolds == RegSpec => []RegulatorTold
  <1>1. RegInv => RegulatorTold
    BY DEF RegInv
  <1> QED
    BY <1>1, RegInvHolds, PTL

\* A store that has been finished is found again by the next start, however
\* many times the power has failed before it and in between.
THEOREM StoreFoundAgain == RegSpec => []StoredIsRestored
  <1>1. RegInv => StoredIsRestored
    <2> SUFFICES ASSUME RegInv, storing = StoreIdle, ~torn
                 PROVE  P_config_load(eeprom) =
                          IF \A i \in Cells : ConfOf(kept)[i] = Erased THEN DefaultGains ELSE kept
      BY DEF StoredIsRestored
    <2>1. kept \in Triples
      BY DEF RegInv, ValuesTyped
    <2>2. GainsOf(ConfOf(kept)) = kept
      BY <2>1, GainsStored
    <2>3. eeprom = ConfOf(kept) \/ (kept = DefaultGains /\ eeprom = [i \in Cells |-> Erased])
      BY DEF RegInv, StoreFollows
    <2>4. CASE eeprom = ConfOf(kept)
      BY <2>2, <2>4 DEF P_config_load
    <2>5. CASE kept = DefaultGains /\ eeprom = [i \in Cells |-> Erased]
      BY <2>5 DEF P_config_load
    <2> QED
      BY <2>3, <2>4, <2>5
  <1> QED
    BY <1>1, RegInvHolds, PTL

\* Gains change by a start or by one whole request for them, never by what an
\* earlier or a refused request has left in the buffer of the arguments.
THEOREM GainsWhole == RegSpec => GainsComeWhole
  <1>1. ASSUME [RegNext]_regVars, m_K' # m_K
        PROVE  \/ mode' = "OTHER_STOPPED" /\ m_K' = P_config_load(eeprom)
               \/ mode \in Service3 /\ \E K \in Gains : m_K' = K /\ Handle(koef_w(K))
    <2>1. CASE PowerCut
      BY <2>1 DEF PowerCut, Boot
    <2>2. CASE \E frame \in Frames : Handle(frame)
      <3>1. PICK frame \in Frames : Handle(frame)
        BY <2>2
      <3>2. Decodes(frame) /\ P_rpc_func_03_koef_w(frame.func, frame.argc)
        BY <1>1, <3>1 DEF Handle, P_rpc_func_reads, P_rpc_func_05_speed_SP_w, P_rpc_func_process,
           P_rpc_func_09_conf_store, Answers
      <3>3. /\ mode \in Service3 /\ frame.func = 3 /\ frame.argc = 6
            /\ m_K' = ArgvGains(m_argv')
        BY <1>1, <3>2 DEF P_rpc_func_03_koef_w, Answers
      <3>4. m_argv' = ArgvAfter(m_argv, frame)
        BY <3>1 DEF Handle
      <3>5. PICK K \in Gains :
              /\ koef_w(K).func = 3 /\ koef_w(K).argc = 6 /\ Decodes(koef_w(K))
              /\ ArgvAfter(m_argv, koef_w(K)) = ArgvAfter(m_argv, frame)
              /\ ArgvGains(ArgvAfter(m_argv, frame)) = K
        BY <3>2, <3>3, GainsAsked
      <3>6. Handle(koef_w(K))
        BY <3>1, <3>2, <3>3, <3>5 DEF Handle
      <3> QED
        BY <3>3, <3>4, <3>5, <3>6
    <2>3. CASE \/ Pulse \/ ButtonOrPotentiometer \/ P_task_ctrl \/ P_config_store
               \/ UNCHANGED regVars
      BY <1>1, <2>3 DEF Pulse, ButtonOrPotentiometer, P_task_ctrl, P_config_store, regVars
    <2> QED
      BY <1>1, <2>1, <2>2, <2>3 DEF RegNext
  <1>2. [RegNext]_regVars =>
          [m_K' # m_K =>
             \/ mode' = "OTHER_STOPPED" /\ m_K' = P_config_load(eeprom)
             \/ mode \in Service3 /\ \E K \in Gains : m_K' = K /\ Handle(koef_w(K))]_regVars
    BY <1>1
  <1> QED
    BY <1>2, PTL DEF RegSpec, GainsComeWhole

-----------------------------------------------------------------------------
(***************************************************************************)
(* The recurrence and the regulator of the book.  PidInv carries the error *)
(* of the products exactly: what the book asks for is the control kept, a  *)
(* number of turns of the width, and a rest that grows by less than three  *)
(* units a period.  The errors are the true ones because the window has    *)
(* one place, which holds the pulses of the last period.                   *)
(***************************************************************************)

LEMMA FixedStays ==
  ASSUME NEW x \in Fixeds
  PROVE  ToFixed(x) = x
  <1> DEFINE M == FixedMod
             N == FixedMin
  <1>1. M \in Nat \ {0} /\ N \in Int /\ x \in N..(N + M - 1)
    BY Widths DEF Fixeds
  <1>2. ToFixed(x) = ((x - N) % M) + N
    BY DEF ToFixed
  <1> HIDE DEF M, N
  <1>3. x - N \in 0..(M - 1)
    BY <1>1
  <1>4. (x - N) % M = x - N
    BY <1>1, <1>3
  <1> QED
    BY <1>1, <1>2, <1>4

\* What is cut to the width differs by turns of it.
LEMMA ToFixedIs ==
  ASSUME NEW x \in Int
  PROVE  \E j \in Int : ToFixed(x) = x + FixedMod * j
  <1> DEFINE M == FixedMod
             N == FixedMin
             d == (x - N) \div M
             r == (x - N) % M
  <1>1. M \in Nat \ {0} /\ N \in Int
    BY Widths
  <1>2. ToFixed(x) = r + N
    BY DEF ToFixed
  <1> HIDE DEF M, N
  <1>3. d \in Int /\ r \in Int /\ x - N = M * d + r
    BY <1>1
  <1> HIDE DEF d, r
  <1>4. -d \in Int /\ M * (-d) = -(M * d) /\ M * d \in Int
    BY <1>1, <1>3
  <1>5. r + N = x + M * (-d)
    BY <1>1, <1>3, <1>4
  <1> QED
    BY <1>2, <1>4, <1>5 DEF M

\* A product drops less than a unit.
LEMMA MulIs ==
  ASSUME NEW a \in Int, NEW b \in Int
  PROVE  \E j \in Int, r \in 0..(FracUnit - 1) :
           a * b = FracUnit * FIXED_MUL(a, b) + (FracUnit * FixedMod) * j + r
  <1> DEFINE F == FracUnit
             M == FixedMod
             y == a * b
             q == y \div F
             r == y % F
             m == FIXED_MUL(a, b)
  <1>1. F \in Nat \ {0} /\ M \in Nat \ {0} /\ y \in Int
    BY Widths
  <1>2. m = ToFixed(q)
    BY DEF FIXED_MUL
  <1> HIDE DEF y, m, F
  <1>3. q \in Int /\ r \in 0..(F - 1) /\ y = F * q + r
    BY <1>1
  <1> HIDE DEF q, r
  <1>4. PICK j \in Int : m = q + M * j
    BY <1>2, <1>3, ToFixedIs
  <1> HIDE DEF M
  <1>5. m \in Int /\ M * j \in Int
    BY <1>1, <1>3, <1>4
  <1>6. F * q = F * m + (F * M) * (-j)
    <2>1. q = m + M * (-j)
      BY <1>1, <1>3, <1>4
    <2>2. F * (m + M * (-j)) = F * m + (F * M) * (-j)
      BY <1>1, <1>5
    <2> QED
      BY <2>1, <2>2
  <1>7. y = F * m + (F * M) * (-j) + r /\ -j \in Int
    BY <1>1, <1>3, <1>6
  <1> QED
    BY <1>3, <1>7 DEF y, F, M, m

AddsUp(u, P, I, D) ==
  \E j \in Int : FIXED_ADD(FIXED_ADD(P, FIXED_ADD(u, I)), D) = u + P + I + D + FixedMod * j

\* Three sums one after the other wrap like one.
LEMMA AddedUp ==
  ASSUME NEW u \in Int, NEW P \in Int, NEW I \in Int, NEW D \in Int
  PROVE  AddsUp(u, P, I, D)
  <1> DEFINE M == FixedMod
             x == ToFixed(u + I)
             y == ToFixed(P + x)
             z == ToFixed(y + D)
  <1>1. M \in Nat \ {0}
    BY Widths
  <1>2. PICK j1 \in Int : x = u + I + M * j1
    BY ToFixedIs
  <1> HIDE DEF x
  <1>3. x \in Int
    BY <1>1, <1>2
  <1>4. PICK j2 \in Int : y = P + x + M * j2
    BY <1>3, ToFixedIs
  <1> HIDE DEF y
  <1>5. y \in Int
    BY <1>1, <1>3, <1>4
  <1>6. PICK j3 \in Int : z = y + D + M * j3
    BY <1>5, ToFixedIs
  <1>7. FIXED_ADD(FIXED_ADD(P, FIXED_ADD(u, I)), D) = z
    BY DEF FIXED_ADD, z, y, x
  <1> HIDE DEF z, M
  <1>8. j1 + j2 + j3 \in Int /\ M * (j1 + j2 + j3) = M * j1 + M * j2 + M * j3
    BY <1>1
  <1>9. z = u + P + I + D + M * (j1 + j2 + j3)
    <2>1. M * j1 \in Int /\ M * j2 \in Int /\ M * j3 \in Int
      BY <1>1
    <2> QED
      BY <1>2, <1>4, <1>6, <1>8, <2>1
  <1> QED
    BY <1>7, <1>8, <1>9 DEF M, AddsUp

\* Differences of differences wrap like one, too.
LEMMA Differences ==
  ASSUME NEW e \in Fixeds, NEW e1 \in Fixeds, NEW e2 \in Fixeds,
         e - e1 \in Fixeds, e - 2 * e1 + e2 \in Fixeds
  PROVE  /\ FIXED_SUB(e, e1) = e - e1
         /\ FIXED_ADD(FIXED_SUB(e, FIXED_ADD(e1, e1)), e2) = e - 2 * e1 + e2
  <1> DEFINE M == FixedMod
             N == FixedMin
             x == ToFixed(e1 + e1)
             y == ToFixed(e - x)
             z == ToFixed(y + e2)
             d == e - 2 * e1 + e2
  <1>1. M \in Nat \ {0} /\ N \in Int /\ Fixeds = N..(N + M - 1) /\ e \in Int /\ e1 \in Int /\ e2 \in Int
    BY Widths DEF Fixeds
  <1>2. FIXED_SUB(e, e1) = e - e1
    BY FixedStays DEF FIXED_SUB
  <1>3. PICK j1 \in Int : x = e1 + e1 + M * j1
    <2>1. e1 + e1 \in Int
      BY <1>1
    <2> QED
      BY <2>1, ToFixedIs
  <1> HIDE DEF x
  <1>4. x \in Int /\ M * j1 \in Int
    BY <1>1, <1>3
  <1>5. PICK j2 \in Int : y = e - x + M * j2
    <2>1. e - x \in Int
      BY <1>1, <1>4
    <2> QED
      BY <2>1, ToFixedIs
  <1> HIDE DEF y
  <1>6. y \in Int /\ M * j2 \in Int
    BY <1>1, <1>4, <1>5
  <1>7. y + e2 \in Int
    BY <1>1, <1>6
  <1>8. PICK j3 \in Int : z = y + e2 + M * j3
    BY <1>7, ToFixedIs
  <1>9. z \in N..(N + M - 1) /\ d \in N..(N + M - 1)
    BY <1>1, <1>7, ToFixedType
  <1>10. FIXED_ADD(FIXED_SUB(e, FIXED_ADD(e1, e1)), e2) = z
    BY DEF FIXED_ADD, FIXED_SUB, z, y, x
  <1> HIDE DEF z, M, N
  <1>11. M * j3 \in Int /\ M * (j2 + j3 - j1) = M * j2 + M * j3 - M * j1
    BY <1>1
  <1> DEFINE k == j2 + j3 - j1
  <1>12. z = d + M * k /\ k \in Int
    BY <1>1, <1>3, <1>4, <1>5, <1>6, <1>8, <1>11
  <1> HIDE DEF k, d
  <1>13. k = 0
    <2>1. M * k < M /\ M * k > -M /\ M * k \in Int
      BY <1>1, <1>9, <1>12
    <2>2. ASSUME k >= 1 PROVE FALSE
      <3>1. M * k = M * (k - 1) + M /\ M * (k - 1) \in Nat
        BY <1>1, <1>12, <2>2
      <3> QED
        BY <1>1, <2>1, <3>1
    <2>3. ASSUME k <= -1 PROVE FALSE
      <3>1. M * k = -(M * (-k - 1)) - M /\ M * (-k - 1) \in Nat
        BY <1>1, <1>12, <2>3
      <3> QED
        BY <1>1, <2>1, <3>1
    <2> QED
      BY <1>12, <2>2, <2>3
  <1>14. z = d
    BY <1>1, <1>9, <1>12, <1>13
  <1> QED
    BY <1>2, <1>10, <1>14 DEF d

Controlled(K1, K2, K3, x, e, y, u) ==
  FIXED_ADD(FIXED_ADD(FIXED_MUL(K1, x), FIXED_ADD(u, FIXED_MUL(K2, e))), FIXED_MUL(K3, y))

Adds(K1, K2, K3, x, e, y, u, v) ==
  \E j \in Int, r \in 0..(3 * (FracUnit - 1)) :
    K1 * x + K2 * e + K3 * y = FracUnit * v - FracUnit * u + (FracUnit * FixedMod) * j + r

\* Three products added to a control: what is dropped and what has wrapped.
LEMMA ThreeProducts ==
  ASSUME NEW K1 \in Int, NEW K2 \in Int, NEW K3 \in Int,
         NEW x \in Int, NEW e \in Int, NEW y \in Int, NEW u \in Int
  PROVE  /\ Controlled(K1, K2, K3, x, e, y, u) \in Int
         /\ Adds(K1, K2, K3, x, e, y, u, Controlled(K1, K2, K3, x, e, y, u))
  <1> DEFINE F == FracUnit
             M == FixedMod
             G == F * M
             P == FIXED_MUL(K1, x)
             I == FIXED_MUL(K2, e)
             D == FIXED_MUL(K3, y)
             v == FIXED_ADD(FIXED_ADD(P, FIXED_ADD(u, I)), D)
             p1 == K1 * x
             p2 == K2 * e
             p3 == K3 * y
  <1>1. F \in Nat \ {0} /\ M \in Nat \ {0} /\ Fixeds \subseteq Int /\ G \in Nat
    <2>1. F \in Nat \ {0} /\ M \in Nat \ {0} /\ Fixeds \subseteq Int
      BY Widths
    <2> QED
      BY <2>1
  <1>2. P \in Int /\ I \in Int /\ D \in Int /\ p1 \in Int /\ p2 \in Int /\ p3 \in Int
    <2>1. P \in Fixeds /\ I \in Fixeds /\ D \in Fixeds
      BY FixedTypes
    <2>2. P \in Int /\ I \in Int /\ D \in Int
      <3> HIDE DEF P, I, D, p1, p2, p3
      <3> QED
        BY <1>1, <2>1
    <2> QED
      BY <2>2
  <1>3. PICK jP \in Int, rP \in 0..(F - 1) : p1 = F * P + G * jP + rP
    BY MulIs
  <1>4. PICK jI \in Int, rI \in 0..(F - 1) : p2 = F * I + G * jI + rI
    BY MulIs
  <1>5. PICK jD \in Int, rD \in 0..(F - 1) : p3 = F * D + G * jD + rD
    BY MulIs
  <1> HIDE DEF P, I, D, p1, p2, p3, F, G
  <1>6. PICK j \in Int : v = u + P + I + D + M * j
    <2>1. AddsUp(u, P, I, D)
      BY <1>2, AddedUp
    <2> QED
      BY <2>1 DEF AddsUp
  <1> HIDE DEF v, M
  <1>7. v \in Int
    <2>1. M * j \in Int
      BY <1>1
    <2> QED
      BY <1>2, <1>6, <2>1
  <1> DEFINE i == jP + jI + jD - j
             r == rP + rI + rD
  <1>8. i \in Int /\ r \in 0..(3 * (F - 1))
    BY <1>1
  <1>9. F * v = F * u + F * P + F * I + F * D + G * j
    <2>1. F * (M * j) = G * j
      BY <1>1 DEF G
    <2>2. M * j \in Int
      BY <1>1
    <2> DEFINE m == M * j
    <2> HIDE DEF m, G
    <2>3. F * (u + P + I + D + m) = F * u + F * P + F * I + F * D + F * m
      BY <1>1, <1>2, <2>2 DEF m
    <2> QED
      BY <1>6, <2>1, <2>3 DEF m
  <1> HIDE DEF G
  <1>10. G * i = G * jP + G * jI + G * jD - G * j
    BY <1>1
  <1>11. /\ F * u \in Int /\ F * P \in Int /\ F * I \in Int /\ F * D \in Int /\ F * v \in Int
         /\ G * jP \in Int /\ G * jI \in Int /\ G * jD \in Int /\ G * j \in Int
    BY <1>1, <1>2, <1>7
  <1>12. p1 + p2 + p3 = F * v - F * u + G * i + r
    <2> HIDE DEF i
    <2> QED
      BY <1>3, <1>4, <1>5, <1>9, <1>10, <1>11
  <1>13. \E jj \in Int, rr \in 0..(3 * (F - 1)) : p1 + p2 + p3 = F * v - F * u + G * jj + rr
    BY <1>8, <1>12
  <1> QED
    <2>1. v = Controlled(K1, K2, K3, x, e, y, u)
      BY DEF v, P, I, D, Controlled
    <2>2. Adds(K1, K2, K3, x, e, y, u, v)
      BY <1>13 DEF F, M, G, p1, p2, p3, Adds
    <2> QED
      BY <1>7, <2>1, <2>2

\* What one calculation adds to the control, while the errors fit.
LEMMA PidStep ==
  ASSUME NEW pid \in Pids, NEW sp \in Fixeds, NEW pv \in Fixeds, NEW e, e = sp - pv, e \in Fixeds,
         e - pid.error_1 \in Fixeds, e - 2 * pid.error_1 + pid.error_2 \in Fixeds
  PROVE  \E v \in Int :
           /\ PidCalculate(pid, sp, pv)
                = [pid EXCEPT !.u_prev = v, !.error_2 = pid.error_1, !.error_1 = e]
           /\ Adds(pid.K[1], pid.K[2], pid.K[3], e - pid.error_1, e,
                   e - 2 * pid.error_1 + pid.error_2, pid.u_prev, v)
  <1>1. Fixeds \subseteq Int
    BY Widths
  <1> DEFINE K1 == pid.K[1]
             K2 == pid.K[2]
             K3 == pid.K[3]
             e1 == pid.error_1
             e2 == pid.error_2
             u == pid.u_prev
             x == e - e1
             y == e - 2 * e1 + e2
             v == Controlled(K1, K2, K3, x, e, y, u)
  <1>2. FIXED_SUB(sp, pv) = e
    BY FixedStays DEF FIXED_SUB
  <1>3. pid.K \in Triples /\ e1 \in Fixeds /\ e2 \in Fixeds /\ u \in Fixeds
    BY DEF Pids
  <1>4. K1 \in Fixeds /\ K2 \in Fixeds /\ K3 \in Fixeds
    BY <1>3 DEF Triples
  <1>5. x \in Int /\ y \in Int /\ e \in Int /\ u \in Int /\ K1 \in Int /\ K2 \in Int /\ K3 \in Int
    <2> HIDE DEF K1, K2, K3, e1, e2, u
    <2> QED
      BY <1>1, <1>3, <1>4
  <1>6. FIXED_SUB(e, e1) = x /\ FIXED_ADD(FIXED_SUB(e, FIXED_ADD(e1, e1)), e2) = y
    <2>1. e1 \in Fixeds /\ e2 \in Fixeds /\ e - e1 \in Fixeds /\ e - 2 * e1 + e2 \in Fixeds
      BY <1>3
    <2> HIDE DEF e1, e2
    <2> QED
      BY <2>1, Differences
  <1>7. PidCalculate(pid, sp, pv) = [pid EXCEPT !.u_prev = v, !.error_2 = e1, !.error_1 = e]
    <2> HIDE DEF x, y
    <2> QED
      BY <1>2, <1>6 DEF PidCalculate, Controlled
  <1>8. v \in Int /\ Adds(K1, K2, K3, x, e, y, u, v)
    <2> HIDE DEF x, y, K1, K2, K3, u
    <2> QED
      BY <1>5, ThreeProducts
  <1> HIDE DEF v
  <1> QED
    BY <1>7, <1>8

WindowHolds ==
  m_pulses_sum.sum = IF m_pulses_sum.size = 1 THEN m_pulses_sum.items[0] ELSE 0

Recurrence ==
  /\ m_pid.error_1 = Error(errs, Len(errs)) /\ m_pid.error_2 = Error(errs, Len(errs) - 1)
  /\ \E j \in Int, r \in 0..(3 * (FracUnit - 1) * Len(errs)) :
       Ideal(m_K, errs) = FracUnit * m_pid.u_prev + (FracUnit * FixedMod) * j + r

PidInv ==
  /\ errs \in Seq(Int)
  /\ pulses = heard /\ heard \in 0..PulsesMax
  /\ WindowHolds
  /\ ErrorsFit(errs) => Recurrence

LEMMA NothingYet ==
  ASSUME NEW K \in Triples
  PROVE  Ideal(K, << >>) = 0 /\ Error(<< >>, 0) = 0 /\ Error(<< >>, -1) = 0
  <1>1. Total(<< >>) = 0 /\ Len(<< >>) = 0 /\ Error(<< >>, 0) = 0 /\ Error(<< >>, 0 - 1) = 0
    BY TotalEmpty DEF Error
  <1>2. K[1] \in Fixeds /\ K[2] \in Fixeds /\ K[3] \in Fixeds
    BY DEF Triples
  <1>3. K[1] \in Int /\ K[2] \in Int /\ K[3] \in Int
    BY <1>2, Widths
  <1>4. Ideal(K, << >>) = K[1] * 0 + K[2] * 0 + K[3] * (0 - 0)
    BY <1>1 DEF Ideal
  <1> QED
    BY <1>1, <1>3, <1>4

\* A restart: no errors, and nothing is asked for.
LEMMA PidStarts ==
  ASSUME errs' = << >>, m_pid'.u_prev = 0, m_pid'.error_1 = 0, m_pid'.error_2 = 0,
         m_pulses_sum'.size = 0, m_pulses_sum'.sum = 0,
         pulses' = heard', heard' \in 0..PulsesMax, m_K' \in Triples
  PROVE  PidInv'
  <1>1. FracUnit \in Nat \ {0} /\ FixedMod \in Nat \ {0} /\ Fixeds \subseteq Int
    BY Widths
  <1>2. Len(errs') = 0 /\ errs' \in Seq(Int) /\ Total(errs') = 0
    BY TotalEmpty
  <1>3. errs' = << >> /\ Error(errs', 0) = 0 /\ Error(errs', -1) = 0 /\ 0 - 1 = -1
    BY NothingYet
  <1>4. Ideal(m_K', errs') = 0
    <2> DEFINE K == m_K'
    <2>1. K \in Triples
      OBVIOUS
    <2> HIDE DEF K
    <2>2. Ideal(K, << >>) = 0
      BY <2>1, NothingYet
    <2> QED
      BY <1>3, <2>2 DEF K
  <1>5. Recurrence'
    <2> DEFINE F == FracUnit
               N == FracUnit * FixedMod
    <2>1. F \in Nat \ {0} /\ N \in Nat /\ 3 * (F - 1) * 0 = 0
      BY <1>1
    <2> HIDE DEF F, N
    <2>2. 0 = F * 0 + N * 0 + 0 /\ 0 \in 0..0
      BY <2>1
    <2>3. \E j \in Int, r \in 0..(3 * (F - 1) * Len(errs')) : Ideal(m_K', errs') = F * m_pid'.u_prev + N * j + r
      BY <1>2, <1>4, <2>1, <2>2
    <2> QED
      BY <1>2, <1>3, <2>3 DEF Recurrence, F, N
  <1> QED
    BY <1>2, <1>5 DEF PidInv, WindowHolds

LEMMA PidLeft ==
  ASSUME PidInv, UNCHANGED <<pidVars, m_K>>, pulses' = heard', heard' \in 0..PulsesMax
  PROVE  PidInv'
  BY DEF PidInv, WindowHolds, Recurrence, pidVars

\* The window with the pulses of the period alone: the speed measured is theirs.
LEMMA OneCount ==
  ASSUME PidInv, m_pulses_sum \in Sums, m_pulses_sum' = FastSum_add(m_pulses_sum, pulses)
  PROVE  /\ m_pulses_sum'.size = 1 /\ m_pulses_sum'.sum = heard
         /\ m_pulses_sum'.items[0] = heard
         /\ Rpm(m_pulses_sum') = Rpm([size |-> 1, sum |-> heard])
  <1> DEFINE w == m_pulses_sum
             x == pulses
  <1>1. Capacity = 1 /\ SumMod \in Nat \ {0} /\ Slots = {0}
    BY CountAssumption, FastSumAssumption DEF Slots
  <1>2. /\ w.size \in 0..1 /\ w.index = 0 /\ w.items \in [Slots -> Int] /\ w.items[0] \in Int
        /\ w.sum = IF w.size = 1 THEN w.items[0] ELSE 0
    BY <1>1 DEF Sums, PidInv, WindowHolds
  <1>3. x = heard /\ x \in 0..(SumMod - 1)
    <2>1. PulsesMax \in Nat /\ SumMod \in Nat \ {0} /\ PulsesMax < SumMod
      BY CountAssumption, RegulationAssumption, FastSumAssumption
    <2> QED
      BY <2>1 DEF PidInv
  <1> DEFINE first == IF w.size >= Capacity THEN w.items[w.index] ELSE 0
             size == IF w.size < Capacity THEN w.size + 1 ELSE w.size
             index == IF w.index + 1 >= Capacity THEN 0 ELSE w.index + 1
             items == [w.items EXCEPT ![w.index] = x]
             sum == (w.sum - first + x) % SumMod
  <1>4. first = w.sum /\ w.sum \in Int
    BY <1>1, <1>2
  <1>5. sum = x
    <2> HIDE DEF first
    <2>1. w.sum - first + x = x
      BY <1>3, <1>4
    <2> QED
      BY <1>1, <1>3, <2>1
  <1>6. size = 1
    BY <1>1, <1>2
  <1>7. items[0] = x
    BY <1>1, <1>2
  <1>8. m_pulses_sum' = [size |-> size, index |-> index, items |-> items, sum |-> sum]
    BY DEF FastSum_add
  <1> HIDE DEF size, index, items, sum
  <1>9. m_pulses_sum'.size = 1 /\ m_pulses_sum'.sum = heard /\ m_pulses_sum'.items[0] = heard
    BY <1>3, <1>5, <1>6, <1>7, <1>8
  <1>10. Rpm(m_pulses_sum') = Rpm([size |-> 1, sum |-> heard])
    BY <1>9 DEF Rpm
  <1> QED
    BY <1>9, <1>10

Grown(s, e, n, t) ==
  /\ n \in Nat /\ Len(t) = n + 1 /\ t \in Seq(Int)
  /\ Error(t, n + 1) = e /\ Error(t, n) = Error(s, n)
  /\ Error(s, n) \in Int /\ Error(s, n - 1) \in Int
  /\ ErrorsFit(s)
  /\ e \in Fixeds /\ e - Error(s, n) \in Fixeds
  /\ e - 2 * Error(s, n) + Error(s, n - 1) \in Fixeds
  /\ Total(t) = Total(s) + e /\ Total(s) \in Int

\* One more error.
LEMMA ErrorAdded ==
  ASSUME NEW s \in Seq(Int), NEW e \in Int, ErrorsFit(Append(s, e))
  PROVE  Grown(s, e, Len(s), Append(s, e))
  <1> DEFINE n == Len(s)
             t == Append(s, e)
  <1>1. /\ n \in Nat /\ Len(t) = n + 1 /\ t \in Seq(Int) /\ t[n + 1] = e
        /\ \A k \in 1..n : t[k] = s[k] /\ s[k] \in Int
    OBVIOUS
  <1>2. \A k \in Int : k <= n => Error(t, k) = Error(s, k)
    BY <1>1 DEF Error
  <1>3. \A k \in Int : Error(s, k) \in Int
    BY <1>1 DEF Error
  <1>4. n + 1 \in 1..Len(t) /\ (n + 1) - 1 = n /\ (n + 1) - 2 = n - 1
        /\ n \in Int /\ n - 1 \in Int /\ n <= n /\ n - 1 <= n
    BY <1>1
  <1>5. Error(t, n + 1) = e
    BY <1>1, <1>4 DEF Error
  <1>6. Error(t, n) = Error(s, n) /\ Error(t, n - 1) = Error(s, n - 1)
        /\ Error(s, n) \in Int /\ Error(s, n - 1) \in Int
    BY <1>2, <1>3, <1>4
  <1>7. \A k \in 1..Len(t) :
          /\ Error(t, k) \in Fixeds /\ Error(t, k) - Error(t, k - 1) \in Fixeds
          /\ Error(t, k) - 2 * Error(t, k - 1) + Error(t, k - 2) \in Fixeds
    BY DEF ErrorsFit
  <1>8. ErrorsFit(s)
    <2> SUFFICES ASSUME NEW k \in 1..n
                 PROVE  /\ Error(s, k) \in Fixeds /\ Error(s, k) - Error(s, k - 1) \in Fixeds
                        /\ Error(s, k) - 2 * Error(s, k - 1) + Error(s, k - 2) \in Fixeds
      BY DEF ErrorsFit
    <2>1. k \in Int /\ k - 1 \in Int /\ k - 2 \in Int /\ k <= n /\ k - 1 <= n /\ k - 2 <= n
          /\ k \in 1..Len(t)
      BY <1>1
    <2>2. Error(t, k) = Error(s, k) /\ Error(t, k - 1) = Error(s, k - 1)
          /\ Error(t, k - 2) = Error(s, k - 2)
      BY <1>2, <2>1
    <2>3. /\ Error(t, k) \in Fixeds /\ Error(t, k) - Error(t, k - 1) \in Fixeds
          /\ Error(t, k) - 2 * Error(t, k - 1) + Error(t, k - 2) \in Fixeds
      BY <1>7, <2>1
    <2> QED
      BY <2>2, <2>3
  <1>9. e \in Fixeds /\ e - Error(s, n) \in Fixeds /\ e - 2 * Error(s, n) + Error(s, n - 1) \in Fixeds
    <2>1. /\ Error(t, n + 1) \in Fixeds /\ Error(t, n + 1) - Error(t, (n + 1) - 1) \in Fixeds
          /\ Error(t, n + 1) - 2 * Error(t, (n + 1) - 1) + Error(t, (n + 1) - 2) \in Fixeds
      BY <1>4, <1>7
    <2> QED
      BY <1>4, <1>5, <1>6, <2>1
  <1>10. Total(t) = Total(s) + e
    BY TotalAppend
  <1>11. Total(s) \in Int
    <2>1. PICK f : RunningSums(f, s) /\ Total(s) = f[Len(s)]
      BY TotalDef
    <2> QED
      BY <1>1, <2>1 DEF RunningSums
  <1> QED
    BY <1>1, <1>5, <1>6, <1>8, <1>9, <1>10, <1>11 DEF Grown

\* One period: the control follows the error of the pulses it has taken.
LEMMA TaskFollows ==
  ASSUME RegInv, PidInv, P_task_ctrl
  PROVE  PidInv'
  <1>1. /\ m_pid \in Pids /\ m_pulses_sum \in Sums /\ m_K \in Triples /\ m_pid.K = m_K
        /\ RegTypeOK
    BY DEF RegInv, RegulatorTold, GainsAgree, ValuesTyped
  <1> DEFINE e == SpeedSP - Rpm([size |-> 1, sum |-> heard])
  <1>2. /\ pulses' = 0 /\ heard' = 0 /\ m_K' = m_K
        /\ m_pulses_sum' = FastSum_add(m_pulses_sum, pulses) /\ m_speed_PV' = Rpm(m_pulses_sum')
        /\ m_pid' = PidCalculate(m_pid, SpeedSP, m_speed_PV')
        /\ errs' = Append(errs, e)
    BY DEF P_task_ctrl
  <1>3. /\ m_pulses_sum'.size = 1 /\ m_pulses_sum'.sum = heard /\ m_pulses_sum'.items[0] = heard
        /\ m_speed_PV' = Rpm([size |-> 1, sum |-> heard])
    BY <1>1, <1>2, OneCount
  <1>4. SpeedSP \in Fixeds /\ m_speed_PV' \in Fixeds /\ Fixeds \subseteq Int
    <2>1. SpeedSP \in Fixeds
      BY <1>1, Zeros DEF SpeedSP, RegTypeOK
    <2> DEFINE w == FastSum_add(m_pulses_sum, pulses)
    <2>2. w \in Sums /\ w.size \in 1..Capacity
      <3>1. pulses \in Int
        BY RegulationAssumption DEF PidInv
      <3> QED
        BY <1>1, <3>1, SumAdded
    <2>3. m_speed_PV' = Rpm(w)
      BY <1>2
    <2> HIDE DEF w
    <2>4. Rpm(w) \in Fixeds
      BY <2>2, RpmType
    <2> QED
      BY <2>1, <2>3, <2>4, Widths
  <1>5. e = SpeedSP - m_speed_PV' /\ e \in Int
    BY <1>3, <1>4
  <1> HIDE DEF e
  <1>6. errs' \in Seq(Int) /\ errs \in Seq(Int)
    BY <1>2, <1>5 DEF PidInv
  <1>7. ASSUME ErrorsFit(errs') PROVE Recurrence'
    <2> DEFINE t == errs'
               n == Len(errs)
               F == FracUnit
               N == FracUnit * FixedMod
               K1 == m_K[1]
               K2 == m_K[2]
               K3 == m_K[3]
               e1 == Error(errs, n)
               e2 == Error(errs, n - 1)
               T == Total(errs)
               u == m_pid.u_prev
               v == m_pid'.u_prev
               ideal == Ideal(m_K, errs)
               ideal_n == Ideal(m_K', t)
    <2>1. t = Append(errs, e) /\ ErrorsFit(t) /\ errs \in Seq(Int)
      BY <1>2, <1>6, <1>7 DEF e
    <2>2. n = Len(errs) /\ F \in Nat \ {0} /\ N \in Nat
      <3>1. F \in Nat \ {0} /\ FixedMod \in Nat
        BY Widths
      <3> QED
        BY <3>1
    <2>3. Grown(errs, e, n, t)
      BY <1>5, <2>1, ErrorAdded
    <2> HIDE DEF t, n
    <2>4. /\ m_pid.error_1 = e1 /\ m_pid.error_2 = e2
          /\ \E j \in Int, r \in 0..(3 * (F - 1) * n) : ideal = F * u + N * j + r
      BY <2>3 DEF PidInv, Recurrence, n, Grown
    <2>5. /\ K1 \in Fixeds /\ K2 \in Fixeds /\ K3 \in Fixeds
          /\ e1 \in Fixeds /\ e2 \in Fixeds /\ u \in Fixeds
          /\ m_pid.K[1] = K1 /\ m_pid.K[2] = K2 /\ m_pid.K[3] = K3 /\ m_pid.u_prev = u
      <3>1. K1 \in Fixeds /\ K2 \in Fixeds /\ K3 \in Fixeds
        BY <1>1 DEF Triples
      <3>2. u \in Fixeds /\ m_pid.error_1 \in Fixeds /\ m_pid.error_2 \in Fixeds
        BY <1>1 DEF Pids
      <3> QED
        BY <1>1, <2>4, <3>1, <3>2
    <2>6. ideal = K1 * e1 + K2 * T + K3 * (e1 - e2)
      BY DEF Ideal, n
    <2>61. ideal_n = K1 * e + K2 * (T + e) + K3 * (e - e1)
      <3>1. (n + 1) - 1 = n
        BY <2>3 DEF Grown
      <3>2. ideal_n = K1 * Error(t, n + 1) + K2 * Total(t) + K3 * (Error(t, n + 1) - Error(t, n))
        BY <1>2, <2>3, <3>1 DEF Ideal, Grown
      <3> QED
        BY <2>3, <3>2 DEF Grown
    <2>62. /\ m_pid'.error_1 = e /\ m_pid'.error_2 = e1 /\ v \in Int
           /\ \E j \in Int, r \in 0..(3 * (F - 1)) :
                K1 * (e - e1) + K2 * e + K3 * (e - 2 * e1 + e2) = F * v - F * u + N * j + r
      <3> DEFINE sp == SpeedSP
                 pv == m_speed_PV'
                 pid == m_pid
      <3>1. /\ sp \in Fixeds /\ pv \in Fixeds /\ pid \in Pids /\ e = sp - pv /\ e \in Fixeds
            /\ m_pid' = PidCalculate(pid, sp, pv)
            /\ pid.K[1] = K1 /\ pid.K[2] = K2 /\ pid.K[3] = K3 /\ pid.error_1 = e1 /\ pid.error_2 = e2
            /\ e - pid.error_1 \in Fixeds /\ e - 2 * pid.error_1 + pid.error_2 \in Fixeds
        BY <1>1, <1>2, <1>4, <1>5, <2>3, <2>4, <2>5 DEF Grown
      <3> HIDE DEF sp, pv, pid
      <3>2. PICK nu \in Int :
              /\ PidCalculate(pid, sp, pv)
                   = [pid EXCEPT !.u_prev = nu, !.error_2 = pid.error_1, !.error_1 = e]
              /\ Adds(pid.K[1], pid.K[2], pid.K[3], e - pid.error_1, e,
                      e - 2 * pid.error_1 + pid.error_2, pid.u_prev, nu)
        BY <3>1, PidStep, ZenonT(40)
      <3>3. m_pid'.error_1 = e /\ m_pid'.error_2 = pid.error_1 /\ m_pid'.u_prev = nu
        <4> DEFINE w == [pid EXCEPT !.u_prev = nu, !.error_2 = pid.error_1, !.error_1 = e]
        <4>1. w.error_1 = e /\ w.error_2 = pid.error_1 /\ w.u_prev = nu
          BY <3>1 DEF Pids
        <4> HIDE DEF w
        <4>2. m_pid' = w
          BY <3>1, <3>2 DEF w
        <4> QED
          BY <4>1, <4>2
      <3>4. Adds(K1, K2, K3, e - e1, e, e - 2 * e1 + e2, u, v)
        BY <3>1, <3>2, <3>3 DEF pid
      <3> QED
        BY <3>1, <3>3, <3>4 DEF Adds
    <2>7. PICK j1 \in Int, r1 \in 0..(3 * (F - 1) * n) : ideal = F * u + N * j1 + r1
      BY <2>4
    <2>8. PICK j2 \in Int, r2 \in 0..(3 * (F - 1)) :
            K1 * (e - e1) + K2 * e + K3 * (e - 2 * e1 + e2) = F * v - F * u + N * j2 + r2
      BY <2>62
    <2>81. /\ K1 \in Int /\ K2 \in Int /\ K3 \in Int /\ e1 \in Int /\ e2 \in Int /\ T \in Int
           /\ u \in Int /\ v \in Int /\ F \in Nat \ {0} /\ N \in Nat /\ n \in Nat
      BY <1>4, <2>2, <2>3, <2>5, <2>62 DEF Grown
    <2> HIDE DEF F, N, K1, K2, K3, e1, e2, T, u, v, ideal, ideal_n
    <2>9. ideal_n = ideal + (K1 * (e - e1) + K2 * e + K3 * (e - 2 * e1 + e2))
      <3>1. K1 * e = K1 * e1 + K1 * (e - e1)
        BY <1>5, <2>81
      <3>2. K2 * (T + e) = K2 * T + K2 * e
        BY <1>5, <2>81
      <3>3. K3 * (e - e1) = K3 * (e1 - e2) + K3 * (e - 2 * e1 + e2)
        BY <1>5, <2>81
      <3> QED
        <4> DEFINE a1 == K1 * e1
                   a2 == K1 * (e - e1)
                   b1 == K2 * T
                   b2 == K2 * e
                   c1 == K3 * (e1 - e2)
                   c2 == K3 * (e - 2 * e1 + e2)
        <4>1. a1 \in Int /\ a2 \in Int /\ b1 \in Int /\ b2 \in Int /\ c1 \in Int /\ c2 \in Int
          BY <1>5, <2>81
        <4>2. ideal = a1 + b1 + c1 /\ ideal_n = (a1 + a2) + (b1 + b2) + (c1 + c2)
          BY <2>6, <2>61, <3>1, <3>2, <3>3
        <4> HIDE DEF a1, a2, b1, b2, c1, c2
        <4>3. ideal_n = ideal + (a2 + b2 + c2)
          BY <4>1, <4>2
        <4> QED
          BY <4>3 DEF a2, b2, c2
    <2>10. ideal_n = F * v + N * (j1 + j2) + (r1 + r2)
      <3>1. N * (j1 + j2) = N * j1 + N * j2 /\ N * j1 \in Int /\ N * j2 \in Int
        BY <2>81
      <3>2. F * u \in Int /\ F * v \in Int /\ r1 \in Int /\ r2 \in Int
        BY <2>81
      <3>3. ideal_n = (F * u + N * j1 + r1) + (F * v - F * u + N * j2 + r2)
        BY <2>7, <2>8, <2>9
      <3> QED
        BY <3>1, <3>2, <3>3
    <2>11. r1 + r2 \in 0..(3 * (F - 1) * (n + 1)) /\ j1 + j2 \in Int
      <3>1. 3 * (F - 1) * (n + 1) = 3 * (F - 1) * n + 3 * (F - 1) /\ 3 * (F - 1) * n \in Nat
        BY <2>81
      <3> QED
        BY <2>81, <3>1
    <2>12. \E j \in Int, r \in 0..(3 * (F - 1) * (n + 1)) : ideal_n = F * v + N * j + r
      BY <2>10, <2>11
    <2>13. /\ m_pid'.error_1 = Error(t, Len(t)) /\ m_pid'.error_2 = Error(t, Len(t) - 1)
           /\ \E j \in Int, r \in 0..(3 * (F - 1) * Len(t)) : ideal_n = F * v + N * j + r
      <3>1. (n + 1) - 1 = n /\ Len(t) = n + 1
        BY <2>3 DEF Grown
      <3>2. m_pid'.error_1 = Error(t, n + 1) /\ m_pid'.error_2 = Error(t, n)
        BY <2>3, <2>62 DEF e1, Grown
      <3> QED
        BY <2>12, <3>1, <3>2
    <2> QED
      BY <2>13 DEF Recurrence, F, N, v, ideal_n, t
  <1>8. WindowHolds'
    BY <1>3 DEF WindowHolds
  <1>9. PulsesMax \in Nat
    BY RegulationAssumption
  <1> QED
    BY <1>2, <1>6, <1>7, <1>8, <1>9 DEF PidInv

\* All that restarts the regulator does so as a whole.
LEMMA Restarted ==
  ASSUME NEW pid \in Pids, NEW K \in Triples, NEW w \in Sums
  PROVE  /\ PidReset(pid).u_prev = 0 /\ PidReset(pid).error_1 = 0 /\ PidReset(pid).error_2 = 0
         /\ PidReset(PidGains(pid, K)).u_prev = 0 /\ PidReset(PidGains(pid, K)).error_1 = 0
         /\ PidReset(PidGains(pid, K)).error_2 = 0
         /\ FastSum_reset(w).size = 0 /\ FastSum_reset(w).sum = 0
         /\ NewFastSum.size = 0 /\ NewFastSum.sum = 0
  <1>1. PidGains(pid, K) \in Pids
    BY PidResets
  <1>2. \A p \in Pids : PidReset(p).u_prev = 0 /\ PidReset(p).error_1 = 0 /\ PidReset(p).error_2 = 0
    BY DEF PidReset, Pids
  <1>3. FastSum_reset(w).size = 0 /\ FastSum_reset(w).sum = 0
    BY DEF FastSum_reset, Sums
  <1> QED
    BY <1>1, <1>2, <1>3 DEF NewFastSum

LEMMA InitPidInv == RegInit /\ RegInv => PidInv
  <1> SUFFICES ASSUME RegInit, RegInv PROVE PidInv
    OBVIOUS
  <1>1. m_K \in Triples /\ NewPid \in Pids /\ PulsesMax \in Nat
    BY NewPidType, RegulationAssumption DEF RegInv, ValuesTyped
  <1>2. /\ errs = << >> /\ pulses = 0 /\ heard = 0 /\ m_pulses_sum = NewFastSum
        /\ m_pid = PidReset(PidGains(NewPid, m_K))
    BY DEF RegInit
  <1>3. /\ m_pid.u_prev = 0 /\ m_pid.error_1 = 0 /\ m_pid.error_2 = 0
        /\ m_pulses_sum.size = 0 /\ m_pulses_sum.sum = 0
    BY <1>1, <1>2, Restarted, SumResets
  <1>4. FracUnit \in Nat \ {0} /\ FixedMod \in Nat \ {0} /\ Fixeds \subseteq Int
    BY Widths
  <1>5. Len(errs) = 0 /\ errs \in Seq(Int) /\ Total(errs) = 0 /\ 0 - 1 = -1
        /\ Error(errs, 0) = 0 /\ Error(errs, -1) = 0
    BY <1>1, <1>2, TotalEmpty, NothingYet
  <1>6. Ideal(m_K, errs) = 0
    BY <1>1, <1>2, NothingYet
  <1>7. Recurrence
    <2> DEFINE F == FracUnit
               N == FracUnit * FixedMod
    <2>1. F \in Nat \ {0} /\ N \in Nat /\ 3 * (F - 1) * 0 = 0
      BY <1>4
    <2> HIDE DEF F, N
    <2>2. 0 = F * 0 + N * 0 + 0 /\ 0 \in 0..0
      BY <2>1
    <2>3. \E j \in Int, r \in 0..(3 * (F - 1) * Len(errs)) : Ideal(m_K, errs) = F * m_pid.u_prev + N * j + r
      BY <1>3, <1>5, <1>6, <2>1, <2>2
    <2> QED
      BY <1>3, <1>5, <2>3 DEF Recurrence, F, N
  <1> QED
    BY <1>1, <1>2, <1>3, <1>5, <1>7 DEF PidInv, WindowHolds

LEMMA HandleFollows ==
  ASSUME RegInv, PidInv, NEW frame \in Frames, Handle(frame), RegInv'
  PROVE  PidInv'
  <1>1. /\ m_pid \in Pids /\ m_pulses_sum \in Sums /\ m_K' \in Triples
        /\ pulses = heard /\ heard \in 0..PulsesMax
    BY DEF RegInv, ValuesTyped, PidInv
  <1>2. CASE UNCHANGED <<pidVars, m_K, pulses, heard>>
    BY <1>1, <1>2, PidLeft
  <1>3. CASE /\ m_pid' = PidReset(PidGains(m_pid, m_K'))
             /\ m_pulses_sum' = FastSum_reset(m_pulses_sum)
             /\ errs' = << >> /\ UNCHANGED <<pulses, heard>>
    <2> DEFINE K == m_K'
    <2>1. K \in Triples /\ m_pid' = PidReset(PidGains(m_pid, K))
      BY <1>1, <1>3
    <2> HIDE DEF K
    <2>2. /\ m_pid'.u_prev = 0 /\ m_pid'.error_1 = 0 /\ m_pid'.error_2 = 0
          /\ m_pulses_sum'.size = 0 /\ m_pulses_sum'.sum = 0
      BY <1>1, <1>3, <2>1, Restarted
    <2> QED
      BY <1>1, <1>3, <2>2, PidStarts
  <1>4. \/ UNCHANGED <<pidVars, m_K, pulses, heard>>
        \/ /\ m_pid' = PidReset(PidGains(m_pid, m_K'))
           /\ m_pulses_sum' = FastSum_reset(m_pulses_sum)
           /\ errs' = << >> /\ UNCHANGED <<pulses, heard>>
    <2>1. CASE ~Decodes(frame)
      BY <2>1 DEF Handle
    <2>2. CASE P_rpc_func_reads(frame.func, frame.argc)
      BY <2>2 DEF P_rpc_func_reads, Answers
    <2>3. CASE P_rpc_func_03_koef_w(frame.func, frame.argc)
      BY <2>3 DEF P_rpc_func_03_koef_w, Answers
    <2>4. CASE P_rpc_func_05_speed_SP_w(frame.func, frame.argc)
      BY <2>4 DEF P_rpc_func_05_speed_SP_w, Answers, MotorLeft
    <2>5. CASE P_rpc_func_process(frame.func, frame.argc)
      BY <2>5 DEF P_rpc_func_process, Answers
    <2>6. CASE P_rpc_func_09_conf_store(frame.func, frame.argc)
      BY <2>6 DEF P_rpc_func_09_conf_store, Answers
    <2> QED
      BY <2>1, <2>2, <2>3, <2>4, <2>5, <2>6 DEF Handle
  <1> QED
    BY <1>2, <1>3, <1>4

LEMMA NextPidInv == RegInv /\ RegInv' /\ PidInv /\ [RegNext]_regVars => PidInv'
  <1> SUFFICES ASSUME RegInv, RegInv', PidInv, [RegNext]_regVars PROVE PidInv'
    OBVIOUS
  <1>1. /\ m_pid \in Pids /\ m_pulses_sum \in Sums /\ m_K \in Triples /\ m_K' \in Triples
        /\ pulses = heard /\ heard \in 0..PulsesMax /\ PulsesMax \in Nat /\ 0 \in 0..PulsesMax
    BY RegulationAssumption DEF RegInv, ValuesTyped, PidInv
  <1>2. CASE P_ctrl_start /\ m_K' = m_K
    <2>1. /\ m_pid'.u_prev = 0 /\ m_pid'.error_1 = 0 /\ m_pid'.error_2 = 0
          /\ m_pulses_sum'.size = 0 /\ m_pulses_sum'.sum = 0
      BY <1>1, <1>2, Restarted DEF P_ctrl_start
    <2> QED
      BY <1>1, <1>2, <2>1, PidStarts DEF P_ctrl_start
  <1>3. CASE ButtonOrPotentiometer
    <2>1. m_K' = m_K /\ (MotorLeft \/ P_ctrl_start)
      BY <1>3 DEF ButtonOrPotentiometer, MotorSwitched
    <2>2. CASE MotorLeft
      BY <1>1, <2>1, <2>2, PidLeft DEF MotorLeft
    <2> QED
      BY <1>2, <2>1, <2>2
  <1>4. CASE PowerCut
    <2> DEFINE K == P_config_load(eeprom)
    <2>1. /\ K = m_K' /\ m_pid' = PidReset(PidGains(NewPid, K)) /\ m_pulses_sum' = NewFastSum
          /\ errs' = << >> /\ pulses' = 0 /\ heard' = 0
      BY <1>4 DEF PowerCut, Boot
    <2>2. K \in Triples
      BY <1>1, <2>1
    <2> HIDE DEF K
    <2>3. /\ m_pid'.u_prev = 0 /\ m_pid'.error_1 = 0 /\ m_pid'.error_2 = 0
          /\ m_pulses_sum'.size = 0 /\ m_pulses_sum'.sum = 0
      BY <2>1, <2>2, NewPidType, SumResets, Restarted
    <2> QED
      BY <1>1, <2>1, <2>3, PidStarts
  <1>5. CASE Pulse
    <2>1. UNCHANGED <<pidVars, m_K>> /\ pulses' = pulses + 1 /\ heard' = heard + 1 /\ heard < PulsesMax
      BY <1>5 DEF Pulse
    <2>2. pulses' = heard' /\ heard' \in 0..PulsesMax
      BY <1>1, <2>1
    <2> QED
      BY <2>1, <2>2, PidLeft
  <1>6. CASE P_config_store \/ UNCHANGED regVars
    <2>1. UNCHANGED <<pidVars, m_K, pulses, heard>>
      BY <1>6 DEF P_config_store, regVars
    <2> QED
      BY <1>1, <2>1, PidLeft
  <1>7. CASE \E frame \in Frames : Handle(frame)
    BY <1>7, HandleFollows
  <1> QED
    BY <1>3, <1>4, <1>5, <1>6, <1>7, TaskFollows DEF RegNext

\* However long a run lasts and whatever wraps on the way, what the regulator
\* asks for is what the book asks for, but for three units a period.
THEOREM ControlHolds == RegSpec => []ControlIsPID
  <1>1. RegInv /\ PidInv => ControlIsPID
    <2> SUFFICES ASSUME RegInv, PidInv, ErrorsFit(errs)
                 PROVE  (Ideal(m_K, errs) - FracUnit * m_pid.u_prev) % (FracUnit * FixedMod)
                          <= 3 * (FracUnit - 1) * Len(errs)
      BY DEF ControlIsPID
    <2> DEFINE F == FracUnit
               N == FracUnit * FixedMod
               u == m_pid.u_prev
               ideal == Ideal(m_K, errs)
               R == 3 * (F - 1) * Len(errs)
    <2>1. F \in Nat \ {0} /\ N \in Nat \ {0} /\ u \in Int /\ R \in Nat
      <3>1. F \in Nat \ {0} /\ FixedMod \in Nat \ {0} /\ Fixeds \subseteq Int /\ Len(errs) \in Nat
        BY Widths DEF PidInv
      <3>2. u \in Int
        BY <3>1 DEF RegInv, ValuesTyped, Pids
      <3> QED
        BY <3>1, <3>2
    <2>2. PICK j \in Int, r \in 0..R : ideal = F * u + N * j + r
      BY DEF PidInv, Recurrence
    <2> DEFINE y == ideal - F * u
               q == y \div N
               t == y % N
    <2> HIDE DEF F, N, u, ideal, R
    <2>3. y = N * j + r /\ y \in Int /\ r \in Nat
      <3>1. F * u \in Int /\ N * j \in Int /\ r \in Nat
        BY <2>1
      <3> QED
        BY <2>2, <3>1
    <2> HIDE DEF y
    <2>4. q \in Int /\ t \in 0..(N - 1) /\ y = N * q + t
      BY <2>1, <2>3
    <2> HIDE DEF q, t
    <2>5. t <= r
      <3> SUFFICES ASSUME r < t PROVE FALSE
        BY <2>3, <2>4
      <3>1. N * (j - q) = t - r
        BY <2>1, <2>3, <2>4
      <3>2. ASSUME j - q >= 1 PROVE FALSE
        <4>1. N * (j - q) = N * (j - q - 1) + N /\ N * (j - q - 1) \in Nat
          BY <2>1, <2>4, <3>2
        <4> QED
          BY <2>1, <2>3, <2>4, <3>1, <4>1
      <3>3. ASSUME j - q <= 0 PROVE FALSE
        <4>1. N * (j - q) = -(N * (q - j)) /\ N * (q - j) \in Nat
          BY <2>1, <2>4, <3>3
        <4> QED
          BY <2>1, <2>3, <2>4, <3>1, <4>1
      <3> QED
        BY <2>4, <3>2, <3>3
    <2>6. t <= R
      BY <2>1, <2>3, <2>4, <2>5
    <2> QED
      BY <2>6 DEF t, y, ideal, F, N, u, R
  <1>2. RegInv /\ [RegNext]_regVars => RegInv'
    BY NextRegInv
  <1> QED
    BY <1>1, <1>2, InitRegInv, InitPidInv, NextPidInv, PTL DEF RegSpec

=============================================================================
