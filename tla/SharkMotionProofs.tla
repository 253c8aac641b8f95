-------------------------- MODULE SharkMotionProofs --------------------------
(***************************************************************************)
(* That the registers of the shark keep to their width and that the shark  *)
(* never leaves its field, for every field and size that satisfies the     *)
(* assumptions of SharkMotion and wherever the players go.                 *)
(***************************************************************************)
EXTENDS SharkMotion, TLAPS

\* Every sum is cut to ten bits.
LEMMA PlusCut ==
  ASSUME NEW p \in Nat, NEW m \in Nat
  PROVE  Plus(p, m) \in 0..(Modulus - 1)
BY SMT DEF Plus, Modulus

Motions(a) == {0, Axis[a].step, Minus(Axis[a].step)}

\* The walls of an axis, in numbers.
LEMMA WallFacts ==
  ASSUME NEW a \in Axes
  PROVE  /\ Axis[a].step = 1 /\ Minus(Axis[a].step) = 1023
         /\ Low(Axis[a]) \in Nat /\ High(Axis[a]) \in Nat
         /\ 0 < Low(Axis[a]) /\ Low(Axis[a]) + 1 < High(Axis[a])
         /\ High(Axis[a]) + 1 < 1024
<1>1. /\ Axis[a].min \in Nat /\ Axis[a].max \in Nat
      /\ Axis[a].size \in Nat /\ Axis[a].slack \in Nat
  BY SharkAxisAssumption
<1>2. /\ Axis[a].step = 1
      /\ 0 < Low(Axis[a]) /\ Low(Axis[a]) + 1 < High(Axis[a])
      /\ High(Axis[a]) + 1 < 1024
  BY SharkAxisAssumption DEF Modulus
<1>3. Low(Axis[a]) \in Int /\ High(Axis[a]) \in Int
  BY <1>1, SMT DEF Low, High
<1> QED BY <1>2, <1>3, SMT DEF Minus, Modulus

\* The far wall is reached exactly at High.
LEMMA FarIsHigh ==
  ASSUME NEW a \in Axes, pos[a] \in Nat
  PROVE  AtFar(a) <=> pos[a] >= High(Axis[a])
<1>1. /\ Axis[a].max \in Nat /\ Axis[a].size \in Nat /\ Axis[a].slack \in Nat
  BY SharkAxisAssumption
<1> QED BY <1>1, SMT DEF AtFar, High

LEMMA PosTyped ==
  ASSUME TypeOK, NEW a \in Axes PROVE pos[a] \in Nat
<1>1. pos[a] \in 0..(Modulus - 1)
  BY DEF TypeOK
<1> QED BY <1>1, SMT DEF Modulus

\* Whatever the prey, the next motion is one of the three.
LEMMA NextMotionTyped ==
  ASSUME NEW a \in Axes PROVE NextMotion[a] \in Motions(a)
<1>1. Towards(a) \in Motions(a)
  BY DEF Towards, Motions
<1> QED BY <1>1 DEF NextMotion, Turn, Motions

LEMMA SharkTypeInvariant == Spec => []TypeOK
<1>1. Init => TypeOK
  <2> SUFFICES ASSUME Init PROVE TypeOK
    OBVIOUS
  <2>1. 0 \in 0..(Modulus - 1)
    BY SMT DEF Modulus
  <2>2. pos \in [Axes -> 0..(Modulus - 1)]
    BY <2>1 DEF Init
  <2>3. motion \in [Axes -> UNION {Motions(a) : a \in Axes}]
    BY DEF Init, Motions
  <2> QED BY <2>2, <2>3, PlacesAssumption DEF Init, TypeOK, Motions
<1>2. TypeOK /\ [Next]_vars => TypeOK'
  <2> SUFFICES ASSUME TypeOK, [Next]_vars PROVE TypeOK'
    OBVIOUS
  <2>1. CASE Frame
    <3>1. motion' \in [Axes -> UNION {Motions(a) : a \in Axes}]
      BY <2>1, NextMotionTyped DEF Frame, NextMotion
    <3>2. ASSUME NEW a \in Axes PROVE Plus(pos[a], motion'[a]) \in 0..(Modulus - 1)
      <4>1. motion'[a] \in {0, 1, 1023}
        BY <2>1, <3>2, NextMotionTyped, WallFacts DEF Frame, Motions
      <4>2. pos[a] \in Nat
        BY <3>2, PosTyped
      <4>3. motion'[a] \in Nat
        BY <4>1, SMT
      <4> QED BY <4>2, <4>3, PlusCut
    <3>3. pos' \in [Axes -> 0..(Modulus - 1)]
      BY <2>1, <3>2 DEF Frame, TypeOK
    <3> QED BY <2>1, <3>1, <3>3 DEF Frame, TypeOK, Motions
  <2>2. CASE Move
    BY <2>2 DEF Move, TypeOK, Player
  <2>3. CASE Start
    BY <2>3 DEF Start, TypeOK
  <2>4. CASE Reset
    <3>1. \A a \in Axes : pos'[a] \in 0..(Modulus - 1)
      BY <2>4, SharkAxisAssumption DEF Reset
    <3>2. pos' \in [Axes -> 0..(Modulus - 1)]
      BY <2>4, <3>1 DEF Reset
    <3>3. motion' \in [Axes -> UNION {Motions(a) : a \in Axes}]
      BY <2>4 DEF Reset, Motions
    <3> QED BY <2>4, <3>2, <3>3 DEF Reset, TypeOK, Motions
  <2>5. CASE UNCHANGED vars
    BY <2>5 DEF vars, TypeOK
  <2> QED BY <2>1, <2>2, <2>3, <2>4, <2>5 DEF Next
<1> QED BY <1>1, <1>2, PTL DEF Spec

\* The position and the motion of the shark keep to their ten bits and to
\* the three motions of an axis.
THEOREM SharkTypeCorrect == Spec => []TypeOK
BY SharkTypeInvariant

\* A shark within its walls stays within one step of them, wherever the
\* players lure it.
THEOREM SharkStaysInField == Spec => StaysInField
<1>1. TypeOK /\ [Next]_vars
      => [\A a \in Axes : InField(a) => Reset \/ InField(a)']_vars
  <2> SUFFICES ASSUME TypeOK, Next, NEW a \in Axes, InField(a), ~Reset
               PROVE  InField(a)'
    OBVIOUS
  <2>1. CASE Frame
    <3>1. pos[a] \in Nat
      BY PosTyped
    <3> DEFINE m == NextMotion[a]
               lo == Low(Axis[a])
               hi == High(Axis[a])
    <3>2. m = IF pos[a] >= hi THEN 1023 ELSE IF pos[a] <= lo THEN 1 ELSE Towards(a)
      BY <3>1, FarIsHigh, WallFacts DEF NextMotion, Turn
    <3>3. Towards(a) \in {0, 1, 1023}
      BY WallFacts DEF Towards
    <3>4. /\ lo \in Nat /\ hi \in Nat /\ 0 < lo /\ lo + 1 < hi /\ hi + 1 < 1024
          /\ lo - 1 <= pos[a] /\ pos[a] <= hi + 1
      BY WallFacts DEF InField
    <3>5. pos'[a] = pos[a] \/ pos'[a] = (pos[a] + m) % 1024
      BY <2>1 DEF Frame, Plus, Modulus, TypeOK
    <3>6. lo - 1 <= pos'[a] /\ pos'[a] <= hi + 1
      <4> HIDE DEF m, lo, hi
      <4> QED BY <3>1, <3>2, <3>3, <3>4, <3>5, SMT
    <3> QED BY <3>6 DEF InField
  <2>2. CASE Move
    BY <2>2 DEF Move, InField
  <2>3. CASE Start
    BY <2>3 DEF Start, InField
  <2> QED BY <2>1, <2>2, <2>3 DEF Next
<1> QED BY <1>1, SharkTypeInvariant, PTL DEF Spec, StaysInField

LEMMA UserTyped ==
  ASSUME TypeOK, NEW p \in Player, NEW a \in Axes
  PROVE  user[p][a] \in Nat
<1>1. user[p] \in Places
  BY DEF TypeOK
<1>2. user[p] \in [Axes -> 0..(Modulus - 1)]
  BY <1>1, PlacesAssumption
<1>3. user[p][a] \in 0..(Modulus - 1)
  BY <1>2
<1>4. \A x \in 0..(Modulus - 1) : x \in Nat
  BY SMT DEF Modulus
<1> QED BY <1>3, <1>4, Zenon

\* The prey is one of the lowest players.
LEMMA PreyIsLowest == ASSUME TypeOK PROVE \E p \in Lowest : Prey = user[p]
<1>1. 1 \in Player /\ 2 \in Player /\ \A q \in Player : q = 1 \/ q = 2
  BY DEF Player
<1>2. user[1]["Y"] \in Nat /\ user[2]["Y"] \in Nat
  BY <1>1, UserTyped DEF Axes
<1>3. CASE user[1]["Y"] > user[2]["Y"]
  <2>1. 1 \in Lowest
    BY <1>1, <1>2, <1>3 DEF Lowest
  <2> QED BY <1>3, <2>1 DEF Prey
<1>4. CASE ~(user[1]["Y"] > user[2]["Y"])
  <2>1. 2 \in Lowest
    BY <1>1, <1>2, <1>4 DEF Lowest
  <2> QED BY <1>4, <2>1 DEF Prey
<1> QED BY <1>3, <1>4

\* Between the walls every frame takes the shark one step nearer to one of
\* the lowest players on each axis, until it is level with that player.
THEOREM SharkHunts == Spec => Hunts
<1> DEFINE Nearer(p, a) == Low(Axis[a]) < pos[a] /\ pos[a] < High(Axis[a]) =>
                             \/ Distance(p, a)' = Distance(p, a) - 1
                             \/ Distance(p, a) = 0 /\ Distance(p, a)' = 0
<1>1. ASSUME TypeOK, Frame, is_start PROVE \E p \in Lowest : \A a \in Axes : Nearer(p, a)
  <2>1. PICK p \in Lowest : Prey = user[p]
    BY <1>1, PreyIsLowest
  <2>2. p \in Player
    BY DEF Lowest
  <2>3. ASSUME NEW a \in Axes PROVE Nearer(p, a)
    <3> SUFFICES ASSUME Low(Axis[a]) < pos[a], pos[a] < High(Axis[a])
                 PROVE  \/ Distance(p, a)' = Distance(p, a) - 1
                        \/ Distance(p, a) = 0 /\ Distance(p, a)' = 0
      OBVIOUS
    <3> DEFINE x == pos[a]
               u == user[p][a]
    <3>1. x \in Nat /\ u \in Nat /\ 0 < x /\ x + 1 < 1024
      <4>1. x \in Nat /\ u \in Nat
        BY <1>1, <2>2, PosTyped, UserTyped
      <4>2. /\ Low(Axis[a]) \in Nat /\ High(Axis[a]) \in Nat
            /\ 0 < Low(Axis[a]) /\ High(Axis[a]) + 1 < 1024
        BY WallFacts
      <4> QED BY <4>1, <4>2, SMT
    <3>2. ~(x >= High(Axis[a])) /\ ~(x <= Low(Axis[a]))
      <4>1. Low(Axis[a]) \in Nat /\ High(Axis[a]) \in Nat
        BY WallFacts
      <4> QED BY <3>1, <4>1, SMT
    <3>3. NextMotion[a] = Towards(a)
      BY <1>1, <3>2, FarIsHigh, PosTyped DEF NextMotion, Turn
    <3>4. Towards(a) = IF x > u THEN 1023 ELSE IF x < u THEN 1 ELSE 0
      BY <2>1, WallFacts DEF Towards
    <3>5. pos'[a] = Plus(x, Towards(a)) /\ user'[p][a] = u
      BY <1>1, <3>3 DEF Frame
    <3>6. pos'[a] = IF x > u THEN x - 1 ELSE IF x < u THEN x + 1 ELSE x
      <4>1. pos'[a] = (x + (IF x > u THEN 1023 ELSE IF x < u THEN 1 ELSE 0)) % 1024
        BY <3>4, <3>5 DEF Plus, Modulus
      <4> HIDE DEF x, u
      <4> QED BY <3>1, <4>1, SMT
    <3>7. /\ Distance(p, a) = IF x > u THEN x - u ELSE u - x
          /\ Distance(p, a)' = IF pos'[a] > u THEN pos'[a] - u ELSE u - pos'[a]
      BY <3>5 DEF Distance
    <3> HIDE DEF x, u
    <3> QED BY <3>1, <3>6, <3>7, SMT
  <2> QED BY <2>1, <2>3
<1>2. TypeOK /\ [Next]_vars
      => [Frame /\ is_start => \E p \in Lowest : \A a \in Axes : Nearer(p, a)]_vars
  BY <1>1
<1> QED BY <1>2, SharkTypeInvariant, PTL DEF Spec, Hunts
=============================================================================
