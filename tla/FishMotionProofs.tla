--------------------------- MODULE FishMotionProofs ---------------------------
(***************************************************************************)
(* That the ten-bit sums of a fish never wrap round, so that the fish stay *)
(* on the screen, for every field, size and step that satisfies            *)
(* FishAxisAssumption.                                                     *)
(***************************************************************************)
EXTENDS FishMotion, TLAPS

\* A forward step that stays below 2^10 is an ordinary addition, and a step
\* back from at least the step an ordinary subtraction.
LEMMA PlusForward ==
  ASSUME NEW p \in Nat, NEW s \in Nat, p + s < 1024
  PROVE  Plus(p, s) = p + s
BY SMT DEF Plus, Modulus

LEMMA PlusBack ==
  ASSUME NEW p \in Nat, NEW s \in Nat, 0 < s, s <= p, p < 1024
  PROVE  Plus(p, Minus(s)) = p - s
BY SMT DEF Plus, Minus, Modulus

\* The centre is never beyond the right (or lower) end of the screen, and a
\* motion of 0 is only that of power-up.
Inv == /\ pos \in Nat
       /\ pos + Axis.size \div 2 <= Axis.max + 1
       /\ motion \in {0, Axis.step, Minus(Axis.step)}
       /\ motion = 0 => pos = 0

\* One frame: a step forward below the far wall, a step back above the near
\* one.
LEMMA FrameMoves ==
  ASSUME Inv, Frame
  PROVE  /\ \/ pos' = pos + Axis.step /\ motion' = Axis.step /\ pos < High(Axis)
            \/ pos' = pos - Axis.step /\ motion' = Minus(Axis.step) /\ pos > Low(Axis)
         /\ pos' \in Nat
<1> USE FishAxisAssumption
<1>1. Axis.step \in Nat /\ 0 < Axis.step /\ Axis.step < Low(Axis)
      /\ Low(Axis) \in Nat /\ High(Axis) \in Nat /\ Low(Axis) < High(Axis)
  BY SMT DEF Low, High, Modulus
<1>2. pos \in Nat /\ pos + Axis.step < 1024 /\ High(Axis) + Axis.step < 1024
  BY SMT DEF Inv, High, Modulus
<1>3. AtHigh(Axis, pos) <=> pos >= High(Axis)
  BY SMT DEF Inv, AtHigh, High, Modulus
<1>4. CASE pos >= High(Axis)
  <2>1. motion' = Minus(Axis.step)
    BY <1>3, <1>4 DEF Frame, Bounce, Turn
  <2>2. pos' = pos - Axis.step
    BY <2>1, <1>1, <1>2, <1>4, PlusBack DEF Frame
  <2> QED BY <2>1, <2>2, <1>1, <1>2, <1>4, SMT
<1>5. CASE pos <= Low(Axis)
  <2>1. motion' = Axis.step
    BY <1>1, <1>2, <1>3, <1>5, SMT DEF Frame, Bounce, Turn
  <2>2. pos' = pos + Axis.step
    BY <2>1, <1>1, <1>2, PlusForward DEF Frame
  <2> QED BY <2>1, <2>2, <1>1, <1>2, <1>5, SMT
<1>6. CASE Low(Axis) < pos /\ pos < High(Axis)
  <2>1. motion' = motion /\ pos' = Plus(pos, motion)
    BY <1>1, <1>2, <1>3, <1>6, SMT DEF Frame, Bounce, Turn
  <2>2. motion # 0
    BY <1>1, <1>6, SMT DEF Inv
  <2>3. CASE motion = Axis.step
    <3>1. pos' = pos + Axis.step
      BY <2>1, <2>3, <1>1, <1>2, PlusForward
    <3> QED BY <2>1, <2>3, <3>1, <1>1, <1>2, <1>6, SMT
  <2>4. CASE motion = Minus(Axis.step)
    <3>1. pos' = pos - Axis.step
      BY <2>1, <2>4, <1>1, <1>2, <1>6, PlusBack
    <3> QED BY <2>1, <2>4, <3>1, <1>1, <1>2, <1>6, SMT
  <2> QED BY <2>2, <2>3, <2>4 DEF Inv
<1> QED BY <1>1, <1>2, <1>4, <1>5, <1>6, SMT

LEMMA FishInvariant == Spec => []Inv
<1> USE FishAxisAssumption
<1>1. Init => Inv
  BY SMT DEF Init, Inv, Low, High
<1>2. Inv /\ [Next]_vars => Inv'
  <2> SUFFICES ASSUME Inv, [Next]_vars PROVE Inv'
    OBVIOUS
  <2>1. CASE Frame
    <3>1. motion' # 0
      BY <2>1, FrameMoves, SMT DEF Minus, Modulus
    <3> QED BY <2>1, <3>1, FrameMoves, SMT DEF Inv, High
  <2>2. CASE Reset
    BY <2>2, SMT DEF Reset, Inv, OnScreen
  <2>3. CASE UNCHANGED vars
    BY <2>3 DEF Inv, vars
  <2> QED BY <2>1, <2>2, <2>3 DEF Next
<1> QED BY <1>1, <1>2, PTL DEF Spec

\* The registers of a fish keep to their ten bits and to the three motions.
THEOREM FishTypeCorrect == Spec => []TypeOK
<1>1. Inv => TypeOK
  BY FishAxisAssumption, SMT DEF Inv, TypeOK, Modulus
<1> QED BY <1>1, FishInvariant, PTL

\* A fish whose box is on the screen never leaves it.
THEOREM FishStaysOnScreen == Spec => StaysOnScreen
<1>1. Inv /\ [Next]_vars => [OnScreen(Axis, pos) => OnScreen(Axis, pos)']_vars
  <2> SUFFICES ASSUME Inv, Next, OnScreen(Axis, pos)
               PROVE  OnScreen(Axis, pos)'
    OBVIOUS
  <2>1. CASE Frame
    BY <2>1, FrameMoves, FishAxisAssumption, SMT DEF Inv, OnScreen, High, Low
  <2>2. CASE Reset
    BY <2>2, FishAxisAssumption, SMT DEF Reset, OnScreen
  <2> QED BY <2>1, <2>2 DEF Next
<1> QED BY <1>1, FishInvariant, PTL DEF Spec, StaysOnScreen

\* A frame moves a fish by exactly one step.
THEOREM FishGlides == Spec => Glides
<1>1. Inv /\ [Next]_vars =>
        [Reset \/ pos' = pos + Axis.step \/ pos' = pos - Axis.step]_vars
  BY FrameMoves DEF Next
<1> QED BY <1>1, FishInvariant, PTL DEF Spec, Glides
=============================================================================
