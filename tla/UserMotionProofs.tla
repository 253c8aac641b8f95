--------------------------- MODULE UserMotionProofs ---------------------------
(***************************************************************************)
(* That a player stays on the screen whatever keys are held down, and that *)
(* a started player never stands still, for every field, size and step     *)
(* that satisfies the assumptions of UserMotion.                           *)
(***************************************************************************)
EXTENDS UserMotion, TLAPS

\* A forward step that stays below 2^10 is an ordinary addition, and a step
\* back from at least the step an ordinary subtraction.
LEMMA PlusForward ==
  ASSUME NEW p \in Nat, NEW s \in Nat, p + s < 1024
  PROVE  Plus(p, s) = p + s
BY SMT DEF Plus, Modulus

LEMMA PlusBack ==
  ASSUME NEW p \in Nat, NEW s \in Nat, 0 < s, s <= p, p < 1024
  PROVE  Plus(p, Minus(s)) = p - s
BY SMT DEF Plus, Minus, Modulus

Motions(a) == {0, Axis[a].step, Minus(Axis[a].step)}

\* The centre p of a player is not beyond the right (or lower) end of the
\* screen.
Within(a, p) == p \in Nat /\ p + Axis[a].size \div 2 <= Axis[a].max + 1

\* The parameters of an axis, unfolded.
LEMMA AxisFacts ==
  ASSUME NEW a \in Axes
  PROVE  /\ Axis[a].step \in Nat /\ 0 < Axis[a].step /\ Axis[a].step < 1024
         /\ Axis[a].step < Axis[a].size \div 2 /\ Axis[a].size \in Nat
         /\ Axis[a].size \div 2 < Low(Axis[a]) - Axis[a].step
         /\ Low(Axis[a]) \in Nat /\ High(Axis[a]) \in Nat
         /\ Low(Axis[a]) < High(Axis[a])
         /\ High(Axis[a]) + Axis[a].step + Axis[a].size \div 2 <= Axis[a].max + 1
         /\ Axis[a].max + Axis[a].size < 1024 /\ Axis[a].max \in Nat
BY UserAxisAssumption, SMT DEF Low, High, Modulus

\* A frame of one axis: the motion is one of the three and is not 0 unless
\* it was 0 between the walls; the next position is on the screen if the
\* present one is.
LEMMA BounceStays ==
  ASSUME NEW a \in Axes, NEW p, Within(a, p), NEW m \in Motions(a)
  PROVE  LET n == Bounce(Axis[a], p, m)
         IN  /\ n \in Motions(a)
             /\ m # 0 \/ p <= Low(Axis[a]) => n # 0
             /\ Within(a, Plus(p, n))
             /\ OnScreen(Axis[a], p) => OnScreen(Axis[a], Plus(p, n))
<1> DEFINE g == Axis[a]
           n == Bounce(g, p, m)
<1>1. /\ g.step \in Nat /\ 0 < g.step /\ g.step < 1024
      /\ g.step < g.size \div 2 /\ g.size \in Nat
      /\ g.size \div 2 < Low(g) - g.step
      /\ Low(g) \in Nat /\ High(g) \in Nat /\ Low(g) < High(g)
      /\ High(g) + g.step + g.size \div 2 <= g.max + 1
      /\ g.max + g.size < 1024 /\ g.max \in Nat
  BY AxisFacts
<1>2. p \in Nat /\ p + g.step < 1024 /\ p + g.size \div 2 <= g.max + 1
  BY <1>1, SMT DEF Within
<1>3. AtHigh(g, p) <=> p >= High(g)
  <2>1. p + g.size < 1024
    BY <1>1, <1>2, SMT
  <2>2. g.slack = 0
    BY UserAxisAssumption
  <2> QED BY <1>1, <1>2, <2>1, <2>2, SMT DEF AtHigh, High, Modulus
<1>4. Minus(g.step) # 0 /\ g.step # 0
  BY <1>1, SMT DEF Minus, Modulus
<1>5. CASE p >= High(g)
  <2>1. n = Minus(g.step)
    BY <1>3, <1>5 DEF Bounce, Turn
  <2>2. Plus(p, n) = p - g.step
    BY <2>1, <1>1, <1>2, <1>5, PlusBack
  <2>3. Within(a, Plus(p, n)) /\ OnScreen(g, Plus(p, n))
    BY <2>2, <1>1, <1>2, <1>5, SMT DEF Within, OnScreen
  <2> QED BY <2>1, <2>3, <1>4 DEF Motions
<1>6. CASE p <= Low(g)
  <2>1. n = g.step
    BY <1>1, <1>2, <1>3, <1>6, SMT DEF Bounce, Turn
  <2>2. Plus(p, n) = p + g.step
    BY <2>1, <1>1, <1>2, PlusForward
  <2>3. Within(a, Plus(p, n)) /\ (OnScreen(g, p) => OnScreen(g, Plus(p, n)))
    BY <2>2, <1>1, <1>2, <1>6, SMT DEF Within, OnScreen
  <2> QED BY <2>1, <2>3, <1>4 DEF Motions
<1>7. CASE Low(g) < p /\ p < High(g)
  <2>1. n = m
    BY <1>1, <1>2, <1>3, <1>7, SMT DEF Bounce, Turn
  <2>2. CASE m = 0
    <3>1. Plus(p, n) = p
      BY <2>1, <2>2, <1>2, <1>1, PlusForward, SMT
    <3> QED BY <2>1, <2>2, <3>1, <1>1, <1>2, <1>7, SMT DEF Motions, Within
  <2>3. CASE m = g.step
    <3>1. Plus(p, n) = p + g.step
      BY <2>1, <2>3, <1>1, <1>2, PlusForward
    <3>2. Within(a, Plus(p, n)) /\ OnScreen(g, Plus(p, n))
      BY <3>1, <1>1, <1>2, <1>7, SMT DEF Within, OnScreen
    <3> QED BY <2>1, <2>3, <3>2, <1>4 DEF Motions
  <2>4. CASE m = Minus(g.step)
    <3>1. Plus(p, n) = p - g.step
      BY <2>1, <2>4, <1>1, <1>2, <1>7, PlusBack
    <3>2. Within(a, Plus(p, n)) /\ OnScreen(g, Plus(p, n))
      BY <3>1, <1>1, <1>2, <1>7, SMT DEF Within, OnScreen
    <3> QED BY <2>1, <2>4, <3>2, <1>4 DEF Motions
  <2> QED BY <2>2, <2>3, <2>4 DEF Motions
<1> QED BY <1>1, <1>2, <1>5, <1>6, <1>7, SMT

-----------------------------------------------------------------------------
\* The player is within the screen's far ends, and moves or is in the bounce
\* zone of the top wall.
Inv == /\ pos \in [Axes -> Nat]
       /\ \A a \in Axes : Within(a, pos[a])
       /\ motion \in [Axes -> UNION {Motions(a) : a \in Axes}]
       /\ \A a \in Axes : motion[a] \in Motions(a)
       /\ is_start \in BOOLEAN
       /\ (\E a \in Axes : motion[a] # 0) \/ pos["Y"] <= Low(Axis["Y"])

\* Steering gives every axis one of its motions, and clears both axes only
\* if both were 0.
LEMMA SteeredMotions ==
  ASSUME NEW key, \A a \in Axes : motion[a] \in Motions(a)
  PROVE  /\ \A a \in Axes : Steered(key, a) \in Motions(a)
         /\ (\E a \in Axes : motion[a] # 0) => \E a \in Axes : Steered(key, a) # 0
<1>1. ASSUME NEW a \in Axes PROVE Steer(key, a) \in Motions(a)
  BY DEF Steer, Motions
<1>2. ASSUME key \in {Left, Right, Up, Down}
      PROVE  \E a \in Axes : Steer(key, a) # 0
  <2>1. \A a \in Axes : Axis[a].step # 0 /\ Minus(Axis[a].step) # 0
    BY AxisFacts, SMT DEF Minus, Modulus
  <2>2. CASE key \in {Left, Right}
    <3>1. Steer(key, "X") # 0
      BY <2>1, <2>2, UserKeyAssumption DEF Steer, Axes
    <3> QED BY <3>1 DEF Axes
  <2>3. CASE key \in {Up, Down}
    <3>1. Steer(key, "Y") # 0
      BY <2>1, <2>3, UserKeyAssumption DEF Steer, Axes
    <3> QED BY <3>1 DEF Axes
  <2> QED BY <1>2, <2>2, <2>3
<1>3. CASE key \in {Left, Right, Up, Down}
  BY <1>1, <1>2, <1>3 DEF Steered
<1>4. CASE key \notin {Left, Right, Up, Down}
  BY <1>4 DEF Steered
<1> QED BY <1>3, <1>4

\* Whatever the two codes, the next frame moves the player.
LEMMA NextMotionMoves ==
  ASSUME Inv, NEW keycode, NEW keycode_0
  PROVE  /\ NextMotion(keycode, keycode_0) \in [Axes -> UNION {Motions(a) : a \in Axes}]
         /\ \A a \in Axes : NextMotion(keycode, keycode_0)[a] \in Motions(a)
         /\ \E a \in Axes : NextMotion(keycode, keycode_0)[a] # 0
<1> DEFINE key == Obeyed(keycode, keycode_0)
           n == NextMotion(keycode, keycode_0)
<1>1. \A a \in Axes : n[a] = Bounce(Axis[a], pos[a], Steered(key, a))
  BY DEF NextMotion
<1>2. /\ \A a \in Axes : Steered(key, a) \in Motions(a)
      /\ (\E a \in Axes : motion[a] # 0) => \E a \in Axes : Steered(key, a) # 0
  BY SteeredMotions DEF Inv
<1>3. \A a \in Axes : /\ n[a] \in Motions(a)
                      /\ Steered(key, a) # 0 \/ pos[a] <= Low(Axis[a]) => n[a] # 0
  BY <1>1, <1>2, BounceStays DEF Inv
<1>4. \E a \in Axes : n[a] # 0
  <2>1. CASE \E a \in Axes : motion[a] # 0
    BY <2>1, <1>2, <1>3
  <2>2. CASE pos["Y"] <= Low(Axis["Y"])
    BY <2>2, <1>3 DEF Axes
  <2> QED BY <2>1, <2>2 DEF Inv
<1>5. n \in [Axes -> UNION {Motions(a) : a \in Axes}]
  BY <1>3 DEF NextMotion
<1> QED BY <1>3, <1>4, <1>5

\* A frame keeps the invariant, and keeps a player on the screen there.
LEMMA FrameKeeps ==
  ASSUME Inv, NEW keycode, NEW keycode_0, Frame(keycode, keycode_0)
  PROVE  Inv' /\ (Placed => Placed')
<1> DEFINE key == Obeyed(keycode, keycode_0)
<1>1. /\ motion' \in [Axes -> UNION {Motions(a) : a \in Axes}]
      /\ \A a \in Axes : motion'[a] \in Motions(a)
      /\ \E a \in Axes : motion'[a] # 0
  BY NextMotionMoves DEF Frame
<1>2. \A a \in Axes : motion'[a] = Bounce(Axis[a], pos[a], Steered(key, a))
  BY DEF Frame, NextMotion
<1>3. \A a \in Axes : Steered(key, a) \in Motions(a)
  BY SteeredMotions DEF Inv
<1>4. \A a \in Axes : /\ Within(a, Plus(pos[a], motion'[a]))
                      /\ OnScreen(Axis[a], pos[a])
                           => OnScreen(Axis[a], Plus(pos[a], motion'[a]))
  BY <1>2, <1>3, BounceStays DEF Inv
<1>5. \A a \in Axes : pos'[a] = IF is_start THEN Plus(pos[a], motion'[a]) ELSE pos[a]
  BY DEF Frame
<1>6. \A a \in Axes : Within(a, pos'[a]) /\ (OnScreen(Axis[a], pos[a]) => OnScreen(Axis[a], pos'[a]))
  BY <1>4, <1>5 DEF Inv
<1>7. pos' \in [Axes -> Nat]
  BY <1>6 DEF Frame, Within
<1>8. is_start' \in BOOLEAN
  BY DEF Inv, Frame
<1> QED BY <1>1, <1>6, <1>7, <1>8 DEF Inv, Placed

\* Reset puts the player on the screen, in the bounce zone.
LEMMA ResetPlaces ==
  ASSUME Reset
  PROVE  Inv' /\ Placed'
<1>1. /\ \A a \in Axes : pos'[a] \in Axis[a].centres
      /\ pos' \in [Axes -> Axis["X"].centres \cup Axis["Y"].centres]
  BY DEF Reset
<1>2. \A a \in Axes : pos'[a] \in Nat /\ OnScreen(Axis[a], pos'[a])
  BY <1>1, UserAxisAssumption
<1>3. \A a \in Axes : Within(a, pos'[a])
  BY <1>2 DEF Within, OnScreen
<1>4. pos' \in [Axes -> Nat]
  BY <1>1, <1>2
<1>5. pos'["Y"] <= Low(Axis["Y"])
  BY <1>1, UserStartAssumption DEF Axes
<1>6. /\ motion' \in [Axes -> UNION {Motions(a) : a \in Axes}]
      /\ \A a \in Axes : motion'[a] \in Motions(a)
  BY DEF Reset, Motions
<1>7. is_start' \in BOOLEAN
  BY DEF Reset
<1> QED BY <1>2, <1>3, <1>4, <1>5, <1>6, <1>7 DEF Inv, Placed

LEMMA UserInvariant == Spec => []Inv
<1>1. Init => Inv
  <2> SUFFICES ASSUME Init PROVE Inv
    OBVIOUS
  <2>1. \A a \in Axes : Within(a, 0) /\ 0 <= Low(Axis[a])
    BY AxisFacts, SMT DEF Within
  <2> QED BY <2>1 DEF Init, Inv, Motions, Axes
<1>2. Inv /\ [Next]_vars => Inv'
  <2> SUFFICES ASSUME Inv, [Next]_vars PROVE Inv'
    OBVIOUS
  <2>1. ASSUME NEW keycode \in Keycode, NEW keycode_0 \in Keycode, Frame(keycode, keycode_0)
        PROVE  Inv'
    BY <2>1, FrameKeeps
  <2>2. CASE Start
    BY <2>2 DEF Start, Inv, Within
  <2>3. CASE Reset
    BY <2>3, ResetPlaces
  <2>4. CASE UNCHANGED vars
    BY <2>4 DEF vars, Inv, Within
  <2> QED BY <2>1, <2>2, <2>3, <2>4 DEF Next
<1> QED BY <1>1, <1>2, PTL DEF Spec

\* Half a size is a number.
LEMMA HalfIsNat == ASSUME NEW n \in Nat PROVE n \div 2 \in Nat
BY SMT

\* The registers of a player keep to their ten bits and to the three motions.
THEOREM UserTypeCorrect == Spec => []TypeOK
<1>1. Inv => TypeOK
  <2> SUFFICES ASSUME Inv PROVE TypeOK
    OBVIOUS
  <2>1. ASSUME NEW a \in Axes PROVE pos[a] \in 0..(Modulus - 1)
    <3>1. Within(a, pos[a])
      BY <2>1 DEF Inv
    <3>2. Axis[a].size \in Nat /\ Axis[a].max \in Nat /\ Axis[a].max + Axis[a].size < 1024
          /\ 0 < Axis[a].size
      BY <2>1, UserAxisAssumption, SMT DEF Modulus
    <3>3. pos[a] \in Nat /\ pos[a] + Axis[a].size \div 2 <= Axis[a].max + 1
      BY <3>1 DEF Within
    <3>4. Axis[a].size \div 2 \in Nat
      BY <3>2, HalfIsNat
    <3>5. pos[a] < 1024
      <4> HIDE DEF Within
      <4> DEFINE p == pos[a]  s == Axis[a].size  h == Axis[a].size \div 2  x == Axis[a].max
      <4>1. /\ p \in Nat /\ s \in Nat /\ h \in Nat /\ x \in Nat
            /\ p + h <= x + 1 /\ x + s < 1024 /\ 0 < s
        BY <3>2, <3>3, <3>4
      <4> HIDE DEF p, s, h, x
      <4>2. p < 1024
        BY <4>1, SMT
      <4> QED BY <4>2 DEF p
    <3> QED BY <3>3, <3>5, SMT DEF Modulus
  <2>2. pos \in [Axes -> 0..(Modulus - 1)]
    BY <2>1 DEF Inv
  <2>3. motion \in [Axes -> UNION {{0, Axis[a].step, Minus(Axis[a].step)} : a \in Axes}]
    BY DEF Inv, Motions
  <2> QED BY <2>2, <2>3 DEF Inv, TypeOK
<1> QED BY <1>1, UserInvariant, PTL

\* No steering takes a player off the screen.
THEOREM UserStaysOnScreen == Spec => StaysOnScreen
<1>1. Inv /\ [Next]_vars => [Placed => Placed']_vars
  <2> SUFFICES ASSUME Inv, Next, Placed PROVE Placed'
    OBVIOUS
  <2>1. ASSUME NEW keycode \in Keycode, NEW keycode_0 \in Keycode, Frame(keycode, keycode_0)
        PROVE  Placed'
    BY <2>1, FrameKeeps
  <2>2. CASE Start
    BY <2>2 DEF Start, Placed
  <2>3. CASE Reset
    BY <2>3, ResetPlaces
  <2> QED BY <2>1, <2>2, <2>3 DEF Next
<1> QED BY <1>1, UserInvariant, PTL DEF Spec, StaysOnScreen

\* Whatever the keys, the next frame of a started player moves it.
THEOREM UserNeverStands == Spec => []NeverStands
<1>1. Inv => NeverStands
  BY NextMotionMoves DEF NeverStands
<1> QED BY <1>1, UserInvariant, PTL

\* One of the player's keys is obeyed in either place of the report.
LEMMA OneKeyIsObeyed ==
  ASSUME NEW key \in {Left, Right, Up, Down}, NEW other, other \notin {Left, Right, Up, Down}
  PROVE  Obeyed(key, other) = key /\ Obeyed(other, key) = key
BY DEF Obeyed

\* Away from the walls the one key moves the player along its axis only.
THEOREM UserOneKeyIsEnough == Spec => []OneKeyIsEnough
<1>1. ASSUME Inv PROVE OneKeyIsEnough
  <2> SUFFICES ASSUME NEW key \in {Left, Right, Up, Down},
                      NEW other \in Keycode \ {Left, Right, Up, Down}, NEW a \in Axes,
                      pos[a] > Low(Axis[a]), ~AtHigh(Axis[a], pos[a])
               PROVE  /\ NextMotion(key, other)[a] = Steer(key, a)
                      /\ NextMotion(other, key)[a] = Steer(key, a)
    BY DEF OneKeyIsEnough
  <2>1. ~(pos[a] <= Low(Axis[a]))
    <3>1. pos[a] \in Nat
      BY <1>1 DEF Inv, Within
    <3>2. Low(Axis[a]) \in Nat
      BY AxisFacts
    <3> QED BY <3>1, <3>2, SMT
  <2>2. ASSUME NEW m PROVE Bounce(Axis[a], pos[a], m) = m
    BY <2>1 DEF Bounce, Turn
  <2>3. Steered(key, a) = Steer(key, a)
    BY DEF Steered
  <2> QED BY <2>2, <2>3, OneKeyIsObeyed DEF NextMotion
<1> QED BY <1>1, UserInvariant, PTL
=============================================================================
