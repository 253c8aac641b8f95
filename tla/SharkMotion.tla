---------------------------- MODULE SharkMotion ----------------------------
(***************************************************************************)
(* How the shark hunts (shark.sv), one step per frame.  Where the players  *)
(* are is an input: they move anywhere in their field between two frames,  *)
(* which includes all that user.sv and user2.sv let them do.               *)
(***************************************************************************)
EXTENDS Motion

CONSTANTS
  Axis,     \* Axis["X"] and Axis["Y"]: the parameters of the two axes
  Places,   \* the positions [X, Y] a player can have
  Origin,   \* the position of the players at power-up
  Spots     \* sets of neighbouring places

Axes == {"X", "Y"}
Player == {1, 2}

ASSUME SharkAxisAssumption ==
  \A a \in Axes :
    /\ {Axis[a].min, Axis[a].max, Axis[a].size, Axis[a].slack} \subseteq Nat
    /\ Axis[a].step = 1
    /\ 0 < Low(Axis[a]) /\ Low(Axis[a]) + 1 < High(Axis[a])
    /\ High(Axis[a]) + 1 < Modulus
    /\ Axis[a].centres \subseteq 0..(Modulus - 1)

ASSUME PlacesAssumption ==
  /\ Places \subseteq [Axes -> 0..(Modulus - 1)] /\ Origin \in Places
  /\ Spots \subseteq SUBSET Places

VARIABLES pos,       \* shark_X_Pos and shark_Y_Pos, by axis
          motion,    \* shark_X_Motion and shark_Y_Motion
          user,      \* user1_X_Pos ... user2_Y_Pos, by player and axis
          is_start   \* the register of controller.sv

vars == <<pos, motion, user, is_start>>

\* At power-up the registers hold 0.
Init == /\ pos = [a \in Axes |-> 0]
        /\ motion = [a \in Axes |-> 0]
        /\ user = [p \in Player |-> Origin]
        /\ is_start = FALSE

Reset == /\ pos' \in {p \in [Axes -> Axis["X"].centres \cup Axis["Y"].centres] :
                        \A a \in Axes : p[a] \in Axis[a].centres}
         /\ motion' = [a \in Axes |-> Axis[a].step]
         /\ user' \in [Player -> Places]
         /\ is_start' = FALSE

\* The shark hunts the lower of the two players on the screen, player 2 when
\* they are level.
\* fault: the higher one.
PreyHigher == IF user[1]["Y"] < user[2]["Y"] THEN user[1] ELSE user[2]
Prey == IF user[1]["Y"] > user[2]["Y"] THEN user[1] ELSE user[2]

\* The motion towards the prey on axis a.
\* fault: level with the prey, the shark keeps its motion.
TowardsKeeps(a) == IF pos[a] > Prey[a] THEN Minus(Axis[a].step)
                   ELSE IF pos[a] < Prey[a] THEN Axis[a].step ELSE motion[a]
Towards(a) == IF pos[a] > Prey[a] THEN Minus(Axis[a].step)
              ELSE IF pos[a] < Prey[a] THEN Axis[a].step ELSE 0

\* pos + size >= max + slack; the literals 90 and 120 make it a comparison
\* in 32 bits, which cannot wrap.
AtFar(a) == pos[a] + Axis[a].size >= Axis[a].max + Axis[a].slack

NextMotion == [a \in Axes |-> Turn(Axis[a], pos[a], AtFar(a), Towards(a))]

\* A frame.
Frame == /\ motion' = NextMotion
         /\ pos' = [a \in Axes |-> IF is_start THEN Plus(pos[a], motion'[a]) ELSE pos[a]]
         /\ UNCHANGED <<user, is_start>>

\* The players move before the next frame.
Move == user' \in [Player -> Places] /\ UNCHANGED <<pos, motion, is_start>>

Start == ~is_start /\ is_start' = TRUE /\ UNCHANGED <<pos, motion, user>>

Next == Frame \/ Move \/ Start \/ Reset

Spec == Init /\ [][Next]_vars

\* The VGA controller never stops drawing frames.
FairSpec == Spec /\ WF_vars(Frame)

-----------------------------------------------------------------------------
(* Properties *)

TypeOK == /\ pos \in [Axes -> 0..(Modulus - 1)]
          /\ motion \in [Axes -> UNION {{0, Axis[a].step, Minus(Axis[a].step)} : a \in Axes}]
          /\ user \in [Player -> Places]
          /\ is_start \in BOOLEAN

\* The centre of the shark on axis a is within the walls, or one step beyond
\* one of them.
InField(a) == Low(Axis[a]) - 1 <= pos[a] /\ pos[a] <= High(Axis[a]) + 1

\* Wherever the players go, a shark within its walls never gets out of them,
\* except by Reset, which puts it below the bottom one.
StaysInField ==
  [][\A a \in Axes : InField(a) => Reset \/ InField(a)']_vars

\* The lower player on the screen, or both when they are level.
Lowest == {p \in Player : \A q \in Player : user[q]["Y"] <= user[p]["Y"]}

\* How far the shark is from player p on axis a.
Distance(p, a) == IF pos[a] > user[p][a] THEN pos[a] - user[p][a]
                                         ELSE user[p][a] - pos[a]

\* Within the walls a frame takes the shark nearer to one of the lowest
\* players: by one step on each axis, until it is level and stays so.
Hunts ==
  [][Frame /\ is_start =>
       \E p \in Lowest : \A a \in Axes :
         Low(Axis[a]) < pos[a] /\ pos[a] < High(Axis[a]) =>
           \/ Distance(p, a)' = Distance(p, a) - 1
           \/ Distance(p, a) = 0 /\ Distance(p, a)' = 0]_vars

\* There is no hiding place: when the lowest player keeps to one spot (one
\* that hugs a wall is thrown back and forth by a step), its centre ends up
\* under the box of the shark for good, even in a corner that the walls of
\* the shark keep the shark's centre away from.
Covers(p) == \A a \in Axes : /\ pos[a] - Axis[a].size \div 2 <= user[p][a]
                             /\ user[p][a] < pos[a] + Axis[a].size \div 2
NoHidingPlace ==
  \A s \in Spots : <>[](is_start /\ \A p \in Lowest : user[p] \in s)
                     => <>[](\A p \in Lowest : Covers(p))
=============================================================================
