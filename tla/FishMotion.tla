---------------------------- MODULE FishMotion ----------------------------
(***************************************************************************)
(* How a fish swims (fish.sv), one step per frame.  Its two axes never     *)
(* influence each other, so the module is about either of them: Axis holds *)
(* the parameters of that axis, and Reset puts the fish at any of the      *)
(* centres that fish_top.sv gives to its nine fish.                        *)
(***************************************************************************)
EXTENDS Motion

CONSTANT Axis

ASSUME FishAxisAssumption ==
  /\ {Axis.min, Axis.max, Axis.size, Axis.step} \subseteq Nat
  /\ Axis.slack = 0
  /\ 0 < Axis.step /\ Axis.step <= Axis.size \div 2
  /\ Axis.max + Axis.size < Modulus
  /\ Low(Axis) + Axis.step < High(Axis)
  /\ Axis.centres \subseteq {c \in Nat : OnScreen(Axis, c)}

VARIABLES pos,      \* fish_X_Pos (or fish_Y_Pos)
          motion    \* fish_X_Motion (or fish_Y_Motion)

vars == <<pos, motion>>

\* At power-up the registers hold 0; the fish is placed by Reset.
Init == pos = 0 /\ motion = 0

Reset == /\ pos' \in Axis.centres
         /\ motion' = Axis.step

\* A frame: the fish swims whether or not the game has been started.
Frame == /\ motion' = Bounce(Axis, pos, motion)
         /\ pos' = Plus(pos, motion')

Next == Frame \/ Reset

Spec == Init /\ [][Next]_vars

\* The VGA controller never stops drawing frames.
FairSpec == Spec /\ WF_vars(Frame)

-----------------------------------------------------------------------------
(* Properties *)

TypeOK == /\ pos \in 0..(Modulus - 1)
          /\ motion \in {0, Axis.step, Minus(Axis.step)}

\* A fish whose box is on the screen stays on it, wherever Reset put it (the
\* first fish starts beyond the bottom wall): the unsigned ten-bit sums of
\* fish.sv never wrap round.
StaysOnScreen == [][OnScreen(Axis, pos) => OnScreen(Axis, pos)']_vars

\* A frame moves the fish by exactly one step, to one side or the other: it
\* neither jumps across the screen nor stands still.
Glides == [][Reset \/ pos' = pos + Axis.step \/ pos' = pos - Axis.step]_vars

\* Unless Reset is pressed again and again, every fish keeps crossing the
\* whole field, so no part of it is out of the players' reach for ever.
Patrols == <>[][Frame]_vars => /\ []<>(pos = Low(Axis))
                               /\ []<>(pos = High(Axis))
=============================================================================
