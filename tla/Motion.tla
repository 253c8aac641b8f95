------------------------------ MODULE Motion ------------------------------
(***************************************************************************)
(* The arithmetic of the moving sprites, shared by fish.sv, user.sv,       *)
(* user2.sv and shark.sv.  Positions and motions are unsigned registers;   *)
(* a motion to the left or upwards is the two's complement of the step.    *)
(* An axis g of a sprite is described by its parameters:                   *)
(*   min, max   the field (fish_X_Min .. fish_X_Max)                       *)
(*   size       the size of the sprite's box                               *)
(*   step       the pixels moved per frame                                 *)
(*   slack      how far beyond the box rule the centre may go (the 90 and  *)
(*              120 of shark.sv; 0 for the others)                         *)
(*   centres    where Reset may put the sprite's centre                    *)
(***************************************************************************)
EXTENDS Integers

\* The registers have ten bits.
Modulus == 1024

\* ~step + 1'b1
Minus(step) == Modulus - step

\* The next position.
Plus(pos, motion) == (pos + motion) % Modulus

\* The walls at which a sprite turns round: the first centres at which the
\* box rule sends it back.
Low(g)  == g.min + g.size - g.slack
High(g) == g.max + g.slack - g.size

\* The motion after the boundary tests of one axis.  high tells whether the
\* test of the far wall succeeds; it is made first.
\* fault: a sprite is stopped at the near wall, not turned.
TurnStops(g, pos, high, motion) ==
  IF high THEN Minus(g.step) ELSE IF pos <= Low(g) THEN 0 ELSE motion
\* fault: the near wall is tested without the size of the sprite.
TurnAtEdge(g, pos, high, motion) ==
  IF high THEN Minus(g.step) ELSE IF pos <= g.min THEN g.step ELSE motion
Turn(g, pos, high, motion) ==
  IF high THEN Minus(g.step) ELSE IF pos <= Low(g) THEN g.step ELSE motion

\* pos + size >= max, compared in the width of the registers.
\* fault: == instead of >=.
AtHighExactly(g, pos) == (pos + g.size) % Modulus = g.max
AtHigh(g, pos) == (pos + g.size) % Modulus >= g.max

Bounce(g, pos, motion) == Turn(g, pos, AtHigh(g, pos), motion)

\* The box of a sprite lies on the screen.
OnScreen(g, pos) == pos - g.size \div 2 >= 0 /\ pos + g.size \div 2 <= g.max + 1
===========================================================================
