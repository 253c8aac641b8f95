---------------------------- MODULE UserMotion ----------------------------
(***************************************************************************)
(* How a player is steered (user.sv; user2.sv differs in its key codes     *)
(* only), one step per frame.                                              *)
(***************************************************************************)
EXTENDS Motion

CONSTANTS
  Axis,      \* Axis["X"] and Axis["Y"]: the parameters of the two axes
  Left, Right, Up, Down,     \* the codes of the player's keys
  Keycode    \* all the codes the keyboard may report

Axes == {"X", "Y"}

ASSUME UserAxisAssumption ==
  \A a \in Axes :
    /\ {Axis[a].min, Axis[a].max, Axis[a].size, Axis[a].step} \subseteq Nat
    /\ Axis[a].slack = 0
    /\ 0 < Axis[a].step /\ Axis[a].step < Axis[a].size \div 2
    /\ Axis[a].max + Axis[a].size < Modulus
    /\ Low(Axis[a]) + Axis[a].step < High(Axis[a])
    /\ Axis[a].centres \subseteq {c \in Nat : OnScreen(Axis[a], c)}

\* Reset puts a player within the bounce zone of the top wall (70 <= 96).
ASSUME UserStartAssumption == \A c \in Axis["Y"].centres : c <= Low(Axis["Y"])

ASSUME UserKeyAssumption ==
  /\ {Left, Right, Up, Down} \subseteq Keycode
  /\ \A i, j \in 1..4 : i # j => <<Left, Right, Up, Down>>[i] # <<Left, Right, Up, Down>>[j]

VARIABLES pos,       \* user_X_Pos and user_Y_Pos, by axis
          motion,    \* user_X_Motion and user_Y_Motion
          is_start   \* the register of controller.sv

vars == <<pos, motion, is_start>>

\* At power-up the registers hold 0.
Init == /\ pos = [a \in Axes |-> 0]
        /\ motion = [a \in Axes |-> 0]
        /\ is_start = FALSE

Reset == /\ pos' \in {p \in [Axes -> Axis["X"].centres \cup Axis["Y"].centres] :
                        \A a \in Axes : p[a] \in Axis[a].centres}
         /\ motion' = [a \in Axes |-> 0]
         /\ is_start' = FALSE

\* What a key does to the motion on axis a: it sets its own axis and clears
\* the other one.
Steer(key, a) ==
  CASE key = Left  /\ a = "X" -> Minus(Axis[a].step)
    [] key = Right /\ a = "X" -> Axis[a].step
    [] key = Up    /\ a = "Y" -> Minus(Axis[a].step)
    [] key = Down  /\ a = "Y" -> Axis[a].step
    [] OTHER -> 0

\* The key obeyed: the first of the two reported codes that is one of the
\* player's keys.
\* fault: the second code is not looked at.
ObeyedFirstOnly(keycode, keycode_0) == keycode
Obeyed(keycode, keycode_0) ==
  IF keycode \in {Left, Right, Up, Down} THEN keycode ELSE keycode_0

Steered(key, a) ==
  IF key \in {Left, Right, Up, Down} THEN Steer(key, a) ELSE motion[a]

\* The motion after a frame with those two codes: the walls override the
\* keys.
\* fault: the boundary tests of the Y axis are left out.
NextMotionOpenY(keycode, keycode_0) ==
  [a \in Axes |-> IF a = "Y" THEN Steered(Obeyed(keycode, keycode_0), a)
                  ELSE Bounce(Axis[a], pos[a], Steered(Obeyed(keycode, keycode_0), a))]
NextMotion(keycode, keycode_0) ==
  [a \in Axes |-> Bounce(Axis[a], pos[a], Steered(Obeyed(keycode, keycode_0), a))]

\* A frame.  The motion follows the keys even before the game has started.
Frame(keycode, keycode_0) ==
  /\ motion' = NextMotion(keycode, keycode_0)
  /\ pos' = [a \in Axes |-> IF is_start THEN Plus(pos[a], motion'[a]) ELSE pos[a]]
  /\ UNCHANGED is_start

\* Enter is taken by the controller at any clock, between two frames.
Start == ~is_start /\ is_start' = TRUE /\ UNCHANGED <<pos, motion>>

Next == \/ \E keycode, keycode_0 \in Keycode : Frame(keycode, keycode_0)
        \/ Start
        \/ Reset

Spec == Init /\ [][Next]_vars

-----------------------------------------------------------------------------
(* Properties *)

TypeOK == /\ pos \in [Axes -> 0..(Modulus - 1)]
          /\ motion \in [Axes -> UNION {{0, Axis[a].step, Minus(Axis[a].step)} : a \in Axes}]
          /\ is_start \in BOOLEAN

Placed == \A a \in Axes : OnScreen(Axis[a], pos[a])

\* Once placed on the screen a player stays on it, whatever keys are held
\* down and for how long: no steering drives a player through a wall, and
\* no unsigned sum wraps round.
StaysOnScreen == [][Placed => Placed']_vars

\* A started player never stands still, with or without a key: Reset places
\* the player in the bounce zone of the top wall, where the first frame sets
\* a motion, and from then on no frame clears both motions at once.
NeverStands ==
  \A keycode, keycode_0 \in Keycode :
    \E a \in Axes : NextMotion(keycode, keycode_0)[a] # 0

\* The two players share one report of two codes.  Away from the walls, one
\* of the player's keys moves the player along that key's axis and no other,
\* in whichever place of the report it is and whatever was held before.
OneKeyIsEnough ==
  \A key \in {Left, Right, Up, Down},
     other \in Keycode \ {Left, Right, Up, Down}, a \in Axes :
       pos[a] > Low(Axis[a]) /\ ~AtHigh(Axis[a], pos[a]) =>
         /\ NextMotion(key, other)[a] = Steer(key, a)
         /\ NextMotion(other, key)[a] = Steer(key, a)

\* "key A, clear y directional motion and moving left" (user.sv:109): the
\* frame of a started player that obeys the Left key has no vertical motion.
LeftClearsVertical ==
  \A keycode, keycode_0 \in Keycode :
    is_start /\ Obeyed(keycode, keycode_0) = Left =>
      NextMotion(keycode, keycode_0)["Y"] = 0
=============================================================================
