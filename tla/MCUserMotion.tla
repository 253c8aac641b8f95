--------------------------- MODULE MCUserMotion ---------------------------
(* Player 1 with the numbers of user.sv; "other" stands for the codes that *)
(* are not keys of this player, 0 (no key) among them.  The X axis is cut   *)
(* to 13 steps, so that the states stay few; its rules are those of Y.     *)
EXTENDS UserMotion
MCAxis == [X |-> [min |-> 0, max |-> 165, size |-> 64, step |-> 3, slack |-> 0,
                  centres |-> {70}],
           Y |-> [min |-> 48, max |-> 479, size |-> 48, step |-> 3, slack |-> 0,
                  centres |-> {70}]]
=============================================================================
