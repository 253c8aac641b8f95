-------------------------- MODULE MCSharkMotion --------------------------
(* The field of shark.sv at one sixteenth of its size.  The players are in *)
(* one of two corners of their own field, thrown back and forth there, in  *)
(* the middle of it, or at the origin, where power-up puts them.           *)
EXTENDS SharkMotion
MCAxis == [X |-> [min |-> 0, max |-> 40, size |-> 16, step |-> 1, slack |-> 7,
                  centres |-> {25}],
           Y |-> [min |-> 3, max |-> 30, size |-> 12, step |-> 1, slack |-> 6,
                  centres |-> {25}]]
At(x, y) == [X |-> x, Y |-> y]
MCOrigin == At(0, 0)
MCSpots == {{At(4, 5), At(5, 4)}, {At(36, 27), At(35, 26)}, {At(20, 15)}}
MCPlaces == {MCOrigin} \cup UNION MCSpots
==========================================================================
