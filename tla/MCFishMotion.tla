--------------------------- MODULE MCFishMotion ---------------------------
(* The Y axis of fish.sv with its own numbers and the centres of           *)
(* fish_top.sv.  It is the harder of the two axes: its field begins below  *)
(* the title and fish1 starts beyond its far wall.                         *)
EXTENDS FishMotion
YAxis == [min |-> 48, max |-> 479, size |-> 32, step |-> 1, slack |-> 0,
          centres |-> {480 - 30 * k : k \in 1..9}]
=============================================================================
