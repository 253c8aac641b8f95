------------------------------- MODULE Fish -------------------------------
(***************************************************************************)
(* The contact registers of one fish (fish.sv).  A fish is touched when    *)
(* the beam lights it and a player at the same pixel; the touch is         *)
(* remembered for one clock, with the player it belongs to, and on the     *)
(* next clock the fish is gone and a player is credited with it.           *)
(* Definitions marked "fault:" are the broken forms named by the mutants   *)
(* of PROJECT.json; nothing else refers to them.                           *)
(***************************************************************************)

\* The six flip-flops of always_ff @(posedge Clk).  fish_exist keeps the
\* source's name: it is 1 once the fish is EATEN (the colour mapper stops
\* drawing it then).
FishRegs == [hit : BOOLEAN,
             user1_hit_fish : BOOLEAN, user2_hit_fish : BOOLEAN,
             fish_exist : BOOLEAN,
             user1_eat_fish : BOOLEAN, user2_eat_fish : BOOLEAN]

FishReset == [hit |-> FALSE,
              user1_hit_fish |-> FALSE, user2_hit_fish |-> FALSE,
              fish_exist |-> FALSE,
              user1_eat_fish |-> FALSE, user2_eat_fish |-> FALSE]

\* A player touches the fish.  on1 and on2 say that the beam lights this
\* fish together with player 1 and player 2.
Touched(on1, on2, is_start) == (on1 \/ on2) /\ is_start

\* Nobody has been credited with the fish yet, so a touch claims it: player
\* 1 comes first when both touch it.
Unclaimed(f) == ~f.user1_eat_fish /\ ~f.user2_eat_fish

\* fault: the owner follows the beam even when nobody touches the fish.
ClaimsUntouched(f, on1, on2, is_start) == Unclaimed(f)
Claims(f, on1, on2, is_start) == Touched(on1, on2, is_start) /\ Unclaimed(f)

\* The next value of the registers.
\* fault: the owner is set by two separate ifs.
FishNextTwoIfs(f, on1, on2, is_start) ==
  LET claimed == Claims(f, on1, on2, is_start)
  IN  [hit |-> f.hit \/ Touched(on1, on2, is_start),
       user1_hit_fish |-> IF claimed THEN on1 ELSE f.user1_hit_fish,
       user2_hit_fish |-> IF claimed THEN on2 ELSE f.user2_hit_fish,
       fish_exist |-> f.fish_exist \/ f.hit,
       user1_eat_fish |-> f.user1_eat_fish \/ (f.hit /\ f.user1_hit_fish),
       user2_eat_fish |-> f.user2_eat_fish \/ (f.hit /\ ~f.user1_hit_fish)]
\* fault: the credit goes to the owner of this clock, not of the last one.
FishNextLateOwner(f, on1, on2, is_start) ==
  LET claimed == Claims(f, on1, on2, is_start)
      owner1 == IF claimed THEN on1 ELSE f.user1_hit_fish
  IN  [hit |-> f.hit \/ Touched(on1, on2, is_start),
       user1_hit_fish |-> owner1,
       user2_hit_fish |-> IF claimed THEN ~on1 ELSE f.user2_hit_fish,
       fish_exist |-> f.fish_exist \/ f.hit,
       user1_eat_fish |-> f.user1_eat_fish \/ (f.hit /\ owner1),
       user2_eat_fish |-> f.user2_eat_fish \/ (f.hit /\ ~owner1)]
FishNext(f, on1, on2, is_start) ==
  LET claimed == Claims(f, on1, on2, is_start)
  IN  [hit |-> f.hit \/ Touched(on1, on2, is_start),
       user1_hit_fish |-> IF claimed THEN on1 ELSE f.user1_hit_fish,
       user2_hit_fish |-> IF claimed THEN ~on1 ELSE f.user2_hit_fish,
       fish_exist |-> f.fish_exist \/ f.hit,
       user1_eat_fish |-> f.user1_eat_fish \/ (f.hit /\ f.user1_hit_fish),
       user2_eat_fish |-> f.user2_eat_fish \/ (f.hit /\ ~f.user1_hit_fish)]
============================================================================
