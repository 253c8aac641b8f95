---------------------------- MODULE FirstTouch ----------------------------
(***************************************************************************)
(* Game with a history of touches: which player touched each fish first,  *)
(* and which players have touched it, since the last Reset.  The history   *)
(* only records the inputs of Clock; it changes nothing of the game.       *)
(***************************************************************************)
EXTENDS Game

VARIABLES first,     \* first[f]: the player of the first touch, 0 if none
          touchers   \* touchers[f]: the players that have touched fish f

hvars == <<vars, first, touchers>>

\* A touch at which both players are lit belongs to player 1 (fish.sv tests
\* is_user1 first).
OwnerOf(lit) == IF 1 \in lit THEN 1 ELSE 2

HInit == /\ Init
         /\ first = [f \in FishId |-> 0]
         /\ touchers = [f \in FishId |-> {}]

Record(lit, school) ==
  LET touched == IF is_start /\ lit # {} THEN school ELSE {}
  IN  /\ first' = [f \in FishId |-> IF f \in touched /\ first[f] = 0
                                      THEN OwnerOf(lit) ELSE first[f]]
      /\ touchers' = [f \in FishId |-> IF f \in touched
                                         THEN touchers[f] \cup lit
                                         ELSE touchers[f]]

HTick == \E lit \in SUBSET Player, is_shark \in BOOLEAN,
            school \in SUBSET FishId, enter \in BOOLEAN :
              Clock(lit, is_shark, school, enter) /\ Record(lit, school)

HReset == /\ Reset
          /\ first' = [f \in FishId |-> 0]
          /\ touchers' = [f \in FishId |-> {}]

HNext == HTick \/ HReset

HSpec == HInit /\ [][HNext]_hvars

\* As in Game: the clock never stops and idle edges keep coming.
HIdle == IdleClock /\ UNCHANGED <<first, touchers>>
HFairSpec == HSpec /\ WF_hvars(HIdle)

-----------------------------------------------------------------------------
(* Properties *)

\* Whoever touches a fish first is credited with it, whatever happens at the
\* clock edge between the touch and the credit; and a fish that is gone was
\* touched (fish.sv keeps the owner in one register, overwrites it while the
\* fish is unclaimed, and copies it into the eat flags one clock later).
FirstToucherCredited ==
  \A f \in FishId : fish[f].fish_exist =>
    /\ first[f] # 0
    /\ first[f] = 1 => fish[f].user1_eat_fish
    /\ first[f] = 2 => fish[f].user2_eat_fish

\* No player is credited with a fish that player never touched: the bare else
\* of fish.sv:214 credits player 2 whenever player 1 is not the owner.
CreditIsEarned ==
  \A f \in FishId : /\ fish[f].user1_eat_fish => 1 \in touchers[f]
                    /\ fish[f].user2_eat_fish => 2 \in touchers[f]
=============================================================================
