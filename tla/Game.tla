------------------------------- MODULE Game -------------------------------
(***************************************************************************)
(* The rules of Crazy Fish, one step per edge of the 50 MHz clock: the     *)
(* contact registers of every fish (fish.sv) and of both players (user.sv, *)
(* user2.sv), the two scores (final_project.sv) and the start and win      *)
(* registers (controller.sv).  What the beam lights at a clock edge is an  *)
(* input, so the players and fish may be anywhere.                         *)
(***************************************************************************)
EXTENDS FiniteSets, Naturals, Fish

CONSTANT FishId    \* the fish of fish_top.sv: nine of them in the build

ASSUME FishIdAssumption == IsFiniteSet(FishId) /\ FishId # {}

VARIABLES
  fish,            \* the contact registers of each fish
  hit,             \* hit of user.sv and of user2.sv, by player number
  user_exist,      \* user1_exist and user2_exist: TRUE once the player DIED
  is_start,        \* the game has been started with the Enter key
  is_user1win,     \* player 1 has won
  is_user2win      \* player 2 has won

vars == <<fish, hit, user_exist, is_start, is_user1win, is_user2win>>

Player == {1, 2}

TypeOK == /\ fish \in [FishId -> FishRegs]
          /\ hit \in [Player -> BOOLEAN]
          /\ user_exist \in [Player -> BOOLEAN]
          /\ is_start \in BOOLEAN
          /\ is_user1win \in BOOLEAN
          /\ is_user2win \in BOOLEAN

-----------------------------------------------------------------------------
\* Definitions marked "fault:" are the broken forms named by the mutants of
\* PROJECT.json; nothing else refers to them.

\* The fish credited to each player, and the scores: sums of eat flags.
\* fault: the score counts the claim of a fish, not its credit.
ClaimedBy1 == {f \in FishId : fish[f].user1_hit_fish}
Eaten1 == {f \in FishId : fish[f].user1_eat_fish}
Eaten2 == {f \in FishId : fish[f].user2_eat_fish}

score1 == Cardinality(Eaten1)
score2 == Cardinality(Eaten2)

\* The total at which the controller compares the scores: 8'd9, the number
\* of fish that fish_top.sv instantiates.
\* fault: one fish more than there are.
WinTotalPlusOne == Cardinality(FishId) + 1
WinTotal == Cardinality(FishId)

-----------------------------------------------------------------------------
\* Every register is cleared, at power-up and by Reset (KEY[0]).
Init == /\ fish = [f \in FishId |-> FishReset]
        /\ hit = [p \in Player |-> FALSE]
        /\ user_exist = [p \in Player |-> FALSE]
        /\ is_start = FALSE
        /\ is_user1win = FALSE
        /\ is_user2win = FALSE

Reset == /\ fish' = [f \in FishId |-> FishReset]
         /\ hit' = [p \in Player |-> FALSE]
         /\ user_exist' = [p \in Player |-> FALSE]
         /\ is_start' = FALSE
         /\ is_user1win' = FALSE
         /\ is_user2win' = FALSE

\* The fish of one clock edge: the beam lights the players in lit and the
\* fish in school.
FishStep(lit, school) ==
  fish' = [f \in FishId |->
             FishNext(fish[f], 1 \in lit /\ f \in school,
                               2 \in lit /\ f \in school, is_start)]

\* A player the beam lights together with the shark is hit, and dead one
\* clock later.
\* fault: the death needs the contact to last for a second clock.
UserStepNotLatched(lit, is_shark) ==
  /\ hit' = [p \in Player |-> hit[p] \/ (is_shark /\ p \in lit /\ is_start)]
  /\ user_exist' = [p \in Player |->
                      user_exist[p] \/ (hit[p] /\ is_shark /\ p \in lit)]
UserStep(lit, is_shark) ==
  /\ hit' = [p \in Player |-> hit[p] \/ (is_shark /\ p \in lit /\ is_start)]
  /\ user_exist' = [p \in Player |-> user_exist[p] \/ hit[p]]

\* The controller: Enter starts the game; a death decides it for the other
\* player unless it is decided already; a total of WinTotal decides it by
\* score whether or not it is decided already.
\* fault: a death counts after the verdict too.
LateDeathOf2 == user_exist[2]
DeathOf1 == user_exist[1] /\ ~is_user1win /\ ~is_user2win
DeathOf2 == user_exist[2] /\ ~is_user1win /\ ~is_user2win
\* fault: the total is compared with >=.
AllScoredAtLeast == score1 + score2 >= WinTotal
AllScored == score1 + score2 = WinTotal
ScoreWin1 == AllScored /\ score1 > score2
ScoreWin2 == AllScored /\ ~(score1 > score2)

\* fault: the survivor's flag is swapped, as in controller.sv.bak.
ControllerStepSwapped(enter) ==
  /\ is_start' = (is_start \/ enter)
  /\ is_user1win' = (is_user1win \/ DeathOf1 \/ (~DeathOf2 /\ ScoreWin1))
  /\ is_user2win' = (is_user2win \/ (~DeathOf1 /\ (DeathOf2 \/ ScoreWin2)))
ControllerStep(enter) ==
  /\ is_start' = (is_start \/ enter)
  /\ is_user2win' = (is_user2win \/ DeathOf1 \/ (~DeathOf2 /\ ScoreWin2))
  /\ is_user1win' = (is_user1win \/ (~DeathOf1 /\ (DeathOf2 \/ ScoreWin1)))

\* One edge of Clk: all registers take their next values at once.
Clock(lit, is_shark, school, enter) ==
  /\ FishStep(lit, school)
  /\ UserStep(lit, is_shark)
  /\ ControllerStep(enter)

Tick == \E lit \in SUBSET Player, is_shark \in BOOLEAN,
           school \in SUBSET FishId, enter \in BOOLEAN :
             Clock(lit, is_shark, school, enter)

Next == Tick \/ Reset

Spec == Init /\ [][Next]_vars

\* The clock never stops, and every frame has blanking lines in which the
\* beam lights nothing: idle edges keep coming.  Nothing forces a contact, a
\* key or Reset.  (FirstTouch states the fairness.)
IdleClock == Clock({}, FALSE, {}, FALSE)

-----------------------------------------------------------------------------
(* Properties *)

\* The picture Color_Mapper.sv lays over the game: the start page until
\* Enter, then the page of the winner, player 1's first.
Screen == IF ~is_start THEN "start"
          ELSE IF is_user1win THEN "user1win"
          ELSE IF is_user2win THEN "user2win" ELSE "game"

\* The players see a contest: the page, who is credited with which fish, and
\* who is dead.  Nothing happens behind the start page, credits and deaths
\* are for good, every verdict has its reason in the state before it, and the
\* only verdict that changes is that against a dead player 1 with the better
\* score.  (A death takes two clocks from the contact, a credit likewise, and
\* the controller of controller.sv looks at both sums at every clock.)
Promise == INSTANCE Contest WITH
             School <- FishId, Size <- Cardinality,
             page <- Screen,
             credit <- [f \in FishId |->
                          {p \in Player : IF p = 1 THEN fish[f].user1_eat_fish
                                                   ELSE fish[f].user2_eat_fish}],
             dead <- {p \in Player : user_exist[p]}
KeepsPromise == Promise!CSpec

\* The fish credited to both players, and the fish nobody has eaten.
EatenTwice == Eaten1 \cap Eaten2
FishLeft == {f \in FishId : ~fish[f].fish_exist}

\* The registers of one fish never contradict each other: a touched fish
\* has exactly one current owner, a fish is gone exactly when somebody has
\* been credited with it, and nobody is credited with an untouched fish
\* (fish.sv drives the six registers from two separate if-chains).
FishConsistent(r) ==
  /\ r.hit <=> r.user1_hit_fish # r.user2_hit_fish
  /\ ~(r.user1_hit_fish /\ r.user2_hit_fish)
  /\ r.fish_exist <=> r.user1_eat_fish \/ r.user2_eat_fish
  /\ r.fish_exist => r.hit

ContactConsistent == \A f \in FishId : FishConsistent(fish[f])

\* Before Enter nobody is hit, eats, dies, scores or wins, whatever the
\* beam lights (fish swim behind the start page all the time).
NothingBeforeStart ==
  ~is_start => /\ \A f \in FishId : ~fish[f].hit /\ ~fish[f].fish_exist
               /\ \A p \in Player : ~hit[p] /\ ~user_exist[p]
               /\ ~is_user1win /\ ~is_user2win

\* A win flag has its reason, as long as no fish has been credited twice:
\* the other player is dead, or every fish is eaten and the score says so.
WinnerJustified ==
  EatenTwice = {} =>
    /\ is_user1win => \/ user_exist[2]
                      \/ FishLeft = {} /\ score1 > score2
    /\ is_user2win => \/ user_exist[1]
                      \/ FishLeft = {} /\ score1 <= score2

\* Both players are declared winners only when a death and the scores
\* disagree; the scores alone, or deaths alone, never declare both.
BothWinOnlyByDeath ==
  is_user1win /\ is_user2win =>
    /\ user_exist[1] \/ user_exist[2]
    /\ EatenTwice = {} => /\ FishLeft = {}
                          /\ user_exist[1] \/ score1 <= score2
                          /\ user_exist[2] \/ score1 > score2

\* Once the total is complete the scores never change, so the comparison
\* the controller makes at every clock keeps the same answer: unless a fish
\* was credited twice, the score can favour only one player per game.
ScoreVerdictIsFinal ==
  [][AllScored /\ EatenTwice = {} /\ EatenTwice' = {} =>
       Reset \/ (AllScored' /\ (ScoreWin1 <=> ScoreWin1'))]_vars

\* A hit by the shark decides the game, unless Reset comes first.
HitDecides ==
  \A p \in Player : hit[p] ~> (is_user1win \/ is_user2win \/ ~hit[p])

\* When the last fish is gone and none was credited twice, somebody wins
\* (or a fish is credited twice after all, or Reset comes first).
LastFishDecides ==
  (is_start /\ FishLeft = {} /\ EatenTwice = {})
     ~> (is_user1win \/ is_user2win \/ EatenTwice # {} \/ ~is_start)
=============================================================================
