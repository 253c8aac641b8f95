---------------------------- MODULE GameProofs ----------------------------
(***************************************************************************)
(* Proofs about Game and about its history of touches, FirstTouch, for     *)
(* every finite set of fish.                                               *)
(***************************************************************************)
EXTENDS FirstTouch, FiniteSetTheorems, TLAPS

-----------------------------------------------------------------------------
(* One fish *)

\* The next-state function of fish.sv yields registers again.
LEMMA FishNextType ==
  ASSUME NEW r \in FishRegs, NEW on1 \in BOOLEAN, NEW on2 \in BOOLEAN,
         NEW s \in BOOLEAN
  PROVE  FishNext(r, on1, on2, s) \in FishRegs
  BY Zenon DEF FishRegs, FishNext, Claims, Touched, Unclaimed

\* It keeps the registers of a fish consistent.
LEMMA FishNextConsistent ==
  ASSUME NEW r \in FishRegs, NEW on1 \in BOOLEAN, NEW on2 \in BOOLEAN,
         NEW s \in BOOLEAN, FishConsistent(r)
  PROVE  FishConsistent(FishNext(r, on1, on2, s))
  BY DEF FishRegs, FishNext, Claims, Touched, Unclaimed, FishConsistent

\* A credit, and a fish's being gone, are never taken back.
LEMMA FishNextKeeps ==
  ASSUME NEW r \in FishRegs, NEW on1 \in BOOLEAN, NEW on2 \in BOOLEAN,
         NEW s \in BOOLEAN
  PROVE  LET n == FishNext(r, on1, on2, s) IN
         /\ r.hit => n.hit
         /\ r.user1_eat_fish => n.user1_eat_fish
         /\ r.user2_eat_fish => n.user2_eat_fish
         /\ r.fish_exist => n.fish_exist
  BY DEF FishRegs, FishNext, Claims, Touched, Unclaimed

\* A fish nobody touches while the game has not started stays as it is.
LEMMA FishNextIdle ==
  ASSUME NEW r \in FishRegs, NEW on1 \in BOOLEAN, NEW on2 \in BOOLEAN,
         ~r.hit, ~r.fish_exist
  PROVE  LET n == FishNext(r, on1, on2, FALSE) IN ~n.hit /\ ~n.fish_exist
  BY DEF FishRegs, FishNext, Claims, Touched, Unclaimed

\* A fish that has not been touched is credited to nobody at this edge.
LEMMA FishNextUntouched ==
  ASSUME NEW r \in FishRegs, NEW on1, NEW on2, NEW s, ~r.hit
  PROVE  LET n == FishNext(r, on1, on2, s) IN
         /\ n.user1_eat_fish = r.user1_eat_fish
         /\ n.user2_eat_fish = r.user2_eat_fish
  BY DEF FishRegs, FishNext

LEMMA FishResetType == FishReset \in FishRegs /\ FishConsistent(FishReset)
  BY DEF FishReset, FishRegs, FishConsistent

-----------------------------------------------------------------------------
(* Type correctness *)

\* Every register of the game keeps its type.
THEOREM TypeCorrect == Spec => []TypeOK
<1>1. Init => TypeOK
  BY FishResetType DEF Init, TypeOK, Player
<1>2. TypeOK /\ [Next]_vars => TypeOK'
  <2> SUFFICES ASSUME TypeOK, [Next]_vars PROVE TypeOK'
    OBVIOUS
  <2>1. CASE Tick
    <3>1. PICK lit \in SUBSET Player, is_shark \in BOOLEAN,
               school \in SUBSET FishId, enter \in BOOLEAN :
                 Clock(lit, is_shark, school, enter)
      BY <2>1 DEF Tick
    <3>2. fish' \in [FishId -> FishRegs]
      BY <3>1, FishNextType DEF Clock, FishStep, TypeOK
    <3>3. hit' \in [Player -> BOOLEAN] /\ user_exist' \in [Player -> BOOLEAN]
      BY <3>1 DEF Clock, UserStep, TypeOK
    <3>4. /\ is_start' \in BOOLEAN
          /\ is_user1win' \in BOOLEAN
          /\ is_user2win' \in BOOLEAN
      BY <3>1 DEF Clock, ControllerStep, TypeOK
    <3> QED BY <3>2, <3>3, <3>4 DEF TypeOK
  <2>2. CASE Reset
    BY <2>2, FishResetType DEF Reset, TypeOK, Player
  <2>3. CASE UNCHANGED vars
    BY <2>3 DEF vars, TypeOK
  <2> QED BY <2>1, <2>2, <2>3 DEF Next
<1> QED BY <1>1, <1>2, PTL DEF Spec

-----------------------------------------------------------------------------
(* The contact registers *)

\* No interleaving of touches makes the registers of a fish contradict
\* each other.
THEOREM ContactsConsistent == Spec => []ContactConsistent
<1>1. Init => ContactConsistent
  BY FishResetType DEF Init, ContactConsistent
<1>2. TypeOK /\ ContactConsistent /\ [Next]_vars => ContactConsistent'
  <2> SUFFICES ASSUME TypeOK, ContactConsistent, [Next]_vars,
                      NEW f \in FishId
               PROVE  FishConsistent(fish'[f])
    BY DEF ContactConsistent
  <2>1. CASE Tick
    <3>1. PICK lit \in SUBSET Player, is_shark \in BOOLEAN,
               school \in SUBSET FishId, enter \in BOOLEAN :
                 Clock(lit, is_shark, school, enter)
      BY <2>1 DEF Tick
    <3>2. fish'[f] = FishNext(fish[f], 1 \in lit /\ f \in school,
                              2 \in lit /\ f \in school, is_start)
      BY <3>1 DEF Clock, FishStep
    <3>3. fish[f] \in FishRegs /\ is_start \in BOOLEAN
      BY DEF TypeOK
    <3>4. FishConsistent(fish[f])
      BY DEF ContactConsistent
    <3> QED BY <3>2, <3>3, <3>4, FishNextConsistent
  <2>2. CASE Reset
    BY <2>2, FishResetType DEF Reset
  <2>3. CASE UNCHANGED vars
    BY <2>3 DEF vars, ContactConsistent
  <2> QED BY <2>1, <2>2, <2>3 DEF Next
<1> QED BY <1>1, <1>2, TypeCorrect, PTL DEF Spec

-----------------------------------------------------------------------------
(* Facts about one clock edge, used by the proofs that follow *)

\* The sets of eaten fish are finite, and their sizes are numbers.
LEMMA ScoreType ==
  /\ IsFiniteSet(Eaten1) /\ IsFiniteSet(Eaten2)
  /\ score1 \in Nat /\ score2 \in Nat
  BY FishIdAssumption, FS_Subset, FS_CardinalityType
  DEF Eaten1, Eaten2, score1, score2

\* Every fish is eaten exactly when the two sets cover all fish.
LEMMA CoverIsNoFishLeft ==
  ASSUME ContactConsistent
  PROVE  FishLeft = {} <=> Eaten1 \cup Eaten2 = FishId
  BY DEF ContactConsistent, FishConsistent, FishLeft, Eaten1, Eaten2

\* With no fish credited twice, the total is complete exactly when no fish
\* is left: the test the controller makes is the test it means.
LEMMA TotalIsNoFishLeft ==
  ASSUME ContactConsistent, EatenTwice = {}
  PROVE  AllScored <=> FishLeft = {}
<1>1. Cardinality(Eaten1 \cup Eaten2) = score1 + score2
  <2>1. Cardinality(Eaten1 \cap Eaten2) = 0
    BY FS_EmptySet DEF EatenTwice
  <2>2. Cardinality(Eaten1 \cup Eaten2)
          = Cardinality(Eaten1) + Cardinality(Eaten2)
              - Cardinality(Eaten1 \cap Eaten2)
    BY ScoreType, FS_Union
  <2> QED BY <2>1, <2>2, ScoreType DEF score1, score2
<1>2. Eaten1 \cup Eaten2 \subseteq FishId
  BY DEF Eaten1, Eaten2
<1>3. Cardinality(Eaten1 \cup Eaten2) = WinTotal <=> Eaten1 \cup Eaten2 = FishId
  BY <1>2, FishIdAssumption, FS_Subset DEF WinTotal
<1> QED BY <1>1, <1>3, CoverIsNoFishLeft DEF AllScored

\* A clock edge takes back no credit and revives nobody.
LEMMA TickKeeps ==
  ASSUME TypeOK, Tick
  PROVE  /\ Eaten1 \subseteq Eaten1' /\ Eaten2 \subseteq Eaten2'
         /\ FishLeft' \subseteq FishLeft
         /\ \A p \in Player : user_exist[p] => user_exist'[p]
<1>1. PICK lit \in SUBSET Player, is_shark \in BOOLEAN,
           school \in SUBSET FishId, enter \in BOOLEAN :
             Clock(lit, is_shark, school, enter)
  BY Tick DEF Tick
<1>2. ASSUME NEW f \in FishId
      PROVE  /\ fish[f].user1_eat_fish => fish'[f].user1_eat_fish
             /\ fish[f].user2_eat_fish => fish'[f].user2_eat_fish
             /\ fish[f].fish_exist => fish'[f].fish_exist
  <2>1. fish'[f] = FishNext(fish[f], 1 \in lit /\ f \in school,
                            2 \in lit /\ f \in school, is_start)
    BY <1>1 DEF Clock, FishStep
  <2>2. fish[f] \in FishRegs /\ is_start \in BOOLEAN
    BY DEF TypeOK
  <2> QED BY <2>1, <2>2, FishNextKeeps
<1>3. \A p \in Player : user_exist[p] => user_exist'[p]
  BY <1>1 DEF Clock, UserStep
<1> QED BY <1>2, <1>3 DEF Eaten1, Eaten2, FishLeft

\* Once no fish is left, a clock edge changes no score unless it credits
\* a fish twice.
LEMMA EmptySeaKeepsScores ==
  ASSUME TypeOK, ContactConsistent, ContactConsistent', Tick,
         FishLeft = {}, EatenTwice' = {}
  PROVE  /\ Eaten1' = Eaten1 /\ Eaten2' = Eaten2
         /\ score1' = score1 /\ score2' = score2
<1>1. Eaten1 \subseteq Eaten1' /\ Eaten2 \subseteq Eaten2'
  BY TickKeeps
<1>2. Eaten1 \cup Eaten2 = FishId
  BY CoverIsNoFishLeft
<1>3. Eaten1' \subseteq FishId /\ Eaten2' \subseteq FishId
  BY DEF Eaten1, Eaten2
<1>4. Eaten1' \cap Eaten2' = {}
  BY DEF EatenTwice
<1> QED BY <1>1, <1>2, <1>3, <1>4 DEF score1, score2

\* The controller's next win flags, as the source's priority chain sets them.
LEMMA TickWins ==
  ASSUME TypeOK, Tick
  PROVE  /\ is_user1win' = (is_user1win \/ (~DeathOf1 /\ (DeathOf2 \/ ScoreWin1)))
         /\ is_user2win' = (is_user2win \/ DeathOf1 \/ (~DeathOf2 /\ ScoreWin2))
         /\ is_start => is_start'
  BY Zenon DEF Tick, Clock, ControllerStep

-----------------------------------------------------------------------------
(* Nothing happens before Enter *)

\* With no fish gone no total is complete.
LEMMA NoFishGoneNoTotal ==
  ASSUME TypeOK, ContactConsistent, \A f \in FishId : ~fish[f].fish_exist
  PROVE  ~AllScored
<1>1. Eaten1 = {} /\ Eaten2 = {}
  BY DEF ContactConsistent, FishConsistent, Eaten1, Eaten2
<1>2. score1 = 0 /\ score2 = 0
  BY <1>1, FS_EmptySet DEF score1, score2
<1>3. WinTotal \in Nat /\ WinTotal # 0
  BY FishIdAssumption, FS_EmptySet, FS_CardinalityType DEF WinTotal
<1> QED BY <1>2, <1>3 DEF AllScored

\* The start page hides a game in which nothing has happened yet: no touch,
\* no death and no verdict precedes Enter.
THEOREM NothingHappensBeforeStart == Spec => []NothingBeforeStart
<1>1. Init => NothingBeforeStart
  BY DEF Init, NothingBeforeStart, FishReset
<1>2. TypeOK /\ ContactConsistent /\ NothingBeforeStart /\ [Next]_vars
        => NothingBeforeStart'
  <2> SUFFICES ASSUME TypeOK, ContactConsistent, NothingBeforeStart, [Next]_vars
               PROVE  NothingBeforeStart'
    OBVIOUS
  <2>1. CASE Tick
    <3> SUFFICES ASSUME ~is_start' PROVE NothingBeforeStart'
      BY DEF NothingBeforeStart
    <3>1. PICK lit \in SUBSET Player, is_shark \in BOOLEAN,
               school \in SUBSET FishId, enter \in BOOLEAN :
                 Clock(lit, is_shark, school, enter)
      BY <2>1 DEF Tick
    <3>2. ~is_start /\ is_start = FALSE
      BY <2>1, TickWins DEF TypeOK
    <3>3. /\ \A f \in FishId : ~fish[f].hit /\ ~fish[f].fish_exist
          /\ \A p \in Player : ~hit[p] /\ ~user_exist[p]
          /\ ~is_user1win /\ ~is_user2win
      BY <3>2 DEF NothingBeforeStart
    <3>4. ASSUME NEW f \in FishId
          PROVE  ~fish'[f].hit /\ ~fish'[f].fish_exist
      <4>1. fish'[f] = FishNext(fish[f], 1 \in lit /\ f \in school,
                                2 \in lit /\ f \in school, FALSE)
        BY <3>1, <3>2 DEF Clock, FishStep
      <4>2. fish[f] \in FishRegs
        BY DEF TypeOK
      <4> QED BY <4>1, <4>2, <3>3, FishNextIdle
    <3>5. \A p \in Player : ~hit'[p] /\ ~user_exist'[p]
      BY <3>1, <3>2, <3>3 DEF Clock, UserStep
    <3>6. ~DeathOf1 /\ ~DeathOf2
      BY <3>3 DEF DeathOf1, DeathOf2, Player
    <3>7. ~ScoreWin1 /\ ~ScoreWin2
      BY <3>3, NoFishGoneNoTotal DEF ScoreWin1, ScoreWin2
    <3>8. ~is_user1win' /\ ~is_user2win'
      BY <2>1, <3>3, <3>6, <3>7, TickWins
    <3> QED BY <3>4, <3>5, <3>8 DEF NothingBeforeStart
  <2>2. CASE Reset
    BY <2>2 DEF Reset, NothingBeforeStart, FishReset
  <2>3. CASE UNCHANGED vars
    BY <2>3 DEF vars, NothingBeforeStart
  <2> QED BY <2>1, <2>2, <2>3 DEF Next
<1> QED BY <1>1, <1>2, TypeCorrect, ContactsConsistent, PTL DEF Spec

-----------------------------------------------------------------------------
(* The verdict *)

\* Nobody is declared the winner without a reason, whatever order touches,
\* deaths and the last fish come in.  The invariant is inductive beside the
\* consistency of the contact registers, on which the controller's test of
\* the total rests.
THEOREM WinnersAreJustified == Spec => []WinnerJustified
<1>1. Init => WinnerJustified
  BY DEF Init, WinnerJustified
<1>2. TypeOK /\ ContactConsistent /\ ContactConsistent' /\ WinnerJustified
        /\ [Next]_vars => WinnerJustified'
  <2> SUFFICES ASSUME TypeOK, ContactConsistent, ContactConsistent',
                      WinnerJustified, [Next]_vars
               PROVE  WinnerJustified'
    OBVIOUS
  <2>1. CASE Tick
    <3> SUFFICES ASSUME EatenTwice' = {} PROVE WinnerJustified'
      BY DEF WinnerJustified
    <3>1. EatenTwice = {}
      BY <2>1, TickKeeps DEF EatenTwice
    <3>2. \A p \in Player : user_exist[p] => user_exist'[p]
      BY <2>1, TickKeeps
    <3>3. FishLeft = {} => FishLeft' = {} /\ score1' = score1 /\ score2' = score2
      BY <2>1, TickKeeps, EmptySeaKeepsScores
    <3>4. AllScored => FishLeft = {}
      BY <3>1, TotalIsNoFishLeft
    <3>5. is_user1win' => user_exist'[2] \/ (FishLeft' = {} /\ score1' > score2')
      <4>1. is_user1win' => is_user1win \/ DeathOf2 \/ ScoreWin1
        BY <2>1, TickWins
      <4>2. CASE is_user1win
        BY <4>2, <3>1, <3>2, <3>3 DEF WinnerJustified, Player
      <4>3. CASE DeathOf2
        BY <4>3, <3>2 DEF DeathOf2, Player
      <4>4. CASE ScoreWin1
        BY <4>4, <3>3, <3>4 DEF ScoreWin1
      <4> QED BY <4>1, <4>2, <4>3, <4>4
    <3>6. is_user2win' => user_exist'[1] \/ (FishLeft' = {} /\ score1' <= score2')
      <4>1. is_user2win' => is_user2win \/ DeathOf1 \/ ScoreWin2
        BY <2>1, TickWins
      <4>2. CASE is_user2win
        BY <4>2, <3>1, <3>2, <3>3 DEF WinnerJustified, Player
      <4>3. CASE DeathOf1
        BY <4>3, <3>2 DEF DeathOf1, Player
      <4>4. CASE ScoreWin2
        BY <4>4, <3>3, <3>4, ScoreType DEF ScoreWin2
      <4> QED BY <4>1, <4>2, <4>3, <4>4
    <3> QED BY <3>5, <3>6 DEF WinnerJustified
  <2>2. CASE Reset
    BY <2>2 DEF Reset, WinnerJustified
  <2>3. CASE UNCHANGED vars
    BY <2>3 DEF vars, WinnerJustified, EatenTwice, FishLeft, Eaten1,
       Eaten2, score1, score2
  <2> QED BY <2>1, <2>2, <2>3 DEF Next
<1> QED BY <1>1, <1>2, TypeCorrect, ContactsConsistent, PTL DEF Spec

-----------------------------------------------------------------------------
(* Two winners *)

Total == score1 + score2

\* Two numbers that do not fall have a sum that does not fall either.
LEMMA SumGrows ==
  ASSUME NEW a \in Nat, NEW b \in Nat, NEW c \in Nat, NEW d \in Nat,
         a <= c, b <= d
  PROVE  /\ a + b \in Nat /\ c + d \in Nat
         /\ a + b <= c + d
         /\ c + d = a + b => c = a /\ d = b
  OBVIOUS

\* The total never falls, and while it stays the same so do both scores.
LEMMA TotalGrows ==
  ASSUME TypeOK, Tick
  PROVE  /\ Total \in Nat /\ Total' \in Nat /\ WinTotal \in Nat
         /\ Total <= Total'
         /\ Total' = Total => score1' = score1 /\ score2' = score2
<1>1. IsFiniteSet(Eaten1') /\ IsFiniteSet(Eaten2')
  BY FishIdAssumption, FS_Subset DEF Eaten1, Eaten2
<1>2. score1 <= score1' /\ score2 <= score2'
  BY <1>1, TickKeeps, FS_Subset DEF score1, score2
<1>3. score1' \in Nat /\ score2' \in Nat
  BY <1>1, FS_CardinalityType DEF score1, score2
<1>4. WinTotal \in Nat
  BY FishIdAssumption, FS_CardinalityType DEF WinTotal
<1>5. score1 \in Nat /\ score2 \in Nat
  BY ScoreType
<1>6. Total = score1 + score2 /\ Total' = score1' + score2'
  BY DEF Total
<1> QED BY <1>2, <1>3, <1>4, <1>5, <1>6, SumGrows

\* Why a win flag is set, fish credited twice or not: a death, or a total
\* that has been complete.  It is inductive because the total never falls,
\* so it is complete for one pair of scores only.
VerdictInv ==
  /\ is_user1win => user_exist[2] \/ Total > WinTotal \/ ScoreWin1
  /\ is_user2win => user_exist[1] \/ Total > WinTotal \/ ScoreWin2
  /\ is_user1win /\ is_user2win => /\ Total >= WinTotal
                                   /\ user_exist[1] \/ user_exist[2]

LEMMA VerdictInvariant == Spec => []VerdictInv
<1>1. Init => VerdictInv
  BY DEF Init, VerdictInv
<1>2. TypeOK /\ VerdictInv /\ [Next]_vars => VerdictInv'
  <2> SUFFICES ASSUME TypeOK, VerdictInv, [Next]_vars PROVE VerdictInv'
    OBVIOUS
  <2>1. CASE Tick
    <3>1. /\ user_exist[1] => user_exist'[1]
          /\ user_exist[2] => user_exist'[2]
      BY <2>1, TickKeeps DEF Player
    <3>2. /\ Total \in Nat /\ Total' \in Nat /\ WinTotal \in Nat
          /\ Total <= Total'
          /\ Total' = Total => score1' = score1 /\ score2' = score2
      BY <2>1, TotalGrows
    <3>3. AllScored <=> Total = WinTotal
      BY DEF AllScored, Total
    <3>4. AllScored' <=> Total' = WinTotal
      BY DEF AllScored, Total, WinTotal
    <3>5. ScoreWin1 => Total' > WinTotal \/ ScoreWin1'
      BY <3>2, <3>3, <3>4 DEF ScoreWin1
    <3>6. ScoreWin2 => Total' > WinTotal \/ ScoreWin2'
      BY <3>2, <3>3, <3>4 DEF ScoreWin2
    <3>7. Total > WinTotal => Total' > WinTotal
      BY <3>2
    <3>8. /\ is_user1win' = (is_user1win \/ (~DeathOf1 /\ (DeathOf2 \/ ScoreWin1)))
          /\ is_user2win' = (is_user2win \/ DeathOf1 \/ (~DeathOf2 /\ ScoreWin2))
      BY <2>1, TickWins
    <3>9. is_user1win' => user_exist'[2] \/ Total' > WinTotal \/ ScoreWin1'
      BY <3>1, <3>5, <3>7, <3>8 DEF VerdictInv, DeathOf2
    <3>10. is_user2win' => user_exist'[1] \/ Total' > WinTotal \/ ScoreWin2'
      BY <3>1, <3>6, <3>7, <3>8 DEF VerdictInv, DeathOf1
    <3>11. ASSUME is_user1win', is_user2win'
           PROVE  Total' >= WinTotal /\ (user_exist'[1] \/ user_exist'[2])
      <4>1. CASE is_user1win /\ is_user2win
        BY <4>1, <3>1, <3>2 DEF VerdictInv
      <4>2. CASE is_user1win /\ ~is_user2win
        <5>1. ScoreWin2
          BY <4>2, <3>11, <3>8 DEF DeathOf1
        <5>2. ~ScoreWin1 /\ Total = WinTotal
          BY <5>1, <3>3 DEF ScoreWin1, ScoreWin2
        <5> QED BY <4>2, <5>2, <3>1, <3>2 DEF VerdictInv
      <4>3. CASE ~is_user1win /\ is_user2win
        <5>1. ScoreWin1
          BY <4>3, <3>11, <3>8 DEF DeathOf2
        <5>2. ~ScoreWin2 /\ Total = WinTotal
          BY <5>1, <3>3 DEF ScoreWin1, ScoreWin2
        <5> QED BY <4>3, <5>2, <3>1, <3>2 DEF VerdictInv
      <4>4. CASE ~is_user1win /\ ~is_user2win
        BY <4>4, <3>11, <3>8 DEF ScoreWin1, ScoreWin2
      <4> QED BY <4>1, <4>2, <4>3, <4>4
    <3>12. WinTotal' = WinTotal
      BY DEF WinTotal
    <3> QED BY <3>9, <3>10, <3>11, <3>12 DEF VerdictInv
  <2>2. CASE Reset
    BY <2>2 DEF Reset, VerdictInv
  <2>3. CASE UNCHANGED vars
    BY <2>3 DEF vars, VerdictInv, Total, ScoreWin1, ScoreWin2, AllScored,
       score1, score2, Eaten1, Eaten2, WinTotal
  <2> QED BY <2>1, <2>2, <2>3 DEF Next
<1> QED BY <1>1, <1>2, TypeCorrect, PTL DEF Spec

\* Both players are declared winners only in a game somebody died in, and
\* the two verdicts are then those of the death and of the scores.
THEOREM TwoWinnersNeedADeath == Spec => []BothWinOnlyByDeath
<1>1. ASSUME TypeOK, ContactConsistent, WinnerJustified, VerdictInv
      PROVE  BothWinOnlyByDeath
  <2> SUFFICES ASSUME is_user1win, is_user2win PROVE BothWinOnlyByDeath
    BY DEF BothWinOnlyByDeath
  <2>1. user_exist[1] \/ user_exist[2]
    BY <1>1 DEF VerdictInv
  <2>2. ASSUME EatenTwice = {} PROVE FishLeft = {}
    <3>1. Cardinality(Eaten1 \cup Eaten2) = Total
      <4>1. Cardinality(Eaten1 \cap Eaten2) = 0
        BY <2>2, FS_EmptySet DEF EatenTwice
      <4>2. Cardinality(Eaten1 \cup Eaten2)
              = Cardinality(Eaten1) + Cardinality(Eaten2)
                  - Cardinality(Eaten1 \cap Eaten2)
        BY ScoreType, FS_Union
      <4> QED BY <4>1, <4>2, ScoreType DEF score1, score2, Total
    <3>2. Eaten1 \cup Eaten2 \subseteq FishId
      BY DEF Eaten1, Eaten2
    <3>3. Total >= WinTotal
      BY <1>1 DEF VerdictInv
    <3>4. Cardinality(Eaten1 \cup Eaten2) <= Cardinality(FishId)
      BY <3>2, FishIdAssumption, FS_Subset
    <3>5. Cardinality(Eaten1 \cup Eaten2) = Cardinality(FishId)
      BY <3>1, <3>3, <3>4, FishIdAssumption, FS_CardinalityType, ScoreType
      DEF WinTotal, Total
    <3>6. Eaten1 \cup Eaten2 = FishId
      BY <3>2, <3>5, FishIdAssumption, FS_Subset
    <3> QED BY <3>6, <1>1, CoverIsNoFishLeft
  <2>3. ASSUME EatenTwice = {}
        PROVE  /\ user_exist[1] \/ score1 <= score2
               /\ user_exist[2] \/ score1 > score2
    BY <1>1, <2>3 DEF WinnerJustified
  <2> QED BY <2>1, <2>2, <2>3 DEF BothWinOnlyByDeath
<1> QED BY <1>1, TypeCorrect, ContactsConsistent, WinnersAreJustified,
           VerdictInvariant, PTL

-----------------------------------------------------------------------------
(* The contest *)

\* The mapping: the players credited with a fish, and the dead.
Credit == [f \in FishId |-> {p \in Player : IF p = 1 THEN fish[f].user1_eat_fish
                                                     ELSE fish[f].user2_eat_fish}]
Dead == {p \in Player : user_exist[p]}

\* The mapped scores are the scores of the game.
LEMMA MappedScores ==
  /\ Promise!Score(1) = score1 /\ Promise!Score(2) = score2
  /\ Promise!Complete <=> AllScored
<1>1. {f \in FishId : 1 \in Credit[f]} = Eaten1
  BY DEF Credit, Eaten1, Player
<1>2. {f \in FishId : 2 \in Credit[f]} = Eaten2
  BY DEF Credit, Eaten2, Player
<1>3. Promise!Score(1) = score1 /\ Promise!Score(2) = score2
  BY <1>1, <1>2 DEF Promise!Score, score1, score2, Credit
<1> QED BY <1>3 DEF Promise!Complete, AllScored, WinTotal

\* A clock edge takes nothing back from the contest.
LEMMA TickPlays ==
  ASSUME TypeOK, Tick
  PROVE  Promise!Play
<1>1. /\ Eaten1 \subseteq Eaten1' /\ Eaten2 \subseteq Eaten2'
      /\ \A p \in Player : user_exist[p] => user_exist'[p]
  BY TickKeeps
<1>2. \A f \in FishId : Credit[f] \subseteq Credit'[f]
  BY <1>1 DEF Credit, Eaten1, Eaten2, Player
<1>3. Dead \subseteq Dead'
  BY <1>1 DEF Dead
<1> QED BY <1>2, <1>3 DEF Promise!Play, Credit, Dead

\* Before Enter the contest is fresh.
LEMMA FreshBeforeStart ==
  ASSUME ContactConsistent, NothingBeforeStart, ~is_start
  PROVE  Credit = Promise!Fresh /\ Dead = {}
<1>1. \A f \in FishId : ~fish[f].user1_eat_fish /\ ~fish[f].user2_eat_fish
  BY DEF ContactConsistent, FishConsistent, NothingBeforeStart
<1>2. \A f \in FishId : Credit[f] = {}
  BY <1>1 DEF Credit, Player
<1>3. Dead = {}
  BY DEF NothingBeforeStart, Dead, Player
<1> QED BY <1>2, <1>3 DEF Credit, Promise!Fresh

\* Every clock edge is a step of the contest, or changes nothing of it.
LEMMA TickIsContest ==
  ASSUME TypeOK, ContactConsistent, ContactConsistent', NothingBeforeStart,
         NothingBeforeStart', VerdictInv, Tick
  PROVE  Promise!CNext \/ UNCHANGED <<Screen, Credit, Dead>>
<1>1. /\ is_user1win' = (is_user1win \/ (~DeathOf1 /\ (DeathOf2 \/ ScoreWin1)))
      /\ is_user2win' = (is_user2win \/ DeathOf1 \/ (~DeathOf2 /\ ScoreWin2))
      /\ is_start => is_start'
  BY TickWins
<1>2. Promise!Play
  BY TickPlays
<1>3. /\ 1 \in Dead <=> user_exist[1]
      /\ 2 \in Dead <=> user_exist[2]
      /\ Dead # {} <=> user_exist[1] \/ user_exist[2]
  BY DEF Dead, Player
<1>4. CASE ~is_start
  <2>1. ~is_user1win /\ ~is_user2win /\ ~DeathOf1 /\ ~DeathOf2
    BY <1>4 DEF NothingBeforeStart, DeathOf1, DeathOf2, Player
  <2>2. ~ScoreWin1 /\ ~ScoreWin2
    BY <1>4, NoFishGoneNoTotal DEF NothingBeforeStart, ScoreWin1, ScoreWin2
  <2>3. ~is_user1win' /\ ~is_user2win'
    BY <1>1, <2>1, <2>2
  <2>4. CASE ~is_start'
    <3>1. Credit = Promise!Fresh /\ Dead = {}
      BY <1>4, FreshBeforeStart
    <3>2. Credit' = Promise!Fresh /\ Dead' = {}
      <4>1. \A f \in FishId : ~fish'[f].user1_eat_fish /\ ~fish'[f].user2_eat_fish
        BY <2>4 DEF ContactConsistent, FishConsistent, NothingBeforeStart
      <4>2. \A f \in FishId : Credit'[f] = {}
        BY <4>1 DEF Credit, Player
      <4>3. Dead' = {}
        BY <2>4 DEF NothingBeforeStart, Dead, Player
      <4> QED BY <4>2, <4>3 DEF Credit, Promise!Fresh
    <3> QED BY <1>4, <2>4, <3>1, <3>2 DEF Screen
  <2>5. CASE is_start'
    <3>1. Credit = Promise!Fresh /\ Dead = {}
      BY <1>4, FreshBeforeStart
    <3>2. Credit' = Credit /\ Dead' = Dead
      <4>1. PICK lit \in SUBSET Player, is_shark \in BOOLEAN,
                 school \in SUBSET FishId, enter \in BOOLEAN :
                   Clock(lit, is_shark, school, enter)
        BY Tick DEF Tick
      <4>2. ASSUME NEW f \in FishId
            PROVE  /\ fish'[f].user1_eat_fish = fish[f].user1_eat_fish
                   /\ fish'[f].user2_eat_fish = fish[f].user2_eat_fish
        <5>1. ~fish[f].hit
          BY <1>4 DEF NothingBeforeStart
        <5>2. fish'[f] = FishNext(fish[f], 1 \in lit /\ f \in school,
                                  2 \in lit /\ f \in school, is_start)
          BY <4>1 DEF Clock, FishStep
        <5>3. fish[f] \in FishRegs
          BY DEF TypeOK
        <5> QED BY <5>1, <5>2, <5>3, FishNextUntouched
      <4>3. \A p \in Player : user_exist'[p] = user_exist[p]
        BY <4>1, <1>4 DEF Clock, UserStep, NothingBeforeStart, TypeOK
      <4> QED BY <4>2, <4>3 DEF Credit, Dead
    <3>3. Screen = "start" /\ Screen' = "game"
      BY <1>4, <2>3, <2>5 DEF Screen
    <3> QED BY <3>2, <3>3 DEF Promise!CNext, Promise!Begin, Credit, Dead
  <2> QED BY <2>4, <2>5
<1>5. CASE is_start /\ Screen' = Screen
  BY <1>2, <1>5 DEF Promise!CNext, Promise!Go, Screen
<1>6. CASE is_start /\ ~is_user1win /\ ~is_user2win /\ Screen' # Screen
  <2>1. Screen = "game"
    BY <1>6 DEF Screen
  <2>2. user_exist[1] \/ user_exist[2] \/ AllScored
    BY <1>1, <1>6 DEF Screen, DeathOf1, DeathOf2, ScoreWin1, ScoreWin2
  <2>3. Screen' = IF user_exist[1] THEN "user2win"
                  ELSE IF user_exist[2] THEN "user1win"
                  ELSE IF score1 > score2 THEN "user1win" ELSE "user2win"
    BY <1>1, <1>6 DEF Screen, DeathOf1, DeathOf2, ScoreWin1, ScoreWin2
  <2>4. Screen' = Promise!Verdict
    BY <2>3, <1>3, MappedScores DEF Promise!Verdict, Dead
  <2> QED BY <2>1, <2>2, <2>4, <1>2, <1>3, MappedScores
          DEF Promise!CNext, Promise!Decide, Dead
<1>7. CASE is_start /\ (is_user1win \/ is_user2win) /\ Screen' # Screen
  <2>1. ~is_user1win /\ is_user2win /\ is_user1win'
    BY <1>1, <1>7 DEF Screen
  <2>2. ScoreWin1
    BY <1>1, <2>1 DEF DeathOf2
  <2>3. user_exist[1]
    <3>1. Total \in Nat /\ WinTotal \in Nat
      BY TotalGrows
    <3> QED BY <3>1, <2>1, <2>2 DEF VerdictInv, ScoreWin1, ScoreWin2, AllScored, Total
  <2>4. Screen = "user2win" /\ Screen' = "user1win"
    BY <1>1, <1>7, <2>1 DEF Screen
  <2> QED BY <2>2, <2>3, <2>4, <1>2, <1>3, MappedScores
          DEF Promise!CNext, Promise!Overturn, ScoreWin1, Dead
<1> QED BY <1>4, <1>5, <1>6, <1>7

\* The circuit keeps the promise made to the players: every clock edge is a
\* step of the contest or invisible in it.
THEOREM GameKeepsPromise == Spec => KeepsPromise
<1>1. Init => Promise!Start
  <2> SUFFICES ASSUME Init PROVE Promise!Start
    OBVIOUS
  <2>1. Credit = Promise!Fresh /\ Dead = {}
    BY DEF Init, FishReset, Credit, Dead, Player, Promise!Fresh
  <2> QED BY <2>1 DEF Init, Screen, Promise!Start, Credit, Dead
<1>2. TypeOK /\ ContactConsistent /\ ContactConsistent' /\ NothingBeforeStart
        /\ NothingBeforeStart' /\ VerdictInv /\ [Next]_vars
        => [Promise!CNext]_(Promise!cvars)
  <2> SUFFICES ASSUME TypeOK, ContactConsistent, ContactConsistent',
                      NothingBeforeStart, NothingBeforeStart', VerdictInv, [Next]_vars
               PROVE  Promise!CNext \/ UNCHANGED Promise!cvars
    OBVIOUS
  <2>1. CASE Tick
    <3>1. Promise!CNext \/ UNCHANGED <<Screen, Credit, Dead>>
      BY <2>1, TickIsContest
    <3> QED BY <3>1 DEF Promise!cvars, Credit, Dead
  <2>2. CASE Reset
    <3>1. Screen' = "start"
      BY <2>2 DEF Reset, Screen
    <3>2. Credit' = Promise!Fresh /\ Dead' = {}
      BY <2>2 DEF Reset, FishReset, Credit, Dead, Player, Promise!Fresh
    <3> QED BY <3>1, <3>2 DEF Promise!CNext, Promise!Again, Credit, Dead
  <2>3. CASE UNCHANGED vars
    BY <2>3 DEF vars, Promise!cvars, Screen
  <2> QED BY <2>1, <2>2, <2>3 DEF Next
<1> QED BY <1>1, <1>2, TypeCorrect, ContactsConsistent, NothingHappensBeforeStart,
           VerdictInvariant, PTL DEF Spec, KeepsPromise, Promise!CSpec

\* The comparison of the scores is made at every clock of a complete total,
\* and always with the same answer, as long as no fish is credited twice.
THEOREM ScoresAreFinal == Spec => ScoreVerdictIsFinal
<1> DEFINE Step == AllScored /\ EatenTwice = {} /\ EatenTwice' = {} =>
                     Reset \/ (AllScored' /\ (ScoreWin1 <=> ScoreWin1'))
<1>1. TypeOK /\ ContactConsistent /\ ContactConsistent' /\ [Next]_vars
        => [Step]_vars
  <2> SUFFICES ASSUME TypeOK, ContactConsistent, ContactConsistent', Tick,
                      AllScored, EatenTwice = {}, EatenTwice' = {}
               PROVE  AllScored' /\ (ScoreWin1 <=> ScoreWin1')
    BY DEF Next
  <2>1. FishLeft = {}
    BY TotalIsNoFishLeft
  <2>2. score1' = score1 /\ score2' = score2
    BY <2>1, EmptySeaKeepsScores
  <2>3. AllScored' <=> AllScored
    BY <2>2 DEF AllScored, WinTotal
  <2> QED BY <2>2, <2>3 DEF ScoreWin1
<1> QED BY <1>1, TypeCorrect, ContactsConsistent, PTL DEF Spec, ScoreVerdictIsFinal

-----------------------------------------------------------------------------
(* The history of touches: the first player to touch a fish is credited   *)
(* with it, and nobody is credited with a fish he never touched.          *)

\* The history follows a behaviour of Game.
LEMMA HistoryImplementsGame == HSpec => Spec
<1>1. HInit => Init
  BY DEF HInit
<1>2. [HNext]_hvars => [Next]_vars
  BY DEF HNext, HTick, HReset, Next, Tick, hvars
<1> QED BY <1>1, <1>2, PTL DEF HSpec, Spec

\* What ties the registers of one fish to its history: in the one clock
\* between touch and credit the owner is still the first toucher, and every
\* owner and every credited player has touched the fish.
HistoryOf(r, one, all) ==
  /\ one \in Player \cup {0} /\ all \in SUBSET Player
  /\ r.hit <=> one # 0
  /\ r.hit /\ ~r.fish_exist => (r.user1_hit_fish <=> one = 1)
  /\ r.fish_exist => /\ one = 1 => r.user1_eat_fish
                     /\ one = 2 => r.user2_eat_fish
  /\ r.user1_hit_fish => 1 \in all
  /\ r.user2_hit_fish => 2 \in all
  /\ r.user1_eat_fish => 1 \in all
  /\ r.user2_eat_fish => 2 \in all

History == \A f \in FishId : HistoryOf(fish[f], first[f], touchers[f])

\* One clock edge keeps it, for one fish.
LEMMA HistoryOfNext ==
  ASSUME NEW r \in FishRegs, NEW one, NEW all, FishConsistent(r),
         HistoryOf(r, one, all),
         NEW on1 \in BOOLEAN, NEW on2 \in BOOLEAN, NEW s \in BOOLEAN,
         NEW one2, NEW all2,
         one2 = IF s /\ (on1 \/ on2) /\ one = 0
                  THEN (IF on1 THEN 1 ELSE 2) ELSE one,
         all2 \in SUBSET Player, all \subseteq all2,
         s /\ on1 => 1 \in all2, s /\ on2 => 2 \in all2
  PROVE  HistoryOf(FishNext(r, on1, on2, s), one2, all2)
<1> DEFINE n == FishNext(r, on1, on2, s)
           c == (on1 \/ on2) /\ s /\ ~r.user1_eat_fish /\ ~r.user2_eat_fish
<1>1. /\ n.hit = (r.hit \/ ((on1 \/ on2) /\ s))
      /\ n.fish_exist = (r.fish_exist \/ r.hit)
      /\ n.user1_eat_fish = (r.user1_eat_fish \/ (r.hit /\ r.user1_hit_fish))
      /\ n.user2_eat_fish = (r.user2_eat_fish \/ (r.hit /\ ~r.user1_hit_fish))
      /\ c => n.user1_hit_fish = on1 /\ n.user2_hit_fish = ~on1
      /\ ~c => /\ n.user1_hit_fish = r.user1_hit_fish
               /\ n.user2_hit_fish = r.user2_hit_fish
  BY DEF FishNext, Claims, Touched, Unclaimed, FishRegs
<1>2. HistoryOf(n, one2, all2)
  <2> HIDE DEF n
  <2>1. CASE ~r.hit /\ ~((on1 \/ on2) /\ s)
    BY <1>1, <2>1 DEF HistoryOf, Player, FishConsistent, FishRegs
  <2>2. CASE ~r.hit /\ (on1 \/ on2) /\ s
    <3>1. c /\ ~r.fish_exist
      BY <2>2 DEF FishConsistent, FishRegs
    <3>2. one = 0 /\ one2 = (IF on1 THEN 1 ELSE 2)
      BY <2>2 DEF HistoryOf
    <3> HIDE DEF c
    <3>3. CASE on1
      <4>1. 1 \in all2 /\ one2 = 1
        BY <2>2, <3>2, <3>3
      <4>2. n.user1_hit_fish /\ ~n.user2_hit_fish /\ n.hit /\ ~n.fish_exist
        BY <1>1, <2>2, <3>1, <3>3
      <4>3. ~n.user1_eat_fish /\ ~n.user2_eat_fish
        BY <1>1, <2>2, <3>1 DEF FishConsistent, FishRegs
      <4> QED BY <4>1, <4>2, <4>3 DEF HistoryOf, Player
    <3>4. CASE ~on1
      <4>1. on2 /\ 2 \in all2 /\ one2 = 2
        BY <2>2, <3>2, <3>4
      <4>2. ~n.user1_hit_fish /\ n.user2_hit_fish /\ n.hit /\ ~n.fish_exist
        BY <1>1, <2>2, <3>1, <3>4
      <4>3. ~n.user1_eat_fish /\ ~n.user2_eat_fish
        BY <1>1, <2>2, <3>1 DEF FishConsistent, FishRegs
      <4> QED BY <4>1, <4>2, <4>3 DEF HistoryOf, Player
    <3> QED BY <3>3, <3>4
  <2>3. CASE r.hit
    <3>1. one2 = one /\ one # 0
      BY <2>3 DEF HistoryOf
    <3>2. n.fish_exist /\ n.hit
      BY <2>3, <1>1
    <3>3. /\ one = 1 => n.user1_eat_fish
          /\ one = 2 => n.user2_eat_fish
      BY <1>1, <2>3 DEF HistoryOf, FishConsistent, FishRegs, Player
    <3>4. /\ n.user1_eat_fish => 1 \in all2
          /\ n.user2_eat_fish => 2 \in all2
      BY <1>1, <2>3 DEF HistoryOf, FishConsistent, FishRegs
    <3>5. /\ n.user1_hit_fish => 1 \in all2
          /\ n.user2_hit_fish => 2 \in all2
      BY <1>1 DEF HistoryOf
    <3> QED BY <3>1, <3>2, <3>3, <3>4, <3>5 DEF HistoryOf
  <2> QED BY <2>1, <2>2, <2>3
<1> QED BY <1>2

LEMMA HistoryInvariant == HSpec => []History
<1>1. HInit => History
  BY DEF HInit, Init, History, HistoryOf, FishReset, Player
<1>2. TypeOK /\ ContactConsistent /\ History /\ [HNext]_hvars => History'
  <2> SUFFICES ASSUME TypeOK, ContactConsistent, History, [HNext]_hvars,
                      NEW f \in FishId
               PROVE  HistoryOf(fish'[f], first'[f], touchers'[f])
    BY DEF History
  <2>1. CASE HTick
    <3>1. PICK lit \in SUBSET Player, is_shark \in BOOLEAN,
               school \in SUBSET FishId, enter \in BOOLEAN :
                 Clock(lit, is_shark, school, enter) /\ Record(lit, school)
      BY <2>1 DEF HTick
    <3> DEFINE on1 == 1 \in lit /\ f \in school
               on2 == 2 \in lit /\ f \in school
    <3>2. fish'[f] = FishNext(fish[f], on1, on2, is_start)
      BY <3>1 DEF Clock, FishStep
    <3>3. fish[f] \in FishRegs /\ is_start \in BOOLEAN
      BY DEF TypeOK
    <3>4. FishConsistent(fish[f]) /\ HistoryOf(fish[f], first[f], touchers[f])
      BY DEF ContactConsistent, History
    <3>5. lit # {} <=> 1 \in lit \/ 2 \in lit
      BY DEF Player
    <3>6. first'[f] = IF is_start /\ (on1 \/ on2) /\ first[f] = 0
                        THEN (IF on1 THEN 1 ELSE 2) ELSE first[f]
      BY <3>1, <3>5 DEF Record, OwnerOf
    <3>7. /\ touchers'[f] \in SUBSET Player
          /\ touchers[f] \subseteq touchers'[f]
          /\ is_start /\ on1 => 1 \in touchers'[f]
          /\ is_start /\ on2 => 2 \in touchers'[f]
      BY <3>1, <3>4 DEF Record, HistoryOf
    <3> HIDE DEF on1, on2
    <3>8. on1 \in BOOLEAN /\ on2 \in BOOLEAN
      BY DEF on1, on2
    <3>9. HistoryOf(FishNext(fish[f], on1, on2, is_start), first'[f], touchers'[f])
      BY <3>3, <3>4, <3>6, <3>7, <3>8, HistoryOfNext
    <3> QED BY <3>2, <3>9
  <2>2. CASE HReset
    BY <2>2 DEF HReset, Reset, HistoryOf, FishReset, Player
  <2>3. CASE UNCHANGED hvars
    BY <2>3 DEF hvars, vars, History
  <2> QED BY <2>1, <2>2, <2>3 DEF HNext
<1> QED BY <1>1, <1>2, HistoryImplementsGame, TypeCorrect, ContactsConsistent,
           PTL DEF HSpec

-----------------------------------------------------------------------------
\* Whoever touches a fish first is credited with it.
THEOREM FirstToucherIsCredited == HSpec => []FirstToucherCredited
<1>1. ContactConsistent /\ History => FirstToucherCredited
  BY DEF History, HistoryOf, FirstToucherCredited, ContactConsistent,
         FishConsistent
<1> QED BY <1>1, HistoryInvariant, HistoryImplementsGame, ContactsConsistent, PTL

\* Every credit belongs to a player who touched the fish.
THEOREM CreditsAreEarned == HSpec => []CreditIsEarned
<1>1. History => CreditIsEarned
  BY DEF History, HistoryOf, CreditIsEarned
<1> QED BY <1>1, HistoryInvariant, PTL
=============================================================================
