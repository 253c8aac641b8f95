------------------------------ MODULE Contest ------------------------------
(***************************************************************************)
(* What the two players are promised: a contest that begins once, in which *)
(* fish are credited and players die for good, and in which a page with a  *)
(* winner appears only for a reason that can be told.  It knows nothing of *)
(* clock edges, beams and registers; Game is shown to implement it.        *)
(***************************************************************************)
EXTENDS Naturals

CONSTANTS
  School,      \* the fish
  Size(_)      \* how many elements a set has: Cardinality of FiniteSets

VARIABLES page,    \* what the screen shows: the start page, the game, a winner
          credit,  \* credit[f]: the players credited with fish f
          dead     \* the players the shark has got

cvars == <<page, credit, dead>>

Score(p) == Size({f \in School : p \in credit[f]})

\* The scores are compared when they add up to the number of fish.
Complete == Score(1) + Score(2) = Size(School)

Fresh == [f \in School |-> {}]

Start == page = "start" /\ credit = Fresh /\ dead = {}

Begin == page = "start" /\ page' = "game" /\ UNCHANGED <<credit, dead>>

\* Fish are eaten and players die, and nothing of it is taken back.  It goes
\* on behind the page of the winner.
Play == /\ \A f \in School : credit[f] \subseteq credit'[f]
        /\ dead \subseteq dead'

\* The reason for a verdict was there before it: a death, that of player 1
\* being looked at first, or else the scores, where a tie is player 2's.
Verdict == IF 1 \in dead THEN "user2win"
           ELSE IF 2 \in dead THEN "user1win"
           ELSE IF Score(1) > Score(2) THEN "user1win" ELSE "user2win"

Go == page # "start" /\ page' = page /\ Play

Decide == /\ page = "game" /\ (dead # {} \/ Complete)
          /\ page' = Verdict
          /\ Play

\* The one change of a verdict: player 1 is dead and has the better score.
Overturn == /\ page = "user2win" /\ 1 \in dead /\ Complete /\ Score(1) > Score(2)
            /\ page' = "user1win"
            /\ Play

Again == page' = "start" /\ credit' = Fresh /\ dead' = {}

CNext == Begin \/ Go \/ Decide \/ Overturn \/ Again

CSpec == Start /\ [][CNext]_cvars
=============================================================================
