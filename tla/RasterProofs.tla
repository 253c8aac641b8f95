---------------------------- MODULE RasterProofs ----------------------------
(***************************************************************************)
(* Proofs about Raster, for a line of any length and any pictures in which *)
(* no row of player 1 is opaque in its last column: a contact is an        *)
(* overlap of two pictures, and a fish is credited to both players only if *)
(* the game was started in the middle of a contact.                        *)
(***************************************************************************)
EXTENDS Raster, TLAPS

\* The registers, and the rows of the pictures that are on the line.
LineOK == /\ DrawX \in 0..(LineLength - 1) /\ half \in {0, 1}
          /\ left \in Places
          /\ \A s \in Sprite : row[s] \subseteq 0..(Size[s] - 1)
          /\ Size["user1"] - 1 \notin row["user1"]
          /\ opaque \in [Sprite -> BOOLEAN]
          /\ fish \in FishRegs
          /\ is_start \in BOOLEAN /\ justStarted \in BOOLEAN /\ startTouch \in BOOLEAN

\* The colour a sprite shows is that of the pixel the beam was on a clock
\* ago.
RomInv == DrawX > 0 =>
            \A s \in Sprite : opaque[s] <=> DrawX - (1 - half) - left[s] \in row[s]

Players == {"user1", "user2"}

\* A fish that has not been touched was not under the beam with a player
\* when the last pixel ended.
UntouchedInv ==
  half = 0 /\ DrawX > 0 /\ is_start /\ ~justStarted /\ ~fish.hit =>
    \A p \in Players : ~(opaque[p] /\ opaque["fish"])

\* The first touch falls at the end of a pixel, and in the clock between
\* touch and credit the beam is on the pixel that follows, with the colours
\* of the touch; from then on the credit is the owner's.
CreditInv ==
  /\ ~fish.hit => ~fish.fish_exist /\ ~fish.user1_eat_fish /\ ~fish.user2_eat_fish
  /\ fish.hit /\ ~fish.fish_exist => ~fish.user1_eat_fish /\ ~fish.user2_eat_fish
  /\ fish.hit /\ ~fish.fish_exist /\ ~startTouch =>
       /\ half = 0 /\ DrawX > 0
       /\ fish.user1_hit_fish <=> opaque["user1"] /\ opaque["fish"]
  /\ fish.fish_exist /\ ~startTouch =>
       /\ fish.user1_eat_fish <=> fish.user1_hit_fish
       /\ fish.user2_eat_fish <=> ~fish.user1_hit_fish

RasterInv == LineOK /\ RomInv /\ UntouchedInv /\ CreditInv

-----------------------------------------------------------------------------
(* The line *)

LEMMA LineFacts ==
  ASSUME LineOK
  PROVE  /\ DrawX \in Nat /\ DrawX < LineLength /\ half \in {0, 1}
         /\ LineLength \in Nat /\ 0 < LineLength
         /\ \A s \in Sprite : /\ left[s] \in Nat /\ 1 <= left[s]
                              /\ Size[s] \in Nat /\ 0 < Size[s]
                              /\ left[s] + Size[s] < LineLength
         /\ \A s \in Sprite : \A c \in row[s] : c \in Nat /\ c < Size[s]
         /\ \A s \in Sprite : opaque[s] \in BOOLEAN
<1>1. LineLength \in Nat /\ 0 < LineLength /\ \A s \in Sprite : Size[s] \in Nat /\ 0 < Size[s]
  BY RasterAssumption
<1>2. DrawX \in Nat /\ DrawX < LineLength
  BY <1>1, SMT DEF LineOK
<1>3. ASSUME NEW s \in Sprite
      PROVE  left[s] \in Nat /\ 1 <= left[s] /\ left[s] + Size[s] < LineLength
  <2>1. left \in [Sprite -> 1..(LineLength - 1)] /\ left[s] + Size[s] < LineLength
    BY DEF LineOK, Places
  <2> QED BY <1>1, <2>1, SMT
<1>4. ASSUME NEW s \in Sprite, NEW c \in row[s] PROVE c \in Nat /\ c < Size[s]
  <2>1. c \in 0..(Size[s] - 1)
    BY DEF LineOK
  <2> QED BY <1>1, <2>1, SMT
<1> QED BY <1>1, <1>2, <1>3, <1>4 DEF LineOK

\* The row of a sprite that a new line shows is one of its picture's.
LEMMA RowFacts ==
  ASSUME NEW r \in RowChoices
  PROVE  /\ \A s \in Sprite : r[s] \subseteq 0..(Size[s] - 1)
         /\ Size["user1"] - 1 \notin r["user1"]
BY RasterAssumption DEF RowChoices, Sprite

\* A sprite is lit by the colour of a pixel of its row, and the beam is
\* behind the first pixel of the line.
LEMMA LitFacts ==
  ASSUME LineOK, RomInv, NEW s \in Sprite, Lit(s)
  PROVE  /\ 0 < DrawX /\ DrawX + 1 < LineLength
         /\ DrawX - (1 - half) - left[s] \in row[s]
<1>1. 0 < DrawX /\ DrawX + 1 < LineLength
  BY LineFacts, SMT DEF Lit, InBox
<1> QED BY <1>1 DEF Lit, RomInv

\* What the ROM shows next is the pixel under the beam, in its row.
LEMMA RomFacts ==
  ASSUME LineOK, Rom, NEW s \in Sprite
  PROVE  /\ opaque'[s] \in BOOLEAN
         /\ opaque'[s] <=> DrawX - left[s] \in row[s]
         /\ DrawX - left[s] \in row[s] => InBox(s) /\ 0 < DrawX
<1>1. DrawX - left[s] \in row[s] => InBox(s) /\ 0 < DrawX
  BY LineFacts, SMT DEF InBox
<1>2. opaque'[s] = (InBox(s) /\ DrawX - left[s] \in row[s])
  BY DEF Rom
<1>3. InBox(s) \in BOOLEAN
  BY DEF InBox
<1> QED BY <1>1, <1>2, <1>3

\* The next state of the fish has its registers.
LEMMA FishStays ==
  ASSUME LineOK, NEW enter, Clock(enter)
  PROVE  /\ fish' \in FishRegs
         /\ fish'.hit <=> fish.hit \/ ((On1 \/ On2) /\ is_start)
         /\ fish'.fish_exist <=> fish.fish_exist \/ fish.hit
         /\ fish'.user1_eat_fish <=> fish.user1_eat_fish \/ (fish.hit /\ fish.user1_hit_fish)
         /\ fish'.user2_eat_fish <=> fish.user2_eat_fish \/ (fish.hit /\ ~fish.user1_hit_fish)
         /\ fish'.user1_hit_fish <=>
              IF (On1 \/ On2) /\ is_start /\ ~fish.user1_eat_fish /\ ~fish.user2_eat_fish
              THEN On1 ELSE fish.user1_hit_fish
<1>1. /\ fish.hit \in BOOLEAN /\ fish.fish_exist \in BOOLEAN
      /\ fish.user1_hit_fish \in BOOLEAN /\ fish.user2_hit_fish \in BOOLEAN
      /\ fish.user1_eat_fish \in BOOLEAN /\ fish.user2_eat_fish \in BOOLEAN
      /\ is_start \in BOOLEAN /\ On1 \in BOOLEAN /\ On2 \in BOOLEAN
  BY DEF LineOK, FishRegs, On1, On2, Lit, InBox
<1>2. fish' = FishNext(fish, On1, On2, is_start)
  BY DEF Clock
<1> QED BY <1>1, <1>2 DEF FishNext, Claims, Touched, Unclaimed, FishRegs

LEMMA LineStays == LineOK /\ [Next]_vars => LineOK'
<1> SUFFICES ASSUME LineOK, [Next]_vars PROVE LineOK'
  OBVIOUS
<1>1. ASSUME NEW enter \in BOOLEAN, Clock(enter) PROVE LineOK'
  <2>1. DrawX' \in 0..(LineLength - 1) /\ half' \in {0, 1}
    BY <1>1, LineFacts, SMT DEF Clock, Beam
  <2>2. left' \in Places
    BY <1>1 DEF Clock, Beam, LineOK
  <2>3. /\ \A s \in Sprite : row'[s] \subseteq 0..(Size[s] - 1)
        /\ Size["user1"] - 1 \notin row'["user1"]
    BY <1>1, RowFacts DEF Clock, Beam, LineOK
  <2>4. opaque' \in [Sprite -> BOOLEAN]
    BY <1>1 DEF Clock, Rom, InBox
  <2>5. is_start' \in BOOLEAN /\ justStarted' \in BOOLEAN /\ startTouch' \in BOOLEAN
    BY <1>1 DEF Clock, LineOK, Touched, On1, On2, Lit, InBox
  <2> QED BY <1>1, <2>1, <2>2, <2>3, <2>4, <2>5, FishStays DEF LineOK
<1>2. CASE Reset
  <2>1. DrawX' \in 0..(LineLength - 1) /\ half' \in {0, 1}
    BY <1>2, LineFacts, SMT DEF Reset
  <2>2. opaque' \in [Sprite -> BOOLEAN]
    BY <1>2 DEF Reset, Rom, InBox
  <2> QED BY <1>2, <2>1, <2>2 DEF Reset, LineOK, FishReset, FishRegs, Empty, Sprite
<1>3. CASE UNCHANGED vars
  BY <1>3 DEF vars, LineOK
<1> QED BY <1>1, <1>2, <1>3 DEF Next

LEMMA RomStays == LineOK /\ RomInv /\ [Next]_vars => RomInv'
<1> SUFFICES ASSUME LineOK, RomInv, [Next]_vars, DrawX' > 0, NEW s \in Sprite
             PROVE  opaque'[s] <=> DrawX' - (1 - half') - left'[s] \in row'[s]
  BY DEF RomInv
<1>1. CASE Reset
  BY <1>1 DEF Reset
<1>2. ASSUME NEW enter \in BOOLEAN, Clock(enter)
      PROVE  opaque'[s] <=> DrawX' - (1 - half') - left'[s] \in row'[s]
  <2>1. DrawX' - (1 - half') = DrawX /\ left' = left /\ row' = row
    BY <1>2, LineFacts, SMT DEF Clock, Beam
  <2> QED BY <1>2, <2>1, RomFacts DEF Clock
<1>3. CASE UNCHANGED vars
  BY <1>3 DEF vars, RomInv
<1> QED BY <1>1, <1>2, <1>3 DEF Next

-----------------------------------------------------------------------------
(* Contacts *)

\* In the second half of a pixel, a player and the fish that the ROMs show
\* are lit.
LEMMA LitAtEnd ==
  ASSUME LineOK, RomInv, half = 1, NEW s \in Sprite, DrawX - left[s] \in row[s]
  PROVE  Lit(s)
<1>1. InBox(s) /\ 0 < DrawX
  BY LineFacts, SMT DEF InBox
<1>2. DrawX - (1 - half) - left[s] = DrawX - left[s]
  BY LineFacts, SMT
<1> QED BY <1>1, <1>2 DEF Lit, RomInv

\* A contact is an overlap of the pictures of a player and the fish, and
\* every pixel of the overlap makes one.
THEOREM RasterContacts == Spec => []ContactIsOverlap
<1>1. LineOK /\ RomInv => ContactIsOverlap
  <2> SUFFICES ASSUME LineOK, RomInv, NEW p \in Players
               PROVE  /\ Lit(p) /\ Lit("fish") => \E x \in 0..(LineLength - 1) : Overlap(p, x)
                      /\ half = 1 /\ Overlap(p, DrawX) => Lit(p) /\ Lit("fish")
    BY DEF ContactIsOverlap, Players
  <2>1. p \in Sprite /\ "fish" \in Sprite
    BY DEF Players, Sprite
  <2>2. ASSUME Lit(p), Lit("fish") PROVE \E x \in 0..(LineLength - 1) : Overlap(p, x)
    <3>1. /\ 0 < DrawX
          /\ DrawX - (1 - half) - left[p] \in row[p]
          /\ DrawX - (1 - half) - left["fish"] \in row["fish"]
      BY <2>1, <2>2, LitFacts
    <3>2. DrawX - (1 - half) \in 0..(LineLength - 1)
      BY <3>1, LineFacts, SMT
    <3> QED BY <3>1, <3>2 DEF Overlap
  <2>3. ASSUME half = 1, Overlap(p, DrawX) PROVE Lit(p) /\ Lit("fish")
    BY <2>1, <2>3, LitAtEnd DEF Overlap
  <2> QED BY <2>2, <2>3
<1>2. Init => LineOK /\ RomInv
  <2> SUFFICES ASSUME Init PROVE LineOK /\ RomInv
    OBVIOUS
  <2>1. LineLength \in Nat \ {0}
    BY RasterAssumption
  <2>2. 0 \in 0..(LineLength - 1)
    BY <2>1, SMT
  <2> QED BY <2>2 DEF Init, LineOK, RomInv, Empty, Sprite, FishReset, FishRegs
<1> QED BY <1>1, <1>2, LineStays, RomStays, PTL DEF Spec

-----------------------------------------------------------------------------
(* Credits *)

LEMMA UntouchedStays ==
  LineOK /\ RomInv /\ UntouchedInv /\ [Next]_vars => UntouchedInv'
<1> SUFFICES ASSUME LineOK, RomInv, UntouchedInv, [Next]_vars PROVE UntouchedInv'
  OBVIOUS
<1>1. CASE Reset
  BY <1>1 DEF Reset, UntouchedInv
<1>2. ASSUME NEW enter \in BOOLEAN, Clock(enter) PROVE UntouchedInv'
  <2> SUFFICES ASSUME half' = 0, DrawX' > 0, is_start', ~justStarted', ~fish'.hit,
                      NEW p \in Players, opaque'[p], opaque'["fish"]
               PROVE  FALSE
    BY DEF UntouchedInv
  <2>1. half = 1
    BY <1>2, LineFacts DEF Clock, Beam
  <2>2. is_start
    BY <1>2 DEF Clock, LineOK
  <2>3. p \in Sprite /\ "fish" \in Sprite
    BY DEF Players, Sprite
  <2>4. Lit(p) /\ Lit("fish")
    BY <1>2, <2>1, <2>3, RomFacts, LitAtEnd DEF Clock
  <2>5. On1 \/ On2
    BY <2>4 DEF On1, On2, Players
  <2> QED BY <1>2, <2>2, <2>5, FishStays
<1>3. CASE UNCHANGED vars
  BY <1>3 DEF vars, UntouchedInv
<1> QED BY <1>1, <1>2, <1>3 DEF Next

\* The clock between touch and credit: whoever is touching the fish then is
\* the player who touched it first.
LEMMA OwnerStays ==
  ASSUME LineOK, RomInv, half = 0, DrawX > 0, On1 \/ On2
  PROVE  On1 <=> opaque["user1"] /\ opaque["fish"]
<1>1. Lit("fish")
  BY DEF On1, On2
<1>2. ASSUME opaque["user1"] PROVE InBox("user1")
  <2>1. DrawX - 1 - left["user1"] \in row["user1"]
    BY <1>2, LineFacts, SMT DEF RomInv, Sprite
  <2>2. DrawX - 1 - left["user1"] # Size["user1"] - 1
    BY <2>1 DEF LineOK
  <2>3. /\ DrawX \in Nat /\ left["user1"] \in Nat /\ Size["user1"] \in Nat
        /\ DrawX - 1 - left["user1"] \in Nat /\ DrawX - 1 - left["user1"] < Size["user1"]
    BY <2>1, LineFacts DEF Sprite
  <2> QED BY <2>2, <2>3, SMT DEF InBox
<1> QED BY <1>1, <1>2 DEF On1, Lit

\* A touch in the second half of a pixel shows in the colours of the next.
LEMMA TouchShows ==
  ASSUME LineOK, RomInv, half = 1, Rom, On1 \/ On2
  PROVE  On1 <=> opaque'["user1"] /\ opaque'["fish"]
<1>1. Lit("fish")
  BY DEF On1, On2
<1>2. ASSUME NEW s \in Sprite PROVE Lit(s) <=> opaque'[s]
  <2>1. Lit(s) => DrawX - left[s] \in row[s]
    <3>1. DrawX - (1 - half) - left[s] = DrawX - left[s]
      BY LineFacts, SMT
    <3> QED BY <3>1, LitFacts
  <2> QED BY <2>1, LitAtEnd, RomFacts
<1> QED BY <1>1, <1>2 DEF On1, Sprite

LEMMA CreditStays == RasterInv /\ [Next]_vars => CreditInv'
<1> SUFFICES ASSUME RasterInv, [Next]_vars PROVE CreditInv'
  OBVIOUS
<1>1. LineOK /\ RomInv /\ UntouchedInv /\ CreditInv
  BY DEF RasterInv
<1>2. CASE Reset
  BY <1>2 DEF Reset, FishReset, CreditInv
<1>3. ASSUME NEW enter \in BOOLEAN, Clock(enter) PROVE CreditInv'
  <2>1. /\ fish'.hit <=> fish.hit \/ ((On1 \/ On2) /\ is_start)
        /\ fish'.fish_exist <=> fish.fish_exist \/ fish.hit
        /\ fish'.user1_eat_fish <=> fish.user1_eat_fish \/ (fish.hit /\ fish.user1_hit_fish)
        /\ fish'.user2_eat_fish <=> fish.user2_eat_fish \/ (fish.hit /\ ~fish.user1_hit_fish)
        /\ fish'.user1_hit_fish <=>
              IF (On1 \/ On2) /\ is_start /\ ~fish.user1_eat_fish /\ ~fish.user2_eat_fish
              THEN On1 ELSE fish.user1_hit_fish
    BY <1>1, <1>3, FishStays
  <2>2. startTouch' <=> startTouch \/ (justStarted /\ (On1 \/ On2) /\ is_start)
    BY <1>1, <1>3 DEF Clock, LineOK, Touched, On1, On2, Lit, InBox
  <2>3. CASE ~fish.hit /\ ~((On1 \/ On2) /\ is_start)
    BY <1>1, <2>1, <2>3 DEF CreditInv
  <2>4. CASE ~fish.hit /\ (On1 \/ On2) /\ is_start
    <3>1. /\ fish'.hit /\ ~fish'.fish_exist
          /\ ~fish'.user1_eat_fish /\ ~fish'.user2_eat_fish
          /\ fish'.user1_hit_fish <=> On1
      BY <1>1, <2>1, <2>4 DEF CreditInv
    <3>2. ASSUME ~startTouch'
          PROVE  /\ half' = 0 /\ DrawX' > 0
                 /\ On1 <=> opaque'["user1"] /\ opaque'["fish"]
      <4>1. ~justStarted
        BY <2>2, <2>4, <3>2
      <4>2. 0 < DrawX /\ DrawX + 1 < LineLength
        BY <1>1, <2>4, LitFacts DEF On1, On2, Sprite
      <4>3. half = 1
        <5>1. \E p \in Players : opaque[p] /\ opaque["fish"]
          BY <2>4 DEF On1, On2, Lit, Players
        <5>2. half # 0
          BY <1>1, <2>4, <4>1, <4>2, <5>1, LineFacts, SMT DEF UntouchedInv
        <5> QED BY <1>1, <5>2 DEF LineOK
      <4>4. half' = 0 /\ DrawX' = DrawX + 1
        BY <1>1, <1>3, <4>2, <4>3, LineFacts, SMT DEF Clock, Beam
      <4>5. On1 <=> opaque'["user1"] /\ opaque'["fish"]
        BY <1>1, <1>3, <2>4, <4>3, TouchShows DEF Clock
      <4> QED BY <1>1, <4>2, <4>4, <4>5, LineFacts, SMT
    <3> QED BY <3>1, <3>2 DEF CreditInv
  <2>5. CASE fish.hit /\ ~fish.fish_exist
    <3>1. /\ fish'.hit /\ fish'.fish_exist
          /\ fish'.user1_eat_fish <=> fish.user1_hit_fish
          /\ fish'.user2_eat_fish <=> ~fish.user1_hit_fish
      BY <1>1, <2>1, <2>5 DEF CreditInv
    <3>2. ASSUME ~startTouch' PROVE fish'.user1_hit_fish <=> fish.user1_hit_fish
      <4>1. /\ half = 0 /\ DrawX > 0
            /\ fish.user1_hit_fish <=> opaque["user1"] /\ opaque["fish"]
        BY <1>1, <2>2, <2>5, <3>2 DEF CreditInv
      <4>2. On1 \/ On2 => (On1 <=> fish.user1_hit_fish)
        BY <1>1, <4>1, OwnerStays
      <4> QED BY <2>1, <4>2
    <3> QED BY <3>1, <3>2 DEF CreditInv
  <2>6. CASE fish.hit /\ fish.fish_exist
    BY <1>1, <2>1, <2>2, <2>6 DEF CreditInv
  <2> QED BY <2>3, <2>4, <2>5, <2>6
<1>4. CASE UNCHANGED vars
  BY <1>1, <1>4 DEF vars, CreditInv
<1> QED BY <1>2, <1>3, <1>4 DEF Next

LEMMA RasterInvariant == Spec => []RasterInv
<1>1. Init => RasterInv
  <2> SUFFICES ASSUME Init PROVE RasterInv
    OBVIOUS
  <2>1. LineLength \in Nat \ {0}
    BY RasterAssumption
  <2>2. 0 \in 0..(LineLength - 1)
    BY <2>1, SMT
  <2>3. LineOK
    BY <2>2 DEF Init, LineOK, Empty, Sprite, FishReset, FishRegs
  <2> QED BY <2>3 DEF Init, RasterInv, RomInv, UntouchedInv, CreditInv, FishReset
<1>2. RasterInv /\ [Next]_vars => RasterInv'
  BY LineStays, RomStays, UntouchedStays, CreditStays DEF RasterInv
<1> QED BY <1>1, <1>2, PTL DEF Spec

\* A fish is credited to both players only if the game was started in the
\* middle of a contact.
THEOREM RasterCredits == Spec => []CreditedTwiceOnlyAtStart
<1>1. RasterInv => CreditedTwiceOnlyAtStart
  <2> SUFFICES ASSUME LineOK, CreditInv, EatenTwice, ~startTouch PROVE FALSE
    BY DEF RasterInv, CreditedTwiceOnlyAtStart, LineOK
  <2> QED BY DEF LineOK, CreditInv, EatenTwice, FishRegs
<1> QED BY <1>1, RasterInvariant, PTL
=============================================================================
