------------------------------ MODULE Raster ------------------------------
(***************************************************************************)
(* How the beam makes contacts.  A scan line with the sprites of both      *)
(* players and one fish on it, at the resolution of the 50 MHz clock: a    *)
(* pixel of VGA_CLK lasts two edges of Clk, and the sprite ROMs have an    *)
(* output register, so during the first half of a pixel each sprite still  *)
(* shows the colour of the pixel before, and during the second half its    *)
(* own.  The contact registers are those of Fish, fed with what is lit.    *)
(* Definitions marked "fault:" are the broken forms named by the mutants   *)
(* of PROJECT.json; nothing else refers to them.                           *)
(***************************************************************************)
EXTENDS Integers, Fish

CONSTANTS
  LineLength,   \* pixels of a line, blanking included (H_TOTAL, 800)
  Size,         \* Size[s]: width of sprite s in pixels
  Rows          \* Rows[s]: the rows of the picture of s, each the set of its
                \* opaque columns (picture/user1_left.txt and the others)

Sprite == {"user1", "user2", "fish"}

\* The pictures: no row of player 1 is opaque in its last column.  (The rows
\* of player 2 facing left are; player 2 facing right is opaque in column 0.)
ASSUME RasterAssumption ==
  /\ LineLength \in Nat \ {0}
  /\ Size \in [Sprite -> Nat \ {0}]
  /\ \A s \in Sprite : \A r \in Rows[s] : r \subseteq 0..(Size[s] - 1)
  /\ \A r \in Rows["user1"] : Size["user1"] - 1 \notin r

VARIABLES
  DrawX,       \* the pixel under the beam
  half,        \* 0 in the first Clk period of the pixel, 1 in the second
  left,        \* left[s]: first pixel of sprite s on this line
  row,         \* row[s]: the row of its picture on this line, {} if none
  opaque,      \* opaque[s]: the output register of its ROM is not colour 0
  is_start,    \* the register of controller.sv
  fish,        \* the contact registers of the fish
  justStarted, \* history: is_start rose at the last edge
  startTouch   \* history: the fish was touched at the first edge after that

vars == <<DrawX, half, left, row, opaque, is_start, fish, justStarted, startTouch>>

\* The motion rules keep every box away from both ends of the line.
Places == {l \in [Sprite -> 1..(LineLength - 1)] :
             \A s \in Sprite : l[s] + Size[s] < LineLength}

\* The rows a line can show, and a line that shows no sprite.
RowChoices == {r \in [Sprite -> UNION {Rows[s] \cup {{}} : s \in Sprite}] :
                 \A s \in Sprite : r[s] \in Rows[s] \cup {{}}}
Empty == [s \in Sprite |-> {}]

-----------------------------------------------------------------------------
\* is_user_temp and is_fish_temp: the beam is in the sprite's box.
InBox(s) == left[s] <= DrawX /\ DrawX < left[s] + Size[s]

\* is_user and is_fish: it is, and the ROM output is not the transparent
\* colour 0.
\* fault: the colour is not tested.
LitBox(s) == InBox(s)
Lit(s) == InBox(s) /\ opaque[s]

\* The next ROM output: the pixel under the beam, or address 0, whose colour
\* is 0 in all the pictures, when the beam is outside the box.
\* fault: outside the box the address is left as it was.
RomHolds == opaque' = [s \in Sprite |-> IF InBox(s) THEN DrawX - left[s] \in row[s]
                                                    ELSE opaque[s]]
Rom == opaque' = [s \in Sprite |-> InBox(s) /\ DrawX - left[s] \in row[s]]

\* The beam: two Clk edges per pixel; another line, with other rows and
\* perhaps other places, after the last pixel.
Beam == \/ /\ half = 0
           /\ half' = 1
           /\ UNCHANGED <<DrawX, left, row>>
        \/ /\ half = 1 /\ DrawX < LineLength - 1
           /\ half' = 0
           /\ DrawX' = DrawX + 1
           /\ UNCHANGED <<left, row>>
        \/ /\ half = 1 /\ DrawX = LineLength - 1
           /\ half' = 0
           /\ DrawX' = 0
           /\ left' \in Places
           /\ row' \in RowChoices

On1 == Lit("user1") /\ Lit("fish")
On2 == Lit("user2") /\ Lit("fish")

Clock(enter) ==
  /\ Beam
  /\ Rom
  /\ fish' = FishNext(fish, On1, On2, is_start)
  /\ is_start' = (is_start \/ enter)
  /\ justStarted' = (enter /\ ~is_start)
  /\ startTouch' = (startTouch \/ (justStarted /\ Touched(On1, On2, is_start)))

\* Reset clears the game and the counters of the beam, but neither the ROM
\* registers nor the divider of VGA_CLK; line 0 shows no sprite.
Reset == /\ DrawX' = 0 /\ half' = 1 - half
         /\ row' = Empty /\ UNCHANGED left
         /\ Rom
         /\ fish' = FishReset
         /\ is_start' = FALSE /\ justStarted' = FALSE /\ startTouch' = FALSE

Init == /\ DrawX = 0 /\ half = 0
        /\ left \in Places /\ row = Empty
        /\ opaque = [s \in Sprite |-> FALSE]
        /\ fish = FishReset
        /\ is_start = FALSE /\ justStarted = FALSE /\ startTouch = FALSE

Next == (\E enter \in BOOLEAN : Clock(enter)) \/ Reset

Spec == Init /\ [][Next]_vars

-----------------------------------------------------------------------------
(* Properties *)

\* The pixel x of the line shows player p and the fish, by their pictures.
Overlap(p, x) == x - left[p] \in row[p] /\ x - left["fish"] \in row["fish"]

\* Contacts are pixel collisions: the late ROM output never lights a player
\* and the fish that do not overlap in any pixel, and every pixel in which
\* they do is seen while the beam is on it (fish.sv and user.sv test the
\* box of this clock with the colour of the clock before).
ContactIsOverlap ==
  \A p \in {"user1", "user2"} :
    /\ Lit(p) /\ Lit("fish") => \E x \in 0..(LineLength - 1) : Overlap(p, x)
    /\ half = 1 /\ Overlap(p, DrawX) => Lit(p) /\ Lit("fish")

EatenTwice == fish.user1_eat_fish /\ fish.user2_eat_fish

\* The owner register is copied into the eat flags one clock after a touch
\* and may be overwritten by the touch of that very clock, so a fish touched
\* by one player and, at the next edge, by the other is credited to both.
\* The order in which the beam lights the sprites prevents it, unless the
\* touch the game starts with falls in the middle of a contact.
CreditedTwiceOnlyAtStart == EatenTwice => startTouch
=============================================================================
