------------------------------ MODULE Channel ------------------------------
(***************************************************************************)
(* What printf is promised: the characters of a text go out one after the  *)
(* other, each of them once, and the terminal takes them in that order.    *)
(* It knows nothing of buffers, interrupts and registers; Console is shown *)
(* to implement it.                                                        *)
(***************************************************************************)
EXTENDS Naturals, Sequences

CONSTANT Texts     \* the texts the program prints

VARIABLES text,    \* what is still to be taken of the present text
          queue    \* what has been taken and not been shown

Start == text = <<>> /\ queue = <<>>

Call == text = <<>> /\ text' \in Texts /\ UNCHANGED queue

\* Some characters of the text are taken, those in front first.
Put == \E n \in 1..Len(text) :
         /\ queue' = queue \o SubSeq(text, 1, n)
         /\ text' = SubSeq(text, n + 1, Len(text))

\* The terminal shows the oldest character.
Get == queue # <<>> /\ queue' = Tail(queue) /\ UNCHANGED text

CSpec == Start /\ [][Call \/ Put \/ Get]_<<text, queue>>
=============================================================================
