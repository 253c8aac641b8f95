------------------------------ MODULE Session ------------------------------
(***************************************************************************)
(* What the game is promised of the keyboard.  A session begins with a     *)
(* reset; then the keyboard accepts the lists of the enumeration in their  *)
(* order, none of them ahead of the program and none left out; and only    *)
(* when it has accepted them all do codes get into the registers of the    *)
(* game, each in its place.  To accept a list is to acknowledge its first  *)
(* packet; the program learns no more of it.  The session knows nothing of *)
(* messages, retries and late answers; UsbHost is shown to implement it.   *)
(***************************************************************************)
EXTENDS Naturals

CONSTANTS Last,      \* the lists are 1..Last, and the polling list after them
          Codes      \* the pairs of codes that can be read

VARIABLES step,      \* the list the program is at
          accepted,  \* the lists the keyboard has accepted
          keycode, keycode_0

Begin == step = 1 /\ accepted = {} /\ keycode = 0 /\ keycode_0 = 0

Restart == step' = 1 /\ accepted' = {} /\ UNCHANGED <<keycode, keycode_0>>

Accept == accepted' = accepted \cup {step} /\ UNCHANGED <<step, keycode, keycode_0>>

Advance == /\ step <= Last /\ step \in accepted
           /\ step' = step + 1 /\ UNCHANGED <<accepted, keycode, keycode_0>>

Show == /\ 1..Last \subseteq accepted
        /\ \E c \in Codes : \/ keycode' = c[1] /\ UNCHANGED keycode_0
                            \/ keycode_0' = c[2] /\ UNCHANGED keycode
        /\ UNCHANGED <<step, accepted>>

SSpec == Begin /\ [][Restart \/ Accept \/ Advance \/ Show]_<<step, accepted, keycode, keycode_0>>
=============================================================================
