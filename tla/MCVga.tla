------------------------------- MODULE MCVga -------------------------------
(* The numbers of VGA_controller.sv at one sixteenth of their size. *)
EXTENDS Vga
MCH == [shown |-> 40, sync |-> 41, sync_end |-> 47, total |-> 50]
MCV == [shown |-> 30, sync |-> 31, sync_end |-> 32, total |-> 33]
=============================================================================
