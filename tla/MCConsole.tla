---------------------------- MODULE MCConsole ----------------------------
(* A ring longer than the FIFOs, as in the build.  The text is longer than  *)
(* what the ring takes and does not divide its length, so that it begins at *)
(* every place of the ring.                                                *)
EXTENDS Console
MCChar == {"a", "b", "c", "d", "e"}
MCTexts == {<<"a", "b", "c", "d", "e">>}
==========================================================================
