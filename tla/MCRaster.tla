----------------------------- MODULE MCRaster -----------------------------
(* A line of six pixels; every sprite is two pixels wide.  Player 1 has no *)
(* opaque last column; player 2 has rows that do and rows that do not.     *)
EXTENDS Raster
MCSize == [user1 |-> 2, user2 |-> 2, fish |-> 2]
MCRows == [user1 |-> {{0}}, user2 |-> {{1}, {0, 1}}, fish |-> {{0, 1}, {1}}]
=============================================================================
