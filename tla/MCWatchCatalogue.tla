--------------------------- MODULE MCWatchCatalogue ---------------------------
(* The seed script by itself, for TLC. *)
EXTENDS WatchCatalogue

CONSTANT p1
=============================================================================
