---------------------------- MODULE MCLineageLog ----------------------------
(***************************************************************************)
(* Small instances of LineageLog: tiles two cells wide, so that a tree of  *)
(* three or four leaves has full and partial tiles on three levels.        *)
(***************************************************************************)
EXTENDS LineageLog

MCKinds == {"tile0", "tile1", "tile2", "entries"}
MCSpan  == [k \in MCKinds |-> CASE k = "tile1" -> 2 [] k = "tile2" -> 4 [] OTHER -> 1]
=============================================================================
