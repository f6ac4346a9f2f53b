---------------------------- MODULE MCScreenSync ----------------------------
(***************************************************************************)
(* ScreenSync for TLC.  Block contents are interchangeable; clients are,   *)
(* where all of them are Compatible and none or all are Failing.           *)
(***************************************************************************)
EXTENDS ScreenSyncFeed

SymmetryVal == Permutations(Val)
Symmetry    == SymmetryVal \cup Permutations(Client)
=============================================================================
