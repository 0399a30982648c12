---------------------------- MODULE MCStateStore ----------------------------
(* Constants for checking StateStore. *)
EXTENDS StateStore

WinOrLose  == {-1, 1}
AllResults == {-1, 0, 1}
=============================================================================
