---------------------------- MODULE MCBotRuntime ----------------------------
(***************************************************************************)
(* Values for the constants of BotRuntime that a .cfg cannot write down.   *)
(* A loss costs 3 of 100, so two losses breach a 5% day and three an 8%    *)
(* week.                                                                   *)
(***************************************************************************)
EXTENDS BotRuntime

WinOrLose == {-3, 2}
=============================================================================
