----------------------------- MODULE Collectors -----------------------------
(***************************************************************************)
(* What fills the database from outside the bot, and the REST client it    *)
(* goes through.  The jobs write tables of their own and meet nowhere: a   *)
(* behaviour is one of them, chosen at the start.                          *)
(***************************************************************************)
EXTENDS RestClient, ReplayLoader, Liquidations, DailyBias

VARIABLE job

collectorVars == <<job, vars, historyVars, liveVars, archiveVars, biasVars>>

Jobs == {"requests", "history", "orders", "archives", "bias"}

CollectorsInit == job \in Jobs /\ Init /\ HistoryInit /\ LiveInit /\ ArchiveInit /\ BiasInit

Requests == job = "requests" /\ Next        /\ UNCHANGED <<job, historyVars, liveVars, archiveVars, biasVars>>
Fill     == job = "history"  /\ HistoryNext /\ UNCHANGED <<job, vars, liveVars, archiveVars, biasVars>>
Collect  == job = "orders"   /\ LiveNext    /\ UNCHANGED <<job, vars, historyVars, archiveVars, biasVars>>
Backfill == job = "archives" /\ ArchiveNext /\ UNCHANGED <<job, vars, historyVars, liveVars, biasVars>>
Bias     == job = "bias"     /\ BiasNext    /\ UNCHANGED <<job, vars, historyVars, liveVars, archiveVars>>

CollectorsSpec == CollectorsInit /\ [][Requests \/ Fill \/ Collect \/ Backfill \/ Bias]_collectorVars
-----------------------------------------------------------------------------
(* Properties *)

(* What the collectors derive once is never derived again: a row of         *)
(* cvd_price_history or of daily_external_bias stays as it was written,     *)
(* though its bar or day was still open then, and no day of the latter is   *)
(* added before one that is there.                                          *)
RowsStay ==
    [][/\ Kept(history, history')
       /\ Kept(dxy, dxy') /\ Appended(dxy, dxy')
       /\ Kept(etf, etf') /\ Appended(etf, etf')]_collectorVars
=============================================================================
