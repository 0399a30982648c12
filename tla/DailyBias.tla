----------------------------- MODULE DailyBias ------------------------------
(***************************************************************************)
(* run_daily_data_collector: the dollar index and the ETF flows of the     *)
(* daily_external_bias table, collected once a day or oftener.  The dollar *)
(* index comes from one source, the flows from SoSoValue with CoinGlass as *)
(* the fallback.  Sources publish days late, in any order, and never some  *)
(* days at all.  A row of the flows is the set of days it sums up.         *)
(***************************************************************************)
EXTENDS Integers, FiniteSets, FiniteSetsExt

CONSTANTS
    BiasDays,   \* bound: days are 1 .. BiasDays, the first one both backfills start at
    Rolling     \* the days of the rolling sum

ASSUME RollingAssumption == Rolling \in Nat \ {0}

VARIABLES
    today,              \* the day of the clock
    index, soso, glass, \* the days each source has published so far
    dxy,                \* dxy_close: day -> whether the day was over when it was fetched
    etf,                \* etf_bias_5d: day -> the days summed up
    synced              \* what this run of main has committed: "none" or "dxy"

biasVars == <<today, index, soso, glass, dxy, etf, synced>>

NextDay ==
    /\ today < BiasDays /\ today' = today + 1
    /\ UNCHANGED <<index, soso, glass, dxy, etf, synced>>

(* The index is quoted while its day goes on, flows are known when it ends. *)
PublishDay ==
    /\ \/ \E d \in (1 .. today) \ index : index' = index \cup {d} /\ UNCHANGED <<soso, glass>>
       \/ \E d \in (1 .. today - 1) \ soso : soso' = soso \cup {d} /\ UNCHANGED <<index, glass>>
       \/ \E d \in (1 .. today - 1) \ glass : glass' = glass \cup {d} /\ UNCHANGED <<index, soso>>
    /\ UNCHANGED <<today, dxy, etf, synced>>

-----------------------------------------------------------------------------
(* main *)

LastNonNull(column) == IF DOMAIN column = {} THEN 0 ELSE Max(DOMAIN column)

(* Mutant: the last collected day is collected again. *)
FromLastDay(last) == IF last = 0 THEN 1 ELSE last

ResolveStart(last) == last + 1

Upserted(column, new) ==
    [d \in DOMAIN column \cup DOMAIN new |-> IF d \in DOMAIN new THEN new[d] ELSE column[d]]

SyncDxy ==
    /\ synced = "none" /\ synced' = "dxy"
    /\ dxy' = Upserted(dxy, [d \in {d \in index : ResolveStart(LastNonNull(dxy)) <= d} |-> d < today])
    /\ UNCHANGED <<today, index, soso, glass, etf>>

(* The fallback is asked only if SoSoValue has nothing as old as the start. *)
NeedFallback(primary, start) == primary = {} \/ start < Min(primary)

RollingDays(days, d) == {e \in days : e <= d /\ Cardinality({f \in days : e < f /\ f <= d}) < Rolling}

(* Either source may fail; rows are written from the start to today. *)
SyncEtf ==
    /\ synced = "dxy" /\ synced' = "none"
    /\ \E primary \in {soso, {}}, other \in {glass, {}} :
          LET start == ResolveStart(LastNonNull(etf))
              days  == primary \cup IF NeedFallback(primary, start) THEN other ELSE {}
          IN  etf' = Upserted(etf, [d \in {d \in days : start <= d} |-> RollingDays(days, d)])
    /\ UNCHANGED <<today, index, soso, glass, dxy>>

(* A crash between the two, or a request that raises. *)
DieBetween ==
    /\ synced = "dxy" /\ synced' = "none"
    /\ UNCHANGED <<today, index, soso, glass, dxy, etf>>

BiasInit ==
    /\ today = 1 /\ index = {} /\ soso = {} /\ glass = {}
    /\ dxy = <<>> /\ etf = <<>> /\ synced = "none"

BiasNext == NextDay \/ PublishDay \/ SyncDxy \/ SyncEtf \/ DieBetween

-----------------------------------------------------------------------------
(* Properties *)

(* Rows are only ever added, behind the last of their column: a day that    *)
(* was not over when the index was fetched keeps that value, and a day      *)
(* published after a later one was stored never gets its row.              *)
Appended(old, new) == \A d \in DOMAIN new : d \in DOMAIN old \/ d > LastNonNull(old)
=============================================================================
