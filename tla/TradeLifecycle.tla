--------------------------- MODULE TradeLifecycle ---------------------------
(***************************************************************************)
(* What the trading runtime promises of a trade, with nothing of how it    *)
(* keeps the promise: a trade is entered at most once, only while fewer    *)
(* than MaxOpen trades are held, is settled at most once, and a settled    *)
(* trade is never touched again.  BotRuntime is shown to implement this    *)
(* specification under the mapping from the positions table to "stage".    *)
(***************************************************************************)
EXTENDS Integers, FiniteSets

CONSTANTS
    Trade,      \* the trades that may ever be entered
    MaxOpen     \* settings.risk.max_open_positions

VARIABLE stage  \* stage[t]: "absent", "held" or "settled"

Stages == {"absent", "held", "settled"}

Held == {t \in Trade : stage[t] = "held"}

LifecycleInit == stage = [t \in Trade |-> "absent"]

(* A signal that passed governance and risk becomes a held trade. *)
Enter(t) ==
    /\ stage[t] = "absent"
    /\ Cardinality(Held) < MaxOpen
    /\ stage' = [stage EXCEPT ![t] = "held"]

(* The exit of a held trade is booked. *)
Settle(t) ==
    /\ stage[t] = "held"
    /\ stage' = [stage EXCEPT ![t] = "settled"]

LifecycleNext == \E t \in Trade : Enter(t) \/ Settle(t)

LifecycleSpec == LifecycleInit /\ [][LifecycleNext]_stage
=============================================================================
