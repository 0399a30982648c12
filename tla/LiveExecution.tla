---------------------------- MODULE LiveExecution ---------------------------
(***************************************************************************)
(* LiveExecutionEngine.execute_signal with OrderManager, the exchange it   *)
(* trades on, and the LIVE startup recovery that compares the two sides.   *)
(* The exchange fills and triggers orders on its own between any two calls *)
(* of the engine; every call may be carried out, refused or lost as        *)
(* SignedRequest says; the process can die anywhere.                       *)
(*                                                                         *)
(* Simplifications: all signals go LONG, quantities are lots, prices and   *)
(* leverage are left out, and the entry timeout is the environment's step  *)
(* Expire.  The entry is a LIMIT order; a MARKET order is one that fills   *)
(* before the first poll.  The engine is called through its own signature, *)
(* as scripts/smoke_live_execution.py does: the decision cycle passes      *)
(* arguments that this signature does not have.                            *)
(***************************************************************************)
EXTENDS Integers

CONSTANTS
    MaxSignals,     \* bound: signals executed
    Qty,            \* the size of an entry, in lots
    Faults          \* what may go wrong, a subset of FaultKinds

FaultKinds == {"refused", "lost", "crash", "withdrawn"}

ASSUME SignalsAssumption == MaxSignals \in Nat
ASSUME QtyAssumption     == Qty \in Nat \ {0}
ASSUME FaultsAssumption  == Faults \subseteq FaultKinds

VARIABLES
    \* The exchange.
    entry,      \* entry[s]: status of the entry order
    filled,     \* filled[s]: its executed quantity
    stop, tp,   \* stop[s], tp[s]: status of the protective orders
    closed,     \* closed[s]: lots of s the protective orders sold
    \* The database.
    row,        \* row[s]: "none", "OPEN" or "PARTIAL"
    size,       \* size[s]: the size in that row
    \* The process.
    pc,         \* the next request or commit
    signal,     \* the signal being executed
    expired,    \* has entry_timeout_seconds passed?
    fill,       \* _EntryFillResult: filled_qty and fully_filled
    outcome,    \* outcome[s]: how execute_signal ended
    safeMode,   \* what the last startup sync decided
    seen,       \* its first answer: was there a position?
    between,    \* history: entry orders that worked at its first answer, and ended by its second
    fresh,      \* history: no signal was executed since the last startup sync
    trouble     \* history: has a request failed, or the process died?

exchange == <<entry, filled, stop, tp, closed>>
database == <<row, size>>
sync     == <<safeMode, seen, between, fresh>>
vars == <<exchange, database, pc, signal, expired, fill, outcome, sync, trouble>>

Signals == 1 .. MaxSignals
NoFill  == [qty |-> 0, full |-> FALSE]
Orders  == {"none", "NEW", "FILLED", "CANCELED"}    \* NEW: working, perhaps partially filled
Stages  == {"idle", "leverage", "submit", "poll", "cancel", "record",
            "stop", "tp", "snapshot", "down", "sync", "orders"}

-----------------------------------------------------------------------------
(* The exchange *)

(* has_any_exchange_position: lots that were bought and not yet sold. *)
HasPosition == \E s \in Signals : filled[s] > closed[s]

(* A working entry order is filled, lot by lot. *)
FillEntry(s) ==
    /\ entry[s] = "NEW" /\ filled[s] < Qty
    /\ filled' = [filled EXCEPT ![s] = filled[s] + 1]
    /\ entry' = [entry EXCEPT ![s] = IF filled'[s] = Qty THEN "FILLED" ELSE "NEW"]
    /\ UNCHANGED <<stop, tp, closed, database, pc, signal, expired, fill, outcome, sync, trouble>>

(* The exchange or its user ends a working entry order: CANCELED, EXPIRED. *)
Withdraw(s) ==
    /\ "withdrawn" \in Faults
    /\ entry[s] = "NEW"
    /\ entry' = [entry EXCEPT ![s] = "CANCELED"]
    /\ UNCHANGED <<filled, stop, tp, closed, database, pc, signal, expired, fill, outcome,
                   sync, trouble>>

(* A protective order triggers.  It is reduceOnly: it sells what is left of *)
(* the entry's lots, never more than it was placed for.                     *)
Trigger(s) ==
    /\ filled[s] > closed[s]
    /\ \/ stop[s] = "NEW" /\ stop' = [stop EXCEPT ![s] = "FILLED"] /\ UNCHANGED tp
       \/ tp[s] = "NEW" /\ tp' = [tp EXCEPT ![s] = "FILLED"] /\ UNCHANGED stop
    /\ closed' = [closed EXCEPT ![s] = IF closed[s] + size[s] > filled[s]
                                       THEN filled[s] ELSE closed[s] + size[s]]
    /\ UNCHANGED <<entry, filled, database, pc, signal, expired, fill, outcome, sync, trouble>>

(* How a request can fail for its caller: refused, or without a usable      *)
(* answer, in which case it may have been carried out (SignedRequest).      *)
Refused    == "refused" \in Faults /\ trouble' = TRUE
Unanswered == "lost" \in Faults /\ trouble' = TRUE
Answered   == UNCHANGED trouble

-----------------------------------------------------------------------------
(* execute_signal *)

(* The call ends without a position for the caller: LiveExecutionError. *)
Fail ==
    /\ pc' = "idle"
    /\ outcome' = [outcome EXCEPT ![signal] = "failed"]
    /\ UNCHANGED <<database, signal, expired, fill, sync>>

GoTo(stage) ==
    /\ pc' = stage
    /\ UNCHANGED <<database, signal, expired, fill, outcome, sync>>

(* Bound: MaxSignals signals, in order. *)
ExecuteSignal(s) ==
    /\ pc = "idle" /\ ~safeMode
    /\ s = signal + 1
    /\ pc' = "leverage" /\ signal' = s /\ expired' = FALSE /\ fill' = NoFill
    /\ fresh' = FALSE /\ seen' = FALSE /\ between' = {}
    /\ UNCHANGED <<exchange, database, outcome, safeMode, trouble>>

SetLeverage ==
    /\ pc = "leverage"
    /\ UNCHANGED exchange
    /\ \/ Answered /\ GoTo("submit")
       \/ (Refused \/ Unanswered) /\ Fail

AcceptEntry ==
    /\ entry' = [entry EXCEPT ![signal] = "NEW"]
    /\ UNCHANGED <<filled, stop, tp, closed>>

SubmitEntry ==
    /\ pc = "submit"
    /\ \/ Answered /\ AcceptEntry /\ GoTo("poll")
       \/ Refused /\ UNCHANGED exchange /\ Fail
       \/ Unanswered /\ (AcceptEntry \/ UNCHANGED exchange) /\ Fail

(* The deadline of _wait_for_entry_fill passes. *)
Expire ==
    /\ pc = "poll" /\ ~expired
    /\ expired' = TRUE
    /\ UNCHANGED <<exchange, database, pc, signal, fill, outcome, sync, trouble>>

TakeFill(full, stage) ==
    /\ Answered /\ pc' = stage
    /\ fill' = [qty |-> filled[signal], full |-> full]
    /\ UNCHANGED <<database, signal, expired, outcome, sync>>

(* Mutant: a fill seen at the deadline is taken as it is, without a cancel. *)
TimeoutWithoutCancel ==
    /\ pc = "poll" /\ UNCHANGED exchange
    /\ \/ entry[signal] = "FILLED" /\ TakeFill(TRUE, "record")
       \/ entry[signal] = "NEW" /\ expired /\ filled[signal] > 0 /\ TakeFill(FALSE, "record")
       \/ entry[signal] = "NEW" /\ expired /\ filled[signal] = 0 /\ TakeFill(FALSE, "cancel")

(* One poll of _wait_for_entry_fill that ends the waiting (any other leaves *)
(* everything as it is): filled; at the deadline (the quantity is read here *)
(* and the order cancelled afterwards); cancelled by someone else, with or  *)
(* without a fill; or an error, which leaves the order where it is.         *)
PollEntry ==
    /\ pc = "poll" /\ UNCHANGED exchange
    /\ \/ entry[signal] = "FILLED" /\ TakeFill(TRUE, "record")
       \/ entry[signal] # "FILLED" /\ expired /\ TakeFill(FALSE, "cancel")
       \/ /\ entry[signal] = "CANCELED" /\ ~expired
          /\ IF filled[signal] > 0 THEN TakeFill(FALSE, "record") ELSE Answered /\ Fail
       \/ (Refused \/ Unanswered) /\ Fail

(* What the caller does after the cancel, whose own error is swallowed. *)
AfterCancel == IF fill.qty > 0 THEN GoTo("record") ELSE Fail

(* The order is cancelled unless it has ended in the meantime, in which     *)
(* case the exchange refuses; or the request does not get through.          *)
CancelEntry ==
    /\ pc = "cancel"
    /\ \/ /\ entry[signal] = "NEW" /\ Answered
          /\ entry' = [entry EXCEPT ![signal] = "CANCELED"]
          /\ UNCHANGED <<filled, stop, tp, closed>>
       \/ entry[signal] # "NEW" /\ Answered /\ UNCHANGED exchange
       \/ (Refused \/ Unanswered) /\ UNCHANGED exchange
    /\ AfterCancel

(* Mutant: the row gets the ordered quantity. *)
RecordOrderedQty ==
    /\ row' = [row EXCEPT ![signal] = IF fill.full THEN "OPEN" ELSE "PARTIAL"]
    /\ size' = [size EXCEPT ![signal] = Qty]

InsertPosition ==
    /\ row' = [row EXCEPT ![signal] = IF fill.full THEN "OPEN" ELSE "PARTIAL"]
    /\ size' = [size EXCEPT ![signal] = fill.qty]

(* The position and its fills, in one commit. *)
RecordPosition ==
    /\ pc = "record" /\ pc' = "stop"
    /\ InsertPosition
    /\ UNCHANGED <<exchange, signal, expired, fill, outcome, sync, trouble>>

SubmitStop ==
    /\ pc = "stop"
    /\ UNCHANGED <<entry, filled, tp, closed>>
    /\ LET accept == stop' = [stop EXCEPT ![signal] = "NEW"]
       IN  \/ Answered /\ accept /\ GoTo("tp")
           \/ Refused /\ UNCHANGED stop /\ Fail
           \/ Unanswered /\ (accept \/ UNCHANGED stop) /\ Fail

SubmitTp ==
    /\ pc = "tp"
    /\ UNCHANGED <<entry, filled, stop, closed>>
    /\ LET accept == tp' = [tp EXCEPT ![signal] = "NEW"]
       IN  \/ Answered /\ accept /\ GoTo("snapshot")
           \/ Refused /\ UNCHANGED tp /\ Fail
           \/ Unanswered /\ (accept \/ UNCHANGED tp) /\ Fail

(* The two protective orders are read back and their events committed. *)
SnapshotProtection ==
    /\ pc = "snapshot"
    /\ UNCHANGED exchange
    /\ \/ /\ pc' = "idle" /\ Answered
          /\ outcome' = [outcome EXCEPT ![signal] = "opened"]
          /\ UNCHANGED <<database, signal, expired, fill, sync>>
       \/ (Refused \/ Unanswered) /\ Fail

-----------------------------------------------------------------------------
(* Crash, restart and run_startup_sync *)

Crash ==
    /\ "crash" \in Faults /\ pc # "down"
    /\ pc' = "down"
    /\ expired' = FALSE /\ fill' = NoFill /\ seen' = FALSE /\ between' = {} /\ trouble' = TRUE
    /\ UNCHANGED <<exchange, database, signal, outcome, safeMode, fresh>>

Restart == pc = "down" /\ UNCHANGED <<exchange, trouble>> /\ GoTo("sync")

OpenRows    == {s \in Signals : row[s] # "none"}
OpenOrders  == {s \in Signals : "NEW" \in {entry[s], stop[s], tp[s]}}

(* Mutant: orders are not looked at. *)
IssuesOfPositionsOnly ==
    {issue \in {"unknown_position", "phantom_position"} :
        \/ issue = "unknown_position" /\ seen /\ OpenRows = {}
        \/ issue = "phantom_position" /\ ~seen /\ OpenRows # {}}

(* _validate_recovery_state: positions are compared by symbol and direction *)
(* alone, orders only with the existence of a position.                     *)
Issues ==
    {issue \in {"unknown_position", "phantom_position", "orphan_orders"} :
        \/ issue = "unknown_position" /\ seen /\ OpenRows = {}
        \/ issue = "phantom_position" /\ ~seen /\ OpenRows # {}
        \/ issue = "orphan_orders" /\ OpenOrders # {} /\ ~seen}

EndSync(safe) == pc' = "idle" /\ safeMode' = safe /\ fresh' = TRUE

(* run_startup_sync asks twice: for the positions, then for the orders.  If *)
(* either answer does not come, exchange_sync_failed turns safe mode on.    *)
FetchPositions ==
    /\ pc = "sync"
    /\ \/ /\ pc' = "orders" /\ Answered
          /\ seen' = HasPosition /\ between' = {s \in Signals : entry[s] = "NEW"}
          /\ UNCHANGED <<safeMode, fresh>>
       \/ (Refused \/ Unanswered) /\ EndSync(TRUE) /\ UNCHANGED <<seen, between>>
    /\ UNCHANGED <<exchange, database, signal, expired, fill, outcome>>

FetchOrders ==
    /\ pc = "orders"
    /\ \/ EndSync(Issues # {}) /\ Answered
       \/ (Refused \/ Unanswered) /\ EndSync(TRUE)
    /\ between' = {s \in between : entry[s] # "NEW"}
    /\ UNCHANGED <<exchange, database, signal, expired, fill, outcome, seen>>

-----------------------------------------------------------------------------
Init ==
    /\ entry = [s \in Signals |-> "none"] /\ filled = [s \in Signals |-> 0]
    /\ stop = [s \in Signals |-> "none"] /\ tp = [s \in Signals |-> "none"]
    /\ closed = [s \in Signals |-> 0]
    /\ row = [s \in Signals |-> "none"] /\ size = [s \in Signals |-> 0]
    /\ pc = "down" /\ signal = 0 /\ expired = FALSE /\ fill = NoFill
    /\ outcome = [s \in Signals |-> "none"]
    /\ safeMode = FALSE /\ seen = FALSE /\ between = {} /\ fresh = TRUE /\ trouble = FALSE

Engine ==
    \/ SetLeverage \/ SubmitEntry \/ PollEntry \/ CancelEntry \/ RecordPosition
    \/ SubmitStop \/ SubmitTp \/ SnapshotProtection

Next ==
    \/ \E s \in Signals : FillEntry(s) \/ Withdraw(s) \/ Trigger(s) \/ ExecuteSignal(s)
    \/ Engine \/ Expire \/ Crash \/ Restart \/ FetchPositions \/ FetchOrders

Spec == Init /\ [][Next]_vars

-----------------------------------------------------------------------------
(* Properties *)

(* A call that returns normally leaves a position whose stop and target the *)
(* exchange has taken; no row claims more than the exchange executed,       *)
(* although the quantity is read before the cancel and written after it;    *)
(* and as long as every request is carried out and answered, a finished     *)
(* call leaves no working entry order behind, filled in part or not at all. *)
CallsEndClean ==
    /\ \A s \in Signals :
           /\ outcome[s] = "opened" => stop[s] # "none" /\ tp[s] # "none" /\ row[s] # "none"
           /\ size[s] <= filled[s]
    /\ ~trouble /\ pc = "idle" => \A s \in Signals : entry[s] # "NEW"

(* When a startup sync has let trading resume, lots without a row of their  *)
(* signal, whenever they show up on the exchange, are no surprise but in    *)
(* two cases: their order worked when the positions were asked for and had  *)
(* ended, filled at least in part, when the orders were, so that neither    *)
(* answer had it; or the exchange had a position and the database a row,    *)
(* which is all that is compared.  Any other stray order of the process     *)
(* that died is noticed before it is filled.                                *)
ResumeKnowsPosition ==
    fresh /\ pc = "idle" /\ ~safeMode =>
        \A s \in Signals : filled[s] > closed[s] /\ row[s] = "none" =>
            s \in between \/ (seen /\ OpenRows # {})

=============================================================================
