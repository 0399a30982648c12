------------------------ MODULE LiveExecutionProofs -------------------------
(***************************************************************************)
(* A LIVE entry, for any number of signals, any size and any faults: what  *)
(* a call of execute_signal leaves behind, and what a startup sync lets    *)
(* through.  Inv follows the call to its end (what is placed or recorded   *)
(* at each stage, and which order may still be working) and the sync to    *)
(* the next call (nothing is left that could become a position without a   *)
(* row, but for what ended between the two requests of the sync).          *)
(***************************************************************************)
EXTENDS LiveExecution, TLAPS

TypeOK ==
    /\ entry \in [Signals -> Orders] /\ stop \in [Signals -> Orders] /\ tp \in [Signals -> Orders]
    /\ filled \in [Signals -> Nat] /\ closed \in [Signals -> Nat]
    /\ row \in [Signals -> {"none", "OPEN", "PARTIAL"}] /\ size \in [Signals -> Nat]
    /\ pc \in Stages /\ signal \in 0 .. MaxSignals
    /\ expired \in BOOLEAN /\ fill \in [qty : Nat, full : BOOLEAN]
    /\ outcome \in [Signals -> {"none", "failed", "opened"}]
    /\ safeMode \in BOOLEAN /\ seen \in BOOLEAN /\ between \in SUBSET Signals /\ fresh \in BOOLEAN /\ trouble \in BOOLEAN

Outside == {"idle", "down", "sync", "orders"}

(* A call under way has a signal. *)
Underway == pc \notin Outside => signal \in Signals

(* What execute_signal has done by each stage. *)
Placed ==
    /\ pc \in {"stop", "tp", "snapshot"} => row[signal] # "none"
    /\ pc \in {"tp", "snapshot"} => stop[signal] # "none"
    /\ pc = "snapshot" => tp[signal] # "none"

OpenedMeansProtected ==
    \A s \in Signals :
        outcome[s] = "opened" => stop[s] # "none" /\ tp[s] # "none" /\ row[s] # "none"

(* The quantity that was read is not more than what is filled by now. *)
ReadIsFilled == pc \notin Outside => fill.qty <= filled[signal]

SizeIsFilled == \A s \in Signals : size[s] <= filled[s]

(* Without trouble only the order that is waited for works. *)
OneWorking ==
    ~trouble => \A s \in Signals : entry[s] = "NEW" => s = signal /\ pc \in {"poll", "cancel"}

(* A sync is only fresh while no call is under way.  When no position was   *)
(* seen, what can fill or has filled since worked at the first answer; and  *)
(* what a sync let pass has a row, or nothing is left that could fill and   *)
(* what did fill ended between the answers.                                 *)
SyncHolds ==
    /\ fresh => pc \in Outside
    /\ pc = "orders" /\ ~seen =>
           \A s \in Signals : entry[s] = "NEW" \/ filled[s] > closed[s] => s \in between
    /\ fresh /\ pc = "idle" /\ ~safeMode =>
           \/ seen /\ OpenRows # {}
           \/ \A s \in Signals : entry[s] # "NEW" /\ (filled[s] > closed[s] => s \in between)

Inv ==
    /\ TypeOK /\ Underway /\ Placed /\ OpenedMeansProtected
    /\ ReadIsFilled /\ SizeIsFilled /\ OneWorking /\ SyncHolds



-----------------------------------------------------------------------------
(* The exchange: it only fills what is working, and nothing is unplaced. *)

LEMMA FillEntryKeeps == ASSUME Inv, NEW s \in Signals, FillEntry(s) PROVE Inv'
<1>1. TypeOK'
  BY QtyAssumption DEF Inv, TypeOK, Stages, Orders, FillEntry, database, sync
<1>2. Underway'
  BY DEF Inv, Underway, Outside, FillEntry, database, sync
<1>3. Placed'
  BY DEF Inv, TypeOK, Underway, Outside, Placed, FillEntry, database, sync
<1>4. OpenedMeansProtected'
  BY DEF Inv, TypeOK, OpenedMeansProtected, FillEntry, database, sync
<1>5. ReadIsFilled'
  BY DEF Inv, TypeOK, Underway, Outside, ReadIsFilled, FillEntry, database, sync
<1>6. SizeIsFilled'
  BY DEF Inv, TypeOK, SizeIsFilled, FillEntry, database, sync
<1>7. OneWorking'
  BY DEF Inv, TypeOK, OneWorking, FillEntry, database, sync
<1>8. SyncHolds'
  BY DEF Inv, TypeOK, Outside, SyncHolds, OpenRows, FillEntry, database, sync
<1> QED BY <1>1, <1>2, <1>3, <1>4, <1>5, <1>6, <1>7, <1>8 DEF Inv

LEMMA WithdrawKeeps == ASSUME Inv, NEW s \in Signals, Withdraw(s) PROVE Inv'
<1>1. TypeOK'
  BY DEF Inv, TypeOK, Stages, Orders, Withdraw, database, sync
<1>2. Underway'
  BY DEF Inv, Underway, Outside, Withdraw, database, sync
<1>3. Placed'
  BY DEF Inv, TypeOK, Underway, Outside, Placed, Withdraw, database, sync
<1>4. OpenedMeansProtected'
  BY DEF Inv, TypeOK, OpenedMeansProtected, Withdraw, database, sync
<1>5. ReadIsFilled'
  BY DEF Inv, TypeOK, Underway, Outside, ReadIsFilled, Withdraw, database, sync
<1>6. SizeIsFilled'
  BY DEF Inv, TypeOK, SizeIsFilled, Withdraw, database, sync
<1>7. OneWorking'
  BY DEF Inv, TypeOK, OneWorking, Withdraw, database, sync
<1>8. SyncHolds'
  BY DEF Inv, TypeOK, Outside, SyncHolds, OpenRows, Withdraw, database, sync
<1> QED BY <1>1, <1>2, <1>3, <1>4, <1>5, <1>6, <1>7, <1>8 DEF Inv

LEMMA TriggerKeeps == ASSUME Inv, NEW s \in Signals, Trigger(s) PROVE Inv'
<1>1. TypeOK'
  BY DEF Inv, TypeOK, Stages, Orders, Trigger, database, sync
<1>2. Underway'
  BY DEF Inv, Underway, Outside, Trigger, database, sync
<1>3. Placed'
  BY DEF Inv, TypeOK, Underway, Outside, Placed, Trigger, database, sync
<1>4. OpenedMeansProtected'
  BY DEF Inv, TypeOK, OpenedMeansProtected, Trigger, database, sync
<1>5. ReadIsFilled'
  BY DEF Inv, TypeOK, Underway, Outside, ReadIsFilled, Trigger, database, sync
<1>6. SizeIsFilled'
  BY DEF Inv, TypeOK, SizeIsFilled, Trigger, database, sync
<1>7. OneWorking'
  BY DEF Inv, TypeOK, OneWorking, Trigger, database, sync
<1>8. SyncHolds'
  BY DEF Inv, TypeOK, Outside, SyncHolds, OpenRows, Trigger, database, sync
<1> QED BY <1>1, <1>2, <1>3, <1>4, <1>5, <1>6, <1>7, <1>8 DEF Inv

-----------------------------------------------------------------------------
(* The call *)

LEMMA ExecuteSignalKeeps == ASSUME Inv, NEW s \in Signals, ExecuteSignal(s) PROVE Inv'
<1>1. TypeOK'
  <2>1. signal' = s /\ s \in 0 .. MaxSignals /\ pc' = "leverage" /\ fill' = NoFill
        /\ expired' = FALSE /\ fresh' = FALSE /\ seen' = FALSE /\ between' = {}
    BY SignalsAssumption DEF ExecuteSignal, Signals
  <2>2. NoFill \in [qty : Nat, full : BOOLEAN]
    BY DEF NoFill
  <2>3. UNCHANGED <<exchange, database, outcome, safeMode, trouble>>
    BY DEF ExecuteSignal
  <2> QED BY <2>1, <2>2, <2>3 DEF Inv, TypeOK, Stages, exchange, database
<1>2. Underway'
  BY DEF Inv, Underway, Outside, ExecuteSignal, NoFill, database, sync, exchange
<1>3. Placed'
  BY DEF Inv, TypeOK, Underway, Outside, Placed, ExecuteSignal, NoFill, database, sync, exchange
<1>4. OpenedMeansProtected'
  BY DEF Inv, TypeOK, OpenedMeansProtected, ExecuteSignal, NoFill, database, sync, exchange
<1>5. ReadIsFilled'
  BY DEF Inv, TypeOK, Underway, Outside, ReadIsFilled, ExecuteSignal, NoFill, database, sync, exchange
<1>6. SizeIsFilled'
  BY DEF Inv, TypeOK, SizeIsFilled, ExecuteSignal, NoFill, database, sync, exchange
<1>7. OneWorking'
  BY DEF Inv, TypeOK, OneWorking, ExecuteSignal, NoFill, database, sync, exchange
<1>8. SyncHolds'
  BY DEF Inv, TypeOK, Outside, SyncHolds, OpenRows, ExecuteSignal, NoFill,
         database, sync, exchange
<1> QED BY <1>1, <1>2, <1>3, <1>4, <1>5, <1>6, <1>7, <1>8 DEF Inv

LEMMA SetLeverageKeeps == ASSUME Inv, SetLeverage PROVE Inv'
<1>1. TypeOK'
  BY DEF Inv, TypeOK, Stages, Orders, Underway, Outside, SetLeverage, exchange, Fail, GoTo,
         Answered, Refused, Unanswered, database, sync
<1>2. Underway'
  BY DEF Inv, Underway, Outside, SetLeverage, exchange, Fail, GoTo, Answered, Refused,
         Unanswered, database, sync
<1>3. Placed'
  BY DEF Inv, TypeOK, Underway, Outside, Placed, SetLeverage, exchange, Fail, GoTo, Answered,
         Refused, Unanswered, database, sync
<1>4. OpenedMeansProtected'
  BY DEF Inv, TypeOK, OpenedMeansProtected, Underway, Outside, SetLeverage, exchange, Fail,
         GoTo, Answered, Refused, Unanswered, database, sync
<1>5. ReadIsFilled'
  BY DEF Inv, TypeOK, Underway, Outside, ReadIsFilled, SetLeverage, exchange, Fail, GoTo,
         Answered, Refused, Unanswered, database, sync
<1>6. SizeIsFilled'
  BY DEF Inv, TypeOK, SizeIsFilled, SetLeverage, exchange, Fail, GoTo, Answered, Refused,
         Unanswered, database, sync
<1>7. OneWorking'
  BY DEF Inv, TypeOK, OneWorking, Underway, Outside, SetLeverage, exchange, Fail, GoTo,
         Answered, Refused, Unanswered, database, sync
<1>8. SyncHolds'
  BY DEF Inv, TypeOK, Outside, SyncHolds, OpenRows, SetLeverage, exchange, Fail,
         GoTo, Answered, Refused, Unanswered, database, sync
<1> QED BY <1>1, <1>2, <1>3, <1>4, <1>5, <1>6, <1>7, <1>8 DEF Inv

LEMMA SubmitEntryKeeps == ASSUME Inv, SubmitEntry PROVE Inv'
<1>1. TypeOK'
  BY DEF Inv, TypeOK, Stages, Orders, Underway, Outside, SubmitEntry, AcceptEntry, exchange,
         Fail, GoTo, Answered, Refused, Unanswered, database, sync
<1>2. Underway'
  BY DEF Inv, Underway, Outside, SubmitEntry, AcceptEntry, exchange, Fail, GoTo, Answered,
         Refused, Unanswered, database, sync
<1>3. Placed'
  BY DEF Inv, TypeOK, Underway, Outside, Placed, SubmitEntry, AcceptEntry, exchange, Fail, GoTo,
         Answered, Refused, Unanswered, database, sync
<1>4. OpenedMeansProtected'
  BY DEF Inv, TypeOK, OpenedMeansProtected, Underway, Outside, SubmitEntry, AcceptEntry,
         exchange, Fail, GoTo, Answered, Refused, Unanswered, database, sync
<1>5. ReadIsFilled'
  BY DEF Inv, TypeOK, Underway, Outside, ReadIsFilled, SubmitEntry, AcceptEntry, exchange, Fail,
         GoTo, Answered, Refused, Unanswered, database, sync
<1>6. SizeIsFilled'
  BY DEF Inv, TypeOK, SizeIsFilled, SubmitEntry, AcceptEntry, exchange, Fail, GoTo, Answered,
         Refused, Unanswered, database, sync
<1>7. OneWorking'
  BY DEF Inv, TypeOK, OneWorking, Underway, Outside, SubmitEntry, AcceptEntry, exchange, Fail,
         GoTo, Answered, Refused, Unanswered, database, sync
<1>8. SyncHolds'
  BY DEF Inv, TypeOK, Outside, SyncHolds, OpenRows, SubmitEntry, AcceptEntry,
         exchange, Fail, GoTo, Answered, Refused, Unanswered, database, sync
<1> QED BY <1>1, <1>2, <1>3, <1>4, <1>5, <1>6, <1>7, <1>8 DEF Inv

LEMMA PollEntryKeeps == ASSUME Inv, PollEntry PROVE Inv'
<1>1. TypeOK'
  <2>1. signal \in Signals
    BY DEF Inv, Underway, Outside, PollEntry
  <2>2. /\ UNCHANGED <<exchange, database, signal, expired, sync>>
        /\ fill' = fill \/ \E full \in BOOLEAN : fill' = [qty |-> filled[signal], full |-> full]
        /\ pc' \in {"idle", "record", "cancel"}
        /\ outcome' \in {outcome, [outcome EXCEPT ![signal] = "failed"]}
        /\ trouble' \in {trouble, TRUE}
    BY DEF PollEntry, TakeFill, Fail, Answered, Refused, Unanswered, exchange, database, sync
  <2>3. filled[signal] \in Nat
    BY <2>1 DEF Inv, TypeOK
  <2>4. fill' \in [qty : Nat, full : BOOLEAN]
    BY <2>2, <2>3 DEF Inv, TypeOK
  <2>5. outcome' \in [Signals -> {"none", "failed", "opened"}]
    BY <2>1, <2>2 DEF Inv, TypeOK
  <2> QED BY <2>2, <2>4, <2>5 DEF Inv, TypeOK, Stages, exchange, database, sync
<1>2. Underway'
  BY DEF Inv, Underway, Outside, PollEntry, TakeFill, exchange, Fail, GoTo, Answered, Refused,
         Unanswered, database, sync
<1>3. Placed'
  BY DEF Inv, TypeOK, Underway, Outside, Placed, PollEntry, TakeFill, exchange, Fail, GoTo,
         Answered, Refused, Unanswered, database, sync
<1>4. OpenedMeansProtected'
  BY DEF Inv, TypeOK, OpenedMeansProtected, Underway, Outside, PollEntry, TakeFill, exchange,
         Fail, GoTo, Answered, Refused, Unanswered, database, sync
<1>5. ReadIsFilled'
  BY DEF Inv, TypeOK, Underway, Outside, ReadIsFilled, PollEntry, TakeFill, exchange, Fail,
         GoTo, Answered, Refused, Unanswered, database, sync
<1>6. SizeIsFilled'
  BY DEF Inv, TypeOK, SizeIsFilled, PollEntry, TakeFill, exchange, Fail, GoTo, Answered,
         Refused, Unanswered, database, sync
<1>7. OneWorking'
  BY DEF Inv, TypeOK, OneWorking, Underway, Outside, PollEntry, TakeFill, exchange, Fail, GoTo,
         Answered, Refused, Unanswered, database, sync
<1>8. SyncHolds'
  BY DEF Inv, TypeOK, Outside, SyncHolds, OpenRows, PollEntry, TakeFill, exchange,
         Fail, GoTo, Answered, Refused, Unanswered, database, sync
<1> QED BY <1>1, <1>2, <1>3, <1>4, <1>5, <1>6, <1>7, <1>8 DEF Inv

LEMMA CancelEntryKeeps == ASSUME Inv, CancelEntry PROVE Inv'
<1>1. TypeOK'
  BY DEF Inv, TypeOK, Stages, Orders, Underway, Outside, CancelEntry, AfterCancel, exchange,
         Fail, GoTo, Answered, Refused, Unanswered, database, sync
<1>2. Underway'
  BY DEF Inv, Underway, Outside, CancelEntry, AfterCancel, exchange, Fail, GoTo, Answered,
         Refused, Unanswered, database, sync
<1>3. Placed'
  BY DEF Inv, TypeOK, Underway, Outside, Placed, CancelEntry, AfterCancel, exchange, Fail, GoTo,
         Answered, Refused, Unanswered, database, sync
<1>4. OpenedMeansProtected'
  BY DEF Inv, TypeOK, OpenedMeansProtected, Underway, Outside, CancelEntry, AfterCancel,
         exchange, Fail, GoTo, Answered, Refused, Unanswered, database, sync
<1>5. ReadIsFilled'
  BY DEF Inv, TypeOK, Underway, Outside, ReadIsFilled, CancelEntry, AfterCancel, exchange, Fail,
         GoTo, Answered, Refused, Unanswered, database, sync
<1>6. SizeIsFilled'
  BY DEF Inv, TypeOK, SizeIsFilled, CancelEntry, AfterCancel, exchange, Fail, GoTo, Answered,
         Refused, Unanswered, database, sync
<1>7. OneWorking'
  <2> SUFFICES ASSUME ~trouble' PROVE \A s \in Signals : entry'[s] # "NEW"
    BY DEF OneWorking
  <2>1. signal \in Signals /\ entry \in [Signals -> Orders]
    BY DEF Inv, TypeOK, Underway, Outside, CancelEntry
  <2>2. ~trouble /\ (entry' = [entry EXCEPT ![signal] = "CANCELED"] \/ (entry[signal] # "NEW" /\ entry' = entry))
    BY DEF CancelEntry, Answered, Refused, Unanswered, exchange, Inv, TypeOK
  <2>3. \A s \in Signals : entry[s] = "NEW" => s = signal
    BY <2>2 DEF Inv, OneWorking
  <2> QED BY <2>1, <2>2, <2>3
<1>8. SyncHolds'
  BY DEF Inv, TypeOK, Outside, SyncHolds, OpenRows, CancelEntry, AfterCancel,
         exchange, Fail, GoTo, Answered, Refused, Unanswered, database, sync
<1> QED BY <1>1, <1>2, <1>3, <1>4, <1>5, <1>6, <1>7, <1>8 DEF Inv

LEMMA RecordPositionKeeps == ASSUME Inv, RecordPosition PROVE Inv'
<1>1. TypeOK'
  BY DEF Inv, TypeOK, Stages, Orders, Underway, Outside, RecordPosition, InsertPosition,
         exchange, sync
<1>2. Underway'
  BY DEF Inv, Underway, Outside, RecordPosition, InsertPosition, exchange, sync
<1>3. Placed'
  BY DEF Inv, TypeOK, Underway, Outside, Placed, RecordPosition, InsertPosition, exchange, sync
<1>4. OpenedMeansProtected'
  BY DEF Inv, TypeOK, OpenedMeansProtected, Underway, Outside, RecordPosition, InsertPosition,
         exchange, sync
<1>5. ReadIsFilled'
  BY DEF Inv, TypeOK, Underway, Outside, ReadIsFilled, RecordPosition, InsertPosition, exchange, sync
<1>6. SizeIsFilled'
  <2>1. signal \in Signals /\ fill.qty <= filled[signal]
    BY DEF Inv, Underway, ReadIsFilled, Outside, RecordPosition
  <2>2. UNCHANGED filled /\ size' = [size EXCEPT ![signal] = fill.qty]
    BY DEF RecordPosition, InsertPosition, exchange, sync
  <2> QED BY <2>1, <2>2 DEF Inv, TypeOK, SizeIsFilled
<1>7. OneWorking'
  BY DEF Inv, TypeOK, OneWorking, Underway, Outside, RecordPosition, InsertPosition, exchange, sync
<1>8. SyncHolds'
  BY DEF Inv, TypeOK, Outside, SyncHolds, OpenRows, RecordPosition, InsertPosition,
         exchange, sync
<1> QED BY <1>1, <1>2, <1>3, <1>4, <1>5, <1>6, <1>7, <1>8 DEF Inv

LEMMA SubmitStopKeeps == ASSUME Inv, SubmitStop PROVE Inv'
<1>1. TypeOK'
  BY DEF Inv, TypeOK, Stages, Orders, Underway, Outside, SubmitStop, Fail, GoTo, Answered,
         Refused, Unanswered, database, sync
<1>2. Underway'
  BY DEF Inv, Underway, Outside, SubmitStop, Fail, GoTo, Answered, Refused, Unanswered, database, sync
<1>3. Placed'
  BY DEF Inv, TypeOK, Underway, Outside, Placed, SubmitStop, Fail, GoTo, Answered, Refused,
         Unanswered, database, sync
<1>4. OpenedMeansProtected'
  BY DEF Inv, TypeOK, OpenedMeansProtected, Underway, Outside, SubmitStop, Fail, GoTo, Answered,
         Refused, Unanswered, database, sync
<1>5. ReadIsFilled'
  BY DEF Inv, TypeOK, Underway, Outside, ReadIsFilled, SubmitStop, Fail, GoTo, Answered,
         Refused, Unanswered, database, sync
<1>6. SizeIsFilled'
  BY DEF Inv, TypeOK, SizeIsFilled, SubmitStop, Fail, GoTo, Answered, Refused, Unanswered,
         database, sync
<1>7. OneWorking'
  BY DEF Inv, TypeOK, OneWorking, Underway, Outside, SubmitStop, Fail, GoTo, Answered, Refused,
         Unanswered, database, sync
<1>8. SyncHolds'
  BY DEF Inv, TypeOK, Outside, SyncHolds, OpenRows, SubmitStop, Fail, GoTo,
         Answered, Refused, Unanswered, database, sync
<1> QED BY <1>1, <1>2, <1>3, <1>4, <1>5, <1>6, <1>7, <1>8 DEF Inv

LEMMA SubmitTpKeeps == ASSUME Inv, SubmitTp PROVE Inv'
<1>1. TypeOK'
  BY DEF Inv, TypeOK, Stages, Orders, Underway, Outside, SubmitTp, Fail, GoTo, Answered,
         Refused, Unanswered, database, sync
<1>2. Underway'
  BY DEF Inv, Underway, Outside, SubmitTp, Fail, GoTo, Answered, Refused, Unanswered, database, sync
<1>3. Placed'
  BY DEF Inv, TypeOK, Underway, Outside, Placed, SubmitTp, Fail, GoTo, Answered, Refused,
         Unanswered, database, sync
<1>4. OpenedMeansProtected'
  BY DEF Inv, TypeOK, OpenedMeansProtected, Underway, Outside, SubmitTp, Fail, GoTo, Answered,
         Refused, Unanswered, database, sync
<1>5. ReadIsFilled'
  BY DEF Inv, TypeOK, Underway, Outside, ReadIsFilled, SubmitTp, Fail, GoTo, Answered, Refused,
         Unanswered, database, sync
<1>6. SizeIsFilled'
  BY DEF Inv, TypeOK, SizeIsFilled, SubmitTp, Fail, GoTo, Answered, Refused, Unanswered,
         database, sync
<1>7. OneWorking'
  BY DEF Inv, TypeOK, OneWorking, Underway, Outside, SubmitTp, Fail, GoTo, Answered, Refused,
         Unanswered, database, sync
<1>8. SyncHolds'
  BY DEF Inv, TypeOK, Outside, SyncHolds, OpenRows, SubmitTp, Fail, GoTo, Answered,
         Refused, Unanswered, database, sync
<1> QED BY <1>1, <1>2, <1>3, <1>4, <1>5, <1>6, <1>7, <1>8 DEF Inv

LEMMA SnapshotProtectionKeeps == ASSUME Inv, SnapshotProtection PROVE Inv'
<1>1. TypeOK'
  BY DEF Inv, TypeOK, Stages, Orders, Underway, Outside, SnapshotProtection, exchange, Fail,
         GoTo, Answered, Refused, Unanswered, database, sync
<1>2. Underway'
  BY DEF Inv, Underway, Outside, SnapshotProtection, exchange, Fail, GoTo, Answered, Refused,
         Unanswered, database, sync
<1>3. Placed'
  BY DEF Inv, TypeOK, Underway, Outside, Placed, SnapshotProtection, exchange, Fail, GoTo,
         Answered, Refused, Unanswered, database, sync
<1>4. OpenedMeansProtected'
  <2>1. signal \in Signals /\ row[signal] # "none" /\ stop[signal] # "none" /\ tp[signal] # "none"
    BY DEF Inv, Underway, Placed, Outside, SnapshotProtection
  <2>2. /\ UNCHANGED <<stop, tp, row>>
        /\ \/ outcome' = [outcome EXCEPT ![signal] = "opened"]
           \/ outcome' = [outcome EXCEPT ![signal] = "failed"]
    BY DEF SnapshotProtection, Fail, exchange, database, sync
  <2> QED BY <2>1, <2>2 DEF Inv, TypeOK, OpenedMeansProtected
<1>5. ReadIsFilled'
  BY DEF Inv, TypeOK, Underway, Outside, ReadIsFilled, SnapshotProtection, exchange, Fail, GoTo,
         Answered, Refused, Unanswered, database, sync
<1>6. SizeIsFilled'
  BY DEF Inv, TypeOK, SizeIsFilled, SnapshotProtection, exchange, Fail, GoTo, Answered, Refused,
         Unanswered, database, sync
<1>7. OneWorking'
  BY DEF Inv, TypeOK, OneWorking, Underway, Outside, SnapshotProtection, exchange, Fail, GoTo,
         Answered, Refused, Unanswered, database, sync
<1>8. SyncHolds'
  BY DEF Inv, TypeOK, Outside, SyncHolds, OpenRows, SnapshotProtection, exchange,
         Fail, GoTo, Answered, Refused, Unanswered, database, sync
<1> QED BY <1>1, <1>2, <1>3, <1>4, <1>5, <1>6, <1>7, <1>8 DEF Inv

-----------------------------------------------------------------------------
(* The process *)

LEMMA ExpireKeeps == ASSUME Inv, Expire PROVE Inv'
<1>1. TypeOK'
  BY DEF Inv, TypeOK, Stages, Orders, Expire, exchange, database, sync
<1>2. Underway'
  BY DEF Inv, Underway, Outside, Expire, exchange, database, sync
<1>3. Placed'
  BY DEF Inv, TypeOK, Underway, Outside, Placed, Expire, exchange, database, sync
<1>4. OpenedMeansProtected'
  BY DEF Inv, TypeOK, OpenedMeansProtected, Expire, exchange, database, sync
<1>5. ReadIsFilled'
  BY DEF Inv, TypeOK, Underway, Outside, ReadIsFilled, Expire, exchange, database, sync
<1>6. SizeIsFilled'
  BY DEF Inv, TypeOK, SizeIsFilled, Expire, exchange, database, sync
<1>7. OneWorking'
  BY DEF Inv, TypeOK, OneWorking, Expire, exchange, database, sync
<1>8. SyncHolds'
  BY DEF Inv, TypeOK, Outside, SyncHolds, OpenRows, Expire, exchange, database, sync
<1> QED BY <1>1, <1>2, <1>3, <1>4, <1>5, <1>6, <1>7, <1>8 DEF Inv

LEMMA CrashKeeps == ASSUME Inv, Crash PROVE Inv'
<1>1. TypeOK'
  BY DEF Inv, TypeOK, Stages, Orders, Crash, NoFill, exchange, database, sync
<1>2. Underway'
  BY DEF Inv, Underway, Outside, Crash, NoFill, exchange, database, sync
<1>3. Placed'
  BY DEF Inv, TypeOK, Underway, Outside, Placed, Crash, NoFill, exchange, database, sync
<1>4. OpenedMeansProtected'
  BY DEF Inv, TypeOK, OpenedMeansProtected, Crash, NoFill, exchange, database, sync
<1>5. ReadIsFilled'
  BY DEF Inv, TypeOK, Underway, Outside, ReadIsFilled, Crash, NoFill, exchange, database, sync
<1>6. SizeIsFilled'
  BY DEF Inv, TypeOK, SizeIsFilled, Crash, NoFill, exchange, database, sync
<1>7. OneWorking'
  BY DEF Inv, TypeOK, OneWorking, Crash, NoFill, exchange, database, sync
<1>8. SyncHolds'
  BY DEF Inv, TypeOK, Outside, SyncHolds, OpenRows, Crash, NoFill, exchange,
         database, sync
<1> QED BY <1>1, <1>2, <1>3, <1>4, <1>5, <1>6, <1>7, <1>8 DEF Inv

LEMMA RestartKeeps == ASSUME Inv, Restart PROVE Inv'
<1>1. TypeOK'
  BY DEF Inv, TypeOK, Stages, Orders, Restart, GoTo, exchange, database, sync
<1>2. Underway'
  BY DEF Inv, Underway, Outside, Restart, GoTo, exchange, database, sync
<1>3. Placed'
  BY DEF Inv, TypeOK, Underway, Outside, Placed, Restart, GoTo, exchange, database, sync
<1>4. OpenedMeansProtected'
  BY DEF Inv, TypeOK, OpenedMeansProtected, Restart, GoTo, exchange, database, sync
<1>5. ReadIsFilled'
  BY DEF Inv, TypeOK, Underway, Outside, ReadIsFilled, Restart, GoTo, exchange, database, sync
<1>6. SizeIsFilled'
  BY DEF Inv, TypeOK, SizeIsFilled, Restart, GoTo, exchange, database, sync
<1>7. OneWorking'
  BY DEF Inv, TypeOK, OneWorking, Restart, GoTo, exchange, database, sync
<1>8. SyncHolds'
  BY DEF Inv, TypeOK, Outside, SyncHolds, OpenRows, Restart, GoTo, exchange,
         database, sync
<1> QED BY <1>1, <1>2, <1>3, <1>4, <1>5, <1>6, <1>7, <1>8 DEF Inv

LEMMA FetchPositionsKeeps == ASSUME Inv, FetchPositions PROVE Inv'
<1>1. TypeOK'
  <2>1. seen' \in BOOLEAN /\ between' \in SUBSET Signals
    BY DEF Inv, TypeOK, FetchPositions, HasPosition
  <2> QED BY <2>1 DEF Inv, TypeOK, Stages, FetchPositions, exchange, database, Answered, Refused,
                      Unanswered, EndSync
<1>2. Underway'
  BY DEF Inv, Underway, Outside, FetchPositions, exchange, database, sync, Answered, Refused,
         Unanswered, EndSync
<1>3. Placed'
  BY DEF Inv, TypeOK, Underway, Outside, Placed, FetchPositions, exchange, database, sync, Answered, Refused,
         Unanswered, EndSync
<1>4. OpenedMeansProtected'
  BY DEF Inv, TypeOK, OpenedMeansProtected, FetchPositions, exchange, database, sync, Answered, Refused,
         Unanswered, EndSync
<1>5. ReadIsFilled'
  BY DEF Inv, TypeOK, Underway, Outside, ReadIsFilled, FetchPositions, exchange, database, sync, Answered, Refused,
         Unanswered, EndSync
<1>6. SizeIsFilled'
  BY DEF Inv, TypeOK, SizeIsFilled, FetchPositions, exchange, database, sync, Answered, Refused,
         Unanswered, EndSync
<1>7. OneWorking'
  BY DEF Inv, TypeOK, OneWorking, FetchPositions, exchange, database, sync, Answered, Refused,
         Unanswered, EndSync
<1>8. SyncHolds'
  <2>1. UNCHANGED <<exchange, database>>
    BY DEF FetchPositions
  <2>2. CASE pc' = "orders"
    <3>1. UNCHANGED fresh /\ pc = "sync"
          /\ seen' = HasPosition /\ between' = {s \in Signals : entry[s] = "NEW"}
      BY <2>2 DEF FetchPositions, EndSync
    <3>2. ~HasPosition => \A s \in Signals : ~(filled[s] > closed[s])
      BY DEF HasPosition
    <3> QED BY <2>1, <2>2, <3>1, <3>2 DEF SyncHolds, Outside, exchange
  <2>3. CASE pc' = "idle"
    <3>1. safeMode'
      BY <2>3 DEF FetchPositions, EndSync
    <3> QED BY <2>3, <3>1 DEF SyncHolds, Outside
  <2> QED BY <2>2, <2>3 DEF FetchPositions, EndSync
<1> QED BY <1>1, <1>2, <1>3, <1>4, <1>5, <1>6, <1>7, <1>8 DEF Inv

LEMMA FetchOrdersKeeps == ASSUME Inv, FetchOrders PROVE Inv'
<1>1. TypeOK'
  BY DEF Inv, TypeOK, Stages, Orders, FetchOrders, exchange, database, sync, Answered, Refused,
         Unanswered, EndSync
<1>2. Underway'
  BY DEF Inv, Underway, Outside, FetchOrders, exchange, database, sync, Answered, Refused,
         Unanswered, EndSync
<1>3. Placed'
  BY DEF Inv, TypeOK, Underway, Outside, Placed, FetchOrders, exchange, database, sync, Answered, Refused,
         Unanswered, EndSync
<1>4. OpenedMeansProtected'
  BY DEF Inv, TypeOK, OpenedMeansProtected, FetchOrders, exchange, database, sync, Answered, Refused,
         Unanswered, EndSync
<1>5. ReadIsFilled'
  BY DEF Inv, TypeOK, Underway, Outside, ReadIsFilled, FetchOrders, exchange, database, sync, Answered, Refused,
         Unanswered, EndSync
<1>6. SizeIsFilled'
  BY DEF Inv, TypeOK, SizeIsFilled, FetchOrders, exchange, database, sync, Answered, Refused,
         Unanswered, EndSync
<1>7. OneWorking'
  BY DEF Inv, TypeOK, OneWorking, FetchOrders, exchange, database, sync, Answered, Refused,
         Unanswered, EndSync
<1>8. SyncHolds'
  <2>1. pc = "orders" /\ pc' = "idle" /\ UNCHANGED <<exchange, database, seen>>
        /\ between' = {s \in between : entry[s] # "NEW"}
    BY DEF FetchOrders, EndSync
  <2>2. ASSUME ~safeMode', ~(seen /\ OpenRows # {})
        PROVE  \A s \in Signals : entry[s] # "NEW" /\ (filled[s] > closed[s] => s \in between')
    <3>1. Issues = {}
      BY <2>2 DEF FetchOrders, EndSync
    <3>2. /\ "unknown_position" \notin Issues /\ "phantom_position" \notin Issues
          /\ "orphan_orders" \notin Issues
      BY <3>1
    <3>3. ~seen /\ OpenOrders = {}
      BY <2>2, <3>2 DEF Issues
    <3>4. \A s \in Signals : entry[s] # "NEW"
      BY <3>3 DEF OpenOrders
    <3> QED BY <2>1, <3>3, <3>4 DEF Inv, SyncHolds
  <2>3. (OpenRows = {}) = (OpenRows' = {})
    BY <2>1 DEF OpenRows, database
  <2> QED BY <2>1, <2>2, <2>3 DEF SyncHolds, Outside, exchange
<1> QED BY <1>1, <1>2, <1>3, <1>4, <1>5, <1>6, <1>7, <1>8 DEF Inv

LEMMA StutterKeeps == ASSUME Inv, UNCHANGED vars PROVE Inv'
<1>1. TypeOK'
  BY DEF Inv, TypeOK, Stages, Orders, vars, exchange, database, sync
<1>2. Underway'
  BY DEF Inv, Underway, Outside, vars, exchange, database, sync
<1>3. Placed'
  BY DEF Inv, TypeOK, Underway, Outside, Placed, vars, exchange, database, sync
<1>4. OpenedMeansProtected'
  BY DEF Inv, TypeOK, OpenedMeansProtected, vars, exchange, database, sync
<1>5. ReadIsFilled'
  BY DEF Inv, TypeOK, Underway, Outside, ReadIsFilled, vars, exchange, database, sync
<1>6. SizeIsFilled'
  BY DEF Inv, TypeOK, SizeIsFilled, vars, exchange, database, sync
<1>7. OneWorking'
  BY DEF Inv, TypeOK, OneWorking, vars, exchange, database, sync
<1>8. SyncHolds'
  BY DEF Inv, TypeOK, Outside, SyncHolds, OpenRows, vars, exchange, database, sync
<1> QED BY <1>1, <1>2, <1>3, <1>4, <1>5, <1>6, <1>7, <1>8 DEF Inv

-----------------------------------------------------------------------------
LEMMA InitInv == Init => Inv
<1> SUFFICES ASSUME Init PROVE Inv
  OBVIOUS
<1>1. TypeOK
  <2>1. 0 \in 0 .. MaxSignals
    BY SignalsAssumption
  <2>2. NoFill \in [qty : Nat, full : BOOLEAN]
    BY DEF NoFill
  <2> QED BY <2>1, <2>2 DEF Init, TypeOK, Orders, Stages
<1>2. Underway /\ Placed /\ OpenedMeansProtected /\ ReadIsFilled /\ SizeIsFilled
  BY DEF Init, Underway, Placed, OpenedMeansProtected, ReadIsFilled, SizeIsFilled, Outside
<1>3. OneWorking /\ SyncHolds
  BY DEF Init, OneWorking, SyncHolds, Outside
<1> QED BY <1>1, <1>2, <1>3 DEF Inv

LEMMA StepInv == ASSUME Inv, [Next]_vars PROVE Inv'
<1>1. CASE \E s \in Signals : FillEntry(s) \/ Withdraw(s) \/ Trigger(s) \/ ExecuteSignal(s)
  BY <1>1, FillEntryKeeps, WithdrawKeeps, TriggerKeeps, ExecuteSignalKeeps
<1>2. CASE Engine
  BY <1>2, SetLeverageKeeps, SubmitEntryKeeps, PollEntryKeeps, CancelEntryKeeps,
     RecordPositionKeeps, SubmitStopKeeps, SubmitTpKeeps, SnapshotProtectionKeeps DEF Engine
<1>3. CASE Expire \/ Crash \/ Restart \/ FetchPositions \/ FetchOrders \/ UNCHANGED vars
  BY <1>3, ExpireKeeps, CrashKeeps, RestartKeeps, FetchPositionsKeeps, FetchOrdersKeeps, StutterKeeps
<1> QED BY <1>1, <1>2, <1>3 DEF Next

LEMMA Invariance == Spec => []Inv
<1>1. Init => Inv
  BY InitInv
<1>2. Inv /\ [Next]_vars => Inv'
  BY StepInv
<1> QED BY <1>1, <1>2, PTL DEF Spec

(* A call that returns normally leaves a recorded position with stop and    *)
(* target; no row claims more than was executed, although the quantity is   *)
(* read before the cancel (_wait_for_entry_fill) and written after it; and  *)
(* without trouble a finished call leaves no working entry.                 *)
THEOREM CallsClean == Spec => []CallsEndClean
<1>1. Inv => CallsEndClean
  BY DEF Inv, OpenedMeansProtected, SizeIsFilled, OneWorking, CallsEndClean
<1> QED BY <1>1, Invariance, PTL

(* A sync that lets trading resume misses nothing but an order that ended   *)
(* between its two requests, and what _validate_recovery_state cannot tell  *)
(* apart because it compares positions by key alone.                        *)
THEOREM ResumeKnows == Spec => []ResumeKnowsPosition
<1>1. Inv => ResumeKnowsPosition
  BY DEF Inv, SyncHolds, ResumeKnowsPosition
<1> QED BY <1>1, Invariance, PTL
=============================================================================
