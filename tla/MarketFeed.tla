------------------------------ MODULE MarketFeed -----------------------------
(***************************************************************************)
(* How a snapshot gets the aggregate trades of its flow windows: the       *)
(* websocket thread (BinanceFuturesWebsocketClient) fills a buffer while   *)
(* MarketDataAssembler reads it, and pages through the REST history when   *)
(* the buffer has nothing to offer.  Trades go on between any two          *)
(* requests of the assembler and while the thread is not connected.        *)
(*                                                                         *)
(* The exchange numbers its trades one by one; a trade is its number here. *)
(* Time is in ticks, the exchange's clock and the bot's are the same.      *)
(* Volumes, the 60 s force-order window (read from the same buffer code)   *)
(* and stop() are left out: the thread dies with the process.              *)
(***************************************************************************)
EXTENDS Integers, Sequences, FiniteSets, FiniteSetsExt

CONSTANTS
    Long, Short,    \* ticks of the 15 minute and the 60 second window
    PageLimit,      \* agg_trades_limit
    BufferSize,     \* agg_trade_buffer_size
    Ready,          \* flow_coverage_ready, in percent
    Degraded,       \* flow_coverage_degraded, in percent
    MaxClock,       \* bound: ticks
    MaxTrades       \* bound: trades on the exchange

ASSUME WindowsAssumption  == {Long, Short, BufferSize, PageLimit} \subseteq Nat \ {0}
ASSUME CoverageAssumption == {Degraded, Ready} \subseteq Nat \ {0}
ASSUME BoundsAssumption   == {MaxClock, MaxTrades} \subseteq Nat

VARIABLES
    clock,
    tape,       \* the exchange: tape[i] is the time of trade i
    link,       \* the thread: "connecting", "up" or "waiting" for reconnect_seconds
    market,     \* use_market
    due,        \* the trade the connection delivers next
    buffer,     \* _agg_trade_events
    pc,         \* the assembler: "idle", "read", "fetch", "page" or "graded"
    stamp,      \* the snapshot's "now"
    source,     \* "ws" or "rest"
    batch,      \* the last page
    trades,     \* ws_events
    missed      \* history: trades printed while no connection delivered them

thread    == <<link, market, due, buffer>>
assembler == <<pc, stamp, source, batch, trades>>
vars      == <<clock, tape, thread, assembler, missed>>

-----------------------------------------------------------------------------
(* The exchange *)

Tick ==
    /\ clock < MaxClock /\ clock' = clock + 1
    /\ UNCHANGED <<tape, thread, assembler, missed>>

NewTrade ==
    /\ Len(tape) < MaxTrades
    /\ tape' = Append(tape, clock)
    /\ missed' = IF link = "up" THEN missed ELSE missed \cup {Len(tape')}
    /\ UNCHANGED <<clock, thread, assembler>>

Printed(from, to) == {i \in DOMAIN tape : tape[i] \in from .. to}

(* A page of /fapi/v1/aggTrades: the first of them, as many as the limit. *)
Page(S) == {i \in S : Cardinality({j \in S : j <= i}) <= PageLimit}

-----------------------------------------------------------------------------
(* The websocket thread *)

Connect ==
    /\ link = "connecting" /\ link' = "up"
    /\ due' = Len(tape) + 1
    /\ UNCHANGED <<clock, tape, market, buffer, assembler, missed>>

(* deque(maxlen): the oldest makes room. *)
Buffered(i) ==
    LET all == buffer \cup {i}
    IN  IF Cardinality(all) > BufferSize THEN all \ {Min(all)} ELSE all

Deliver ==
    /\ link = "up" /\ due <= Len(tape)
    /\ buffer' = Buffered(due)
    /\ due' = due + 1
    /\ UNCHANGED <<clock, tape, link, market, assembler, missed>>

(* connect, recv or a message that cannot be normalised raises: the first   *)
(* time the legacy endpoint is tried at once, from then on after a pause.   *)
Fail ==
    /\ link # "waiting"
    /\ market' = FALSE
    /\ link' = IF market THEN "connecting" ELSE "waiting"
    /\ missed' = IF link = "up" THEN missed \cup (due .. Len(tape)) ELSE missed
    /\ UNCHANGED <<clock, tape, due, buffer, assembler>>

Wake ==
    /\ link = "waiting" /\ link' = "connecting"
    /\ UNCHANGED <<clock, tape, market, due, buffer, assembler, missed>>

-----------------------------------------------------------------------------
(* build_snapshot *)

(* Six REST requests come first, while time and trades go on. *)
BeginSnapshot ==
    /\ pc = "idle" /\ pc' = "read"
    /\ stamp' = clock
    /\ UNCHANGED <<clock, tape, thread, source, batch, trades, missed>>

(* get_recent_agg_trades goes by its own reading of the clock. *)
Recent == {i \in buffer : tape[i] >= clock - Long}

ReadBuffer ==
    /\ pc = "read"
    /\ trades' = Recent
    /\ IF Recent # {} THEN pc' = "graded" /\ source' = "ws"
                      ELSE pc' = "fetch" /\ source' = "rest"
    /\ UNCHANGED <<clock, tape, thread, stamp, batch, missed>>

FetchWindow ==
    /\ pc = "fetch"
    /\ batch' = Page(Printed(stamp - Long, stamp))
    /\ trades' = batch'
    /\ pc' = IF Cardinality(batch') < PageLimit THEN "graded" ELSE "page"
    /\ UNCHANGED <<clock, tape, thread, stamp, source, missed>>

(* Mutant: the next page begins at the last trade's time, not its number. *)
FirstOfLastTime == Min({i \in DOMAIN tape : tape[i] = tape[Max(batch)]})

(* Mutant: one trade is skipped between two pages. *)
SkipsOne == Max(batch) + 2

NextId == Max(batch) + 1

(* Mutant: a page that reaches past the window is not looked at. *)
WholePagesOnly ==
    /\ pc = "page"
    /\ batch' = Page({i \in DOMAIN tape : i >= NextId})
    /\ trades' = IF \E i \in batch' : tape[i] > stamp THEN trades ELSE trades \cup batch'
    /\ pc' = IF Cardinality(batch') < PageLimit \/ (\E i \in batch' : tape[i] > stamp)
             THEN "graded" ELSE "page"
    /\ UNCHANGED <<clock, tape, thread, stamp, source, missed>>

(* from_id knows no window: what lies outside is dropped (no trade comes    *)
(* twice), and the paging ends with a short page or one past the window.    *)
NextPage ==
    /\ pc = "page"
    /\ batch' = Page({i \in DOMAIN tape : i >= NextId})
    /\ trades' = trades \cup (batch' \cap Printed(stamp - Long, stamp))
    /\ pc' = IF Cardinality(batch') < PageLimit \/ tape[Min(batch')] > stamp
             THEN "graded" ELSE "page"
    /\ UNCHANGED <<clock, tape, thread, stamp, source, missed>>

(* A request that raises ends the snapshot; so does its return. *)
EndSnapshot ==
    /\ pc # "idle" /\ pc' = "idle"
    /\ stamp' = 0 /\ source' = "ws" /\ batch' = {} /\ trades' = {}
    /\ UNCHANGED <<clock, tape, thread, missed>>

-----------------------------------------------------------------------------
(* The quality of a flow window *)

(* filter_events_by_window has no upper end. *)
Window(length) == {i \in trades : tape[i] >= stamp - length}

CoveredTicks(length) ==
    LET times == {tape[i] : i \in Window(length)}
    IN  Max({0, Min({Max(times), stamp}) - Min(times)})

Clipped(length) ==
    /\ source = "rest" /\ Cardinality(trades) >= PageLimit
    /\ \A i \in Window(length) : tape[i] > stamp - length

Grade(length) ==
    IF Window(length) = {} THEN "unavailable"
    ELSE IF ~Clipped(length) /\ 100 * CoveredTicks(length) >= Ready * length THEN "ready"
    ELSE IF Clipped(length) \/ 100 * CoveredTicks(length) >= Degraded * length THEN "degraded"
    ELSE "unavailable"

-----------------------------------------------------------------------------
Init ==
    /\ clock = 0 /\ tape = <<>>
    /\ link = "connecting" /\ market = TRUE /\ due = 1 /\ buffer = {}
    /\ pc = "idle" /\ stamp = 0 /\ source = "ws" /\ batch = {} /\ trades = {}
    /\ missed = {}

Assembly == ReadBuffer \/ FetchWindow \/ NextPage

Next ==
    \/ Tick \/ NewTrade \/ Connect \/ Deliver \/ Fail \/ Wake
    \/ BeginSnapshot \/ Assembly \/ EndSnapshot

Spec == Init /\ [][Next]_vars

(* The assembler's code goes on, request by request. *)
LiveSpec == Spec /\ WF_vars(Assembly)

-----------------------------------------------------------------------------
(* Properties *)

TypeOK ==
    /\ clock \in 0 .. MaxClock /\ tape \in Seq(0 .. MaxClock)
    /\ link \in {"connecting", "up", "waiting"} /\ market \in BOOLEAN
    /\ due \in Nat /\ {buffer, batch, trades, missed} \subseteq SUBSET DOMAIN tape
    /\ pc \in {"idle", "read", "fetch", "page", "graded"}
    /\ stamp \in 0 .. clock /\ source \in {"ws", "rest"}

(* A window fetched by REST holds every trade of its time and no other,     *)
(* however many pages it takes and however many trades come in meanwhile.   *)
(* (Trades of the snapshot's own tick may still be printed after the page.) *)
RestWindowExact ==
    pc = "graded" /\ source = "rest" =>
        /\ Printed(stamp - Long, stamp - 1) \subseteq trades
        /\ trades \subseteq Printed(stamp - Long, stamp)

(* A window graded "ready" (flow_window_complete) has no hole: whatever was  *)
(* printed between its first trade and its last is in it, over buffer       *)
(* overflow, reconnects and paging; except trades that were printed while   *)
(* no connection was up, which the grade does not see.                      *)
ReadyIsGapless ==
    pc = "graded" =>
        \A length \in {Long, Short} : Grade(length) = "ready" =>
            LET window == Window(length)
            IN  Min(window) .. Max(window) \subseteq window \cup missed

(* Loading the trades ends, also while the exchange prints on. *)
LoadingEnds == (pc \in {"read", "fetch", "page"}) ~> (pc \in {"graded", "idle"})
=============================================================================
