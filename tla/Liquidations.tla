---------------------------- MODULE Liquidations ----------------------------
(***************************************************************************)
(* The writers of the force_orders table.  run_force_order_collector reads *)
(* back the last days page by page and then inserts what its websocket     *)
(* delivers; backfill_force_orders_coinm and backfill_force_orders_tardis  *)
(* read archives, one at a time.  One step is one commit.  Times are       *)
(* milliseconds of one symbol; the archives lie before anything the live   *)
(* collector stores, and every row of a file is a valid order.  Logging,   *)
(* dry runs, the length of a reconnect delay and request signing are left  *)
(* out.                                                                    *)
(***************************************************************************)
EXTENDS Integers, Sequences, FiniteSets, SequencesExt, Pages

CONSTANTS
    Page,       \* MAX_FORCE_ORDER_LIMIT
    Back,       \* DEFAULT_BOOTSTRAP_DAYS, in ms
    LastMs,     \* bound: the last millisecond
    MaxOrders,  \* bound: orders the exchange prints
    DayMs,      \* the length of a day of the archives
    LastDay,    \* bound: days are 0 .. LastDay
    Coinm,      \* the COIN-M archive: day -> the times in its file; other days answer 403/404
    Tardis,     \* the Tardis files in the order of their names: the times in each
    Chunk,      \* _CHUNK_SIZE
    MaxErrors,  \* days of a COIN-M backfill that may fail
    MaxPasses   \* bound: backfills started

ASSUME PageAssumption == {Page, Chunk, DayMs, MaxErrors} \subseteq Nat \ {0} /\ Back \in Nat

(* A COIN-M file holds orders of its day, and no archive one of a day after *)
(* the last.                                                               *)
ASSUME ArchiveAssumption ==
    /\ LastDay \in Nat /\ DOMAIN Coinm \subseteq 0 .. LastDay
    /\ \A d \in DOMAIN Coinm :
          Coinm[d] \in Seq(Nat) /\ \A k \in DOMAIN Coinm[d] : Coinm[d][k] \div DayMs = d
    /\ Tardis \in Seq(Seq(0 .. (LastDay + 1) * DayMs - 1))

VARIABLES
    ms, printed,                        \* the exchange: the clock and the orders' times
    live, cursor, upTo, seen,           \* the collector: where it stands, bootstrap_force_orders
    socket, stop, kept, missed,         \* what it was sent, stop_requested, rows, what it never got
    pass, file, until, place,           \* a backfill: its source, file, last file, orders read
    watermark, errors, passes,
    rows, cut                           \* how often each archived order is stored; files cut short

liveVars    == <<ms, printed, live, cursor, upTo, seen, socket, stop, kept, missed>>
archiveVars == <<pass, file, until, place, watermark, errors, passes, rows, cut>>

-----------------------------------------------------------------------------
(* The exchange and the live collector.  An order is its place in printed, *)
(* and has one time for REST and websocket; kept are the orders that have a *)
(* row.                                                                    *)

Orders == DOMAIN printed

(* Mutant: nothing is looked up before the insert. *)
InsertAll(batch) == kept' = kept \cup batch

(* insert_force_orders, one after another: a row of the same symbol and     *)
(* millisecond keeps any other out, be it of the same order or not.         *)
InsertForceOrders(batch) ==
    kept' = kept \cup {o \in batch : /\ \A p \in kept : printed[p] # printed[o]
                                    /\ \A p \in batch : p < o => printed[p] # printed[o]}

PassMs ==
    /\ ms < LastMs /\ ms' = ms + 1
    /\ UNCHANGED <<printed, live, cursor, upTo, seen, socket, stop, kept, missed>>

Liquidate ==
    /\ Len(printed) < MaxOrders
    /\ printed' = Append(printed, ms)
    /\ IF live = "stream" THEN socket' = Append(socket, Len(printed) + 1) /\ UNCHANGED missed
                          ELSE missed' = missed \cup {Len(printed) + 1} /\ UNCHANGED socket
    /\ UNCHANGED <<ms, live, cursor, upTo, seen, stop, kept>>

StartCollector ==
    /\ live = "down" /\ ~stop
    /\ live' = "boot"
    /\ cursor' = ms - Back /\ upTo' = ms
    /\ UNCHANGED <<ms, printed, seen, socket, stop, kept, missed>>

Served    == {o \in Orders : cursor <= printed[o] /\ printed[o] <= upTo}
PageOf(S) == FirstOf(Page, S)

(* Mutant: a page that is exactly full counts as the last. *)
FullPageIsLast(batch) == Cardinality(batch) <= Page

LastPage(batch) == Cardinality(batch) < Page
NextCursor(batch) == printed[Max(batch)] + 1

(* The bootstrap is over: what was printed in its range by the last page   *)
(* has been served, so only the rest may still be missing.                 *)
Bootstrapped(n) ==
    /\ live' = "connect"
    /\ missed' = {o \in missed : o > n \/ printed[o] < upTo - Back \/ printed[o] > upTo}

FetchPage ==
    /\ live = "boot" /\ ~stop /\ cursor <= upTo
    /\ LET batch == PageOf(Served)
       IN  /\ InsertForceOrders(batch)
           /\ IF LastPage(batch)
              THEN Bootstrapped(Len(printed)) /\ UNCHANGED cursor
              ELSE cursor' = NextCursor(batch) /\ UNCHANGED <<live, missed>>
    /\ seen' = Len(printed)
    /\ UNCHANGED <<ms, printed, upTo, socket, stop>>

(* The loop's own condition ends a bootstrap whose last page was full. *)
PagesDone ==
    /\ live = "boot" /\ ~stop /\ cursor > upTo
    /\ Bootstrapped(seen)
    /\ UNCHANGED <<ms, printed, cursor, upTo, seen, socket, stop, kept>>

(* websockets.connect succeeds *)
Connect ==
    /\ live = "connect" /\ ~stop
    /\ live' = "stream"
    /\ UNCHANGED <<ms, printed, cursor, upTo, seen, socket, stop, kept, missed>>

Deliver ==
    /\ live = "stream" /\ ~stop /\ socket # <<>>
    /\ InsertForceOrders({Head(socket)})
    /\ socket' = Tail(socket)
    /\ UNCHANGED <<ms, printed, live, cursor, upTo, seen, stop, missed>>

CloseSocket(where) ==
    /\ live' = where
    /\ socket' = <<>> /\ missed' = missed \cup ToSet(socket)
    /\ UNCHANGED <<ms, printed, cursor, upTo, seen, kept>>

(* A lost connection, or an insert that fails (a locked database): the     *)
(* exception leaves _consume, and what the socket still held is lost.      *)
Disconnect == live = "stream" /\ CloseSocket("connect") /\ UNCHANGED stop

(* Signal handlers are installed before the bootstrap. *)
Signal ==
    /\ live # "down" /\ ~stop /\ stop' = TRUE
    /\ UNCHANGED <<ms, printed, live, cursor, upTo, seen, socket, kept, missed>>

(* The event is looked at between pages, before a connection, after a      *)
(* delay and between messages; request_stop closes the socket.             *)
Leave == stop /\ live # "down" /\ CloseSocket("down") /\ stop' = FALSE

(* A crash, or a page that fails after its retries. *)
Die == live # "down" /\ CloseSocket("down") /\ stop' = FALSE

LiveInit ==
    /\ ms = 0 /\ printed = <<>>
    /\ live = "down" /\ cursor = 0 /\ upTo = 0 /\ seen = 0
    /\ socket = <<>> /\ stop = FALSE /\ kept = {} /\ missed = {}

LiveNext ==
    \/ PassMs \/ Liquidate \/ StartCollector \/ FetchPage \/ PagesDone \/ Connect \/ Deliver
    \/ Disconnect \/ Signal \/ Leave \/ Die

-----------------------------------------------------------------------------
(* The backfills.  An archived order is its source, its file and its place *)
(* there.                                                                  *)

ArchiveOf(src)   == IF src = "coinm" THEN Coinm ELSE Tardis
OrdersIn(src, f) == {<<src, f, k>> : k \in DOMAIN ArchiveOf(src)[f]}
Archived  == UNION ({OrdersIn("coinm", f) : f \in DOMAIN Coinm} \cup {OrdersIn("tardis", f) : f \in DOMAIN Tardis})
TimeOf(o) == ArchiveOf(o[1])[o[2]][o[3]]

Stored == {o \in Archived : rows[o] > 0}
(* Mutant: the backfill trusts that it has not run before. *)
DayNeverHasData(d) == d < 0

DayHasData(d) == \E o \in Stored : TimeOf(o) \div DayMs = d
QueryWatermark == IF Stored = {} THEN -1 ELSE Max({TimeOf(o) : o \in Stored})

StartPass(src, first, last, mark) ==
    /\ pass = "none" /\ passes < MaxPasses
    /\ pass' = src /\ file' = first /\ until' = last /\ watermark' = mark
    /\ place' = 0 /\ errors' = 0 /\ passes' = passes + 1
    /\ UNCHANGED <<rows, cut>>

BackfillCoinm  == \E d1, d2 \in 0 .. LastDay : d1 <= d2 /\ StartPass("coinm", d1, d2, -1)
BackfillTardis == Tardis # <<>> /\ StartPass("tardis", 1, Len(Tardis), QueryWatermark)

(* On to the next file, or to the end of the backfill. *)
NextFile ==
    /\ file' = file + 1 /\ place' = 0
    /\ pass' = IF file = until THEN "none" ELSE pass

(* A day that has rows is skipped, one without a file is missing. *)
SkipDay ==
    /\ pass = "coinm" /\ place = 0
    /\ DayHasData(file) \/ file \notin DOMAIN Coinm
    /\ NextFile
    /\ UNCHANGED <<until, watermark, errors, passes, rows, cut>>

FileDone(todo, batch) == todo = batch

(* One commit: the next Chunk orders of the file that lie after the        *)
(* watermark, or those that are left.                                      *)
ReadChunk ==
    /\ pass = "coinm" => file \in DOMAIN Coinm /\ (place > 0 \/ ~DayHasData(file))
    /\ pass # "none"
    /\ LET times == ArchiveOf(pass)[file]
           todo  == {k \in DOMAIN times : k > place /\ times[k] > watermark}
           batch == FirstOf(Chunk, todo)
       IN  /\ rows' = [o \in Archived |->
                          IF \E k \in batch : o = <<pass, file, k>> THEN rows[o] + 1 ELSE rows[o]]
           /\ IF FileDone(todo, batch)
              THEN NextFile
              ELSE place' = Max(batch) /\ UNCHANGED <<pass, file>>
    /\ UNCHANGED <<until, watermark, errors, passes, cut>>

(* A download or a file that fails: COIN-M counts the error and goes on to *)
(* the next day, Tardis gives up.                                          *)
FailFile ==
    /\ pass # "none"
    /\ pass = "coinm" /\ place = 0 => ~DayHasData(file)
    /\ cut' = IF place > 0 THEN cut \cup {<<pass, file>>} ELSE cut
    /\ errors' = errors + 1
    /\ IF pass = "coinm" /\ errors + 1 < MaxErrors
       THEN NextFile
       ELSE pass' = "none" /\ UNCHANGED <<file, place>>
    /\ UNCHANGED <<until, watermark, passes, rows>>

KillPass ==
    /\ pass # "none" /\ pass' = "none"
    /\ cut' = IF place > 0 THEN cut \cup {<<pass, file>>} ELSE cut
    /\ UNCHANGED <<file, until, place, watermark, errors, passes, rows>>

ArchiveInit ==
    /\ pass = "none" /\ file = 0 /\ until = 0 /\ place = 0 /\ watermark = -1
    /\ errors = 0 /\ passes = 0 /\ rows = [o \in Archived |-> 0] /\ cut = {}

ArchiveNext == BackfillCoinm \/ BackfillTardis \/ SkipDay \/ ReadChunk \/ FailFile \/ KillPass

-----------------------------------------------------------------------------
(* Properties *)

(* Past the bootstrap, an order without a row was never delivered - it was  *)
(* printed while no connection was up, or was lost with one, and no restart *)
(* has read it back since - or another order of its millisecond has the     *)
(* row.  Full pages, overlaps and restarts within the window lose nothing   *)
(* else.                                                                   *)
NothingElseLost ==
    live \in {"connect", "stream"} =>
        \A o \in Orders : \/ o \in kept \cup missed \cup ToSet(socket)
                         \/ \E p \in kept \ {o} : printed[p] = printed[o]

(* However often pages and messages overlap, a millisecond has one row. *)
OneRowEach == \A o, p \in kept : printed[o] = printed[p] => o = p

(* However often the backfills are cut off, fail and run again, in any     *)
(* order and over any days, no archived order is stored twice.  And a      *)
(* COIN-M day that is stored in part is being read, or was cut short by an *)
(* error or a crash between two commits - and then stays so, although      *)
(* _day_has_data is said to resume a partial run.                          *)
ArchivedOnce ==
    /\ \A o \in Archived : rows[o] <= 1
    /\ \A d \in DOMAIN Coinm :
           LET got == OrdersIn("coinm", d) \cap Stored
           IN  \/ got \in {{}, OrdersIn("coinm", d)}
               \/ <<"coinm", d>> \in cut
               \/ pass = "coinm" /\ file = d /\ place > 0

(* A liquidation that is delivered is stored once, unless another of its    *)
(* millisecond was stored before it; and no archived one is stored twice.   *)
ForceOrdersKept == NothingElseLost /\ OneRowEach /\ ArchivedOnce
=============================================================================
