--------------------------- MODULE MarketFeedProofs --------------------------
(***************************************************************************)
(* Proofs about MarketFeed, for any windows, page limit, buffer size and   *)
(* coverage: its types, that a window fetched by REST is exact, that paging *)
(* moves on, and that a window graded ready has no hole but the feed's own. *)
(***************************************************************************)
EXTENDS MarketFeed, FiniteSetTheorems, WellFoundedInduction, TLAPS

(* Numbers follow the exchange's time. *)
TapeInOrder ==
    \A i \in DOMAIN tape : /\ tape[i] <= clock
                           /\ \A j \in DOMAIN tape : i <= j => tape[i] <= tape[j]

(* Between two pages, everything up to the last trade of the last page that *)
(* lies in the window has been taken.                                       *)
PagesComplete ==
    pc = "page" => /\ batch # {}
                   /\ trades = {i \in Printed(stamp - Long, stamp) : i <= Max(batch)}

(* What the buffer lacks after one of its trades was missed or is still due. *)
BufferGapless ==
    /\ link = "up" => due \in 1 .. Len(tape) + 1
    /\ \A i \in buffer : /\ link = "up" => i < due
                         /\ \A j \in DOMAIN tape : i <= j =>
                                j \in buffer \cup missed \/ (link = "up" /\ j >= due)

(* Between two trades of a finished window all trades are in it, but for    *)
(* those the feed missed.                                                   *)
TradesGapless ==
    pc = "graded" =>
        \A i, j \in trades : i .. j \subseteq trades \cup missed

Inv == /\ TypeOK /\ TapeInOrder /\ PagesComplete /\ RestWindowExact
       /\ BufferGapless /\ TradesGapless

-----------------------------------------------------------------------------
(* Least and greatest elements, and pages *)

LEMMA LeastNat ==
    ASSUME NEW S \in SUBSET Nat, S # {}
    PROVE  \E x \in S : \A y \in S : x <= y
<1>1. PICK x \in S : \A y \in S : ~(<<y, x>> \in OpToRel(<, Nat))
  BY NatLessThanWellFounded, WFMin, Zenon
<1>2. \A y \in S : ~(y < x)
  BY <1>1 DEF OpToRel
<1> QED BY <1>2

LEMMA MinIsLeast ==
    ASSUME NEW S \in SUBSET Nat, S # {}
    PROVE  Min(S) \in S /\ \A y \in S : Min(S) <= y
  BY LeastNat DEF Min

LEMMA MaxIsGreatest ==
    ASSUME NEW n \in Nat, NEW S \in SUBSET (0 .. n), S # {}
    PROVE  Max(S) \in S /\ \A y \in S : Max(S) >= y
<1> DEFINE T == {m \in Nat : \E x \in S : m = n - x}
<1>1. PICK x \in S : TRUE
  OBVIOUS
<1>2. n - x \in T
  OBVIOUS
<1>3. PICK m \in T : \A k \in T : m <= k
  <2>1. T \in SUBSET Nat /\ T # {}
    BY <1>2
  <2> QED BY <2>1, LeastNat
<1>4. PICK g \in S : m = n - g
  BY <1>3
<1>5. ASSUME NEW y \in S PROVE g >= y
  <2>1. n - y \in T
    OBVIOUS
  <2>2. m <= n - y
    BY <2>1, <1>3
  <2> QED BY <2>2, <1>4
<1> QED BY <1>5 DEF Max

(* A page is the beginning of what was asked for, and all of it if short. *)
LEMMA PageIsPrefix ==
    ASSUME NEW n \in Nat, NEW S \in SUBSET (1 .. n)
    PROVE  /\ Page(S) \subseteq S
           /\ \A i \in Page(S) : \A j \in S : j <= i => j \in Page(S)
           /\ Cardinality(Page(S)) < PageLimit => Page(S) = S
<1> DEFINE UpTo(i) == {j \in S : j <= i}
<1>1. IsFiniteSet(S)
  <2>1. IsFiniteSet(1 .. n)
    BY FS_Interval
  <2> QED BY <2>1, FS_Subset
<1>2. \A i \in S : IsFiniteSet(UpTo(i)) /\ Cardinality(UpTo(i)) \in Nat
  <2>1. \A i \in S : UpTo(i) \in SUBSET S
    OBVIOUS
  <2> QED BY <1>1, <2>1, FS_Subset, FS_CardinalityType
<1>3. PageLimit \in Nat
  BY WindowsAssumption
<1>6. \A i \in S : i \in Nat
  OBVIOUS
<1>4. ASSUME NEW i \in Page(S), NEW j \in S, j <= i PROVE j \in Page(S)
  <2>1. i \in S /\ Cardinality(UpTo(i)) <= PageLimit
    BY <1>4 DEF Page
  <2>2. UpTo(j) \in SUBSET UpTo(i)
    <3>1. ASSUME NEW k \in S, k <= j PROVE k <= i
      BY <1>6, <1>4, <2>1, <3>1
    <3> QED BY <3>1
  <2>3. Cardinality(UpTo(j)) <= Cardinality(UpTo(i))
    BY <1>2, <2>1, <2>2, FS_Subset
  <2>4. Cardinality(UpTo(j)) <= PageLimit
    BY <1>2, <1>3, <2>1, <2>3
  <2> QED BY <2>4 DEF Page
<1>5. ASSUME Cardinality(Page(S)) < PageLimit, Page(S) # S PROVE FALSE
  <2> DEFINE Rest == S \ Page(S)
  <2>1. Rest \in SUBSET Nat /\ Rest # {}
    <3>1. Page(S) \subseteq S
      BY DEF Page
    <3> QED BY <1>6, <1>5, <3>1
  <2>2. PICK i \in Rest : \A j \in Rest : i <= j
    BY <2>1, LeastNat
  <2>3. i \in S /\ ~(Cardinality(UpTo(i)) <= PageLimit)
    BY <2>2 DEF Page
  <2>4. UpTo(i) \in SUBSET (Page(S) \cup {i})
    <3>1. ASSUME NEW j \in S, j <= i, j # i PROVE j \in Page(S)
      <4>1. ~(i <= j)
        BY <3>1, <2>3
      <4> QED BY <4>1, <2>2
    <3> QED BY <3>1
  <2>5. IsFiniteSet(Page(S)) /\ Cardinality(Page(S)) \in Nat
    <3>1. Page(S) \in SUBSET S
      BY DEF Page
    <3> QED BY <1>1, <3>1, FS_Subset, FS_CardinalityType
  <2>6. /\ IsFiniteSet(Page(S) \cup {i})
        /\ Cardinality(Page(S) \cup {i}) <= Cardinality(Page(S)) + 1
    <3> DEFINE P == Page(S)
    <3>1. IsFiniteSet(P) /\ Cardinality(P) \in Nat
      BY <2>5
    <3> HIDE DEF P
    <3>2. /\ IsFiniteSet(P \cup {i})
          /\ Cardinality(P \cup {i}) = IF i \in P THEN Cardinality(P) ELSE Cardinality(P) + 1
      BY <3>1, FS_AddElement
    <3>3. Cardinality(P \cup {i}) <= Cardinality(P) + 1
      BY <3>1, <3>2
    <3> QED BY <3>2, <3>3 DEF P
  <2>7. Cardinality(UpTo(i)) <= Cardinality(Page(S) \cup {i})
    BY <2>4, <2>6, FS_Subset
  <2>8. Cardinality(Page(S) \cup {i}) \in Nat
    BY <2>6, FS_CardinalityType
  <2> QED BY <1>2, <1>3, <1>5, <2>3, <2>5, <2>6, <2>7, <2>8
<1> QED BY <1>4, <1>5 DEF Page

(* A page that is not short has a last trade. *)
LEMMA FullPage ==
    ASSUME NEW n \in Nat, NEW S \in SUBSET (1 .. n), ~(Cardinality(Page(S)) < PageLimit)
    PROVE  Page(S) # {}
<1>1. PageLimit > 0 /\ PageLimit \in Nat
  BY WindowsAssumption
<1> QED BY <1>1, FS_EmptySet

-----------------------------------------------------------------------------
(* The tape *)

LEMMA TapeFacts ==
    ASSUME TypeOK
    PROVE  /\ Len(tape) \in Nat /\ DOMAIN tape = 1 .. Len(tape)
           /\ \A i \in DOMAIN tape : tape[i] \in Nat
           /\ clock \in Nat /\ stamp \in Nat /\ stamp <= clock
  BY BoundsAssumption DEF TypeOK

LEMMA InitInv == Init => Inv
<1> SUFFICES ASSUME Init PROVE Inv
  OBVIOUS
<1>1. DOMAIN tape = {} /\ Len(tape) = 0
  BY DEF Init
<1>2. TypeOK
  BY <1>1, BoundsAssumption DEF Init, TypeOK
<1> QED BY <1>1, <1>2 DEF Init, Inv, TapeInOrder, PagesComplete, RestWindowExact, BufferGapless,
                          TradesGapless

(* A new trade is the last one, and not older than any snapshot. *)
LEMMA NewTradeStep == ASSUME Inv, NewTrade PROVE Inv'
<1> DEFINE n == Len(tape)
<1>1. n \in Nat /\ DOMAIN tape = 1 .. n /\ stamp \in Nat /\ clock \in Nat /\ stamp <= clock
  BY TapeFacts DEF Inv
<1>2. /\ tape' \in Seq(0 .. MaxClock) /\ Len(tape') = n + 1 /\ DOMAIN tape' = 1 .. n + 1
      /\ tape'[n + 1] = clock /\ \A i \in 1 .. n : tape'[i] = tape[i]
  BY <1>1 DEF Inv, TypeOK, NewTrade
<1> HIDE DEF n
<1>3. UNCHANGED <<clock, thread, assembler>>
  BY DEF NewTrade
<1>4. TypeOK'
  <2>1. missed' \subseteq 1 .. n + 1
    BY <1>1, <1>2 DEF Inv, TypeOK, NewTrade
  <2> QED BY <1>1, <1>2, <1>3, <2>1 DEF Inv, TypeOK, thread, assembler
<1>5. TapeInOrder'
  BY <1>1, <1>2, <1>3 DEF Inv, TapeInOrder
<1>6. \A a, b \in Int : Printed(a, b)' \cap (1 .. n) = Printed(a, b)
  BY <1>1, <1>2 DEF Printed
<1>7. PagesComplete'
  <2> SUFFICES ASSUME pc = "page" PROVE PagesComplete'
    BY <1>3 DEF PagesComplete, assembler
  <2>1. batch # {} /\ trades = {i \in Printed(stamp - Long, stamp) : i <= Max(batch)}
    BY DEF Inv, PagesComplete
  <2>2. Max(batch) \in 1 .. n
    <3>1. batch \in SUBSET (0 .. n) /\ batch \subseteq 1 .. n
      BY <1>1 DEF Inv, TypeOK
    <3> QED BY <1>1, <2>1, <3>1, MaxIsGreatest
  <2>3. {i \in Printed(stamp - Long, stamp)' : i <= Max(batch)} =
        {i \in Printed(stamp - Long, stamp) : i <= Max(batch)}
    <3>1. \A i \in Printed(stamp - Long, stamp)' : i \in 1 .. n + 1
      BY <1>2 DEF Printed
    <3>2. Printed(stamp - Long, stamp) \subseteq 1 .. n
      BY <1>1 DEF Printed
    <3>3. stamp - Long \in Int /\ stamp' = stamp
      BY <1>1, <1>3, WindowsAssumption DEF assembler
    <3>4. Printed(stamp - Long, stamp)' \cap (1 .. n) = Printed(stamp - Long, stamp)
      BY <1>1, <1>6, <3>3
    <3>5. \A i \in 1 .. n + 1 : i <= Max(batch) => i \in 1 .. n
      BY <1>1, <2>2
    <3> QED BY <3>1, <3>2, <3>4, <3>5
  <2> QED BY <1>3, <2>1, <2>3 DEF PagesComplete, assembler, Inv
<1>8. RestWindowExact'
  <2> SUFFICES ASSUME pc = "graded", source = "rest"
               PROVE  /\ Printed(stamp - Long, stamp - 1)' \subseteq trades
                      /\ trades \subseteq Printed(stamp - Long, stamp)'
    BY <1>3 DEF RestWindowExact, assembler
  <2>1. /\ Printed(stamp - Long, stamp - 1) \subseteq trades
        /\ trades \subseteq Printed(stamp - Long, stamp)
    BY DEF Inv, RestWindowExact
  <2>2. stamp - Long \in Int /\ stamp - 1 \in Int /\ stamp' = stamp
    BY <1>1, <1>3, WindowsAssumption DEF assembler
  <2>3. Printed(stamp - Long, stamp - 1)' \subseteq 1 .. n
    <3>1. ~(tape'[n + 1] <= stamp' - 1)
      BY <1>1, <1>2, <2>2
    <3>2. n + 1 \notin Printed(stamp - Long, stamp - 1)'
      BY <1>1, <2>2, <3>1, WindowsAssumption DEF Printed
    <3>3. Printed(stamp - Long, stamp - 1)' \subseteq 1 .. n + 1
      BY <1>2 DEF Printed
    <3> QED BY <1>1, <3>2, <3>3
  <2>4. Printed(stamp - Long, stamp - 1)' \cap (1 .. n) = Printed(stamp - Long, stamp - 1)
    BY <1>6, <2>2
  <2>5. Printed(stamp - Long, stamp)' \cap (1 .. n) = Printed(stamp - Long, stamp)
    BY <1>1, <1>6, <2>2
  <2> QED BY <2>1, <2>3, <2>4, <2>5
<1>9. BufferGapless'
  BY <1>1, <1>2, <1>3 DEF Inv, TypeOK, BufferGapless, NewTrade, thread
<1>10. TradesGapless'
  BY <1>3 DEF Inv, TradesGapless, NewTrade, assembler
<1> QED BY <1>4, <1>5, <1>7, <1>8, <1>9, <1>10 DEF Inv

-----------------------------------------------------------------------------
(* The thread *)

LEMMA TickStep == ASSUME Inv, Tick PROVE Inv'
<1>1. UNCHANGED <<tape, thread, assembler, missed>> /\ clock' = clock + 1 /\ clock < MaxClock
  BY DEF Tick
<1>2. clock \in Nat /\ MaxClock \in Nat /\ clock' \in 0 .. MaxClock
  BY <1>1, TapeFacts, BoundsAssumption DEF Inv
<1>3. TypeOK'
  BY <1>1, <1>2 DEF Inv, TypeOK, thread, assembler
<1>4. TapeInOrder'
  BY <1>1, <1>2, TapeFacts DEF Inv, TapeInOrder
<1> QED BY <1>1, <1>3, <1>4 DEF Inv, PagesComplete, RestWindowExact, BufferGapless, TradesGapless,
                               Printed, thread, assembler

(* What the thread does is nothing to the assembler's trades, as long as    *)
(* missed does not shrink.                                                  *)
LEMMA ThreadFrame ==
    ASSUME Inv, UNCHANGED <<clock, tape, assembler>>, missed \subseteq missed'
    PROVE  TapeInOrder' /\ PagesComplete' /\ RestWindowExact' /\ TradesGapless'
<1>1. TapeInOrder' /\ PagesComplete' /\ RestWindowExact'
  BY DEF Inv, TapeInOrder, PagesComplete, RestWindowExact, Printed, assembler
<1>2. TradesGapless'
  BY DEF Inv, TradesGapless, assembler
<1> QED BY <1>1, <1>2

LEMMA ConnectStep == ASSUME Inv, Connect PROVE Inv'
<1>1. TypeOK'
  BY TapeFacts DEF Inv, TypeOK, Connect, assembler
<1>2. BufferGapless'
  BY TapeFacts DEF Inv, TypeOK, BufferGapless, Connect
<1> QED BY <1>1, <1>2, ThreadFrame DEF Connect, Inv

LEMMA WakeStep == ASSUME Inv, Wake PROVE Inv'
<1>1. TypeOK'
  BY DEF Inv, TypeOK, Wake, assembler
<1>2. BufferGapless'
  BY DEF Inv, BufferGapless, Wake
<1> QED BY <1>1, <1>2, ThreadFrame DEF Wake, Inv

(* What was still due when the connection broke is missed from then on. *)
LEMMA FailStep == ASSUME Inv, Fail PROVE Inv'
<1>1. TypeOK'
  <2>1. missed' \subseteq DOMAIN tape
    BY TapeFacts DEF Inv, TypeOK, BufferGapless, Fail
  <2>2. market' \in BOOLEAN /\ link' \in {"connecting", "up", "waiting"}
    BY DEF Fail
  <2> QED BY <2>1, <2>2 DEF Inv, TypeOK, Fail, assembler
<1>2. BufferGapless'
  <2>1. link' # "up" /\ buffer' = buffer /\ tape' = tape
    BY DEF Fail
  <2> SUFFICES ASSUME NEW i \in buffer, NEW j \in DOMAIN tape, i <= j
               PROVE  j \in buffer \cup missed'
    BY <2>1 DEF BufferGapless
  <2>2. j \in buffer \cup missed \/ (link = "up" /\ j >= due)
    BY DEF Inv, BufferGapless
  <2>3. CASE j \in buffer \cup missed
    BY <2>3 DEF Fail
  <2>4. CASE link = "up" /\ j >= due
    BY <2>4, TapeFacts DEF Inv, TypeOK, Fail
  <2> QED BY <2>2, <2>3, <2>4
<1>3. missed \subseteq missed'
  BY DEF Fail
<1> QED BY <1>1, <1>2, <1>3, ThreadFrame DEF Fail, Inv

(* The buffer forgets its oldest trade only. *)
LEMMA DeliverStep == ASSUME Inv, Deliver PROVE Inv'
<1> DEFINE all == buffer \cup {due}
<1>1. /\ link = "up" /\ link' = "up" /\ due' = due + 1
      /\ buffer' = Buffered(due) /\ UNCHANGED <<clock, tape, market, assembler, missed>>
  BY DEF Deliver
<1>2. due \in DOMAIN tape /\ due \in Nat
  BY TapeFacts DEF Inv, TypeOK, BufferGapless, Deliver
<1>3. all \in SUBSET DOMAIN tape /\ all \in SUBSET Nat /\ all # {}
  BY <1>2, TapeFacts DEF Inv, TypeOK
<1>4. buffer' = all \/ buffer' = all \ {Min(all)}
  BY <1>1 DEF Buffered
<1>5. Min(all) \in all /\ \A y \in all : Min(all) <= y
  BY <1>3, MinIsLeast
<1>6. TypeOK'
  <2>1. buffer' \subseteq DOMAIN tape
    BY <1>3, <1>4
  <2> QED BY <1>1, <1>2, <2>1 DEF Inv, TypeOK, assembler
<1>7. BufferGapless'
  <2>1. due' \in 1 .. Len(tape') + 1
    BY <1>1, <1>2, TapeFacts DEF Inv
  <2>2. ASSUME NEW i \in buffer', NEW j \in DOMAIN tape, i <= j
        PROVE  i < due' /\ (j \in buffer' \cup missed \/ j >= due')
    <3>1. i \in Nat /\ j \in Nat /\ i \in all
      BY <1>3, <1>4, TapeFacts DEF Inv
    <3>2. i < due'
      BY <1>1, <1>2, <3>1 DEF Inv, BufferGapless
    <3>3. j \in all \cup missed \/ j >= due'
      <4>1. CASE i = due
        BY <4>1, <1>1, <1>2, <2>2, <3>1
      <4>2. CASE i \in buffer
        <5>1. j \in buffer \cup missed \/ j >= due
          BY <4>2, <1>1, <2>2 DEF Inv, BufferGapless
        <5> QED BY <5>1, <1>1, <1>2, <3>1
      <4> QED BY <3>1, <4>1, <4>2
    <3>4. j \in all => j \in buffer'
      <4>1. CASE buffer' = all
        BY <4>1
      <4>2. CASE buffer' = all \ {Min(all)}
        <5> DEFINE m == Min(all)
        <5>1. m \in Nat /\ m <= i /\ i # m
          BY <1>3, <1>5, <2>2, <3>1, <4>2
        <5> HIDE DEF m
        <5>2. j # m
          BY <5>1, <2>2, <3>1
        <5> QED BY <5>2, <4>2 DEF m
      <4> QED BY <1>4, <4>1, <4>2
    <3> QED BY <3>2, <3>3, <3>4
  <2>3. \A i \in buffer' : i \in DOMAIN tape
    BY <1>3, <1>4
  <2>4. \A i \in buffer' : i < due'
    <3>1. \A i \in buffer' : i <= i
      BY <1>3, <1>4
    <3> QED BY <2>2, <2>3, <3>1
  <2> QED BY <1>1, <2>1, <2>2, <2>4 DEF BufferGapless
<1> QED BY <1>1, <1>6, <1>7, ThreadFrame DEF Inv

-----------------------------------------------------------------------------
(* The assembler *)

LEMMA BeginSnapshotStep == ASSUME Inv, BeginSnapshot PROVE Inv'
<1>1. TypeOK'
  BY TapeFacts DEF Inv, TypeOK, BeginSnapshot, thread
<1> QED BY <1>1 DEF Inv, BeginSnapshot, TapeInOrder, PagesComplete, RestWindowExact, BufferGapless,
                    TradesGapless, thread

LEMMA EndSnapshotStep == ASSUME Inv, EndSnapshot PROVE Inv'
<1>1. TypeOK'
  BY TapeFacts DEF Inv, TypeOK, EndSnapshot, thread
<1> QED BY <1>1 DEF Inv, EndSnapshot, TapeInOrder, PagesComplete, RestWindowExact, BufferGapless,
                    TradesGapless, thread

(* The end of the buffer that is recent enough is a stretch of the tape. *)
LEMMA ReadBufferStep == ASSUME Inv, ReadBuffer PROVE Inv'
<1>1. /\ trades' = Recent /\ UNCHANGED <<clock, tape, thread, stamp, batch, missed>>
      /\ pc' \in {"graded", "fetch"} /\ source' \in {"ws", "rest"}
      /\ pc' = "graded" => source' = "ws"
  BY DEF ReadBuffer
<1>2. TypeOK'
  BY <1>1 DEF Inv, TypeOK, Recent, thread
<1>3. ASSUME NEW i \in Recent, NEW j \in Recent, NEW k \in i .. j
      PROVE  k \in Recent \cup missed
  <2>1. /\ i \in buffer /\ j \in buffer /\ tape[i] >= clock - Long
        /\ i \in DOMAIN tape /\ j \in DOMAIN tape
    BY DEF Recent, Inv, TypeOK
  <2>2. k \in DOMAIN tape /\ i <= k /\ k <= j
    BY <2>1, TapeFacts DEF Inv
  <2>3. tape[k] >= clock - Long
    <3>1. tape[i] <= tape[k]
      BY <2>1, <2>2 DEF Inv, TapeInOrder
    <3> QED BY <2>1, <2>2, <3>1, TapeFacts, WindowsAssumption DEF Inv
  <2>4. k \in buffer \cup missed \/ (link = "up" /\ k >= due)
    BY <2>1, <2>2 DEF Inv, BufferGapless
  <2>5. ~(link = "up" /\ k >= due)
    BY <2>1, <2>2, TapeFacts DEF Inv, TypeOK, BufferGapless
  <2> QED BY <2>3, <2>4, <2>5 DEF Recent
<1>4. TradesGapless'
  BY <1>1, <1>3 DEF TradesGapless
<1> QED BY <1>1, <1>2, <1>4 DEF Inv, TapeInOrder, PagesComplete, RestWindowExact, BufferGapless,
                               thread

(* Trades that are all of a window are exact and without a hole. *)
LEMMA WholeWindow ==
    ASSUME Inv, UNCHANGED <<clock, tape, thread, stamp, missed>>,
           pc' = "graded" => trades' = Printed(stamp - Long, stamp)
    PROVE  TapeInOrder' /\ RestWindowExact' /\ BufferGapless' /\ TradesGapless'
<1> DEFINE W == Printed(stamp - Long, stamp)
<1>1. TapeInOrder' /\ BufferGapless'
  BY DEF Inv, TapeInOrder, BufferGapless, thread
<1>2. stamp \in Nat /\ stamp - Long \in Int
  BY TapeFacts, WindowsAssumption DEF Inv
<1>3. RestWindowExact'
  <2>1. Printed(stamp - Long, stamp - 1) \subseteq W
    BY <1>2 DEF Printed
  <2>2. /\ Printed(stamp - Long, stamp - 1)' = Printed(stamp - Long, stamp - 1)
        /\ Printed(stamp - Long, stamp)' = W
    BY DEF Printed
  <2> QED BY <2>1, <2>2 DEF RestWindowExact
<1>4. ASSUME NEW i \in W, NEW j \in W, NEW k \in i .. j PROVE k \in W
  <2>1. /\ i \in DOMAIN tape /\ j \in DOMAIN tape /\ tape[i] \in Nat /\ tape[j] \in Nat
        /\ stamp - Long <= tape[i] /\ tape[j] <= stamp
    BY <1>2, TapeFacts DEF Printed, Inv
  <2>2. k \in DOMAIN tape /\ i <= k /\ k <= j /\ tape[k] \in Nat
    BY <2>1, TapeFacts DEF Inv
  <2>3. tape[i] <= tape[k] /\ tape[k] <= tape[j]
    BY <2>1, <2>2 DEF Inv, TapeInOrder
  <2>4. tape[k] \in stamp - Long .. stamp
    BY <1>2, <2>1, <2>2, <2>3
  <2> QED BY <2>2, <2>4 DEF Printed
<1>5. TradesGapless'
  BY <1>4 DEF TradesGapless
<1> QED BY <1>1, <1>3, <1>5

LEMMA FetchWindowStep == ASSUME Inv, FetchWindow PROVE Inv'
<1> DEFINE W == Printed(stamp - Long, stamp)
           n == Len(tape)
<1>1. /\ batch' = Page(W) /\ trades' = Page(W)
      /\ UNCHANGED <<clock, tape, thread, stamp, source, missed>>
      /\ pc' = IF Cardinality(Page(W)) < PageLimit THEN "graded" ELSE "page"
  BY DEF FetchWindow
<1>2. n \in Nat /\ W \in SUBSET (1 .. n) /\ DOMAIN tape = 1 .. n
  BY TapeFacts DEF Inv, Printed
<1>3. /\ Page(W) \subseteq W
      /\ \A i \in Page(W) : \A j \in W : j <= i => j \in Page(W)
      /\ Cardinality(Page(W)) < PageLimit => Page(W) = W
  BY <1>2, PageIsPrefix
<1>4. TypeOK'
  <2>1. batch' \subseteq DOMAIN tape' /\ trades' \subseteq DOMAIN tape'
    BY <1>1, <1>2, <1>3
  <2>2. pc' \in {"graded", "page"}
    BY <1>1
  <2> QED BY <1>1, <2>1, <2>2 DEF Inv, TypeOK, thread
<1>5. PagesComplete'
  <2> SUFFICES ASSUME pc' = "page"
               PROVE  /\ Page(W) # {}
                      /\ Page(W) = {i \in W : i <= Max(Page(W))}
    BY <1>1 DEF PagesComplete, Printed
  <2>1. Page(W) # {}
    BY <1>1, <1>2, FullPage
  <2>2. Max(Page(W)) \in Page(W) /\ \A y \in Page(W) : Max(Page(W)) >= y
    <3>1. Page(W) \in SUBSET (0 .. n)
      BY <1>2, <1>3
    <3> QED BY <1>2, <2>1, <3>1, MaxIsGreatest
  <2> DEFINE P == Page(W)
  <2> HIDE DEF W
  <2>3. P \subseteq {i \in W : i <= Max(P)}
    BY <1>2, <1>3, <2>2
  <2>4. {i \in W : i <= Max(P)} \subseteq P
    BY <1>3, <2>2
  <2> QED BY <2>1, <2>3, <2>4
<1>6. pc' = "graded" => trades' = W
  BY <1>1, <1>3
<1> QED BY <1>1, <1>4, <1>5, <1>6, WholeWindow DEF Inv

(* The pages go on from number to number; what ends them leaves nothing of  *)
(* the window behind.                                                       *)
LEMMA NextPageStep == ASSUME Inv, NextPage PROVE Inv'
<1> DEFINE W == Printed(stamp - Long, stamp)
           n == Len(tape)
           m == Max(batch)
           S == {i \in DOMAIN tape : i >= NextId}
           B == Page(S)
<1>1. /\ batch' = B /\ trades' = trades \cup (B \cap W) /\ pc = "page"
      /\ UNCHANGED <<clock, tape, thread, stamp, source, missed>>
      /\ pc' = IF Cardinality(B) < PageLimit \/ tape[Min(B)] > stamp THEN "graded" ELSE "page"
  BY DEF NextPage
<1>2. n \in Nat /\ DOMAIN tape = 1 .. n /\ W \in SUBSET (1 .. n) /\ S \in SUBSET (1 .. n)
  BY TapeFacts DEF Inv, Printed
<1>3. m \in 1 .. n /\ trades = {i \in W : i <= m}
  <2>1. batch # {} /\ trades = {i \in W : i <= m}
    BY <1>1 DEF Inv, PagesComplete
  <2>2. batch \in SUBSET (1 .. n) /\ batch \in SUBSET (0 .. n)
    BY <1>2 DEF Inv, TypeOK
  <2> QED BY <1>2, <2>1, <2>2, MaxIsGreatest
<1>4. S = {i \in 1 .. n : i > m}
  BY <1>2, <1>3 DEF NextId
<1>5. /\ B \subseteq S
      /\ \A i \in B : \A j \in S : j <= i => j \in B
      /\ Cardinality(B) < PageLimit => B = S
  BY <1>2, PageIsPrefix
<1>6. TypeOK'
  <2>1. batch' \subseteq DOMAIN tape' /\ trades' \subseteq DOMAIN tape'
    BY <1>1, <1>2, <1>3, <1>5
  <2>2. pc' \in {"graded", "page"}
    BY <1>1
  <2> QED BY <1>1, <2>1, <2>2 DEF Inv, TypeOK, thread
<1>7. ~(Cardinality(B) < PageLimit) => B # {}
  BY <1>2, FullPage
<1>8. PagesComplete'
  <2> SUFFICES ASSUME pc' = "page"
               PROVE  B # {} /\ trades' = {i \in W : i <= Max(B)}
    BY <1>1 DEF PagesComplete, Printed
  <2>1. B # {}
    BY <1>1, <1>7
  <2>2. Max(B) \in B /\ \A y \in B : Max(B) >= y
    <3>1. B \in SUBSET (0 .. n)
      BY <1>2, <1>5
    <3> QED BY <1>2, <2>1, <3>1, MaxIsGreatest
  <2> HIDE DEF W, S, B, m, n
  <2>3. Max(B) \in 1 .. n /\ Max(B) > m
    BY <1>4, <1>5, <2>2
  <2>4. ASSUME NEW i \in trades' PROVE i \in W /\ i <= Max(B)
    <3>1. CASE i \in trades
      BY <3>1, <1>2, <1>3, <2>3
    <3>2. CASE i \in B /\ i \in W
      <4>1. i \in Nat /\ Max(B) >= i
        BY <3>2, <1>2, <2>2
      <4> QED BY <4>1, <3>2, <2>3, <1>2
    <3> QED BY <1>1, <3>1, <3>2
  <2>5. ASSUME NEW i \in W, i <= Max(B) PROVE i \in trades'
    <3>1. CASE i <= m
      BY <3>1, <1>1, <1>3
    <3>2. CASE i > m
      <4>1. i \in S
        BY <3>2, <1>2, <1>4
      <4>2. i \in B
        BY <4>1, <1>5, <2>2, <2>5
      <4> QED BY <4>2, <1>1
    <3>3. i \in Nat /\ m \in Nat
      BY <1>2, <1>3
    <3> QED BY <3>1, <3>2, <3>3
  <2> QED BY <2>1, <2>4, <2>5
<1>9. pc' = "graded" => trades' = W
  <2> SUFFICES ASSUME pc' = "graded" PROVE trades' = W
    OBVIOUS
  <2>1. CASE Cardinality(B) < PageLimit
    <3>1. B = S
      BY <2>1, <1>5
    <3> HIDE DEF W, S, B, m, n
    <3> QED BY <3>1, <1>1, <1>2, <1>3, <1>4
  <2>2. CASE ~(Cardinality(B) < PageLimit) /\ tape[Min(B)] > stamp
    <3>1. B # {} /\ B \in SUBSET Nat
      <4>1. B # {}
        BY <2>2, <1>7
      <4> HIDE DEF S, B, n
      <4> QED BY <4>1, <1>2, <1>5
    <3>2. Min(B) \in B /\ \A y \in B : Min(B) <= y
      BY <3>1, MinIsLeast
    <3>3. ASSUME NEW i \in W PROVE i <= m
      <4> SUFFICES ASSUME i > m PROVE FALSE
        BY <1>2, <1>3
      <4>1. i \in S /\ i \in 1 .. n
        BY <1>2, <1>4
      <4>2. Min(B) \in 1 .. n
        BY <1>2, <1>5, <3>2
      <4>3. Min(B) <= i
        <5> SUFFICES ASSUME ~(Min(B) <= i) PROVE FALSE
          OBVIOUS
        <5>1. i <= Min(B)
          BY <4>1, <4>2
        <5>2. i \in B
          BY <4>1, <5>1, <1>5, <3>2
        <5> QED BY <5>2, <3>2
      <4>4. tape[Min(B)] <= tape[i]
        BY <1>2, <4>1, <4>2, <4>3 DEF Inv, TapeInOrder
      <4>5. tape[i] <= stamp /\ tape[i] \in Nat /\ tape[Min(B)] \in Nat /\ stamp \in Nat
        BY <1>2, <4>1, <4>2, TapeFacts, WindowsAssumption DEF Inv, Printed
      <4> QED BY <2>2, <4>4, <4>5
    <3> HIDE DEF W, S, B, m, n
    <3> QED BY <3>3, <1>1, <1>3
  <2> QED BY <1>1, <2>1, <2>2
<1> QED BY <1>1, <1>6, <1>8, <1>9, WholeWindow DEF Inv

-----------------------------------------------------------------------------
LEMMA StepInv == ASSUME Inv, [Next]_vars PROVE Inv'
<1>1. CASE UNCHANGED vars
  BY <1>1 DEF Inv, TypeOK, TapeInOrder, PagesComplete, RestWindowExact, BufferGapless,
              TradesGapless, Printed, vars, thread, assembler
<1> QED BY <1>1, TickStep, NewTradeStep, ConnectStep, DeliverStep, FailStep, WakeStep,
           BeginSnapshotStep, ReadBufferStep, FetchWindowStep, NextPageStep, EndSnapshotStep
        DEF Next, Assembly

LEMMA Invariance == Spec => []Inv
<1> QED BY InitInv, StepInv, PTL DEF Spec

(* In every reachable state the variables have the types TypeOK gives them. *)
THEOREM TypeCorrect == Spec => []TypeOK
<1>1. Inv => TypeOK
  BY DEF Inv
<1> QED BY <1>1, Invariance, PTL

(* A window fetched by REST holds the trades of its time and no other, for  *)
(* any page limit and any trading between the pages.                        *)
THEOREM RestWindows == Spec => []RestWindowExact
<1>1. Inv => RestWindowExact
  BY DEF Inv
<1> QED BY <1>1, Invariance, PTL

(* A window graded "ready" lacks, between its first trade and its last,     *)
(* only trades that were printed while no connection was up.                *)
THEOREM ReadyWindows == Spec => []ReadyIsGapless
<1>1. ASSUME Inv PROVE ReadyIsGapless
  <2> SUFFICES ASSUME pc = "graded", NEW length \in {Long, Short}, Grade(length) = "ready",
                      NEW k \in Min(Window(length)) .. Max(Window(length))
               PROVE  k \in Window(length) \cup missed
    BY DEF ReadyIsGapless
  <2> DEFINE V == Window(length)
  <2>1. V # {}
    BY DEF Grade
  <2>2. V \in SUBSET trades /\ trades \in SUBSET (1 .. Len(tape)) /\ Len(tape) \in Nat
    BY <1>1, TapeFacts DEF Window, Inv, TypeOK
  <2>3. V \in SUBSET (0 .. Len(tape)) /\ V \in SUBSET Nat
    <3> HIDE DEF V
    <3> QED BY <2>2
  <2>4. Min(V) \in V /\ Max(V) \in V
    BY <2>1, <2>2, <2>3, MinIsLeast, MaxIsGreatest
  <2>5. k \in trades \cup missed
    BY <1>1, <2>2, <2>4 DEF Inv, TradesGapless
  <2>6. Min(V) \in 1 .. Len(tape) /\ k \in 1 .. Len(tape) /\ Min(V) <= k
    <3>1. k \in Min(V) .. Max(V)
      OBVIOUS
    <3> HIDE DEF V
    <3>2. Min(V) \in 1 .. Len(tape) /\ Max(V) \in 1 .. Len(tape)
      BY <2>2, <2>4
    <3> QED BY <2>2, <3>1, <3>2
  <2>7. tape[k] >= stamp - length
    <3>1. tape[Min(V)] >= stamp - length
      BY <2>4 DEF Window
    <3>2. tape[Min(V)] <= tape[k]
      BY <1>1, <2>6, TapeFacts DEF Inv, TapeInOrder
    <3>3. tape[Min(V)] \in Nat /\ tape[k] \in Nat /\ stamp \in Nat /\ length \in Nat
      BY <1>1, <2>6, TapeFacts, WindowsAssumption DEF Inv
    <3> QED BY <3>1, <3>2, <3>3
  <2> QED BY <2>5, <2>7 DEF Window
<1> QED BY <1>1, Invariance, PTL

-----------------------------------------------------------------------------
(* Why loading ends *)

(* A page has the trades that follow those of the page before; after it the *)
(* paging goes on only if it is full and its first trade lies no later than *)
(* the snapshot's time.                                                     *)
PageAdvances ==
    NextPage => /\ \A i \in batch, j \in batch' : i < j
                /\ trades \cap batch' = {}
                /\ pc' = "page" => /\ Cardinality(batch') >= PageLimit
                                   /\ Min(batch') \in batch' /\ tape[Min(batch')] <= stamp

(* No trade is fetched twice, and every page but the last takes PageLimit   *)
(* new ones and begins within the window: however many trades come in       *)
(* meanwhile, there are no more pages than the trades up to the snapshot's  *)
(* time can begin.  It is what LoadingEnds decreases.                       *)
THEOREM PagesAdvance == Spec => [][PageAdvances]_vars
<1>1. ASSUME Inv, NextPage PROVE PageAdvances
  <2> DEFINE n == Len(tape)
             m == Max(batch)
             S == {i \in DOMAIN tape : i >= NextId}
             B == Page(S)
  <2>1. /\ batch' = B /\ pc = "page"
        /\ pc' = IF Cardinality(B) < PageLimit \/ tape[Min(B)] > stamp THEN "graded" ELSE "page"
    BY <1>1 DEF NextPage
  <2>2. n \in Nat /\ DOMAIN tape = 1 .. n /\ S \in SUBSET (1 .. n)
    BY <1>1, TapeFacts DEF Inv
  <2>3. /\ m \in 1 .. n /\ \A i \in batch : i \in 1 .. n /\ i <= m
        /\ \A i \in trades : i \in 1 .. n /\ i <= m
    <3>1. /\ batch # {} /\ trades \in SUBSET (1 .. n)
          /\ \A i \in trades : i <= m
      BY <1>1, <2>1, <2>2 DEF Inv, TypeOK, PagesComplete
    <3>2. batch \in SUBSET (1 .. n) /\ batch \in SUBSET (0 .. n)
      BY <1>1, <2>2 DEF Inv, TypeOK
    <3>3. m \in batch /\ \A i \in batch : m >= i
      BY <2>2, <3>1, <3>2, MaxIsGreatest
    <3> HIDE DEF m, n
    <3> QED BY <2>2, <3>1, <3>2, <3>3
  <2>4. B \subseteq S /\ \A i \in S : i \in 1 .. n /\ i > m
    <3>1. NextId = m + 1
      BY DEF NextId
    <3>2. B \subseteq S
      BY <2>2, PageIsPrefix
    <3> QED BY <2>2, <2>3, <3>1, <3>2
  <2>5. ~(Cardinality(B) < PageLimit) => B # {}
    BY <2>2, FullPage
  <2>6. pc' = "page" => ~(Cardinality(B) < PageLimit) /\ ~(tape[Min(B)] > stamp)
    BY <2>1
  <2>7. B # {} => Min(B) \in B
    <3> HIDE DEF S, B, n
    <3>1. B \in SUBSET Nat
      BY <2>2, <2>4
    <3> QED BY <3>1, MinIsLeast
  <2>8. Cardinality(B) \in Nat /\ PageLimit \in Nat
    <3>1. IsFiniteSet(1 .. n)
      BY <2>2, FS_Interval
    <3> HIDE DEF S, B, n
    <3>2. B \in SUBSET (1 .. n)
      BY <2>2, <2>4
    <3> QED BY <3>1, <3>2, FS_Subset, FS_CardinalityType, WindowsAssumption
  <2>9. \A i \in B : tape[i] \in Nat /\ stamp \in Nat
    BY <1>1, <2>2, <2>4, TapeFacts DEF Inv
  <2> HIDE DEF B, S, n, m
  <2>10. \A i \in batch, j \in B : i < j
    BY <2>2, <2>3, <2>4
  <2>11. trades \cap B = {}
    BY <2>2, <2>3, <2>4
  <2>12. pc' = "page" => Cardinality(B) >= PageLimit /\ Min(B) \in B /\ tape[Min(B)] <= stamp
    BY <2>5, <2>6, <2>7, <2>8, <2>9
  <2> QED BY <2>1, <2>10, <2>11, <2>12 DEF PageAdvances
<1>2. Inv /\ [Next]_vars => [PageAdvances]_vars
  BY <1>1 DEF PageAdvances
<1> QED BY <1>2, Invariance, PTL DEF Spec
=============================================================================
