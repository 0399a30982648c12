-------------------------- MODULE CollectorsProofs --------------------------
(***************************************************************************)
(* Proofs about the collectors and the REST client they go through: a      *)
(* signed request keeps what SignedRequest promises and the proxy after a  *)
(* ban is another one; what is derived once stays; a bootstrap that ran to *)
(* its end is whole, and the tables replay fairly; no force order that a   *)
(* collector was given is lost or stored twice.                            *)
(***************************************************************************)
EXTENDS Collectors, FiniteSetTheorems, SequenceTheorems, WellFoundedInduction, TLAPS

-----------------------------------------------------------------------------
(* Requests                                                                *)

Sessions == [proxy : 1 .. Proxies, failCount : Nat]

(* An attempt's session is a session of one of the proxies. *)
SessionOK == session \in Sessions \cup {NoSession}

LEMMA GetProxiesType ==
    ASSUME SessionOK, NEW expired \in BOOLEAN
    PROVE  GetProxies(expired) \in Sessions
  BY ProxiesAssumption DEF SessionOK, Sessions, NoSession, GetProxies, InitSession

LEMMA HandleResponseType ==
    ASSUME NEW s \in Sessions, NEW reply \in Replies
    PROVE  /\ HandleResponse(s, reply) \in Sessions
           /\ IsBan(reply) /\ Proxies > 1 => HandleResponse(s, reply).proxy # s.proxy
<1>1. [s EXCEPT !.failCount = s.failCount + 1] \in Sessions
  BY DEF Sessions
<1>2. ASSUME NEW c \in Sessions
      PROVE  RotateProxy(c) \in Sessions /\ (Proxies > 1 => RotateProxy(c).proxy # c.proxy)
  <2>1. NextProxy(c.proxy) \in 1 .. Proxies /\ (Proxies > 1 => NextProxy(c.proxy) # c.proxy)
    BY ProxiesAssumption DEF Sessions, NextProxy
  <2> QED BY <2>1 DEF Sessions, RotateProxy
<1>3. [s EXCEPT !.failCount = s.failCount + 1].proxy = s.proxy
  BY DEF Sessions
<1> QED BY <1>1, <1>2, <1>3 DEF HandleResponse

(* lastBanned remembers a ban only as long as the session is the one the    *)
(* transport rotated to.                                                    *)
Moved == lastBanned # 0 /\ Proxies > 1 => session \in Sessions /\ session.proxy # lastBanned

(* The attempt after a ban goes through another proxy. *)
THEOREM BansMoveOn == Spec => []BanMovesOn
<1> DEFINE Inv == SessionOK /\ Moved
<1>1. Init => Inv
  BY DEF Init, SessionOK, Moved
<1>2. Inv /\ [Next]_vars => Inv'
  <2> SUFFICES ASSUME Inv, [Next]_vars PROVE Inv'
    OBVIOUS
  <2>1. ASSUME NEW reply \in Replies, NEW expired \in BOOLEAN, Attempt(reply, expired)
        PROVE  Inv'
    <3> DEFINE s == GetProxies(expired)
    <3>1. s \in Sessions
      BY GetProxiesType
    <3> HIDE DEF s
    <3>2. session' = HandleResponse(s, reply) /\ lastBanned' = IF IsBan(reply) THEN s.proxy ELSE 0
      BY <2>1 DEF Attempt, s
    <3> QED BY <3>1, <3>2, HandleResponseType DEF SessionOK, Moved
  <2>2. ASSUME UNCHANGED <<session, lastBanned>> PROVE Inv'
    BY <2>2 DEF SessionOK, Moved
  <2> QED BY <2>1, <2>2 DEF Next, Call, Return, vars
<1>3. Inv => BanMovesOn
  <2> SUFFICES ASSUME Inv, lastBanned # 0, Proxies > 1, NEW expired \in BOOLEAN
               PROVE  GetProxies(expired).proxy # lastBanned
    BY DEF BanMovesOn
  <2>1. session # NoSession
    BY DEF Moved, Sessions, NoSession
  <2> QED BY <2>1 DEF Moved, GetProxies, InitSession
<1> QED BY <1>1, <1>2, <1>3, PTL DEF Spec

-----------------------------------------------------------------------------
(* Types *)

LEMMA ExchangeCounts ==
    ASSUME executed \in Nat, NEW reply \in Replies, Exchange(reply)
    PROVE  /\ executed' \in Nat
           /\ executed > 0 => executed' > 0
           /\ reply = "ok" => executed' > 0
  BY DEF Exchange, Replies

(* The client's state is well typed; above all, attempt never passes        *)
(* max_retries and the session's proxy is one of the list.                  *)
THEOREM TypeCorrect == Spec => []TypeOK
<1> DEFINE Inv == TypeOK /\ SessionOK
<1>1. Init => Inv
  BY RetriesAssumption, ProxiesAssumption, CallsAssumption
  DEF Init, TypeOK, SessionOK, NoSession, Kinds
<1>2. Inv /\ [Next]_vars => Inv'
  <2> SUFFICES ASSUME Inv, [Next]_vars PROVE Inv'
    OBVIOUS
  <2>1. ASSUME NEW k \in Kinds, Call(k) PROVE Inv'
    BY <2>1, RetriesAssumption, CallsAssumption DEF Call, TypeOK, SessionOK
  <2>2. ASSUME NEW reply \in Replies, NEW expired \in BOOLEAN, Attempt(reply, expired)
        PROVE  Inv'
    <3> DEFINE s == GetProxies(expired)
    <3>1. s \in Sessions
      BY GetProxiesType
    <3> HIDE DEF s
    <3>2. session' = HandleResponse(s, reply) /\ lastBanned' = IF IsBan(reply) THEN s.proxy ELSE 0
      BY <2>2 DEF Attempt, s
    <3>3. session' \in Sessions /\ lastBanned' \in 0 .. Proxies
      BY <3>1, <3>2, HandleResponseType, ProxiesAssumption DEF Sessions
    <3>4. session' \in [proxy : 0 .. Proxies, failCount : Nat]
      BY <3>3 DEF Sessions
    <3>5. executed' \in Nat
      BY <2>2, ExchangeCounts DEF Attempt, TypeOK
    <3>6. /\ attempt' \in 0 .. MaxRetries
          /\ pc' \in {"idle", "send", "answered"}
          /\ answer' \in {"none", "ok", "rejected", "transport"}
      BY <2>2, RetriesAssumption DEF Attempt, RetryOrEnd, Outcome, TypeOK
    <3>7. UNCHANGED <<kind, calls>>
      BY <2>2 DEF Attempt
    <3> QED BY <3>3, <3>4, <3>5, <3>6, <3>7 DEF TypeOK, SessionOK
  <2>3. ASSUME Return \/ UNCHANGED vars PROVE Inv'
    BY <2>3, RetriesAssumption DEF Return, vars, TypeOK, SessionOK
  <2> QED BY <2>1, <2>2, <2>3 DEF Next
<1> QED BY <1>1, <1>2, PTL DEF Spec

-----------------------------------------------------------------------------
(* Implementation of SignedRequest *)

(* What is a busy request to SignedRequest. *)
Seen == <<IF pc = "send" THEN "busy" ELSE pc, executed > 0, answer>>

Counted == executed \in Nat

(* The retry loop and the failover implement SignedRequest: an "ok" stands  *)
(* for a request that was carried out, an error for one that may have been. *)
THEOREM Implementation == Spec => ImplementsRequest
<1>1. Init => Abstract!RequestInit /\ Counted
  BY DEF Init, Abstract!RequestInit, Counted
<1>2. Counted /\ [Next]_vars =>
          Counted' /\ [Abstract!RequestNext]_Seen
  <2> SUFFICES ASSUME Counted, [Next]_vars
               PROVE  /\ Counted'
                      /\ \/ Abstract!RequestNext
                         \/ UNCHANGED Seen
    OBVIOUS
  <2>1. ASSUME NEW k \in Kinds, Call(k)
        PROVE  Counted' /\ Abstract!Ask
    BY <2>1 DEF Call, Abstract!Ask, Counted, Seen
  <2>2. ASSUME NEW reply \in Replies, NEW expired \in BOOLEAN, Attempt(reply, expired)
        PROVE  Counted' /\ (Abstract!CarryOut \/ Abstract!Reply
                            \/ UNCHANGED Seen)
    <3>1. pc = "send" /\ executed' \in Nat /\ (executed > 0 => executed' > 0)
          /\ (reply = "ok" => executed' > 0)
      BY <2>2, ExchangeCounts DEF Attempt, Counted
    <3>2. CASE UNCHANGED <<pc, answer>>
      <4>1. Counted' BY <3>1, <3>2 DEF Counted
      <4>2. CASE (executed' > 0) = (executed > 0)
        BY <3>1, <3>2, <4>1, <4>2 DEF Seen
      <4>3. CASE (executed' > 0) # (executed > 0)
        <5>1. (executed' > 0) = TRUE BY <3>1, <4>3
        <5> QED BY <3>1, <3>2, <4>1, <5>1 DEF Abstract!CarryOut
      <4> QED BY <4>2, <4>3
    <3>3. CASE pc' = "answered" /\ answer' = Outcome(reply)
      <4>1. answer' \in Abstract!Answers /\ (answer' = "ok" => reply = "ok")
        BY <3>3 DEF Outcome, Abstract!Answers, Replies
      <4>2. Counted' BY <3>1 DEF Counted
      <4>3. (executed' > 0) \in {executed > 0, TRUE}
        <5>1. CASE executed > 0
          <6>1. (executed' > 0) = TRUE BY <3>1, <5>1
          <6> QED BY <6>1
        <5>2. CASE ~(executed > 0)
          <6>1. CASE executed' > 0
            <7>1. (executed' > 0) = TRUE BY <6>1
            <7> QED BY <7>1
          <6>2. CASE ~(executed' > 0)
            <7>1. (executed' > 0) = FALSE BY <6>2
            <7>2. (executed > 0) = FALSE BY <5>2
            <7> QED BY <7>1, <7>2
          <6> QED BY <6>1, <6>2
        <5> QED BY <5>1, <5>2
      <4>4. answer' = "ok" => (executed' > 0)
        BY <3>1, <4>1
      <4>5. Abstract!Reply
        BY <3>1, <3>3, <4>1, <4>3, <4>4, Zenon DEF Abstract!Reply
      <4> QED BY <4>2, <4>5
    <3> QED BY <2>2, <3>2, <3>3 DEF Attempt, RetryOrEnd
  <2>3. ASSUME Return PROVE Counted' /\ Abstract!Leave
    BY <2>3 DEF Return, Abstract!Leave, Counted
  <2>4. ASSUME UNCHANGED vars
        PROVE  Counted' /\ UNCHANGED Seen
    BY <2>4 DEF vars, Counted, Seen
  <2> QED BY <2>1, <2>2, <2>3, <2>4 DEF Next, Abstract!RequestNext
<1> QED BY <1>1, <1>2, PTL DEF Spec, ImplementsRequest, Abstract!RequestSpec, Seen

-----------------------------------------------------------------------------
(* Least and greatest elements                                             *)

LEMMA LeastNat ==
    ASSUME NEW S \in SUBSET Nat, S # {}
    PROVE  \E x \in S : \A y \in S : x <= y
<1>1. PICK x \in S : \A y \in S : ~(<<y, x>> \in OpToRel(<, Nat))
  BY NatLessThanWellFounded, WFMin, Zenon
<1>2. \A y \in S : ~(y < x)
  BY <1>1 DEF OpToRel
<1> QED BY <1>2

LEMMA MaxOfBounded ==
    ASSUME NEW n \in Nat, NEW S \in SUBSET (0 .. n), S # {}
    PROVE  Max(S) \in S /\ \A x \in S : x <= Max(S)
<1> DEFINE D == {n - x : x \in S}
<1>1. D \in SUBSET Nat /\ D # {}
  <2>1. \A x \in S : n - x \in Nat
    OBVIOUS
  <2> QED BY <2>1
<1>2. PICK d \in D : \A e \in D : d <= e
  <2> HIDE DEF D
  <2> QED BY <1>1, LeastNat
<1>3. PICK m \in S : d = n - m
  BY <1>2
<1>4. \A x \in S : n - x \in D
  OBVIOUS
<1>5. \A x \in S : m >= x
  BY <1>2, <1>3, <1>4
<1>6. Max(S) \in S /\ \A x \in S : Max(S) >= x
  BY <1>5 DEF Max
<1> QED BY <1>6

(* The first so many elements are the beginning of the set, and all of it   *)
(* when there are fewer.                                                   *)
LEMMA FirstIsBeginning ==
    ASSUME NEW S \in SUBSET Nat, IsFiniteSet(S), NEW many \in Nat \ {0}
    PROVE  /\ FirstOf(many, S) \subseteq S
           /\ \A p \in S, o \in FirstOf(many, S) : p <= o => p \in FirstOf(many, S)
           /\ Cardinality(FirstOf(many, S)) \in Nat
           /\ Cardinality(FirstOf(many, S)) < many => FirstOf(many, S) = S
           /\ FirstOf(many, S) = {} => S = {}
<1> DEFINE batch == FirstOf(many, S)
<1> DEFINE upto(o) == {p \in S : p <= o}
<1>1. \A x \in S : x \in Nat
  OBVIOUS
<1>2. IsFiniteSet(S) /\ batch \subseteq S /\ IsFiniteSet(batch) /\ Cardinality(batch) \in Nat
  <2>1. batch \subseteq S
    BY DEF FirstOf
  <2> QED BY <2>1, FS_Subset, FS_CardinalityType
<1>3. \A o \in S : IsFiniteSet(upto(o)) /\ Cardinality(upto(o)) \in Nat
  BY <1>2, FS_Subset, FS_CardinalityType
<1>4. \A o \in S : o \in batch <=> Cardinality(upto(o)) <= many
  BY DEF FirstOf
<1> HIDE DEF batch
<1>5. ASSUME NEW p \in S, NEW o \in batch, p <= o PROVE p \in batch
  <2>1. upto(p) \subseteq upto(o) /\ o \in S /\ Cardinality(upto(o)) <= many
    <3>1. o \in S /\ Cardinality(upto(o)) <= many
      BY <1>2, <1>4
    <3>2. \A q \in S : q <= p => q <= o
      BY <1>1, <1>5, <3>1
    <3> QED BY <3>1, <3>2
  <2>2. Cardinality(upto(p)) <= Cardinality(upto(o))
    <3> HIDE DEF upto
    <3> QED BY <1>3, <2>1, FS_Subset
  <2> QED BY <1>3, <1>4, <2>1, <2>2
<1>6. ASSUME Cardinality(batch) < many PROVE batch = S
  <2>1. SUFFICES ASSUME S \ batch # {} PROVE FALSE
    BY <1>2
  <2>2. PICK o \in S \ batch : \A p \in S \ batch : o <= p
    <3>1. S \ batch \in SUBSET Nat
      BY <1>1
    <3> QED BY <2>1, <3>1, LeastNat
  <2>3. upto(o) \subseteq batch \cup {o}
    <3>1. ASSUME NEW q \in S, q <= o, q \notin batch PROVE q = o
      <4>1. o <= q /\ q \in Nat /\ o \in Nat
        BY <1>1, <2>2, <3>1
      <4> QED BY <3>1, <4>1
    <3> QED BY <3>1
  <2>4. IsFiniteSet(batch \cup {o}) /\ Cardinality(batch \cup {o}) = Cardinality(batch) + 1
    BY <1>2, <2>2, FS_AddElement
  <2>5. Cardinality(upto(o)) <= Cardinality(batch) + 1
    <3> HIDE DEF upto
    <3> QED BY <2>3, <2>4, FS_Subset
  <2>6. Cardinality(upto(o)) <= many
    <3> HIDE DEF upto
    <3>1. Cardinality(upto(o)) \in Nat
      BY <1>3, <2>2
    <3> QED BY <1>2, <1>6, <2>5, <3>1
  <2> QED BY <1>4, <2>2, <2>6
<1>7. batch = {} => S = {}
  BY <1>6, FS_EmptySet
<1> QED BY <1>2, <1>5, <1>6, <1>7 DEF batch

-----------------------------------------------------------------------------
(* The daily bias and the cvd history                                      *)

BiasTyped ==
    /\ today \in Nat /\ index \subseteq 1 .. today /\ soso \subseteq 1 .. today /\ glass \subseteq 1 .. today
    /\ DOMAIN dxy \subseteq 1 .. today /\ DOMAIN etf \subseteq 1 .. today

(* A column gets rows behind its last only, and keeps the others. *)
LEMMA ColumnGrows ==
    ASSUME NEW n \in Nat, NEW column, DOMAIN column \subseteq 1 .. n,
           NEW new, DOMAIN new \subseteq 1 .. n,
           \A d \in DOMAIN new : ResolveStart(LastNonNull(column)) <= d
    PROVE  /\ DOMAIN Upserted(column, new) \subseteq 1 .. n
           /\ Kept(column, Upserted(column, new)) /\ Appended(column, Upserted(column, new))
<1>1. DOMAIN Upserted(column, new) = DOMAIN new \cup DOMAIN column
      /\ \A d \in DOMAIN column : d \notin DOMAIN new => Upserted(column, new)[d] = column[d]
  BY DEF Upserted
<1>2. LastNonNull(column) \in 0 .. n /\ \A d \in DOMAIN column : d <= LastNonNull(column)
  <2>1. CASE DOMAIN column = {}
    BY <2>1 DEF LastNonNull
  <2>2. CASE DOMAIN column # {}
    <3>1. DOMAIN column \in SUBSET (0 .. n)
      OBVIOUS
    <3>2. Max(DOMAIN column) \in DOMAIN column /\ \A d \in DOMAIN column : d <= Max(DOMAIN column)
      BY <2>2, <3>1, MaxOfBounded
    <3> QED BY <2>2, <3>2 DEF LastNonNull
  <2> QED BY <2>1, <2>2
<1>3. \A d \in DOMAIN new : d > LastNonNull(column)
  BY <1>2 DEF ResolveStart
<1>4. \A d \in DOMAIN column : d \notin DOMAIN new
  BY <1>2, <1>3
<1> QED BY <1>1, <1>3, <1>4 DEF Kept, Appended

LEMMA ColumnStays == \A column : Kept(column, column) /\ Appended(column, column)
  BY DEF Kept, Appended

BiasRows ==
    Kept(dxy, dxy') /\ Appended(dxy, dxy') /\ Kept(etf, etf') /\ Appended(etf, etf')

LEMMA BiasStep ==
    ASSUME BiasTyped, BiasNext PROVE BiasTyped' /\ BiasRows
<1> USE DEF BiasTyped
<1>1. CASE NextDay \/ PublishDay
  <2>1. UNCHANGED <<dxy, etf>>
    BY <1>1 DEF NextDay, PublishDay
  <2>2. BiasTyped'
    <3>1. CASE NextDay
      BY <2>1, <3>1 DEF NextDay
    <3>2. CASE PublishDay
      <4>1. /\ UNCHANGED <<today, dxy, etf>>
            /\ \/ \E d \in 1 .. today : index' = index \cup {d} /\ UNCHANGED <<soso, glass>>
               \/ \E d \in 1 .. today - 1 : soso' = soso \cup {d} /\ UNCHANGED <<index, glass>>
               \/ \E d \in 1 .. today - 1 : glass' = glass \cup {d} /\ UNCHANGED <<index, soso>>
        BY <3>2 DEF PublishDay
      <4>2. 1 .. today - 1 \subseteq 1 .. today
        OBVIOUS
      <4> QED BY <4>1, <4>2
    <3> QED BY <1>1, <3>1, <3>2
  <2> QED BY <2>1, <2>2, ColumnStays DEF BiasRows
<1>2. CASE SyncDxy
  <2> DEFINE new == [d \in {d \in index : ResolveStart(LastNonNull(dxy)) <= d} |-> d < today]
  <2>1. dxy' = Upserted(dxy, new) /\ UNCHANGED <<today, index, soso, glass, etf>>
    BY <1>2 DEF SyncDxy
  <2>2. DOMAIN new \subseteq 1 .. today /\ \A d \in DOMAIN new : ResolveStart(LastNonNull(dxy)) <= d
    OBVIOUS
  <2> HIDE DEF new
  <2>3. /\ DOMAIN Upserted(dxy, new) \subseteq 1 .. today
        /\ Kept(dxy, Upserted(dxy, new)) /\ Appended(dxy, Upserted(dxy, new))
    BY <2>2, ColumnGrows
  <2> QED BY <2>1, <2>3, ColumnStays DEF BiasRows
<1>3. CASE SyncEtf
  <2>1. PICK primary \in {soso, {}}, other \in {glass, {}} :
          LET start == ResolveStart(LastNonNull(etf))
              days  == primary \cup IF NeedFallback(primary, start) THEN other ELSE {}
          IN  etf' = Upserted(etf, [d \in {d \in days : start <= d} |-> RollingDays(days, d)])
    BY <1>3 DEF SyncEtf
  <2> DEFINE start == ResolveStart(LastNonNull(etf))
             days  == primary \cup IF NeedFallback(primary, start) THEN other ELSE {}
             new   == [d \in {d \in days : start <= d} |-> RollingDays(days, d)]
  <2>2. etf' = Upserted(etf, new) /\ UNCHANGED <<today, index, soso, glass, dxy>>
    BY <1>3, <2>1 DEF SyncEtf
  <2>3. days \subseteq 1 .. today
    OBVIOUS
  <2>4. DOMAIN new \subseteq 1 .. today /\ \A d \in DOMAIN new : ResolveStart(LastNonNull(etf)) <= d
    BY <2>3
  <2> HIDE DEF new
  <2>5. /\ DOMAIN Upserted(etf, new) \subseteq 1 .. today
        /\ Kept(etf, Upserted(etf, new)) /\ Appended(etf, Upserted(etf, new))
    BY <2>4, ColumnGrows
  <2> QED BY <2>2, <2>5, ColumnStays DEF BiasRows
<1>4. CASE DieBetween
  BY <1>4, ColumnStays DEF DieBetween, BiasRows
<1> QED BY <1>1, <1>2, <1>3, <1>4 DEF BiasNext

LEMMA HistoryRows ==
    ASSUME HistoryNext PROVE Kept(history, history')
<1>1. ASSUME UNCHANGED history PROVE Kept(history, history')
  BY <1>1, ColumnStays
<1>2. CASE BackfillCvd
  <2>1. PICK new : history' = Upsert(new, history)
    BY <1>2 DEF BackfillCvd, InsertCvdBars, Ignore
  <2> QED BY <2>1 DEF Kept, Upsert
<1>3. CASE Pass \/ Trade \/ StartBootstrap \/ RateLimited \/ Abandon
  BY <1>1, <1>3 DEF Pass, Trade, StartBootstrap, RateLimited, Abandon, tableVars
<1>4. CASE TakePage \/ SkipInterest
  BY <1>1, <1>4 DEF TakePage, SkipInterest
<1>5. CASE LoadTradeZip \/ LoadCandleZip \/ LoadInterestZip \/ LoadFunding \/ RefreshCandles
  BY <1>1, <1>5 DEF LoadTradeZip, LoadCandleZip, LoadInterestZip, LoadFunding, RefreshCandles
<1> QED BY <1>2, <1>3, <1>4, <1>5 DEF HistoryNext

(* Rows of cvd_price_history and of daily_external_bias stay as they were   *)
(* written, and the columns of the latter grow at their end only            *)
(* (InsertCvdBars of the backfill, sync_dxy and sync_etf of main).         *)
THEOREM RowsKept == CollectorsSpec => RowsStay
<1>1. CollectorsInit => BiasTyped
  BY DEF CollectorsInit, BiasInit, BiasTyped
<1>2. ASSUME BiasTyped, [Requests \/ Fill \/ Collect \/ Backfill \/ Bias]_collectorVars
      PROVE  BiasTyped' /\ Kept(history, history') /\ BiasRows
  <2>1. ASSUME UNCHANGED <<history, biasVars>> PROVE BiasTyped' /\ Kept(history, history') /\ BiasRows
    BY <1>2, <2>1, ColumnStays DEF biasVars, BiasTyped, BiasRows
  <2>2. CASE Requests \/ Collect \/ Backfill
    BY <2>1, <2>2 DEF Requests, Collect, Backfill, historyVars, tableVars
  <2>3. CASE Fill
    <3>1. HistoryNext /\ UNCHANGED biasVars
      BY <2>3 DEF Fill
    <3> QED BY <1>2, <3>1, HistoryRows, ColumnStays DEF biasVars, BiasTyped, BiasRows
  <2>4. CASE Bias
    <3>1. BiasNext /\ UNCHANGED history
      BY <2>4 DEF Bias, historyVars, tableVars
    <3> QED BY <1>2, <3>1, BiasStep, ColumnStays
  <2>5. CASE UNCHANGED collectorVars
    BY <2>1, <2>5 DEF collectorVars, historyVars, tableVars
  <2> QED BY <1>2, <2>2, <2>3, <2>4, <2>5
<1> QED BY <1>1, <1>2, PTL DEF CollectorsSpec, RowsStay, BiasRows

-----------------------------------------------------------------------------
(* The bootstrap of the history                                            *)
(*                                                                         *)
(* A table's row of a bar holds no trade behind the bar's end, and neither  *)
(* does a row that is about to be committed.                               *)

TapeTyped ==
    /\ clock \in 0 .. LastTime /\ tape \in Seq(Nat)
    /\ \A i \in DOMAIN tape : tape[i] <= clock
    /\ \A i, j \in DOMAIN tape : i <= j => tape[i] <= tape[j]

RunTyped ==
    /\ {from, to, began, window, at} \subseteq Nat /\ began <= clock
    /\ stage \in {"idle", "candles", "higher", "funding", "open_interest", "trades", "done"}
    /\ stage # "idle" => from < to
    /\ stage \in {"candles", "higher", "funding"} => at < to
    /\ stage = "open_interest" => at < to \/ DOMAIN got = {}

RowsInTime(table, span) ==
    \A b \in DOMAIN table : b \in Opens(span) /\ \A i \in table[b] : i \in DOMAIN tape /\ tape[i] < b + span

TablesInTime ==
    /\ RowsInTime(candles, Bar) /\ RowsInTime(higher, Long) /\ RowsInTime(buckets, Bar)
    /\ stage \in CandleStages => RowsInTime(got, Span)
    /\ funding \subseteq Bars
    /\ stage = "funding" => DOMAIN got \subseteq Bars

(* Of what was over when the bootstrap began, the running stage has fetched *)
(* all that lies before its cursor, and the stages before it everything.    *)
BarsFetched ==
    \A b \in Bars : Over(b, Bar) =>
        /\ stage = "candles" /\ b < at => WholeIn(got, b, Bar)
        /\ stage \notin {"idle", "candles"} => WholeIn(candles, b, Bar)
        /\ stage = "funding" /\ b < at => b \in DOMAIN got
        /\ stage \in {"open_interest", "trades", "done"} => b \in funding
        /\ b >= clock - Lookback =>
              /\ stage = "open_interest" /\ b < at => b \in DOMAIN got
              /\ stage \in {"trades", "done"} => b \in interest

LongsFetched ==
    \A b \in Longs : Over(b, Long) =>
        /\ stage = "higher" /\ b < at => WholeIn(got, b, Long)
        /\ stage \notin {"idle", "candles", "higher"} => WholeIn(higher, b, Long)

PointsFetched == BarsFetched /\ LongsFetched

(* The trades of the running hour are fetched up to the cursor but for those *)
(* that a full page's edge has lost, and every bucket is explained by the   *)
(* hours before it.                                                        *)
TradesFetched ==
    /\ edges \subseteq DOMAIN tape
    /\ edges = {} \/ stage \in {"trades", "done"}
    /\ stage = "trades" => \A e \in edges : tape[e] < at
    /\ stage = "trades" =>
          /\ window \in Hours /\ window <= at /\ at < WindowEnd
          /\ DOMAIN got \subseteq In(window, WindowEnd)
          /\ WindowEnd <= began => DOMAIN got = {i \in In(window, at) : ~LostOnEdge(i)}
    /\ stage \in {"trades", "done"} =>
          \A b \in Bars : BucketExplained(b, IF stage = "done" THEN to ELSE window)

HistoryInv == TapeTyped /\ RunTyped /\ TablesInTime /\ PointsFetched /\ TradesFetched

LEMMA OpensTyped ==
    ASSUME NEW span \in Nat, span > 0
    PROVE  /\ Opens(span) \in SUBSET Nat /\ IsFiniteSet(Opens(span))
           /\ \A b \in Opens(span) : b \in Nat /\ b % span = 0 /\ b <= LastTime
<1>1. LastTime \in Nat
  BY HistoryAssumption
<1>2. Opens(span) \in SUBSET (0 .. LastTime) /\ \A b \in Opens(span) : b \in Nat /\ b % span = 0 /\ b <= LastTime
  BY <1>1 DEF Opens
<1>3. IsFiniteSet(0 .. LastTime)
  BY <1>1, FS_Interval
<1>4. IsFiniteSet(Opens(span))
  BY <1>2, <1>3, FS_Subset
<1> QED BY <1>1, <1>2, <1>4

LEMMA SpansTyped ==
    /\ Bar \in Nat /\ Bar > 0 /\ Long \in Nat /\ Long > 0
    /\ Span \in Nat /\ Span > 0 /\ (stage = "higher" => Span = Long) /\ (stage # "higher" => Span = Bar)
BY HistoryAssumption DEF Span

LEMMA BarsTyped ==
    /\ Bar \in Nat /\ Bar > 0 /\ LastTime \in Nat /\ Lookback \in Nat /\ Hour \in Nat /\ Hour > 0
    /\ Limit \in Nat \ {0} /\ Bars \in SUBSET Nat /\ IsFiniteSet(Bars)
    /\ \A b \in Bars : b \in Nat /\ b % Bar = 0 /\ b <= LastTime
<1>1. Bar \in Nat /\ Bar > 0 /\ LastTime \in Nat /\ Lookback \in Nat /\ Hour \in Nat /\ Hour > 0
      /\ Limit \in Nat \ {0}
  BY HistoryAssumption
<1> QED BY <1>1, OpensTyped DEF Bars

(* Bars, and candles of one length, lie next to one another, and a time is  *)
(* in one of them.                                                         *)
LEMMA SpansApart ==
    ASSUME NEW span \in Nat, span > 0, NEW b \in Nat, NEW c \in Nat, b % span = 0, c % span = 0
    PROVE  b < c + span => b <= c
<1>1. PICK x \in Int, y \in Int : b = span * x /\ c = span * y
  <2>1. b = span * (b \div span) /\ c = span * (c \div span) /\ b \div span \in Int /\ c \div span \in Int
    OBVIOUS
  <2> QED BY <2>1
<1>2. ASSUME y + 1 <= x PROVE c + span <= b
  <2>1. span * (y + 1) <= span * x /\ span * (y + 1) = span * y + span
    BY <1>2
  <2> QED BY <1>1, <2>1
<1>3. ASSUME x <= y PROVE b <= c
  <2>1. span * x <= span * y
    BY <1>3
  <2> QED BY <1>1, <2>1
<1> QED BY <1>1, <1>2, <1>3

LEMMA BarsApart ==
    ASSUME NEW b \in Nat, NEW c \in Nat, b % Bar = 0, c % Bar = 0
    PROVE  b < c + Bar => b <= c
BY SpansTyped, SpansApart

LEMMA BarOfTime ==
    ASSUME NEW t \in Nat
    PROVE  /\ BarOf(t) \in Nat /\ BarOf(t) % Bar = 0 /\ BarOf(t) <= t /\ t < BarOf(t) + Bar
           /\ \A b \in Nat : b % Bar = 0 /\ b <= t /\ t < b + Bar => BarOf(t) = b
<1>1. Bar \in Nat /\ Bar > 0
  BY BarsTyped
<1>2. t \div Bar \in Nat /\ (t \div Bar) * Bar <= t /\ t < (t \div Bar + 1) * Bar
  BY <1>1
<1>3. BarOf(t) \in Nat /\ BarOf(t) % Bar = 0 /\ BarOf(t) <= t /\ t < BarOf(t) + Bar
  <2>1. \A q \in Nat : (q * Bar) \in Nat /\ (q * Bar) % Bar = 0 /\ (q + 1) * Bar = q * Bar + Bar
    BY <1>1
  <2> QED BY <1>2, <2>1 DEF BarOf
<1>4. ASSUME NEW b \in Nat, b % Bar = 0, b <= t, t < b + Bar PROVE BarOf(t) = b
  <2>1. b < BarOf(t) + Bar /\ BarOf(t) < b + Bar
    BY <1>1, <1>3, <1>4
  <2> QED BY <1>3, <1>4, <2>1, BarsApart
<1> QED BY <1>3, <1>4

(* The latest rows are the same with and without what lies before so many. *)
LEMMA LatestAreLate ==
    ASSUME NEW S \in SUBSET Int, IsFiniteSet(S), NEW n \in Nat, NEW m \in Int,
           Cardinality({b \in S : b >= m}) >= n
    PROVE  LatestOf(n, S) = LatestOf(n, {b \in S : b >= m})
<1> DEFINE W == {b \in S : b >= m}
<1> DEFINE From(T, o) == {p \in T : p >= o}
<1>1. IsFiniteSet(W) /\ Cardinality(W) \in Nat /\ W \subseteq S
  BY FS_Subset, FS_CardinalityType
<1>6. \A x \in S : x \in Int
  OBVIOUS
<1>2. ASSUME NEW o \in W PROVE From(S, o) = From(W, o)
  <2>1. o \in Int /\ o >= m
    BY <1>6
  <2>2. \A p \in S : p >= o => p >= m
    BY <1>6, <2>1
  <2> QED BY <2>2
<1>3. ASSUME NEW o \in S \ W PROVE ~(Cardinality(From(S, o)) <= n)
  <2>1. From(S, o) \in SUBSET S /\ W \cup {o} \in SUBSET From(S, o)
    <3>1. o \in Int /\ o < m /\ o \in S
      BY <1>6, <1>3
    <3>2. o >= o /\ \A p \in S : p >= m => p >= o
      BY <1>6, <3>1
    <3> QED BY <3>1, <3>2
  <2>2. IsFiniteSet(From(S, o)) /\ Cardinality(From(S, o)) \in Nat
    BY <2>1, FS_Subset, FS_CardinalityType
  <2>3. Cardinality(W \cup {o}) = Cardinality(W) + 1
    BY <1>1, <1>3, FS_AddElement
  <2>4. Cardinality(W \cup {o}) <= Cardinality(From(S, o))
    BY <2>1, <2>2, FS_Subset
  <2> QED BY <1>1, <2>2, <2>3, <2>4
<1>4. LatestOf(n, S) = {o \in S : Cardinality(From(S, o)) <= n}
  BY DEF LatestOf
<1>5. LatestOf(n, W) = {o \in W : Cardinality(From(W, o)) <= n}
  BY DEF LatestOf
<1> HIDE DEF From
<1> QED BY <1>1, <1>2, <1>3, <1>4, <1>5

(* So many candles fit behind a time. *)
LEMMA BarsFit ==
    ASSUME NEW span \in Nat, span > 0, NEW t \in Opens(span), NEW n \in Nat, t + span - span * n >= 0
    PROVE  Cardinality({b \in Opens(span) : t + span - span * n <= b /\ b <= t}) >= n
<1> DEFINE W == {b \in Opens(span) : t + span - span * n <= b /\ b <= t}
<1> DEFINE f == [k \in 1 .. n |-> t + span - span * k]
<1>1. LastTime \in Nat
  BY BarsTyped
<1>2. t \in Nat /\ t % span = 0 /\ t <= LastTime
  BY OpensTyped
<1>3. ASSUME NEW k \in 1 .. n PROVE t + span - span * k \in W
  <2> DEFINE x == t + span - span * k
  <2>1. x \in Int /\ x <= t /\ x >= t + span - span * n
    BY <1>1, <1>2
  <2>2. x % span = 0
    <3>1. PICK q \in Int : t = span * q
      <4>1. t = span * (t \div span) /\ t \div span \in Int
        BY <1>1, <1>2
      <4> QED BY <4>1
    <3>2. x = span * (q + 1 - k) /\ q + 1 - k \in Int
      BY <1>1, <3>1
    <3>3. \A j \in Int : (span * j) % span = 0
      BY <1>1
    <3> QED BY <3>2, <3>3
  <2>3. t + span - span * n \in Int
    BY <1>1, <1>2
  <2> HIDE DEF x
  <2>4. x \in Opens(span)
    BY <1>1, <1>2, <2>1, <2>2, <2>3 DEF Opens
  <2>5. x \in W
    BY <2>1, <2>4
  <2> QED BY <2>5 DEF x
<1>4. \A j, k \in 1 .. n : t + span - span * j = t + span - span * k => j = k
  BY <1>1, <1>2
<1>5. f \in Injection(1 .. n, W)
  <2>1. f \in [1 .. n -> W]
    BY <1>3
  <2>2. \A j, k \in 1 .. n : f[j] = f[k] => j = k
    BY <1>4
  <2> HIDE DEF f, W
  <2> QED BY <2>1, <2>2 DEF Injection, IsInjective
<1>6. IsFiniteSet(W)
  BY OpensTyped, FS_Subset
<1>7. IsFiniteSet(1 .. n) /\ Cardinality(1 .. n) = n
  <2> HIDE DEF W, f
  <2>1. Cardinality(1 .. n) = IF 1 > n THEN 0 ELSE n - 1 + 1
    BY FS_Interval
  <2>2. n = IF 1 > n THEN 0 ELSE n - 1 + 1
    OBVIOUS
  <2> QED BY <2>1, <2>2, FS_Interval
<1>8. Cardinality(1 .. n) <= Cardinality(W)
  <2> HIDE DEF W, f
  <2> QED BY <1>5, <1>6, FS_Injection
<1> QED BY <1>7, <1>8

(* What a slice needs: the rows its limit asks for, the row open at the end, *)
(* and a table read from early enough on.                                   *)
NoneMissing(S, span, upto, n) == \A b \in 0 .. upto : b % span = 0 /\ upto - span * n < b => b \in S
LastOpened(t, span, upto)     == t % span = 0 /\ t <= upto /\ upto < t + span
LooksBack(low, t, span, n)    == low <= t + span - span * n

(* Where no candle is missing, those before the lookback make no difference. *)
LEMMA LookbackSuffices ==
    ASSUME NEW span \in Nat, span > 0, NEW S \in SUBSET Opens(span), NEW n \in Nat, n > 0,
           NEW upto \in Nat, NEW t \in Nat, LastOpened(t, span, upto), NoneMissing(S, span, upto, n),
           NEW low \in Int, LooksBack(low, t, span, n)
    PROVE  LatestOf(n, {b \in S : low <= b /\ b <= upto}) = LatestOf(n, {b \in S : b <= upto})
<1> USE DEF NoneMissing, LastOpened, LooksBack
<1> DEFINE m == t + span - span * n
<1> DEFINE A == {b \in S : b <= upto}
<1> DEFINE B == {b \in S : low <= b /\ b <= upto}
<1>1. /\ IsFiniteSet(Opens(span)) /\ \A b \in Opens(span) : b \in Nat /\ b % span = 0
      /\ \A b \in S : b \in Nat /\ b \in Opens(span)
  BY OpensTyped
<1>2. m \in Int /\ span * n \in Int /\ span <= span * n /\ upto - span * n < m /\ upto - span * n < t
  <2>1. span * n = span + span * (n - 1) /\ span * (n - 1) \in Nat
    OBVIOUS
  <2> QED BY <2>1
<1>3. A \in SUBSET Int /\ IsFiniteSet(A) /\ B \in SUBSET Int /\ IsFiniteSet(B)
  <2>1. A \subseteq S /\ B \subseteq S
    OBVIOUS
  <2>2. A \in SUBSET Opens(span) /\ B \in SUBSET Opens(span) /\ A \in SUBSET Int /\ B \in SUBSET Int
    <3> HIDE DEF A, B
    <3> QED BY <1>1, <2>1
  <2> HIDE DEF A, B
  <2> QED BY <1>1, <2>2, FS_Subset
<1>4. CASE m < 0
  <2>1. A = B
    <3>1. \A b \in S : low <= b
      BY <1>1, <1>2, <1>4
    <3> QED BY <3>1
  <2> QED BY <2>1
<1>5. CASE m >= 0
  <2>1. {b \in A : b >= m} = {b \in B : b >= m}
    <3>1. \A b \in S : b >= m => low <= b
      BY <1>1, <1>2
    <3> QED BY <3>1
  <2>2. {b \in A : b >= m} = {b \in Opens(span) : m <= b /\ b <= t}
    <3>1. \A b \in Opens(span) : b <= upto => b <= t
      BY <1>1, SpansApart
    <3>2. \A b \in Opens(span) : b >= m /\ b <= t => b <= upto /\ b \in S
      BY <1>1, <1>2
    <3> QED BY <1>1, <3>1, <3>2
  <2>3. Cardinality({b \in Opens(span) : m <= b /\ b <= t}) >= n
    <3>1. t \in Opens(span)
      BY <1>2
    <3> QED BY <1>5, <3>1, BarsFit
  <2> HIDE DEF A, B, m
  <2>4. LatestOf(n, A) = LatestOf(n, {b \in A : b >= m}) /\ LatestOf(n, B) = LatestOf(n, {b \in B : b >= m})
    BY <1>2, <1>3, <2>1, <2>2, <2>3, LatestAreLate
  <2> QED BY <2>1, <2>4 DEF A, B
<1> QED BY <1>2, <1>4, <1>5

(* So a slice of what a run preloads is the slice of the whole table. *)
LEMMA ReadsLatest ==
    ASSUME NEW span \in Nat, span > 0, NEW opened \in SUBSET Opens(span),
           NEW upto \in Nat, NEW t \in Nat, LastOpened(t, span, upto),
           NoneMissing(opened, span, upto, LookbackRows),
           NEW start \in Nat, LooksBack(start - Long * LookbackRows, t, span, LookbackRows),
           NEW end \in Nat, upto <= end
    PROVE  LatestOf(LookbackRows, {b \in Preloaded(opened, start, end) : b <= upto})
               = LatestOf(LookbackRows, {b \in opened : b <= upto})
<1>1. Long \in Nat /\ LookbackRows \in Nat /\ LookbackRows > 0 /\ \A b \in opened : b \in Nat
  BY HistoryAssumption, LookbackAssumption, OpensTyped
<1> DEFINE first == start - Long * LookbackRows
<1>2. first \in Int /\ LooksBack(first, t, span, LookbackRows)
  <2>1. Long * LookbackRows \in Nat
    BY <1>1
  <2> QED BY <2>1
<1>3. {b \in Preloaded(opened, start, end) : b <= upto} = {b \in opened : first <= b /\ b <= upto}
  <2>1. \A b \in opened : b <= upto => b <= end
    BY <1>1
  <2> QED BY <2>1 DEF Preloaded
<1> HIDE DEF first
<1>4. LatestOf(LookbackRows, {b \in opened : first <= b /\ b <= upto})
          = LatestOf(LookbackRows, {b \in opened : b <= upto})
  BY <1>1, <1>2, LookbackSuffices
<1> QED BY <1>3, <1>4

(* A snapshot of tables without rows from the future is fair. *)
LEMMA SnapshotsFair ==
    ASSUME TapeTyped, TablesInTime PROVE ReplayIsFair
<1> SUFFICES ASSUME NEW c \in SnapshotBars(0, LastTime + Bar)
             PROVE  /\ KnowsNoFuture(c, SnapshotOf(c, 0, LastTime + Bar))
                    /\ SameInEveryWindow(c, SnapshotOf(c, 0, LastTime + Bar))
  BY DEF ReplayIsFair
<1> DEFINE shot == SnapshotOf(c, 0, LastTime + Bar)
<1> DEFINE s == c + Bar
<1> DEFINE L == LookbackRows
<1>1. Bar \in Nat /\ Bar > 0 /\ LastTime \in Nat /\ L \in Nat /\ L > 0
      /\ (\A b \in Bars : b \in Nat /\ b % Bar = 0 /\ b <= LastTime)
      /\ Long \in Nat /\ Long > 0 /\ Bar <= Long
  <2>1. Bar <= Long
    BY HistoryAssumption
  <2> QED BY <2>1, BarsTyped, SpansTyped, LookbackAssumption
<1>2. /\ (\A b \in DOMAIN candles : b \in Bars) /\ (\A b \in DOMAIN buckets : b \in Bars)
      /\ \A b \in DOMAIN higher : b \in Longs /\ b \in Nat /\ b <= LastTime
  BY <1>1, OpensTyped DEF TablesInTime, RowsInTime, Bars, Longs
<1>3. c \in Bars /\ c \in DOMAIN candles
  BY <1>2 DEF SnapshotBars, Preloaded
<1>4. \A i \in DOMAIN tape : tape[i] \in Nat
  <2>1. DOMAIN tape = 1 .. Len(tape)
    BY LenProperties DEF TapeTyped
  <2> QED BY <2>1 DEF TapeTyped
<1>5. \A n, S : LatestOf(n, S) \subseteq S
  BY DEF LatestOf
<1>6. KnowsNoFuture(c, shot)
  <2>1. /\ shot.bars \subseteq {b \in DOMAIN candles : b <= c}
        /\ shot.higher \subseteq {b \in DOMAIN higher : b <= s}
        /\ shot.bucket \subseteq {b \in DOMAIN buckets : IF c \in DOMAIN buckets THEN b = c ELSE b <= s}
        /\ shot.funding \subseteq {t \in funding : t <= s}
        /\ shot.interest \subseteq {t \in interest : t <= s}
    BY <1>1, <1>2, <1>3, <1>5 DEF SnapshotOf, SliceLookback, Preloaded, ResolveAggBucket
  <2>2. ASSUME NEW b \in Bars, b <= s, b # s PROVE b + Bar <= s
    <3>1. b <= c
      <4>1. b \in Nat /\ b % Bar = 0 /\ c \in Nat /\ c % Bar = 0 /\ b < c + Bar
        BY <1>1, <1>3, <2>2
      <4> QED BY <4>1, BarsApart
    <3> QED BY <1>1, <1>3, <3>1
  <2>3. \A b \in DOMAIN candles : b + Bar <= s => \A i \in candles[b] : ~(tape[i] >= s)
    BY <1>1, <1>2, <1>3, <1>4 DEF TablesInTime, RowsInTime
  <2>4. \A b \in DOMAIN buckets : b + Bar <= s => \A i \in buckets[b] : ~(tape[i] >= s)
    BY <1>1, <1>2, <1>3, <1>4 DEF TablesInTime, RowsInTime
  <2>5. \A b \in Bars : b <= c => b + Bar <= s
    BY <1>1, <1>3
  <2> HIDE DEF shot
  <2>6. {b \in shot.bars : \E i \in candles[b] : tape[i] >= s} = {}
    BY <1>2, <2>1, <2>3, <2>5
  <2>7. /\ \A b \in shot.higher : \A i \in higher[b] : tape[i] < b + Long
        /\ {b \in shot.higher : \E i \in higher[b] : tape[i] >= s} \subseteq {b \in Longs : b <= s /\ s < b + Long}
    <3>1. ASSUME NEW b \in shot.higher, NEW i \in higher[b] PROVE tape[i] < b + Long /\ tape[i] \in Nat
      BY <1>4, <2>1 DEF TablesInTime, RowsInTime
    <3>2. \A b \in shot.higher : b \in Longs /\ b \in Nat /\ b <= s
      BY <1>2, <2>1
    <3> QED BY <1>1, <1>3, <3>1, <3>2
  <2>8. {b \in shot.bucket : \E i \in buckets[b] : tape[i] >= s}
            \subseteq IF c \in DOMAIN buckets THEN {} ELSE {s}
    <3>1. CASE c \in DOMAIN buckets
      <4>1. \A b \in shot.bucket : b = c
        BY <2>1, <3>1
      <4>2. c + Bar <= s
        BY <1>1, <1>3
      <4> QED BY <2>4, <3>1, <4>1, <4>2
    <3>2. CASE c \notin DOMAIN buckets
      <4>1. \A b \in shot.bucket : b \in Bars /\ b \in DOMAIN buckets /\ b <= s
        BY <1>2, <2>1, <3>2
      <4>2. \A b \in shot.bucket : b # s => ~\E i \in buckets[b] : tape[i] >= s
        BY <2>2, <2>4, <4>1
      <4> QED BY <3>2, <4>2
    <3> QED BY <3>1, <3>2
  <2>9. \A t \in shot.funding \cup shot.interest : t <= s
    BY <2>1
  <2> QED BY <2>6, <2>7, <2>8, <2>9 DEF KnowsNoFuture
<1>7. SameInEveryWindow(c, shot)
  <2> DEFINE Complete(table, span, last) ==
                 \A b \in 0 .. last : b % span = 0 /\ last - span * L < b => b \in DOMAIN table
  <2> SUFFICES ASSUME Complete(candles, Bar, c), Complete(higher, Long, s),
                      NEW start \in {b \in Bars : b <= s}
               PROVE  SnapshotOf(c, start, s) = shot
    BY DEF SameInEveryWindow
  <2> DEFINE Since(opened, x, upto, e) == LatestOf(L, {b \in Preloaded(opened, x, e) : b <= upto})
  <2>1. Long * L \in Nat /\ Bar * L \in Nat /\ start \in Nat /\ s \in Nat /\ c \in Nat /\ c <= s /\ s <= LastTime + Bar
        /\ Long * L - Bar * L \in Nat
    <3>1. Long * L - Bar * L = (Long - Bar) * L /\ Long - Bar \in Nat /\ (Long - Bar) * L \in Nat
      BY <1>1
    <3> QED BY <1>1, <1>3, <3>1
  <2>3. Since(DOMAIN candles, start, c, s) = Since(DOMAIN candles, 0, c, LastTime + Bar)
    <3>1. DOMAIN candles \in SUBSET Opens(Bar) /\ LastOpened(c, Bar, c) /\ NoneMissing(DOMAIN candles, Bar, c, L)
      BY <1>1, <1>2, <1>3 DEF Bars, LastOpened, NoneMissing
    <3>2. \A x \in {start, 0} : x \in Nat /\ LooksBack(x - Long * L, c, Bar, L)
      BY <1>1, <2>1 DEF LooksBack
    <3>3. \A e \in {s, LastTime + Bar} : e \in Nat /\ c <= e
      BY <1>1, <2>1
    <3>4. ASSUME NEW x \in {start, 0}, NEW e \in {s, LastTime + Bar}
          PROVE  Since(DOMAIN candles, x, c, e) = LatestOf(L, {b \in DOMAIN candles : b <= c})
      BY <1>1, <2>1, <3>1, <3>2, <3>3, ReadsLatest
    <3> HIDE DEF Since
    <3> QED BY <3>4
  <2>4. Since(DOMAIN higher, start, s, s) = Since(DOMAIN higher, 0, s, LastTime + Bar)
    <3>1. PICK t \in Nat : t % Long = 0 /\ t <= s /\ s < t + Long
      <4>1. Long * (s \div Long) \in Nat /\ (Long * (s \div Long)) % Long = 0
            /\ Long * (s \div Long) <= s /\ s < Long * (s \div Long) + Long
        <5>1. s \div Long \in Nat /\ s = Long * (s \div Long) + (s % Long) /\ s % Long \in 0 .. Long - 1
          BY <1>1, <2>1
        <5>2. \A q \in Nat : Long * q \in Nat /\ (Long * q) % Long = 0
          BY <1>1
        <5> QED BY <1>1, <2>1, <5>1, <5>2
      <4> QED BY <4>1
    <3>2. /\ DOMAIN higher \in SUBSET Opens(Long) /\ LastOpened(t, Long, s)
          /\ NoneMissing(DOMAIN higher, Long, s, L)
      BY <1>2, <3>1 DEF Longs, LastOpened, NoneMissing
    <3>3. \A x \in {start, 0} : x \in Nat /\ LooksBack(x - Long * L, t, Long, L)
      BY <1>1, <2>1, <3>1 DEF LooksBack
    <3>4. \A e \in {s, LastTime + Bar} : e \in Nat /\ s <= e
      BY <1>1, <2>1
    <3>5. ASSUME NEW x \in {start, 0}, NEW e \in {s, LastTime + Bar}
          PROVE  Since(DOMAIN higher, x, s, e) = LatestOf(L, {b \in DOMAIN higher : b <= s})
      BY <1>1, <2>1, <3>1, <3>2, <3>3, <3>4, ReadsLatest
    <3> HIDE DEF Since
    <3> QED BY <3>5
  <2>6. \A b \in DOMAIN buckets \cup funding : b \in Nat /\ (b <= s => b <= LastTime + Bar)
    <3>1. \A b \in DOMAIN buckets \cup funding : b \in Nat
      BY <1>1, <1>2 DEF TablesInTime
    <3> QED BY <1>1, <2>1, <3>1
  <2>7. SnapshotOf(c, start, s).bars = shot.bars /\ SnapshotOf(c, start, s).higher = shot.higher
    BY <2>3, <2>4 DEF SnapshotOf, SliceLookback
  <2>8. SnapshotOf(c, start, s).funding = shot.funding
    <3>1. {t \in {t \in funding : t <= s} : t <= s} = {t \in {t \in funding : t <= LastTime + Bar} : t <= s}
      BY <2>6
    <3> QED BY <3>1 DEF SnapshotOf, SliceLookback
  <2>9. SnapshotOf(c, start, s).bucket = shot.bucket
    <3>1. c <= s /\ c <= LastTime + Bar
      BY <1>1, <2>1
    <3>2. {b \in {b \in DOMAIN buckets : b <= s} : b <= s}
             = {b \in {b \in DOMAIN buckets : b <= LastTime + Bar} : b <= s}
      BY <2>6
    <3> QED BY <3>1, <3>2 DEF SnapshotOf, ResolveAggBucket
  <2> QED BY <2>7, <2>8, <2>9 DEF SnapshotOf
<1> QED BY <1>6, <1>7

(* Reading on: what the tape is, and what a page takes of what there is.    *)
LEMMA TapeFacts ==
    ASSUME TapeTyped
    PROVE  /\ Len(tape) \in Nat /\ DOMAIN tape = 1 .. Len(tape) /\ clock \in Nat /\ clock <= LastTime
           /\ \A i \in DOMAIN tape : i \in Nat /\ tape[i] \in Nat /\ tape[i] <= LastTime
<1>1. Len(tape) \in Nat /\ DOMAIN tape = 1 .. Len(tape) /\ \A i \in DOMAIN tape : tape[i] \in Nat
  BY LenProperties DEF TapeTyped
<1> QED BY <1>1, BarsTyped DEF TapeTyped

LEMMA PageOfKeys ==
    ASSUME TapeTyped
    PROVE  /\ Batch \subseteq Keys /\ Keys \in SUBSET Nat
           /\ Batch # {} => Max(Batch) \in Batch /\ \A k \in Batch : k <= Max(Batch)
           /\ \A k \in Keys : k \in Batch \/ (Batch # {} /\ Max(Batch) < k)
           /\ Cardinality(Batch) < Limit => Batch = Keys
           /\ Batch = {} => Keys = {} /\ Cardinality(Batch) < Limit
           /\ Cardinality(Batch) \in Nat /\ Cardinality(Batch) <= Limit
<1>1. Limit \in Nat \ {0} /\ LastTime \in Nat
  BY BarsTyped
<1>2. PICK n \in Nat : Keys \in SUBSET (0 .. n)
  <2>1. CASE stage = "trades"
    <3>1. Keys \in SUBSET (0 .. Len(tape)) /\ Len(tape) \in Nat
      BY <2>1, TapeFacts DEF Keys, In
    <3> QED BY <3>1
  <2>2. CASE stage # "trades"
    <3>1. \A k \in Keys : k \in Opens(Span)
      BY <2>2 DEF Keys
    <3>2. \A k \in Keys : k \in 0 .. LastTime
      <4>1. \A k \in Opens(Span) : k \in 0 .. LastTime
        BY DEF Opens
      <4> QED BY <3>1, <4>1
    <3> QED BY <1>1, <3>2
  <2> QED BY <2>1, <2>2
<1>3. Keys \in SUBSET Nat /\ (\A k \in Keys : k \in Nat) /\ IsFiniteSet(Keys)
  <2>1. IsFiniteSet(0 .. n)
    BY FS_Interval
  <2>2. IsFiniteSet(Keys)
    BY <1>2, <2>1, FS_Subset
  <2>3. \A k \in Keys : k \in 0 .. n
    BY <1>2
  <2>4. \A k \in Keys : k \in Nat
    BY <2>3
  <2> QED BY <2>2, <2>4
<1>4. /\ Batch \subseteq Keys
      /\ \A p \in Keys, o \in Batch : p <= o => p \in Batch
      /\ Cardinality(Batch) < Limit => Batch = Keys
      /\ Batch = {} => Keys = {}
  BY <1>1, <1>3, FirstIsBeginning DEF Batch
<1>5. Batch # {} => Max(Batch) \in Batch /\ \A k \in Batch : k <= Max(Batch)
  <2>1. Batch \in SUBSET (0 .. n)
    BY <1>2, <1>4
  <2> QED BY <2>1, MaxOfBounded
<1>6. ASSUME NEW k \in Keys, k \notin Batch PROVE Batch # {} /\ Max(Batch) < k
  <2>1. Batch # {}
    BY <1>4, <1>6
  <2>2. ~(k <= Max(Batch)) /\ k \in Nat /\ Max(Batch) \in Nat
    BY <1>3, <1>4, <1>5, <1>6, <2>1
  <2> QED BY <2>1, <2>2
<1>7. Batch = {} => Cardinality(Batch) < Limit
  BY <1>1, FS_EmptySet
<1>8. Cardinality(Batch) \in Nat
  BY <1>3, <1>4, FS_Subset, FS_CardinalityType
<1>9. Cardinality(Batch) <= Limit
  <2>1. CASE Batch # {}
    <3>1. {p \in Keys : p <= Max(Batch)} = Batch
      <4>1. \A p \in Keys : p \notin Batch => ~(p <= Max(Batch))
        BY <1>3, <1>4, <1>5, <1>6, <2>1
      <4> QED BY <1>4, <1>5, <2>1, <4>1
    <3>2. Cardinality({p \in Keys : p <= Max(Batch)}) <= Limit
      BY <1>5, <2>1 DEF Batch, FirstOf
    <3> QED BY <3>1, <3>2
  <2> QED BY <1>1, <1>7, <1>8, <2>1
<1> QED BY <1>3, <1>4, <1>5, <1>6, <1>7, <1>8, <1>9

(* A page of points takes what was over and lies before the next cursor, or  *)
(* what is left of it when it is the last.                                 *)
LEMMA PageCovers ==
    ASSUME TapeTyped, RunTyped, stage \in {"candles", "higher", "funding", "open_interest"},
           NEW b \in Opens(Span), Over(b, Span), at <= b,
           LastOfStage(Batch) \/ b < NextCursorAfter(Batch)
    PROVE  b \in Batch
<1>0. Span \in Nat /\ Span > 0 /\ \A x \in Opens(Span) : x \in Nat /\ x % Span = 0
  BY SpansTyped, OpensTyped
<1>1. b \in Keys
  <2>1. b <= clock /\ b < to
    BY <1>0, TapeFacts DEF Over, RunTyped
  <2> QED BY <2>1 DEF Keys
<1>2. SUFFICES ASSUME b \notin Batch PROVE FALSE
  OBVIOUS
<1>3. Batch # {} /\ Max(Batch) \in Batch /\ Max(Batch) < b /\ Batch # Keys
  BY <1>1, <1>2, PageOfKeys
<1>4. Max(Batch) \in Opens(Span) /\ Max(Batch) \in Nat /\ b \in Nat /\ to \in Nat
  <2>1. Max(Batch) \in Keys
    BY <1>3, PageOfKeys
  <2>2. Max(Batch) \in Opens(Span)
    BY <2>1 DEF Keys
  <2> QED BY <1>0, <2>2 DEF RunTyped
<1>5. Max(Batch) + Span <= b
  <2>1. ~(b < Max(Batch) + Span)
    <3>1. b % Span = 0 /\ Max(Batch) % Span = 0
      BY <1>0, <1>4
    <3>2. ~(b <= Max(Batch))
      BY <1>3, <1>4
    <3> QED BY <1>0, <1>4, <3>1, <3>2, SpansApart
  <2> QED BY <1>0, <1>4, <2>1
<1>6. NextCursorAfter(Batch) <= b
  BY <1>0, <1>3, <1>4, <1>5 DEF NextCursorAfter
<1>7. NextCursorAfter(Batch) \in Nat
  BY <1>0, <1>4 DEF NextCursorAfter
<1>8. ~LastOfStage(Batch)
  <2>1. b < to
    BY DEF Over
  <2>2. ~(NextCursorAfter(Batch) >= to)
    BY <1>4, <1>6, <1>7, <2>1
  <2>3. ~(Cardinality(Batch) < Limit)
    BY <1>3, PageOfKeys
  <2> QED BY <1>3, <2>2, <2>3 DEF LastOfStage
<1> QED BY <1>4, <1>6, <1>7, <1>8

(* Rows stay in time while the exchange goes on, and those of a page, of     *)
(* trades and of what is stored together with them are in time.            *)
LEMMA RowsInTimeKept ==
    ASSUME TapeTyped, UNCHANGED tape \/ Trade, NEW span, NEW table, RowsInTime(table, span), NEW new, new = table
    PROVE  \A b \in DOMAIN new : b \in Opens(span) /\ \A i \in new[b] : i \in DOMAIN tape' /\ tape'[i] < b + span
<1>1. CASE UNCHANGED tape
  BY <1>1 DEF RowsInTime
<1>2. CASE Trade
  <2>1. tape' = Append(tape, clock)
    BY <1>2 DEF Trade
  <2>2. \A i \in DOMAIN tape : i \in DOMAIN tape' /\ tape'[i] = tape[i]
    <3>1. Len(tape') = Len(tape) + 1 /\ DOMAIN tape' = 1 .. Len(tape')
          /\ \A i \in 1 .. Len(tape) : tape'[i] = tape[i]
      BY <2>1, TapeFacts, AppendProperties, LenProperties DEF TapeTyped
    <3> QED BY <3>1, TapeFacts
  <2> QED BY <2>2 DEF RowsInTime
<1> QED BY <1>1, <1>2

LEMMA RowsMerged ==
    ASSUME NEW span, NEW a, NEW b, RowsInTime(a, span), RowsInTime(b, span) PROVE RowsInTime(Upsert(a, b), span)
BY DEF RowsInTime, Upsert

LEMMA CandlesInTime ==
    ASSUME NEW span, NEW S \in SUBSET Opens(span) PROVE RowsInTime([b \in S |-> In(b, b + span)], span)
BY DEF RowsInTime, In

LEMMA BucketsOf ==
    ASSUME TapeTyped, NEW T \in SUBSET DOMAIN tape
    PROVE  /\ RowsInTime(BucketRows(T), Bar)
           /\ \A b \in Bars :
                 /\ b \in DOMAIN BucketRows(T) <=> \E i \in T : b <= tape[i] /\ tape[i] < b + Bar
                 /\ b \in DOMAIN BucketRows(T) =>
                       BucketRows(T)[b] = {i \in T : b <= tape[i] /\ tape[i] < b + Bar}
<1>1. \A i \in T : i \in DOMAIN tape /\ tape[i] \in Nat /\ tape[i] <= LastTime
  BY TapeFacts
<1>2. ASSUME NEW i \in T
      PROVE  /\ BarOf(tape[i]) \in Bars /\ tape[i] < BarOf(tape[i]) + Bar
             /\ \A b \in Bars : b <= tape[i] /\ tape[i] < b + Bar <=> BarOf(tape[i]) = b
  <2>1. /\ BarOf(tape[i]) \in Nat /\ BarOf(tape[i]) % Bar = 0
        /\ BarOf(tape[i]) <= tape[i] /\ tape[i] < BarOf(tape[i]) + Bar
    BY <1>1, BarOfTime
  <2>2. BarOf(tape[i]) \in Bars
    BY <1>1, <2>1, BarsTyped DEF Bars, Opens
  <2>3. ASSUME NEW b \in Bars, b <= tape[i], tape[i] < b + Bar PROVE BarOf(tape[i]) = b
    <3>1. b \in Nat /\ b % Bar = 0
      BY BarsTyped
    <3> QED BY <1>1, <2>3, <3>1, BarOfTime
  <2> QED BY <2>1, <2>2, <2>3
<1>3. /\ DOMAIN BucketRows(T) = {BarOf(tape[i]) : i \in T}
      /\ \A b \in DOMAIN BucketRows(T) : BucketRows(T)[b] = {i \in T : BarOf(tape[i]) = b}
  BY DEF BucketRows
<1>4. RowsInTime(BucketRows(T), Bar)
  BY <1>1, <1>2, <1>3 DEF RowsInTime, Bars
<1>5. ASSUME NEW b \in Bars
      PROVE  /\ b \in DOMAIN BucketRows(T) <=> \E i \in T : b <= tape[i] /\ tape[i] < b + Bar
             /\ b \in DOMAIN BucketRows(T) =>
                   BucketRows(T)[b] = {i \in T : b <= tape[i] /\ tape[i] < b + Bar}
  BY <1>2, <1>3
<1> QED BY <1>4, <1>5

(* The hours of the bootstrap lie next to one another. *)
LEMMA HoursApart ==
    ASSUME RunTyped, from < to
    PROVE  /\ from \in Hours
           /\ \A h \in Hours : h \in Nat /\ from <= h /\ h < to /\ h < HourEnd(h) /\ HourEnd(h) <= to
                              /\ HourEnd(h) \in Nat
           /\ \A g, h \in Hours : g < h => HourEnd(g) <= h
           /\ \A h \in Hours : HourEnd(h) # to => HourEnd(h) \in Hours
<1>1. Hour \in Nat /\ Hour > 0 /\ from \in Nat /\ to \in Nat
  BY BarsTyped DEF RunTyped
<1>2. \A h \in Hours : h \in Nat /\ from <= h /\ h < to /\ (h - from) % Hour = 0
  BY <1>1 DEF Hours
<1>3. \A h \in Hours : h < HourEnd(h) /\ HourEnd(h) <= to /\ HourEnd(h) \in Nat
                       /\ HourEnd(h) <= h + Hour /\ (HourEnd(h) # to => HourEnd(h) = h + Hour /\ h + Hour < to)
  BY <1>1, <1>2 DEF HourEnd, Least
<1>4. from \in Hours
  BY <1>1 DEF Hours
<1>5. \A x, y \in Nat : x % Hour = 0 /\ y % Hour = 0 /\ x < y => x + Hour <= y
  <2>1. SUFFICES ASSUME NEW x \in Nat, NEW y \in Nat, x % Hour = 0, y % Hour = 0, x < y PROVE x + Hour <= y
    OBVIOUS
  <2>2. PICK p \in Int : x = Hour * p
    <3>1. x = Hour * (x \div Hour) /\ x \div Hour \in Int
      BY <1>1, <2>1
    <3> QED BY <3>1
  <2>3. PICK q \in Int : y = Hour * q
    <3>1. y = Hour * (y \div Hour) /\ y \div Hour \in Int
      BY <1>1, <2>1
    <3> QED BY <3>1
  <2>4. p + 1 <= q
    BY <1>1, <2>1, <2>2, <2>3
  <2>5. Hour * (p + 1) <= Hour * q /\ Hour * (p + 1) = Hour * p + Hour
    BY <1>1, <2>4
  <2> QED BY <1>1, <2>2, <2>3, <2>5
<1>6. ASSUME NEW g \in Hours, NEW h \in Hours, g < h PROVE HourEnd(g) <= h
  <2>1. /\ g - from \in Nat /\ h - from \in Nat /\ g - from < h - from
        /\ (g - from) % Hour = 0 /\ (h - from) % Hour = 0
    BY <1>1, <1>2, <1>6
  <2>2. (g - from) + Hour <= h - from
    BY <1>5, <2>1
  <2> QED BY <1>1, <1>2, <1>3, <2>2
<1>7. ASSUME NEW h \in Hours, HourEnd(h) # to PROVE HourEnd(h) \in Hours
  <2>1. HourEnd(h) = h + Hour /\ h + Hour < to
    BY <1>3, <1>7
  <2>2. \A x \in Nat : x % Hour = 0 => (x + Hour) % Hour = 0
    <3>1. SUFFICES ASSUME NEW x \in Nat, x % Hour = 0 PROVE (x + Hour) % Hour = 0
      OBVIOUS
    <3>2. PICK q \in Int : x = Hour * q
      <4>1. x = Hour * (x \div Hour) /\ x \div Hour \in Int
        BY <1>1, <3>1
      <4> QED BY <4>1
    <3>3. x + Hour = Hour * (q + 1) /\ q + 1 \in Int
      BY <1>1, <3>2
    <3>4. \A j \in Int : (Hour * j) % Hour = 0
      BY <1>1
    <3> QED BY <3>3, <3>4
  <2> DEFINE g == h + Hour
  <2>3. h - from \in Nat /\ (h - from) % Hour = 0 /\ (h - from) + Hour = g - from
    BY <1>1, <1>2
  <2>4. g \in from .. to - 1
    BY <1>1, <1>2, <2>1
  <2>5. (g - from) % Hour = 0
    BY <2>2, <2>3
  <2>6. HourEnd(h) = g
    BY <2>1
  <2> HIDE DEF g
  <2>7. g \in Hours
    BY <2>4, <2>5 DEF Hours
  <2> QED BY <2>6, <2>7
<1> QED BY <1>2, <1>3, <1>4, <1>6, <1>7

(* A page of trades is all there is up to the next cursor, or to the hour's  *)
(* end, but for what it loses on its own edge.                             *)
EdgesAfter == IF stage = "trades" /\ Cardinality(Batch) = Limit THEN edges \cup {Max(Batch)} ELSE edges

LostAfter(i) == \E e \in EdgesAfter : e < i /\ tape[e] = tape[i]

ReadTo == IF LastOfStage(Batch) THEN WindowEnd ELSE NextCursorAfter(Batch)

LEMMA PageOfTrades ==
    ASSUME TapeTyped, RunTyped, TradesFetched, stage = "trades"
    PROVE  /\ Batch = {i \in In(at, ReadTo) : ~LostAfter(i)}
           /\ at <= ReadTo /\ ReadTo <= WindowEnd /\ ReadTo \in Nat
           /\ ~LastOfStage(Batch) => ReadTo < WindowEnd
           /\ EdgesAfter \subseteq DOMAIN tape /\ \A e \in EdgesAfter : tape[e] < ReadTo
           /\ \A i \in DOMAIN tape : tape[i] < at => (LostAfter(i) <=> LostOnEdge(i))
<1>1. /\ at \in Nat /\ WindowEnd \in Nat /\ at < WindowEnd
      /\ edges \subseteq DOMAIN tape /\ \A e \in edges : tape[e] < at
  <2>1. window \in Hours /\ from < to
    BY DEF RunTyped, TradesFetched
  <2> QED BY <2>1, HoursApart DEF RunTyped, TradesFetched, WindowEnd
<1>2. \A i \in DOMAIN tape : i \in Nat /\ tape[i] \in Nat
  BY TapeFacts
<1>3. Keys = In(at, WindowEnd) /\ Keys \subseteq DOMAIN tape /\ Batch \subseteq Keys
  BY PageOfKeys DEF Keys, In
<1>4. \A i \in Keys : at <= tape[i] /\ tape[i] < WindowEnd
  BY <1>3 DEF In
<1> DEFINE M == Max(Batch)
<1>5. Batch # {} => /\ M \in Batch /\ M \in DOMAIN tape /\ at <= tape[M] /\ tape[M] < WindowEnd
                    /\ \A i \in DOMAIN tape : M < i => tape[M] <= tape[i]
                    /\ \A i \in DOMAIN tape : i <= M => tape[i] <= tape[M]
  BY <1>2, <1>3, <1>4, PageOfKeys DEF TapeTyped
<1>6. \A i \in Keys : i \in Batch <=> (Batch # {} /\ i <= M)
  <2>1. \A i \in Keys : i \in Batch => Batch # {} /\ i <= M
    BY PageOfKeys
  <2>2. \A i \in Keys : i \notin Batch /\ Batch # {} => ~(i <= M)
    BY <1>2, <1>3, <1>5, PageOfKeys
  <2> QED BY <2>1, <2>2
<1>7. NextCursorAfter(Batch) = tape[M] + 1
  BY DEF NextCursorAfter, CandleStages
<1>8. \A i \in Keys : ~LostOnEdge(i)
  BY <1>1, <1>2, <1>3, <1>4 DEF LostOnEdge
<1> HIDE DEF M
<1>9. CASE Cardinality(Batch) = Limit
  <2>1. Batch # {} /\ EdgesAfter = edges \cup {M}
    BY <1>9, BarsTyped, PageOfKeys DEF EdgesAfter, M
  <2>2. \A i \in DOMAIN tape : LostAfter(i) <=> LostOnEdge(i) \/ (M < i /\ tape[M] = tape[i])
    BY <2>1 DEF LostAfter, LostOnEdge
  <2>3. ReadTo = IF tape[M] + 1 >= WindowEnd THEN WindowEnd ELSE tape[M] + 1
    <3>1. ~(Cardinality(Batch) < Limit)
      BY <1>9, BarsTyped
    <3> QED BY <1>7, <2>1, <3>1 DEF ReadTo, LastOfStage
  <2>4. ReadTo \in Nat /\ ReadTo = tape[M] + 1 /\ at <= ReadTo /\ ReadTo <= WindowEnd
    BY <1>1, <1>2, <1>5, <2>1, <2>3
  <2>5. ASSUME NEW i \in DOMAIN tape PROVE i \in Batch <=> i \in In(at, ReadTo) /\ ~LostAfter(i)
    <3>1. i \in Keys <=> at <= tape[i] /\ tape[i] < WindowEnd
      BY <1>3 DEF In
    <3>2. i \in In(at, ReadTo) <=> at <= tape[i] /\ tape[i] <= tape[M]
      BY <1>2, <1>5, <2>1, <2>4 DEF In
    <3>3. i \in Keys => (LostAfter(i) <=> M < i /\ tape[M] = tape[i])
      BY <1>8, <2>2
    <3>4. i \in In(at, ReadTo) => i \in Keys
      BY <1>1, <1>2, <1>5, <2>1, <3>1, <3>2
    <3>5. CASE i <= M
      BY <1>2, <1>3, <1>4, <1>5, <1>6, <2>1, <3>2, <3>3, <3>4, <3>5
    <3>6. CASE M < i
      BY <1>2, <1>3, <1>5, <1>6, <2>1, <3>2, <3>3, <3>4, <3>6
    <3> QED BY <1>2, <1>5, <2>1, <3>5, <3>6
  <2>6. Batch \subseteq DOMAIN tape /\ In(at, ReadTo) \subseteq DOMAIN tape
    BY <1>3 DEF In
  <2>7. \A i \in DOMAIN tape : tape[i] < at => (LostAfter(i) <=> LostOnEdge(i))
    BY <1>1, <1>2, <1>5, <2>1, <2>2
  <2>8. EdgesAfter \subseteq DOMAIN tape /\ \A e \in EdgesAfter : tape[e] < ReadTo
    BY <1>1, <1>2, <1>5, <2>1, <2>4
  <2>9. ~LastOfStage(Batch) => ReadTo < WindowEnd
    BY <1>1, <1>2, <1>5, <1>7, <2>1, <2>4 DEF LastOfStage
  <2> QED BY <2>4, <2>5, <2>6, <2>7, <2>8, <2>9
<1>10. CASE Cardinality(Batch) # Limit
  <2>1. EdgesAfter = edges /\ \A i : LostAfter(i) <=> LostOnEdge(i)
    BY <1>10 DEF EdgesAfter, LostAfter, LostOnEdge
  <2>2. Batch = Keys /\ LastOfStage(Batch)
    <3>1. CASE Batch = {}
      BY <3>1, PageOfKeys DEF LastOfStage
    <3>2. CASE Batch # {}
      <4>1. Cardinality(Batch) < Limit
        BY <1>10, BarsTyped, PageOfKeys
      <4>2. stage \notin CandleStages
        BY DEF CandleStages
      <4> QED BY <4>1, <4>2, PageOfKeys DEF LastOfStage
    <3> QED BY <3>1, <3>2
  <2>3. ReadTo = WindowEnd
    BY <2>2 DEF ReadTo
  <2>4. Batch = {i \in In(at, ReadTo) : ~LostAfter(i)}
    BY <1>3, <1>8, <2>1, <2>2, <2>3
  <2>5. \A e \in edges : tape[e] < WindowEnd
    BY <1>1, <1>2
  <2> QED BY <1>1, <2>1, <2>2, <2>3, <2>4, <2>5
<1> QED BY <1>9, <1>10

(* What an hour has fetched is stored whole, and hides no earlier hour of    *)
(* the buckets it does not touch.                                          *)
Taken == DOMAIN got \cup Batch

LEMMA HourStored ==
    ASSUME TapeTyped, RunTyped, TradesFetched, stage = "trades", LastOfStage(Batch),
           buckets' = Upsert(buckets, BucketRows(Taken)), edges' = EdgesAfter,
           UNCHANGED <<tape, from, to, began>>, NEW b \in Bars, NEW W, W = WindowEnd
    PROVE  BucketExplained(b, W)'
<1> DEFINE Mine(u) == {h \in Hours : h < u /\ Part(b, h) # {}}
<1>1. /\ window \in Hours /\ from < to /\ window \in Nat /\ W \in Nat /\ window < W
      /\ window <= at /\ at \in Nat /\ at < W
      /\ \A h \in Hours : h \in Nat /\ h < HourEnd(h) /\ HourEnd(h) \in Nat
      /\ \A g, h \in Hours : g < h => HourEnd(g) <= h
  <2>1. window \in Hours /\ from < to
    BY DEF RunTyped, TradesFetched
  <2> QED BY <2>1, HoursApart DEF RunTyped, TradesFetched, WindowEnd
<1>2. Bar \in Nat /\ b \in Nat /\ \A i \in DOMAIN tape : i \in Nat /\ tape[i] \in Nat
  BY BarsTyped, TapeFacts
<1>3. \A h \in Hours, i \in DOMAIN tape :
          i \in Part(b, h) <=> h <= tape[i] /\ tape[i] < HourEnd(h) /\ b <= tape[i] /\ tape[i] < b + Bar
  BY <1>1, <1>2 DEF Part, In, Most, Least
<1>4. \A h : Part(b, h) \subseteq DOMAIN tape
  BY DEF Part, In
<1>5. /\ Taken \subseteq DOMAIN tape
      /\ \A i \in Taken : window <= tape[i] /\ tape[i] < W
      /\ W <= began => Taken = {i \in In(window, W) : ~LostAfter(i)}
  <2>1. /\ Batch = {i \in In(at, W) : ~LostAfter(i)}
        /\ \A i \in DOMAIN tape : tape[i] < at => (LostAfter(i) <=> LostOnEdge(i))
    BY PageOfTrades DEF ReadTo
  <2>2. DOMAIN got \subseteq In(window, W) /\ (W <= began => DOMAIN got = {i \in In(window, at) : ~LostOnEdge(i)})
    BY DEF TradesFetched
  <2>3. In(window, W) = In(window, at) \cup In(at, W) /\ In(window, W) \subseteq DOMAIN tape
        /\ \A i \in In(window, at) : i \in DOMAIN tape /\ tape[i] < at
    BY <1>1, <1>2 DEF In
  <2>4. Taken \subseteq In(window, W)
    BY <2>1, <2>2, <2>3 DEF Taken
  <2>5. W <= began => Taken = {i \in In(window, W) : ~LostAfter(i)}
    BY <2>1, <2>2, <2>3 DEF Taken
  <2> QED BY <2>4, <2>5 DEF In
<1>6. /\ b \in DOMAIN BucketRows(Taken) <=> \E i \in Taken : b <= tape[i] /\ tape[i] < b + Bar
      /\ b \in DOMAIN BucketRows(Taken) =>
             BucketRows(Taken)[b] = {i \in Taken : b <= tape[i] /\ tape[i] < b + Bar}
  BY <1>5, BucketsOf
<1>7. \A h \in Hours : h < W => h <= window
  BY <1>1 DEF WindowEnd
<1>8. SUFFICES ASSUME \A h \in Mine(W) : HourEnd(h) <= began,
                      NEW h \in Mine(W), \A g \in Mine(W) : g <= h
               PROVE  /\ b \in DOMAIN Upsert(buckets, BucketRows(Taken))
                      /\ Upsert(buckets, BucketRows(Taken))[b] = {i \in Part(b, h) : ~LostAfter(i)}
  <2>1. Hours' = Hours /\ (\A g : Part(b, g)' = Part(b, g)) /\ (\A g : HourEnd(g)' = HourEnd(g))
        /\ \A i : LostOnEdge(i)' <=> LostAfter(i)
    BY DEF HourEnd, Hours, Part, In, LostOnEdge, LostAfter
  <2> QED BY <2>1 DEF BucketExplained
<1>9. CASE h = window
  <2>1. W <= began
    BY <1>8, <1>9 DEF WindowEnd
  <2>2. PICK i \in Part(b, h) : \A j \in Part(b, h) : i <= j
    <3>1. Part(b, h) \in SUBSET Nat /\ Part(b, h) # {}
      BY <1>2, <1>4, <1>8
    <3> QED BY <3>1, LeastNat
  <2>3. ~LostAfter(i)
    <3>1. SUFFICES ASSUME NEW e \in EdgesAfter, e < i, tape[e] = tape[i] PROVE FALSE
      BY DEF LostAfter
    <3>2. e \in DOMAIN tape
      BY PageOfTrades
    <3>3. e \in Part(b, h)
      BY <1>3, <1>4, <1>9, <1>1, <2>2, <3>1, <3>2
    <3> QED BY <1>2, <1>4, <2>2, <3>1, <3>2, <3>3
  <2>4. \A j \in DOMAIN tape : j \in Part(b, h) /\ ~LostAfter(j) <=> j \in Taken /\ b <= tape[j] /\ tape[j] < b + Bar
    <3>1. \A j \in DOMAIN tape : j \in In(window, W) <=> window <= tape[j] /\ tape[j] < W
      BY DEF In
    <3> QED BY <1>1, <1>3, <1>5, <1>9, <2>1, <3>1 DEF WindowEnd
  <2>5. {j \in Taken : b <= tape[j] /\ tape[j] < b + Bar} = {j \in Part(b, h) : ~LostAfter(j)}
    BY <1>4, <1>5, <2>4
  <2>6. b \in DOMAIN BucketRows(Taken)
    BY <1>4, <1>6, <2>2, <2>3, <2>4
  <2> QED BY <1>6, <2>5, <2>6 DEF Upsert
<1>10. CASE h # window
  <2>1. h < window /\ h \in Hours
    BY <1>1, <1>7, <1>8, <1>10
  <2>2. window \notin Mine(W)
    BY <1>1, <1>8, <2>1
  <2>3. Part(b, window) = {}
    BY <1>1, <2>2
  <2>4. b \notin DOMAIN BucketRows(Taken)
    <3>1. \A i \in Taken : i \in DOMAIN tape /\ ~(b <= tape[i] /\ tape[i] < b + Bar)
      BY <1>1, <1>3, <1>5, <2>3 DEF WindowEnd
    <3> QED BY <1>6, <3>1
  <2>5. /\ \A g \in Mine(window) : g \in Mine(W)
        /\ h \in Mine(window)
    BY <1>1, <1>8, <2>1
  <2>6. b \in DOMAIN buckets /\ buckets[b] = {i \in Part(b, h) : ~LostOnEdge(i)}
    <3>1. BucketExplained(b, window)
      BY DEF TradesFetched
    <3> QED BY <1>8, <2>5, <3>1 DEF BucketExplained
  <2>7. \A i \in Part(b, h) : LostAfter(i) <=> LostOnEdge(i)
    <3>1. \A i \in Part(b, h) : i \in DOMAIN tape /\ tape[i] < at
      BY <1>1, <1>2, <1>3, <1>4, <2>1
    <3> QED BY <3>1, PageOfTrades
  <2> QED BY <2>4, <2>6, <2>7 DEF Upsert
<1> QED BY <1>9, <1>10

(* What lies before the cursor, or is in the page that has been asked for. *)
LEMMA ReadOn ==
    ASSUME HistoryInv, stage \in {"candles", "higher", "funding", "open_interest"},
           NEW b \in Opens(Span), Over(b, Span), b >= clock - Lookback \/ stage # "open_interest",
           LastOfStage(Batch) \/ b < NextCursorAfter(Batch)
    PROVE  /\ b \in DOMAIN got \cup Batch
           /\ stage \in CandleStages /\ b \notin Batch => got[b] = In(b, b + Span)
<1>1. CASE b < at
  <2>1. CASE stage = "higher"
    <3>1. Span = Long /\ b \in Longs
      BY <2>1 DEF Span, Longs
    <3> QED BY <1>1, <2>1, <3>1 DEF HistoryInv, PointsFetched, LongsFetched, WholeIn
  <2>2. CASE stage # "higher"
    <3>1. Span = Bar /\ b \in Bars
      BY <2>2 DEF Span, Bars
    <3>2. stage \in CandleStages <=> stage = "candles"
      BY <2>2 DEF CandleStages
    <3> QED BY <1>1, <2>2, <3>1, <3>2 DEF HistoryInv, PointsFetched, BarsFetched, WholeIn
  <2> QED BY <2>1, <2>2
<1>2. CASE ~(b < at)
  <2>1. at <= b
    BY <1>2, SpansTyped, OpensTyped DEF HistoryInv, RunTyped
  <2> QED BY <2>1, PageCovers DEF HistoryInv
<1> QED BY <1>1, <1>2

(* A page that ends no stage. *)
LEMMA PageRead ==
    ASSUME HistoryInv, TakePage, ~LastOfStage(Batch)
    PROVE  HistoryInv'
<1> DEFINE new == [k \in Batch |-> IF stage \in CandleStages THEN In(k, k + Span) ELSE {}]
<1>1. /\ got' = Upsert(got, new) /\ at' = NextCursorAfter(Batch) /\ edges' = EdgesAfter
      /\ UNCHANGED <<candles, higher, buckets, funding, interest, stage, window, clock, tape, from, to, began>>
      /\ stage \in {"candles", "higher", "funding", "open_interest", "trades"}
  <2>1. stage \in {"candles", "higher", "funding", "open_interest", "trades"}
    BY DEF TakePage, Asking, Running, HistoryInv, RunTyped
  <2>2. got' = Upsert(got, new) /\ at' = NextCursorAfter(Batch)
        /\ UNCHANGED <<candles, higher, buckets, funding, interest, stage, window>>
    BY DEF TakePage
  <2>3. edges' = EdgesAfter /\ UNCHANGED <<clock, tape, from, to, began>>
    BY DEF TakePage, exchangeVars, EdgesAfter
  <2> QED BY <2>1, <2>2, <2>3
<1>2. DOMAIN got' = DOMAIN got \cup Batch
      /\ \A k \in DOMAIN got' : got'[k] = IF k \in Batch THEN new[k] ELSE got[k]
  BY <1>1 DEF Upsert
<1>3. Batch # {} /\ Max(Batch) \in Batch /\ Batch \subseteq Keys
  BY PageOfKeys DEF HistoryInv, LastOfStage
<1>4. TapeTyped'
  BY <1>1 DEF HistoryInv, TapeTyped
<1>5. stage # "trades" => /\ Batch \subseteq Opens(Span) /\ at' \in Nat /\ at' < to
                          /\ edges' = edges /\ edges = {}
  <2>1. SUFFICES ASSUME stage # "trades" PROVE Batch \subseteq Opens(Span) /\ at' \in Nat /\ at' < to /\ edges' = edges /\ edges = {}
    OBVIOUS
  <2>2. Batch \subseteq Opens(Span)
    BY <1>3, <2>1 DEF Keys
  <2>3. Max(Batch) \in Nat
    BY <1>3, <2>2, SpansTyped, OpensTyped
  <2>4. at' \in Nat
    BY <1>1, <2>1, <2>3, SpansTyped DEF NextCursorAfter
  <2>5. at' < to
    BY <1>1, <2>1, <2>4 DEF LastOfStage, HistoryInv, RunTyped
  <2> QED BY <1>1, <2>1, <2>2, <2>4, <2>5 DEF HistoryInv, TradesFetched, TakePage
<1>6. CASE stage # "trades"
  <2>1. RunTyped'
    BY <1>1, <1>5, <1>6 DEF HistoryInv, RunTyped
  <2>2. TablesInTime'
    <3>1. RowsInTime(candles, Bar)' /\ RowsInTime(higher, Long)' /\ RowsInTime(buckets, Bar)' /\ (funding \subseteq Bars)'
      BY <1>1 DEF HistoryInv, TablesInTime, RowsInTime, Opens, Bars
    <3>2. ASSUME stage \in CandleStages PROVE RowsInTime(got, Span)'
      <4>1. RowsInTime(new, Span) /\ RowsInTime(got, Span)
        BY <1>5, <1>6, <3>2, CandlesInTime DEF HistoryInv, TablesInTime
      <4>2. RowsInTime(Upsert(got, new), Span)
        <5> HIDE DEF new
        <5> QED BY <4>1, RowsMerged
      <4> QED BY <1>1, <4>2 DEF RowsInTime, Opens, Span
    <3>3. stage = "funding" => (DOMAIN got \subseteq Bars)'
      BY <1>2, <1>5, <1>6, SpansTyped DEF HistoryInv, TablesInTime, Bars, Opens
    <3> QED BY <1>1, <3>1, <3>2, <3>3 DEF TablesInTime, CandleStages
  <2>3. PointsFetched'
    <3>1. ASSUME NEW b \in Opens(Span), Over(b, Span), b < at', b >= clock - Lookback \/ stage # "open_interest"
          PROVE  b \in DOMAIN got' /\ (stage \in CandleStages => got'[b] = In(b, b + Span))
      <4>1. /\ b \in DOMAIN got \cup Batch
            /\ stage \in CandleStages /\ b \notin Batch => got[b] = In(b, b + Span)
        BY <1>1, <1>6, <3>1, ReadOn
      <4> QED BY <1>2, <4>1
    <3>2. \A b, span : Over(b, span)' <=> Over(b, span)
      BY <1>1 DEF Over
    <3>3. \A a, z : In(a, z)' = In(a, z)
      BY <1>1 DEF In
    <3>4. Bars' = Bars /\ Longs' = Longs
      BY DEF Bars, Longs, Opens
    <3> HIDE DEF new
    <3>5. ASSUME NEW b \in Bars, Over(b, Bar)
          PROVE  /\ stage' = "candles" /\ b < at' => WholeIn(got', b, Bar)
                 /\ stage' \notin {"idle", "candles"} => WholeIn(candles', b, Bar)
                 /\ stage' = "funding" /\ b < at' => b \in DOMAIN got'
                 /\ stage' \in {"open_interest", "trades", "done"} => b \in funding'
                 /\ b >= clock' - Lookback =>
                       /\ stage' = "open_interest" /\ b < at' => b \in DOMAIN got'
                       /\ stage' \in {"trades", "done"} => b \in interest'
      <4>1. ASSUME stage \in {"candles", "funding", "open_interest"}, b < at',
                   b >= clock - Lookback \/ stage # "open_interest"
            PROVE  b \in DOMAIN got' /\ (stage = "candles" => got'[b] = In(b, b + Bar))
        <5>1. Span = Bar /\ b \in Opens(Span) /\ (stage = "candles" <=> stage \in CandleStages)
          BY <4>1 DEF Bars, CandleStages, Span
        <5> QED BY <3>1, <3>5, <4>1, <5>1
      <4>2. /\ stage \notin {"idle", "candles"} => WholeIn(candles, b, Bar)
            /\ stage \in {"open_interest", "trades", "done"} => b \in funding
            /\ b >= clock - Lookback => (stage \in {"trades", "done"} => b \in interest)
        BY <3>5 DEF HistoryInv, PointsFetched, BarsFetched
      <4> QED BY <1>1, <4>1, <4>2 DEF WholeIn
    <3>6. ASSUME NEW b \in Longs, Over(b, Long)
          PROVE  /\ stage' = "higher" /\ b < at' => WholeIn(got', b, Long)
                 /\ stage' \notin {"idle", "candles", "higher"} => WholeIn(higher', b, Long)
      <4>1. ASSUME stage = "higher", b < at' PROVE b \in DOMAIN got' /\ got'[b] = In(b, b + Long)
        <5>1. Span = Long /\ b \in Opens(Span) /\ stage \in CandleStages
          BY <4>1 DEF Longs, CandleStages, Span
        <5> QED BY <3>1, <3>6, <4>1, <5>1
      <4>2. stage \notin {"idle", "candles", "higher"} => WholeIn(higher, b, Long)
        BY <3>6 DEF HistoryInv, PointsFetched, LongsFetched
      <4> QED BY <1>1, <4>1, <4>2 DEF WholeIn
    <3>7. BarsFetched'
      BY <3>2, <3>3, <3>4, <3>5 DEF BarsFetched, WholeIn
    <3>8. LongsFetched'
      BY <3>2, <3>3, <3>4, <3>6 DEF LongsFetched, WholeIn
    <3> QED BY <3>7, <3>8 DEF PointsFetched
  <2>4. TradesFetched'
    BY <1>1, <1>5, <1>6 DEF HistoryInv, TradesFetched
  <2> QED BY <1>4, <2>1, <2>2, <2>3, <2>4 DEF HistoryInv
<1>7. CASE stage = "trades"
  <2>1. /\ Batch = {i \in In(at, at') : ~LostAfter(i)}
        /\ at <= at' /\ at' < WindowEnd /\ at' \in Nat
        /\ EdgesAfter \subseteq DOMAIN tape /\ \A e \in EdgesAfter : tape[e] < at'
        /\ \A i \in DOMAIN tape : tape[i] < at => (LostAfter(i) <=> LostOnEdge(i))
    BY <1>1, <1>7, PageOfTrades DEF HistoryInv, ReadTo
  <2>2. RunTyped'
    BY <1>1, <1>7, <2>1 DEF HistoryInv, RunTyped
  <2>3. TablesInTime'
    BY <1>1, <1>7 DEF HistoryInv, TablesInTime, RowsInTime, Opens, Bars, CandleStages
  <2>4. PointsFetched'
    BY <1>1, <1>7 DEF HistoryInv, PointsFetched, BarsFetched, LongsFetched, WholeIn, Over, Bars, Longs, Opens, In
  <2>5. /\ window \in Hours /\ window \in Nat /\ window <= at /\ at \in Nat /\ WindowEnd \in Nat
        /\ \A h \in Hours : h < window => HourEnd(h) <= window /\ HourEnd(h) \in Nat
    <3>1. window \in Hours /\ from < to /\ window <= at /\ at \in Nat
      BY <1>7 DEF HistoryInv, RunTyped, TradesFetched
    <3> QED BY <3>1, HoursApart DEF HistoryInv, WindowEnd
  <2>6. \A i \in DOMAIN tape : tape[i] \in Nat
    BY TapeFacts DEF HistoryInv
  <2>7. \A i : LostOnEdge(i)' <=> LostAfter(i)
    BY <1>1 DEF LostOnEdge, LostAfter
  <2>8. DOMAIN got' \subseteq In(window, WindowEnd)
    <3>1. DOMAIN got \subseteq In(window, WindowEnd)
      BY <1>7 DEF HistoryInv, TradesFetched
    <3>2. Batch \subseteq In(window, WindowEnd)
      BY <2>1, <2>5, <2>6 DEF In
    <3> QED BY <1>2, <3>1, <3>2
  <2>9. ASSUME WindowEnd <= began PROVE DOMAIN got' = {i \in In(window, at') : ~LostAfter(i)}
    <3>1. DOMAIN got = {i \in In(window, at) : ~LostOnEdge(i)}
      BY <1>7, <2>9 DEF HistoryInv, TradesFetched
    <3>2. In(window, at') = In(window, at) \cup In(at, at')
          /\ \A i \in In(window, at) : i \in DOMAIN tape /\ tape[i] < at
      BY <2>1, <2>5, <2>6 DEF In
    <3> QED BY <1>2, <2>1, <3>1, <3>2
  <2>10. ASSUME NEW b \in Bars, NEW w, w = window PROVE BucketExplained(b, w)'
    <3>1. BucketExplained(b, w)
      BY <1>7, <2>10 DEF HistoryInv, TradesFetched
    <3>2. Hours' = Hours /\ (\A g : Part(b, g)' = Part(b, g)) /\ (\A g : HourEnd(g)' = HourEnd(g))
          /\ buckets' = buckets /\ began' = began
      BY <1>1 DEF HourEnd, Hours, Part, In
    <3>3. \A h \in Hours : \A i \in Part(b, h) : h < w => (LostOnEdge(i)' <=> LostOnEdge(i))
      <4>1. ASSUME NEW h \in Hours, h < w, NEW i \in Part(b, h) PROVE i \in DOMAIN tape /\ tape[i] < at
        <5>1. i \in DOMAIN tape /\ tape[i] < Least(HourEnd(h), b + Bar)
          BY <4>1 DEF Part, In
        <5>2. HourEnd(h) <= window /\ HourEnd(h) \in Nat /\ b + Bar \in Nat
          BY <2>5, <2>10, <4>1, BarsTyped
        <5> QED BY <2>5, <2>6, <5>1, <5>2 DEF Least
      <4> QED BY <2>1, <2>7, <4>1
    <3> QED BY <3>1, <3>2, <3>3 DEF BucketExplained
  <2>11. TradesFetched'
    <3>1. Hours' = Hours /\ WindowEnd' = WindowEnd /\ (\A a, z : In(a, z)' = In(a, z)) /\ Bars' = Bars
      BY <1>1 DEF Hours, WindowEnd, HourEnd, In, Bars, Opens
    <3>2. \A b \in Bars : BucketExplained(b, window)'
      BY <1>1, <2>10
    <3>3. {i \in In(window, at) : ~LostOnEdge(i)}' = {i \in In(window, at') : ~LostAfter(i)}
      BY <1>1, <2>7, <3>1
    <3>4. window <= at'
      BY <2>1, <2>5
    <3> QED BY <1>1, <1>7, <2>1, <2>5, <2>8, <2>9, <3>1, <3>2, <3>3, <3>4 DEF TradesFetched
  <2> QED BY <1>4, <2>2, <2>3, <2>4, <2>11 DEF HistoryInv
<1> QED BY <1>6, <1>7

(* A stage that has all that was over when the bootstrap began. *)
StageDone(all) ==
    /\ \A b \in Opens(Span) : Over(b, Span) /\ (b >= clock - Lookback \/ stage # "open_interest") =>
          b \in DOMAIN all /\ (stage \in CandleStages => all[b] = In(b, b + Span))
    /\ stage \in CandleStages => RowsInTime(all, Span)
    /\ stage = "funding" => DOMAIN all \subseteq Bars

LEMMA StageEnds ==
    ASSUME HistoryInv, NEW all, Commit(all), UNCHANGED <<clock, tape, from, to, began>>, DOMAIN got' = {},
           \/ stage \in {"candles", "higher", "funding", "open_interest"} /\ StageDone(all) /\ edges' = edges
           \/ stage = "trades" /\ LastOfStage(Batch) /\ DOMAIN all = Taken /\ edges' = EdgesAfter
    PROVE  HistoryInv'
<1>1. TapeTyped'
  BY DEF HistoryInv, TapeTyped
<1>2. /\ Bars' = Bars /\ Longs' = Longs /\ (\A span : Opens(span)' = Opens(span)) /\ Hours' = Hours
      /\ (\A a, z : In(a, z)' = In(a, z)) /\ (\A h : HourEnd(h)' = HourEnd(h))
      /\ \A b, span : Over(b, span)' <=> Over(b, span)
  BY DEF Bars, Longs, Opens, Hours, In, HourEnd, Over
<1>3. from \in Nat /\ to \in Nat /\ began \in Nat /\ clock \in Nat /\ Lookback \in Nat /\ began <= clock
  BY TapeFacts, BarsTyped DEF HistoryInv, RunTyped
<1>4. CASE stage = "candles"
  <2>1. /\ candles' = Upsert(candles, all) /\ stage' = "higher" /\ at' = from
        /\ UNCHANGED <<higher, buckets, funding, interest, window>> /\ StageDone(all) /\ edges' = edges
    BY <1>4 DEF Commit
  <2>2. from < to /\ edges = {} /\ Span = Bar /\ stage \in CandleStages
    BY <1>4 DEF HistoryInv, RunTyped, TradesFetched, Span, CandleStages
  <2>3. RunTyped'
    BY <1>4, <2>1, <2>2 DEF HistoryInv, RunTyped
  <2>4. RowsInTime(Upsert(candles, all), Bar)
    BY <1>4, <2>1, <2>2, RowsMerged DEF StageDone, HistoryInv, TablesInTime
  <2>5. TablesInTime'
    BY <1>2, <2>1, <2>4 DEF HistoryInv, TablesInTime, RowsInTime
  <2>6. \A b \in Bars : Over(b, Bar) => WholeIn(candles, b, Bar)'
    <3>1. stage # "open_interest"
      BY <1>4
    <3>2. \A b \in Bars : Over(b, Bar) => b \in DOMAIN all /\ all[b] = In(b, b + Bar)
      BY <2>1, <2>2, <3>1 DEF StageDone, Bars
    <3>3. \A b \in DOMAIN all : b \in DOMAIN candles' /\ candles'[b] = all[b]
      BY <2>1 DEF Upsert
    <3> QED BY <1>2, <3>2, <3>3 DEF WholeIn
  <2>7. PointsFetched'
    <3>1. \A b \in Longs : Over(b, Long) => ~(b < from)
      BY <1>3, SpansTyped, OpensTyped DEF Over, Longs
    <3>2. LongsFetched'
      BY <1>2, <2>1, <3>1 DEF LongsFetched
    <3>3. BarsFetched'
      BY <1>2, <2>1, <2>6 DEF BarsFetched
    <3> QED BY <3>2, <3>3 DEF PointsFetched
  <2>8. TradesFetched'
    BY <2>1, <2>2 DEF TradesFetched
  <2> QED BY <1>1, <2>3, <2>5, <2>7, <2>8 DEF HistoryInv
<1>8. CASE stage = "higher"
  <2>1. /\ higher' = Upsert(higher, all) /\ stage' = "funding" /\ at' = from
        /\ UNCHANGED <<candles, buckets, funding, interest, window>> /\ StageDone(all) /\ edges' = edges
    BY <1>8 DEF Commit
  <2>2. from < to /\ edges = {} /\ Span = Long /\ stage \in CandleStages
    BY <1>8 DEF HistoryInv, RunTyped, TradesFetched, Span, CandleStages
  <2>3. RunTyped'
    BY <1>8, <2>1, <2>2 DEF HistoryInv, RunTyped
  <2>4. RowsInTime(Upsert(higher, all), Long)
    BY <1>8, <2>1, <2>2, RowsMerged DEF StageDone, HistoryInv, TablesInTime
  <2>5. TablesInTime'
    <3>1. RowsInTime(candles, Bar)' /\ RowsInTime(higher, Long)' /\ RowsInTime(buckets, Bar)'
      BY <1>2, <2>1, <2>4 DEF HistoryInv, TablesInTime, RowsInTime
    <3>2. stage' \notin CandleStages /\ DOMAIN got' \subseteq Bars' /\ funding' \subseteq Bars'
      BY <1>2, <2>1 DEF HistoryInv, TablesInTime, CandleStages
    <3> QED BY <3>1, <3>2 DEF TablesInTime, CandleStages
  <2>6. \A b \in Longs : Over(b, Long) => WholeIn(higher, b, Long)'
    <3>1. stage # "open_interest"
      BY <1>8
    <3>2. \A b \in Longs : Over(b, Long) => b \in DOMAIN all /\ all[b] = In(b, b + Long)
      BY <2>1, <2>2, <3>1 DEF StageDone, Longs
    <3>3. \A b \in DOMAIN all : b \in DOMAIN higher' /\ higher'[b] = all[b]
      BY <2>1 DEF Upsert
    <3> QED BY <1>2, <3>2, <3>3 DEF WholeIn
  <2>7. PointsFetched'
    <3>1. \A b \in Bars : Over(b, Bar) => ~(b < from) /\ WholeIn(candles, b, Bar)'
      BY <1>2, <1>3, <1>8, <2>1, BarsTyped DEF Over, HistoryInv, PointsFetched, BarsFetched, WholeIn
    <3>2. LongsFetched'
      BY <1>2, <2>1, <2>6 DEF LongsFetched
    <3>3. BarsFetched'
      BY <1>2, <2>1, <3>1 DEF BarsFetched
    <3> QED BY <3>2, <3>3 DEF PointsFetched
  <2>8. TradesFetched'
    BY <2>1, <2>2 DEF TradesFetched
  <2> QED BY <1>1, <2>3, <2>5, <2>7, <2>8 DEF HistoryInv
<1>5. CASE stage = "funding"
  <2>1. /\ funding' = funding \cup DOMAIN all /\ stage' = "open_interest" /\ at' = Most(from, clock - Lookback)
        /\ UNCHANGED <<candles, higher, buckets, interest, window>> /\ StageDone(all) /\ edges' = edges
    BY <1>5 DEF Commit
  <2>2. from < to /\ edges = {}
    BY <1>5 DEF HistoryInv, RunTyped, TradesFetched
  <2>3. at' \in Nat /\ \A b \in Nat : b < at' => b < from \/ ~(b >= clock - Lookback)
    BY <1>3, <2>1 DEF Most
  <2>4. RunTyped'
    BY <1>5, <2>1, <2>2, <2>3 DEF HistoryInv, RunTyped
  <2>5. TablesInTime'
    <3>1. RowsInTime(candles, Bar)' /\ RowsInTime(higher, Long)' /\ RowsInTime(buckets, Bar)'
      BY <1>2, <2>1 DEF HistoryInv, TablesInTime, RowsInTime
    <3>2. stage' \notin CandleStages /\ stage' # "funding" /\ funding' \subseteq Bars'
      BY <1>2, <1>5, <2>1 DEF HistoryInv, TablesInTime, StageDone, CandleStages
    <3> QED BY <3>1, <3>2 DEF TablesInTime, CandleStages
  <2>6. \A b \in Bars : Over(b, Bar) => WholeIn(candles, b, Bar)'
    BY <1>2, <1>5, <2>1 DEF HistoryInv, PointsFetched, BarsFetched, WholeIn
  <2>7. \A b \in Bars : Over(b, Bar) => b \in funding'
    BY <1>5, <2>1 DEF StageDone, Span, Bars
  <2>8. PointsFetched'
    <3>1. \A b \in Bars : Over(b, Bar) => ~(b < from) /\ b \in Nat
      BY <1>3, BarsTyped DEF Over
    <3>2. BarsFetched'
      BY <1>2, <2>1, <2>3, <2>6, <2>7, <3>1 DEF BarsFetched
    <3>3. LongsFetched'
      BY <1>2, <1>5, <2>1 DEF HistoryInv, PointsFetched, LongsFetched, WholeIn
    <3> QED BY <3>2, <3>3 DEF PointsFetched
  <2>9. TradesFetched'
    BY <2>1, <2>2 DEF TradesFetched
  <2> QED BY <1>1, <2>4, <2>5, <2>8, <2>9 DEF HistoryInv
<1>6. CASE stage = "open_interest"
  <2>1. /\ interest' = interest \cup DOMAIN all /\ stage' = "trades" /\ window' = from /\ at' = from
        /\ UNCHANGED <<candles, higher, buckets, funding>> /\ StageDone(all) /\ edges' = edges
    BY <1>6 DEF Commit
  <2>2. from < to /\ edges = {}
    BY <1>6 DEF HistoryInv, RunTyped, TradesFetched
  <2>3. /\ from \in Hours /\ from < HourEnd(from)
        /\ \A h \in Hours : ~(h < from)
    <3>1. \A h \in Hours : h \in Nat /\ from <= h
      BY <2>2, HoursApart DEF HistoryInv
    <3> QED BY <1>3, <2>2, <3>1, HoursApart DEF HistoryInv
  <2>4. RunTyped'
    BY <1>3, <1>6, <2>1, <2>2 DEF HistoryInv, RunTyped
  <2>5. TablesInTime'
    BY <1>2, <1>6, <2>1 DEF HistoryInv, TablesInTime, RowsInTime, CandleStages
  <2>6. \A b \in Bars : Over(b, Bar) =>
            WholeIn(candles, b, Bar)' /\ b \in funding' /\ (b >= clock - Lookback => b \in interest')
    <3>1. \A b \in Bars : Over(b, Bar) => WholeIn(candles, b, Bar) /\ b \in funding
      BY <1>6 DEF HistoryInv, PointsFetched, BarsFetched
    <3>2. \A b \in Bars : Over(b, Bar) /\ b >= clock - Lookback => b \in DOMAIN all
      BY <1>6, <2>1 DEF StageDone, Span, Bars
    <3> QED BY <1>2, <2>1, <3>1, <3>2 DEF WholeIn
  <2>7. PointsFetched'
    <3>1. BarsFetched'
      BY <1>2, <2>1, <2>6 DEF BarsFetched
    <3>2. LongsFetched'
      BY <1>2, <1>6, <2>1 DEF HistoryInv, PointsFetched, LongsFetched, WholeIn
    <3> QED BY <3>1, <3>2 DEF PointsFetched
  <2>8. TradesFetched'
    <3>1. WindowEnd' = HourEnd(from)
      BY <1>2, <2>1 DEF WindowEnd
    <3>2. In(window, at)' = {} /\ DOMAIN got' = {}
      <4>1. \A i \in DOMAIN tape : tape[i] \in Nat
        BY TapeFacts DEF HistoryInv
      <4>2. In(from, from) = {}
        BY <1>3, <4>1 DEF In
      <4>3. In(window, at)' = In(from, from)
        BY <2>1 DEF In
      <4> QED BY <4>2, <4>3
    <3>3. \A b \in Bars : BucketExplained(b, from)'
      BY <1>2, <2>3 DEF BucketExplained
    <3>4. \A b \in Bars : BucketExplained(b, IF stage = "done" THEN to ELSE window)'
      BY <2>1, <3>3
    <3> QED BY <1>2, <1>3, <2>1, <2>2, <2>3, <3>1, <3>2, <3>4 DEF TradesFetched
  <2> QED BY <1>1, <2>4, <2>5, <2>7, <2>8 DEF HistoryInv
<1>7. CASE stage = "trades"
  <2>1. /\ buckets' = Upsert(buckets, BucketRows(Taken))
        /\ stage' = IF WindowEnd = to THEN "done" ELSE "trades"
        /\ window' = WindowEnd /\ at' = WindowEnd /\ LastOfStage(Batch) /\ edges' = EdgesAfter
        /\ UNCHANGED <<candles, higher, funding, interest>>
    BY <1>7 DEF Commit
  <2>2. /\ window \in Hours /\ from < to /\ WindowEnd \in Nat
        /\ WindowEnd # to => WindowEnd \in Hours /\ WindowEnd < HourEnd(WindowEnd)
    <3>1. window \in Hours /\ from < to
      BY <1>7 DEF HistoryInv, RunTyped, TradesFetched
    <3> QED BY <3>1, HoursApart DEF HistoryInv, WindowEnd
  <2>3. EdgesAfter \subseteq DOMAIN tape /\ \A e \in EdgesAfter : tape[e] < WindowEnd
    BY <1>7, <2>1, PageOfTrades DEF HistoryInv, ReadTo
  <2>4. Taken \subseteq DOMAIN tape
    <3>1. DOMAIN got \subseteq DOMAIN tape
      BY <1>7 DEF HistoryInv, TradesFetched, In
    <3>2. Batch \subseteq DOMAIN tape
      BY <1>7, PageOfKeys DEF HistoryInv, Keys, In
    <3> QED BY <3>1, <3>2 DEF Taken
  <2>5. RunTyped'
    BY <1>3, <1>7, <2>1, <2>2 DEF HistoryInv, RunTyped
  <2>6. TablesInTime'
    <3>1. RowsInTime(Upsert(buckets, BucketRows(Taken)), Bar)
      BY <2>4, BucketsOf, RowsMerged DEF HistoryInv, TablesInTime
    <3> QED BY <1>2, <1>7, <2>1, <3>1 DEF HistoryInv, TablesInTime, RowsInTime, CandleStages
  <2>7. PointsFetched'
    BY <1>2, <1>7, <2>1 DEF HistoryInv, PointsFetched, BarsFetched, LongsFetched, WholeIn
  <2>8. TradesFetched'
    <3>1. WindowEnd' = HourEnd(WindowEnd)
      BY <1>2, <2>1 DEF WindowEnd
    <3>2. (In(window, at) = {})' /\ DOMAIN got' = {}
      <4>1. \A i \in DOMAIN tape : tape[i] \in Nat
        BY TapeFacts DEF HistoryInv
      <4>2. \A w \in Nat : In(w, w) = {}
        BY <4>1 DEF In
      <4>3. In(window, at)' = In(WindowEnd, WindowEnd)
        BY <2>1 DEF In
      <4> QED BY <2>2, <4>2, <4>3
    <3>3. ASSUME NEW b \in Bars, NEW w, w = WindowEnd PROVE BucketExplained(b, w)'
      BY <1>7, <2>1, <3>3, HourStored DEF HistoryInv
    <3>4. \A b \in Bars : BucketExplained(b, IF stage = "done" THEN to ELSE window)'
      BY <2>1, <3>3
    <3> QED BY <1>2, <2>1, <2>2, <2>3, <3>1, <3>2, <3>4 DEF TradesFetched
  <2> QED BY <1>1, <2>5, <2>6, <2>7, <2>8 DEF HistoryInv
<1> QED BY <1>4, <1>5, <1>6, <1>7, <1>8

LEMMA StageTaken == ASSUME HistoryInv, TakePage, LastOfStage(Batch) PROVE HistoryInv'
<1> DEFINE new == [k \in Batch |-> IF stage \in CandleStages THEN In(k, k + Span) ELSE {}]
<1> DEFINE all == Upsert(got, new)
<1>1. /\ Commit(all) /\ got' = <<>> /\ edges' = EdgesAfter
      /\ UNCHANGED <<clock, tape, from, to, began>>
  BY DEF TakePage, exchangeVars, EdgesAfter
<1>2. stage \in {"candles", "higher", "funding", "open_interest", "trades"}
  BY DEF TakePage, Asking, Running, HistoryInv, RunTyped
<1>3. DOMAIN all = DOMAIN got \cup Batch
      /\ \A k \in DOMAIN all : all[k] = IF k \in Batch THEN new[k] ELSE got[k]
  BY DEF Upsert
<1>4. DOMAIN got' = {}
  BY <1>1
<1>5. CASE stage # "trades"
  <2>1. Batch \subseteq Opens(Span)
    BY <1>5, PageOfKeys DEF HistoryInv, Keys
  <2>2. edges' = edges
    BY <1>5 DEF TakePage
  <2>3. ASSUME NEW b \in Opens(Span), Over(b, Span), b >= clock - Lookback \/ stage # "open_interest"
        PROVE  b \in DOMAIN all /\ (stage \in CandleStages => all[b] = In(b, b + Span))
    <3>1. /\ b \in DOMAIN got \cup Batch
          /\ stage \in CandleStages /\ b \notin Batch => got[b] = In(b, b + Span)
      BY <1>2, <1>5, <2>3, ReadOn
    <3> QED BY <1>3, <3>1
  <2>4. stage \in CandleStages => RowsInTime(all, Span)
    <3>1. stage \in CandleStages => RowsInTime(new, Span) /\ RowsInTime(got, Span)
      BY <2>1, CandlesInTime DEF HistoryInv, TablesInTime
    <3> HIDE DEF new
    <3> QED BY <3>1, RowsMerged
  <2>5. stage = "funding" => DOMAIN all \subseteq Bars
    BY <1>3, <2>1, SpansTyped DEF HistoryInv, TablesInTime, Bars
  <2> HIDE DEF all
  <2>6. StageDone(all)
    BY <2>3, <2>4, <2>5 DEF StageDone
  <2> QED BY <1>1, <1>2, <1>4, <1>5, <2>2, <2>6, StageEnds
<1>6. CASE stage = "trades"
  <2> HIDE DEF all
  <2>1. DOMAIN all = Taken
    BY <1>3 DEF Taken
  <2> QED BY <1>1, <1>4, <1>6, <2>1, StageEnds
<1> QED BY <1>5, <1>6

LEMMA InterestSkipped == ASSUME HistoryInv, SkipInterest PROVE HistoryInv'
<1> DEFINE none == <<>>
<1>1. /\ Commit(none) /\ got' = got /\ edges' = edges
      /\ UNCHANGED <<clock, tape, from, to, began>>
  BY DEF SkipInterest, exchangeVars
<1>2. stage = "open_interest" /\ ~(at < to) /\ DOMAIN got = {}
  <2>1. stage \in {"candles", "higher", "funding", "open_interest", "trades"}
    BY DEF SkipInterest, Running, HistoryInv, RunTyped
  <2> QED BY <2>1 DEF SkipInterest, Asking, HistoryInv, RunTyped, TradesFetched
<1>3. StageDone(none)
  <2>1. \A b \in Bars : Over(b, Bar) => b < at
    <3>1. at \in Nat /\ to \in Nat
      BY DEF HistoryInv, RunTyped
    <3> QED BY <1>2, <3>1, BarsTyped DEF Over
  <2>2. \A b \in Bars : ~(Over(b, Bar) /\ b >= clock - Lookback)
    BY <1>2, <2>1 DEF HistoryInv, PointsFetched, BarsFetched
  <2>3. Span = Bar /\ stage \notin CandleStages
    BY <1>2 DEF Span, CandleStages
  <2> QED BY <1>2, <2>2, <2>3 DEF StageDone, Bars
<1> HIDE DEF none
<1> QED BY <1>1, <1>2, <1>3, StageEnds

(* While the exchange goes on, what was over stays as it was. *)
LEMMA TradePrinted == ASSUME HistoryInv, Trade PROVE HistoryInv'
<1>1. /\ tape' = Append(tape, clock)
      /\ UNCHANGED <<clock, candles, higher, buckets, funding, interest, stage, from, to, began, window, at, got, edges>>
  BY DEF Trade, tableVars, runVars
<1>2. Len(tape) \in Nat /\ DOMAIN tape = 1 .. Len(tape) /\ clock \in Nat
      /\ \A i \in DOMAIN tape : tape[i] \in Nat
  BY TapeFacts DEF HistoryInv
<1>3. /\ DOMAIN tape' = DOMAIN tape \cup {Len(tape) + 1} /\ tape' \in Seq(Nat)
      /\ tape'[Len(tape) + 1] = clock /\ \A i \in DOMAIN tape : tape'[i] = tape[i]
  <2>1. tape' \in Seq(Nat) /\ Len(tape') = Len(tape) + 1 /\ DOMAIN tape' = 1 .. Len(tape')
        /\ tape'[Len(tape) + 1] = clock /\ \A i \in 1 .. Len(tape) : tape'[i] = tape[i]
    BY <1>1, <1>2, AppendProperties, LenProperties DEF HistoryInv, TapeTyped
  <2> QED BY <1>2, <2>1
<1>4. \A a \in Nat, z \in Nat :
          In(a, z) \subseteq In(a, z)' /\ (z <= clock => In(a, z)' = In(a, z))
  BY <1>2, <1>3 DEF In
<1>5. TapeTyped'
  BY <1>1, <1>2, <1>3 DEF HistoryInv, TapeTyped
<1>6. RunTyped'
  BY <1>1 DEF HistoryInv, RunTyped
<1>7. TablesInTime'
  <2>1. RowsInTime(candles, Bar)' /\ RowsInTime(higher, Long)' /\ RowsInTime(buckets, Bar)'
    BY <1>1, RowsInTimeKept DEF HistoryInv, TablesInTime, RowsInTime, Opens
  <2>2. stage \in CandleStages => RowsInTime(got, Span)'
    BY <1>1, RowsInTimeKept DEF HistoryInv, TablesInTime, RowsInTime, Opens, Span
  <2> QED BY <1>1, <2>1, <2>2 DEF HistoryInv, TablesInTime, Bars, Opens, CandleStages
<1>8. /\ began \in Nat /\ to \in Nat /\ at \in Nat /\ window \in Nat /\ began <= clock
      /\ Bar \in Nat /\ \A b \in Bars : b \in Nat
  BY BarsTyped DEF HistoryInv, RunTyped
<1>9. PointsFetched'
  <2>1. ASSUME NEW span \in {Bar, Long}, NEW b \in Opens(span), Over(b, span)'
        PROVE  Over(b, span) /\ In(b, b + span)' = In(b, b + span)
    <3>1. span \in Nat /\ b \in Nat /\ b + span \in Nat
      BY SpansTyped, OpensTyped
    <3>2. Over(b, span) /\ b + span <= clock
      BY <1>1, <1>2, <1>8, <2>1, <3>1 DEF Over
    <3>3. PICK z \in Nat : z = b + span
      BY <3>1
    <3>4. In(b, z)' = In(b, z)
      BY <1>4, <3>1, <3>2, <3>3
    <3> QED BY <3>2, <3>3, <3>4
  <2>2. Bars' = Bars /\ Longs' = Longs
    BY DEF Bars, Longs, Opens
  <2>3. BarsFetched'
    BY <1>1, <2>1, <2>2 DEF HistoryInv, PointsFetched, BarsFetched, WholeIn, Bars
  <2>4. LongsFetched'
    BY <1>1, <2>1, <2>2 DEF HistoryInv, PointsFetched, LongsFetched, WholeIn, Longs
  <2> QED BY <2>3, <2>4 DEF PointsFetched
<1>10. TradesFetched'
  <2>1. Hours' = Hours /\ Bars' = Bars /\ WindowEnd' = WindowEnd /\ (\A h : HourEnd(h)' = HourEnd(h))
    BY <1>1 DEF Hours, Bars, Opens, WindowEnd, HourEnd
  <2>2. edges \subseteq DOMAIN tape /\ edges' \subseteq DOMAIN tape' /\ \A e \in edges : tape'[e] = tape[e]
    BY <1>1, <1>3 DEF HistoryInv, TradesFetched
  <2>3. \A i \in DOMAIN tape : LostOnEdge(i)' <=> LostOnEdge(i)
    BY <1>1, <1>3, <2>2 DEF LostOnEdge
  <2>4. stage # "idle" => \A h \in Hours : h \in Nat /\ HourEnd(h) \in Nat
    BY HoursApart DEF HistoryInv, RunTyped
  <2>5. ASSUME NEW b \in Bars, NEW u, BucketExplained(b, u), stage # "idle" PROVE BucketExplained(b, u)'
    <3>1. \A h \in Hours : Part(b, h) \subseteq Part(b, h)' /\ (HourEnd(h) <= began => Part(b, h)' = Part(b, h))
      <4>1. SUFFICES ASSUME NEW h \in Hours
                     PROVE  Part(b, h) \subseteq Part(b, h)' /\ (HourEnd(h) <= began => Part(b, h)' = Part(b, h))
        OBVIOUS
      <4> DEFINE lo == Most(b, h)
      <4> DEFINE hi == Least(HourEnd(h), b + Bar)
      <4>2. lo \in Nat /\ hi \in Nat /\ (HourEnd(h) <= began => hi <= clock) /\ hi' = hi /\ lo' = lo
        <5>1. h \in Nat /\ HourEnd(h) \in Nat /\ b \in Nat /\ b + Bar \in Nat
          BY <1>8, <2>4, <2>5
        <5> QED BY <1>2, <1>8, <2>1, <5>1 DEF Most, Least
      <4>3. Part(b, h) = In(lo, hi)
        BY DEF Part
      <4>4. Part(b, h)' = In(lo, hi)'
        BY DEF Part
      <4> HIDE DEF lo, hi
      <4>5. PICK l \in Nat, k \in Nat : l = lo /\ k = hi
        BY <4>2
      <4>6. In(l, k) \subseteq In(l, k)' /\ (k <= clock => In(l, k)' = In(l, k))
        BY <1>4
      <4>7. Part(b, h) = In(l, k) /\ Part(b, h)' = In(l, k)'
        BY <4>2, <4>3, <4>4, <4>5 DEF In
      <4> QED BY <4>2, <4>5, <4>6, <4>7
    <3>2. \A h : Part(b, h) \subseteq DOMAIN tape
      BY DEF Part, In
    <3>3. SUFFICES ASSUME \A h \in Hours : h < u /\ Part(b, h)' # {} => HourEnd(h) <= began,
                          NEW h \in Hours, h < u, Part(b, h)' # {},
                          \A g \in Hours : g < u /\ Part(b, g)' # {} => g <= h
                   PROVE  b \in DOMAIN buckets' /\ buckets'[b] = {i \in Part(b, h)' : ~LostOnEdge(i)'}
      BY <1>1, <2>1 DEF BucketExplained
    <3>4. \A g \in Hours : g < u /\ Part(b, g) # {} => Part(b, g)' # {}
      BY <3>1
    <3>5. Part(b, h)' = Part(b, h)
      BY <3>1, <3>3
    <3>6. b \in DOMAIN buckets /\ buckets[b] = {i \in Part(b, h) : ~LostOnEdge(i)}
      BY <2>5, <3>3, <3>4, <3>5 DEF BucketExplained
    <3> QED BY <1>1, <2>3, <3>2, <3>5, <3>6
  <2>6. ASSUME stage = "trades"
        PROVE  /\ WindowEnd \in Nat /\ In(window, WindowEnd) \subseteq In(window, WindowEnd)'
               /\ WindowEnd <= began => In(window, at)' = In(window, at)
    <3>1. WindowEnd \in Nat /\ at < WindowEnd
      BY <2>4, <2>6 DEF HistoryInv, TradesFetched, WindowEnd
    <3>2. In(window, WindowEnd) \subseteq In(window, WindowEnd)'
      <4>1. PICK w \in Nat, k \in Nat : w = window /\ k = WindowEnd
        BY <1>8, <3>1
      <4>2. In(w, k) \subseteq In(w, k)'
        BY <1>4
      <4> QED BY <1>1, <2>1, <4>1, <4>2 DEF In
    <3>3. WindowEnd <= began => In(window, at)' = In(window, at)
      <4>1. PICK w \in Nat, k \in Nat : w = window /\ k = at
        BY <1>8
      <4>2. k <= clock => In(w, k)' = In(w, k)
        BY <1>4
      <4>3. WindowEnd <= began => at <= clock
        BY <1>2, <1>8, <3>1
      <4> QED BY <1>1, <4>1, <4>2, <4>3 DEF In
    <3> QED BY <3>1, <3>2, <3>3
  <2>7. ASSUME stage = "trades", WindowEnd <= began
        PROVE  {i \in In(window, at) : ~LostOnEdge(i)}' = {i \in In(window, at) : ~LostOnEdge(i)}
    <3>1. In(window, at) \subseteq DOMAIN tape
      BY DEF In
    <3> QED BY <2>3, <2>6, <2>7, <3>1
  <2>8. stage \in {"trades", "done"} =>
            \A b \in Bars : BucketExplained(b, IF stage = "done" THEN to ELSE window)'
    <3>1. PICK u : u = IF stage = "done" THEN to ELSE window
      OBVIOUS
    <3>2. stage \in {"trades", "done"} => \A b \in Bars : BucketExplained(b, u)
      BY <3>1 DEF HistoryInv, TradesFetched
    <3> QED BY <1>1, <2>5, <3>1, <3>2
  <2>9. edges' = edges /\ (edges = {} \/ stage \in {"trades", "done"})
        /\ (stage = "trades" => \A e \in edges : tape'[e] < at')
    BY <1>1, <2>2 DEF HistoryInv, TradesFetched
  <2>10. stage = "trades" => /\ window \in Hours /\ window <= at /\ at < WindowEnd
                             /\ DOMAIN got \subseteq In(window, WindowEnd)'
                             /\ WindowEnd <= began => DOMAIN got = {i \in In(window, at) : ~LostOnEdge(i)}'
    BY <2>6, <2>7 DEF HistoryInv, TradesFetched
  <2> QED BY <1>1, <2>1, <2>2, <2>8, <2>9, <2>10 DEF TradesFetched
<1> QED BY <1>5, <1>6, <1>7, <1>9, <1>10 DEF HistoryInv

LEMMA TimePassed == ASSUME HistoryInv, Pass PROVE HistoryInv'
<1>1. /\ clock' = clock + 1 /\ clock < LastTime
      /\ UNCHANGED <<tape, candles, higher, buckets, funding, interest, stage, from, to, began, window, at, got, edges>>
  BY DEF Pass, tableVars, runVars
<1>2. clock \in Nat /\ LastTime \in Nat /\ Lookback \in Nat /\ \A i \in DOMAIN tape : tape[i] \in Nat
  BY TapeFacts, BarsTyped DEF HistoryInv
<1>3. TapeTyped'
  BY <1>1, <1>2 DEF HistoryInv, TapeTyped
<1>4. RunTyped'
  BY <1>1, <1>2 DEF HistoryInv, RunTyped
<1>5. TablesInTime'
  BY <1>1 DEF HistoryInv, TablesInTime, RowsInTime, Opens, Bars, Span, CandleStages
<1>6. PointsFetched'
  <2>1. \A b \in Bars : b >= clock' - Lookback => b >= clock - Lookback
    BY <1>1, <1>2, BarsTyped
  <2>2. /\ Bars' = Bars /\ Longs' = Longs /\ (\A b, span : Over(b, span)' <=> Over(b, span))
        /\ \A a, z : In(a, z)' = In(a, z)
    BY <1>1 DEF Bars, Longs, Opens, Over, In
  <2>3. BarsFetched'
    BY <1>1, <2>1, <2>2 DEF HistoryInv, PointsFetched, BarsFetched, WholeIn
  <2>4. LongsFetched'
    BY <1>1, <2>2 DEF HistoryInv, PointsFetched, LongsFetched, WholeIn
  <2> QED BY <2>3, <2>4 DEF PointsFetched
<1>7. TradesFetched'
  BY <1>1 DEF HistoryInv, TradesFetched, WindowEnd, HourEnd, Hours, In, LostOnEdge, BucketExplained, Part, Bars, Opens
<1> QED BY <1>3, <1>4, <1>5, <1>6, <1>7 DEF HistoryInv

(* A script that is not the bootstrap, and a bootstrap that begins or that   *)
(* is given up, leave nothing to be explained.                             *)
LEMMA RunLeft ==
    ASSUME HistoryInv, UNCHANGED <<clock, tape>>, TablesInTime',
           Forget \/ StartBootstrap
    PROVE  HistoryInv'
<1>1. TapeTyped'
  BY DEF HistoryInv, TapeTyped
<1>2. clock \in Nat /\ LastTime \in Nat
  BY TapeFacts, BarsTyped DEF HistoryInv
<1>3. RunTyped' /\ edges' = {} /\ stage' \in {"idle", "candles"} /\ (stage' = "candles" => at' = from' /\ from' \in Nat)
  BY <1>2 DEF Forget, StartBootstrap, RunTyped
<1>4. TradesFetched'
  BY <1>3 DEF TradesFetched
<1>5. PointsFetched'
  <2>1. \A b \in Bars : stage' = "candles" /\ Over(b, Bar)' => ~(b < at')
    BY <1>3, BarsTyped DEF Over
  <2> QED BY <1>3, <2>1 DEF PointsFetched, BarsFetched, LongsFetched, Bars, Opens
<1> QED BY <1>1, <1>3, <1>4, <1>5 DEF HistoryInv

LEMMA HistoryStep == ASSUME HistoryInv, HistoryNext PROVE HistoryInv'
<1> USE DEF HistoryInv
<1>1. CASE Pass \/ Trade
  BY <1>1, TimePassed, TradePrinted
<1>2. CASE TakePage \/ SkipInterest
  BY <1>2, PageRead, StageTaken, InterestSkipped
<1>3. CASE RateLimited
  <2>1. UNCHANGED <<clock, tape, candles, higher, buckets, funding, interest, stage, from, to, began, window, at, got, edges>>
    BY <1>3 DEF RateLimited, exchangeVars, tableVars
  <2>2. TapeTyped' /\ RunTyped' /\ TablesInTime' /\ PointsFetched'
    BY <2>1 DEF TapeTyped, RunTyped, TablesInTime, RowsInTime, PointsFetched, BarsFetched, LongsFetched, WholeIn, Over,
                Opens, Bars, Longs, Span, CandleStages, In
  <2>3. TradesFetched'
    BY <2>1 DEF TradesFetched, WindowEnd, HourEnd, Hours, In, LostOnEdge, BucketExplained, Part, Bars, Opens
  <2> QED BY <2>2, <2>3
<1>4. CASE StartBootstrap
  <2>1. UNCHANGED <<clock, tape, candles, higher, buckets, funding, interest>> /\ stage' = "candles" /\ got' = <<>>
    BY <1>4 DEF StartBootstrap, exchangeVars, tableVars
  <2>2. TablesInTime'
    BY <2>1 DEF TablesInTime, RowsInTime, Opens, Bars, CandleStages
  <2> QED BY <1>4, <2>1, <2>2, RunLeft
<1>5. ASSUME Forget, UNCHANGED <<clock, tape>>, RowsInTime(candles', Bar), RowsInTime(higher', Long),
             RowsInTime(buckets', Bar), funding' \subseteq Bars
      PROVE  HistoryInv'
  <2>1. TablesInTime'
    BY <1>5 DEF TablesInTime, RowsInTime, Opens, Bars, CandleStages, Forget
  <2> HIDE DEF HistoryInv
  <2> QED BY <1>5, <2>1, RunLeft
<1>6. CASE Abandon
  BY <1>5, <1>6 DEF Abandon, exchangeVars, tableVars, TablesInTime
<1>7. ASSUME NEW span, NEW table, RowsInTime(table, span), NEW S \in SUBSET Opens(span)
      PROVE  RowsInTime(Upsert(table, [b \in S |-> In(b, b + span)]), span)
  <2> DEFINE new == [b \in S |-> In(b, b + span)]
  <2>1. RowsInTime(new, span)
    BY CandlesInTime
  <2> HIDE DEF new
  <2>2. RowsInTime(Upsert(table, new), span)
    BY <1>7, <2>1, RowsMerged
  <2> QED BY <2>2 DEF new
<1>8. CASE LoadTradeZip
  <2>1. PICK day : buckets' = Upsert(buckets, BucketRows(In(day, day + Day)))
    BY <1>8 DEF LoadTradeZip
  <2>2. In(day, day + Day) \in SUBSET DOMAIN tape
    BY DEF In
  <2>3. RowsInTime(buckets', Bar)
    BY <2>1, <2>2, BucketsOf, RowsMerged DEF TablesInTime
  <2> QED BY <1>5, <1>8, <2>3 DEF LoadTradeZip, Load, exchangeVars, TablesInTime
<1>9. CASE LoadCandleZip
  <2>1. PICK bars \in SUBSET Bars, longs \in SUBSET Longs :
            /\ candles' = Upsert(candles, [b \in bars |-> In(b, b + Bar)])
            /\ higher' = Upsert(higher, [b \in longs |-> In(b, b + Long)])
    BY <1>9 DEF LoadCandleZip, BarsOf, LongsOf
  <2>2. RowsInTime(candles', Bar) /\ RowsInTime(higher', Long)
    BY <1>7, <2>1 DEF TablesInTime, Bars, Longs
  <2> QED BY <1>5, <1>9, <2>2 DEF LoadCandleZip, Load, exchangeVars, TablesInTime
<1>10. CASE RefreshCandles
  <2>1. RowsInTime(candles', Bar)
    <3>1. PICK bars \in SUBSET Bars : candles' = Upsert(candles, [b \in bars |-> In(b, b + Bar)])
      BY <1>10 DEF RefreshCandles
    <3> QED BY <1>7, <3>1 DEF TablesInTime, Bars
  <2> QED BY <1>5, <1>10, <2>1 DEF RefreshCandles, Load, exchangeVars, TablesInTime
<1>11. CASE LoadFunding
  <2>1. funding' \subseteq Bars
    BY <1>11 DEF LoadFunding, TablesInTime
  <2> QED BY <1>5, <1>11, <2>1 DEF LoadFunding, Load, exchangeVars, TablesInTime
<1>12. CASE LoadInterestZip \/ BackfillCvd
  <2>1. Forget /\ UNCHANGED <<clock, tape, candles, higher, buckets, funding>>
    BY <1>12 DEF LoadInterestZip, BackfillCvd, Load, exchangeVars
  <2> QED BY <1>5, <2>1 DEF TablesInTime
<1> QED BY <1>1, <1>2, <1>3, <1>4, <1>6, <1>8, <1>9, <1>10, <1>11, <1>12 DEF HistoryNext

LEMMA HistoryHolds == CollectorsSpec => []HistoryInv
<1>1. CollectorsInit => HistoryInv
  <2> SUFFICES ASSUME CollectorsInit PROVE HistoryInv
    OBVIOUS
  <2>1. /\ clock = 0 /\ tape = <<>> /\ candles = <<>> /\ higher = <<>> /\ buckets = <<>> /\ funding = {} /\ edges = {}
        /\ stage = "idle" /\ from = 0 /\ to = 0 /\ began = 0 /\ window = 0 /\ at = 0
    BY DEF CollectorsInit, HistoryInit
  <2>2. TapeTyped /\ RunTyped
    BY <2>1, BarsTyped DEF TapeTyped, RunTyped
  <2> QED BY <2>1, <2>2 DEF HistoryInv, TablesInTime, RowsInTime, PointsFetched, BarsFetched, LongsFetched,
                                TradesFetched, CandleStages
<1>2. ASSUME HistoryInv, [Requests \/ Fill \/ Collect \/ Backfill \/ Bias]_collectorVars PROVE HistoryInv'
  <2>1. CASE Fill
    BY <1>2, <2>1, HistoryStep DEF Fill
  <2>2. ASSUME UNCHANGED historyVars PROVE HistoryInv'
    <3>1. UNCHANGED <<clock, tape, candles, higher, buckets, funding, interest, stage, from, to, began, window, at, got, edges>>
      BY <2>2 DEF historyVars, exchangeVars, tableVars, runVars
    <3>2. TapeTyped' /\ RunTyped' /\ TablesInTime' /\ PointsFetched'
      BY <1>2, <3>1 DEF HistoryInv, TapeTyped, RunTyped, TablesInTime, RowsInTime, PointsFetched, BarsFetched,
                        LongsFetched, WholeIn, Over, Opens, Bars, Longs, Span, CandleStages, In
    <3>3. TradesFetched'
      BY <1>2, <3>1 DEF HistoryInv, TradesFetched, WindowEnd, HourEnd, Hours, In, LostOnEdge, BucketExplained, Part, Bars, Opens
    <3> QED BY <3>2, <3>3 DEF HistoryInv
  <2> QED BY <1>2, <2>1, <2>2 DEF Requests, Collect, Backfill, Bias, collectorVars
<1> QED BY <1>1, <1>2, PTL DEF CollectorsSpec

(* A bootstrap that runs to its end has left a whole row for every candle,   *)
(* of a bar or longer, and a row for every point that was over when it      *)
(* began, and each bucket as the last of its hours with trades explains it, *)
(* whatever the scripts before it were cut off in (bootstrap_history's      *)
(* main).                                                                  *)
THEOREM HistoryWhole == CollectorsSpec => []CompletedRunIsWhole
<1>1. HistoryInv => CompletedRunIsWhole
  BY DEF HistoryInv, PointsFetched, BarsFetched, LongsFetched, TradesFetched, CompletedRunIsWhole, RowsWhole
<1> QED BY <1>1, HistoryHolds, PTL

(* Whatever the scripts have left in the tables, a backtest sees of a bar    *)
(* what was known when it closed, but for the 1h and 4h candles that are    *)
(* open then, which it sees up to their ends, and for the next bucket where *)
(* the bar's own is missing; and it sees the same in every window that it   *)
(* replays (iter_snapshots of the ReplayLoader).                           *)
THEOREM ReplayFair == CollectorsSpec => []ReplayIsFair
<1>1. HistoryInv => ReplayIsFair
  BY SnapshotsFair DEF HistoryInv
<1> QED BY <1>1, HistoryHolds, PTL

-----------------------------------------------------------------------------
(* Force orders, live                                                      *)
(*                                                                         *)
(* An order whose millisecond has no row is missed or on the socket at every *)
(* moment, and what the bootstrap has passed by has rows, down to the        *)
(* millisecond its cursor is in.                                             *)

(* The milliseconds that have a row. *)
Millis     == {printed[o] : o \in kept}
Covered(o) == printed[o] \in Millis

LiveTyped ==
    /\ ms \in Nat /\ printed \in Seq(Nat) /\ socket \in Seq(Nat)
    /\ \A o \in Orders : printed[o] <= ms
    /\ \A o, p \in Orders : o <= p => printed[o] <= printed[p]
    /\ cursor \in Int /\ upTo \in Nat
    /\ kept \subseteq Orders /\ ToSet(socket) \subseteq Orders

Waiting(o) == Covered(o) \/ o \in missed \/ o \in ToSet(socket)

InWindow(o) == upTo - Back <= printed[o] /\ printed[o] <= upTo

ReadBack ==
    live = "boot" =>
        /\ \A o \in Orders : InWindow(o) /\ printed[o] < cursor => Covered(o)
        /\ cursor <= ms \/ (cursor = ms + 1 /\ ms \in Millis)

LiveInv == LiveTyped /\ (\A o \in Orders : Waiting(o)) /\ ReadBack /\ OneRowEach

LEMMA OrdersTyped ==
    ASSUME LiveTyped
    PROVE  /\ Len(printed) \in Nat /\ Orders = 1 .. Len(printed) /\ IsFiniteSet(Orders)
           /\ \A o \in Orders : o \in Nat /\ printed[o] \in Nat
<1>1. Len(printed) \in Nat /\ DOMAIN printed = 1 .. Len(printed) /\ \A o \in Orders : printed[o] \in Nat
  BY LenProperties DEF LiveTyped, Orders
<1>2. IsFiniteSet(1 .. Len(printed))
  BY <1>1, FS_Interval
<1> QED BY <1>1, <1>2 DEF Orders

(* An insert gives a row to each millisecond of its batch, and no second one. *)
LEMMA Inserted ==
    ASSUME NEW batch \in SUBSET Orders, LiveTyped, OneRowEach, InsertForceOrders(batch), printed' = printed
    PROVE  /\ Millis' = Millis \cup {printed[o] : o \in batch}
           /\ kept' \subseteq Orders /\ OneRowEach'
<1>1. Orders \in SUBSET Nat /\ kept \subseteq Orders
  BY OrdersTyped DEF LiveTyped
<1> DEFINE First(o) == \A p \in batch : p < o => printed[p] # printed[o]
           Fresh(o) == \A p \in kept : printed[p] # printed[o]
<1>2. kept' = kept \cup {o \in batch : Fresh(o) /\ First(o)}
  BY DEF InsertForceOrders
<1>3. ASSUME NEW o \in batch, Fresh(o) PROVE \E p \in kept' : printed[p] = printed[o]
  <2> DEFINE S == {p \in batch : printed[p] = printed[o]}
  <2>1. S \in SUBSET Nat /\ S # {}
    BY <1>1, <1>3
  <2>2. PICK p \in S : \A q \in S : p <= q
    BY <2>1, LeastNat
  <2>3. First(p) /\ Fresh(p) /\ p \in batch
    BY <1>1, <1>3, <2>2
  <2> QED BY <1>2, <2>2, <2>3
<1>4. Millis' \subseteq Millis \cup {printed[o] : o \in batch}
  BY <1>2 DEF Millis
<1>5. Millis \subseteq Millis' /\ {printed[o] : o \in batch} \subseteq Millis'
  <2>1. Millis \subseteq Millis'
    BY <1>2 DEF Millis
  <2>2. ASSUME NEW o \in batch PROVE printed[o] \in Millis'
    <3>1. CASE Fresh(o)
      BY <1>3, <3>1 DEF Millis
    <3>2. CASE ~Fresh(o)
      <4>1. printed[o] \in Millis
        BY <3>2 DEF Millis
      <4> QED BY <2>1, <4>1
    <3> QED BY <3>1, <3>2
  <2> QED BY <2>1, <2>2
<1>6. ASSUME NEW o \in kept', NEW p \in kept', printed[o] = printed[p] PROVE o = p
  <2>1. o \in Nat /\ p \in Nat
    BY <1>1, <1>2
  <2>2. CASE o \in kept /\ p \in kept
    BY <1>6, <2>2 DEF OneRowEach
  <2>3. CASE o \notin kept /\ p \in kept
    BY <1>2, <1>6, <2>3
  <2>4. CASE o \in kept /\ p \notin kept
    BY <1>2, <1>6, <2>4
  <2>5. CASE o \notin kept /\ p \notin kept
    <3>1. o \in batch /\ p \in batch /\ First(o) /\ First(p)
      BY <1>2, <2>5
    <3>2. ~(o < p) /\ ~(p < o)
      BY <1>6, <3>1
    <3> QED BY <2>1, <3>2
  <2> QED BY <2>2, <2>3, <2>4, <2>5
<1>7. OneRowEach'
  BY <1>6 DEF OneRowEach
<1> QED BY <1>1, <1>2, <1>4, <1>5, <1>7

(* What the bootstrap leaves behind is not missed any more: it has a row.   *)
LEMMA BootstrapEnds ==
    ASSUME LiveInv, NEW n, Bootstrapped(n), UNCHANGED <<ms, printed, upTo, socket>>,
           cursor' \in Int, Millis \subseteq Millis', kept' \subseteq Orders, OneRowEach',
           \A o \in Orders : InWindow(o) /\ ~(o > n) => printed[o] \in Millis'
    PROVE  LiveInv'
<1>1. ASSUME NEW o \in Orders PROVE printed[o] \in Millis' \/ o \in missed' \/ o \in ToSet(socket)
  <2>1. printed[o] \in Nat /\ upTo \in Nat /\ Back \in Nat
    BY OrdersTyped, PageAssumption DEF LiveInv, LiveTyped
  <2>2. o \in missed => o \in missed' \/ (~(o > n) /\ ~(printed[o] < upTo - Back) /\ ~(printed[o] > upTo))
    BY DEF Bootstrapped
  <2>3. o \in missed => o \in missed' \/ printed[o] \in Millis'
    BY <2>1, <2>2 DEF InWindow
  <2>4. Waiting(o)
    BY DEF LiveInv
  <2> QED BY <2>3, <2>4 DEF Waiting, Covered
<1>2. LiveTyped' /\ ReadBack' /\ OneRowEach'
  BY DEF LiveInv, LiveTyped, Orders, ReadBack, Bootstrapped
<1> QED BY <1>1, <1>2 DEF LiveInv, Waiting, Covered, Orders

LEMMA PageTaken == ASSUME LiveInv, FetchPage PROVE LiveInv'
<1> DEFINE batch == PageOf(Served)
<1>1. /\ live = "boot" /\ cursor <= upTo
      /\ UNCHANGED <<ms, printed, upTo, socket>>
      /\ LiveTyped /\ ReadBack
      /\ IF LastPage(batch) THEN Bootstrapped(Len(printed)) /\ UNCHANGED cursor
         ELSE cursor' = NextCursor(batch) /\ UNCHANGED <<live, missed>>
      /\ Millis' = Millis \cup {printed[o] : o \in batch} /\ kept' \subseteq Orders /\ OneRowEach'
  <2>1. InsertForceOrders(batch) /\ UNCHANGED printed /\ LiveTyped /\ OneRowEach
    BY DEF FetchPage, LiveInv
  <2>2. batch \in SUBSET Orders
    BY DEF PageOf, FirstOf, Served
  <2>3. Millis' = Millis \cup {printed[o] : o \in batch} /\ kept' \subseteq Orders /\ OneRowEach'
    BY <2>1, <2>2, Inserted
  <2> QED BY <2>3 DEF FetchPage, LiveInv
<1>2. /\ Served \in SUBSET (1 .. Len(printed)) /\ Len(printed) \in Nat
      /\ Served \in SUBSET Nat /\ IsFiniteSet(Served)
  <2>1. /\ Served \in SUBSET Orders /\ IsFiniteSet(Orders) /\ Orders = 1 .. Len(printed)
        /\ Len(printed) \in Nat
    BY <1>1, OrdersTyped DEF Served
  <2>2. IsFiniteSet(Served)
    BY <2>1, FS_Subset
  <2> QED BY <2>1, <2>2
<1>3. /\ batch \subseteq Served
      /\ \A p \in Served, o \in batch : p <= o => p \in batch
      /\ LastPage(batch) => batch = Served
      /\ ~LastPage(batch) => batch # {}
  <2>1. batch = FirstOf(Page, Served) /\ Page \in Nat \ {0}
    BY PageAssumption DEF PageOf
  <2>2. /\ batch \subseteq Served
        /\ \A p \in Served, o \in batch : p <= o => p \in batch
        /\ Cardinality(batch) \in Nat
        /\ Cardinality(batch) < Page => batch = Served
    BY <1>2, <2>1, FirstIsBeginning
  <2>3. Cardinality(batch) >= Page => batch # {}
    BY <2>1, FS_EmptySet
  <2> QED BY <2>1, <2>2, <2>3 DEF LastPage
<1> HIDE DEF batch
<1>4. \A o \in Orders : InWindow(o) /\ printed[o] < cursor => printed[o] \in Millis'
  BY <1>1 DEF ReadBack, Covered
<1>5. \A o \in Orders : InWindow(o) /\ ~(printed[o] < cursor) => o \in Served
  BY <1>1, OrdersTyped DEF Served, InWindow, LiveTyped
<1>6. CASE LastPage(batch)
  <2>1. \A o \in Orders : InWindow(o) => printed[o] \in Millis'
    BY <1>1, <1>3, <1>4, <1>5, <1>6
  <2>2. Bootstrapped(Len(printed)) /\ cursor' \in Int /\ Millis \subseteq Millis'
    BY <1>1, <1>6 DEF LiveTyped
  <2> QED BY <1>1, <2>1, <2>2, BootstrapEnds
<1>7. CASE ~LastPage(batch)
  <2> DEFINE m == Max(batch)
  <2>1. m \in batch /\ \A o \in batch : o <= m
    <3>1. batch \in SUBSET (0 .. Len(printed)) /\ batch # {}
      BY <1>2, <1>3, <1>7
    <3> QED BY <1>2, <3>1, MaxOfBounded
  <2> HIDE DEF m
  <2>2. m \in Orders /\ m \in Nat /\ printed[m] \in Nat /\ printed[m] <= ms /\ ms \in Nat
    BY <1>1, <1>3, <2>1, OrdersTyped DEF Served, LiveTyped
  <2>3. cursor' = printed[m] + 1 /\ printed[m] \in Millis' /\ UNCHANGED <<live, missed>>
    BY <1>1, <1>7, <2>1 DEF NextCursor, m
  <2>4. ASSUME NEW o \in Orders, InWindow(o), printed[o] < cursor' PROVE printed[o] \in Millis'
    <3>1. CASE printed[o] < cursor
      BY <1>4, <2>4, <3>1
    <3>2. CASE ~(printed[o] < cursor) /\ o <= m
      BY <1>1, <1>3, <1>5, <2>1, <2>4, <3>2
    <3>3. CASE ~(o <= m)
      <4>1. m <= o /\ printed[o] \in Nat
        BY <1>1, <2>2, <3>3, OrdersTyped
      <4>2. printed[m] <= printed[o]
        BY <1>1, <2>2, <4>1 DEF LiveTyped
      <4>3. printed[o] = printed[m]
        BY <2>2, <2>3, <2>4, <4>1, <4>2
      <4> QED BY <2>3, <4>3
    <3> QED BY <3>1, <3>2, <3>3
  <2>5. cursor' <= ms \/ (cursor' = ms + 1 /\ ms \in Millis')
    BY <2>2, <2>3
  <2>6. LiveTyped'
    BY <1>1, <2>2, <2>3 DEF LiveTyped, Orders
  <2>7. ReadBack'
    BY <1>1, <2>4, <2>5 DEF ReadBack, InWindow, Covered, Orders
  <2>8. \A o \in Orders : Waiting(o)'
    BY <1>1, <2>3 DEF LiveInv, Waiting, Covered
  <2> QED BY <1>1, <2>6, <2>7, <2>8 DEF LiveInv, Orders
<1> QED BY <1>6, <1>7

LEMMA OrderPrinted == ASSUME LiveInv, Liquidate PROVE LiveInv'
<1> DEFINE new == Len(printed) + 1
<1>1. /\ printed' = Append(printed, ms) /\ UNCHANGED <<ms, live, cursor, upTo, seen, stop, kept>>
      /\ \/ socket' = Append(socket, new) /\ missed' = missed
         \/ missed' = missed \cup {new} /\ socket' = socket
      /\ LiveTyped /\ printed \in Seq(Nat) /\ socket \in Seq(Nat) /\ ms \in Nat
  BY DEF Liquidate, LiveInv, LiveTyped
<1>2. /\ Len(printed) \in Nat /\ Orders = 1 .. Len(printed) /\ new \in Nat
      /\ \A o \in Orders : o \in Nat /\ printed[o] \in Nat
  BY <1>1, OrdersTyped
<1>3. /\ printed' \in Seq(Nat) /\ Len(printed') = new
      /\ \A o \in Orders : printed'[o] = printed[o]
      /\ printed'[new] = ms
  BY <1>1, <1>2, AppendProperties
<1>4. Orders' = Orders \cup {new} /\ new \notin Orders
  BY <1>2, <1>3, LenProperties DEF Orders
<1>5. socket' \in Seq(Nat) /\ ToSet(socket) \subseteq ToSet(socket') /\ ToSet(socket') \subseteq ToSet(socket) \cup {new} /\ (new \in ToSet(socket') \/ new \in missed')
  <2>1. CASE socket' = Append(socket, new)
    <3>1. /\ socket' \in Seq(Nat) /\ Len(socket') = Len(socket) + 1 /\ Len(socket) \in Nat
          /\ \A i \in 1 .. Len(socket) : socket'[i] = socket[i]
          /\ socket'[Len(socket) + 1] = new
      BY <1>1, <1>2, <2>1, AppendProperties, LenProperties
    <3>2. DOMAIN socket = 1 .. Len(socket) /\ DOMAIN socket' = 1 .. Len(socket) + 1
      BY <1>1, <3>1, LenProperties
    <3> QED BY <3>1, <3>2 DEF ToSet
  <2>2. CASE missed' = missed \cup {new} /\ socket' = socket
    BY <1>1, <2>2
  <2> QED BY <1>1, <2>1, <2>2
<1>6. /\ \A o \in Orders' : Waiting(o)'
      /\ kept' \subseteq Orders' /\ ToSet(socket') \subseteq Orders' /\ OneRowEach' /\ Millis' = Millis
  <2>1. kept' = kept /\ kept \subseteq Orders /\ \A o \in kept : printed'[o] = printed[o]
    BY <1>1, <1>3 DEF LiveTyped
  <2>2. Millis' = Millis /\ OneRowEach'
    BY <2>1 DEF LiveInv, Millis, OneRowEach
  <2>3. \A o \in Orders' : Waiting(o)'
    BY <1>1, <1>3, <1>4, <1>5, <2>2 DEF LiveInv, Waiting, Covered
  <2>4. ToSet(socket') \subseteq Orders'
    BY <1>1, <1>4, <1>5 DEF LiveTyped
  <2> QED BY <1>4, <2>1, <2>2, <2>3, <2>4
<1>7. LiveTyped'
  <2>1. \A o \in Orders' : printed'[o] <= ms
    BY <1>1, <1>2, <1>3, <1>4 DEF LiveTyped
  <2>2. ASSUME NEW o \in Orders', NEW p \in Orders', o <= p PROVE printed'[o] <= printed'[p]
    BY <1>1, <1>2, <1>3, <1>4, <2>1, <2>2 DEF LiveTyped
  <2> QED BY <1>1, <1>3, <1>5, <1>6, <2>1, <2>2 DEF LiveTyped
<1>8. ReadBack'
  <2>1. ASSUME live = "boot" PROVE cursor <= ms \/ (cursor = ms + 1 /\ ms \in Millis)
    BY <2>1 DEF LiveInv, ReadBack
  <2>2. ASSUME live = "boot", NEW o \in Orders', InWindow(o)', printed'[o] < cursor
        PROVE  printed'[o] \in Millis
    <3>1. CASE o \in Orders
      BY <1>1, <1>3, <2>2, <3>1 DEF LiveInv, ReadBack, InWindow, Covered
    <3>2. CASE o = new
      BY <1>1, <1>3, <2>1, <2>2, <3>2 DEF LiveTyped
    <3> QED BY <1>4, <3>1, <3>2
  <2> QED BY <1>1, <1>6, <2>1, <2>2 DEF ReadBack, Covered
<1> QED BY <1>6, <1>7, <1>8 DEF LiveInv

LEMMA LiveStep == ASSUME LiveInv, LiveNext PROVE LiveInv'
<1>1. CASE PassMs
  <2>1. /\ ms' = ms + 1 /\ UNCHANGED <<printed, live, cursor, upTo, socket, kept, missed>>
        /\ LiveTyped
    BY <1>1 DEF PassMs, LiveInv
  <2>2. ms \in Nat /\ \A o \in Orders : printed[o] \in Nat /\ printed[o] <= ms
    BY <2>1, OrdersTyped DEF LiveTyped
  <2>3. LiveTyped'
    BY <2>1, <2>2 DEF LiveTyped, Orders
  <2>4. ReadBack'
    BY <2>1, <2>2 DEF LiveInv, LiveTyped, ReadBack, InWindow, Covered, Millis, Orders
  <2> QED BY <2>1, <2>3, <2>4 DEF LiveInv, Waiting, Covered, Millis, OneRowEach, Orders
<1>2. CASE Liquidate
  BY <1>2, OrderPrinted
<1>3. CASE StartCollector
  <2>1. /\ cursor' = ms - Back /\ upTo' = ms /\ live' = "boot"
        /\ UNCHANGED <<ms, printed, socket, kept, missed>> /\ LiveTyped
    BY <1>3 DEF StartCollector, LiveInv
  <2>2. LiveTyped' /\ ms \in Nat /\ \A o \in Orders : printed[o] \in Nat
    BY <2>1, OrdersTyped, PageAssumption DEF LiveTyped, Orders
  <2>3. ReadBack'
    BY <2>1, <2>2, PageAssumption DEF ReadBack, InWindow, Covered, Millis, Orders
  <2> QED BY <2>1, <2>2, <2>3 DEF LiveInv, Waiting, Covered, Millis, OneRowEach, Orders
<1>4. CASE FetchPage
  BY <1>4, PageTaken
<1>5. CASE PagesDone
  <2>1. /\ Bootstrapped(seen) /\ UNCHANGED <<ms, printed, cursor, upTo, socket, kept>>
        /\ live = "boot" /\ cursor > upTo /\ LiveTyped
    BY <1>5 DEF PagesDone, LiveInv
  <2>2. \A o \in Orders : InWindow(o) => printed[o] \in Millis
    BY <2>1, OrdersTyped DEF LiveInv, LiveTyped, ReadBack, InWindow, Covered
  <2>3. cursor' \in Int /\ Millis \subseteq Millis'
    BY <2>1 DEF LiveTyped, Millis
  <2> QED BY <2>1, <2>2, <2>3, BootstrapEnds DEF LiveInv, LiveTyped, OneRowEach
<1>6. CASE Connect \/ Signal
  <2>1. /\ UNCHANGED <<ms, printed, cursor, upTo, socket, kept, missed>>
        /\ live' = "boot" => live = "boot"
    BY <1>6 DEF Connect, Signal
  <2> QED BY <2>1 DEF LiveInv, LiveTyped, ReadBack, InWindow, Waiting, Covered, Millis, OneRowEach, Orders
<1>7. CASE Deliver
  <2>0. Head(socket) \in ToSet(socket) /\ Head(socket) \in Orders
    <3>1. Head(socket) = socket[1] /\ 1 \in DOMAIN socket
      BY <1>7, LenProperties, EmptySeq DEF Deliver, LiveInv, LiveTyped
    <3> QED BY <3>1 DEF LiveInv, LiveTyped, ToSet
  <2>1. /\ socket' = Tail(socket) /\ socket # <<>>
        /\ UNCHANGED <<ms, printed, live, cursor, upTo, missed>> /\ live = "stream"
        /\ LiveTyped /\ socket \in Seq(Nat)
        /\ Millis' = Millis \cup {printed[Head(socket)]} /\ kept' \subseteq Orders /\ OneRowEach'
    <3>1. /\ Millis' = Millis \cup {printed[o] : o \in {Head(socket)}}
          /\ kept' \subseteq Orders /\ OneRowEach'
      BY <1>7, <2>0, Inserted DEF Deliver, LiveInv
    <3> QED BY <1>7, <3>1 DEF Deliver, LiveInv, LiveTyped
  <2>2. /\ socket' \in Seq(Nat) /\ ToSet(socket) \subseteq ToSet(socket') \cup {Head(socket)}
        /\ ToSet(socket') \subseteq ToSet(socket)
    <3>1. /\ Head(socket) = socket[1] /\ Tail(socket) \in Seq(Nat) /\ Len(socket) \in Nat
          /\ Len(Tail(socket)) = Len(socket) - 1
          /\ \A i \in 1 .. Len(Tail(socket)) : Tail(socket)[i] = socket[i + 1]
      BY <2>1, HeadTailProperties, LenProperties
    <3>2. DOMAIN socket = 1 .. Len(socket) /\ DOMAIN Tail(socket) = 1 .. Len(socket) - 1
      BY <2>1, <3>1, LenProperties
    <3>3. ASSUME NEW i \in DOMAIN socket
          PROVE  socket[i] = Head(socket) \/ \E j \in DOMAIN Tail(socket) : Tail(socket)[j] = socket[i]
      <4>1. CASE i = 1
        BY <3>1, <4>1
      <4>2. CASE i # 1
        <5>1. i - 1 \in 1 .. Len(Tail(socket)) /\ i - 1 \in DOMAIN Tail(socket) /\ (i - 1) + 1 = i
          BY <3>1, <3>2, <4>2
        <5> QED BY <3>1, <5>1
      <4> QED BY <4>1, <4>2
    <3>4. \A j \in DOMAIN Tail(socket) : j + 1 \in DOMAIN socket /\ Tail(socket)[j] = socket[j + 1]
      BY <3>1, <3>2
    <3> QED BY <2>1, <3>1, <3>3, <3>4 DEF ToSet
  <2>3. \A o \in Orders : Waiting(o)'
    BY <2>1, <2>2 DEF LiveInv, Waiting, Covered
  <2>4. LiveTyped' /\ ReadBack'
    BY <2>1, <2>2 DEF LiveTyped, ReadBack, Orders
  <2> QED BY <2>1, <2>3, <2>4 DEF LiveInv, Orders
<1>8. CASE \E where \in {"connect", "down"} : CloseSocket(where)
  <2>1. /\ live' # "boot" /\ socket' = <<>> /\ missed' = missed \cup ToSet(socket)
        /\ UNCHANGED <<ms, printed, cursor, upTo, kept>>
    BY <1>8 DEF CloseSocket
  <2>2. <<>> \in Seq(Nat) /\ ToSet(<<>>) = {}
    BY DEF ToSet
  <2>3. LiveTyped' /\ ReadBack' /\ OneRowEach'
    BY <2>1, <2>2 DEF LiveInv, LiveTyped, ReadBack, Orders, OneRowEach
  <2>4. \A o \in Orders : Waiting(o)'
    BY <2>1 DEF LiveInv, Waiting, Covered, Millis
  <2> QED BY <2>1, <2>3, <2>4 DEF LiveInv, Orders
<1>9. CASE Disconnect \/ Leave \/ Die
  BY <1>8, <1>9 DEF Disconnect, Leave, Die
<1> QED BY <1>1, <1>2, <1>3, <1>4, <1>5, <1>6, <1>7, <1>9 DEF LiveNext

-----------------------------------------------------------------------------
(* Force orders, archived                                                  *)
(*                                                                         *)
(* What a backfill has still to read is not stored yet: behind its place in *)
(* the Tardis files there is nothing later than the watermark, and of the   *)
(* COIN-M day it is in, exactly what lies before the place.                 *)

ArchiveTyped ==
    /\ pass \in {"none", "coinm", "tardis"} /\ file \in Nat /\ place \in Nat /\ watermark \in Int
    /\ rows \in [Archived -> Nat]
    /\ pass = "tardis" => file \in 1 .. Len(Tardis) /\ until = Len(Tardis)
    /\ pass = "coinm" => watermark = -1

Ahead(o) == o[2] > file \/ (o[2] = file /\ o[3] > place)

TardisAhead ==
    pass = "tardis" =>
        \A o \in Archived : o[1] = "tardis" /\ TimeOf(o) > watermark /\ Ahead(o) => rows[o] = 0

DayInPart ==
    pass = "coinm" /\ place > 0 =>
        /\ file \in DOMAIN Coinm
        /\ \A o \in OrdersIn("coinm", file) : rows[o] = IF o[3] > place THEN 0 ELSE 1

ArchiveInv == ArchiveTyped /\ TardisAhead /\ DayInPart /\ ArchivedOnce

LastTimeOfAll == (LastDay + 1) * DayMs

LEMMA ArchivesTyped ==
    /\ \A d \in DOMAIN Coinm :
          /\ d \in 0 .. LastDay /\ d \in Nat /\ Len(Coinm[d]) \in Nat /\ DOMAIN Coinm[d] = 1 .. Len(Coinm[d])
          /\ \A k \in 1 .. Len(Coinm[d]) : Coinm[d][k] \in Nat /\ Coinm[d][k] \div DayMs = d
    /\ Len(Tardis) \in Nat /\ DOMAIN Tardis = 1 .. Len(Tardis)
    /\ \A f \in 1 .. Len(Tardis) :
          /\ Len(Tardis[f]) \in Nat /\ DOMAIN Tardis[f] = 1 .. Len(Tardis[f])
          /\ \A k \in 1 .. Len(Tardis[f]) : Tardis[f][k] \in 0 .. LastTimeOfAll - 1
<1>1. ASSUME NEW d \in DOMAIN Coinm
      PROVE  /\ d \in 0 .. LastDay /\ d \in Nat /\ Len(Coinm[d]) \in Nat /\ DOMAIN Coinm[d] = 1 .. Len(Coinm[d])
             /\ \A k \in 1 .. Len(Coinm[d]) : Coinm[d][k] \in Nat /\ Coinm[d][k] \div DayMs = d
  <2>1. Coinm[d] \in Seq(Nat) /\ d \in 0 .. LastDay /\ LastDay \in Nat
        /\ \A k \in DOMAIN Coinm[d] : Coinm[d][k] \div DayMs = d
    BY ArchiveAssumption
  <2>2. PICK times : times = Coinm[d]
    OBVIOUS
  <2>3. Len(times) \in Nat /\ DOMAIN times = 1 .. Len(times) /\ \A k \in 1 .. Len(times) : times[k] \in Nat
    BY <2>1, <2>2, LenProperties
  <2> QED BY <2>1, <2>2, <2>3
<1>2. Len(Tardis) \in Nat /\ DOMAIN Tardis = 1 .. Len(Tardis)
      /\ \A f \in 1 .. Len(Tardis) : Tardis[f] \in Seq(0 .. LastTimeOfAll - 1)
  <2> DEFINE File == Seq(0 .. LastTimeOfAll - 1)
  <2>1. Tardis \in Seq(File)
    BY ArchiveAssumption DEF LastTimeOfAll
  <2> HIDE DEF File
  <2>2. Len(Tardis) \in Nat /\ DOMAIN Tardis = 1 .. Len(Tardis)
        /\ \A f \in 1 .. Len(Tardis) : Tardis[f] \in File
    BY <2>1, LenProperties
  <2> QED BY <2>2 DEF File
<1>3. ASSUME NEW f \in 1 .. Len(Tardis)
      PROVE  /\ Len(Tardis[f]) \in Nat /\ DOMAIN Tardis[f] = 1 .. Len(Tardis[f])
             /\ \A k \in 1 .. Len(Tardis[f]) : Tardis[f][k] \in 0 .. LastTimeOfAll - 1
  <2> DEFINE Moments == 0 .. LastTimeOfAll - 1
  <2>1. Tardis[f] \in Seq(Moments)
    BY <1>2
  <2>2. PICK times : times = Tardis[f]
    OBVIOUS
  <2> HIDE DEF Moments
  <2>3. Len(times) \in Nat /\ DOMAIN times = 1 .. Len(times) /\ \A k \in 1 .. Len(times) : times[k] \in Moments
    BY <2>1, <2>2, LenProperties
  <2> QED BY <2>2, <2>3 DEF Moments
<1> QED BY <1>1, <1>2, <1>3

LEMMA ArchivedTyped ==
    /\ \A d \in DOMAIN Coinm : OrdersIn("coinm", d) \subseteq Archived
    /\ \A f \in 1 .. Len(Tardis) : OrdersIn("tardis", f) \subseteq Archived
    /\ \A o \in Archived :
          /\ o = <<o[1], o[2], o[3]>> /\ o \in OrdersIn(o[1], o[2]) /\ o[2] \in Nat /\ o[3] \in Nat \ {0}
          /\ TimeOf(o) \in 0 .. LastTimeOfAll
          /\ \/ o[1] = "coinm" /\ o[2] \in DOMAIN Coinm /\ TimeOf(o) \div DayMs = o[2]
             \/ o[1] = "tardis" /\ o[2] \in 1 .. Len(Tardis)
    /\ LastTimeOfAll \in Nat
<1>1. DOMAIN Tardis = 1 .. Len(Tardis) /\ DayMs \in Nat \ {0} /\ LastDay \in Nat
      /\ ArchiveOf("coinm") = Coinm /\ ArchiveOf("tardis") = Tardis
  BY ArchivesTyped, PageAssumption, ArchiveAssumption DEF ArchiveOf
<1>2. LastTimeOfAll \in Nat
  BY <1>1 DEF LastTimeOfAll
<1>3. ASSUME NEW t \in Nat, t \div DayMs \in 0 .. LastDay PROVE t <= LastTimeOfAll
  <2>1. PICK d \in 0 .. LastDay : t \div DayMs = d
    BY <1>3
  <2>2. t < (d + 1) * DayMs
    BY <1>1, <2>1
  <2>3. (d + 1) * DayMs <= (LastDay + 1) * DayMs
    BY <1>1
  <2>4. (d + 1) * DayMs \in Nat /\ (LastDay + 1) * DayMs \in Nat
    BY <1>1
  <2> QED BY <2>2, <2>3, <2>4 DEF LastTimeOfAll
<1>4. ASSUME NEW o \in Archived
      PROVE  /\ o = <<o[1], o[2], o[3]>> /\ o \in OrdersIn(o[1], o[2]) /\ o[2] \in Nat /\ o[3] \in Nat \ {0}
             /\ TimeOf(o) \in 0 .. LastTimeOfAll
             /\ \/ o[1] = "coinm" /\ o[2] \in DOMAIN Coinm /\ TimeOf(o) \div DayMs = o[2]
                \/ o[1] = "tardis" /\ o[2] \in 1 .. Len(Tardis)
  <2>1. CASE \E d \in DOMAIN Coinm : o \in OrdersIn("coinm", d)
    <3>0. PICK d \in DOMAIN Coinm : o \in OrdersIn("coinm", d)
      BY <2>1
    <3>1. PICK k \in DOMAIN Coinm[d] : o = <<"coinm", d, k>>
      BY <1>1, <3>0 DEF OrdersIn
    <3>2. /\ d \in 0 .. LastDay /\ d \in Nat /\ k \in Nat \ {0}
          /\ Coinm[d][k] \in Nat /\ Coinm[d][k] \div DayMs = d
      BY <3>1, ArchivesTyped
    <3>3. TimeOf(o) = Coinm[d][k] /\ o \in OrdersIn("coinm", d)
      BY <1>1, <3>1 DEF TimeOf, OrdersIn
    <3>4. TimeOf(o) \in 0 .. LastTimeOfAll
      BY <1>2, <1>3, <3>2, <3>3
    <3> QED BY <3>1, <3>2, <3>3, <3>4
  <2>2. CASE \E f \in 1 .. Len(Tardis) : o \in OrdersIn("tardis", f)
    <3>0. PICK f \in 1 .. Len(Tardis) : o \in OrdersIn("tardis", f)
      BY <2>2
    <3>1. PICK k \in DOMAIN Tardis[f] : o = <<"tardis", f, k>>
      BY <1>1, <3>0 DEF OrdersIn
    <3>2. f \in Nat /\ k \in Nat \ {0} /\ Tardis[f][k] \in 0 .. LastTimeOfAll - 1
      BY <3>1, ArchivesTyped
    <3>3. TimeOf(o) = Tardis[f][k] /\ o \in OrdersIn("tardis", f)
      BY <1>1, <3>1 DEF TimeOf, OrdersIn
    <3> QED BY <1>2, <3>1, <3>2, <3>3
  <2> QED BY <1>1, <2>1, <2>2 DEF Archived
<1>5. /\ \A d \in DOMAIN Coinm : OrdersIn("coinm", d) \subseteq Archived
      /\ \A f \in 1 .. Len(Tardis) : OrdersIn("tardis", f) \subseteq Archived
  BY <1>1 DEF Archived
<1> QED BY <1>2, <1>4, <1>5

DayWhole(d) == OrdersIn("coinm", d) \cap Stored \in {{}, OrdersIn("coinm", d)}

DayExplained(d) == DayWhole(d) \/ <<"coinm", d>> \in cut \/ (pass = "coinm" /\ file = d /\ place > 0)

LEMMA OnceMeans ==
    ArchivedOnce <=> (\A o \in Archived : rows[o] <= 1) /\ \A d \in DOMAIN Coinm : DayExplained(d)
  BY DEF ArchivedOnce, DayExplained, DayWhole

LEMMA OnceMeansNext ==
    (\A o \in Archived : rows'[o] <= 1) /\ (\A d \in DOMAIN Coinm : DayExplained(d)') => ArchivedOnce'
  BY DEF ArchivedOnce, DayExplained, DayWhole

LEMMA DayKept ==
    ASSUME NEW d \in DOMAIN Coinm, \A o \in OrdersIn("coinm", d) : rows'[o] = rows[o], DayWhole(d)
    PROVE  DayWhole(d)'
<1>1. OrdersIn("coinm", d) \subseteq Archived
  BY ArchivedTyped
<1>2. OrdersIn("coinm", d) \cap Stored' = OrdersIn("coinm", d) \cap Stored
  BY <1>1 DEF Stored
<1> QED BY <1>2 DEF DayWhole

(* The steps that read nothing: a backfill begins, skips, fails or is       *)
(* killed.                                                                 *)
LEMMA NothingRead ==
    ASSUME ArchiveInv, UNCHANGED rows, cut \subseteq cut',
           pass = "coinm" /\ place > 0 => <<"coinm", file>> \in cut',
           ArchiveTyped', TardisAhead', place' = 0 \/ pass' # "coinm"
    PROVE  ArchiveInv'
<1>1. ASSUME NEW d \in DOMAIN Coinm PROVE DayExplained(d)'
  <2>1. DayExplained(d) /\ (DayWhole(d) => DayWhole(d)')
    BY OnceMeans, DayKept DEF ArchiveInv
  <2> QED BY <2>1 DEF DayExplained
<1>2. ArchivedOnce'
  BY <1>1, OnceMeans, OnceMeansNext DEF ArchiveInv
<1>3. DayInPart'
  BY DEF DayInPart, ArchiveTyped
<1> QED BY <1>2, <1>3 DEF ArchiveInv

LEMMA PassStarts == ASSUME ArchiveInv, BackfillCoinm \/ BackfillTardis PROVE ArchiveInv'
<1>1. /\ UNCHANGED <<rows, cut>> /\ place' = 0 /\ pass = "none"
  BY DEF BackfillCoinm, BackfillTardis, StartPass
<1>2. CASE BackfillCoinm
  <2>1. pass' = "coinm" /\ file' \in Nat /\ watermark' = -1
    BY <1>2, ArchiveAssumption DEF BackfillCoinm, StartPass
  <2>2. ArchiveTyped' /\ TardisAhead'
    BY <1>1, <2>1 DEF ArchiveInv, ArchiveTyped, TardisAhead
  <2> QED BY <1>1, <2>2, NothingRead
<1>3. CASE BackfillTardis
  <2>1. /\ pass' = "tardis" /\ file' = 1 /\ until' = Len(Tardis) /\ watermark' = QueryWatermark
        /\ Len(Tardis) \in Nat \ {0}
    <3>1. Len(Tardis) \in Nat /\ Tardis # <<>> /\ Tardis \in Seq(Seq(0 .. LastTimeOfAll - 1))
      BY <1>3, ArchivesTyped, ArchiveAssumption DEF BackfillTardis, LastTimeOfAll
    <3>2. Len(Tardis) # 0
      BY <3>1, EmptySeq
    <3> QED BY <1>3, <3>1, <3>2 DEF BackfillTardis, StartPass
  <2>2. QueryWatermark \in Int /\ \A o \in Stored : TimeOf(o) <= QueryWatermark
    <3>1. CASE Stored = {}
      BY <3>1 DEF QueryWatermark
    <3>2. CASE Stored # {}
      <4> DEFINE T == {TimeOf(o) : o \in Stored}
      <4>1. T \in SUBSET (0 .. LastTimeOfAll) /\ T # {} /\ LastTimeOfAll \in Nat
        BY <3>2, ArchivedTyped DEF Stored
      <4> HIDE DEF T
      <4>2. Max(T) \in T /\ \A t \in T : t <= Max(T)
        BY <4>1, MaxOfBounded
      <4>3. QueryWatermark = Max(T)
        BY <3>2 DEF QueryWatermark, T
      <4> QED BY <4>1, <4>2, <4>3 DEF T
    <3> QED BY <3>1, <3>2
  <2>3. ASSUME NEW o \in Archived, TimeOf(o) > QueryWatermark PROVE rows[o] = 0
    <3>1. rows[o] \in Nat /\ TimeOf(o) \in Int
      BY ArchivedTyped DEF ArchiveInv, ArchiveTyped
    <3>2. o \notin Stored
      BY <2>2, <2>3, <3>1
    <3> QED BY <3>1, <3>2 DEF Stored
  <2>4. ArchiveTyped' /\ TardisAhead'
    BY <1>1, <2>1, <2>2, <2>3 DEF ArchiveInv, ArchiveTyped, TardisAhead
  <2> QED BY <1>1, <2>1, <2>4, NothingRead
<1> QED BY <1>2, <1>3

(* On to the next file: what is ahead of it was ahead before. *)
LEMMA NextFileAhead ==
    ASSUME ArchiveTyped, pass # "none", NextFile, UNCHANGED <<until, watermark>>,
           rows' \in [Archived -> Nat],
           pass = "tardis" => \A o \in Archived :
               o[1] = "tardis" /\ TimeOf(o) > watermark /\ o[2] > file => rows'[o] = 0
    PROVE  ArchiveTyped' /\ TardisAhead'
<1>1. /\ file \in Nat /\ file' = file + 1 /\ place' = 0
      /\ pass' = IF file = until THEN "none" ELSE pass
  BY DEF NextFile, ArchiveTyped
<1>2. pass' = "tardis" => file' \in 1 .. Len(Tardis)
  BY <1>1, ArchivesTyped DEF ArchiveTyped
<1>3. ArchiveTyped'
  BY <1>1, <1>2 DEF ArchiveTyped
<1>4. ASSUME NEW o \in Archived, Ahead(o)' PROVE o[2] > file
  BY <1>1, <1>4, ArchivedTyped DEF Ahead
<1>5. TardisAhead'
  BY <1>1, <1>4 DEF TardisAhead
<1> QED BY <1>3, <1>5

LEMMA FileLeft == ASSUME ArchiveInv, SkipDay \/ FailFile \/ KillPass PROVE ArchiveInv'
<1>1. CASE SkipDay
  <2>1. pass = "coinm" /\ place = 0 /\ NextFile /\ UNCHANGED <<until, watermark, rows, cut>>
    BY <1>1 DEF SkipDay
  <2>2. ArchiveTyped' /\ TardisAhead'
    BY <2>1, NextFileAhead DEF ArchiveInv, ArchiveTyped
  <2> QED BY <2>1, <2>2, NothingRead DEF NextFile
<1>2. CASE FailFile
  <2>1. /\ pass # "none" /\ UNCHANGED <<until, watermark, rows>>
        /\ cut' = IF place > 0 THEN cut \cup {<<pass, file>>} ELSE cut
        /\ \/ pass = "coinm" /\ NextFile
           \/ pass' = "none" /\ UNCHANGED <<file, place>>
    BY <1>2 DEF FailFile
  <2>2. CASE pass = "coinm" /\ NextFile
    <3>1. ArchiveTyped' /\ TardisAhead'
      BY <2>1, <2>2, NextFileAhead DEF ArchiveInv, ArchiveTyped
    <3> QED BY <2>1, <2>2, <3>1, NothingRead DEF NextFile
  <2>3. CASE pass' = "none" /\ UNCHANGED <<file, place>>
    <3>1. ArchiveTyped' /\ TardisAhead'
      BY <2>1, <2>3 DEF ArchiveInv, ArchiveTyped, TardisAhead
    <3> QED BY <2>1, <2>3, <3>1, NothingRead
  <2> QED BY <2>1, <2>2, <2>3
<1>3. CASE KillPass
  <2>1. /\ pass' = "none" /\ UNCHANGED <<file, until, place, watermark, rows>>
        /\ cut' = IF place > 0 THEN cut \cup {<<pass, file>>} ELSE cut
    BY <1>3 DEF KillPass
  <2>2. ArchiveTyped' /\ TardisAhead'
    BY <2>1 DEF ArchiveInv, ArchiveTyped, TardisAhead
  <2> QED BY <2>1, <2>2, NothingRead
<1> QED BY <1>1, <1>2, <1>3

LEMMA ChunkRead == ASSUME ArchiveInv, ReadChunk PROVE ArchiveInv'
<1> DEFINE times  == ArchiveOf(pass)[file]
           todo   == {k \in DOMAIN times : k > place /\ times[k] > watermark}
           batch  == FirstOf(Chunk, todo)
           line(k) == <<pass, file, k>>
<1>1. /\ pass # "none" /\ (pass = "coinm" => file \in DOMAIN Coinm /\ (place > 0 \/ ~DayHasData(file)))
      /\ rows' = [o \in Archived |-> IF \E k \in batch : o = line(k) THEN rows[o] + 1 ELSE rows[o]]
      /\ IF todo = batch THEN NextFile ELSE place' = Max(batch) /\ UNCHANGED <<pass, file>>
      /\ UNCHANGED <<until, watermark, cut>>
      /\ ArchiveTyped /\ TardisAhead /\ DayInPart
      /\ rows \in [Archived -> Nat] /\ \A o \in Archived : rows[o] <= 1
  BY DEF ReadChunk, FileDone, ArchiveInv, ArchiveTyped, ArchivedOnce
<1>2. \/ pass = "coinm" /\ file \in DOMAIN Coinm /\ times = Coinm[file] /\ watermark = -1
      \/ pass = "tardis" /\ file \in 1 .. Len(Tardis) /\ times = Tardis[file]
  <2>1. ArchiveTyped /\ pass # "none" /\ (pass = "coinm" => file \in DOMAIN Coinm)
    BY <1>1
  <2>2. /\ pass = "coinm" => ArchiveOf(pass) = Coinm
        /\ pass = "tardis" => ArchiveOf(pass) = Tardis
    BY DEF ArchiveOf
  <2>3. \/ pass = "coinm" /\ file \in DOMAIN Coinm /\ watermark = -1
        \/ pass = "tardis" /\ file \in 1 .. Len(Tardis)
    BY <2>1 DEF ArchiveTyped
  <2> HIDE DEF times
  <2> QED BY <2>2, <2>3 DEF times
<1>3. /\ Len(times) \in Nat /\ DOMAIN times = 1 .. Len(times)
      /\ \A k \in DOMAIN times : times[k] \in Nat
      /\ file \in Nat /\ place \in Nat /\ watermark \in Int
  <2>1. file \in Nat /\ place \in Nat /\ watermark \in Int
    BY <1>1 DEF ArchiveTyped
  <2>2. CASE pass = "coinm" /\ file \in DOMAIN Coinm /\ times = Coinm[file]
    <3> HIDE DEF times
    <3> QED BY <2>1, <2>2, ArchivesTyped
  <2>3. CASE pass = "tardis" /\ file \in 1 .. Len(Tardis) /\ times = Tardis[file]
    <3> HIDE DEF times
    <3>1. LastTimeOfAll \in Nat
      BY ArchivedTyped
    <3> QED BY <2>1, <2>3, <3>1, ArchivesTyped
  <2> QED BY <1>2, <2>2, <2>3
<1>4. /\ OrdersIn(pass, file) = {line(k) : k \in DOMAIN times}
      /\ OrdersIn(pass, file) \subseteq Archived
      /\ \A k \in DOMAIN times : line(k) \in Archived /\ TimeOf(line(k)) = times[k]
  <2>1. OrdersIn(pass, file) = {line(k) : k \in DOMAIN times}
    BY DEF OrdersIn
  <2>2. OrdersIn(pass, file) \subseteq Archived
    BY <1>2, ArchivedTyped
  <2>3. \A k \in DOMAIN times : TimeOf(line(k)) = times[k]
    BY DEF TimeOf
  <2> QED BY <2>1, <2>2, <2>3
<1> HIDE DEF times
<1>5. todo \in SUBSET (1 .. Len(times)) /\ todo \in SUBSET Nat /\ IsFiniteSet(todo)
  <2>1. todo \in SUBSET (1 .. Len(times))
    BY <1>3
  <2>2. IsFiniteSet(1 .. Len(times))
    BY <1>3, FS_Interval
  <2> QED BY <2>1, <2>2, FS_Subset
<1>6. /\ batch \subseteq todo
      /\ \A j \in todo, k \in batch : j <= k => j \in batch
      /\ batch = {} => todo = {}
  <2> HIDE DEF todo
  <2> QED BY <1>5, PageAssumption, FirstIsBeginning
<1>7. ASSUME NEW k \in todo PROVE rows[line(k)] = 0
  <2>1. line(k) \in Archived /\ k \in DOMAIN times /\ k > place /\ TimeOf(line(k)) > watermark
        /\ line(k) \in OrdersIn(pass, file)
    BY <1>4
  <2>2. CASE pass = "tardis"
    BY <1>1, <2>1, <2>2 DEF TardisAhead, Ahead
  <2>3. CASE pass = "coinm" /\ place > 0
    BY <1>1, <2>1, <2>3 DEF DayInPart
  <2>4. CASE pass = "coinm" /\ ~(place > 0)
    <3>1. ~DayHasData(file)
      BY <1>1, <2>4
    <3>2. TimeOf(line(k)) \div DayMs = file
      <4>1. line(k)[1] = "coinm" /\ line(k)[2] = file
        BY <2>4
      <4> HIDE DEF line
      <4> QED BY <2>1, <4>1, ArchivedTyped
    <3>3. line(k) \notin Stored
      BY <3>1, <3>2 DEF DayHasData
    <3> QED BY <1>1, <2>1, <3>3 DEF Stored
  <2> QED BY <1>2, <2>2, <2>3, <2>4
<1> HIDE DEF batch
<1>8. /\ rows' \in [Archived -> Nat]
      /\ \A k \in batch : rows'[line(k)] = 1
      /\ \A o \in Archived : (~\E k \in batch : o = line(k)) => rows'[o] = rows[o]
      /\ \A o \in Archived : rows'[o] <= 1
  <2>1. rows' \in [Archived -> Nat]
    BY <1>1
  <2>2. \A k \in batch : line(k) \in Archived /\ rows[line(k)] = 0
    BY <1>4, <1>6, <1>7
  <2>3. \A k \in batch : rows'[line(k)] = 1
    BY <1>1, <2>2
  <2>4. \A o \in Archived : (~\E k \in batch : o = line(k)) => rows'[o] = rows[o]
    BY <1>1
  <2>5. \A o \in Archived : rows'[o] <= 1
    BY <1>1, <2>3, <2>4
  <2> QED BY <2>1, <2>3, <2>4, <2>5
<1>9. \A o \in Archived : o[1] # pass \/ o[2] # file => rows'[o] = rows[o]
  BY <1>8
<1>10. ASSUME NEW d \in DOMAIN Coinm, ~(pass = "coinm" /\ file = d), cut' = cut PROVE DayExplained(d)'
  <2>1. \A o \in OrdersIn("coinm", d) : o[1] = "coinm" /\ o[2] = d
    BY DEF OrdersIn
  <2>2. \A o \in OrdersIn("coinm", d) : rows'[o] = rows[o]
    BY <1>9, <1>10, <2>1, ArchivedTyped
  <2>3. DayExplained(d)
    BY OnceMeans DEF ArchiveInv
  <2> QED BY <1>10, <2>2, <2>3, DayKept DEF DayExplained
<1>11. CASE todo = batch
  <2>1. NextFile
    BY <1>1, <1>11
  <2>2. ArchiveTyped' /\ TardisAhead'
    <3>1. \A o \in Archived : o[2] > file => o[2] # file
      BY <1>3, ArchivedTyped
    <3>2. pass = "tardis" => \A o \in Archived :
               o[1] = "tardis" /\ TimeOf(o) > watermark /\ o[2] > file => rows'[o] = 0
      BY <1>1, <1>9, <3>1 DEF TardisAhead, Ahead
    <3> QED BY <1>1, <1>8, <2>1, <3>2, NextFileAhead
  <2>3. DayInPart'
    BY <2>1 DEF NextFile, DayInPart
  <2>4. ASSUME NEW d \in DOMAIN Coinm, pass = "coinm", file = d PROVE DayWhole(d)'
    <3>1. ASSUME NEW k \in DOMAIN times PROVE rows'[line(k)] = 1
      <4>1. CASE k > place
        <5>1. k \in todo
          BY <1>2, <1>3, <2>4, <4>1
        <5> QED BY <1>8, <1>11, <5>1
      <4>2. CASE ~(k > place)
        <5>1. place > 0 /\ line(k) \in OrdersIn("coinm", file) /\ line(k)[3] = k
          BY <1>3, <1>4, <2>4, <4>2
        <5>2. rows[line(k)] = 1
          BY <1>1, <2>4, <4>2, <5>1 DEF DayInPart
        <5>3. k \notin batch /\ line(k) \in Archived
          BY <1>4, <1>6, <4>2
        <5> QED BY <1>8, <5>2, <5>3
      <4> QED BY <4>1, <4>2
    <3>2. \A o \in OrdersIn("coinm", file) : o \in Archived /\ rows'[o] > 0
      BY <1>4, <2>4, <3>1
    <3>3. OrdersIn("coinm", d) \cap Stored' = OrdersIn("coinm", d)
      BY <2>4, <3>2 DEF Stored
    <3> QED BY <3>3 DEF DayWhole
  <2>5. \A d \in DOMAIN Coinm : DayExplained(d)'
    <3>1. ASSUME NEW d \in DOMAIN Coinm PROVE DayExplained(d)'
      <4>1. cut' = cut
        BY <1>1
      <4>2. CASE pass = "coinm" /\ file = d
        BY <2>4, <4>2 DEF DayExplained
      <4> QED BY <1>10, <4>1, <4>2
    <3> QED BY <3>1
  <2> QED BY <1>8, <2>2, <2>3, <2>5, OnceMeansNext DEF ArchiveInv
<1>12. CASE todo # batch
  <2>1. PICK m \in batch : place' = m /\ \A k \in batch : k <= m
    <3>1. batch \in SUBSET (0 .. Len(times)) /\ batch # {} /\ Len(times) \in Nat
      BY <1>3, <1>5, <1>6, <1>12
    <3>2. Max(batch) \in batch /\ \A k \in batch : k <= Max(batch)
      BY <3>1, MaxOfBounded
    <3> QED BY <1>1, <1>12, <3>2
  <2>2. /\ UNCHANGED <<pass, file, until, watermark, cut>> /\ m \in Nat /\ m > place
        /\ \A k \in todo : k <= m => k \in batch
    BY <1>1, <1>5, <1>6, <1>12, <2>1
  <2>3. ArchiveTyped'
    BY <1>1, <1>8, <2>1, <2>2 DEF ArchiveTyped
  <2>4. TardisAhead'
    <3>1. ASSUME NEW o \in Archived, o[1] = "tardis", pass = "tardis", TimeOf(o) > watermark, Ahead(o)'
          PROVE  rows'[o] = 0
      <4>1. o[3] \in Nat /\ o[2] \in Nat
        BY ArchivedTyped
      <4>2. Ahead(o) /\ ~\E k \in batch : o = line(k)
        BY <1>3, <2>1, <2>2, <3>1, <4>1 DEF Ahead
      <4> QED BY <1>1, <1>8, <3>1, <4>2 DEF TardisAhead
    <3> QED BY <2>2, <3>1 DEF TardisAhead
  <2>5. DayInPart'
    <3>1. SUFFICES ASSUME pass = "coinm", NEW k \in DOMAIN times
                   PROVE  rows'[line(k)] = IF k > m THEN 0 ELSE 1
      BY <1>2, <1>4, <2>1, <2>2 DEF DayInPart
    <3>2. line(k) \in Archived /\ line(k) \in OrdersIn("coinm", file) /\ line(k)[3] = k /\ k \in Nat
      BY <1>3, <1>4, <3>1
    <3>3. CASE k > place
      <4>1. k \in todo
        BY <1>2, <1>3, <3>1, <3>3
      <4>2. CASE k > m
        BY <1>7, <1>8, <2>1, <2>2, <3>2, <4>1, <4>2
      <4>3. CASE ~(k > m)
        BY <1>8, <2>2, <3>2, <4>1, <4>3
      <4> QED BY <4>2, <4>3
    <3>4. CASE ~(k > place)
      <4>1. k \notin batch /\ ~(k > m) /\ place > 0
        BY <1>3, <1>6, <2>2, <3>2, <3>4
      <4>2. rows[line(k)] = 1
        BY <1>1, <3>1, <3>2, <3>4, <4>1 DEF DayInPart
      <4> QED BY <1>8, <3>2, <4>1, <4>2
    <3> QED BY <3>3, <3>4
  <2>6. \A d \in DOMAIN Coinm : DayExplained(d)'
    <3>1. ASSUME NEW d \in DOMAIN Coinm PROVE DayExplained(d)'
      <4>1. CASE pass = "coinm" /\ file = d
        <5>1. pass' = "coinm" /\ file' = d /\ place' > 0
          BY <1>3, <2>1, <2>2, <4>1
        <5> QED BY <5>1 DEF DayExplained
      <4> QED BY <1>10, <2>2, <4>1
    <3> QED BY <3>1
  <2> QED BY <1>8, <2>3, <2>4, <2>5, <2>6, OnceMeansNext DEF ArchiveInv
<1> QED BY <1>11, <1>12

(* The live collector misses only what it was never given or what shares    *)
(* its millisecond with a stored order, whatever pages, restarts and lost   *)
(* connections it goes through; no millisecond has two rows; and the        *)
(* backfills store every archived order once, however broken they run       *)
(* (run_force_order_collector, backfill_force_orders_coinm and _tardis).    *)
THEOREM OrdersKept == CollectorsSpec => []ForceOrdersKept
<1> DEFINE I == LiveInv /\ ArchiveInv
<1>1. CollectorsInit => I
  <2> SUFFICES ASSUME CollectorsInit PROVE LiveInv /\ ArchiveInv
    OBVIOUS
  <2>1. LiveInv
    BY DEF CollectorsInit, LiveInit, LiveInv, LiveTyped, Orders, ReadBack, OneRowEach, ToSet
  <2>2. /\ pass = "none" /\ file = 0 /\ until = 0 /\ place = 0 /\ watermark = -1
        /\ rows = [o \in Archived |-> 0] /\ cut = {}
    BY DEF CollectorsInit, ArchiveInit
  <2>3. ArchiveTyped /\ TardisAhead /\ DayInPart
    BY <2>2 DEF ArchiveTyped, TardisAhead, DayInPart
  <2>4. \A d \in DOMAIN Coinm : DayExplained(d)
    BY <2>2 DEF DayExplained, DayWhole, Stored
  <2>5. ArchivedOnce
    BY <2>2, <2>4, OnceMeans
  <2> QED BY <2>1, <2>3, <2>5 DEF ArchiveInv
<1>2. ASSUME I, [Requests \/ Fill \/ Collect \/ Backfill \/ Bias]_collectorVars PROVE I'
  <2>1. ASSUME UNCHANGED liveVars PROVE LiveInv'
    BY <1>2, <2>1 DEF liveVars, LiveInv, LiveTyped, Orders, ReadBack, InWindow, Waiting, Covered, Millis, OneRowEach
  <2>2. ASSUME UNCHANGED archiveVars PROVE ArchiveInv'
    <3>1. UNCHANGED <<pass, file, until, place, watermark, rows, cut>>
      BY <2>2 DEF archiveVars
    <3>2. ArchiveTyped' /\ TardisAhead' /\ DayInPart'
      BY <1>2, <3>1 DEF ArchiveInv, ArchiveTyped, TardisAhead, Ahead, DayInPart
    <3>3. \A d \in DOMAIN Coinm : DayExplained(d)'
      BY <1>2, <3>1, OnceMeans DEF ArchiveInv, DayExplained, DayWhole, Stored
    <3> QED BY <1>2, <3>1, <3>2, <3>3, OnceMeans, OnceMeansNext DEF ArchiveInv
  <2>3. CASE Requests \/ Fill \/ Bias
    BY <2>1, <2>2, <2>3 DEF Requests, Fill, Bias
  <2>4. CASE Collect
    BY <1>2, <2>2, <2>4, LiveStep DEF Collect
  <2>5. CASE Backfill
    BY <1>2, <2>1, <2>5, PassStarts, FileLeft, ChunkRead DEF Backfill, ArchiveNext
  <2>6. CASE UNCHANGED collectorVars
    BY <2>1, <2>2, <2>6 DEF collectorVars
  <2> QED BY <1>2, <2>3, <2>4, <2>5, <2>6
<1>3. I => ForceOrdersKept
  <2>1. ASSUME I, NEW o \in Orders, o \notin kept \cup missed \cup ToSet(socket)
        PROVE  \E p \in kept \ {o} : printed[p] = printed[o]
    BY <2>1 DEF LiveInv, Waiting, Covered, Millis
  <2> QED BY <2>1 DEF LiveInv, ArchiveInv, ForceOrdersKept, NothingElseLost
<1> QED BY <1>1, <1>2, <1>3, PTL DEF CollectorsSpec

-----------------------------------------------------------------------------
(* The requests beside the other jobs *)

(* No other job touches a call: a behaviour of the collectors is, for the   *)
(* client, one of its own.                                                  *)
LEMMA RequestsPart == CollectorsSpec => Spec
<1>1. CollectorsInit => Init
  BY DEF CollectorsInit
<1>2. [Requests \/ Fill \/ Collect \/ Backfill \/ Bias]_collectorVars => [Next]_vars
  BY DEF Requests, Fill, Collect, Backfill, Bias, collectorVars
<1> QED BY <1>1, <1>2, PTL DEF CollectorsSpec, Spec

(* What the client promises its callers holds of the specification that the *)
(* run collect checks: an answer tells what the exchange did, and a ban     *)
(* sends the next attempt through another proxy.                            *)
THEOREM RequestsHold == CollectorsSpec => ImplementsRequest /\ []BanMovesOn
<1> QED BY RequestsPart, Implementation, BansMoveOn, PTL
=============================================================================
