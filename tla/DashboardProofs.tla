--------------------------- MODULE DashboardProofs --------------------------
(***************************************************************************)
(* Proofs about the three parts of the dashboard, each from the            *)
(* specification of its own: the bots it starts and stops, the decision    *)
(* trail it reads, and the log it streams; and then of all three together. *)
(***************************************************************************)
EXTENDS Dashboard, SequenceTheorems, TLAPS

-----------------------------------------------------------------------------
(* The bots                                                                *)
(*                                                                         *)
(* The dashboard never stops a bot it did not start, and, where nobody     *)
(* else starts bots, it never lets two of them run.                        *)

(* All bots so far come from the dashboard. *)
Alone == own = 1 .. started

Numbered == own \subseteq 1 .. started /\ started \in Nat

(* What the manager knows of the bots when they all come from it.  The      *)
(* second part is why dropping a process that still runs does no harm: the  *)
(* scan finds it, as long as no other handle hides it.                      *)
Known ==
    /\ \A p, q \in alive : p = q
    /\ handle # 0 => alive \subseteq {handle}
    /\ handle # 0 /\ ~exited => handle \in alive
    /\ handle # 0 /\ exited => alive = {}
    /\ call = "spawn" => alive = {} /\ handle = 0
    /\ handle \in Pids \cup {0} /\ alive \subseteq Pids /\ started \in Nat
    /\ exited \in BOOLEAN /\ (handle = 0 => ~exited)

LEMMA NothingMeansNone ==
    ASSUME Known, NothingReported PROVE alive = {}
  BY DEF Known, NothingReported, Reported, Managed, Pids

(* Processes are numbered, and who has started one is never forgotten. *)
LEMMA NumberedStep ==
    ASSUME Numbered, Next PROVE Numbered' /\ (Alone' => Alone)
<1> USE DEF Numbered, Alone
<1>1. CASE Spawn
  <2>1. started' = started + 1 /\ own' = own \cup {started + 1}
    BY <1>1 DEF Spawn
  <2>2. Numbered'
    BY <2>1
  <2>3. ASSUME Alone' PROVE own = 1 .. started
    <3>1. \A p \in 1 .. started : p \in own'
      BY <2>1, <2>3
    <3>2. 1 .. started \subseteq own
      BY <2>1, <3>1
    <3> QED BY <3>2
  <2> QED BY <2>2, <2>3
<1>2. CASE StartOutside
  BY <1>2 DEF StartOutside
<1>3. CASE UNCHANGED <<own, started>>
  BY <1>3
<1>4. CASE Status \/ StartRefused \/ Start \/ Stop
  BY <1>3, <1>4 DEF Status, StartRefused, Start, Stop
<1>5. CASE WaitGraceful \/ WaitHard \/ \E p \in Pids : Exit(p)
  BY <1>3, <1>5 DEF WaitGraceful, WaitHard, Exit
<1> QED BY <1>1, <1>2, <1>4, <1>5 DEF Next, Call

LEMMA KnownStep ==
    ASSUME Known, Numbered, Alone, Alone', Next PROVE Known'
<1> USE DEF Known
<1>1. CASE Status
  BY <1>1 DEF Status, DropExited
<1>2. CASE StartRefused
  BY <1>2 DEF StartRefused
<1>3. CASE Start
  <2>1. alive = {}
    BY <1>3, NothingMeansNone DEF Start
  <2>2. handle' = 0
    BY <1>3, <2>1 DEF Start, DropExited
  <2> QED BY <1>3, <2>1, <2>2 DEF Start
<1>4. CASE Stop
  BY <1>4 DEF Stop, DropExited, Managed
<1>5. CASE Spawn
  BY <1>5, MaxBotsAssumption DEF Spawn, Pids
<1>6. CASE WaitGraceful \/ WaitHard
  <2>1. UNCHANGED <<alive, started>> /\ call' # "spawn"
    BY <1>6 DEF WaitGraceful, WaitHard, Stopped
  <2>2. UNCHANGED <<handle, exited>> \/ (handle' = 0 /\ exited' = FALSE)
    BY <1>6 DEF WaitGraceful, WaitHard, Stopped
  <2>3. CASE UNCHANGED <<handle, exited>>
    BY <2>1, <2>3, Zenon
  <2>4. CASE handle' = 0 /\ exited' = FALSE
    <3>1. ~exited' /\ exited' \in BOOLEAN
      BY <2>4
    <3> QED BY <2>1, <2>4, <3>1, Zenon
  <2> QED BY <2>2, <2>3, <2>4
<1>7. CASE StartOutside
  BY <1>7 DEF StartOutside, Alone, Numbered
<1>8. ASSUME NEW p \in Pids, Exit(p) PROVE Known'
  <2>1. alive' = alive \ {p} /\ UNCHANGED <<started, handle, call>> /\ p \in alive
    BY <1>8 DEF Exit
  <2>2. alive' = {}
    BY <2>1
  <2>3. CASE handle = 0
    <3>1. p # handle /\ exited = FALSE
      BY <2>1, <2>3 DEF Pids
    <3>2. exited' = FALSE
      BY <1>8, <3>1 DEF Exit
    <3> QED BY <2>1, <2>2, <2>3, <3>2
  <2>4. CASE handle # 0
    <3>1. exited' = TRUE
      BY <1>8, <2>1, <2>4 DEF Exit
    <3> QED BY <2>1, <2>2, <2>4, <3>1
  <2> QED BY <2>3, <2>4
<1> QED BY <1>1, <1>2, <1>3, <1>4, <1>5, <1>6, <1>7, <1>8 DEF Next, Call

(* Bots that come from the dashboard alone never run two at a time, also    *)
(* when one outlives both of stop's timeouts.                               *)
THEOREM OneBot == Spec => []AtMostOneBot
<1> DEFINE Inv == Numbered /\ (Alone => Known)
<1>1. Init => Inv
  <2> SUFFICES ASSUME Init PROVE Inv
    OBVIOUS
  <2>1. alive = {} /\ own = {} /\ handle = 0 /\ exited = FALSE /\ started = 0 /\ call = "none"
    BY DEF Init
  <2> QED BY <2>1 DEF Known, Numbered
<1>2. Inv /\ [Next]_vars => Inv'
  <2>1. ASSUME Inv, Next PROVE Inv'
    BY <2>1, KnownStep, NumberedStep
  <2>2. ASSUME Inv, UNCHANGED vars PROVE Inv'
    BY <2>2 DEF Known, Numbered, Alone, vars
  <2> QED BY <2>1, <2>2
<1>3. Inv => AtMostOneBot
  BY DEF Known, Alone, AtMostOneBot
<1> QED BY <1>1, <1>2, <1>3, PTL DEF Spec

-----------------------------------------------------------------------------
(* The manager's state is well typed; above all, a handle whose process has *)
(* not been seen to end is that of a process that is alive.                 *)
THEOREM TypeCorrect == Spec => []TypeOK
<1>1. Init => TypeOK
  <2> SUFFICES ASSUME Init PROVE TypeOK
    OBVIOUS
  <2>1. /\ alive = {} /\ own = {} /\ asked = {} /\ started = 0 /\ handle = 0 /\ ~exited
        /\ exited \in BOOLEAN /\ call = "none" /\ answer.pid = 0
    BY DEF Init
  <2> QED BY <2>1, MaxBotsAssumption DEF TypeOK
<1>2. TypeOK /\ [Next]_vars => TypeOK'
  <2> SUFFICES ASSUME TypeOK, [Next]_vars PROVE TypeOK'
    OBVIOUS
  <2> USE MaxBotsAssumption DEF TypeOK
  <2>1. CASE Status
    <3>1. answer'.pid \in 0 .. started
      BY <2>1 DEF Status, Answered, Pids, Reported, Managed
    <3>2. /\ handle' = IF exited THEN 0 ELSE handle
          /\ exited' \in BOOLEAN /\ ~exited'
          /\ UNCHANGED <<alive, own, started, call, asked>>
      BY <2>1 DEF Status, DropExited
    <3> QED BY <3>1, <3>2
  <2>2. CASE StartRefused
    BY <2>2 DEF StartRefused, Answered, Reported, Managed, Pids
  <2>3. CASE Start
    BY <2>3 DEF Start, DropExited
  <2>4. CASE Stop
    <3>1. answer'.pid \in 0 .. started
      BY <2>4 DEF Stop, Answered, Pids, Reported, Managed
    <3>2. /\ handle' = IF exited THEN 0 ELSE handle
          /\ exited' \in BOOLEAN /\ ~exited'
          /\ UNCHANGED <<alive, own, started>>
      BY <2>4 DEF Stop, DropExited
    <3>3. asked' \subseteq 1 .. started /\ call' \in {"none", "wait10"}
      BY <2>4 DEF Stop, Managed
    <3> QED BY <3>1, <3>2, <3>3
  <2>5. CASE Spawn
    BY <2>5 DEF Spawn, Answered
  <2>6. CASE WaitGraceful \/ WaitHard
    <3>1. UNCHANGED <<alive, own, started, asked>> /\ call' \in {"none", "wait5"}
      BY <2>6 DEF WaitGraceful, WaitHard, Stopped
    <3>2. CASE UNCHANGED <<handle, exited, answer>>
      BY <3>1, <3>2
    <3>3. CASE Stopped
      <4>1. handle' = 0 /\ ~exited' /\ exited' \in BOOLEAN /\ answer'.pid = handle
        BY <3>3 DEF Stopped, Answered
      <4> QED BY <3>1, <4>1
    <3> QED BY <2>6, <3>2, <3>3 DEF WaitGraceful, WaitHard
  <2>7. CASE StartOutside
    BY <2>7 DEF StartOutside
  <2>8. ASSUME NEW p \in Pids, Exit(p) PROVE TypeOK'
    BY <2>8 DEF Exit, Pids
  <2>9. CASE UNCHANGED vars
    BY <2>9 DEF vars
  <2> QED BY <2>1, <2>2, <2>3, <2>4, <2>5, <2>6, <2>7, <2>8, <2>9 DEF Next, Call
<1> QED BY <1>1, <1>2, PTL DEF Spec

-----------------------------------------------------------------------------
HandleIsOwn == handle \in own \cup {0}

(* No bot is signalled but those the dashboard has started, whoever else    *)
(* starts bots and whatever the scan of the process table reports.          *)
THEOREM OwnStopped == Spec => []OnlyOwnAreStopped
<1> DEFINE Inv == HandleIsOwn /\ OnlyOwnAreStopped
<1>1. Init => Inv
  BY DEF Init, HandleIsOwn, OnlyOwnAreStopped
<1>2. Inv /\ [Next]_vars => Inv'
  <2> SUFFICES ASSUME Inv, [Next]_vars PROVE Inv'
    OBVIOUS
  <2> USE DEF HandleIsOwn, OnlyOwnAreStopped
  <2>1. CASE Status \/ StartRefused \/ Start
    BY <2>1 DEF Status, StartRefused, Start, DropExited
  <2>2. CASE Stop
    BY <2>2 DEF Stop, DropExited, Managed
  <2>3. CASE Call
    BY <2>3 DEF Call, Spawn, WaitGraceful, WaitHard, Stopped
  <2>4. CASE StartOutside \/ \E p \in Pids : Exit(p)
    BY <2>4 DEF StartOutside, Exit
  <2>5. CASE UNCHANGED vars
    BY <2>5 DEF vars
  <2> QED BY <2>1, <2>2, <2>3, <2>4, <2>5 DEF Next
<1> QED BY <1>1, <1>2, PTL DEF Spec

-----------------------------------------------------------------------------
(* The decision trail                                                      *)
(*                                                                         *)
(* The trail of any number of cycles is true.  TrailTellsTruth talks of    *)
(* cycles that are over; what makes it inductive is what holds of the one  *)
(* under way at each of its steps: which rows it has, that it has no       *)
(* outcome before the step that records one, and that its rows agree with  *)
(* the result it is about to record.                                       *)

Groups == {"snapshot_failed", "lifecycle_failed", "safe_mode_skip", "no_signal",
           "governance_veto", "risk_block", "execution_failed", "signal_generated"}

Before == {"refresh", "snapshot", "lifecycle", "mode", "features", "signal", "governance", "risk",
           "execute", "open"}
Steps  == Before \cup {"idle", "down", "record", "recorded", "finish", "raised"}

Typed ==
    /\ cycle \in Nat /\ step \in Steps
    /\ \A o \in outcomes : o.cycle \in 1 .. cycle /\ o.group \in Groups
    /\ \A t, c : Row(t, c) => c \in 1 .. cycle
    /\ step \notin {"idle", "down"} => cycle >= 1

(* A row is there only when the one it refers to is. *)
Chain(c) ==
    /\ Row("features", c) => Row("snapshot", c)
    /\ Row("candidate", c) => Row("features", c)
    /\ Row("executable", c) => Row("candidate", c)
    /\ Row("position", c) => Row("executable", c) /\ Row("execution", c)
    /\ Row("trade", c) => Row("position", c)
    /\ Row("closed", c) => Row("trade", c)

Linked ==
    /\ \A c : Chain(c)
    /\ \A t \in refs : Row(t, cycle)
    /\ \A o \in outcomes : \A t \in o.refs : Row(t, o.cycle)

(* What an outcome says of the rows of its cycle. *)
Says(group, c) ==
    /\ group \in {"snapshot_failed", "lifecycle_failed", "safe_mode_skip"} => ~Row("features", c)
    /\ group = "no_signal" => ~Row("candidate", c)
    /\ group = "governance_veto" => ~Row("executable", c)
    /\ group = "risk_block" => Row("executable", c) /\ ~Row("position", c)
    /\ group = "execution_failed" => Row("executable", c)
    /\ group = "signal_generated" => Row("trade", c)

(* The rows the cycle under way has at each step. *)
Here ==
    /\ step \in {"refresh", "snapshot"} => ~Row("snapshot", cycle)
    /\ step \in {"lifecycle", "mode", "features"} => Row("snapshot", cycle) /\ ~Row("features", cycle)
    /\ step = "signal" => Row("features", cycle) /\ ~Row("candidate", cycle)
    /\ step = "governance" => Row("candidate", cycle) /\ ~Row("executable", cycle)
    /\ step \in {"risk", "execute"} => Row("executable", cycle) /\ ~Row("position", cycle)
    /\ step = "open" => Row("position", cycle)
    /\ step \in {"record", "recorded"} => result \in Groups /\ Says(result, cycle)

Agree ==
    /\ \A o \in outcomes : Says(o.group, o.cycle)
    /\ step \in Before => \A o \in outcomes : o.cycle # cycle

(* Only a failure after a trade was recorded adds a second outcome. *)
SecondOf(group, first) == first = "signal_generated" /\ group = "execution_failed"

Once ==
    /\ \A o, p \in outcomes :
          o.cycle = p.cycle => o.group = p.group \/ SecondOf(o.group, p.group) \/ SecondOf(p.group, o.group)
    /\ \A o \in outcomes : o.cycle = cycle =>
          \/ SecondOf(result, o.group)
          \/ step # "record" /\ o.group = result

HasResult == \E o \in outcomes : o.cycle = cycle /\ o.group = result

Complete ==
    /\ \A c \in 1 .. cycle - 1 : c \notin cut => \E o \in outcomes : o.cycle = c
    /\ step \in {"recorded", "finish", "idle", "down"} /\ cycle >= 1 /\ cycle \notin cut => HasResult
    /\ step = "raised" => cycle \in cut

Shown == step \in {"idle", "down"} /\ cycle >= 1 /\ cycle \notin cut =>
             metrics.status # "running" /\ metrics.outcome = result

Inv == Typed /\ Linked /\ Here /\ Agree /\ Once /\ Complete /\ Shown

-----------------------------------------------------------------------------
(* Proofs *)

(* What a committed row adds, and what stays without one. *)
LEMMA Inserted ==
    ASSUME NEW S
    PROVE  /\ Insert(S) => \A t, c : Row(t, c)' <=> Row(t, c) \/ (t \in S /\ c = cycle)
           /\ UNCHANGED rows => \A t, c : Row(t, c)' <=> Row(t, c)
BY DEF Insert, Row

(* Before an outcome is recorded the cycle has none, so a row of the cycle  *)
(* leaves what the outcomes say as it is.                                  *)
LEMMA OutcomesStayTrue ==
    ASSUME Inv, step \in Before, UNCHANGED <<outcomes, cycle>>,
           \A t, c : c # cycle => (Row(t, c)' <=> Row(t, c))
    PROVE  Agree'
<1>1. \A o \in outcomes : o.cycle # cycle /\ Says(o.group, o.cycle)
  BY DEF Inv, Agree
<1>2. ASSUME NEW o \in outcomes PROVE Says(o.group, o.cycle)'
  BY <1>1 DEF Says
<1> QED BY <1>1, <1>2 DEF Agree

(* A new cycle has no rows and no outcomes yet; the one before is over. *)
LEMMA BeginCycleKeeps == ASSUME Inv, BeginCycle PROVE Inv'
<1> USE DEF Inv, Typed, Steps, Before, Groups,
           BeginCycle, UpdateMetrics, UpsertRuntimeMetrics
<1>1. Typed'
  BY DEF Row
<1>2. Linked'
  BY DEF Linked, Chain, Row
<1>3. Here'
  BY DEF Here, Says, Linked, Chain, Row
<1>4. Agree'
  BY DEF Agree, Says, Row
<1>5. Once'
  BY DEF Once, SecondOf, Agree
<1>6. Complete'
  BY DEF Complete, HasResult
<1>7. Shown'
  BY DEF Shown, Complete
<1> QED BY <1>1, <1>2, <1>3, <1>4, <1>5, <1>6, <1>7

(* A step that commits nothing, or gives the cycle up. *)
LEMMA RefreshStateKeeps == ASSUME Inv, RefreshState PROVE Inv'
<1> USE DEF Inv, Typed, Steps, Before, Groups,
           RefreshState, GoOn, Raise
<1>1. Typed'
  BY DEF Row
<1>2. Linked'
  BY DEF Linked, Chain, Row
<1>3. Here'
  BY DEF Here, Says, Linked, Chain, Row
<1>4. Agree'
  BY OutcomesStayTrue DEF Row
<1>5. Once'
  BY DEF Once, SecondOf
<1>6. Complete'
  BY DEF Complete, HasResult
<1>7. Shown'
  BY DEF Shown, Complete
<1> QED BY <1>1, <1>2, <1>3, <1>4, <1>5, <1>6, <1>7

(* The first row of the cycle, or a failure before or after it. *)
LEMMA BuildSnapshotKeeps == ASSUME Inv, BuildSnapshot PROVE Inv'
<1> USE DEF Inv, Typed, Steps, Before, Groups,
           BuildSnapshot, GoOn, EndWith, RecordMarketSnapshot, InsertMarketSnapshot
<1>0. /\ Insert({"snapshot"}) =>
            \A t, c : Row(t, c)' <=> Row(t, c) \/ (t \in {"snapshot"} /\ c = cycle)
      /\ UNCHANGED rows => \A t, c : Row(t, c)' <=> Row(t, c)
  BY Inserted
<1>1. Typed'
  BY <1>0 DEF Row, Insert
<1>2. Linked'
  BY <1>0 DEF Linked, Chain, Here
<1>3. Here'
  BY <1>0 DEF Here, Says, Linked, Chain
<1>4. Agree'
  BY <1>0, OutcomesStayTrue DEF Row, Insert
<1>5. Once'
  BY <1>0 DEF Once, SecondOf, Agree, Complete, Here
<1>6. Complete'
  BY <1>0 DEF Complete, HasResult
<1>7. Shown'
  BY <1>0 DEF Shown, Complete
<1> QED BY <1>1, <1>2, <1>3, <1>4, <1>5, <1>6, <1>7

(* Closing a trade of an earlier cycle changes no row an outcome speaks of. *)
LEMMA SettleTradeKeeps == ASSUME Inv, SettleTrade PROVE Inv'
<1> USE DEF Inv, Typed, Steps, Before, Groups,
           SettleTrade
<1>1. Typed'
  BY DEF Row
<1>2. Linked'
  BY DEF Linked, Chain, Row
<1>3. Here'
  BY DEF Here, Says, Linked, Chain, Row
<1>4. Agree'
  BY DEF Agree, Says, Row
<1>5. Once'
  BY DEF Once, SecondOf
<1>6. Complete'
  BY DEF Complete, HasResult
<1>7. Shown'
  BY DEF Shown, Complete
<1> QED BY <1>1, <1>2, <1>3, <1>4, <1>5, <1>6, <1>7

(* The lifecycle may fail, which is the cycle's outcome. *)
LEMMA ProcessLifecycleKeeps == ASSUME Inv, ProcessLifecycle PROVE Inv'
<1> USE DEF Inv, Typed, Steps, Before, Groups,
           ProcessLifecycle, GoOn, EndWith
<1>1. Typed'
  BY DEF Row
<1>2. Linked'
  BY DEF Linked, Chain, Row
<1>3. Here'
  BY DEF Here, Says, Linked, Chain, Row
<1>4. Agree'
  BY OutcomesStayTrue DEF Row
<1>5. Once'
  BY DEF Once, SecondOf, Agree, Complete, Here
<1>6. Complete'
  BY DEF Complete, HasResult
<1>7. Shown'
  BY DEF Shown, Complete
<1> QED BY <1>1, <1>2, <1>3, <1>4, <1>5, <1>6, <1>7

(* Safe mode ends the cycle before it computes features. *)
LEMMA CheckSafeModeKeeps == ASSUME Inv, CheckSafeMode PROVE Inv'
<1> USE DEF Inv, Typed, Steps, Before, Groups,
           CheckSafeMode, GoOn, EndWith
<1>1. Typed'
  BY DEF Row
<1>2. Linked'
  BY DEF Linked, Chain, Row
<1>3. Here'
  BY DEF Here, Says, Linked, Chain, Row
<1>4. Agree'
  BY OutcomesStayTrue DEF Row
<1>5. Once'
  BY DEF Once, SecondOf, Agree, Complete, Here
<1>6. Complete'
  BY DEF Complete, HasResult
<1>7. Shown'
  BY DEF Shown, Complete
<1> QED BY <1>1, <1>2, <1>3, <1>4, <1>5, <1>6, <1>7

(* The features row refers to the snapshot row that is there. *)
LEMMA ComputeFeaturesKeeps == ASSUME Inv, ComputeFeatures PROVE Inv'
<1> USE DEF Inv, Typed, Steps, Before, Groups,
           ComputeFeatures, GoOn, Raise, RecordFeatureSnapshot, InsertFeatureSnapshot
<1>0. /\ Insert({"features"}) =>
            \A t, c : Row(t, c)' <=> Row(t, c) \/ (t \in {"features"} /\ c = cycle)
      /\ UNCHANGED rows => \A t, c : Row(t, c)' <=> Row(t, c)
  BY Inserted
<1>1. Typed'
  BY <1>0 DEF Row, Insert
<1>2. Linked'
  BY <1>0 DEF Linked, Chain, Here
<1>3. Here'
  BY <1>0 DEF Here, Says, Linked, Chain
<1>4. Agree'
  BY <1>0, OutcomesStayTrue DEF Row, Insert
<1>5. Once'
  BY <1>0 DEF Once, SecondOf
<1>6. Complete'
  BY <1>0 DEF Complete, HasResult
<1>7. Shown'
  BY <1>0 DEF Shown, Complete
<1> QED BY <1>1, <1>2, <1>3, <1>4, <1>5, <1>6, <1>7

(* The candidate row, or the outcome that there is none. *)
LEMMA GenerateSignalKeeps == ASSUME Inv, GenerateSignal PROVE Inv'
<1> USE DEF Inv, Typed, Steps, Before, Groups,
           GenerateSignal, GoOn, EndWith, Raise, SaveSignalCandidate
<1>0. /\ Insert({"candidate"}) =>
            \A t, c : Row(t, c)' <=> Row(t, c) \/ (t \in {"candidate"} /\ c = cycle)
      /\ UNCHANGED rows => \A t, c : Row(t, c)' <=> Row(t, c)
  BY Inserted
<1>1. Typed'
  BY <1>0 DEF Row, Insert
<1>2. Linked'
  BY <1>0 DEF Linked, Chain, Here
<1>3. Here'
  BY <1>0 DEF Here, Says, Linked, Chain
<1>4. Agree'
  BY <1>0, OutcomesStayTrue DEF Row, Insert
<1>5. Once'
  BY <1>0 DEF Once, SecondOf, Agree, Complete, Here
<1>6. Complete'
  BY <1>0 DEF Complete, HasResult
<1>7. Shown'
  BY <1>0 DEF Shown, Complete
<1> QED BY <1>1, <1>2, <1>3, <1>4, <1>5, <1>6, <1>7

(* The executable row is committed only when governance passes. *)
LEMMA GovernKeeps == ASSUME Inv, Govern PROVE Inv'
<1> USE DEF Inv, Typed, Steps, Before, Groups,
           Govern, GoOn, EndWith, Raise, SaveExecutableSignal
<1>0. /\ Insert({"executable"}) =>
            \A t, c : Row(t, c)' <=> Row(t, c) \/ (t \in {"executable"} /\ c = cycle)
      /\ UNCHANGED rows => \A t, c : Row(t, c)' <=> Row(t, c)
  BY Inserted
<1>1. Typed'
  BY <1>0 DEF Row, Insert
<1>2. Linked'
  BY <1>0 DEF Linked, Chain, Here
<1>3. Here'
  BY <1>0 DEF Here, Says, Linked, Chain
<1>4. Agree'
  BY <1>0, OutcomesStayTrue DEF Row, Insert
<1>5. Once'
  BY <1>0 DEF Once, SecondOf, Agree, Complete, Here
<1>6. Complete'
  BY <1>0 DEF Complete, HasResult
<1>7. Shown'
  BY <1>0 DEF Shown, Complete
<1> QED BY <1>1, <1>2, <1>3, <1>4, <1>5, <1>6, <1>7

(* A block comes before any position. *)
LEMMA AssessRiskKeeps == ASSUME Inv, AssessRisk PROVE Inv'
<1> USE DEF Inv, Typed, Steps, Before, Groups,
           AssessRisk, GoOn, EndWith, Raise
<1>1. Typed'
  BY DEF Row
<1>2. Linked'
  BY DEF Linked, Chain, Row
<1>3. Here'
  BY DEF Here, Says, Linked, Chain, Row
<1>4. Agree'
  BY OutcomesStayTrue DEF Row
<1>5. Once'
  BY DEF Once, SecondOf, Agree, Complete, Here
<1>6. Complete'
  BY DEF Complete, HasResult
<1>7. Shown'
  BY DEF Shown, Complete
<1> QED BY <1>1, <1>2, <1>3, <1>4, <1>5, <1>6, <1>7

(* Position and fill in one commit, or none of them. *)
LEMMA ExecuteSignalKeeps == ASSUME Inv, ExecuteSignal PROVE Inv'
<1> USE DEF Inv, Typed, Steps, Before, Groups,
           ExecuteSignal, GoOn, EndWith, InsertPosition
<1>0. /\ Insert({"position", "execution"}) =>
            \A t, c : Row(t, c)' <=> Row(t, c) \/ (t \in {"position", "execution"} /\ c = cycle)
      /\ UNCHANGED rows => \A t, c : Row(t, c)' <=> Row(t, c)
  BY Inserted
<1>1. Typed'
  BY <1>0 DEF Row, Insert
<1>2. Linked'
  BY <1>0 DEF Linked, Chain, Here
<1>3. Here'
  BY <1>0 DEF Here, Says, Linked, Chain
<1>4. Agree'
  BY <1>0, OutcomesStayTrue DEF Row, Insert
<1>5. Once'
  BY <1>0 DEF Once, SecondOf, Agree, Complete, Here
<1>6. Complete'
  BY <1>0 DEF Complete, HasResult
<1>7. Shown'
  BY <1>0 DEF Shown, Complete
<1> QED BY <1>1, <1>2, <1>3, <1>4, <1>5, <1>6, <1>7

(* The trade row of the position that is there. *)
LEMMA RecordTradeOpenKeeps == ASSUME Inv, RecordTradeOpen PROVE Inv'
<1> USE DEF Inv, Typed, Steps, Before, Groups,
           RecordTradeOpen, EndWith, InsertTradeLogOpen
<1>0. /\ Insert({"trade"}) =>
            \A t, c : Row(t, c)' <=> Row(t, c) \/ (t \in {"trade"} /\ c = cycle)
      /\ UNCHANGED rows => \A t, c : Row(t, c)' <=> Row(t, c)
  BY Inserted
<1>1. Typed'
  BY <1>0 DEF Row, Insert
<1>2. Linked'
  BY <1>0 DEF Linked, Chain, Here
<1>3. Here'
  BY <1>0 DEF Here, Says, Linked, Chain
<1>4. Agree'
  BY <1>0, OutcomesStayTrue DEF Row, Insert
<1>5. Once'
  BY <1>0 DEF Once, SecondOf, Agree, Complete, Here
<1>6. Complete'
  BY <1>0 DEF Complete, HasResult
<1>7. Shown'
  BY <1>0 DEF Shown, Complete
<1> QED BY <1>1, <1>2, <1>3, <1>4, <1>5, <1>6, <1>7

(* The outcome that is recorded says what Here knows of the rows. *)
LEMMA RecordOutcomeKeeps == ASSUME Inv, RecordOutcome PROVE Inv'
<1> USE DEF Inv, Typed, Steps, Before, Groups,
           RecordOutcome, InsertDecisionOutcome, Outcome
<1> DEFINE n == Outcome(result)
<1>n. n.cycle = cycle /\ n.group = result /\ n.refs = refs
  OBVIOUS
<1>0. \/ outcomes' = outcomes \cup {n} /\ UNCHANGED cut
      \/ outcomes' = outcomes /\ cut' = cut \cup {cycle}
  OBVIOUS
<1> HIDE DEF n
<1>1. Typed'
  <2>1. CASE outcomes' = outcomes
    BY <2>1 DEF Row
  <2>2. CASE outcomes' = outcomes \cup {n}
    BY <2>2, <1>n DEF Here, Row
  <2> QED BY <1>0, <2>1, <2>2
<1>2. Linked'
  <2>1. UNCHANGED <<rows, refs, cycle>>
    OBVIOUS
  <2>2. \A o \in outcomes' : \A t \in o.refs : Row(t, o.cycle)
    BY <1>0, <1>n DEF Linked
  <2> QED BY <2>1, <2>2 DEF Linked, Chain, Row
<1>3. Here'
  BY DEF Here, Says, Linked, Chain, Row
<1>4. Agree'
  <2>1. \A o \in outcomes' : Says(o.group, o.cycle)
    BY <1>0, <1>n DEF Agree, Here
  <2> QED BY <2>1 DEF Agree, Says, Row
<1>5. Once'
  BY <1>0, <1>n DEF Once, SecondOf
<1>6. Complete'
  <2>1. \A c \in 1 .. cycle - 1 : c \notin cut' => \E o \in outcomes' : o.cycle = c
    BY <1>0 DEF Complete
  <2>2. cycle \notin cut' => \E o \in outcomes' : o.cycle = cycle /\ o.group = result
    BY <1>0, <1>n
  <2> QED BY <2>1, <2>2 DEF Complete, HasResult
<1>7. Shown'
  BY DEF Shown, Complete
<1> QED BY <1>1, <1>2, <1>3, <1>4, <1>5, <1>6, <1>7

(* Only an opened trade can be recorded a second time, as a failure. *)
LEMMA AfterOutcomeKeeps == ASSUME Inv, AfterOutcome PROVE Inv'
<1> USE DEF Inv, Typed, Steps, Before, Groups,
           AfterOutcome, GoOn, EndWith, Raise
<1>1. Typed'
  BY DEF Row
<1>2. Linked'
  BY DEF Linked, Chain, Row
<1>3. Here'
  BY DEF Here, Says, Linked, Chain, Row, Complete
<1>4. Agree'
  BY DEF Agree, Says, Row
<1>5. Once'
  BY DEF Once, SecondOf, Complete, Agree, Complete, Here
<1>6. Complete'
  BY DEF Complete, HasResult
<1>7. Shown'
  BY DEF Shown, Complete
<1> QED BY <1>1, <1>2, <1>3, <1>4, <1>5, <1>6, <1>7

(* What the dashboard is shown is the result that was counted. *)
LEMMA FinishCycleKeeps == ASSUME Inv, FinishCycle PROVE Inv'
<1> USE DEF Inv, Typed, Steps, Before, Groups,
           FinishCycle, UpdateMetrics, UpsertRuntimeMetrics, Blocked
<1>1. Typed'
  BY DEF Row
<1>2. Linked'
  BY DEF Linked, Chain, Row
<1>3. Here'
  BY DEF Here, Says, Linked, Chain, Row
<1>4. Agree'
  BY DEF Agree, Says, Row
<1>5. Once'
  BY DEF Once, SecondOf
<1>6. Complete'
  BY DEF Complete, HasResult
<1>7. Shown'
  BY DEF Shown, Complete
<1> QED BY <1>1, <1>2, <1>3, <1>4, <1>5, <1>6, <1>7

(* A process that dies cuts the cycle it was in. *)
LEMMA DieKeeps == ASSUME Inv, Die PROVE Inv'
<1> USE DEF Inv, Typed, Steps, Before, Groups,
           Die
<1>1. Typed'
  BY DEF Row
<1>2. Linked'
  BY DEF Linked, Chain, Row
<1>3. Here'
  BY DEF Here, Says, Linked, Chain, Row
<1>4. Agree'
  BY DEF Agree, Says, Row
<1>5. Once'
  BY DEF Once, SecondOf
<1>6. Complete'
  BY DEF Complete, HasResult
<1>7. Shown'
  BY DEF Shown, Complete
<1> QED BY <1>1, <1>2, <1>3, <1>4, <1>5, <1>6, <1>7

(* A new process starts from the tables alone. *)
LEMMA RestartKeeps == ASSUME Inv, Restart PROVE Inv'
<1> USE DEF Inv, Typed, Steps, Before, Groups,
           Restart
<1>1. Typed'
  BY DEF Row
<1>2. Linked'
  BY DEF Linked, Chain, Row
<1>3. Here'
  BY DEF Here, Says, Linked, Chain, Row
<1>4. Agree'
  BY DEF Agree, Says, Row
<1>5. Once'
  BY DEF Once, SecondOf
<1>6. Complete'
  BY DEF Complete, HasResult
<1>7. Shown'
  BY DEF Shown, Complete
<1> QED BY <1>1, <1>2, <1>3, <1>4, <1>5, <1>6, <1>7

(* No cycle has begun. *)
LEMMA InitTrail == TrailInit => Inv
BY DEF TrailInit, Inv, Typed, Steps, Before, Groups, Linked, Chain, Here, Says, Agree, Once, SecondOf,
       Complete, HasResult, Shown, Row

(* Every action keeps the invariant, and so does a step of nothing. *)
LEMMA StepTrail == Inv /\ [TrailNext]_trailVars => Inv'
<1>1. ASSUME Inv, UNCHANGED trailVars PROVE Inv'
  <2> USE <1>1 DEF trailVars
  <2>1. Typed' /\ Linked'
    BY DEF Inv, Typed, Linked, Chain, Row
  <2>2. Here' /\ Agree'
    BY DEF Inv, Here, Agree, Says, Row
  <2>3. Once' /\ Complete' /\ Shown'
    BY DEF Inv, Once, Complete, HasResult, Shown
  <2> QED BY <2>1, <2>2, <2>3 DEF Inv
<1> QED
  BY <1>1, BeginCycleKeeps, RefreshStateKeeps, BuildSnapshotKeeps, SettleTradeKeeps,
     ProcessLifecycleKeeps, CheckSafeModeKeeps, ComputeFeaturesKeeps,
     GenerateSignalKeeps, GovernKeeps, AssessRiskKeeps, ExecuteSignalKeeps,
     RecordTradeOpenKeeps, RecordOutcomeKeeps, AfterOutcomeKeeps, FinishCycleKeeps,
     DieKeeps, RestartKeeps DEF TrailNext

(* What the invariant says of the rows is what the readers join. *)
LEMMA InvRowsLinked == Inv => RowsLinked
BY DEF Inv, Linked, Chain, RowsLinked, ReadPositions, ReadTrades, Promoted, HasExecutionRecord

(* Agree, read by the name of the outcome. *)
LEMMA InvOutcomesTrue == Inv => OutcomesTrue
<1> SUFFICES ASSUME Inv, NEW o \in outcomes
             PROVE  /\ o.group \in {"snapshot_failed", "lifecycle_failed", "safe_mode_skip"} => ~Row("features", o.cycle)
                    /\ o.group = "no_signal" => ~Row("candidate", o.cycle)
                    /\ o.group = "governance_veto" => ~Promoted(o.cycle)
                    /\ o.group = "risk_block" => Promoted(o.cycle) /\ ~Row("position", o.cycle)
                    /\ o.group = "execution_failed" => Promoted(o.cycle)
                    /\ o.group = "signal_generated" => HasExecutionRecord(o.cycle) /\ Row("trade", o.cycle)
                    /\ o.group \in Groups
  BY DEF OutcomesTrue, Groups
<1>1. Says(o.group, o.cycle) /\ Chain(o.cycle) /\ o.group \in Groups
  BY DEF Inv, Agree, Linked, Typed
<1> QED BY <1>1 DEF Says, Chain, Promoted, HasExecutionRecord

(* What is counted and shown is what Once, Complete and Shown say of the     *)
(* outcomes.                                                               *)
LEMMA InvCountedOnce == Inv => CountedOnce
<1> SUFFICES ASSUME Inv, NEW c \in 1 .. cycle
             PROVE  /\ \A g, k \in Counted(c) : g # k => {g, k} = {"signal_generated", "execution_failed"}
                    /\ c \notin cut /\ (c < cycle \/ step = "idle") => Counted(c) # {}
                    /\ c = cycle /\ c \notin cut /\ step = "idle" =>
                          Freshness.status # "running" /\ Freshness.outcome \in Counted(c)
  BY DEF CountedOnce
<1>0. cycle \in Nat /\ cycle >= 1
  BY DEF Inv, Typed
<1>1. \A g : g \in Counted(c) <=> \E o \in outcomes : o.cycle = c /\ o.group = g
  BY DEF Counted
<1>2. \A g, k \in Counted(c) : g # k => {g, k} = {"signal_generated", "execution_failed"}
  BY <1>1 DEF Inv, Once, SecondOf
<1>3. c \notin cut /\ (c < cycle \/ step = "idle") => Counted(c) # {}
  BY <1>0, <1>1 DEF Inv, Complete, HasResult
<1>4. c = cycle /\ c \notin cut /\ step = "idle" => Freshness.status # "running" /\ Freshness.outcome \in Counted(c)
  BY <1>0, <1>1 DEF Inv, Complete, HasResult, Shown, Freshness
<1> QED BY <1>2, <1>3, <1>4

(* Whatever fails and wherever the process dies, for any number of cycles: *)
(* the rows the readers join are there, the outcomes agree with them, and   *)
(* each cycle that was not cut off is counted once.                        *)
THEOREM TrailTrue == TrailSpec => []TrailTellsTruth
<1>1. TrailInit => Inv
  BY InitTrail
<1>2. Inv /\ [TrailNext]_trailVars => Inv'
  BY StepTrail
<1>3. Inv => TrailTellsTruth
  BY InvRowsLinked, InvOutcomesTrue, InvCountedOnce DEF TrailTellsTruth
<1> QED BY <1>1, <1>2, <1>3, PTL DEF TrailSpec

-----------------------------------------------------------------------------
(* The log stream                                                          *)
(*                                                                         *)
(* The position from which the stream reads on fits the last line it sent:  *)
(* of the same file it is the line's own, or, while only the backlog is     *)
(* sent, one behind it; of another file it is anything after the backlog    *)
(* and the start or the old position later.                                *)

LastSent == sent[Len(sent)]

LogTyped ==
    /\ files \in Seq(Nat) /\ current \in {0, Len(files)}
    /\ phase \in {"off", "backlog", "poll", "open", "read"}
    /\ backlog \in Seq(Nat \X Nat) /\ sent \in Seq(Nat \X Nat)
    /\ position \in Nat /\ reading \in [file : Nat, upto : Nat]
    /\ tailed \in 0 .. Len(sent)

LastExists == sent # <<>> => LastSent[1] \in 1 .. Len(files) /\ LastSent[2] <= files[LastSent[1]]

(* The backlog still to send goes on after the last line sent. *)
BacklogGoesOn ==
    phase = "backlog" =>
        /\ tailed = Len(sent)
        /\ \E f, m \in Nat :
              /\ sent # <<>> => LastSent = <<f, m>>
              /\ \A k \in 1 .. Len(backlog) : backlog[k] = <<f, m + k>>
              /\ backlog # <<>> => f \in 1 .. Len(files) /\ m + Len(backlog) <= files[f]

Fits(f, p) ==
    sent # <<>> =>
        /\ f # 0 => LastSent[1] <= f
        /\ Len(sent) > tailed => p \in {0, LastSent[2]}
        /\ f = LastSent[1] => IF Len(sent) = tailed THEN LastSent[2] <= p /\ p <= files[f]
                              ELSE p = LastSent[2]

ReadingFits ==
    /\ phase \in {"poll", "open"} => Fits(current, position)
    /\ phase = "read" => reading.file \in 1 .. Len(files) /\ Fits(reading.file, reading.upto)

LogInv == LogTyped /\ LastExists /\ BacklogGoesOn /\ ReadingFits /\ StreamExplained

LEMMA Sizes ==
    ASSUME LogTyped
    PROVE  /\ Size \in Nat /\ Len(files) \in Nat /\ current \in Nat
           /\ current # 0 => current \in 1 .. Len(files) /\ Size = files[current]
           /\ \A f \in 1 .. Len(files) : files[f] \in Nat
<1>1. /\ Len(files) \in Nat /\ \A f \in 1 .. Len(files) : files[f] \in Nat
  BY LenProperties DEF LogTyped
<1>2. current # 0 => current \in 1 .. Len(files)
  BY <1>1 DEF LogTyped
<1> QED BY <1>1, <1>2 DEF Size, LogTyped

(* The last line sent is a line. *)
LEMMA LastIsLine ==
    ASSUME LogTyped, sent # <<>>
    PROVE  LastSent \in Nat \X Nat /\ Len(sent) \in Nat \ {0} /\ sent \in Seq(Nat \X Nat)
  BY LenProperties, EmptySeq DEF LogTyped, LastSent

LEMMA LastLinesTyped ==
    ASSUME LogTyped
    PROVE  /\ LastLines \in Seq(Nat \X Nat)
           /\ \E m \in Nat : /\ m + Len(LastLines) = Size
                             /\ \A k \in 1 .. Len(LastLines) : LastLines[k] = <<current, m + k>>
<1> DEFINE n == IF Size < Limit THEN Size ELSE Limit
<1>1. Size \in Nat /\ current \in Nat /\ Limit \in Nat /\ n \in Nat /\ Size - n \in Nat
  BY Sizes, LogAssumption
<1>2. LastLines = [k \in 1 .. n |-> <<current, Size - n + k>>]
  BY DEF LastLines
<1> HIDE DEF n
<1>3. \A k \in 1 .. n : <<current, Size - n + k>> \in Nat \X Nat
  BY <1>1
<1>4. LastLines \in Seq(Nat \X Nat) /\ Len(LastLines) = n
  BY <1>1, <1>2, <1>3
<1>5. \A k \in 1 .. Len(LastLines) : LastLines[k] = <<current, (Size - n) + k>>
  BY <1>2, <1>4
<1> QED BY <1>1, <1>4, <1>5

(* One line more, right after the others or explained. *)
LEMMA OneMore ==
    ASSUME LogTyped, StreamExplained, NEW b \in Nat \X Nat, sent' = Append(sent, b),
           tailed' \in {tailed, Len(sent')}, tailed' = Len(sent') => tailed = Len(sent),
           sent # <<>> => \/ b = <<LastSent[1], LastSent[2] + 1>>
                          \/ b[1] > LastSent[1] /\ b[2] \in {1, LastSent[2] + 1}
                          \/ /\ tailed' = Len(sent)
                             /\ b[1] > LastSent[1] \/ (b[1] = LastSent[1] /\ b[2] > LastSent[2])
    PROVE  /\ StreamExplained'
           /\ sent' \in Seq(Nat \X Nat) /\ sent' # <<>> /\ Len(sent') = Len(sent) + 1 /\ LastSent' = b
<1>1. /\ sent \in Seq(Nat \X Nat) /\ Len(sent) \in Nat /\ tailed \in 0 .. Len(sent)
  BY LenProperties DEF LogTyped
<1>2. /\ sent' \in Seq(Nat \X Nat) /\ sent' # <<>> /\ Len(sent') = Len(sent) + 1
      /\ \A i \in 1 .. Len(sent) : sent'[i] = sent[i]
      /\ sent'[Len(sent) + 1] = b
  <2> DEFINE Line == Nat \X Nat
  <2>1. sent \in Seq(Line) /\ b \in Line
    BY <1>1
  <2> HIDE DEF Line
  <2>2. /\ Append(sent, b) \in Seq(Line) /\ Append(sent, b) # <<>>
        /\ Len(Append(sent, b)) = Len(sent) + 1
        /\ \A i \in 1 .. Len(sent) : Append(sent, b)[i] = sent[i]
        /\ Append(sent, b)[Len(sent) + 1] = b
    BY <2>1, AppendProperties
  <2> QED BY <2>2 DEF Line
<1>3. LastSent' = b
  BY <1>2 DEF LastSent
<1>4. StreamExplained'
  <2> SUFFICES ASSUME NEW k \in 1 .. Len(sent') - 1
               PROVE  LET a == sent'[k]
                          c == sent'[k + 1]
                      IN  \/ c = <<a[1], a[2] + 1>>
                          \/ c[1] > a[1] /\ c[2] \in {1, a[2] + 1}
                          \/ k = tailed' /\ (c[1] > a[1] \/ (c[1] = a[1] /\ c[2] > a[2]))
    BY DEF StreamExplained
  <2>1. CASE k = Len(sent)
    <3>1. sent'[k] = LastSent /\ sent'[k + 1] = b /\ sent # <<>>
      BY <1>1, <1>2, <2>1, EmptySeq DEF LastSent
    <3> QED BY <2>1, <3>1
  <2>2. CASE k # Len(sent)
    <3>1. k \in 1 .. Len(sent) - 1 /\ sent'[k] = sent[k] /\ sent'[k + 1] = sent[k + 1]
      BY <1>1, <1>2, <2>2
    <3>2. k = tailed => k = tailed'
      BY <1>1, <3>1
    <3> QED BY <3>1, <3>2 DEF StreamExplained
  <2> QED BY <2>1, <2>2
<1> QED BY <1>2, <1>3, <1>4

(* The bot's steps: files only grow, and a file with the name is the last. *)
LEMMA BotLogs ==
    ASSUME LogInv, Rotate \/ OpenLog \/ WriteLine PROVE LogInv'
<1>1. /\ UNCHANGED <<phase, backlog, position, reading, sent, tailed>>
      /\ LogTyped /\ LastExists /\ BacklogGoesOn /\ ReadingFits /\ StreamExplained
  BY DEF Rotate, OpenLog, WriteLine, LogInv
<1>2. /\ files' \in Seq(Nat) /\ Len(files) \in Nat /\ Len(files') \in Nat
      /\ current' \in {0, Len(files')}
      /\ Len(files) <= Len(files')
      /\ \A f \in 1 .. Len(files) : files[f] \in Nat /\ files'[f] \in Nat /\ files[f] <= files'[f]
      /\ current' = current \/ current' = 0 \/ current' = Len(files) + 1
  <2>1. CASE Rotate
    BY <1>1, <2>1, Sizes DEF Rotate, LogTyped
  <2>2. CASE OpenLog
    <3>1. files' = Append(files, 0) /\ current' = Len(files) + 1 /\ files \in Seq(Nat)
      BY <1>1, <2>2 DEF OpenLog, LogTyped
    <3>2. /\ files' \in Seq(Nat) /\ Len(files') = Len(files) + 1
          /\ \A f \in 1 .. Len(files) : files'[f] = files[f]
      BY <3>1, AppendProperties
    <3> QED BY <1>1, <3>1, <3>2, Sizes
  <2>3. CASE WriteLine
    <3>1. /\ files \in Seq(Nat) /\ current \in 1 .. Len(files) /\ current' = current
          /\ files' = [files EXCEPT ![current] = files[current] + 1] /\ files[current] + 1 \in Nat
      BY <1>1, <2>3, Sizes DEF WriteLine, LogTyped
    <3>2. /\ files' \in Seq(Nat) /\ Len(files') = Len(files)
          /\ \A f \in 1 .. Len(files) : files'[f] = IF f = current THEN files[current] + 1 ELSE files[f]
      BY <3>1, ExceptSeq
    <3>3. Len(files) \in Nat /\ \A f \in 1 .. Len(files) : files[f] \in Nat
      BY <1>1, Sizes
    <3>4. \A f \in 1 .. Len(files) : files'[f] \in Nat /\ files[f] <= files'[f]
      BY <3>1, <3>2, <3>3
    <3>5. current' \in {0, Len(files')}
      BY <1>1, <3>1, <3>2 DEF LogTyped
    <3>6. files' \in Seq(Nat) /\ Len(files') = Len(files) /\ current' = current
      BY <3>1, <3>2
    <3> QED BY <3>3, <3>4, <3>5, <3>6
  <2> QED BY <2>1, <2>2, <2>3
<1>3. LogTyped' /\ StreamExplained'
  BY <1>1, <1>2 DEF LogTyped, StreamExplained
<1>4. LastExists'
  BY <1>1, <1>2, LastIsLine DEF LastExists, LastSent
<1>5. BacklogGoesOn'
  <2> SUFFICES ASSUME phase = "backlog" PROVE BacklogGoesOn'
    BY <1>1 DEF BacklogGoesOn
  <2>1. PICK f, m \in Nat :
            /\ sent # <<>> => LastSent = <<f, m>>
            /\ \A k \in 1 .. Len(backlog) : backlog[k] = <<f, m + k>>
            /\ backlog # <<>> => f \in 1 .. Len(files) /\ m + Len(backlog) <= files[f]
    BY <1>1 DEF BacklogGoesOn
  <2>2. backlog # <<>> => f \in 1 .. Len(files') /\ m + Len(backlog) <= files'[f]
    <3>1. Len(backlog) \in Nat
      BY <1>1, LenProperties DEF LogTyped
    <3> QED BY <1>2, <2>1, <3>1
  <2>3. tailed = Len(sent)
    BY <1>1 DEF BacklogGoesOn
  <2>4. LastSent' = LastSent
    BY <1>1 DEF LastSent
  <2> QED BY <1>1, <2>1, <2>2, <2>3, <2>4 DEF BacklogGoesOn
<1>6. ASSUME NEW f \in Nat, NEW g \in Nat, NEW p \in Nat, Fits(f, p),
             g = f \/ g = 0 \/ g = Len(files) + 1, f \in 0 .. Len(files)
      PROVE  Fits(g, p)'
  <2> SUFFICES ASSUME sent # <<>> PROVE Fits(g, p)'
    BY <1>1 DEF Fits
  <2>1. LastSent' = LastSent /\ LastSent[1] \in 1 .. Len(files) /\ LastSent[2] \in Nat
    BY <1>1, LastIsLine DEF LastSent, LastExists
  <2>2. CASE g = f
    <3>1. f # 0 => files[f] \in Nat /\ files'[f] \in Nat /\ files[f] <= files'[f]
      BY <1>2, <1>6
    <3> QED BY <1>1, <1>6, <2>1, <2>2, <3>1 DEF Fits
  <2>3. CASE g = 0
    BY <1>1, <1>6, <2>1, <2>3 DEF Fits
  <2>4. CASE g = Len(files) + 1
    BY <1>1, <1>2, <1>6, <2>1, <2>4 DEF Fits
  <2> QED BY <1>6, <2>2, <2>3, <2>4
<1>7. ReadingFits'
  <2>1. current \in 0 .. Len(files) /\ current' \in Nat /\ position \in Nat
        /\ reading.file \in Nat /\ reading.upto \in Nat
    BY <1>1, <1>2, Sizes DEF LogTyped
  <2>2. ASSUME phase \in {"poll", "open"} PROVE Fits(current, position)'
    <3>1. Fits(current, position)
      BY <1>1, <2>2 DEF ReadingFits
    <3>2. PICK f, g, p \in Nat : f = current /\ g = current' /\ p = position
      BY <2>1
    <3>3. Fits(g, p)'
      BY <1>2, <1>6, <2>1, <3>1, <3>2
    <3> QED BY <1>1, <3>2, <3>3 DEF Fits
  <2>3. ASSUME phase = "read"
        PROVE  reading.file \in 1 .. Len(files') /\ Fits(reading.file, reading.upto)'
    <3>1. reading.file \in 1 .. Len(files) /\ Fits(reading.file, reading.upto)
      BY <1>1, <2>3 DEF ReadingFits
    <3>2. PICK f, p \in Nat : f = reading.file /\ p = reading.upto
      BY <2>1
    <3>3. Fits(f, p)'
      BY <1>2, <1>6, <2>1, <3>1, <3>2
    <3>4. reading.file \in 1 .. Len(files')
      BY <1>2, <3>1
    <3> QED BY <1>1, <3>2, <3>3, <3>4 DEF Fits
  <2> QED BY <1>1, <2>2, <2>3 DEF ReadingFits
<1> QED BY <1>3, <1>4, <1>5, <1>7 DEF LogInv

LEMMA StreamOpens ==
    ASSUME LogInv, OpenStream PROVE LogInv'
<1>1. /\ files' = files /\ current' = current /\ phase' = "backlog" /\ backlog' = LastLines
      /\ position' = 0 /\ reading' = [file |-> 0, upto |-> 0] /\ sent' = <<>> /\ tailed' = 0
      /\ LogTyped
  BY DEF OpenStream, LogInv
<1>2. PICK m \in Nat : /\ m + Len(LastLines) = Size
                       /\ \A k \in 1 .. Len(LastLines) : LastLines[k] = <<current, m + k>>
  BY <1>1, LastLinesTyped
<1>3. LastLines # <<>> => current \in 1 .. Len(files) /\ Size = files[current]
  <2>1. SUFFICES ASSUME LastLines # <<>> PROVE current # 0
    BY <1>1, Sizes
  <2>2. LastLines \in Seq(Nat \X Nat)
    BY <1>1, LastLinesTyped
  <2>3. Len(LastLines) \in Nat \ {0}
    BY <2>1, <2>2, EmptySeq, LenProperties
  <2>4. Size > 0
    BY <1>2, <2>3
  <2> QED BY <2>4 DEF Size
<1>4. LogTyped'
  <2>1. LastLines \in Seq(Nat \X Nat)
    BY <1>1, LastLinesTyped
  <2> QED BY <1>1, <2>1 DEF LogTyped
<1>5. BacklogGoesOn'
  <2>1. current \in Nat
    BY <1>1, Sizes
  <2>2. /\ \A k \in 1 .. Len(backlog') : backlog'[k] = <<current, m + k>>
        /\ backlog' # <<>> => current \in 1 .. Len(files') /\ m + Len(backlog') <= files'[current]
    BY <1>1, <1>2, <1>3, <2>1
  <2>3. tailed' = Len(sent') /\ sent' = <<>>
    BY <1>1
  <2> QED BY <2>1, <2>2, <2>3 DEF BacklogGoesOn
<1>6. LastExists' /\ ReadingFits' /\ StreamExplained'
  BY <1>1 DEF LastExists, ReadingFits, StreamExplained
<1> QED BY <1>4, <1>5, <1>6 DEF LogInv

LEMMA BacklogLine ==
    ASSUME LogInv, SendBacklog PROVE LogInv'
<1> DEFINE b == Head(backlog)
<1>1. /\ UNCHANGED <<files, current, phase, position, reading>> /\ phase = "backlog" /\ backlog # <<>>
      /\ sent' = Append(sent, b) /\ backlog' = Tail(backlog) /\ tailed' = tailed + 1
      /\ LogTyped /\ LastExists /\ BacklogGoesOn /\ StreamExplained
      /\ tailed = Len(sent)
  BY DEF SendBacklog, LogInv, BacklogGoesOn
<1>2. /\ b \in Nat \X Nat /\ b = backlog[1] /\ backlog' \in Seq(Nat \X Nat)
      /\ Len(backlog) \in Nat \ {0} /\ Len(backlog') = Len(backlog) - 1
      /\ \A k \in 1 .. Len(backlog') : backlog'[k] = backlog[k + 1]
  <2> DEFINE Line == Nat \X Nat
  <2>1. backlog \in Seq(Line)
    BY <1>1 DEF LogTyped
  <2> HIDE DEF Line
  <2>2. /\ b \in Line /\ Tail(backlog) \in Seq(Line)
        /\ Len(Tail(backlog)) = Len(backlog) - 1
        /\ \A k \in 1 .. Len(Tail(backlog)) : Tail(backlog)[k] = backlog[k + 1]
    BY <1>1, <2>1, HeadTailProperties
  <2>3. Len(backlog) \in Nat \ {0}
    BY <1>1, <2>1, EmptySeq, LenProperties
  <2>4. b = backlog[1]
    OBVIOUS
  <2> QED BY <1>1, <2>2, <2>3, <2>4 DEF Line
<1> HIDE DEF b
<1>3. PICK f, m \in Nat :
          /\ sent # <<>> => LastSent = <<f, m>>
          /\ \A k \in 1 .. Len(backlog) : backlog[k] = <<f, m + k>>
          /\ f \in 1 .. Len(files) /\ m + Len(backlog) <= files[f]
  BY <1>1 DEF BacklogGoesOn
<1>4. b = <<f, m + 1>>
  BY <1>2, <1>3
<1>5. sent # <<>> => b = <<LastSent[1], LastSent[2] + 1>>
  BY <1>3, <1>4
<1>6. Len(sent) \in Nat /\ tailed \in Nat
  BY <1>1, LenProperties DEF LogTyped
<1>7. Len(sent') = Len(sent) + 1
  <2> DEFINE Line == Nat \X Nat
  <2>1. sent \in Seq(Line) /\ b \in Line
    BY <1>1, <1>2 DEF LogTyped
  <2> HIDE DEF Line
  <2> QED BY <1>1, <2>1, AppendProperties
<1>8. /\ StreamExplained' /\ LastSent' = b /\ sent' # <<>>
      /\ sent' \in Seq(Nat \X Nat)
  BY <1>1, <1>2, <1>5, <1>6, <1>7, OneMore
<1>9. files \in Seq(Nat) /\ \A g \in 1 .. Len(files) : files[g] \in Nat
  BY <1>1, Sizes DEF LogTyped
<1>10. LogTyped'
  BY <1>1, <1>2, <1>6, <1>7, <1>8 DEF LogTyped
<1>11. LastExists'
  <2>1. LastSent'[1] = f /\ LastSent'[2] = m + 1
    BY <1>4, <1>8
  <2>2. m + 1 <= files[f]
    BY <1>2, <1>3, <1>9
  <2>3. files' = files
    BY <1>1
  <2> QED BY <1>3, <2>1, <2>2, <2>3 DEF LastExists
<1>12. BacklogGoesOn'
  <2>1. ASSUME NEW k \in 1 .. Len(backlog') PROVE backlog'[k] = <<f, (m + 1) + k>>
    <3>1. k + 1 \in 1 .. Len(backlog) /\ m + (k + 1) = (m + 1) + k
      BY <1>2
    <3> QED BY <1>2, <1>3, <3>1
  <2>2. m + 1 \in Nat /\ (m + 1) + Len(backlog') <= files[f]
    BY <1>2, <1>3, <1>9
  <2>3. tailed' = Len(sent')
    BY <1>1, <1>7
  <2> QED BY <1>1, <1>3, <1>4, <1>8, <2>1, <2>2, <2>3 DEF BacklogGoesOn
<1>13. ReadingFits'
  BY <1>1 DEF ReadingFits
<1> QED BY <1>8, <1>10, <1>11, <1>12, <1>13 DEF LogInv

(* The position taken when the backlog is sent is the size of the file that *)
(* has the name then, and no line of the backlog is behind it.              *)
LEMMA StreamFollows ==
    ASSUME LogInv, Follow PROVE LogInv'
<1>1. /\ UNCHANGED <<files, current, backlog, reading, sent, tailed>>
      /\ phase = "backlog" /\ phase' = "poll" /\ position' = Size
      /\ LogTyped /\ LastExists /\ StreamExplained /\ tailed = Len(sent)
  BY DEF Follow, LogInv, BacklogGoesOn
<1>2. LogTyped'
  BY <1>1, Sizes DEF LogTyped
<1>3. Fits(current, Size)
  <2>1. SUFFICES ASSUME sent # <<>> PROVE Fits(current, Size)
    BY DEF Fits
  <2>2. /\ LastSent[1] \in 1 .. Len(files) /\ LastSent[2] <= files[LastSent[1]]
        /\ LastSent[1] \in Nat /\ LastSent[2] \in Nat /\ Len(sent) \in Nat
    BY <1>1, <2>1, LastIsLine DEF LastExists
  <2>3. current # 0 => LastSent[1] <= current
    BY <1>1, <2>2, Sizes DEF LogTyped
  <2>4. current = LastSent[1] => Size = files[current] /\ Size \in Nat
    BY <1>1, <2>2, Sizes
  <2> QED BY <1>1, <2>2, <2>3, <2>4 DEF Fits
<1>4. Fits(current, position)'
  BY <1>1, <1>3 DEF Fits, LastSent
<1> QED BY <1>1, <1>2, <1>4
        DEF LogInv, LastExists, LastSent, BacklogGoesOn, ReadingFits, StreamExplained

LEMMA StreamPolls ==
    ASSUME LogInv, Poll PROVE LogInv'
<1>1. /\ UNCHANGED <<files, current, backlog, reading, sent, tailed>>
      /\ phase = "poll" /\ phase' \in {"poll", "open"}
      /\ position' = IF current = 0 \/ Size < position THEN 0 ELSE position
      /\ LogTyped /\ LastExists /\ StreamExplained /\ Fits(current, position)
  BY DEF Poll, LogInv, ReadingFits
<1>2. LogTyped'
  BY <1>1 DEF LogTyped
<1>3. Fits(current, position)'
  <2>1. SUFFICES ASSUME sent # <<>>, position' = 0, position' # position PROVE Fits(current, position)'
    BY <1>1 DEF Fits, LastSent
  <2>2. LastSent' = LastSent /\ LastSent[1] \in Nat \ {0} /\ LastSent[2] \in Nat
    BY <1>1, <2>1, LastIsLine DEF LastSent, LastExists
  <2>3. current # LastSent[1]
    <3>1. SUFFICES ASSUME current = LastSent[1] PROVE FALSE
      OBVIOUS
    <3>2. Size = files[current] /\ Size \in Nat /\ Size < position /\ position \in Nat
      BY <1>1, <2>1, <2>2, <3>1, Sizes DEF LogTyped
    <3>3. position <= Size
      BY <1>1, <2>1, <3>1, <3>2, LastIsLine DEF Fits, LastExists
    <3> QED BY <3>2, <3>3
  <2> QED BY <1>1, <2>1, <2>2, <2>3 DEF Fits
<1> QED BY <1>1, <1>2, <1>3
        DEF LogInv, LastExists, LastSent, BacklogGoesOn, ReadingFits, StreamExplained

LEMMA FileOpens ==
    ASSUME LogInv, OpenFile PROVE LogInv'
<1>1. /\ UNCHANGED <<files, current, backlog, position, sent, tailed>>
      /\ phase' = IF current = 0 THEN "off" ELSE "read"
      /\ reading' = [file |-> current, upto |-> position]
      /\ LogTyped /\ LastExists /\ StreamExplained /\ Fits(current, position)
  BY DEF OpenFile, LogInv, ReadingFits
<1>2. LogTyped' /\ (current # 0 => current \in 1 .. Len(files))
  BY <1>1, Sizes DEF LogTyped
<1>3. reading'.file = current /\ reading'.upto = position
  BY <1>1
<1>4. Fits(reading.file, reading.upto)'
  BY <1>1, <1>3 DEF Fits, LastSent
<1> QED BY <1>1, <1>2, <1>3, <1>4
        DEF LogInv, LastExists, LastSent, BacklogGoesOn, ReadingFits, StreamExplained

LEMMA LineRead ==
    ASSUME LogInv, ReadLine PROVE LogInv'
<1> DEFINE b == <<reading.file, reading.upto + 1>>
<1>1. /\ UNCHANGED <<files, current, phase, backlog, position, tailed>>
      /\ phase = "read" /\ reading.upto < files[reading.file]
      /\ reading' = [reading EXCEPT !.upto = reading.upto + 1] /\ sent' = Append(sent, b)
      /\ LogTyped /\ LastExists /\ StreamExplained
      /\ reading.file \in 1 .. Len(files) /\ Fits(reading.file, reading.upto)
  BY DEF ReadLine, More, LogInv, ReadingFits
<1>2. /\ reading.file \in Nat \ {0} /\ reading.upto \in Nat /\ b \in Nat \X Nat
      /\ files[reading.file] \in Nat /\ Len(sent) \in Nat /\ tailed \in 0 .. Len(sent)
      /\ b[1] = reading.file /\ b[2] = reading.upto + 1
  BY <1>1, Sizes, LenProperties DEF LogTyped
<1>3. sent # <<>> => \/ b = <<LastSent[1], LastSent[2] + 1>>
                     \/ b[1] > LastSent[1] /\ b[2] \in {1, LastSent[2] + 1}
                     \/ /\ tailed' = Len(sent)
                        /\ b[1] > LastSent[1] \/ (b[1] = LastSent[1] /\ b[2] > LastSent[2])
  <2>1. SUFFICES ASSUME sent # <<>>
                 PROVE  \/ b = <<LastSent[1], LastSent[2] + 1>>
                        \/ b[1] > LastSent[1] /\ b[2] \in {1, LastSent[2] + 1}
                        \/ /\ tailed' = Len(sent)
                           /\ b[1] > LastSent[1] \/ (b[1] = LastSent[1] /\ b[2] > LastSent[2])
    OBVIOUS
  <2>2. /\ LastSent[1] \in Nat /\ LastSent[2] \in Nat /\ LastSent[1] <= reading.file
        /\ Len(sent) > tailed => reading.upto \in {0, LastSent[2]}
        /\ reading.file = LastSent[1] => IF Len(sent) = tailed THEN LastSent[2] <= reading.upto
                                         ELSE reading.upto = LastSent[2]
    BY <1>1, <1>2, <2>1, LastIsLine DEF Fits
  <2>3. tailed' = tailed
    BY <1>1
  <2> QED BY <1>2, <2>2, <2>3
<1>4. Len(sent') = Len(sent) + 1
  <2> DEFINE Line == Nat \X Nat
  <2>1. sent \in Seq(Line) /\ b \in Line
    BY <1>1, <1>2 DEF LogTyped
  <2> HIDE DEF Line, b
  <2> QED BY <1>1, <2>1, AppendProperties
<1> HIDE DEF b
<1>5. /\ StreamExplained' /\ LastSent' = b /\ sent' # <<>>
      /\ sent' \in Seq(Nat \X Nat)
  <2>1. tailed' = tailed /\ tailed' # Len(sent')
    BY <1>1, <1>2, <1>4
  <2> QED BY <1>1, <1>2, <1>3, <2>1, OneMore
<1>6. reading' \in [file : Nat, upto : Nat] /\ reading'.file = reading.file
      /\ reading'.upto = reading.upto + 1
  BY <1>1, <1>2 DEF LogTyped
<1>7. LogTyped'
  BY <1>1, <1>2, <1>4, <1>5, <1>6 DEF LogTyped
<1>8. LastExists'
  <2>1. LastSent'[1] = reading.file /\ LastSent'[2] = reading.upto + 1
    BY <1>2, <1>5
  <2>2. reading.upto + 1 <= files[reading.file]
    BY <1>1, <1>2
  <2> QED BY <1>1, <2>1, <2>2 DEF LastExists
<1>9. Fits(reading.file, reading.upto)'
  <2>1. LastSent'[1] = reading'.file /\ LastSent'[2] = reading'.upto
    BY <1>2, <1>5, <1>6
  <2>2. Len(sent') # tailed' /\ reading'.file \in Nat
    BY <1>1, <1>2, <1>4, <1>6
  <2> QED BY <2>1, <2>2 DEF Fits
<1> QED BY <1>1, <1>5, <1>6, <1>7, <1>8, <1>9 DEF LogInv, BacklogGoesOn, ReadingFits

LEMMA FileEnds ==
    ASSUME LogInv, EndOfFile PROVE LogInv'
<1>1. /\ UNCHANGED <<files, current, backlog, reading, sent, tailed>>
      /\ phase' = "poll" /\ position' = reading.upto
      /\ LogTyped /\ LastExists /\ StreamExplained
      /\ reading.file \in 1 .. Len(files) /\ Fits(reading.file, reading.upto)
  BY DEF EndOfFile, LogInv, ReadingFits
<1>2. /\ reading.file \in Nat \ {0} /\ reading.upto \in Nat /\ Len(files) \in Nat
      /\ current # 0 => reading.file <= current
  BY <1>1, Sizes DEF LogTyped
<1>3. LogTyped'
  BY <1>1, <1>2 DEF LogTyped
<1>4. Fits(current, position)'
  <2>1. SUFFICES ASSUME sent # <<>> PROVE Fits(current, position)'
    BY <1>1 DEF Fits
  <2>2. LastSent' = LastSent /\ LastSent[1] \in Nat \ {0} /\ LastSent[2] \in Nat /\ LastSent[1] <= reading.file
    BY <1>1, <1>2, <2>1, LastIsLine DEF LastSent, LastExists, Fits
  <2>3. current = LastSent[1] => reading.file = current
    BY <1>1, <1>2, <2>2, Sizes
  <2>4. current # 0 => LastSent[1] <= current
    BY <1>1, <1>2, <2>2, Sizes
  <2> QED BY <1>1, <2>1, <2>2, <2>3, <2>4 DEF Fits
<1> QED BY <1>1, <1>3, <1>4
        DEF LogInv, LastExists, LastSent, BacklogGoesOn, ReadingFits, StreamExplained

(* However the bot's log rotates while it is followed: what the stream      *)
(* sends is in order and without repetition, and the places where lines are *)
(* left out are the three named (read_last_lines, stream_log_lines).        *)
THEOREM StreamTrue == LogSpec => []StreamExplained
<1>1. LogInit => LogInv
  <2> SUFFICES ASSUME LogInit PROVE LogInv
    OBVIOUS
  <2>1. /\ files = <<>> /\ current = 0 /\ phase = "off" /\ backlog = <<>> /\ position = 0
        /\ reading = [file |-> 0, upto |-> 0] /\ sent = <<>> /\ tailed = 0
    BY DEF LogInit
  <2> QED BY <2>1 DEF LogInv, LogTyped, LastExists, BacklogGoesOn, ReadingFits, StreamExplained
<1>2. LogInv /\ [LogNext]_logVars => LogInv'
  <2> SUFFICES ASSUME LogInv, [LogNext]_logVars PROVE LogInv'
    OBVIOUS
  <2>1. CASE Disconnect
    BY <2>1 DEF Disconnect, LogInv, LogTyped, LastExists, LastSent, BacklogGoesOn, ReadingFits,
                StreamExplained
  <2>2. CASE UNCHANGED logVars
    <3>1. UNCHANGED <<files, current, phase, backlog, position, reading, sent, tailed>>
      BY <2>2 DEF logVars
    <3>2. LastSent' = LastSent
      BY <3>1 DEF LastSent
    <3>3. LogTyped' /\ LastExists' /\ StreamExplained'
      BY <3>1, <3>2 DEF LogInv, LogTyped, LastExists, StreamExplained
    <3>4. BacklogGoesOn'
      BY <3>1, <3>2 DEF LogInv, BacklogGoesOn
    <3>5. ReadingFits'
      BY <3>1, <3>2 DEF LogInv, ReadingFits, Fits
    <3> QED BY <3>3, <3>4, <3>5 DEF LogInv
  <2> QED BY <2>1, <2>2, BotLogs, StreamOpens, BacklogLine, StreamFollows, StreamPolls, FileOpens,
             LineRead, FileEnds DEF LogNext
<1>3. LogInv => StreamExplained
  BY DEF LogInv
<1> QED BY <1>1, <1>2, <1>3, PTL DEF LogSpec

-----------------------------------------------------------------------------
(* The dashboard as a whole *)

(* A step of the dashboard is a step of one part and of no other: what each *)
(* part promises alone it promises beside the others.                       *)
LEMMA Parts == DashboardSpec => Spec /\ TrailSpec /\ LogSpec
<1>1. DashboardInit => Init /\ TrailInit /\ LogInit
  BY DEF DashboardInit
<1>2. [Bots \/ Trail \/ Log]_dashboardVars => [Next]_vars /\ [TrailNext]_trailVars /\ [LogNext]_logVars
  BY DEF Bots, Trail, Log, dashboardVars
<1> QED BY <1>1, <1>2, PTL DEF DashboardSpec, Spec, TrailSpec, LogSpec

(* All that the dashboard is relied on for, of the specification that the   *)
(* run bots checks: one bot, nothing signalled that is not its own, a trail *)
(* that tells the truth and a log page that explains what it leaves out.    *)
THEOREM DashboardHolds ==
    DashboardSpec => [](AtMostOneBot /\ OnlyOwnAreStopped /\ TrailTellsTruth /\ StreamExplained)
<1> QED BY Parts, OneBot, OwnStopped, TrailTrue, StreamTrue, PTL
=============================================================================
