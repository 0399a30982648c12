----------------------------- MODULE WalkForward ----------------------------
(***************************************************************************)
(* What the research lab computes without state: how a parameter vector is *)
(* evaluated on a range of snapshots, which walk-forward windows a         *)
(* protocol gives, when a vector passes them, and which trials are Pareto  *)
(* optimal.                                                                *)
(*                                                                         *)
(* Time is counted in snapshots, one at each end of a bar from the start   *)
(* of the data on: a protocol's days are 96 of them each.  A replay is     *)
(* inclusive at both ends (iter_snapshots).                                *)
(*                                                                         *)
(* A replay is abstracted to its metrics, for every version of the source  *)
(* database: collectors go on writing while a study runs.  Expectancy and  *)
(* profit factor are integers, in sixtieths; the drawdown is in R.  Under  *)
(* the default bounds of a protocol a Sharpe ratio below 0 says that the   *)
(* range ended with a loss: it is left out.                                *)
(***************************************************************************)
EXTENDS Integers, Sequences, FiniteSets, SequencesExt

CONSTANTS
    Params, Base,   \* parameter vectors, the current settings
    Config,         \* the strategy and risk part of a vector: what AppSettings holds
    Valid,          \* vectors without constraint violations
    MaxData,        \* bound: versions of the source database
    LastSnapshot,   \* the source covers the snapshots 0 .. LastSnapshot
    MaxVolume,      \* MAX_TRADES_DEFAULT
    Evaluations,    \* [vector, version, range]: the metrics of a replay
    Protocol        \* the protocols by their hash

ASSUME VectorsAssumption == Base \in Valid /\ Valid \subseteq Params
ASSUME SourceAssumption  == MaxData \in Nat \ {0} /\ {LastSnapshot, MaxVolume} \subseteq Nat
ASSUME WindowsAssumption ==
    \A h \in DOMAIN Protocol : {Protocol[h].train, Protocol[h].validation, Protocol[h].step} \subseteq Nat \ {0}

Snapshots == 0 .. LastSnapshot

Windows ==
    LET Window(P, i) ==
            LET cursor == i * P.step
                split  == cursor + P.train
            IN  [train |-> (IF P.anchored THEN 0 ELSE cursor) .. split,
                 val   |-> split .. split + P.validation]
        Count(P) == (LastSnapshot - P.train - P.validation) \div P.step + 1
    IN  [h \in DOMAIN Protocol |-> [n \in 1 .. Count(Protocol[h]) |-> Window(Protocol[h], n - 1)]]

Ranges == {Snapshots} \cup UNION {{w.train, w.val} : w \in UNION {ToSet(Windows[h]) : h \in DOMAIN Protocol}}

Results == [trades : Nat, wins : Nat, exp : Int, pf : Nat, dd : Nat]

(* create_trial_snapshot and evaluate_candidate: the replay of a range. *)
Metrics(p, version, range) == Evaluations[p, version, range]

ASSUME EvaluationsAssumption ==
    \A p \in Params, version \in 1 .. MaxData, range \in Ranges : Metrics(p, version, range) \in Results

EnoughTrades(m, least, most) == least <= m.trades /\ m.trades <= most

(* The artifact block: more than 85% of the trades win, or 50 times the losses are won. *)
Artifact(m) == 100 * m.wins > 85 * m.trades \/ m.pf > 50 * 60

-----------------------------------------------------------------------------
(* Pareto: expectancy and profit factor up, drawdown down *)

(* Mutant: of two equal trials each removes the other. *)
DominatesWeakly(a, b) ==
    a.metrics.exp >= b.metrics.exp /\ a.metrics.pf >= b.metrics.pf /\ a.metrics.dd <= b.metrics.dd

Dominates(a, b) ==
    /\ a.metrics.exp >= b.metrics.exp /\ a.metrics.pf >= b.metrics.pf /\ a.metrics.dd <= b.metrics.dd
    /\ a.metrics.exp > b.metrics.exp \/ a.metrics.pf > b.metrics.pf \/ a.metrics.dd < b.metrics.dd

Frontier(evals) ==
    LET accepted == {e \in evals : e.accepted}
    IN  {e \in accepted : \A f \in accepted \ {e} : ~Dominates(f, e)}

Lexicographic(s, t) ==
    \E i \in DOMAIN s : s[i] < t[i] /\ \A j \in 1 .. i - 1 : s[j] = t[j]

(* The orders of a set in which none comes before one that precedes it: ties *)
(* that trial_id breaks in the code are broken here in some order.          *)
Rankings(S, Before(_, _)) ==
    {q \in [1 .. Cardinality(S) -> S] :
        ToSet(q) = S /\ \A i, j \in DOMAIN q : i < j => ~Before(q[j], q[i])}

Key(e) == <<-e.metrics.exp, -e.metrics.pf, e.metrics.dd, -e.metrics.trades>>

Precedes(a, b) == Lexicographic(Key(a), Key(b))

Ranked(evals) == Rankings(evals, Precedes)

-----------------------------------------------------------------------------
(* Walk-forward *)

SegmentFails(m, h) ==
    \/ ~EnoughTrades(m, Protocol[h].minWindow, MaxVolume)
    \/ m.exp < 0 \/ m.pf < 60 \/ m.dd > Protocol[h].maxDrawdown

DegradationPct(in, out) ==
    IF in.exp = 0 THEN 0 ELSE (100 * (in.exp - out.exp)) \div Max({in.exp, -in.exp})

Total(f) == FoldFunction(+, 0, f)

(* Whether enough of the windows passed, and how the average window degrades. *)
Judge(h, total, passed, degradations) ==
    LET P       == Protocol[h]
        sum     == Total(degradations)
        number  == Cardinality(DOMAIN degradations)
        fragile == sum > P.fragileAt * number
        needed  == CASE P.requires = "all" -> total
                     [] P.requires = "median" -> (total + 1) \div 2
                     [] OTHER -> 1
    IN  [fragile |-> fragile, passed |-> total > 0 /\ passed >= needed /\ passed > 0 /\ ~fragile,
         review |-> sum > 30 * number \/ -sum > 25 * number]

(* run_walkforward: a vector fixed before, on every window of the protocol; *)
(* each segment is replayed on a snapshot of its own, of version at[_].     *)
RunWalkforward(p, at, h) ==
    LET windows   == Windows[h]
        train(i)  == Metrics(p, at[2 * i - 1], windows[i].train)
        val(i)    == Metrics(p, at[2 * i], windows[i].val)
        Passes(i) == ~SegmentFails(train(i), h) /\ ~SegmentFails(val(i), h)
        good      == {i \in DOMAIN windows : Passes(i)}
        verdict   == Judge(h, Len(windows), Cardinality(good),
                           [i \in good |-> DegradationPct(train(i), val(i))])
    IN  [passed |-> verdict.passed, fragile |-> verdict.fragile,
         failures |-> Cardinality(good) < Len(windows) \/ verdict.fragile \/ windows = <<>>,
         review |-> \/ verdict.review
                    \/ \E i \in DOMAIN windows : \/ val(i).trades < Protocol[h].reviewTrades
                                               \/ train(i).pf > 5 * 60 \/ val(i).pf > 5 * 60,
         params |-> p, protocol |-> h]
=============================================================================
