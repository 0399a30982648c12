----------------------------- MODULE ResearchLab ----------------------------
(***************************************************************************)
(* The research lab's commands on one experiment store: optimize (post hoc *)
(* and nested), replay-candidate, autoresearch, build-approval-bundle.     *)
(* Each saves trials, walk-forward reports and recommendations in commits  *)
(* of their own, by INSERT OR REPLACE; a command ends anywhere when it     *)
(* crashes or the store cannot be written.  One command runs at a time,    *)
(* while collectors go on writing the source database.                     *)
(*                                                                         *)
(* Trials of a study are numbered from 0 in every run (without Optuna      *)
(* storage), autoresearch and nested candidates are named by the hash of   *)
(* their settings: <<"cfg", Config[p]>>, <<"nested", Config[p]>>.          *)
(***************************************************************************)
EXTENDS WalkForward

CONSTANTS
    NTrials,        \* --n-trials
    MaxCandidates,  \* --max-candidates
    TopN,           \* warm_start_top_n
    MaxRuns         \* bound: commands started

ASSUME CountsAssumption == {NTrials, MaxCandidates, TopN} \subseteq Nat \ {0} /\ MaxRuns \in Nat

VARIABLES
    data,                       \* the version of the source database
    trials, reports, recs,      \* the store's tables, by id
    answer,                     \* what an operator was told last: an approval bundle, a verdict
    job, runs                   \* the running command, commands started

store == <<trials, reports, recs>>
labVars == <<data, store, answer, job, runs>>

Put(table, id, row) == [i \in DOMAIN table \cup {id} |-> IF i = id THEN row ELSE table[i]]

(* Mutant: only reports worth a recommendation are kept. *)
SavePassing(id, report) == IF report.passed THEN Put(reports, id, report) ELSE reports

SaveReport(id, report) == Put(reports, id, report)

Idle == [at |-> "idle", cmd |-> "none", h |-> "none", window |-> 0, queue |-> <<>>, evals |-> <<>>,
         champions |-> <<>>, todo |-> <<>>, report |-> <<>>, results |-> <<>>]

Command(cmd, at, h) == [Idle EXCEPT !.cmd = cmd, !.at = at, !.h = h]

Row(e) == [params |-> e.params, metrics |-> e.metrics, accepted |-> e.accepted,
           protocol |-> e.protocol, searched |-> e.searched]

(* check_baseline_hard; the soft check and the sweep-rate gate only refuse. *)
Gate == Metrics(Base, data, Snapshots).trades > 0

Start(new) == job.at = "idle" /\ runs < MaxRuns /\ runs' = runs + 1 /\ job' = new

Collect ==
    /\ data < MaxData
    /\ data' = data + 1
    /\ UNCHANGED <<store, answer, job, runs>>

(* The process dies, or a save raises: what is committed stays. *)
Abort ==
    /\ job.at # "idle" /\ job' = Idle
    /\ UNCHANGED <<data, store, answer, runs>>

-----------------------------------------------------------------------------
(* Studies *)

(* _enqueue_warm_start_trials: trials of this protocol and search space, all *)
(* or those whose stored report passed, then the current settings.           *)
WarmStarts(h, winnersOnly) ==
    LET usable(id) == /\ trials[id].protocol = h /\ trials[id].searched
                      /\ trials[id].accepted /\ trials[id].params \in Valid
                      /\ winnersOnly => /\ id \in DOMAIN reports
                                        /\ reports[id].protocol = h /\ reports[id].passed
        rows       == {[id |-> id, params |-> trials[id].params, metrics |-> trials[id].metrics,
                        accepted |-> TRUE] : id \in {i \in DOMAIN trials : usable(i)}}
    IN  {Append([n \in 1 .. Min({TopN, Len(winners)}) |-> winners[n].params], Base) :
            winners \in Ranked(Frontier(rows))}

(* run_nested_walkforward: a study of its own on the training range of each window. *)
NextWindow(j) ==
    [j EXCEPT !.at = IF j.window < Len(Windows[j.h]) THEN "study" ELSE "nested",
              !.window = @ + 1, !.evals = <<>>]

StartOptimize ==
    \E h \in DOMAIN Protocol :
        /\ Gate
        /\ IF Protocol[h].mode = "nested"
           THEN Start(NextWindow(Command("optimize", "study", h)))
           ELSE \E queue \in {<<>>} \cup WarmStarts(h, TRUE) \cup WarmStarts(h, FALSE) :
                    Start([Command("optimize", "study", h) EXCEPT !.queue = queue])
        /\ UNCHANGED <<data, store, answer>>

Rejected == [trades |-> 0, wins |-> 0, exp |-> 0, pf |-> 0, dd |-> 100]

(* A study rejects constraint violations, artifacts and wrong trade counts. *)
Accepted(p, m, h, window) ==
    /\ p \in Valid /\ ~Artifact(m)
    /\ IF window = 0 THEN EnoughTrades(m, Protocol[h].minTrades, Protocol[h].maxTrades)
       ELSE EnoughTrades(m, Protocol[h].minWindow, MaxVolume)

(* One objective: a vector the queue or the sampler gives, judged and saved. *)
RunTrial ==
    /\ job.at = "study" /\ Len(job.evals) < NTrials
    /\ \E p \in (IF job.queue = <<>> THEN Params ELSE {Head(job.queue)}) :
        LET range   == IF job.window = 0 THEN Snapshots ELSE Windows[job.h][job.window].train
            metrics == IF p \in Valid THEN Metrics(p, data, range) ELSE Rejected
            e       == [id |-> <<"trial", job.window, Len(job.evals)>>, params |-> p, metrics |-> metrics,
                        accepted |-> Accepted(p, metrics, job.h, job.window),
                        protocol |-> job.h, searched |-> TRUE]
        IN  /\ trials' = Put(trials, e.id, Row(e))
            /\ job' = [job EXCEPT !.evals = Append(@, e), !.queue = IF @ = <<>> THEN @ ELSE Tail(@)]
    /\ UNCHANGED <<data, reports, recs, answer, runs>>

StudyDone == job.at = "study" /\ Len(job.evals) = NTrials

Champions == Ranked(Frontier(ToSet(job.evals)))

EndStudy ==
    /\ StudyDone /\ job.window = 0
    /\ \E champions \in Champions :
           job' = [job EXCEPT !.at = "walk", !.queue = <<>>, !.todo = champions]
    /\ UNCHANGED <<data, store, answer, runs>>

-----------------------------------------------------------------------------
(* Walk-forward and recommendation of one candidate after the other *)

(* While it runs the source may grow: cut segments see the old version. *)
WalkForward ==
    /\ job.at = "walk" /\ job.todo # <<>>
    /\ \E now \in data .. Min({data + 1, MaxData}) :
       \E cut \in IF now = data THEN {0} ELSE 0 .. 2 * Len(Windows[job.h]) :
        LET at     == [n \in 1 .. 2 * Len(Windows[job.h]) |-> IF n <= cut THEN data ELSE now]
            e      == Head(job.todo)
            report == RunWalkforward(e.params, at, job.h)
        IN  /\ data' = now
            /\ reports' = SaveReport(e.id, report)
            /\ job' = IF job.cmd = "autoresearch"
                      THEN [job EXCEPT !.at = "research", !.todo = <<>>,
                                       !.results = Append(@, [eval |-> e, report |-> report])]
                      ELSE [job EXCEPT !.at = "recommend", !.report = report]
    /\ UNCHANGED <<trials, recs, answer, runs>>

RisksOfReport(e, report) ==
    {risk \in {"not_passed", "fragile", "failures", "review"} :
        CASE risk = "not_passed" -> ~report.passed
          [] risk = "fragile"    -> report.fragile
          [] risk = "failures"   -> report.failures
          [] risk = "review"     -> report.review}

(* build_recommendation: every reason against the candidate becomes a risk. *)
Risks(e, report) == (IF e.accepted THEN {} ELSE {"rejected"}) \cup RisksOfReport(e, report)

Recommendation(e, report) ==
    [risks |-> Risks(e, report), settings |-> Config[e.params], protocol |-> e.protocol]

Recommend ==
    /\ job.at = "recommend"
    /\ LET e   == Head(job.todo)
           rec == Recommendation(e, job.report)
       IN  /\ recs' = Put(recs, e.id, rec)
           /\ answer' = IF job.cmd = "replay"
                        THEN [kind |-> "verdict", id |-> e.id, approved |-> rec.risks = {}] ELSE answer
    /\ job' = [job EXCEPT !.at = "walk", !.todo = Tail(@), !.report = <<>>]
    /\ UNCHANGED <<data, trials, reports, runs>>

EndCommand ==
    /\ job.at = "walk" /\ job.todo = <<>> /\ job.cmd # "autoresearch"
    /\ job' = Idle
    /\ UNCHANGED <<data, store, answer, runs>>

Replay ==
    \E id \in DOMAIN trials, h \in DOMAIN Protocol :
        LET p == trials[id].params
            m == Metrics(p, data, Snapshots)
            e == [id |-> id, params |-> p, metrics |-> m,
                  accepted |-> EnoughTrades(m, Protocol[h].minTrades, MaxVolume),
                  protocol |-> h, searched |-> FALSE]
        IN  /\ Protocol[h].mode = "post_hoc"
            /\ Start([Command("replay", "walk", h) EXCEPT !.todo = <<e>>])
            /\ trials' = Put(trials, id, Row(e))
            /\ UNCHANGED <<data, reports, recs, answer>>

-----------------------------------------------------------------------------
(* Nested walk-forward *)

(* The champion of a window's study is judged on its validation range. *)
EndWindow ==
    /\ StudyDone /\ job.window > 0
    /\ \E champions \in Champions :
        LET best     == Head(champions)
            val      == Metrics(best.params, data, Windows[job.h][job.window].val)
            champion == [params |-> best.params, metrics |-> val, passed |-> ~SegmentFails(val, job.h),
                         degradation |-> DegradationPct(best.metrics, val)]
        IN  job' = NextWindow(IF champions = <<>> THEN job
                              ELSE [job EXCEPT !.champions = Append(@, champion)])
    /\ UNCHANGED <<data, store, answer, runs>>

(* The windows of one candidate: champions whose settings have one hash. *)
Summary(config) ==
    LET all      == job.champions
        own      == {n \in DOMAIN all : Config[all[n].params] = config}
        Of(name) == Total([n \in own |-> all[n].metrics[name]])
    IN  [id |-> <<"nested", config>>, params |-> all[Min(own)].params,
         won |-> Cardinality(own), passed |-> Cardinality({n \in own : all[n].passed}),
         metrics |-> [exp |-> Of("exp") \div Cardinality(own), pf |-> Of("pf") \div Cardinality(own),
                      dd |-> Max({all[n].metrics.dd : n \in own}), trades |-> Of("trades")]]

(* Mutant: ranked as trials are. *)
SummaryByMetrics(s) == Key(s) \o <<-s.passed, -s.won>>

SummaryKey(s) == <<-s.passed, -s.won>> \o Key(s)

SummaryPrecedes(a, b) == Lexicographic(SummaryKey(a), SummaryKey(b))

Summaries == {Summary(Config[c.params]) : c \in ToSet(job.champions)}

(* What the windows of all champions together say. *)
NestedReport(ranked) ==
    LET all     == job.champions
        windows == Windows[job.h]
        passed  == Cardinality({n \in DOMAIN all : all[n].passed})
        verdict == Judge(job.h, Len(windows), passed, [n \in DOMAIN all |-> all[n].degradation])
    IN  [passed |-> verdict.passed, fragile |-> verdict.fragile, review |-> FALSE,
         failures |-> passed < Len(windows) \/ verdict.fragile \/ windows = <<>>,
         protocol |-> job.h, selected |-> ranked]

SaveNested ==
    /\ job.at = "nested"
    /\ \E ranked \in Rankings(Summaries, SummaryPrecedes) :
        LET report == NestedReport(ranked)
            e      == [id |-> ranked[1].id, params |-> ranked[1].params, accepted |-> TRUE,
                       protocol |-> job.h]
        IN  IF ranked = <<>>
            THEN /\ reports' = SaveReport(<<"nested-summary">>, report)
                 /\ job' = Idle
            ELSE /\ reports' = SaveReport(e.id, report)
                 /\ job' = [job EXCEPT !.at = "recommend", !.champions = <<>>, !.todo = <<e>>,
                                         !.report = report]
    /\ UNCHANGED <<data, trials, recs, answer, runs>>

-----------------------------------------------------------------------------
(* Autoresearch *)

History == {trials[id].params : id \in {i \in DOMAIN trials : trials[i].accepted}}

(* Vectors mutated from the history or drawn, none twice, in the order the *)
(* advisor leaves them; of those the constraints allow.                    *)
Generated ==
    UNION {{queue \in [1 .. n -> Valid \ History] : IsInjective(queue)} : n \in 0 .. MaxCandidates}

StartAutoresearch ==
    /\ Gate
    /\ \E h \in DOMAIN Protocol, queue \in Generated :
        /\ Protocol[h].mode = "post_hoc"
        /\ Start([Command("autoresearch", "research", h) EXCEPT !.queue = queue])
    /\ UNCHANGED <<data, store, answer>>

EvaluateCandidate ==
    /\ job.at = "research" /\ job.queue # <<>>
    /\ LET p == Head(job.queue)
           m == Metrics(p, data, Snapshots)
           e == [id |-> <<"cfg", Config[p]>>, params |-> p, metrics |-> m,
                 accepted |-> EnoughTrades(m, Protocol[job.h].minTrades, MaxVolume),
                 protocol |-> job.h, searched |-> TRUE]
       IN  /\ trials' = Put(trials, e.id, Row(e))
           /\ job' = [job EXCEPT !.at = "walk", !.queue = Tail(@), !.todo = <<e>>]
    /\ UNCHANGED <<data, reports, recs, answer, runs>>

ResultKey(r) ==
    <<IF r.report.passed THEN 0 ELSE 1, IF r.report.fragile THEN 1 ELSE 0,
      -r.eval.metrics.exp, r.eval.metrics.dd, -r.eval.metrics.pf, -r.eval.metrics.trades>>

ResultPrecedes(a, b) == Lexicographic(ResultKey(a), ResultKey(b))

RankResults ==
    /\ job.at = "research" /\ job.queue = <<>>
    /\ \E ranked \in Rankings(ToSet(job.results), ResultPrecedes) :
           job' = [job EXCEPT !.at = "publish", !.results = ranked, !.todo = ranked]
    /\ UNCHANGED <<data, store, answer, runs>>

Publish ==
    /\ job.at = "publish" /\ job.todo # <<>>
    /\ LET r == Head(job.todo)
       IN  recs' = Put(recs, r.eval.id, Recommendation(r.eval, r.report))
    /\ job' = [job EXCEPT !.todo = Tail(@)]
    /\ UNCHANGED <<data, trials, reports, answer, runs>>

Blocking == {"not_passed", "fragile"}

(* _blocking_risks *)
BundleAllowed(r) == Risks(r.eval, r.report) \cap Blocking = {}

(* The recommendations in memory are kept by id, the last one wins: as in the store. *)
WriteBundle ==
    /\ job.at = "publish" /\ job.todo = <<>>
    /\ answer' = IF job.results # <<>> /\ BundleAllowed(Head(job.results))
                 THEN LET id == Head(job.results).eval.id
                      IN  [kind |-> "bundle", id |-> id, rec |-> recs[id], auto |-> TRUE]
                 ELSE answer
    /\ job' = Idle
    /\ UNCHANGED <<data, store, runs>>

(* build-approval-bundle, from the stored recommendation alone. *)
BuildBundle ==
    \E id \in DOMAIN recs :
        /\ recs[id].risks \cap Blocking = {}
        /\ Start(Idle)
        /\ answer' = [kind |-> "bundle", id |-> id, rec |-> recs[id], auto |-> FALSE]
        /\ UNCHANGED <<data, store>>

-----------------------------------------------------------------------------

LabInit ==
    /\ data = 1 /\ trials = <<>> /\ reports = <<>> /\ recs = <<>>
    /\ answer = [kind |-> "none"] /\ job = Idle /\ runs = 0

LabNext ==
    \/ Collect \/ Abort
    \/ StartOptimize \/ RunTrial \/ EndStudy \/ WalkForward \/ Recommend \/ EndCommand
    \/ EndWindow \/ SaveNested
    \/ Replay
    \/ StartAutoresearch \/ EvaluateCandidate \/ RankResults \/ Publish \/ WriteBundle
    \/ BuildBundle

LabSpec == LabInit /\ [][LabNext]_labVars

-----------------------------------------------------------------------------
(* Properties *)

(* Whatever a crash or a failing store cuts off, a recommendation is never in *)
(* the store without the walk-forward report it is about, nor, for a trial,   *)
(* without the trial (save order of every command).                           *)
EvidenceComplete ==
    \A id \in DOMAIN recs : /\ id \in DOMAIN reports
                            /\ id[1] # "nested" => id \in DOMAIN trials

(* A study that ends loses no good trial: every accepted one is recommended *)
(* or dominated by a recommended one, each with the settings it was run     *)
(* with, equal trials and rows of an earlier run of the study included.     *)
FrontierCovers ==
    job.at = "walk" /\ job.cmd = "optimize" /\ job.todo = <<>> /\ job.window = 0 =>
        \A e \in ToSet(job.evals) : e.accepted =>
            \E f \in ToSet(job.evals) : /\ f.id \in DOMAIN recs /\ recs[f.id].settings = Config[f.params]
                                       /\ (f = e \/ Dominates(f, e))

(* A nested report that passed selects a candidate that passed a window     *)
(* itself: "passed" counts the windows of all champions together.          *)
NestedSelectionPassed ==
    \A id \in DOMAIN reports :
        "selected" \in DOMAIN reports[id] /\ reports[id].passed => reports[id].selected[1].passed > 0

(* Selecting loses nothing good and picks nothing that failed. *)
SelectionsJustified == FrontierCovers /\ NestedSelectionPassed

(* APPROVED_FOR_PAPER is said of a candidate only when the trial stored with *)
(* it is accepted, its report passed every window without fragility, and     *)
(* both are about the same vector under the same protocol.                   *)
VerdictEarned(a) ==
    LET trial  == trials'[a.id]
        report == reports'[a.id]
    IN  a.approved => /\ trial.accepted
                      /\ report.passed /\ ~report.fragile /\ ~report.failures
                      /\ <<trial.params, trial.protocol>> = <<report.params, report.protocol>>

(* The bundle autoresearch writes names a result whose walk-forward passed and *)
(* that no passing result beats in expectancy, and all it evaluated is stored. *)
BundleEarned(a) ==
    LET results == ToSet(job.results)
    IN  a.auto => /\ \E r \in results :
                        /\ r.eval.id = a.id /\ r.report.passed
                        /\ \A s \in results : s.report.passed => s.eval.metrics.exp <= r.eval.metrics.exp
                  /\ \A s \in results : s.eval.id \in DOMAIN trials \cap DOMAIN reports \cap DOMAIN recs

(* What a command answers with, a verdict or a bundle, is earned. *)
AnswersAreEarned ==
    [][answer' # answer => CASE answer'.kind = "verdict" -> VerdictEarned(answer')
                             [] answer'.kind = "bundle"  -> BundleEarned(answer')
                             [] OTHER                    -> TRUE]_labVars

=============================================================================
