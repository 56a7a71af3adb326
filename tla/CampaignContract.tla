--------------------------- MODULE CampaignContract ---------------------------
(***************************************************************************)
(* What a campaign directory must hold and what is concluded from it: a    *)
(* plan of experiments frozen before the first of them and an index of     *)
(* those acquired (scenarios/campaign*.py), five pairs of runs with and    *)
(* without tracing (scenarios/overhead*.py), or one trace with its         *)
(* manifest (observability/bundle.py, scenarios/bundle_io.py).             *)
(* A checksum is the content it is of, a file's name that of its run, and  *)
(* an archive the sequence of its members.  A window of an overhead trial  *)
(* lasts one unit: its CPU, in percent, and its frames are rates.  A       *)
(* version is all that a plan declares of node, workload and programs, and *)
(* a trace has the one stream of the producer it is of.                    *)
(* Definitions whose name starts with Bug are what a slip would make of    *)
(* the one after them.                                                     *)
(***************************************************************************)
EXTENDS Integers, Sequences, FiniteSets, SequencesExt, SequenceParts

CONSTANTS
  None,
  Scenarios,      \* that effects are claimed of: three in the code
  Repeats,        \* how often each must be verified: 2
  EnoughPairs,    \* of queue and of encode boundaries in a nominal trace: 500
  EnoughProbes    \* timed before a measurement is complete: 1000

ASSUME RepeatsAssumption == Repeats \in Nat \ {0}

Claimed == {"reference", "held_out_query"}
OnePerRow(rows, Of(_)) == Cardinality({Of(rows[i]) : i \in DOMAIN rows}) = Len(rows)

-----------------------------------------------------------------------------
(* Archives and directories: members by name. *)
EachOnce(members, roles) ==
  /\ OnePerRow(members, LAMBDA m : m.name) /\ {members[i].name : i \in DOMAIN members} = roles
Regular(members) == \A i \in DOMAIN members : members[i].type = "regular"
Member(members, role) == members[SelectLastInSeq(members, LAMBDA m : m.name = role)].payload

ManifestFits(manifest, record) == manifest.sha = record /\ manifest.schema = record.schema
TraceAccepted(members) ==
  /\ Regular(members) /\ EachOnce(members, {"manifest", "record"})
  /\ ManifestFits(Member(members, "manifest"), Member(members, "record"))
ExperimentAccepted(members) == Regular(members) /\ EachOnce(members, {"experiment"})

-----------------------------------------------------------------------------
(* Campaigns. *)
ValidPlan(p) ==
  /\ Len(p.trials) \in 1..24 /\ \A i \in DOMAIN p.trials : p.trials[i].repeat \in 1..100
  /\ OnePerRow(p.trials, LAMBDA t : t.run) /\ OnePerRow(p.trials, LAMBDA t : t.source)
  /\ OnePerRow(p.trials, LAMBDA t : <<t.scenario, t.assignment, t.repeat>>)

Unavailable(t) == t.status = "unavailable"
ValidReference(t) ==
  IF Unavailable(t)
  THEN t.reason # None /\ t.file = None /\ t.sha = None /\ t.from = None /\ t.to = None
  ELSE t.reason = None /\ t.file = t.run /\ t.sha # None /\ t.from < t.to

Owned(plan, index) == index.plan = plan /\ Len(index.trials) <= Len(plan.trials)
CampaignFiles(index) ==
  {"plan", "index"} \cup ({index.trials[i].file : i \in DOMAIN index.trials} \ {None})

(* No trial begins before the last one acquired before it has ended. *)
Exported(trials) == {i \in DOMAIN trials : ~Unavailable(trials[i])}
Successive(trials) ==
  {p \in Exported(trials) \X Exported(trials) :
     p[1] < p[2] /\ \A k \in Exported(trials) : k <= p[1] \/ p[2] <= k}
BugApart(index) == \A p \in Successive(index.trials) : index.trials[p[1]].to < index.trials[p[2]].from
Apart(index) == \A p \in Successive(index.trials) : index.trials[p[1]].to <= index.trials[p[2]].from

BugAsPlanned(plan, requested, bundle) ==
  bundle.run = requested.run /\ bundle.scenario = requested.scenario /\ bundle.terms = plan.terms
AsPlanned(plan, requested, bundle) ==
  /\ \A field \in {"run", "scenario", "assignment", "repeat"} : bundle[field] = requested[field]
  /\ bundle.terms = plan.terms
  /\ requested.scenario = "host_contention" => bundle.workers = plan.workers

(* The file read for a trial, and what is kept of it. *)
TrialAccepted(plan, requested, ref, file) ==
  /\ requested.run = ref.run /\ requested.source = ref.source
  /\ ~Unavailable(ref) =>
       /\ file = ref.sha /\ ExperimentAccepted(file)
       /\ LET bundle == Member(file, "experiment") IN
          AsPlanned(plan, requested, bundle) /\ bundle.time <= ref.to - ref.from
TrialRow(requested, ref, file) ==
  [run |-> ref.run, scenario |-> requested.scenario, assignment |-> requested.assignment,
   state |-> IF Unavailable(ref) THEN "unavailable" ELSE Member(file, "experiment").state]

Concluded(index, plan) ==
  index.state = "finished" =>
    /\ Len(index.trials) = Len(plan.trials)
    /\ \A i \in DOMAIN index.trials : ~Unavailable(index.trials[i])
Verified(rows, scenario, assignment) ==
  {i \in DOMAIN rows : <<rows[i].scenario, rows[i].assignment, rows[i].state>>
                         = <<scenario, assignment, "verified">>}
Repeated(rows, scenario) == \A a \in Claimed : Cardinality(Verified(rows, scenario, a)) >= Repeats
CriteriaPassed(index, rows) ==
  /\ index.state = "finished" /\ \A s \in Scenarios : Repeated(rows, s)
  /\ \A i \in DOMAIN rows : rows[i].state = "verified"

CampaignAccepted(plan, index, names, files) ==
  /\ ValidPlan(plan) /\ Owned(plan, index)
  /\ \A i \in DOMAIN index.trials : ValidReference(index.trials[i])
  /\ names = CampaignFiles(index) /\ Apart(index)
  /\ \A i \in DOMAIN index.trials : TrialAccepted(plan, plan.trials[i], index.trials[i], files[i])
  /\ Concluded(index, plan)
CampaignReport(plan, index, files) ==
  LET rows == [i \in DOMAIN index.trials |-> TrialRow(plan.trials[i], index.trials[i], files[i])] IN
  [rows |-> rows, passed |-> CriteriaPassed(index, rows)]

-----------------------------------------------------------------------------
(* Overhead. *)
Order ==
  <<<<1, "disabled">>, <<1, "enabled">>, <<2, "enabled">>, <<2, "disabled">>, <<3, "disabled">>,
    <<3, "enabled">>, <<4, "enabled">>, <<4, "disabled">>, <<5, "disabled">>, <<5, "enabled">>>>
TraceNames == <<"pair-1", "pair-2", "pair-3", "pair-4", "pair-5">>
(* No more CPU than 64 processors have. *)
ValidMeasure(m) == m.first <= m.last /\ m.cpu <= 6400
Fps(m) == m.last - m.first

(* An overhead plan asks for the ten runs of an idle host, and no other. *)
OverheadPlanned(plan) ==
  /\ Len(plan.trials) = Len(Order)
  /\ \A i \in DOMAIN plan.trials : plan.trials[i].scenario = "healthy" /\ plan.trials[i].assignment = "engineering"

(* Where it was measured, and the timing of the probes themselves: how many *)
(* there were and how many durations of them are kept. *)
ValidRuntime(e) ==
  e.runtime # None => e.runtime.kind = IF e.provenance = "synthetic" THEN "synthetic" ELSE "linux_x11"
ValidDiagnostic(d) ==
  ValidMeasure(d.baseline) /\ ValidMeasure(d.measured) /\ d.kept <= 10000 /\ d.kept <= d.observed

BugAsDeclared(e) == OnePerRow(e.trials, LAMBDA t : <<t.pair, t.mode>>)
AsDeclared(e) == \A i \in DOMAIN e.trials : <<e.trials[i].pair, e.trials[i].mode>> = Order[i]
ValidOverhead(e) ==
  /\ ValidRuntime(e) /\ e.diagnostic # None => ValidDiagnostic(e.diagnostic)
  /\ Len(e.trials) <= Len(Order) /\ AsDeclared(e)
  /\ \A i \in DOMAIN e.trials : LET t == e.trials[i] IN
       /\ ValidMeasure(t) /\ (t.file = None) = (t.sha = None)
       /\ t.file # None => t.mode = "enabled" /\ t.file = TraceNames[t.pair]
  /\ (e.state = "completed") = (e.reason = None)
  /\ e.state = "unavailable" => e.runtime = None /\ e.trials = <<>> /\ e.diagnostic = None
  /\ e.state = "completed" =>
       /\ e.runtime # None /\ Len(e.trials) = Len(Order) /\ e.cleaned
       /\ e.diagnostic # None /\ e.diagnostic.kept >= EnoughProbes
       /\ \A i \in DOMAIN e.trials : e.trials[i].mode = "enabled" => e.trials[i].file # None
OverheadFiles(e) == {"plan", "index"} \cup ({e.trials[i].file : i \in DOMAIN e.trials} \ {None})

(* A nominal trace records (nearly) every frame through queue and encoder: *)
(* frames alike are counted together. *)
CountOf(frames, Test(_)) == SumOf([i \in DOMAIN frames |-> IF Test(frames[i]) THEN frames[i].count ELSE 0])
ExactPairs(frames, Boundaries) ==
  CountOf(frames, LAMBDA f : f.exact /\ \A b \in Boundaries : f.enter[b] # None /\ f.exit[b] # None
                                                                  /\ f.exit[b] >= f.enter[b])
Nominal(record, trial) ==
  LET all == CountOf(record.frames, LAMBDA f : TRUE)
      most == IF all < Fps(trial) THEN Fps(trial) ELSE all IN
  /\ \A b \in {"queue", "encode"} : ExactPairs(record.frames, {b}) >= EnoughPairs
  /\ 100 * ExactPairs(record.frames, {"queue", "encode"}) >= 95 * most
  /\ record.drops = 0

TraceOf(file) == Member(file, "record")
NominalPolicy == [nth |-> 1, frames |-> 2000, events |-> 10000]
TraceFits(e, trial, file) ==
  /\ file = trial.sha /\ TraceAccepted(file)
  /\ TraceOf(file).version = e.version /\ TraceOf(file).provenance = e.provenance
  /\ TraceOf(file).policy = NominalPolicy
(* Rows of evidence whose pair is complete, and their differences. *)
RowOf(e, pair, mode) ==
  LET rows == {i \in DOMAIN e.trials : <<e.trials[i].pair, e.trials[i].mode>> = <<pair, mode>>} IN
  IF rows = {} THEN None ELSE e.trials[Max(rows)]
PairsOf(e) ==
  LET all == [p \in 1..5 |-> [off |-> RowOf(e, p, "disabled"), on |-> RowOf(e, p, "enabled")]] IN
  Kept(all, {p \in 1..5 : all[p].off # None /\ all[p].on # None})
Increase(r) == r.on.cpu - r.off.cpu
Slows(r) == 100 * (Fps(r.on) - Fps(r.off)) < -5 * Fps(r.off)
BaselineMet(r) == Fps(r.off) >= 27

(* The middle of five, in order of the increase or of the relative change. *)
Middle(rows, Less(_, _)) ==
  CHOOSE r \in Range(rows) :
    /\ 2 * Cardinality({i \in DOMAIN rows : Less(rows[i], r)}) < Len(rows)
    /\ 2 * Cardinality({i \in DOMAIN rows : Less(r, rows[i])}) < Len(rows)
LessCost(a, b) == Increase(a) < Increase(b)
LessSlow(a, b) == (Fps(a.on) - Fps(a.off)) * Fps(b.off) < (Fps(b.on) - Fps(b.off)) * Fps(a.off)

OverheadPassed(e, files) ==
  LET rows == PairsOf(e) IN
  /\ e.state = "completed" /\ Len(rows) = 5
  /\ \A i \in DOMAIN rows : BaselineMet(rows[i])
  /\ \A i \in DOMAIN e.trials : e.trials[i].file # None => Nominal(TraceOf(files[i]), e.trials[i])
  /\ Increase(Middle(rows, LessCost)) <= 5 /\ ~Slows(Middle(rows, LessSlow))

OverheadAccepted(plan, e, names, files) ==
  /\ ValidPlan(plan) /\ OverheadPlanned(plan) /\ e.plan = plan /\ ValidOverhead(e) /\ e.version = plan.terms
  /\ e.runtime # None => e.runtime.version = plan.terms
  /\ names = OverheadFiles(e)
  /\ \A i \in DOMAIN e.trials : e.trials[i].file # None => TraceFits(e, e.trials[i], files[i])
=============================================================================
