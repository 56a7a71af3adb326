--------------------------- MODULE CampaignDirectory ---------------------------
(***************************************************************************)
(* A directory a producer fills while it may already be inspected: a       *)
(* campaign, whose index is rewritten after every export, or the pairs of  *)
(* an overhead measurement, whose evidence is written last.  The inspector *)
(* reads plan, index, names and every trial in turn and concludes from     *)
(* what it read (CampaignContract).  One thing goes wrong in a directory.  *)
(***************************************************************************)
EXTENDS CampaignContract

CONSTANTS Plans, Busy   \* a plan of each kind; steps the producer takes while it is read

(* The trials of a plan are files of their own; a plan is for one version. *)
Assignments == Claimed \cup {"engineering"}
PlannedTrials ==
  [run : STRING \ {"plan", "index"}, source : STRING, scenario : STRING, assignment : Assignments, repeat : Nat]
WellPlanned(p) ==
  /\ p = [terms |-> 1, workers |-> p.workers, trials |-> p.trials] /\ p.trials \in Seq(PlannedTrials)
  /\ \A i, j \in DOMAIN p.trials : p.trials[i].run = p.trials[j].run => i = j
ASSUME PlansAssumption == WellPlanned(Plans["campaign"])
(* What is not there is none of what could be. *)
PossibleRuns ==
  [run : STRING, scenario : STRING, assignment : Assignments, repeat : Nat, terms : {1, 2}, workers : {1, 2},
   from : Int, to : Int, state : {"verified", "failed"}]
Troubles ==
  {"other_assignment", "other_terms", "other_workers", "overlap", "too_short", "two_members", "reused",
   "finished_early", "rewritten", "lost", "foreign", "replanned", "other_order", "slow_baseline", "cut", "lossy",
   "whitewashed", "sampled", "limited", "staged", "other_version", "overwritten", "leftovers", "few_probes",
   "cut_short"}
NoneIsNothing == None \notin PossibleRuns \cup Troubles
ASSUME NoneAssumption == NoneIsNothing

VARIABLES
  kind,      \* "campaign" or "overhead"
  files,     \* what the directory holds, by name
  runs,      \* what was run in truth, in the order it was run
  pending,   \* a reference whose file is exported but which is not indexed
  trouble,   \* what went wrong, or None
  seen,      \* what was read so far
  moved,     \* how often the producer acted since the first read
  report     \* what was concluded, or None
campaignVars == <<kind, files, runs, pending, trouble, seen, moved, report>>

Unread == [plan |-> None, index |-> None, names |-> None, kept |-> <<>>]
Reading == seen.plan # None
Index == files["index"]
Has(name) == name \in DOMAIN files
Put(name, content) == [n \in DOMAIN files \cup {name} |-> IF n = name THEN content ELSE files[n]]
Read(name) == IF Has(name) THEN files[name] ELSE None

CampaignInit ==
  /\ kind \in {"campaign", "overhead"}
  /\ files = IF kind = "overhead" THEN [n \in {"plan"} |-> Plans[kind]]
             ELSE [n \in {"plan", "index"} |->
                    IF n = "plan" THEN Plans[kind]
                    ELSE [plan |-> Plans[kind], state |-> "running", trials |-> <<>>]]
  /\ runs = <<>> /\ pending = None /\ trouble = None
  /\ seen = Unread /\ moved = 0 /\ report = None

-----------------------------------------------------------------------------
(* The producer. *)
Lone(what) == trouble = None /\ trouble' = what
Well == UNCHANGED trouble
Acts(of) ==
  /\ kind = of /\ report = None /\ (Reading => moved < Busy)
  /\ moved' = IF Reading THEN moved + 1 ELSE 0
  /\ UNCHANGED <<kind, seen, report>>
Requested == Plans["campaign"].trials[Len(runs) + 1]
CanRun ==
  /\ pending = None /\ Len(runs) < Len(Plans["campaign"].trials)
  /\ Len(Index.trials) = Len(runs) /\ Index.state = "running"

(* An experiment takes two units; every other one is followed by a pause. *)
Clock ==
  LET ran == {i \in DOMAIN runs : runs[i] # None}
      last == CHOOSE i \in ran : \A j \in ran : j <= i IN
  IF ran = {} THEN 1 ELSE runs[last].to + (last % 2)
Executed(t, from, state) ==
  [run |-> t.run, scenario |-> t.scenario, assignment |-> t.assignment, repeat |-> t.repeat,
   terms |-> 1, workers |-> 2, from |-> from, to |-> from + 2, state |-> state]
Bundle(x) ==
  LET payload == [run |-> x.run, scenario |-> x.scenario, assignment |-> x.assignment, repeat |-> x.repeat,
                  terms |-> x.terms, workers |-> x.workers, time |-> x.to - x.from, state |-> x.state]
  IN <<[name |-> "experiment", type |-> "regular", payload |-> payload]>>
RefOf(t, file, from, to) ==
  [run |-> t.run, source |-> t.source, status |-> "exported", reason |-> None,
   file |-> t.run, sha |-> file, from |-> from, to |-> to]
Exports(x, file, from, to) ==
  /\ runs' = Append(runs, x) /\ files' = Put(Requested.run, file)
  /\ pending' = RefOf(Requested, file, from, to)

Acquire ==
  /\ Acts("campaign") /\ CanRun
  /\ \E state \in {"verified", "failed"} :
       LET x == Executed(Requested, Clock, state)  other == [x EXCEPT !.assignment = "engineering"] IN
       \/ Exports(x, Bundle(x), x.from, x.to) /\ Well
       \/ Exports(other, Bundle(other), x.from, x.to) /\ Lone("other_assignment")
       \/ LET y == [x EXCEPT !.terms = 2] IN Exports(y, Bundle(y), x.from, x.to) /\ Lone("other_terms")
       \/ LET y == [x EXCEPT !.workers = 1] IN Exports(y, Bundle(y), x.from, x.to) /\ Lone("other_workers")
       \/ Clock > 1 /\ LET y == Executed(Requested, Clock - 2, state) IN
                       Exports(y, Bundle(y), y.from, y.to) /\ Lone("overlap")
       \/ Exports(x, Bundle(x), x.from, x.from + 1) /\ Lone("too_short")
       \/ Exports(x, Bundle(x) \o Bundle([x EXCEPT !.state = "verified"]), x.from, x.to) /\ Lone("two_members")
       \/ Has("run-1") /\ Exports(x, files["run-1"], x.from, x.to) /\ Lone("reused")
NotAcquired ==
  /\ Acts("campaign") /\ CanRun /\ Well /\ runs' = Append(runs, None)
  /\ pending' = [run |-> Requested.run, source |-> Requested.source, status |-> "unavailable",
                 reason |-> "source_unavailable", file |-> None, sha |-> None, from |-> None, to |-> None]
  /\ UNCHANGED files
Register ==
  /\ Acts("campaign") /\ pending # None /\ Well /\ pending' = None
  /\ files' = Put("index", [Index EXCEPT !.trials = Append(@, pending)])
  /\ UNCHANGED runs
Finish ==
  /\ Acts("campaign") /\ pending = None /\ Index.state = "running"
  /\ LET all == Len(runs) = Len(Plans["campaign"].trials) /\ \A i \in DOMAIN runs : runs[i] # None IN
     \/ all /\ Well /\ files' = Put("index", [Index EXCEPT !.state = "finished"])
     \/ ~all /\ Lone("finished_early") /\ files' = Put("index", [Index EXCEPT !.state = "finished"])
     \/ ~all /\ Well /\ files' = Put("index", [Index EXCEPT !.state = "cancelled"])
  /\ UNCHANGED <<runs, pending>>

(* The files change behind the index, or all of the plan with it. *)
Swapped(plan) == [plan EXCEPT !.trials[1].assignment = plan.trials[2].assignment,
                              !.trials[2].assignment = plan.trials[1].assignment]
Tampered ==
  /\ Acts("campaign")
  /\ \/ \E i \in DOMAIN runs : /\ runs[i] # None /\ Has(runs[i].run) /\ Lone("rewritten")
                               /\ files' = Put(runs[i].run, Bundle([runs[i] EXCEPT !.state = "verified"]))
     \/ \E n \in DOMAIN files \ {"plan", "index"} : /\ Lone("lost")
                                                    /\ files' = [m \in DOMAIN files \ {n} |-> files[m]]
     \/ Lone("foreign") /\ files' = Put("foreign", <<>>)
     \/ /\ Lone("replanned")
        /\ LET plan == Swapped(files["plan"]) IN
           files' = [Put("plan", plan) EXCEPT !["index"].plan = plan]
  /\ UNCHANGED <<runs, pending>>

-----------------------------------------------------------------------------
(* A pair of runs, of which the second traces what it encodes, or the      *)
(* first if it is its turn. *)
PairNow == Len(runs) \div 2 + 1
Costs(effect) == IF effect = "costly" THEN 16 ELSE 15
Shown(effect) == IF effect = "slow" THEN 37 ELSE 38
Frames(n) ==
  LET at(t) == [b \in {"queue", "encode"} |-> t] IN
  <<[count |-> n - 1, exact |-> TRUE, enter |-> at(1), exit |-> at(2)],
    [count |-> 1, exact |-> TRUE, enter |-> at(2), exit |-> at(IF n > 30 THEN 1 ELSE 2)]>>
Record(x) ==
  [schema |-> 1, version |-> 1, provenance |-> "producer_capture", policy |-> NominalPolicy,
   drops |-> x.lost, frames |-> Frames(x.traced)]
Rare(record) == [record EXCEPT !.policy.nth = 2]
Brief(record) == [record EXCEPT !.policy.frames = 1000]
Acted(record) == [record EXCEPT !.provenance = "synthetic"]
Old(record) == [record EXCEPT !.version = 2]
Trace(manifest, record) ==
  <<[name |-> "manifest", type |-> "regular", payload |-> [schema |-> 1, sha |-> manifest]],
    [name |-> "record", type |-> "regular", payload |-> record]>>
Off(fps) == [pair |-> PairNow, mode |-> "disabled", cpu |-> 10, fps |-> fps, lost |-> 0, traced |-> 0]
On(effect, lost, traced) ==
  [pair |-> PairNow, mode |-> "enabled", cpu |-> Costs(effect), fps |-> Shown(effect), lost |-> lost, traced |-> traced]
InTurn(x, y) == IF Order[Len(runs) + 1][2] = x.mode THEN <<x, y>> ELSE <<y, x>>
Measures(pair, file) == runs' = runs \o pair /\ files' = Put(TraceNames[PairNow], file)

RunPair ==
  /\ Acts("overhead") /\ Len(runs) < Len(Order) /\ ~Has("index")
  /\ \E effect \in {"none", "costly", "slow"} :
       LET off == Off(40)  on == On(effect, 0, Shown(effect))  cut == On(effect, 0, 30)
           lossy == On(effect, 1, Shown(effect))
           record == Record(on)  file == Trace(record, record)  pair == InTurn(off, on) IN
       \/ Measures(pair, file) /\ Well
       \/ Measures(<<pair[2], pair[1]>>, file) /\ Lone("other_order")
       \/ Measures(InTurn(Off(26), [on EXCEPT !.fps = 26]), file) /\ Lone("slow_baseline")
       \/ Measures(InTurn(off, cut), Trace(Record(cut), Record(cut))) /\ Lone("cut")
       \/ Measures(InTurn(off, lossy), Trace(Record(lossy), Record(lossy))) /\ Lone("lossy")
       \/ Measures(InTurn(off, lossy), Trace(Record(lossy), record)) /\ Lone("whitewashed")
       \/ Measures(InTurn(off, cut), Trace(Rare(record), Rare(record))) /\ Lone("sampled")
       \/ Measures(InTurn(off, cut), Trace(Brief(record), Brief(record))) /\ Lone("limited")
       \/ Measures(pair, Trace(Acted(record), Acted(record))) /\ Lone("staged")
       \/ Measures(pair, Trace(Old(record), Old(record))) /\ Lone("other_version")
  /\ UNCHANGED pending
Overwritten ==
  /\ Acts("overhead") /\ Has("index") /\ Has("pair-2") /\ Lone("overwritten") /\ files' = Put("pair-1", files["pair-2"])
  /\ UNCHANGED <<runs, pending>>

MeasureOf(i) ==
  LET x == runs[i]  traced == x.mode = "enabled" /\ Has(TraceNames[x.pair]) IN
  [pair |-> x.pair, mode |-> x.mode, cpu |-> x.cpu, first |-> i, last |-> i + x.fps,
   file |-> IF traced THEN TraceNames[x.pair] ELSE None,
   sha |-> IF traced THEN files[TraceNames[x.pair]] ELSE None]
Linux == [kind |-> "linux_x11", version |-> 1]
Diagnosed(n) ==
  [baseline |-> [cpu |-> 10, first |-> 0, last |-> 40], measured |-> [cpu |-> 15, first |-> 0, last |-> 38],
   kept |-> n, observed |-> n]
Evidence(state, reason, cleaned, runtime, diagnostic) ==
  [plan |-> Plans["overhead"], version |-> 1, provenance |-> "producer_capture", runtime |-> runtime,
   state |-> state, reason |-> reason, trials |-> [i \in DOMAIN runs |-> MeasureOf(i)],
   diagnostic |-> diagnostic, cleaned |-> cleaned]
Completed(cleaned, probes) == Evidence("completed", None, cleaned, Linux, Diagnosed(probes))
WriteEvidence ==
  /\ Acts("overhead") /\ ~Has("index")
  /\ \/ Len(runs) = Len(Order) /\ Well /\ files' = Put("index", Completed(TRUE, EnoughProbes))
     \/ Len(runs) = Len(Order) /\ Lone("leftovers") /\ files' = Put("index", Completed(FALSE, EnoughProbes))
     \/ Len(runs) = Len(Order) /\ Lone("few_probes") /\ files' = Put("index", Completed(TRUE, EnoughProbes - 1))
     \/ Len(runs) < Len(Order) /\ Lone("cut_short") /\ files' = Put("index", Completed(TRUE, EnoughProbes))
     \/ /\ runs # <<>> /\ Well
        /\ files' = Put("index", Evidence("failed", "cancelled", TRUE, Linux, None))
     \/ /\ runs = <<>> /\ Well
        /\ files' = Put("index", Evidence("unavailable", "runtime_unavailable", TRUE, None, None))
  /\ UNCHANGED <<runs, pending>>

(* A producer with whom all goes well follows a plan that keeps the rules  *)
(* of plans and is for what this producer runs; nothing it writes down is  *)
(* None; and a window in which no frame is lost has enough pairs. *)
Follows(plan) == ValidPlan(plan) /\ plan.terms = 1 /\ plan.workers = 2
Bundles(plan) ==
  {Bundle(Executed(plan.trials[i], 0, state)) : i \in DOMAIN plan.trials, state \in {"verified", "failed"}}
References(plan) ==
  [run : STRING, source : STRING, status : {"exported", "unavailable"}, reason : {None, "source_unavailable"},
   file : STRING \cup {None}, sha : Bundles(plan) \cup {None}, from : Int \cup {None}, to : Int \cup {None}]
Traces == {Trace(Record(x), Record(x)) : x \in [lost : {0}, traced : {37, 38}]}
Measurements ==
  [pair : 1..5, mode : {"disabled", "enabled"}, cpu : 0..6400, first : Nat, last : Nat,
   file : {TraceNames[p] : p \in 1..5} \cup {None}, sha : Traces \cup {None}]
NoneIsUnwritten(plan) ==
  /\ None \notin {1, 2} /\ None \notin {"source_unavailable", "cancelled", "runtime_unavailable"}
  /\ None \notin {Linux, Diagnosed(EnoughProbes)}
  /\ \A p \in 1..5 : TraceNames[p] # None
  /\ \A i \in DOMAIN plan.trials : plan.trials[i].run # None
  /\ None \notin Bundles(plan) /\ None \notin References(plan) /\ None \notin Traces /\ None \notin Measurements
ASSUME FollowedAssumption == Follows(Plans["campaign"]) /\ Follows(Plans["overhead"]) /\ OverheadPlanned(Plans["overhead"])
ASSUME UnwrittenAssumption == NoneIsUnwritten(Plans["campaign"])
ASSUME EnoughPairsAssumption == EnoughPairs \in 0..36
ASSUME EnoughProbesAssumption == EnoughProbes \in 1..10000

-----------------------------------------------------------------------------
(* The inspector: each file once, in this order. *)
Stays == UNCHANGED <<kind, files, runs, pending, trouble, moved>>
ReadPlan == /\ ~Reading /\ Has("index") /\ seen' = [Unread EXCEPT !.plan = Read("plan")]
            /\ Stays /\ UNCHANGED report
ReadIndex == /\ Reading /\ seen.index = None /\ seen' = [seen EXCEPT !.index = Index]
             /\ Stays /\ UNCHANGED report
ListDirectory == /\ seen.index # None /\ seen.names = None /\ seen' = [seen EXCEPT !.names = DOMAIN files]
                 /\ Stays /\ UNCHANGED report
AllKept == seen.names # None /\ Len(seen.kept) = Len(seen.index.trials)
ReadTrial ==
  /\ seen.names # None /\ ~AllKept
  /\ LET ref == seen.index.trials[Len(seen.kept) + 1] IN
     seen' = [seen EXCEPT !.kept = Append(@, IF ref.file = None THEN None ELSE Read(ref.file))]
  /\ Stays /\ UNCHANGED report
Honest == trouble = None /\ moved = 0 /\ pending = None
Report ==
  /\ AllKept /\ report = None
  /\ LET p == seen.plan  x == seen.index  k == seen.kept
         accepted == IF kind = "campaign" THEN CampaignAccepted(p, x, seen.names, k)
                     ELSE OverheadAccepted(p, x, seen.names, k) IN
     report' = [accepted |-> accepted, honest |-> Honest,
                rows |-> IF accepted /\ kind = "campaign" THEN CampaignReport(p, x, k).rows ELSE <<>>,
                passed |-> accepted /\ IF kind = "campaign" THEN CampaignReport(p, x, k).passed
                                       ELSE OverheadPassed(x, k)]
  /\ Stays /\ UNCHANGED seen

Produce == Acquire \/ NotAcquired \/ Register \/ Finish \/ Tampered
           \/ RunPair \/ Overwritten \/ WriteEvidence
Inspect == ReadPlan \/ ReadIndex \/ ListDirectory \/ ReadTrial \/ Report
CampaignNext == Produce \/ Inspect
CampaignSpec == CampaignInit /\ [][CampaignNext]_campaignVars

-----------------------------------------------------------------------------
Accepted(of) == report # None /\ kind = of /\ report.accepted
Succeeded(s, a) ==
  Cardinality({i \in DOMAIN runs : runs[i] # None /\ runs[i].scenario = s /\ runs[i].assignment = a
                                     /\ runs[i].state = "verified"})

(* What is reported of a campaign was run as reported, under the           *)
(* assignment it was planned for and with nothing else running at the      *)
(* time, and effects are claimed only when every one was verified often    *)
(* enough; whatever the producer did while the directory was read, and     *)
(* whichever file was exchanged, lost, renamed or replanned. *)
CampaignTrue ==
  Accepted("campaign") =>
    LET ran(i) == report.rows[i].state # "unavailable" IN
    /\ \A i \in DOMAIN report.rows :
         IF ran(i)
         THEN /\ runs[i] # None /\ runs[i].terms = 1
              /\ \A f \in {"run", "scenario", "assignment", "state"} : runs[i][f] = report.rows[i][f]
         ELSE runs[i] = None
    /\ \A i, j \in DOMAIN report.rows : i < j /\ ran(i) /\ ran(j) => runs[i].to <= runs[j].from
    /\ report.passed => \A s \in Scenarios, a \in Claimed : Succeeded(s, a) >= Repeats

(* Tracing is said to cost little only after five pairs run in the         *)
(* declared order, at full rate without tracing, each trace with nearly    *)
(* all frames and nothing lost, of which three or more cost at most five   *)
(* points and three or more lost at most a twentieth of their frames. *)
Pair(p, mode) == runs[CHOOSE i \in DOMAIN runs : runs[i].pair = p /\ runs[i].mode = mode]
Cheap == {p \in 1..5 : Pair(p, "enabled").cpu - Pair(p, "disabled").cpu <= 5}
Fast == {p \in 1..5 : 20 * (Pair(p, "disabled").fps - Pair(p, "enabled").fps) <= Pair(p, "disabled").fps}
CheapInTruth ==
  /\ Len(runs) = 10 /\ \A i \in DOMAIN runs : <<runs[i].pair, runs[i].mode>> = Order[i]
  /\ \A p \in 1..5 :
       /\ Pair(p, "disabled").fps >= 27
       /\ Pair(p, "enabled").lost = 0 /\ 20 * Pair(p, "enabled").traced >= 19 * Pair(p, "enabled").fps
  /\ Cardinality(Cheap) >= 3 /\ Cardinality(Fast) >= 3
OverheadTrue == (Accepted("overhead") /\ report.passed) => CheapInTruth

(* A directory in which all went well and that nobody wrote to while it    *)
(* was read is accepted, and what was cheap is found cheap. *)
HonestAccepted ==
  (report # None /\ report.honest) =>
    /\ report.accepted
    /\ kind = "overhead" /\ seen.index.state = "completed" => report.passed = CheapInTruth
=============================================================================
