---------------------------- MODULE PassiveBaseline ----------------------------
(***************************************************************************)
(* The passive gate's baseline (passive_gating/).  A first command inspects *)
(* a calibration directory and fits, for every scope its healthy training  *)
(* windows were seen in, the centre of their frame rates; a second one     *)
(* inspects the directory again and replays windows that were kept with    *)
(* that baseline, if both still are what it finds.  In between the         *)
(* curator may issue the directory anew.                                   *)
(* What an inspection does is CalibrationInspection's; what a replay makes *)
(* of the order of the windows it may use is PassiveGate's.  Policy hashes *)
(* and budgets of bytes are left out.                                      *)
(* A window also has its times, whether they are whole milliseconds, its   *)
(* source's format and its metric, the received frame rate, in a unit in   *)
(* which medians are whole.                                                *)
(* Definitions whose name starts with Bug are what a slip would make of    *)
(* the one after them.                                                     *)
(***************************************************************************)
EXTENDS CalibrationInspection

CONSTANTS
  LeastGroups,   \* 5 groups, and as many with a frame rate
  Available,     \* and those 80 in a hundred of them
  LeastSamples,  \* 2 samples of a window
  Durations,     \* 1 to 10 seconds of it
  Modes          \* what is replayed: validation or final_test windows

Because(reason, holds) == {r \in {reason} : holds}
Passive == "healthy_window"

-----------------------------------------------------------------------------
(* Evidence: a dataset and the report of its inspection, which must say of *)
(* every entry what the dataset's lineage and reviews say. *)
Unverified(d, entry) == entry.basis \in {"unknown", "declared_only"} \/ ~Confirmed(d, entry)
SplitUnverified(d) ==
  /\ d.split.mode = "prospective"
  /\ d.split.freeze = None \/ d.reviews[d.split.freeze].outcome # "confirmed"
FirstCopy(d, e) ==
  CHOOSE f \in Measured(d) : \A g \in Measured(d) :
    LET bytes(x) == d.artifacts[d.entries[x].artifact].content IN
    bytes(f) = bytes(e) /\ (bytes(g) = bytes(e) => f <= g)
Evident(ev) ==
  LET d == ev.dataset  r == ev.report IN
  /\ r.mode = d.split.mode /\ DOMAIN r.entries = Entries(d)
  /\ r.groups = [g \in Groups(d) |-> [role |-> d.split.assignments[g], independence |-> Independence(d, g)]]
  /\ \A e \in Entries(d) : <<r.entries[e].kind, r.entries[e].label>> = <<d.entries[e].kind, d.entries[e].label>>
  /\ \A e \in Measured(d) :
       LET item == r.entries[e]  group == GroupOf(d, e) IN
       /\ item.group = group /\ item.role = d.split.assignments[group]
       /\ item.first = r.entries[FirstCopy(d, e)].first
       /\ ("label_unverified" \in item.reasons) = Unverified(d, d.entries[e])
       /\ ("split_unverified" \in item.reasons) = SplitUnverified(d)

(* One entry of another label, or of none, and nothing of its group is     *)
(* taken for healthy. *)
BugOnlyHealthy(ev, group) ==
  \A e \in Measured(ev.dataset) :
    LET item == ev.report.entries[e] IN item.group = group /\ item.kind = Passive => item.label = "healthy"
OnlyHealthy(ev, group) ==
  \A e \in Measured(ev.dataset) :
    LET item == ev.report.entries[e] IN item.group = group => item.label = "healthy"
MetadataReasons(ev, e) ==
  LET item == ev.report.entries[e]  entry == ev.dataset.entries[e] IN
  UNION {Because("missing_measurements", item.kind = "missing"),
         Because("not_baseline_window", item.kind # Passive),
         Because("not_training", item.role # "training"),
         Because("not_confirmed_healthy", item.label # "healthy" \/ Unverified(ev.dataset, entry)),
         Because("n6_excluded", item.reasons \ {"duplicate_evidence"} # {}),
         Because("duplicate_evidence", item.first # e),
         Because("group_not_explicitly_healthy", ~OnlyHealthy(ev, item.group))}

(* A window that is bound to its entry, of whole milliseconds, of which    *)
(* the report says what it shows. *)
BindWindow(ev, e, record) ==
  LET w == record.windows[1]  item == ev.report.entries[e] IN
  /\ w.whole /\ Bound(ev.dataset, e, record)
  /\ item.partition = Partition(record)
  /\ ("synthetic_only" \in item.reasons) = (w.provenance = "synthetic")
  /\ ("baseline_invalid" \in item.reasons) = ~(w.valid /\ ~w.confounded /\ w.supported)
Scope(w) ==
  [provenance |-> w.provenance, context |-> w.context, settings |-> w.fps, format |-> w.format]
QualityReasons(w) ==
  UNION {Because("unsupported_metric", ~w.metric.supported),
         Because("incomplete_metric", ~w.metric.complete \/ w.metric.value = None),
         Because("rejected_samples", w.metric.rejected),
         Because("insufficient_samples", w.metric.usable < LeastSamples),
         Because("unsupported_window_duration", w.end - w.start \notin Durations)}

-----------------------------------------------------------------------------
(* The baseline. *)
Middle(values) ==
  LET sorted == SortSeq(values, <)  n == Len(values) IN
  IF n % 2 = 1 THEN sorted[(n + 1) \div 2] ELSE (sorted[n \div 2] + sorted[n \div 2 + 1]) \div 2
InOrder(S, value) == LET order == SetToSeq(S) IN [i \in DOMAIN order |-> value[order[i]]]
MiddleOf(S, value) == IF S = {} THEN None ELSE Middle(InOrder(S, value))
Apart(x, y) == IF x < y THEN y - x ELSE x - y

(* Of the groups of a scope and what the middle of each is, if it has one. *)
Statistics(groups, value) ==
  LET seen == {g \in groups : value[g] # None}
      center == MiddleOf(seen, value)
      reasons == UNION {
        Because("insufficient_training_groups", Cardinality(groups) < LeastGroups),
        Because("insufficient_metric_groups", Cardinality(seen) < LeastGroups),
        Because("insufficient_availability", 100 * Cardinality(seen) < Available * Cardinality(groups)),
        Because("baseline_center_not_positive", center = None \/ center = 0)} IN
  [center |-> center, spread |-> MiddleOf(seen, [g \in seen |-> Apart(value[g], center)]),
   state |-> IF reasons = {} THEN "provisional" ELSE "rejected", reasons |-> reasons]

(* The window of an entry is kept unless something is known against it.    *)
Input(ev, e, record) ==
  [group |-> ev.report.entries[e].group, window |-> record,
   stratum |-> IF record = None THEN None ELSE Scope(record.windows[1]),
   reasons |-> IF record = None THEN MetadataReasons(ev, e) ELSE QualityReasons(record.windows[1])]
Inputs(ev, records) ==
  [e \in Entries(ev.dataset) |-> Input(ev, e,
     IF MetadataReasons(ev, e) = {} THEN records[ev.dataset.entries[e].artifact].record ELSE None)]
ValidInputs(ev, inputs) ==
  /\ DOMAIN inputs = Entries(ev.dataset)
  /\ \A e \in DOMAIN inputs :
       /\ (inputs[e].window = None) = (MetadataReasons(ev, e) # {})
       /\ inputs[e].window # None => BindWindow(ev, e, inputs[e].window)
       /\ inputs[e] = Input(ev, e, inputs[e].window)
Selected(inputs) == {e \in DOMAIN inputs : inputs[e].reasons = {}}
Stratum(inputs, scope) ==
  LET members == {e \in DOMAIN inputs : inputs[e].stratum = scope}
      groups == {inputs[e].group : e \in members}
      of(g) == {e \in members : inputs[e].group = g}
      value == [g \in groups |->
        MiddleOf(of(g) \cap Selected(inputs), [e \in of(g) |-> inputs[e].window.windows[1].metric.value])] IN
  [groups |-> [g \in groups |->
                 [entries |-> of(g), selected |-> of(g) \cap Selected(inputs), value |-> value[g]]],
   fit |-> Statistics(groups, value)]
Provisional(strata) == {s \in DOMAIN strata : strata[s].fit.state = "provisional"}
Reconstructed(ev, inputs) ==
  LET scopes == {inputs[e].stratum : e \in DOMAIN inputs} \ {None}
      strata == [s \in scopes |-> Stratum(inputs, s)] IN
  [evidence |-> ev, inputs |-> inputs, strata |-> strata,
   counts |-> [retained |-> Cardinality(DOMAIN inputs),
               eligible |-> Cardinality({e \in DOMAIN inputs : inputs[e].window # None}),
               selected |-> Cardinality(Selected(inputs)), strata |-> Cardinality(scopes),
               provisional |-> Cardinality(Provisional(strata))],
   state |-> IF Provisional(strata) # {} THEN "provisional" ELSE "rejected"]

Fittable(ev, records) == Evident(ev) /\ ValidInputs(ev, Inputs(ev, records))
Fit(ev, records) == Reconstructed(ev, Inputs(ev, records))
(* What is read of a kept baseline is what its own evidence makes it. *)
ValidBaseline(b) ==
  Evident(b.evidence) /\ ValidInputs(b.evidence, b.inputs) /\ b = Reconstructed(b.evidence, b.inputs)
-----------------------------------------------------------------------------
(* A replay names entries and keeps the windows they name. *)
Keeps(ev, named, records) ==
  LET artifacts == {ev.dataset.entries[e].artifact : e \in {x \in named : ev.report.entries[x].kind = Passive}} IN
  [a \in artifacts |-> records[a].record]
(* What a trained group, or any, came from: its sources, and the contents  *)
(* of their recordings and of its files. *)
Footprint(ev, groups) ==
  LET d == ev.dataset
      sources == UNION {g \in DOMAIN ev.report.groups : g \in groups}
      files == {d.entries[e].artifact : e \in {x \in Entries(d) : ev.report.entries[x].group \in groups}} \ {None} IN
  {<<"id", s>> : s \in sources} \cup {<<"source", d.sources[s].content>> : s \in sources}
    \cup {<<"artifact", d.artifacts[a].content.bytes>> : a \in files}
TrainedGroups(b) ==
  {g \in UNION {DOMAIN b.strata[s].groups : s \in DOMAIN b.strata} :
     \E s \in DOMAIN b.strata : g \in DOMAIN b.strata[s].groups /\ b.strata[s].groups[g].selected # {}}

(* Every window an event names is there, bound to its entry and found once *)
(* more only as a copy. *)
QueriesBound(b, q) ==
  LET ev == b.evidence
      windows == {e \in q.named : ev.report.entries[e].kind = Passive}
      of(e) == q.windows[ev.dataset.entries[e].artifact] IN
  /\ {ev.dataset.entries[e].artifact : e \in windows} = DOMAIN q.windows
  /\ \A e \in windows : BindWindow(ev, e, of(e))
  /\ \A e, f \in windows : of(e) = of(f) => ev.report.entries[e].first = ev.report.entries[f].first

(* What keeps a window that came in order from being classified. *)
Blocked(b, q, e) ==
  LET item == b.evidence.report.entries[e]
      w == q.windows[b.evidence.dataset.entries[e].artifact].windows[1] IN
  UNION {Because("not_requested_role", item.role # q.mode),
         Because("n6_excluded", item.reasons \ {"label_unverified", "duplicate_evidence"} # {}),
         Because("baseline_unavailable", q.stratum \notin Provisional(b.strata)),
         Because("source_overlap",
           Footprint(b.evidence, {item.group}) \cap Footprint(b.evidence, TrainedGroups(b)) # {}),
         QualityReasons(w)}
Outcome(b, q, e) ==
  LET item == b.evidence.report.entries[e] IN
  CASE item.kind = "missing" -> {"missing_measurements"}
    [] item.kind = "response" -> {"not_passive_window"}
    [] item.first # e -> {"duplicate_window"}
    [] OTHER -> LET w == q.windows[b.evidence.dataset.entries[e].artifact].windows[1] IN
                IF Scope(w) # q.stratum THEN {"scope_changed"} ELSE Blocked(b, q, e)
Replayed(b, q) == [e \in q.named |-> Outcome(b, q, e)]

-----------------------------------------------------------------------------
(* The two commands.  origin is the collection a baseline was fitted of,   *)
(* which the code does not see; a collection's later is what its curator   *)
(* may issue in its place. *)
VARIABLES baseline, query, result, origin
passive == <<baseline, query, result, origin>>
passiveVars == <<inspectionVars, passive>>

PassiveInit == InspectionInit /\ baseline = None /\ query = None /\ result = None /\ origin = None
Inspecting == (List \/ ReadManifest \/ ReadArtifact \/ Finish \/ Edit) /\ UNCHANGED passive
Inspected == [dataset |-> dataset, report |-> report]

Build ==
  /\ stage = "published" /\ baseline = None
  /\ IF ~Fittable(Inspected, contents)
     THEN stage' = "unfit" /\ UNCHANGED <<names, contents, report, passive>>
     ELSE /\ baseline' = Fit(Inspected, contents) /\ origin' = collection
          /\ \E mode \in Modes, scope \in DOMAIN baseline'.strata \cup {None} :
               query' = [mode |-> mode, stratum |-> scope, named |-> Entries(dataset),
                         windows |-> Keeps(Inspected, Entries(dataset), contents)]
          /\ stage' = "called" /\ contents' = <<>> /\ names' = {} /\ report' = None
          /\ UNCHANGED result
  /\ UNCHANGED <<collection, directory, dataset, edited>>

Reissue ==
  /\ stage = "called" /\ baseline # None /\ collection.later # None /\ edited = None
  /\ collection' = collection.later
  /\ directory' = [k \in Files(collection'.dataset) |-> IF k = 0 THEN collection'.dataset ELSE collection'.files[k]]
  /\ UNCHANGED <<names, dataset, contents, stage, report, edited, passive>>

Replay ==
  /\ stage = "published" /\ baseline # None
  /\ IF /\ ValidBaseline(baseline)
        /\ Fittable(Inspected, contents) /\ Fit(Inspected, contents) = baseline
        /\ query.windows = Keeps(Inspected, query.named, contents) /\ QueriesBound(baseline, query)
     THEN result' = Replayed(baseline, query) /\ stage' = "replayed"
     ELSE stage' = "unfit" /\ UNCHANGED result
  /\ UNCHANGED <<collection, directory, names, dataset, contents, report, edited, baseline, query, origin>>

Over == stage \in {"refused", "unfit", "replayed"} /\ UNCHANGED passiveVars
PassiveNext == Inspecting \/ Build \/ Reissue \/ Replay \/ Over

-----------------------------------------------------------------------------
(* A baseline is fitted of exactly the windows a reader who had been there *)
(* would take: the first copies, in training, that are good evidence, of a *)
(* usable frame rate, in a group declared healthy throughout.  Windows of  *)
(* one stratum are of one scope, its groups saw different recordings, and  *)
(* its centre is in the middle of what the groups that have one saw.       *)
TrainingTrue == baseline # None =>
  LET d == baseline.evidence.dataset
      group(e) == baseline.evidence.report.entries[e].group
      shown(e) == origin.files[d.entries[e].artifact].record
      windows == {e \in Measured(d) : d.entries[e].kind = Passive}
      training == {e \in windows :
        /\ e \notin origin.weak \cup origin.poor /\ d.split.assignments[group(e)] = "training"
        /\ \A f \in windows : shown(f) = shown(e) => e <= f
        /\ \A f \in Measured(d) : group(f) = group(e) => d.entries[f].label = "healthy"} IN
  /\ Selected(baseline.inputs) = training
  /\ \A e \in training : shown(e).windows[1].cause = "healthy" /\ shown(e).windows[1].provenance = "live"
  /\ \A s \in DOMAIN baseline.strata :
       LET rows == baseline.strata[s].groups  center == baseline.strata[s].fit.center
           seen == {g \in DOMAIN rows : rows[g].value # None}
           side(Within(_)) == 2 * Cardinality({g \in seen : Within(rows[g].value)}) >= Cardinality(seen) IN
       /\ \A e \in UNION {rows[g].selected : g \in seen} : Scope(shown(e).windows[1]) = s
       /\ \A g, h \in seen : g # h => \A e \in rows[g].selected, f \in rows[h].selected :
            \A i \in BoundBy(d.entries[e]), j \in BoundBy(d.entries[f]) : d.sources[i].content # d.sources[j].content
       /\ seen # {} => side(LAMBDA v : v <= center) /\ side(LAMBDA v : v >= center)
       /\ s \in Provisional(baseline.strata) => Cardinality(seen) >= LeastGroups /\ center > 0

(* A replay is made only with a baseline of the evidence as it is, and     *)
(* classifies only good windows of the role asked for, of the stratum's    *)
(* scope, from recordings the baseline did not see; what nobody changed is *)
(* replayed.  Nothing is refused but for windows of broken milliseconds.   *)
QueriesTrue ==
  /\ result # None =>
       LET d == dataset
           group(e) == report.entries[e].group
           recordings(e) == {d.sources[s].content : s \in BoundBy(d.entries[e])} IN
       /\ origin.dataset = collection.dataset /\ contents = collection.files
       /\ \A e \in DOMAIN result : result[e] = {} =>
            /\ e \notin origin.poor /\ d.split.assignments[group(e)] = query.mode
            /\ Scope(contents[d.entries[e].artifact].record.windows[1]) = query.stratum
            /\ \A f \in Selected(baseline.inputs) :
                 group(f) # group(e) /\ recordings(f) \cap recordings(e) = {}
  /\ stage = "unfit" =>
       \/ baseline # None /\ origin # collection
       \/ \E e \in Measured(dataset) : ~contents[dataset.entries[e].artifact].record.windows[1].whole

BaselineTrue == TrainingTrue /\ QueriesTrue
=============================================================================
