------------------------- MODULE CalibrationInspection -------------------------
(***************************************************************************)
(* Inspecting a calibration directory (calibration/).  First, what a       *)
(* dataset says: the dataset in itself (dataset.py, evidence.py), its      *)
(* lineage (lineage.py), what the records of its artifacts tell and what   *)
(* keeps an entry from counting (records.py, inspection.py), and the       *)
(* report with its own validator (report.py).  Components are taken as     *)
(* CalibrationLineage shows the loops to compute them.  Sources, entries   *)
(* and artifacts are numbered in their order.  Byte limits are left out.   *)
(* Then the inspection (inspection.py, bundle_io.py): the names are        *)
(* listed, the manifest read and its lineage reconstructed, every artifact *)
(* is read, and the report is made only if the directory still has the     *)
(* same names.  Meanwhile others may change one file.  File 0 is the       *)
(* manifest, file k the manifest's artifact k.                             *)
(* Definitions whose name starts with Bug are what a slip would make of    *)
(* the one after them.                                                     *)
(***************************************************************************)
EXTENDS Integers, Sequences, FiniteSets, SequencesExt

CONSTANTS
  None,
  Features,        \* 22 features of the approved policy
  Shared, Share,   \* 4 of them, and 75 in a hundred, at least
  LeastFeatures    \* 17, what the report's validator says that is

Sources(d) == DOMAIN d.sources
Entries(d) == DOMAIN d.entries
Measured(d) == {e \in Entries(d) : d.entries[e].kind # "missing"}
BoundBy(entry) == {entry.bindings[i].source : i \in DOMAIN entry.bindings}

-----------------------------------------------------------------------------
(* The dataset in itself. *)
ValidEntry(entry) ==
  LET windows == CASE entry.kind = "response" -> <<"degraded", "relief">>
                   [] entry.kind = "healthy_window" -> <<"healthy">>
                   [] OTHER -> <<>>
      phase == IF entry.kind = "healthy_window" THEN "healthy" ELSE "degraded" IN
  /\ (entry.artifact = None) = (entry.kind = "missing")
  /\ [i \in DOMAIN entry.bindings |-> entry.bindings[i].window] = windows
  /\ entry.kind = "missing" => entry.label = None /\ entry.basis = "unknown" /\ entry.review = None
  /\ (entry.label = None) = (entry.basis = "unknown")
  /\ entry.kind = "healthy_window" => entry.label \in {None, "healthy"}
  /\ IF entry.basis = "controlled_effect" THEN entry.experiment # None /\ entry.phase = phase
     ELSE entry.experiment = None /\ entry.phase = None

SplitId(d) == <<d.split.mode, d.split.assignments>>
Reviewed(d, id, kind, subject) ==
  id # None => /\ id \in DOMAIN d.reviews /\ d.reviews[id].kind = kind
               /\ subject \in d.reviews[id].subjects
ValidReview(d, r) ==
  /\ r.subjects # {} /\ (r.kind # "independence" => Cardinality(r.subjects) = 1)
  /\ r.subjects \subseteq (CASE r.kind = "independence" -> Sources(d)
                             [] r.kind = "label_binding" -> Entries(d)
                             [] OTHER -> {SplitId(d)})
OfKind(d, id, kind) == id # None => id \in DOMAIN d.artifacts /\ d.artifacts[id].kind = kind

(* The declared derivations are sorted, sources without parents first. *)
ChildrenOf(d, s) == {t \in Sources(d) : <<s, t>> \in d.derivations}
BugPopped(d, s) ==
  LET x == Last(s.ready)
      incoming == [c \in Sources(d) |-> IF c \in ChildrenOf(d, x) THEN s.incoming[c] - 1 ELSE s.incoming[c]] IN
  [ready |-> Front(s.ready) \o SetToSeq(ChildrenOf(d, x)), incoming |-> incoming, visited |-> s.visited + 1]
Popped(d, s) ==
  LET x == Last(s.ready)
      incoming == [c \in Sources(d) |-> IF c \in ChildrenOf(d, x) THEN s.incoming[c] - 1 ELSE s.incoming[c]] IN
  [ready |-> Front(s.ready) \o SetToSeq({c \in ChildrenOf(d, x) : incoming[c] = 0}),
   incoming |-> incoming, visited |-> s.visited + 1]
Sorted(d) ==
  LET incoming == [c \in Sources(d) |-> Cardinality({s \in Sources(d) : c \in ChildrenOf(d, s)})]
      at[n \in 0..Len(d.sources)] ==
        IF n = 0 THEN [ready |-> SetToSeq({s \in Sources(d) : incoming[s] = 0}), incoming |-> incoming, visited |-> 0]
        ELSE IF at[n - 1].ready = <<>> THEN at[n - 1] ELSE Popped(d, at[n - 1]) IN
  at[Len(d.sources)].visited = Len(d.sources)
(* Whatever is bound, or linked with it in either direction. *)
Used(d) ==
  LET at[n \in 0..Len(d.sources)] ==
        IF n = 0 THEN UNION {BoundBy(d.entries[e]) : e \in Entries(d)}
        ELSE at[n - 1] \cup UNION {{edge[1], edge[2]} : edge \in {x \in d.derivations : {x[1], x[2]} \cap at[n - 1] # {}}} IN
  at[Len(d.sources)]
Inventoried(d) ==
  /\ Used(d) = Sources(d)
  /\ DOMAIN d.artifacts = ({d.entries[e].artifact : e \in Entries(d)} \cup {d.entries[e].experiment : e \in Entries(d)}) \ {None}
  /\ DOMAIN d.reviews = ({d.sources[s].review : s \in Sources(d)} \cup {d.entries[e].review : e \in Entries(d)}
                           \cup {d.split.freeze}) \ {None}
OriginOf(s) == <<s.namespace, s.run, s.content>>
ValidDataset(d) ==
  /\ \A s \in Sources(d) : Reviewed(d, d.sources[s].review, "independence", s)
  /\ \A r \in DOMAIN d.reviews : ValidReview(d, d.reviews[r])
  /\ Reviewed(d, d.split.freeze, "split_freeze", SplitId(d))
  /\ d.split.mode = "retrospective" => d.split.freeze = None
  /\ \A e \in Entries(d) :
       LET entry == d.entries[e] IN
       /\ ValidEntry(entry) /\ BoundBy(entry) \subseteq Sources(d)
       /\ OfKind(d, entry.artifact, IF entry.kind = "response" THEN "analytical_response" ELSE "observation_window")
       /\ OfKind(d, entry.experiment, "experiment_bundle")
       /\ Reviewed(d, entry.review, "label_binding", e)
  /\ \A edge \in d.derivations : {edge[1], edge[2]} \subseteq Sources(d) /\ edge[1] # edge[2]
  /\ Sorted(d) /\ Inventoried(d)
  /\ \A s, t \in Sources(d) : OriginOf(d.sources[s]) = OriginOf(d.sources[t]) =>
       <<d.sources[s].session, d.sources[s].group>> = <<d.sources[t].session, d.sources[t].group>>

-----------------------------------------------------------------------------
(* Its lineage. *)
Related(d, s, t) ==
  LET x == d.sources[s]  y == d.sources[t] IN
  \/ x.content = y.content
  \/ x.namespace = y.namespace /\ (x.run = y.run \/ x.session = y.session \/ x.group = y.group)
  \/ <<s, t>> \in d.derivations \/ <<t, s>> \in d.derivations
  \/ \E e \in Entries(d) : {s, t} \subseteq BoundBy(d.entries[e])
Component(d, s) ==
  LET at[n \in 0..Len(d.sources)] ==
        IF n = 0 THEN {s} ELSE at[n - 1] \cup {t \in Sources(d) : \E u \in at[n - 1] : Related(d, u, t)} IN
  at[Len(d.sources)]
Groups(d) == {Component(d, s) : s \in Sources(d)}
GroupOf(d, e) == CHOOSE g \in Groups(d) : BoundBy(d.entries[e]) \subseteq g
Signature(d, e) ==
  <<d.entries[e].kind, [i \in DOMAIN d.entries[e].bindings |->
      LET b == d.entries[e].bindings[i] IN <<b.id, d.sources[b.source].run, d.sources[b.source].content>>]>>
LabelsDiffer(d, e, f) ==
  d.entries[e].label # None /\ d.entries[f].label # None /\ d.entries[e].label # d.entries[f].label
ValidLineage(d) ==
  /\ Groups(d) = DOMAIN d.split.assignments
  /\ \A e, f \in Measured(d) :
       d.artifacts[d.entries[e].artifact].content = d.artifacts[d.entries[f].artifact].content =>
         Signature(d, e) = Signature(d, f) /\ ~LabelsDiffer(d, e, f)
Independence(d, group) ==
  LET reviews == {d.sources[s].review : s \in group}
      outcomes == {d.reviews[r].outcome : r \in reviews \ {None}} IN
  IF \E r \in reviews \ {None} : reviews = {r} /\ d.reviews[r].subjects = group
  THEN d.reviews[CHOOSE r \in reviews : TRUE].outcome
  ELSE IF "rejected" \in outcomes THEN "rejected" ELSE IF "uncertain" \in outcomes THEN "uncertain" ELSE "missing"

-----------------------------------------------------------------------------
(* What the artifacts hold.  A record has its windows, an analytical       *)
(* response its eligible features too; its identity is itself.             *)
BugIdentity(content) == content
Identity(content) == content.record
Bound(d, e, record) ==
  LET entry == d.entries[e] IN
  /\ DOMAIN entry.bindings = DOMAIN record.windows
  /\ \A i \in DOMAIN entry.bindings :
       LET b == entry.bindings[i]  w == record.windows[i]  s == d.sources[b.source] IN
       /\ b.id = w.id /\ w.phase = (IF b.window = "healthy" THEN "baseline" ELSE b.window)
       /\ s.run = w.run /\ s.content = w.content
Partition(record) ==
  LET w == record.windows[1] IN
  [kind |-> record.kind, provenance |-> w.provenance, context |-> w.context, probe |-> record.probe,
   settings |-> [i \in DOMAIN record.windows |-> record.windows[i].fps]]

BugConfirmed(d, entry) == entry.review # None
Confirmed(d, entry) == entry.review # None /\ d.reviews[entry.review].outcome = "confirmed"
(* The label and the phase that a scenario is evidence of. *)
Evidence(scenario) ==
  CASE scenario = "healthy" -> <<"healthy", "healthy">>
    [] scenario \in {"host_contention", "render_capture_slowdown"} -> <<scenario, "degraded">>
    [] OTHER -> None
OwnedBy(entry, w, x) ==
  /\ Evidence(x.scenario) # None /\ Evidence(x.scenario) = <<entry.label, entry.phase>>
  /\ w.workload = x.workload /\ (w.provenance = "synthetic") = (x.provenance = "synthetic")
  /\ w.producer \in {None, x.producer} /\ w.revision \in {None, x.producer} /\ w.fps \in {None, x.fps}
EffectShown(x) ==
  x.status = "completed" /\ x.effect = "verified" /\ x.cleanup \in {"restored", "not_required"} /\ x.adapter = "available"
PhaseComplete(entry, x) == entry.phase \in DOMAIN x.phases /\ x.phases[entry.phase] = "complete"
LabelReasons(d, entry, w, x) ==
  {r \in {"label_unverified"} : entry.basis \in {"unknown", "declared_only"} \/ ~Confirmed(d, entry)}
    \cup IF entry.basis # "controlled_effect" THEN {}
         ELSE {r \in {"effect_unverified"} : ~EffectShown(x)}
                \cup {r \in {"binding_unverified"} : ~Confirmed(d, entry) \/ w.producer = None \/ ~PhaseComplete(entry, x)}

Insufficient(record) ==
  record.features = 0 \/ record.features < Shared \/ 100 * record.features < Share * Features
EvidenceReasons(d, e, record) ==
  LET group == GroupOf(d, e)  w == record.windows[1]
      because(reason, holds) == {r \in {reason} : holds} IN
  UNION {because("engineering_only", d.split.assignments[group] = "engineering"),
         because("retrospective_split", d.split.mode = "retrospective"),
         because("split_unverified", d.split.mode # "retrospective"
                   /\ (d.split.freeze = None \/ d.reviews[d.split.freeze].outcome # "confirmed")),
         because("independence_unverified", Independence(d, group) # "confirmed"),
         because("synthetic_only", w.provenance = "synthetic"),
         because("confounded_response", record.kind = "response" /\ record.confounded),
         because("insufficient_response_features", record.kind = "response" /\ Insufficient(record)),
         because("baseline_invalid", record.kind # "response" /\ ~(w.valid /\ ~w.confounded /\ w.supported))}

-----------------------------------------------------------------------------
(* The report, of the contents the artifacts were found to have. *)
ContentOf(d, contents, e) == contents[d.entries[e].artifact]
Twins(d, contents, e) ==
  {f \in Measured(d) : /\ Identity(ContentOf(d, contents, f)) = Identity(ContentOf(d, contents, e))
                       /\ d.entries[f].kind = d.entries[e].kind}
Representative(d, contents, e) == CHOOSE f \in Twins(d, contents, e) : \A g \in Twins(d, contents, e) : f <= g
ExperimentOf(d, contents, entry) == IF entry.experiment = None THEN None ELSE contents[entry.experiment].record
Item(d, contents, e) ==
  LET entry == d.entries[e]  record == ContentOf(d, contents, e).record
      first == Representative(d, contents, e)
      reasons == EvidenceReasons(d, e, record)
                   \cup LabelReasons(d, entry, record.windows[1], ExperimentOf(d, contents, entry))
                   \cup {r \in {"duplicate_evidence"} : first # e} IN
  IF entry.kind = "missing"
  THEN [kind |-> "missing", group |-> None, role |-> None, partition |-> None, label |-> None, first |-> e,
        reasons |-> {"missing_measurements"}, features |-> None]
  ELSE [kind |-> entry.kind, group |-> GroupOf(d, e), role |-> d.split.assignments[GroupOf(d, e)],
        partition |-> Partition(record), label |-> entry.label, first |-> first, reasons |-> reasons,
        features |-> IF entry.kind = "response" THEN record.features ELSE None]
Agreed(d, contents) == \A e \in Measured(d) :
  LET entry == d.entries[e]  record == ContentOf(d, contents, e).record IN
  /\ Bound(d, e, record)
  /\ \A f \in Twins(d, contents, e) : ~LabelsDiffer(d, e, f)
  /\ entry.basis = "controlled_effect" => OwnedBy(entry, record.windows[1], ExperimentOf(d, contents, entry))

Eligible(item) == item.reasons = {}
Counts(items, groups) ==
  LET eligible == {e \in DOMAIN items : Eligible(items[e])} IN
  [retained |-> Cardinality(DOMAIN items), eligible |-> Cardinality(eligible), groups |-> Cardinality(groups),
   eligible_groups |-> Cardinality({items[e].group : e \in eligible})]
Roles == {"engineering", "training", "validation", "final_test"}
OfRole(items, role) == [e \in {x \in DOMAIN items : items[x].role = role} |-> items[e]]
OfPartition(items, p) == [e \in {x \in DOMAIN items : items[x].partition = p} |-> items[e]]
Report(d, contents) ==
  LET items == [e \in Entries(d) |-> Item(d, contents, e)]
      groups == [g \in Groups(d) |-> [role |-> d.split.assignments[g], independence |-> Independence(d, g)]]
      partitions == {items[e].partition : e \in Measured(d)} IN
  [mode |-> d.split.mode, entries |-> items, groups |-> groups,
   partitions |-> [p \in partitions |-> Counts(OfPartition(items, p), {})],
   counts |-> [r \in Roles |-> Counts(OfRole(items, r), {g \in DOMAIN groups : groups[g].role = r})],
   total |-> Counts(items, DOMAIN groups)]

(* What the report's validator refuses. *)
ValidItem(item) ==
  IF item.kind = "missing" THEN item.reasons = {"missing_measurements"}
  ELSE /\ "missing_measurements" \notin item.reasons
       /\ (item.kind = "response") = (item.features # None)
       /\ item.kind # "response" => /\ item.label \in {None, "healthy"}
                                    /\ item.reasons \cap {"confounded_response", "insufficient_response_features"} = {}
       /\ item.kind = "response" => /\ "baseline_invalid" \notin item.reasons
                                    /\ ("confounded_response" \in item.reasons => item.features = 0)
                                    /\ (item.features < LeastFeatures => "insufficient_response_features" \in item.reasons)
       /\ item.label = None => "label_unverified" \in item.reasons
       /\ (item.role = "engineering") = ("engineering_only" \in item.reasons)
ValidCounts(c) ==
  c.eligible_groups <= c.groups /\ c.eligible_groups <= c.eligible /\ c.groups <= c.retained
ValidReport(r) ==
  LET measured == {e \in DOMAIN r.entries : r.entries[e].kind # "missing"} IN
  /\ \A e \in DOMAIN r.entries : ValidItem(r.entries[e])
  /\ \A g, h \in DOMAIN r.groups : g # h => g \cap h = {}
  /\ {r.entries[e].group : e \in measured} = DOMAIN r.groups
  /\ \A e, f \in measured :
       "split_unverified" \in r.entries[e].reasons => "split_unverified" \in r.entries[f].reasons
  /\ \A e \in measured :
       LET item == r.entries[e]  first == r.entries[item.first] IN
       /\ item.role = r.groups[item.group].role
       /\ (r.mode = "retrospective") = ("retrospective_split" \in item.reasons)
       /\ r.mode = "retrospective" => "split_unverified" \notin item.reasons
       /\ (r.groups[item.group].independence # "confirmed") = ("independence_unverified" \in item.reasons)
       /\ first.first = item.first /\ item.first <= e
       /\ <<first.kind, first.group, first.partition, first.features>> = <<item.kind, item.group, item.partition, item.features>>
       /\ (item.first # e) = ("duplicate_evidence" \in item.reasons)
       /\ \A f \in measured : r.entries[f].first = item.first =>
            ~(item.label # None /\ r.entries[f].label # None /\ item.label # r.entries[f].label)
  /\ ValidCounts(r.total) /\ \A role \in Roles : ValidCounts(r.counts[role])
-----------------------------------------------------------------------------
(* A collection is what a curator brought: a dataset, its files, the split *)
(* identity expected of it, whether the report would go to the directory   *)
(* itself; and what the code cannot see: whether it contradicts itself,    *)
(* and the entries no honest reader would count.  A window carries its     *)
(* true cause.                                                             *)
CONSTANTS Collections, Altered

(* None is not a file, and a dataset declares finitely many entries and    *)
(* artifacts. *)
FinitelyDeclared ==
  /\ None # 0
  /\ \A c \in Collections : IsFiniteSet(Entries(c.dataset)) /\ IsFiniteSet(DOMAIN c.dataset.artifacts)
ASSUME CollectionsAssumption == FinitelyDeclared

VARIABLES collection, directory, names, dataset, contents, stage, report, edited
inspectionVars == <<collection, directory, names, dataset, contents, stage, report, edited>>

Files(d) == {0} \cup DOMAIN d.artifacts
InspectionInit ==
  /\ collection \in Collections
  /\ directory = [k \in Files(collection.dataset) |-> IF k = 0 THEN collection.dataset ELSE collection.files[k]]
  /\ names = {} /\ dataset = None /\ contents = <<>> /\ report = None
  /\ stage = "called" /\ edited = None

(* The report may not go where the input is; then the names are listed. *)
List ==
  /\ stage = "called"
  /\ IF collection.inside THEN stage' = "refused" /\ UNCHANGED names
     ELSE names' = DOMAIN directory /\ stage' = "listed"
  /\ UNCHANGED <<collection, directory, dataset, contents, report, edited>>

Admitted(d) ==
  /\ ValidDataset(d) /\ names = Files(d)
  /\ collection.expected \in {None, SplitId(d)} /\ ValidLineage(d)
ReadManifest ==
  /\ stage = "listed"
  /\ IF 0 \in names \cap DOMAIN directory /\ Admitted(directory[0])
     THEN dataset' = directory[0] /\ stage' = "reading"
     ELSE stage' = "refused" /\ UNCHANGED dataset
  /\ UNCHANGED <<collection, directory, names, contents, report, edited>>

(* The artifacts are read in their order, each compared with its receipt. *)
ReadArtifact ==
  LET k == Len(contents) + 1 IN
  /\ stage = "reading" /\ k \in DOMAIN dataset.artifacts
  /\ IF k \in DOMAIN directory /\ directory[k] = dataset.artifacts[k].content
     THEN contents' = Append(contents, directory[k]) /\ UNCHANGED stage
     ELSE stage' = "refused" /\ UNCHANGED contents
  /\ UNCHANGED <<collection, directory, names, dataset, report, edited>>

Finish ==
  /\ stage = "reading" /\ DOMAIN contents = DOMAIN dataset.artifacts
  /\ IF Agreed(dataset, contents) /\ ValidReport(Report(dataset, contents)) /\ DOMAIN directory = names
     THEN report' = Report(dataset, contents) /\ stage' = "published"
     ELSE stage' = "refused" /\ UNCHANGED report
  /\ UNCHANGED <<collection, directory, names, dataset, contents, edited>>

-----------------------------------------------------------------------------
(* Others replace, remove or add one file. *)
Unfinished == stage \in {"called", "listed", "reading"} /\ edited = None
Replace(k) ==
  /\ Unfinished /\ k \in DOMAIN directory \ {0}
  /\ directory' = [directory EXCEPT ![k] = Altered] /\ edited' = k
  /\ UNCHANGED <<collection, names, dataset, contents, stage, report>>
Discard(k) ==
  /\ Unfinished /\ k \in DOMAIN directory
  /\ directory' = [n \in DOMAIN directory \ {k} |-> directory[n]] /\ edited' = k
  /\ UNCHANGED <<collection, names, dataset, contents, stage, report>>
Add ==
  LET k == Cardinality(DOMAIN directory) IN
  /\ Unfinished
  /\ directory' = [n \in DOMAIN directory \cup {k} |-> IF n = k THEN Altered ELSE directory[n]] /\ edited' = k
  /\ UNCHANGED <<collection, names, dataset, contents, stage, report>>
Edit == Add \/ \E k \in DOMAIN directory : Replace(k) \/ Discard(k)
Concluded == stage \in {"refused", "published"} /\ UNCHANGED inspectionVars
InspectionNext == List \/ ReadManifest \/ ReadArtifact \/ Finish \/ Edit \/ Concluded
InspectionSpec == InspectionInit /\ [][InspectionNext]_inspectionVars

-----------------------------------------------------------------------------
Published == report # None
Measures(e) == {f \in Measured(dataset) : /\ contents[dataset.entries[f].artifact].record = contents[dataset.entries[e].artifact].record
                                          /\ dataset.entries[f].kind = dataset.entries[e].kind}

(* An entry counts exactly when an honest reader would count it: what is   *)
(* called its cause was its cause, a controlled experiment really had its  *)
(* effect, its label, its independence and the split were found right, and *)
(* it was measured live, unconfounded and on enough features.              *)
EligibleEarned == Published => \A e \in Measured(dataset) :
  LET item == report.entries[e]  record == contents[dataset.entries[e].artifact].record IN
  /\ Eligible(item) => item.label = record.windows[1].cause /\ record.windows[1].provenance = "live"
  /\ Eligible(item) = (e \notin collection.weak /\ \A f \in Measures(e) : e <= f)

(* A measurement counts once.  Its copies, in other files and of sources   *)
(* under other names, are put in the same source group, split role and     *)
(* partition, and no partition has more independent groups than it has     *)
(* different measurements.                                                 *)
CountedOnce == Published =>
  /\ \A e \in Measured(dataset) :
       LET shown(f) == <<report.entries[f].group, report.entries[f].role, report.entries[f].partition>> IN
       /\ \A f \in Measures(e) : shown(f) = shown(e)
       /\ Cardinality({f \in Measures(e) : Eligible(report.entries[f])}) <= 1
  /\ \A p \in DOMAIN report.partitions :
       report.partitions[p].eligible_groups
         <= Cardinality({Measures(e) : e \in {f \in Measured(dataset) : report.entries[f].partition = p}})

(* Evidence that contradicts itself is refused, derivations that loop and  *)
(* sources nothing leads to included; everything else is reported, however *)
(* weak it is, unless others changed a file.                               *)
RefusedWhenContradictory ==
  /\ Published => ~collection.contradictory /\ contents = collection.files
  /\ stage = "refused" => collection.contradictory \/ edited # None
=============================================================================
