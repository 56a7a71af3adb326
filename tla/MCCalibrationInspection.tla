------------------------ MODULE MCCalibrationInspection ------------------------
(***************************************************************************)
(* Three sources.  Entry 1 is a response of source 1 behind experiment 3,  *)
(* entry 2 a healthy window of source 2, entry 3 the response of entry 1   *)
(* in another file, of the same recording imported under other names as    *)
(* source 3, and the last entry is missing.  Every set of derivations of   *)
(* the three sources is tried with all, two or one of the measured entries *)
(* bound to theirs, and with all of them one weakness or contradiction at  *)
(* a time.  Pools of four healthy windows, three of them in training, are  *)
(* for the baseline, each again with one thing about it changed.           *)
(***************************************************************************)
EXTENDS PassiveBaseline

Window(id, phase, run, content, cause) ==
  [id |-> id, phase |-> phase, run |-> run, content |-> content, cause |-> cause, provenance |-> "live",
   context |-> "c", workload |-> "w", producer |-> "p", revision |-> "p", fps |-> 30,
   valid |-> TRUE, confounded |-> FALSE, supported |-> TRUE, start |-> 0, end |-> 2, whole |-> TRUE,
   format |-> "f", metric |-> [supported |-> TRUE, complete |-> TRUE, value |-> 40, rejected |-> FALSE, usable |-> 2]]
Response == [kind |-> "response", probe |-> "fps", features |-> 17, confounded |-> FALSE,
             windows |-> <<Window("v", "degraded", "r", "k", "host_contention"),
                           Window("x", "relief", "r", "k", "host_contention")>>]
Healthy == [kind |-> "healthy_window", probe |-> None, windows |-> <<Window("h", "baseline", "q", "m", "healthy")>>]
Experiment == [scenario |-> "host_contention", workload |-> "w", provenance |-> "live", producer |-> "p", fps |-> 30,
               status |-> "completed", effect |-> "verified", cleanup |-> "restored", adapter |-> "available",
               phases |-> [degraded |-> "complete"]]
File(bytes, record) == [bytes |-> bytes, record |-> record]
MCAltered == File(9, Response)
MCDurations == 1..10

Source(namespace, run, content, session, review) ==
  [namespace |-> namespace, run |-> run, content |-> content, session |-> session, group |-> session, review |-> review]
Entry(kind, artifact, bindings, label, basis, review, experiment, phase) ==
  [kind |-> kind, artifact |-> artifact, bindings |-> bindings, label |-> label, basis |-> basis,
   review |-> review, experiment |-> experiment, phase |-> phase]
OfPair(s) == <<[window |-> "degraded", id |-> "v", source |-> s], [window |-> "relief", id |-> "x", source |-> s]>>
(* The files are the response, the window, the experiment and the copy.    *)
Measured4 == <<File(1, Response), File(1, Healthy), File(1, Experiment), File(2, Response)>>
KindOf(record) ==
  IF "scenario" \in DOMAIN record THEN "experiment_bundle"
  ELSE IF record.kind = "response" THEN "analytical_response" ELSE "observation_window"
Receipts(files) == [k \in DOMAIN files |-> [kind |-> KindOf(files[k].record), content |-> files[k]]]

(* The curator gives every group a role and has each reviewed; the last    *)
(* entry is missing, so reviews before its number are of labels, that one  *)
(* of the split, the later ones of the groups. *)
CuratedAs(d, training) ==
  LET groups == SetToSeq(Groups(d))
      last == Len(d.entries)
      split == [mode |-> "prospective", assignments |-> [g \in Groups(d) |->
                  IF g \cap training # {} THEN "training" ELSE "validation"]]
      review(kind, subjects) == [kind |-> kind, subjects |-> subjects, outcome |-> "confirmed"] IN
  [d EXCEPT
     !.split = [mode |-> split.mode, assignments |-> split.assignments, freeze |-> last],
     !.reviews = [r \in Measured(d) \cup (last..last + Len(groups)) |->
                    IF r < last THEN review("label_binding", {r})
                    ELSE IF r = last THEN review("split_freeze", {<<split.mode, split.assignments>>})
                    ELSE review("independence", groups[r - last])],
     !.sources = [s \in DOMAIN d.sources |->
                    [d.sources[s] EXCEPT !.review = last + (CHOOSE i \in DOMAIN groups : s \in groups[i])]]]
Curated(d) == CuratedAs(d, {1})
Missing == Entry("missing", None, <<>>, None, "unknown", None, None, None)
Built(bound, derivations) ==
  LET all == <<Entry("response", 1, OfPair(1), "host_contention", "controlled_effect", 1, 3, "degraded"),
               Entry("healthy_window", 2, <<[window |-> "healthy", id |-> "h", source |-> 2]>>, "healthy",
                     "external_confirmation", 2, None, None),
               Entry("response", 4, OfPair(3), "host_contention", "controlled_effect", 3, 3, "degraded")>>
      files == IF bound = 3 THEN Measured4 ELSE SubSeq(Measured4, 1, 3) IN
  [artifacts |-> Receipts(IF bound = 1 THEN <<Measured4[1], Measured4[3]>> ELSE files),
   sources |-> <<Source("n", "r", "k", "s1", None), Source("n", "q", "m", "s2", None),
                 Source("o", "r", "k", "s3", None)>>,
   entries |-> Append(IF bound = 1 THEN <<[all[1] EXCEPT !.experiment = 2]>> ELSE SubSeq(all, 1, bound), Missing),
   derivations |-> derivations, reviews |-> <<>>, split |-> None]
Collection(d, bad, weak) ==
  [dataset |-> d, files |-> [k \in DOMAIN d.artifacts |-> d.artifacts[k].content],
   contradictory |-> bad, weak |-> weak, expected |-> None, inside |-> FALSE, poor |-> {}, later |-> None]

(* A derivation loops when some sources all derive from one another; a     *)
(* source is out of reach when no chain leads to it from a bound one.      *)
Loops(edges) == \E S \in (SUBSET (1..3)) \ {{}} : \A s \in S : \E t \in S : <<s, t>> \in edges
OutOfReach(edges, bound) ==
  \E S \in (SUBSET (bound + 1..3)) \ {{}} : \A edge \in edges : (edge[1] \in S) = (edge[2] \in S)
Derivations == SUBSET {<<s, t>> \in (1..3) \X (1..3) : s # t}
Derived == {LET d == Curated(Built(bound, edges)) IN
            Collection(d, Loops(edges) \/ OutOfReach(edges, bound), {}) : bound \in 1..3, edges \in Derivations}

Base == Curated(Built(3, {}))
Holding(k, file) == [Base EXCEPT !.artifacts[k] = [@ EXCEPT !.content = file]]
(* Both files of the response changed alike. *)
Both(record) == [Base EXCEPT !.artifacts[1].content = File(1, record), !.artifacts[4].content = File(2, record)]
Ran(field, value) == Holding(3, File(1, [Experiment EXCEPT ![field] = value]))
Seen(field, value) == File(1, [Healthy EXCEPT !.windows[1] = [@ EXCEPT ![field] = value]])
Judged(r, outcome) == [Base EXCEPT !.reviews[r].outcome = outcome]
Of(s) == Base.sources[s].review
(* The cause was other than the labels say: the reviewers object. *)
Mistaken == [Judged(1, "rejected") EXCEPT !.reviews[3].outcome = "uncertain",
               !.artifacts[1].content = File(1, [Response EXCEPT !.windows[1].cause = "network"]),
               !.artifacts[4].content = File(2, [Response EXCEPT !.windows[1].cause = "network"])]
Labelled(e, label, basis) ==
  [Base EXCEPT !.entries[e] = [@ EXCEPT !.label = label, !.basis = basis, !.experiment = None, !.phase = None]]
Resplit(mode, roles, freeze) ==
  [Base EXCEPT !.split = [mode |-> mode, assignments |-> roles, freeze |-> freeze],
               !.reviews = [r \in {x \in DOMAIN Base.reviews : x # 4 \/ freeze # None} |->
                  IF r = 4 THEN [Base.reviews[4] EXCEPT !.subjects = {<<mode, roles>>}] ELSE Base.reviews[r]]]
Prospective(roles) == Resplit("prospective", roles, 4)
Assigned == Base.split.assignments
Engineering == [g \in DOMAIN Assigned |-> IF 1 \in g THEN "engineering" ELSE Assigned[g]]

Weak == {
  Collection(Mistaken, FALSE, {1, 3}),
  Collection(Labelled(1, "host_contention", "declared_only"), FALSE, {1}),
  Collection(Labelled(1, None, "unknown"), FALSE, {1}),
  Collection(Labelled(3, None, "unknown"), FALSE, {3}),
  Collection(Judged(2, "uncertain"), FALSE, {2}), Collection(Judged(4, "uncertain"), FALSE, {1, 2, 3}),
  Collection(Judged(Of(1), "rejected"), FALSE, {1, 3}), Collection(Judged(Of(2), "uncertain"), FALSE, {2}),
  Collection(Resplit("retrospective", Assigned, None), FALSE, {1, 2, 3}),
  Collection(Resplit("prospective", Assigned, None), FALSE, {1, 2, 3}),
  Collection(Prospective(Engineering), FALSE, {1, 3}),
  Collection(Ran("status", "interrupted"), FALSE, {1, 3}), Collection(Ran("effect", "contradicted"), FALSE, {1, 3}),
  Collection(Ran("cleanup", "failed"), FALSE, {1, 3}), Collection(Ran("cleanup", "not_required"), FALSE, {}),
  Collection(Ran("adapter", "unavailable"), FALSE, {1, 3}),
  Collection(Ran("phases", [degraded |-> "partial"]), FALSE, {1, 3}),
  Collection(Both([Response EXCEPT !.features = 16]), FALSE, {1, 3}),
  Collection(Both([Response EXCEPT !.features = 0, !.confounded = TRUE]), FALSE, {1, 3}),
  Collection(Both([Response EXCEPT !.windows[1].producer = None]), FALSE, {1, 3}),
  Collection(Both([Response EXCEPT !.windows[1].revision = None, !.windows[1].fps = None]), FALSE, {}),
  Collection(Holding(2, Seen("valid", FALSE)), FALSE, {2}), Collection(Holding(2, Seen("confounded", TRUE)), FALSE, {2}),
  Collection(Holding(2, Seen("supported", FALSE)), FALSE, {2}),
  Collection(Holding(2, Seen("provenance", "synthetic")), FALSE, {2})}
Contradictory == {
  Collection(d, TRUE, {}) : d \in {
    Ran("scenario", "healthy"), Ran("workload", "other"), Ran("producer", "other"), Ran("fps", 60),
    Ran("provenance", "synthetic"),
    Labelled(3, "healthy", "external_confirmation"),
    Holding(2, Seen("run", "other")), Holding(2, Seen("id", "other")), Holding(2, Seen("phase", "relief")),
    [Base EXCEPT !.artifacts[4].content = File(1, Response), !.entries[3].bindings[1].id = "y"],
    [Base EXCEPT !.sources[3].namespace = "n", !.sources[3].session = "s9"],
    [Base EXCEPT !.reviews[1].subjects = {2}], [Base EXCEPT !.entries[2].label = "host_contention"],
    [Base EXCEPT !.entries[2].experiment = 3], [Base EXCEPT !.entries[2].artifact = 4],
    [Base EXCEPT !.entries[2].review = None], Resplit("prospective", [g \in {Groups(Base)} |-> "training"], 4),
    [Prospective(Engineering) EXCEPT !.reviews[4].subjects = Base.reviews[4].subjects]}}
Frozen == {[Collection(Base, FALSE, {}) EXCEPT !.expected = SplitId(Base)],
           [Collection(Prospective(Engineering), TRUE, {}) EXCEPT !.expected = SplitId(Base)],
           [Collection(Base, TRUE, {}) EXCEPT !.inside = TRUE]}

-----------------------------------------------------------------------------
(* Pools: entry e is the window of source e, of run and content e. *)
Ids == <<"a", "b", "c", "d", "e">>
Shot(e, fps) ==
  [kind |-> Passive, probe |-> None,
   windows |-> <<[Window(Ids[e], "baseline", Ids[e], Ids[e], "healthy") EXCEPT !.metric.value = fps]>>]
Rates == <<40, 48, 64, 40>>
Pool == [e \in 1..4 |-> Shot(e, Rates[e])]
Own(e) == Source("n", Ids[e], Ids[e], Ids[e], None)
Seeing(e, s, label) ==
  Entry(Passive, e, <<[window |-> "healthy", id |-> Ids[s], source |-> s]>>, label,
        IF label = None THEN "unknown" ELSE "external_confirmation", e, None, None)
Pooled(records, entries, training) ==
  LET files == [e \in DOMAIN records |-> File(e, records[e])] IN
  CuratedAs([artifacts |-> Receipts(files), sources |-> [e \in 1..4 |-> Own(e)],
             entries |-> Append(entries, Missing), derivations |-> {}, reviews |-> <<>>, split |-> None], training)
Plain == [e \in 1..4 |-> Seeing(e, e, "healthy")]
OfPool(records) == Pooled(records, Plain, 1..3)
Tried(d, weak, poor) == [Collection(d, FALSE, weak) EXCEPT !.poor = poor]
Metric(e, field, value) == [Pool EXCEPT ![e].windows[1].metric[field] = value]
(* A fifth entry: of source 1, or of source 3, or a copy of window 1. *)
With(record, entry) == Pooled(Append(Pool, record), Append(Plain, entry), 1..3)
Other == [Response EXCEPT !.windows = [i \in 1..2 |->
            [Response.windows[i] EXCEPT !.run = "c", !.content = "c", !.cause = "network"]]]
Sharing == With(Other, [Entry("response", 5, OfPair(3), "network", "external_confirmation", 5, None, None)
                          EXCEPT !.bindings = [i \in 1..2 |-> [@[i] EXCEPT !.source = 3]]])
Again == With(Pool[1], Seeing(5, 1, "healthy"))
Second(fps) == [Shot(5, fps) EXCEPT !.windows[1].run = "a", !.windows[1].content = "a"]
Beside(label) == With(Second(80), [Seeing(5, 1, label) EXCEPT !.bindings[1].id = "e"])
Pools == {
  Tried(OfPool(Pool), {}, {}), Tried(OfPool(Metric(1, "supported", FALSE)), {}, {1}),
  Tried(OfPool(Metric(2, "complete", FALSE)), {}, {2}), Tried(OfPool(Metric(3, "value", None)), {}, {3}),
  Tried(OfPool(Metric(1, "rejected", TRUE)), {}, {1}), Tried(OfPool(Metric(4, "usable", 1)), {}, {4}),
  Tried(OfPool([Pool EXCEPT ![2].windows[1].end = 11]), {}, {2}),
  Tried(OfPool([Pool EXCEPT ![1].windows[1].context = "other"]), {}, {}),
  Tried(OfPool([Pool EXCEPT ![1].windows[1].format = "other", ![2].windows[1].format = "other"]), {}, {}),
  Tried(OfPool([Pool EXCEPT ![3].windows[1].whole = FALSE]), {}, {}),
  Tried(OfPool([Pool EXCEPT ![4].windows[1].whole = FALSE]), {}, {}),
  Tried(OfPool([e \in 1..4 |-> Shot(e, 0)]), {}, {}),
  Tried(OfPool([Pool EXCEPT ![3].windows[1].valid = FALSE]), {3}, {}),
  Tried(OfPool([Pool EXCEPT ![4].windows[1].provenance = "synthetic"]), {4}, {}),
  Tried(Pooled(Pool, [Plain EXCEPT ![2].label = None, ![2].basis = "unknown"], 1..3), {2}, {}),
  Tried(Pooled(Pool, [Plain EXCEPT ![4].label = None, ![4].basis = "unknown"], 1..3), {4}, {}),
  Tried(Pooled(Pool, Plain, 1..4), {}, {}), Tried(Pooled(Pool, Plain, {1}), {}, {}),
  Tried(Sharing, {}, {}), Tried(Again, {5}, {}), Tried(Beside("healthy"), {}, {}), Tried(Beside(None), {5}, {})}
Reissued == {[Tried(OfPool(Pool), {}, {}) EXCEPT !.later = c] : c \in {
  Tried(OfPool(Metric(2, "value", 60)), {}, {}), Tried(OfPool(Metric(4, "value", 60)), {}, {}),
  Tried([OfPool(Pool) EXCEPT !.reviews[4].outcome = "uncertain"], {4}, {}),
  Tried(Pooled(Pool, Plain, {1, 2, 4}), {}, {})}}
MCCollections == Derived \cup Weak \cup Contradictory \cup Frozen \cup Pools \cup Reissued
=============================================================================
