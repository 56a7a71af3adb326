--------------------------- MODULE AnalyticalRecord ----------------------------
(***************************************************************************)
(* From two measured windows to a decision: the windows and their pairing  *)
(* (models/observation_v2.py, v2_support.py, observation_pair_v2.py), the  *)
(* response of one to the other (analytical/responses.py), fingerprints,   *)
(* compatibility, distances and the decision (analytical/ and              *)
(* models/match_v2.py).                                                    *)
(* Values are integers in units of 1/Scale; a distance is rounded down to  *)
(* a unit.  The identity of a record is its content, a content hash too.   *)
(* Definitions whose name starts with Bug are what a slip would make of    *)
(* the one after them.                                                     *)
(***************************************************************************)
EXTENDS Integers, Sequences, FiniteSets, SequencesExt, SequenceParts

CONSTANTS
  Null,
  Scale,
  Metrics,     \* of each metric: source, whether a counter, the rows it is read from, whether audited only
  Policy,      \* approved: epsilon, coverage, samples, intervals; shared, share, strength, margin, residual, conflict, ranked
  Digest       \* the number of a fingerprint's content in the order of hashes, 0 of unknown content

ASSUME ScaleAssumption == Scale \in Nat \ {0}
ASSUME PolicyAssumption ==
  /\ IsFiniteSet(DOMAIN Metrics)
  /\ {Policy.epsilon, Policy.shared, Policy.margin} \subseteq Nat \ {0}
  /\ Policy.share \in Nat /\ Policy.coverage \in Nat
  /\ \A content \in DOMAIN Digest : Digest[content] \in Nat
ASSUME ReasonsAssumption ==
  Null \notin {"unsupported", "unavailable", "missing", "coverage", "samples", "intervals", "no_value",
              "confounded_pair", "no_eligible_features", "invalid_response", "no_fingerprints",
              "insufficient_features", "no_compatible_fingerprints", "weak_match",
              "ambiguous_margin", "conflicting_evidence"}

Features == {m \in DOMAIN Metrics : ~Metrics[m].audited}
Larger(a, b) == IF a >= b THEN a ELSE b
Abs(a) == Larger(a, -a)

-----------------------------------------------------------------------------
(* Windows. *)
SourceState(s) ==
  IF s.declared # Null THEN s.declared ELSE IF s.available > 0 THEN "supported" ELSE "unavailable"
ValidSource(s) == s.available <= s.rows /\ (SourceState(s) # "supported" => s.available = 0)
(* The worse of the two counts. *)
SupportOf(w, m) ==
  LET claims == {w.declared[m], SourceState(w.sources[Metrics[m].source])} IN
  CASE "unsupported" \in claims -> "unsupported"
    [] "unavailable" \in claims -> "unavailable"
    [] OTHER -> "supported"
NoEvidence(rows) == [status |-> "missing", value |-> Null, samples |-> rows, usable |-> 0, intervals |-> 0, coverage |-> 0]
EvidenceOf(x) == [status |-> x.status, usable |-> x.usable, intervals |-> x.intervals, coverage |-> x.coverage]

ValidMeasure(w, m) ==
  LET x == w.measures[m]  s == w.sources[Metrics[m].source] IN
  /\ x.samples = s.rows /\ x.usable <= s.available
  /\ SupportOf(w, m) # "supported" => x = NoEvidence(x.samples)
CountersAgree(w) == \A m, n \in DOMAIN Metrics :
  /\ Metrics[m].counter /\ Metrics[n].counter
  /\ Metrics[m].source = Metrics[n].source /\ Metrics[m].raw = Metrics[n].raw
  => EvidenceOf(w.measures[m]) = EvidenceOf(w.measures[n]) /\ w.declared[m] = w.declared[n]
ValidWindow(w) ==
  /\ (w.provenance = "synthetic") = (w.method = "synthetic_series")
  /\ w.from < w.to /\ DOMAIN w.settings # {}
  /\ DOMAIN w.measures = DOMAIN Metrics /\ \A s \in DOMAIN w.sources : ValidSource(w.sources[s])
  /\ \A m \in DOMAIN Metrics : ValidMeasure(w, m)
  /\ CountersAgree(w)

(* A capture becomes a window: what is not supported is masked before it is *)
(* summarised. *)
Adopted(capture) ==
  [capture EXCEPT !.measures = [m \in DOMAIN Metrics |->
     IF SupportOf(capture, m) = "supported" THEN capture.measures[m]
     ELSE NoEvidence(capture.measures[m].samples)]]

-----------------------------------------------------------------------------
(* Pairs. *)
SettingOf(w, s) == IF s \in DOMAIN w.settings THEN w.settings[s] ELSE Null
Changed(pair) ==
  {s \in DOMAIN pair.degraded.settings \cup DOMAIN pair.relief.settings :
     SettingOf(pair.degraded, s) # SettingOf(pair.relief, s)}
BugConfounded(pair) == pair.probe.confounders # {}
Confounded(pair) == pair.degraded.confounders \cup pair.relief.confounders \cup pair.probe.confounders # {}
Duration(w) == w.to - w.from
BugComparable(a, b) == 10 * Abs(Duration(a) - Duration(b)) < Larger(Duration(a), Duration(b))
Comparable(a, b) == 10 * Abs(Duration(a) - Duration(b)) <= Larger(Duration(a), Duration(b))
ValidProbe(p) ==
  /\ DOMAIN p.requested # {} /\ (p.observed # Null => DOMAIN p.observed # {})
  /\ IF p.method = "simulated_pair" THEN p.observed = Null /\ p.execution = "not_executed" /\ p.restoration = "not_executed"
     ELSE p.execution = "executed" /\ p.observed # Null
          /\ p.restoration \notin {"not_executed", "not_applicable"}
Applied(pair) ==
  /\ \A s \in DOMAIN pair.probe.requested :
       /\ SettingOf(pair.relief, s) = pair.probe.requested[s]
       /\ SettingOf(pair.degraded, s) # pair.probe.requested[s]
  /\ pair.probe.observed # Null =>
       \A s \in DOMAIN pair.probe.observed : SettingOf(pair.relief, s) = pair.probe.observed[s]
DeclaredChange(pair) == Changed(pair) \subseteq DOMAIN pair.probe.requested \/ Confounded(pair)
Paired(pair) ==
  LET d == pair.degraded  r == pair.relief IN
  /\ ValidWindow(d) /\ ValidWindow(r) /\ ValidProbe(pair.probe)
  /\ d.phase = "degraded" /\ r.phase = "relief" /\ d.id # r.id /\ d.case = r.case
  /\ pair.probe.pairs = <<d.id, r.id>>
  /\ \A f \in {"context", "registry", "method", "provenance", "clock"} : d[f] = r[f]
  /\ d.reasons = {} /\ r.reasons = {}
  /\ (pair.probe.method = "simulated_pair") = (d.provenance = "synthetic")
ValidPair(pair) ==
  Paired(pair) /\ Comparable(pair.degraded, pair.relief) /\ Applied(pair) /\ DeclaredChange(pair)

-----------------------------------------------------------------------------
(* Responses. *)
Exclusion(w, m) ==
  LET x == w.measures[m] IN
  CASE SupportOf(w, m) # "supported"       -> SupportOf(w, m)
    [] x.status # "complete"               -> x.status
    [] x.coverage < Policy.coverage        -> "coverage"
    [] x.usable < Policy.samples           -> "samples"
    [] x.intervals < Policy.intervals      -> "intervals"
    [] x.value = Null                      -> "no_value"
    [] OTHER                               -> Null
Exclusions(pair, m) ==
  IF Confounded(pair) THEN {<<"pair", "confounded">>}
  ELSE {<<w, Exclusion(pair[w], m)>> : w \in {v \in {"degraded", "relief"} : Exclusion(pair[v], m) # Null}}
(* Relief minus degraded, relative to degraded. *)
Normalized(pair, m) ==
  LET was == pair.degraded.measures[m].value  is == pair.relief.measures[m].value IN
  (Scale * (is - was)) \div Larger(was, Policy.epsilon)
FeatureOf(pair, m) ==
  LET codes == Exclusions(pair, m) IN
  [codes |-> codes, value |-> IF codes = {} THEN Normalized(pair, m) ELSE Null]
InvalidReason(pair) ==
  IF Confounded(pair) THEN "confounded_pair"
  ELSE IF \A m \in Features : Exclusions(pair, m) # {} THEN "no_eligible_features" ELSE Null
Response(pair) == [observation |-> pair, features |-> [m \in Features |-> FeatureOf(pair, m)], invalid |-> InvalidReason(pair)]
ValidResponse(r) ==
  /\ ValidPair(r.observation) /\ r.observation.degraded.registry = Policy.registry
  /\ r = Response(r.observation)
Vector(r) == LET able == {m \in Features : r.features[m].codes = {}} IN [m \in able |-> r.features[m].value]

-----------------------------------------------------------------------------
(* Fingerprints. *)
Enough(n) == n >= Policy.shared /\ 100 * n >= Policy.share * Cardinality(Features)
Fingerprint(r, label, status) ==
  [id |-> Digest[<<r.observation, label, status>>], response |-> r, label |-> label, status |-> status, vector |-> Vector(r)]
ContentOf(f) == <<f.response.observation, f.label, f.status>>
ValidFingerprint(f) ==
  /\ ValidResponse(f.response) /\ f.response.invalid = Null
  /\ f.vector = Vector(f.response)
  /\ f.status = "software_checked" => Enough(Cardinality(DOMAIN f.vector))
  /\ ContentOf(f) \in DOMAIN Digest /\ f.id = Digest[ContentOf(f)]

-----------------------------------------------------------------------------
(* Matching.  What a context is named, its node and its network are not    *)
(* compared. *)
Alike(context) == [f \in DOMAIN context \ {"name", "node", "network"} |-> context[f]]
Mismatches(query, f) ==
  LET a == query.observation  b == f.response.observation
      p == a.probe  q == b.probe
      same(field) == a.degraded[field] = b.degraded[field]
      checks == [validation_status |-> f.status = "software_checked", registry_mismatch |-> same("registry"),
                 provenance_mismatch |-> same("provenance"), capture_method_mismatch |-> same("method"),
                 clock_meaning_mismatch |-> same("clock"),
                 context_mismatch |-> Alike(a.degraded.context) = Alike(b.degraded.context),
                 probe_mismatch |-> <<p.method, p.requested>> = <<q.method, q.requested>>,
                 settings_mismatch |-> same("settings") /\ a.relief.settings = b.relief.settings] IN
  {code \in DOMAIN checks : ~checks[code]}
SharedOf(query, vector) == {m \in DOMAIN vector : query.features[m].codes = {}}
TooFew(query, vector) ==
  LET n == Cardinality(SharedOf(query, vector)) IN
  {c \in {"shared_feature_count"} : n < Policy.shared}
    \cup {c \in {"feature_coverage"} : 100 * n < Policy.share * Cardinality(Features)}
Rejections(query, f) ==
  IF query.invalid # Null THEN {"query_invalid"}
  ELSE IF Mismatches(query, f) # {} THEN Mismatches(query, f) ELSE TooFew(query, f.vector)

Root(n) == CHOOSE d \in 0..n : d * d <= n /\ n < (d + 1) * (d + 1)
Comparison(query, f) ==
  LET shared == SharedOf(query, f.vector)
      residual(m) == query.features[m].value - f.vector[m]
      square(m) == residual(m) * residual(m)
      conflicting == {m \in shared : Abs(residual(m)) > Policy.residual}
      total == SumOver([m \in shared |-> square(m)]) IN
  [id |-> f.id, label |-> f.label, vector |-> f.vector,
   distance |-> Root(total \div Cardinality(shared)),
   total |-> total, conflict |-> SumOver([m \in conflicting |-> square(m)])]

(* 1 / (1 + distance) of one candidate and of two, and the share of the    *)
(* conflict, compared without dividing. *)
Weak(c) == 100 * Scale < Policy.strength * (Scale + c.distance)
Close(best, next) ==
  100 * Scale * (next.distance - best.distance) < Policy.margin * (Scale + best.distance) * (Scale + next.distance)
Conflicting(c) == c.total > 0 /\ 100 * c.conflict >= Policy.conflict * c.total
Nearer(a, b) == a.distance < b.distance \/ (a.distance = b.distance /\ a.id < b.id)
Ranked(comparisons) ==
  [i \in 1..Cardinality(comparisons) |->
     CHOOSE c \in comparisons : Cardinality({d \in comparisons : Nearer(d, c)}) = i - 1]
UnknownReason(query, references, rejections, ranked) ==
  CASE query.invalid # Null -> "invalid_response"
    [] references = {} -> "no_fingerprints"
    [] DOMAIN ranked = {} -> IF \E i \in DOMAIN rejections : rejections[i] \subseteq {"shared_feature_count", "feature_coverage"}
                        THEN "insufficient_features" ELSE "no_compatible_fingerprints"
    [] 1 \in DOMAIN ranked /\ Weak(ranked[1]) -> "weak_match"
    [] 2 \in DOMAIN ranked /\ Close(ranked[1], ranked[2]) -> "ambiguous_margin"
    [] 1 \in DOMAIN ranked /\ Conflicting(ranked[1]) -> "conflicting_evidence"
    [] OTHER -> Null
Decision(query, references, rejections, comparisons) ==
  LET ranked == Ranked(comparisons)  reason == UnknownReason(query, references, rejections, ranked) IN
  [candidates |-> [i \in DOMAIN ranked \cap 1..Policy.ranked |-> <<ranked[i].id, ranked[i].label, ranked[i].distance>>],
   reason |-> reason, label |-> IF reason = Null THEN ranked[1].label ELSE Null]

(* Of valid fingerprints with different identities. *)
Match(query, fingerprints) ==
  LET out == {f \in fingerprints : Rejections(query, f) # {}}
      rejections == [i \in {f.id : f \in out} |-> Rejections(query, CHOOSE f \in out : f.id = i)]
      comparisons == {Comparison(query, f) : f \in fingerprints \ out}
      references == {f.id : f \in fingerprints} IN
  [query |-> query, references |-> references, rejections |-> rejections, comparisons |-> comparisons,
   decision |-> Decision(query, references, rejections, comparisons)]

(* What a result must be in itself: whatever is retained reconstructs. *)
Staged(result, codes) ==
  IF result.query.invalid # Null THEN codes = {"query_invalid"}
  ELSE codes # {} /\ ("query_invalid" \notin codes)
       /\ (codes \cap {"shared_feature_count", "feature_coverage"} # {}
             => codes \subseteq {"shared_feature_count", "feature_coverage"})
Recompared(query, c) == Comparison(query, [id |-> c.id, label |-> c.label, vector |-> c.vector])
ValidResult(result) ==
  LET ids == result.references  compared == {c.id : c \in result.comparisons} IN
  /\ ValidResponse(result.query)
  /\ DOMAIN result.rejections \cap compared = {} /\ DOMAIN result.rejections \cup compared = ids
  /\ \A i \in DOMAIN result.rejections : Staged(result, result.rejections[i])
  /\ result.query.invalid # Null => result.comparisons = {}
  /\ \A c \in result.comparisons : c = Recompared(result.query, c)
  /\ result.decision = Decision(result.query, result.references, result.rejections, result.comparisons)

BugReproduced(result, fingerprints) == Match(result.query, fingerprints).decision = result.decision
Reproduced(result, fingerprints) == Match(result.query, fingerprints) = result
=============================================================================
