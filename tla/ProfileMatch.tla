---------------------------- MODULE ProfileMatch ----------------------------
(***************************************************************************)
(* How a query is scored by fitted profiles and how a role, or every       *)
(* training group left out in turn, is evaluated (profile_matching/        *)
(* scoring.py, evaluation.py).  Distances are exact fractions; the code    *)
(* rounds each deviation, ratio and mean once to binary64.                 *)
(***************************************************************************)
EXTENDS ProfileFit

Fold == "leave_training_group_out"
Modes == {"validation", "final_test", Fold}

(* The entries a mode evaluates, and the roles it lets a query have.       *)
Inventory(r, mode) ==
  {e \in DOMAIN r : r[e].role = IF mode = Fold THEN "training" ELSE mode}

QueryRoles(mode) == IF mode = Fold THEN {"training"} ELSE {"validation", "final_test"}

(* query_reasons finds none.  A definition whose name starts with Bug is   *)
(* what a slip would make of the one after it.                             *)
BugAvailable(r, e, mode) ==
  /\ r[e].kind = "response" /\ r[e].role \in QueryRoles(mode)
  /\ r[e].eligible /\ r[e].first = e
  /\ \A x \in DOMAIN r : r[x].group = r[e].group => r[x].label = r[e].label
Available(r, e, mode) ==
  /\ r[e].kind = "response"
  /\ r[e].role \in QueryRoles(mode)
  /\ r[e].eligible
  /\ r[e].first = e

(* _query: values are taken of what may be scored only.                    *)
QueryValues(r, e, mode, state) ==
  IF state = "provisional" /\ Available(r, e, mode) THEN r[e].values ELSE Null

(* Evidence.footprint *)
Footprint(r, groups) ==
  UNION {r[e].receipts : e \in {x \in DOMAIN r : r[x].group \in groups}}

Overlapping(r, e, profile) ==
  \/ r[e].group \in profile.groups
  \/ Footprint(r, {r[e].group} \ {Null}) \cap Footprint(r, profile.groups) # {}

Prequalified(r, e, profiles) ==
  {key \in DOMAIN profiles : /\ key[1] = r[e].partition
                             /\ profiles[key].provisional
                             /\ ~Overlapping(r, e, profiles[key])}

(* Features the query has and every prequalified profile supports.         *)
Common(r, e, profiles, keys) ==
  {f \in Measured(r, e) : \A key \in keys : profiles[key].features[f].supported}

-----------------------------------------------------------------------------
Sum(x, y) ==
  IF x[2] = y[2] THEN <<x[1] + y[1], x[2]>>
  ELSE <<x[1] * y[2] + y[1] * x[2], x[2] * y[2]>>

(* The mean over the common features of their standardized deviations.     *)
Term(x, s) == <<Deviation(x, s.center), s.dispersion>>

Total(terms) ==
  LET total[S \in SUBSET DOMAIN terms] ==
        IF S = {} THEN <<0, 1>>
        ELSE LET f == CHOOSE x \in S : TRUE IN Sum(terms[f], total[S \ {f}])
  IN total[DOMAIN terms]

Distance(values, profile, common) ==
  LET total == Total([f \in common |-> Term(values[f], profile.features[f])])
  IN <<total[1], total[2] * Cardinality(common)>>

Closer(x, y) == x[1] * y[2] <= y[1] * x[2]
TooFar(x) == x[1] > 3 * x[2]
TooClose(best, next) == 4 * (next[1] * best[2] - best[1] * next[2]) < best[2] * next[2]

Nearest(distances, keys) ==
  CHOOSE key \in keys : \A other \in keys : Closer(distances[key], distances[other])

Unknown(reasons) ==
  [label |-> Null, reasons |-> reasons, distances |-> <<>>, common |-> {}]

(* The last stage of reconstruct_decision: what the distances decide.      *)
Ranking(distances, common) ==
  LET keys == DOMAIN distances
      best == Nearest(distances, keys)
      rest == keys \ {best}
      reasons ==
        {why \in {"no_competing_label", "distance_exceeded", "ambiguous_labels"} :
           CASE why = "no_competing_label" -> rest = {}
             [] why = "distance_exceeded" -> TooFar(distances[best])
             [] OTHER -> rest # {} /\ TooClose(distances[best],
                                               distances[Nearest(distances, rest)])}
  IN [label |-> IF reasons = {} THEN best[2] ELSE Null, reasons |-> reasons,
      distances |-> distances, common |-> common]

(* reconstruct_decision, of a query of a snapshot in this state.           *)
Decision(r, e, mode, state, profiles) ==
  LET keys == Prequalified(r, e, profiles)
      common == Common(r, e, profiles, keys)
      reasons == (IF state = "provisional" THEN {} ELSE {"snapshot_unavailable"})
                   \cup (IF Available(r, e, mode) THEN {} ELSE {"query_unavailable"})
  IN IF reasons # {} THEN Unknown(reasons)
     ELSE IF keys = {} THEN Unknown({"no_compatible_profiles"})
     ELSE IF ~FullCoverage(Cardinality(common)) THEN Unknown({"insufficient_common_features"})
     ELSE LET values == QueryValues(r, e, mode, state)
          IN Ranking([key \in keys |-> Distance(values, profiles[key], common)], common)

-----------------------------------------------------------------------------
(* refit_profiles: the profiles without one whole group.                   *)
Refits(r, g, state) ==
  /\ state = "provisional"
  /\ \E e \in DOMAIN r : /\ r[e].group = g /\ r[e].kind = "response"
                         /\ r[e].eligible /\ r[e].first = e
BugRefit(r, g) == Fit(r, Selected(r))
Refit(r, g) == Fit(r, {e \in Selected(r) : r[e].group # g})

ResponseGroups(r, mode) ==
  {r[e].group : e \in {x \in Inventory(r, mode) : r[x].kind = "response"}}

(* The profiles an entry is scored with: its group's refit, if there is one.*)
ProfilesFor(r, e, mode, state, profiles) ==
  IF /\ mode = Fold
     /\ r[e].group \in ResponseGroups(r, mode)
     /\ Refits(r, r[e].group, state)
  THEN Refit(r, r[e].group) ELSE profiles

Decisions(r, mode, state, profiles) ==
  [e \in Inventory(r, mode) |->
     Decision(r, e, mode, state, ProfilesFor(r, e, mode, state, profiles))]

(* summarize: a group's truth and prediction, from its representatives.    *)
Outcome(r, mode, decisions, g) ==
  LET reps == {e \in Inventory(r, mode) : /\ r[e].group = g /\ r[e].kind = "response"
                                          /\ r[e].first = e}
      labels == {r[e].label : e \in reps}
      votes == {decisions[e].label : e \in reps}
  IN [reps |-> reps,
      truth |-> IF /\ \A e \in reps : r[e].label # Null /\ r[e].confirmed
                   /\ Cardinality(labels) = 1
                THEN CHOOSE l \in labels : TRUE ELSE Null,
      predicted |-> IF Null \notin votes /\ Cardinality(votes) = 1
                    THEN CHOOSE l \in votes : TRUE ELSE Null]

Outcomes(r, mode, decisions) ==
  [g \in ResponseGroups(r, mode) |-> Outcome(r, mode, decisions, g)]

(* What summarize counts: entries of the role and of the report, and groups*)
(* whose truth is known, that were given a label, and the right one.       *)
Totals(r, mode, outcomes) ==
  LET groups == DOMAIN outcomes
      entries == Inventory(r, mode)
      known == {g \in groups : outcomes[g].truth # Null}
      labelled == {g \in groups : outcomes[g].predicted # Null}
      correct == {g \in known : outcomes[g].predicted = outcomes[g].truth}
  IN [retained |-> Len(r), evaluated |-> Cardinality(entries),
      duplicates |-> Cardinality({e \in entries : r[e].first # e}),
      excluded |-> Cardinality({e \in entries : ~r[e].eligible}),
      known |-> Cardinality(known),
      unknown |-> Cardinality(groups \ labelled),
      correct |-> Cardinality(correct),
      incorrect |-> Cardinality((known \cap labelled) \ correct)]
=============================================================================
