---------------------------- MODULE ProfileStudy ----------------------------
(***************************************************************************)
(* A study: a calibration dataset that is revised from time to time, and   *)
(* the commands that create, build, review, match and evaluate profile     *)
(* snapshots of it (profiles/operations.py, profile_matching/operations.py)*)
(* in any order.  A snapshot is an immutable file named by its content:    *)
(* sealing the same content again gives the same snapshot.                 *)
(***************************************************************************)
EXTENDS ProfileMatch

CONSTANTS
  Reports,        \* what inspecting the dataset may give
  MaxSnapshots,   \* bound on the snapshots issued
  MaxRevisions    \* bound on the revisions of the dataset

ASSUME ReportsAssumption ==
  /\ \A r \in Reports : WellFormed(r)
  /\ Null \notin Reports
ASSUME BoundsAssumption == MaxSnapshots \in Nat /\ MaxRevisions \in Nat

VARIABLES
  report,      \* what inspecting the dataset gives now
  revisions,
  snapshots,   \* the snapshots issued, in order
  result       \* the last match or evaluation

vars == <<report, revisions, snapshots, result>>

Init ==
  /\ report \in Reports
  /\ revisions = 0
  /\ snapshots = <<>>
  /\ result = Null

(* Other people's work: one source group's records, labels, reviews or     *)
(* role change, and the dataset is declared anew.                          *)
Revise ==
  /\ revisions < MaxRevisions
  /\ revisions' = revisions + 1
  /\ \E r \in Reports \ {report} :
       /\ Len(r) = Len(report)
       /\ \E g \in Groups : \A e \in DOMAIN r : r[e] # report[e] => r[e].group = g
       /\ report' = r
  /\ UNCHANGED <<snapshots, result>>

-----------------------------------------------------------------------------
FitOf == [r \in Reports |-> Fit(r, Selected(r))]
Fitted == FitOf[report]
Supported(profiles) == \E key \in DOMAIN profiles : profiles[key].provisional

Allowed == [mark_stale |-> {"provisional", "rejected"},
            reject |-> {"created", "provisional", "stale"},
            supersede |-> {"provisional", "rejected", "stale"}]
Becomes == [mark_stale |-> "stale", reject |-> "rejected", supersede |-> "superseded"]

(* Lifecycle.shape and ProfileSnapshot.consistency: what a snapshot may    *)
(* say of its own revision, and that its statistics are those of its       *)
(* report.  Nothing can be told of the parent, which it only names.        *)
WellShaped(s) ==
  /\ s.operation = "create" => s.state = "created" /\ s.parent = 0
  /\ s.operation = "build" => s.state \in {"provisional", "rejected"}
  /\ s.operation \in DOMAIN Becomes => s.state = Becomes[s.operation] /\ s.parent # 0
  /\ (s.operation = "supersede") = (s.replacement # 0)
  /\ s.replacement # 0 => s.replacement # s.parent

Consistent(s) ==
  IF s.report = Null
  THEN s.profiles = <<>> /\ s.operation \in {"create", "reject"}
  ELSE /\ s.operation # "create"
       /\ s.profiles = FitOf[s.report]
       /\ s.operation = "build" => (s.state = "provisional") = Supported(s.profiles)

(* _seal.  Definitions whose name starts with Bug are what a slip would    *)
(* make of the one after them.                                             *)
Seal(s) ==
  /\ WellShaped(s) /\ Consistent(s)
  /\ snapshots' = IF \E n \in DOMAIN snapshots : snapshots[n] = s
                  THEN snapshots ELSE Append(snapshots, s)
  /\ Len(snapshots') <= MaxSnapshots
  /\ UNCHANGED <<report, revisions, result>>

Draft == [report |-> Null, profiles |-> <<>>, state |-> "created",
          operation |-> "create", parent |-> 0, replacement |-> 0]

CreateProfileSnapshot == Seal(Draft)

(* One policy is approved, so a draft's policy is always the same.         *)
BuildProfiles(parent) ==
  /\ parent # 0 => snapshots[parent].state # "superseded"
  /\ Seal([report |-> report, profiles |-> Fitted,
           state |-> IF Supported(Fitted) THEN "provisional" ELSE "rejected",
           operation |-> "build", parent |-> parent, replacement |-> 0])

BugReplaces(n, replacement) == replacement # n
Replaces(n, replacement) ==
  replacement # n /\ snapshots[replacement].state = "provisional"

TransitionProfileSnapshot(operation, n) ==
  /\ snapshots[n].state \in Allowed[operation]
  /\ snapshots[n].report # Null \/ operation = "reject"
  /\ \E replacement \in 0..Len(snapshots) :
       /\ IF operation = "supersede"
          THEN replacement # 0 /\ Replaces(n, replacement)
          ELSE replacement = 0
       /\ Seal([report |-> snapshots[n].report, profiles |-> snapshots[n].profiles,
                state |-> Becomes[operation], operation |-> operation,
                parent |-> n, replacement |-> replacement])

-----------------------------------------------------------------------------
(* _inspect: an unbuilt draft scores nothing; a built snapshot must be the *)
(* fit of what the dataset says now, whatever reviews it has had.          *)
Current(s) == s.report # Null => s.report = report /\ s.profiles = Fitted

(* Evidence.bindings: the snapshot is of the report, or of none.  That the *)
(* dataset and the report agree is what inspecting them gives.             *)
Linked(s) == s.report \in {Null, report}

Report(n, mode, decisions, outcomes, totals) ==
  /\ result' = [snapshot |-> n, mode |-> mode, report |-> report,
                decisions |-> decisions, outcomes |-> outcomes, totals |-> totals]
  /\ UNCHANGED <<report, revisions, snapshots>>

MatchProfiles(n, e) ==
  LET s == snapshots[n]
  IN /\ Current(s) /\ Linked(s)
     /\ Report(n, "match",
               [q \in {e} |-> Decision(report, e, "match", s.state, s.profiles)], <<>>, Null)

EvaluateProfiles(n, mode) ==
  LET s == snapshots[n]
      decisions == Decisions(report, mode, s.state, s.profiles)
      outcomes == Outcomes(report, mode, decisions)
  IN /\ Current(s) /\ Linked(s)
     /\ Report(n, mode, decisions, outcomes, Totals(report, mode, outcomes))

Next ==
  \/ Revise
  \/ CreateProfileSnapshot
  \/ \E parent \in 0..Len(snapshots) : BuildProfiles(parent)
  \/ \E n \in DOMAIN snapshots :
       \/ \E operation \in DOMAIN Allowed : TransitionProfileSnapshot(operation, n)
       \/ \E e \in DOMAIN report : MatchProfiles(n, e)
       \/ \E mode \in Modes : EvaluateProfiles(n, mode)

Spec == Init /\ [][Next]_vars

-----------------------------------------------------------------------------
States == {"created", "provisional", "rejected", "stale", "superseded"}
(* Every variable keeps its type, and a snapshot is issued once: sealing   *)
(* equal content again never makes another one, whose parents come before. *)
TypeOK ==
  /\ report \in Reports
  /\ revisions \in 0..MaxRevisions
  /\ Len(snapshots) <= MaxSnapshots
  /\ \A n \in DOMAIN snapshots :
       LET s == snapshots[n]
       IN /\ s.report \in Reports \cup {Null}
          /\ s.state \in States
          /\ s.operation \in DOMAIN Allowed \cup {"create", "build"}
          /\ s.parent \in 0..n - 1
          /\ s.replacement \in 0..n - 1
          /\ s.report = Null => DOMAIN s.profiles = {}
          /\ \A m \in 1..n - 1 : snapshots[m] # s
  /\ result # Null => result.snapshot \in DOMAIN snapshots /\ result.report \in Reports

(* Reviews change what may be done with evidence, never the evidence: a    *)
(* revision has its parent's report and profiles unless it was built, only *)
(* a build makes evidence usable, and nothing is done with a superseded    *)
(* snapshot, whose replacement was usable.                                 *)
ReviewsKeepEvidence ==
  \A n \in DOMAIN snapshots :
    LET s == snapshots[n]
        p == snapshots[s.parent]
        by == snapshots[s.replacement]
    IN /\ s.state = "provisional" => s.operation = "build"
       /\ s.operation \in DOMAIN Allowed =>
            s.parent # 0 /\ s.report = p.report /\ s.profiles = p.profiles
       /\ s.parent # 0 => p.state # "superseded"
       /\ s.state = "superseded" =>
            /\ s.replacement \notin {0, s.parent}
            /\ by.report # Null
            /\ \E key \in DOMAIN by.profiles : by.profiles[key].provisional

(* A label is only ever given by a usable snapshot that was built from the *)
(* very report the query was taken from: neither a revision of the dataset *)
(* nor a review in between goes unnoticed.                                 *)
ScoredByCurrentFit ==
  result # Null =>
    LET s == snapshots[result.snapshot]
    IN (\E e \in DOMAIN result.decisions : result.decisions[e].label # Null) =>
         s.state = "provisional" /\ s.operation = "build" /\ s.report = result.report

(* One source group cannot drag a profile: with three groups or more, the  *)
(* centre of a feature stays between the others' medians, however many     *)
(* windows the group has and whatever they say.                            *)
NoGroupDominates ==
  \A n \in DOMAIN snapshots : \A key \in DOMAIN snapshots[n].profiles, f \in Features :
    LET s == snapshots[n].profiles[key].features[f]
        groups == DOMAIN s.medians
    IN \A g \in groups :
         Cardinality(groups) >= 3 =>
           /\ \E h \in groups \ {g} : s.medians[h] <= s.center
           /\ \E h \in groups \ {g} : s.medians[h] >= s.center

(* An eligible training response, the only evidence that may count.        *)
Voter(r, e) == r[e].kind = "response" /\ r[e].role = "training" /\ r[e].eligible

SameVoters(r, q) ==
  /\ DOMAIN r = DOMAIN q
  /\ \A e \in DOMAIN r : \/ ~Voter(r, e) /\ ~Voter(q, e)
                         \/ Voter(r, e) /\ Voter(q, e) /\ r[e] = q[e]

(* Held-out entries, baselines, duplicates and excluded responses move no  *)
(* profile, whatever is done to their values, labels or roles: two reports *)
(* with the same voters have the same profiles, and a label only one of    *)
(* them declares has no profile fit to score.                              *)
OnlyVotesCount ==
  \A m, n \in DOMAIN snapshots :
    LET s == snapshots[m]
        t == snapshots[n]
    IN s.report # Null /\ t.report # Null /\ SameVoters(s.report, t.report) =>
         /\ \A key \in DOMAIN s.profiles \cap DOMAIN t.profiles :
              s.profiles[key] = t.profiles[key]
         /\ \A key \in DOMAIN s.profiles \ DOMAIN t.profiles :
              s.profiles[key].groups = {} /\ ~s.profiles[key].provisional

Relabelled(r, q, E) ==
  /\ DOMAIN r = DOMAIN q
  /\ \A e \in DOMAIN r : q[e] = IF e \in E THEN [r[e] EXCEPT !.label = q[e].label] ELSE r[e]

HeldOut(r) == {e \in DOMAIN r : r[e].role \in {"validation", "final_test"}}
EntriesOf(r, g) == {e \in DOMAIN r : r[e].group = g}
UsedState == snapshots[result.snapshot].state

(* Labels of held-out entries never enter a decision, and a group left out *)
(* in turn is judged as if nobody had ever seen its labels: an evaluation  *)
(* after relabelling decides on every relabelled entry as before.          *)
LabelBlindStep ==
  ( /\ result # Null /\ result' # Null
    /\ result.mode = result'.mode /\ UsedState = "provisional" /\ UsedState' = "provisional" ) =>
    LET r == result.report
        q == result'.report
    IN \A e \in DOMAIN result.decisions \cap DOMAIN result'.decisions :
         \/ Relabelled(r, q, HeldOut(r))
         \/ result.mode = Fold /\ Relabelled(r, q, EntriesOf(r, r[e].group))
         => result.decisions[e] = result'.decisions[e]
LabelBlind == [][LabelBlindStep]_vars

(* Every available query is scored by all usable profiles of its partition *)
(* and by none that its own group, or a record it shares, has a part in:   *)
(* the overlap check never has anything to exclude.                        *)
QueriesIndependent ==
  result # Null =>
    LET r == result.report
        s == snapshots[result.snapshot]
    IN \A e \in DOMAIN result.decisions :
         s.state = "provisional" /\ Available(r, e, result.mode) =>
           LET profiles == ProfilesFor(r, e, result.mode, s.state, s.profiles)
           IN \A key \in DOMAIN profiles :
                key[1] = r[e].partition /\ profiles[key].provisional =>
                  /\ r[e].group \notin profiles[key].groups
                  /\ \A x \in profiles[key].entries : r[x].receipts \cap r[e].receipts = {}
                  /\ key \in Prequalified(r, e, profiles)

(* A group is given a label only if every window of it that is not a copy  *)
(* was scored on features shared by at least two labels and came nearest   *)
(* to that one, within three dispersions and a quarter ahead of any other; *)
(* and the accuracy told counts a group as right only if all those windows *)
(* are confirmed to be of that label, and no group or copy twice.          *)
PredictionsEarned ==
  result # Null =>
  /\ LET o == result.outcomes
         Is(e, g) == result.report[e].confirmed /\ result.report[e].label = o[g].predicted
     IN result.totals # Null =>
          /\ result.totals.correct
               = Cardinality({g \in DOMAIN o : o[g].predicted # Null /\ \A e \in o[g].reps : Is(e, g)})
          /\ result.totals.evaluated
               = Cardinality(UNION {o[g].reps : g \in DOMAIN o}) + result.totals.duplicates
                 + Cardinality({e \in DOMAIN result.decisions :
                                  result.report[e].kind # "response" /\ result.report[e].first = e})
  /\ \A g \in DOMAIN result.outcomes :
      LET o == result.outcomes[g]
      IN /\ o.reps # {}
         /\ o.predicted # Null =>
              \A e \in o.reps :
                LET d == result.decisions[e].distances
                    Labelled(key) == key[2] = o.predicted
                IN \E key \in DOMAIN d :
                     /\ Labelled(key) /\ ~TooFar(d[key])
                     /\ DOMAIN d # {key}
                     /\ \A other \in DOMAIN d \ {key} :
                          /\ ~Labelled(other)
                          /\ Closer(Sum(d[key], <<1, 4>>), d[other])

(* Whatever an evaluation reports was earned: by profiles no single group  *)
(* dominates, of the current dataset, on queries independent of them, and  *)
(* by every window of the group it names.                                  *)
ScoresEarned == NoGroupDominates /\ ScoredByCurrentFit /\ QueriesIndependent /\ PredictionsEarned
=============================================================================
