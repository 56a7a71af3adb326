----------------------------- MODULE ProfileFit -----------------------------
(***************************************************************************)
(* How profiles are fitted (profiles/selection.py, reconstruction.py,      *)
(* arithmetic.py) from the report that inspecting a calibration dataset    *)
(* gives: which entries have a vote, one median per source group, the      *)
(* centre and the dispersion of every feature, and whether they suffice.   *)
(* A report is the sequence of its entries, each with the feature values   *)
(* of its record.  Values are multiples of 8, which keeps medians of       *)
(* medians of deviations exact; the code rounds each once to binary64.     *)
(***************************************************************************)
EXTENDS Integers, FiniteSets, Sequences

CONSTANTS
  Features,      \* the names of the 22 metrics
  Labels, Partitions, Groups,
  Receipts,      \* source names, source contents and artifact hashes
  Null,
  MinGroups,     \* 5  groups a feature and a profile need
  MinFeatures    \* 17 features a profile and a response need

Kinds == {"response", "healthy_window", "missing"}
Roles == {"training", "validation", "final_test", "engineering"}

Entry == [kind : Kinds, group : Groups \cup {Null}, role : Roles \cup {Null},
          partition : Partitions \cup {Null}, label : Labels \cup {Null},
          eligible : BOOLEAN,
          confirmed : BOOLEAN,     \* label, effect and binding are verified
          first : Nat,             \* the representative entry
          receipts : SUBSET Receipts,
          values : [Features -> Nat \cup {Null}]]

ASSUME FitAssumption ==
  /\ IsFiniteSet(Features)
  /\ MinGroups \in Nat \ {0} /\ MinFeatures \in Nat \ {0}
  /\ Null \notin Labels \cup Partitions \cup Groups \cup Nat

Measured(r, e) == {f \in Features : r[e].values[f] # Null}
FullCoverage(n) == n >= MinFeatures /\ 4 * n >= 3 * Cardinality(Features)

(* What the report's validator, and the lineage before it, have checked.   *)
WellFormed(r) ==
  /\ r \in Seq(Entry)
  /\ \A e \in DOMAIN r :
       LET x == r[e]
       IN /\ x.kind = "missing" => /\ x.group = Null /\ x.role = Null
                                   /\ x.label = Null /\ ~x.eligible /\ x.first = e
          /\ x.kind # "missing" => x.group # Null /\ x.role # Null /\ x.partition # Null
          /\ x.eligible => /\ x.confirmed /\ x.label # Null /\ x.first = e
                           /\ x.role # "engineering"
          /\ x.eligible /\ x.kind = "response" => FullCoverage(Cardinality(Measured(r, e)))
          /\ \A g \in DOMAIN r :
               /\ x.group # Null /\ r[g].group = x.group => r[g].role = x.role
               /\ r[g].group # x.group => r[g].receipts \cap x.receipts = {}
               /\ x.first = r[g].first /\ x.label # Null /\ r[g].label # Null =>
                    x.label = r[g].label
          /\ \A f \in Measured(r, e) : x.values[f] % 8 = 0
          /\ x.first \in 1..e
          /\ LET y == r[x.first]
             IN /\ y.first = x.first /\ y.kind = x.kind /\ y.group = x.group
                /\ y.partition = x.partition /\ y.values = x.values

-----------------------------------------------------------------------------
(* selection_reasons.  A definition whose name starts with Bug is what a   *)
(* slip would make of the one after it.                                    *)
BugVotes(r) ==
  {e \in DOMAIN r : /\ r[e].kind = "response" /\ r[e].role = "training"
                    /\ r[e].label # Null /\ r[e].first = e}
Votes(r) ==
  {e \in DOMAIN r : /\ r[e].kind = "response" /\ r[e].role = "training"
                    /\ r[e].eligible /\ r[e].label # Null /\ r[e].first = e}

Mixed(r, e) ==
  \E v, w \in Votes(r) :
    /\ r[v].label # r[w].label
    /\ \A x \in {v, w} : r[x].partition = r[e].partition /\ r[x].group = r[e].group

Selected(r) == {e \in Votes(r) : ~Mixed(r, e)}

-----------------------------------------------------------------------------
(* The k-th smallest of the values of a function with a finite domain.     *)
Ranked(f, k) ==
  CHOOSE v \in {f[x] : x \in DOMAIN f} :
    /\ Cardinality({x \in DOMAIN f : f[x] < v}) < k
    /\ Cardinality({x \in DOMAIN f : f[x] <= v}) >= k

Median(f) ==
  LET n == Cardinality(DOMAIN f)
  IN (Ranked(f, (n + 1) \div 2) + Ranked(f, (n + 2) \div 2)) \div 2

Deviation(x, center) == IF x >= center THEN x - center ELSE center - x

(* feature_statistics over one median per group that has the feature.      *)
Statistics(medians, groups) ==
  LET n == Cardinality(DOMAIN medians)
      center == IF n = 0 THEN Null ELSE Median(medians)
      dispersion == IF n = 0 THEN Null
                    ELSE Median([g \in DOMAIN medians |-> Deviation(medians[g], center)])
  IN [medians |-> medians, center |-> center, dispersion |-> dispersion,
      supported |-> /\ n >= MinGroups
                    /\ 5 * n >= 4 * groups
                    /\ dispersion # 0]

Key(r, e) == <<r[e].partition, r[e].label>>

(* Every label a training response declares, eligible or not.              *)
Keys(r) ==
  {Key(r, e) : e \in {x \in DOMAIN r : /\ r[x].kind = "response"
                                       /\ r[x].role = "training" /\ r[x].label # Null}}

Members(r, selected, key) == {e \in selected : Key(r, e) = key}
GroupsOf(r, members) == {r[e].group : e \in members}
Observed(r, members, g, f) ==
  {e \in members : r[e].group = g /\ r[e].values[f] # Null}

(* One vote per group and feature: the median of the group's windows.      *)
GroupMedians(r, members, f) ==
  [g \in {h \in GroupsOf(r, members) : Observed(r, members, h, f) # {}} |->
     Median([e \in Observed(r, members, g, f) |-> r[e].values[f]])]

Profile(r, selected, key) ==
  LET members == Members(r, selected, key)
      groups == GroupsOf(r, members)
      features == [f \in Features |->
                     Statistics(GroupMedians(r, members, f), Cardinality(groups))]
  IN [groups |-> groups, entries |-> members, features |-> features,
      provisional |-> /\ Cardinality(groups) >= MinGroups
                      /\ FullCoverage(Cardinality({f \in Features : features[f].supported}))]

(* fit_profiles *)
Fit(r, selected) == [key \in Keys(r) |-> Profile(r, selected, key)]
=============================================================================
