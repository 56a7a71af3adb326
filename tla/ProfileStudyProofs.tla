------------------------- MODULE ProfileStudyProofs -------------------------
(***************************************************************************)
(* Proofs about ProfileStudy, for every set of well-formed reports: what   *)
(* does not vote moves no profile, reviews keep evidence, only usable fits *)
(* of the current report name a label, evaluations are earned, and no      *)
(* decision depends on the label of the entry it is about.                 *)
(***************************************************************************)
EXTENDS ProfileStudy, SequenceParts

-----------------------------------------------------------------------------
(* A profile is a function of the entries it is fitted from.               *)

(* Reports that agree on the selected entries have the same members and    *)
(* group the same windows.                                                 *)
LEMMA MembersAgree ==
  ASSUME NEW r, NEW q, NEW S, NEW key, \A e \in S : r[e] = q[e]
  PROVE  /\ Members(r, S, key) = Members(q, S, key)
         /\ Members(r, S, key) \subseteq S
  BY DEF Members, Key

LEMMA GroupsAgree ==
  ASSUME NEW r, NEW q, NEW M, \A e \in M : r[e] = q[e]
  PROVE  GroupsOf(r, M) = GroupsOf(q, M)
  BY DEF GroupsOf

LEMMA ObservedAgree ==
  ASSUME NEW r, NEW q, NEW M, NEW g, NEW f, \A e \in M : r[e] = q[e]
  PROVE  /\ Observed(r, M, g, f) = Observed(q, M, g, f)
         /\ Observed(r, M, g, f) \subseteq M
  BY DEF Observed

(* The medians of the groups are the same too, as their windows are.       *)
LEMMA MediansAgree ==
  ASSUME NEW r, NEW q, NEW M, NEW f, \A e \in M : r[e] = q[e]
  PROVE  GroupMedians(r, M, f) = GroupMedians(q, M, f)
<1> DEFINE D(p) == {h \in GroupsOf(p, M) : Observed(p, M, h, f) # {}}
           V(p, g) == [e \in Observed(p, M, g, f) |-> p[e].values[f]]
<1>1. D(r) = D(q)
  BY GroupsAgree, ObservedAgree
<1>2. ASSUME NEW g PROVE V(r, g) = V(q, g)
  <2>1. Observed(r, M, g, f) = Observed(q, M, g, f)
    BY ObservedAgree
  <2>2. \A e \in Observed(r, M, g, f) : r[e] = q[e]
    BY ObservedAgree
  <2> QED
    BY <2>1, <2>2
<1> HIDE DEF D, V
<1>3. [g \in D(r) |-> Median(V(r, g))] = [g \in D(q) |-> Median(V(q, g))]
  BY <1>1, <1>2
<1> QED
  BY <1>3 DEF GroupMedians, D, V

LEMMA ProfilesAgree ==
  ASSUME NEW r, NEW q, NEW S, NEW key, \A e \in S : r[e] = q[e]
  PROVE  Profile(r, S, key) = Profile(q, S, key)
<1> DEFINE M == Members(r, S, key)
<1>1. Members(q, S, key) = M /\ M \subseteq S
  BY MembersAgree
<1>2. \A e \in M : r[e] = q[e]
  BY <1>1
<1> HIDE DEF M
<1>3. GroupsOf(r, M) = GroupsOf(q, M)
  BY <1>2, GroupsAgree
<1>4. \A f : GroupMedians(r, M, f) = GroupMedians(q, M, f)
  BY <1>2, MediansAgree
<1> DEFINE F(p) == [f \in Features |-> Statistics(GroupMedians(p, M, f),
                                                  Cardinality(GroupsOf(p, M)))]
<1>5. F(r) = F(q)
  BY <1>3, <1>4
<1> HIDE DEF F
<1>6. [groups |-> GroupsOf(r, M), entries |-> M, features |-> F(r),
       provisional |-> /\ Cardinality(GroupsOf(r, M)) >= MinGroups
                       /\ FullCoverage(Cardinality({f \in Features : F(r)[f].supported}))]
    = [groups |-> GroupsOf(q, M), entries |-> M, features |-> F(q),
       provisional |-> /\ Cardinality(GroupsOf(q, M)) >= MinGroups
                       /\ FullCoverage(Cardinality({f \in Features : F(q)[f].supported}))]
  BY <1>3, <1>5
<1>7. M = Members(r, S, key) /\ M = Members(q, S, key)
  BY <1>1 DEF M
<1> QED
  BY <1>6, <1>7 DEF Profile, F

-----------------------------------------------------------------------------
(* Reports with the same voters select the same entries.                   *)
LEMMA VotesAgree ==
  ASSUME NEW r, NEW q, SameVoters(r, q)
  PROVE  /\ Votes(r) = Votes(q)
         /\ \A e \in Votes(r) : r[e] = q[e]
<1>1. \A e \in Votes(r) : e \in Votes(q) /\ r[e] = q[e]
  BY DEF SameVoters, Voter, Votes
<1>2. \A e \in Votes(q) : e \in Votes(r)
  BY DEF SameVoters, Voter, Votes
<1> QED
  BY <1>1, <1>2

LEMMA SelectedAgree ==
  ASSUME NEW r, NEW q, SameVoters(r, q)
  PROVE  /\ Selected(r) = Selected(q)
         /\ Selected(r) \subseteq Votes(r)
         /\ \A e \in Selected(r) : r[e] = q[e]
<1>1. Votes(r) = Votes(q) /\ \A e \in Votes(r) : r[e] = q[e]
  BY VotesAgree
<1>2. \A e \in Votes(r) : Mixed(r, e) <=> Mixed(q, e)
  BY <1>1 DEF Mixed
<1> QED
  BY <1>1, <1>2 DEF Selected

(* A label that is declared in one of them only has no member.             *)
LEMMA ForeignLabel ==
  ASSUME NEW r, NEW q, SameVoters(r, q), NEW key \in Keys(r) \ Keys(q)
  PROVE  Members(r, Selected(r), key) = {}
<1> SUFFICES ASSUME NEW e \in Selected(r), Key(r, e) = key PROVE FALSE
  BY DEF Members
<1>1. e \in Votes(q) /\ r[e] = q[e]
  BY SelectedAgree, VotesAgree
<1>2. Key(q, e) = key
  BY <1>1 DEF Key
<1>3. e \in DOMAIN q /\ q[e].kind = "response" /\ q[e].role = "training" /\ q[e].label # Null
  BY <1>1 DEF Votes
<1> QED
  BY <1>2, <1>3 DEF Keys

LEMMA EmptyProfile ==
  ASSUME NEW r, NEW S, NEW key, Members(r, S, key) = {}
  PROVE  Profile(r, S, key).groups = {} /\ ~Profile(r, S, key).provisional
<1>1. GroupsOf(r, {}) = {}
  BY DEF GroupsOf
<1>2. ~(Cardinality({}) >= MinGroups)
  BY FS_EmptySet, FitAssumption
<1> QED
  BY <1>1, <1>2 DEF Profile

(* What does not vote moves no profile: the fits of two reports with the   *)
(* same voters agree, and a label that only one declares has no evidence.  *)
LEMMA FitsAgree ==
  ASSUME NEW r, NEW q, SameVoters(r, q)
  PROVE  LET s == Fit(r, Selected(r))
             t == Fit(q, Selected(q))
         IN /\ \A key \in DOMAIN s \cap DOMAIN t : s[key] = t[key]
            /\ \A key \in DOMAIN s \ DOMAIN t : s[key].groups = {} /\ ~s[key].provisional
<1>1. Selected(r) = Selected(q) /\ \A e \in Selected(r) : r[e] = q[e]
  BY SelectedAgree
<1>2. \A key : Profile(r, Selected(r), key) = Profile(q, Selected(q), key)
  BY <1>1, ProfilesAgree
<1>3. \A key \in Keys(r) \ Keys(q) : /\ Profile(r, Selected(r), key).groups = {}
                                     /\ ~Profile(r, Selected(r), key).provisional
  BY ForeignLabel, EmptyProfile
<1> QED
  BY <1>2, <1>3 DEF Fit

-----------------------------------------------------------------------------
(* The inductive invariant: what sealing guarantees of the n-th snapshot s *)
(* of a sequence refers to snapshots before it only.                       *)
Operations == {"mark_stale", "reject", "supersede"}
Snapshot == [report : Reports \cup {Null}, profiles : {<<>>} \cup {FitOf[r] : r \in Reports},
             state : States, operation : Operations \cup {"create", "build"},
             parent : Nat, replacement : Nat]

Usable(s) == /\ s.operation = "build"
             /\ s.report # Null
             /\ \E key \in DOMAIN s.profiles : s.profiles[key].provisional

Sound(seq, n, s) ==
  /\ s.parent \in 0..n - 1 /\ s.replacement \in 0..n - 1
  /\ s.report = Null => s.profiles = <<>>
  /\ s.report # Null => s.profiles = FitOf[s.report]
  /\ s.state = "provisional" => Usable(s)
  /\ s.operation \in Operations =>
       s.parent # 0 /\ s.report = seq[s.parent].report /\ s.profiles = seq[s.parent].profiles
  /\ s.parent # 0 => seq[s.parent].state # "superseded"
  /\ s.state = "superseded" =>
       s.replacement \notin {0, s.parent} /\ seq[s.replacement].state = "provisional"

SInv ==
  /\ snapshots \in Seq(Snapshot) /\ Len(snapshots) <= MaxSnapshots
  /\ \A n \in 1..Len(snapshots) : Sound(snapshots, n, snapshots[n])
  /\ \A m, n \in 1..Len(snapshots) : m < n => snapshots[m] # snapshots[n]

LEMMA ReviewOperations == DOMAIN Allowed = Operations
  BY DEF Allowed, Operations

(* What Sound says of a snapshot depends on the ones before it only.       *)
LEMMA SoundKept ==
  ASSUME NEW seq, NEW new, NEW n \in Nat, NEW s,
         \A k \in 1..n - 1 : seq[k] = new[k],
         Sound(seq, n, s)
  PROVE  Sound(new, n, s)
<1>1. s.parent \in 0..n - 1 /\ s.replacement \in 0..n - 1
  BY DEF Sound
<1>2. s.parent # 0 => s.parent \in 1..n - 1
  BY <1>1
<1>3. s.replacement # 0 => s.replacement \in 1..n - 1
  BY <1>1
<1>4. /\ s.parent # 0 => seq[s.parent] = new[s.parent]
      /\ s.replacement # 0 => seq[s.replacement] = new[s.replacement]
  BY <1>2, <1>3
<1> QED
  BY <1>1, <1>4 DEF Sound

(* Sealing a sound snapshot keeps the invariant: it is issued before, or   *)
(* becomes the last one.                                                   *)
LEMMA SealKeeps ==
  ASSUME SInv, NEW s \in Snapshot, Sound(snapshots, Len(snapshots) + 1, s), Seal(s)
  PROVE  SInv'
<1>1. CASE snapshots' = snapshots
  BY <1>1 DEF SInv
<1>2. CASE /\ snapshots' = Append(snapshots, s)
           /\ ~ \E n \in DOMAIN snapshots : snapshots[n] = s
  <2>1. PICK len \in Nat : len = Len(snapshots)
    BY DEF SInv
  <2>2. /\ snapshots' \in Seq(Snapshot)
        /\ Len(snapshots') = len + 1
        /\ \A k \in 1..len : snapshots'[k] = snapshots[k]
        /\ snapshots'[len + 1] = s
        /\ DOMAIN snapshots = 1..len
    BY <1>2, <2>1 DEF SInv
  <2>3. Len(snapshots') <= MaxSnapshots
    BY DEF Seal
  <2>4. ASSUME NEW n \in 1..len + 1 PROVE Sound(snapshots', n, snapshots'[n])
    <3>1. \A k \in 1..n - 1 : snapshots[k] = snapshots'[k]
      BY <2>2
    <3>2. CASE n = len + 1
      <4>1. Sound(snapshots, n, s)
        BY <2>1, <3>2
      <4> QED
        BY <4>1, <3>1, <3>2, <2>2, SoundKept
    <3>3. CASE n \in 1..len
      <4>1. Sound(snapshots, n, snapshots[n])
        BY <2>1, <3>3 DEF SInv
      <4> QED
        BY <4>1, <3>1, <3>3, <2>2, SoundKept
    <3> QED
      BY <3>2, <3>3
  <2>5. ASSUME NEW m \in 1..len + 1, NEW n \in 1..len + 1, m < n
        PROVE  snapshots'[m] # snapshots'[n]
    <3>1. m \in 1..len
      BY <2>5
    <3>2. CASE n = len + 1
      BY <1>2, <2>2, <3>1, <3>2
    <3>3. CASE n \in 1..len
      BY <2>1, <2>2, <2>5, <3>1, <3>3 DEF SInv
    <3> QED
      BY <3>2, <3>3
  <2> QED
    BY <2>2, <2>3, <2>4, <2>5 DEF SInv
<1> QED
  BY <1>1, <1>2 DEF Seal

-----------------------------------------------------------------------------
(* A label is only given in the state "provisional".                       *)
LEMMA LabelNeedsState ==
  ASSUME NEW r, NEW e, NEW mode, NEW state, NEW profiles,
         Decision(r, e, mode, state, profiles).label # Null
  PROVE  state = "provisional"
  BY DEF Decision, Unknown

(* What is kept of the last result x, by a snapshot s: every decision is   *)
(* made with the profiles its entry may be scored with, and what is        *)
(* concluded follows from the decisions.                                   *)
Summarized(x) ==
  /\ DOMAIN x.decisions = Inventory(x.report, x.mode)
  /\ x.outcomes = Outcomes(x.report, x.mode, x.decisions)
  /\ x.totals = Totals(x.report, x.mode, x.outcomes)

Decided(s, x, e) ==
  Decision(x.report, e, x.mode, s.state,
           ProfilesFor(x.report, e, x.mode, s.state, s.profiles))

Answered(s, x) ==
  /\ s.report # Null => s.report = x.report
  /\ DOMAIN x.decisions \subseteq DOMAIN x.report
  /\ \A e \in DOMAIN x.decisions : x.decisions[e] = Decided(s, x, e)
  /\ \/ x.mode \in Modes /\ Summarized(x)
     \/ x.mode = "match" /\ x.outcomes = <<>> /\ x.totals = Null

ResultInv ==
  result # Null =>
    /\ result.snapshot \in 1..Len(snapshots)
    /\ result.report \in Reports
    /\ Answered(snapshots[result.snapshot], result)

IInv ==
  /\ report \in Reports
  /\ revisions \in 0..MaxRevisions
  /\ SInv
  /\ ResultInv

LEMMA CreateSound ==
  ASSUME IInv, CreateProfileSnapshot
  PROVE  SInv'
<1>1. Draft \in Snapshot
  BY DEF Draft, Snapshot, States
<1>2. Sound(snapshots, Len(snapshots) + 1, Draft)
  <2>1. 0 \in 0..(Len(snapshots) + 1) - 1
    BY DEF IInv, SInv
  <2> QED
    BY <2>1 DEF Draft, Sound, Operations
<1> QED
  BY <1>1, <1>2, SealKeeps DEF IInv, CreateProfileSnapshot

LEMMA BuildSound ==
  ASSUME IInv, NEW parent \in 0..Len(snapshots), BuildProfiles(parent)
  PROVE  SInv'
<1> DEFINE supported == Supported(Fitted)
           s == [report |-> report, profiles |-> Fitted,
                 state |-> IF supported THEN "provisional" ELSE "rejected",
                 operation |-> "build", parent |-> parent, replacement |-> 0]
<1>1. report \in Reports /\ report # Null /\ Fitted = FitOf[report]
  BY ReportsAssumption DEF IInv, Fitted
<1>2. parent \in Nat /\ parent \in 0..(Len(snapshots) + 1) - 1
                     /\ 0 \in 0..(Len(snapshots) + 1) - 1
  BY DEF IInv, SInv
<1>3. Seal(s) /\ (parent # 0 => snapshots[parent].state # "superseded")
  BY DEF BuildProfiles
<1> HIDE DEF supported
<1>4. s \in Snapshot
  BY <1>1, <1>2 DEF Snapshot, States
<1>5. s.state = "provisional" => supported
  OBVIOUS
<1>6. supported => Usable(s)
  BY <1>1 DEF Usable, Supported, supported
<1>7. Sound(snapshots, Len(snapshots) + 1, s)
  BY <1>1, <1>2, <1>3, <1>5, <1>6 DEF Sound, Operations
<1> QED
  BY <1>3, <1>4, <1>7, SealKeeps DEF IInv

LEMMA TransitionSound ==
  ASSUME IInv, NEW operation \in DOMAIN Allowed, NEW n \in DOMAIN snapshots,
         TransitionProfileSnapshot(operation, n)
  PROVE  SInv'
<1>1. PICK replacement \in 0..Len(snapshots) :
        /\ IF operation = "supersede"
           THEN replacement # 0 /\ Replaces(n, replacement)
           ELSE replacement = 0
        /\ Seal([report |-> snapshots[n].report, profiles |-> snapshots[n].profiles,
                 state |-> Becomes[operation], operation |-> operation,
                 parent |-> n, replacement |-> replacement])
  BY DEF TransitionProfileSnapshot
<1> DEFINE s == [report |-> snapshots[n].report, profiles |-> snapshots[n].profiles,
                 state |-> Becomes[operation], operation |-> operation,
                 parent |-> n, replacement |-> replacement]
<1>2. operation \in Operations
  BY ReviewOperations
<1>3. /\ Becomes[operation] \in {"stale", "rejected", "superseded"}
      /\ Becomes[operation] = "superseded" => operation = "supersede"
  BY <1>2 DEF Becomes, Operations
<1>4. /\ n \in 1..Len(snapshots) /\ Len(snapshots) \in Nat
      /\ snapshots[n] \in Snapshot /\ Sound(snapshots, n, snapshots[n])
  BY DEF IInv, SInv
<1>5. /\ n \in Nat /\ replacement \in Nat
      /\ n \in 0..(Len(snapshots) + 1) - 1
      /\ replacement \in 0..(Len(snapshots) + 1) - 1
      /\ n # 0
  BY <1>4
<1>6. snapshots[n].state # "superseded"
  BY <1>2 DEF TransitionProfileSnapshot, Allowed, Operations
<1>7. s \in Snapshot
  BY <1>2, <1>3, <1>4, <1>5 DEF Snapshot, States
<1>8. /\ s.report = Null => s.profiles = <<>>
      /\ s.report # Null => s.profiles = FitOf[s.report]
  BY <1>4 DEF Sound
<1>9. s.state = "superseded" =>
        s.replacement \notin {0, s.parent} /\ snapshots[s.replacement].state = "provisional"
  BY <1>1, <1>3 DEF Replaces
<1>10. Sound(snapshots, Len(snapshots) + 1, s)
  BY <1>3, <1>5, <1>6, <1>8, <1>9 DEF Sound
<1> QED
  BY <1>1, <1>7, <1>10, SealKeeps DEF IInv

(* Sealing issues at most one snapshot and changes none of the others.     *)
LEMMA SealPrefix ==
  ASSUME SInv, NEW s, Seal(s)
  PROVE  /\ UNCHANGED <<report, revisions, result>>
         /\ \A k \in 1..Len(snapshots) :
              k \in 1..Len(snapshots') /\ snapshots'[k] = snapshots[k]
<1>1. CASE snapshots' = snapshots
  BY <1>1 DEF Seal
<1>2. CASE snapshots' = Append(snapshots, s)
  <2>1. PICK len \in Nat : len = Len(snapshots)
    BY DEF SInv
  <2>2. /\ Len(snapshots') = len + 1
        /\ \A k \in 1..len : snapshots'[k] = snapshots[k]
    BY <1>2, <2>1 DEF SInv
  <2> QED
    BY <2>1, <2>2 DEF Seal
<1> QED
  BY <1>1, <1>2 DEF Seal

LEMMA SealKeepsResult ==
  ASSUME IInv, NEW s, Seal(s)
  PROVE  /\ report' \in Reports /\ revisions' \in 0..MaxRevisions
         /\ ResultInv'
<1>1. /\ UNCHANGED <<report, revisions, result>>
      /\ \A k \in 1..Len(snapshots) : k \in 1..Len(snapshots') /\ snapshots'[k] = snapshots[k]
  BY SealPrefix DEF IInv
<1> QED
  BY <1>1 DEF IInv, ResultInv

(* A match or an evaluation by a snapshot that is current: what it labels  *)
(* was built from this very report.                                        *)
LEMMA ReportKeeps ==
  ASSUME IInv, NEW n \in DOMAIN snapshots, NEW mode, NEW decisions, NEW outcomes,
         NEW totals, Report(n, mode, decisions, outcomes, totals),
         Answered(snapshots[n], result')
  PROVE  IInv'
<1>1. UNCHANGED <<report, revisions, snapshots>>
  BY DEF Report
<1>2. result'.snapshot = n /\ result'.report = report
  BY DEF Report
<1>3. n \in 1..Len(snapshots) /\ report \in Reports
  BY DEF IInv, SInv
<1>4. Answered(snapshots[n], result')
  OBVIOUS
<1>5. ResultInv'
  BY <1>1, <1>2, <1>3, <1>4 DEF ResultInv
<1>6. SInv'
  BY <1>1 DEF IInv, SInv
<1> QED
  BY <1>1, <1>5, <1>6 DEF IInv

LEMMA InitIInv == Init => IInv
<1> SUFFICES ASSUME Init PROVE IInv
  OBVIOUS
<1>1. report \in Reports /\ revisions \in 0..MaxRevisions /\ ResultInv
  BY BoundsAssumption DEF Init, ResultInv
<1>2. snapshots \in Seq(Snapshot) /\ Len(snapshots) = 0
  BY DEF Init
<1>3. SInv
  BY <1>2, BoundsAssumption DEF SInv
<1> QED
  BY <1>1, <1>3 DEF IInv

LEMMA NextIInv == IInv /\ [Next]_vars => IInv'
<1> SUFFICES ASSUME IInv, [Next]_vars PROVE IInv'
  OBVIOUS
<1>1. CASE Revise
  <2>0. /\ revisions \in 0..MaxRevisions
        /\ revisions < MaxRevisions /\ revisions' = revisions + 1
    BY <1>1 DEF Revise, IInv
  <2>1. report' \in Reports /\ revisions' \in 0..MaxRevisions
    <3>1. PICK r \in Reports : report' = r
      BY <1>1 DEF Revise
    <3>2. revisions' \in 0..MaxRevisions
      BY <2>0, BoundsAssumption
    <3> QED
      BY <3>1, <3>2
  <2>2. UNCHANGED <<snapshots, result>>
    BY <1>1 DEF Revise
  <2>3. SInv' /\ ResultInv'
    BY <2>2 DEF IInv, SInv, ResultInv
  <2> QED
    BY <2>1, <2>3 DEF IInv
<1>2. CASE CreateProfileSnapshot
  BY <1>2, CreateSound, SealKeepsResult DEF CreateProfileSnapshot, IInv
<1>3. ASSUME NEW parent \in 0..Len(snapshots), BuildProfiles(parent) PROVE IInv'
  <2>1. SInv'
    BY <1>3, BuildSound
  <2>2. PICK s : Seal(s)
    BY <1>3 DEF BuildProfiles
  <2> QED
    BY <2>1, <2>2, SealKeepsResult DEF IInv
<1>4. ASSUME NEW n \in DOMAIN snapshots, NEW operation \in DOMAIN Allowed,
             TransitionProfileSnapshot(operation, n)
      PROVE  IInv'
  <2>1. SInv'
    BY <1>4, TransitionSound
  <2>2. PICK s : Seal(s)
    BY <1>4 DEF TransitionProfileSnapshot
  <2> QED
    BY <2>1, <2>2, SealKeepsResult DEF IInv
<1>5. ASSUME NEW n \in DOMAIN snapshots, NEW e \in DOMAIN report, MatchProfiles(n, e)
      PROVE  IInv'
  <2> DEFINE s == snapshots[n]
             D == [q \in {e} |-> Decision(report, e, "match", s.state, s.profiles)]
  <2>1. Current(s) /\ Report(n, "match", D, <<>>, Null)
    BY <1>5 DEF MatchProfiles
  <2>2. DOMAIN D = {e} /\ \A q \in DOMAIN D : D[q] = Decision(report, q, "match", s.state, s.profiles)
    OBVIOUS
  <2> HIDE DEF D
  <2>3. /\ result'.report = report /\ result'.mode = "match" /\ result'.decisions = D
        /\ result'.outcomes = <<>> /\ result'.totals = Null
    BY <2>1 DEF Report
  <2>4. \A q : ProfilesFor(report, q, "match", s.state, s.profiles) = s.profiles
    BY DEF ProfilesFor, Fold
  <2>5. Answered(s, result')
    BY <2>1, <2>2, <2>3, <2>4 DEF Answered, Decided, Current
  <2> QED
    BY <2>1, <2>5, ReportKeeps
<1>6. ASSUME NEW n \in DOMAIN snapshots, NEW mode \in Modes, EvaluateProfiles(n, mode)
      PROVE  IInv'
  <2> DEFINE s == snapshots[n]
             D == Decisions(report, mode, s.state, s.profiles)
             O == Outcomes(report, mode, D)
  <2>1. Current(s) /\ Report(n, mode, D, O, Totals(report, mode, O))
    BY <1>6 DEF EvaluateProfiles
  <2>2. /\ DOMAIN D = Inventory(report, mode) /\ Inventory(report, mode) \subseteq DOMAIN report
        /\ \A q \in DOMAIN D :
             D[q] = Decision(report, q, mode, s.state,
                             ProfilesFor(report, q, mode, s.state, s.profiles))
    BY DEF Decisions, Inventory
  <2> HIDE DEF D
  <2>3. /\ result'.report = report /\ result'.mode = mode /\ result'.decisions = D
        /\ result'.outcomes = O /\ result'.totals = Totals(report, mode, O)
    BY <2>1 DEF Report
  <2>4. Summarized(result')
    BY <2>2, <2>3 DEF Summarized
  <2>5. Answered(s, result')
    BY <1>6, <2>1, <2>2, <2>3, <2>4 DEF Answered, Decided, Current
  <2> HIDE DEF O
  <2> QED
    BY <2>1, <2>5, ReportKeeps
<1>7. CASE UNCHANGED vars
  BY <1>7 DEF vars, IInv, SInv, ResultInv
<1> QED
  BY <1>1, <1>2, <1>3, <1>4, <1>5, <1>6, <1>7 DEF Next

(* Every reachable state of a study satisfies the inductive invariant:     *)
(* snapshots are sound in the order they were issued, and what the last    *)
(* result says was said by a current fit.                                  *)
THEOREM StudyInvariant == Spec => []IInv
  BY InitIInv, NextIInv, PTL DEF Spec

-----------------------------------------------------------------------------
(* Types are kept, and equal content is sealed only once.                  *)
THEOREM Typed == Spec => []TypeOK
<1>1. ASSUME IInv PROVE TypeOK
  <2>1. ASSUME NEW n \in DOMAIN snapshots
        PROVE  LET s == snapshots[n]
               IN /\ s.report \in Reports \cup {Null}
                  /\ s.state \in States
                  /\ s.operation \in DOMAIN Allowed \cup {"create", "build"}
                  /\ s.parent \in 0..n - 1
                  /\ s.replacement \in 0..n - 1
                  /\ s.report = Null => DOMAIN s.profiles = {}
                  /\ \A m \in 1..n - 1 : snapshots[m] # s
    <3>1. n \in 1..Len(snapshots) /\ Len(snapshots) \in Nat /\ snapshots[n] \in Snapshot
      BY <1>1 DEF IInv, SInv
    <3>2. Sound(snapshots, n, snapshots[n])
      BY <1>1, <3>1 DEF IInv, SInv
    <3>3. \A m \in 1..n - 1 : m \in 1..Len(snapshots) /\ m < n
      BY <3>1
    <3>4. \A m \in 1..n - 1 : snapshots[m] # snapshots[n]
      BY <1>1, <3>1, <3>3 DEF IInv, SInv
    <3>5. DOMAIN <<>> = {}
      OBVIOUS
    <3> QED
      BY <3>1, <3>2, <3>4, <3>5, ReviewOperations DEF Sound, Snapshot
  <2>2. /\ Len(snapshots) <= MaxSnapshots
        /\ result # Null => result.snapshot \in DOMAIN snapshots /\ result.report \in Reports
    BY <1>1 DEF IInv, SInv, ResultInv
  <2> QED
    BY <1>1, <2>1, <2>2 DEF TypeOK, IInv
<1> QED
  BY StudyInvariant, <1>1, PTL

(* Reviews never alter, revive or replace evidence by what is unusable.    *)
THEOREM ReviewsOnlyWithdraw == Spec => []ReviewsKeepEvidence
<1>1. ASSUME IInv PROVE ReviewsKeepEvidence
  <2> SUFFICES ASSUME NEW n \in DOMAIN snapshots
               PROVE  LET s == snapshots[n]
                          p == snapshots[s.parent]
                          by == snapshots[s.replacement]
                      IN /\ s.state = "provisional" => s.operation = "build"
                         /\ s.operation \in DOMAIN Allowed =>
                              s.parent # 0 /\ s.report = p.report /\ s.profiles = p.profiles
                         /\ s.parent # 0 => p.state # "superseded"
                         /\ s.state = "superseded" =>
                              /\ s.replacement \notin {0, s.parent}
                              /\ by.report # Null
                              /\ \E key \in DOMAIN by.profiles : by.profiles[key].provisional
    BY DEF ReviewsKeepEvidence
  <2>1. n \in 1..Len(snapshots) /\ Len(snapshots) \in Nat
    BY <1>1 DEF IInv, SInv
  <2>2. \A k \in 1..Len(snapshots) : Sound(snapshots, k, snapshots[k])
    BY <1>1 DEF IInv, SInv
  <2>3. PICK k : k = snapshots[n].replacement
    OBVIOUS
  <2>4. k # 0 => k \in 1..Len(snapshots)
    BY <2>1, <2>2, <2>3 DEF Sound
  <2>5. k # 0 /\ snapshots[k].state = "provisional" => Usable(snapshots[k])
    BY <2>2, <2>4 DEF Sound
  <2> QED
    BY <2>1, <2>2, <2>3, <2>5, ReviewOperations DEF Sound, Usable
<1> QED
  BY StudyInvariant, <1>1, PTL

(* Only a usable fit of the very report it was asked about names a label.  *)
THEOREM OnlyCurrentFitsScore == Spec => []ScoredByCurrentFit
<1>1. ASSUME IInv PROVE ScoredByCurrentFit
  <2> SUFFICES ASSUME result # Null, NEW e \in DOMAIN result.decisions,
                      result.decisions[e].label # Null
               PROVE  LET s == snapshots[result.snapshot]
                      IN s.state = "provisional" /\ s.operation = "build" /\ s.report = result.report
    BY DEF ScoredByCurrentFit
  <2> DEFINE s == snapshots[result.snapshot]
  <2>1. result.snapshot \in 1..Len(snapshots) /\ Answered(s, result)
    BY <1>1 DEF IInv, ResultInv
  <2>2. s.state = "provisional"
    BY <2>1, LabelNeedsState DEF Answered, Decided
  <2>3. Usable(s)
    BY <1>1, <2>1, <2>2 DEF IInv, SInv, Sound
  <2> QED
    BY <2>1, <2>2, <2>3 DEF Usable, Answered
<1> QED
  BY StudyInvariant, <1>1, PTL

(* Whatever happens to entries that have no vote, no profile moves.        *)
THEOREM VotesDecide == Spec => []OnlyVotesCount
<1>1. ASSUME IInv PROVE OnlyVotesCount
  <2> SUFFICES ASSUME NEW m \in DOMAIN snapshots, NEW n \in DOMAIN snapshots,
                      snapshots[m].report # Null, snapshots[n].report # Null,
                      SameVoters(snapshots[m].report, snapshots[n].report)
               PROVE  LET s == snapshots[m]
                          t == snapshots[n]
                      IN /\ \A key \in DOMAIN s.profiles \cap DOMAIN t.profiles :
                              s.profiles[key] = t.profiles[key]
                         /\ \A key \in DOMAIN s.profiles \ DOMAIN t.profiles :
                              s.profiles[key].groups = {} /\ ~s.profiles[key].provisional
    BY DEF OnlyVotesCount
  <2>1. ASSUME NEW k \in DOMAIN snapshots, snapshots[k].report # Null
        PROVE  snapshots[k].profiles = Fit(snapshots[k].report, Selected(snapshots[k].report))
    <3>1. /\ snapshots[k] \in Snapshot
          /\ snapshots[k].profiles = FitOf[snapshots[k].report]
      BY <1>1, <2>1 DEF IInv, SInv, Sound
    <3>2. snapshots[k].report \in Reports
      BY <2>1, <3>1 DEF Snapshot
    <3> QED
      BY <3>1, <3>2 DEF FitOf
  <2>2. /\ snapshots[m].profiles = Fit(snapshots[m].report, Selected(snapshots[m].report))
        /\ snapshots[n].profiles = Fit(snapshots[n].report, Selected(snapshots[n].report))
    BY <2>1
  <2> QED
    BY <2>2, FitsAgree
<1> QED
  BY StudyInvariant, <1>1, PTL
-----------------------------------------------------------------------------
(* Finitely many numbers have a bound.                                     *)
LEMMA FiniteBound ==
  ASSUME NEW D, IsFiniteSet(D), NEW f, \A x \in D : f[x] \in Nat
  PROVE  \E b \in Nat : \A x \in D : f[x] <= b
<1> DEFINE P == {T \in SUBSET D : \E b \in Nat : \A x \in T : f[x] <= b}
<1>1. {} \in P
  OBVIOUS
<1>2. ASSUME NEW T \in P, NEW y \in D PROVE T \cup {y} \in P
  <2>1. PICK b \in Nat : \A x \in T : f[x] <= b
    OBVIOUS
  <2>2. f[y] \in Nat /\ \A x \in T : f[x] \in Nat
    OBVIOUS
  <2>3. b + f[y] \in Nat /\ \A x \in T \cup {y} : f[x] <= b + f[y]
    BY <2>1, <2>2
  <2> QED
    BY <2>3
<1>3. P \in SUBSET SUBSET D
  OBVIOUS
<1> HIDE DEF P
<1>4. D \in P
  BY <1>1, <1>2, <1>3, SubsetInduction
<1> QED
  BY <1>4 DEF P

(* A set with two elements has another than any given one.                 *)
LEMMA Another ==
  ASSUME NEW A, IsFiniteSet(A), Cardinality(A) >= 2, NEW g
  PROVE  \E h \in A : h # g
<1> SUFFICES ASSUME A \subseteq {g} PROVE FALSE
  OBVIOUS
<1>1. IsFiniteSet({g}) /\ Cardinality({g}) = 1
  BY FS_Singleton
<1>2. Cardinality(A) <= 1 /\ Cardinality(A) \in Nat
  BY <1>1, FS_Subset, FS_CardinalityType
<1> QED
  BY <1>2

-----------------------------------------------------------------------------
(* The k-th smallest of finitely many numbers is there: fewer than k are   *)
(* below it, and at least k are not above it.                              *)
Values(f, D) == DOMAIN f = D /\ IsFiniteSet(D) /\ \A x \in D : f[x] \in Nat
Below(f, v) == {x \in DOMAIN f : f[x] < v}
UpTo(f, v) == {x \in DOMAIN f : f[x] <= v}

LEMMA CountsBelow ==
  ASSUME NEW f, NEW D, Values(f, D)
  PROVE  \A v : /\ IsFiniteSet(Below(f, v)) /\ Cardinality(Below(f, v)) \in Nat
                /\ IsFiniteSet(UpTo(f, v)) /\ Cardinality(UpTo(f, v)) \in Nat
<1> TAKE v
<1>1. IsFiniteSet(D) /\ Below(f, v) \in SUBSET D /\ UpTo(f, v) \in SUBSET D
  BY DEF Values, Below, UpTo
<1> QED
  BY <1>1, FS_Subset, FS_CardinalityType

LEMMA RankedThere ==
  ASSUME NEW f, NEW D, Values(f, D), NEW k \in 1..Cardinality(D)
  PROVE  /\ Ranked(f, k) \in Nat
         /\ \E x \in D : Ranked(f, k) = f[x]
         /\ Cardinality(Below(f, Ranked(f, k))) < k
         /\ Cardinality(UpTo(f, Ranked(f, k))) >= k
<1> DEFINE T == {v \in Nat : Cardinality(UpTo(f, v)) >= k}
<1>0. DOMAIN f = D /\ IsFiniteSet(D) /\ \A x \in D : f[x] \in Nat
  BY DEF Values
<1>1. PICK b \in Nat : \A x \in D : f[x] <= b
  BY <1>0, FiniteBound
<1>2. UpTo(f, b) = D
  BY <1>0, <1>1 DEF UpTo
<1>3. b \in T
  BY <1>2
<1>4. PICK m \in T : \A n \in T : m <= n
  <2> T \in SUBSET Nat
    OBVIOUS
  <2> HIDE DEF T
  <2> QED
    BY <1>3, LeastNumber
<1>5. Cardinality(Below(f, m)) < k
  <2>1. CASE m = 0
    <3>1. Below(f, 0) = {}
      BY <1>0 DEF Below
    <3> QED
      BY <2>1, <3>1, FS_EmptySet
  <2>2. CASE m # 0
    <3>1. m - 1 \in Nat /\ m - 1 \notin T
      BY <1>4, <2>2
    <3>2. \A x \in D : f[x] < m <=> f[x] <= m - 1
      BY <1>0, <1>4
    <3>3. Below(f, m) = UpTo(f, m - 1)
      BY <1>0, <3>2, Zenon DEF Below, UpTo
    <3>4. ~(Cardinality(UpTo(f, m - 1)) >= k)
      BY <3>1
    <3> QED
      BY <3>3, <3>4, CountsBelow
  <2> QED
    BY <2>1, <2>2
<1>6. \E x \in D : m = f[x]
  <2> SUFFICES ASSUME \A x \in D : m # f[x] PROVE FALSE
    OBVIOUS
  <2>1. \A x \in D : f[x] < m <=> f[x] <= m
    BY <1>0, <1>4
  <2>2. Below(f, m) = UpTo(f, m)
    BY <1>0, <2>1, Zenon DEF Below, UpTo
  <2>3. Cardinality(UpTo(f, m)) >= k
    BY <1>4
  <2> QED
    BY <1>5, <2>2, <2>3, CountsBelow
<1> DEFINE Ok(v) == Cardinality(Below(f, v)) < k /\ Cardinality(UpTo(f, v)) >= k
<1>7. m \in {f[x] : x \in D} /\ Ok(m)
  BY <1>4, <1>5, <1>6
<1>8. Ranked(f, k) = CHOOSE v \in {f[x] : x \in D} : Ok(v)
  BY <1>0 DEF Ranked, Below, UpTo
<1> HIDE DEF Ok
<1>9. Ranked(f, k) \in {f[x] : x \in D} /\ Ok(Ranked(f, k))
  BY <1>7, <1>8
<1> QED
  BY <1>0, <1>9 DEF Ok

LEMMA RankedOrder ==
  ASSUME NEW f, NEW D, Values(f, D), NEW j \in 1..Cardinality(D), NEW k \in 1..Cardinality(D), j <= k
  PROVE  Ranked(f, j) <= Ranked(f, k)
<1> DEFINE u == Ranked(f, j)
           v == Ranked(f, k)
<1>1. /\ u \in Nat /\ Cardinality(Below(f, u)) < j
      /\ v \in Nat /\ Cardinality(UpTo(f, v)) >= k
  BY RankedThere
<1> HIDE DEF u, v
<1>2. SUFFICES ASSUME v < u PROVE FALSE
  BY <1>1 DEF u, v
<1>3. \A x \in D : f[x] <= v => f[x] < u
  BY <1>1, <1>2 DEF Values
<1>4. UpTo(f, v) \in SUBSET Below(f, u)
  BY <1>3 DEF Values, UpTo, Below
<1>5. Cardinality(UpTo(f, v)) <= Cardinality(Below(f, u))
  BY <1>4, CountsBelow, FS_Subset
<1> QED
  BY <1>1, <1>5, CountsBelow

(* The median of three numbers or more lies between the others, whichever  *)
(* one is left out.                                                        *)
LEMMA MedianBetween ==
  ASSUME NEW f, NEW D, Values(f, D), D # {}
  PROVE  /\ Median(f) \in Nat
         /\ Cardinality(D) >= 3 =>
              \A g : /\ \E h \in D \ {g} : f[h] <= Median(f)
                     /\ \E h \in D \ {g} : f[h] >= Median(f)
<1> DEFINE n == Cardinality(D)
           j == (n + 1) \div 2
           k == (n + 2) \div 2
           u == Ranked(f, j)
           v == Ranked(f, k)
<1>0. DOMAIN f = D /\ IsFiniteSet(D) /\ \A x \in D : f[x] \in Nat
  BY DEF Values
<1>1. n \in Nat /\ n # 0
  BY <1>0, FS_EmptySet, FS_CardinalityType
<1> HIDE DEF n
<1>2. j \in 1..n /\ k \in 1..n /\ j <= k
  BY <1>1
<1>3. n >= 3 => j >= 2 /\ n - k >= 1
  BY <1>1
<1> HIDE DEF j, k
<1>4. /\ u \in Nat /\ Cardinality(UpTo(f, u)) >= j
      /\ v \in Nat /\ Cardinality(Below(f, v)) < k
      /\ u <= v
  BY <1>2, RankedThere, RankedOrder DEF n
<1>5. Median(f) = (u + v) \div 2
  BY <1>0 DEF Median, n, j, k
<1> HIDE DEF u, v
<1>6. Median(f) \in Nat /\ u <= Median(f) /\ Median(f) <= v
  BY <1>4, <1>5
<1>7. ASSUME n >= 3, NEW g
      PROVE  /\ \E h \in D \ {g} : f[h] <= Median(f)
             /\ \E h \in D \ {g} : f[h] >= Median(f)
  <2>1. PICK h \in UpTo(f, u) : h # g
    <3>1. Cardinality(UpTo(f, u)) >= 2
      BY <1>2, <1>3, <1>4, <1>7, CountsBelow
    <3> QED
      BY <3>1, CountsBelow, Another
  <2>2. h \in D \ {g} /\ f[h] <= Median(f)
    BY <1>0, <1>4, <1>6, <2>1 DEF UpTo
  <2>3. PICK i \in D \ Below(f, v) : i # g
    <3>1. D \cap Below(f, v) = Below(f, v)
      BY <1>0 DEF Below
    <3>2. IsFiniteSet(D \ Below(f, v)) /\ Cardinality(D \ Below(f, v)) = n - Cardinality(Below(f, v))
      <4>1. /\ IsFiniteSet(D \ Below(f, v))
            /\ Cardinality(D \ Below(f, v)) = Cardinality(D) - Cardinality(D \cap Below(f, v))
        BY <1>0, FS_Difference
      <4> QED
        BY <3>1, <4>1 DEF n
    <3>3. Cardinality(D \ Below(f, v)) >= 2
      BY <1>1, <1>2, <1>3, <1>4, <1>7, <3>2, CountsBelow
    <3> QED
      BY <3>2, <3>3, Another
  <2>4. i \in D \ {g} /\ f[i] >= Median(f)
    BY <1>0, <1>4, <1>6, <2>3 DEF Below
  <2> QED
    BY <2>2, <2>4
<1> QED
  BY <1>6, <1>7 DEF n
-----------------------------------------------------------------------------
(* Statistics of a well-formed report are numbers, and a feature that is   *)
(* supported has a positive dispersion.                                    *)
LEMMA ReportFacts ==
  ASSUME NEW r, WellFormed(r)
  PROVE  /\ r \in Seq(Entry) /\ IsFiniteSet(DOMAIN r)
         /\ \A e \in DOMAIN r : r[e] \in Entry
         /\ \A e \in DOMAIN r, f \in Features : r[e].values[f] # Null => r[e].values[f] \in Nat
<1>1. r \in Seq(Entry)
  BY DEF WellFormed
<1>2. DOMAIN r = 1..Len(r) /\ Len(r) \in Nat /\ \A e \in DOMAIN r : r[e] \in Entry
  BY <1>1
<1>3. IsFiniteSet(DOMAIN r)
  BY <1>2, FS_Interval
<1>4. ASSUME NEW e \in DOMAIN r, NEW f \in Features, r[e].values[f] # Null
      PROVE  r[e].values[f] \in Nat
  <2>1. r[e].values \in [Features -> Nat \cup {Null}]
    BY <1>2 DEF Entry
  <2> QED
    BY <1>4, <2>1
<1> QED
  BY <1>1, <1>2, <1>3, <1>4

LEMMA SelectedThere ==
  ASSUME NEW r, NEW key
  PROVE  /\ Votes(r) \in SUBSET DOMAIN r
         /\ Selected(r) \in SUBSET Votes(r)
         /\ \A S : Members(r, S, key) \in SUBSET S
  BY DEF Votes, Selected, Members

LEMMA MediansTyped ==
  ASSUME NEW r, WellFormed(r), NEW M \in SUBSET DOMAIN r, NEW f \in Features
  PROVE  Values(GroupMedians(r, M, f), DOMAIN GroupMedians(r, M, f))
<1> DEFINE D == {h \in GroupsOf(r, M) : Observed(r, M, h, f) # {}}
           V(g) == [e \in Observed(r, M, g, f) |-> r[e].values[f]]
<1>1. IsFiniteSet(M)
  BY ReportFacts, FS_Subset
<1>2. IsFiniteSet(GroupsOf(r, M))
  <2> DEFINE G == [e \in M |-> r[e].group]
  <2>1. GroupsOf(r, M) = {G[e] : e \in M}
    BY DEF GroupsOf
  <2>2. G \in [M -> {G[e] : e \in M}]
    OBVIOUS
  <2>3. G \in Surjection(M, {G[e] : e \in M})
    BY <2>2 DEF Surjection
  <2> HIDE DEF G
  <2>4. IsFiniteSet({G[e] : e \in M})
    BY <1>1, <2>3, FS_Surjection
  <2> QED
    BY <2>1, <2>4
<1>3. IsFiniteSet(D)
  <2> D \in SUBSET GroupsOf(r, M)
    OBVIOUS
  <2> HIDE DEF D
  <2> QED
    BY <1>2, FS_Subset
<1>4. ASSUME NEW g \in D PROVE Median(V(g)) \in Nat
  <2>1. Observed(r, M, g, f) \in SUBSET M /\ Observed(r, M, g, f) # {}
    BY DEF Observed
  <2>2. IsFiniteSet(Observed(r, M, g, f))
    BY <1>1, <2>1, FS_Subset
  <2>3. ASSUME NEW e \in Observed(r, M, g, f) PROVE r[e].values[f] \in Nat
    BY ReportFacts DEF Observed
  <2>4. Values(V(g), Observed(r, M, g, f))
    BY <2>2, <2>3 DEF Values
  <2> HIDE DEF V
  <2> QED
    BY <2>1, <2>4, MedianBetween
<1>5. GroupMedians(r, M, f) = [g \in D |-> Median(V(g))]
  BY DEF GroupMedians
<1> HIDE DEF D, V
<1> QED
  BY <1>3, <1>4, <1>5 DEF Values

LEMMA StatisticsTyped ==
  ASSUME NEW m, Values(m, DOMAIN m), NEW c
  PROVE  LET s == Statistics(m, c)
         IN /\ s.medians = m
            /\ DOMAIN m # {} => s.center = Median(m)
            /\ s.supported => s.center \in Nat /\ s.dispersion \in Nat \ {0}
<1> DEFINE n == Cardinality(DOMAIN m)
           d == [g \in DOMAIN m |-> Deviation(m[g], Median(m))]
           s == Statistics(m, c)
<1>1. IsFiniteSet(DOMAIN m) /\ \A g \in DOMAIN m : m[g] \in Nat
  BY DEF Values
<1>2. n \in Nat /\ (n = 0 <=> DOMAIN m = {})
  BY <1>1, FS_EmptySet, FS_CardinalityType
<1>3. /\ s.medians = m
      /\ n # 0 => s.center = Median(m) /\ s.dispersion = Median(d)
      /\ s.supported => n >= MinGroups /\ s.dispersion # 0
  BY DEF Statistics
<1>4. ASSUME n # 0 PROVE Median(m) \in Nat /\ Median(d) \in Nat
  <2>1. Median(m) \in Nat
    BY <1>2, <1>4, MedianBetween
  <2>2. Values(d, DOMAIN m)
    BY <1>1, <2>1 DEF Values, Deviation
  <2> HIDE DEF d
  <2> QED
    BY <1>2, <1>4, <2>1, <2>2, MedianBetween
<1> HIDE DEF n, d
<1>5. s.supported => n # 0
  BY <1>2, <1>3, FitAssumption
<1> HIDE DEF s
<1> QED
  BY <1>2, <1>3, <1>4, <1>5 DEF s

(* What a profile says of a feature. *)
LEMMA ProfileTyped ==
  ASSUME NEW r, WellFormed(r), NEW S \in SUBSET DOMAIN r, NEW key, NEW f \in Features
  PROVE  LET s == Profile(r, S, key).features[f]
         IN /\ Values(s.medians, DOMAIN s.medians)
            /\ DOMAIN s.medians # {} => s.center = Median(s.medians)
            /\ s.supported => s.center \in Nat /\ s.dispersion \in Nat \ {0}
<1> DEFINE M == Members(r, S, key)
           m == GroupMedians(r, M, f)
           c == Cardinality(GroupsOf(r, M))
<1>1. M \in SUBSET DOMAIN r
  BY SelectedThere
<1>2. Profile(r, S, key).features[f] = Statistics(m, c)
  BY DEF Profile
<1> HIDE DEF M
<1>3. Values(m, DOMAIN m)
  BY <1>1, MediansTyped
<1> HIDE DEF m, c
<1> QED
  BY <1>2, <1>3, StatisticsTyped

LEMMA SnapshotFits ==
  ASSUME IInv, NEW k \in DOMAIN snapshots
  PROVE  /\ snapshots[k].report # Null =>
              /\ snapshots[k].report \in Reports
              /\ WellFormed(snapshots[k].report)
              /\ snapshots[k].profiles = Fit(snapshots[k].report, Selected(snapshots[k].report))
         /\ snapshots[k].report = Null => snapshots[k].profiles = <<>>
<1>1. snapshots[k] \in Snapshot /\ Sound(snapshots, k, snapshots[k])
  BY DEF IInv, SInv
<1>2. snapshots[k].report \in Reports \cup {Null}
  BY <1>1 DEF Snapshot
<1> QED
  BY <1>1, <1>2, ReportsAssumption DEF Sound, FitOf

(* No source group drags a profile: the centre of a feature stays between  *)
(* the medians of the others.                                              *)
THEOREM NoDominance == Spec => []NoGroupDominates
<1>1. ASSUME IInv PROVE NoGroupDominates
  <2> SUFFICES ASSUME NEW n \in DOMAIN snapshots, NEW key \in DOMAIN snapshots[n].profiles,
                      NEW f \in Features
               PROVE  LET s == snapshots[n].profiles[key].features[f]
                          groups == DOMAIN s.medians
                      IN \A g \in groups :
                           Cardinality(groups) >= 3 =>
                             /\ \E h \in groups \ {g} : s.medians[h] <= s.center
                             /\ \E h \in groups \ {g} : s.medians[h] >= s.center
    BY DEF NoGroupDominates
  <2> DEFINE r == snapshots[n].report
             s == snapshots[n].profiles[key].features[f]
             groups == DOMAIN s.medians
  <2>1. r # Null
    <3>1. DOMAIN <<>> = {}
      OBVIOUS
    <3> QED
      BY <1>1, <3>1, SnapshotFits
  <2>2. WellFormed(r) /\ snapshots[n].profiles = Fit(r, Selected(r))
    BY <1>1, <2>1, SnapshotFits
  <2>3. snapshots[n].profiles[key] = Profile(r, Selected(r), key)
    BY <2>2 DEF Fit
  <2>4. Selected(r) \in SUBSET DOMAIN r
    BY SelectedThere
  <2> HIDE DEF r
  <2>5. Values(s.medians, groups) /\ (groups # {} => s.center = Median(s.medians))
    BY <2>2, <2>3, <2>4, ProfileTyped
  <2> HIDE DEF s
  <2>6. ASSUME NEW g \in groups, Cardinality(groups) >= 3
        PROVE  /\ \E h \in groups \ {g} : s.medians[h] <= s.center
               /\ \E h \in groups \ {g} : s.medians[h] >= s.center
    <3>1. groups # {}
      BY <2>6
    <3> QED
      BY <2>5, <2>6, <3>1, MedianBetween
  <2> QED
    BY <2>6 DEF s
<1> QED
  BY StudyInvariant, <1>1, PTL
-----------------------------------------------------------------------------
(* A query is scored by profiles that its group has no part in.            *)
LEMMA GroupsApart ==
  ASSUME NEW r, WellFormed(r), NEW e \in DOMAIN r
  PROVE  /\ r[e].kind # "missing" => r[e].group # Null
         /\ \A x \in DOMAIN r :
              /\ r[e].group # Null /\ r[x].group = r[e].group => r[x].role = r[e].role
              /\ r[x].group # r[e].group => r[x].receipts \cap r[e].receipts = {}
         /\ r[e].first \in DOMAIN r
         /\ LET y == r[r[e].first]
            IN y.first = r[e].first /\ y.kind = r[e].kind /\ y.group = r[e].group
<1>1. r[e].first \in 1..e /\ r \in Seq(Entry)
  BY DEF WellFormed
<1>2. r[e].first \in DOMAIN r
  BY <1>1
<1>3. /\ r[e].kind # "missing" => r[e].group # Null
      /\ \A x \in DOMAIN r :
           /\ r[e].group # Null /\ r[x].group = r[e].group => r[x].role = r[e].role
           /\ r[x].group # r[e].group => r[x].receipts \cap r[e].receipts = {}
  BY DEF WellFormed
<1>4. LET y == r[r[e].first]
      IN y.first = r[e].first /\ y.kind = r[e].kind /\ y.group = r[e].group
  BY DEF WellFormed
<1> QED
  BY <1>2, <1>3, <1>4

(* The profiles of an available query are fitted from entries of others.   *)
Others(r, e) == {x \in Selected(r) : r[x].group # r[e].group}

LEMMA ScoredByOthers ==
  ASSUME NEW r, WellFormed(r), NEW e \in DOMAIN r, NEW mode \in Modes \cup {"match"},
         Available(r, e, mode)
  PROVE  /\ ProfilesFor(r, e, mode, "provisional", Fit(r, Selected(r))) = Fit(r, Others(r, e))
         /\ Others(r, e) \in SUBSET Selected(r)
         /\ \A x \in Others(r, e) : r[x].group # r[e].group
<1>1. /\ r[e].kind = "response" /\ r[e].role \in QueryRoles(mode)
      /\ r[e].eligible /\ r[e].first = e
  BY DEF Available
<1>2. CASE mode = Fold
  <2>1. r[e].role = "training"
    BY <1>1, <1>2 DEF QueryRoles
  <2>2. r[e].group \in ResponseGroups(r, mode)
    BY <1>1, <1>2, <2>1 DEF ResponseGroups, Inventory
  <2>3. Refits(r, r[e].group, "provisional")
    BY <1>1 DEF Refits
  <2>4. ProfilesFor(r, e, mode, "provisional", Fit(r, Selected(r))) = Fit(r, Others(r, e))
    BY <1>2, <2>2, <2>3 DEF ProfilesFor, Refit, Others
  <2> QED
    BY <2>4 DEF Others
<1>3. CASE mode # Fold
  <2>1. r[e].role # "training"
    BY <1>1, <1>3 DEF QueryRoles
  <2>2. ASSUME NEW x \in Selected(r) PROVE r[x].group # r[e].group
    <3>1. x \in DOMAIN r /\ r[x].role = "training"
      BY DEF Selected, Votes
    <3>2. r[e].group # Null
      BY <1>1, GroupsApart
    <3> QED
      BY <2>1, <3>1, <3>2, GroupsApart
  <2>3. ProfilesFor(r, e, mode, "provisional", Fit(r, Selected(r))) = Fit(r, Selected(r))
    BY <1>3 DEF ProfilesFor
  <2>4. Others(r, e) = Selected(r)
    BY <2>2 DEF Others
  <2> QED
    BY <2>2, <2>3, <2>4
<1> QED
  BY <1>2, <1>3

LEMMA OthersDoNotOverlap ==
  ASSUME NEW r, WellFormed(r), NEW e \in DOMAIN r, NEW S \in SUBSET DOMAIN r,
         \A x \in S : r[x].group # r[e].group, NEW key
  PROVE  LET p == Profile(r, S, key)
         IN /\ r[e].group \notin p.groups
            /\ p.entries \subseteq S
            /\ \A x \in p.entries : r[x].receipts \cap r[e].receipts = {}
            /\ ~Overlapping(r, e, p)
<1> DEFINE M == Members(r, S, key)
           p == Profile(r, S, key)
<1>1. M \in SUBSET S
  BY SelectedThere
<1>2. p.groups = GroupsOf(r, M) /\ p.entries = M
  BY DEF Profile
<1> HIDE DEF M, p
<1>3. r[e].group \notin p.groups
  BY <1>1, <1>2 DEF GroupsOf
<1>4. \A x \in M : r[x].receipts \cap r[e].receipts = {}
  BY <1>1, GroupsApart
<1>5. Footprint(r, {r[e].group} \ {Null}) \cap Footprint(r, p.groups) = {}
  <2> SUFFICES ASSUME NEW t, t \in Footprint(r, {r[e].group} \ {Null}), t \in Footprint(r, p.groups)
               PROVE FALSE
    OBVIOUS
  <2>1. PICK y \in DOMAIN r : r[y].group = r[e].group /\ t \in r[y].receipts
    BY DEF Footprint
  <2>2. PICK z \in DOMAIN r : r[z].group \in p.groups /\ t \in r[z].receipts
    BY DEF Footprint
  <2>3. r[z].group # r[y].group
    BY <1>3, <2>1, <2>2
  <2>4. r[z].receipts \cap r[y].receipts = {}
    BY <2>3, GroupsApart
  <2> QED
    BY <2>1, <2>2, <2>4
<1>6. ~Overlapping(r, e, p)
  BY <1>3, <1>5 DEF Overlapping
<1> QED
  BY <1>1, <1>2, <1>3, <1>4, <1>6 DEF p

(* What the result's snapshot and report are when it may score.            *)
LEMMA ScoringFacts ==
  ASSUME IInv, result # Null, snapshots[result.snapshot].state = "provisional"
  PROVE  /\ result.report \in Reports /\ WellFormed(result.report)
         /\ snapshots[result.snapshot].profiles = Fit(result.report, Selected(result.report))
         /\ result.mode \in Modes \cup {"match"}
         /\ DOMAIN result.decisions \subseteq DOMAIN result.report
<1> DEFINE s == snapshots[result.snapshot]
<1>1. result.snapshot \in 1..Len(snapshots) /\ Answered(s, result)
  BY DEF IInv, ResultInv
<1>2. Usable(s)
  BY <1>1 DEF IInv, SInv, Sound
<1>3. s.report = result.report /\ s.report # Null
  BY <1>1, <1>2 DEF Usable, Answered
<1>4. result.snapshot \in DOMAIN snapshots
  BY <1>1 DEF IInv, SInv
<1> QED
  BY <1>1, <1>3, <1>4, SnapshotFits DEF Answered

(* Every query is scored by all usable profiles of its partition, and none *)
(* of them was fitted from its group or from a record it shares.           *)
THEOREM IndependentQueries == Spec => []QueriesIndependent
<1>1. ASSUME IInv PROVE QueriesIndependent
  <2> DEFINE r == result.report
             s == snapshots[result.snapshot]
             mode == result.mode
  <2> SUFFICES ASSUME result # Null, NEW e \in DOMAIN result.decisions,
                      s.state = "provisional", Available(r, e, mode)
               PROVE  LET profiles == ProfilesFor(r, e, mode, s.state, s.profiles)
                      IN \A key \in DOMAIN profiles :
                           key[1] = r[e].partition /\ profiles[key].provisional =>
                             /\ r[e].group \notin profiles[key].groups
                             /\ \A x \in profiles[key].entries : r[x].receipts \cap r[e].receipts = {}
                             /\ key \in Prequalified(r, e, profiles)
    BY DEF QueriesIndependent
  <2>1. /\ WellFormed(r) /\ s.profiles = Fit(r, Selected(r)) /\ e \in DOMAIN r
        /\ mode \in Modes \cup {"match"}
    BY <1>1, ScoringFacts
  <2> HIDE DEF r, mode
  <2>2. PICK S \in SUBSET Selected(r) :
          /\ ProfilesFor(r, e, mode, s.state, s.profiles) = Fit(r, S)
          /\ \A x \in S : r[x].group # r[e].group
    BY <2>1, ScoredByOthers
  <2>3. S \in SUBSET DOMAIN r
    BY SelectedThere
  <2>4. ASSUME NEW key \in DOMAIN Fit(r, S), key[1] = r[e].partition, Fit(r, S)[key].provisional
        PROVE  /\ r[e].group \notin Fit(r, S)[key].groups
               /\ \A x \in Fit(r, S)[key].entries : r[x].receipts \cap r[e].receipts = {}
               /\ key \in Prequalified(r, e, Fit(r, S))
    <3>1. Fit(r, S)[key] = Profile(r, S, key)
      BY DEF Fit
    <3>2. /\ r[e].group \notin Fit(r, S)[key].groups
          /\ \A x \in Fit(r, S)[key].entries : r[x].receipts \cap r[e].receipts = {}
          /\ ~Overlapping(r, e, Fit(r, S)[key])
      <4>1. /\ r[e].group \notin Profile(r, S, key).groups
            /\ Profile(r, S, key).entries \subseteq S
            /\ \A x \in Profile(r, S, key).entries : r[x].receipts \cap r[e].receipts = {}
            /\ ~Overlapping(r, e, Profile(r, S, key))
        BY <2>1, <2>2, <2>3, OthersDoNotOverlap
      <4> QED
        BY <3>1, <4>1, Zenon
    <3>3. key \in Prequalified(r, e, Fit(r, S))
      BY ONLY <2>4, <3>2, key \in DOMAIN Fit(r, S) DEF Prequalified
    <3> QED
      BY <3>2, <3>3
  <2>5. ASSUME NEW P, P = Fit(r, S)
        PROVE  \A key \in DOMAIN P :
                 key[1] = r[e].partition /\ P[key].provisional =>
                   /\ r[e].group \notin P[key].groups
                   /\ \A x \in P[key].entries : r[x].receipts \cap r[e].receipts = {}
                   /\ key \in Prequalified(r, e, P)
    BY <2>4, <2>5
  <2> QED
    BY <2>2, <2>5, Zenon
<1> QED
  BY StudyInvariant, <1>1, PTL
-----------------------------------------------------------------------------
(* Distances are fractions, which being closer orders.                     *)
Fraction == Nat \X (Nat \ {0})

LEMMA Products ==
  ASSUME NEW a \in Nat, NEW b \in Nat, NEW c \in Nat \ {0}
  PROVE  /\ a * b \in Nat
         /\ a <= b <=> a * c <= b * c
         /\ a # 0 => a * c # 0
  OBVIOUS

LEMMA Fractions ==
  ASSUME NEW x \in Fraction
  PROVE  \E a \in Nat, b \in Nat \ {0} : x = <<a, b>> /\ x[1] = a /\ x[2] = b
  BY DEF Fraction

LEMMA SumIsFraction ==
  ASSUME NEW x \in Fraction, NEW y \in Fraction
  PROVE  Sum(x, y) \in Fraction
<1>1. PICK a \in Nat, b \in Nat \ {0} : x[1] = a /\ x[2] = b
  BY Fractions
<1>2. PICK c \in Nat, d \in Nat \ {0} : y[1] = c /\ y[2] = d
  BY Fractions
<1>3. /\ a * d \in Nat /\ c * b \in Nat /\ b * d \in Nat /\ b * d # 0
  BY Products
<1>4. /\ <<a + c, b>> \in Fraction
      /\ <<a * d + c * b, b * d>> \in Fraction
  BY <1>3 DEF Fraction
<1> QED
  BY <1>1, <1>2, <1>4 DEF Sum

LEMMA CloserOrders ==
  ASSUME NEW x \in Fraction, NEW y \in Fraction
  PROVE  /\ Closer(x, x)
         /\ Closer(x, y) \/ Closer(y, x)
         /\ \A z \in Fraction : Closer(x, y) /\ Closer(y, z) => Closer(x, z)
<1>1. PICK a \in Nat, b \in Nat \ {0} : x[1] = a /\ x[2] = b
  BY Fractions
<1>2. PICK c \in Nat, d \in Nat \ {0} : y[1] = c /\ y[2] = d
  BY Fractions
<1>3. /\ a * b \in Nat /\ a * d \in Nat /\ c * b \in Nat
  BY Products
<1>4. Closer(x, x) /\ (Closer(x, y) \/ Closer(y, x))
  BY <1>1, <1>2, <1>3 DEF Closer
<1>5. ASSUME NEW z \in Fraction, Closer(x, y), Closer(y, z) PROVE Closer(x, z)
  <2>1. PICK e \in Nat, f \in Nat \ {0} : z[1] = e /\ z[2] = f
    BY Fractions
  <2>2. a * d <= c * b /\ c * f <= e * d
    BY <1>1, <1>2, <1>5, <2>1 DEF Closer
  <2>3. /\ a * d \in Nat /\ c * b \in Nat /\ c * f \in Nat /\ e * d \in Nat
        /\ a * f \in Nat /\ e * b \in Nat
    BY Products
  <2>4. (a * d) * f <= (c * b) * f
    BY <2>2, <2>3, Products
  <2>5. (c * f) * b <= (e * d) * b
    BY <2>2, <2>3, Products
  <2>6. /\ (a * d) * f = (a * f) * d
        /\ (c * b) * f = (c * f) * b
        /\ (e * d) * b = (e * b) * d
    OBVIOUS
  <2>7. (a * f) * d <= (e * b) * d
    <3>1. (a * f) * d \in Nat /\ (c * f) * b \in Nat /\ (e * b) * d \in Nat
      BY <2>3, Products
    <3> QED
      BY <2>4, <2>5, <2>6, <3>1
  <2>8. a * f <= e * b
    BY <2>3, <2>7, Products
  <2> QED
    BY <1>1, <2>1, <2>8 DEF Closer
<1> QED
  BY <1>4, <1>5

(* What leads by a quarter over the nearest of the others, leads so over   *)
(* all of them.                                                            *)
LEMMA LeadsAll ==
  ASSUME NEW x \in Fraction, NEW y \in Fraction, NEW z \in Fraction,
         ~TooClose(x, y), Closer(y, z)
  PROVE  Closer(Sum(x, <<1, 4>>), z)
<1>1. PICK a \in Nat, b \in Nat \ {0} : x[1] = a /\ x[2] = b
  BY Fractions
<1>2. PICK c \in Nat, d \in Nat \ {0} : y[1] = c /\ y[2] = d
  BY Fractions
<1>3. PICK e \in Nat, f \in Nat \ {0} : z[1] = e /\ z[2] = f
  BY Fractions
<1>4. /\ a * d \in Nat /\ b * d \in Nat /\ c * b \in Nat /\ c * f \in Nat /\ e * d \in Nat
      /\ a * f \in Nat /\ b * f \in Nat /\ e * b \in Nat
  BY Products
<1>5. 4 * (a * d) + b * d <= 4 * (c * b)
  BY <1>1, <1>2, <1>4 DEF TooClose
<1>6. c * f <= e * d
  BY <1>2, <1>3 DEF Closer
<1> DEFINE adf == (a * d) * f
           bdf == (b * d) * f
           cbf == (c * b) * f
           edb == (e * d) * b
<1>7. adf \in Nat /\ bdf \in Nat /\ cbf \in Nat /\ edb \in Nat
  BY <1>4, Products
<1>8. 4 * adf + bdf <= 4 * cbf
  <2>1. 4 * (a * d) + b * d \in Nat /\ 4 * (c * b) \in Nat
    BY <1>4
  <2>2. (4 * (a * d) + b * d) * f <= (4 * (c * b)) * f
    BY <1>5, <2>1, Products
  <2>3. (4 * (a * d) + b * d) * f = 4 * adf + bdf /\ (4 * (c * b)) * f = 4 * cbf
    OBVIOUS
  <2> QED
    BY <2>2, <2>3
<1>9. cbf <= edb
  <2>1. (c * f) * b <= (e * d) * b
    BY <1>4, <1>6, Products
  <2>2. (c * f) * b = cbf
    OBVIOUS
  <2> QED
    BY <2>1, <2>2
<1>10. /\ adf = (a * f) * d /\ bdf = (b * f) * d /\ edb = (e * b) * d
  OBVIOUS
<1> HIDE DEF adf, bdf, cbf, edb
<1>11. 4 * ((a * f) * d) + (b * f) * d <= 4 * ((e * b) * d)
  BY <1>7, <1>8, <1>9, <1>10
<1>12. (4 * (a * f) + b * f) * d <= (4 * (e * b)) * d
  BY <1>11
<1>13. 4 * (a * f) + b * f <= 4 * (e * b)
  <2>1. 4 * (a * f) + b * f \in Nat /\ 4 * (e * b) \in Nat
    BY <1>4
  <2> QED
    BY <1>12, <2>1, Products
<1>14. CASE b = 4
  <2>1. Sum(x, <<1, 4>>) = <<a + 1, 4>>
    BY <1>1, <1>14 DEF Sum
  <2>2. (a + 1) * f <= e * 4
    BY <1>4, <1>13, <1>14
  <2> QED
    BY <1>3, <2>1, <2>2 DEF Closer
<1>15. CASE b # 4
  <2>1. Sum(x, <<1, 4>>) = <<a * 4 + b, b * 4>>
    BY <1>1, <1>15 DEF Sum
  <2>2. (a * 4 + b) * f <= e * (b * 4)
    BY <1>4, <1>13
  <2> QED
    BY <1>3, <2>1, <2>2 DEF Closer
<1> QED
  BY <1>14, <1>15

(* Of finitely many distances one is the nearest.                          *)
LEMMA NearestThere ==
  ASSUME NEW d, NEW K, IsFiniteSet(K), K # {}, \A key \in K : d[key] \in Fraction
  PROVE  /\ Nearest(d, K) \in K
         /\ \A other \in K : Closer(d[Nearest(d, K)], d[other])
<1> DEFINE Least(T, m) == \A o \in T : Closer(d[m], d[o])
           P == {T \in SUBSET K : T = {} \/ \E m \in T : Least(T, m)}
<1>1. {} \in P
  OBVIOUS
<1>2. ASSUME NEW T \in P, NEW x \in K PROVE T \cup {x} \in P
  <2>1. Closer(d[x], d[x])
    BY CloserOrders
  <2>2. CASE T = {}
    BY <2>1, <2>2
  <2>3. CASE T # {}
    <3>1. PICK m \in T : Least(T, m)
      BY <2>3
    <3>2. m \in K /\ T \in SUBSET K
      OBVIOUS
    <3>3. CASE Closer(d[m], d[x])
      <4>1. Least(T \cup {x}, m)
        BY <3>1, <3>3
      <4> QED
        BY <4>1
    <3>4. CASE Closer(d[x], d[m])
      <4>1. ASSUME NEW o \in T PROVE Closer(d[x], d[o])
        <5>1. Closer(d[m], d[o]) /\ d[m] \in Fraction /\ d[o] \in Fraction /\ d[x] \in Fraction
          BY <3>1, <3>2
        <5> QED
          BY <3>4, <5>1, CloserOrders
      <4>2. Least(T \cup {x}, x)
        BY <2>1, <4>1
      <4> QED
        BY <4>2
    <3> QED
      BY <3>2, <3>3, <3>4, CloserOrders
  <2> QED
    BY <2>2, <2>3
<1>3. K \in P
  <2>1. P \in SUBSET SUBSET K
    OBVIOUS
  <2> HIDE DEF P
  <2> QED
    BY <1>1, <1>2, <2>1, SubsetInduction
<1>4. \E m \in K : Least(K, m)
  BY <1>3
<1>5. Nearest(d, K) = CHOOSE m \in K : Least(K, m)
  BY DEF Nearest
<1> HIDE DEF Least
<1>6. Nearest(d, K) \in K /\ Least(K, Nearest(d, K))
  BY <1>4, <1>5
<1> QED
  BY <1>6 DEF Least
-----------------------------------------------------------------------------
(* A total of fractions is one, in whatever order they are added.          *)
LEMMA TotalIsFraction ==
  ASSUME NEW D, IsFiniteSet(D), NEW terms, DOMAIN terms = D, \A x \in D : terms[x] \in Fraction
  PROVE  Total(terms) \in Fraction
<1> DEFINE pick(T) == CHOOSE x \in T : TRUE
           Step(g, T) == IF T = {} THEN <<0, 1>> ELSE Sum(terms[pick(T)], g[T \ {pick(T)}])
           Small(n) == {T \in SUBSET D : Cardinality(T) <= n}
           Def(g, n) == \A T \in Small(n) : g[T] = Step(g, T)
           S == {n \in Nat : \E g \in [Small(n) -> Fraction] : Def(g, n)}
<1>0. \A T \in SUBSET D : IsFiniteSet(T) /\ Cardinality(T) \in Nat
  BY FS_Subset, FS_CardinalityType
<1>1. <<0, 1>> \in Fraction
  BY DEF Fraction
<1>2. ASSUME NEW T \in SUBSET D, T # {}
      PROVE  /\ pick(T) \in T /\ terms[pick(T)] \in Fraction
             /\ T \ {pick(T)} \in SUBSET D
             /\ Cardinality(T \ {pick(T)}) = Cardinality(T) - 1 /\ Cardinality(T) # 0
  <2>1. pick(T) \in T
    BY <1>2
  <2> HIDE DEF pick
  <2>2. IsFiniteSet(T)
    BY <1>0
  <2>3. Cardinality(T \ {pick(T)}) = Cardinality(T) - 1
    BY <2>1, <2>2, FS_RemoveElement
  <2>4. Cardinality(T) # 0
    BY <1>2, <2>2, FS_EmptySet
  <2> QED
    BY <2>1, <2>3, <2>4
<1> HIDE DEF pick
<1>3. 0 \in S
  <2> DEFINE g == [T \in Small(0) |-> <<0, 1>>]
  <2>1. ASSUME NEW T \in Small(0) PROVE T = {}
    <3>1. T \in SUBSET D /\ Cardinality(T) <= 0
      OBVIOUS
    <3> QED
      BY <1>0, <3>1, FS_EmptySet
  <2>2. g \in [Small(0) -> Fraction] /\ Def(g, 0)
    BY <1>1, <2>1
  <2> QED
    BY <2>2
<1>4. ASSUME NEW n \in S PROVE n + 1 \in S
  <2>1. n \in Nat /\ \E g \in [Small(n) -> Fraction] : Def(g, n)
    OBVIOUS
  <2>2. PICK g \in [Small(n) -> Fraction] : Def(g, n)
    BY <2>1
  <2> DEFINE h == [T \in Small(n + 1) |-> Step(g, T)]
  <2>3. ASSUME NEW T \in Small(n + 1), T # {} PROVE T \ {pick(T)} \in Small(n)
    <3>1. T \in SUBSET D /\ Cardinality(T) <= n + 1 /\ Cardinality(T) \in Nat
      BY <1>0
    <3>2. T \ {pick(T)} \in SUBSET D /\ Cardinality(T \ {pick(T)}) = Cardinality(T) - 1
      BY <1>2, <2>3, <3>1
    <3> QED
      BY <2>1, <3>1, <3>2
  <2>4. ASSUME NEW T \in Small(n + 1) PROVE Step(g, T) \in Fraction
    <3>1. CASE T = {}
      BY <1>1, <3>1
    <3>2. CASE T # {}
      <4>1. T \ {pick(T)} \in Small(n) /\ terms[pick(T)] \in Fraction
        BY <1>2, <2>3, <3>2
      <4>2. g[T \ {pick(T)}] \in Fraction
        BY <2>2, <4>1
      <4>3. Sum(terms[pick(T)], g[T \ {pick(T)}]) \in Fraction
        BY <4>1, <4>2, SumIsFraction
      <4> QED
        BY <3>2, <4>3
    <3> QED
      BY <3>1, <3>2
  <2>5. ASSUME NEW T \in Small(n) PROVE T \in Small(n + 1) /\ h[T] = g[T]
    <3>1. T \in SUBSET D /\ Cardinality(T) <= n /\ Cardinality(T) \in Nat
      BY <1>0
    <3>2. T \in Small(n + 1)
      BY <2>1, <3>1
    <3>3. g[T] = Step(g, T)
      BY <2>2
    <3> HIDE DEF Step, Small
    <3> QED
      BY <3>2, <3>3
  <2>6. ASSUME NEW T \in Small(n + 1) PROVE h[T] = Step(h, T)
    <3>1. h[T] = Step(g, T)
      OBVIOUS
    <3>2. CASE T = {}
      BY <3>1, <3>2
    <3>3. CASE T # {}
      <4>1. h[T \ {pick(T)}] = g[T \ {pick(T)}]
        BY <2>3, <2>5, <3>3
      <4> HIDE DEF h
      <4> QED
        BY <3>1, <3>3, <4>1
    <3> QED
      BY <3>2, <3>3
  <2>7. h \in [Small(n + 1) -> Fraction]
    <3> HIDE DEF Step, Small
    <3> QED
      BY <2>4
  <2> HIDE DEF h, Step
  <2>8. \E w \in [Small(n + 1) -> Fraction] : Def(w, n + 1)
    BY <2>6, <2>7
  <2> HIDE DEF Small, Def
  <2> QED
    BY <2>1, <2>8
<1>5. S = Nat
  <2>1. S \in SUBSET Nat
    OBVIOUS
  <2> HIDE DEF S
  <2> QED
    BY <1>3, <1>4, <2>1, SetInduction
<1> DEFINE N == Cardinality(D)
<1>6. N \in Nat /\ Small(N) = SUBSET D
  <2>1. N \in Nat /\ \A T \in SUBSET D : Cardinality(T) <= N
    BY FS_Subset, FS_CardinalityType
  <2> QED
    BY <2>1
<1> DEFINE Whole(g) == g = [T \in SUBSET D |-> Step(g, T)]
           total == CHOOSE g : Whole(g)
<1>7. \E g : Whole(g)
  <2>1. PICK g \in [Small(N) -> Fraction] : Def(g, N)
    BY <1>5, <1>6
  <2> HIDE DEF N, Step
  <2>2. g \in [SUBSET D -> Fraction] /\ \A T \in SUBSET D : g[T] = Step(g, T)
    BY <1>6, <2>1
  <2>3. g = [T \in SUBSET D |-> Step(g, T)]
    BY <2>2
  <2> QED
    BY <2>3
<1>8. Whole(total)
  <2> HIDE DEF Whole
  <2> QED
    BY <1>7
<1>9. Total(terms) = total[D]
  BY DEF Total, pick
<1> HIDE DEF total
<1> DEFINE R == {n \in Nat : \A T \in SUBSET D : Cardinality(T) = n => total[T] \in Fraction}
<1>10. \A T \in SUBSET D : total[T] = Step(total, T)
  <2> HIDE DEF Step
  <2> QED
    BY <1>8
<1>11. 0 \in R
  <2> SUFFICES ASSUME NEW T \in SUBSET D, Cardinality(T) = 0 PROVE total[T] \in Fraction
    OBVIOUS
  <2>1. T = {}
    BY <1>0, FS_EmptySet
  <2> QED
    BY <1>1, <1>10, <2>1
<1>12. ASSUME NEW n \in R PROVE n + 1 \in R
  <2> SUFFICES ASSUME NEW T \in SUBSET D, Cardinality(T) = n + 1 PROVE total[T] \in Fraction
    OBVIOUS
  <2>1. n \in Nat /\ \A U \in SUBSET D : Cardinality(U) = n => total[U] \in Fraction
    OBVIOUS
  <2>2. T # {}
    <3>1. n + 1 # 0
      BY <2>1
    <3> QED
      BY <3>1, FS_EmptySet
  <2>3. /\ terms[pick(T)] \in Fraction /\ T \ {pick(T)} \in SUBSET D
        /\ Cardinality(T \ {pick(T)}) = (n + 1) - 1
    BY <1>2, <2>2
  <2>4. total[T \ {pick(T)}] \in Fraction
    BY <2>1, <2>3
  <2>5. total[T] = Sum(terms[pick(T)], total[T \ {pick(T)}])
    BY <1>10, <2>2
  <2> QED
    BY <2>3, <2>4, <2>5, SumIsFraction
<1>13. R = Nat
  <2>1. R \in SUBSET Nat
    OBVIOUS
  <2> HIDE DEF R
  <2> QED
    BY <1>11, <1>12, <2>1, SetInduction
<1>14. total[D] \in Fraction
  <2>1. N \in R
    BY <1>6, <1>13
  <2> QED
    BY <2>1
<1> QED
  BY <1>9, <1>14
-----------------------------------------------------------------------------
(* A query is compared with a profile on features that both have, so its   *)
(* distance is a fraction.                                                 *)
LEMMA DistanceIsFraction ==
  ASSUME NEW values, NEW p, NEW C \in SUBSET Features, C # {},
         \A f \in C : /\ values[f] \in Nat
                      /\ p.features[f].center \in Nat
                      /\ p.features[f].dispersion \in Nat \ {0}
  PROVE  Distance(values, p, C) \in Fraction
<1> DEFINE terms == [f \in C |-> Term(values[f], p.features[f])]
<1>1. IsFiniteSet(C)
  BY FitAssumption, FS_Subset
<1>2. \A f \in C : terms[f] \in Fraction
  BY DEF Term, Deviation, Fraction
<1>3. DOMAIN terms = C
  OBVIOUS
<1>4. Total(terms) \in Fraction
  <2> HIDE DEF terms
  <2> QED
    BY <1>1, <1>2, <1>3, TotalIsFraction
<1>5. Distance(values, p, C) = <<Total(terms)[1], Total(terms)[2] * Cardinality(C)>>
  BY DEF Distance
<1> HIDE DEF terms
<1>6. PICK a \in Nat, b \in Nat \ {0} : Total(terms)[1] = a /\ Total(terms)[2] = b
  BY <1>4, Fractions
<1>7. Cardinality(C) \in Nat \ {0}
  BY <1>1, FS_EmptySet, FS_CardinalityType
<1>8. b * Cardinality(C) \in Nat /\ b * Cardinality(C) # 0
  BY <1>7, Products
<1> QED
  BY <1>5, <1>6, <1>8 DEF Fraction

(* What a ranking that names a label rests on.                             *)
LEMMA RankingEarned ==
  ASSUME NEW d, NEW c, IsFiniteSet(DOMAIN d), DOMAIN d # {},
         \A key \in DOMAIN d : d[key] \in Fraction,
         Ranking(d, c).label # Null
  PROVE  /\ Ranking(d, c).distances = d
         /\ \E best \in DOMAIN d :
              /\ best[2] = Ranking(d, c).label
              /\ ~TooFar(d[best])
              /\ DOMAIN d # {best}
              /\ \A other \in DOMAIN d \ {best} : Closer(Sum(d[best], <<1, 4>>), d[other])
<1> DEFINE best == Nearest(d, DOMAIN d)
           rest == DOMAIN d \ {best}
           next == Nearest(d, rest)
<1>1. best \in DOMAIN d
  BY NearestThere
<1>2. /\ Ranking(d, c).label = best[2] /\ Ranking(d, c).distances = d
      /\ rest # {} /\ ~TooFar(d[best]) /\ ~TooClose(d[best], d[next])
  BY DEF Ranking
<1>3. IsFiniteSet(rest) /\ rest \subseteq DOMAIN d
  BY FS_RemoveElement
<1> HIDE DEF best
<1>4. next \in rest /\ \A other \in rest : Closer(d[next], d[other])
  <2> HIDE DEF rest
  <2> QED
    BY <1>2, <1>3, NearestThere
<1> HIDE DEF next
<1>5. ASSUME NEW other \in rest PROVE Closer(Sum(d[best], <<1, 4>>), d[other])
  <2>1. d[best] \in Fraction /\ d[next] \in Fraction /\ d[other] \in Fraction
    BY <1>1, <1>3, <1>4
  <2> QED
    BY <1>2, <1>4, <2>1, LeadsAll
<1>6. DOMAIN d # {best}
  BY <1>2
<1> QED
  BY <1>1, <1>2, <1>5, <1>6

(* So does a decision: its label is the nearest profile's, within three    *)
(* dispersions and ahead of every other label of the partition.            *)
Earned(d, label) ==
  \E key \in DOMAIN d :
    /\ key[2] = label /\ ~TooFar(d[key])
    /\ DOMAIN d # {key}
    /\ \A other \in DOMAIN d \ {key} :
         other[2] # label /\ Closer(Sum(d[key], <<1, 4>>), d[other])

LEMMA KeysFinite ==
  ASSUME NEW r, WellFormed(r)
  PROVE  IsFiniteSet(Keys(r)) /\ \A k \in Keys(r) : k = <<k[1], k[2]>>
<1> DEFINE X == {x \in DOMAIN r : r[x].kind = "response" /\ r[x].role = "training" /\ r[x].label # Null}
           G == [e \in X |-> Key(r, e)]
<1>1. Keys(r) = {G[e] : e \in X}
  BY DEF Keys
<1>2. IsFiniteSet(X)
  <2> X \in SUBSET DOMAIN r
    OBVIOUS
  <2> HIDE DEF X
  <2> QED
    BY ReportFacts, FS_Subset
<1>3. G \in Surjection(X, {G[e] : e \in X})
  BY DEF Surjection
<1>4. \A k \in Keys(r) : k = <<k[1], k[2]>>
  BY DEF Keys, Key
<1> HIDE DEF G, X
<1>5. IsFiniteSet({G[e] : e \in X})
  BY <1>2, <1>3, FS_Surjection
<1> QED
  BY <1>1, <1>4, <1>5

LEMMA DecisionEarned ==
  ASSUME NEW r, WellFormed(r), NEW e \in DOMAIN r, NEW mode, NEW state,
         NEW S \in SUBSET DOMAIN r,
         Decision(r, e, mode, state, Fit(r, S)).label # Null
  PROVE  /\ state = "provisional" /\ Available(r, e, mode)
         /\ Earned(Decision(r, e, mode, state, Fit(r, S)).distances,
                   Decision(r, e, mode, state, Fit(r, S)).label)
<1> DEFINE P == Fit(r, S)
           keys == Prequalified(r, e, P)
           C == Common(r, e, P, keys)
           values == QueryValues(r, e, mode, state)
           d == [key \in keys |-> Distance(values, P[key], C)]
           D == Decision(r, e, mode, state, P)
<1>1. /\ state = "provisional" /\ Available(r, e, mode)
      /\ keys # {} /\ FullCoverage(Cardinality(C))
      /\ D = Ranking(d, C)
  BY DEF Decision, Unknown
<1>2. values = r[e].values
  BY <1>1 DEF QueryValues
<1>3. /\ keys \subseteq Keys(r) /\ DOMAIN d = keys
      /\ \A key \in keys : key[1] = r[e].partition /\ P[key] = Profile(r, S, key)
  BY DEF Prequalified, Fit
<1>4. /\ C \in SUBSET Features
      /\ \A f \in C : /\ r[e].values[f] # Null
                      /\ \A key \in keys : P[key].features[f].supported
  BY DEF Common, Measured
<1>5. C # {}
  BY <1>1, FS_EmptySet, FitAssumption DEF FullCoverage
<1>6. IsFiniteSet(keys)
  BY <1>3, KeysFinite, FS_Subset
<1> HIDE DEF P, keys, C, values
<1>7. ASSUME NEW key \in keys PROVE Distance(values, P[key], C) \in Fraction
  <2>1. ASSUME NEW f \in C
        PROVE  /\ values[f] \in Nat
               /\ P[key].features[f].center \in Nat
               /\ P[key].features[f].dispersion \in Nat \ {0}
    <3>1. values[f] \in Nat
      BY <1>2, <1>4, ReportFacts
    <3>2. P[key].features[f].supported /\ P[key] = Profile(r, S, key) /\ f \in Features
      BY <1>3, <1>4
    <3>3. Profile(r, S, key).features[f].supported =>
            /\ Profile(r, S, key).features[f].center \in Nat
            /\ Profile(r, S, key).features[f].dispersion \in Nat \ {0}
      BY <3>2, ProfileTyped
    <3> QED
      BY <3>1, <3>2, <3>3
  <2> QED
    BY <1>4, <1>5, <2>1, DistanceIsFraction
<1>8. \A key \in DOMAIN d : d[key] \in Fraction
  BY <1>7
<1> HIDE DEF d
<1>9. Ranking(d, C).label # Null
  BY <1>1 DEF P
<1>10. PICK best \in DOMAIN d :
         /\ best[2] = Ranking(d, C).label
         /\ ~TooFar(d[best])
         /\ DOMAIN d # {best}
         /\ \A other \in DOMAIN d \ {best} : Closer(Sum(d[best], <<1, 4>>), d[other])
  BY <1>1, <1>3, <1>6, <1>8, <1>9, RankingEarned
<1>11. Ranking(d, C).distances = d
  BY DEF Ranking
<1>12. ASSUME NEW other \in DOMAIN d \ {best} PROVE other[2] # Ranking(d, C).label
  <2>1. /\ other \in Keys(r) /\ best \in Keys(r)
        /\ other[1] = best[1] /\ other # best
    BY <1>3
  <2>2. other = <<other[1], other[2]>> /\ best = <<best[1], best[2]>>
    BY <2>1, KeysFinite
  <2>3. other[2] # best[2]
    BY <2>1, <2>2
  <2> QED
    BY <1>10, <2>3
<1>13. Earned(d, Ranking(d, C).label)
  BY <1>10, <1>12 DEF Earned
<1> QED
  BY <1>1, <1>11, <1>13 DEF P
-----------------------------------------------------------------------------
(* Every group that is evaluated has a window that is no copy.             *)
LEMMA GroupRepresented ==
  ASSUME NEW r, WellFormed(r), NEW mode, NEW D, NEW g \in ResponseGroups(r, mode)
  PROVE  Outcome(r, mode, D, g).reps # {}
<1> DEFINE reps == {e \in Inventory(r, mode) : /\ r[e].group = g /\ r[e].kind = "response"
                                               /\ r[e].first = e}
<1>1. Outcome(r, mode, D, g).reps = reps
  BY DEF Outcome
<1>2. PICK x \in Inventory(r, mode) : r[x].kind = "response" /\ r[x].group = g
  BY DEF ResponseGroups
<1>3. x \in DOMAIN r /\ r[x].role = (IF mode = Fold THEN "training" ELSE mode)
  BY DEF Inventory
<1> DEFINE y == r[x].first
<1>4. y \in DOMAIN r /\ r[y].first = y /\ r[y].kind = "response" /\ r[y].group = g
  BY <1>2, <1>3, GroupsApart
<1>5. g # Null
  BY <1>2, <1>3, GroupsApart
<1> HIDE DEF y
<1>6. r[y].role = r[x].role
  BY <1>2, <1>3, <1>4, <1>5, GroupsApart
<1>7. y \in reps
  BY <1>3, <1>4, <1>6 DEF Inventory
<1> QED
  BY <1>1, <1>7

(* A group is given a label, or known to have it, exactly if all of its    *)
(* representatives are.                                                    *)
LEMMA OutcomeMeans ==
  ASSUME NEW r, WellFormed(r), NEW mode, NEW D, NEW g,
         Outcome(r, mode, D, g).reps # {}
  PROVE  LET o == Outcome(r, mode, D, g)
         IN /\ o.predicted # Null => \A e \in o.reps : D[e].label = o.predicted
            /\ o.truth # Null /\ o.predicted = o.truth
                 <=> /\ o.predicted # Null
                     /\ \A e \in o.reps : r[e].confirmed /\ r[e].label = o.predicted
<1> DEFINE o == Outcome(r, mode, D, g)
           reps == {e \in Inventory(r, mode) : /\ r[e].group = g /\ r[e].kind = "response"
                                               /\ r[e].first = e}
           labels == {r[e].label : e \in reps}
           votes == {D[e].label : e \in reps}
           known == /\ \A e \in reps : r[e].label # Null /\ r[e].confirmed
                    /\ Cardinality(labels) = 1
           one == Null \notin votes /\ Cardinality(votes) = 1
<1>1. /\ o.reps = reps
      /\ o.truth = IF known THEN CHOOSE l \in labels : TRUE ELSE Null
      /\ o.predicted = IF one THEN CHOOSE l \in votes : TRUE ELSE Null
  BY DEF Outcome
<1>2. IsFiniteSet(reps) /\ reps # {}
  <2>1. reps \in SUBSET DOMAIN r
    BY DEF Inventory
  <2> HIDE DEF reps
  <2> QED
    BY <1>1, <2>1, ReportFacts, FS_Subset
<1> HIDE DEF o, reps
<1>3. IsFiniteSet(labels) /\ IsFiniteSet(votes)
  <2> DEFINE F == [e \in reps |-> r[e].label]
             G == [e \in reps |-> D[e].label]
  <2>1. labels = {F[e] : e \in reps} /\ votes = {G[e] : e \in reps}
    OBVIOUS
  <2>2. /\ DOMAIN F = reps /\ F = [e \in reps |-> F[e]]
        /\ DOMAIN G = reps /\ G = [e \in reps |-> G[e]]
    OBVIOUS
  <2> HIDE DEF F, G
  <2>3. IsFiniteSet({F[e] : e \in reps}) /\ IsFiniteSet({G[e] : e \in reps})
    BY <1>2, <2>2, FiniteImage
  <2> QED
    BY <2>1, <2>3
<1>4. ASSUME NEW A, IsFiniteSet(A), Cardinality(A) = 1
      PROVE  \A l \in A : l = CHOOSE x \in A : TRUE
  <2>1. PICK x : A = {x}
    BY <1>4, FS_Singleton
  <2> QED
    BY <2>1
<1>5. o.predicted # Null => \A e \in reps : D[e].label = o.predicted
  <2> SUFFICES ASSUME o.predicted # Null, NEW e \in reps PROVE D[e].label = o.predicted
    OBVIOUS
  <2>1. one /\ o.predicted = CHOOSE l \in votes : TRUE
    BY <1>1
  <2>2. D[e].label \in votes
    OBVIOUS
  <2> HIDE DEF votes
  <2> QED
    BY <1>3, <1>4, <2>1, <2>2
<1>6. ASSUME o.truth # Null, o.predicted = o.truth
      PROVE  o.predicted # Null /\ \A e \in reps : r[e].confirmed /\ r[e].label = o.predicted
  <2>1. known /\ o.truth = CHOOSE l \in labels : TRUE
    BY <1>1, <1>6
  <2>2. ASSUME NEW e \in reps PROVE r[e].label = o.truth
    <3>1. r[e].label \in labels
      OBVIOUS
    <3> HIDE DEF labels
    <3> QED
      BY <1>3, <1>4, <2>1, <3>1
  <2> QED
    BY <1>6, <2>1, <2>2
<1>7. ASSUME o.predicted # Null, \A e \in reps : r[e].confirmed /\ r[e].label = o.predicted
      PROVE  o.truth # Null /\ o.predicted = o.truth
  <2>1. labels = {o.predicted}
    BY <1>2, <1>7
  <2>2. Cardinality(labels) = 1
    BY <2>1, FS_Singleton
  <2>3. known
    BY <1>7, <2>2
  <2>4. o.truth = o.predicted
    BY <1>1, <2>1, <2>3
  <2> QED
    BY <1>7, <2>4
<1> QED
  BY <1>1, <1>5, <1>6, <1>7 DEF o

(* What summarize counts is what the groups' windows say.                  *)
LEMMA CorrectCounted ==
  ASSUME NEW r, WellFormed(r), NEW mode, NEW D, NEW o, o = Outcomes(r, mode, D)
  PROVE  Totals(r, mode, o).correct =
           Cardinality({g \in DOMAIN o : /\ o[g].predicted # Null
                                         /\ \A e \in o[g].reps : /\ r[e].confirmed
                                                                 /\ r[e].label = o[g].predicted})
<1>1. DOMAIN o = ResponseGroups(r, mode) /\ \A g \in DOMAIN o : o[g] = Outcome(r, mode, D, g)
  BY DEF Outcomes
<1>2. \A g \in DOMAIN o :
        o[g].truth # Null /\ o[g].predicted = o[g].truth
          <=> /\ o[g].predicted # Null
              /\ \A e \in o[g].reps : r[e].confirmed /\ r[e].label = o[g].predicted
  BY <1>1, GroupRepresented, OutcomeMeans
<1>3. Totals(r, mode, o).correct =
        Cardinality({g \in {h \in DOMAIN o : o[h].truth # Null} : o[g].predicted = o[g].truth})
  BY DEF Totals
<1>4. {g \in {h \in DOMAIN o : o[h].truth # Null} : o[g].predicted = o[g].truth}
        = {g \in DOMAIN o : o[g].truth # Null /\ o[g].predicted = o[g].truth}
  OBVIOUS
<1>5. {g \in DOMAIN o : o[g].truth # Null /\ o[g].predicted = o[g].truth}
        = {g \in DOMAIN o : /\ o[g].predicted # Null
                            /\ \A e \in o[g].reps : r[e].confirmed /\ r[e].label = o[g].predicted}
  BY <1>2, Zenon
<1> QED
  BY <1>3, <1>4, <1>5

(* A label is only given by a provisional snapshot to an available query.  *)
LEMMA LabelNeedsQuery ==
  ASSUME NEW r, NEW e, NEW mode, NEW state, NEW profiles,
         Decision(r, e, mode, state, profiles).label # Null
  PROVE  state = "provisional" /\ Available(r, e, mode)
<1>1. ASSUME state # "provisional" PROVE FALSE
  BY <1>1, LabelNeedsState
<1>2. ASSUME ~Available(r, e, mode) PROVE FALSE
  BY <1>2 DEF Decision, Unknown
<1> QED
  BY <1>1, <1>2

LEMMA EvaluatedCounted ==
  ASSUME NEW r, WellFormed(r), NEW mode, NEW D, NEW o, o = Outcomes(r, mode, D)
  PROVE  Totals(r, mode, o).evaluated =
           Cardinality(UNION {o[g].reps : g \in DOMAIN o}) + Totals(r, mode, o).duplicates
           + Cardinality({e \in Inventory(r, mode) : r[e].kind # "response" /\ r[e].first = e})
<1> DEFINE I == Inventory(r, mode)
           A == UNION {o[g].reps : g \in DOMAIN o}
           B == {e \in I : r[e].first # e}
           C == {e \in I : r[e].kind # "response" /\ r[e].first = e}
<1>1. Totals(r, mode, o).evaluated = Cardinality(I) /\ Totals(r, mode, o).duplicates = Cardinality(B)
  BY DEF Totals
<1>2. DOMAIN o = ResponseGroups(r, mode) /\ \A g \in DOMAIN o : o[g] = Outcome(r, mode, D, g)
  BY DEF Outcomes
<1>3. \A g \in DOMAIN o :
        o[g].reps = {e \in I : r[e].group = g /\ r[e].kind = "response" /\ r[e].first = e}
  <2>1. ASSUME NEW g
        PROVE  Outcome(r, mode, D, g).reps
                 = {e \in I : r[e].group = g /\ r[e].kind = "response" /\ r[e].first = e}
    BY DEF Outcome
  <2> HIDE DEF I
  <2> QED
    BY <1>2, <2>1, Zenon
<1>4. \A e \in I : r[e].kind = "response" => r[e].group \in DOMAIN o
  BY <1>2 DEF ResponseGroups
<1>5. \A e : e \in A <=> e \in I /\ r[e].kind = "response" /\ r[e].first = e
  <2>1. ASSUME NEW e \in A PROVE e \in I /\ r[e].kind = "response" /\ r[e].first = e
    BY <1>3
  <2>2. ASSUME NEW e \in I, r[e].kind = "response", r[e].first = e PROVE e \in A
    <3>1. e \in o[r[e].group].reps /\ r[e].group \in DOMAIN o
      BY <1>3, <1>4, <2>2
    <3> QED
      BY <3>1
  <2> QED
    BY <2>1, <2>2
<1>6. IsFiniteSet(I)
  <2> I \in SUBSET DOMAIN r
    BY DEF Inventory
  <2> HIDE DEF I
  <2> QED
    BY ReportFacts, FS_Subset
<1> HIDE DEF I, A
<1>7. /\ I = (A \cup B) \cup C /\ A \cap B = {} /\ (A \cup B) \cap C = {}
      /\ A \in SUBSET I /\ B \in SUBSET I /\ C \in SUBSET I
  BY <1>5
<1> HIDE DEF B, C
<1>8. /\ IsFiniteSet(A) /\ IsFiniteSet(B) /\ IsFiniteSet(C)
      /\ Cardinality(A) \in Nat /\ Cardinality(B) \in Nat /\ Cardinality(C) \in Nat
  BY <1>6, <1>7, FS_Subset, FS_CardinalityType
<1>9. IsFiniteSet(A \cup B) /\ Cardinality(A \cup B) = Cardinality(A) + Cardinality(B)
  <2>1. /\ IsFiniteSet(A \cup B)
        /\ Cardinality(A \cup B) = Cardinality(A) + Cardinality(B) - Cardinality(A \cap B)
    BY <1>8, FS_Union
  <2>2. Cardinality(A \cap B) = 0
    BY <1>7, FS_EmptySet
  <2> QED
    BY <1>8, <2>1, <2>2
<1>10. Cardinality(I) = Cardinality(A \cup B) + Cardinality(C)
  <2>1. Cardinality((A \cup B) \cup C) =
          Cardinality(A \cup B) + Cardinality(C) - Cardinality((A \cup B) \cap C)
    BY <1>8, <1>9, FS_Union
  <2>2. Cardinality((A \cup B) \cap C) = 0
    BY <1>7, FS_EmptySet
  <2>3. Cardinality(I) = Cardinality((A \cup B) \cup C)
    BY <1>7, Zenon
  <2> QED
    BY <1>8, <1>9, <2>1, <2>2, <2>3
<1> QED
  BY <1>1, <1>8, <1>9, <1>10 DEF A, C, I

(* Predictions, and what an evaluation counts of them, are earned by every *)
(* window of a group.                                                      *)
THEOREM EarnedPredictions == Spec => []PredictionsEarned
<1>1. ASSUME IInv PROVE result # Null => PredictionsEarned
  <2> HAVE result # Null
  <2> DEFINE r == result.report
             s == snapshots[result.snapshot]
             o == result.outcomes
             D == result.decisions
             mode == result.mode
  <2>1. WellFormed(r) /\ Answered(s, result)
    BY <1>1, ReportsAssumption DEF IInv, ResultInv
  <2>2. ASSUME result.totals # Null
        PROVE  /\ result.totals.correct
                    = Cardinality({g \in DOMAIN o :
                                     /\ o[g].predicted # Null
                                     /\ \A e \in o[g].reps : /\ r[e].confirmed
                                                             /\ r[e].label = o[g].predicted})
               /\ result.totals.evaluated
                    = Cardinality(UNION {o[g].reps : g \in DOMAIN o}) + result.totals.duplicates
                      + Cardinality({e \in DOMAIN D : r[e].kind # "response" /\ r[e].first = e})
    <3>1. /\ DOMAIN D = Inventory(r, mode) /\ o = Outcomes(r, mode, D)
          /\ result.totals = Totals(r, mode, o)
      BY <2>1, <2>2 DEF Answered, Summarized
    <3> HIDE DEF r, o, D, mode
    <3>2. Totals(r, mode, o).correct =
            Cardinality({g \in DOMAIN o : /\ o[g].predicted # Null
                                          /\ \A e \in o[g].reps : /\ r[e].confirmed
                                                                  /\ r[e].label = o[g].predicted})
      BY <2>1, <3>1, CorrectCounted
    <3>3. Totals(r, mode, o).evaluated =
            Cardinality(UNION {o[g].reps : g \in DOMAIN o}) + Totals(r, mode, o).duplicates
            + Cardinality({e \in Inventory(r, mode) : r[e].kind # "response" /\ r[e].first = e})
      BY <2>1, <3>1, EvaluatedCounted
    <3> QED
      BY <3>1, <3>2, <3>3
  <2>3. ASSUME NEW g \in DOMAIN o
        PROVE  /\ o[g].reps # {}
               /\ o[g].predicted # Null =>
                    \A e \in o[g].reps : Earned(D[e].distances, o[g].predicted)
    <3>1. DOMAIN <<>> = {}
      OBVIOUS
    <3>2. DOMAIN D = Inventory(r, mode) /\ o = Outcomes(r, mode, D) /\ mode \in Modes
      BY <2>1, <2>3, <3>1 DEF Answered, Summarized
    <3>3. \A e \in DOMAIN D : e \in DOMAIN r /\ D[e] = Decided(s, result, e)
      BY <2>1 DEF Answered
    <3>4. \A e \in DOMAIN D : D[e] = Decision(r, e, mode, s.state, ProfilesFor(r, e, mode, s.state, s.profiles))
      BY <3>3 DEF Decided
    <3>5. s.state = "provisional" => s.profiles = Fit(r, Selected(r))
      BY <1>1, ScoringFacts
    <3> HIDE DEF r, o, D, mode, s
    <3>6. o[g] = Outcome(r, mode, D, g) /\ g \in ResponseGroups(r, mode)
      BY <2>3, <3>2 DEF Outcomes
    <3>7. o[g].reps # {} /\ o[g].reps \subseteq DOMAIN D
      <4>1. Outcome(r, mode, D, g).reps \subseteq Inventory(r, mode)
        BY DEF Outcome
      <4> QED
        BY <2>1, <3>2, <3>6, <4>1, GroupRepresented
    <3>8. o[g].predicted # Null => \A e \in o[g].reps : D[e].label = o[g].predicted
      BY <2>1, <3>6, <3>7, OutcomeMeans
    <3>9. ASSUME NEW e \in DOMAIN D, D[e].label # Null PROVE Earned(D[e].distances, D[e].label)
      <4>1. s.state = "provisional" /\ Available(r, e, mode)
        <5>1. Decision(r, e, mode, s.state, ProfilesFor(r, e, mode, s.state, s.profiles)).label # Null
          BY <3>4, <3>9
        <5> QED
          BY <5>1, LabelNeedsQuery
      <4>2. PICK S \in SUBSET Selected(r) :
              ProfilesFor(r, e, mode, "provisional", Fit(r, Selected(r))) = Fit(r, S)
        BY <2>1, <3>2, <3>3, <4>1, ScoredByOthers
      <4>3. D[e] = Decision(r, e, mode, "provisional", Fit(r, S))
        BY <3>4, <3>5, <4>1, <4>2
      <4>4. S \in SUBSET DOMAIN r /\ e \in DOMAIN r
        BY <3>3, SelectedThere
      <4> QED
        BY <2>1, <3>9, <4>3, <4>4, DecisionEarned
    <3> QED
      BY <3>7, <3>8, <3>9
  <2> QED
    BY <2>2, <2>3 DEF PredictionsEarned, Earned
<1>2. IInv => PredictionsEarned
  <2>1. result = Null => PredictionsEarned
    BY DEF PredictionsEarned
  <2> QED
    BY <1>1, <2>1
<1> QED
  BY StudyInvariant, <1>2, PTL

(* Whatever an evaluation reports was earned: by profiles that no group    *)
(* dominates, fitted from the current dataset, on queries they have no     *)
(* part in, and by every window of the group that is named.                *)
THEOREM ScoresAreEarned == Spec => []ScoresEarned
<1>1. NoGroupDominates /\ ScoredByCurrentFit /\ QueriesIndependent /\ PredictionsEarned => ScoresEarned
  BY DEF ScoresEarned
<1> QED
  BY NoDominance, OnlyCurrentFitsScore, IndependentQueries, EarnedPredictions, <1>1, PTL
-----------------------------------------------------------------------------
(* Relabelling entries changes nothing else of them.                       *)
LEMMA OnlyLabels ==
  ASSUME NEW r, NEW q, WellFormed(r), NEW E, Relabelled(r, q, E), NEW e \in DOMAIN r
  PROVE  /\ e \in DOMAIN q /\ (e \notin E => q[e] = r[e])
         /\ q[e].kind = r[e].kind /\ q[e].group = r[e].group /\ q[e].role = r[e].role
         /\ q[e].partition = r[e].partition /\ q[e].eligible = r[e].eligible
         /\ q[e].first = r[e].first /\ q[e].receipts = r[e].receipts
         /\ q[e].values = r[e].values
<1>1. DOMAIN q = DOMAIN r /\ q[e] = IF e \in E THEN [r[e] EXCEPT !.label = q[e].label] ELSE r[e]
  BY DEF Relabelled
<1>2. r[e] \in Entry
  BY ReportFacts
<1>3. CASE e \in E
  <2>1. PICK l : q[e] = [r[e] EXCEPT !.label = l]
    BY <1>1, <1>3
  <2> QED
    BY <1>1, <1>2, <1>3, <2>1 DEF Entry
<1>4. CASE e \notin E
  BY <1>1, <1>4
<1> QED
  BY <1>3, <1>4

(* What is asked of a query, its label apart.                              *)
LEMMA SameQuery ==
  ASSUME NEW r, NEW q, WellFormed(r), NEW E, Relabelled(r, q, E), NEW e \in DOMAIN r,
         NEW mode, NEW state
  PROVE  /\ Available(q, e, mode) <=> Available(r, e, mode)
         /\ QueryValues(q, e, mode, state) = QueryValues(r, e, mode, state)
         /\ Measured(q, e) = Measured(r, e)
         /\ \A p : Overlapping(q, e, p) <=> Overlapping(r, e, p)
<1>1. DOMAIN q = DOMAIN r
  BY DEF Relabelled
<1>2. \A x \in DOMAIN r : q[x].group = r[x].group /\ q[x].receipts = r[x].receipts
  BY OnlyLabels
<1>3. /\ q[e].kind = r[e].kind /\ q[e].role = r[e].role /\ q[e].eligible = r[e].eligible
      /\ q[e].first = r[e].first /\ q[e].values = r[e].values /\ q[e].group = r[e].group
  BY OnlyLabels
<1>4. Available(q, e, mode) <=> Available(r, e, mode)
  BY <1>3 DEF Available
<1>5. \A groups : Footprint(q, groups) = Footprint(r, groups)
  <2> SUFFICES ASSUME NEW groups PROVE Footprint(q, groups) = Footprint(r, groups)
    OBVIOUS
  <2>1. {x \in DOMAIN q : q[x].group \in groups} = {x \in DOMAIN r : r[x].group \in groups}
    BY <1>1, <1>2
  <2>2. \A x \in {y \in DOMAIN r : r[y].group \in groups} : q[x].receipts = r[x].receipts
    BY <1>2
  <2> QED
    BY <2>1, <2>2 DEF Footprint
<1> QED
  BY <1>3, <1>4, <1>5 DEF QueryValues, Measured, Overlapping

(* The entries that judge a query of another group are not relabelled, be  *)
(* it the held-out entries that are, or those of the query's own group.    *)
LEMMA OthersKept ==
  ASSUME NEW r, NEW q, WellFormed(r), WellFormed(q), NEW E, Relabelled(r, q, E),
         NEW e \in DOMAIN r,
         \A x \in DOMAIN r : r[x].role = "training" /\ r[x].group # r[e].group => x \notin E
  PROVE  /\ Others(q, e) = Others(r, e)
         /\ \A x \in Others(r, e) : x \in Votes(r) /\ x \in Votes(q) /\ r[x] = q[x]
<1>1. DOMAIN q = DOMAIN r
  BY DEF Relabelled
<1>2. \A x \in DOMAIN r : q[x].group = r[x].group /\ q[x].role = r[x].role
  BY OnlyLabels
<1> DEFINE W == {x \in DOMAIN r : r[x].role = "training" /\ r[x].group # r[e].group}
<1>3. \A x \in W : q[x] = r[x]
  BY OnlyLabels
<1>4. \A x \in W : x \in Votes(q) <=> x \in Votes(r)
  BY <1>1, <1>3 DEF Votes
<1>5. \A x : (x \in Votes(r) \/ x \in Votes(q)) /\ r[x].group # r[e].group => x \in W
  BY <1>1, <1>2 DEF Votes
<1>6. \A x \in W : Mixed(q, x) <=> Mixed(r, x)
  <2> SUFFICES ASSUME NEW x \in W PROVE Mixed(q, x) <=> Mixed(r, x)
    OBVIOUS
  <2>1. q[x] = r[x] /\ r[x].group # r[e].group
    BY <1>3
  <2>2. \A v : v \in Votes(r) /\ r[v].group = r[x].group =>
                 v \in Votes(q) /\ q[v] = r[v]
    BY <1>3, <1>4, <1>5, <2>1
  <2>3. \A v : v \in Votes(q) /\ q[v].group = q[x].group =>
                 v \in Votes(r) /\ q[v] = r[v]
    <3> SUFFICES ASSUME NEW v, v \in Votes(q), q[v].group = q[x].group
                 PROVE  v \in Votes(r) /\ q[v] = r[v]
      OBVIOUS
    <3>1. v \in DOMAIN r
      BY <1>1 DEF Votes
    <3> QED
      BY <1>2, <1>3, <1>4, <1>5, <2>1, <3>1
  <2>4. ASSUME Mixed(r, x) PROVE Mixed(q, x)
    BY <2>1, <2>2, <2>4 DEF Mixed
  <2>5. ASSUME Mixed(q, x) PROVE Mixed(r, x)
    BY <2>1, <2>3, <2>5 DEF Mixed
  <2> QED
    BY <2>4, <2>5
<1>7. q[e].group = r[e].group
  BY <1>2
<1>8. \A x : x \in Others(r, e) <=> x \in W /\ x \in Votes(r) /\ ~Mixed(r, x)
  BY <1>5 DEF Others, Selected
<1>9. \A x : x \in Others(q, e) <=> x \in W /\ x \in Votes(q) /\ ~Mixed(q, x)
  <2>1. \A x : x \in Votes(q) => x \in DOMAIN r
    BY <1>1 DEF Votes
  <2> QED
    BY <1>2, <1>5, <1>7, <2>1 DEF Others, Selected
<1>10. \A x : x \in Others(q, e) <=> x \in Others(r, e)
  BY <1>4, <1>6, <1>8, <1>9
<1>11. Others(q, e) = Others(r, e)
  BY <1>10
<1> HIDE DEF W
<1> QED
  BY <1>3, <1>4, <1>8, <1>11

(* A label is only scored if one of the selected entries declares it.      *)
LEMMA ScoredLabel ==
  ASSUME NEW r, NEW q, NEW S, \A x \in S : x \in Votes(r) /\ x \in Votes(q) /\ r[x] = q[x],
         NEW key \in Keys(r), Profile(r, S, key).provisional
  PROVE  key \in Keys(q)
<1>1. Members(r, S, key) # {}
  BY EmptyProfile
<1>2. PICK x \in S : Key(r, x) = key
  BY <1>1 DEF Members
<1>3. x \in Votes(q) /\ r[x] = q[x]
  BY <1>2
<1>4. Key(q, x) = key
  BY <1>2, <1>3 DEF Key
<1> QED
  BY <1>3, <1>4 DEF Keys, Votes

(* Fits from the same entries qualify the same labels for a query, and     *)
(* agree on them.                                                          *)
LEMMA QualifiedAgree ==
  ASSUME NEW r, NEW q, WellFormed(r), WellFormed(q), NEW E, Relabelled(r, q, E),
         NEW e \in DOMAIN r, NEW S,
         \A x \in S : x \in Votes(r) /\ x \in Votes(q) /\ r[x] = q[x]
  PROVE  /\ Prequalified(q, e, Fit(q, S)) = Prequalified(r, e, Fit(r, S))
         /\ \A key \in Prequalified(r, e, Fit(r, S)) : Fit(q, S)[key] = Fit(r, S)[key]
<1>1. q[e].partition = r[e].partition
  BY OnlyLabels
<1>2. \A p : Overlapping(q, e, p) <=> Overlapping(r, e, p)
  BY SameQuery
<1>3. \A key : Profile(q, S, key) = Profile(r, S, key)
  BY ProfilesAgree
<1>4. \A key : key \in Prequalified(r, e, Fit(r, S)) <=>
                 /\ key \in Keys(r) /\ key[1] = r[e].partition
                 /\ Profile(r, S, key).provisional /\ ~Overlapping(r, e, Profile(r, S, key))
  BY DEF Prequalified, Fit
<1>5. \A key : key \in Prequalified(q, e, Fit(q, S)) <=>
                 /\ key \in Keys(q) /\ key[1] = q[e].partition
                 /\ Profile(q, S, key).provisional /\ ~Overlapping(q, e, Profile(q, S, key))
  BY DEF Prequalified, Fit
<1>6. \A key \in Keys(r) : Profile(r, S, key).provisional => key \in Keys(q)
  BY ScoredLabel
<1>7. \A key \in Keys(q) : Profile(q, S, key).provisional => key \in Keys(r)
  BY ScoredLabel
<1>8. \A key : key \in Prequalified(q, e, Fit(q, S)) <=> key \in Prequalified(r, e, Fit(r, S))
  BY <1>1, <1>2, <1>3, <1>4, <1>5, <1>6, <1>7, Zenon
<1>9. Prequalified(q, e, Fit(q, S)) = Prequalified(r, e, Fit(r, S))
  BY <1>8
<1>10. \A key \in Prequalified(r, e, Fit(r, S)) : Fit(q, S)[key] = Fit(r, S)[key]
  <2>1. \A key \in Keys(r) : Fit(r, S)[key] = Profile(r, S, key)
    BY DEF Fit
  <2>2. \A key \in Keys(q) : Fit(q, S)[key] = Profile(q, S, key)
    BY DEF Fit
  <2>3. ASSUME NEW key \in Prequalified(r, e, Fit(r, S)) PROVE key \in Keys(r) /\ key \in Keys(q)
    BY <1>4, <1>5, <1>8, Zenon
  <2> QED
    BY <1>3, <2>1, <2>2, <2>3
<1> QED
  BY <1>9, <1>10
(* The same profiles of the same labels decide the same.                   *)
LEMMA SameDecision ==
  ASSUME NEW r, NEW q, NEW e, NEW mode, NEW P, NEW Q,
         Available(q, e, mode) <=> Available(r, e, mode),
         QueryValues(q, e, mode, "provisional") = QueryValues(r, e, mode, "provisional"),
         Measured(q, e) = Measured(r, e),
         Prequalified(q, e, Q) = Prequalified(r, e, P),
         \A key \in Prequalified(r, e, P) : Q[key] = P[key]
  PROVE  Decision(q, e, mode, "provisional", Q) = Decision(r, e, mode, "provisional", P)
<1> DEFINE K == Prequalified(r, e, P)
           v == QueryValues(r, e, mode, "provisional")
           C(D) == {f \in Measured(r, e) : \A key \in K : D[key].features[f].supported}
           J(D) == IF ~Available(r, e, mode) THEN Unknown({"query_unavailable"})
                   ELSE IF K = {} THEN Unknown({"no_compatible_profiles"})
                   ELSE IF ~FullCoverage(Cardinality(C(D)))
                        THEN Unknown({"insufficient_common_features"})
                   ELSE Ranking([key \in K |-> Distance(v, D[key], C(D))], C(D))
<1>1. C(P) = C(Q)
  OBVIOUS
<1>2. \A c : [key \in K |-> Distance(v, P[key], c)] = [key \in K |-> Distance(v, Q[key], c)]
  OBVIOUS
<1>3. Common(r, e, P, K) = C(P) /\ Common(q, e, Q, K) = C(Q)
  BY DEF Common
<1>4. Prequalified(q, e, Q) = K
  OBVIOUS
<1>5. QueryValues(q, e, mode, "provisional") = v
  OBVIOUS
<1> HIDE DEF K, v, C
<1>6. J(P) = J(Q)
  BY <1>1, <1>2
<1>7. Decision(r, e, mode, "provisional", P) = J(P)
  <2>1. Prequalified(r, e, P) = K /\ QueryValues(r, e, mode, "provisional") = v
    BY DEF K, v
  <2>2. ASSUME ~Available(r, e, mode)
        PROVE  Decision(r, e, mode, "provisional", P) = Unknown({"query_unavailable"})
    BY <2>2 DEF Decision
  <2>3. ASSUME Available(r, e, mode)
        PROVE  Decision(r, e, mode, "provisional", P) = J(P)
    BY <1>3, <2>1, <2>3 DEF Decision
  <2> QED
    BY <2>2, <2>3
<1>8. Decision(q, e, mode, "provisional", Q) = J(Q)
  <2>2. ASSUME ~Available(r, e, mode)
        PROVE  Decision(q, e, mode, "provisional", Q) = Unknown({"query_unavailable"})
    BY <2>2 DEF Decision
  <2>3. ASSUME Available(r, e, mode)
        PROVE  Decision(q, e, mode, "provisional", Q) = J(Q)
    BY <1>3, <1>4, <1>5, <2>3 DEF Decision
  <2> QED
    BY <2>2, <2>3
<1> QED
  BY <1>6, <1>7, <1>8

(* What a usable snapshot of report r decides on entry e.                  *)
Judgement(r, e, mode) ==
  Decision(r, e, mode, "provisional",
           ProfilesFor(r, e, mode, "provisional", Fit(r, Selected(r))))

LEMMA Unavailable ==
  ASSUME NEW r, NEW e, NEW mode, ~Available(r, e, mode), NEW profiles
  PROVE  Decision(r, e, mode, "provisional", profiles) = Unknown({"query_unavailable"})
  BY DEF Decision

LEMMA JudgementIsBlind ==
  ASSUME NEW r, NEW q, WellFormed(r), WellFormed(q), NEW E, Relabelled(r, q, E),
         NEW e \in DOMAIN r, NEW mode \in Modes \cup {"match"},
         \A x \in DOMAIN r : r[x].role = "training" /\ r[x].group # r[e].group => x \notin E
  PROVE  Judgement(q, e, mode) = Judgement(r, e, mode)
<1>1. Available(q, e, mode) <=> Available(r, e, mode)
  BY SameQuery
<1>2. CASE ~Available(r, e, mode)
  BY <1>1, <1>2, Unavailable DEF Judgement
<1>3. CASE Available(r, e, mode)
  <2>1. e \in DOMAIN q
    BY OnlyLabels
  <2>2. Judgement(r, e, mode) = Decision(r, e, mode, "provisional", Fit(r, Others(r, e)))
    BY <1>3, ScoredByOthers DEF Judgement
  <2>3. Judgement(q, e, mode) = Decision(q, e, mode, "provisional", Fit(q, Others(q, e)))
    BY <1>1, <1>3, <2>1, ScoredByOthers DEF Judgement
  <2> DEFINE S == Others(r, e)
  <2>4. /\ Others(q, e) = S
        /\ \A x \in S : x \in Votes(r) /\ x \in Votes(q) /\ r[x] = q[x]
    BY OthersKept
  <2> HIDE DEF S
  <2>5. /\ Prequalified(q, e, Fit(q, S)) = Prequalified(r, e, Fit(r, S))
        /\ \A key \in Prequalified(r, e, Fit(r, S)) : Fit(q, S)[key] = Fit(r, S)[key]
    BY <2>4, QualifiedAgree
  <2>6. /\ QueryValues(q, e, mode, "provisional") = QueryValues(r, e, mode, "provisional")
        /\ Measured(q, e) = Measured(r, e)
    BY SameQuery
  <2>7. Decision(q, e, mode, "provisional", Fit(q, S)) = Decision(r, e, mode, "provisional", Fit(r, S))
    BY <1>1, <2>5, <2>6, SameDecision
  <2> QED
    BY <2>2, <2>3, <2>4, <2>7 DEF S
<1> QED
  BY <1>2, <1>3

Judged ==
  result # Null /\ UsedState = "provisional" =>
    /\ WellFormed(result.report)
    /\ result.mode \in Modes \cup {"match"}
    /\ \A e \in DOMAIN result.decisions :
         /\ e \in DOMAIN result.report
         /\ result.decisions[e] = Judgement(result.report, e, result.mode)

(* Nothing that is decided depends on a label that was held out or left    *)
(* out: the decision after a relabelling is the one before it.             *)
THEOREM NoLabelLeaks == Spec => LabelBlind
<1>1. IInv => Judged
  <2> SUFFICES ASSUME IInv, result # Null, UsedState = "provisional"
               PROVE  /\ WellFormed(result.report)
                      /\ result.mode \in Modes \cup {"match"}
                      /\ \A e \in DOMAIN result.decisions :
                           /\ e \in DOMAIN result.report
                           /\ result.decisions[e] = Judgement(result.report, e, result.mode)
    BY DEF Judged
  <2>1. /\ WellFormed(result.report) /\ result.mode \in Modes \cup {"match"}
        /\ snapshots[result.snapshot].profiles = Fit(result.report, Selected(result.report))
        /\ DOMAIN result.decisions \subseteq DOMAIN result.report
    BY ScoringFacts DEF UsedState
  <2>2. \A e \in DOMAIN result.decisions :
          result.decisions[e] = Decided(snapshots[result.snapshot], result, e)
    BY DEF IInv, ResultInv, Answered
  <2> QED
    BY <2>1, <2>2 DEF Decided, Judgement, UsedState
<1>2. ASSUME NEW r, NEW q, WellFormed(r), WellFormed(q), NEW mode \in Modes \cup {"match"},
             NEW e \in DOMAIN r,
             \/ Relabelled(r, q, HeldOut(r))
             \/ mode = Fold /\ Relabelled(r, q, EntriesOf(r, r[e].group))
      PROVE  Judgement(q, e, mode) = Judgement(r, e, mode)
  <2>1. CASE Relabelled(r, q, HeldOut(r))
    <3>1. \A x \in DOMAIN r : r[x].role = "training" /\ r[x].group # r[e].group => x \notin HeldOut(r)
      BY DEF HeldOut
    <3> QED
      BY <1>2, <2>1, <3>1, JudgementIsBlind
  <2>2. CASE Relabelled(r, q, EntriesOf(r, r[e].group))
    <3>1. \A x \in DOMAIN r :
            r[x].role = "training" /\ r[x].group # r[e].group => x \notin EntriesOf(r, r[e].group)
      BY DEF EntriesOf
    <3> QED
      BY <1>2, <2>2, <3>1, JudgementIsBlind
  <2> QED
    BY <1>2, <2>1, <2>2
<1>3. Judged /\ Judged' => LabelBlindStep
  <2> SUFFICES ASSUME Judged, Judged', result # Null, result' # Null, result.mode = result'.mode,
                      UsedState = "provisional", UsedState' = "provisional",
                      NEW e \in DOMAIN result.decisions \cap DOMAIN result'.decisions,
                      \/ Relabelled(result.report, result'.report, HeldOut(result.report))
                      \/ /\ result.mode = Fold
                         /\ Relabelled(result.report, result'.report,
                                       EntriesOf(result.report, result.report[e].group))
               PROVE  result.decisions[e] = result'.decisions[e]
    BY DEF LabelBlindStep
  <2>1. /\ WellFormed(result.report) /\ result.mode \in Modes \cup {"match"}
        /\ e \in DOMAIN result.report
        /\ result.decisions[e] = Judgement(result.report, e, result.mode)
    BY DEF Judged
  <2>2. /\ WellFormed(result'.report)
        /\ result'.decisions[e] = Judgement(result'.report, e, result'.mode)
    BY DEF Judged
  <2>3. Judgement(result'.report, e, result.mode) = Judgement(result.report, e, result.mode)
    BY <1>2, <2>1, <2>2
  <2> QED
    BY <2>1, <2>2, <2>3
<1> QED
  BY StudyInvariant, <1>1, <1>3, PTL DEF LabelBlind
=============================================================================
