---------------------- MODULE CalibrationLineageProofs ----------------------
(***************************************************************************)
(* For every calibration dataset: union-find with path halving merges      *)
(* components as SourceComponents does, the groups that get roles are      *)
(* exactly the connected components of what the dataset declares, no       *)
(* evidence crosses a role boundary, and every verdict is justified.       *)
(***************************************************************************)
EXTENDS CalibrationLineage, FiniteSets, FiniteSetTheorems, TLAPS, WellFoundedInduction

USE DEF vars, walk

(* A set of natural numbers has a smallest member. *)
LEMMA Least ==
  ASSUME NEW T, T \subseteq Nat, T # {}
  PROVE \E x \in T : \A y \in T : x <= y
<1> DEFINE R == OpToRel(<, Nat)
<1>1. IsWellFoundedOn(R, Nat)
  BY NatLessThanWellFounded
<1>2. \A x, y \in Nat : <<x, y>> \in R <=> x < y
  BY DEF OpToRel
<1> HIDE DEF R
<1>3. PICK x \in T : \A y \in T : ~(<<y, x>> \in R)
  BY <1>1, WFMin
<1>4. ASSUME NEW y \in T PROVE x <= y
  <2>1. x \in Nat /\ y \in Nat
    OBVIOUS
  <2>2. ~(y < x)
    BY <1>2, <1>3, <2>1, Zenon
  <2>3. QED
    BY <2>1, <2>2
<1> QED
  BY <1>4

-----------------------------------------------------------------------------
(* Connected is an equivalence, and related sources are connected. *)
LEMMA ConnectedReflexive ==
  ASSUME NEW s \in Sources PROVE Connected(s, s)
  BY DEF Connected

LEMMA ConnectedSymmetric ==
  ASSUME NEW s \in Sources, NEW t \in Sources, Connected(s, t)
  PROVE  Connected(t, s)
<1> SUFFICES ASSUME NEW C \in SUBSET Sources, t \in C, Sealed(C), s \notin C
             PROVE FALSE
  BY DEF Connected
<1> DEFINE D == Sources \ C
<1>1. Sealed(D)
  BY DEF Sealed
<1>2. t \in D
  BY <1>1 DEF Connected
<1> QED
  BY <1>2

LEMMA ConnectedTransitive ==
  ASSUME NEW s \in Sources, NEW t \in Sources, NEW u \in Sources,
         Connected(s, t), Connected(t, u)
  PROVE  Connected(s, u)
  BY DEF Connected

LEMMA RelatedConnected ==
  ASSUME NEW s \in Sources, NEW t \in Sources, Related(s, t)
  PROVE  Connected(s, t) /\ Connected(t, s)
<1>1. Connected(s, t)
  BY DEF Connected, Sealed
<1> QED
  BY <1>1, ConnectedSymmetric

-----------------------------------------------------------------------------
(* What a dataset's declarations consist of. *)
LEMMA Declarations ==
  ASSUME dataset \in Datasets
  PROVE  /\ Len(dataset.sources) \in Nat
         /\ Len(dataset.derivations) \in Nat
         /\ Len(dataset.entries) \in Nat
         /\ Sources = 1..Len(dataset.sources)
         /\ DOMAIN dataset.derivations = 1..Len(dataset.derivations)
         /\ Entries = 1..Len(dataset.entries)
         /\ \A e \in DOMAIN dataset.derivations :
              \E s, t \in Sources : dataset.derivations[e] = <<s, t>>
         /\ \A e \in Entries : dataset.entries[e].kind = "response" =>
              /\ dataset.entries[e].bindings[1].source \in Sources
              /\ dataset.entries[e].bindings[2].source \in Sources
<1>1. WellFormed(dataset)
  BY DatasetsAssumption
<1>2. /\ IsList(dataset.sources) /\ IsList(dataset.derivations) /\ IsList(dataset.entries)
      /\ \A e \in DOMAIN dataset.derivations :
           \E s, t \in DOMAIN dataset.sources : s # t /\ dataset.derivations[e] = <<s, t>>
      /\ \A i \in DOMAIN dataset.entries :
           LET entry == dataset.entries[i]
           IN /\ DOMAIN entry.bindings = 1..BindingCount(entry.kind)
              /\ \A k \in DOMAIN entry.bindings :
                   entry.bindings[k].source \in DOMAIN dataset.sources
  BY <1>1 DEF WellFormed
<1>3. ASSUME NEW e \in Entries, dataset.entries[e].kind = "response"
      PROVE  /\ dataset.entries[e].bindings[1].source \in Sources
             /\ dataset.entries[e].bindings[2].source \in Sources
  <2>1. DOMAIN dataset.entries[e].bindings = 1..2
    BY <1>2, <1>3 DEF BindingCount, Entries
  <2>2. QED
    BY <1>2, <2>1 DEF Sources, Entries
<1>4. /\ Len(dataset.sources) \in Nat /\ Sources = 1..Len(dataset.sources)
      /\ Len(dataset.derivations) \in Nat
      /\ DOMAIN dataset.derivations = 1..Len(dataset.derivations)
      /\ Len(dataset.entries) \in Nat /\ Entries = 1..Len(dataset.entries)
  BY <1>2 DEF IsList, Sources, Entries
<1>5. \A e \in DOMAIN dataset.derivations :
        \E s, t \in Sources : dataset.derivations[e] = <<s, t>>
  BY <1>2 DEF Sources
<1> QED
  BY <1>3, <1>4, <1>5

(* The first source with a key that some source has is a source with it.   *)
LEMMA FirstExists ==
  ASSUME dataset \in Datasets, NEW s \in Sources, NEW kind \in 1..4
  PROVE  LET first == FirstWith(kind, Key(s, kind))
         IN first \in Sources /\ Key(first, kind) = Key(s, kind)
<1> DEFINE T == {t \in Sources : Key(t, kind) = Key(s, kind)}
<1>1. T \subseteq Nat /\ s \in T
  BY Declarations
<1>2. PICK x \in T : \A y \in T : x <= y
  <2> HIDE DEF T
  <2> QED BY <1>1, Least
<1>3. \E x2 \in Sources :
        /\ Key(x2, kind) = Key(s, kind)
        /\ \A t \in Sources : Key(t, kind) = Key(s, kind) => x2 <= t
  BY <1>2
<1> QED
  BY <1>3 DEF FirstWith

LEMMA SameKeyShares ==
  ASSUME NEW s \in Sources, NEW t \in Sources, NEW kind \in 1..4,
         Key(s, kind) = Key(t, kind)
  PROVE  Shares(s, t)
<1>1. CASE kind = 1
  BY <1>1 DEF Key, Shares
<1>2. CASE kind = 2
  BY <1>2 DEF Key, Shares
<1>3. CASE kind = 3
  BY <1>3 DEF Key, Shares
<1>4. CASE kind = 4
  BY <1>4 DEF Key, Shares
<1> QED
  BY <1>1, <1>2, <1>3, <1>4

LEMMA SharesSameKey ==
  ASSUME NEW s \in Sources, NEW t \in Sources, Shares(s, t)
  PROVE  \E kind \in 1..4 : Key(s, kind) = Key(t, kind)
<1>1. \/ Key(s, 1) = Key(t, 1) \/ Key(s, 2) = Key(t, 2)
      \/ Key(s, 3) = Key(t, 3) \/ Key(s, 4) = Key(t, 4)
  BY DEF Key, Shares
<1> QED
  BY <1>1

(* The four joins of a source come at known places. *)
LEMMA Places ==
  ASSUME NEW s \in Nat \ {0}, NEW kind \in 1..4
  PROVE  SourceAt(4 * (s - 1) + kind) = s /\ KindAt(4 * (s - 1) + kind) = kind
  BY DEF SourceAt, KindAt

LEMMA PlaceOf ==
  ASSUME NEW n \in Nat \ {0}, NEW m \in Nat, n <= 4 * m
  PROVE  SourceAt(n) \in 1..m /\ KindAt(n) \in 1..4
  BY DEF SourceAt, KindAt

LEMMA JoinNumbers ==
  ASSUME dataset \in Datasets
  PROVE  SourceJoins \in Nat /\ DeclaredJoins \in Nat /\ Joins \in Nat
<1>1. /\ Len(dataset.sources) \in Nat /\ Len(dataset.derivations) \in Nat
      /\ Len(dataset.entries) \in Nat
  BY Declarations
<1>2. \A p, q \in Nat : 4 * p \in Nat /\ p + q \in Nat
  OBVIOUS
<1>3. SourceJoins \in Nat
  BY <1>1, <1>2, Zenon DEF SourceJoins
<1>4. DeclaredJoins \in Nat
  BY <1>1, <1>2, <1>3, Zenon DEF DeclaredJoins
<1>5. Joins \in Nat
  BY <1>1, <1>2, <1>4, Zenon DEF Joins
<1> QED
  BY <1>3, <1>4, <1>5

(* Whatever is joined is a pair of sources that are connected. *)
LEMMA JoinedConnected ==
  ASSUME dataset \in Datasets, NEW n \in 1..Joins, IsJoin(n)
  PROVE  /\ Joined(n)[1] \in Sources /\ Joined(n)[2] \in Sources
         /\ Connected(Joined(n)[1], Joined(n)[2])
<1> DEFINE s == Joined(n)[1]
           t == Joined(n)[2]
<1>0. /\ SourceJoins \in Nat /\ DeclaredJoins \in Nat /\ Joins \in Nat
      /\ n \in Nat \ {0}
  BY JoinNumbers
<1>1. CASE n <= SourceJoins
  <2>1. SourceAt(n) \in Sources /\ KindAt(n) \in 1..4
    BY <1>0, <1>1, PlaceOf, Declarations DEF SourceJoins
  <2>2. s = FirstWith(KindAt(n), Key(SourceAt(n), KindAt(n))) /\ t = SourceAt(n)
    BY <1>1 DEF Joined
  <2>3. s \in Sources /\ Key(s, KindAt(n)) = Key(t, KindAt(n))
    BY <2>1, <2>2, FirstExists
  <2>4. Shares(s, t)
    BY <2>1, <2>2, <2>3, SameKeyShares
  <2>5. QED
    BY <2>1, <2>2, <2>3, <2>4, RelatedConnected DEF Related
<1>2. CASE ~(n <= SourceJoins) /\ n <= DeclaredJoins
  <2>1. n - SourceJoins \in DOMAIN dataset.derivations
    BY <1>0, <1>2, Declarations DEF DeclaredJoins
  <2>2. Joined(n) = dataset.derivations[n - SourceJoins]
    BY <1>2 DEF Joined
  <2>3. PICK x \in Sources, y \in Sources : dataset.derivations[n - SourceJoins] = <<x, y>>
    BY <2>1, Declarations
  <2>4. s = x /\ t = y
    BY <2>2, <2>3
  <2>5. Related(x, y)
    BY <2>1, <2>3 DEF Related
  <2>6. QED
    BY <2>4, <2>5, RelatedConnected
<1>3. CASE ~(n <= SourceJoins) /\ ~(n <= DeclaredJoins)
  <2>1. n - DeclaredJoins \in Entries
    BY <1>0, <1>3, Declarations DEF Joins
  <2>2. dataset.entries[n - DeclaredJoins].kind = "response"
    BY <1>0, <1>3 DEF IsJoin, EntryAt
  <2>3. /\ s = dataset.entries[n - DeclaredJoins].bindings[1].source
        /\ t = dataset.entries[n - DeclaredJoins].bindings[2].source
    BY <1>3 DEF Joined, EntryAt
  <2>4. s \in Sources /\ t \in Sources
    BY <2>1, <2>2, <2>3, Declarations
  <2>5. Related(s, t)
    BY <2>1, <2>2, <2>3 DEF Related
  <2>6. QED
    BY <2>4, <2>5, RelatedConnected
<1> QED
  BY <1>1, <1>2, <1>3

-----------------------------------------------------------------------------
(* The declarations do not change while they are inspected. *)
LEMMA Fixed ==
  ASSUME dataset' = dataset
  PROVE  /\ Sources' = Sources /\ Entries' = Entries /\ Joins' = Joins
         /\ \A n : Joined(n)' = Joined(n)
         /\ \A n : IsJoin(n)' = IsJoin(n)
         /\ \A s, t : Connected(s, t)' = Connected(s, t)
<1>1. Sources' = Sources /\ Entries' = Entries /\ Joins' = Joins
  BY DEF Sources, Entries, Joins, DeclaredJoins, SourceJoins
<1>2. \A n : Joined(n)' = Joined(n)
  BY DEF Joined, FirstWith, Key, Sources, SourceJoins, DeclaredJoins, EntryAt
<1>3. \A n : IsJoin(n)' = IsJoin(n)
  BY DEF IsJoin, DeclaredJoins, SourceJoins, EntryAt
<1>4. \A s, t : Connected(s, t)' = Connected(s, t)
  BY DEF Connected, Sealed, Related, Shares, Sources, Entries
<1> QED
  BY <1>1, <1>2, <1>3, <1>4
-----------------------------------------------------------------------------
(* The inductive invariant: the forest carries a labelling c of the        *)
(* sources that halving keeps and a link renames.                          *)
Forest(c) ==
  /\ c \in [Sources -> Sources]
  /\ parents \in [Sources -> Sources]
  /\ \A s \in Sources : /\ parents[s] <= s
                        /\ c[parents[s]] = c[s]
                        /\ parents[s] = s => c[s] = s
  /\ \A s, t \in Sources : c[s] = c[t] => Connected(s, t)

Walking == phase \in {"root_a", "root_b"}
Joining == phase = "next" \/ Walking

(* The joins before the present one have been made. *)
JoinedBefore(c, m) ==
  \A n \in 1..m : IsJoin(n) => c[Joined(n)[1]] = c[Joined(n)[2]]
Done(c) == JoinedBefore(c, IF Joining THEN at - 1 ELSE Joins)

Cursors(c) ==
  /\ Walking => /\ at <= Joins /\ IsJoin(at)
                /\ a \in Sources /\ b \in Sources
                /\ c[a] = c[Joined(at)[1]] /\ c[b] = c[Joined(at)[2]]
  /\ phase = "root_b" => parents[a] = a
  /\ phase = "collect" /\ at \in Sources => a \in Sources /\ c[a] = c[at]

MembersBefore(c, r, m) == {s \in Sources : s < m /\ c[s] = r}
Collected(c) ==
  /\ components \in [Sources -> SUBSET Sources]
  /\ Joining => \A r \in Sources : components[r] = {}
  /\ phase = "collect" => \A r \in Sources : components[r] = MembersBefore(c, r, at)
  /\ phase \in {"aliases", "accepted"} =>
       /\ \A r \in Sources : components[r] = {s \in Sources : c[s] = r}
       /\ Groups = DOMAIN dataset.split

Labelled(c) == Forest(c) /\ Done(c) /\ Cursors(c) /\ Collected(c)

Bounds ==
  /\ phase \in {"next", "root_a", "root_b", "collect", "aliases", "accepted", "rejected"}
  /\ at \in Nat \ {0}
  /\ phase = "collect" => at <= Len(dataset.sources) + 1
  /\ Joining => at <= Joins + 1
  /\ phase \in {"aliases", "accepted"} => at <= Len(dataset.entries) + 1
  /\ a \in Nat \cup {Null}
  /\ b \in Nat \cup {Null}

Aliases ==
  /\ representatives \in [Entries -> Entries]
  /\ \A x \in DOMAIN receipts : receipts[x].first \in Entries

IInv ==
  /\ dataset \in Datasets
  /\ Bounds
  /\ Aliases
  /\ \E c : Labelled(c)

LEMMA InvariantGivesTypeOK == IInv => TypeOK
<1> SUFFICES ASSUME IInv PROVE TypeOK
  OBVIOUS
<1> PICK c : Labelled(c)
  BY DEF IInv
<1>1. parents \in [Sources -> Sources] /\ components \in [Sources -> SUBSET Sources]
  BY DEF Labelled, Forest, Collected
<1>2. Bounds /\ representatives \in [Entries -> Entries]
  BY DEF IInv, Aliases
<1> QED
  BY <1>1, <1>2 DEF TypeOK, Bounds, Joining, Walking

LEMMA InvariantInitially == Init => IInv
<1> SUFFICES ASSUME Init PROVE IInv
  OBVIOUS
<1> USE DEF Init
<1>1. dataset \in Datasets
  OBVIOUS
<1>2. Joins \in Nat /\ Sources = 1..Len(dataset.sources) /\ Entries = 1..Len(dataset.entries)
  BY <1>1, JoinNumbers, Declarations
<1>3. Bounds
  BY <1>2 DEF Bounds, Joining, Walking
<1>4. Aliases
  BY DEF Aliases
<1> DEFINE c == [s \in Sources |-> s]
<1>5. Forest(c)
  BY <1>2, ConnectedReflexive DEF Forest
<1>6. Done(c)
  BY DEF Done, JoinedBefore, Joining
<1>7. Cursors(c)
  BY DEF Cursors, Walking
<1>8. Collected(c)
  BY DEF Collected, Joining, Walking
<1> HIDE DEF c
<1> QED
  BY <1>1, <1>3, <1>4, <1>5, <1>6, <1>7, <1>8 DEF IInv, Labelled

-----------------------------------------------------------------------------
(* Halving keeps every labelling of the forest. *)
LEMMA HalvingKeepsForest ==
  ASSUME dataset \in Datasets, NEW c, Forest(c), NEW x \in Sources,
         dataset' = dataset, parents' = Halved(x)
  PROVE  Forest(c)' /\ parents'[x] \in Sources /\ c[parents'[x]] = c[x]
<1>1. Sources' = Sources /\ \A s, t : Connected(s, t)' = Connected(s, t)
  BY Fixed
<1>2. Sources \subseteq Nat
  BY Declarations
<1>3. /\ parents' \in [Sources -> Sources]
      /\ parents'[x] = parents[parents[x]]
      /\ \A s \in Sources : s # x => parents'[s] = parents[s]
  BY DEF Forest, Halved
<1>4. ASSUME NEW s \in Sources
      PROVE  /\ parents'[s] <= s
             /\ c[parents'[s]] = c[s]
             /\ parents'[s] = s => c[s] = s
  <2>1. CASE s # x
    BY <1>3, <2>1 DEF Forest
  <2>2. CASE s = x
    <3>1. parents[x] \in Sources /\ parents[parents[x]] \in Sources
      BY DEF Forest
    <3>2. parents[x] <= x /\ parents[parents[x]] <= parents[x]
      BY <3>1 DEF Forest
    <3>3. c[parents[parents[x]]] = c[x]
      BY <3>1 DEF Forest
    <3>4. parents[parents[x]] <= x /\ (parents[parents[x]] = x => parents[x] = x)
      <4>1. \A i, j, k \in Nat : j <= i /\ k <= j => k <= i /\ (k = i => j = i)
        OBVIOUS
      <4>2. x \in Nat /\ parents[x] \in Nat /\ parents[parents[x]] \in Nat
        BY <1>2, <3>1
      <4>3. QED
        BY <3>2, <4>1, <4>2, Zenon
    <3>5. QED
      BY <1>3, <2>2, <3>3, <3>4 DEF Forest
  <2>3. QED
    BY <2>1, <2>2
<1>5. c \in [Sources -> Sources] /\ \A s, t \in Sources : c[s] = c[t] => Connected(s, t)
  BY DEF Forest
<1>6. Forest(c)'
  BY <1>1, <1>3, <1>4, <1>5 DEF Forest
<1> QED
  BY <1>3, <1>4, <1>6

(* A link between two connected roots renames one label to the other. *)
LabelsLinked(c, x, y) ==
  [s \in Sources |-> IF c[s] \in {x, y} THEN (IF x <= y THEN x ELSE y) ELSE c[s]]

LEMMA LinkingRenamesForest ==
  ASSUME dataset \in Datasets, NEW c, Forest(c), NEW x \in Sources, NEW y \in Sources,
         parents[x] = x, parents[y] = y, Connected(x, y),
         dataset' = dataset, parents' = Linked(x, y)
  PROVE  Forest(LabelsLinked(c, x, y))'
<1> DEFINE d == LabelsLinked(c, x, y)
           low == IF x <= y THEN x ELSE y
           high == IF x <= y THEN y ELSE x
<1>1. Sources' = Sources /\ \A s, t : Connected(s, t)' = Connected(s, t)
  BY Fixed
<1>2. Sources \subseteq Nat
  BY Declarations
<1>3. /\ low \in Sources /\ high \in Sources /\ low <= high /\ {x, y} = {low, high}
      /\ parents[low] = low /\ parents[high] = high /\ c[low] = low /\ c[high] = high
  BY <1>2 DEF Forest
<1>4. Connected(low, high) /\ Connected(high, low)
  BY ConnectedSymmetric
<1>5. parents' = [parents EXCEPT ![high] = low]
  BY DEF Linked
<1>6. d = [s \in Sources |-> IF c[s] \in {low, high} THEN low ELSE c[s]]
  BY <1>3 DEF LabelsLinked
<1>7. c \in [Sources -> Sources] /\ parents \in [Sources -> Sources]
  BY DEF Forest
<1> HIDE DEF d, low, high
<1>8. d \in [Sources -> Sources] /\ parents' \in [Sources -> Sources]
  BY <1>3, <1>5, <1>6, <1>7
<1>9. ASSUME NEW s \in Sources
      PROVE  /\ parents'[s] <= s
             /\ d[parents'[s]] = d[s]
             /\ parents'[s] = s => d[s] = s
  <2>1. CASE s = high
    <3>1. parents'[s] = low
      BY <1>5, <1>7, <2>1
    <3>2. d[low] = low /\ d[high] = low
      BY <1>3, <1>6
    <3>3. QED
      BY <1>3, <2>1, <3>1, <3>2
  <2>2. CASE s # high
    <3>1. parents'[s] = parents[s] /\ parents[s] \in Sources
      BY <1>5, <1>7, <2>2
    <3>2. parents[s] <= s /\ c[parents[s]] = c[s] /\ (parents[s] = s => c[s] = s)
      BY DEF Forest
    <3>3. d[parents[s]] = d[s]
      BY <1>6, <3>1, <3>2
    <3>4. parents[s] = s => d[s] = s
      BY <1>6, <2>2, <3>2
    <3>5. QED
      BY <3>1, <3>2, <3>3, <3>4
  <2>3. QED
    BY <2>1, <2>2
<1>10. ASSUME NEW s \in Sources, NEW t \in Sources, d[s] = d[t]
       PROVE  Connected(s, t)
  <2>1. \A u, v \in Sources : c[u] = c[v] => Connected(u, v)
    BY DEF Forest
  <2>2. ASSUME NEW u \in Sources, c[u] \in {low, high}
        PROVE  Connected(u, low) /\ Connected(low, u)
    <3>1. Connected(u, low)
      <4>1. CASE c[u] = low
        BY <1>3, <2>1, <4>1
      <4>2. CASE c[u] = high
        <5>1. Connected(u, high)
          BY <1>3, <2>1, <4>2
        <5>2. QED
          BY <1>3, <1>4, <5>1, ConnectedTransitive
      <4>3. QED
        BY <2>2, <4>1, <4>2
    <3>2. QED
      BY <1>3, <3>1, ConnectedSymmetric
  <2>3. CASE c[s] \in {low, high} /\ c[t] \in {low, high}
    BY <1>3, <2>2, <2>3, ConnectedTransitive
  <2>4. CASE c[s] = c[t]
    BY <2>1, <2>4
  <2>5. (c[s] \in {low, high} /\ c[t] \in {low, high}) \/ c[s] = c[t]
    BY <1>6, <1>10
  <2>6. QED
    BY <2>3, <2>4, <2>5
<1>11. d' = d
  BY <1>1 DEF LabelsLinked, d
<1> QED
  BY <1>1, <1>8, <1>9, <1>10, <1>11 DEF Forest, d

-----------------------------------------------------------------------------
(* A step that leaves the forest alone keeps its labelling. *)
LEMMA ForestKept ==
  ASSUME NEW c, Forest(c), dataset' = dataset, parents' = parents
  PROVE  Forest(c)'
  BY Fixed DEF Forest

LEMMA JoinedBeforeKept ==
  ASSUME NEW c, NEW m, dataset' = dataset
  PROVE  JoinedBefore(c, m)' <=> JoinedBefore(c, m)
  BY Fixed DEF JoinedBefore

(* Steps of the union-find loops. *)
LEMMA BeginJoinStep ==
  ASSUME IInv, BeginJoin PROVE IInv'
<1> USE DEF BeginJoin
<1>1. PICK c : Labelled(c)
  BY DEF IInv
<1>2. dataset \in Datasets /\ Bounds /\ Aliases
  BY DEF IInv
<1>3. Joins \in Nat /\ at \in Nat \ {0} /\ at \in 1..Joins
  BY <1>2, JoinNumbers DEF Bounds
<1>4. Joined(at)[1] \in Sources /\ Joined(at)[2] \in Sources
  BY <1>2, <1>3, JoinedConnected
<1>5. Sources \subseteq Nat
  BY <1>2, Declarations
<1>6. Sources' = Sources /\ Entries' = Entries /\ Joins' = Joins
  BY Fixed
<1>7. Forest(c)'
  BY <1>1, ForestKept DEF Labelled
<1>8. Done(c)'
  <2>1. JoinedBefore(c, at - 1)
    BY <1>1 DEF Labelled, Done, Joining
  <2>2. QED
    BY <2>1, JoinedBeforeKept DEF Done, Joining, Walking
<1>9. Cursors(c)'
  BY <1>3, <1>4, <1>6, Fixed DEF Cursors, Walking
<1>10. Collected(c)'
  BY <1>1, <1>6 DEF Labelled, Collected, Joining, Walking
<1>11. Bounds'
  BY <1>2, <1>3, <1>4, <1>5, <1>6 DEF Bounds, Joining, Walking
<1>12. Aliases'
  BY <1>2, <1>6 DEF Aliases
<1> QED
  BY <1>2, <1>7, <1>8, <1>9, <1>10, <1>11, <1>12 DEF IInv, Labelled

LEMMA SkipEntryStep ==
  ASSUME IInv, SkipEntry PROVE IInv'
<1> USE DEF SkipEntry
<1>1. PICK c : Labelled(c)
  BY DEF IInv
<1>2. dataset \in Datasets /\ Bounds /\ Aliases
  BY DEF IInv
<1>3. Joins \in Nat /\ at \in Nat \ {0}
  BY <1>2, JoinNumbers DEF Bounds
<1>4. Sources' = Sources /\ Entries' = Entries /\ Joins' = Joins
  BY Fixed
<1>5. Forest(c)'
  BY <1>1, ForestKept DEF Labelled
<1>6. Done(c)'
  <2>1. JoinedBefore(c, at - 1)
    BY <1>1 DEF Labelled, Done, Joining
  <2>2. JoinedBefore(c, at)
    BY <1>3, <2>1 DEF JoinedBefore
  <2>3. at' - 1 = at
    BY <1>3
  <2>4. QED
    BY <2>2, <2>3, Fixed DEF Done, Joining, JoinedBefore
<1>7. Cursors(c)'
  BY DEF Cursors, Walking
<1>8. Collected(c)'
  BY <1>1, <1>4 DEF Labelled, Collected, Joining, Walking
<1>9. Bounds'
  BY <1>2, <1>3, <1>4 DEF Bounds, Joining, Walking
<1>10. Aliases'
  BY <1>2, <1>4 DEF Aliases
<1> QED
  BY <1>2, <1>5, <1>6, <1>7, <1>8, <1>9, <1>10 DEF IInv, Labelled

(* A halving on behalf of either cursor: the forest changes, no label does. *)
LEMMA HalvingStep ==
  ASSUME IInv, HalveA \/ HalveB PROVE IInv'
<1>1. PICK c : Labelled(c)
  BY DEF IInv
<1>2. dataset \in Datasets /\ Bounds /\ Aliases
  BY DEF IInv
<1>3. /\ dataset' = dataset /\ phase' = phase /\ at' = at
      /\ components' = components /\ receipts' = receipts
      /\ representatives' = representatives
  BY DEF HalveA, HalveB
<1>4. Sources \subseteq Nat
  BY <1>2, Declarations
<1>5. Sources' = Sources /\ Entries' = Entries /\ Joins' = Joins
  BY <1>3, Fixed
<1>6. PICK x \in Sources :
        /\ parents[x] # x
        /\ parents' = Halved(x)
        /\ \/ /\ phase \in {"root_a", "collect"} /\ x = a /\ a' = parents'[x] /\ b' = b
           \/ /\ phase = "root_b" /\ x = b /\ b' = parents'[x] /\ a' = a
  BY <1>1 DEF HalveA, HalveB, Labelled, Cursors, Walking
<1>7. Forest(c)' /\ parents'[x] \in Sources /\ c[parents'[x]] = c[x]
  BY <1>1, <1>2, <1>3, <1>6, HalvingKeepsForest DEF Labelled
<1>8. Done(c)'
  BY <1>1, <1>3, <1>5, JoinedBeforeKept DEF Labelled, Done, Joining, Walking
<1>9. Cursors(c)'
  <2>1. \A n : Joined(n)' = Joined(n) /\ IsJoin(n)' = IsJoin(n)
    BY <1>3, Fixed
  <2>2. /\ Walking => /\ at <= Joins /\ IsJoin(at)
                      /\ a' \in Sources /\ b' \in Sources
                      /\ c[a'] = c[Joined(at)[1]] /\ c[b'] = c[Joined(at)[2]]
        /\ phase = "collect" /\ at \in Sources => a' \in Sources /\ c[a'] = c[at]
    BY <1>1, <1>6, <1>7 DEF Labelled, Cursors, Walking
  <2>3. phase = "root_b" => parents'[a'] = a'
    <3>1. SUFFICES ASSUME phase = "root_b" PROVE parents'[a'] = a'
      OBVIOUS
    <3>2. a \in Sources /\ parents[a] = a /\ a' = a
      BY <1>1, <1>6, <3>1 DEF Labelled, Cursors, Walking
    <3>3. parents \in [Sources -> Sources]
      BY <1>1 DEF Labelled, Forest
    <3>4. QED
      BY <1>6, <3>2, <3>3 DEF Halved
  <2>4. QED
    BY <1>3, <1>5, <2>1, <2>2, <2>3 DEF Cursors, Walking
<1>10. Collected(c)'
  BY <1>1, <1>3, <1>5 DEF Labelled, Collected, Joining, Walking, MembersBefore, Groups
<1>11. Bounds'
  BY <1>2, <1>3, <1>4, <1>5, <1>6, <1>7 DEF Bounds, Joining, Walking
<1>12. Aliases'
  BY <1>2, <1>3, <1>5 DEF Aliases
<1> QED
  BY <1>2, <1>3, <1>7, <1>8, <1>9, <1>10, <1>11, <1>12 DEF IInv, Labelled

LEMMA RootAStep ==
  ASSUME IInv, RootA PROVE IInv'
<1> USE DEF RootA
<1>1. PICK c : Labelled(c)
  BY DEF IInv
<1>2. dataset \in Datasets /\ Bounds /\ Aliases
  BY DEF IInv
<1>3. Sources' = Sources /\ Entries' = Entries /\ Joins' = Joins
  BY Fixed
<1>4. Forest(c)'
  BY <1>1, ForestKept DEF Labelled
<1>5. Done(c)'
  BY <1>1, <1>3, JoinedBeforeKept DEF Labelled, Done, Joining, Walking
<1>6. Cursors(c)'
  BY <1>1, <1>3, Fixed DEF Labelled, Cursors, Walking
<1>7. Collected(c)'
  BY <1>1, <1>3 DEF Labelled, Collected, Joining, Walking
<1>8. Bounds'
  BY <1>2, <1>3 DEF Bounds, Joining, Walking
<1>9. Aliases'
  BY <1>2, <1>3 DEF Aliases
<1> QED
  BY <1>2, <1>4, <1>5, <1>6, <1>7, <1>8, <1>9 DEF IInv, Labelled

(* Only roots of connected sources are linked. *)
LEMMA LinkConnects ==
  ASSUME IInv, Link, NEW c, Labelled(c)
  PROVE  /\ a \in Sources /\ b \in Sources /\ parents[a] = a /\ parents[b] = b
         /\ Connected(a, b)
<1>1. /\ IsJoin(at) /\ at <= Joins /\ a \in Sources /\ b \in Sources
      /\ c[a] = c[Joined(at)[1]] /\ c[b] = c[Joined(at)[2]]
      /\ parents[a] = a /\ parents[b] = b
  BY DEF Link, Labelled, Cursors, Walking
<1>2. dataset \in Datasets /\ at \in 1..Joins
  BY <1>1, JoinNumbers DEF IInv, Bounds
<1>3. /\ Joined(at)[1] \in Sources /\ Joined(at)[2] \in Sources
      /\ Connected(Joined(at)[1], Joined(at)[2])
  BY <1>1, <1>2, JoinedConnected
<1>4. Connected(a, Joined(at)[1]) /\ Connected(Joined(at)[2], b)
  BY <1>1, <1>3 DEF Labelled, Forest
<1>5. Connected(a, Joined(at)[2])
  BY <1>1, <1>3, <1>4, ConnectedTransitive
<1> QED
  BY <1>1, <1>3, <1>4, <1>5, ConnectedTransitive

(* Linking renames the labels of the two roots and so makes join at. *)
LEMMA LinkStep ==
  ASSUME IInv, Link PROVE IInv'
<1> USE DEF Link
<1>1. PICK c : Labelled(c)
  BY DEF IInv
<1>2. dataset \in Datasets /\ Bounds /\ Aliases
  BY DEF IInv
<1>3. Joins \in Nat /\ at \in Nat \ {0} /\ at \in 1..Joins
  BY <1>1, <1>2, JoinNumbers DEF Labelled, Cursors, Bounds, Walking
<1>4. Sources' = Sources /\ Entries' = Entries /\ Joins' = Joins
  BY Fixed
<1>5. /\ IsJoin(at) /\ a \in Sources /\ b \in Sources
      /\ c[a] = c[Joined(at)[1]] /\ c[b] = c[Joined(at)[2]]
      /\ parents[a] = a /\ parents[b] = b
  BY <1>1 DEF Labelled, Cursors, Walking
<1>6. /\ Joined(at)[1] \in Sources /\ Joined(at)[2] \in Sources
      /\ Connected(Joined(at)[1], Joined(at)[2])
  BY <1>2, <1>3, <1>5, JoinedConnected
<1>7. Connected(a, b)
  BY <1>1, LinkConnects
<1>d. PICK d : d = LabelsLinked(c, a, b)
  OBVIOUS
<1>8. Forest(LabelsLinked(c, a, b))'
  BY <1>1, <1>2, <1>5, <1>7, LinkingRenamesForest DEF Labelled
<1>9. \A u, v \in Sources : c[u] = c[v] => d[u] = d[v]
  BY <1>d DEF LabelsLinked
<1>10. d[Joined(at)[1]] = d[Joined(at)[2]]
  <2>1. c[a] = a /\ c[b] = b
    BY <1>1, <1>5 DEF Labelled, Forest
  <2>2. QED
    BY <1>d, <1>5, <1>6, <2>1 DEF LabelsLinked
<1>11. LabelsLinked(c, a, b)' = d
  BY <1>d, <1>4 DEF LabelsLinked
<1>12. JoinedBefore(d, at)
  <2>1. SUFFICES ASSUME NEW n \in 1..at, IsJoin(n)
                 PROVE  d[Joined(n)[1]] = d[Joined(n)[2]]
    BY DEF JoinedBefore
  <2>2. CASE n = at
    BY <1>10, <2>2
  <2>3. CASE n # at
    <3>1. n \in 1..(at - 1) /\ n \in 1..Joins
      BY <1>3, <2>3
    <3>2. c[Joined(n)[1]] = c[Joined(n)[2]]
      BY <1>1, <2>1, <3>1 DEF Labelled, Done, JoinedBefore, Joining, Walking
    <3>3. Joined(n)[1] \in Sources /\ Joined(n)[2] \in Sources
      BY <1>2, <2>1, <3>1, JoinedConnected
    <3>4. QED
      BY <1>9, <3>2, <3>3
  <2>4. QED
    BY <2>2, <2>3
<1>13. Forest(d)'
  BY <1>8, <1>11
<1>14. Done(d)'
  <2>1. at' - 1 = at
    BY <1>3
  <2>2. QED
    BY <1>12, <2>1, Fixed DEF Done, Joining, JoinedBefore
<1>15. Cursors(d)'
  BY DEF Cursors, Walking
<1>16. Collected(d)'
  BY <1>1, <1>4 DEF Labelled, Collected, Joining, Walking
<1>17. Bounds'
  BY <1>2, <1>3, <1>4 DEF Bounds, Joining, Walking
<1>18. Aliases'
  BY <1>2, <1>4 DEF Aliases
<1> QED
  BY <1>2, <1>13, <1>14, <1>15, <1>16, <1>17, <1>18 DEF IInv, Labelled

-----------------------------------------------------------------------------
(* Steps that collect the components and check the split. *)
LEMMA BeginCollectStep ==
  ASSUME IInv, BeginCollect PROVE IInv'
<1> USE DEF BeginCollect
<1>1. PICK c : Labelled(c)
  BY DEF IInv
<1>2. dataset \in Datasets /\ Bounds /\ Aliases
  BY DEF IInv
<1>3. Joins \in Nat /\ at \in Nat \ {0} /\ at - 1 = Joins
  BY <1>2, JoinNumbers DEF Bounds, Joining
<1>4. Sources' = Sources /\ Entries' = Entries /\ Joins' = Joins
  BY Fixed
<1>5. Len(dataset.sources) \in Nat /\ Sources = 1..Len(dataset.sources)
  BY <1>2, Declarations
<1>6. Forest(c)'
  BY <1>1, ForestKept DEF Labelled
<1>7. Done(c)'
  <2>1. JoinedBefore(c, Joins)
    BY <1>1, <1>3 DEF Labelled, Done, Joining
  <2>2. QED
    BY <2>1, <1>4, Fixed DEF Done, Joining, Walking, JoinedBefore
<1>8. Cursors(c)'
  BY <1>4 DEF Cursors, Walking
<1>9. Collected(c)'
  <2>1. components \in [Sources -> SUBSET Sources] /\ \A r \in Sources : components[r] = {}
    BY <1>1 DEF Labelled, Collected, Joining
  <2>2. \A r \in Sources : MembersBefore(c, r, 1) = {}
    BY <1>5 DEF MembersBefore
  <2>3. QED
    BY <1>4, <2>1, <2>2 DEF Collected, Joining, Walking, MembersBefore
<1>10. Bounds'
  BY <1>2, <1>5 DEF Bounds, Joining, Walking
<1>11. Aliases'
  BY <1>2, <1>4 DEF Aliases
<1> QED
  BY <1>2, <1>6, <1>7, <1>8, <1>9, <1>10, <1>11 DEF IInv, Labelled

LEMMA CollectStep ==
  ASSUME IInv, Collect PROVE IInv'
<1> USE DEF Collect
<1>1. PICK c : Labelled(c)
  BY DEF IInv
<1>2. dataset \in Datasets /\ Bounds /\ Aliases
  BY DEF IInv
<1>3. Sources' = Sources /\ Entries' = Entries /\ Joins' = Joins
  BY Fixed
<1>4. Len(dataset.sources) \in Nat /\ Sources = 1..Len(dataset.sources)
  BY <1>2, Declarations
<1>5. Forest(c)'
  BY <1>1, ForestKept DEF Labelled
<1>6. Done(c)'
  BY <1>1, <1>3, JoinedBeforeKept DEF Labelled, Done, Joining, Walking
<1>7. Cursors(c)'
  BY <1>3 DEF Cursors, Walking
<1>8. Collected(c)'
  <2>1. components \in [Sources -> SUBSET Sources]
        /\ \A r \in Sources : components[r] = MembersBefore(c, r, at)
    BY <1>1 DEF Labelled, Collected
  <2>2. a \in Sources /\ c[a] = a /\ c[at] = a
    BY <1>1 DEF Labelled, Cursors, Forest
  <2>3. components' \in [Sources -> SUBSET Sources]
    BY <2>1, <2>2
  <2>4. ASSUME NEW r \in Sources
        PROVE  components'[r] = MembersBefore(c, r, at + 1)
    <3>1. CASE r = a
      <4>1. components'[r] = components[r] \cup {at}
        BY <2>1, <2>2, <3>1
      <4>2. MembersBefore(c, r, at + 1) = MembersBefore(c, r, at) \cup {at}
        BY <1>4, <2>2, <3>1 DEF MembersBefore
      <4>3. QED
        BY <2>1, <4>1, <4>2
    <3>2. CASE r # a
      <4>1. components'[r] = components[r]
        BY <2>1, <3>2
      <4>2. MembersBefore(c, r, at + 1) = MembersBefore(c, r, at)
        BY <1>4, <2>2, <3>2 DEF MembersBefore
      <4>3. QED
        BY <2>1, <4>1, <4>2
    <3>3. QED
      BY <3>1, <3>2
  <2>5. QED
    BY <1>3, <2>3, <2>4 DEF Collected, Joining, Walking, MembersBefore
<1>9. Bounds'
  BY <1>2, <1>4 DEF Bounds, Joining, Walking
<1>10. Aliases'
  BY <1>2, <1>3 DEF Aliases
<1> QED
  BY <1>2, <1>5, <1>6, <1>7, <1>8, <1>9, <1>10 DEF IInv, Labelled

LEMMA SplitStep ==
  ASSUME IInv, AcceptSplit \/ RejectSplit PROVE IInv'
<1> USE DEF AcceptSplit, RejectSplit
<1>1. PICK c : Labelled(c)
  BY DEF IInv
<1>2. dataset \in Datasets /\ Bounds /\ Aliases
  BY DEF IInv
<1>3. Sources' = Sources /\ Entries' = Entries /\ Joins' = Joins /\ dataset' = dataset
  BY Fixed
<1>4. /\ Len(dataset.sources) \in Nat /\ Sources = 1..Len(dataset.sources)
      /\ Len(dataset.entries) \in Nat
  BY <1>2, Declarations
<1>5. Forest(c)'
  BY <1>1, ForestKept DEF Labelled
<1>6. Done(c)'
  BY <1>1, <1>3, JoinedBeforeKept DEF Labelled, Done, Joining, Walking
<1>7. Cursors(c)'
  BY DEF Cursors, Walking
<1>8. Collected(c)'
  <2>1. components \in [Sources -> SUBSET Sources]
        /\ \A r \in Sources : components[r] = MembersBefore(c, r, at)
    BY <1>1 DEF Labelled, Collected
  <2>2. at = Len(dataset.sources) + 1
    BY <1>2, <1>4 DEF Bounds
  <2>3. \A r \in Sources : components[r] = {s \in Sources : c[s] = r}
    BY <1>4, <2>1, <2>2 DEF MembersBefore
  <2>4. phase' = "aliases" => Groups = DOMAIN dataset.split
    OBVIOUS
  <2>5. phase' \in {"aliases", "rejected"} /\ components' = components
    OBVIOUS
  <2>6. Groups' = Groups
    BY <1>3, <2>5 DEF Groups
  <2>7. QED
    BY <1>3, <2>1, <2>3, <2>4, <2>5, <2>6 DEF Collected, Joining, Walking
<1>9. Bounds'
  BY <1>2, <1>4 DEF Bounds, Joining, Walking
<1>10. Aliases'
  BY <1>2, <1>3 DEF Aliases
<1> QED
  BY <1>2, <1>5, <1>6, <1>7, <1>8, <1>9, <1>10 DEF IInv, Labelled

(* The pass over the entries leaves forest and components as they are. *)
LEMMA LabellingKept ==
  ASSUME NEW c, Labelled(c), phase = "aliases", phase' \in {"aliases", "accepted", "rejected"},
         dataset' = dataset, parents' = parents, components' = components
  PROVE  Labelled(c)'
<1>1. Sources' = Sources /\ Entries' = Entries /\ Joins' = Joins /\ Groups' = Groups
  BY Fixed DEF Groups
<1>2. Forest(c)'
  BY ForestKept DEF Labelled
<1>3. Done(c)'
  BY <1>1, JoinedBeforeKept DEF Labelled, Done, Joining, Walking
<1>4. Cursors(c)'
  BY DEF Cursors, Walking
<1>5. Collected(c)'
  BY <1>1 DEF Labelled, Collected, Joining, Walking
<1> QED
  BY <1>2, <1>3, <1>4, <1>5 DEF Labelled

LEMMA AliasesStep ==
  ASSUME IInv,
         NoBytes \/ FirstBytes \/ KnownBytes \/ ConflictingBytes \/ PlaceEntries
  PROVE  IInv'
<1>1. PICK c : Labelled(c)
  BY DEF IInv
<1>2. dataset \in Datasets /\ Bounds /\ Aliases
  BY DEF IInv
<1>3. /\ phase = "aliases" /\ phase' \in {"aliases", "accepted", "rejected"}
      /\ dataset' = dataset /\ parents' = parents /\ components' = components
      /\ a' = a /\ b' = b
      /\ \/ at \in Entries /\ at' = at + 1
         \/ at' = at
  BY DEF NoBytes, FirstBytes, KnownBytes, ConflictingBytes, PlaceEntries
<1>4. Labelled(c)'
  BY <1>1, <1>3, LabellingKept
<1>5. Entries' = Entries
  BY <1>3, Fixed
<1>6. Len(dataset.entries) \in Nat /\ Entries = 1..Len(dataset.entries)
  BY <1>2, Declarations
<1>7. Bounds'
  BY <1>2, <1>3, <1>6 DEF Bounds, Joining, Walking
<1>8. Aliases'
  <2>1. CASE UNCHANGED <<receipts, representatives>>
    BY <1>2, <1>5, <2>1 DEF Aliases
  <2>2. CASE FirstBytes
    <3>1. /\ representatives' = representatives /\ at \in Entries
          /\ receipts' = Put(Bytes(at), Receipt(Signature(at), at, Label(at)))
      BY <2>2 DEF FirstBytes
    <3>2. ASSUME NEW x \in DOMAIN receipts' PROVE receipts'[x].first \in Entries
      BY <1>2, <3>1 DEF Put, Receipt, Aliases
    <3>3. QED
      BY <1>2, <1>5, <3>1, <3>2 DEF Aliases
  <2>3. CASE KnownBytes
    <3>1. PICK known : known = receipts[Bytes(at)]
      OBVIOUS
    <3>2. /\ representatives' = [representatives EXCEPT ![at] = known.first]
          /\ receipts' = Put(Bytes(at), Receipt(known.signature, known.first,
                                                KnownLabel(known)))
          /\ at \in Entries /\ Bytes(at) \in DOMAIN receipts
      BY <2>3, <3>1 DEF KnownBytes
    <3>3. known.first \in Entries
      BY <1>2, <3>1, <3>2 DEF Aliases
    <3>4. ASSUME NEW x \in DOMAIN receipts' PROVE receipts'[x].first \in Entries
      BY <1>2, <3>2, <3>3 DEF Put, Receipt, Aliases
    <3>5. QED
      BY <1>2, <1>5, <3>2, <3>3, <3>4 DEF Aliases
  <2>4. QED
    BY <2>1, <2>2, <2>3 DEF NoBytes, ConflictingBytes, PlaceEntries
<1> QED
  BY <1>2, <1>3, <1>4, <1>7, <1>8 DEF IInv

LEMMA InvariantStep == IInv /\ [Next]_vars => IInv'
<1> SUFFICES ASSUME IInv, [Next]_vars PROVE IInv'
  OBVIOUS
<1>1. CASE UNCHANGED vars
  <2>1. PICK c : Labelled(c)
    BY DEF IInv
  <2>2. /\ dataset' = dataset /\ phase' = phase /\ at' = at /\ a' = a /\ b' = b
        /\ parents' = parents /\ components' = components
        /\ receipts' = receipts /\ representatives' = representatives
    BY <1>1
  <2>3. Sources' = Sources /\ Entries' = Entries /\ Joins' = Joins /\ Groups' = Groups
    BY <2>2, Fixed DEF Groups
  <2>4. Forest(c)'
    BY <2>1, <2>2, ForestKept DEF Labelled
  <2>5. Done(c)'
    BY <2>1, <2>2, <2>3, JoinedBeforeKept DEF Labelled, Done, Joining, Walking
  <2>6. Cursors(c)'
    BY <2>1, <2>2, <2>3, Fixed DEF Labelled, Cursors, Walking
  <2>7. Collected(c)'
    BY <2>1, <2>2, <2>3 DEF Labelled, Collected, Joining, Walking, MembersBefore
  <2>8. Bounds' /\ Aliases' /\ dataset' \in Datasets
    BY <2>2, <2>3 DEF IInv, Bounds, Aliases, Joining, Walking
  <2>9. QED
    BY <2>4, <2>5, <2>6, <2>7, <2>8 DEF IInv, Labelled
<1>2. CASE Next
  BY <1>2, BeginJoinStep, SkipEntryStep, HalvingStep, RootAStep, LinkStep,
     BeginCollectStep, CollectStep, SplitStep, AliasesStep DEF Next
<1> QED
  BY <1>1, <1>2

-----------------------------------------------------------------------------
(* When every join has been made the labels are those of the components. *)
LEMMA RelatedAgree ==
  ASSUME dataset \in Datasets, NEW c, JoinedBefore(c, Joins),
         NEW s \in Sources, NEW t \in Sources, Related(s, t)
  PROVE  c[s] = c[t]
<1>1. PICK p \in Nat, q \in Nat, r \in Nat :
        /\ p = Len(dataset.sources) /\ q = Len(dataset.derivations)
        /\ r = Len(dataset.entries)
  BY Declarations
<1>2. Sources = 1..p /\ DOMAIN dataset.derivations = 1..q /\ Entries = 1..r
  BY <1>1, Declarations
<1>3. SourceJoins = 4 * p /\ DeclaredJoins = 4 * p + q /\ Joins = 4 * p + q + r
  BY <1>1, Zenon DEF SourceJoins, DeclaredJoins, Joins
<1>4. CASE Shares(s, t)
  <2>1. PICK kind \in 1..4 : Key(s, kind) = Key(t, kind)
    BY <1>4, SharesSameKey
  <2>2. ASSUME NEW u \in Sources, Key(u, kind) = Key(s, kind)
        PROVE  c[u] = c[FirstWith(kind, Key(s, kind))]
    <3>1. PICK n : n = 4 * (u - 1) + kind
      OBVIOUS
    <3>2. u \in Nat \ {0} /\ u <= p
      BY <1>2
    <3>3. n \in 1..(4 * p + q + r) /\ n <= 4 * p /\ ~(n > 4 * p + q)
      BY <3>1, <3>2
    <3>4. SourceAt(n) = u /\ KindAt(n) = kind
      BY <3>1, <3>2, Places
    <3>5. Joined(n) = <<FirstWith(kind, Key(u, kind)), u>>
      BY <1>3, <3>3, <3>4, Zenon DEF Joined
    <3>6. IsJoin(n)
      BY <1>3, <3>3, Zenon DEF IsJoin
    <3>7. c[Joined(n)[1]] = c[Joined(n)[2]]
      BY <1>3, <3>3, <3>6, Zenon DEF JoinedBefore
    <3>8. QED
      BY <2>2, <3>5, <3>7
  <2>3. QED
    BY <2>1, <2>2
<1>5. CASE \E e \in DOMAIN dataset.derivations : dataset.derivations[e] = <<s, t>>
  <2>1. PICK e \in 1..q : dataset.derivations[e] = <<s, t>>
    BY <1>2, <1>5
  <2>2. PICK n : n = 4 * p + e
    OBVIOUS
  <2>3. /\ n \in 1..(4 * p + q + r) /\ ~(n <= 4 * p) /\ n <= 4 * p + q
        /\ ~(n > 4 * p + q) /\ n - 4 * p = e
    BY <2>2
  <2>4. Joined(n) = <<s, t>>
    BY <1>3, <2>1, <2>3, Zenon DEF Joined
  <2>5. IsJoin(n)
    BY <1>3, <2>3, Zenon DEF IsJoin
  <2>6. c[Joined(n)[1]] = c[Joined(n)[2]]
    BY <1>3, <2>3, <2>5, Zenon DEF JoinedBefore
  <2>7. QED
    BY <2>4, <2>6
<1>6. CASE \E e \in Entries :
             /\ dataset.entries[e].kind = "response"
             /\ s = dataset.entries[e].bindings[1].source
             /\ t = dataset.entries[e].bindings[2].source
  <2>1. PICK e \in 1..r :
             /\ dataset.entries[e].kind = "response"
             /\ s = dataset.entries[e].bindings[1].source
             /\ t = dataset.entries[e].bindings[2].source
    BY <1>2, <1>6
  <2>2. PICK n : n = 4 * p + q + e
    OBVIOUS
  <2>3. /\ n \in 1..(4 * p + q + r) /\ ~(n <= 4 * p) /\ ~(n <= 4 * p + q)
        /\ n - (4 * p + q) = e
    BY <2>2
  <2>4. EntryAt(n) = dataset.entries[e]
    BY <1>3, <2>3, Zenon DEF EntryAt
  <2>5. Joined(n) = <<s, t>>
    BY <1>3, <2>1, <2>3, <2>4, Zenon DEF Joined
  <2>6. IsJoin(n)
    BY <2>1, <2>4, Zenon DEF IsJoin
  <2>7. c[Joined(n)[1]] = c[Joined(n)[2]]
    BY <1>3, <2>3, <2>6, Zenon DEF JoinedBefore
  <2>8. QED
    BY <2>5, <2>7
<1> QED
  BY <1>4, <1>5, <1>6 DEF Related

LEMMA ConnectedAgree ==
  ASSUME dataset \in Datasets, NEW c, JoinedBefore(c, Joins),
         NEW s \in Sources, NEW t \in Sources, Connected(s, t)
  PROVE  c[s] = c[t]
<1> DEFINE C == {u \in Sources : c[u] = c[s]}
<1>1. Sealed(C)
  BY RelatedAgree DEF Sealed
<1>2. s \in C /\ C \in SUBSET Sources
  OBVIOUS
<1>3. t \in C
  BY <1>1, <1>2 DEF Connected
<1> QED
  BY <1>3

LEMMA InvariantGivesGroups == IInv => GroupsAreComponents
<1> SUFFICES ASSUME IInv, phase \in {"aliases", "accepted"},
                    NEW s \in Sources, NEW t \in Sources
             PROVE  Together(s, t) <=> Connected(s, t)
  BY DEF GroupsAreComponents
<1>1. PICK c : Labelled(c)
  BY DEF IInv
<1>2. dataset \in Datasets /\ JoinedBefore(c, Joins) /\ Forest(c)
  BY <1>1 DEF IInv, Labelled, Done, Joining, Walking
<1>3. /\ \A r \in Sources : components[r] = {u \in Sources : c[u] = r}
      /\ Groups = DOMAIN dataset.split
  BY <1>1 DEF Labelled, Collected
<1>4. ASSUME Together(s, t) PROVE Connected(s, t)
  <2>1. PICK g \in Groups : s \in g /\ t \in g
    BY <1>3, <1>4 DEF Together
  <2>2. PICK r \in Sources : g = components[r]
    BY DEF Groups
  <2>3. c[s] = c[t]
    BY <1>3, <2>1, <2>2
  <2>4. QED
    BY <1>2, <2>3 DEF Forest
<1>5. ASSUME Connected(s, t) PROVE Together(s, t)
  <2>1. c[s] = c[t] /\ c[s] \in Sources
    BY <1>2, <1>5, ConnectedAgree DEF Forest
  <2>2. s \in components[c[s]] /\ t \in components[c[s]]
    BY <1>3, <2>1
  <2>3. components[c[s]] \in Groups
    BY <2>1, <2>2 DEF Groups
  <2>4. QED
    BY <1>3, <2>2, <2>3 DEF Together
<1> QED
  BY <1>4, <1>5

-----------------------------------------------------------------------------
(***************************************************************************)
(* The forest implements components that merge at once: its only labelling *)
(* names each source's root.                                               *)
(***************************************************************************)
RootIn(S, p, s) ==
  CHOOSE r \in S :
    /\ p[r] = r
    /\ \A C \in SUBSET S : s \in C /\ (\A u \in C : p[u] \in C) => r \in C

LEMMA LabelIsRoot ==
  ASSUME NEW S \in SUBSET Nat, NEW p \in [S -> S], NEW c \in [S -> S],
         \A s \in S : p[s] <= s /\ c[p[s]] = c[s] /\ (p[s] = s => c[s] = s),
         NEW s \in S
  PROVE  RootIn(S, p, s) = c[s]
<1> DEFINE Class == {u \in S : c[u] = c[s]}
<1>1. s \in Class /\ Class \in SUBSET S /\ \A u \in Class : p[u] \in Class
  OBVIOUS
<1>2. \A u \in Class : p[u] = u => u = c[s]
  OBVIOUS
<1> HIDE DEF Class
<1>3. ASSUME NEW C \in SUBSET S, s \in C, \A u \in C : p[u] \in C
      PROVE  c[s] \in C /\ p[c[s]] = c[s]
  <2> DEFINE D == C \cap Class
  <2>1. D # {} /\ D \subseteq Nat /\ \A u \in D : p[u] \in D
    BY <1>1, <1>3
  <2> HIDE DEF D
  <2>2. PICK m \in D : \A y \in D : m <= y
    BY <2>1, Least
  <2>3. m \in C /\ m \in Class /\ m \in S
    BY <1>1, <2>2 DEF D
  <2>4. p[m] \in Nat /\ m \in Nat /\ p[m] <= m /\ m <= p[m]
    BY <2>1, <2>2, <2>3
  <2>5. p[m] = m
    BY <2>4
  <2>6. QED
    BY <1>2, <2>3, <2>5
<1>4. c[s] \in S /\ p[c[s]] = c[s]
  BY <1>1, <1>3
<1>5. ASSUME NEW r \in S, p[r] = r,
             \A C \in SUBSET S : s \in C /\ (\A u \in C : p[u] \in C) => r \in C
      PROVE  r = c[s]
  BY <1>1, <1>2, <1>5
<1> QED
  BY <1>3, <1>4, <1>5 DEF RootIn

LEMMA MergesInitially == Init => Merged!Init
<1> SUFFICES ASSUME Init PROVE Merged!Init
  OBVIOUS
<1>1. PICK c : Forest(c)
  BY InvariantInitially DEF IInv, Labelled
<1>2. Sources \subseteq Nat
  BY Declarations DEF Init
<1>3. ASSUME NEW s \in Sources PROVE Root(s) = s
  <2>1. Root(s) = RootIn(Sources, parents, s)
    BY DEF Root, RootIn
  <2>2. RootIn(Sources, parents, s) = c[s]
    BY <1>1, <1>2, LabelIsRoot DEF Forest
  <2>3. c[s] = s
    BY <1>1 DEF Init, Forest
  <2>4. QED
    BY <2>1, <2>2, <2>3
<1> QED
  BY <1>3 DEF Merged!Init

LEMMA MergesStep ==
  IInv /\ [Next]_vars => [Merged!Next]_<<dataset, [s \in Sources |-> Root(s)]>>
<1> SUFFICES ASSUME IInv, [Next]_vars
             PROVE  [Merged!Next]_<<dataset, [s \in Sources |-> Root(s)]>>
  OBVIOUS
<1>1. PICK c : Labelled(c)
  BY DEF IInv
<1>2. dataset \in Datasets /\ Forest(c)
  BY <1>1 DEF IInv, Labelled
<1>3. dataset' = dataset
  BY DEF Next, BeginJoin, SkipEntry, HalveA, RootA, HalveB, Link, BeginCollect, Collect,
         AcceptSplit, RejectSplit, NoBytes, FirstBytes, KnownBytes, ConflictingBytes,
         PlaceEntries
<1>4. Sources' = Sources /\ Sources \subseteq Nat
  BY <1>2, <1>3, Fixed, Declarations
<1>5. [s \in Sources |-> Root(s)] = c
  <2>1. \A s : Root(s) = RootIn(Sources, parents, s)
    BY DEF Root, RootIn
  <2>2. \A s \in Sources : RootIn(Sources, parents, s) = c[s]
    BY <1>2, <1>4, LabelIsRoot DEF Forest
  <2>3. QED
    BY <1>2, <2>1, <2>2 DEF Forest
<1>6. ASSUME NEW d, Forest(d)'
      PROVE  [s \in Sources |-> Root(s)]' = d
  <2>1. /\ d \in [Sources -> Sources] /\ parents' \in [Sources -> Sources]
        /\ \A s \in Sources : /\ parents'[s] <= s
                              /\ d[parents'[s]] = d[s]
                              /\ parents'[s] = s => d[s] = s
    BY <1>4, <1>6 DEF Forest
  <2>2. \A s : Root(s)' = RootIn(Sources, parents', s)
    BY <1>4 DEF Root, RootIn
  <2>3. \A s \in Sources : RootIn(Sources, parents', s) = d[s]
    BY <1>4, <2>1, LabelIsRoot
  <2>4. QED
    BY <1>4, <2>1, <2>2, <2>3
<1>7. CASE Link
  <2>1. /\ a \in Sources /\ b \in Sources /\ parents[a] = a /\ parents[b] = b
        /\ Connected(a, b) /\ parents' = Linked(a, b)
        /\ a' = a /\ b' = b
    BY <1>1, <1>7, LinkConnects DEF Link
  <2>2. Forest(LabelsLinked(c, a, b))'
    BY <1>2, <1>3, <2>1, LinkingRenamesForest
  <2>3. LabelsLinked(c, a, b)' = LabelsLinked(c, a, b)
    BY <1>4, <1>7 DEF Link, LabelsLinked
  <2>4. PICK d : d = LabelsLinked(c, a, b)
    OBVIOUS
  <2>5. [s \in Sources |-> Root(s)]' = d
    BY <1>6, <2>2, <2>3, <2>4
  <2>6. c[a] = a /\ c[b] = b /\ DOMAIN c = Sources
    BY <1>2, <2>1 DEF Forest
  <2>7. d = Merged!Renamed(c, c[a], c[b])
    BY <2>4, <2>6 DEF LabelsLinked, Merged!Renamed
  <2>8. \E s, t \in DOMAIN c : d = Merged!Renamed(c, c[s], c[t])
    BY <2>1, <2>6, <2>7
  <2>9. Merged!Next
    BY <1>5, <2>5, <2>8 DEF Merged!Next, Merged!Merge
  <2>10. QED
    BY <2>9
<1>8. CASE ~Link
  <2>1. Forest(c)'
    <3>1. CASE HalveA
      BY <1>2, <1>3, <3>1, HalvingKeepsForest DEF HalveA
    <3>2. CASE HalveB
      <4>1. b \in Sources
        BY <1>1, <3>2 DEF HalveB, Labelled, Cursors, Walking
      <4>2. QED
        BY <1>2, <1>3, <3>2, <4>1, HalvingKeepsForest DEF HalveB
    <3>3. CASE parents' = parents
      BY <1>2, <1>3, <3>3, ForestKept
    <3>4. QED
      BY <1>8, <3>1, <3>2, <3>3
         DEF Next, BeginJoin, SkipEntry, RootA, BeginCollect, Collect, AcceptSplit,
             RejectSplit, NoBytes, FirstBytes, KnownBytes, ConflictingBytes, PlaceEntries
  <2>2. [s \in Sources |-> Root(s)]' = c
    BY <1>6, <2>1
  <2>3. QED
    BY <1>3, <1>5, <2>2
<1> QED
  BY <1>7, <1>8

-----------------------------------------------------------------------------
(* The forest always carries a labelling. *)
THEOREM LabelledForest == Spec => []IInv
<1>1. Init => IInv
  BY InvariantInitially
<1>2. IInv /\ [Next]_vars => IInv'
  BY InvariantStep
<1> QED
  BY <1>1, <1>2, PTL DEF Spec

(* The inspection of any dataset stays within its types and bounds:        *)
(* cursors never leave the sources while they are used, loops never run    *)
(* past their lists, and a duplicate's representative is an entry.         *)
THEOREM Typed == Spec => []TypeOK
<1>1. IInv => TypeOK
  BY InvariantGivesTypeOK
<1> QED
  BY <1>1, LabelledForest, PTL

(* However sources are related, a dataset that passes the split check has  *)
(* assigned its roles to the connected components of what it declares.     *)
THEOREM ComponentsGrouped == Spec => []GroupsAreComponents
<1>1. IInv => GroupsAreComponents
  BY InvariantGivesGroups
<1> QED
  BY <1>1, LabelledForest, PTL

(* Every walk, halving and link, seen through the roots, is either no      *)
(* change at all or one merge of two whole components under the name of    *)
(* their smallest source.                                                  *)
THEOREM ComponentsMerge == Spec => ForestMerges
<1>1. Init => Merged!Init
  BY MergesInitially
<1>2. IInv /\ [Next]_vars => [Merged!Next]_<<dataset, [s \in Sources |-> Root(s)]>>
  BY MergesStep
<1> QED
  BY <1>1, <1>2, LabelledForest, PTL DEF Spec, ForestMerges

-----------------------------------------------------------------------------
(***************************************************************************)
(* For every calibration dataset that is accepted: equal bytes are one     *)
(* piece of evidence, in one group, of one kind, under one label, and      *)
(* nothing shared or related is on both sides of a role boundary.          *)
(***************************************************************************)

LEMMA EntriesFixed ==
  ASSUME dataset' = dataset
  PROVE  /\ \A e : Bytes(e)' = Bytes(e) /\ Label(e)' = Label(e)
         /\ \A e : Signature(e)' = Signature(e)
<1>1. \A e : Bytes(e)' = Bytes(e) /\ Label(e)' = Label(e)
  BY DEF Bytes, Label
<1>2. \A e : Signature(e)' = Signature(e)
  BY DEF Signature
<1> QED
  BY <1>1, <1>2

(* An entry with bytes names at least one source. *)
LEMMA EntryDeclared ==
  ASSUME dataset \in Datasets, NEW e \in Entries
  PROVE  /\ \A i \in DOMAIN dataset.entries[e].bindings :
              dataset.entries[e].bindings[i].source \in Sources
         /\ Bytes(e) # Null => 1 \in DOMAIN dataset.entries[e].bindings
<1>1. WellFormed(dataset)
  BY DatasetsAssumption
<1>2. PICK entry : entry = dataset.entries[e]
  OBVIOUS
<1>3. /\ entry.kind \in Kinds
      /\ DOMAIN entry.bindings = 1..BindingCount(entry.kind)
      /\ \A k \in DOMAIN entry.bindings :
           entry.bindings[k].source \in DOMAIN dataset.sources
      /\ entry.bytes = Null <=> entry.kind = "missing"
  BY <1>1, <1>2 DEF WellFormed, Entries
<1>4. entry.bytes # Null => BindingCount(entry.kind) \in {1, 2}
  BY <1>3 DEF Kinds, BindingCount
<1> QED
  BY <1>2, <1>3, <1>4 DEF Bytes, Sources

-----------------------------------------------------------------------------
(* What the pass over the entries has recorded.  Every receipt is that of  *)
(* an entry the pass has left behind, and every entry it has left behind   *)
(* agrees with the receipt of its bytes.                                   *)
Ahead(e) ==
  \/ phase \notin {"aliases", "accepted", "rejected"}
  \/ phase = "aliases" /\ at <= e

Noted(x) ==
  /\ receipts[x].first \in Entries
  /\ Bytes(receipts[x].first) = x
  /\ x # Null
  /\ ~Ahead(receipts[x].first)

Recorded(e) ==
  /\ Bytes(e) = Null => representatives[e] = e
  /\ Bytes(e) # Null =>
       /\ Bytes(e) \in DOMAIN receipts
       /\ receipts[Bytes(e)].signature = Signature(e)
       /\ Label(e) # Null => receipts[Bytes(e)].label = Label(e)
       /\ receipts[Bytes(e)].first <= e
       /\ representatives[e] = receipts[Bytes(e)].first

Receipts ==
  /\ \A x \in DOMAIN receipts : Noted(x)
  /\ \A e \in Entries : Ahead(e) => representatives[e] = e
  /\ phase \in {"aliases", "accepted"} =>
       \A e \in Entries : ~Ahead(e) => Recorded(e)

AllPlaced ==
  phase = "accepted" =>
    /\ inspected.entries = [e \in Entries |-> Placed(e)]
    /\ \A e \in Entries : \A g, h \in GroupsOf(e) : g = h

EInv == Receipts /\ AllPlaced

LEMMA EvidenceInitially == Init => EInv
<1> SUFFICES ASSUME Init PROVE EInv
  OBVIOUS
<1>1. phase = "next" /\ DOMAIN receipts = {} /\ representatives = [e \in Entries |-> e]
  BY DEF Init
<1> QED
  BY <1>1 DEF EInv, Receipts, AllPlaced, Ahead

(* The steps before the pass record nothing. *)
LEMMA BeforeTheAliases ==
  ASSUME IInv, EInv,
         phase \notin {"aliases", "accepted", "rejected"},
         dataset' = dataset, receipts' = receipts, representatives' = representatives,
         \/ phase' \notin {"aliases", "accepted"}
         \/ phase' = "aliases" /\ at' = 1
  PROVE  EInv'
<1>1. Entries' = Entries
  BY Fixed
<1>2. DOMAIN receipts = {}
  BY DEF EInv, Receipts, Noted, Ahead
<1>3. \A e \in Entries : representatives[e] = e
  BY DEF EInv, Receipts, Ahead
<1>4. Entries \subseteq Nat \ {0}
  <2>1. Len(dataset.entries) \in Nat /\ Entries = 1..Len(dataset.entries)
    BY Declarations DEF IInv
  <2>2. QED
    BY <2>1
<1>5. phase' = "aliases" => \A e \in Entries : Ahead(e)'
  BY <1>4 DEF Ahead
<1>6. Receipts'
  BY <1>1, <1>2, <1>3, <1>5 DEF Receipts
<1>7. AllPlaced'
  BY DEF AllPlaced
<1> QED
  BY <1>6, <1>7 DEF EInv

-----------------------------------------------------------------------------
(* Numbers the pass compares. *)
LEMMA EntryNumbers ==
  ASSUME IInv
  PROVE  /\ Entries \subseteq Nat \ {0} /\ at \in Nat \ {0}
         /\ phase = "aliases" /\ at \notin Entries => \A e \in Entries : e < at
<1>1. /\ Len(dataset.entries) \in Nat /\ Entries = 1..Len(dataset.entries)
      /\ at \in Nat \ {0} /\ (phase = "aliases" => at <= Len(dataset.entries) + 1)
  BY Declarations DEF IInv, Bounds
<1> QED
  BY <1>1

(* One iteration of the pass, whichever it is. *)
LEMMA Advance ==
  ASSUME IInv, EInv, phase = "aliases", phase' = "aliases", dataset' = dataset,
         NEW n \in Entries, n = at, at' = at + 1,
         \A x \in DOMAIN receipts' : /\ receipts'[x].first \in Entries
                                     /\ receipts'[x].first <= n
                                     /\ Bytes(receipts'[x].first) = x
                                     /\ x # Null,
         \A e \in Entries : n < e => representatives'[e] = representatives[e],
         \A e \in Entries : e <= n => Recorded(e)'
  PROVE  EInv'
<1>1. Entries' = Entries /\ \A e : Bytes(e)' = Bytes(e)
  BY Fixed, EntriesFixed
<1>2. Entries \subseteq Nat \ {0} /\ n \in Nat \ {0} /\ at' = n + 1
  BY EntryNumbers
<1>3. \A e \in Entries : (Ahead(e)' <=> n < e) /\ (Ahead(e) <=> n <= e)
  BY <1>2 DEF Ahead
<1>4. \A x \in DOMAIN receipts' : Noted(x)'
  <2>1. SUFFICES ASSUME NEW x \in DOMAIN receipts' PROVE Noted(x)'
    OBVIOUS
  <2>2. PICK f \in Entries : f = receipts'[x].first
    OBVIOUS
  <2>3. ~Ahead(f)' /\ Bytes(f) = x /\ Bytes(f)' = x /\ x # Null
    BY <1>1, <1>2, <1>3, <2>2
  <2>4. QED
    BY <1>1, <2>2, <2>3 DEF Noted
<1>5. \A e \in Entries : Ahead(e)' => representatives'[e] = e
  BY <1>2, <1>3 DEF EInv, Receipts
<1>6. \A e \in Entries : ~Ahead(e)' => Recorded(e)'
  BY <1>2, <1>3
<1>7. Receipts'
  BY <1>1, <1>4, <1>5, <1>6 DEF Receipts
<1>8. AllPlaced'
  BY DEF AllPlaced
<1> QED
  BY <1>7, <1>8 DEF EInv

(* What was recorded before this iteration. *)
LEMMA RecordedBefore ==
  ASSUME IInv, EInv, phase = "aliases", NEW n \in Entries, n = at
  PROVE  /\ \A e \in Entries : e < n => Recorded(e)
         /\ representatives[n] = n
         /\ \A x \in DOMAIN receipts : /\ receipts[x].first \in Entries
                                       /\ receipts[x].first <= n
                                       /\ Bytes(receipts[x].first) = x
                                       /\ x # Null
<1>1. Entries \subseteq Nat \ {0} /\ n \in Nat \ {0}
  BY EntryNumbers
<1>2. \A e \in Entries : Ahead(e) <=> n <= e
  BY <1>1 DEF Ahead
<1>3. \A x \in DOMAIN receipts : Noted(x)
  BY DEF EInv, Receipts
<1>4. \A x \in DOMAIN receipts : receipts[x].first <= n
  <2>1. SUFFICES ASSUME NEW x \in DOMAIN receipts PROVE receipts[x].first <= n
    OBVIOUS
  <2>2. PICK f \in Entries : f = receipts[x].first /\ ~Ahead(f)
    BY <1>3 DEF Noted
  <2>3. f <= n
    BY <1>1, <1>2, <2>2
  <2>4. QED
    BY <2>2, <2>3
<1>5. \A e \in Entries : e < n => Recorded(e)
  BY <1>1, <1>2 DEF EInv, Receipts
<1>6. representatives[n] = n
  BY <1>1, <1>2 DEF EInv, Receipts
<1> QED
  BY <1>3, <1>4, <1>5, <1>6 DEF Noted

LEMMA NoBytesRecords ==
  ASSUME IInv, EInv, NoBytes PROVE EInv'
<1> USE DEF NoBytes
<1>1. PICK n \in Entries : n = at
  OBVIOUS
<1>2. /\ phase = "aliases" /\ phase' = "aliases" /\ dataset' = dataset
      /\ receipts' = receipts /\ representatives' = representatives /\ at' = at + 1
      /\ Bytes(n) = Null
  BY <1>1
<1>3. Entries \subseteq Nat \ {0}
  BY EntryNumbers
<1>4. \A e : Bytes(e)' = Bytes(e) /\ Label(e)' = Label(e) /\ Signature(e)' = Signature(e)
  BY EntriesFixed
<1>5. /\ \A e \in Entries : e < n => Recorded(e)
      /\ representatives[n] = n
      /\ \A x \in DOMAIN receipts : /\ receipts[x].first \in Entries
                                    /\ receipts[x].first <= n
                                    /\ Bytes(receipts[x].first) = x
                                    /\ x # Null
  BY <1>1, <1>2, RecordedBefore
<1>6. ASSUME NEW e \in Entries, e <= n PROVE Recorded(e)'
  <2>1. CASE e = n
    BY <1>2, <1>4, <1>5, <2>1 DEF Recorded
  <2>2. CASE e < n
    BY <1>2, <1>4, <1>5, <2>2 DEF Recorded
  <2>3. QED
    BY <1>3, <1>6, <2>1, <2>2
<1> QED
  BY <1>1, <1>2, <1>5, <1>6, Advance

LEMMA FirstBytesRecords ==
  ASSUME IInv, EInv, FirstBytes PROVE EInv'
<1> USE DEF FirstBytes
<1>1. PICK n \in Entries : n = at
  OBVIOUS
<1>2. /\ phase = "aliases" /\ phase' = "aliases" /\ dataset' = dataset
      /\ representatives' = representatives /\ at' = at + 1
      /\ Bytes(n) # Null /\ Bytes(n) \notin DOMAIN receipts
      /\ receipts' = Put(Bytes(n), Receipt(Signature(n), n, Label(n)))
  BY <1>1
<1>3. Entries \subseteq Nat \ {0}
  BY EntryNumbers
<1>4. \A e : Bytes(e)' = Bytes(e) /\ Label(e)' = Label(e) /\ Signature(e)' = Signature(e)
  BY EntriesFixed
<1>5. /\ \A e \in Entries : e < n => Recorded(e)
      /\ representatives[n] = n
      /\ \A x \in DOMAIN receipts : /\ receipts[x].first \in Entries
                                    /\ receipts[x].first <= n
                                    /\ Bytes(receipts[x].first) = x
                                    /\ x # Null
  BY <1>1, <1>2, RecordedBefore
<1>6. /\ DOMAIN receipts' = DOMAIN receipts \cup {Bytes(n)}
      /\ receipts'[Bytes(n)] = Receipt(Signature(n), n, Label(n))
      /\ \A x \in DOMAIN receipts : receipts'[x] = receipts[x]
  BY <1>2 DEF Put
<1>7. Receipt(Signature(n), n, Label(n)).first = n
      /\ Receipt(Signature(n), n, Label(n)).signature = Signature(n)
      /\ Receipt(Signature(n), n, Label(n)).label = Label(n)
  BY DEF Receipt
<1>8. ASSUME NEW e \in Entries, e <= n PROVE Recorded(e)'
  <2>1. CASE e = n
    <3>0. n <= n
      BY <1>3
    <3>1. Bytes(n) \in DOMAIN receipts'
      BY <1>6, Zenon
    <3>2. representatives'[n] = n
      BY <1>2, <1>5
    <3>3. Bytes(n)' = Bytes(n) /\ Label(n)' = Label(n) /\ Signature(n)' = Signature(n)
      BY <1>4
    <3>4. receipts'[Bytes(n)].first = n /\ receipts'[Bytes(n)].signature = Signature(n)
          /\ receipts'[Bytes(n)].label = Label(n)
      BY <1>6, <1>7
    <3>5. Recorded(n)'
      BY <1>2, <3>0, <3>1, <3>2, <3>3, <3>4 DEF Recorded
    <3>6. QED
      BY <2>1, <3>5
  <2>2. CASE e < n
    BY <1>2, <1>4, <1>5, <1>6, <2>2 DEF Recorded
  <2>3. QED
    BY <1>3, <1>8, <2>1, <2>2
<1>9. ASSUME NEW x \in DOMAIN receipts'
      PROVE  /\ receipts'[x].first \in Entries
             /\ receipts'[x].first <= n
             /\ Bytes(receipts'[x].first) = x
             /\ x # Null
  <2>1. n <= n
    BY <1>3
  <2>2. CASE x = Bytes(n)
    BY <1>2, <1>6, <1>7, <2>1, <2>2
  <2>3. CASE x # Bytes(n)
    BY <1>5, <1>6, <2>3
  <2>4. QED
    BY <2>2, <2>3
<1> QED
  BY <1>1, <1>2, <1>8, <1>9, Advance

LEMMA KnownBytesRecords ==
  ASSUME IInv, EInv, KnownBytes PROVE EInv'
<1> USE DEF KnownBytes
<1>1. PICK n \in Entries : n = at
  OBVIOUS
<1>2. PICK known : known = receipts[Bytes(n)]
  OBVIOUS
<1>3. /\ phase = "aliases" /\ phase' = "aliases" /\ dataset' = dataset
      /\ representatives' = [representatives EXCEPT ![n] = known.first]
      /\ receipts' = Put(Bytes(n), Receipt(known.signature, known.first, KnownLabel(known)))
      /\ at' = at + 1 /\ Bytes(n) \in DOMAIN receipts
      /\ ~Conflicting(known)
  BY <1>1, <1>2
<1>4. Entries \subseteq Nat \ {0} /\ representatives \in [Entries -> Entries]
  BY EntryNumbers DEF IInv, Aliases
<1>5. \A e : Bytes(e)' = Bytes(e) /\ Label(e)' = Label(e) /\ Signature(e)' = Signature(e)
  BY <1>3, EntriesFixed
<1>6. /\ \A e \in Entries : e < n => Recorded(e)
      /\ \A x \in DOMAIN receipts : /\ receipts[x].first \in Entries
                                    /\ receipts[x].first <= n
                                    /\ Bytes(receipts[x].first) = x
                                    /\ x # Null
  BY <1>1, <1>3, RecordedBefore
<1>7. PICK label : label = KnownLabel(known)
  OBVIOUS
<1>8. PICK noted : noted = Receipt(known.signature, known.first, label)
  OBVIOUS
<1>9. /\ DOMAIN receipts' = DOMAIN receipts /\ receipts'[Bytes(n)] = noted
      /\ \A x \in DOMAIN receipts : x # Bytes(n) => receipts'[x] = receipts[x]
  BY <1>3, <1>7, <1>8 DEF Put
<1>10. /\ noted.signature = known.signature
       /\ noted.first = known.first /\ noted.label = label
  BY <1>8 DEF Receipt
<1>11. /\ known.signature = Signature(n)
       /\ known.label # Null => label = known.label
       /\ Label(n) # Null => label = Label(n)
  BY <1>1, <1>3, <1>7 DEF Conflicting, KnownLabel
<1>12. known.first \in Entries /\ known.first <= n
  BY <1>2, <1>3, <1>6
<1>13. /\ representatives'[n] = known.first
       /\ \A e \in Entries : e # n => representatives'[e] = representatives[e]
  BY <1>3, <1>4
<1>14. ASSUME NEW e \in Entries, e <= n PROVE Recorded(e)'
  <2>1. CASE e = n
    <3>1. Bytes(e) # Null
      BY <1>3, <1>6, <2>1
    <3>2. QED
      BY <1>3, <1>5, <1>9, <1>10, <1>11, <1>12, <1>13, <2>1, <3>1 DEF Recorded
  <2>2. CASE e < n /\ Bytes(e) = Bytes(n)
    <3>1. e # n /\ Bytes(e) \in DOMAIN receipts
      BY <1>3, <1>4, <2>2
    <3>2. Recorded(e)
      BY <1>6, <2>2
    <3>3. Label(e) # Null => label = Label(e)
      BY <1>2, <1>3, <1>6, <1>11, <2>2, <3>1, <3>2 DEF Recorded
    <3>4. QED
      BY <1>2, <1>3, <1>5, <1>6, <1>9, <1>10, <1>13, <2>2, <3>1, <3>2, <3>3 DEF Recorded
  <2>3. CASE e < n /\ Bytes(e) # Bytes(n)
    <3>1. e # n /\ Recorded(e)
      BY <1>4, <1>6, <2>3
    <3>2. QED
      BY <1>5, <1>9, <1>13, <2>3, <3>1 DEF Recorded
  <2>4. QED
    BY <1>4, <1>14, <2>1, <2>2, <2>3
<1>15. ASSUME NEW x \in DOMAIN receipts'
       PROVE  /\ receipts'[x].first \in Entries
              /\ receipts'[x].first <= n
              /\ Bytes(receipts'[x].first) = x
              /\ x # Null
  <2>1. CASE x = Bytes(n)
    BY <1>2, <1>3, <1>6, <1>9, <1>10, <2>1
  <2>2. CASE x # Bytes(n)
    BY <1>6, <1>9, <2>2
  <2>3. QED
    BY <2>1, <2>2
<1>16. \A e \in Entries : n < e => representatives'[e] = representatives[e]
  BY <1>4, <1>13
<1> QED
  BY <1>1, <1>3, <1>14, <1>15, <1>16, Advance

LEMMA ConflictRecords ==
  ASSUME IInv, EInv, ConflictingBytes PROVE EInv'
<1> USE DEF ConflictingBytes
<1>1. Entries' = Entries /\ \A e : Bytes(e)' = Bytes(e)
  BY Fixed, EntriesFixed
<1>2. \A e : ~Ahead(e)'
  BY DEF Ahead
<1>3. \A x \in DOMAIN receipts : Noted(x)
  BY DEF EInv, Receipts
<1>4. \A x \in DOMAIN receipts : Noted(x)'
  BY <1>1, <1>2, <1>3 DEF Noted
<1>5. Receipts'
  BY <1>1, <1>2, <1>4 DEF Receipts
<1>6. AllPlaced'
  BY DEF AllPlaced
<1> QED
  BY <1>5, <1>6 DEF EInv

LEMMA PlacedFixed ==
  ASSUME dataset' = dataset, components' = components, representatives' = representatives
  PROVE  \A e : GroupsOf(e)' = GroupsOf(e) /\ Placed(e)' = Placed(e)
<1>1. \A e : GroupsOf(e)' = GroupsOf(e)
  BY DEF GroupsOf, Groups, Sources
<1>2. \A e : Placed(e)' = Placed(e)
  BY DEF Placed, GroupsOf, Groups, Sources
<1> QED
  BY <1>1, <1>2

LEMMA PlaceEntriesRecords ==
  ASSUME IInv, EInv, PlaceEntries PROVE EInv'
<1> USE DEF PlaceEntries
<1>1. /\ Entries' = Entries /\ dataset' = dataset
      /\ receipts' = receipts /\ representatives' = representatives
      /\ components' = components
      /\ phase = "aliases" /\ at \notin Entries /\ phase' \in {"accepted", "rejected"}
  BY Fixed
<1>2. \A e : Bytes(e)' = Bytes(e) /\ Label(e)' = Label(e) /\ Signature(e)' = Signature(e)
  BY <1>1, EntriesFixed
<1>3. \A e \in Entries : ~Ahead(e)
  <2>1. /\ Entries \subseteq Nat \ {0} /\ at \in Nat
        /\ \A e \in Entries : e < at
    BY <1>1, EntryNumbers
  <2>2. QED
    BY <1>1, <2>1 DEF Ahead
<1>4. \A e : ~Ahead(e)'
  BY <1>1 DEF Ahead
<1>5. \A e \in Entries : Recorded(e)'
  <2>1. \A e \in Entries : Recorded(e)
    BY <1>1, <1>3 DEF EInv, Receipts
  <2>2. QED
    BY <1>1, <1>2, <2>1 DEF Recorded
<1>6. \A x \in DOMAIN receipts : Noted(x)'
  BY <1>1, <1>2, <1>4 DEF EInv, Receipts, Noted
<1>7. Receipts'
  BY <1>1, <1>4, <1>5, <1>6 DEF Receipts
<1>8. AllPlaced'
  <2>1. SUFFICES ASSUME phase' = "accepted" PROVE AllPlaced'
    BY DEF AllPlaced
  <2>2. /\ \A e \in Entries : \A g, h \in GroupsOf(e) : g = h
        /\ inspected' = [independence |-> [g \in Groups |-> Independence(g)],
                         entries |-> [e \in Entries |-> Placed(e)]]
    BY <2>1
  <2>3. inspected'.entries = [e \in Entries |-> Placed(e)]
    BY <2>2
  <2>4. \A e : GroupsOf(e)' = GroupsOf(e) /\ Placed(e)' = Placed(e)
    BY <1>1, PlacedFixed
  <2>5. QED
    BY <1>1, <2>2, <2>3, <2>4 DEF AllPlaced
<1> QED
  BY <1>7, <1>8 DEF EInv

LEMMA EvidenceStep == IInv /\ EInv /\ [Next]_vars => EInv'
<1> SUFFICES ASSUME IInv, EInv, [Next]_vars PROVE EInv'
  OBVIOUS
<1>1. CASE BeginJoin \/ SkipEntry \/ HalveA \/ RootA \/ HalveB \/ Link
           \/ BeginCollect \/ Collect
  <2>1. /\ phase \notin {"aliases", "accepted", "rejected"}
        /\ phase' \notin {"aliases", "accepted"}
        /\ dataset' = dataset /\ receipts' = receipts /\ representatives' = representatives
    BY <1>1 DEF BeginJoin, SkipEntry, HalveA, RootA, HalveB, Link, BeginCollect, Collect
  <2>2. QED
    BY <2>1, BeforeTheAliases
<1>2. CASE AcceptSplit \/ RejectSplit
  <2>1. /\ phase \notin {"aliases", "accepted", "rejected"}
        /\ phase' \notin {"aliases", "accepted"} \/ (phase' = "aliases" /\ at' = 1)
        /\ dataset' = dataset /\ receipts' = receipts /\ representatives' = representatives
    BY <1>2 DEF AcceptSplit, RejectSplit
  <2>2. QED
    BY <2>1, BeforeTheAliases
<1>3. CASE UNCHANGED vars
  <2>1. /\ dataset' = dataset /\ phase' = phase /\ at' = at /\ receipts' = receipts
        /\ representatives' = representatives /\ components' = components
        /\ inspected' = inspected
    BY <1>3
  <2>2. /\ Entries' = Entries
        /\ \A e : Bytes(e)' = Bytes(e) /\ Label(e)' = Label(e) /\ Signature(e)' = Signature(e)
    BY <2>1, Fixed, EntriesFixed
  <2>3. \A e : Ahead(e)' <=> Ahead(e)
    BY <2>1 DEF Ahead
  <2>4. \A x : Noted(x) => Noted(x)'
    BY <2>1, <2>2, <2>3 DEF Noted
  <2>5. \A e : Recorded(e) => Recorded(e)'
    BY <2>1, <2>2 DEF Recorded
  <2>6. Receipts'
    BY <2>1, <2>2, <2>3, <2>4, <2>5 DEF EInv, Receipts
  <2>7. \A e : GroupsOf(e)' = GroupsOf(e) /\ Placed(e)' = Placed(e)
    BY <2>1, PlacedFixed
  <2>8. AllPlaced'
    BY <2>1, <2>2, <2>7 DEF EInv, AllPlaced
  <2>9. QED
    BY <2>6, <2>8 DEF EInv
<1> QED
  BY <1>1, <1>2, <1>3, NoBytesRecords, FirstBytesRecords, KnownBytesRecords,
     ConflictRecords, PlaceEntriesRecords DEF Next

-----------------------------------------------------------------------------
(* Entries whose sources are together are placed in the same group.        *)
LEMMA PlacedTogether ==
  ASSUME IInv, EInv, phase = "accepted",
         NEW e \in Entries, NEW f \in Entries,
         NEW s \in SourcesOf(e), NEW t \in SourcesOf(f), Connected(s, t)
  PROVE  /\ inspected.entries[e].group = inspected.entries[f].group
         /\ inspected.entries[e].role = inspected.entries[f].role
<1>1. s \in Sources /\ t \in Sources
  <2>1. dataset \in Datasets
    BY DEF IInv
  <2>2. QED
    BY <2>1, EntryDeclared DEF SourcesOf
<1>2. PICK g \in DOMAIN dataset.split : s \in g /\ t \in g
  BY <1>1, InvariantGivesGroups DEF GroupsAreComponents, Together
<1>3. Groups = DOMAIN dataset.split
  BY DEF IInv, Labelled, Collected
<1>4. g \in GroupsOf(e) /\ g \in GroupsOf(f)
  BY <1>2, <1>3 DEF GroupsOf, SourcesOf
<1>5. /\ \A h \in GroupsOf(e) : h = g
      /\ \A h \in GroupsOf(f) : h = g
      /\ inspected.entries[e] = Placed(e) /\ inspected.entries[f] = Placed(f)
  BY <1>4 DEF EInv, AllPlaced
<1>6. /\ GroupsOf(e) # {} /\ (CHOOSE h \in GroupsOf(e) : TRUE) = g
      /\ GroupsOf(f) # {} /\ (CHOOSE h \in GroupsOf(f) : TRUE) = g
  BY <1>4, <1>5
<1>7. Placed(e).group = g /\ Placed(f).group = g
  BY <1>6 DEF Placed
<1>8. Placed(e).role = (IF g = Null THEN Null ELSE dataset.split[g])
      /\ Placed(f).role = (IF g = Null THEN Null ELSE dataset.split[g])
  BY <1>6 DEF Placed
<1> QED
  BY <1>5, <1>7, <1>8

(* Equal bytes make equal claims, so their sources share a content.        *)
LEMMA EqualBytesClaimAlike ==
  ASSUME IInv, EInv, phase = "accepted",
         NEW e \in Entries, NEW f \in Entries, Bytes(e) = Bytes(f), Bytes(e) # Null
  PROVE  /\ dataset.entries[e].kind = dataset.entries[f].kind
         /\ \E s \in SourcesOf(e), t \in SourcesOf(f) : Connected(s, t)
<1>1. Signature(e) = Signature(f)
  BY DEF EInv, Receipts, Recorded, Ahead
<1>2. dataset \in Datasets
  BY DEF IInv
<1>3. PICK x, y : x = dataset.entries[e] /\ y = dataset.entries[f]
  OBVIOUS
<1>4. 1 \in DOMAIN x.bindings /\ 1 \in DOMAIN y.bindings
  BY <1>2, <1>3, EntryDeclared
<1>5. PICK s, t : s = x.bindings[1].source /\ t = y.bindings[1].source
  OBVIOUS
<1>6. s \in Sources /\ t \in Sources /\ s \in SourcesOf(e) /\ t \in SourcesOf(f)
  BY <1>2, <1>3, <1>4, <1>5, EntryDeclared DEF SourcesOf
<1> DEFINE Claims(z) == [i \in DOMAIN z.bindings |->
                           <<z.bindings[i].window,
                             dataset.sources[z.bindings[i].source].run,
                             dataset.sources[z.bindings[i].source].content>>]
<1>7. Signature(e) = <<x.kind, Claims(x)>> /\ Signature(f) = <<y.kind, Claims(y)>>
  BY <1>3 DEF Signature
<1>8. /\ Claims(x)[1] = <<x.bindings[1].window, dataset.sources[s].run,
                          dataset.sources[s].content>>
      /\ Claims(y)[1] = <<y.bindings[1].window, dataset.sources[t].run,
                          dataset.sources[t].content>>
  BY <1>4, <1>5
<1>9. x.kind = y.kind /\ Claims(x)[1] = Claims(y)[1]
  <2>1. PICK p, q : p = Claims(x) /\ q = Claims(y)
    OBVIOUS
  <2>2. Signature(e) = <<x.kind, p>> /\ Signature(f) = <<y.kind, q>>
    BY <1>7, <2>1, Zenon
  <2>3. x.kind = y.kind /\ p = q
    <3>1. \A i, j, k, l : <<i, j>> = <<k, l>> => i = k /\ j = l
      OBVIOUS
    <3>2. <<x.kind, p>> = <<y.kind, q>>
      BY <1>1, <2>2, Zenon
    <3>3. QED
      BY <3>1, <3>2, Zenon
  <2>4. QED
    BY <2>1, <2>3, Zenon
<1> HIDE DEF Claims
<1>10. dataset.sources[s].content = dataset.sources[t].content
  BY <1>8, <1>9
<1>11. Connected(s, t)
  BY <1>6, <1>10, RelatedConnected DEF Related, Shares
<1> QED
  BY <1>3, <1>6, <1>9, <1>11

LEMMA NothingLeaks == IInv /\ EInv => NoLeakage
<1> SUFFICES ASSUME IInv, EInv, phase = "accepted",
                    NEW e \in Entries, NEW f \in Entries,
                    \/ Bytes(e) # Null /\ Bytes(e) = Bytes(f)
                    \/ \E s \in SourcesOf(e), t \in SourcesOf(f) : s = t \/ Related(s, t)
             PROVE  inspected.entries[e].role = inspected.entries[f].role
  BY DEF NoLeakage
<1>1. CASE Bytes(e) # Null /\ Bytes(e) = Bytes(f)
  BY <1>1, EqualBytesClaimAlike, PlacedTogether
<1>2. CASE \E s \in SourcesOf(e), t \in SourcesOf(f) : s = t \/ Related(s, t)
  <2>1. PICK s \in SourcesOf(e), t \in SourcesOf(f) : s = t \/ Related(s, t)
    BY <1>2
  <2>2. s \in Sources /\ t \in Sources
    <3>1. dataset \in Datasets
      BY DEF IInv
    <3>2. QED
      BY <3>1, EntryDeclared DEF SourcesOf
  <2>3. Connected(s, t)
    BY <2>1, <2>2, RelatedConnected, ConnectedReflexive
  <2>4. QED
    BY <2>3, PlacedTogether
<1> QED
  BY <1>1, <1>2

LEMMA DuplicatesRepresented == IInv /\ EInv => DuplicatesStayHome
<1> SUFFICES ASSUME IInv, EInv, phase = "accepted", NEW e \in Entries,
                    NEW r, r = inspected.entries[e].representative
             PROVE  /\ r <= e
                    /\ inspected.entries[r].representative = r
                    /\ inspected.entries[r].group = inspected.entries[e].group
                    /\ dataset.entries[r].kind = dataset.entries[e].kind
                    /\ \A f \in Entries : Bytes(f) = Bytes(e) /\ Bytes(e) # Null =>
                         inspected.entries[f].representative = r
  BY DEF DuplicatesStayHome
<1>1. \A f \in Entries : Recorded(f)
  BY DEF EInv, Receipts, Ahead
<1>2. \A f \in Entries : inspected.entries[f].representative = representatives[f]
  <2>1. \A f \in Entries : inspected.entries[f] = Placed(f)
    BY DEF EInv, AllPlaced
  <2>2. \A f : Placed(f).representative = representatives[f]
    BY DEF Placed
  <2>3. QED
    BY <2>1, <2>2
<1>3. Entries \subseteq Nat \ {0} /\ representatives \in [Entries -> Entries]
  BY EntryNumbers DEF IInv, Aliases
<1>4. CASE Bytes(e) = Null
  BY <1>1, <1>2, <1>3, <1>4 DEF Recorded
<1>5. CASE Bytes(e) # Null
  <2>1. /\ r = receipts[Bytes(e)].first /\ r <= e /\ r \in Entries
        /\ Bytes(e) \in DOMAIN receipts
    BY <1>1, <1>2, <1>3, <1>5 DEF Recorded
  <2>2. Bytes(r) = Bytes(e)
    BY <2>1 DEF EInv, Receipts, Noted
  <2>3. \A f \in Entries : Bytes(f) = Bytes(e) => inspected.entries[f].representative = r
    BY <1>1, <1>2, <1>5, <2>1 DEF Recorded
  <2>4. /\ dataset.entries[r].kind = dataset.entries[e].kind
        /\ \E s \in SourcesOf(r), t \in SourcesOf(e) : Connected(s, t)
    BY <1>5, <2>1, <2>2, EqualBytesClaimAlike
  <2>5. inspected.entries[r].group = inspected.entries[e].group
    BY <2>1, <2>4, PlacedTogether
  <2>6. QED
    BY <2>1, <2>2, <2>3, <2>4, <2>5
<1> QED
  BY <1>4, <1>5

LEMMA LabelsRecorded == IInv /\ EInv => LabelsAgree
<1> SUFFICES ASSUME IInv, EInv, phase = "accepted",
                    NEW e \in Entries, NEW f \in Entries,
                    Bytes(e) # Null, Bytes(e) = Bytes(f),
                    Label(e) # Null, Label(f) # Null
             PROVE  Label(e) = Label(f)
  BY DEF LabelsAgree
<1>1. Recorded(e) /\ Recorded(f)
  BY DEF EInv, Receipts, Ahead
<1> QED
  BY <1>1 DEF Recorded

-----------------------------------------------------------------------------
(* The pass over the entries keeps its records. *)
THEOREM EvidenceKept == Spec => [](IInv /\ EInv)
<1>1. Init => IInv /\ EInv
  BY InvariantInitially, EvidenceInitially
<1>2. IInv /\ EInv /\ [Next]_vars => IInv' /\ EInv'
  BY InvariantStep, EvidenceStep
<1> QED
  BY <1>1, <1>2, PTL DEF Spec

(* Whatever is declared, an accepted dataset never has equal bytes, one    *)
(* source or two related sources on both sides of a role boundary.         *)
THEOREM RolesAreDisjoint == Spec => []NoLeakage
<1>1. IInv /\ EInv => NoLeakage
  BY NothingLeaks
<1> QED
  BY <1>1, EvidenceKept, PTL

(* Dropping the duplicates of an accepted dataset keeps one copy of every  *)
(* piece of evidence, in the group and of the kind it had.                 *)
THEOREM DuplicatesHaveAHome == Spec => []DuplicatesStayHome
<1>1. IInv /\ EInv => DuplicatesStayHome
  BY DuplicatesRepresented
<1> QED
  BY <1>1, EvidenceKept, PTL

(* Unlabelled copies between them never hide two contradictory labels.     *)
THEOREM LabelsNeverDiffer == Spec => []LabelsAgree
<1>1. IInv /\ EInv => LabelsAgree
  BY LabelsRecorded
<1> QED
  BY <1>1, EvidenceKept, PTL
-----------------------------------------------------------------------------
(***************************************************************************)
(* For every calibration dataset, the verdict: what is refused is refused  *)
(* for a cause, and what is told of the groups that are accepted is what   *)
(* the reviews say.                                                        *)
(***************************************************************************)

(* What may be the matter with a dataset.                                  *)
SplitIsWrong ==
  \/ \E s, t \in Sources : ~(Together(s, t) <=> Connected(s, t))
  \/ \E s \in Sources : ~Together(s, s)
  \/ \E g, h \in DOMAIN dataset.split : g # h /\ g \cap h # {}
  \/ {} \in DOMAIN dataset.split
Contradict(e, f) ==
  /\ Bytes(e) # Null /\ Bytes(e) = Bytes(f)
  /\ \/ Signature(e) # Signature(f)
     \/ Label(e) # Null /\ Label(f) # Null /\ Label(e) # Label(f)
AtFault == SplitIsWrong \/ \E e, f \in Entries : Contradict(e, f)

(* A label that is kept with bytes is that of an entry with those bytes.   *)
Claimed(x) == receipts[x].label # Null =>
  \E e \in Entries : Bytes(e) = x /\ Label(e) = receipts[x].label

Reviewed == phase = "accepted" =>
  inspected.independence = [g \in Groups |-> Independence(g)]

VInv ==
  /\ phase = "rejected" => AtFault
  /\ \A x \in DOMAIN receipts : Claimed(x)
  /\ Reviewed

LEMMA VerdictInitially == Init => VInv
  BY DEF Init, VInv, Reviewed

LEMMA FaultFixed ==
  ASSUME dataset' = dataset, AtFault PROVE AtFault'
<1>1. /\ Sources' = Sources /\ Entries' = Entries
      /\ \A s, t : Connected(s, t)' = Connected(s, t)
  BY Fixed
<1>2. \A s, t : Together(s, t)' = Together(s, t)
  BY DEF Together
<1>3. SplitIsWrong => SplitIsWrong'
  BY <1>1, <1>2 DEF SplitIsWrong
<1>4. \A e, f : Contradict(e, f) => Contradict(e, f)'
  BY EntriesFixed DEF Contradict
<1> QED
  BY <1>1, <1>3, <1>4 DEF AtFault

(* A split that is the partition into components is the one collected.     *)
LEMMA SplitRejected ==
  ASSUME IInv, RejectSplit PROVE AtFault
<1> SUFFICES ASSUME ~SplitIsWrong PROVE FALSE
  BY DEF AtFault
<1>1. /\ phase = "collect" /\ at \notin Sources
      /\ Groups # DOMAIN dataset.split
  BY DEF RejectSplit
<1>2. PICK c : Labelled(c)
  BY DEF IInv
<1>3. dataset \in Datasets /\ Bounds
  BY DEF IInv
<1>4. Len(dataset.sources) \in Nat /\ Sources = 1..Len(dataset.sources)
  BY <1>3, Declarations
<1>5. /\ c \in [Sources -> Sources] /\ JoinedBefore(c, Joins)
      /\ \A s, t \in Sources : c[s] = c[t] => Connected(s, t)
  BY <1>1, <1>2 DEF Labelled, Forest, Done, Joining, Walking
<1>6. \A r \in Sources : components[r] = {s \in Sources : c[s] = r}
  <2>1. at = Len(dataset.sources) + 1
    BY <1>1, <1>3, <1>4 DEF Bounds
  <2>2. \A r \in Sources : components[r] = MembersBefore(c, r, at)
    BY <1>1, <1>2 DEF Labelled, Collected
  <2>3. QED
    BY <1>4, <2>1, <2>2 DEF MembersBefore
<1>7. \A s, t \in Sources : c[s] = c[t] <=> Together(s, t)
  <2>1. \A s, t \in Sources : Connected(s, t) => c[s] = c[t]
    BY <1>3, <1>5, ConnectedAgree
  <2>2. \A s, t \in Sources : Together(s, t) <=> Connected(s, t)
    BY DEF SplitIsWrong
  <2>3. QED
    BY <1>5, <2>1, <2>2
<1>8. /\ \A g, h \in DOMAIN dataset.split : g # h => g \cap h = {}
      /\ {} \notin DOMAIN dataset.split
      /\ \A s \in Sources : Together(s, s)
      /\ DOMAIN dataset.split \subseteq SUBSET Sources
  <2>1. WellFormed(dataset)
    BY <1>3, DatasetsAssumption
  <2>2. DOMAIN dataset.split \subseteq SUBSET Sources
    BY <2>1 DEF WellFormed, Sources
  <2>3. QED
    BY <2>2 DEF SplitIsWrong
<1>9. ASSUME NEW g \in DOMAIN dataset.split, NEW s \in g
      PROVE  s \in Sources /\ g = components[c[s]]
  <2>1. s \in Sources /\ g \subseteq Sources
    BY <1>8
  <2>2. ASSUME NEW t \in Sources, Together(s, t) PROVE t \in g
    <3>1. PICK h \in DOMAIN dataset.split : s \in h /\ t \in h
      BY <2>2 DEF Together
    <3>2. h = g
      BY <1>8, <3>1
    <3>3. QED
      BY <3>1, <3>2
  <2>3. \A t \in Sources : t \in g <=> Together(s, t)
    BY <2>2 DEF Together
  <2>4. \A t \in Sources : Together(s, t) <=> c[t] = c[s]
    BY <1>7, <2>1
  <2>5. c[s] \in Sources
    BY <1>5, <2>1
  <2>6. components[c[s]] = {t \in Sources : c[t] = c[s]}
    BY <1>6, <2>5
  <2>7. QED
    BY <2>1, <2>3, <2>4, <2>6
<1>10. ASSUME NEW g \in DOMAIN dataset.split PROVE g \in Groups
  <2>1. PICK s : s \in g
    <3>1. g # {}
      BY <1>8
    <3>2. QED
      BY <3>1
  <2>2. s \in Sources /\ g = components[c[s]] /\ g # {}
    BY <1>9, <2>1
  <2>3. c[s] \in Sources
    BY <1>5, <2>2
  <2>4. QED
    BY <2>2, <2>3 DEF Groups
<1>11. ASSUME NEW g \in Groups PROVE g \in DOMAIN dataset.split
  <2>1. PICK r \in Sources : g = components[r] /\ g # {}
    BY DEF Groups
  <2>2. PICK s \in g : TRUE
    BY <2>1
  <2>3. s \in Sources /\ c[s] = r
    BY <1>6, <2>1, <2>2
  <2>4. PICK h \in DOMAIN dataset.split : s \in h
    BY <1>8, <2>3 DEF Together
  <2>5. h = components[c[s]]
    BY <1>9, <2>4
  <2>6. QED
    BY <2>1, <2>3, <2>4, <2>5
<1> QED
  BY <1>1, <1>10, <1>11

(* Bytes that contradict their receipt contradict an entry.                *)
LEMMA BytesRejected ==
  ASSUME IInv, EInv, VInv, ConflictingBytes PROVE AtFault
<1>1. PICK n \in Entries : n = at
  BY DEF ConflictingBytes
<1>2. PICK known : known = receipts[Bytes(n)]
  OBVIOUS
<1>3. /\ phase = "aliases" /\ Bytes(n) \in DOMAIN receipts
      /\ \/ known.signature # Signature(n)
         \/ known.label # Null /\ Label(n) # Null /\ known.label # Label(n)
  BY <1>1, <1>2 DEF ConflictingBytes, Conflicting
<1>4. PICK f \in Entries : f = known.first /\ Bytes(f) = Bytes(n) /\ Bytes(n) # Null /\ ~Ahead(f)
  BY <1>2, <1>3 DEF EInv, Receipts, Noted
<1>5. known.signature = Signature(f)
  BY <1>2, <1>3, <1>4 DEF EInv, Receipts, Recorded
<1>6. CASE known.signature # Signature(n)
  <2>1. Contradict(f, n)
    BY <1>4, <1>5, <1>6 DEF Contradict
  <2>2. QED
    BY <2>1 DEF AtFault
<1>7. CASE known.label # Null /\ Label(n) # Null /\ known.label # Label(n)
  <2>1. PICK e \in Entries : Bytes(e) = Bytes(n) /\ Label(e) = known.label
    BY <1>2, <1>3, <1>7 DEF VInv, Claimed
  <2>2. Contradict(e, n)
    BY <1>4, <1>7, <2>1 DEF Contradict
  <2>3. QED
    BY <2>2 DEF AtFault
<1> QED
  BY <1>3, <1>6, <1>7

(* The sources one entry binds are in one group: no entry finds two.       *)
LEMMA OneGroup ==
  ASSUME IInv, phase = "aliases", NEW e \in Entries,
         NEW g \in GroupsOf(e), NEW h \in GroupsOf(e)
  PROVE  g = h
<1>1. PICK c : Labelled(c)
  BY DEF IInv
<1>2. dataset \in Datasets
  BY DEF IInv
<1>3. /\ \A r \in Sources : components[r] = {s \in Sources : c[s] = r}
      /\ JoinedBefore(c, Joins)
  BY <1>1 DEF Labelled, Collected, Done, Joining, Walking
<1>4. PICK bindings : bindings = dataset.entries[e].bindings
  OBVIOUS
<1>5. PICK i \in DOMAIN bindings : bindings[i].source \in g
  BY <1>4 DEF GroupsOf
<1>6. PICK j \in DOMAIN bindings : bindings[j].source \in h
  BY <1>4 DEF GroupsOf
<1>7. PICK s, t : s = bindings[i].source /\ t = bindings[j].source
  OBVIOUS
<1>8. s \in Sources /\ t \in Sources
  BY <1>2, <1>4, <1>7, EntryDeclared
<1>9. c[s] = c[t]
  <2>1. CASE i = j
    BY <1>7, <2>1
  <2>2. CASE i # j
    <3>1. DOMAIN bindings = 1..BindingCount(dataset.entries[e].kind)
          /\ dataset.entries[e].kind \in Kinds
      BY <1>2, <1>4, DatasetsAssumption DEF WellFormed, Entries
    <3>2. dataset.entries[e].kind = "response" /\ {i, j} = {1, 2}
      BY <2>2, <3>1 DEF Kinds, BindingCount
    <3>3. Related(s, t) \/ Related(t, s)
      BY <1>4, <1>7, <3>2 DEF Related
    <3>4. QED
      BY <1>2, <1>3, <1>8, <3>3, RelatedAgree
  <2>3. QED
    BY <2>1, <2>2
<1>10. PICK q, r \in Sources : g = components[q] /\ h = components[r]
  <2>1. g \in Groups /\ h \in Groups
    BY DEF GroupsOf
  <2>2. QED
    BY <2>1 DEF Groups
<1>11. c[s] = q /\ c[t] = r
  BY <1>3, <1>5, <1>6, <1>7, <1>10
<1> QED
  BY <1>9, <1>10, <1>11
-----------------------------------------------------------------------------
LEMMA PlacingReviews ==
  ASSUME IInv, EInv, VInv, PlaceEntries PROVE VInv'
<1>1. /\ dataset' = dataset /\ receipts' = receipts /\ components' = components
      /\ phase = "aliases"
  BY DEF PlaceEntries
<1>2. \A e \in Entries : \A g, h \in GroupsOf(e) : g = h
  BY <1>1, OneGroup
<1>3. /\ phase' = "accepted"
      /\ inspected' = [independence |-> [g \in Groups |-> Independence(g)],
                       entries |-> [e \in Entries |-> Placed(e)]]
  BY <1>2 DEF PlaceEntries
<1>4. inspected'.independence = [g \in Groups |-> Independence(g)]
  BY <1>3
<1>5. Groups' = Groups /\ \A g : Independence(g)' = Independence(g)
  BY <1>1 DEF Groups, Sources, Independence
<1>6. Reviewed'
  BY <1>4, <1>5 DEF Reviewed
<1>7. \A x \in DOMAIN receipts : Claimed(x)'
  BY <1>1, Fixed, EntriesFixed DEF VInv, Claimed
<1> QED
  BY <1>1, <1>3, <1>6, <1>7 DEF VInv

LEMMA ReceiptsClaimed ==
  ASSUME IInv, EInv, VInv, FirstBytes \/ KnownBytes PROVE VInv'
<1>1. /\ phase' = "aliases" /\ dataset' = dataset /\ at \in Entries
  BY DEF FirstBytes, KnownBytes
<1>2. Entries' = Entries /\ \A e : Bytes(e)' = Bytes(e) /\ Label(e)' = Label(e)
  BY <1>1, Fixed, EntriesFixed
<1>3. PICK n \in Entries : n = at
  BY <1>1
<1>4. PICK noted : /\ receipts' = Put(Bytes(n), noted)
                   /\ \/ noted.label = Label(n)
                      \/ Bytes(n) \in DOMAIN receipts /\ noted.label = receipts[Bytes(n)].label
  <2>1. CASE FirstBytes
    <3>1. Receipt(Signature(n), n, Label(n)).label = Label(n)
      BY DEF Receipt
    <3>2. QED
      BY <1>3, <2>1, <3>1 DEF FirstBytes
  <2>2. CASE KnownBytes
    <3>1. PICK known : known = receipts[Bytes(n)]
      OBVIOUS
    <3>2. PICK noted : noted = Receipt(known.signature, known.first, KnownLabel(known))
      OBVIOUS
    <3>3. receipts' = Put(Bytes(n), noted) /\ Bytes(n) \in DOMAIN receipts
      BY <1>3, <2>2, <3>1, <3>2 DEF KnownBytes
    <3>4. noted.label = KnownLabel(known)
      BY <3>2 DEF Receipt
    <3>5. KnownLabel(known) = known.label \/ KnownLabel(known) = Label(n)
      BY <1>3 DEF KnownLabel
    <3>6. QED
      BY <3>1, <3>3, <3>4, <3>5
  <2>3. QED
    BY <2>1, <2>2
<1>5. ASSUME NEW x \in DOMAIN receipts' PROVE Claimed(x)'
  <2>1. SUFFICES ASSUME receipts'[x].label # Null
                 PROVE  \E e \in Entries : Bytes(e) = x /\ Label(e) = receipts'[x].label
    BY <1>2 DEF Claimed
  <2>2. CASE x = Bytes(n)
    <3>1. receipts'[x] = noted
      BY <1>4, <2>2 DEF Put
    <3>2. QED
      BY <1>3, <1>4, <2>1, <2>2, <3>1 DEF VInv, Claimed
  <2>3. CASE x # Bytes(n)
    <3>1. x \in DOMAIN receipts /\ receipts'[x] = receipts[x]
      BY <1>4, <2>3 DEF Put
    <3>2. QED
      BY <2>1, <3>1 DEF VInv, Claimed
  <2>4. QED
    BY <2>2, <2>3
<1> QED
  BY <1>1, <1>5 DEF VInv, Reviewed

LEMMA VerdictStep == IInv /\ EInv /\ VInv /\ [Next]_vars => VInv'
<1> SUFFICES ASSUME IInv, EInv, VInv, [Next]_vars PROVE VInv'
  OBVIOUS
<1>1. dataset' = dataset
  BY DEF Next, BeginJoin, SkipEntry, HalveA, RootA, HalveB, Link, BeginCollect, Collect,
         AcceptSplit, RejectSplit, NoBytes, FirstBytes, KnownBytes, ConflictingBytes,
         PlaceEntries
<1>2. \A x : Claimed(x) /\ receipts' = receipts => Claimed(x)'
  BY <1>1, Fixed, EntriesFixed DEF Claimed
<1>3. CASE FirstBytes \/ KnownBytes
  BY <1>3, ReceiptsClaimed
<1>4. CASE PlaceEntries
  BY <1>4, PlacingReviews
<1>5. CASE RejectSplit \/ ConflictingBytes
  <2>1. AtFault'
    BY <1>1, <1>5, SplitRejected, BytesRejected, FaultFixed
  <2>2. phase' = "rejected" /\ receipts' = receipts
    BY <1>5 DEF RejectSplit, ConflictingBytes
  <2>3. QED
    BY <1>2, <2>1, <2>2 DEF VInv, Reviewed
<1>6. CASE BeginJoin \/ SkipEntry \/ HalveA \/ RootA \/ HalveB \/ Link \/ BeginCollect
           \/ Collect \/ AcceptSplit \/ NoBytes
  <2>1. receipts' = receipts /\ phase' \notin {"accepted", "rejected"}
    BY <1>6 DEF BeginJoin, SkipEntry, HalveA, RootA, HalveB, Link, BeginCollect, Collect,
                AcceptSplit, NoBytes
  <2>2. QED
    BY <1>2, <2>1 DEF VInv, Reviewed
<1>7. CASE UNCHANGED vars
  <2>1. /\ receipts' = receipts /\ phase' = phase /\ inspected' = inspected
        /\ components' = components
    BY <1>7
  <2>2. Groups' = Groups /\ \A g : Independence(g)' = Independence(g)
    BY <1>1, <2>1 DEF Groups, Sources, Independence
  <2>3. Reviewed'
    BY <2>1, <2>2 DEF VInv, Reviewed
  <2>4. phase' = "rejected" => AtFault'
    BY <1>1, <2>1, FaultFixed DEF VInv
  <2>5. QED
    BY <1>2, <2>1, <2>3, <2>4 DEF VInv
<1> QED
  BY <1>3, <1>4, <1>5, <1>6, <1>7 DEF Next

LEMMA IndependenceReviewed == Reviewed => IndependenceEarned
<1> DEFINE Review(s) == dataset.sources[s].review
<1> SUFFICES ASSUME Reviewed, phase = "accepted",
                    NEW g \in DOMAIN inspected.independence,
                    NEW outcome, outcome = inspected.independence[g]
             PROVE  /\ outcome = "confirmed" =>
                         \A s \in g : /\ dataset.reviews[Review(s)].subjects = g
                                      /\ dataset.reviews[Review(s)].outcome = "confirmed"
                    /\ (\E s \in g : /\ Review(s) # Null
                                     /\ dataset.reviews[Review(s)].outcome = "rejected")
                         => outcome = "rejected"
  BY DEF IndependenceEarned
<1>1. outcome = Independence(g)
  BY DEF Reviewed
<1>2. PICK reviews : reviews = {dataset.sources[s].review : s \in g}
  OBVIOUS
<1>3. PICK outcomes : outcomes = {dataset.reviews[r].outcome : r \in reviews \ {Null}}
  OBVIOUS
<1>4. outcome = IF \E r \in reviews : /\ reviews = {r} /\ r # Null
                                      /\ dataset.reviews[r].subjects = g
                THEN CHOOSE o \in outcomes : TRUE
                ELSE IF "rejected" \in outcomes THEN "rejected"
                ELSE IF "uncertain" \in outcomes THEN "uncertain" ELSE "missing"
  BY <1>1, <1>2, <1>3 DEF Independence
<1>5. \A s \in g : Review(s) \in reviews
  BY <1>2
<1>6. CASE \E r \in reviews : /\ reviews = {r} /\ r # Null
                              /\ dataset.reviews[r].subjects = g
  <2>1. PICK r \in reviews : reviews = {r} /\ r # Null /\ dataset.reviews[r].subjects = g
    BY <1>6
  <2>2. outcomes = {dataset.reviews[r].outcome}
    BY <1>3, <2>1
  <2>3. outcome = dataset.reviews[r].outcome
    BY <1>4, <1>6, <2>2
  <2>4. \A s \in g : Review(s) = r
    BY <1>5, <2>1
  <2>5. QED
    BY <2>1, <2>3, <2>4
<1>7. CASE ~ \E r \in reviews : /\ reviews = {r} /\ r # Null
                                /\ dataset.reviews[r].subjects = g
  <2>1. outcome = IF "rejected" \in outcomes THEN "rejected"
                  ELSE IF "uncertain" \in outcomes THEN "uncertain" ELSE "missing"
    BY <1>4, <1>7
  <2>2. outcome # "confirmed"
    BY <2>1
  <2>3. ASSUME NEW s \in g, Review(s) # Null, dataset.reviews[Review(s)].outcome = "rejected"
        PROVE  outcome = "rejected"
    <3>1. Review(s) \in reviews \ {Null}
      BY <1>5, <2>3
    <3>2. "rejected" \in outcomes
      BY <1>3, <2>3, <3>1
    <3>3. QED
      BY <2>1, <3>2
  <2>4. QED
    BY <2>2, <2>3
<1> QED
  BY <1>6, <1>7

(* Whatever a dataset declares, it is refused only because its split is    *)
(* not the partition into components or equal bytes contradict each other; *)
(* and of an accepted one duplicates, labels and independence are told as  *)
(* its declarations and reviews have them.                                 *)
THEOREM VerdictsAreJustified == Spec => []VerdictJustified
<1>1. Init => VInv
  BY VerdictInitially
<1>2. IInv /\ EInv /\ VInv /\ [Next]_vars => VInv'
  BY VerdictStep
<1>3. IInv /\ EInv /\ VInv => VerdictJustified
  <2>1. VInv => RejectedForCause
    BY DEF VInv, AtFault, SplitIsWrong, Contradict, RejectedForCause
  <2>2. VInv => IndependenceEarned
    BY IndependenceReviewed DEF VInv
  <2>3. QED
    BY <2>1, <2>2, DuplicatesRepresented, LabelsRecorded DEF VerdictJustified
<1> QED
  BY <1>1, <1>2, <1>3, EvidenceKept, PTL DEF Spec
=============================================================================
