------------------------- MODULE CalibrationLineage -------------------------
(***************************************************************************)
(* How a calibration dataset's declarations are reconstructed              *)
(* (calibration/lineage.py): sources that share a run, a content hash, a   *)
(* session or an operator's group, that derive from each other, or that    *)
(* one response binds, are joined by union-find with path halving; the     *)
(* components must be exactly the groups the split assigns roles to; and   *)
(* entries with equal bytes are one piece of evidence.  One iteration of a *)
(* loop is one step.  Sources, entries and edges are numbered in the order *)
(* of their names, which is the order the dataset keeps them in.           *)
(***************************************************************************)
EXTENDS Integers, Sequences

CONSTANTS
  Datasets,    \* the declarations that may be inspected
  Roles,       \* engineering, training, validation, final_test
  Null

Kinds == {"response", "healthy_window", "missing"}
BindingCount(kind) == CASE kind = "response" -> 2
                        [] kind = "healthy_window" -> 1
                        [] OTHER -> 0

(* What CalibrationDataset.consistency has accepted: a source's review     *)
(* names the source; bindings and edges name sources; every source is      *)
(* bound or derived; the same original identity never claims two sessions  *)
(* or operator groups.                                                     *)
IsList(list) == Len(list) \in Nat /\ DOMAIN list = 1..Len(list)
WellFormed(d) ==
  /\ IsList(d.sources) /\ IsList(d.derivations) /\ IsList(d.entries)
  /\ \A s \in DOMAIN d.sources : d.sources[s].review \in DOMAIN d.reviews \cup {Null}
  /\ \A s \in DOMAIN d.sources : d.sources[s].review # Null =>
       s \in d.reviews[d.sources[s].review].subjects
  /\ \A s, t \in DOMAIN d.sources :
       LET a == d.sources[s]
           b == d.sources[t]
       IN <<a.namespace, a.run, a.content>> = <<b.namespace, b.run, b.content>> =>
            <<a.session, a.operator_group>> = <<b.session, b.operator_group>>
  /\ \A e \in DOMAIN d.derivations :
       \E s, t \in DOMAIN d.sources : s # t /\ d.derivations[e] = <<s, t>>
  /\ \A i \in DOMAIN d.entries :
       LET entry == d.entries[i]
       IN /\ entry.kind \in Kinds
          /\ DOMAIN entry.bindings = 1..BindingCount(entry.kind)
          /\ \A b \in DOMAIN entry.bindings :
               entry.bindings[b].source \in DOMAIN d.sources
          /\ entry.bytes = Null <=> entry.kind = "missing"
  /\ \A C \in SUBSET DOMAIN d.sources :
       /\ \A i \in DOMAIN d.entries : \A k \in DOMAIN d.entries[i].bindings :
            d.entries[i].bindings[k].source \in C
       /\ \A e \in DOMAIN d.derivations :
            d.derivations[e][1] \in C <=> d.derivations[e][2] \in C
       => C = DOMAIN d.sources
  /\ DOMAIN d.split \subseteq SUBSET DOMAIN d.sources
  /\ \A g \in DOMAIN d.split : d.split[g] \in Roles

ASSUME DatasetsAssumption == \A d \in Datasets : WellFormed(d)

VARIABLES
  dataset,
  phase,        \* where _lineage is
  at,           \* the join, source or entry it has come to
  a, b,         \* the two cursors that look for roots
  parents,      \* the forest
  components,   \* root -> members
  receipts,     \* bytes -> signature, first entry and label seen with them
  representatives,   \* entry -> first entry with the same bytes
  inspected     \* the groups and entries of an accepted lineage

walk == <<at, a, b>>
vars == <<dataset, phase, walk, parents, components, receipts, representatives, inspected>>

Sources == DOMAIN dataset.sources
Entries == DOMAIN dataset.entries

-----------------------------------------------------------------------------
(* The joins, in the order of the three loops: four for every source, one  *)
(* for every derivation, one for every response.  A definition whose name  *)
(* starts with Bug is what a slip would make of the one after it.          *)
BugKey(s, kind) ==
  LET source == dataset.sources[s]
  IN CASE kind = 1 -> <<source.namespace, source.run>>
       [] kind = 2 -> <<source.namespace, source.content>>
       [] kind = 3 -> <<source.namespace, source.session>>
       [] OTHER -> <<source.namespace, source.operator_group>>
Key(s, kind) ==
  LET source == dataset.sources[s]
  IN CASE kind = 1 -> <<source.namespace, source.run>>
       [] kind = 2 -> <<source.content>>
       [] kind = 3 -> <<source.namespace, source.session>>
       [] OTHER -> <<source.namespace, source.operator_group>>

(* indexes.setdefault: the first source with this key. *)
FirstWith(kind, key) ==
  CHOOSE s \in Sources :
    /\ Key(s, kind) = key
    /\ \A t \in Sources : Key(t, kind) = key => s <= t

SourceJoins == 4 * Len(dataset.sources)
DeclaredJoins == SourceJoins + Len(dataset.derivations)
Joins == DeclaredJoins + Len(dataset.entries)

SourceAt(n) == ((n - 1) \div 4) + 1
KindAt(n) == ((n - 1) % 4) + 1
EntryAt(n) == dataset.entries[n - DeclaredJoins]

Joined(n) ==
  IF n <= SourceJoins THEN 
    <<FirstWith(KindAt(n), Key(SourceAt(n), KindAt(n))), SourceAt(n)>>
  ELSE IF n <= DeclaredJoins THEN dataset.derivations[n - SourceJoins]
  ELSE <<EntryAt(n).bindings[1].source, EntryAt(n).bindings[2].source>>

IsJoin(n) == n > DeclaredJoins => EntryAt(n).kind = "response"

Init ==
  /\ dataset \in Datasets
  /\ phase = "next"
  /\ at = 1
  /\ a = Null /\ b = Null
  /\ parents = [s \in Sources |-> s]
  /\ components = [s \in Sources |-> {}]
  /\ receipts = <<>>
  /\ representatives = [e \in Entries |-> e]
  /\ inspected = Null

BeginJoin ==
  /\ phase = "next"
  /\ at <= Joins
  /\ IsJoin(at)
  /\ a' = Joined(at)[1]
  /\ b' = Joined(at)[2]
  /\ phase' = "root_a"
  /\ UNCHANGED <<dataset, at, parents, components, receipts, representatives, inspected>>

SkipEntry ==
  /\ phase = "next"
  /\ at <= Joins
  /\ ~IsJoin(at)
  /\ at' = at + 1
  /\ UNCHANGED <<dataset, phase, a, b, parents, components, receipts,
                 representatives, inspected>>

(* root(): every source passed on the way is moved to its grandparent.     *)
Halved(x) == [parents EXCEPT ![x] = parents[parents[x]]]

BugHalveA ==
  /\ phase \in {"root_a", "collect"}
  /\ a \in Sources
  /\ parents[a] # a
  /\ parents' = Halved(a)
  /\ UNCHANGED <<dataset, phase, at, a, b, components, receipts, representatives, inspected>>
HalveA ==
  /\ phase \in {"root_a", "collect"}
  /\ a \in Sources
  /\ parents[a] # a
  /\ parents' = Halved(a)
  /\ a' = parents'[a]
  /\ UNCHANGED <<dataset, phase, at, b, components, receipts, representatives, inspected>>

RootA ==
  /\ phase = "root_a"
  /\ parents[a] = a
  /\ phase' = "root_b"
  /\ UNCHANGED <<dataset, walk, parents, components, receipts, representatives, inspected>>

HalveB ==
  /\ phase = "root_b"
  /\ parents[b] # b
  /\ parents' = Halved(b)
  /\ b' = parents'[b]
  /\ UNCHANGED <<dataset, phase, at, a, components, receipts, representatives, inspected>>

Linked(x, y) ==
  IF x <= y THEN [parents EXCEPT ![y] = x] ELSE [parents EXCEPT ![x] = y]

Link ==
  /\ phase = "root_b"
  /\ parents[b] = b
  /\ parents' = Linked(a, b)
  /\ at' = at + 1
  /\ phase' = "next"
  /\ UNCHANGED <<dataset, a, b, components, receipts, representatives, inspected>>

-----------------------------------------------------------------------------
BeginCollect ==
  /\ phase = "next"
  /\ at > Joins
  /\ phase' = "collect"
  /\ at' = 1
  /\ a' = 1
  /\ UNCHANGED <<dataset, b, parents, components, receipts, representatives, inspected>>

Collect ==
  /\ phase = "collect"
  /\ at \in Sources
  /\ parents[a] = a
  /\ components' = [components EXCEPT ![a] = @ \cup {at}]
  /\ at' = at + 1
  /\ a' = at + 1
  /\ UNCHANGED <<dataset, phase, b, parents, receipts, representatives, inspected>>

Groups == {components[s] : s \in Sources} \ {{}}

BugAcceptSplit ==
  /\ phase = "collect"
  /\ at \notin Sources
  /\ Groups \subseteq DOMAIN dataset.split
  /\ phase' = "aliases"
  /\ at' = 1
  /\ UNCHANGED <<dataset, a, b, parents, components, receipts, representatives, inspected>>
AcceptSplit ==
  /\ phase = "collect"
  /\ at \notin Sources
  /\ Groups = DOMAIN dataset.split
  /\ phase' = "aliases"
  /\ at' = 1
  /\ UNCHANGED <<dataset, a, b, parents, components, receipts, representatives, inspected>>

RejectSplit ==
  /\ phase = "collect"
  /\ at \notin Sources
  /\ Groups # DOMAIN dataset.split
  /\ phase' = "rejected"
  /\ UNCHANGED <<dataset, walk, parents, components, receipts, representatives, inspected>>

(* An independence review counts for a group only when it is its sources'  *)
(* only review and names them all; otherwise the worst outcome stands.     *)
BugIndependence(group) ==
  LET reviews == {dataset.sources[s].review : s \in group}
      outcomes == {dataset.reviews[r].outcome : r \in reviews \ {Null}}
  IN IF outcomes # {} THEN CHOOSE o \in outcomes : TRUE ELSE "missing"
Independence(group) ==
  LET reviews == {dataset.sources[s].review : s \in group}
      outcomes == {dataset.reviews[r].outcome : r \in reviews \ {Null}}
  IN IF \E r \in reviews : /\ reviews = {r} /\ r # Null
                           /\ dataset.reviews[r].subjects = group
     THEN CHOOSE o \in outcomes : TRUE
     ELSE IF "rejected" \in outcomes THEN "rejected"
     ELSE IF "uncertain" \in outcomes THEN "uncertain" ELSE "missing"

-----------------------------------------------------------------------------
(* _byte_aliases *)
Bytes(e) == dataset.entries[e].bytes
Label(e) == dataset.entries[e].label

(* Which window of which run and content an entry's bytes claim to be.     *)
Signature(e) ==
  LET entry == dataset.entries[e]
      Claim(b1) == <<entry.bindings[b1].window,
                     dataset.sources[entry.bindings[b1].source].run,
                     dataset.sources[entry.bindings[b1].source].content>>
  IN <<entry.kind, [i \in DOMAIN entry.bindings |-> Claim(i)]>>

Receipt(signature, first, label) ==
  [signature |-> signature, first |-> first, label |-> label]
Put(bytes, receipt) ==
  [x \in DOMAIN receipts \cup {bytes} |-> IF x = bytes THEN receipt ELSE receipts[x]]

NoBytes ==
  /\ phase = "aliases"
  /\ at \in Entries
  /\ Bytes(at) = Null
  /\ at' = at + 1
  /\ UNCHANGED <<dataset, phase, a, b, parents, components, receipts,
                 representatives, inspected>>

FirstBytes ==
  /\ phase = "aliases"
  /\ at \in Entries
  /\ Bytes(at) # Null
  /\ Bytes(at) \notin DOMAIN receipts
  /\ receipts' = Put(Bytes(at), Receipt(Signature(at), at, Label(at)))
  /\ at' = at + 1
  /\ UNCHANGED <<dataset, phase, a, b, parents, components, representatives, inspected>>

Conflicting(known) ==
  \/ known.signature # Signature(at)
  \/ known.label # Null /\ Label(at) # Null /\ known.label # Label(at)

KnownLabel(known) == IF known.label # Null THEN known.label ELSE Label(at)

KnownBytes ==
  /\ phase = "aliases"
  /\ at \in Entries
  /\ Bytes(at) \in DOMAIN receipts
  /\ LET known == receipts[Bytes(at)]
     IN /\ ~Conflicting(known)
        /\ representatives' = [representatives EXCEPT ![at] = known.first]
        /\ receipts' = Put(Bytes(at), Receipt(known.signature, known.first,
                                              KnownLabel(known)))
  /\ at' = at + 1
  /\ UNCHANGED <<dataset, phase, a, b, parents, components, inspected>>

ConflictingBytes ==
  /\ phase = "aliases"
  /\ at \in Entries
  /\ Bytes(at) \in DOMAIN receipts
  /\ Conflicting(receipts[Bytes(at)])
  /\ phase' = "rejected"
  /\ UNCHANGED <<dataset, walk, parents, components, receipts, representatives, inspected>>

(* An entry belongs to the group of its bindings' sources; a missing one   *)
(* to none.  Finding two groups would reject the dataset.                  *)
GroupsOf(e) == {g \in Groups : \E i \in DOMAIN dataset.entries[e].bindings :
                                 dataset.entries[e].bindings[i].source \in g}
Placed(e) ==
  LET group == IF GroupsOf(e) = {} THEN Null ELSE CHOOSE g \in GroupsOf(e) : TRUE
  IN [group |-> group,
      role |-> IF group = Null THEN Null ELSE dataset.split[group],
      representative |-> representatives[e]]

PlaceEntries ==
  /\ phase = "aliases"
  /\ at \notin Entries
  /\ IF \E e \in Entries : \E g, h \in GroupsOf(e) : g # h
     THEN phase' = "rejected" /\ UNCHANGED inspected
     ELSE /\ phase' = "accepted"
          /\ inspected' = [independence |-> [g \in Groups |-> Independence(g)],
                           entries |-> [e \in Entries |-> Placed(e)]]
  /\ UNCHANGED <<dataset, walk, parents, components, receipts, representatives>>

Next ==
  \/ BeginJoin
  \/ SkipEntry
  \/ HalveA
  \/ RootA
  \/ HalveB
  \/ Link
  \/ BeginCollect
  \/ Collect
  \/ AcceptSplit
  \/ RejectSplit
  \/ NoBytes
  \/ FirstBytes
  \/ KnownBytes
  \/ ConflictingBytes
  \/ PlaceEntries

(* One thread runs the loops to the end. *)
Spec == Init /\ [][Next]_vars /\ WF_vars(Next)

-----------------------------------------------------------------------------
TypeOK ==
  /\ phase \in {"next", "root_a", "root_b", "collect", "aliases", "accepted", "rejected"}
  /\ at \in Nat \ {0}
  /\ phase = "collect" => at <= Len(dataset.sources) + 1
  /\ phase \in {"next", "root_a", "root_b"} => at <= Joins + 1
  /\ phase \in {"aliases", "accepted"} => at <= Len(dataset.entries) + 1
  /\ a \in Nat \cup {Null}
  /\ b \in Nat \cup {Null}
  /\ parents \in [Sources -> Sources]
  /\ components \in [Sources -> SUBSET Sources]
  /\ representatives \in [Entries -> Entries]

(* What makes two sources one acquisition, said without keys and loops.    *)
Shares(s, t) ==
  LET x == dataset.sources[s]
      y == dataset.sources[t]
  IN \/ x.content = y.content
     \/ /\ x.namespace = y.namespace
        /\ \/ x.run = y.run
           \/ x.session = y.session
           \/ x.operator_group = y.operator_group
Related(s, t) ==
  \/ Shares(s, t)
  \/ \E e \in DOMAIN dataset.derivations : dataset.derivations[e] = <<s, t>>
  \/ \E e \in Entries :
       /\ dataset.entries[e].kind = "response"
       /\ s = dataset.entries[e].bindings[1].source
       /\ t = dataset.entries[e].bindings[2].source

(* Two sources are connected when no set that related sources never leave  *)
(* or enter separates them.                                                *)
Sealed(C) == \A s, t \in Sources : Related(s, t) => (s \in C <=> t \in C)
Connected(s, t) == \A C \in SUBSET Sources : s \in C /\ Sealed(C) => t \in C

Together(s, t) == \E g \in DOMAIN dataset.split : s \in g /\ t \in g

(* The groups a split gets roles for, once past the split check, are the   *)
(* connected components of the declared relations: nothing related is      *)
(* split, nothing unrelated is lumped together.                            *)
GroupsAreComponents ==
  phase \in {"aliases", "accepted"} =>
    \A s, t \in Sources : Together(s, t) <=> Connected(s, t)

SourcesOf(e) == {dataset.entries[e].bindings[i].source :
                   i \in DOMAIN dataset.entries[e].bindings}

(* An accepted dataset leaks nothing from one role to another: entries     *)
(* with equal bytes, or with a shared or related source, have one role.    *)
NoLeakage ==
  phase = "accepted" =>
    \A e, f \in Entries :
      \/ Bytes(e) # Null /\ Bytes(e) = Bytes(f)
      \/ \E s \in SourcesOf(e), t \in SourcesOf(f) : s = t \/ Related(s, t)
      => inspected.entries[e].role = inspected.entries[f].role

(* A duplicate is represented by the first entry with its bytes, which is  *)
(* in the same group and of the same kind: dropping duplicates never moves *)
(* evidence between groups and never drops the last copy.                  *)
DuplicatesStayHome ==
  phase = "accepted" =>
    \A e \in Entries :
      LET r == inspected.entries[e].representative
      IN /\ r <= e
         /\ inspected.entries[r].representative = r
         /\ inspected.entries[r].group = inspected.entries[e].group
         /\ dataset.entries[r].kind = dataset.entries[e].kind
         /\ \A f \in Entries : Bytes(f) = Bytes(e) /\ Bytes(e) # Null =>
              inspected.entries[f].representative = r

(* In an accepted dataset equal bytes never carry two labels, however many *)
(* unlabelled copies stand between them.                                   *)
LabelsAgree ==
  phase = "accepted" =>
    \A e, f \in Entries :
      Bytes(e) # Null /\ Bytes(e) = Bytes(f) /\ Label(e) # Null /\ Label(f) # Null =>
        Label(e) = Label(f)

(* A dataset is refused only for a cause: its split is not the partition   *)
(* into components, or equal bytes make contradictory claims.              *)
RejectedForCause ==
  phase = "rejected" =>
    \/ \E s, t \in Sources : ~(Together(s, t) <=> Connected(s, t))
    \/ \E s \in Sources : ~Together(s, s)
    \/ \E g, h \in DOMAIN dataset.split : g # h /\ g \cap h # {}
    \/ {} \in DOMAIN dataset.split
    \/ \E e, f \in Entries :
         /\ Bytes(e) # Null /\ Bytes(e) = Bytes(f)
         /\ \/ Signature(e) # Signature(f)
            \/ Label(e) # Null /\ Label(f) # Null /\ Label(e) # Label(f)

(* A group's independence is confirmed only by a review of exactly its     *)
(* sources, and a rejecting review of any member is never lost.            *)
IndependenceEarned ==
  phase = "accepted" =>
    \A g \in DOMAIN inspected.independence :
      LET outcome == inspected.independence[g]
          Review(s) == dataset.sources[s].review
      IN /\ outcome = "confirmed" =>
              \A s \in g : /\ dataset.reviews[Review(s)].subjects = g
                           /\ dataset.reviews[Review(s)].outcome = "confirmed"
         /\ (\E s \in g : /\ Review(s) # Null
                          /\ dataset.reviews[Review(s)].outcome = "rejected")
              => outcome = "rejected"

(* Both verdicts are justified: a dataset is refused for a cause, and what *)
(* is told of an accepted one - who represents a duplicate, which label    *)
(* its bytes have, whether a group is independent - is what its            *)
(* declarations and reviews say.                                           *)
VerdictJustified == RejectedForCause /\ DuplicatesStayHome /\ LabelsAgree /\ IndependenceEarned

(* The root a source's parents lead to. *)
Root(s) ==
  CHOOSE r \in Sources :
    /\ parents[r] = r
    /\ \A C \in SUBSET Sources : s \in C /\ (\A u \in C : parents[u] \in C) => r \in C

Merged == INSTANCE SourceComponents WITH component <- [s \in Sources |-> Root(s)]

(* Halving changes no component, a link merges exactly two, and a          *)
(* component goes by its smallest source: union-find implements the merge. *)
ForestMerges == Merged!Init /\ [][Merged!Next]_<<dataset, [s \in Sources |-> Root(s)]>>

(* Every walk to a root ends, and so does the reconstruction. *)
Concludes == <>(phase \in {"accepted", "rejected"})

(* The forest reconstructs the components, and in the end it has.          *)
Reconstructs == ForestMerges /\ Concludes
=============================================================================
