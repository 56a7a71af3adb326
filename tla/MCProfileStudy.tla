--------------------------- MODULE MCProfileStudy ---------------------------
(* Three source groups of each of two labels, one of them with two windows *)
(* and a copy, one with an excluded window, two held-out groups, a         *)
(* baseline and a missing entry; and every report that differs from that   *)
(* one in one group in a way the code distinguishes.                       *)
EXTENDS ProfileStudy, TLC

MCFeatures == {"f1", "f2", "f3", "f4"}
MCGroups == {"a1", "a2", "a3", "b1", "b2", "b3", "h1", "h2"}

At(v) == [f \in MCFeatures |-> IF f = "f4" THEN v + 8 ELSE v]

Response(group, role, label, first, v) ==
  [kind |-> "response", group |-> group, role |-> role, partition |-> "p",
   label |-> label, eligible |-> TRUE, confirmed |-> TRUE, first |-> first,
   receipts |-> {group}, values |-> At(v)]
Excluded(x) == [x EXCEPT !.eligible = FALSE]

Base ==
  <<Response("a1", "training", "A", 1, 0),
    Response("a1", "training", "A", 2, 16),
    Excluded(Response("a1", "training", "A", 2, 16)),
    Response("a2", "training", "A", 4, 40),
    Response("a3", "training", "A", 5, 80),
    Response("b1", "training", "B", 6, 160),
    Response("b2", "training", "B", 7, 200),
    Response("b3", "training", "B", 8, 240),
    Response("h1", "validation", "A", 9, 48),
    Response("h1", "validation", "A", 10, 56),
    [Response("h2", "final_test", "healthy", 11, 48) EXCEPT !.kind = "healthy_window"],
    [Response(Null, Null, Null, 12, 0) EXCEPT
       !.kind = "missing", !.eligible = FALSE, !.receipts = {}, !.partition = Null,
       !.values = [f \in MCFeatures |-> Null]],
    Excluded(Response("a3", "training", "A", 13, 96))>>

Queries == {1, 2, 4, 5, 6, 7, 8, 9, 10}
Set(r, e, x) == [r EXCEPT ![e] = x]
WithRole(r, g, role) ==
  [e \in DOMAIN r |-> IF r[e].group # g THEN r[e]
                      ELSE [r[e] EXCEPT !.role = role,
                                        !.eligible = @ /\ role # "engineering"]]

(* Every other label of an entry that has no copy. *)
WithLabel(r) ==
  UNION {{Set(r, e, [r[e] EXCEPT !.label = l]) : l \in {"A", "B"}} : e \in Queries \ {2}}
(* Exclusions, features, values and labels that count for nothing. *)
Edited(r) ==
  {Set(r, e, Excluded(r[e])) : e \in {1, 4, 6, 9}}
  \cup {Set(r, e, [Excluded(r[e]) EXCEPT !.confirmed = FALSE, !.label = Null]) : e \in {1, 9}}
  \cup {Set(r, e, [r[e] EXCEPT !.values["f1"] = Null]) : e \in {1, 4, 9}}
  \cup UNION {{Set(r, e, [r[e] EXCEPT !.values = At(v)]) : v \in {112, 400}}
                : e \in {4, 6, 10, 13}}
  \cup {Set(r, 13, [r[13] EXCEPT !.label = l]) : l \in {"B", "healthy"}}
Recast(r) == {WithRole(r, g, role) : g \in {"a1", "b3", "h1"}, role \in Roles}
Moved(r) == {Set(r, e, [r[e] EXCEPT !.partition = "q"]) : e \in {1, 6, 9}}

Revisions == {Base} \cup WithLabel(Base) \cup Edited(Base) \cup Recast(Base) \cup Moved(Base)

(* Too little evidence for any profile. *)
Engineering(r, G) ==
  [e \in DOMAIN r |-> IF r[e].group \in G
                      THEN [r[e] EXCEPT !.role = "engineering", !.eligible = FALSE] ELSE r[e]]
Poor == Engineering(Base, {"a1", "a2", "b2", "b3"})
MCReports == Revisions \cup {Poor}

(* One edit is enough to compare what a study says before and after it. *)
FromBase == Init /\ report = Base
(* A query of each kind; and a third snapshot where nothing is asked, and  *)
(* the dataset was not revised or is poor. *)
Asked == {1, 4, 9, 12}
Bounded ==
  /\ Next
  /\ result' # Null /\ result'.mode = "match" => DOMAIN result'.decisions \subseteq Asked
  /\ Len(snapshots') <= 2 \/ (result' = Null /\ report' \in {Base, Poor})
=============================================================================
