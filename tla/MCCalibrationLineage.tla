------------------------ MODULE MCCalibrationLineage ------------------------
(* Four sources, each of which may be tied to an earlier one in one way,   *)
(* with entries, derivations, reviews and splits that fit or do not.       *)
EXTENDS CalibrationLineage, TLC

Name(prefix, n) == prefix \o ToString(n)

(* "copy" is the same recording under another namespace; "foreign" only    *)
(* happens to use the same run and session names there.                    *)
Alone(s) ==
  [namespace |-> "n1", run |-> Name("run", s), content |-> Name("c", s),
   session |-> Name("day", s), operator_group |-> Name("op", s), review |-> Null]
Tied(s, how, x) ==
  CASE how = "run"     -> [Alone(s) EXCEPT !.run = x.run, !.namespace = x.namespace]
    [] how = "content" -> [Alone(s) EXCEPT !.content = x.content]
    [] how = "session" -> [Alone(s) EXCEPT !.session = x.session, !.namespace = x.namespace]
    [] how = "group"   -> [Alone(s) EXCEPT !.operator_group = x.operator_group,
                                           !.namespace = x.namespace]
    [] how = "copy"    -> [x EXCEPT !.namespace = "n2"]
    [] how = "foreign" -> [Alone(s) EXCEPT !.run = x.run, !.session = x.session,
                                           !.namespace = "n3"]
    [] OTHER           -> Alone(s)

Two == {Tied(2, h, Alone(1)) : h \in {"none", "run", "copy"}}
Three == {Tied(3, "none", Alone(1)), Tied(3, "content", Alone(1)),
          Tied(3, "group", Alone(2)), Tied(3, "foreign", Alone(1)), Tied(3, "copy", Alone(2))}
Four == {Tied(4, "none", Alone(1)), Tied(4, "session", Alone(3)), Tied(4, "copy", Alone(2))}

Window(source, window) == [source |-> source, window |-> window]
Response(s, t, bytes, label) ==
  [kind |-> "response", bytes |-> bytes, label |-> label,
   bindings |-> <<Window(s, "bad"), Window(t, "good")>>]
Healthy(s, bytes, label) ==
  [kind |-> "healthy_window", bytes |-> bytes, label |-> label,
   bindings |-> <<Window(s, "w")>>]
Missing == [kind |-> "missing", bytes |-> Null, label |-> Null, bindings |-> <<>>]

Others == <<Healthy(2, "o2", Null), Healthy(3, "o3", Null), Healthy(4, "o4", Null)>>
EntryLists ==
  {<<Response(3, 2, "x", "cpu"), Missing, Healthy(4, "y", Null), Healthy(1, "z", Null)>>,
   <<Healthy(2, "x", Null), Healthy(4, "x", "healthy"), Healthy(3, "y", Null),
     Healthy(1, "z", Null)>>,
   <<Response(1, 1, "x", "cpu"), Response(1, 1, "x", Null), Response(1, 1, "x", "cpu")>> \o Others,
   <<Response(1, 1, "x", Null), Response(1, 1, "x", "cpu"), Response(1, 1, "x", "net")>> \o Others}

(* Nothing derived and no review; or two derivations, one review of two    *)
(* sources and another that rejects a third.                               *)
Reviews == [r1 |-> [subjects |-> {1, 2}, outcome |-> "confirmed"],
            r2 |-> [subjects |-> {3}, outcome |-> "rejected"]]
Reviewed(sources) ==
  [s \in 1..4 |-> [sources[s] EXCEPT !.review = IF s <= 2 THEN "r1"
                                               ELSE IF s = 3 THEN "r2" ELSE Null]]

Declared ==
  {[sources |-> IF derived THEN Reviewed(<<Alone(1), s2, s3, s4>>)
                ELSE <<Alone(1), s2, s3, s4>>,
    derivations |-> IF derived THEN <<<<2, 4>>, <<3, 1>>>> ELSE <<>>,
    reviews |-> IF derived THEN Reviews ELSE <<>>,
    entries |-> entries] :
     s2 \in Two, s3 \in Three, s4 \in Four, entries \in EntryLists, derived \in BOOLEAN}

(* The split has the cells of the partition that the ties declare, or puts *)
(* every source apart, names a group of another time too, or puts all of   *)
(* them together.                                                          *)
Ties(d) ==
  {<<s, t>> \in (1..4) \X (1..4) :
     LET x == d.sources[s]
         y == d.sources[t]
     IN \/ x.content = y.content
        \/ x.namespace = y.namespace /\ (x.run = y.run \/ x.session = y.session
                                           \/ x.operator_group = y.operator_group)
        \/ \E e \in DOMAIN d.derivations : d.derivations[e] = <<s, t>>
        \/ \E e \in DOMAIN d.entries : d.entries[e].kind = "response" /\
             <<s, t>> = <<d.entries[e].bindings[1].source, d.entries[e].bindings[2].source>>}
Closed(ties) == {C \in SUBSET (1..4) : \A p \in ties : p[1] \in C <=> p[2] \in C}
Cells(ties) == {C \in Closed(ties) \ {{}} : \A D \in Closed(ties) \ {{}} :
                                              D \subseteq C => D = C}
RoleOf(cell) == IF 1 \in cell THEN "training" ELSE "validation"
Split(cells) == [g \in cells |-> RoleOf(g)]

Partition(d, how) ==
  CASE how = "cells" -> Cells(Ties(d))
    [] how = "apart" -> {{s} : s \in 1..4}
    [] how = "stale" -> Cells(Ties(d)) \cup {{1, 4}}
    [] OTHER         -> {1..4}

MCDatasets ==
  {[sources |-> d.sources, derivations |-> d.derivations, entries |-> d.entries,
    reviews |-> d.reviews, split |-> Split(Partition(d, how))] :
     d \in Declared, how \in {"cells", "apart", "stale", "together"}}
=============================================================================
