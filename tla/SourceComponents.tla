-------------------------- MODULE SourceComponents --------------------------
(***************************************************************************)
(* What grouping sources into acquisition components means: every source   *)
(* carries the name of its component, the smallest source in it, and       *)
(* merging two components renames one of them everywhere at once.          *)
(***************************************************************************)
EXTENDS Integers

VARIABLE component

(* Sources are whatever the labelling is about; each starts on its own. *)
Init == component = [s \in DOMAIN component |-> s]

Renamed(labels, c, d) ==
  [s \in DOMAIN labels |->
     IF labels[s] \in {c, d} THEN (IF c <= d THEN c ELSE d) ELSE labels[s]]

Merge(c, d) == component' = Renamed(component, c, d)

Next == \E s, t \in DOMAIN component : Merge(component[s], component[t])

Spec == Init /\ [][Next]_component
=============================================================================
