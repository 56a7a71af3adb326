------------------------ MODULE MCPassiveGateAudit ------------------------
(* A stream that degrades, recovers and degrades again, with windows that  *)
(* overlap, come under an alias, from another clock or stratum, or are     *)
(* excluded.  A unit of time is two seconds; the centre is 20 frames, so   *)
(* 16 is the highest low rate, 17 lies in the band and 18 is the lowest    *)
(* recovered rate. *)
EXTENDS PassiveGateAudit

W(key, start, end, fps) ==
  [key |-> key, start_ms |-> start, end_ms |-> end, fps |-> fps,
   foreign |-> FALSE, alias |-> FALSE, in_stratum |-> TRUE, exclusions |-> {}]

StreamWindows ==
  {W("a", 0, 1, 16), W("b", 1, 3, 16), W("c", 3, 5, 16), W("d", 5, 6, 16),
   W("k", 6, 7, 16), W("g", 3, 5, 18), W("h", 5, 7, 30),
   W("i", 5, 6, 17), W("l", 6, 8, 18),
   [W("b", 1, 3, 17) EXCEPT !.exclusions = {"n6_excluded"}],
   [W("c", 3, 5, 16) EXCEPT !.alias = TRUE],
   [W("n", 5, 7, 16) EXCEPT !.in_stratum = FALSE],
   [W("f", 5, 6, 16) EXCEPT !.foreign = TRUE]}

StreamKeys == {w.key : w \in StreamWindows}
=============================================================================
