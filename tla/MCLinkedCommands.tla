-------------------------- MODULE MCLinkedCommands --------------------------
(* Two commands at a time, out of nine whose operands, datasets and outputs *)
(* touch: one reads what another writes, outputs name operands, links to   *)
(* members, or members themselves.  "alias" is a second name of the        *)
(* artifact, outside the dataset.                                          *)
EXTENDS LinkedCommands

In(dir, name) == [dir |-> dir, name |-> name]

Touching ==
  {ProfileCommand(<<In("out", "policy")>>, "data", In("out", "alias")),
   ProfileCommand(<<In("out", "policy"), In("out", "report")>>, "data", In("out", "report")),
   ProfileCommand(<<In("data", "artifact")>>, Null, In("out", "alias")),
   ProfileCommand(<<In("out", "report")>>, Null, In("data", "artifact")),
   PassiveCommand(<<In("out", "policy")>>, "data", In("out", "report")),
   MatchCommand(<<In("out", "policy")>>, "data", In("out", "alias")),
   InspectCalibration("data", In("out", "report")),
   InspectCalibration("data", In("data", "report")),
   TraceCommand(In("out", "policy"), In("out", "policy"))}

MCNames == {"manifest", "artifact", "policy", "report", "alias"}
MCWhere == [data |-> "d1", out |-> "d2"]
MCTree ==
  [d1 |-> [n \in MCNames |-> CASE n = "manifest" -> "f1" [] n = "artifact" -> "f2"
                               [] OTHER -> Null],
   d2 |-> [n \in MCNames |-> CASE n = "policy" -> "f3" [] n = "alias" -> "f2"
                               [] OTHER -> Null]]
MCBytes == [f1 |-> "m1", f2 |-> "a1", f3 |-> "policy1"]
MCDeclared == [m1 |-> <<<<"artifact", "a1">>>>, m2 |-> <<<<"artifact", "a2">>>>]
MCEdits == {<<"f1", "m2">>, <<"f2", "a2">>}
=============================================================================
