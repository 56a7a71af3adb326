---------------------------- MODULE MCStageTrace ----------------------------
(* Two lifetimes of an engine or a browser, three frames and three events, *)
(* with room for two of each. *)
EXTENDS StageTrace

Setting(build, every, budget) == [build |-> build, every |-> every, budget |-> budget]
Host == {"capture_output", "encode_input", "encode_output"}
Recordings ==
  [f \in Formats |-> {Setting({}, 1, Null)} \cup
     CASE f = "engine" -> {Setting(Host, 1, 1), Setting(Host, 2, Null)}
       [] f = "browser" -> {Setting({"presentation_proxy"}, 1, Null)}
       [] f = "browser_v2" -> {Setting({"presentation_proxy", "presentation_callback_execution"}, 2, Null)}]
=============================================================================
