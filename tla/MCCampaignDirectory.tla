-------------------------- MODULE MCCampaignDirectory --------------------------
(* Two scenarios, of which each claimed assignment is tried once, and five  *)
(* pairs, planned as ten runs of a healthy host, of which each is cheap,    *)
(* costs too much or slows too much. *)
EXTENDS CampaignDirectory

Trial(n, scenario, assignment) ==
  [run |-> n, source |-> n, scenario |-> scenario, assignment |-> assignment, repeat |-> 1]
MCRuns == <<"run-1", "run-2", "run-3", "run-4", "run-5", "run-6", "run-7", "run-8", "run-9", "run-10">>
MCPlans == [k \in {"campaign", "overhead"} |->
  [terms |-> 1, workers |-> 2,
   trials |-> IF k = "overhead" THEN [i \in 1..10 |-> [Trial(MCRuns[i], "healthy", "engineering") EXCEPT !.repeat = i]]
              ELSE <<Trial("run-1", "healthy", "reference"), Trial("run-2", "healthy", "held_out_query"),
                     Trial("run-3", "host_contention", "reference"),
                     Trial("run-4", "host_contention", "held_out_query")>>]]
MCScenarios == {"healthy", "host_contention"}
=============================================================================
