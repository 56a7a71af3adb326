-------------------------- MODULE MCExperimentRun --------------------------
(* Phases of one second, degradation of two: a healthy run, one of two     *)
(* workers, one of pacing and one whose adapter does not exist.  One       *)
(* interval is enough evidence. *)
EXTENDS ExperimentRun

Plan(version, scenario, adapter, reason, actions) ==
  [id |-> scenario, version |-> version, run |-> 1, clock |-> 1, scenario |-> scenario, synthetic |-> FALSE,
   adapter |-> [id |-> adapter, state |-> IF reason = None THEN "available" ELSE "unavailable",
                reason |-> reason],
   runtime |-> [kind |-> "linux_x11", cpus |-> 2],
   phases |-> [i \in 1..6 |-> [phase |-> Phases[i], duration |-> IF i = 3 THEN 4 ELSE 2]],
   actions |-> actions, policy |-> [every |-> 1, frames |-> 60, events |-> 300]]
Fault(w) == << [id |-> 1, workers |-> w, allowance |-> 6 + 20] >>
Plans ==
  {Plan(1, "healthy", "none", None, <<>>), Plan(1, "host_contention", "bounded_cpu_pressure", None, Fault(2)),
   Plan(2, "render_capture_slowdown", "bounded_capture_pacing", None, Fault(0)),
   Plan(1, "network_delay", None, "adapter_not_implemented", <<>>)}
=============================================================================
