-------------------------- MODULE ExperimentBundle --------------------------
(***************************************************************************)
(* The six-phase experiment as its three roots say it: a manifest frozen   *)
(* before warm-up, the evidence of each phase, and the result of the run   *)
(* (scenarios/manifest.py, evidence.py, result.py, pacing.py), the effects *)
(* computed again from the evidence (effects.py, pacing_effect.py), and    *)
(* the inspection that links them (inspect.py).  Times are in half seconds.*)
(*                                                                         *)
(* A manifest is a record [id, version, run, clock, scenario, synthetic,   *)
(* adapter, runtime, phases, actions, policy]; the id stands for its hash. *)
(* Definitions whose name starts with Bug are what a slip would make of    *)
(* the one after them.                                                     *)
(***************************************************************************)
EXTENDS Integers, Sequences, FiniteSets, SequencesExt, FiniteSetsExt, Functions

CONSTANTS
  None,
  Enough   \* the intervals, seconds and pairs an evaluated phase needs: 30 in the code

ASSUME EnoughAssumption == Enough \in Nat \ {0}

Second == 2
Phases == <<"warmup", "healthy", "degraded", "probe", "recovery", "cooldown">>
PhaseNames == Range(Phases)
Measured == {"healthy", "degraded", "probe", "recovery"}
IsPhasePrefix(phases) == [i \in DOMAIN phases |-> phases[i].phase] = SubSeq(Phases, 1, Len(phases))
Ordered(start, end) == end # None => start # None /\ start <= end

Total(values) == FoldSeq(+, 0, values)
TotalOf(rows, Of(_)) == Total([i \in DOMAIN rows |-> Of(rows[i])])
CeilDiv(a, b) == (a + b - 1) \div b

-----------------------------------------------------------------------------
(* The manifest. *)
AdapterFor(scenario) ==
  CASE scenario = "healthy" -> "none"
    [] scenario = "host_contention" -> "bounded_cpu_pressure"
    [] OTHER -> None
FaultTime(m) == m.phases[3].duration + m.phases[4].duration
BoundedFault(m) ==
  /\ Enough * Second <= FaultTime(m) /\ FaultTime(m) <= 290 * Second
  /\ m.actions[1].allowance = FaultTime(m) + 10 * Second
FitsRecording(m) ==
  \A i \in 2..5 : LET frames == CeilDiv(m.phases[i].duration * 30, Second * m.policy.every) IN
    frames <= m.policy.frames /\ 5 * frames <= m.policy.events

ValidPlan(m) ==
  /\ Len(m.phases) = 6 /\ IsPhasePrefix(m.phases)
  /\ \A i \in 1..6 : m.phases[i].duration \in Second..300 * Second
  /\ TotalOf(m.phases, LAMBDA p : p.duration) <= 1200 * Second
  /\ m.runtime.kind = IF m.synthetic THEN "synthetic" ELSE "linux_x11"
  /\ (m.adapter.state = "available") = (m.adapter.reason = None)
  /\ FitsRecording(m)

ValidManifest(m) ==
  /\ ValidPlan(m)
  /\ IF m.version = 2
     THEN /\ m.scenario = "render_capture_slowdown" /\ m.adapter.id = "bounded_capture_pacing"
          /\ Len(m.actions) = 1 /\ m.actions[1].workers = 0 /\ BoundedFault(m)
     ELSE /\ m.adapter.id = AdapterFor(m.scenario)
          /\ m.adapter.id = None => m.adapter.state = "unavailable"
          /\ IF m.scenario = "host_contention"
             THEN /\ Len(m.actions) = 1 /\ BoundedFault(m)
                  /\ m.actions[1].workers \in 1..8 /\ m.actions[1].workers <= m.runtime.cpus
             ELSE m.actions = <<>>

-----------------------------------------------------------------------------
(* The evidence of a phase: counters over adjacent intervals. *)
ValidInterval(i) ==
  /\ 2 * (i.to - i.from) >= Second /\ i.to - i.from <= 5 * Second
  /\ i.first <= i.last
  /\ i.workers \in 0..8 /\ i.cpu <= (i.to - i.from) * i.workers

CoversPrefix(e) ==
  \A k \in DOMAIN e.intervals : LET i == e.intervals[k] IN
    /\ ValidInterval(i) /\ i.to <= e.end
    /\ i.from = IF k = 1 THEN e.start ELSE e.intervals[k - 1].to
    /\ k > 1 => i.first = e.intervals[k - 1].last

ValidEvidence(e) ==
  /\ Ordered(e.start, e.end)
  /\ (e.state = "complete") = (e.reason = None)
  /\ e.state = "unavailable" => e.intervals = <<>>
  /\ CoversPrefix(e)
  /\ e.state = "complete" => e.intervals # <<>> /\ e.start < e.end /\ Last(e.intervals).to = e.end

-----------------------------------------------------------------------------
(* Effects, by integer predicates over the evidence of each phase. *)
NoEffect(reason) ==
  [state |-> "unavailable", reason |-> reason, healthy |-> None, degraded |-> None,
   recovery |-> None, measured |-> None]
CannotTell(m, r) ==
  IF m.adapter.state = "unavailable" THEN "adapter_unavailable"
  ELSE IF r.status # "completed" THEN "incomplete_run"
  ELSE IF r.cleanup.state \notin {"restored", "not_required"} THEN "cleanup_unverified" ELSE None
AllComplete(ev) == \A p \in PhaseNames : ev[p] # None /\ ev[p].state = "complete"
LongEnough(e) == Len(e.intervals) >= Enough /\ e.end - e.start >= Enough * Second
Totals(e) ==
  [frames |-> TotalOf(e.intervals, LAMBDA i : i.last - i.first), time |-> e.end - e.start,
   cpu |-> TotalOf(e.intervals, LAMBDA i : i.cpu)]

Adequate(t) == t.frames * Second >= 27 * t.time
Slowed(h, t) == t.frames * h.time * 100 <= h.frames * t.time * 95
Restored(h, t) == t.frames * h.time * 100 >= h.frames * t.time * 95
Judged(reason, h, d, r, measured) ==
  [state |-> IF reason = None THEN "verified" ELSE "failed", reason |-> reason,
   healthy |-> <<h.frames, h.time>>, degraded |-> <<d.frames, d.time>>,
   recovery |-> <<r.frames, r.time>>, measured |-> measured]

RecomputeEffect(m, result, ev) ==
  LET h == Totals(ev["healthy"])  d == Totals(ev["degraded"])  r == Totals(ev["recovery"])
      contention == m.scenario = "host_contention" IN
  IF CannotTell(m, result) # None THEN NoEffect(CannotTell(m, result))
  ELSE IF ~AllComplete(ev) \/ ~\A p \in {"healthy", "degraded", "recovery"} : LongEnough(ev[p])
  THEN NoEffect("insufficient_evidence")
  ELSE Judged(IF ~Adequate(h) THEN "baseline_inadequate"
              ELSE IF contention /\ d.cpu * 100 < 50 * d.time THEN "pressure_not_observed"
              ELSE IF contention /\ ~Slowed(h, d) THEN "degradation_not_observed"
              ELSE IF ~contention /\ ~Adequate(d) THEN "degradation_not_observed"
              ELSE IF contention /\ ~Restored(h, r) THEN "recovery_not_observed"
              ELSE IF ~contention /\ ~Adequate(r) THEN "recovery_not_observed" ELSE None,
              h, d, r, IF contention THEN <<d.cpu, d.time>> ELSE None)

(* Pacing is measured on the pairs of each phase's trace, in milliseconds: *)
(* the lower of the middle values. *)
CaptureDelays(trace) ==
  LET pair(x) == trace.streams[x[1]][x[2]]
      all == UNION {{i} \X DOMAIN trace.streams[i] : i \in DOMAIN trace.streams}
      usable == {x \in all : /\ pair(x).exact /\ None \notin {pair(x).captured, pair(x).entered}
                             /\ pair(x).entered >= pair(x).captured} IN
  [x \in usable |-> pair(x).entered - pair(x).captured]
Count(delays) == Cardinality(DOMAIN delays)
LowerMedian(delays) ==
  CHOOSE median \in Range(delays) :
    /\ 2 * Cardinality({x \in DOMAIN delays : delays[x] < median}) < Count(delays)
    /\ 2 * Cardinality({x \in DOMAIN delays : delays[x] <= median}) >= Count(delays)

RecomputePacing(m, result, ev, traces) ==
  LET delays(p) == IF traces[p] = None THEN <<>> ELSE CaptureDelays(traces[p])
      h == Totals(ev["healthy"])  d == Totals(ev["degraded"])  r == Totals(ev["recovery"])
      base == LowerMedian(delays("healthy"))  delayed == LowerMedian(delays("degraded")) IN
  IF CannotTell(m, result) # None THEN NoEffect(CannotTell(m, result))
  ELSE IF \/ ~AllComplete(ev)
          \/ \E p \in {"healthy", "degraded", "recovery"} : ~LongEnough(ev[p]) \/ Count(delays(p)) < Enough
  THEN NoEffect("insufficient_evidence")
  ELSE Judged(IF ~Adequate(h) THEN "baseline_inadequate"
              ELSE IF delayed < 40 \/ delayed - base < 40 THEN "pacing_not_observed"
              ELSE IF ~Slowed(h, d) THEN "degradation_not_observed"
              ELSE IF ~Restored(h, r) \/ LowerMedian(delays("recovery")) > base + 10
              THEN "recovery_not_observed" ELSE None,
              h, d, r, delayed)

-----------------------------------------------------------------------------
(* The result of a run. *)
AdapterReasons == {"adapter_not_implemented", "runtime_unavailable", "permission_denied",
                   "clock_unavailable", "source_unavailable"}
ReasonsOf(status) ==
  CASE status = "completed" -> {None}
    [] status = "unsupported" -> AdapterReasons
    [] OTHER -> {"cancelled", "timeout", "clock_error", "source_error", "action_failed", "cleanup_failed"}

ValidActual(p) ==
  /\ Ordered(p.start, p.end) /\ p.end <= 1200 * Second
  /\ p.state = "complete" => p.end - p.start \in Second..302 * Second
PhasesFollow(phases) ==
  /\ IsPhasePrefix(phases)
  /\ phases # <<>> => phases[1].start = 0
  /\ \A i \in DOMAIN phases : ValidActual(phases[i])
  /\ \A i \in 1..Len(phases) - 1 : LET gap == phases[i + 1].start - phases[i].end IN
       /\ phases[i].state = "complete"
       /\ gap \in 0..5 * Second /\ (phases[i + 1].phase = "probe" => gap = 0)

ValidAction(a) ==
  /\ Ordered(a.started, a.stopped)
  /\ (a.state = "failed") = (a.reason # None)
  /\ a.state = "not_started" => a.started = None
  /\ a.state = "started" => a.started # None /\ a.stopped = None
  /\ a.state = "stopped" => a.stopped # None

ValidCleanup(c) ==
  /\ Ordered(c.started, c.ended)
  /\ (c.state \in {"not_required", "restored"}) = (c.reason = None)
  /\ c.state = "not_required" => c.started = None
  /\ c.reason = None => c.remaining = 0
  /\ c.state = "restored" => c.ended # None
  /\ c.ended # None => c.ended - c.started <= 10 * Second

BugCleanupCovers(r) == \A i \in DOMAIN r.actions : r.actions[i].started # None => r.cleanup.state = "restored"
CleanupCovers(r) ==
  \A i \in DOMAIN r.actions : LET a == r.actions[i] IN
    a.started # None =>
      /\ r.cleanup.state # "not_required"
      /\ r.cleanup.state = "restored" => a.stopped # None /\ a.stopped <= r.cleanup.ended

ActedBetween(r) ==
  \A i \in DOMAIN r.actions : LET a == r.actions[i] IN
    /\ a.started \in r.phases[2].end..r.phases[3].start
    /\ a.stopped \in r.phases[4].end..r.phases[5].start

Roles(r) == {<<r.artifacts[i].role, r.artifacts[i].phase>> : i \in DOMAIN r.artifacts}
Finished(r) ==
  /\ Len(r.phases) = 6 /\ Last(r.phases).state = "complete"
  /\ {"phase_evidence"} \X PhaseNames \cup {"stage_trace"} \X Measured \subseteq Roles(r)
  /\ \A i \in DOMAIN r.actions : r.actions[i].state = "stopped"
  /\ r.actions # <<>> => r.cleanup.state = "restored" /\ r.cleanup.ended <= r.phases[5].start
                         /\ ActedBetween(r)

ValidResult(r) ==
  /\ r.reason \in ReasonsOf(r.status)
  /\ PhasesFollow(r.phases)
  /\ \A i \in DOMAIN r.actions : ValidAction(r.actions[i])
  /\ Cardinality(Roles(r)) = Len(r.artifacts)
  /\ \A x \in Roles(r) : /\ \E i \in DOMAIN r.phases : r.phases[i].phase = x[2]
                         /\ x[1] = "stage_trace" => x[2] \in Measured
  /\ ValidCleanup(r.cleanup) /\ CleanupCovers(r)
  /\ r.status = "unsupported" =>
       /\ r.phases = <<>> /\ r.actions = <<>> /\ r.artifacts = <<>> /\ r.cleanup.state = "not_required"
       /\ r.effect = NoEffect("adapter_unavailable")
  /\ r.status = "aborted" => r.effect.state = "unavailable" /\ r.effect.reason = "incomplete_run"
  /\ r.status = "completed" => Finished(r)
  /\ r.cleanup.state \in {"failed", "unverified"} =>
       /\ r.effect.state # "verified"
       /\ r.status = "completed" => r.effect.state = "unavailable" /\ r.effect.reason = "cleanup_unverified"

-----------------------------------------------------------------------------
(* The inspection: manifest, result and artifacts belong together, the     *)
(* frame counter is of one generation, and the effect follows from them.   *)
ActionsMatch(m, r) ==
  IF m.adapter.state = "unavailable" THEN r.status = "unsupported" /\ r.reason = m.adapter.reason
  ELSE /\ r.status # "unsupported"
       /\ Len(r.actions) = Len(m.actions)
       /\ \A i \in DOMAIN m.actions : LET a == r.actions[i] IN
            /\ a.id = m.actions[i].id
            /\ (r.status = "completed" /\ None \notin {a.started, a.stopped}) =>
                 a.stopped - a.started <= m.actions[i].allowance
PhasesMatch(m, r) ==
  \A i \in DOMAIN r.phases : LET p == r.phases[i] IN
    p.state = "complete" => p.end - p.start - m.phases[i].duration \in 0..2 * Second

WorkersMatch(m, r, e) ==
  LET workers == IF m.actions # <<>> /\ e.phase \in {"degraded", "probe"} THEN m.actions[1].workers ELSE 0 IN
  \A k \in DOMAIN e.intervals : /\ e.intervals[k].workers <= workers
                                /\ r.status = "completed" => e.intervals[k].workers = workers

EvidenceBelongs(m, r, p, e) ==
  LET actual == r.phases[CHOOSE i \in DOMAIN r.phases : r.phases[i].phase = p] IN
  /\ e.run = m.run /\ e.manifest = r.manifest /\ e.clock = m.clock /\ e.phase = p
  /\ e.start = actual.start /\ e.end = actual.end
  /\ e.state = "complete" => actual.state = "complete"
  /\ WorkersMatch(m, r, e)
TraceBelongs(m, t) ==
  /\ t.producer = "pixelated_engine" /\ t.synthetic = m.synthetic
  /\ t.policy = m.policy

BugOneGeneration(r, ev) == TRUE
OneGeneration(r, ev) ==
  \A i \in 1..Len(r.phases) - 1 :
    LET a == ev[r.phases[i].phase]  b == ev[r.phases[i + 1].phase] IN
    (None \notin {a, b} /\ a.intervals # <<>> /\ b.intervals # <<>>) =>
      LET last == Last(a.intervals).last  first == Head(b.intervals).first IN
      /\ first >= last
      /\ (b.phase = "probe" /\ a.state = "complete") => first = last

(* What the result's artifacts hold, by phase. *)
ModelsOf(r, role) ==
  [p \in PhaseNames |->
     IF <<role, p>> \notin Roles(r) THEN None
     ELSE r.artifacts[CHOOSE i \in DOMAIN r.artifacts :
                        r.artifacts[i].role = role /\ r.artifacts[i].phase = p].model]

Linked(m, r) ==
  LET ev == ModelsOf(r, "phase_evidence")  traces == ModelsOf(r, "stage_trace") IN
  /\ r.run = m.run /\ r.manifest = m.id
  /\ ActionsMatch(m, r) /\ PhasesMatch(m, r)
  /\ \A p \in PhaseNames :
       /\ ev[p] # None => ValidEvidence(ev[p]) /\ EvidenceBelongs(m, r, p, ev[p])
       /\ traces[p] # None => TraceBelongs(m, traces[p])
  /\ \A i \in DOMAIN r.artifacts : r.artifacts[i].role = "observation_window" =>
       r.artifacts[i].model.synthetic = m.synthetic
  /\ OneGeneration(r, ev)
  /\ r.effect = IF m.version = 2 THEN RecomputePacing(m, r, ev, traces) ELSE RecomputeEffect(m, r, ev)

Inspected(m, r) == ValidManifest(m) /\ ValidResult(r) /\ Linked(m, r)
=============================================================================
