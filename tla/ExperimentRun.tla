--------------------------- MODULE ExperimentRun ---------------------------
(***************************************************************************)
(* One experiment and its inspection.  The runner and the sampler are the  *)
(* producer's, outside the repository: the runner moves through the six    *)
(* phases, starts a fault before degradation and ends it before recovery;  *)
(* the sampler reads the frame counter of one generation of the camera and *)
(* the CPU clocks of the workers every second.  Workers die, counters are  *)
(* reset, rows are missed, a run is cut short at any point, cleanup fails; *)
(* and one of the two may lapse once.  Their bundle is then inspected.     *)
(***************************************************************************)
EXTENDS ExperimentBundle

CONSTANTS Manifests, MaxWait

ASSUME ManifestsAssumption == \A m \in Manifests : ValidManifest(m)
ASSUME WaitAssumption == MaxWait \in Nat
(* What is not there is none of what could be. *)
Reasons == {"source_unavailable", "counter_reset", "collection_gap", "cancelled"}
Slippages == {"early", "unnoticed", "reset", "report"}
Endings(reasons) == [status : {"completed", "aborted", "unsupported"}, reason : reasons]
Failures == {"start_failed", "stop_failed", "exit_failed", "missing_evidence"}
Excuses == {"adapter_unavailable", "incomplete_run", "cleanup_unverified", "insufficient_evidence", "baseline_inadequate",
            "pressure_not_observed", "pacing_not_observed", "degradation_not_observed", "recovery_not_observed"}
NoneIsNothing ==
  None \notin Int \cup Reasons \cup Excuses \cup Slippages \cup Failures \cup Endings({None} \cup AdapterReasons \cup ReasonsOf("aborted"))
ASSUME NoneAssumption == NoneIsNothing

VARIABLES
  manifest,
  clock,
  shown, generation,   \* the camera's counter
  workers, paced,       \* the fault in force
  bound,                \* the generation the sampler reads
  phases, rows, gaps, pairs,  \* what runner and sampler have: the phases, and for each its
                              \* intervals, why there are no more, and its trace
  action, cleanup,
  ended,                \* None, or how the run ended
  seconds,              \* what was the case in each second, by phase
  lapse, inspection

machine == <<shown, generation, workers, paced>>
records == <<phases, rows, gaps, pairs>>
experimentVars == <<manifest, clock, machine, bound, records, action, cleanup, ended, seconds, lapse, inspection>>

NoAction == [id |-> 1, state |-> "not_started", started |-> None, stopped |-> None, reason |-> None]
Cleaned(state, reason, from, to, remaining) ==
  [state |-> state, reason |-> reason, started |-> from, ended |-> to, remaining |-> remaining]

ExperimentInit ==
  /\ manifest \in Manifests
  /\ clock = 0 /\ shown = 0 /\ generation = 0 /\ workers = 0 /\ paced = FALSE /\ bound = 0
  /\ phases = <<>> /\ rows = <<>> /\ gaps = <<>> /\ pairs = <<>>
  /\ action = NoAction /\ cleanup = Cleaned("not_required", None, None, None, 0)
  /\ ended = None /\ seconds = <<>> /\ lapse = None /\ inspection = None

(* Plans that can be kept to the letter: whole seconds, as the sampler     *)
(* reads; a fault by the name the runner has for it; an adapter that is    *)
(* there or has a reason not to be; and waits that leave room.  A plan of  *)
(* exactly twenty minutes with a fault has none.                           *)
Planned(m) == LET d(i) == m.phases[i].duration IN d(1) + d(2) + d(3) + d(4) + d(5) + d(6)
ASSUME PlansAssumption ==
  \A m \in Manifests :
    /\ \A i \in 1..6 : \E k \in 1..300 : m.phases[i].duration = Second * k
    /\ m.actions # <<>> => DOMAIN m.actions = {1} /\ m.actions[1].id = NoAction.id
    /\ m.adapter.state \in {"available", "unavailable"} /\ m.adapter.reason \in AdapterReasons \cup {None}
ASSUME RoomAssumption ==
  /\ MaxWait <= 5 * Second
  /\ \A m \in Manifests :
       Planned(m) + (IF m.actions = <<>> THEN 0 ELSE 2 * MaxWait) <= 1200 * Second

N == Len(phases)
InPhase == N > 0 /\ phases[N].end = None
HasFault == manifest.actions # <<>>
Requested == IF HasFault THEN manifest.actions[1].workers ELSE 0
Available == manifest.adapter.state = "available"
Proceeds == ended = None /\ Available /\ UNCHANGED <<manifest, inspection>>
Lapses(name) == lapse = None /\ lapse' = name
(* Only one thing goes wrong before a run ends; what ends it may follow. *)
Untroubled == lapse = None /\ generation = 0 /\ \A i \in 1..N : gaps[i] = None
EndsAs(status, reason) == ended' = [status |-> status, reason |-> reason]

-----------------------------------------------------------------------------
(* Phases, and the seconds in them. *)
BeginPhase ==
  /\ phases' = Append(phases, [phase |-> Phases[N + 1], start |-> clock, end |-> None, state |-> "partial"])
  /\ rows' = Append(rows, <<>>) /\ pairs' = Append(pairs, <<>>)
  /\ gaps' = Append(gaps, IF generation = bound THEN None ELSE "source_unavailable")
  /\ seconds' = Append(seconds, <<>>)
  /\ UNCHANGED <<clock, machine, bound, ended>>

NextPhase ==
  /\ Proceeds /\ ~InPhase /\ N < 6
  /\ (N = 2 /\ HasFault) => action.state = "started"
  /\ (N = 4 /\ HasFault) => cleanup.state = "restored"
  /\ BeginPhase
  /\ UNCHANGED <<action, cleanup, lapse>>

Passes(rate, busy, gap) ==
  LET row == [from |-> clock, to |-> clock + Second, first |-> shown, last |-> shown + rate,
              workers |-> workers, cpu |-> Second * busy]
      pair == [exact |-> gap = None, captured |-> 0, entered |-> IF paced THEN 50 ELSE 0] IN
  /\ Proceeds /\ InPhase
  /\ clock - phases[N].start < manifest.phases[N].duration
  /\ clock' = clock + Second /\ shown' = shown + rate
  /\ gaps' = [gaps EXCEPT ![N] = IF @ = None THEN gap ELSE @]
  /\ rows' = [rows EXCEPT ![N] = IF gaps'[N] = None THEN Append(@, row) ELSE @]
  /\ pairs' = [pairs EXCEPT ![N] = Append(@, pair)]
  /\ seconds' = [seconds EXCEPT ![N] =
                   Append(@, [workers |-> workers, paced |-> paced, rate |-> rate, generation |-> generation])]
  /\ UNCHANGED <<generation, workers, paced, bound, phases, action, cleanup, ended, lapse>>

EndPhase ==
  /\ Proceeds /\ InPhase
  /\ clock - phases[N].start = manifest.phases[N].duration
  /\ phases' = [phases EXCEPT ![N].end = clock, ![N].state = "complete"]
  /\ UNCHANGED <<clock, machine, bound, rows, gaps, pairs, action, cleanup, ended, seconds, lapse>>

(* The camera is replaced: the sampler stays with the generation it had. *)
Reset ==
  /\ Proceeds /\ N > 0 /\ Untroubled
  /\ generation' = 1 /\ shown' = 0
  /\ gaps' = IF InPhase /\ gaps[N] = None THEN [gaps EXCEPT ![N] = "counter_reset"] ELSE gaps
  /\ UNCHANGED <<clock, workers, paced, bound, phases, rows, pairs, action, cleanup, ended, seconds, lapse>>

-----------------------------------------------------------------------------
(* The fault. *)
StartFault ==
  /\ Proceeds /\ HasFault /\ ~InPhase /\ N = 2 /\ action.state = "not_started"
  /\ \E wait \in 0..MaxWait :
       /\ clock' = clock + wait
       /\ action' = [action EXCEPT !.state = "started", !.started = clock + wait]
  /\ workers' = Requested /\ paced' = (Requested = 0)
  /\ UNCHANGED <<shown, generation, bound, records, cleanup, ended, seconds, lapse>>

StopFault ==
  /\ Proceeds /\ ~InPhase /\ N = 4 /\ action.state = "started"
  /\ \E wait \in 0..MaxWait :
       /\ clock' = clock + wait
       /\ action' = [action EXCEPT !.state = "stopped", !.stopped = clock]
       /\ cleanup' = Cleaned("restored", None, clock, clock + wait, 0)
  /\ workers' = 0 /\ paced' = FALSE
  /\ UNCHANGED <<shown, generation, bound, records, ended, seconds, lapse>>

(* The run is cut short: the phase keeps what it has, a started fault is   *)
(* stopped, and whether that succeeded is known or not. *)
CutShort(reason, why) ==
  /\ phases' = IF InPhase THEN [phases EXCEPT ![N].end = clock] ELSE phases
  /\ gaps' = IF InPhase /\ gaps[N] = None THEN [gaps EXCEPT ![N] = "cancelled"] ELSE gaps
  /\ IF action.started = None
     THEN /\ action' = IF why = "start_failed" THEN [action EXCEPT !.state = "failed", !.reason = why] ELSE action
          /\ EndsAs("aborted", reason) /\ UNCHANGED <<cleanup, workers, paced>>
     ELSE \/ /\ workers' = 0 /\ paced' = FALSE
             /\ action' = IF action.state = "stopped" THEN action
                          ELSE [action EXCEPT !.state = "failed", !.reason = why, !.stopped = clock]
             /\ cleanup' = Cleaned("restored", None, clock, clock, 0)
             /\ EndsAs("aborted", reason)
          \/ /\ action.state = "started" /\ UNCHANGED <<workers, paced>>
             /\ action' = [action EXCEPT !.state = "failed", !.reason = "stop_failed"]
             /\ cleanup' \in {Cleaned("failed", "stop_failed", clock, None, workers),
                              Cleaned("unverified", "missing_evidence", None, None, None)}
             /\ EndsAs("aborted", "cleanup_failed")
  /\ UNCHANGED <<clock, shown, generation, bound, rows, pairs, seconds, lapse>>

Abort ==
  /\ Proceeds /\ lapse = None
  /\ \E reason \in {"cancelled", "source_error"} : CutShort(reason, "cancelled")
StartFails ==
  /\ Proceeds /\ HasFault /\ ~InPhase /\ N = 2 /\ action.state = "not_started" /\ lapse = None
  /\ CutShort("action_failed", "start_failed")
WorkerExits ==
  /\ Proceeds /\ InPhase /\ action.state = "started" /\ workers > 0 /\ lapse = None
  /\ CutShort("action_failed", "exit_failed")

Finish ==
  /\ UNCHANGED <<manifest, clock, machine, bound, records, action, cleanup, seconds, lapse, inspection>>
  /\ ended = None
  /\ IF Available THEN ~InPhase /\ N = 6 /\ EndsAs("completed", None)
                  ELSE EndsAs("unsupported", manifest.adapter.reason)

-----------------------------------------------------------------------------
(* One lapse: degradation begins before the fault does, recovery before it *)
(* ended, a worker dies or comes unnoticed, or a counter reset is.         *)
SlipEarly ==
  /\ Proceeds /\ HasFault /\ ~InPhase /\ Untroubled /\ Lapses("early")
  /\ \/ /\ N = 2 /\ action.state = "not_started"
        /\ action' = [action EXCEPT !.state = "started", !.started = clock] /\ UNCHANGED cleanup
     \/ /\ N = 4 /\ action.state = "started"
        /\ action' = [action EXCEPT !.state = "stopped", !.stopped = clock]
        /\ cleanup' = Cleaned("restored", None, clock, clock, 0)
  /\ BeginPhase

(* A fault that is late, in starting or in ending, changes unnoticed. *)
SlipWorkers ==
  /\ Proceeds /\ InPhase
  /\ (lapse = "early" /\ UNCHANGED lapse) \/ (Untroubled /\ Lapses("unnoticed"))
  /\ \/ /\ workers' \in {0, Requested} /\ UNCHANGED paced
     \/ Requested = 0 /\ workers' \in 0..1 /\ paced' = (HasFault /\ ~paced)
  /\ UNCHANGED <<clock, shown, generation, bound, records, action, cleanup, ended, seconds>>

SlipReset ==
  /\ Proceeds /\ N > 0 /\ Untroubled /\ Lapses("reset")
  /\ generation' = 1 /\ bound' = 1 /\ shown' \in {0, 15}
  /\ UNCHANGED <<clock, workers, paced, records, action, cleanup, ended, seconds>>

-----------------------------------------------------------------------------
(* The bundle: what the records say of the phases that were begun. *)
EvidenceOf(i) ==
  LET gap == gaps[i] IN
  [run |-> manifest.run, manifest |-> manifest.id, clock |-> manifest.clock, phase |-> Phases[i],
   start |-> phases[i].start, end |-> phases[i].end,
   state |-> IF gap = None THEN "complete" ELSE IF rows[i] = <<>> THEN "unavailable" ELSE "partial",
   reason |-> gap, intervals |-> rows[i]]
TraceOf(i) ==
  [producer |-> "pixelated_engine", synthetic |-> manifest.synthetic, policy |-> manifest.policy,
   streams |-> << pairs[i] >>]
Artifacts ==
  [i \in 1..N |-> [role |-> "phase_evidence", phase |-> Phases[i], model |-> EvidenceOf(i)]]
    \o [i \in 1..(IF N > 5 THEN 4 ELSE IF N < 2 THEN 0 ELSE N - 1) |->
          [role |-> "stage_trace", phase |-> Phases[i + 1], model |-> TraceOf(i + 1)]]

Draft(effect) ==
  [run |-> manifest.run, manifest |-> manifest.id, status |-> ended.status, reason |-> ended.reason,
   phases |-> phases, actions |-> IF HasFault /\ Available THEN <<action>> ELSE <<>>,
   artifacts |-> Artifacts, cleanup |-> cleanup, effect |-> effect]
EffectOf(r) ==
  LET ev == ModelsOf(r, "phase_evidence") IN
  IF manifest.version = 2 THEN RecomputePacing(manifest, r, ev, ModelsOf(r, "stage_trace"))
                          ELSE RecomputeEffect(manifest, r, ev)
Result == Draft(EffectOf(Draft(None)))

(* A lapse in the bundle itself: evidence of another run, a gap papered    *)
(* over, an effect claimed. *)
Misread(i) == {[EvidenceOf(i) EXCEPT !.run = 0], [EvidenceOf(i) EXCEPT !.state = "complete", !.reason = None]}
Misreported ==
  (UNION {{[Result EXCEPT !.artifacts[i].model = e] : e \in Misread(i)} : i \in {i \in 1..N : gaps[i] # None \/ i = 2}})
    \cup {[Result EXCEPT !.effect = [@ EXCEPT !.state = "verified", !.reason = None]]}

Judge(r) ==
  inspection' = [accepted |-> Inspected(manifest, r), effect |-> r.effect]
Inspect ==
  /\ ended # None /\ inspection = None
  /\ \/ Judge(Result) /\ UNCHANGED lapse
     \/ Lapses("report") /\ \E r \in Misreported \ {Result} : Judge(r)
  /\ UNCHANGED <<manifest, clock, machine, bound, records, action, cleanup, ended, seconds>>

(* The camera delivers thirty frames a second or, throughout a phase,      *)
(* twenty-four; workers may be idle; a row of an evaluated phase may be    *)
(* missed.  Once something went wrong only a fault slows the camera. *)
Evaluated == phases[N].phase \in {"healthy", "degraded", "recovery"}
Rates == IF clock > phases[N].start THEN {Last(seconds[N]).rate}
         ELSE IF phases[N].phase = "degraded" \/ (Evaluated /\ Untroubled) THEN {24, 30} ELSE {30}
Busy == IF phases[N].phase = "degraded" /\ Untroubled THEN {0, workers} ELSE {workers}
Gaps == IF Evaluated /\ Untroubled THEN {None, "collection_gap"} ELSE {None}
ExperimentNext ==
  \/ NextPhase \/ EndPhase \/ Reset \/ StartFault \/ StopFault
  \/ InPhase /\ \E rate \in Rates, busy \in Busy, gap \in Gaps :
       Passes(rate, busy, gap)
  \/ Abort \/ StartFails \/ WorkerExits \/ Finish
  \/ SlipEarly \/ SlipWorkers \/ SlipReset
  \/ Inspect

ExperimentSpec == ExperimentInit /\ [][ExperimentNext]_experimentVars
-----------------------------------------------------------------------------
(* A verified effect is what happened: whatever single lapse runner or     *)
(* sampler made, an accepted and verified experiment ran all six phases as *)
(* planned on one generation of the camera from healthy to recovery, with  *)
(* the requested workers in every second of degradation and probe and none *)
(* in any other, and the rates it reports are those there were; a verified *)
(* pacing was in force in degradation.                                     *)
AsMany(i) == IF Phases[i] \in {"degraded", "probe"} THEN Requested ELSE 0
Truly(i) == <<TotalOf(seconds[i], LAMBDA s : s.rate), Second * Len(seconds[i])>>
TrulySo(effect) ==
  /\ DOMAIN seconds = 1..6
  /\ \A i \in 1..6 : /\ Second * Len(seconds[i]) = manifest.phases[i].duration
                     /\ \A k \in DOMAIN seconds[i] : seconds[i][k].workers = AsMany(i)
  /\ \A i, j \in 2..5 : \A k \in DOMAIN seconds[i], l \in DOMAIN seconds[j] :
       seconds[i][k].generation = seconds[j][l].generation
  /\ <<effect.healthy, effect.degraded, effect.recovery>> = <<Truly(2), Truly(3), Truly(5)>>
  /\ manifest.version = 2 => \E k \in DOMAIN seconds[3] : seconds[3][k].paced
VerifiedEffect ==
  (inspection # None /\ inspection.accepted /\ inspection.effect.state = "verified") => TrulySo(inspection.effect)

(* No honest bundle is refused: however the run ended, and whatever was    *)
(* missed, reset, lost or left running, records that were kept honestly    *)
(* pass every check and their effect is recomputed as it was reported.     *)
HonestAccepted == (inspection # None /\ lapse = None) => inspection.accepted
=============================================================================
