----------------------------- MODULE ProbeTrial ------------------------------
(***************************************************************************)
(* A probe trial and its inspection.  The controller and the worker are    *)
(* the producer's, outside the repository: the controller lowers a setting *)
(* of a running encoder (the capture rate, or for a live probe the         *)
(* bitrate, which both are called fps here), measures, and puts it back;   *)
(* the worker observes both ends every half second.  A setter call may     *)
(* raise, or hang and take effect whenever it likes; the receiver may      *)
(* stall or drop frames; the setting may be changed from elsewhere, the    *)
(* peer replaced, the trial cancelled, the receiver lost, the worker       *)
(* killed.  The report may err in one place, and is then validated and     *)
(* inspected here.                                                         *)
(***************************************************************************)
EXTENDS CadenceReport

Live == INSTANCE LiveEvidence

(* Every kind of trial in every mode it can be run in. *)
Modes(k) == IF k = "browser" THEN {"changed", "sham", "cancel", "disconnect"} ELSE {"changed"}

VARIABLES
  plan,
  stage,     \* the phase being measured
  from,      \* when its window may start, or Null
  fps, pending,   \* the setting, and one that a hung call may still bring about
  actual,    \* what the encoder does, which may follow a lowered setting half a second late
  worker,    \* the worker's counters and generation
  observed, bursts,
  calls, windows,
  steps,     \* what was the case in each half second
  trouble,   \* what went wrong, or Null
  ended,     \* Null, or how the controller ended
  slip, verdict

setting == <<fps, pending, actual>>
sampled == <<worker, observed, bursts, steps>>
vars == <<plan, stage, from, setting, sampled, calls, windows, trouble, ended, slip, verdict>>

kind == plan[1]
mode == plan[2]
clock == 2 * Len(steps)
Other(f) == IF f = Prior THEN Target ELSE Prior

Init ==
  /\ \E k \in {"loopback", "live", "browser"} : \E m \in Modes(k) : plan = <<k, m>>
  /\ stage = 1 /\ from = Warmup
  /\ fps = Prior /\ pending = Null /\ actual = Prior
  /\ worker = [generation |-> 1, captured |-> 0, received |-> 0, dropped |-> 0, cpu |-> 0, settings |-> 0]
  /\ observed = <<>> /\ bursts = <<>> /\ steps = <<>>
  /\ calls = <<>> /\ windows = [p \in Range(TrialPhases) |-> Null]
  /\ trouble = Null /\ ended = Null /\ slip = Null /\ verdict = Null

Phase == TrialPhases[stage]
Running == ended = Null /\ UNCHANGED <<plan, slip, verdict>>
Goes(name) == trouble = Null /\ trouble' = name

(* The window of the phase being measured, as observations from and to. *)
FirstIn == {i \in DOMAIN observed : from # Null /\ from <= observed[i].at}
WindowNow ==
  IF FirstIn = {} \/ Min(FirstIn \cup {Len(observed)}) = Len(observed) THEN Null
  ELSE <<Min(FirstIn), Len(observed)>>
Measured == FirstIn # {} /\ clock - observed[Min(FirstIn)].at >= Measure[Phase]
Measuring == from # Null /\ ~Measured

-----------------------------------------------------------------------------
(* Half a second passes: frames are captured at the rate in force, shown   *)
(* by the receiver, and observed at its end. *)
Passes(shows, w, after, healthy, legible) ==
  LET frames == IF shows = "none" THEN 0 ELSE IF shows = "fewer" THEN actual \div 2 - 3 ELSE actual \div 2 IN
  /\ worker' = [w EXCEPT !.captured = @ + actual \div 2, !.received = @ + frames, !.cpu = @ + 1,
                         !.dropped = IF shows = "fewer" THEN @ + 3 ELSE @]
  /\ observed' = Append(observed,
       [at |-> clock + 2, configured |-> after, negotiated |-> after, captured |-> worker'.captured,
        received |-> worker'.received, healthy |-> healthy, settings |-> worker'.settings,
        dropped |-> worker'.dropped, cpu |-> worker'.cpu, generation |-> worker'.generation,
        legible |-> legible, hash |-> Len(observed)])
  /\ bursts' = IF frames = 0 THEN bursts
               ELSE Append(bursts, [at |-> clock + 2, frames |-> frames,
                                    paused |-> steps # <<>> /\ Last(steps).shows = "none"])
  /\ steps' = Append(steps, [fps |-> actual, shows |-> shows, generation |-> w.generation, healthy |-> healthy])
  /\ fps' = after

Stays == UNCHANGED <<stage, from, calls, windows>>
Follows == actual' = fps'
Quietly == Passes("all", worker, fps, TRUE, TRUE) /\ Follows

HalfSecond ==
  /\ Running /\ Measuring
  /\ Stays /\ UNCHANGED pending /\ Quietly
  /\ UNCHANGED <<trouble, ended>>

(* A hung call takes effect. *)
TakesEffect ==
  /\ Running /\ Measuring /\ Stays
  /\ pending # Null /\ pending' = Null
  /\ Passes("all", worker, pending, TRUE, TRUE) /\ Follows
  /\ UNCHANGED <<trouble, ended>>

Troubled ==
  /\ Running /\ Measuring /\ Stays /\ UNCHANGED <<pending, ended>>
  /\ \/ Goes("stall") /\ Passes("none", worker, fps, TRUE, TRUE)
     \/ Goes("loss") /\ Passes("fewer", worker, fps, TRUE, TRUE)
     \/ Goes("foreign") /\ Passes("all", worker, Other(fps), TRUE, TRUE)
     \/ /\ trouble = "foreign" /\ trouble' = "undone"
        /\ Passes("all", worker, Other(fps), TRUE, TRUE)
     \/ Goes("unhealthy") /\ Passes("all", worker, fps, FALSE, TRUE)
     \/ Goes("illegible") /\ Passes("all", worker, fps, TRUE, FALSE)
     \/ Goes("settings") /\ Passes("all", [worker EXCEPT !.settings = 1], fps, TRUE, TRUE)
     \/ /\ Goes("peer")
        /\ Passes("all", [worker EXCEPT !.generation = 2, !.captured = 0, !.received = 0,
                                        !.dropped = 0, !.cpu = 0], fps, TRUE, TRUE)
  /\ Follows

-----------------------------------------------------------------------------
(* The controller. *)
ClosePhase(earliest) ==
  /\ windows' = [windows EXCEPT ![Phase] = WindowNow]
  /\ stage' = stage + 1 /\ from' = earliest

(* A setter call is made within the half second; only when it returned, or *)
(* in a live probe was made, may the next window start after settling. *)
Call(phase, value, outcome, took) ==
  LET before == clock + 1
      after == IF outcome = "unknown" THEN Null ELSE before + took IN
  /\ calls' = Append(calls, [phase |-> phase, fps |-> value, before |-> before, after |-> after,
                             outcome |-> outcome])
  /\ pending' = IF outcome = "unknown" THEN value ELSE pending
  /\ Passes("all", worker, IF outcome = "returned" THEN value ELSE fps, TRUE, TRUE)
  /\ Follows \/ (phase = "application" /\ UNCHANGED actual)
  /\ LET settled == IF kind # "live" /\ outcome # "returned" THEN Null
                    ELSE (IF after = Null THEN before ELSE after)
                           + Settling[IF phase = "application" THEN "during" ELSE "restoration"] IN
     IF phase = "cleanup" THEN from' = settled /\ UNCHANGED <<stage, windows>> ELSE ClosePhase(settled)

Outcomes == {"returned", "raised", "unknown"}
Controls == mode # "sham"
Fails(outcome) == IF outcome = "returned" THEN UNCHANGED trouble ELSE Goes(outcome)
Apply ==
  /\ Running /\ Controls /\ stage = 1 /\ Measured
  /\ \E outcome \in Outcomes, took \in 0..1 :
       Fails(outcome) /\ Call("application", Target, outcome, took)
  /\ UNCHANGED ended
Restore ==
  /\ Running /\ Controls /\ stage = 2
  /\ Measured \/ from = Null \/ (mode = "cancel" /\ WindowNow # Null)
  /\ \E outcome \in Outcomes, took \in 0..1 :
       Fails(outcome) /\ Call("restoration", Prior, outcome, took)
  /\ UNCHANGED ended
Cleanup ==
  /\ Running /\ kind = "live" /\ stage = 3 /\ Len(calls) = 2 /\ calls[2].outcome # "returned"
  /\ Call("cleanup", Prior, "returned", 0)
  /\ UNCHANGED <<trouble, ended>>

(* An unchanged control passes from phase to phase. *)
Turn ==
  /\ Running /\ ~Controls /\ stage < 3 /\ Measured
  /\ ClosePhase(clock)
  /\ UNCHANGED <<setting, sampled, calls, trouble, ended>>

EndsWith(result, journal, exit) ==
  /\ ended' = [result |-> result, journal |-> journal, exit |-> exit]
  /\ windows' = [windows EXCEPT ![Phase] = WindowNow]
  /\ UNCHANGED <<stage, from, setting, sampled, calls, trouble>>
Outcome(outcome, restoration, reason) ==
  [outcome |-> outcome, restoration |-> restoration, reason |-> reason]
AllReturned == \A i \in DOMAIN calls : calls[i].outcome = "returned"
Verified == AllReturned /\ fps = Prior

Finish ==
  /\ Running /\ stage = 3 /\ (Measured \/ from = Null)
  /\ IF ~Controls THEN EndsWith(Null, Null, 0)
     ELSE EndsWith(IF Verified /\ mode = "cancel" THEN Outcome("aborted", "verified_by_port", "cancelled")
                ELSE IF Verified THEN Outcome("completed", "verified_by_port", "duration_elapsed")
                ELSE Outcome("aborted", "unknown", IF calls[1].outcome # "returned" THEN "apply_failed"
                                                   ELSE "restore_failed"),
                IF Verified THEN "clean" ELSE "dirty", 0)
LoseReceiver ==
  /\ Running /\ mode = "disconnect" /\ stage = 2 /\ WindowNow # Null
  /\ EndsWith(Outcome("aborted", "unknown", "health_abort"), "dirty", 137)
Kill ==
  /\ Running /\ Controls
  /\ \/ EndsWith(Outcome("interrupted_teardown", "not_verified_teardown", "worker_terminated"),
              IF calls = <<>> THEN "clean" ELSE "active", -9)
     \/ EndsWith(Null, Null, -9)

-----------------------------------------------------------------------------
(* The report. *)
Report(obs, wins, made, shown, result, journal) ==
  [kind |-> kind, mode |-> mode, protocol |-> TRUE, status |-> IF ended.exit = 0 THEN "observed" ELSE "unavailable",
   teardown |-> IF ended.exit = 0 THEN "null_observed" ELSE "unknown", generation |-> worker.generation,
   receipts |-> made, observations |-> obs,
   windows |-> [p \in Range(TrialPhases) |->
                  IF wins[p] = Null THEN Null ELSE [start |-> obs[wins[p][1]], end |-> obs[wins[p][2]]]],
   timeline |-> shown, result |-> result, journal |-> journal,
   stats |-> [i \in DOMAIN obs |-> [at |-> obs[i].at, received |-> obs[i].received, dropped |-> obs[i].dropped,
                                freezes |-> 0, decoded |-> IF obs[i].legible THEN obs[i].received ELSE Null]],
   visuals |-> [i \in DOMAIN obs |-> [at |-> obs[i].at, hash |-> obs[i].hash, blank |-> ~obs[i].legible]],
   resources |-> [i \in DOMAIN obs |-> [at |-> obs[i].at, from |-> obs[i].at, to |-> obs[i].at, cpu |-> obs[i].cpu]],
   inputs |-> 1, scene |-> IF ended.exit = 0 THEN "reaped" ELSE "unknown",
   exit |-> ended.exit, failure |-> IF ended.exit = 0 THEN Null ELSE "worker_failed", removed |-> TRUE]

Sample(o) ==
  [from |-> o.at, to |-> o.at, generation |-> o.generation, value |-> o.configured, settings |-> o.settings,
   counts |-> [encoded |-> o.captured, decoded |-> IF o.legible THEN o.received ELSE Null,
               dropped |-> o.dropped]]
Evidence(obs, wins, made) ==
  [intent |-> [requested |-> Target, prior |-> Prior, at |-> 0, applyBy |-> Warmup + 8, restoreBy |-> Warmup + 16,
               settleApply |-> Settling["during"], settleRestore |-> Settling["restoration"]],
   receipts |-> [i \in DOMAIN made |-> [phase |-> made[i].phase, value |-> made[i].fps, start |-> made[i].before,
                                        end |-> made[i].after, outcome |-> made[i].outcome]],
   windows |-> LET kept == SelectSeq(TrialPhases, LAMBDA p : wins[p] # Null) IN
               [k \in DOMAIN kept |-> LET w == wins[kept[k]] IN
                  [phase |-> kept[k], start |-> obs[w[1]].at, end |-> obs[w[2]].at + 1,
                   samples |-> [i \in 1..(w[2] - w[1] + 1) |-> Sample(obs[w[1] + i - 1])]]],
   reasons |-> {"capability_unqualified"}]

Judge(obs, wins, made, shown, result, journal) ==
  verdict' =
    IF kind = "live"
    THEN LET e == Evidence(obs, wins, made) IN
         [accepted |-> Live!ValidLiveEvidence(e), report |-> e, found |-> Live!InspectLive(e)]
    ELSE LET r == Report(obs, wins, made, shown, result, journal) IN
         [accepted |-> ValidReport(r), report |-> r, found |-> Inspect(r)]

(* What may be wrong in a report, unless the worker was killed: a window   *)
(* begun or ended at another observation, a call not mentioned, claimed to *)
(* have returned or returned sooner, counters of an observation copied     *)
(* from the one before, a burst of frames left out, an outcome that was    *)
(* none. *)
OtherWindows ==
  LET shifted(p) == {w \in (windows[p][1] - 2..windows[p][1] + 1) \X (windows[p][2] - 1..windows[p][2] + 2) :
                       w[1] < w[2] /\ {w[1], w[2]} \subseteq DOMAIN observed} IN
  UNION {{[windows EXCEPT ![p] = w] : w \in {w \in shifted(p) : (w[1] = windows[p][1]) # (w[2] = windows[p][2])}} :
           p \in {p \in Range(TrialPhases) : windows[p] # Null}}
OtherCalls ==
  {RemoveAt(calls, i) : i \in DOMAIN calls}
    \cup {[calls EXCEPT ![i].after = @ - 1] : i \in {i \in DOMAIN calls : calls[i].after # Null}}
    \cup {[calls EXCEPT ![i].after = calls[i].before, ![i].outcome = "returned"] : i \in DOMAIN calls}
Stale(field) ==
  {[observed EXCEPT ![i] = [@ EXCEPT ![field] = observed[i - 1][field]]] : i \in 2..Len(observed)}
Reported ==
  LET Says(o, w, c, b) == Judge(o, w, c, b, ended.result, ended.journal) IN
  /\ ended # Null /\ verdict = Null
  /\ \/ UNCHANGED slip /\ Says(observed, windows, calls, bursts)
     \/ /\ ended.exit # -9
        /\ \/ slip' = "windows" /\ \E w \in OtherWindows : Says(observed, w, calls, bursts)
           \/ slip' = "calls" /\ \E c \in OtherCalls : Says(observed, windows, c, bursts)
           \/ /\ slip' = "counters"
              /\ \E o \in Stale("captured") \cup Stale("received") : Says(o, windows, calls, bursts)
           \/ /\ slip' = "frames"
              /\ \E i \in DOMAIN bursts : Says(observed, windows, calls, RemoveAt(bursts, i))
           \/ /\ slip' = "outcome"
              /\ Judge(observed, windows, calls, bursts,
                       Outcome("completed", "verified_by_port", "duration_elapsed"), "clean")
  /\ UNCHANGED <<plan, stage, from, setting, sampled, calls, windows, trouble, ended>>

Next ==
  \/ HalfSecond \/ TakesEffect \/ Troubled
  \/ Apply \/ Restore \/ Cleanup \/ Turn
  \/ Finish \/ LoseReceiver \/ Kill
  \/ Reported

Spec == Init /\ [][Next]_vars
-----------------------------------------------------------------------------
Accepted == verdict # Null /\ verdict.accepted
(* The half seconds from one time to another. *)
Between(a, b) == {k \in DOMAIN steps : a < 2 * k /\ 2 * k <= b}
Shown(k) == IF steps[k].shows = "none" THEN 0
            ELSE IF steps[k].shows = "fewer" THEN steps[k].fps \div 2 - 3 ELSE steps[k].fps \div 2
SumOver(K) == FoldSet(LAMBDA k, n : n + Shown(k), 0, K)
OneSetting(w, value) ==
  /\ \A k \in Between(w.start.at, w.end.at) :
       steps[k].fps = value /\ steps[k].healthy /\ steps[k].shows # "none"
  /\ Cardinality({steps[k].generation : k \in Between(w.start.at, w.end.at)}) = 1
  /\ w.end.received - w.start.received = SumOver(Between(w.start.at, w.end.at))

(* A screen that is met is what happened: whatever went wrong in the trial *)
(* and wherever its report erred, in every half second of its windows the  *)
(* rate of the phase was in force on one healthy, progressing receiver,    *)
(* the frames it counts were shown, and from the baseline to the last half *)
(* second one worker ran without a stall. *)
ScreenTrue ==
  (Accepted /\ kind # "live" /\ verdict.found.screen = "met") =>
    /\ \A p \in Range(TrialPhases) : OneSetting(verdict.report.windows[p], RateOf(verdict.report, p))
    /\ \A k \in Between(verdict.report.windows["baseline"].start.at, clock - 2) :
         steps[k].generation = worker.generation /\ steps[k].shows # "none"

(* A restoration that is supported happened: the prior setting was in      *)
(* force throughout its window, after a call that put it back. *)
RestorationTrue ==
  /\ (Accepted /\ kind # "live" /\ verdict.found.restored) =>
       /\ OneSetting(verdict.report.windows["restoration"], Prior)
       /\ \E i \in DOMAIN calls : calls[i].phase = "restoration"
             /\ calls[i].before < verdict.report.windows["restoration"].start.at
  /\ (Accepted /\ kind = "live" /\ verdict.found.restoration = "setting_and_local_progress_only") =>
       \E i \in DOMAIN calls : calls[i].phase = "restoration"

(* A live probe's window without reasons saw one setting, and its deltas   *)
(* are the frames decoded between its samples (a counter that was copied,  *)
(* nothing in this format contradicts). *)
WindowsTrue ==
  (Accepted /\ kind = "live") =>
    \A i \in DOMAIN verdict.found.windows :
      LET found == verdict.found.windows[i]  w == verdict.report.windows[i]
          span == Between(w.start, w.end - 1) IN
      found.reasons = {} =>
        /\ \A k \in span : steps[k].fps = IF w.phase = "during" THEN Target ELSE Prior
        /\ Cardinality({steps[k].generation : k \in span}) = 1
        /\ slip # "counters" => found.deltas["decoded"] = SumOver(span)

(* What a trial's report is taken to show was so: its screens, its         *)
(* restorations and its windows. *)
TrialTrue == ScreenTrue /\ RestorationTrue /\ WindowsTrue

(* No honest report is refused, wherever the trial ended. *)
HonestAccepted == (verdict # Null /\ slip = Null) => verdict.accepted
=============================================================================
