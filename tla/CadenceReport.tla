---------------------------- MODULE CadenceReport ----------------------------
(***************************************************************************)
(* What a cadence trial leaves behind: the report of a worker that lowered *)
(* the capture rate from 30 to 24 frames a second and put it back, to a    *)
(* loopback receiver (live_probes/cadence.py) or to a browser showing a    *)
(* game (game_browser.py), and the screens recomputed from it              *)
(* (cadence_inspection.py, game_browser_inspection.py).  Times are in      *)
(* quarter seconds; the 200 ms of settling after restoration are one.      *)
(*                                                                         *)
(* A report has kind, mode, protocol (whether it says which was followed), *)
(* status, teardown, generation, receipts, observations, windows (by phase, or Null), timeline, result, journal,   *)
(* assessment and, from a browser, stats, visuals, resources, inputs,      *)
(* scene and what its container said: exit, failure, removed.  The         *)
(* timeline is kept in bursts: [at, frames, paused], paused when two of    *)
(* its frames are further apart than continuity allows.                    *)
(* Definitions whose name starts with Bug are what a slip would make of    *)
(* the one after them.                                                     *)
(***************************************************************************)
EXTENDS Integers, Sequences, FiniteSets, SequencesExt, FiniteSetsExt

CONSTANTS
  Null,
  Warmup,                          \* 3 seconds in the code
  LeastBefore, LeastDuring, LeastAfter   \* times of the windows: 1, 2 and 0.75 seconds
Second == 4
Prior == 30
Target == 24
TrialPhases == <<"baseline", "during", "restoration">>
Settling == [during |-> 2, restoration |-> 1]
ReceiptOf == [during |-> 1, restoration |-> 2]

Measure == [baseline |-> LeastBefore, during |-> LeastDuring, restoration |-> LeastAfter]

ASSUME TimesAssumption == Warmup \in Nat /\ {LeastBefore, LeastDuring, LeastAfter} \subseteq Nat \ {0}

Rising(seq, Of(_)) ==
  \A i \in 1..Len(seq) - 1 : Null \notin {Of(seq[i]), Of(seq[i + 1])} /\ Of(seq[i]) <= Of(seq[i + 1])
Ends(receipt) == IF receipt.after = Null THEN receipt.before ELSE receipt.after

-----------------------------------------------------------------------------
(* Chronology. *)
BugSettersInOrder(r) == \A i \in DOMAIN r.receipts : r.receipts[i].after # Null
SettersInOrder(r) ==
  /\ Len(r.receipts) <= 2
  /\ \A i \in DOMAIN r.receipts : LET s == r.receipts[i] IN
       /\ s.fps = IF i = 1 THEN Target ELSE Prior
       /\ s.after = Null \/ s.before <= s.after
       /\ i > 1 => Ends(r.receipts[i - 1]) <= s.before

ClearOfSetters(r, w) ==
  \A i \in DOMAIN r.receipts : LET s == r.receipts[i] IN
    Ends(s) < w.start.at \/ w.end.at < s.before

BugSettled(r, p, w) == TRUE
Settled(r, p, w) ==
  LET i == ReceiptOf[p] IN
  /\ i <= Len(r.receipts) /\ r.receipts[i].after # Null
  /\ r.receipts[i].after + Settling[p] <= w.start.at

WindowFits(r, p, w) ==
  /\ w.start.at < w.end.at
  /\ {w.start, w.end} \subseteq Range(r.observations)
  /\ ClearOfSetters(r, w)
  /\ p = "baseline" =>
       /\ r.kind = "browser" => Warmup <= w.start.at
       /\ r.receipts # <<>> => w.end.at < r.receipts[1].before
  /\ (p = "during" /\ Len(r.receipts) > 1) => w.end.at < r.receipts[2].before
  /\ (p # "baseline" /\ r.mode # "sham") => Settled(r, p, w)

WindowsInOrder(r) ==
  /\ \A p \in DOMAIN r.windows : r.windows[p] # Null => WindowFits(r, p, r.windows[p])
  /\ \A i, j \in 1..3 : LET v == r.windows[TrialPhases[i]]  w == r.windows[TrialPhases[j]] IN
       (i < j /\ Null \notin {v, w}) => v.end.at <= w.start.at

ResourcesBound(r) ==
  \A i \in DOMAIN r.resources : LET s == r.resources[i] IN
    /\ s.at <= s.from /\ s.from <= s.to
    /\ \E k \in DOMAIN r.observations : r.observations[k].at = s.at
    /\ i > 1 => r.resources[i - 1].to < s.from /\ r.resources[i - 1].at < s.at

ValidOutcome(o) ==
  /\ o.outcome = "completed" => o.restoration = "verified_by_port" /\ o.reason = "duration_elapsed"
  /\ (o.outcome = "interrupted_teardown")
       = (o.restoration = "not_verified_teardown" /\ o.reason = "worker_terminated")

ValidReport(r) ==
  /\ SettersInOrder(r)
  /\ \A i \in 2..Len(r.observations) : r.observations[i - 1].at < r.observations[i].at
  /\ WindowsInOrder(r)
  /\ r.result # Null => ValidOutcome(r.result)
  /\ r.kind = "browser" => ResourcesBound(r)
  /\ r.mode = "sham" => r.receipts = <<>> /\ r.result = Null /\ r.journal = Null

-----------------------------------------------------------------------------
(* What both inspections recompute. *)
RateOf(r, p) == IF p = "during" /\ r.mode # "sham" THEN Target ELSE Prior
Within(r, w) == SelectSeq(r.observations, LAMBDA o : w.start.at <= o.at /\ o.at <= w.end.at)

OnRate(r, p, counter) ==
  LET w == r.windows[p]
      fps == RateOf(r, p)
      time == w.end.at - w.start.at
      frames == w.end[counter] - w.start[counter] IN
  /\ 9 * fps * time <= 10 * frames * Second /\ 10 * frames * Second <= 11 * fps * time
  /\ Rising(Within(r, w), LAMBDA o : o[counter])

InForce(r, p) ==
  \A o \in Range(Within(r, r.windows[p])) :
    o.healthy /\ o.configured = RateOf(r, p) /\ o.negotiated = RateOf(r, p)

Continuous(r) ==
  /\ r.protocol /\ r.timeline # <<>> /\ r.observations # <<>>
  /\ \A i \in DOMAIN r.timeline : ~r.timeline[i].paused
  /\ \A i \in 2..Len(r.timeline) : r.timeline[i].at - r.timeline[i - 1].at <= Second \div 2
  /\ \A i \in DOMAIN r.observations : r.observations[i].healthy
  /\ Last(r.observations).at - Last(r.timeline).at \in 0..Second \div 2

CountsAgree(r) ==
  LET shown(at) == FoldSeq(LAMBDA b, n : IF b.at <= at THEN n + b.frames ELSE n, 0, r.timeline) IN
  /\ r.observations # <<>>
  /\ \A i \in DOMAIN r.observations : r.observations[i].received = shown(r.observations[i].at)
  /\ r.kind = "browser" => /\ Rising(r.observations, LAMBDA o : o.captured)
                           /\ Rising(r.observations, LAMBDA o : o.received)
SettingsStable(r) ==
  r.observations # <<>> /\ Cardinality({r.observations[i].settings : i \in DOMAIN r.observations}) = 1

Complete(r) == \A p \in Range(TrialPhases) : r.windows[p] # Null
RestorationClaimed(r) ==
  r.result # Null /\ r.result.restoration = "verified_by_port" /\ r.journal = "clean"

-----------------------------------------------------------------------------
(* The loopback screen. *)
LoopbackCheck(r, p, counter) == r.windows[p] # Null /\ r.protocol /\ OnRate(r, p, counter) /\ InForce(r, p)
LoopbackChecks(r) ==
  [p \in Range(TrialPhases) |->
     LoopbackCheck(r, p, "captured") /\ LoopbackCheck(r, p, "received")]

LoopbackMet(r) ==
  /\ \A p \in Range(TrialPhases) : LoopbackChecks(r)[p]
  /\ Continuous(r) /\ CountsAgree(r) /\ SettingsStable(r) /\ r.generation # Null
LoopbackRestored(r) ==
  /\ LoopbackChecks(r)["restoration"]
  /\ CountsAgree(r) /\ SettingsStable(r) /\ Continuous(r)
  /\ RestorationClaimed(r) /\ r.generation # Null

-----------------------------------------------------------------------------
(* The browser screen. *)
HealthyStats(s) == s.dropped = 0 /\ s.freezes = 0
StatsOrdered(r) == Rising(r.stats, LAMBDA s : s.at)
WellShown(r, p) ==
  /\ InForce(r, p) /\ StatsOrdered(r)
  /\ \A o \in Range(Within(r, r.windows[p])) :
       LET prior == SelectSeq(r.stats, LAMBDA s : s.at <= o.at) IN
       /\ prior # <<>> /\ o.at - Last(prior).at <= Second \div 2
       /\ HealthyStats(Last(prior))

Delta(seq, field) ==
  IF Rising(seq, LAMBDA s : s[field]) THEN Last(seq)[field] - Head(seq)[field] ELSE Null
Progresses(r, p) ==
  LET w == r.windows[p]
      stats == SelectSeq(r.stats, LAMBDA s : w.start.at <= s.at /\ s.at <= w.end.at) IN
  /\ Len(stats) >= 2 /\ StatsOrdered(r)
  /\ \A i \in DOMAIN stats : HealthyStats(stats[i])
  /\ Delta(stats, "received") \notin {Null, 0} /\ Delta(stats, "decoded") \notin {Null, 0}
  /\ Delta(stats, "dropped") = 0 /\ Delta(stats, "freezes") = 0

Least(r, p) == IF p = "during" /\ r.mode \notin {"changed", "sham"} THEN 1 ELSE Measure[p]
PhaseState(r, p) ==
  LET w == r.windows[p] IN
  IF w = Null THEN "incomplete"
  ELSE IF w.end.at - w.start.at < Least(r, p) THEN "incomplete"
  ELSE IF /\ OnRate(r, p, "captured") /\ OnRate(r, p, "received")
          /\ WellShown(r, p) /\ Progresses(r, p)
  THEN "met" ELSE "not_met"

(* CPU is told only for samples that cover the window, of counters that    *)
(* were never reset. *)
WorkerCpu(r, p) ==
  LET w == r.windows[p]
      read == SelectSeq(r.resources, LAMBDA s : w.start.at <= s.at /\ s.at <= w.end.at) IN
  IF Len(read) < 2 THEN Null
  ELSE IF \/ Head(read).at # w.start.at \/ Last(read).at # w.end.at
          \/ ~Rising(r.resources, LAMBDA s : s.cpu)
  THEN Null ELSE <<Last(read).cpu - Head(read).cpu, Last(read).from - Head(read).from>>

InWindow(r, p, at) == r.windows[p] # Null /\ r.windows[p].start.at <= at /\ at <= r.windows[p].end.at
SeenIn(r, p) == SelectSeq(r.visuals, LAMBDA v : InWindow(r, p, v.at))
SceneMoves(r) ==
  LET seen == UNION {Range(SeenIn(r, p)) : p \in Range(TrialPhases)} IN
  /\ Rising(r.visuals, LAMBDA v : v.at)
  /\ Cardinality({v.hash : v \in seen}) >= 3 /\ \A v \in seen : ~v.blank
  /\ \A p \in Range(TrialPhases) : r.windows[p] # Null => SeenIn(r, p) # <<>>

CountersRise(r) ==
  /\ StatsOrdered(r)
  /\ \A field \in {"received", "decoded", "dropped", "freezes"} :
       Rising(SelectSeq(r.stats, LAMBDA s : s[field] # Null), LAMBDA s : s[field])

OutcomeExpected(r) ==
  LET o == r.result IN
  CASE r.mode = "sham" -> o = Null /\ r.journal = Null
    [] r.mode # "sham" /\ o = Null -> FALSE
    [] r.mode \in {"changed", "cancel"} /\ o # Null ->
         /\ <<o.outcome, o.reason>> = IF r.mode = "changed" THEN <<"completed", "duration_elapsed">>
                                                            ELSE <<"aborted", "cancelled">>
         /\ o.restoration = "verified_by_port" /\ r.journal = "clean"
    [] r.mode = "disconnect" /\ o # Null ->
         <<o.outcome, o.reason, o.restoration, r.journal, r.exit>>
           = <<"aborted", "health_abort", "unknown", "dirty", 137>>

Context(r) == r.generation # Null /\ r.inputs \notin {Null, 0}
CleanedUp(r) ==
  /\ r.status = "observed" /\ r.teardown = "null_observed" /\ r.scene = "reaped"
  /\ r.removed /\ r.exit = 0 /\ r.failure = Null

BrowserMet(r) ==
  /\ \A p \in Range(TrialPhases) : PhaseState(r, p) = "met"
  /\ Continuous(r) /\ SceneMoves(r) /\ CountsAgree(r) /\ SettingsStable(r)
  /\ Context(r) /\ CleanedUp(r) /\ OutcomeExpected(r) /\ CountersRise(r)
BrowserRestored(r) ==
  /\ r.mode # "sham" /\ RestorationClaimed(r)
  /\ PhaseState(r, "restoration") = "met"
  /\ Continuous(r) /\ CountsAgree(r) /\ SettingsStable(r) /\ Context(r) /\ CountersRise(r)
  /\ \E i \in DOMAIN SeenIn(r, "restoration") : ~SeenIn(r, "restoration")[i].blank

-----------------------------------------------------------------------------
Screen(complete, met) == IF ~complete THEN "incomplete" ELSE IF met THEN "met" ELSE "not_met"
BrowserInspection(r) ==
  [screen |-> Screen(\A p \in Range(TrialPhases) : PhaseState(r, p) # "incomplete", BrowserMet(r)),
   restored |-> BrowserRestored(r),
   cpu |-> [p \in Range(TrialPhases) |-> IF r.windows[p] = Null THEN Null ELSE WorkerCpu(r, p)]]

Inspect(r) ==
  IF r.kind = "loopback"
  THEN [screen |-> Screen(Complete(r) /\ r.protocol, LoopbackMet(r)), restored |-> LoopbackRestored(r),
        cpu |-> [p \in Range(TrialPhases) |-> Null]]
  ELSE BrowserInspection(r)
=============================================================================
