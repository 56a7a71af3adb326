----------------------------- MODULE GameControl ------------------------------
(***************************************************************************)
(* The control disturbance, run by its producer outside the repository:    *)
(* two viewers watch one game through workers of their own; the first's    *)
(* rate is lowered and restored while three windows are measured.  One     *)
(* thing may go wrong in one half second.                                  *)
(***************************************************************************)
EXTENDS GameEvidence

CONSTANT Lengths   \* how many half seconds the producer may measure in a window

(* The phase of each half second, Null between the windows; the last is    *)
(* as long as the first. *)
Schedules ==
  LET pause == <<Null>>
      window(phase, n) == [i \in 1..n |-> phase] IN
  {pause \o window("baseline", n) \o pause \o window("during", m) \o pause \o pause
     \o window("restored", n) \o pause : n \in Lengths, m \in Lengths}

VARIABLES
  schedule,
  log,       \* the state of everything at the end of each half second
  trouble    \* what went wrong in this cohort, or Null
controlVars == <<schedule, log>>

(* Lives count what no report tells: the starts of a host. *)
Warm ==
  [at |-> 0, phase |-> Null,
   workers |-> [p \in Peers |-> [id |-> p, fps |-> 30, cpu |-> 4, captured |-> 60, encoded |-> 60]],
   hosts |-> [h \in Hosts |-> 4], lives |-> [h \in Hosts |-> 1], script |-> 4,
   viewers |-> [p \in Peers |-> [page |-> 1, shown |-> 60, decoded |-> 60, dropped |-> 0, freezes |-> 0,
                                 late |-> FALSE, blank |-> FALSE, connected |-> TRUE]],
   browser |-> [id \in {"main", "gpu"} |-> 4]]
Now == IF log = <<>> THEN Warm ELSE Last(log)

ControlInit == schedule \in Schedules /\ log = <<>>

(* The first worker is told to slow in the half second after the baseline, *)
(* and to recover in the one after the disturbance. *)
PhaseAfter(k) ==
  LET ahead == SelectSeq(SubSeq(schedule, k, Len(schedule)), LAMBDA p : p # Null) IN
  IF ahead = <<>> THEN "restored" ELSE Head(ahead)
RateNow(p) == RateOf(PhaseAfter(Len(log) + 1), p)
TrueRates == [p \in Peers |-> RateNow(p)]

(* Half a second in which workers encode at these rates and every viewer   *)
(* but one that misses shows all of it. *)
Advance(s, rates, missed, plays) ==
  [at |-> s.at + 1, phase |-> schedule[s.at + 1],
   workers |-> [p \in Peers |->
     [s.workers[p] EXCEPT !.fps = rates[p], !.cpu = @ + 1, !.captured = @ + rates[p] \div 2,
                          !.encoded = @ + rates[p] \div 2]],
   hosts |-> [h \in Hosts |-> IF h = "game" /\ ~plays THEN s.hosts[h] ELSE s.hosts[h] + 1],
   lives |-> s.lives, script |-> IF plays THEN s.script + 1 ELSE s.script,
   viewers |-> [p \in Peers |->
     LET n == rates[p] \div 2 - missed[p] IN
     [s.viewers[p] EXCEPT !.shown = @ + n, !.decoded = @ + n, !.late = FALSE, !.blank = FALSE]],
   browser |-> [id \in DOMAIN s.browser |-> s.browser[id] + 1]]
AllShown == [p \in Peers |-> 0]
Quiet(s) == Advance(s, TrueRates, AllShown, TRUE)

Elapses == Len(log) < Len(schedule) /\ UNCHANGED schedule
Lone(what) == trouble = Null /\ trouble' = what
HalfSecond == Elapses /\ UNCHANGED trouble /\ log' = Append(log, Quiet(Now))

HostTrouble ==
  /\ Elapses /\ Lone("host")
  /\ \/ \E p \in Peers :
          log' = Append(log, Quiet([Now EXCEPT !.workers[p] =
                   [@ EXCEPT !.id = "other", !.cpu = 0, !.captured = 0, !.encoded = 0]]))
     \/ \E h \in Hosts : log' = Append(log, Quiet([Now EXCEPT !.hosts[h] = 0, !.lives[h] = 2]))
     \/ log' = Append(log, Advance(Now, TrueRates, AllShown, FALSE))
     \/ \E p \in Peers : log' = Append(log,
          Advance(Now, [TrueRates EXCEPT ![p] = IF @ = 30 THEN 24 ELSE 30], AllShown, TRUE))

ViewerTrouble ==
  /\ Elapses /\ Lone("viewer")
  /\ \/ \E p \in Peers, some \in BOOLEAN :     \* some frames are dropped, or none is shown
          LET missed == IF some THEN 3 ELSE RateNow(p) \div 2
              s == Advance(Now, TrueRates, [AllShown EXCEPT ![p] = missed], TRUE) IN
          log' = Append(log, [s EXCEPT !.viewers[p] =
                   IF some THEN [@ EXCEPT !.dropped = @ + 3] ELSE [@ EXCEPT !.freezes = @ + 1]])
     \/ \E p \in Peers :
          log' = Append(log, Quiet([Now EXCEPT !.viewers[p] =
                   [@ EXCEPT !.page = 2, !.shown = 0, !.decoded = 0, !.dropped = 0, !.freezes = 0]]))
     \/ \E p \in Peers, what \in {"late", "blank"} :
          log' = Append(log, [Quiet(Now) EXCEPT !.viewers[p] = [@ EXCEPT ![what] = TRUE]])
     \/ log' = Append(log, Quiet([Now EXCEPT !.browser = [id \in {"main", "other"} |-> IF id = "main" THEN @[id] ELSE 0]]))

-----------------------------------------------------------------------------
(* The report. *)
TicksOf(phase) == SelectSeq(log, LAMBDA s : s.phase = phase)
(* The workers' identities are read once a phase, as it begins or ends. *)
NativeReport(phase, late) ==
  LET ticks == TicksOf(phase) IN
  [phase |-> phase, samples |-> ticks,
   ids |-> [p \in Peers |-> (IF late THEN Last(ticks) ELSE Head(ticks)).workers[p].id]]

TraceOf(ticks, p) ==
  LET seen == SelectSeq(ticks, LAMBDA s : s.at = 1 \/ s.viewers[p].shown # log[s.at - 1].viewers[p].shown) IN
  [failure |-> Null, from |-> Head(ticks).at, time |-> Last(ticks).at - Head(ticks).at,
   bursts |-> Column(seen, LAMBDA s : [at |-> s.at, shown |-> s.viewers[p].shown, pts |-> s.at,
                                       gap |-> s.viewers[p].late]),
   connected |-> \A i \in DOMAIN ticks : ticks[i].viewers[p].connected,
   stats |-> Column(ticks, LAMBDA s : [at |-> s.at, decoded |-> s.viewers[p].decoded,
                                       dropped |-> s.viewers[p].dropped, freezes |-> s.viewers[p].freezes]),
   visuals |-> Column(ticks, LAMBDA s : [hash |-> s.script, blank |-> s.viewers[p].blank])]

BrowserAt(s) ==
  [at |-> s.at, read |-> 0, cpu |-> s.browser, count |-> Cardinality(DOMAIN s.browser),
   total |-> FoldFunction(+, 0, s.browser)]
Plain(kind) == [kind |-> kind, phase |-> Null]
InPhase(kind, phase) == [kind |-> kind, phase |-> phase]
Staged(kind, stages) == Column(stages, LAMBDA s : [kind |-> kind, stage |-> s])
ClosingEvents ==
  <<Plain("complete")>> \o Staged("host_shutdown", HostStages)
    \o <<[kind |-> "camera_exit", code |-> 0]>> \o Staged("relay_shutdown", <<"close_start", "closed">>)

ControlLog ==
  <<Plain("ready"), Plain("bound"), InPhase("started", "baseline"), InPhase("native", "baseline"),
    Plain("dispatched"), InPhase("started", "during"), InPhase("native", "during"),
    [kind |-> "result", phase |-> Null, result |-> Completed, ledger |-> "clean", actions |-> 1],
    InPhase("started", "restored"), InPhase("native", "restored")>> \o ClosingEvents
ControlRun(events, late) ==
  [events |-> events,
   viewers |-> [p \in Peers |-> [failures |-> 0, bindings |-> 1, epochs |-> <<p>>]],
   native |-> [i \in 1..3 |-> NativeReport(Phases[i], late)],
   windows |-> [i \in 1..3 |-> [p \in Peers |-> TraceOf(TicksOf(Phases[i]), p)]],
   traces |-> [p \in Peers |-> TraceOf(log, p)],
   browsers |-> [i \in 1..3 |-> [before |-> BrowserAt(Head(TicksOf(Phases[i]))),
                                 after |-> BrowserAt(Last(TicksOf(Phases[i])))]]]
ControlDone == Len(log) = Len(schedule)

-----------------------------------------------------------------------------
(* What such a run should have been for its reconstruction to be met. *)
Measured == {k \in DOMAIN log : log[k].phase # Null}
(* Half seconds between two samples of one window. *)
Inside(k) == k > 1 /\ log[k].phase # Null /\ log[k - 1].phase = log[k].phase
FirstMeasured == CHOOSE k \in Measured : \A j \in Measured : k <= j
LastMeasured == CHOOSE k \in Measured : \A j \in Measured : j <= k

ControlWasTrue ==
  LET a == log[FirstMeasured]  b == log[LastMeasured] IN
  /\ \A k \in Measured, p \in Peers : log[k].workers[p].id = a.workers[p].id
  /\ \A h \in Hosts : a.lives[h] = b.lives[h]
  /\ \A k \in DOMAIN log, p \in Peers : Inside(k) =>
       /\ log[k].workers[p].captured - log[k - 1].workers[p].captured = RateOf(log[k].phase, p) \div 2
       /\ ~log[k].viewers[p].late /\ ~log[k].viewers[p].blank
  /\ \A p \in Peers : /\ a.viewers[p].page = b.viewers[p].page
                      /\ a.viewers[p].dropped = b.viewers[p].dropped
                      /\ a.viewers[p].freezes = b.viewers[p].freezes
CpuWasTrue(run) ==
  \A i \in 1..3 : BrowserCpu(run.browsers[i].before, run.browsers[i].after) # Null =>
    Cardinality({DOMAIN log[k].browser : k \in {k \in Measured : log[k].phase = Phases[i]}}) = 1
=============================================================================
