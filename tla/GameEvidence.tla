----------------------------- MODULE GameEvidence -----------------------------
(***************************************************************************)
(* What is reconstructed from a cohort of contained game runs: its one     *)
(* control disturbance and its four failures (live_probes/                 *)
(* integrated_game*.py, browser_cpu.py).  Producers only declare; the      *)
(* reconstruction compares identities, counters and events.  Times are in  *)
(* half seconds; a sample or a burst of frames stands for its half second. *)
(*                                                                         *)
(* A run has mode, passed, context, events and viewers; the control run    *)
(* native (a report per phase), windows (per phase, by peer), traces and   *)
(* browsers (per phase, the browser's processes before and after); a       *)
(* failure run the sibling's window.                                       *)
(* Definitions whose name starts with Bug are what a slip would make of    *)
(* the one after them.                                                     *)
(***************************************************************************)
EXTENDS Integers, Sequences, FiniteSets, SequencesExt

CONSTANTS
  Null,
  Samples,      \* how many samples a native window may have: 10..14 in the code
  Wall,         \* how long it may last: 2.5 to 3 seconds
  WindowTimes,  \* how long a browser window may last: 2 to 2.5 seconds
  CpuTimes,     \* how long its CPU may be counted: 1.5 to 3 seconds
  TraceTimes    \* how long a continuous trace may last: 10 to 26 seconds

Modes == <<"disturbance", "cancel", "receiver-loss", "source-loss", "reconnect">>
Phases == <<"baseline", "during", "restored">>
Peers == {"first", "second"}
Hosts == {"parent", "relay", "game"}
SettleWait == 5                              \* 2.5 seconds

RateOf(phase, peer) == IF phase = "during" /\ peer = "first" THEN 24 ELSE 30
OnRate(frames, time, fps) == 9 * fps * time <= 20 * frames /\ 20 * frames <= 11 * fps * time

Column(rows, Of(_)) == [i \in DOMAIN rows |-> Of(rows[i])]
Rises(values) == Len(values) >= 2 /\ \A i \in 1..Len(values) - 1 : values[i] <= values[i + 1]
Rise(values) == Last(values) - Head(values)
Advances(values, gap) ==
  Len(values) >= 2 /\ \A i \in 1..Len(values) - 1 : values[i + 1] - values[i] \in 1..gap

-----------------------------------------------------------------------------
(* The workers' and hosts' own counters. *)
WorkerCounters == {"cpu", "captured", "encoded"}
CountersRise(samples) ==
  /\ \A h \in Hosts : Rises(Column(samples, LAMBDA s : s.hosts[h]))
  /\ \A p \in Peers, c \in WorkerCounters : Rises(Column(samples, LAMBDA s : s.workers[p][c]))
  /\ Rises(Column(samples, LAMBDA s : s.script))

SameWorkers(reports) ==
  \A i \in DOMAIN reports :
    reports[i].ids["first"] # reports[i].ids["second"] /\ reports[i].ids = reports[1].ids

ValidNative(r) ==
  LET times == Column(r.samples, LAMBDA s : s.at)  script == Column(r.samples, LAMBDA s : s.script) IN
  /\ Len(r.samples) \in Samples /\ Advances(times, 1) /\ Rise(times) \in Wall
  /\ \A i \in DOMAIN r.samples, p \in Peers : r.samples[i].workers[p].fps = RateOf(r.phase, p)
  /\ CountersRise(r.samples)
  /\ Rise(Column(r.samples, LAMBDA s : s.hosts["game"])) > 0 /\ Rise(script) > 0

(* Windows that are each in order must not hide a reset between them. *)
BugNoResetBetween(reports) == TRUE
NoResetBetween(reports) ==
  CountersRise(FlattenSeq([i \in DOMAIN reports |-> reports[i].samples]))

NativeWindows(reports) ==
  /\ Len(reports) = 3 /\ SameWorkers(reports)
  /\ \A i \in 1..3 : reports[i].phase = Phases[i] /\ ValidNative(reports[i])
  /\ \A i \in 1..2 : Last(reports[i].samples).at < Head(reports[i + 1].samples).at
  /\ NoResetBetween(reports)
NativeMet(r) ==
  \A p \in Peers, c \in {"captured", "encoded"} :
    OnRate(Rise(Column(r.samples, LAMBDA s : s.workers[p][c])),
           Rise(Column(r.samples, LAMBDA s : s.at)), RateOf(r.phase, p))

-----------------------------------------------------------------------------
(* What a browser saw.  A burst has at, shown (frames presented so far)    *)
(* and gap: one of its frames came late. *)
ValidTrace(t, times) ==
  /\ t.failure = Null /\ t.time \in times
  /\ Len(t.bursts) >= 2 /\ Rises(Column(t.bursts, LAMBDA b : b.shown))
  /\ Last(t.bursts).at > Head(t.bursts).at
Smooth(t) ==
  /\ Advances(Column(t.bursts, LAMBDA b : b.at), 1)
  /\ \A i \in DOMAIN t.bursts : ~t.bursts[i].gap
  /\ Head(t.bursts).at = t.from /\ Last(t.bursts).at = t.from + t.time

ValidWindow(w) ==
  /\ ValidTrace(w, WindowTimes)
  /\ Advances(Column(w.stats, LAMBDA s : s.at), 1)
  /\ Head(w.stats).at = w.from /\ Last(w.stats).at = w.from + w.time
  /\ \A c \in {"decoded", "dropped", "freezes"} : Rises(Column(w.stats, LAMBDA s : s[c]))
WindowMet(w, fps) ==
  /\ Smooth(w) /\ w.connected
  /\ OnRate(Rise(Column(w.bursts, LAMBDA b : b.shown)), w.time, fps)
  /\ OnRate(Rise(Column(w.stats, LAMBDA s : s.decoded)), w.time, fps)
  /\ \A c \in {"dropped", "freezes"} : Rise(Column(w.stats, LAMBDA s : s[c])) = 0
  /\ Cardinality({w.visuals[i].hash : i \in DOMAIN w.visuals}) >= 3
  /\ \A i \in DOMAIN w.visuals : ~w.visuals[i].blank

(* One peer's windows are one uninterrupted story, told in its trace. *)
Continuous(run, p) ==
  LET all(field) == FlattenSeq([i \in 1..3 |-> run.windows[i][p][field]])
      stats == all("stats")
      bursts == all("bursts") IN
  /\ \A c \in {"dropped", "freezes"} :
       Rises(Column(stats, LAMBDA s : s[c])) /\ Rise(Column(stats, LAMBDA s : s[c])) = 0
  /\ Rises(Column(stats, LAMBDA s : s.decoded))
  /\ Rises(Column(bursts, LAMBDA b : b.shown))
  /\ \A i \in 1..2 : Last(run.windows[i][p].bursts).shown < Head(run.windows[i + 1][p].bursts).shown
  /\ \A i \in DOMAIN bursts : \E j \in DOMAIN run.traces[p].bursts :
       /\ run.traces[p].bursts[j].shown = bursts[i].shown
       /\ run.traces[p].bursts[j].pts = bursts[i].pts

(* The CPU of the browser's processes, told only when they are the same    *)
(* before and after.  A snapshot counts each process once, and their total. *)
NativeCounters(s) ==
  /\ s.read \in 0..1 /\ DOMAIN s.cpu # {} /\ Cardinality(DOMAIN s.cpu) = s.count
  /\ \A id \in DOMAIN s.cpu : s.cpu[id] >= 0
  /\ s.total = FoldFunction(+, 0, s.cpu)
SameInventory(a, b) ==
  /\ NativeCounters(a) /\ NativeCounters(b)
  /\ DOMAIN a.cpu = DOMAIN b.cpu /\ \A id \in DOMAIN a.cpu : a.cpu[id] <= b.cpu[id]
BrowserCpu(before, after) ==
  IF /\ before.count = after.count /\ after.at - before.at \in CpuTimes
     /\ before.total <= after.total /\ SameInventory(before, after)
  THEN after.total - before.total ELSE Null

-----------------------------------------------------------------------------
(* Events. *)
IndexOf(events, kind) == SelectInSeq(events, LAMBDA e : e.kind = kind)
Event(events, kind) == events[IndexOf(events, kind)]
OnceEach(events, kinds) ==
  \A k \in kinds : Cardinality({i \in DOMAIN events : events[i].kind = k}) = 1
InOrder(events, kinds) ==
  /\ OnceEach(events, Range(kinds))
  /\ \A i \in 1..Len(kinds) - 1 : IndexOf(events, kinds[i]) < IndexOf(events, kinds[i + 1])
Stages(events, kind) ==
  LET rows == SelectSeq(events, LAMBDA e : e.kind = kind) IN Column(rows, LAMBDA e : e.stage)

HostStages == <<"loop_returned", "disconnect_joined", "socket_closed", "scene_close_start",
                "scene_closed", "scope_closed">>
Acquisition(run) ==
  LET ev == run.events
      exit == IndexOf(ev, "camera_exit") IN
  /\ run.passed
  /\ InOrder(ev, <<"ready", "bound", "complete", "camera_exit">>)
  /\ Stages(ev, "host_shutdown") = HostStages
  /\ \A i \in DOMAIN ev :
       ev[i].kind = "host_shutdown" => IndexOf(ev, "complete") < i /\ i < exit
  /\ Event(ev, "camera_exit").code = 0
  /\ Stages(ev, "relay_shutdown") = <<"close_start", "closed">>
  /\ IndexOf(ev, "relay_shutdown") > exit

Viewers(run) ==
  \A p \in Peers : LET v == run.viewers[p]  changed == run.mode # "disturbance" IN
    /\ v.failures = IF p = "first" /\ run.mode \in {"receiver-loss", "source-loss"} THEN 1 ELSE 0
    /\ v.bindings = IF ~changed THEN 1 ELSE IF p = "first" THEN 3 ELSE 2
    /\ v.epochs = IF p = "first" /\ changed THEN <<"first", "replacement">> ELSE <<p>>

Ledger(event, clean) == event.ledger = (IF clean THEN "clean" ELSE "dirty") /\ event.actions = 1
Completed == [outcome |-> "completed", reason |-> "duration_elapsed", restoration |-> "verified_by_port"]
Cancelled == [outcome |-> "aborted", reason |-> "cancelled", restoration |-> "verified_by_port"]

-----------------------------------------------------------------------------
(* The control disturbance. *)
ControlEvents ==
  <<<<"bound", Null>>, <<"started", "baseline">>, <<"native", "baseline">>, <<"dispatched", Null>>,
    <<"started", "during">>, <<"native", "during">>, <<"result", Null>>,
    <<"started", "restored">>, <<"native", "restored">>>>
ControlCase(run) ==
  LET kinds == {ControlEvents[i][1] : i \in DOMAIN ControlEvents}
      scoped == SelectSeq(run.events, LAMBDA e : e.kind \in kinds)
      result == Event(run.events, "result")
      met == /\ \A i \in 1..3 : NativeMet(run.native[i])
             /\ \A i \in 1..3, p \in Peers : WindowMet(run.windows[i][p], RateOf(Phases[i], p))
             /\ \A p \in Peers : Smooth(run.traces[p])
      valid ==
        /\ Acquisition(run)
        /\ Column(scoped, LAMBDA e : <<e.kind, e.phase>>) = ControlEvents
        /\ SelectLastInSeq(run.events, LAMBDA e : e.kind = "native") < IndexOf(run.events, "complete")
        /\ result.result = Completed /\ Ledger(result, TRUE)
        /\ Viewers(run)
        /\ NativeWindows(run.native)
        /\ \A i \in 1..3, p \in Peers : ValidWindow(run.windows[i][p])
        /\ \A p \in Peers : ValidTrace(run.traces[p], TraceTimes) /\ Continuous(run, p) IN
  IF ~valid THEN "unavailable" ELSE IF met THEN "met" ELSE "not_met"

-----------------------------------------------------------------------------
(* A failure, as its producer declares it. *)
Checkpoints == <<"active_target", "replacement_ready", "issuer_restarted">>
FailureOrder(mode) ==
  CASE mode = "cancel" -> <<"bound", "dispatched", "fault", "result", "reconnect", "verified", "complete">>
    [] mode = "reconnect" -> <<"bound", "dispatched", "reconnect", "fault", "result", "verified", "complete">>
    [] OTHER -> <<"bound", "dispatched", "fault", "result", "verified", "complete">>
BugResultFits(mode, body) ==
  body # Null /\ IF mode = "cancel" THEN body = Cancelled
                 ELSE body.outcome # "completed" /\ body.restoration = "unknown"
ResultFits(mode, body) ==
  IF body = Null THEN mode \in {"receiver-loss", "reconnect"}
  ELSE IF mode = "cancel" THEN body = Cancelled
  ELSE body.outcome # "completed" /\ body.restoration = "unknown"

FailureCase(run) ==
  LET ev == run.events
      clean == run.mode = "cancel"
      valid ==
        /\ Acquisition(run)
        /\ InOrder(ev, FailureOrder(run.mode))
        /\ run.mode = "source-loss" => InOrder(ev, <<"fault", "source_restored", "verified">>)
        /\ \A i \in DOMAIN ev :
             /\ ev[i].kind = "reconnect" => run.mode \in {"cancel", "reconnect"}
             /\ ev[i].kind = "source_restored" => run.mode = "source-loss"
        /\ \A k \in {"result", "verified"} : Ledger(Event(ev, k), clean)
        /\ ResultFits(run.mode, Event(ev, "result").result)
        /\ Event(ev, "verified").exit = IF clean THEN 0 ELSE -9
        /\ Viewers(run)
        /\ ValidWindow(run.sibling) IN
  IF ~valid THEN "unavailable" ELSE IF WindowMet(run.sibling, 30) THEN "met" ELSE "not_met"

-----------------------------------------------------------------------------
(* A failure, as three checkpoints of its processes and journal show it. *)
Sources == {"camera", "game", "display"}
PeersAt(i) == IF i = 1 THEN Peers ELSE {"replacement", "second"}
ValidPeer(p, fps, at) == p.fps = fps /\ p.connected /\ p.sequence > 0 /\ at - p.received \in 0..3

(* The journal holds one request, made of a healthy worker of the usual    *)
(* rate, and the time reserved for it. *)
Reserved == 8                                \* 4 seconds
Preimage(generation) == [generation |-> generation, healthy |-> TRUE, configured |-> 30, negotiated |-> 30]
JournalFits(j, mode, request, process, i, result) ==
  /\ j.reserved = Reserved /\ j.cooldown >= 0 /\ j.prior = Preimage(request.generation)
  /\ j.state = IF i = 1 THEN "active" ELSE IF mode = "cancel" THEN "clean" ELSE "dirty"
  /\ j.actions = 1 /\ j.request = request /\ j.process = process
  /\ j.active = IF j.state = "clean" THEN Null ELSE request.id
  /\ CASE j.state = "active" -> j.result = Null /\ j.failure = Null
       [] j.state = "clean" -> j.result = result /\ j.failure = Null
       [] OTHER -> /\ j.result = Null
                   /\ j.failure # Null => j.failure.restoration = "unknown"
                   /\ result # Null => j.failure = result

SamePeer(a, b) ==
  /\ a.generation = b.generation /\ a.id = b.id
  /\ a.cpu <= b.cpu /\ a.sequence < b.sequence /\ a.received < b.received
  /\ \A c \in {"captured", "encoded"} : a[c] < b[c]

SameSources(a, b) ==
  /\ \A s \in Sources : a[s].id = b[s].id /\ a[s].cpu <= b[s].cpu
  /\ a["game"].cpu < b["game"].cpu

Refusals(mode, i) ==
  [draft |-> "rejected", receiver |-> "rejected",
   issuer |-> IF i = 3 THEN "rejected" ELSE Null,
   fresh |-> IF i < 3 THEN Null ELSE IF mode = "cancel" THEN "draft_only" ELSE "rejected"]

ValidCheckpoint(c, i, run, process) ==
  LET request == Event(run.events, "dispatched").request
      ids == {c.sources[s].id : s \in Sources} \cup {c.peers[p].id : p \in DOMAIN c.peers} IN
  /\ c.capture = Event(run.events, "bound").binding
  /\ c.issuer = IF i = 3 THEN 2 ELSE 1
  /\ DOMAIN c.peers = PeersAt(i)
  /\ \A p \in DOMAIN c.peers : ValidPeer(c.peers[p], IF p = "first" THEN 24 ELSE 30, c.at)
  /\ Cardinality(ids) = 5
  /\ JournalFits(c.journal, run.mode, request, process, i, Event(run.events, "result").result)
  /\ IF i = 1 THEN /\ c.old = Null /\ c.admissions = Null
                   /\ c.peers["first"].generation = request.generation
     ELSE /\ c.old # Null
          /\ c.old.id = process /\ c.old.code = IF run.mode = "cancel" THEN 0 ELSE -9
          /\ c.admissions = Refusals(run.mode, i)

BugJournalKept(b, c) == b.journal.state = c.journal.state
JournalKept(b, c) == b.journal = c.journal

Replaced(first, replacement) ==
  first.id # replacement.id /\ first.generation # replacement.generation
LifetimeCase(run) ==
  LET rows == SelectSeq(run.events, LAMBDA e : e.kind = "checkpoint") IN
  /\ FailureCase(run) = "met"
  /\ Column(rows, LAMBDA c : c.phase) = Checkpoints
  /\ LET place(i) == SelectInSeq(run.events, LAMBDA e : e = rows[i])
         of(kind) == IndexOf(run.events, kind) IN
     /\ of("dispatched") < place(1) /\ place(1) < of("fault") /\ of("fault") < place(2)
     /\ place(2) < place(3) /\ place(3) < of("verified")
     /\ run.mode = "source-loss" => of("source_restored") < place(2)
  /\ "first" \in DOMAIN rows[1].peers
  /\ \A i \in 1..3 : ValidCheckpoint(rows[i], i, run, rows[1].peers["first"].id)
  /\ \A i \in 1..2 : /\ SameSources(rows[i].sources, rows[i + 1].sources)
                     /\ SamePeer(rows[i].peers["second"], rows[i + 1].peers["second"])
  /\ rows[3].at - rows[2].at >= SettleWait
  /\ Replaced(rows[1].peers["first"], rows[2].peers["replacement"])
  /\ SamePeer(rows[2].peers["replacement"], rows[3].peers["replacement"])
  /\ JournalKept(rows[2], rows[3])

-----------------------------------------------------------------------------
(* The cohort: a prefix of the modes, of one image and browser. *)
OneContext(run, reference) == run.context = reference
StateOf(run, reference) ==
  IF ~OneContext(run, reference) THEN "unavailable"
  ELSE IF run.mode = "disturbance" THEN ControlCase(run) ELSE FailureCase(run)
Screen(rows) ==
  LET states == {rows[i].state : i \in DOMAIN rows} IN
  IF Len(rows) < Len(Modes) \/ "unavailable" \in states THEN "unavailable"
  ELSE IF states = {"met"} THEN "met" ELSE "not_met"
Declared(run) ==
  LET results == SelectSeq(run.events, LAMBDA e : e.kind = "result") IN
  CASE Len(results) > 1 -> "ambiguous"
    [] results = <<>> -> "missing"
    [] OTHER -> IF results[1].result = Null THEN "no_result" ELSE "declared"
=============================================================================
