------------------------ MODULE MCFingerprintRepository ------------------------
(* Five features of three sources and one audited total; two causes, each  *)
(* with fingerprints that are checked, unchecked or of another context;    *)
(* captures of either, at the bounds of strength, conflict and duration,   *)
(* and captures of which one thing is wrong. *)
EXTENDS FingerprintRepository

Gauge(source) == [source |-> source, counter |-> FALSE, raw |-> "own", audited |-> FALSE]
MCMetrics ==
  [lag |-> Gauge("browser"), jitter |-> Gauge("browser"), encode |-> Gauge("encoder"), capture |-> Gauge("host"),
   fps |-> [Gauge("browser") EXCEPT !.counter = TRUE, !.raw = "frames"],
   total |-> [Gauge("browser") EXCEPT !.counter = TRUE, !.raw = "frames", !.audited = TRUE]]
MCPolicy ==
  [registry |-> 1, epsilon |-> 1, coverage |-> 100, samples |-> 2, intervals |-> 1, shared |-> 4, share |-> 75,
   strength |-> 80, margin |-> 10, residual |-> 10, conflict |-> 50, ranked |-> 2]

Measure(v) == [status |-> "complete", value |-> v, samples |-> 3, usable |-> 3, intervals |-> 2, coverage |-> 100]
Window(phase, values, length) ==
  [id |-> phase, phase |-> phase, case |-> 1, context |-> [name |-> "x", node |-> 1, network |-> Null, group |-> 1],
   registry |-> 1, method |-> "pixelated_bundle_offline", provenance |-> "controlled_real", clock |-> "elapsed",
   from |-> 0, to |-> length, settings |-> [rate |-> IF phase = "relief" THEN 30 ELSE 60, size |-> 1],
   sources |-> [s \in {"browser", "encoder", "host"} |-> [declared |-> Null, rows |-> 3, available |-> 3]],
   declared |-> [m \in DOMAIN MCMetrics |-> Null],
   measures |-> [m \in DOMAIN MCMetrics |-> Measure(IF m = "total" THEN 7 ELSE values[m])],
   confounders |-> {}, reasons |-> {}]
Flat == [m \in {"lag", "jitter", "encode", "capture", "fps"} |-> 20]
Pair(values) ==
  [degraded |-> Window("degraded", Flat, 10), relief |-> Window("relief", values, 10),
   probe |-> [requested |-> [rate |-> 30], observed |-> [rate |-> 30], method |-> "paired_run", execution |-> "executed",
              restoration |-> "restored", pairs |-> <<"degraded", "relief">>, confounders |-> {}]]
A == Pair([Flat EXCEPT !.lag = 10])
B == Pair([Flat EXCEPT !.encode = 10])
Elsewhere(p) == [p EXCEPT !.degraded.context.group = 2, !.relief.context.group = 2]
Renamed(p) == [p EXCEPT !.degraded.context.name = "y", !.relief.context.name = "y"]

Contents == <<<<B, "encoder", "software_checked">>, <<A, "network", "software_checked">>, <<A, "network", "unreviewed">>,
              <<Elsewhere(A), "network", "software_checked">>, <<Elsewhere(B), "encoder", "software_checked">>>>
MCDigest == [c \in {Contents[i] : i \in 1..5} |-> CHOOSE i \in 1..5 : Contents[i] = c]
Made(i) == Fingerprint(Response(Contents[i][1]), Contents[i][2], Contents[i][3])
MCGenuine == {Made(i) : i \in 1..5}
MCDirectories == {[n \in {"a", "b", "s/c"} |-> IF n = "a" THEN Made(1) ELSE IF n = "b" THEN Made(2) ELSE Made(4)],
                  [n \in {"b", "s/d"} |-> IF n = "b" THEN Made(2) ELSE Made(3)], [n \in {"s/c"} |-> Made(5)]}

Case(cause, wrong, pair) == [cause |-> cause, wrong |-> wrong, pair |-> pair]
Shifted == [m \in DOMAIN Flat |-> IF m = "lag" THEN 15 ELSE 25]
MCCaptures == {
  Case("network", Null, Renamed(A)), Case("encoder", Null, Elsewhere(B)), Case("network", Null, Pair(Shifted)),
  Case("network", Null, Pair([Flat EXCEPT !.lag = 10, !.fps = 31])), Case("network", Null, [A EXCEPT !.relief.to = 9]),
  Case("network", "too_long", [A EXCEPT !.relief.to = 8]),
  Case("network", "undeclared", [A EXCEPT !.relief.settings.size = 2]),
  Case("network", "confounded", [A EXCEPT !.relief.confounders = {"other_setting_change"}]),
  Case("network", "not_applied", [A EXCEPT !.relief.settings.rate = 60]),
  Case("network", "unsupported", [A EXCEPT !.degraded.sources.host = [declared |-> "unsupported", rows |-> 3, available |-> 0]]),
  Case("network", "incomplete", [A EXCEPT !.relief.measures.jitter.status = "partial", !.relief.measures.lag.coverage = 90])}
=============================================================================
