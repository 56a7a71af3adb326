---------------------------- MODULE TraceRecord ----------------------------
(***************************************************************************)
(* What a stage trace may say, what is reconstructed from it, and what its *)
(* summary may say (observability/trace.py, reconstruct.py, summary.py and *)
(* browser_v2.py).  A record is of one producer; its streams are lifetimes *)
(* of a pipeline or a video element, each with a clock of its own.         *)
(*                                                                         *)
(* Definitions whose name starts with Bug are what a slip would make of    *)
(* the one after them.                                                     *)
(***************************************************************************)
EXTENDS Integers, Sequences, FiniteSets, SequencesExt, FiniteSetsExt, Functions, SequenceParts

CONSTANTS Null, MaxFrames, MaxEvents, MaxStreams

ASSUME LimitsAssumption == {MaxFrames, MaxEvents, MaxStreams} \subseteq Nat \ {0}

Formats == {"engine", "browser", "browser_v2"}
EngineEvents ==
  {"capture_output", "pre_encode_queue_enter", "pre_encode_queue_exit", "encode_input", "encode_output"}
BrowserEvents(format) ==
  {"presentation_proxy", "presentation_callback"}
    \cup (IF format = "browser_v2" THEN {"presentation_callback_execution"} ELSE {})
Allowed(format) == IF format = "engine" THEN EngineEvents ELSE BrowserEvents(format)
CapabilityOf(b) == IF b = "presentation_callback" THEN "presentation_proxy" ELSE b
(* The boundaries a stream declares: wire_send stands for the six nobody   *)
(* instruments.                                                            *)
Boundaries(format) ==
  EngineEvents \cup {"wire_send", "presentation_proxy"}
    \cup (IF format = "browser_v2" THEN {"presentation_callback_execution"} ELSE {})
Pairs(format) ==
  << <<"pre_encode_queue_enter", "pre_encode_queue_exit">>, <<"encode_input", "encode_output">>,
     <<"capture_output", "encode_output">>, <<"presentation_proxy", "presentation_callback">> >>
    \o (IF format = "browser_v2"
        THEN << <<"presentation_proxy", "presentation_callback_execution">> >> ELSE <<>>)
Origin(format) == IF format = "engine" THEN "capture_output" ELSE "presentation_proxy"

Supported(s) == {b \in DOMAIN s.capabilities : s.capabilities[b] = "supported"}
StrictlyIncreasing(seq) == \A i \in 1..Len(seq) - 1 : seq[i] < seq[i + 1]
Ids(seq) == [i \in DOMAIN seq |-> seq[i].frame]

-----------------------------------------------------------------------------
(* The ledger of a stream: Loss, StreamScope and TraceStream. *)
CountsConserved(s) ==
  /\ s.offered = s.sampled + s.unsampled + s.frameDropped
  /\ s.attempted = s.retained + s.lost

BugEligibleCounted(s) == s.sampled + s.frameDropped = s.offered \div s.every
EligibleCounted(s) == s.sampled + s.frameDropped = (s.offered + s.every - 1) \div s.every

ScopeDeclared(format, s) ==
  /\ DOMAIN s.capabilities = Boundaries(format)
  /\ CountsConserved(s) /\ EligibleCounted(s)

WithinCapacity(s) ==
  /\ Len(s.frames) <= s.limits.frames /\ Len(s.events) <= s.limits.events
  /\ s.sampled = Len(s.frames) /\ s.retained = Len(s.events)

(* The earliest eligible frames are kept: capacity never makes the ledger roll. *)
BugPrefixSampled(s) ==
  /\ StrictlyIncreasing(Ids(s.frames))
  /\ \A i \in DOMAIN s.frames : s.frames[i].frame <= s.offered
PrefixSampled(s) ==
  \A i \in DOMAIN s.frames :
    s.frames[i].frame = 1 + (i - 1) * s.every /\ s.frames[i].frame <= s.offered

EventAdmitted(s, e) ==
  /\ e.sequence <= s.attempted
  /\ \E f \in Range(s.frames) :
       f.frame = e.frame /\ (f.correlation = "exact" \/ e.boundary = "capture_output")
  /\ CapabilityOf(e.boundary) \in Supported(s)
EventsAdmitted(s) ==
  /\ StrictlyIncreasing([i \in DOMAIN s.events |-> s.events[i].sequence])
  /\ \A i \in DOMAIN s.events :
       /\ EventAdmitted(s, s.events[i])
       /\ \A j \in 1..i - 1 : <<s.events[i].frame, s.events[i].boundary>>
                                # <<s.events[j].frame, s.events[j].boundary>>

DisabledIsEmpty(s) ==
  s.stop = "disabled" =>
    /\ Range(s.capabilities) = {"disabled"}
    /\ {s.offered, s.sampled, s.unsampled, s.frameDropped, s.attempted, s.retained, s.lost,
        s.missed} = {0}

ValidStream(format, s) ==
  /\ ScopeDeclared(format, s)
  /\ WithinCapacity(s) /\ PrefixSampled(s) /\ EventsAdmitted(s) /\ DisabledIsEmpty(s)

(* Across streams: check_scopes, check_support and StageTraceRecord.scopes. *)
ScopesDistinct(streams) ==
  /\ StrictlyIncreasing([i \in DOMAIN streams |-> streams[i].stream])
  /\ IsInjective([i \in DOMAIN streams |-> streams[i].epoch])
  /\ IsInjective([i \in DOMAIN streams |-> streams[i].clock])

SupportMatches(format, s) ==
  /\ s.source = IF format = "engine" THEN "python_monotonic_ns" ELSE "browser_performance"
  /\ \A b \in DOMAIN s.capabilities \ Allowed(format) :
       s.capabilities[b] \in {"unsupported_source", "disabled"}
  /\ format = "engine" => s.missed = 0

FramesIn(streams) == SumOf([i \in DOMAIN streams |-> Len(streams[i].frames)])
EventsIn(streams) == SumOf([i \in DOMAIN streams |-> Len(streams[i].events)])

ValidRecord(r) ==
  /\ Len(r.streams) \in 1..MaxStreams
  /\ ScopesDistinct(r.streams)
  /\ FramesIn(r.streams) <= MaxFrames /\ EventsIn(r.streams) <= MaxEvents
  /\ \A i \in DOMAIN r.streams : LET s == r.streams[i] IN
       /\ ValidStream(r.format, s) /\ SupportMatches(r.format, s)
       /\ s.frames # <<>> => Origin(r.format) \in Supported(s)
       /\ \A j \in DOMAIN s.events : s.events[j].boundary \in Allowed(r.format)
       /\ r.format # "engine" =>
            s.budget = Null /\ \A j \in DOMAIN s.frames : s.frames[j].correlation = "exact"

-----------------------------------------------------------------------------
(* reconstruct_trace: durations within one lifetime, one frame, one clock. *)
BugEndpoints(r, k) ==
  UNION {{<<e.frame, e.boundary, e.at>> : e \in Range(r.streams[j].events)} : j \in 1..k}
Endpoints(r, k) == {<<e.frame, e.boundary, e.at>> : e \in Range(r.streams[k].events)}

TimesOf(ends, f, b) == {t[3] : t \in {e \in ends : e[1] = f /\ e[2] = b}}
OwnMethod(format, m) == (m <= 3) = (format = "engine")
Unavailable(format, s, m) ==
  IF ~OwnMethod(format, m) THEN "unsupported_source"
  ELSE IF {CapabilityOf(b) : b \in Range(Pairs(format)[m])} \subseteq Supported(s) THEN Null
  ELSE "capability_unavailable"

Exclusions == {"unsupported", "missing", "ambiguous", "missing_endpoint", "negative_duration"}
(* Why a frame has no duration, or Null. *)
Excluded(format, s, ends, m, f) ==
  LET start == TimesOf(ends, f.frame, Pairs(format)[m][1])
      end == TimesOf(ends, f.frame, Pairs(format)[m][2]) IN
  IF Unavailable(format, s, m) # Null THEN "unsupported"
  ELSE IF f.correlation # "exact" THEN f.correlation
  ELSE IF {} \in {start, end} THEN "missing_endpoint"
  ELSE IF \E a \in start, b \in end : b < a THEN "negative_duration" ELSE Null

Timing(format, s, ends, m) ==
  LET why == [i \in DOMAIN s.frames |-> Excluded(format, s, ends, m, s.frames[i])]
      Of(f, k) == CHOOSE t \in TimesOf(ends, f.frame, Pairs(format)[m][k]) : TRUE
      used == Kept(s.frames, {i \in DOMAIN why : why[i] = Null})
      samples == [i \in DOMAIN used |->
                    [frame |-> used[i].frame, delta |-> Of(used[i], 2) - Of(used[i], 1)]]
      deltas == [i \in DOMAIN samples |-> samples[i].delta]
      blocked == Unavailable(format, s, m) IN
  [state |-> IF used # <<>> THEN "measured" ELSE "unavailable",
   reason |-> IF used # <<>> THEN Null
              ELSE IF blocked # Null THEN blocked
              ELSE IF s.frames = <<>> THEN "no_frames" ELSE "no_usable_pairs",
   eligible |-> Len(s.frames), usable |-> Len(used), excluded |-> Len(s.frames) - Len(used),
   exclusions |-> [x \in Exclusions |-> Cardinality({i \in DOMAIN why : why[i] = x})],
   samples |-> samples,
   min |-> IF used = <<>> THEN Null ELSE Min(Range(deltas)),
   max |-> IF used = <<>> THEN Null ELSE Max(Range(deltas)),
   mean |-> IF used = <<>> THEN Null ELSE <<SumOf(deltas), Len(deltas)>>]

Hit(delta, budget) == delta <= budget

DeadlineOf(s, age) ==
  LET samples == IF s.budget = Null THEN <<>>
                 ELSE [i \in DOMAIN age.samples |->
                   [frame |-> age.samples[i].frame, slack |-> s.budget - age.samples[i].delta,
                    hit |-> Hit(age.samples[i].delta, s.budget)]] IN
  [state |-> IF samples # <<>> THEN "measured" ELSE "unavailable",
   reason |-> IF samples # <<>> THEN Null
              ELSE IF s.budget = Null THEN "budget_not_declared" ELSE "no_usable_pairs",
   budget |-> s.budget, samples |-> samples, usable |-> Len(samples),
   hits |-> Cardinality({i \in DOMAIN samples : samples[i].hit})]

ScopeFields ==
  {"stream", "epoch", "clock", "source", "capabilities", "every", "offered", "sampled", "unsampled",
   "frameDropped", "attempted", "retained", "lost", "missed"}

Reconstruct(r) ==
  [format |-> r.format,
   streams |-> [k \in DOMAIN r.streams |->
     LET s == r.streams[k]
         results == [m \in DOMAIN Pairs(r.format) |-> Timing(r.format, s, Endpoints(r, k), m)] IN
     [x \in ScopeFields \cup {"results", "deadline"} |->
        CASE x = "results" -> results
          [] x = "deadline" -> DeadlineOf(s, results[3])
          [] OTHER -> s[x]]]]

-----------------------------------------------------------------------------
(* The summary's own validators, which raise what the reconstruction must  *)
(* never run into.                                                         *)
ValidTiming(t) ==
  /\ StrictlyIncreasing(Ids(t.samples))
  /\ t.usable = Len(t.samples) /\ t.eligible = t.usable + t.excluded
  /\ LET x == t.exclusions IN
     x["unsupported"] + x["missing"] + x["ambiguous"] + x["missing_endpoint"] + x["negative_duration"] = t.excluded
  /\ \A i \in DOMAIN t.samples : t.samples[i].delta >= 0
  /\ LET deltas == [i \in DOMAIN t.samples |-> t.samples[i].delta] IN
     IF t.samples = <<>>
     THEN t.state = "unavailable" /\ t.reason # Null /\ {t.min, t.mean, t.max} = {Null}
     ELSE /\ t.state = "measured" /\ t.reason = Null
          /\ t.min = Min(Range(deltas)) /\ t.max = Max(Range(deltas))
          /\ t.mean = <<SumOf(deltas), t.usable>>

ValidDeadline(d) ==
  /\ StrictlyIncreasing(Ids(d.samples))
  /\ d.usable = Len(d.samples) /\ d.hits = Cardinality({i \in DOMAIN d.samples : d.samples[i].hit})
  /\ IF d.samples # <<>> THEN d.budget # Null /\ d.state = "measured" /\ d.reason = Null
     ELSE /\ d.state = "unavailable"
          /\ d.reason = IF d.budget = Null THEN "budget_not_declared" ELSE "no_usable_pairs"

(* The budget's samples are the usable ages, with the budget's arithmetic. *)
DeadlineFollowsAge(d, age) ==
  d.budget # Null =>
    /\ Ids(d.samples) = Ids(age.samples)
    /\ \A i \in DOMAIN d.samples :
         /\ d.samples[i].slack = d.budget - age.samples[i].delta
         /\ d.samples[i].hit = (age.samples[i].delta <= d.budget)

ValidSummaryStream(format, s) ==
  /\ ScopeDeclared(format, s)
  /\ Len(s.results) = Len(Pairs(format))
  /\ \A m \in DOMAIN s.results :
       /\ ValidTiming(s.results[m])
       /\ s.results[m].eligible = s.sampled
       /\ \A x \in Range(s.results[m].samples) :
            (x.frame - 1) % s.every = 0 /\ (x.frame - 1) \div s.every < s.sampled
  /\ ValidDeadline(s.deadline) /\ DeadlineFollowsAge(s.deadline, s.results[3])

(* Coverage and reasons of one method, given what the stream supports. *)
MethodExplained(format, s, m) ==
  LET t == s.results[m]  blocked == Unavailable(format, s, m) IN
  IF blocked # Null
  THEN t.reason = blocked /\ t.usable = 0 /\ t.exclusions["unsupported"] = t.eligible
  ELSE /\ t.exclusions["unsupported"] = 0
       /\ t.reason = IF t.usable > 0 THEN Null
                     ELSE IF t.eligible = 0 THEN "no_frames" ELSE "no_usable_pairs"
       /\ format # "engine" => t.exclusions["missing"] = 0 /\ t.exclusions["ambiguous"] = 0

ValidSummary(y) ==
  /\ Len(y.streams) \in 1..MaxStreams
  /\ ScopesDistinct(y.streams)
  /\ SumOf([k \in DOMAIN y.streams |-> y.streams[k].sampled]) <= MaxFrames
  /\ SumOf([k \in DOMAIN y.streams |-> y.streams[k].retained]) <= MaxEvents
  /\ \A k \in DOMAIN y.streams : LET s == y.streams[k] IN
       /\ ValidSummaryStream(y.format, s) /\ SupportMatches(y.format, s)
       /\ y.format # "engine" => s.deadline.budget = Null
       /\ \A m \in DOMAIN s.results : MethodExplained(y.format, s, m)
       /\ y.format = "engine" =>
            Cardinality({<<s.results[m].exclusions["missing"], s.results[m].exclusions["ambiguous"]>> :
                          m \in {m \in 1..3 : Unavailable("engine", s, m) = Null}}) <= 1
=============================================================================
