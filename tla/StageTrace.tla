----------------------------- MODULE StageTrace -----------------------------
(***************************************************************************)
(* A recording and its adoption.  The recorder, which is outside the       *)
(* repository, follows one lifetime of a pipeline or video element after   *)
(* another: frames are offered and admitted, their boundaries pass in any  *)
(* order, what the recorder has no room or no lock for is counted, and it  *)
(* may slip once.  The record is then validated and reconstructed here.    *)
(***************************************************************************)
EXTENDS TraceRecord

CONSTANTS
  Settings,      \* of the recording processes, by format: what is instrumented (nothing: it is
                 \* disabled), the sampling rate and the deadline
  MaxOffered,    \* bound on the frames offered to a recording
  MaxAttempted,  \* bound on the events attempted in a recording
  MaxClock       \* bound on the clock of a lifetime

ASSUME SettingsAssumption ==
  \A f \in Formats : \A x \in Settings[f] :
    /\ x.build = {} \/ (x.build \subseteq Allowed(f) \cap Boundaries(f) /\ Origin(f) \in x.build)
    /\ x.every \in Nat \ {0}
    /\ x.budget # Null => x.budget \in Nat \ {0} /\ f = "engine" /\ x.build # {}
ASSUME BoundsAssumption == {MaxOffered, MaxAttempted, MaxClock} \subseteq Nat

Kinds == {"rolled", "uncounted", "unoffered", "twice", "renumbered", "stray", "alias"}   \* of slips
Stream(f) ==
  [stream : Nat, epoch : Nat, clock : Nat, source : {"python_monotonic_ns", "browser_performance"},
   capabilities : [Boundaries(f) -> {"disabled", "supported", "not_instrumented", "unsupported_source"}],
   every : Nat \ {0}, limits : [frames : {MaxFrames}, events : {MaxEvents}], budget : Nat \cup {Null},
   frames : Seq([frame : Nat \ {0}, correlation : {"exact", "missing", "ambiguous"}]),
   events : Seq([sequence : Nat, frame : Nat \ {0}, boundary : Allowed(f), at : Nat]),
   offered : Nat, sampled : Nat, unsampled : Nat, frameDropped : Nat,
   attempted : Nat, retained : Nat, lost : Nat, missed : Nat, stop : {Null, "completed", "disabled"}]
ASSUME NullAssumption ==
  /\ Null \notin Kinds \cup Exclusions \cup {"completed", "disabled"}
  /\ Null \notin {"unsupported_source", "capability_unavailable", "no_frames", "no_usable_pairs", "budget_not_declared"}
  /\ \A f \in Formats : Null \notin Stream(f)

VARIABLES
  format,
  settings,
  open,      \* the stream being recorded, or Null
  streams,   \* those that ended
  now,       \* the clock of the lifetime
  truth,     \* per lifetime, what was offered and attempted and when each endpoint first passed
  slip,      \* what the recorder did wrong, or Null
  verdict    \* Null, or what the reader made of the record

recorder == <<open, streams, now, truth, slip>>
vars == <<format, settings, recorder, verdict>>

Init ==
  /\ format \in Formats
  /\ settings \in Settings[format]
  /\ open = Null /\ streams = <<>> /\ now = 0 /\ truth = <<>> /\ slip = Null
  /\ verdict = Null

All == IF open = Null THEN streams ELSE Append(streams, open)
FramesLeft == MaxFrames - FramesIn(All)
EventsLeft == MaxEvents - EventsIn(All)
Life == Len(truth)

Recording == verdict = Null /\ UNCHANGED <<format, settings, verdict>>
InLifetime == Recording /\ slip = Null /\ open # Null /\ open.stop = Null /\ UNCHANGED streams
Slips(name) == slip' = name

-----------------------------------------------------------------------------
(* Lifetimes. *)
Declares ==
  [b \in Boundaries(format) |-> IF settings.build = {} THEN "disabled"
                                ELSE IF b \in settings.build THEN "supported"
                                ELSE IF b \in Allowed(format) THEN "not_instrumented"
                                ELSE "unsupported_source"]
Lifetime(n) ==
  [stream |-> n, epoch |-> n, clock |-> n,
   source |-> IF format = "engine" THEN "python_monotonic_ns" ELSE "browser_performance",
   capabilities |-> Declares, every |-> settings.every, limits |-> [frames |-> MaxFrames, events |-> MaxEvents],
   budget |-> settings.budget, frames |-> <<>>, events |-> <<>>, offered |-> 0, sampled |-> 0, unsampled |-> 0,
   frameDropped |-> 0, attempted |-> 0, retained |-> 0, lost |-> 0, missed |-> 0,
   stop |-> IF settings.build = {} THEN "disabled" ELSE Null]

Open(s) ==
  /\ Recording /\ slip = Null
  /\ open = Null /\ Len(streams) < MaxStreams
  /\ open' = s
  /\ now' = 0
  /\ truth' = Append(truth, [offered |-> 0, attempted |-> 0, times |-> {}])
  /\ UNCHANGED streams

Begin ==
  /\ Open(Lifetime(Len(streams) + 1))
  /\ UNCHANGED slip

End ==
  /\ Recording
  /\ open # Null
  /\ streams' = Append(streams, IF open.stop = Null THEN [open EXCEPT !.stop = "completed"] ELSE open)
  /\ open' = Null /\ now' = 0
  /\ UNCHANGED <<truth, slip>>

-----------------------------------------------------------------------------
(* Frames and events. *)
Eligible == open.offered % open.every = 0
OfferedNow ==
  /\ InLifetime
  /\ SumOf([l \in DOMAIN truth |-> truth[l].offered]) < MaxOffered
  /\ truth' = [truth EXCEPT ![Life].offered = @ + 1]
  /\ UNCHANGED now

Offer(correlation, gap) ==
  /\ OfferedNow
  /\ correlation # "exact" => format = "engine" /\ Eligible /\ FramesLeft > 0
  /\ gap = 1 => format # "engine" /\ open.offered = 1
  /\ LET n == open.offered + 1  s == [open EXCEPT !.offered = n, !.missed = @ + gap] IN
     open' = IF ~Eligible THEN [s EXCEPT !.unsampled = @ + 1]
             ELSE IF FramesLeft = 0 THEN [s EXCEPT !.frameDropped = @ + 1]
             ELSE [s EXCEPT !.sampled = @ + 1,
                            !.frames = Append(@, [frame |-> n, correlation |-> correlation])]
  /\ UNCHANGED slip

Passed(f, b) == \E t \in truth[Life].times : t[1] = f /\ t[2] = b
AttemptedNow(f, b, t) ==
  /\ InLifetime
  /\ SumOf([l \in DOMAIN truth |-> truth[l].attempted]) < MaxAttempted
  /\ CapabilityOf(b) \in Supported(open)
  /\ truth' = [truth EXCEPT ![Life].attempted = @ + 1,
                            ![Life].times = IF Passed(f, b) THEN @ ELSE @ \cup {<<f, b, t>>}]
  /\ now' = t

Numbered(q, f, b, t) ==
  [open EXCEPT !.attempted = @ + 1, !.retained = @ + 1,
               !.events = Append(@, [sequence |-> q, frame |-> f, boundary |-> b, at |-> t])]
Retain(f, b, t) == Numbered(open.attempted + 1, f, b, t)
Lose == [open EXCEPT !.attempted = @ + 1, !.lost = @ + 1]

(* Only the events that are kept read the clock.  A boundary passes once for a frame whose buffers are recognised.  The   *)
(* event is lost at capacity, and may be for want of a lock or a timestamp.*)
Attempt(i, b) ==
  LET f == open.frames[i] IN
  /\ f.correlation = "exact" \/ b = "capture_output"
  /\ ~Passed(f.frame, b)
  /\ \/ AttemptedNow(f.frame, b, now) /\ open' = Lose
     \/ EventsLeft > 0 /\ \E t \in now..MaxClock : AttemptedNow(f.frame, b, t) /\ open' = Retain(f.frame, b, t)
  /\ UNCHANGED slip

(* A duplicate timestamp makes a frame ambiguous: what it has downstream   *)
(* is taken out and counted as lost. *)
Downstream(f) == {i \in DOMAIN open.events : open.events[i].frame = f
                                               /\ open.events[i].boundary # "capture_output"}
Ambiguous(i) ==
  /\ InLifetime
  /\ format = "engine" /\ open.frames[i].correlation = "exact"
  /\ LET f == open.frames[i].frame  k == Cardinality(Downstream(f)) IN
     open' = [open EXCEPT !.frames[i].correlation = "ambiguous",
                          !.events = Kept(@, DOMAIN @ \ Downstream(f)),
                          !.retained = @ - k, !.lost = @ + k]
  /\ UNCHANGED <<now, truth, slip>>

-----------------------------------------------------------------------------
(* One slip of the recorder. *)
SlipFrame ==
  /\ OfferedNow /\ Eligible
  /\ LET n == open.offered + 1  f == [frame |-> n, correlation |-> "exact"] IN
     \/ Slips("rolled") /\ FramesLeft = 0 /\ open.frames # <<>>
        /\ open' = [open EXCEPT !.offered = n, !.frameDropped = @ + 1, !.frames = Append(Tail(@), f)]
     \/ Slips("uncounted") /\ FramesLeft = 0 /\ open' = [open EXCEPT !.offered = n]
     \/ Slips("unoffered") /\ FramesLeft > 0
        /\ open' = [open EXCEPT !.sampled = @ + 1, !.frames = Append(@, f)]

SlipEvent(f, b) ==
  /\ AttemptedNow(f, b, now)
  /\ \/ Slips("uncounted") /\ open' = [open EXCEPT !.attempted = @ + 1]
     \/ EventsLeft > 0
        /\ \/ Slips("twice") /\ open' = Retain(f, b, now)
              /\ \E e \in Range(open.events) : e.frame = f /\ e.boundary = b
           \/ Slips("renumbered") /\ open.attempted > 0 /\ ~Passed(f, b)
              /\ open' = Numbered(open.attempted, f, b, now)
           \/ /\ Slips("stray") /\ ~Passed(f, b)
              /\ \A x \in Range(open.frames) :
                   x.frame = f => x.correlation # "exact" /\ b # "capture_output"
              /\ open' = Retain(f, b, now)

SlipLifetime ==
  /\ streams # <<>>
  /\ LET s == Lifetime(Len(streams) + 1) IN
     Open([s EXCEPT !.epoch = @ - 1]) \/ Open([s EXCEPT !.clock = @ - 1])
  /\ Slips("alias")

-----------------------------------------------------------------------------
(* The recording is published, and read. *)
Record == [format |-> format, streams |-> streams]
Adopt ==
  /\ verdict = Null /\ open = Null /\ streams # <<>>
  /\ verdict' = LET ok == ValidRecord(Record) IN
                [accepted |-> ok, summary |-> IF ok THEN Reconstruct(Record) ELSE Null]
  /\ UNCHANGED <<format, settings, recorder>>

Next ==
  \/ Begin \/ SlipLifetime \/ End
  \/ \E c \in {"exact", "missing"}, gap \in 0..1 : Offer(c, gap)
  \/ open # Null /\ \E i \in DOMAIN open.frames : Ambiguous(i) \/ \E b \in Allowed(format) : Attempt(i, b)
  \/ open # Null /\ (SlipFrame \/ \E f \in 1..open.offered, b \in Allowed(format) : SlipEvent(f, b))
  \/ Adopt

Spec == Init /\ [][Next]_vars
-----------------------------------------------------------------------------
Accepted == verdict # Null /\ verdict.accepted

(* The loss ledger of an accepted record is the truth: whatever single     *)
(* slip the recorder made, an accepted stream counts every frame offered   *)
(* and every event attempted, keeps the earliest eligible frames, has each *)
(* endpoint at most once and as it passed, and shares no epoch or clock    *)
(* with another lifetime. *)
LedgerTrue ==
  Accepted => \A k \in DOMAIN streams : LET s == streams[k]  t == truth[k] IN
    /\ s.offered = t.offered /\ s.attempted = t.attempted
    /\ s.attempted = Len(s.events) + s.lost
    /\ s.stop # "disabled" =>
         Len(s.frames) + s.frameDropped = Cardinality({n \in 1..t.offered : n % s.every = 1 % s.every})
    /\ \A i \in DOMAIN s.frames : s.frames[i].frame = 1 + (i - 1) * s.every
    /\ \A i \in DOMAIN s.events : LET e == s.events[i] IN
         /\ <<e.frame, e.boundary, e.at>> \in t.times
         /\ \A j \in DOMAIN s.events : i # j => <<e.frame, e.boundary>>
                                                 # <<s.events[j].frame, s.events[j].boundary>>
    /\ \A j \in DOMAIN streams : j # k => s.epoch # streams[j].epoch /\ s.clock # streams[j].clock

(* A duration is of one frame in one lifetime: both its boundaries passed  *)
(* there, that far apart, and both events were retained; a frame is left   *)
(* out of a supported method only for want of one or for a clock that ran  *)
(* backwards; and a deadline is hit exactly when the age fits the budget.  *)
TimingsTrue ==
  Accepted => \A k \in DOMAIN streams, m \in DOMAIN Pairs(format) :
    LET s == streams[k]
        t == verdict.summary.streams[k].results[m]
        At(f, i) == {e \in Range(s.events) : e.frame = f /\ e.boundary = Pairs(format)[m][i]} IN
    /\ \A x \in Range(t.samples) :
         \E a, b \in truth[k].times :
           /\ a[1] = x.frame /\ b[1] = x.frame
           /\ a[2] = Pairs(format)[m][1] /\ b[2] = Pairs(format)[m][2]
           /\ x.delta = b[3] - a[3] /\ x.delta >= 0
    /\ \A f \in Range(s.frames) :
         (OwnMethod(format, m) /\ f.correlation = "exact"
            /\ \E a \in At(f.frame, 1), b \in At(f.frame, 2) : a.at <= b.at)
         <=> \E x \in Range(t.samples) : x.frame = f.frame
    /\ (m = 3 /\ s.budget # Null) =>
         verdict.summary.streams[k].deadline.hits
           = Cardinality({i \in DOMAIN t.samples : t.samples[i].delta <= s.budget})

(* Nothing honest is refused: a recorder that did not slip is accepted     *)
(* whatever it lost, and no accepted record's reconstruction is refused by *)
(* the summary's own validators. *)
NothingHonestRefused ==
  verdict # Null => /\ slip = Null => verdict.accepted
                    /\ verdict.accepted => ValidSummary(verdict.summary)
=============================================================================
