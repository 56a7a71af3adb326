---------------------------- MODULE PassiveGate ----------------------------
(***************************************************************************)
(* The passive gate's replay (passive_gating/replay.py): one pass over a   *)
(* list of declared events (windows, ticks, resets) of one stream that     *)
(* decides, from exact received-frame-rate levels, when to propose a probe.*)
(* Every iteration of the event loop is one step; each branch of its       *)
(* if/elif chain is one action.  An event names a window of the replay's   *)
(* inventory, or carries a time of its own; both are chosen freely, so the *)
(* behaviours hold every order, repetition and omission of events.         *)
(***************************************************************************)
EXTENDS Integers

CONSTANTS
  Windows,         \* the passive windows that window events may name
  Keys,            \* their novelty keys
  Null,            \* Python's None
  StartMs,         \* replay.start_ms
  EventTimes,      \* the times that ticks, resets and missing entries may carry
  Center,          \* the stratum's baseline frame rate
  EntryWindows,    \* 3     low windows before degradation
  EntryMs,         \* 6000  low milliseconds before degradation
  RecoveryWindows, \* 2     recovered windows before health
  RecoveryMs,      \* 4000  recovered milliseconds before health
  StaleMs,         \* 5000  silence after which a tick expires evidence
  CooldownMs,      \* 30000 between two proposals
  MaxProposals,    \* 3     proposals of one replay
  MinWindowMs,     \* 1000  shortest usable window
  MaxWindowMs      \* 10000 longest usable window

(* Reasons, found before the metric is read, that exclude a window whose   *)
(* order is fine: its report entry, the baseline, or the metric's quality. *)
Exclusions == {"not_requested_role", "n6_excluded", "baseline_unavailable",
               "source_overlap", "metric_quality"}

Window == [key : Keys, start_ms : Nat, end_ms : Nat, fps : Nat,
           foreign : BOOLEAN, alias : BOOLEAN, in_stratum : BOOLEAN,
           exclusions : SUBSET Exclusions]

(* A novelty key hashes the run, the clock domain and the bounds, so       *)
(* windows that share a key share those.                                   *)
ASSUME WindowsAssumption ==
  /\ Windows \subseteq Window
  /\ \A w \in Windows : w.start_ms < w.end_ms
  /\ \A v, w \in Windows : v.key = w.key =>
       v.start_ms = w.start_ms /\ v.end_ms = w.end_ms /\ v.foreign = w.foreign

ASSUME ThresholdAssumption ==
  /\ EventTimes \subseteq Nat
  /\ StartMs \in Nat /\ MinWindowMs \in Nat /\ MaxWindowMs \in Nat
  /\ MaxProposals \in Nat
  /\ Center \in Nat \ {0} /\ StaleMs \in Nat \ {0} /\ CooldownMs \in Nat \ {0}
  /\ EntryWindows \in Nat \ {0} /\ EntryMs \in Nat \ {0}
  /\ RecoveryWindows \in Nat \ {0} /\ RecoveryMs \in Nat \ {0}

ASSUME NullAssumption == Null \notin Nat /\ Null \notin Windows

VARIABLES
  status,
  degraded_latched,    \* the stream is held degraded until it recovers
  last_valid_end_ms,   \* end of the last usable window still relied on
  bad_windows,         \* the streak of low windows
  bad_duration_ms,
  good_windows,        \* the streak of recovered windows
  good_duration_ms,
  watermark_ms,        \* latest time the stream is known to have reached
  last_window_end_ms,  \* end of the last window in order
  barrier_ms,          \* no time before it may be credited
  proposals,           \* ledger: probes proposed
  last_proposal_ms,    \* ledger: time of the last one
  stream_invalidated,  \* terminal
  seen,                \* novelty keys processed
  row                  \* the row appended for the last event

streaks == <<bad_windows, bad_duration_ms, good_windows, good_duration_ms>>
detector == <<status, degraded_latched, last_valid_end_ms, streaks>>
ledger == <<proposals, last_proposal_ms>>
stateVars == <<detector, watermark_ms, last_window_end_ms, barrier_ms,
               ledger, stream_invalidated>>
vars == <<stateVars, seen, row>>

Statuses == {"unknown", "pending_degradation", "pending_recovery",
             "healthy", "degraded", "recovering"}
Classes == {"low", "recovered", "band"}
Recommendations == {"observe", "probe", "cooldown", "no_action"}
Reasons == Exclusions \cup
  {"stream_invalidated", "stream_reset", "clock_reversed", "stale", "tick_only",
   "missing_measurements", "not_passive_window", "clock_scope_changed",
   "duplicate_window", "out_of_order", "scope_changed", "overlapping_window",
   "pre_barrier_window", "gap_reset", "unsupported_window_duration",
   "entry_pending", "proposal_budget_exhausted", "cooldown_active",
   "persistent_degradation", "healthy", "recovery_pending", "hysteresis_band"}
Row == [window : Windows \cup {Null}, classification : Classes \cup {"unavailable"},
        recommendation : Recommendations, reasons : SUBSET Reasons]

-----------------------------------------------------------------------------
(* Definitions whose name starts with Bug change the one after them the   *)
(* way a slip in the code would; the specification uses none of them.      *)
Later(a, b) == IF a >= b THEN a ELSE b
Duration(w) == w.end_ms - w.start_ms

(* Exact cross products: at most 80% of the centre is low, at least 90%    *)
(* recovered.                                                              *)
Classify(fps) ==
  IF 5 * fps <= 4 * Center THEN "low"
  ELSE IF 10 * fps >= 9 * Center THEN "recovered" ELSE "band"

(* clear(): nothing observed so far is relied on any longer. *)
Cleared ==
  /\ status = "unknown"
  /\ degraded_latched = FALSE
  /\ last_valid_end_ms = Null
  /\ bad_windows = 0 /\ bad_duration_ms = 0
  /\ good_windows = 0 /\ good_duration_ms = 0

Clear ==
  /\ status' = "unknown"
  /\ degraded_latched' = FALSE
  /\ last_valid_end_ms' = Null
  /\ bad_windows' = 0 /\ bad_duration_ms' = 0
  /\ good_windows' = 0 /\ good_duration_ms' = 0

Unavailable(w, reasons) ==
  row' = [window |-> w, classification |-> "unavailable",
          recommendation |-> "no_action", reasons |-> reasons]

Init ==
  /\ Cleared
  /\ watermark_ms = StartMs
  /\ last_window_end_ms = Null
  /\ barrier_ms = StartMs
  /\ proposals = 0
  /\ last_proposal_ms = Null
  /\ stream_invalidated = FALSE
  /\ seen = {}
  /\ row = [window |-> Null, classification |-> "unavailable",
            recommendation |-> "no_action", reasons |-> {}]

-----------------------------------------------------------------------------
(* Any event of an invalidated stream. *)
AfterInvalidation ==
  /\ stream_invalidated
  /\ \E w \in Windows \cup {Null} : Unavailable(w, {"stream_invalidated"})
  /\ UNCHANGED <<stateVars, seen>>

Reset(at) ==
  /\ ~stream_invalidated
  /\ watermark_ms' = Later(watermark_ms, at)
  /\ barrier_ms' = watermark_ms'
  /\ Clear
  /\ stream_invalidated' = TRUE
  /\ Unavailable(Null, {"stream_reset"})
  /\ UNCHANGED <<last_window_end_ms, ledger, seen>>

ReversedTick(at) ==
  /\ ~stream_invalidated
  /\ at < watermark_ms
  /\ Clear
  /\ stream_invalidated' = TRUE
  /\ Unavailable(Null, {"clock_reversed"})
  /\ UNCHANGED <<watermark_ms, last_window_end_ms, barrier_ms, ledger, seen>>

BugExpired(at) ==
  /\ last_valid_end_ms # Null
  /\ at - last_valid_end_ms > StaleMs
Expired(at) ==
  /\ last_valid_end_ms # Null
  /\ at - last_valid_end_ms >= StaleMs

StaleTick(at) ==
  /\ ~stream_invalidated
  /\ at >= watermark_ms
  /\ Expired(at)
  /\ watermark_ms' = at
  /\ barrier_ms' = at
  /\ Clear
  /\ Unavailable(Null, {"stale"})
  /\ UNCHANGED <<last_window_end_ms, ledger, stream_invalidated, seen>>

FreshTick(at) ==
  /\ ~stream_invalidated
  /\ at >= watermark_ms
  /\ ~Expired(at)
  /\ watermark_ms' = at
  /\ Unavailable(Null, {"tick_only"})
  /\ UNCHANGED <<detector, last_window_end_ms, barrier_ms, ledger,
                 stream_invalidated, seen>>

(* A window event whose report entry is missing or is a response. *)
NoPassiveWindow(at) ==
  /\ ~stream_invalidated
  /\ Clear
  /\ watermark_ms' = Later(watermark_ms, at)
  /\ barrier_ms' = watermark_ms'
  /\ \E why \in {"missing_measurements", "not_passive_window"} :
       Unavailable(Null, {why})
  /\ UNCHANGED <<last_window_end_ms, ledger, stream_invalidated, seen>>

-----------------------------------------------------------------------------
(* Window events, in the order the code tests them. *)
ForeignWindow(w) ==
  /\ ~stream_invalidated
  /\ w.foreign
  /\ Clear
  /\ stream_invalidated' = TRUE
  /\ Unavailable(w, {"clock_scope_changed"})
  /\ UNCHANGED <<watermark_ms, last_window_end_ms, barrier_ms, ledger, seen>>

Duplicate(w) == w.alias \/ w.key \in seen

DuplicateWindow(w) ==
  /\ ~stream_invalidated
  /\ ~w.foreign
  /\ Duplicate(w)
  /\ Unavailable(w, {"duplicate_window"})
  /\ UNCHANGED <<stateVars, seen>>

FirstSight(w) ==
  /\ ~stream_invalidated
  /\ ~w.foreign
  /\ ~Duplicate(w)
  /\ seen' = seen \cup {w.key}

Late(w) ==
  \/ w.end_ms < watermark_ms
  \/ last_window_end_ms # Null /\ w.end_ms <= last_window_end_ms

LateWindow(w) ==
  /\ FirstSight(w)
  /\ Late(w)
  /\ Unavailable(w, {"out_of_order"})
  /\ UNCHANGED stateVars

OtherStratum(w) ==
  /\ FirstSight(w)
  /\ ~Late(w)
  /\ ~w.in_stratum
  /\ Clear
  /\ watermark_ms' = w.end_ms
  /\ barrier_ms' = w.end_ms
  /\ stream_invalidated' = TRUE
  /\ Unavailable(w, {"scope_changed"})
  /\ UNCHANGED <<last_window_end_ms, ledger>>

Overlaps(w) == last_window_end_ms # Null /\ w.start_ms < last_window_end_ms
BeforeBarrier(w) == w.start_ms < barrier_ms

OverlappingWindow(w) ==
  /\ FirstSight(w)
  /\ ~Late(w)
  /\ w.in_stratum
  /\ Overlaps(w) \/ BeforeBarrier(w)
  /\ Clear
  /\ watermark_ms' = w.end_ms
  /\ last_window_end_ms' = w.end_ms
  /\ barrier_ms' = w.end_ms
  /\ Unavailable(w, {IF Overlaps(w) THEN "overlapping_window" ELSE "pre_barrier_window"})
  /\ UNCHANGED <<ledger, stream_invalidated>>

Gap(w) == last_window_end_ms # Null /\ w.start_ms > last_window_end_ms
GapReason(w) == IF Gap(w) THEN {"gap_reset"} ELSE {}

(* In order, after the barrier and disjoint from the window before it. *)
InOrder(w) ==
  /\ FirstSight(w)
  /\ ~Late(w)
  /\ w.in_stratum
  /\ ~Overlaps(w)
  /\ ~BeforeBarrier(w)
  /\ watermark_ms' = w.end_ms
  /\ last_window_end_ms' = w.end_ms

Blocking(w) ==
  w.exclusions \cup
    (IF Duration(w) \in MinWindowMs..MaxWindowMs THEN {}
     ELSE {"unsupported_window_duration"})

BlockedWindow(w) ==
  /\ InOrder(w)
  /\ Blocking(w) # {}
  /\ Clear
  /\ barrier_ms' = w.end_ms
  /\ Unavailable(w, GapReason(w) \cup Blocking(w))
  /\ UNCHANGED <<ledger, stream_invalidated>>

(* What a usable window adds to: nothing of what precedes a gap. *)
BugKept(w, x, cleared) == x
Kept(w, x, cleared) == IF Gap(w) THEN cleared ELSE x
Latched(w) == Kept(w, degraded_latched, FALSE)

Usable(w, class) ==
  /\ InOrder(w)
  /\ Blocking(w) = {}
  /\ Classify(w.fps) = class
  /\ barrier_ms' = IF Gap(w) THEN w.start_ms ELSE barrier_ms
  /\ last_valid_end_ms' = w.end_ms
  /\ UNCHANGED stream_invalidated

Classified(w, class, recommendation, reason) ==
  row' = [window |-> w, classification |-> class,
          recommendation |-> recommendation, reasons |-> GapReason(w) \cup {reason}]

BugGrowBad(w) ==
  /\ bad_windows' = Kept(w, bad_windows, 0) + 1
  /\ bad_duration_ms' = Kept(w, bad_duration_ms, 0) + Duration(w)
  /\ UNCHANGED <<good_windows, good_duration_ms>>
GrowBad(w) ==
  /\ bad_windows' = Kept(w, bad_windows, 0) + 1
  /\ bad_duration_ms' = Kept(w, bad_duration_ms, 0) + Duration(w)
  /\ good_windows' = 0 /\ good_duration_ms' = 0

BugPersistent == bad_windows >= EntryWindows
Persistent == bad_windows >= EntryWindows /\ bad_duration_ms >= EntryMs

LowPending(w) ==
  /\ Usable(w, "low")
  /\ GrowBad(w)
  /\ ~Persistent'
  /\ status' = IF Latched(w) THEN "degraded" ELSE "pending_degradation"
  /\ degraded_latched' = Latched(w)
  /\ Classified(w, "low", "observe", "entry_pending")
  /\ UNCHANGED ledger

PersistentLow(w) ==
  /\ Usable(w, "low")
  /\ GrowBad(w)
  /\ Persistent'
  /\ status' = "degraded"
  /\ degraded_latched' = TRUE

BudgetExhausted(w) ==
  /\ PersistentLow(w)
  /\ proposals >= MaxProposals
  /\ Classified(w, "low", "no_action", "proposal_budget_exhausted")
  /\ UNCHANGED ledger

BugCooling(at) == last_proposal_ms # Null /\ at - last_proposal_ms < CooldownMs - 1
Cooling(at) == last_proposal_ms # Null /\ at - last_proposal_ms < CooldownMs

Cooldown(w) ==
  /\ PersistentLow(w)
  /\ proposals < MaxProposals
  /\ Cooling(w.end_ms)
  /\ Classified(w, "low", "cooldown", "cooldown_active")
  /\ UNCHANGED ledger

Probe(w) ==
  /\ PersistentLow(w)
  /\ proposals < MaxProposals
  /\ ~Cooling(w.end_ms)
  /\ proposals' = proposals + 1
  /\ last_proposal_ms' = w.end_ms
  /\ Classified(w, "low", "probe", "persistent_degradation")

GrowGood(w) ==
  /\ good_windows' = Kept(w, good_windows, 0) + 1
  /\ good_duration_ms' = Kept(w, good_duration_ms, 0) + Duration(w)
  /\ bad_windows' = 0 /\ bad_duration_ms' = 0

Restored == good_windows >= RecoveryWindows /\ good_duration_ms >= RecoveryMs

RecoveryPending(w) ==
  /\ Usable(w, "recovered")
  /\ GrowGood(w)
  /\ ~Restored'
  /\ status' = IF Latched(w) THEN "recovering" ELSE "pending_recovery"
  /\ degraded_latched' = Latched(w)
  /\ Classified(w, "recovered", "observe", "recovery_pending")
  /\ UNCHANGED ledger

BugHealthy(w) ==
  /\ Usable(w, "recovered")
  /\ GrowGood(w)
  /\ Restored'
  /\ status' = "healthy"
  /\ degraded_latched' = FALSE
  /\ Classified(w, "recovered", "no_action", "healthy")
  /\ proposals' = 0
  /\ last_proposal_ms' = Null
Healthy(w) ==
  /\ Usable(w, "recovered")
  /\ GrowGood(w)
  /\ Restored'
  /\ status' = "healthy"
  /\ degraded_latched' = FALSE
  /\ Classified(w, "recovered", "no_action", "healthy")
  /\ UNCHANGED ledger

Band(w) ==
  /\ Usable(w, "band")
  /\ bad_windows' = 0 /\ bad_duration_ms' = 0
  /\ good_windows' = 0 /\ good_duration_ms' = 0
  /\ status' = IF Latched(w) THEN "degraded" ELSE "unknown"
  /\ degraded_latched' = Latched(w)
  /\ Classified(w, "band", "observe", "hysteresis_band")
  /\ UNCHANGED ledger

-----------------------------------------------------------------------------
TimedEvent(at) ==
  \/ Reset(at)
  \/ ReversedTick(at)
  \/ StaleTick(at)
  \/ FreshTick(at)
  \/ NoPassiveWindow(at)

UsableWindow(w) ==
  \/ LowPending(w)
  \/ BudgetExhausted(w)
  \/ Cooldown(w)
  \/ Probe(w)
  \/ RecoveryPending(w)
  \/ Healthy(w)
  \/ Band(w)

WindowEvent(w) ==
  \/ ForeignWindow(w)
  \/ DuplicateWindow(w)
  \/ LateWindow(w)
  \/ OtherStratum(w)
  \/ OverlappingWindow(w)
  \/ BlockedWindow(w)
  \/ UsableWindow(w)

Next ==
  \/ AfterInvalidation
  \/ \E at \in EventTimes : TimedEvent(at)
  \/ \E w \in Windows : WindowEvent(w)

Spec == Init /\ [][Next]_vars

-----------------------------------------------------------------------------
(* Every variable has its type: the fields PassiveState declares. *)
TypeOK ==
  /\ status \in Statuses
  /\ degraded_latched \in BOOLEAN
  /\ last_valid_end_ms \in Nat \cup {Null}
  /\ bad_windows \in Nat /\ bad_duration_ms \in Nat
  /\ good_windows \in Nat /\ good_duration_ms \in Nat
  /\ watermark_ms \in Nat
  /\ last_window_end_ms \in Nat \cup {Null}
  /\ barrier_ms \in Nat
  /\ proposals \in 0..MaxProposals
  /\ last_proposal_ms \in Nat \cup {Null}
  /\ stream_invalidated \in BOOLEAN
  /\ seen \subseteq Keys
  /\ row \in Row

(* Evidence the detector still relies on is the newest window in order and *)
(* the stream's clock is less than StaleMs past it: whatever the order of  *)
(* ticks, late windows and gaps, no streak or latch survives a silence the *)
(* stream has seen pass.                                                   *)
FreshEvidence ==
  \/ Cleared
  \/ /\ last_valid_end_ms = last_window_end_ms
     /\ last_window_end_ms # Null
     /\ watermark_ms - last_window_end_ms < StaleMs

(* A streak never credits time before the barrier, nor any instant twice:  *)
(* its milliseconds fit between the barrier and the last usable window.    *)
CreditAfterBarrier ==
  last_valid_end_ms # Null =>
    bad_duration_ms + good_duration_ms
      <= last_valid_end_ms - barrier_ms

(* The status a row reports agrees with the latch and the streaks: a       *)
(* "degraded" or "recovering" stream is latched and nothing else is, and   *)
(* bad and good streaks never run at once.                                 *)
StatusAgrees ==
  /\ degraded_latched <=> status \in {"degraded", "recovering"}
  /\ bad_windows = 0 \/ good_windows = 0
  /\ status \in {"pending_recovery", "recovering", "healthy"} =>
       good_windows > 0
  /\ Persistent => degraded_latched
  /\ stream_invalidated => Cleared

(* Delivering a window again can change nothing even if it escaped the     *)
(* duplicate rule: whatever was seen is late by now.                       *)
SeenIsLate ==
  ~stream_invalidated =>
    \A w \in Windows : w.key \in seen => Late(w)

(* The stream's clocks and the proposal ledger only move forward, and an   *)
(* invalidated stream never changes again.                                 *)
NoRewind ==
  /\ watermark_ms' >= watermark_ms
  /\ barrier_ms' >= barrier_ms
  /\ last_window_end_ms # Null =>
       last_window_end_ms' # Null /\ last_window_end_ms' >= last_window_end_ms
  /\ proposals' >= proposals
  /\ stream_invalidated => UNCHANGED stateVars
NeverRewinds == [][NoRewind]_vars
=============================================================================
