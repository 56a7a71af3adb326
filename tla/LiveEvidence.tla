---------------------------- MODULE LiveEvidence -----------------------------
(***************************************************************************)
(* The evidence of one live probe of the encoder's bitrate                 *)
(* (live_probes/models.py) and what is reconstructed from its counters     *)
(* (live_probes/inspection.py).  Times are in the unit of the evidence; a  *)
(* sample's counters are by name, and bytes go with encoded frames.        *)
(*                                                                         *)
(* Definitions whose name starts with Bug are what a slip would make of    *)
(* the one after them.                                                     *)
(***************************************************************************)
EXTENDS Integers, Sequences, FiniteSets, SequencesExt, FiniteSetsExt

CONSTANT Null

SetterPhases == <<"application", "restoration", "cleanup">>
WindowPhases == <<"baseline", "during", "restoration">>
Counters == {"encoded", "decoded", "dropped"}

(* The phases of rows appear once each and in the order given. *)
InOrder(rows, order) ==
  LET phases == [i \in DOMAIN rows |-> rows[i].phase] IN
  phases = SelectSeq(order, LAMBDA p : p \in Range(phases))
RowOf(rows, phase) ==
  IF \E i \in DOMAIN rows : rows[i].phase = phase
  THEN rows[CHOOSE i \in DOMAIN rows : rows[i].phase = phase] ELSE Null
Completed(call) == IF call.end = Null THEN call.start ELSE call.end

-----------------------------------------------------------------------------
(* The intent, the setter calls and the windows. *)
ValidIntent(i) ==
  /\ i.requested < i.prior
  /\ i.at < i.applyBy /\ i.applyBy < i.restoreBy

ValidReceipts(e) ==
  /\ InOrder(e.receipts, SetterPhases)
  /\ e.receipts # <<>> => e.receipts[1].phase = "application"
  /\ \A k \in DOMAIN e.receipts : LET c == e.receipts[k] IN
       /\ c.end = Null => c.outcome # "returned"
       /\ c.start <= Completed(c)
       /\ c.value = IF c.phase = "application" THEN e.intent.requested ELSE e.intent.prior
       /\ (IF k = 1 THEN e.intent.at ELSE Completed(e.receipts[k - 1])) <= c.start

ValidWindow(w) ==
  /\ w.start < w.end
  /\ \A k \in DOMAIN w.samples : LET s == w.samples[k] IN
       /\ w.start <= s.from /\ s.from <= s.to /\ s.to < w.end
       /\ k > 1 => w.samples[k - 1].to < s.from

ClearOfCalls(e, w) ==
  \A k \in DOMAIN e.receipts : LET c == e.receipts[k] IN
    Completed(c) < w.start \/ w.end <= c.start

BugFollowsCall(e, w) == TRUE
FollowsCall(e, w) ==
  w.phase # "baseline" =>
    LET apply == w.phase = "during"
        c == RowOf(e.receipts, IF apply THEN "application" ELSE "restoration") IN
    c # Null /\ Completed(c) + (IF apply THEN e.intent.settleApply ELSE e.intent.settleRestore) <= w.start
PrecedesCall(e, w) ==
  LET next == CASE w.phase = "baseline" -> RowOf(e.receipts, "application")
                [] w.phase = "during" -> RowOf(e.receipts, "restoration")
                [] OTHER -> Null IN
  next # Null => w.end <= next.start

ValidWindows(e) ==
  /\ InOrder(e.windows, WindowPhases)
  /\ \A k \in DOMAIN e.windows : LET w == e.windows[k] IN
       /\ ValidWindow(w)
       /\ k > 1 => e.windows[k - 1].end <= w.start
       /\ ClearOfCalls(e, w) /\ FollowsCall(e, w) /\ PrecedesCall(e, w)

ValidLiveEvidence(e) ==
  /\ ValidIntent(e.intent) /\ ValidReceipts(e) /\ ValidWindows(e)
  /\ "capability_unqualified" \in e.reasons

-----------------------------------------------------------------------------
(* The reconstruction: why a window cannot be told, and its deltas. *)
Differ(values) == Cardinality(values \ {Null}) > 1
Missing(w) == \E s \in Range(w.samples), c \in Counters : s.counts[c] = Null
WentBack(w) ==
  \E k \in 2..Len(w.samples), c \in Counters : w.samples[k].counts[c] < w.samples[k - 1].counts[c]
CounterReasons(w) ==
  LET generations == {w.samples[k].generation : k \in DOMAIN w.samples} IN
  {r \in {"insufficient_samples", "missing_counter_generation", "counter_generation_changed",
          "missing_counter", "counter_reset"} :
     CASE r = "insufficient_samples" -> Len(w.samples) < 2
       [] r = "missing_counter_generation" -> Null \in generations
       [] r = "counter_generation_changed" -> Differ(generations)
       [] r = "missing_counter" -> Missing(w)
       [] r = "counter_reset" -> ~Missing(w) /\ WentBack(w)}

ValuesSeen(w) == {w.samples[k].value : k \in DOMAIN w.samples}
SettingReasons(e, w) ==
  LET expected == IF w.phase = "during" THEN e.intent.requested ELSE e.intent.prior
      base == RowOf(e.windows, "baseline")
      settings == IF base = Null THEN Null ELSE IF base.samples = <<>> THEN Null
                  ELSE base.samples[1].settings
      values == ValuesSeen(w)
      others == {w.samples[k].settings : k \in DOMAIN w.samples} IN
  {r \in {"missing_setting", "setting_mismatch", "missing_unrelated_settings",
          "unrelated_settings_changed"} :
     CASE r = "missing_setting" -> Null \in values
       [] r = "setting_mismatch" -> ~(values \subseteq {expected, Null})
       [] r = "missing_unrelated_settings" -> settings = Null \/ Null \in others
       [] r = "unrelated_settings_changed" -> settings # Null /\ ~(others \subseteq {settings, Null})}

Deltas(w) ==
  [c \in Counters |-> IF CounterReasons(w) # {} THEN Null
                      ELSE Last(w.samples).counts[c] - Head(w.samples).counts[c]]
ProgressReasons(w) ==
  {r \in {"no_encoded_progress", "no_decoded_progress"} :
     Deltas(w)[IF r = "no_encoded_progress" THEN "encoded" ELSE "decoded"] = 0}
ReasonsOf(e, w) == CounterReasons(w) \cup SettingReasons(e, w) \cup ProgressReasons(w)

Late(e, c) ==
  LET by == IF c.phase = "application" THEN e.intent.applyBy ELSE e.intent.restoreBy IN
  c.start > by \/ (c.end # Null /\ c.end > by)

RestorationOf(e) ==
  LET w == RowOf(e.windows, "restoration")
      without == IF e.receipts = <<>> THEN "not_needed" ELSE "unknown" IN
  IF w = Null THEN without
  ELSE IF ReasonsOf(e, w) = {} THEN "setting_and_local_progress_only" ELSE without

InspectLive(e) ==
  [windows |-> [k \in DOMAIN e.windows |->
                  [phase |-> e.windows[k].phase, reasons |-> ReasonsOf(e, e.windows[k]),
                   deltas |-> Deltas(e.windows[k])]],
   restoration |-> RestorationOf(e),
   late |-> {e.receipts[k].phase : k \in {k \in DOMAIN e.receipts : Late(e, e.receipts[k])}},
   unknown |-> {e.receipts[k].phase : k \in {k \in DOMAIN e.receipts : e.receipts[k].end = Null}}]
=============================================================================
