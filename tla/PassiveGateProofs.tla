-------------------------- MODULE PassiveGateProofs --------------------------
(***************************************************************************)
(* What PassiveGate guarantees for every inventory of windows and every    *)
(* choice of thresholds.  And for every calibration directory: nothing is  *)
(* reported but what its receipts say, and no measurement counts twice.    *)
(***************************************************************************)
EXTENDS PassiveGateAudit, CalibrationInspection, TLAPS, SequenceTheorems, FiniteSetTheorems

(* Bounds that keep the invariants below inductive: the barrier and the    *)
(* last window are never ahead of the clock.                               *)
ClocksOrdered ==
  /\ barrier_ms <= watermark_ms
  /\ last_window_end_ms # Null => last_window_end_ms <= watermark_ms

(* The inductive invariant. *)
IInv ==
  /\ TypeOK
  /\ ClocksOrdered
  /\ FreshEvidence
  /\ CreditAfterBarrier
  /\ StatusAgrees
  /\ SeenIsLate

USE DEF vars, stateVars, detector, streaks, ledger

-----------------------------------------------------------------------------
(* The fields of a window. *)
LEMMA WindowType ==
  ASSUME NEW w \in Windows
  PROVE  /\ w.key \in Keys /\ w.start_ms \in Nat /\ w.end_ms \in Nat
         /\ w.start_ms < w.end_ms /\ w.exclusions \subseteq Exclusions
         /\ Duration(w) \in Nat /\ Duration(w) > 0
  BY WindowsAssumption DEF Window, Duration

(* The rows the two kinds of outcome append are rows. *)
LEMMA UnavailableType ==
  ASSUME NEW w \in Windows \cup {Null}, NEW reasons \in SUBSET Reasons,
         Unavailable(w, reasons)
  PROVE  row' \in Row
  BY DEF Unavailable, Row, Recommendations

(* A usable window appends a row. *)
LEMMA ClassifiedType ==
  ASSUME NEW w \in Windows, NEW class \in Classes,
         NEW recommendation \in Recommendations, NEW reason \in Reasons,
         Classified(w, class, recommendation, reason)
  PROVE  row' \in Row
  BY DEF Classified, Row, GapReason, Reasons

(* The specification starts in the invariant. *)
LEMMA InitIInv == Init => IInv
<1> SUFFICES ASSUME Init PROVE IInv
  OBVIOUS
<1>0. row \in Row
  BY DEF Init, Row, Recommendations
<1>1. TypeOK
  <2>1. degraded_latched \in BOOLEAN /\ stream_invalidated \in BOOLEAN
    BY DEF Init, Cleared
  <2>2. QED
    BY <1>0, <2>1, ThresholdAssumption DEF Init, TypeOK, Cleared, Statuses
<1>2. ClocksOrdered
  BY ThresholdAssumption DEF Init, ClocksOrdered
<1>3. FreshEvidence /\ CreditAfterBarrier /\ SeenIsLate
  BY DEF Init, FreshEvidence, CreditAfterBarrier, SeenIsLate, Cleared
<1>4. StatusAgrees
  BY ThresholdAssumption DEF Init, StatusAgrees, Cleared, Persistent
<1>5. QED
  BY <1>1, <1>2, <1>3, <1>4 DEF IInv

-----------------------------------------------------------------------------
(* Steps that clear the detector keep the invariant as long as the clocks  *)
(* stay ordered and nothing that was late becomes timely.                  *)
LEMMA ClearingStep ==
  ASSUME IInv, Clear, UNCHANGED ledger, row' \in Row,
         stream_invalidated' \in BOOLEAN, seen' \subseteq Keys,
         watermark_ms' \in Nat, barrier_ms' \in Nat,
         last_window_end_ms' \in Nat \cup {Null},
         ClocksOrdered', SeenIsLate'
  PROVE  IInv'
<1>1. TypeOK'
  BY NullAssumption DEF IInv, TypeOK, Clear, Statuses
<1>2. FreshEvidence' /\ CreditAfterBarrier'
  BY DEF FreshEvidence, CreditAfterBarrier, Clear, Cleared
<1>3. StatusAgrees'
  BY ThresholdAssumption DEF StatusAgrees, Clear, Cleared, Persistent
<1>4. QED
  BY <1>1, <1>2, <1>3 DEF IInv

(* What is late stays late when the clocks advance and nothing new is seen *)
(* but a window that is late in the new state.                             *)
LEMMA LateStaysLate ==
  ASSUME IInv, ~stream_invalidated,
         watermark_ms' \in Nat, watermark_ms' >= watermark_ms,
         \/ UNCHANGED last_window_end_ms
         \/ /\ last_window_end_ms' \in Nat
            /\ last_window_end_ms # Null => last_window_end_ms' >= last_window_end_ms,
         \A w \in Windows : w.key \in seen' => w.key \in seen \/ Late(w)'
  PROVE  SeenIsLate'
<1> SUFFICES ASSUME NEW w \in Windows, w.key \in seen'
             PROVE  Late(w)'
  BY DEF SeenIsLate
<1>1. CASE w.key \in seen
  <2>1. Late(w)
    BY <1>1 DEF IInv, SeenIsLate
  <2>2. QED
    BY <2>1, WindowType, NullAssumption DEF Late, IInv, TypeOK
<1>2. QED
  BY <1>1

(* A timed event: no window, hence nothing new seen. *)
LEMMA TimedEventStep ==
  ASSUME IInv, NEW at \in EventTimes, TimedEvent(at)
  PROVE  IInv'
<1> USE DEF IInv
<1>0. at \in Nat /\ Null \notin Nat /\ Null \in Windows \cup {Null}
  BY ThresholdAssumption, NullAssumption
<1>1. CASE Reset(at)
  <2>1. row' \in Row
    BY <1>1, <1>0, UnavailableType DEF Reset, Reasons
  <2>2. ClocksOrdered'
    BY <1>1, <1>0 DEF Reset, ClocksOrdered, TypeOK, Later
  <2>3. SeenIsLate'
    BY <1>1 DEF Reset, SeenIsLate
  <2>4. QED
    BY <1>0, <1>1, <2>1, <2>2, <2>3, ClearingStep DEF Reset, TypeOK, Later
<1>2. CASE ReversedTick(at)
  <2>1. row' \in Row
    BY <1>2, <1>0, UnavailableType DEF ReversedTick, Reasons
  <2>2. ClocksOrdered' /\ SeenIsLate'
    BY <1>2 DEF ReversedTick, ClocksOrdered, SeenIsLate
  <2>3. QED
    BY <1>2, <2>1, <2>2, ClearingStep DEF ReversedTick, TypeOK
<1>3. CASE StaleTick(at)
  <2>1. row' \in Row
    BY <1>3, <1>0, UnavailableType DEF StaleTick, Reasons
  <2>2. ClocksOrdered'
    BY <1>3, <1>0 DEF StaleTick, ClocksOrdered, TypeOK
  <2>3. SeenIsLate'
    BY <1>3, <1>0, LateStaysLate DEF StaleTick, TypeOK
  <2>4. QED
    BY <1>0, <1>3, <2>1, <2>2, <2>3, ClearingStep DEF StaleTick, TypeOK
<1>4. CASE FreshTick(at)
  <2>1. row' \in Row
    BY <1>4, <1>0, UnavailableType DEF FreshTick, Reasons
  <2>2. ClocksOrdered'
    BY <1>4, <1>0 DEF FreshTick, ClocksOrdered, TypeOK
  <2>3. SeenIsLate'
    BY <1>4, <1>0, LateStaysLate DEF FreshTick, TypeOK
  <2>4. FreshEvidence'
    <3>1. CASE Cleared
      BY <1>4, <3>1 DEF FreshTick, FreshEvidence, Cleared
    <3>2. CASE ~Cleared
      <4>1. /\ last_valid_end_ms = last_window_end_ms
            /\ last_window_end_ms # Null /\ last_window_end_ms \in Nat
        BY <3>2 DEF FreshEvidence, TypeOK
      <4>2. /\ last_window_end_ms' = last_window_end_ms
            /\ last_valid_end_ms' = last_valid_end_ms /\ watermark_ms' = at
            /\ at - last_window_end_ms < StaleMs
        BY <1>0, <1>4, <4>1, ThresholdAssumption DEF FreshTick, Expired
      <4>3. QED
        BY <4>1, <4>2 DEF FreshEvidence
    <3>3. QED
      BY <3>1, <3>2
  <2>5. TypeOK'
    <3>1. degraded_latched' \in BOOLEAN /\ stream_invalidated' \in BOOLEAN
      BY <1>4 DEF FreshTick, TypeOK
    <3>2. QED
      BY <1>4, <1>0, <2>1, <3>1 DEF FreshTick, TypeOK
  <2>6. CreditAfterBarrier' /\ StatusAgrees'
    BY <1>4 DEF FreshTick, CreditAfterBarrier, StatusAgrees, Persistent, Cleared
  <2>7. QED
    BY <2>2, <2>3, <2>4, <2>5, <2>6
<1>5. CASE NoPassiveWindow(at)
  <2>1. row' \in Row
    BY <1>5, <1>0, UnavailableType DEF NoPassiveWindow, Reasons
  <2>2. ClocksOrdered'
    BY <1>5, <1>0 DEF NoPassiveWindow, ClocksOrdered, TypeOK, Later
  <2>3. SeenIsLate'
    BY <1>5, <1>0, LateStaysLate DEF NoPassiveWindow, TypeOK, Later
  <2>4. QED
    BY <1>0, <1>5, <2>1, <2>2, <2>3, ClearingStep DEF NoPassiveWindow, TypeOK, Later
<1>6. QED
  BY <1>1, <1>2, <1>3, <1>4, <1>5 DEF TimedEvent

-----------------------------------------------------------------------------
(* Steps that leave the replay's state alone but for the keys seen. *)
LEMMA IgnoredStep ==
  ASSUME IInv, UNCHANGED stateVars, row' \in Row, seen' \subseteq Keys, SeenIsLate'
  PROVE  IInv'
BY DEF IInv, TypeOK, ClocksOrdered, FreshEvidence, CreditAfterBarrier,
       StatusAgrees, Persistent, Cleared

(* Marking a window seen keeps SeenIsLate when the window is now late. *)
LEMMA SeeingStep ==
  ASSUME IInv, NEW w \in Windows, FirstSight(w), Late(w)',
         watermark_ms' \in Nat, watermark_ms' >= watermark_ms,
         \/ UNCHANGED last_window_end_ms
         \/ /\ last_window_end_ms' \in Nat
            /\ last_window_end_ms # Null => last_window_end_ms' >= last_window_end_ms
  PROVE  SeenIsLate' /\ seen' \subseteq Keys
<1>1. ASSUME NEW v \in Windows, v.key \in seen', v.key \notin seen
      PROVE  Late(v)'
  <2>1. v.end_ms = w.end_ms
    BY <1>1, WindowsAssumption DEF FirstSight
  <2>2. QED
    BY <2>1 DEF Late
<1>2. QED
  BY <1>1, LateStaysLate, WindowType DEF FirstSight, IInv, TypeOK

(* A window in order that is not late moves both clocks to its end. *)
LEMMA InOrderStep ==
  ASSUME IInv, NEW w \in Windows, FirstSight(w), ~Late(w),
         watermark_ms' = w.end_ms, last_window_end_ms' = w.end_ms
  PROVE  SeenIsLate' /\ seen' \subseteq Keys
<1>1. Late(w)'
  BY WindowType, NullAssumption DEF Late
<1>2. /\ watermark_ms' \in Nat /\ watermark_ms' >= watermark_ms
      /\ last_window_end_ms' \in Nat
      /\ last_window_end_ms # Null => last_window_end_ms' >= last_window_end_ms
  BY WindowType, NullAssumption DEF Late, IInv, TypeOK
<1>3. QED
  BY <1>1, <1>2, SeeingStep

(* What every usable window establishes, whatever its class. *)
LEMMA UsableFacts ==
  ASSUME IInv, NEW w \in Windows, NEW class, Usable(w, class)
  PROVE  /\ SeenIsLate' /\ seen' \subseteq Keys /\ ClocksOrdered'
         /\ watermark_ms' = w.end_ms /\ last_window_end_ms' = w.end_ms
         /\ last_valid_end_ms' = w.end_ms /\ w.end_ms \in Nat
         /\ w.start_ms \in Nat /\ w.start_ms < w.end_ms
         /\ barrier_ms' \in Nat /\ barrier_ms' <= w.start_ms
         /\ stream_invalidated' = FALSE /\ stream_invalidated = FALSE
<1>1. SeenIsLate' /\ seen' \subseteq Keys
  BY InOrderStep DEF Usable, InOrder
<1>2. barrier_ms' \in Nat /\ barrier_ms' <= w.start_ms
  BY WindowType DEF Usable, InOrder, BeforeBarrier, IInv, TypeOK
<1>3. QED
  BY <1>1, <1>2, WindowType DEF Usable, InOrder, FirstSight, ClocksOrdered, IInv, TypeOK

(* A streak that is kept fits between the barrier and the window's start. *)
LEMMA KeptCredit ==
  ASSUME IInv, NEW w \in Windows, NEW class, Usable(w, class)
  PROVE  /\ Kept(w, bad_windows, 0) \in Nat /\ Kept(w, bad_duration_ms, 0) \in Nat
         /\ Kept(w, good_windows, 0) \in Nat /\ Kept(w, good_duration_ms, 0) \in Nat
         /\ Kept(w, bad_duration_ms, 0) + Kept(w, good_duration_ms, 0)
              <= w.start_ms - barrier_ms'
         /\ Latched(w) \in BOOLEAN
<1>1. CASE Gap(w)
  BY <1>1, WindowType DEF Kept, Latched, Usable
<1>2. CASE ~Gap(w)
  <2>1. barrier_ms' = barrier_ms /\ barrier_ms <= w.start_ms
    BY <1>2, WindowType DEF Usable, InOrder, BeforeBarrier, IInv, TypeOK
  <2>2. CASE Cleared
    BY <2>1, <2>2, <1>2, WindowType DEF Cleared, Kept, Latched, IInv, TypeOK
  <2>3. CASE ~Cleared
    <3>1. last_window_end_ms # Null /\ last_valid_end_ms = last_window_end_ms
      BY <2>3 DEF IInv, FreshEvidence
    <3>2. last_window_end_ms = w.start_ms
      BY <1>2, <3>1, WindowType DEF Gap, Usable, InOrder, Overlaps, IInv, TypeOK
    <3>3. QED
      BY <1>2, <2>1, <3>1, <3>2 DEF Kept, Latched, IInv, TypeOK, CreditAfterBarrier
  <2>4. QED
    BY <2>2, <2>3
<1>3. QED
  BY <1>1, <1>2

(* Usable windows keep the invariant once their class has updated the      *)
(* streaks, the status and the ledger consistently.                        *)
LEMMA UsableStep ==
  ASSUME IInv, NEW w \in Windows, NEW class, Usable(w, class), row' \in Row,
         status' \in Statuses, degraded_latched' \in BOOLEAN,
         bad_windows' \in Nat, bad_duration_ms' \in Nat,
         good_windows' \in Nat, good_duration_ms' \in Nat,
         proposals' \in 0..MaxProposals, last_proposal_ms' \in Nat \cup {Null},
         bad_duration_ms' + good_duration_ms' <= w.end_ms - barrier_ms',
         StatusAgrees'
  PROVE  IInv'
<1>1. TypeOK'
  <2>1. stream_invalidated' \in BOOLEAN
    BY UsableFacts
  <2>2. QED
    BY <2>1, UsableFacts DEF TypeOK
<1>2. FreshEvidence'
  <2>1. /\ watermark_ms' = w.end_ms /\ last_window_end_ms' = w.end_ms
        /\ last_valid_end_ms' = w.end_ms /\ w.end_ms \in Nat
    BY UsableFacts
  <2>2. QED
    BY <2>1, NullAssumption, ThresholdAssumption DEF FreshEvidence
<1>3. CreditAfterBarrier'
  BY UsableFacts DEF CreditAfterBarrier
<1>4. QED
  BY <1>1, <1>2, <1>3, UsableFacts DEF IInv

(* A low window ends the good streak and grows the bad one within bounds. *)
LEMMA LowStep ==
  ASSUME IInv, NEW w \in Windows, Usable(w, "low"), GrowBad(w)
  PROVE  /\ bad_windows' \in Nat /\ bad_duration_ms' \in Nat
         /\ good_windows' \in Nat /\ good_duration_ms' \in Nat
         /\ bad_windows' > 0 /\ good_windows' = 0
         /\ bad_duration_ms' + good_duration_ms' <= w.end_ms - barrier_ms'
<1> DEFINE n == Kept(w, bad_windows, 0)
           ms == Kept(w, bad_duration_ms, 0)
<1>1. /\ n \in Nat /\ ms \in Nat /\ ms <= w.start_ms - barrier_ms'
      /\ w.start_ms \in Nat /\ w.end_ms \in Nat /\ barrier_ms' \in Nat
      /\ w.start_ms < w.end_ms
  <2>1. Kept(w, bad_duration_ms, 0) + Kept(w, good_duration_ms, 0)
          <= w.start_ms - barrier_ms'
    BY KeptCredit
  <2>2. Kept(w, bad_duration_ms, 0) \in Nat /\ Kept(w, good_duration_ms, 0) \in Nat
    BY KeptCredit
  <2>3. n \in Nat
    BY KeptCredit
  <2>4. w.start_ms \in Nat /\ w.end_ms \in Nat /\ barrier_ms' \in Nat /\ w.start_ms < w.end_ms
    BY UsableFacts
  <2>5. QED
    BY <2>1, <2>2, <2>3, <2>4
<1> HIDE DEF n, ms
<1>2. QED
  BY <1>1 DEF GrowBad, Duration, n, ms

(* A recovered window ends the bad streak and grows the good one likewise. *)
LEMMA RecoveredStep ==
  ASSUME IInv, NEW w \in Windows, Usable(w, "recovered"), GrowGood(w)
  PROVE  /\ bad_windows' \in Nat /\ bad_duration_ms' \in Nat
         /\ good_windows' \in Nat /\ good_duration_ms' \in Nat
         /\ good_windows' > 0 /\ bad_windows' = 0
         /\ bad_duration_ms' + good_duration_ms' <= w.end_ms - barrier_ms'
<1> DEFINE n == Kept(w, good_windows, 0)
           ms == Kept(w, good_duration_ms, 0)
<1>1. /\ n \in Nat /\ ms \in Nat /\ ms <= w.start_ms - barrier_ms'
      /\ w.start_ms \in Nat /\ w.end_ms \in Nat /\ barrier_ms' \in Nat
      /\ w.start_ms < w.end_ms
  <2>1. Kept(w, bad_duration_ms, 0) + Kept(w, good_duration_ms, 0)
          <= w.start_ms - barrier_ms'
    BY KeptCredit
  <2>2. Kept(w, bad_duration_ms, 0) \in Nat /\ Kept(w, good_duration_ms, 0) \in Nat
    BY KeptCredit
  <2>3. n \in Nat
    BY KeptCredit
  <2>4. w.start_ms \in Nat /\ w.end_ms \in Nat /\ barrier_ms' \in Nat /\ w.start_ms < w.end_ms
    BY UsableFacts
  <2>5. QED
    BY <2>1, <2>2, <2>3, <2>4
<1> HIDE DEF n, ms
<1>2. QED
  BY <1>1 DEF GrowGood, Duration, n, ms

(* A low window that completes the degradation keeps the invariant. *)
LEMMA PersistentLowStep ==
  ASSUME IInv, NEW w \in Windows, PersistentLow(w), row' \in Row,
         proposals' \in 0..MaxProposals, last_proposal_ms' \in Nat \cup {Null}
  PROVE  IInv'
<1>1. Usable(w, "low") /\ GrowBad(w) /\ status' = "degraded" /\ degraded_latched' = TRUE
  BY DEF PersistentLow
<1>2. stream_invalidated' = FALSE
  BY <1>1, UsableFacts
<1>3. StatusAgrees'
  BY <1>1, <1>2, LowStep DEF StatusAgrees
<1>4. status' \in Statuses /\ degraded_latched' \in BOOLEAN
  BY <1>1 DEF Statuses
<1>5. QED
  BY <1>1, <1>3, <1>4, LowStep, UsableStep

(* Each class of usable window keeps the invariant. *)
LEMMA UsableWindowStep ==
  ASSUME IInv, NEW w \in Windows, UsableWindow(w)
  PROVE  IInv'
<1>0. /\ proposals \in 0..MaxProposals /\ last_proposal_ms \in Nat \cup {Null}
      /\ MaxProposals \in Nat
  BY ThresholdAssumption DEF IInv, TypeOK
<1>1. CASE LowPending(w)
  <2>1. Usable(w, "low") /\ GrowBad(w)
    BY <1>1 DEF LowPending
  <2>2. row' \in Row
    BY <1>1, ClassifiedType DEF LowPending, Classes, Recommendations, Reasons
  <2>3. /\ degraded_latched' = Latched(w) /\ degraded_latched' \in BOOLEAN
        /\ status' = IF Latched(w) THEN "degraded" ELSE "pending_degradation"
        /\ ~Persistent'
    BY <1>1, <2>1, KeptCredit DEF LowPending
  <2>4. StatusAgrees'
    BY <2>1, <2>3, LowStep, UsableFacts DEF StatusAgrees
  <2>5. status' \in Statuses
    BY <2>3 DEF Statuses
  <2>6. QED
    BY <1>0, <1>1, <2>1, <2>2, <2>3, <2>4, <2>5, LowStep, UsableStep DEF LowPending
<1>2. CASE BudgetExhausted(w)
  <2>1. row' \in Row
    BY <1>2, ClassifiedType DEF BudgetExhausted, Classes, Recommendations, Reasons
  <2>2. QED
    BY <1>0, <1>2, <2>1, PersistentLowStep DEF BudgetExhausted
<1>3. CASE Cooldown(w)
  <2>1. row' \in Row
    BY <1>3, ClassifiedType DEF Cooldown, Classes, Recommendations, Reasons
  <2>2. QED
    BY <1>0, <1>3, <2>1, PersistentLowStep DEF Cooldown
<1>4. CASE Probe(w)
  <2>1. row' \in Row
    BY <1>4, ClassifiedType DEF Probe, Classes, Recommendations, Reasons
  <2>2. proposals' \in 0..MaxProposals /\ last_proposal_ms' \in Nat \cup {Null}
    BY <1>0, <1>4, WindowType DEF Probe
  <2>3. QED
    BY <1>4, <2>1, <2>2, PersistentLowStep DEF Probe
<1>5. CASE RecoveryPending(w)
  <2>1. Usable(w, "recovered") /\ GrowGood(w)
    BY <1>5 DEF RecoveryPending
  <2>2. row' \in Row
    BY <1>5, ClassifiedType DEF RecoveryPending, Classes, Recommendations, Reasons
  <2>3. /\ degraded_latched' = Latched(w) /\ degraded_latched' \in BOOLEAN
        /\ status' = IF Latched(w) THEN "recovering" ELSE "pending_recovery"
    BY <1>5, <2>1, KeptCredit DEF RecoveryPending
  <2>4. StatusAgrees'
    <3>1. ~Persistent'
      BY <2>1, RecoveredStep, ThresholdAssumption DEF Persistent
    <3>2. QED
      BY <2>1, <2>3, <3>1, RecoveredStep, UsableFacts DEF StatusAgrees
  <2>5. status' \in Statuses
    BY <2>3 DEF Statuses
  <2>6. QED
    BY <1>0, <1>5, <2>1, <2>2, <2>3, <2>4, <2>5, RecoveredStep, UsableStep
    DEF RecoveryPending
<1>6. CASE Healthy(w)
  <2>1. Usable(w, "recovered") /\ GrowGood(w)
    BY <1>6 DEF Healthy
  <2>2. row' \in Row
    BY <1>6, ClassifiedType DEF Healthy, Classes, Recommendations, Reasons
  <2>3. degraded_latched' = FALSE /\ status' = "healthy"
    BY <1>6 DEF Healthy
  <2>4. StatusAgrees'
    <3>1. ~Persistent'
      BY <2>1, RecoveredStep, ThresholdAssumption DEF Persistent
    <3>2. QED
      BY <2>1, <2>3, <3>1, RecoveredStep, UsableFacts DEF StatusAgrees
  <2>5. status' \in Statuses /\ degraded_latched' \in BOOLEAN
    BY <2>3 DEF Statuses
  <2>6. QED
    BY <1>0, <1>6, <2>1, <2>2, <2>4, <2>5, RecoveredStep, UsableStep DEF Healthy
<1>7. CASE Band(w)
  <2>1. /\ Usable(w, "band")
        /\ bad_windows' = 0 /\ bad_duration_ms' = 0
        /\ good_windows' = 0 /\ good_duration_ms' = 0
    BY <1>7 DEF Band
  <2>2. row' \in Row
    BY <1>7, ClassifiedType DEF Band, Classes, Recommendations, Reasons
  <2>3. /\ degraded_latched' = Latched(w) /\ degraded_latched' \in BOOLEAN
        /\ status' = IF Latched(w) THEN "degraded" ELSE "unknown"
    BY <1>7, <2>1, KeptCredit DEF Band
  <2>4. StatusAgrees'
    <3>1. ~Persistent'
      BY <2>1, ThresholdAssumption DEF Persistent
    <3>2. QED
      BY <2>1, <2>3, <3>1, UsableFacts DEF StatusAgrees
  <2>5. status' \in Statuses
    BY <2>3 DEF Statuses
  <2>6. bad_duration_ms' + good_duration_ms' <= w.end_ms - barrier_ms'
    <3>1. /\ barrier_ms' \in Nat /\ w.start_ms \in Nat /\ w.end_ms \in Nat
          /\ barrier_ms' <= w.start_ms /\ w.start_ms < w.end_ms
      BY <2>1, UsableFacts
    <3>2. QED
      BY <2>1, <3>1
  <2>7. QED
    BY <1>0, <1>7, <2>1, <2>2, <2>3, <2>4, <2>5, <2>6, UsableStep DEF Band
<1>8. QED
  BY <1>1, <1>2, <1>3, <1>4, <1>5, <1>6, <1>7 DEF UsableWindow

-----------------------------------------------------------------------------
(* The window events that are not usable keep the invariant. *)
LEMMA WindowEventStep ==
  ASSUME IInv, NEW w \in Windows, WindowEvent(w)
  PROVE  IInv'
<1> USE DEF IInv
<1>1. CASE ForeignWindow(w)
  <2>1. row' \in Row
    BY <1>1, UnavailableType DEF ForeignWindow, Reasons
  <2>2. ClocksOrdered' /\ SeenIsLate'
    BY <1>1 DEF ForeignWindow, ClocksOrdered, SeenIsLate
  <2>3. QED
    BY <1>1, <2>1, <2>2, ClearingStep DEF ForeignWindow, TypeOK
<1>2. CASE DuplicateWindow(w)
  <2>1. row' \in Row
    BY <1>2, UnavailableType DEF DuplicateWindow, Reasons
  <2>2. SeenIsLate' /\ seen' \subseteq Keys
    BY <1>2 DEF DuplicateWindow, SeenIsLate, Late, TypeOK
  <2>3. QED
    BY <1>2, <2>1, <2>2, IgnoredStep DEF DuplicateWindow
<1>3. CASE LateWindow(w)
  <2>1. row' \in Row
    BY <1>3, UnavailableType DEF LateWindow, Reasons
  <2>2. Late(w)' /\ UNCHANGED <<watermark_ms, last_window_end_ms>> /\ FirstSight(w)
    BY <1>3 DEF LateWindow, Late
  <2>3. SeenIsLate' /\ seen' \subseteq Keys
    BY <2>2, SeeingStep DEF TypeOK
  <2>4. QED
    BY <1>3, <2>1, <2>3, IgnoredStep DEF LateWindow
<1>4. CASE OtherStratum(w)
  <2>1. row' \in Row
    BY <1>4, UnavailableType DEF OtherStratum, Reasons
  <2>2. ClocksOrdered'
    BY <1>4, WindowType DEF OtherStratum, ClocksOrdered, Late, TypeOK
  <2>3. SeenIsLate' /\ seen' \subseteq Keys
    BY <1>4, WindowType DEF OtherStratum, SeenIsLate, FirstSight, TypeOK
  <2>4. QED
    BY <1>4, <2>1, <2>2, <2>3, WindowType, ClearingStep DEF OtherStratum, TypeOK
<1>5. CASE OverlappingWindow(w)
  <2>1. row' \in Row
    BY <1>5, UnavailableType DEF OverlappingWindow, Reasons
  <2>2. ClocksOrdered'
    BY <1>5, WindowType DEF OverlappingWindow, ClocksOrdered
  <2>3. SeenIsLate' /\ seen' \subseteq Keys
    BY <1>5, InOrderStep DEF OverlappingWindow
  <2>4. QED
    BY <1>5, <2>1, <2>2, <2>3, WindowType, ClearingStep DEF OverlappingWindow, TypeOK
<1>6. CASE BlockedWindow(w)
  <2>1. row' \in Row
    <3>1. GapReason(w) \cup Blocking(w) \in SUBSET Reasons
      BY WindowType DEF GapReason, Blocking, Reasons
    <3>2. QED
      BY <1>6, <3>1, UnavailableType DEF BlockedWindow
  <2>2. ClocksOrdered'
    BY <1>6, WindowType DEF BlockedWindow, InOrder, ClocksOrdered
  <2>3. SeenIsLate' /\ seen' \subseteq Keys
    BY <1>6, InOrderStep DEF BlockedWindow, InOrder
  <2>4. QED
    BY <1>6, <2>1, <2>2, <2>3, WindowType, ClearingStep
    DEF BlockedWindow, InOrder, TypeOK
<1>7. CASE UsableWindow(w)
  BY <1>7, UsableWindowStep
<1>8. QED
  BY <1>1, <1>2, <1>3, <1>4, <1>5, <1>6, <1>7 DEF WindowEvent

(* Any step keeps the invariant. *)
LEMMA NextIInv == IInv /\ [Next]_vars => IInv'
<1> SUFFICES ASSUME IInv, [Next]_vars PROVE IInv'
  OBVIOUS
<1>1. CASE AfterInvalidation
  <2>1. PICK w \in Windows \cup {Null} : Unavailable(w, {"stream_invalidated"})
    BY <1>1 DEF AfterInvalidation
  <2>2. row' \in Row
    BY <2>1, UnavailableType DEF Reasons
  <2>3. SeenIsLate' /\ seen' \subseteq Keys
    BY <1>1 DEF AfterInvalidation, SeenIsLate, IInv, TypeOK
  <2>4. QED
    BY <1>1, <2>2, <2>3, IgnoredStep DEF AfterInvalidation
<1>2. ASSUME NEW at \in EventTimes, TimedEvent(at) PROVE IInv'
  BY <1>2, TimedEventStep
<1>3. ASSUME NEW w \in Windows, WindowEvent(w) PROVE IInv'
  BY <1>3, WindowEventStep
<1>4. CASE UNCHANGED vars
  <2>1. SeenIsLate' /\ seen' \subseteq Keys /\ row' \in Row
    BY <1>4 DEF SeenIsLate, Late, IInv, TypeOK
  <2>2. QED
    BY <1>4, <2>1, IgnoredStep
<1>5. QED
  BY <1>1, <1>2, <1>3, <1>4 DEF Next

(* The replay never leaves the invariant: its state has its types, relies  *)
(* only on fresh evidence after the barrier, reports a status its streaks  *)
(* bear out and has outrun every window it has seen.                       *)
THEOREM Invariance == Spec => []IInv
  BY InitIInv, NextIInv, PTL DEF Spec

(* Every variable of the replay always has the type the code declares. *)
THEOREM TypeCorrect == Spec => []TypeOK
  BY Invariance, PTL DEF IInv

(* No streak or latch outlives a silence of StaleMs the stream has seen. *)
THEOREM EvidenceIsFresh == Spec => []FreshEvidence
  BY Invariance, PTL DEF IInv

(* No time before the barrier is ever credited, nor any instant twice. *)
THEOREM CreditIsAfterBarrier == Spec => []CreditAfterBarrier
  BY Invariance, PTL DEF IInv

(* The reported status always agrees with the latch and the streaks. *)
THEOREM StatusIsTrue == Spec => []StatusAgrees
  BY Invariance, PTL DEF IInv

(* A second delivery of any window would be ignored even without the       *)
(* duplicate rule.                                                         *)
THEOREM SecondDeliveryIsLate == Spec => []SeenIsLate
  BY Invariance, PTL DEF IInv

-----------------------------------------------------------------------------
(* Every step leaves the clocks and the ledger where they are or moves     *)
(* them forward.                                                           *)
LEMMA NextNoRewind == IInv /\ [Next]_vars => [NoRewind]_vars
<1> SUFFICES ASSUME IInv, Next PROVE NoRewind
  BY DEF NoRewind
<1> DEFINE Forward ==
      /\ watermark_ms' >= watermark_ms
      /\ barrier_ms' >= barrier_ms
      /\ last_window_end_ms # Null =>
           last_window_end_ms' # Null /\ last_window_end_ms' >= last_window_end_ms
      /\ proposals' >= proposals
<1>0. ASSUME Forward, ~stream_invalidated PROVE NoRewind
  BY <1>0 DEF NoRewind
<1> USE NullAssumption, ThresholdAssumption DEF IInv, TypeOK, NoRewind
<1>1. CASE AfterInvalidation
  BY <1>1 DEF AfterInvalidation
<1>2. ASSUME NEW at \in EventTimes, TimedEvent(at) PROVE NoRewind
  <2>1. CASE Reset(at)
    <3>1. Forward
      BY <2>1 DEF Reset, Later, ClocksOrdered
    <3>2. QED
      BY <1>0, <2>1, <3>1 DEF Reset
  <2>2. CASE ReversedTick(at)
    <3>1. Forward
      BY <2>2 DEF ReversedTick
    <3>2. QED
      BY <1>0, <2>2, <3>1 DEF ReversedTick
  <2>3. CASE StaleTick(at)
    BY <2>3 DEF StaleTick, ClocksOrdered
  <2>4. CASE FreshTick(at)
    BY <2>4 DEF FreshTick
  <2>5. CASE NoPassiveWindow(at)
    BY <2>5 DEF NoPassiveWindow, Later, ClocksOrdered
  <2>6. QED
    BY <1>2, <2>1, <2>2, <2>3, <2>4, <2>5 DEF TimedEvent
<1>3. ASSUME NEW w \in Windows, WindowEvent(w) PROVE NoRewind
  <2>0. w.start_ms \in Nat /\ w.end_ms \in Nat /\ w.start_ms < w.end_ms
    BY WindowType
  <2>1. CASE ForeignWindow(w)
    <3>1. Forward
      BY <2>1 DEF ForeignWindow
    <3>2. QED
      BY <1>0, <2>1, <3>1 DEF ForeignWindow
  <2>2. CASE DuplicateWindow(w)
    BY <2>2 DEF DuplicateWindow
  <2>3. CASE LateWindow(w)
    BY <2>3 DEF LateWindow, FirstSight
  <2>4. CASE OtherStratum(w)
    <3>1. Forward
      BY <2>0, <2>4 DEF OtherStratum, FirstSight, Late, ClocksOrdered
    <3>2. QED
      BY <1>0, <2>4, <3>1 DEF OtherStratum, FirstSight
  <2>5. CASE OverlappingWindow(w)
    BY <2>0, <2>5 DEF OverlappingWindow, FirstSight, Late, ClocksOrdered
  <2>6. CASE BlockedWindow(w)
    BY <2>0, <2>6 DEF BlockedWindow, InOrder, FirstSight, Late, ClocksOrdered
  <2>7. CASE UsableWindow(w)
    <3>1. /\ UNCHANGED ledger \/ proposals' = proposals + 1
          /\ \E class : Usable(w, class)
      BY <2>7 DEF UsableWindow, LowPending, BudgetExhausted, Cooldown, Probe,
                  PersistentLow, RecoveryPending, Healthy, Band
    <3>2. /\ ~Late(w) /\ ~BeforeBarrier(w) /\ ~stream_invalidated
          /\ watermark_ms' = w.end_ms /\ last_window_end_ms' = w.end_ms
          /\ barrier_ms' = IF Gap(w) THEN w.start_ms ELSE barrier_ms
      BY <3>1 DEF Usable, InOrder, FirstSight
    <3>3. QED
      BY <2>0, <3>1, <3>2 DEF Late, BeforeBarrier
  <2>8. QED
    BY <1>3, <2>1, <2>2, <2>3, <2>4, <2>5, <2>6, <2>7 DEF WindowEvent
<1>4. QED
  BY <1>1, <1>2, <1>3 DEF Next

(* The clocks and the ledger only move forward, invalidation is final. *)
THEOREM NothingRewinds == Spec => NeverRewinds
<1>1. Spec => []IInv
  BY Invariance
<1>2. IInv /\ [Next]_vars => [NoRewind]_vars
  BY NextNoRewind
<1>3. QED
  BY <1>1, <1>2, PTL DEF Spec, NeverRewinds
-----------------------------------------------------------------------------
(***************************************************************************)
(* The auditor never finds the replay out: every probe was justified, the  *)
(* ledger is true, the latch obeys its hysteresis, and the ledger is a     *)
(* probe budget.  The argument is one invariant: while the detector counts *)
(* a streak, the auditor's run is that streak.                             *)
(***************************************************************************)
USE DEF audit, auditVars

(* What the replay's counters say, the rows show. *)
RunIsStreak ==
  /\ run \in Run
  /\ run.class = "low" <=> bad_windows > 0
  /\ run.class = "recovered" <=> good_windows > 0
  /\ bad_windows = 0 => bad_duration_ms = 0
  /\ good_windows = 0 => good_duration_ms = 0
  /\ run.class \in {"low", "recovered"} =>
       /\ run.unbroken
       /\ run.to_ms = last_valid_end_ms
       /\ run.windows = bad_windows + good_windows
       /\ run.to_ms - run.from_ms = bad_duration_ms + good_duration_ms

(* Proposals are filed with their types and none after the last one. *)
FiledInOrder ==
  /\ filed \in Seq([at : Nat, run : Run])
  /\ \A i \in DOMAIN filed : filed[i].at <= last_proposal_ms

(* The inductive invariant of the audit. *)
AInv == IInv /\ RunIsStreak /\ FiledInOrder /\ ProbesJustified /\ LedgerTrue

(* The audit starts in the invariant: no run, nothing filed. *)
LEMMA InitAInv == AuditInit => AInv
<1> SUFFICES ASSUME AuditInit PROVE AInv
  OBVIOUS
<1>1. IInv
  BY InitIInv DEF AuditInit
<1>2. RunIsStreak
  <2>1. run \in Run /\ run.class = "none"
    BY DEF AuditInit, NoRun, Run
  <2>2. bad_windows = 0 /\ good_windows = 0 /\ bad_duration_ms = 0 /\ good_duration_ms = 0
    BY DEF AuditInit, Init, Cleared
  <2>3. QED
    BY <2>1, <2>2 DEF RunIsStreak
<1>3. FiledInOrder /\ ProbesJustified /\ LedgerTrue
  BY DEF AuditInit, Init, FiledInOrder, ProbesJustified, LedgerTrue
<1>4. QED
  BY <1>1, <1>2, <1>3 DEF AInv

-----------------------------------------------------------------------------
(* Rows that clear the detector end the auditor's run. *)
LEMMA ClearedRun ==
  ASSUME Clear, Follow(row'), row'.classification = "unavailable", ~Ignored(row')
  PROVE  RunIsStreak'
<1>1. run' = NoRun
  BY DEF Follow, Classes
<1>2. run' \in Run /\ run'.class = "none"
  BY <1>1 DEF NoRun, Run
<1>3. QED
  BY <1>2 DEF RunIsStreak, Clear

(* Rows that say the event was ignored leave both untouched. *)
LEMMA IgnoredRun ==
  ASSUME RunIsStreak, UNCHANGED detector, Follow(row'), Ignored(row')
  PROVE  RunIsStreak'
  BY DEF Follow, RunIsStreak

(* A usable low or recovered window grows the streak and the run alike. *)
LEMMA GrownRun ==
  ASSUME AInv, NEW w \in Windows, NEW class \in {"low", "recovered"},
         Usable(w, class), Follow(row'),
         NEW recommendation, NEW reason \in Reasons \ {"gap_reset"},
         reason \notin {"tick_only", "duplicate_window", "out_of_order"},
         Classified(w, class, recommendation, reason),
         (class = "low" /\ GrowBad(w)) \/ (class = "recovered" /\ GrowGood(w))
  PROVE  RunIsStreak' /\ run'.class = class /\ run'.to_ms = w.end_ms
<1>1. /\ row'.window = w /\ row'.classification = class
      /\ row'.reasons = GapReason(w) \cup {reason}
  BY DEF Classified
<1>2. ~Ignored(row') /\ ("gap_reset" \in row'.reasons <=> Gap(w))
  BY <1>1 DEF Ignored, GapReason
<1>3. /\ w.start_ms \in Nat /\ w.end_ms \in Nat /\ w.start_ms < w.end_ms
      /\ last_valid_end_ms' = w.end_ms
  BY UsableFacts DEF AInv
<1>4. /\ bad_windows \in Nat /\ bad_duration_ms \in Nat
      /\ good_windows \in Nat /\ good_duration_ms \in Nat
      /\ bad_windows = 0 \/ good_windows = 0
  BY DEF AInv, IInv, TypeOK, StatusAgrees
<1>5. /\ run.class \in Classes \cup {"none"} /\ run.windows \in Nat
      /\ run.from_ms \in Nat /\ run.to_ms \in Nat /\ run.unbroken \in BOOLEAN
  BY DEF AInv, RunIsStreak, Run
<1>6. CASE Continues(row')
  <2>1. run.class = class /\ ~Gap(w) /\ run' = Extended(row')
    BY <1>1, <1>2, <1>6 DEF Continues, Follow, Classes
  <2>2. /\ run.unbroken /\ run.to_ms = last_valid_end_ms
        /\ run.windows = bad_windows + good_windows
        /\ run.to_ms - run.from_ms = bad_duration_ms + good_duration_ms
        /\ class = "low" => bad_windows > 0
        /\ class = "recovered" => good_windows > 0
    BY <2>1 DEF AInv, RunIsStreak
  <2>3. w.start_ms = run.to_ms
    <3>1. ~Cleared
      BY <2>2 DEF Cleared
    <3>2. last_window_end_ms # Null /\ last_valid_end_ms = last_window_end_ms
      BY <3>1 DEF AInv, IInv, FreshEvidence
    <3>3. ~Overlaps(w) /\ last_window_end_ms \in Nat
      BY <3>2 DEF Usable, InOrder, AInv, IInv, TypeOK
    <3>4. QED
      BY <1>3, <2>1, <2>2, <3>2, <3>3 DEF Gap, Overlaps
  <2>4. /\ run'.class = class /\ run'.windows = run.windows + 1
        /\ run'.from_ms = run.from_ms /\ run'.to_ms = w.end_ms
        /\ run'.unbroken = TRUE
    BY <1>1, <2>1, <2>2, <2>3 DEF Extended
  <2>5. run' \in Run
    <3>1. run' = [class |-> class, windows |-> run.windows + 1,
                  from_ms |-> run.from_ms, to_ms |-> w.end_ms, unbroken |-> TRUE]
      BY <1>1, <2>1, <2>2, <2>3 DEF Extended
    <3>2. QED
      BY <1>3, <1>5, <3>1 DEF Run, Classes
  <2>6. CASE class = "low" /\ GrowBad(w)
    <3>1. /\ bad_windows' = bad_windows + 1
          /\ bad_duration_ms' = bad_duration_ms + (w.end_ms - w.start_ms)
          /\ good_windows' = 0 /\ good_duration_ms' = 0
      BY <2>1, <2>6 DEF GrowBad, Kept, Duration
    <3>2. good_windows = 0 /\ good_duration_ms = 0
      BY <1>4, <2>2, <2>6 DEF AInv, RunIsStreak
    <3>3. QED
      BY <1>3, <1>4, <1>5, <2>2, <2>3, <2>4, <2>5, <2>6, <3>1, <3>2 DEF RunIsStreak
  <2>7. CASE class = "recovered" /\ GrowGood(w)
    <3>1. /\ good_windows' = good_windows + 1
          /\ good_duration_ms' = good_duration_ms + (w.end_ms - w.start_ms)
          /\ bad_windows' = 0 /\ bad_duration_ms' = 0
      BY <2>1, <2>7 DEF GrowGood, Kept, Duration
    <3>2. bad_windows = 0 /\ bad_duration_ms = 0
      BY <1>4, <2>2, <2>7 DEF AInv, RunIsStreak
    <3>3. QED
      BY <1>3, <1>4, <1>5, <2>2, <2>3, <2>4, <2>5, <2>7, <3>1, <3>2 DEF RunIsStreak
  <2>8. QED
    BY <2>4, <2>6, <2>7
<1>7. CASE ~Continues(row')
  <2>1. (Gap(w) \/ run.class # class) /\ run' = Started(row')
    BY <1>1, <1>2, <1>7 DEF Continues, Follow, Classes
  <2>2. run' = [class |-> class, windows |-> 1, from_ms |-> w.start_ms,
                to_ms |-> w.end_ms, unbroken |-> TRUE]
    BY <1>1, <2>1 DEF Started
  <2>3. run' \in Run
    BY <1>3, <2>2 DEF Run, Classes
  <2>4. CASE class = "low" /\ GrowBad(w)
    <3>1. Gap(w) \/ (bad_windows = 0 /\ bad_duration_ms = 0)
      BY <1>4, <2>1, <2>4 DEF AInv, RunIsStreak
    <3>2. /\ bad_windows' = 1 /\ bad_duration_ms' = w.end_ms - w.start_ms
          /\ good_windows' = 0 /\ good_duration_ms' = 0
      BY <1>3, <2>4, <3>1 DEF GrowBad, Kept, Duration
    <3>3. QED
      BY <1>3, <2>2, <2>3, <2>4, <3>2 DEF RunIsStreak
  <2>5. CASE class = "recovered" /\ GrowGood(w)
    <3>1. Gap(w) \/ (good_windows = 0 /\ good_duration_ms = 0)
      BY <1>4, <2>1, <2>5 DEF AInv, RunIsStreak
    <3>2. /\ good_windows' = 1 /\ good_duration_ms' = w.end_ms - w.start_ms
          /\ bad_windows' = 0 /\ bad_duration_ms' = 0
      BY <1>3, <2>5, <3>1 DEF GrowGood, Kept, Duration
    <3>3. QED
      BY <1>3, <2>2, <2>3, <2>5, <3>2 DEF RunIsStreak
  <2>6. QED
    BY <2>2, <2>4, <2>5
<1>8. QED
  BY <1>6, <1>7

(* A window in the hysteresis band ends the streak; the run is of its class.*)
LEMMA BandRun ==
  ASSUME AInv, NEW w \in Windows, Band(w), Follow(row')
  PROVE  RunIsStreak' /\ run'.class = "band"
<1>1. /\ row'.window = w /\ row'.classification = "band"
      /\ row'.reasons = GapReason(w) \cup {"hysteresis_band"}
  BY DEF Band, Classified
<1>2. ~Ignored(row')
  BY <1>1 DEF Ignored, GapReason
<1>3. /\ w.start_ms \in Nat /\ w.end_ms \in Nat
  BY WindowType
<1>4. run' = Extended(row') \/ run' = Started(row')
  BY <1>1, <1>2 DEF Follow, Classes
<1>5. run'.class = "band"
  BY <1>1, <1>2 DEF Follow, Continues, Extended, Started, Classes
<1>6. run' \in Run
  <2>1. CASE run' = Extended(row')
    <3>1. (run.unbroken /\ w.start_ms = run.to_ms) \in BOOLEAN
      OBVIOUS
    <3>2. run.class \in Classes \cup {"none"} /\ run.windows \in Nat /\ run.from_ms \in Nat
      BY DEF AInv, RunIsStreak, Run
    <3>3. QED
      BY <1>1, <1>3, <2>1, <3>1, <3>2 DEF Extended, Run
  <2>2. CASE run' = Started(row')
    BY <1>1, <1>3, <2>2 DEF Started, Run, Classes
  <2>3. QED
    BY <1>4, <2>1, <2>2
<1>7. QED
  BY <1>5, <1>6 DEF Band, RunIsStreak

-----------------------------------------------------------------------------
Filings == FiledInOrder /\ ProbesJustified /\ LedgerTrue

(* Without a probe the ledger and the file stay as they are. *)
LEMMA NoFiling ==
  ASSUME Filings, UNCHANGED ledger, File(row'), row'.recommendation # "probe"
  PROVE  Filings'
<1>1. filed' = filed
  BY DEF File
<1>2. QED
  BY <1>1 DEF Filings, FiledInOrder, ProbesJustified, LedgerTrue

(* A probe is filed with the run that justifies it, CooldownMs or more     *)
(* after the one filed before.                                             *)
LEMMA Filing ==
  ASSUME AInv, NEW w \in Windows, Probe(w), Follow(row'), File(row'),
         RunIsStreak', run'.class = "low", run'.to_ms = w.end_ms
  PROVE  Filings'
<1> DEFINE new == [at |-> w.end_ms, run |-> run']
<1>1. filed' = Append(filed, new)
  BY DEF File, Probe, Classified
<1>2. new \in [at : Nat, run : Run] /\ new.at = w.end_ms /\ new.run = run'
  BY WindowType DEF RunIsStreak
<1>3. filed \in Seq([at : Nat, run : Run]) /\ Len(filed) \in Nat
  BY DEF AInv, FiledInOrder
<1> HIDE DEF new
<1>4. /\ filed' \in Seq([at : Nat, run : Run]) /\ Len(filed') = Len(filed) + 1
      /\ filed'[Len(filed')] = new
      /\ \A i \in DOMAIN filed' : i \in DOMAIN filed \/ i = Len(filed')
      /\ \A i \in DOMAIN filed : filed'[i] = filed[i] /\ i < Len(filed')
  BY <1>1, <1>2, <1>3
<1>5. last_proposal_ms' = w.end_ms /\ proposals' = proposals + 1 /\ ~Cooling(w.end_ms)
  BY DEF Probe
<1>6. \A i \in DOMAIN filed : filed[i].at \in Nat /\ w.end_ms - filed[i].at >= CooldownMs
  <2> SUFFICES ASSUME NEW i \in DOMAIN filed
               PROVE  filed[i].at \in Nat /\ w.end_ms - filed[i].at >= CooldownMs
    OBVIOUS
  <2>1. Len(filed) \in DOMAIN filed /\ filed # <<>>
    BY <1>3
  <2>2. last_proposal_ms = filed[Len(filed)].at
    BY <2>1 DEF AInv, LedgerTrue
  <2>3. filed[i].at \in Nat /\ last_proposal_ms \in Nat
    <3> DEFINE S == [at : Nat, run : Run]
    <3>0. filed \in Seq(S)
      BY <1>3
    <3> HIDE DEF S
    <3>1. filed[i] \in S /\ filed[Len(filed)] \in S
      BY <2>1, <3>0
    <3> USE DEF S
    <3>2. QED
      BY <2>2, <3>1
  <2>4. filed[i].at <= last_proposal_ms
    BY DEF AInv, FiledInOrder
  <2>5. w.end_ms - last_proposal_ms >= CooldownMs
    BY <1>5, <2>3, WindowType, NullAssumption, ThresholdAssumption DEF Cooling
  <2>6. QED
    BY <2>3, <2>4, <2>5, WindowType, ThresholdAssumption
<1>7. FiledInOrder'
  <2>1. ASSUME NEW i \in DOMAIN filed' PROVE filed'[i].at <= w.end_ms
    <3>1. CASE i = Len(filed')
      BY <1>2, <1>4, <3>1, WindowType
    <3>2. CASE i \in DOMAIN filed
      <4>1. filed'[i] = filed[i]
        BY <1>4, <3>2, Zenon
      <4>2. PICK a \in Nat : a = filed[i].at /\ w.end_ms - a >= CooldownMs
        BY <1>6, <3>2
      <4>3. a <= w.end_ms
        BY <4>2, WindowType, ThresholdAssumption
      <4> QED
        BY <4>1, <4>2, <4>3
    <3> QED
      BY <1>4, <3>1, <3>2, Zenon
  <2>2. QED
    BY <1>4, <1>5, <2>1 DEF FiledInOrder
<1>8. ProbesJustified'
  <2>1. Lasts(run', EntryWindows, EntryMs)
    <3>1. /\ run'.unbroken /\ run'.windows = bad_windows' + good_windows'
          /\ run'.to_ms - run'.from_ms = bad_duration_ms' + good_duration_ms'
      BY DEF RunIsStreak
    <3>2. /\ good_windows' = 0 /\ good_duration_ms' = 0
          /\ bad_windows' >= EntryWindows /\ bad_duration_ms' >= EntryMs
      BY DEF Probe, PersistentLow, GrowBad, Persistent
    <3>3. bad_windows' \in Nat /\ bad_duration_ms' \in Nat
      BY LowStep DEF Probe, PersistentLow, AInv
    <3>4. QED
      BY <3>1, <3>2, <3>3 DEF Lasts
  <2>2. ASSUME NEW i \in DOMAIN filed'
        PROVE  /\ filed'[i].run.class = "low"
               /\ filed'[i].run.to_ms = filed'[i].at
               /\ Lasts(filed'[i].run, EntryWindows, EntryMs)
    <3>1. CASE i \in DOMAIN filed
      BY <1>4, <3>1 DEF AInv, ProbesJustified
    <3>2. CASE i = Len(filed')
      BY <1>2, <1>4, <2>1, <3>2
    <3>3. QED
      BY <1>4, <3>1, <3>2
  <2>3. QED
    BY <2>2 DEF ProbesJustified
<1>9. LedgerTrue'
  <2>1. proposals' = Len(filed') /\ filed' # <<>>
    BY <1>3, <1>4, <1>5 DEF AInv, LedgerTrue
  <2>2. last_proposal_ms' = filed'[Len(filed')].at
    BY <1>2, <1>4, <1>5
  <2>3. ASSUME NEW i \in DOMAIN filed', NEW j \in DOMAIN filed', i < j
        PROVE  filed'[j].at - filed'[i].at >= CooldownMs
    <3>1. i \in DOMAIN filed
      BY <1>3, <1>4, <2>3
    <3>2. CASE j \in DOMAIN filed
      BY <1>4, <2>3, <3>1, <3>2 DEF AInv, LedgerTrue
    <3>3. CASE j = Len(filed')
      BY <1>2, <1>4, <1>6, <3>1, <3>3
    <3>4. QED
      BY <1>4, <3>2, <3>3
  <2>4. QED
    BY <2>1, <2>2, <2>3 DEF LedgerTrue
<1>10. QED
  BY <1>7, <1>8, <1>9 DEF Filings

-----------------------------------------------------------------------------
(* Each event of the replay, as the auditor sees it. *)
LEMMA TimedEventAudit ==
  ASSUME AInv, NEW at \in EventTimes, TimedEvent(at), Follow(row'), File(row')
  PROVE  RunIsStreak' /\ Filings'
<1>0. RunIsStreak /\ Filings
  BY DEF AInv, Filings
<1>1. CASE FreshTick(at)
  <2>1. Ignored(row') /\ row'.recommendation # "probe"
    BY <1>1 DEF FreshTick, Unavailable, Ignored
  <2>2. QED
    BY <1>0, <1>1, <2>1, IgnoredRun, NoFiling DEF FreshTick
<1>2. CASE Reset(at) \/ ReversedTick(at) \/ StaleTick(at) \/ NoPassiveWindow(at)
  <2>1. /\ Clear /\ UNCHANGED ledger
        /\ \E reason \in {"stream_reset", "clock_reversed", "stale",
                          "missing_measurements", "not_passive_window"} :
             Unavailable(Null, {reason})
    BY <1>2 DEF Reset, ReversedTick, StaleTick, NoPassiveWindow
  <2>2. /\ ~Ignored(row') /\ row'.classification = "unavailable"
        /\ row'.recommendation # "probe"
    BY <2>1 DEF Unavailable, Ignored
  <2>3. QED
    BY <1>0, <2>1, <2>2, ClearedRun, NoFiling
<1>3. QED
  BY <1>1, <1>2 DEF TimedEvent

(* A low window, pending or persistent, keeps the run in step with the streak. *)
LEMMA LowAudit ==
  ASSUME AInv, NEW w \in Windows, Follow(row'), File(row'),
         LowPending(w) \/ BudgetExhausted(w) \/ Cooldown(w) \/ Probe(w)
  PROVE  RunIsStreak' /\ Filings'
<1>0. RunIsStreak /\ Filings
  BY DEF AInv, Filings
<1>1. Usable(w, "low") /\ GrowBad(w)
  BY DEF LowPending, BudgetExhausted, Cooldown, Probe, PersistentLow
<1>2. PICK recommendation \in Recommendations,
           reason \in {"entry_pending", "proposal_budget_exhausted",
                       "cooldown_active", "persistent_degradation"} :
        Classified(w, "low", recommendation, reason)
  BY DEF LowPending, BudgetExhausted, Cooldown, Probe, Recommendations
<1>3. reason \in Reasons \ {"gap_reset"}
      /\ reason \notin {"tick_only", "duplicate_window", "out_of_order"}
  BY <1>2 DEF Reasons
<1>4. RunIsStreak' /\ run'.class = "low" /\ run'.to_ms = w.end_ms
  BY <1>1, <1>2, <1>3, GrownRun
<1>5. CASE Probe(w)
  BY <1>4, <1>5, Filing
<1>6. CASE LowPending(w) \/ BudgetExhausted(w) \/ Cooldown(w)
  <2>1. UNCHANGED ledger /\ row'.recommendation # "probe"
    BY <1>6 DEF LowPending, BudgetExhausted, Cooldown, Classified
  <2>2. QED
    BY <1>0, <1>4, <2>1, NoFiling
<1>7. QED
  BY <1>5, <1>6

(* A recovered window keeps the run in step with the streak. *)
LEMMA RecoveredAudit ==
  ASSUME AInv, NEW w \in Windows, Follow(row'), File(row'),
         RecoveryPending(w) \/ Healthy(w)
  PROVE  RunIsStreak' /\ Filings' /\ run'.class = "recovered"
<1>0. RunIsStreak /\ Filings
  BY DEF AInv, Filings
<1>1. Usable(w, "recovered") /\ GrowGood(w)
  BY DEF RecoveryPending, Healthy
<1>2. PICK recommendation \in Recommendations \ {"probe"},
           reason \in {"recovery_pending", "healthy"} :
        Classified(w, "recovered", recommendation, reason)
  BY DEF RecoveryPending, Healthy, Recommendations
<1>3. reason \in Reasons \ {"gap_reset"}
      /\ reason \notin {"tick_only", "duplicate_window", "out_of_order"}
  BY <1>2 DEF Reasons
<1>4. RunIsStreak' /\ run'.class = "recovered"
  BY <1>1, <1>2, <1>3, GrownRun
<1>5. UNCHANGED ledger /\ row'.recommendation # "probe"
  BY <1>2 DEF RecoveryPending, Healthy, Classified
<1>6. QED
  BY <1>0, <1>4, <1>5, NoFiling

(* Any window event keeps the audit invariant. *)
LEMMA WindowEventAudit ==
  ASSUME AInv, NEW w \in Windows, WindowEvent(w), Follow(row'), File(row')
  PROVE  RunIsStreak' /\ Filings'
<1>0. RunIsStreak /\ Filings
  BY DEF AInv, Filings
<1>1. CASE DuplicateWindow(w) \/ LateWindow(w)
  <2>1. UNCHANGED stateVars /\ Ignored(row') /\ row'.recommendation # "probe"
    BY <1>1 DEF DuplicateWindow, LateWindow, Unavailable, Ignored
  <2>2. QED
    BY <1>0, <2>1, IgnoredRun, NoFiling
<1>2. CASE \/ ForeignWindow(w) \/ OtherStratum(w)
           \/ OverlappingWindow(w) \/ BlockedWindow(w)
  <2>1. /\ Clear /\ UNCHANGED ledger
        /\ \E reasons \in SUBSET (Reasons \ {"tick_only", "duplicate_window", "out_of_order"}) :
             Unavailable(w, reasons)
    <3>1. CASE BlockedWindow(w)
      <4>1. GapReason(w) \cup Blocking(w)
              \in SUBSET (Reasons \ {"tick_only", "duplicate_window", "out_of_order"})
        BY WindowType DEF GapReason, Blocking, Reasons, Exclusions
      <4>2. QED
        BY <3>1, <4>1 DEF BlockedWindow
    <3>2. CASE ForeignWindow(w)
      BY <3>2 DEF ForeignWindow, Reasons
    <3>3. CASE OtherStratum(w)
      BY <3>3 DEF OtherStratum, Reasons
    <3>4. CASE OverlappingWindow(w)
      BY <3>4 DEF OverlappingWindow, Reasons
    <3>5. QED
      BY <1>2, <3>1, <3>2, <3>3, <3>4
  <2>2. /\ ~Ignored(row') /\ row'.classification = "unavailable"
        /\ row'.recommendation # "probe"
    BY <2>1 DEF Unavailable, Ignored
  <2>3. QED
    BY <1>0, <2>1, <2>2, ClearedRun, NoFiling
<1>3. CASE Band(w)
  <2>1. UNCHANGED ledger /\ row'.recommendation # "probe"
    BY <1>3 DEF Band, Classified
  <2>2. QED
    BY <1>0, <1>3, <2>1, BandRun, NoFiling
<1>4. CASE LowPending(w) \/ BudgetExhausted(w) \/ Cooldown(w) \/ Probe(w)
  BY <1>4, LowAudit
<1>5. CASE RecoveryPending(w) \/ Healthy(w)
  BY <1>5, RecoveredAudit
<1>6. QED
  BY <1>1, <1>2, <1>3, <1>4, <1>5 DEF WindowEvent, UsableWindow

(* Any step keeps the audit invariant. *)
LEMMA NextAInv == AInv /\ [AuditNext]_auditVars => AInv'
<1> SUFFICES ASSUME AInv, [AuditNext]_auditVars PROVE AInv'
  OBVIOUS
<1>1. CASE AuditNext
  <2>1. IInv'
    BY <1>1, NextIInv DEF AuditNext, AInv
  <2>2. RunIsStreak' /\ Filings'
    <3>1. CASE AfterInvalidation
      <4>1. /\ UNCHANGED stateVars /\ Clear
            /\ \E w \in Windows \cup {Null} : Unavailable(w, {"stream_invalidated"})
        BY <3>1 DEF AfterInvalidation, AInv, IInv, StatusAgrees, Cleared, Clear
      <4>2. /\ ~Ignored(row') /\ row'.classification = "unavailable"
            /\ row'.recommendation # "probe"
        BY <4>1 DEF Unavailable, Ignored
      <4>3. QED
        BY <1>1, <4>1, <4>2, ClearedRun, NoFiling DEF AuditNext, AInv, Filings
    <3>2. ASSUME NEW at \in EventTimes, TimedEvent(at) PROVE RunIsStreak' /\ Filings'
      BY <1>1, <3>2, TimedEventAudit DEF AuditNext
    <3>3. ASSUME NEW w \in Windows, WindowEvent(w) PROVE RunIsStreak' /\ Filings'
      BY <1>1, <3>3, WindowEventAudit DEF AuditNext
    <3>4. QED
      BY <1>1, <3>1, <3>2, <3>3 DEF AuditNext, Next
  <2>3. QED
    BY <2>1, <2>2 DEF AInv, Filings
<1>2. CASE UNCHANGED auditVars
  <2>1. IInv'
    BY <1>2, NextIInv DEF AInv
  <2>2. QED
    BY <1>2, <2>1 DEF AInv, RunIsStreak, FiledInOrder, ProbesJustified, LedgerTrue
<1>3. QED
  BY <1>1, <1>2

(* The counters of the replay always agree with the run the auditor sees   *)
(* in its rows, and every filed proposal is justified and accounted for.   *)
THEOREM AuditInvariance == AuditSpec => []AInv
  BY InitAInv, NextAInv, PTL DEF AuditSpec

(* Every probe of every replay was proposed at the end of an unbroken run  *)
(* of low windows that is long enough in windows and in milliseconds.      *)
THEOREM EveryProbeJustified == AuditSpec => []ProbesJustified
  BY AuditInvariance, PTL DEF AInv

(* The proposal ledger is the history of the probes, CooldownMs apart.     *)
THEOREM LedgerIsTrue == AuditSpec => []LedgerTrue
  BY AuditInvariance, PTL DEF AInv

-----------------------------------------------------------------------------
(* A step that moves the latch is the end of a run that is long enough. *)
LEMMA NextHysteresis == AInv /\ AInv' /\ [AuditNext]_auditVars => [HysteresisStep]_auditVars
<1> SUFFICES ASSUME AInv, AInv', AuditNext PROVE HysteresisStep
  OBVIOUS
<1>1. ASSUME ~degraded_latched, degraded_latched'
      PROVE  run'.class = "low" /\ Lasts(run', EntryWindows, EntryMs)
  <2>1. PICK w \in Windows : PersistentLow(w)
    <3>1. ~AfterInvalidation
      BY <1>1 DEF AfterInvalidation
    <3>2. ASSUME NEW at \in EventTimes PROVE ~TimedEvent(at)
      BY <1>1 DEF TimedEvent, Reset, ReversedTick, StaleTick, FreshTick,
                  NoPassiveWindow, Clear
    <3>3. PICK w \in Windows : WindowEvent(w)
      BY <3>1, <3>2 DEF AuditNext, Next
    <3>4. UsableWindow(w)
      BY <1>1, <3>3 DEF WindowEvent, ForeignWindow, DuplicateWindow, LateWindow,
                        OtherStratum, OverlappingWindow, BlockedWindow, Clear
    <3>5. ~Latched(w)
      BY <1>1 DEF Latched, Kept
    <3>6. PersistentLow(w)
      BY <1>1, <3>4, <3>5 DEF UsableWindow, LowPending, BudgetExhausted, Cooldown,
                              Probe, RecoveryPending, Healthy, Band
    <3>7. QED
      BY <3>6
  <2>2. /\ bad_windows' >= EntryWindows /\ bad_duration_ms' >= EntryMs
        /\ good_windows' = 0 /\ good_duration_ms' = 0
    BY <2>1 DEF PersistentLow, GrowBad, Persistent
  <2>3. /\ bad_windows' \in Nat /\ bad_duration_ms' \in Nat
    BY DEF AInv, IInv, TypeOK
  <2>4. run'.class = "low"
    BY <2>2, <2>3, ThresholdAssumption DEF AInv, RunIsStreak
  <2>5. QED
    BY <2>2, <2>3, <2>4 DEF AInv, RunIsStreak, Lasts
<1>2. ASSUME degraded_latched, ~degraded_latched', row'.classification \in Classes,
             "gap_reset" \notin row'.reasons
      PROVE  run'.class = "recovered" /\ Lasts(run', RecoveryWindows, RecoveryMs)
  <2>0. ASSUME NEW w, NEW reasons PROVE ~Unavailable(w, reasons)
    BY <1>2 DEF Unavailable, Classes
  <2>1. PICK w \in Windows : Healthy(w)
    <3>1. ~AfterInvalidation
      BY <1>2 DEF AfterInvalidation
    <3>2. ASSUME NEW at \in EventTimes PROVE ~TimedEvent(at)
      BY <2>0 DEF TimedEvent, Reset, ReversedTick, StaleTick, FreshTick,
                  NoPassiveWindow
    <3>3. PICK w \in Windows : WindowEvent(w)
      BY <3>1, <3>2 DEF AuditNext, Next
    <3>4. UsableWindow(w)
      BY <2>0, <3>3 DEF WindowEvent, ForeignWindow, DuplicateWindow, LateWindow,
                        OtherStratum, OverlappingWindow, BlockedWindow
    <3>5. ~Gap(w)
      BY <1>2, <3>4 DEF UsableWindow, LowPending, BudgetExhausted, Cooldown, Probe,
                        RecoveryPending, Healthy, Band, Classified, GapReason
    <3>6. Latched(w)
      BY <1>2, <3>5 DEF Latched, Kept
    <3>7. Healthy(w)
      BY <1>2, <3>4, <3>6 DEF UsableWindow, LowPending, BudgetExhausted, Cooldown,
                              Probe, PersistentLow, RecoveryPending, Band
    <3>8. QED
      BY <3>7
  <2>2. /\ good_windows' >= RecoveryWindows /\ good_duration_ms' >= RecoveryMs
        /\ bad_windows' = 0 /\ bad_duration_ms' = 0
    BY <2>1 DEF Healthy, GrowGood, Restored
  <2>3. /\ good_windows' \in Nat /\ good_duration_ms' \in Nat
    BY DEF AInv, IInv, TypeOK
  <2>4. run'.class = "recovered"
    BY <2>2, <2>3, ThresholdAssumption DEF AInv, RunIsStreak
  <2>5. QED
    BY <2>2, <2>3, <2>4 DEF AInv, RunIsStreak, Lasts
<1>3. QED
  BY <1>1, <1>2 DEF HysteresisStep

(* The latch rises and, among contiguous usable windows, falls only on an  *)
(* unbroken run that is long enough.                                       *)
THEOREM LatchHysteresis == AuditSpec => Hysteresis
<1>1. AInv /\ AInv' /\ [AuditNext]_auditVars => [HysteresisStep]_auditVars
  BY NextHysteresis
<1>2. QED
  BY <1>1, AuditInvariance, PTL DEF AuditSpec, Hysteresis

(* A step that touches the ledger is a grant of the abstract budget. *)
LEMMA NextGrant == AInv /\ [AuditNext]_auditVars => [Budget!Grant]_(Budget!vars)
<1> SUFFICES ASSUME AInv, AuditNext, ~UNCHANGED ledger PROVE Budget!Grant
  BY DEF Budget!vars
<1>1. PICK w \in Windows : Probe(w)
  <2>1. ~AfterInvalidation /\ \A at \in EventTimes : ~TimedEvent(at)
    BY DEF AfterInvalidation, TimedEvent, Reset, ReversedTick, StaleTick, FreshTick,
           NoPassiveWindow
  <2>2. PICK w \in Windows : WindowEvent(w)
    BY <2>1 DEF AuditNext, Next
  <2>3. Probe(w)
    BY <2>2 DEF WindowEvent, ForeignWindow, DuplicateWindow, LateWindow, OtherStratum,
                OverlappingWindow, BlockedWindow, UsableWindow, LowPending,
                BudgetExhausted, Cooldown, RecoveryPending, Healthy, Band
  <2>4. QED
    BY <2>3
<1>2. /\ proposals < MaxProposals /\ proposals' = proposals + 1
      /\ last_proposal_ms' = w.end_ms /\ ~Cooling(w.end_ms)
  BY <1>1 DEF Probe
<1>3. w.end_ms \in Nat /\ last_proposal_ms \in Nat \cup {Null}
  BY WindowType DEF AInv, IInv, TypeOK
<1>4. last_proposal_ms # Null => w.end_ms >= last_proposal_ms + CooldownMs
  BY <1>2, <1>3, NullAssumption, ThresholdAssumption DEF Cooling
<1>5. QED
  BY <1>2, <1>3, <1>4 DEF Budget!Grant

(* The replay implements the probe budget. *)
THEOREM BudgetRefined == AuditSpec => BudgetKept
<1>1. AuditInit => Budget!Init
  BY DEF AuditInit, Init, Budget!Init
<1>2. AInv /\ [AuditNext]_auditVars => [Budget!Grant]_(Budget!vars)
  BY NextGrant
<1>3. QED
  BY <1>1, <1>2, AuditInvariance, PTL DEF AuditSpec, BudgetKept, Budget!Spec

-----------------------------------------------------------------------------
(* The inspection of what a calibration dataset declares. *)

(* What was read so far, each artifact as its receipt has it, of the files *)
(* the manifest names; and what was concluded of it. *)
Whole == [k \in DOMAIN dataset.artifacts |-> dataset.artifacts[k].content]
AsCurated ==
  /\ collection \in Collections
  /\ IsFiniteSet(DOMAIN directory) /\ (edited = None => 0 \in DOMAIN directory)
  /\ 0 \in DOMAIN directory => directory[0] = collection.dataset
AsReceipted ==
  /\ stage \in {"called", "listed"} => contents = <<>>
  /\ stage \in {"reading", "published"} =>
       /\ dataset = collection.dataset /\ Admitted(dataset)
       /\ contents \in Seq({dataset.artifacts[k].content : k \in DOMAIN dataset.artifacts})
       /\ \A k \in DOMAIN contents : k \in DOMAIN dataset.artifacts /\ contents[k] = dataset.artifacts[k].content
Reported ==
  /\ stage \in {"called", "listed", "reading", "refused", "published"}
  /\ report # None => stage = "published"
  /\ stage = "published" =>
       /\ report = Report(dataset, contents) /\ ValidReport(report)
       /\ Agreed(dataset, contents)
       /\ DOMAIN directory = Files(dataset) /\ contents = Whole
InspectionInv == AsCurated /\ AsReceipted /\ Reported

(* Where an entry is shown in the report. *)
Shown(e) == <<report.entries[e].group, report.entries[e].role, report.entries[e].partition>>
(* A measured entry is reported with its kind and its representative, and  *)
(* counts only when it is its own representative; a missing one never does. *)
LEMMA ItemsReported ==
  ASSUME report = Report(dataset, contents), NEW e \in Entries(dataset)
  PROVE /\ DOMAIN report.entries = Entries(dataset)
        /\ report.entries[e].kind # "missing" <=> e \in Measured(dataset)
        /\ e \notin Measured(dataset) => report.entries[e].reasons # {}
        /\ e \in Measured(dataset) =>
             /\ report.entries[e].first = Representative(dataset, contents, e)
             /\ report.entries[e].reasons = {} => report.entries[e].first = e
<1>1. DOMAIN report.entries = Entries(dataset) /\ report.entries[e] = Item(dataset, contents, e)
  BY DEF Report
<1>2. CASE dataset.entries[e].kind = "missing"
  <2>1. report.entries[e].kind = "missing" /\ report.entries[e].reasons = {"missing_measurements"}
    BY <1>1, <1>2 DEF Item
  <2> QED
    BY <1>1, <1>2, <2>1 DEF Measured
<1>3. CASE dataset.entries[e].kind # "missing"
  <2> DEFINE first == Representative(dataset, contents, e)
  <2>1. report.entries[e].kind = dataset.entries[e].kind /\ report.entries[e].first = first
    BY <1>1, <1>3 DEF Item
  <2>2. first # e => "duplicate_evidence" \in report.entries[e].reasons
    BY <1>1, <1>3 DEF Item
  <2> QED
    BY <1>1, <1>3, <2>1, <2>2 DEF Measured
<1> QED
  BY <1>2, <1>3

(* Twins have the same representative. *)
LEMMA TwinsShareRepresentative ==
  ASSUME NEW e \in Measured(dataset), NEW f \in Measures(e)
  PROVE /\ f \in Measured(dataset)
        /\ Measures(f) = Measures(e) /\ e \in Measures(e)
        /\ Representative(dataset, contents, f) = Representative(dataset, contents, e)
<1>1. f \in Measured(dataset) /\ Measures(f) = Measures(e) /\ e \in Measures(e)
  BY DEF Measures
<1>2. \A x : Twins(dataset, contents, x) = Measures(x)
  BY DEF Twins, Measures, ContentOf, Identity
<1> QED
  BY <1>1, <1>2 DEF Representative

(* The validator puts what has one representative in one group, role and   *)
(* partition. *)
LEMMA TwinsShownAlike ==
  ASSUME report = Report(dataset, contents), ValidReport(report),
         NEW e \in Measured(dataset), NEW f \in Measures(e)
  PROVE Shown(f) = Shown(e)
<1>1. e \in Entries(dataset) /\ f \in Entries(dataset) /\ f \in Measured(dataset)
  BY TwinsShareRepresentative DEF Measured
<1>2. report.entries[e].first = report.entries[f].first
  BY <1>1, ItemsReported, TwinsShareRepresentative
<1>3. ASSUME NEW x \in {e, f}
      PROVE LET item == report.entries[x]  first == report.entries[item.first] IN
            /\ item.role = report.groups[item.group].role
            /\ <<first.kind, first.group, first.partition, first.features>> = <<item.kind, item.group, item.partition, item.features>>
  <2>1. x \in DOMAIN report.entries /\ report.entries[x].kind # "missing"
    BY <1>1, ItemsReported
  <2> QED
    BY <2>1 DEF ValidReport
<1> QED
  BY <1>2, <1>3 DEF Shown

(* The values of a function on a finite set are no more than its members. *)
LEMMA NoMoreThan ==
  ASSUME NEW S, IsFiniteSet(S), NEW T, NEW f, \A t \in T : \E s \in S : f[s] = t
  PROVE Cardinality(T) <= Cardinality(S)
<1> DEFINE g == [s \in {s \in S : f[s] \in T} |-> f[s]]
           U == {s \in S : f[s] \in T}
<1>1. g \in Surjection(U, T)
  BY DEF Surjection
<1>2. IsFiniteSet(U) /\ Cardinality(U) <= Cardinality(S)
  BY FS_Subset
<1>3. IsFiniteSet(T) /\ Cardinality(T) <= Cardinality(U)
  <2> HIDE DEF U, g
  <2> QED
  BY <1>1, <1>2, FS_Surjection
<1>4. Cardinality(S) \in Nat /\ Cardinality(U) \in Nat /\ Cardinality(T) \in Nat
  BY <1>2, <1>3, FS_CardinalityType
<1> QED
  BY <1>2, <1>3, <1>4

(* Of what is reported nothing counts twice. *)
LEMMA OncePerMeasurement == FinitelyDeclared /\ InspectionInv => CountedOnce
<1> SUFFICES ASSUME FinitelyDeclared, InspectionInv, report # None PROVE CountedOnce
  BY DEF CountedOnce, Published
<1>1. report = Report(dataset, contents) /\ ValidReport(report) /\ IsFiniteSet(Entries(dataset))
  BY DEF InspectionInv, AsCurated, AsReceipted, Reported, FinitelyDeclared
<1> DEFINE M == Measured(dataset)
<1>2. M \subseteq Entries(dataset) /\ IsFiniteSet(M)
  BY <1>1, FS_Subset DEF Measured
<1>3. ASSUME NEW e \in M
      PROVE /\ \A f \in Measures(e) : Shown(f) = Shown(e)
            /\ Cardinality({f \in Measures(e) : Eligible(report.entries[f])}) <= 1
  <2> DEFINE E == {f \in Measures(e) : Eligible(report.entries[f])}
  <2>1. \A f \in Measures(e) : Shown(f) = Shown(e)
    BY <1>1, TwinsShownAlike
  <2>2. ASSUME NEW f \in E PROVE f = Representative(dataset, contents, e)
    <3>1. f \in M /\ f \in Entries(dataset)
      BY TwinsShareRepresentative, <1>2
    <3>2. report.entries[f].reasons = {}
      BY DEF Eligible
    <3> QED
      BY <1>1, <3>1, <3>2, ItemsReported, TwinsShareRepresentative
  <2>3. E \subseteq {Representative(dataset, contents, e)}
    BY <2>2
  <2>4. Cardinality(E) <= 1
    <3> DEFINE x == Representative(dataset, contents, e)
    <3>1. IsFiniteSet({x}) /\ Cardinality({x}) = 1
      BY FS_Singleton, Zenon
    <3>2. Cardinality(E) <= Cardinality({x})
      BY <2>3, <3>1, FS_Subset
    <3> QED
      BY <3>1, <3>2
  <2> QED
    BY <2>1, <2>4
<1>4. ASSUME NEW p \in DOMAIN report.partitions
      PROVE report.partitions[p].eligible_groups
              <= Cardinality({Measures(e) : e \in {f \in M : report.entries[f].partition = p}})
  <2> DEFINE items == OfPartition(report.entries, p)
             L == {e \in DOMAIN items : Eligible(items[e])}
             T == {items[e].group : e \in L}
             S == {Measures(e) : e \in {f \in M : report.entries[f].partition = p}}
             held == [m \in S |-> report.entries[CHOOSE e \in m : TRUE].group]
  <2>1. report.partitions[p].eligible_groups = Cardinality(T)
    BY <1>1 DEF Report, Counts
  <2>2. IsFiniteSet(S)
    <3> DEFINE K == {f \in M : report.entries[f].partition = p}
    <3>1. IsFiniteSet(K)
      BY <1>2, FS_Subset
    <3> HIDE DEF K
    <3>2. IsFiniteSet({Measures(e) : e \in K})
      <4> DEFINE h == [e \in K |-> Measures(e)]
                 Y == {Measures(e) : e \in K}
      <4>1. h \in Surjection(K, Y)
        BY DEF Surjection
      <4> HIDE DEF h, Y
      <4>2. IsFiniteSet(Y)
        BY <3>1, <4>1, FS_Surjection
      <4> QED
        BY <4>2 DEF Y
    <3> QED
      BY <3>2 DEF K
  <2>3. ASSUME NEW t \in T PROVE \E m \in S : held[m] = t
    <3>1. PICK e \in L : items[e].group = t
      OBVIOUS
    <3>2. e \in DOMAIN report.entries /\ report.entries[e].partition = p /\ items[e] = report.entries[e]
      BY DEF OfPartition
    <3>3. report.entries[e].reasons = {}
      BY <3>2 DEF Eligible
    <3>4. e \in Entries(dataset)
      BY <1>1, <3>2 DEF Report
    <3>5. e \in M
      BY <1>1, <3>3, <3>4, ItemsReported
    <3>6. e \in Measures(e)
      BY <3>5 DEF Measures
    <3>7. PICK f : f = (CHOOSE x \in Measures(e) : TRUE)
      OBVIOUS
    <3>8. f \in Measures(e)
      BY <3>6, <3>7
    <3>9. Shown(f) = Shown(e)
      BY <1>3, <3>5, <3>8
    <3>10. Measures(e) \in S /\ held[Measures(e)] = t
      <4>1. Measures(e) \in S
        BY <3>2, <3>5
      <4> QED
        BY <3>1, <3>2, <3>7, <3>9, <4>1 DEF Shown
    <3> QED
      BY <3>10
  <2>4. Cardinality(T) <= Cardinality(S)
    <3> HIDE DEF S, T, held
    <3> QED
    BY <2>2, <2>3, NoMoreThan
  <2> QED
    BY <2>1, <2>4
<1> QED
  BY <1>3, <1>4 DEF CountedOnce, Shown
(* Whoever changes one file, the dataset is the curator's while it lasts. *)
LEMMA KeptStep == FinitelyDeclared /\ AsCurated /\ [InspectionNext]_inspectionVars => AsCurated'
<1> SUFFICES ASSUME FinitelyDeclared, AsCurated, [InspectionNext]_inspectionVars PROVE AsCurated'
  OBVIOUS
<1>1. CASE UNCHANGED <<collection, directory, edited>>
  BY <1>1 DEF AsCurated
<1>2. ASSUME NEW k \in DOMAIN directory, Replace(k) PROVE AsCurated'
  <2>1. collection' = collection /\ edited' = k /\ k # 0 /\ directory' = [directory EXCEPT ![k] = Altered]
    BY <1>2 DEF Replace
  <2>2. edited = None
    BY <1>2 DEF Replace, Unfinished
  <2>3. DOMAIN directory' = DOMAIN directory
    BY <2>1
  <2>4. 0 \in DOMAIN directory /\ directory'[0] = directory[0]
    BY <2>1, <2>2 DEF AsCurated
  <2> QED
    BY <2>1, <2>3, <2>4 DEF AsCurated
<1>3. ASSUME NEW k \in DOMAIN directory, Discard(k) PROVE AsCurated'
  <2>1. collection' = collection /\ edited' = k /\ directory' = [n \in DOMAIN directory \ {k} |-> directory[n]]
    BY <1>3 DEF Discard
  <2>2. IsFiniteSet(DOMAIN directory \ {k})
    BY FS_Subset DEF AsCurated
  <2>3. DOMAIN directory' = DOMAIN directory \ {k} /\ \A n \in DOMAIN directory \ {k} : directory'[n] = directory[n]
    BY <2>1
  <2>4. edited' = None => 0 \in DOMAIN directory'
    <3>1. edited = None
      BY <1>3 DEF Discard, Unfinished
    <3> QED
      BY <2>1, <2>3, <3>1 DEF AsCurated, FinitelyDeclared
  <2> QED
    BY <2>1, <2>2, <2>3, <2>4 DEF AsCurated
<1>4. CASE Add
  <2> DEFINE k == Cardinality(DOMAIN directory)
  <2>1. /\ collection' = collection /\ edited' = k /\ edited = None
        /\ directory' = [n \in DOMAIN directory \cup {k} |-> IF n = k THEN Altered ELSE directory[n]]
    BY <1>4 DEF Add, Unfinished
  <2>2. IsFiniteSet(DOMAIN directory) /\ 0 \in DOMAIN directory
    BY <2>1 DEF AsCurated
  <2>3. k # 0
    <3>1. Cardinality(DOMAIN directory) # 0
      BY <2>2, FS_EmptySet
    <3> QED
      BY <3>1
  <2>4. IsFiniteSet(DOMAIN directory \cup {k})
    BY <2>2, FS_AddElement
  <2> HIDE DEF k
  <2>5. DOMAIN directory' = DOMAIN directory \cup {k} /\ directory'[0] = directory[0]
    BY <2>1, <2>2, <2>3
  <2> QED
    BY <2>1, <2>2, <2>4, <2>5 DEF AsCurated
<1> QED
  BY <1>1, <1>2, <1>3, <1>4
  DEF InspectionNext, inspectionVars, Edit, List, ReadManifest,
      ReadArtifact, Finish, Concluded

(* Each step reads one artifact and compares it with its receipt. *)
LEMMA ReceiptedStep == AsCurated /\ AsReceipted /\ Reported /\ [InspectionNext]_inspectionVars => AsReceipted'
<1> SUFFICES ASSUME AsCurated, AsReceipted, Reported, [InspectionNext]_inspectionVars PROVE AsReceipted'
  OBVIOUS
<1>1. CASE UNCHANGED <<stage, collection, dataset, names, contents>>
  BY <1>1 DEF AsReceipted, Admitted
<1>2. CASE List
  BY <1>2 DEF List, AsReceipted
<1>3. CASE ReadManifest
  <2>1. contents = <<>> /\ contents' = contents /\ collection' = collection /\ names' = names /\ stage' \in {"reading", "refused"}
    BY <1>3 DEF ReadManifest, AsReceipted
  <2>2. CASE stage' = "refused"
    BY <2>2 DEF AsReceipted
  <2>3. CASE stage' = "reading"
    <3>1. dataset' = directory[0] /\ 0 \in DOMAIN directory /\ Admitted(directory[0])
      BY <1>3, <2>3 DEF ReadManifest
    <3>2. dataset' = collection.dataset
      BY <3>1 DEF AsCurated
    <3>3. Admitted(dataset)'
      BY <2>1, <3>1 DEF Admitted
    <3>4. \A S : <<>> \in Seq(S)
      OBVIOUS
    <3>5. DOMAIN contents' = {}
      BY <2>1
    <3> QED
      BY <2>1, <2>3, <3>2, <3>3, <3>4, <3>5 DEF AsReceipted
  <2> QED
    BY <2>1, <2>2, <2>3
<1>4. CASE ReadArtifact
  <2>1. stage = "reading" /\ collection' = collection /\ dataset' = dataset /\ names' = names
    BY <1>4 DEF ReadArtifact
  <2>2. CASE stage' = "refused"
    BY <2>2 DEF AsReceipted
  <2>3. CASE stage' # "refused"
    <3> DEFINE k == Len(contents) + 1
               C == {dataset.artifacts[n].content : n \in DOMAIN dataset.artifacts}
    <3>1. stage' = stage /\ k \in DOMAIN dataset.artifacts /\ contents' = Append(contents, dataset.artifacts[k].content)
      BY <1>4, <2>3 DEF ReadArtifact
    <3>2. contents \in Seq(C) /\ \A n \in DOMAIN contents : n \in DOMAIN dataset.artifacts /\ contents[n] = dataset.artifacts[n].content
      BY <2>1 DEF AsReceipted
    <3>3. PICK c \in C : c = dataset.artifacts[k].content
      BY <3>1
    <3> HIDE DEF C
    <3>4. contents' \in Seq(C) /\ DOMAIN contents' = DOMAIN contents \cup {k}
          /\ \A n \in DOMAIN contents : contents'[n] = contents[n]
          /\ contents'[k] = c
      BY <3>1, <3>2, <3>3
    <3>5. Admitted(dataset)'
      BY <2>1 DEF AsReceipted, Admitted
    <3> QED
      BY <2>1, <3>1, <3>2, <3>3, <3>4, <3>5 DEF AsReceipted, C
  <2> QED
    BY <2>2, <2>3
<1>5. CASE Finish
  BY <1>5 DEF Finish, AsReceipted, Admitted
<1>6. CASE Edit
  BY <1>1, <1>6 DEF Edit, Add, Replace, Discard
<1> QED
  BY <1>1, <1>2, <1>3, <1>4, <1>5, <1>6 DEF InspectionNext, inspectionVars, Concluded

(* What is reported was read whole, of the names listed first. *)
LEMMA ReportedStep == AsReceipted /\ Reported /\ [InspectionNext]_inspectionVars => Reported'
<1> SUFFICES ASSUME AsReceipted, Reported, [InspectionNext]_inspectionVars PROVE Reported'
  OBVIOUS
<1>1. CASE UNCHANGED <<stage, directory, dataset, contents, report>>
  BY <1>1 DEF Reported, Whole
<1>2. CASE List \/ ReadManifest \/ ReadArtifact
  BY <1>2 DEF List, ReadManifest, ReadArtifact, Reported
<1>3. CASE Finish
  <2>1. stage = "reading" /\ DOMAIN contents = DOMAIN dataset.artifacts
    BY <1>3 DEF Finish
  <2>2. contents = Whole
    <3>1. \A k \in DOMAIN contents : contents[k] = dataset.artifacts[k].content
      BY <2>1 DEF AsReceipted
    <3>2. contents = [k \in DOMAIN contents |-> contents[k]]
      BY <2>1 DEF AsReceipted
    <3> QED
      BY <2>1, <3>1, <3>2 DEF Whole
  <2>3. names = Files(dataset)
    BY <2>1 DEF AsReceipted, Admitted
  <2> QED
    BY <1>3, <2>1, <2>2, <2>3 DEF Finish, Reported, Whole
<1>4. CASE Edit
  BY <1>4 DEF Edit, Add, Replace, Discard, Unfinished, Reported
<1> QED
  BY <1>1, <1>2, <1>3, <1>4 DEF InspectionNext, inspectionVars, Concluded

(* Nothing was read at first. *)
LEMMA InspectionBegins == FinitelyDeclared /\ InspectionInit => InspectionInv
<1> SUFFICES ASSUME FinitelyDeclared, InspectionInit PROVE InspectionInv
  OBVIOUS
<1>1. DOMAIN directory = {0} \cup DOMAIN collection.dataset.artifacts /\ directory[0] = collection.dataset
  BY DEF InspectionInit, Files
<1>2. IsFiniteSet(DOMAIN collection.dataset.artifacts)
  BY DEF InspectionInit, FinitelyDeclared
<1>3. IsFiniteSet({0} \cup DOMAIN collection.dataset.artifacts)
  BY <1>2, FS_AddElement
<1> QED
  BY <1>1, <1>3 DEF InspectionInit, InspectionInv, AsCurated, AsReceipted, Reported

(* Whoever changes one file while a calibration directory is read, what is *)
(* published is the report of the curator's own dataset and of every      *)
(* artifact it lists, each with the content its receipt has, and the       *)
(* directory then held no other file.                                      *)
THEOREM OnlyReceiptedReported == InspectionSpec => []InspectionInv
<1>1. InspectionInit => InspectionInv
  BY CollectionsAssumption, InspectionBegins
<1>2. InspectionInv /\ [InspectionNext]_inspectionVars => InspectionInv'
  BY CollectionsAssumption, KeptStep, ReceiptedStep, ReportedStep DEF InspectionInv
<1> QED
  BY <1>1, <1>2, PTL DEF InspectionSpec

(* A measurement counts once, however often it was copied and whatever its *)
(* sources are called: copies are shown in one group, role and partition,  *)
(* one of them at most is eligible, and no partition has more independent  *)
(* groups than measurements.                                               *)
THEOREM EvidenceCountsOnce == InspectionSpec => []CountedOnce
<1>1. InspectionInv => CountedOnce
  BY CollectionsAssumption, OncePerMeasurement
<1> QED
  BY <1>1, OnlyReceiptedReported, PTL
=============================================================================
