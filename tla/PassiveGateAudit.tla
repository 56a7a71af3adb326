-------------------------- MODULE PassiveGateAudit --------------------------
(***************************************************************************)
(* PassiveGate with an auditor who reads only the rows the replay appends  *)
(* and the windows they name.  From those the auditor rebuilds the current *)
(* run, the unbroken series of windows of one class, and files it with     *)
(* every proposal.  The properties compare what the auditor saw with what  *)
(* the detector's counters made the replay do.                             *)
(***************************************************************************)
EXTENDS PassiveGate, Sequences

VARIABLES
  run,      \* the series of usable windows of one class the rows show
  filed     \* the proposals: time, and the run that was to justify it

audit == <<run, filed>>
auditVars == <<vars, audit>>

NoRun == [class |-> "none", windows |-> 0, from_ms |-> 0, to_ms |-> 0,
          unbroken |-> TRUE]
Run == [class : Classes \cup {"none"}, windows : Nat, from_ms : Nat,
        to_ms : Nat, unbroken : BOOLEAN]

(* Rows that say the event was ignored neither extend nor break a run. *)
Ignored(r) ==
  r.reasons \cap {"tick_only", "duplicate_window", "out_of_order"} # {}

Started(r) == [class |-> r.classification, windows |-> 1,
               from_ms |-> r.window.start_ms, to_ms |-> r.window.end_ms,
               unbroken |-> TRUE]

Extended(r) == [class |-> run.class, windows |-> run.windows + 1,
                from_ms |-> run.from_ms, to_ms |-> r.window.end_ms,
                unbroken |-> run.unbroken /\ r.window.start_ms = run.to_ms]

Continues(r) == r.classification = run.class /\ "gap_reset" \notin r.reasons

Follow(r) ==
  run' = IF Ignored(r) THEN run
         ELSE IF r.classification \notin Classes THEN NoRun
         ELSE IF Continues(r) THEN Extended(r) ELSE Started(r)

File(r) ==
  filed' = IF r.recommendation = "probe"
           THEN Append(filed, [at |-> r.window.end_ms, run |-> run'])
           ELSE filed

AuditInit == Init /\ run = NoRun /\ filed = <<>>
AuditNext == Next /\ Follow(row') /\ File(row')
AuditSpec == AuditInit /\ [][AuditNext]_auditVars

-----------------------------------------------------------------------------
Lasts(r, windows, ms) ==
  r.unbroken /\ r.windows >= windows /\ r.to_ms - r.from_ms >= ms

AuditTypeOK ==
  /\ TypeOK
  /\ run \in Run
  /\ filed \in Seq([at : Nat, run : Run])

(* Every probe was proposed at the end of an unbroken run of low windows,  *)
(* each starting where the one before ended, long enough in windows and in *)
(* milliseconds: no gap, silence, exclusion or repeated window helped.     *)
ProbesJustified ==
  \A i \in DOMAIN filed :
    /\ filed[i].run.class = "low"
    /\ filed[i].run.to_ms = filed[i].at
    /\ Lasts(filed[i].run, EntryWindows, EntryMs)

(* The ledger the cooldown and the budget read is the true history of the  *)
(* probes, whatever resets, gaps and recoveries came between them.         *)
LedgerTrue ==
  /\ proposals = Len(filed)
  /\ last_proposal_ms = IF filed = <<>> THEN Null ELSE filed[Len(filed)].at
  /\ \A i, j \in DOMAIN filed : i < j => filed[j].at - filed[i].at >= CooldownMs

(* Hysteresis: the degradation latch rises only on a low run long enough,  *)
(* and while windows keep being usable and contiguous it falls only on a   *)
(* recovered run long enough.                                              *)
HysteresisStep ==
  /\ ~degraded_latched /\ degraded_latched' =>
       run'.class = "low" /\ Lasts(run', EntryWindows, EntryMs)
  /\ ( /\ degraded_latched /\ ~degraded_latched'
       /\ row'.classification \in Classes /\ "gap_reset" \notin row'.reasons ) =>
       run'.class = "recovered" /\ Lasts(run', RecoveryWindows, RecoveryMs)
Hysteresis == [][HysteresisStep]_auditVars

Budget == INSTANCE ProbeBudget

(* The replay's ledger is a probe budget: it implements the promise. *)
BudgetKept == Budget!Spec
=============================================================================
