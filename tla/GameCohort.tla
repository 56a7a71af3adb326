----------------------------- MODULE GameCohort -------------------------------
(***************************************************************************)
(* A cohort of contained game runs and its reconstruction: the control     *)
(* disturbance (GameControl), then the four failures (GameFailure), in     *)
(* processes of their own.  The producer may give up in a run; the image   *)
(* may be another one for a later run.  One thing goes wrong in a cohort,  *)
(* besides rows that are read stale.                                       *)
(***************************************************************************)
EXTENDS GameControl, GameFailure

VARIABLES
  context,   \* the image and the browser
  rows       \* what was reconstructed of every run so far, and whether it was so
vars == <<controlVars, failureVars, trouble, context, rows>>

Idle ==
  /\ script = <<>> /\ procs = [r \in Roles |-> Null] /\ journal = NoRequest /\ issuer = 1
  /\ old = Null /\ admitted = FALSE /\ clock = 0 /\ events = <<>> /\ past = <<>> /\ failure = Null
Init ==
  /\ ControlInit /\ Idle
  /\ trouble = Null /\ context = 1 /\ rows = <<>>

InFailure == Len(rows) \in 1..Len(Modes) - 1
ControlSteps ==
  /\ rows = <<>>
  /\ HalfSecond \/ HostTrouble \/ ViewerTrouble
  /\ UNCHANGED <<failureVars, context, rows>>
FailureSteps ==
  /\ InFailure /\ FailureNext
  /\ UNCHANGED <<controlVars, trouble, context, rows>>

Troubled == trouble # Null \/ failure \notin {Null, "earlier"}
Reference == IF rows = <<>> THEN context ELSE rows[1].context
Header(m, passed) == [mode |-> m, passed |-> passed, context |-> context]
Judged(run, true, honest) ==
  rows' = Append(rows, [mode |-> run.mode, context |-> run.context, state |-> StateOf(run, Reference),
                        lifetime |-> run.mode # "disturbance" /\ StateOf(run, Reference) = "met" /\ LifetimeCase(run),
                        declared |-> Declared(run), true |-> true, honest |-> honest])

(* The next run begins, perhaps of another image. *)
Begins(what) ==
  /\ schedule' = <<>> /\ log' = <<>> /\ trouble' = what
  /\ IF Len(rows) + 1 = Len(Modes) THEN UNCHANGED failureVars
     ELSE FailureBegins(Modes[Len(rows) + 2], what # Null)
NextRun ==
  \/ Begins(IF trouble = Null /\ Troubled THEN failure ELSE trouble) /\ UNCHANGED context
  \/ ~Troubled /\ Begins("context") /\ context' = 2

ControlReported ==
  /\ rows = <<>> /\ ControlDone
  /\ \E late \in BOOLEAN :
       LET run == Header("disturbance", TRUE) @@ ControlRun(ControlLog, late) IN
       Judged(run, ControlWasTrue /\ CpuWasTrue(run), ~Troubled)
  /\ NextRun

(* The sibling watches throughout, undisturbed. *)
Sibling ==
  LET at(k) == 60 + 15 * k IN
  [failure |-> Null, from |-> 0, time |-> 3, connected |-> TRUE,
   bursts |-> [k \in 1..4 |-> [at |-> k - 1, shown |-> at(k), pts |-> k, gap |-> FALSE]],
   stats |-> [k \in 1..4 |-> [at |-> k - 1, decoded |-> at(k), dropped |-> 0, freezes |-> 0]],
   visuals |-> [k \in 1..4 |-> [hash |-> k, blank |-> FALSE]]]
FailureReported ==
  /\ InFailure /\ FailureDone
  /\ \E evs \in {events} \cup StaleEvents :
       LET run == Header(mode, TRUE) @@ [sibling |-> Sibling] @@ FailureRun(evs \o ClosingEvents, mode) IN
       Judged(run, FailureWasTrue, ~Troubled /\ evs = events)
  /\ NextRun

(* The producer gives up: what it recorded until then is a failed run. *)
GivesUp ==
  /\ Len(rows) < Len(Modes)
  /\ Judged(Header(IF rows = <<>> THEN "disturbance" ELSE mode, FALSE) @@ [events |-> events], FALSE, FALSE)
  /\ ~Troubled /\ Begins("gave_up") /\ UNCHANGED context

Next == ControlSteps \/ FailureSteps \/ ControlReported \/ FailureReported \/ GivesUp
Spec == Init /\ [][Next]_vars

-----------------------------------------------------------------------------
(* A control disturbance that is met happened: whatever restarted, froze,  *)
(* stalled or was dropped in whichever half second, from the first sample  *)
(* to the last the two workers and their hosts were one process each, in   *)
(* every window each worker encoded at the rate of the phase, and each     *)
(* viewer saw one page without a drop, a freeze or a late frame; and CPU   *)
(* is told only of browser processes that lived throughout. *)
ControlTrue == (rows # <<>> /\ rows[1].state = "met") => rows[1].true

(* Lifetimes that are met were: camera, game, display and sibling lived    *)
(* and worked from before the fault until after the issuer's restart, the  *)
(* replacement is another process than the old worker, which ended, no     *)
(* retired handle was admitted, and the restart left the journal alone;    *)
(* even if rows were read stale. *)
LifetimesTrue == \A i \in DOMAIN rows : rows[i].lifetime => rows[i].true

(* A cohort that is met is one of all five modes in order, of one image,   *)
(* in which no run was given up. *)
CohortTrue ==
  Screen(rows) = "met" =>
    /\ [i \in DOMAIN rows |-> rows[i].mode] = Modes
    /\ Cardinality({rows[i].context : i \in DOMAIN rows}) = 1
    /\ trouble # "gave_up"

(* What is told of the runs with failures, each and together, was so.      *)
FailuresTrue == LifetimesTrue /\ CohortTrue

(* Nothing honest is missed: a run in which all went well is met, with its *)
(* lifetimes, and its result is what was declared. *)
HonestMet ==
  \A i \in DOMAIN rows : rows[i].honest =>
    /\ rows[i].state = "met" /\ (i > 1 => rows[i].lifetime)
    /\ rows[i].declared \in {"declared", "no_result"}
=============================================================================
