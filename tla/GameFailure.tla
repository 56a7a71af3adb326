----------------------------- MODULE GameFailure ------------------------------
(***************************************************************************)
(* A failure of the first viewer's connection, provoked by its producer    *)
(* outside the repository: while its rate is lowered the request is        *)
(* cancelled, the receiver or the source lost, or the viewer reconnects;   *)
(* the old worker ends, a new one takes its place, and the issuer of       *)
(* requests restarts.  Every step is one of a script.  One thing may go    *)
(* wrong in it.                                                            *)
(***************************************************************************)
EXTENDS GameEvidence

CONSTANT Lags   \* how long the producer waits after the issuer's restart

Script(m) ==
  LET middle == CASE m = "cancel" -> <<"fault", "exit", "result", "reconnect", "replace">>
                  [] m = "receiver-loss" -> <<"fault", "exit", "result", "replace">>
                  [] m = "source-loss" -> <<"fault", "exit", "result", "source_restored", "replace">>
                  [] m = "reconnect" -> <<"reconnect", "fault", "exit", "result", "replace">> IN
  <<"bound", "dispatched", "active_target">> \o middle
    \o <<"replacement_ready", "restart", "wait", "issuer_restarted", "verified">>

VARIABLES
  script,    \* the steps of the case at hand
  procs,     \* what every process is and has counted, by role; Null when it does not run
  journal, issuer,
  old,       \* how the first worker ended, or Null
  admitted,  \* whether a retired handle was let in
  clock,
  events,
  past,      \* everything after every step so far
  failure    \* what went wrong in this case, or Null
failureVars == <<script, procs, journal, issuer, old, admitted, clock, events, past, failure>>

Roles == Sources \cup Peers \cup {"replacement"}
Process(id, generation, fps) ==
  [id |-> id, generation |-> generation, fps |-> fps, cpu |-> 1, captured |-> 15, encoded |-> 15,
   sequence |-> 1, received |-> 0, connected |-> TRUE]
NoRequest ==
  [state |-> "clean", actions |-> 0, reserved |-> 0, cooldown |-> 0, request |-> Null, process |-> Null,
   prior |-> Null, active |-> Null, result |-> Null, failure |-> Null]
RequestOf(worker) == [id |-> "request", generation |-> worker.generation]
UnknownEnd == [outcome |-> "aborted", reason |-> "health_abort", restoration |-> "unknown"]

(* Two neighbouring steps may have been taken in the wrong order. *)
Swapped(s, i) == [s EXCEPT ![i] = s[i + 1], ![i + 1] = s[i]]
FailureBegins(m, earlier) ==
  /\ \/ script' = Script(m) /\ failure' = IF earlier THEN "earlier" ELSE Null
     \/ /\ ~earlier /\ failure' = "order"
        /\ \E i \in 1..Len(Script(m)) - 1 : script' = Swapped(Script(m), i)
  /\ procs' = [r \in Roles |-> IF r = "replacement" THEN Null ELSE Process(r, 1, 30)]
  /\ journal' = NoRequest /\ issuer' = 1 /\ old' = Null /\ admitted' = FALSE
  /\ clock' = 0 /\ events' = <<[kind |-> "ready"]>> /\ past' = <<>>

Mode(s) == IF "source_restored" \in Range(s) THEN "source-loss"
           ELSE IF "reconnect" \notin Range(s) THEN "receiver-loss"
           ELSE IF SelectInSeq(s, LAMBDA x : x = "reconnect") < SelectInSeq(s, LAMBDA x : x = "exit")
           THEN "reconnect" ELSE "cancel"
mode == Mode(script)
Clean == mode = "cancel"
StepNow == script[Len(past) + 1]
FailureDone == Len(past) = Len(script)

(* Time passes for every process that runs. *)
Ages(ps, time, frozen) ==
  [r \in Roles |->
     IF ps[r] = Null \/ r \in frozen THEN ps[r]
     ELSE LET frames == time * (ps[r].fps \div 2) IN
          [ps[r] EXCEPT !.cpu = @ + time, !.captured = @ + frames, !.encoded = @ + frames,
                        !.sequence = @ + time, !.received = clock + time]]
Takes(time, ps) ==
  /\ clock' = clock + time
  /\ procs' = Ages(ps, time, IF failure' \in Roles THEN {failure'} ELSE {})
Records(event) == events' = Append(events, event)
Silent == UNCHANGED events
Remembers ==
  past' = Append(past, [step |-> StepNow, journal |-> journal', issuer |-> issuer', old |-> old',
                        admitted |-> admitted',
                        progress |-> <<procs'["game"].cpu, procs'["second"].captured>>,
                        ids |-> [r \in Roles |-> IF procs'[r] = Null THEN Null ELSE procs'[r].id]])
Step(name) == ~FailureDone /\ StepNow = name /\ UNCHANGED script
Well == UNCHANGED failure
Goes(what) == failure = Null /\ failure' = what

(* A process is replaced unnoticed during a step, or stands still from it on. *)
Disturbed ==
  \/ Well /\ Takes(1, procs)
  \/ \E r \in Roles :
       /\ procs[r] # Null
       /\ Goes("replaced") /\ Takes(1, [procs EXCEPT ![r] = Process("other", @.generation, @.fps)])
  \/ \E r \in {"game", "second", "replacement"} : Goes(r) /\ Takes(1, procs)

Bound ==
  /\ Step("bound") /\ Disturbed
  /\ Records([kind |-> "bound", phase |-> Null, binding |-> "display"])
  /\ UNCHANGED <<journal, issuer, old, admitted>> /\ Remembers

Dispatch ==
  LET worker == procs["first"]  request == RequestOf(worker) IN
  /\ Step("dispatched") /\ worker # Null
  /\ Well /\ Takes(1, [procs EXCEPT !["first"].fps = 24])
  /\ journal' = [journal EXCEPT !.state = "active", !.actions = @ + 1, !.reserved = @ + Reserved,
                                 !.cooldown = clock + Reserved, !.request = request, !.active = request.id,
                                 !.process = worker.id,
                                 !.prior = [Preimage(worker.generation) EXCEPT !.configured = worker.fps, !.negotiated = worker.fps]]
  /\ Records([kind |-> "dispatched", phase |-> Null, request |-> request])
  /\ UNCHANGED <<issuer, old, admitted>> /\ Remembers

(* At a checkpoint the retired handles are tried, too. *)
Checkpoint(phase) ==
  LET i == CHOOSE i \in 1..3 : Checkpoints[i] = phase IN
  /\ Step(phase)
  /\ \/ Disturbed /\ UNCHANGED admitted
     \/ i > 1 /\ Goes("admits") /\ Takes(1, procs) /\ admitted' = TRUE
  /\ Records([kind |-> "checkpoint", phase |-> phase, at |-> clock', capture |-> "display", issuer |-> issuer,
              sources |-> [s \in Sources |-> procs'[s]],
              peers |-> [p \in {p \in Peers \cup {"replacement"} : procs'[p] # Null} |-> procs'[p]],
              journal |-> journal, old |-> old,
              admissions |-> IF i = 1 THEN Null
                             ELSE [Refusals(mode, i) EXCEPT !.receiver = IF admitted' THEN "admitted" ELSE @]])
  /\ UNCHANGED <<journal, issuer, old>> /\ Remembers

Fault ==
  /\ Step("fault") /\ Disturbed
  /\ Records([kind |-> "fault", phase |-> Null])
  /\ UNCHANGED <<journal, issuer, old, admitted>> /\ Remembers

(* The first worker ends: by itself when its request was cancelled, killed *)
(* otherwise; or, having survived, it goes on. *)
Exit ==
  LET code == IF Clean THEN 0 ELSE -9 IN
  /\ Step("exit") /\ Silent /\ UNCHANGED <<journal, issuer, admitted>>
  /\ \/ /\ Well /\ Takes(1, [procs EXCEPT !["first"] = Null])
        /\ old' = [id |-> procs["first"].id, code |-> code]
     \/ /\ Goes("exit") /\ Takes(1, [procs EXCEPT !["first"] = Null])
        /\ old' = [id |-> procs["first"].id, code |-> -9 - code]
     \/ /\ Goes("survives") /\ Takes(1, [procs EXCEPT !["first"].fps = 30])
        /\ old' = [id |-> procs["first"].id, code |-> code]
  /\ Remembers

(* Cancellation restored the rate; after a loss nobody knows. *)
Result ==
  /\ Step("result") /\ Disturbed
  /\ \E body \in (IF Clean THEN {Cancelled} ELSE {UnknownEnd} \cup IF mode = "source-loss" THEN {} ELSE {Null}) :
       /\ journal' = IF Clean THEN [journal EXCEPT !.state = "clean", !.active = Null, !.result = body]
                     ELSE [journal EXCEPT !.state = "dirty", !.failure = body]
       /\ Records([kind |-> "result", phase |-> Null, result |-> body,
                   ledger |-> journal'.state, actions |-> journal.actions])
  /\ UNCHANGED <<issuer, old, admitted>> /\ Remembers

Connects(kind) ==
  /\ Step(kind) /\ Disturbed
  /\ Records([kind |-> kind, phase |-> Null])
  /\ UNCHANGED <<journal, issuer, old, admitted>> /\ Remembers

Replace ==
  LET fresh == Process("new", 2, 30) IN
  /\ Step("replace") /\ Silent /\ UNCHANGED <<journal, issuer, old, admitted>>
  /\ \/ Well /\ Takes(1, [procs EXCEPT !["first"] = Null, !["replacement"] =
                            IF failure = "survives" THEN procs["first"] ELSE fresh])
     \/ Goes("generation") /\ Takes(1, [procs EXCEPT !["replacement"] = [fresh EXCEPT !.generation = 1]])
  /\ Remembers

(* The issuer restarts and reads the journal it finds; or it does not, or  *)
(* it starts a journal anew, or the retired worker writes to it after all. *)
Restart ==
  /\ Step("restart") /\ Silent
  /\ \/ Well /\ issuer' = 2 /\ journal' = journal
     \/ Goes("restart") /\ issuer' = 1 /\ journal' = journal
     \/ Goes("journal") /\ issuer' = 2
          /\ journal' \in {NoRequest, [journal EXCEPT !.failure = UnknownEnd]} \ {journal}
  /\ Takes(1, procs)
  /\ UNCHANGED <<old, admitted>> /\ Remembers
Wait ==
  /\ Step("wait") /\ Silent
  /\ \/ Well /\ \E lag \in Lags : Takes(lag, procs)
     \/ Goes("hurry") /\ Takes(1, procs)
  /\ UNCHANGED <<journal, issuer, old, admitted>> /\ Remembers

Verify ==
  /\ Step("verified") /\ Disturbed
  /\ Records([kind |-> "verified", phase |-> Null, ledger |-> journal.state, actions |-> journal.actions,
              exit |-> IF old = Null THEN Null ELSE old.code])
  /\ UNCHANGED <<journal, issuer, old, admitted>> /\ Remembers

FailureNext ==
  \/ Bound \/ Dispatch \/ Fault \/ Exit \/ Result \/ Replace \/ Restart \/ Wait \/ Verify
  \/ \E c \in Range(Checkpoints) : Checkpoint(c)
  \/ \E kind \in {"reconnect", "source_restored"} : Connects(kind)

-----------------------------------------------------------------------------
(* The report, and what such a run should have been for it to be met. *)
FailureRun(evs, m) ==
  [events |-> evs,
   viewers |-> [p \in Peers |->
     [failures |-> IF p = "first" /\ m \in {"receiver-loss", "source-loss"} THEN 1 ELSE 0,
      bindings |-> IF p = "first" THEN 3 ELSE 2,
      epochs |-> IF p = "first" THEN <<"first", "replacement">> ELSE <<p>>]]]
(* The producer may go on reporting what it read at an earlier checkpoint, *)
(* of a peer or of the game. *)
At(evs, i) == SelectInSeq(evs, LAMBDA e : e.kind = "checkpoint" /\ e.phase = Checkpoints[i])
StaleEvents ==
  LET stale(i, part, r) ==
        [k \in DOMAIN events |->
           IF /\ r \in DOMAIN events[At(events, i)][part]
              /\ \E j \in i + 1..3 : k = At(events, j) /\ r \in DOMAIN events[k][part]
           THEN [events[k] EXCEPT ![part] = [@ EXCEPT ![r] = events[At(events, i)][part][r]]] ELSE events[k]] IN
  {stale(i, "sources", "game") : i \in 1..2} \cup {stale(i, "peers", "second") : i \in 1..2}
    \cup {stale(2, "peers", "replacement")}

FailureWasTrue ==
  LET at(step) == SelectInSeq(past, LAMBDA s : s.step = step)
      a == at("active_target")  r == at("replacement_ready")  b == at("issuer_restarted")
      ids(k) == past[k].ids IN
  /\ at("dispatched") < a /\ a < at("fault") /\ at("fault") < r
  /\ at("source_restored") < r /\ r < at("restart") /\ at("restart") < b
  /\ \A k \in a..b, role \in Sources \cup {"second"} : ids(k)[role] = ids(a)[role]
  /\ \A k \in r..b : ids(k)["replacement"] = ids(r)["replacement"] /\ ids(k)["first"] = Null
  /\ \A k \in at("dispatched")..at("exit") - 1 : ids(k)["first"] = ids(a)["first"]
  /\ ids(r)["replacement"] # ids(a)["first"]
  /\ \A i \in 1..2 : past[a].progress[i] < past[r].progress[i] /\ past[r].progress[i] < past[b].progress[i]
  /\ \A k \in r..b : past[k].journal = past[r].journal
  /\ past[b].issuer = 2 /\ ~past[b].admitted
=============================================================================
