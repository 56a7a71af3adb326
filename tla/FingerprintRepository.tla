------------------------- MODULE FingerprintRepository -------------------------
(***************************************************************************)
(* A pair of windows is captured, its response matched with the            *)
(* fingerprints of a directory and the result verified with the directory  *)
(* later (analytical/matching.py, repository.py, cli_v2.py), while others  *)
(* edit it: the loader lists a directory, then reads file by file, and     *)
(* lists an inner directory only when it gets there.  One thing goes wrong *)
(* in a behaviour, and one fingerprint may be put or removed honestly.     *)
(***************************************************************************)
EXTENDS AnalyticalRecord

CONSTANTS
  Captures,      \* pairs as captured: [cause, wrong, pair]
  Directories,   \* to begin with: file name -> genuine fingerprint
  Genuine        \* fingerprints of pairs of a known cause

(* A hash stands for one content only. *)
ASSUME DigestAssumption ==
  \A c, d \in DOMAIN Digest : Digest[c] = Digest[d] => c = d
(* Measures are numbers or missing, and windows have their times. *)
Numeric(x) == x.status # Null /\ x.coverage \in Nat /\ x.value \in Int \cup {Null}
Measured(pair) ==
  \A w \in {pair.degraded, pair.relief} : \A m \in DOMAIN Metrics : Numeric(w.measures[m])
Shaped(pair) ==
  /\ {"degraded", "relief", "probe"} \subseteq DOMAIN pair
  /\ \A w \in {pair.degraded, pair.relief} :
       /\ {"context", "settings", "confounders", "from", "to", "measures"} \subseteq DOMAIN w
       /\ w.from \in Int /\ w.to \in Int
  /\ Measured(pair)
ASSUME GenuineAssumption ==
  \A f \in Genuine :
    ValidFingerprint(f) /\ f = Fingerprint(f.response, f.label, f.status) /\ Shaped(f.response.observation)
(* What is said to be wrong with a capture is to be seen in its pair. *)
Faults == {"undeclared", "confounded", "not_applied", "too_long", "incomplete"}
Whole(pair, m) == \A w \in {pair.degraded, pair.relief} :
  w.measures[m].status = "complete" /\ w.measures[m].coverage >= Policy.coverage
AtFault(what, pair) ==
  LET asked == pair.probe.requested IN
  \/ what = "undeclared" /\ ~Confounded(pair) /\ \E s \in Changed(pair) : s \notin DOMAIN asked
  \/ what = "confounded" /\ \E part \in {pair.degraded, pair.relief, pair.probe} : part.confounders # {}
  \/ what = "not_applied" /\ \E s \in DOMAIN asked :
       SettingOf(pair.relief, s) # asked[s] \/ SettingOf(pair.degraded, s) = asked[s]
  \/ what = "too_long" /\ \E a, b \in {pair.degraded, pair.relief} : 10 * (Duration(a) - Duration(b)) > Duration(a)
  \/ what = "incomplete" /\ ~Enough(Cardinality({m \in Features : Whole(pair, m)}))
Prepared(pair) == [pair EXCEPT !.degraded = Adopted(@), !.relief = Adopted(@)]
ASSUME CapturesAssumption ==
  \A c \in Captures : Shaped(c.pair) /\ (c.wrong \in Faults => AtFault(c.wrong, c.pair))
(* Where nothing is wrong the windows and the probe are records that belong *)
(* together, of the approved registry, and none of the faults is to be seen. *)
ASSUME HonestAssumption ==
  \A c \in Captures : c.wrong = Null =>
    /\ Paired(Prepared(c.pair)) /\ Prepared(c.pair).degraded.registry = Policy.registry
    /\ \A what \in Faults \ {"incomplete"} : ~AtFault(what, c.pair)
    /\ c.pair.probe.observed # Null =>
         \A s \in DOMAIN c.pair.probe.observed : SettingOf(c.pair.relief, s) = c.pair.probe.observed[s]
Refusal == [refused |-> TRUE]
Failure == [failed |-> TRUE]
Link == [link |-> TRUE]
ASSUME NullAssumption ==
  /\ Null \notin Captures /\ Null # Failure
  /\ Null \notin {"forged_response", "relabelled", "approved", "reshaped", "linked", "copied",
                  "accepted", "recoded", "dropped", "renamed"}

VARIABLES
  capture,     \* what was captured, or Null
  query,       \* its response, or Refusal, or Null
  directory,   \* file name -> content
  load,        \* names to read, names listed, links among them, records; or Failure, or Null
  result,      \* of the match, perhaps edited; or Null
  made,        \* the result as it was made
  verdict,     \* of the verification, or Null
  trouble, edits
vars == <<capture, query, directory, load, result, made, verdict, trouble, edits>>

Outer == <<"a", "b", "s">>   \* in the order of their names; "s" is a directory
Inner == <<"s/c", "s/d">>
Files == {"a", "b", "s/c", "s/d"}
ASSUME DirectoriesAssumption ==
  \A d \in Directories :
    /\ DOMAIN d \subseteq Files /\ \A n \in DOMAIN d : d[n] \in Genuine
    /\ \A m, n \in DOMAIN d : d[m] = d[n] => m = n

HasInner == DOMAIN directory \cap Range(Inner) # {}
Entries(names) ==
  Kept(names, {i \in DOMAIN names : IF names[i] = "s" THEN HasInner ELSE names[i] \in DOMAIN directory})
Json(n) == n \in Files
Links(names) == {n \in Range(names) \cap DOMAIN directory : directory[n] = Link}

Init ==
  /\ directory \in Directories
  /\ capture = Null /\ query = Null /\ load = Null /\ result = Null /\ made = Null /\ verdict = Null
  /\ trouble = Null /\ edits = 0
Lone(what) == trouble = Null /\ trouble' = what

-----------------------------------------------------------------------------
(* The pair is captured, adopted and its response derived, or refused. *)
Capture ==
  /\ capture = Null
  /\ \E c \in Captures :
       /\ capture' = c /\ trouble' = c.wrong
       /\ query' = IF ValidPair(Prepared(c.pair)) THEN Response(Prepared(c.pair)) ELSE Refusal
  /\ UNCHANGED <<directory, load, result, made, verdict, edits>>
Ready == query \notin {Null, Refusal}
(* The response's file is edited: made eligible, or nearer to a cause. *)
ForgeResponse ==
  /\ Ready /\ load = Null /\ result = Null
  /\ \/ query.invalid # Null /\ query' = [query EXCEPT !.invalid = Null]
     \/ \E m \in Features : query.features[m].value # Null /\ query' = [query EXCEPT !.features[m].value = @ + 5]
  /\ Lone("forged_response")
  /\ UNCHANGED <<capture, directory, load, result, made, verdict, edits>>

-----------------------------------------------------------------------------
(* The loader.  What was a link when it was listed is refused, whatever it is by then. *)
BugRefused(n, content, read) == content = Link \/ ~ValidFingerprint(content)
Refused(n, content, read) ==
  content = Link \/ ~ValidFingerprint(content) \/ content.id \in {f.id : f \in read}

Begin ==
  /\ Ready /\ load = Null /\ verdict = Null
  /\ IF ValidResponse(query)
     THEN load' = [todo |-> Entries(Outer), listed |-> {n \in Range(Entries(Outer)) : Json(n)},
                   links |-> Links(Outer), read |-> {}]
     ELSE load' = Failure
  /\ UNCHANGED <<capture, query, directory, result, made, verdict, trouble, edits>>
Loading == load \notin {Null, Failure} /\ load.todo # <<>>
ReadEntry ==
  /\ Loading
  /\ LET n == Head(load.todo)  rest == Tail(load.todo) IN
     load' = IF n = "s"
             THEN [load EXCEPT !.todo = Entries(Inner) \o rest, !.listed = @ \cup Range(Entries(Inner)),
                               !.links = @ \cup Links(Inner)]
             ELSE IF n \in load.links \/ n \notin DOMAIN directory \/ Refused(n, directory[n], load.read) THEN Failure
             ELSE [load EXCEPT !.todo = rest, !.read = @ \cup {directory[n]}]
  /\ UNCHANGED <<capture, query, directory, result, made, verdict, trouble, edits>>
Loaded == load \notin {Null, Failure} /\ load.todo = <<>>
Concluded == result # Null /\ verdict = Null
Matched ==
  /\ Loaded /\ result = Null
  /\ result' = Match(query, load.read) /\ made' = [of |-> load, result |-> result'] /\ load' = Null
  /\ UNCHANGED <<capture, query, directory, verdict, trouble, edits>>
Verified ==
  /\ Loaded /\ result # Null
  /\ verdict' = [of |-> load, agrees |-> ValidResult(result) /\ Reproduced(result, load.read)] /\ load' = Null
  /\ UNCHANGED <<capture, query, directory, result, made, trouble, edits>>

-----------------------------------------------------------------------------
(* Others. *)
Put(n, content) == [m \in DOMAIN directory \cup {n} |-> IF m = n THEN content ELSE directory[m]]
Without(n) == [m \in DOMAIN directory \ {n} |-> directory[m]]
Editable == Ready /\ verdict = Null
Edit ==
  /\ Editable /\ edits = 0 /\ edits' = 1
  /\ \/ \E n \in Files, f \in Genuine : directory' = Put(n, f)
     \/ \E n \in DOMAIN directory : directory' = Without(n)
  /\ \A m, n \in DOMAIN directory' : m # n => directory'[m] # directory'[n]
  /\ UNCHANGED <<capture, query, load, result, made, verdict, trouble>>
Tamper ==
  /\ Editable /\ \E n \in DOMAIN directory :
       LET f == directory[n] IN
       \/ Lone("relabelled") /\ directory' = Put(n, [f EXCEPT !.label = "other"])
       \/ Lone("approved") /\ f.status # "software_checked" /\ directory' = Put(n, [f EXCEPT !.status = "software_checked"])
       \/ Lone("reshaped") /\ directory' = Put(n, [f EXCEPT !.vector = [m \in DOMAIN @ |-> 0]])
       \/ Lone("linked") /\ directory' = Put(n, Link)
       \/ \E m \in Files \ DOMAIN directory : Lone("copied") /\ directory' = Put(m, f)
  /\ UNCHANGED <<capture, query, load, result, made, verdict, edits>>
(* The result is edited, consistently as far as that goes. *)
Redecided(r) == [r EXCEPT !.decision = Decision(r.query, r.references, r.rejections, r.comparisons)]
EditResult ==
  /\ Concluded /\ load = Null
  /\ \/ result.decision.reason # Null /\ Lone("accepted") /\ result' = [result EXCEPT !.decision.reason = Null]
     \/ \E i \in DOMAIN result.rejections : /\ Lone("recoded")
          /\ result' = [result EXCEPT !.rejections[i] = {"context_mismatch"}] /\ result' # result
     \/ \E c \in result.comparisons : /\ Lone("dropped")
          /\ result' = Redecided([result EXCEPT !.comparisons = @ \ {c}, !.references = @ \ {c.id}])
     \/ \E c \in result.comparisons : /\ Lone("renamed")
          /\ result' = Redecided([result EXCEPT !.comparisons = (@ \ {c}) \cup {[c EXCEPT !.label = "other"]}])
  /\ UNCHANGED <<capture, query, directory, load, made, verdict, edits>>

Next == Capture \/ ForgeResponse \/ Begin \/ ReadEntry \/ Matched \/ Verified \/ Edit \/ Tamper \/ EditResult
Spec == Init /\ [][Next]_vars

-----------------------------------------------------------------------------
(* A label is accepted only for a pair in which nothing but the requested  *)
(* settings changed, in windows of like length, and that was measured      *)
(* completely in enough features; and only because of a fingerprint of a   *)
(* pair of that cause, checked and captured in a like context, that is     *)
(* nearer than any other compared. *)
Earned(c, label) ==
  /\ c.wrong \notin Faults
  /\ \E f \in made.of.read : f \in Genuine /\ f.label = label /\ f.status = "software_checked"
       /\ Alike(f.response.observation.degraded.context) = Alike(c.pair.degraded.context)
       /\ \A x, y \in made.result.comparisons : x.id = f.id /\ y.id # f.id => x.distance < y.distance
MatchEarned == (made # Null /\ made.result.decision.label # Null) => Earned(capture, made.result.decision.label)

(* A load that succeeds has read every file it listed, whatever was put,   *)
(* removed, linked, copied or edited meanwhile: each is a genuine record,  *)
(* and none stands for another. *)
Complete(of) == of.read \subseteq Genuine /\ Cardinality(of.read) = Cardinality(of.listed)
NothingOverlooked ==
  /\ made # Null => Complete(made.of)
  /\ verdict # Null => Complete(verdict.of)

(* A result is verified only with the fingerprints it was made of, if it   *)
(* is as it was made; edited it is not, unless it was made into the very   *)
(* result of a directory that was edited as well. *)
VerifiedUnchanged ==
  (verdict # Null /\ verdict.agrees) => (result = made.result <=> verdict.of.read = made.of.read)

(* Where nothing went wrong the pair is not refused, the fingerprints are  *)
(* loaded, and the result is consistent in itself and verified. *)
Quiet == trouble = Null /\ edits = 0
Served ==
  /\ query # Refusal /\ load # Failure
  /\ result # Null => ValidResult(result)
  /\ verdict # Null => verdict.agrees
HonestServed == (Quiet /\ capture # Null) => Served
=============================================================================
