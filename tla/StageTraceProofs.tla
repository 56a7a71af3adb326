--------------------------- MODULE StageTraceProofs ---------------------------
(***************************************************************************)
(* For every limit, sampling rate and length of a recording: the ledger of *)
(* an accepted stage trace is the truth, whatever single slip its recorder *)
(* made, and the durations reconstructed from it are of what happened.  A  *)
(* record made without a slip satisfies every validator, and so does every *)
(* reconstruction of an accepted one.  And for every manifest: an accepted *)
(* and verified effect of an experiment is what happened (second part),    *)
(* and no honest experiment is refused (third part).                       *)
(***************************************************************************)
EXTENDS StageTrace, ExperimentRun, FiniteSetTheorems, TLAPS

LifeOf(f) == [offered : Nat, attempted : Nat, times : SUBSET ((Nat \ {0}) \X Allowed(f) \X Nat)]

TypeOK ==
  /\ format \in Formats /\ settings \in Settings[format]
  /\ open \in Stream(format) \cup {Null} /\ streams \in Seq(Stream(format))
  /\ now \in Nat
  /\ truth \in Seq(LifeOf(format)) /\ Len(truth) = Len(All)
  /\ slip \in Kinds \cup {Null}

Frames == [frame : Nat \ {0}, correlation : {"exact", "missing", "ambiguous"}]
Events(f) == [sequence : Nat, frame : Nat \ {0}, boundary : Allowed(f), at : Nat]

(* How many of the first n frames a rate takes. *)
Taken(n, every) == (n + every - 1) \div every

Evenly(frames, every) == \A i \in DOMAIN frames : frames[i].frame = 1 + (i - 1) * every
FramesTrue(s, t) ==
  /\ s.offered = t.offered /\ s.sampled = Len(s.frames)
  /\ s.stop # "disabled" => Len(s.frames) + s.frameDropped = Taken(s.offered, s.every)
  /\ Evenly(s.frames, s.every)
Passages(events, times) ==
  /\ \A i \in DOMAIN events : <<events[i].frame, events[i].boundary, events[i].at>> \in times
  /\ \A i, j \in DOMAIN events :
       i # j => <<events[i].frame, events[i].boundary>> # <<events[j].frame, events[j].boundary>>
EventsTrue(s, t) ==
  /\ s.attempted = t.attempted
  /\ s.retained = Len(s.events) /\ s.attempted = Len(s.events) + s.lost
  /\ Passages(s.events, t.times)
Honest(s, t) == FramesTrue(s, t) /\ EventsTrue(s, t)

(* What no validator lets through. *)
Ledgered(s) ==
  /\ CountsConserved(s) /\ EligibleCounted(s) /\ s.sampled = Len(s.frames) /\ s.retained = Len(s.events)
  /\ PrefixSampled(s) /\ EventsAdmitted(s)

(* Every lifetime is truly recorded, except that the last may not be after *)
(* a slip; then what is wrong with it shows.                               *)
Truthful ==
  \A k \in DOMAIN All :
    \/ Honest(All[k], truth[k])
    \/ slip # Null /\ k = Len(All) /\ ~Ledgered(All[k])

(* Once a frame found no room none will, in this lifetime.                 *)
StaysFull == (open # Null /\ open.frameDropped > 0 /\ slip = Null) => FramesLeft = 0

Settled ==
  verdict # Null =>
    /\ open = Null
    /\ verdict = [accepted |-> ValidRecord(Record),
                  summary |-> IF ValidRecord(Record) THEN Reconstruct(Record) ELSE Null]

IInv == TypeOK /\ Truthful /\ StaysFull /\ Settled

-----------------------------------------------------------------------------
(* Division, and the count of the frames a rate takes.                     *)
LEMMA Division ==
  ASSUME NEW a \in Nat, NEW e \in Nat \ {0}
  PROVE  a \div e \in Nat /\ a % e \in 0..e - 1 /\ a = (a \div e) * e + (a % e)
<1> DEFINE p == a \div e
           r == a % e
<1>1. p \in Nat
  OBVIOUS
<1>2. r \in 0..e - 1
  OBVIOUS
<1>3. r = a - p * e
  OBVIOUS
<1> HIDE DEF p, r
<1>4. a = p * e + r
  BY <1>1, <1>2, <1>3
<1> QED
  BY <1>1, <1>2, <1>4, Zenon DEF p, r

LEMMA Multiples ==
  ASSUME NEW p \in Int, NEW q \in Int, NEW e \in Nat \ {0}, p < q
  PROVE  p * e + e <= q * e
  OBVIOUS

LEMMA DivisionUnique ==
  ASSUME NEW a \in Nat, NEW e \in Nat \ {0}, NEW q \in Nat, NEW r \in 0..e - 1, a = q * e + r
  PROVE  a \div e = q /\ a % e = r
<1> DEFINE p == a \div e
           s == a % e
<1>1. p \in Nat /\ s \in 0..e - 1 /\ a = p * e + s
  BY Division
<1> HIDE DEF p, s
<1>2. ~(q < p) /\ ~(p < q)
  BY <1>1, Multiples
<1>3. p = q /\ s = r
  BY <1>1, <1>2
<1> QED
  BY <1>3 DEF p, s

LEMMA TakenStep ==
  ASSUME NEW n \in Nat, NEW e \in Nat \ {0}
  PROVE  /\ Taken(n, e) \in Nat /\ Taken(0, e) = 0
         /\ n % e = 0 => Taken(n + 1, e) = Taken(n, e) + 1 /\ n = Taken(n, e) * e
         /\ n % e # 0 => Taken(n + 1, e) = Taken(n, e)
<1> DEFINE q == n \div e
           r == n % e
<1>1. q \in Nat /\ r \in 0..e - 1 /\ n = q * e + r
  BY Division
<1> HIDE DEF q, r
<1>2. q * e \in Nat /\ (q + 1) * e = q * e + e /\ q + 1 \in Nat
  BY <1>1
<1>3. n + e - 1 \in Nat /\ n + 1 + e - 1 \in Nat /\ 0 + e - 1 \in Nat
  OBVIOUS
<1>4. Taken(0, e) = 0
  <2>1. 0 + e - 1 = 0 * e + (e - 1) /\ e - 1 \in 0..e - 1
    OBVIOUS
  <2> QED
    BY <1>3, <2>1, DivisionUnique DEF Taken
<1>5. CASE r = 0
  <2>1. n + e - 1 = q * e + (e - 1) /\ n + 1 + e - 1 = (q + 1) * e + 0
    BY <1>1, <1>2, <1>5
  <2>2. e - 1 \in 0..e - 1 /\ 0 \in 0..e - 1
    OBVIOUS
  <2>3. Taken(n, e) = q
    BY <1>1, <1>3, <2>1, <2>2, DivisionUnique DEF Taken
  <2>4. Taken(n + 1, e) = q + 1
    BY <1>2, <1>3, <2>1, <2>2, DivisionUnique DEF Taken
  <2>5. n = q * e
    BY <1>1, <1>2, <1>5
  <2> QED
    BY <1>1, <1>2, <1>4, <1>5, <2>3, <2>4, <2>5, Zenon DEF r
<1>6. CASE r # 0
  <2>0. PICK t \in 0..e - 1 : t = r - 1
    BY <1>1, <1>6
  <2>1. n + e - 1 = (q + 1) * e + t /\ n + 1 + e - 1 = (q + 1) * e + r
    BY <1>1, <1>2, <2>0
  <2>3. Taken(n, e) = q + 1
    BY <1>2, <1>3, <2>1, DivisionUnique DEF Taken
  <2>4. Taken(n + 1, e) = q + 1
    BY <1>1, <1>2, <1>3, <2>1, DivisionUnique DEF Taken
  <2> QED
    BY <1>2, <1>4, <1>6, <2>3, <2>4 DEF r
<1> QED
  BY <1>5, <1>6

LEMMA TakenNext ==
  ASSUME NEW n \in Nat, NEW e \in Nat \ {0}
  PROVE  (n + 1) % e = 1 % e <=> n % e = 0
<1> DEFINE q == n \div e
           r == n % e
<1>1. q \in Nat /\ r \in 0..e - 1 /\ n = q * e + r
  BY Division
<1> HIDE DEF q, r
<1>2. q * e \in Nat /\ (q + 1) * e = q * e + e /\ q + 1 \in Nat /\ n + 1 \in Nat
  BY <1>1
<1>3. CASE e = 1
  BY <1>1, <1>3, Division DEF r
<1>4. CASE e # 1
  <2>1. 1 % e = 1
    <3> 1 = 0 * e + 1 /\ 1 \in 0..e - 1
      BY <1>4
    <3> QED
      BY DivisionUnique
  <2>2. CASE r + 1 = e
    <3>1. n + 1 = (q + 1) * e + 0 /\ 0 \in 0..e - 1
      BY <1>1, <1>2, <2>2
    <3>2. (n + 1) % e = 0
      BY <1>2, <3>1, DivisionUnique
    <3> QED
      BY <1>4, <2>1, <2>2, <3>2 DEF r
  <2>3. CASE r + 1 # e
    <3>1. n + 1 = q * e + (r + 1) /\ r + 1 \in 0..e - 1
      BY <1>1, <1>2, <2>3
    <3>2. (n + 1) % e = r + 1
      BY <1>1, <1>2, <3>1, DivisionUnique
    <3> QED
      BY <1>1, <2>1, <3>2 DEF r
  <2> QED
    BY <2>2, <2>3
<1> QED
  BY <1>3, <1>4

LEMMA TakenCounts ==
  ASSUME NEW m \in Nat, NEW e \in Nat \ {0}
  PROVE  Cardinality({n \in 1..m : n % e = 1 % e}) = Taken(m, e)
<1> DEFINE Set(k) == {n \in 1..k : n % e = 1 % e}
           S == {k \in Nat : Cardinality(Set(k)) = Taken(k, e)}
<1>1. 0 \in S
  <2>1. Set(0) = {}
    OBVIOUS
  <2> QED
    BY <2>1, FS_EmptySet, TakenStep
<1>2. ASSUME NEW k \in S PROVE k + 1 \in S
  <2>1. k \in Nat /\ k + 1 \in Nat /\ Cardinality(Set(k)) = Taken(k, e)
    OBVIOUS
  <2>2. IsFiniteSet(Set(k))
    <3>1. IsFiniteSet(1..k) /\ Set(k) \in SUBSET (1..k)
      BY <2>1, FS_Interval
    <3> QED
      BY <3>1, FS_Subset
  <2>3. \A n : n \in 1..k + 1 <=> n \in 1..k \/ n = k + 1
    BY <2>1
  <2>4. k + 1 \notin Set(k)
    BY <2>1
  <2>5. CASE k % e = 0
    <3>1. (k + 1) % e = 1 % e
      BY <2>1, <2>5, TakenNext
    <3>2. \A n : n \in Set(k + 1) <=> n \in Set(k) \cup {k + 1}
      BY <2>3, <3>1
    <3>3. Set(k + 1) = Set(k) \cup {k + 1}
      <4> HIDE DEF Set
      <4> QED
        BY <3>2
    <3>4. Cardinality(Set(k + 1)) = Cardinality(Set(k)) + 1
      <4> HIDE DEF Set
      <4> QED
        BY <2>2, <2>4, <3>3, FS_AddElement
    <3> QED
      BY <2>1, <2>5, <3>4, TakenStep
  <2>6. CASE k % e # 0
    <3>1. (k + 1) % e # 1 % e
      BY <2>1, <2>6, TakenNext
    <3>2. Set(k + 1) = Set(k)
      BY <2>3, <3>1, Zenon
    <3> QED
      BY <2>1, <2>6, <3>2, TakenStep
  <2> QED
    BY <2>5, <2>6
<1>3. S = Nat
  <2>1. S \in SUBSET Nat
    OBVIOUS
  <2> HIDE DEF S
  <2> QED
    BY <1>1, <1>2, <2>1, SetInduction
<1> QED
  BY <1>3

-----------------------------------------------------------------------------
(* The lifetimes of a recording.                                           *)
LEMMA AllFacts ==
  ASSUME TypeOK
  PROVE  /\ All \in Seq(Stream(format)) /\ Len(streams) \in Nat
         /\ open = Null => All = streams
         /\ open # Null => /\ open \in Stream(format) /\ Life = Len(streams) + 1
                           /\ Len(All) = Len(streams) + 1 /\ All[Len(streams) + 1] = open
                           /\ \A k \in 1..Len(streams) : All[k] = streams[k]
  BY DEF TypeOK, All, Life

LEMMA StreamFields ==
  ASSUME NEW f, NEW s \in Stream(f)
  PROVE  /\ {s.offered, s.sampled, s.unsampled, s.frameDropped} \subseteq Nat
         /\ {s.attempted, s.retained, s.lost, s.missed} \subseteq Nat
         /\ s.every \in Nat \ {0} /\ s.stop \in {Null, "completed", "disabled"}
         /\ s.frames \in Seq(Frames) /\ s.events \in Seq(Events(f))
         /\ s.budget \in Nat \cup {Null}
  BY DEF Stream, Frames, Events

LEMMA AppendFacts ==
  ASSUME NEW S, NEW seq \in Seq(S), NEW x \in S
  PROVE  /\ Append(seq, x) \in Seq(S) /\ Len(seq) \in Nat /\ Len(Append(seq, x)) = Len(seq) + 1
         /\ Append(seq, x)[Len(seq) + 1] = x
         /\ \A i \in DOMAIN Append(seq, x) :
              i = Len(seq) + 1 \/ (i \in DOMAIN seq /\ Append(seq, x)[i] = seq[i])
  OBVIOUS

LEMMA TailFacts ==
  ASSUME NEW S, NEW seq \in Seq(S), seq # <<>>
  PROVE  /\ Tail(seq) \in Seq(S) /\ Len(Tail(seq)) \in Nat /\ Len(seq) = Len(Tail(seq)) + 1
         /\ \A i \in 1..Len(Tail(seq)) : Tail(seq)[i] = seq[i + 1]
  OBVIOUS

LEMMA EvenlyGrows ==
  ASSUME NEW frames \in Seq(Frames), NEW e \in Nat, Evenly(frames, e),
         NEW x \in Frames, x.frame = Len(frames) * e + 1
  PROVE  Evenly(Append(frames, x), e)
<1> DEFINE y == Append(frames, x)
<1>1. /\ Len(frames) \in Nat /\ y[Len(frames) + 1] = x
      /\ \A i \in DOMAIN y : i = Len(frames) + 1 \/ (i \in DOMAIN frames /\ y[i] = frames[i])
  BY AppendFacts
<1>2. y[Len(frames) + 1].frame = 1 + Len(frames) * e
  <2> DEFINE p == Len(frames) * e
  <2>1. p \in Nat
    BY <1>1
  <2> HIDE DEF p
  <2>2. x.frame = p + 1
    BY DEF p
  <2>3. x.frame = 1 + p
    BY <2>1, <2>2
  <2> QED
    BY <1>1, <2>3 DEF p
<1>3. (Len(frames) + 1) - 1 = Len(frames)
  BY <1>1
<1> HIDE DEF y
<1> SUFFICES ASSUME NEW i \in DOMAIN y PROVE y[i].frame = 1 + (i - 1) * e
  BY DEF y, Evenly
<1>4. CASE i = Len(frames) + 1
  BY <1>2, <1>3, <1>4
<1>5. CASE i # Len(frames) + 1
  <2>1. i \in DOMAIN frames /\ y[i] = frames[i]
    BY <1>1, <1>5
  <2> QED
    BY <2>1, Zenon DEF Evenly
<1> QED
  BY <1>4, <1>5

LEMMA FramesLeftKept ==
  ASSUME TypeOK, open # Null, streams' = streams, open' # Null, Len(open'.frames) = Len(open.frames)
  PROVE  FramesLeft' = FramesLeft
<1>1. /\ All = Append(streams, open) /\ All' = Append(streams, open')
      /\ streams \in Seq(Stream(format))
  BY DEF All, TypeOK
<1>2. [i \in DOMAIN All |-> Len(All[i].frames)]' = [i \in DOMAIN All |-> Len(All[i].frames)]
  <2>1. DOMAIN All = 1..Len(streams) + 1 /\ DOMAIN All' = 1..Len(streams) + 1
    BY <1>1
  <2>2. ASSUME NEW i \in 1..Len(streams) + 1 PROVE Len(All'[i].frames) = Len(All[i].frames)
    <3>1. CASE i = Len(streams) + 1
      BY <1>1, <3>1
    <3>2. CASE i # Len(streams) + 1
      BY <1>1, <3>2
    <3> QED
      BY <3>1, <3>2
  <2> QED
    BY <2>1, <2>2
<1>3. FramesIn(All)' = FramesIn(All)
  BY <1>2 DEF FramesIn
<1> QED
  BY <1>3 DEF FramesLeft

(* A step of the lifetime being recorded. *)
LEMMA LastChanges ==
  ASSUME IInv, verdict = Null, slip = Null, open # Null, UNCHANGED <<format, settings, streams, verdict>>,
         open' \in Stream(format), now' \in Nat, slip' \in Kinds \cup {Null},
         NEW life \in LifeOf(format), truth' = [truth EXCEPT ![Life] = life],
         Honest(open', life) \/ (slip' # Null /\ ~Ledgered(open')),
         (slip' = Null /\ open'.frameDropped > 0) => FramesLeft' = 0
  PROVE  IInv'
<1> DEFINE n == Len(streams) + 1
<1>0. TypeOK /\ Truthful
  BY DEF IInv
<1>1. /\ n \in Nat /\ Life = n /\ Len(All) = n /\ All[n] = open /\ Len(truth) = n
      /\ \A k \in 1..Len(streams) : All[k] = streams[k]
  BY <1>0, AllFacts DEF TypeOK
<1>2. open' # Null
  BY <1>0, NullAssumption DEF TypeOK
<1>3. /\ truth' \in Seq(LifeOf(format)) /\ Len(truth') = n /\ truth'[n] = life
      /\ \A k \in 1..Len(streams) : truth'[k] = truth[k]
  BY <1>0, <1>1 DEF TypeOK
<1>4. /\ Len(All') = n /\ DOMAIN All' = 1..n /\ All'[n] = open'
      /\ \A k \in 1..Len(streams) : All'[k] = streams[k]
  <2>1. All' = Append(streams, open')
    BY <1>2 DEF All
  <2> QED
    BY <1>0, <2>1 DEF TypeOK
<1>5. TypeOK'
  BY <1>0, <1>3, <1>4 DEF TypeOK
<1>6. Truthful'
  <2> SUFFICES ASSUME NEW k \in 1..n
               PROVE  \/ Honest(All'[k], truth'[k])
                      \/ slip' # Null /\ k = n /\ ~Ledgered(All'[k])
    BY <1>4 DEF Truthful
  <2>1. CASE k = n
    BY <1>3, <1>4, <2>1
  <2>2. CASE k # n
    <3>1. k \in 1..Len(streams) /\ k \in DOMAIN All
      BY <1>0, <1>1, <2>2, AllFacts
    <3>2. Honest(All[k], truth[k])
      BY <1>0, <3>1 DEF Truthful
    <3> QED
      BY <1>1, <1>3, <1>4, <3>1, <3>2
  <2> QED
    BY <2>1, <2>2
<1>7. StaysFull'
  BY DEF StaysFull
<1>8. Settled'
  BY DEF Settled
<1> QED
  BY <1>5, <1>6, <1>7, <1>8 DEF IInv

-----------------------------------------------------------------------------
LEMMA InitOK == Init => IInv
<1> SUFFICES ASSUME Init PROVE IInv
  OBVIOUS
<1>1. All = <<>>
  BY DEF Init, All
<1>2. TypeOK
  BY <1>1 DEF Init, TypeOK
<1> QED
  BY <1>1, <1>2 DEF Init, IInv, Truthful, StaysFull, Settled

LEMMA LifetimeTyped ==
  ASSUME TypeOK, NEW n \in Nat \ {0}
  PROVE  Lifetime(n) \in Stream(format)
<1>1. /\ settings.every \in Nat \ {0}
      /\ settings.budget \in Nat \cup {Null}
  BY SettingsAssumption DEF TypeOK
<1>2. Declares \in [Boundaries(format) ->
                      {"disabled", "supported", "not_instrumented", "unsupported_source"}]
  BY DEF Declares
<1>3. /\ <<>> \in Seq([frame : Nat \ {0}, correlation : {"exact", "missing", "ambiguous"}])
      /\ <<>> \in Seq([sequence : Nat, frame : Nat \ {0}, boundary : Allowed(format), at : Nat])
  OBVIOUS
<1> QED
  BY <1>1, <1>2, <1>3 DEF Lifetime, Stream

LEMMA EmptyHonest ==
  ASSUME TypeOK, NEW s \in Stream(format), s.frames = <<>>, s.events = <<>>, s.offered = 0, s.sampled = 0,
         s.frameDropped = 0, s.attempted = 0, s.retained = 0, s.lost = 0
  PROVE  Honest(s, [offered |-> 0, attempted |-> 0, times |-> {}])
<1>1. s.every \in Nat \ {0} /\ 0 \in Nat
  BY StreamFields
<1>2. Taken(0, s.every) = 0
  BY <1>1, TakenStep
<1>3. FramesTrue(s, [offered |-> 0, attempted |-> 0, times |-> {}])
  <2>1. Evenly(<<>>, s.every) /\ Len(<<>>) = 0
    BY DEF Evenly
  <2> QED
    BY <1>2, <2>1 DEF FramesTrue
<1>4. EventsTrue(s, [offered |-> 0, attempted |-> 0, times |-> {}])
  BY DEF EventsTrue, Passages
<1> QED
  BY <1>3, <1>4 DEF Honest

(* A lifetime begins. *)
LEMMA OpenOK ==
  ASSUME IInv, NEW s \in Stream(format), Open(s), slip' \in Kinds \cup {Null},
         s.frames = <<>>, s.events = <<>>, s.offered = 0, s.sampled = 0, s.frameDropped = 0,
         s.attempted = 0, s.retained = 0, s.lost = 0
  PROVE  IInv'
<1> DEFINE n == Len(streams) + 1
           life == [offered |-> 0, attempted |-> 0, times |-> {}]
<1>0. TypeOK /\ Truthful
  BY DEF IInv
<1>1. /\ open = Null /\ slip = Null /\ verdict = Null /\ open' = s /\ now' = 0
      /\ truth' = Append(truth, life)
      /\ UNCHANGED <<format, settings, streams, verdict>>
  BY DEF Open, Recording
<1>2. open' # Null
  BY <1>0, <1>1, NullAssumption DEF TypeOK
<1>3. All = streams /\ Len(truth) = Len(streams) /\ streams \in Seq(Stream(format)) /\ truth \in Seq(LifeOf(format))
  BY <1>0, <1>1 DEF All, TypeOK
<1>4. All' = Append(streams, s)
  BY <1>1, <1>2 DEF All
<1>5. life \in LifeOf(format)
  BY DEF LifeOf
<1>6. TypeOK'
  <2>1. truth' \in Seq(LifeOf(format)) /\ Len(truth') = n
    BY <1>1, <1>3, <1>5
  <2>2. Len(All') = n
    BY <1>3, <1>4
  <2> QED
    BY <1>0, <1>1, <2>1, <2>2 DEF TypeOK
<1>7. Truthful'
  <2>1. /\ DOMAIN All' = 1..n /\ Len(All') = n /\ All'[n] = s /\ truth'[n] = life
        /\ \A k \in 1..Len(streams) : All'[k] = All[k] /\ truth'[k] = truth[k]
    <3> HIDE DEF life
    <3> QED
      BY <1>1, <1>3, <1>4
  <2>2. Honest(s, life)
    BY <1>0, EmptyHonest
  <2>3. \A k \in DOMAIN All : Honest(All[k], truth[k])
    BY <1>0, <1>1 DEF Truthful
  <2> HIDE DEF life
  <2>4. SUFFICES ASSUME NEW k \in 1..n PROVE Honest(All'[k], truth'[k])
    BY <2>1 DEF Truthful
  <2>5. CASE k = n
    BY <2>1, <2>2, <2>5
  <2>6. CASE k # n
    <3>1. k \in 1..Len(streams) /\ k \in DOMAIN All
      BY <1>3, <2>6
    <3> QED
      BY <2>1, <2>3, <3>1
  <2> QED
    BY <2>5, <2>6
<1>8. StaysFull'
  BY <1>1 DEF StaysFull
<1>9. Settled'
  BY <1>1 DEF Settled
<1> QED
  BY <1>6, <1>7, <1>8, <1>9 DEF IInv

LEMMA BeginOK == ASSUME IInv, Begin PROVE IInv'
<1> DEFINE n == Len(streams) + 1
<1>1. TypeOK /\ n \in Nat \ {0}
  BY DEF IInv, TypeOK
<1>2. Lifetime(n) \in Stream(format)
  BY <1>1, LifetimeTyped
<1>3. Open(Lifetime(n)) /\ slip' \in Kinds \cup {Null}
  BY <1>1 DEF Begin, TypeOK
<1>4. /\ Lifetime(n).frames = <<>> /\ Lifetime(n).events = <<>> /\ Lifetime(n).offered = 0
      /\ Lifetime(n).sampled = 0 /\ Lifetime(n).frameDropped = 0
      /\ Lifetime(n).attempted = 0 /\ Lifetime(n).retained = 0 /\ Lifetime(n).lost = 0
  BY DEF Lifetime
<1> HIDE DEF n
<1> QED
  BY <1>2, <1>3, <1>4, OpenOK

LEMMA SlipLifetimeOK == ASSUME IInv, SlipLifetime PROVE IInv'
<1> DEFINE n == Len(streams) + 1
           s == Lifetime(n)
<1>1. TypeOK /\ n \in Nat \ {0} /\ streams # <<>>
  BY DEF IInv, TypeOK, SlipLifetime
<1>2. s \in Stream(format)
  BY <1>1, LifetimeTyped
<1>3. s.epoch = n /\ s.clock = n /\ n - 1 \in Nat
  BY <1>1 DEF Lifetime
<1>4. /\ s.frames = <<>> /\ s.events = <<>> /\ s.offered = 0 /\ s.sampled = 0 /\ s.frameDropped = 0
      /\ s.attempted = 0 /\ s.retained = 0 /\ s.lost = 0
  BY DEF Lifetime
<1>5. slip' \in Kinds \cup {Null}
  BY DEF SlipLifetime, Slips, Kinds
<1>6. Open([s EXCEPT !.epoch = @ - 1]) \/ Open([s EXCEPT !.clock = @ - 1])
  BY DEF SlipLifetime
<1> HIDE DEF s, n
<1>7. CASE Open([s EXCEPT !.epoch = @ - 1])
  <2> DEFINE x == [s EXCEPT !.epoch = @ - 1]
  <2>1. /\ x \in Stream(format)
        /\ x.frames = <<>> /\ x.events = <<>> /\ x.offered = 0 /\ x.sampled = 0 /\ x.frameDropped = 0
        /\ x.attempted = 0 /\ x.retained = 0 /\ x.lost = 0
    BY <1>2, <1>3, <1>4 DEF Stream
  <2> HIDE DEF x
  <2> QED
    BY <1>5, <1>7, <2>1, OpenOK DEF x
<1>8. CASE Open([s EXCEPT !.clock = @ - 1])
  <2> DEFINE x == [s EXCEPT !.clock = @ - 1]
  <2>1. /\ x \in Stream(format)
        /\ x.frames = <<>> /\ x.events = <<>> /\ x.offered = 0 /\ x.sampled = 0 /\ x.frameDropped = 0
        /\ x.attempted = 0 /\ x.retained = 0 /\ x.lost = 0
    BY <1>2, <1>3, <1>4 DEF Stream
  <2> HIDE DEF x
  <2> QED
    BY <1>5, <1>8, <2>1, OpenOK DEF x
<1> QED
  BY <1>6, <1>7, <1>8

(* A lifetime ends: its record changes only in how it stopped.             *)
LEMMA EndOK == ASSUME IInv, End PROVE IInv'
<1> DEFINE n == Len(streams) + 1
           s == IF open.stop = Null THEN [open EXCEPT !.stop = "completed"] ELSE open
<1>0. TypeOK /\ Truthful
  BY DEF IInv
<1>1. /\ verdict = Null /\ open # Null /\ streams' = Append(streams, s) /\ open' = Null /\ now' = 0
      /\ UNCHANGED <<format, settings, verdict, truth, slip>>
  BY DEF End, Recording
<1>2. /\ open \in Stream(format) /\ streams \in Seq(Stream(format)) /\ Len(All) = n /\ All[n] = open
      /\ All \in Seq(Stream(format))
      /\ \A k \in 1..Len(streams) : All[k] = streams[k]
  <2>1. streams \in Seq(Stream(format))
    BY <1>0 DEF TypeOK
  <2>2. /\ All \in Seq(Stream(format)) /\ open \in Stream(format)
        /\ Len(All) = Len(streams) + 1 /\ All[Len(streams) + 1] = open
        /\ \A k \in 1..Len(streams) : All[k] = streams[k]
    BY <1>0, <1>1, AllFacts
  <2> QED
    BY <2>1, <2>2
<1>3. s \in Stream(format)
  <2>1. open \in Stream(format)
    BY <1>2
  <2>2. [open EXCEPT !.stop = "completed"] \in Stream(format)
    BY ONLY <2>1 DEF Stream
  <2> QED
    BY <2>1, <2>2
<1>4. /\ Honest(open, truth[n]) => Honest(s, truth[n])
      /\ Ledgered(s) => Ledgered(open)
  <2>1. /\ s.frames = open.frames /\ s.events = open.events /\ s.every = open.every
        /\ s.offered = open.offered /\ s.sampled = open.sampled /\ s.unsampled = open.unsampled
        /\ s.frameDropped = open.frameDropped /\ s.attempted = open.attempted /\ s.retained = open.retained
        /\ s.lost = open.lost /\ s.capabilities = open.capabilities
        /\ s.stop # "disabled" => open.stop # "disabled"
    BY <1>2, NullAssumption DEF Stream
  <2> HIDE DEF s
  <2>2. FramesTrue(open, truth[n]) => FramesTrue(s, truth[n])
    BY <2>1 DEF FramesTrue
  <2>3. EventsTrue(open, truth[n]) => EventsTrue(s, truth[n])
    BY <2>1 DEF EventsTrue
  <2>4. /\ CountsConserved(s) = CountsConserved(open) /\ PrefixSampled(s) = PrefixSampled(open)
        /\ EventsAdmitted(s) = EventsAdmitted(open) /\ EligibleCounted(s) = EligibleCounted(open)
    BY <2>1 DEF CountsConserved, EligibleCounted, PrefixSampled, EventsAdmitted, EventAdmitted, Supported
  <2> QED
    BY <2>1, <2>2, <2>3, <2>4 DEF Honest, Ledgered
<1> HIDE DEF s
<1>5. All' = Append(streams, s)
  BY <1>1 DEF All
<1>6. TypeOK'
  BY <1>0, <1>1, <1>2, <1>3, <1>5 DEF TypeOK
<1>7. Truthful'
  <2>1. /\ DOMAIN All' = 1..n /\ DOMAIN All = 1..n /\ Len(All') = n /\ All'[n] = s
        /\ \A k \in 1..Len(streams) : All'[k] = All[k]
    BY <1>2, <1>3, <1>5
  <2>2. SUFFICES ASSUME NEW k \in 1..n
                 PROVE  \/ Honest(All'[k], truth'[k])
                        \/ slip' # Null /\ k = n /\ ~Ledgered(All'[k])
    BY <2>1 DEF Truthful
  <2>3. Honest(All[k], truth[k]) \/ (slip # Null /\ k = n /\ ~Ledgered(All[k]))
    BY <1>0, <1>2, <2>1 DEF Truthful
  <2>4. CASE k = n
    BY <1>1, <1>2, <1>4, <2>1, <2>3, <2>4
  <2>5. CASE k # n
    <3>1. k \in 1..Len(streams)
      BY <1>2, <2>5
    <3> QED
      BY <1>1, <2>1, <2>3, <3>1
  <2> QED
    BY <2>4, <2>5
<1>8. StaysFull' /\ Settled'
  BY <1>1 DEF StaysFull, Settled
<1> QED
  BY <1>6, <1>7, <1>8 DEF IInv

LEMMA AdoptOK == ASSUME IInv, Adopt PROVE IInv'
<1>1. /\ open = Null /\ UNCHANGED <<format, settings, open, streams, now, truth, slip>>
      /\ verdict' = [accepted |-> ValidRecord(Record),
                     summary |-> IF ValidRecord(Record) THEN Reconstruct(Record) ELSE Null]
  BY DEF Adopt, recorder
<1>2. All' = All /\ FramesLeft' = FramesLeft /\ Record' = Record
  BY <1>1 DEF All, FramesLeft, Record
<1>3. TypeOK'
  BY <1>1, <1>2 DEF IInv, TypeOK
<1>4. Truthful'
  BY <1>1, <1>2 DEF IInv, Truthful
<1>5. StaysFull'
  BY <1>1, <1>2 DEF IInv, StaysFull
<1>6. Settled'
  BY <1>1, <1>2 DEF Settled
<1> QED
  BY <1>3, <1>4, <1>5, <1>6 DEF IInv

-----------------------------------------------------------------------------
(* What is the case while a lifetime is recorded.                          *)
LEMMA InLife ==
  ASSUME IInv, InLifetime
  PROVE  /\ TypeOK /\ verdict = Null /\ slip = Null
         /\ open # Null /\ open \in Stream(format) /\ open.stop = Null /\ open.stop # "disabled"
         /\ UNCHANGED <<format, settings, streams, verdict>>
         /\ truth \in Seq(LifeOf(format)) /\ Life \in DOMAIN truth /\ truth[Life] \in LifeOf(format)
         /\ Honest(open, truth[Life])
         /\ open.frameDropped > 0 => FramesLeft = 0
<1>1. TypeOK /\ Truthful /\ StaysFull
  BY DEF IInv
<1>2. /\ verdict = Null /\ slip = Null /\ open # Null /\ open.stop = Null
      /\ UNCHANGED <<format, settings, streams, verdict>>
  BY DEF InLifetime, Recording
<1>3. /\ open \in Stream(format) /\ Life = Len(All) /\ Life \in DOMAIN All /\ All[Life] = open
      /\ truth \in Seq(LifeOf(format)) /\ Life \in DOMAIN truth
  <2>1. truth \in Seq(LifeOf(format)) /\ Len(truth) = Len(All)
    BY <1>1 DEF TypeOK
  <2> QED
    BY <1>1, <1>2, <2>1, AllFacts
<1>4. Honest(open, truth[Life])
  BY <1>1, <1>2, <1>3 DEF Truthful
<1>5. truth[Life] \in LifeOf(format)
  BY <1>3
<1> QED
  BY <1>1, <1>2, <1>3, <1>4, <1>5, NullAssumption DEF StaysFull

(* One more frame was offered.                                             *)
LEMMA OfferedFrames ==
  ASSUME IInv, OfferedNow
  PROVE  \E life \in LifeOf(format) :
           /\ truth' = [truth EXCEPT ![Life] = life] /\ now' \in Nat
           /\ life.offered = open.offered + 1
           /\ \A s \in Stream(format) :
                (s.events = open.events /\ s.retained = open.retained /\ s.lost = open.lost
                   /\ s.attempted = open.attempted) => EventsTrue(s, life)
<1> DEFINE old == truth[Life]
           life == [old EXCEPT !.offered = @ + 1]
<1>1. InLifetime /\ now' = now /\ truth' = [truth EXCEPT ![Life].offered = @ + 1]
  BY DEF OfferedNow
<1>2. /\ TypeOK /\ Honest(open, old) /\ old \in LifeOf(format)
      /\ truth \in Seq(LifeOf(format)) /\ Life \in DOMAIN truth
  BY <1>1, InLife
<1>3. truth' = [truth EXCEPT ![Life] = life]
  BY <1>1, <1>2
<1>4. /\ life \in LifeOf(format)
      /\ life.offered = old.offered + 1 /\ life.attempted = old.attempted /\ life.times = old.times
  <2> HIDE DEF old
  <2>1. PICK v \in Nat : v = old.offered + 1
    BY <1>2 DEF LifeOf
  <2>2. life = [old EXCEPT !.offered = v]
    BY <1>2, <2>1 DEF LifeOf
  <2> HIDE DEF life
  <2>3. life \in LifeOf(format)
    BY <1>2, <2>2 DEF LifeOf
  <2>4. life.offered = v /\ life.attempted = old.attempted /\ life.times = old.times
    BY <1>2, <2>2 DEF LifeOf
  <2> QED
    BY <2>1, <2>3, <2>4
<1> HIDE DEF life, old
<1>5. old.offered = open.offered
  BY <1>2 DEF Honest, FramesTrue
<1>6. ASSUME NEW s \in Stream(format), s.events = open.events, s.retained = open.retained,
             s.lost = open.lost, s.attempted = open.attempted
      PROVE  EventsTrue(s, life)
  BY <1>2, <1>4, <1>6 DEF Honest, EventsTrue
<1>7. now' \in Nat
  BY <1>1, <1>2 DEF TypeOK
<1> QED
  BY <1>3, <1>4, <1>5, <1>6, <1>7

LEMMA OfferOK == ASSUME IInv, NEW c \in {"exact", "missing"}, NEW gap \in 0..1, Offer(c, gap) PROVE IInv'
<1>1. OfferedNow /\ InLifetime /\ slip' = slip
  BY DEF Offer, OfferedNow
<1>2. /\ TypeOK /\ verdict = Null /\ slip = Null /\ open # Null /\ open \in Stream(format)
      /\ open.stop = Null /\ open.stop # "disabled"
      /\ UNCHANGED <<format, settings, streams, verdict>>
      /\ Honest(open, truth[Life]) /\ (open.frameDropped > 0 => FramesLeft = 0)
  BY <1>1, InLife
<1>3. PICK life \in LifeOf(format) :
        /\ truth' = [truth EXCEPT ![Life] = life] /\ now' \in Nat
        /\ life.offered = open.offered + 1
        /\ \A s \in Stream(format) :
             (s.events = open.events /\ s.retained = open.retained /\ s.lost = open.lost
                /\ s.attempted = open.attempted) => EventsTrue(s, life)
  BY <1>1, OfferedFrames
<1> DEFINE n == open.offered
           e == open.every
           f == [frame |-> n + 1, correlation |-> c]
<1>4. /\ n \in Nat /\ e \in Nat \ {0} /\ open.frameDropped \in Nat /\ open.sampled \in Nat
      /\ open.unsampled \in Nat /\ open.missed \in Nat /\ open.frames \in Seq(Frames)
  BY <1>2, StreamFields
<1>5. /\ open.sampled = Len(open.frames)
      /\ Len(open.frames) + open.frameDropped = Taken(n, e)
      /\ Evenly(open.frames, e)
  BY <1>2 DEF Honest, FramesTrue
<1>6. /\ Taken(n, e) \in Nat
      /\ Eligible => Taken(n + 1, e) = Taken(n, e) + 1 /\ n = Taken(n, e) * e
      /\ ~Eligible => Taken(n + 1, e) = Taken(n, e)
  BY <1>4, TakenStep DEF Eligible
<1>10. PICK o \in Nat, g \in Nat : o = n + 1 /\ g = open.missed + gap
  BY <1>4
<1>7. CASE ~Eligible
  <2>0. PICK u \in Nat : u = open.unsampled + 1
    BY <1>4
  <2>1. open' = [open EXCEPT !.offered = o, !.missed = g, !.unsampled = u]
    BY <1>2, <1>7, <1>10, <2>0 DEF Offer, Stream
  <2> open' \in Stream(format)
    BY <1>2, <2>1 DEF Stream
  <2>2. /\ open'.offered = o /\ open'.every = e /\ open'.stop = open.stop
        /\ open'.frames = open.frames /\ open'.sampled = open.sampled
        /\ open'.frameDropped = open.frameDropped
        /\ open'.events = open.events /\ open'.retained = open.retained /\ open'.lost = open.lost
        /\ open'.attempted = open.attempted
    BY <1>2, <2>1 DEF Stream
  <2>3. FramesTrue(open', life)
    BY <1>3, <1>5, <1>6, <1>7, <1>10, <2>2 DEF FramesTrue
  <2>4. Honest(open', life)
    BY <1>3, <2>2, <2>3 DEF Honest
  <2>5. FramesLeft' = FramesLeft
    <3>1. open' # Null
      BY <1>2, <2>2, NullAssumption DEF TypeOK
    <3> QED
      BY <1>2, <2>2, <3>1, FramesLeftKept
  <2> QED
    BY <1>1, <1>2, <1>3, <2>2, <2>4, <2>5, LastChanges
<1>8. CASE Eligible /\ FramesLeft = 0
  <2>0. PICK d \in Nat : d = open.frameDropped + 1
    BY <1>4
  <2>1. open' = [open EXCEPT !.offered = o, !.missed = g, !.frameDropped = d]
    BY <1>2, <1>8, <1>10, <2>0 DEF Offer, Stream
  <2> open' \in Stream(format)
    BY <1>2, <2>1 DEF Stream
  <2>2. /\ open'.offered = o /\ open'.every = e /\ open'.stop = open.stop
        /\ open'.frames = open.frames /\ open'.sampled = open.sampled
        /\ open'.frameDropped = d
        /\ open'.events = open.events /\ open'.retained = open.retained /\ open'.lost = open.lost
        /\ open'.attempted = open.attempted
    BY <1>2, <2>1 DEF Stream
  <2>3. FramesTrue(open', life)
    <3>0. Taken(o, e) = Taken(n, e) + 1 /\ Taken(n, e) \in Nat
      BY <1>6, <1>8, <1>10, Zenon
    <3>1. Len(open.frames) + d = Taken(o, e)
      <4>1. PICK l \in Nat, t \in Nat : l = Len(open.frames) /\ t = Taken(n, e)
        BY <1>4, <3>0
      <4>2. l + open.frameDropped = t /\ Taken(o, e) = t + 1
        BY <1>5, <3>0, <4>1, Zenon
      <4>3. PICK k \in Nat : k = open.frameDropped
        BY <1>4
      <4>4. l + k = t /\ d = k + 1
        BY <2>0, <4>2, <4>3, Zenon
      <4>5. l + d = t + 1
        BY ONLY l \in Nat, k \in Nat, t \in Nat, <4>4
      <4> QED
        BY <4>1, <4>2, <4>5, Zenon
    <3>2. o = life.offered /\ open'.sampled = Len(open'.frames) /\ Evenly(open'.frames, open'.every)
      BY <1>3, <1>5, <1>10, <2>2
    <3>3. Len(open'.frames) + open'.frameDropped = Taken(open'.offered, open'.every)
      BY <2>2, <3>1
    <3> QED
      BY <2>2, <3>2, <3>3, Zenon DEF FramesTrue
  <2>4. Honest(open', life)
    BY <1>3, <2>2, <2>3 DEF Honest
  <2>5. FramesLeft' = FramesLeft
    <3>1. open' # Null
      BY <1>2, <2>2, NullAssumption DEF TypeOK
    <3> QED
      BY <1>2, <2>2, <3>1, FramesLeftKept
  <2> QED
    BY <1>1, <1>2, <1>3, <1>8, <2>2, <2>4, <2>5, LastChanges
<1>9. CASE Eligible /\ FramesLeft # 0
  <2>2. f \in Frames /\ f.frame = n + 1
    BY <1>4 DEF Frames
  <2> HIDE DEF f
  <2>0. PICK h \in Nat : h = open.sampled + 1
    BY <1>4
  <2>3. PICK fs \in Seq(Frames) : fs = Append(open.frames, f) /\ Len(fs) = Len(open.frames) + 1
    <3>1. Append(open.frames, f) \in Seq(Frames) /\ Len(Append(open.frames, f)) = Len(open.frames) + 1
      BY <1>4, <2>2, AppendFacts
    <3> QED
      BY <3>1, Zenon
  <2>1. open' = [open EXCEPT !.offered = o, !.missed = g, !.sampled = h, !.frames = fs]
    BY <1>2, <1>9, <1>10, <2>0, <2>3 DEF Offer, Stream, f
  <2> open' \in Stream(format)
    BY <1>2, <2>1 DEF Stream, Frames
  <2>4. /\ open'.offered = o /\ open'.every = e /\ open'.stop = open.stop
        /\ open'.frames = fs /\ open'.sampled = h
        /\ open'.frameDropped = open.frameDropped
        /\ open'.events = open.events /\ open'.retained = open.retained /\ open'.lost = open.lost
        /\ open'.attempted = open.attempted
    BY <1>2, <2>1 DEF Stream
  <2>5. open.frameDropped = 0
    BY <1>2, <1>4, <1>9
  <2>6. FramesTrue(open', life)
    <3>1. Taken(n, e) = Len(open.frames) /\ n = Len(open.frames) * e
      BY <1>4, <1>5, <1>6, <1>9, <2>5
    <3>2. f.frame = Len(open.frames) * e + 1
      BY <2>2, <3>1
    <3>3. Evenly(fs, e)
      <4>1. e \in Nat /\ Evenly(open.frames, e)
        BY <1>4, <1>5
      <4> HIDE DEF e
      <4> QED
        BY <1>4, <2>2, <2>3, <3>2, <4>1, EvenlyGrows
    <3>4. Len(fs) + open.frameDropped = Taken(o, e) /\ o = life.offered
      BY <1>3, <1>4, <1>6, <1>9, <1>10, <2>3, <2>5, <3>1
    <3>5. h = Len(fs)
      BY <1>5, <2>0, <2>3
    <3> QED
      BY <2>4, <3>3, <3>4, <3>5 DEF FramesTrue
  <2>7. Honest(open', life)
    BY <1>3, <2>4, <2>6 DEF Honest
  <2>8. ~(open'.frameDropped > 0) /\ slip' \in Kinds \cup {Null}
    BY <1>1, <1>2, <2>4, <2>5
  <2> QED
    BY <1>2, <1>3, <2>7, <2>8, LastChanges
<1> QED
  BY <1>7, <1>8, <1>9

-----------------------------------------------------------------------------
(* Events are of what passed, and stay so.                                 *)
LEMMA PassagesGrow ==
  ASSUME NEW f, NEW events \in Seq(Events(f)), NEW times, NEW more, times \subseteq more,
         Passages(events, times), NEW x \in Events(f), <<x.frame, x.boundary, x.at>> \in more,
         \A t \in times : ~(t[1] = x.frame /\ t[2] = x.boundary)
  PROVE  Passages(Append(events, x), more)
<1> DEFINE y == Append(events, x)
<1>1. /\ Len(events) \in Nat /\ y[Len(events) + 1] = x
      /\ \A i \in DOMAIN y : i = Len(events) + 1 \/ (i \in DOMAIN events /\ y[i] = events[i])
  BY AppendFacts
<1> HIDE DEF y
<1>2. ASSUME NEW i \in DOMAIN events
      PROVE  /\ <<events[i].frame, events[i].boundary, events[i].at>> \in more
             /\ <<events[i].frame, events[i].boundary>> # <<x.frame, x.boundary>>
  <2> DEFINE t == <<events[i].frame, events[i].boundary, events[i].at>>
  <2>1. t \in times
    BY DEF Passages
  <2>2. t[1] = events[i].frame /\ t[2] = events[i].boundary
    OBVIOUS
  <2> QED
    BY <2>1, <2>2
<1>3. ASSUME NEW i \in DOMAIN y PROVE <<y[i].frame, y[i].boundary, y[i].at>> \in more
  BY <1>1, <1>2
<1>4. ASSUME NEW i \in DOMAIN y, NEW j \in DOMAIN y, i # j
      PROVE  <<y[i].frame, y[i].boundary>> # <<y[j].frame, y[j].boundary>>
  <2>1. CASE i = Len(events) + 1
    <3>1. y[i] = x /\ j \in DOMAIN events /\ y[j] = events[j]
      BY <1>1, <1>4, <2>1
    <3> QED
      BY <1>2, <3>1
  <2>2. CASE j = Len(events) + 1
    <3>1. y[j] = x /\ i \in DOMAIN events /\ y[i] = events[i]
      BY <1>1, <1>4, <2>2
    <3> QED
      BY <1>2, <3>1
  <2>3. CASE i # Len(events) + 1 /\ j # Len(events) + 1
    <3>1. i \in DOMAIN events /\ j \in DOMAIN events /\ y[i] = events[i] /\ y[j] = events[j]
      BY <1>1, <2>3
    <3> QED
      BY <1>4, <3>1 DEF Passages
  <2> QED
    BY <2>1, <2>2, <2>3
<1> QED
  BY <1>3, <1>4 DEF Passages, y

LEMMA PassagesKept ==
  ASSUME NEW f, NEW events \in Seq(Events(f)), NEW times, Passages(events, times),
         NEW P \in SUBSET DOMAIN events
  PROVE  Passages(Kept(events, P), times)
<1> DEFINE y == Kept(events, P)
           n == Cardinality(P)
<1>1. /\ y \in Seq(Events(f)) /\ Len(y) = n /\ n \in Nat
      /\ \A i \in 1..n : Place(P, i) \in P /\ y[i] = events[Place(P, i)]
      /\ \A i, j \in 1..n : i < j => Place(P, i) < Place(P, j)
  BY KeptInOrder
<1>2. \A p \in P : p \in DOMAIN events /\ p \in Nat
  OBVIOUS
<1> HIDE DEF y, n
<1>3. DOMAIN y = 1..n
  BY <1>1
<1>4. ASSUME NEW i \in 1..n PROVE <<y[i].frame, y[i].boundary, y[i].at>> \in times
  BY <1>1, <1>2 DEF Passages
<1>5. ASSUME NEW i \in 1..n, NEW j \in 1..n, i # j
      PROVE  <<y[i].frame, y[i].boundary>> # <<y[j].frame, y[j].boundary>>
  <2>1. i < j \/ j < i
    BY <1>1, <1>5
  <2>2. Place(P, i) # Place(P, j)
    BY <1>1, <1>2, <2>1
  <2> QED
    BY <1>1, <1>2, <2>2 DEF Passages
<1> QED
  BY <1>3, <1>4, <1>5 DEF Passages, y

(* One more event was attempted.                                           *)
LEMMA AttemptedEvents ==
  ASSUME IInv, NEW f \in Nat \ {0}, NEW b \in Allowed(format), NEW t \in Nat, AttemptedNow(f, b, t)
  PROVE  \E life \in LifeOf(format) :
           /\ truth' = [truth EXCEPT ![Life] = life] /\ now' \in Nat
           /\ life.attempted = open.attempted + 1
           /\ truth[Life].times \subseteq life.times
           /\ ~Passed(f, b) => <<f, b, t>> \in life.times
           /\ \A s \in Stream(format) :
                (s.frames = open.frames /\ s.offered = open.offered /\ s.sampled = open.sampled
                   /\ s.frameDropped = open.frameDropped /\ s.every = open.every /\ s.stop = open.stop)
                  => FramesTrue(s, life)
<1> DEFINE old == truth[Life]
           times == IF Passed(f, b) THEN old.times ELSE old.times \cup {<<f, b, t>>}
           life == [old EXCEPT !.attempted = @ + 1, !.times = times]
<1>1. /\ InLifetime /\ now' = t
      /\ truth' = [truth EXCEPT ![Life].attempted = @ + 1,
                                ![Life].times = IF Passed(f, b) THEN @ ELSE @ \cup {<<f, b, t>>}]
  BY DEF AttemptedNow
<1>2. /\ TypeOK /\ Honest(open, old) /\ old \in LifeOf(format) /\ open.stop # "disabled"
      /\ truth \in Seq(LifeOf(format)) /\ Life \in DOMAIN truth
  BY <1>1, InLife
<1>3. truth' = [truth EXCEPT ![Life] = life]
  BY <1>1, <1>2 DEF LifeOf
<1>4. /\ life \in LifeOf(format)
      /\ life.offered = old.offered /\ life.attempted = old.attempted + 1 /\ life.times = times
  <2> HIDE DEF old
  <2>1. PICK v \in Nat : v = old.attempted + 1
    BY <1>2 DEF LifeOf
  <2>2. times \in SUBSET ((Nat \ {0}) \X Allowed(format) \X Nat)
    BY <1>2 DEF LifeOf
  <2> HIDE DEF times
  <2>3. life = [old EXCEPT !.attempted = v, !.times = times]
    BY <1>2, <2>1 DEF LifeOf
  <2> HIDE DEF life
  <2>4. life \in LifeOf(format)
    BY <1>2, <2>2, <2>3 DEF LifeOf
  <2>5. life.offered = old.offered /\ life.attempted = v /\ life.times = times
    BY <1>2, <2>3 DEF LifeOf
  <2> QED
    BY <2>1, <2>4, <2>5
<1>5. old.times \subseteq times /\ (~Passed(f, b) => <<f, b, t>> \in times)
  OBVIOUS
<1> HIDE DEF life, old, times
<1>6. old.attempted = open.attempted
  BY <1>2 DEF Honest, EventsTrue
<1>7. ASSUME NEW s \in Stream(format), s.frames = open.frames, s.offered = open.offered,
             s.sampled = open.sampled, s.frameDropped = open.frameDropped, s.every = open.every,
             s.stop = open.stop
      PROVE  FramesTrue(s, life)
  BY <1>2, <1>4, <1>7 DEF Honest, FramesTrue
<1> QED
  BY <1>1, <1>3, <1>4, <1>5, <1>6, <1>7 DEF old

LEMMA EventsUpdated ==
  ASSUME NEW f, NEW s \in Stream(f), NEW a \in Nat, NEW r \in Nat, NEW es \in Seq(Events(f)), NEW t,
         t = [s EXCEPT !.attempted = a, !.retained = r, !.events = es]
  PROVE  t \in Stream(f)
  BY DEF Stream, Events

(* A retained event of a boundary that had not passed is true, whatever    *)
(* its number.                                                             *)
LEMMA RetainedOK ==
  ASSUME IInv, NEW f \in Nat \ {0}, NEW b \in Allowed(format), NEW t \in Nat, AttemptedNow(f, b, t),
         ~Passed(f, b), NEW q \in Nat, slip' \in Kinds \cup {Null}, open' = Numbered(q, f, b, t)
  PROVE  IInv'
<1> DEFINE x == [sequence |-> q, frame |-> f, boundary |-> b, at |-> t]
<1>1. InLifetime
  BY DEF AttemptedNow
<1>2. /\ TypeOK /\ verdict = Null /\ slip = Null /\ open # Null /\ open \in Stream(format)
      /\ UNCHANGED <<format, settings, streams, verdict>>
      /\ Honest(open, truth[Life]) /\ (open.frameDropped > 0 => FramesLeft = 0)
  BY <1>1, InLife
<1>4. /\ open.attempted \in Nat /\ open.retained \in Nat /\ open.lost \in Nat
      /\ open.events \in Seq(Events(format)) /\ Len(open.events) \in Nat
  BY <1>2, StreamFields
<1>5. /\ open.retained = Len(open.events) /\ open.attempted = Len(open.events) + open.lost
      /\ Passages(open.events, truth[Life].times)
  BY <1>2 DEF Honest, EventsTrue
<1>7. PICK a \in Nat : a = open.attempted + 1
  BY <1>4
<1>8. PICK r \in Nat : r = open.retained + 1
  BY <1>4
<1>9. PICK life \in LifeOf(format) :
        /\ truth' = [truth EXCEPT ![Life] = life] /\ now' \in Nat
        /\ life.attempted = open.attempted + 1
        /\ truth[Life].times \subseteq life.times /\ <<f, b, t>> \in life.times
        /\ \A s \in Stream(format) :
             (s.frames = open.frames /\ s.offered = open.offered /\ s.sampled = open.sampled
                /\ s.frameDropped = open.frameDropped /\ s.every = open.every /\ s.stop = open.stop)
               => FramesTrue(s, life)
  BY AttemptedEvents
<1>10. x \in Events(format) /\ x.frame = f /\ x.boundary = b /\ x.at = t
  BY DEF Events
<1> HIDE DEF x
<1>11. PICK es \in Seq(Events(format)) : es = Append(open.events, x) /\ Len(es) = Len(open.events) + 1
  <2>1. /\ Append(open.events, x) \in Seq(Events(format))
        /\ Len(Append(open.events, x)) = Len(open.events) + 1
    BY <1>4, <1>10, AppendFacts
  <2> QED
    BY <2>1, Zenon
<1>12. open' = [open EXCEPT !.attempted = a, !.retained = r, !.events = es]
  BY <1>2, <1>7, <1>8, <1>11 DEF Stream, x, Numbered
<1> open' \in Stream(format)
  BY <1>2, <1>12, EventsUpdated
<1>13. /\ open'.frames = open.frames /\ open'.offered = open.offered /\ open'.sampled = open.sampled
       /\ open'.frameDropped = open.frameDropped /\ open'.every = open.every /\ open'.stop = open.stop
       /\ open'.events = es /\ open'.retained = r
       /\ open'.attempted = a /\ open'.lost = open.lost
  BY <1>2, <1>12 DEF Stream
<1>14. Passages(es, life.times)
  <2>1. \A p \in truth[Life].times : ~(p[1] = x.frame /\ p[2] = x.boundary)
    BY <1>10 DEF Passed
  <2> QED
    BY <1>4, <1>5, <1>9, <1>10, <1>11, <2>1, PassagesGrow
<1>15. EventsTrue(open', life)
  <2>0. Len(es) = Len(open.events) + 1
    BY <1>11, Zenon
  <2>1. a = Len(es) + open.lost /\ r = Len(es)
    BY <1>4, <1>5, <1>7, <1>8, <2>0
  <2> QED
    BY <1>7, <1>9, <1>13, <1>14, <2>1 DEF EventsTrue
<1>16. Honest(open', life)
  BY <1>9, <1>13, <1>15 DEF Honest
<1>17. FramesLeft' = FramesLeft
  <2> open' # Null
    BY <1>2, NullAssumption DEF TypeOK
  <2> QED
    BY <1>2, <1>13, FramesLeftKept
<1>18. (slip' = Null /\ open'.frameDropped > 0) => FramesLeft' = 0
  BY <1>2, <1>13, <1>17
<1> QED
  BY <1>2, <1>9, <1>16, <1>18, LastChanges

LEMMA AttemptOK ==
  ASSUME IInv, open # Null, NEW i \in DOMAIN open.frames, NEW b \in Allowed(format), Attempt(i, b)
  PROVE  IInv'
<1> DEFINE f == open.frames[i].frame
<1>1. /\ InLifetime /\ slip' = slip /\ ~Passed(f, b)
      /\ \/ AttemptedNow(f, b, now) /\ open' = Lose
         \/ \E t \in now..MaxClock : AttemptedNow(f, b, t) /\ open' = Retain(f, b, t)
  BY DEF Attempt, AttemptedNow
<1>2. /\ TypeOK /\ verdict = Null /\ slip = Null /\ open # Null /\ open \in Stream(format)
      /\ open.stop = Null
      /\ UNCHANGED <<format, settings, streams, verdict>>
      /\ Honest(open, truth[Life]) /\ (open.frameDropped > 0 => FramesLeft = 0)
  BY <1>1, InLife
<1>3. f \in Nat \ {0} /\ now \in Nat
  <2>1. open.frames \in Seq(Frames)
    BY <1>2, StreamFields
  <2>2. open.frames[i] \in Frames
    BY <2>1
  <2> QED
    BY <1>2, <2>2 DEF Frames, TypeOK
<1>4. /\ open.attempted \in Nat /\ open.retained \in Nat /\ open.lost \in Nat
      /\ open.events \in Seq(Events(format)) /\ Len(open.events) \in Nat
  BY <1>2, StreamFields
<1>5. /\ open.retained = Len(open.events) /\ open.attempted = Len(open.events) + open.lost
      /\ Passages(open.events, truth[Life].times)
  BY <1>2 DEF Honest, EventsTrue
<1>6. ASSUME NEW life \in LifeOf(format), truth' = [truth EXCEPT ![Life] = life], now' \in Nat,
             open' \in Stream(format), Honest(open', life), open'.frames = open.frames,
             open'.frameDropped = open.frameDropped
      PROVE  IInv'
  <2>1. open' # Null
    BY <1>2, <1>6, NullAssumption DEF TypeOK
  <2>2. FramesLeft' = FramesLeft
    BY <1>2, <1>6, <2>1, FramesLeftKept
  <2>3. slip' \in Kinds \cup {Null} /\ ((slip' = Null /\ open'.frameDropped > 0) => FramesLeft' = 0)
    BY <1>1, <1>2, <1>6, <2>2
  <2> QED
    BY <1>2, <1>6, <2>3, LastChanges
<1> HIDE DEF f
<1>7. PICK a \in Nat : a = open.attempted + 1
  BY <1>4
<1>8. CASE AttemptedNow(f, b, now) /\ open' = Lose
  <2>1. PICK life \in LifeOf(format) :
          /\ truth' = [truth EXCEPT ![Life] = life] /\ now' \in Nat
          /\ life.attempted = open.attempted + 1
          /\ truth[Life].times \subseteq life.times
          /\ \A s \in Stream(format) :
               (s.frames = open.frames /\ s.offered = open.offered /\ s.sampled = open.sampled
                  /\ s.frameDropped = open.frameDropped /\ s.every = open.every /\ s.stop = open.stop)
                 => FramesTrue(s, life)
    BY <1>3, <1>8, AttemptedEvents
  <2>2. PICK l \in Nat : l = open.lost + 1
    BY <1>4
  <2>3. open' = [open EXCEPT !.attempted = a, !.lost = l]
    BY <1>2, <1>7, <1>8, <2>2 DEF Lose, Stream
  <2> open' \in Stream(format)
    BY <1>2, <2>3 DEF Stream
  <2>4. /\ open'.frames = open.frames /\ open'.offered = open.offered /\ open'.sampled = open.sampled
        /\ open'.frameDropped = open.frameDropped /\ open'.every = open.every /\ open'.stop = open.stop
        /\ open'.events = open.events /\ open'.retained = open.retained
        /\ open'.attempted = a /\ open'.lost = l
    BY <1>2, <2>3 DEF Stream
  <2>5. Passages(open.events, life.times)
    BY <1>5, <2>1 DEF Passages
  <2>6. EventsTrue(open', life)
    <3>1. a = Len(open.events) + l
      BY <1>4, <1>5, <1>7, <2>2
    <3> QED
      BY <1>5, <1>7, <2>1, <2>4, <2>5, <3>1 DEF EventsTrue
  <2>7. Honest(open', life)
    BY <2>1, <2>4, <2>6 DEF Honest
  <2> QED
    BY <1>6, <2>1, <2>4, <2>7
<1>9. ASSUME NEW t \in now..MaxClock, AttemptedNow(f, b, t), open' = Retain(f, b, t)
      PROVE  IInv'
  <2>1. t \in Nat /\ open.attempted + 1 \in Nat /\ slip' \in Kinds \cup {Null}
    BY <1>1, <1>2, <1>3, <1>4, BoundsAssumption
  <2>2. ~Passed(f, b)
    BY <1>1 DEF f
  <2> QED
    BY <1>3, <1>9, <2>1, <2>2, RetainedOK DEF Retain
<1> QED
  BY <1>1, <1>8, <1>9 DEF f
LEMMA PositionsLeft ==
  ASSUME NEW S, NEW seq \in Seq(S), NEW G \in SUBSET DOMAIN seq
  PROVE  /\ DOMAIN seq \ G \in SUBSET DOMAIN seq
         /\ Cardinality(G) \in Nat /\ Cardinality(G) <= Len(seq)
         /\ Cardinality(DOMAIN seq \ G) = Len(seq) - Cardinality(G)
<1> DEFINE D == DOMAIN seq
<1>1. Len(seq) \in Nat /\ D = 1..Len(seq)
  OBVIOUS
<1> HIDE DEF D
<1>2. IsFiniteSet(D) /\ Cardinality(D) = Len(seq)
  <2> DEFINE n == Len(seq)
  <2>1. n \in Nat
    BY <1>1
  <2> HIDE DEF n
  <2>2. IsFiniteSet(1..n) /\ Cardinality(1..n) = n
    BY <2>1, FS_Interval
  <2> QED
    BY <1>1, <2>2 DEF n
<1>3. G \in SUBSET D /\ D \cap G = G
  BY DEF D
<1>4. Cardinality(G) \in Nat /\ Cardinality(G) <= Len(seq)
  BY <1>2, <1>3, FS_Subset, FS_CardinalityType
<1>5. Cardinality(D \ G) = Len(seq) - Cardinality(G)
  <2>1. Cardinality(D \ G) = Cardinality(D) - Cardinality(D \cap G)
    BY <1>2, FS_Difference, Zenon
  <2> QED
    BY <1>2, <1>3, <2>1
<1> QED
  BY <1>4, <1>5 DEF D

(* A frame found ambiguous loses what it has downstream.                   *)
LEMMA AmbiguousOK ==
  ASSUME IInv, open # Null, NEW i \in DOMAIN open.frames, Ambiguous(i)
  PROVE  IInv'
<1> DEFINE f == open.frames[i].frame
           D == DOMAIN open.events
           gone == Downstream(f)
           k == Cardinality(gone)
           life == truth[Life]
<1>1. /\ InLifetime /\ slip' = slip /\ now' = now /\ truth' = truth
      /\ open' = [open EXCEPT !.frames[i].correlation = "ambiguous",
                              !.events = Kept(@, DOMAIN @ \ Downstream(f)),
                              !.retained = @ - k, !.lost = @ + k]
  BY DEF Ambiguous
<1>2. /\ TypeOK /\ verdict = Null /\ slip = Null /\ open # Null /\ open \in Stream(format)
      /\ open.stop = Null
      /\ UNCHANGED <<format, settings, streams, verdict>>
      /\ Honest(open, life) /\ (open.frameDropped > 0 => FramesLeft = 0)
      /\ truth \in Seq(LifeOf(format)) /\ Life \in DOMAIN truth /\ life \in LifeOf(format)
  BY <1>1, InLife
<1>3. /\ open.retained \in Nat /\ open.lost \in Nat /\ open.attempted \in Nat
      /\ open.events \in Seq(Events(format)) /\ Len(open.events) \in Nat
      /\ open.frames \in Seq(Frames)
  BY <1>2, StreamFields
<1>4. /\ open.retained = Len(open.events) /\ open.attempted = Len(open.events) + open.lost
      /\ Passages(open.events, life.times) /\ open.attempted = life.attempted
      /\ open.offered = life.offered /\ open.sampled = Len(open.frames)
      /\ open.stop # "disabled" => Len(open.frames) + open.frameDropped = Taken(open.offered, open.every)
      /\ Evenly(open.frames, open.every)
  BY <1>2 DEF Honest, EventsTrue, FramesTrue
<1>5. gone \in SUBSET D
  BY DEF Downstream
<1>6. /\ k \in Nat /\ k <= Len(open.events) /\ Cardinality(D \ gone) = Len(open.events) - k
      /\ D \ gone \in SUBSET D
  <2> HIDE DEF gone
  <2> QED
    BY <1>3, <1>5, PositionsLeft
<1> DEFINE frames == [open.frames EXCEPT ![i].correlation = "ambiguous"]
           events == Kept(open.events, D \ gone)
<1>7. /\ frames \in Seq(Frames) /\ Len(frames) = Len(open.frames) /\ DOMAIN frames = DOMAIN open.frames
      /\ \A j \in DOMAIN open.frames : frames[j].frame = open.frames[j].frame
  <2> DEFINE x == open.frames[i]
             y == [x EXCEPT !.correlation = "ambiguous"]
  <2>1. x \in Frames
    BY <1>3
  <2>2. y \in Frames /\ y.frame = x.frame
    BY <2>1 DEF Frames
  <2>3. frames = [open.frames EXCEPT ![i] = y]
    OBVIOUS
  <2> HIDE DEF y, frames
  <2> QED
    BY <1>3, <2>2, <2>3
<1>8. /\ events \in Seq(Events(format)) /\ Len(events) = Len(open.events) - k
      /\ Passages(events, life.times)
  <2> HIDE DEF gone, life
  <2> QED
    BY <1>3, <1>4, <1>5, <1>6, KeptInOrder, PassagesKept
<1> HIDE DEF k
<1>9. PICK r \in Nat, l \in Nat : r = open.retained - k /\ l = open.lost + k
  <2> k \in Nat /\ k <= open.retained
    BY <1>4, <1>6, Zenon
  <2>1. open.retained - k \in Nat /\ open.lost + k \in Nat
    BY <1>3
  <2> QED
    BY <2>1, Zenon
<1>10. open' = [open EXCEPT !.frames = frames, !.events = events, !.retained = r, !.lost = l]
  BY <1>1, <1>2, <1>9 DEF Stream
<1> HIDE DEF frames, events, life
<1> open' \in Stream(format)
  BY <1>2, <1>7, <1>8, <1>10 DEF Stream, Frames, Events
<1>11. /\ open'.frames = frames /\ open'.offered = open.offered /\ open'.sampled = open.sampled
       /\ open'.frameDropped = open.frameDropped /\ open'.every = open.every /\ open'.stop = open.stop
       /\ open'.events = events /\ open'.retained = r
       /\ open'.attempted = open.attempted /\ open'.lost = l
  BY <1>2, <1>10 DEF Stream
<1>12. Evenly(frames, open.every)
  BY <1>4, <1>7 DEF Evenly
<1>13. FramesTrue(open', life)
  BY <1>4, <1>7, <1>11, <1>12 DEF FramesTrue
<1>14. EventsTrue(open', life)
  <2>1. open.attempted = Len(events) + l /\ r = Len(events)
    <3>1. /\ k \in Nat /\ Len(events) = open.retained - k /\ open.retained = Len(open.events)
          /\ open.attempted = open.retained + open.lost
      BY <1>4, <1>6, <1>8, Zenon
    <3> QED
      BY <1>3, <1>9, <3>1
  <2> QED
    BY <1>4, <1>8, <1>11, <2>1 DEF EventsTrue
<1>15. FramesLeft' = FramesLeft
  <2>1. open' # Null
    BY <1>2, NullAssumption DEF TypeOK
  <2> QED
    BY <1>2, <1>7, <1>11, <2>1, FramesLeftKept
<1>16. truth' = [truth EXCEPT ![Life] = life] /\ now' \in Nat
  BY <1>1, <1>2 DEF life, TypeOK
<1>17. Honest(open', life) /\ slip' \in Kinds \cup {Null}
       /\ ((slip' = Null /\ open'.frameDropped > 0) => FramesLeft' = 0)
  BY <1>1, <1>2, <1>11, <1>13, <1>14, <1>15 DEF Honest
<1> QED
  BY <1>2, <1>16, <1>17, LastChanges
-----------------------------------------------------------------------------
(* The slips.  What the recorder gets wrong about its frames no validator  *)
(* lets through.                                                           *)
LEMMA SlipFrameOK == ASSUME IInv, open # Null, SlipFrame PROVE IInv'
<1> DEFINE n == open.offered
           e == open.every
           f == [frame |-> n + 1, correlation |-> "exact"]
<1>1. OfferedNow /\ InLifetime /\ Eligible /\ slip' \in Kinds /\ slip' # Null
  BY NullAssumption DEF SlipFrame, OfferedNow, Slips, Kinds
<1>2. /\ TypeOK /\ verdict = Null /\ slip = Null /\ open \in Stream(format)
      /\ open.stop # "disabled"
      /\ UNCHANGED <<format, settings, streams, verdict>>
      /\ Honest(open, truth[Life])
  BY <1>1, InLife
<1>3. PICK life \in LifeOf(format) : truth' = [truth EXCEPT ![Life] = life] /\ now' \in Nat
  BY <1>1, OfferedFrames
<1>4. /\ n \in Nat /\ e \in Nat \ {0} /\ open.frameDropped \in Nat /\ open.sampled \in Nat
      /\ open.frames \in Seq(Frames) /\ Len(open.frames) \in Nat
  BY <1>2, StreamFields
<1>5. /\ open.sampled = Len(open.frames)
      /\ Len(open.frames) + open.frameDropped = Taken(n, e)
      /\ Evenly(open.frames, e)
  BY <1>2 DEF Honest, FramesTrue
<1>6. Taken(n, e) \in Nat /\ Taken(n + 1, e) = Taken(n, e) + 1 /\ Taken(0, e) = 0
  BY <1>1, <1>4, TakenStep DEF Eligible
<1>7. PICK o \in Nat : o = n + 1
  BY <1>4
<1>8. f \in Frames /\ f.frame = n + 1
  BY <1>4 DEF Frames
<1> HIDE DEF f
<1>9. SUFFICES open' \in Stream(format) /\ ~Ledgered(open')
  BY <1>1, <1>2, <1>3, LastChanges
<1>10. CASE /\ open.frames # <<>>
            /\ open' = [open EXCEPT !.offered = n + 1, !.frameDropped = @ + 1, !.frames = Append(Tail(@), f)]
  <2>1. PICK d \in Nat : d = open.frameDropped + 1
    BY <1>4
  <2> DEFINE rest == Tail(open.frames)
  <2>2. /\ rest \in Seq(Frames) /\ Len(rest) \in Nat /\ Len(open.frames) = Len(rest) + 1
        /\ \A i \in 1..Len(rest) : rest[i] = open.frames[i + 1]
    BY <1>4, <1>10, TailFacts
  <2>3. PICK fs \in Seq(Frames) : fs = Append(rest, f)
    <3>1. Append(rest, f) \in Seq(Frames)
      <4> HIDE DEF rest
      <4> QED
        BY <1>8, <2>2, AppendFacts
    <3> QED
      BY <3>1, Zenon
  <2>4. open' = [open EXCEPT !.offered = o, !.frameDropped = d, !.frames = fs]
    BY <1>2, <1>7, <1>10, <2>1, <2>3 DEF Stream
  <2>5. open' \in Stream(format)
    BY <1>2, <2>4 DEF Stream, Frames
  <2>6. open'.frames = fs /\ open'.every = e
    BY <1>2, <2>4 DEF Stream
  <2>7. 1 \in DOMAIN fs /\ fs[1].frame # 1
    <3>1. CASE Len(rest) = 0
      <4>1. Len(fs) = 1 /\ fs[1] = f
        <5>1. Len(fs) = Len(rest) + 1 /\ fs[Len(rest) + 1] = f
          <6> HIDE DEF rest
          <6> QED
            BY <1>8, <2>2, <2>3, AppendFacts
        <5> QED
          BY <3>1, <5>1
      <4>2. n # 0
        BY <1>4, <1>5, <1>6, <2>2
      <4>3. 1 \in DOMAIN fs
        BY <2>3, <4>1
      <4>4. n + 1 # 1
        BY <1>4, <4>2
      <4> QED
        BY <1>8, <4>1, <4>3, <4>4
    <3>2. CASE Len(rest) # 0
      <4>1. 1 \in 1..Len(rest) /\ 2 \in DOMAIN open.frames /\ rest[1] = open.frames[2]
        <5>1. 1 \in 1..Len(rest) /\ 2 \in 1..Len(open.frames)
          <6> HIDE DEF rest
          <6> QED
            BY <1>4, <2>2, <3>2
        <5>2. rest[1] = open.frames[1 + 1]
          <6> HIDE DEF rest
          <6> QED
            BY <2>2, <5>1
        <5> HIDE DEF rest
        <5> QED
          BY <1>4, <5>1, <5>2
      <4>2. 1 \in DOMAIN fs /\ fs[1] = rest[1]
        <5> HIDE DEF rest
        <5> QED
          BY <1>8, <2>2, <2>3, <4>1
      <4>3. open.frames[2].frame = 1 + (2 - 1) * e
        BY <1>5, <4>1 DEF Evenly
      <4>4. (2 - 1) * e = e
        BY <1>4
      <4> HIDE DEF rest
      <4>5. fs[1].frame = 1 + e
        BY <4>1, <4>2, <4>3, <4>4
      <4> QED
        BY <1>4, <4>2, <4>5
    <3> QED
      BY <3>1, <3>2
  <2>8. ~PrefixSampled(open')
    <3>1. 1 \in DOMAIN open'.frames /\ open'.frames[1].frame # 1 + (1 - 1) * open'.every
      <4>1. (1 - 1) * e = 0
        BY <1>4
      <4> QED
        BY <2>6, <2>7, <4>1
    <3> QED
      BY <3>1 DEF PrefixSampled
  <2> QED
    BY <2>5, <2>8 DEF Ledgered
<1>11. CASE open' = [open EXCEPT !.offered = n + 1]
  <2>1. open' = [open EXCEPT !.offered = o]
    BY <1>7, <1>11
  <2>2. open' \in Stream(format)
    BY <1>2, <2>1 DEF Stream
  <2>3. /\ open'.offered = o /\ open'.sampled = open.sampled /\ open'.frameDropped = open.frameDropped
        /\ open'.every = e
    BY <1>2, <2>1 DEF Stream
  <2>4. Taken(o, e) = Taken(n, e) + 1
    BY <1>6, <1>7, Zenon
  <2>5. open.sampled + open.frameDropped # Taken(o, e)
    BY <1>4, <1>5, <1>6, <2>4
  <2>6. ~EligibleCounted(open')
    BY <2>3, <2>5, Zenon DEF EligibleCounted, Taken
  <2> QED
    BY <2>2, <2>6 DEF Ledgered
<1>12. CASE open' = [open EXCEPT !.sampled = @ + 1, !.frames = Append(@, f)]
  <2>1. PICK h \in Nat : h = open.sampled + 1
    BY <1>4
  <2>2. PICK fs \in Seq(Frames) : fs = Append(open.frames, f)
    <3>1. Append(open.frames, f) \in Seq(Frames)
      BY <1>4, <1>8, AppendFacts
    <3> QED
      BY <3>1, Zenon
  <2>3. open' = [open EXCEPT !.sampled = h, !.frames = fs]
    BY <1>2, <1>12, <2>1, <2>2 DEF Stream
  <2>4. open' \in Stream(format)
    BY <1>2, <2>3 DEF Stream, Frames
  <2>5. /\ open'.offered = n /\ open'.sampled = h /\ open'.frameDropped = open.frameDropped
        /\ open'.every = e
    BY <1>2, <2>3 DEF Stream
  <2>6. h + open.frameDropped # Taken(n, e)
    BY <1>4, <1>5, <1>6, <2>1
  <2>7. ~EligibleCounted(open')
    BY <2>5, <2>6, Zenon DEF EligibleCounted, Taken
  <2> QED
    BY <2>4, <2>7 DEF Ledgered
<1> QED
  BY <1>10, <1>11, <1>12 DEF SlipFrame, f

LEMMA SlipEventOK ==
  ASSUME IInv, open # Null, NEW f \in 1..open.offered, NEW b \in Allowed(format), SlipEvent(f, b)
  PROVE  IInv'
<1>1. /\ InLifetime /\ AttemptedNow(f, b, now) /\ slip' \in Kinds /\ slip' # Null
  BY NullAssumption DEF SlipEvent, AttemptedNow, Slips, Kinds
<1>2. /\ TypeOK /\ verdict = Null /\ slip = Null /\ open \in Stream(format)
      /\ UNCHANGED <<format, settings, streams, verdict>>
      /\ Honest(open, truth[Life]) /\ now \in Nat
  BY <1>1, InLife DEF TypeOK
<1>3. /\ open.attempted \in Nat /\ open.retained \in Nat /\ open.lost \in Nat /\ open.offered \in Nat
      /\ open.events \in Seq(Events(format)) /\ Len(open.events) \in Nat
  BY <1>2, StreamFields
<1>4. open.retained = Len(open.events) /\ open.attempted = Len(open.events) + open.lost
  BY <1>2 DEF Honest, EventsTrue
<1>5. f \in Nat \ {0}
  BY <1>3
<1>6. PICK life \in LifeOf(format) : truth' = [truth EXCEPT ![Life] = life] /\ now' \in Nat
  BY <1>1, <1>2, <1>5, AttemptedEvents
<1>7. PICK a \in Nat, r \in Nat : a = open.attempted + 1 /\ r = open.retained + 1
  BY <1>3
<1>8. ASSUME open' \in Stream(format) /\ ~Ledgered(open') PROVE IInv'
  BY <1>1, <1>2, <1>6, <1>8, LastChanges
<1>9. CASE open' = [open EXCEPT !.attempted = @ + 1]
  <2>1. open' = [open EXCEPT !.attempted = a]
    BY <1>2, <1>7, <1>9 DEF Stream
  <2>2. open' \in Stream(format)
    BY <1>2, <2>1 DEF Stream
  <2>3. open'.attempted = a /\ open'.retained = open.retained /\ open'.lost = open.lost
    BY <1>2, <2>1 DEF Stream
  <2>4. ~CountsConserved(open')
    BY <1>3, <1>4, <1>7, <2>3 DEF CountsConserved
  <2> QED
    BY <1>8, <2>2, <2>4 DEF Ledgered
<1>10. CASE /\ open' = Retain(f, b, now)
            /\ \E e \in Range(open.events) : e.frame = f /\ e.boundary = b
  <2> DEFINE x == [sequence |-> a, frame |-> f, boundary |-> b, at |-> now]
  <2>1. x \in Events(format) /\ x.frame = f /\ x.boundary = b
    BY <1>2, <1>5 DEF Events
  <2> HIDE DEF x
  <2>2. PICK es \in Seq(Events(format)) : es = Append(open.events, x)
    <3>1. Append(open.events, x) \in Seq(Events(format))
      BY <1>3, <2>1, AppendFacts
    <3> QED
      BY <3>1, Zenon
  <2>3. open' = [open EXCEPT !.attempted = a, !.retained = r, !.events = es]
    BY <1>2, <1>7, <1>10, <2>2 DEF Retain, Numbered, Stream, x
  <2>4. open' \in Stream(format)
    BY <1>2, <2>3 DEF Stream, Events
  <2>5. open'.events = es
    BY <1>2, <2>3 DEF Stream
  <2>6. PICK j \in DOMAIN open.events : open.events[j].frame = f /\ open.events[j].boundary = b
    BY <1>10 DEF Range
  <2> DEFINE i == Len(open.events) + 1
  <2>7. i \in DOMAIN es /\ es[i] = x /\ j \in 1..i - 1 /\ es[j] = open.events[j]
    BY <1>3, <2>1, <2>2
  <2>8. <<es[i].frame, es[i].boundary>> = <<es[j].frame, es[j].boundary>>
    BY <2>1, <2>6, <2>7
  <2> HIDE DEF i
  <2>9. ~EventsAdmitted(open')
    BY <2>5, <2>7, <2>8 DEF EventsAdmitted
  <2> QED
    BY <1>8, <2>4, <2>9 DEF Ledgered
<1>11. CASE ~Passed(f, b) /\ open' = Retain(f, b, now)
  <2>1. open.attempted + 1 \in Nat /\ slip' \in Kinds \cup {Null} /\ now \in Nat
    BY <1>1, <1>2, <1>3
  <2>2. open' = Numbered(open.attempted + 1, f, b, now)
    BY <1>11 DEF Retain
  <2> QED
    BY <1>1, <1>5, <1>11, <2>1, <2>2, RetainedOK
<1>12. CASE ~Passed(f, b) /\ open' = Numbered(open.attempted, f, b, now)
  <2>1. slip' \in Kinds \cup {Null}
    BY <1>1
  <2> QED
    BY <1>1, <1>2, <1>3, <1>5, <1>12, <2>1, RetainedOK
<1> QED
  BY <1>9, <1>10, <1>11, <1>12 DEF SlipEvent
-----------------------------------------------------------------------------
LEMMA NextOK == ASSUME IInv, Next PROVE IInv'
<1>1. CASE Begin \/ SlipLifetime \/ End
  BY <1>1, BeginOK, SlipLifetimeOK, EndOK
<1>2. CASE \E c \in {"exact", "missing"}, gap \in 0..1 : Offer(c, gap)
  BY <1>2, OfferOK
<1>3. CASE open # Null /\ \E i \in DOMAIN open.frames : Ambiguous(i) \/ \E b \in Allowed(format) : Attempt(i, b)
  BY <1>3, AmbiguousOK, AttemptOK
<1>4. CASE open # Null /\ (SlipFrame \/ \E f \in 1..open.offered, b \in Allowed(format) : SlipEvent(f, b))
  BY <1>4, SlipFrameOK, SlipEventOK
<1>5. CASE Adopt
  BY <1>5, AdoptOK
<1> QED
  BY <1>1, <1>2, <1>3, <1>4, <1>5 DEF Next

LEMMA StutterOK == ASSUME IInv, UNCHANGED vars PROVE IInv'
<1>1. UNCHANGED <<format, settings, open, streams, now, truth, slip, verdict>>
  BY DEF vars, recorder
<1>2. All' = All /\ Record' = Record
  BY <1>1 DEF All, Record
<1>3. FramesLeft' = FramesLeft
  BY <1>2 DEF FramesLeft
<1>4. TypeOK'
  BY <1>1, <1>2 DEF IInv, TypeOK
<1>5. Truthful'
  BY <1>1, <1>2 DEF IInv, Truthful
<1>6. StaysFull' /\ Settled'
  BY <1>1, <1>2, <1>3 DEF IInv, StaysFull, Settled
<1> QED
  BY <1>4, <1>5, <1>6 DEF IInv

(* Every lifetime but the last is truly recorded, and so is the last       *)
(* unless the recorder slipped in it; a slip that makes the record untrue  *)
(* leaves a ledger no validator lets through.                              *)
THEOREM StageInvariant == Spec => []IInv
<1>1. Init => IInv
  BY InitOK
<1>2. IInv /\ [Next]_vars => IInv'
  BY NextOK, StutterOK
<1> QED
  BY <1>1, <1>2, PTL DEF Spec

LEMMA AcceptedHonest ==
  ASSUME IInv, Accepted
  PROVE  /\ open = Null /\ All = streams /\ streams \in Seq(Stream(format))
         /\ truth \in Seq(LifeOf(format)) /\ Len(truth) = Len(streams)
         /\ ValidRecord(Record) /\ verdict.summary = Reconstruct(Record)
         /\ \A k \in DOMAIN streams : Honest(streams[k], truth[k]) /\ ValidStream(format, streams[k])
<1>1. /\ open = Null /\ ValidRecord(Record) /\ verdict.summary = Reconstruct(Record)
  BY DEF IInv, Settled, Accepted
<1>2. /\ All = streams /\ streams \in Seq(Stream(format)) /\ truth \in Seq(LifeOf(format))
      /\ Len(truth) = Len(streams)
  BY <1>1 DEF IInv, TypeOK, All
<1>3. Record.format = format /\ Record.streams = streams
  BY DEF Record
<1>4. \A k \in DOMAIN streams : ValidStream(format, streams[k])
  BY <1>1, <1>3 DEF ValidRecord
<1>5. ASSUME NEW k \in DOMAIN streams PROVE Ledgered(streams[k])
  BY <1>4 DEF ValidStream, ScopeDeclared, WithinCapacity, Ledgered
<1>6. \A k \in DOMAIN streams : Honest(streams[k], truth[k])
  BY <1>2, <1>5 DEF IInv, Truthful
<1> QED
  BY <1>1, <1>2, <1>4, <1>6

LEMMA LedgerFollows == IInv => LedgerTrue
<1> SUFFICES ASSUME IInv, Accepted, NEW k \in DOMAIN streams
             PROVE  LET s == streams[k]  t == truth[k] IN
                    /\ s.offered = t.offered /\ s.attempted = t.attempted
                    /\ s.attempted = Len(s.events) + s.lost
                    /\ s.stop # "disabled" =>
                         Len(s.frames) + s.frameDropped
                           = Cardinality({n \in 1..t.offered : n % s.every = 1 % s.every})
                    /\ \A i \in DOMAIN s.frames : s.frames[i].frame = 1 + (i - 1) * s.every
                    /\ \A i \in DOMAIN s.events : LET e == s.events[i] IN
                         /\ <<e.frame, e.boundary, e.at>> \in t.times
                         /\ \A j \in DOMAIN s.events :
                              i # j => <<e.frame, e.boundary>> # <<s.events[j].frame, s.events[j].boundary>>
                    /\ \A j \in DOMAIN streams :
                         j # k => s.epoch # streams[j].epoch /\ s.clock # streams[j].clock
  BY Zenon DEF LedgerTrue
<1> DEFINE s == streams[k]
           t == truth[k]
<1>1. /\ streams \in Seq(Stream(format)) /\ s \in Stream(format) /\ Honest(s, t)
      /\ ScopesDistinct(streams)
  BY AcceptedHonest DEF ValidRecord, Record
<1>2. s.every \in Nat \ {0} /\ s.offered \in Nat
  BY <1>1, StreamFields
<1>3. FramesTrue(s, t) /\ EventsTrue(s, t)
  BY <1>1 DEF Honest
<1>4. ASSUME NEW j \in DOMAIN streams, j # k
      PROVE  s.epoch # streams[j].epoch /\ s.clock # streams[j].clock
  BY <1>1, <1>4 DEF ScopesDistinct, IsInjective
<1> HIDE DEF s, t
<1>5. s.stop # "disabled" =>
        Len(s.frames) + s.frameDropped = Cardinality({n \in 1..t.offered : n % s.every = 1 % s.every})
  <2>1. t.offered = s.offered
    BY <1>3 DEF FramesTrue
  <2>2. Cardinality({n \in 1..s.offered : n % s.every = 1 % s.every}) = Taken(s.offered, s.every)
    BY <1>2, TakenCounts
  <2> QED
    BY <1>3, <2>1, <2>2, Zenon DEF FramesTrue
<1>6. /\ s.offered = t.offered /\ \A i \in DOMAIN s.frames : s.frames[i].frame = 1 + (i - 1) * s.every
  BY <1>3, Zenon DEF FramesTrue, Evenly
<1>7. /\ s.attempted = t.attempted /\ s.attempted = Len(s.events) + s.lost
      /\ \A i \in DOMAIN s.events :
           /\ <<s.events[i].frame, s.events[i].boundary, s.events[i].at>> \in t.times
           /\ \A j \in DOMAIN s.events :
                i # j => <<s.events[i].frame, s.events[i].boundary>>
                           # <<s.events[j].frame, s.events[j].boundary>>
  BY <1>3, Zenon DEF EventsTrue, Passages
<1> QED
  BY <1>4, <1>5, <1>6, <1>7, Zenon DEF s, t

(* The loss ledger of an accepted stage trace is the truth: it counts      *)
(* every frame offered and every event attempted, keeps the earliest       *)
(* eligible frames, and tells each endpoint once and as it passed.         *)
THEOREM LedgerIsTrue == Spec => []LedgerTrue
  BY StageInvariant, LedgerFollows, PTL
-----------------------------------------------------------------------------
(* The durations of a method are those of the frames nothing excludes.     *)
Used(f, s, ends, m) == {i \in DOMAIN s.frames : Excluded(f, s, ends, m, s.frames[i]) = Null}
TimeOf(f, ends, m, frame, k) == CHOOSE t \in TimesOf(ends, frame, Pairs(f)[m][k]) : TRUE

LEMMA SamplesOf ==
  ASSUME NEW f, NEW s \in Stream(f), NEW ends, NEW m
  PROVE  /\ Used(f, s, ends, m) \in SUBSET DOMAIN s.frames
         /\ \A x \in Range(Timing(f, s, ends, m).samples) :
              \E p \in Used(f, s, ends, m) :
                /\ x.frame = s.frames[p].frame
                /\ x.delta = TimeOf(f, ends, m, s.frames[p].frame, 2)
                               - TimeOf(f, ends, m, s.frames[p].frame, 1)
         /\ \A p \in Used(f, s, ends, m) :
              \E x \in Range(Timing(f, s, ends, m).samples) : x.frame = s.frames[p].frame
<1> DEFINE P == Used(f, s, ends, m)
           why == [i \in DOMAIN s.frames |-> Excluded(f, s, ends, m, s.frames[i])]
           used == Kept(s.frames, P)
<1>1. s.frames \in Seq(Frames) /\ P \in SUBSET DOMAIN s.frames
  BY StreamFields DEF Used
<1>2. {i \in DOMAIN why : why[i] = Null} = P
  BY DEF Used
<1>3. /\ used \in Seq(Frames) /\ Len(used) = Cardinality(P) /\ Cardinality(P) \in Nat
      /\ \A i \in 1..Cardinality(P) : Place(P, i) \in P /\ used[i] = s.frames[Place(P, i)]
      /\ \A p \in P : \E i \in 1..Cardinality(P) : Place(P, i) = p
  <2> HIDE DEF P
  <2> QED
    BY <1>1, KeptInOrder
<1>4. Timing(f, s, ends, m).samples
        = [i \in DOMAIN used |-> [frame |-> used[i].frame,
                                  delta |-> TimeOf(f, ends, m, used[i].frame, 2)
                                              - TimeOf(f, ends, m, used[i].frame, 1)]]
  BY <1>2, Zenon DEF Timing, TimeOf
<1> HIDE DEF used, P
<1>5. DOMAIN used = 1..Cardinality(P)
  BY <1>3
<1> DEFINE samples == Timing(f, s, ends, m).samples
<1>6. ASSUME NEW i \in 1..Cardinality(P)
      PROVE  /\ i \in DOMAIN samples /\ samples[i].frame = used[i].frame
             /\ samples[i].delta = TimeOf(f, ends, m, used[i].frame, 2) - TimeOf(f, ends, m, used[i].frame, 1)
  BY <1>4, <1>5
<1>7. DOMAIN samples = 1..Cardinality(P)
  BY <1>4, <1>5
<1> HIDE DEF samples
<1>8. ASSUME NEW x \in Range(samples)
      PROVE  \E p \in P : /\ x.frame = s.frames[p].frame
                          /\ x.delta = TimeOf(f, ends, m, s.frames[p].frame, 2)
                                         - TimeOf(f, ends, m, s.frames[p].frame, 1)
  <2>1. PICK i \in 1..Cardinality(P) : x = samples[i]
    BY <1>7 DEF Range
  <2>2. Place(P, i) \in P /\ used[i] = s.frames[Place(P, i)]
    BY <1>3
  <2> Place(P, i) \in P
    BY <2>2
  <2> WITNESS Place(P, i) \in P
  <2> QED
    BY <1>6, <2>1, <2>2, Zenon
<1>9. ASSUME NEW p \in P PROVE \E x \in Range(samples) : x.frame = s.frames[p].frame
  <2>1. PICK i \in 1..Cardinality(P) : Place(P, i) = p
    BY <1>3
  <2>2. samples[i].frame = s.frames[p].frame
    BY <1>3, <1>6, <2>1, Zenon
  <2>3. samples[i] \in Range(samples)
    BY <1>6, Zenon DEF Range
  <2> QED
    BY <2>2, <2>3
<1> QED
  BY <1>1, <1>8, <1>9 DEF P, samples

(* What it takes for nothing to exclude a frame.                           *)
LEMMA NothingExcludes ==
  ASSUME NEW f \in Formats, NEW s, NEW ends, NEW m, NEW x \in Frames
  PROVE  Excluded(f, s, ends, m, x) = Null
         <=> /\ Unavailable(f, s, m) = Null /\ x.correlation = "exact"
             /\ TimesOf(ends, x.frame, Pairs(f)[m][1]) # {} /\ TimesOf(ends, x.frame, Pairs(f)[m][2]) # {}
             /\ \A a \in TimesOf(ends, x.frame, Pairs(f)[m][1]), b \in TimesOf(ends, x.frame, Pairs(f)[m][2]) :
                  ~(b < a)
<1>1. x.correlation \in {"exact", "missing", "ambiguous"}
  BY DEF Frames
<1>2. Null \notin {"unsupported", "missing", "ambiguous", "missing_endpoint", "negative_duration"}
  BY NullAssumption DEF Exclusions
<1> DEFINE start == TimesOf(ends, x.frame, Pairs(f)[m][1])
           end == TimesOf(ends, x.frame, Pairs(f)[m][2])
<1>3. {} \in {start, end} <=> start = {} \/ end = {}
  OBVIOUS
<1>4. Excluded(f, s, ends, m, x)
        = IF Unavailable(f, s, m) # Null THEN "unsupported"
          ELSE IF x.correlation # "exact" THEN x.correlation
          ELSE IF {} \in {start, end} THEN "missing_endpoint"
          ELSE IF \E a \in start, b \in end : b < a THEN "negative_duration" ELSE Null
  BY DEF Excluded
<1> HIDE DEF start, end
<1> QED
  BY <1>1, <1>2, <1>3, <1>4 DEF start, end

(* The endpoints of a lifetime.                                            *)
Ends(events) == {<<e.frame, e.boundary, e.at>> : e \in Range(events)}

LEMMA TimesAre ==
  ASSUME NEW f, NEW events \in Seq(Events(f)), NEW times, Passages(events, times), NEW x, NEW b
  PROVE  /\ \A t \in TimesOf(Ends(events), x, b) :
              /\ t \in Nat /\ <<x, b, t>> \in times
              /\ \E e \in Range(events) : e.frame = x /\ e.boundary = b /\ e.at = t
         /\ \A e \in Range(events) :
              e.frame = x /\ e.boundary = b => TimesOf(Ends(events), x, b) = {e.at}
<1>1. ASSUME NEW t \in TimesOf(Ends(events), x, b)
      PROVE  /\ t \in Nat /\ <<x, b, t>> \in times
             /\ \E e \in Range(events) : e.frame = x /\ e.boundary = b /\ e.at = t
  <2>1. PICK p \in Ends(events) : p[1] = x /\ p[2] = b /\ p[3] = t
    BY DEF TimesOf
  <2>2. PICK e \in Range(events) : p = <<e.frame, e.boundary, e.at>>
    BY DEF Ends
  <2>3. PICK i \in DOMAIN events : e = events[i]
    BY DEF Range
  <2>4. e \in Events(f)
    BY <2>3
  <2>5. e.frame = x /\ e.boundary = b /\ e.at = t
    BY <2>1, <2>2
  <2>6. <<e.frame, e.boundary, e.at>> \in times
    BY <2>3 DEF Passages
  <2>7. e.at \in Nat
    BY <2>4 DEF Events
  <2> QED
    BY <2>5, <2>6, <2>7
<1>2. ASSUME NEW e \in Range(events), e.frame = x, e.boundary = b
      PROVE  TimesOf(Ends(events), x, b) = {e.at}
  <2>1. e.at \in TimesOf(Ends(events), x, b)
    <3> DEFINE p == <<e.frame, e.boundary, e.at>>
    <3>1. p \in Ends(events)
      BY DEF Ends
    <3>2. p[1] = x /\ p[2] = b /\ p[3] = e.at
      BY <1>2
    <3> HIDE DEF p
    <3> QED
      BY <3>1, <3>2 DEF TimesOf
  <2>2. ASSUME NEW t \in TimesOf(Ends(events), x, b) PROVE t = e.at
    <3>1. PICK d \in Range(events) : d.frame = x /\ d.boundary = b /\ d.at = t
      BY <1>1
    <3>2. PICK i \in DOMAIN events, j \in DOMAIN events : e = events[i] /\ d = events[j]
      BY DEF Range
    <3>3. <<events[i].frame, events[i].boundary>> = <<events[j].frame, events[j].boundary>>
      BY <1>2, <3>1, <3>2
    <3>4. i = j
      BY <3>3 DEF Passages
    <3> QED
      BY <3>1, <3>2, <3>4
  <2> QED
    BY <2>1, <2>2
<1> QED
  BY <1>1, <1>2
(* What the summary of an accepted record says of a lifetime.              *)
LEMMA SummaryOf ==
  ASSUME NEW k \in DOMAIN streams, NEW m \in DOMAIN Pairs(format)
  PROVE  LET y == Reconstruct(Record).streams[k]  s == streams[k] IN
         /\ y.results[m] = Timing(format, s, Ends(s.events), m)
         /\ y.deadline = DeadlineOf(s, y.results[3])
<1> DEFINE s == streams[k]
           results == [i \in DOMAIN Pairs(format) |-> Timing(format, s, Ends(s.events), i)]
           y == [x \in ScopeFields \cup {"results", "deadline"} |->
                   CASE x = "results" -> results
                     [] x = "deadline" -> DeadlineOf(s, results[3])
                     [] OTHER -> s[x]]
<1>1. Reconstruct(Record).streams[k] = y
  BY DEF Reconstruct, Record, Endpoints, Ends
<1>2. y.results = results /\ y.deadline = DeadlineOf(s, results[3])
  <2> HIDE DEF results, s
  <2> QED
    OBVIOUS
<1>3. results[m] = Timing(format, s, Ends(s.events), m)
  OBVIOUS
<1> HIDE DEF results, y
<1> QED
  BY <1>1, <1>2, <1>3

LEMMA EvenlyInjective ==
  ASSUME NEW frames \in Seq(Frames), NEW e \in Nat \ {0}, Evenly(frames, e),
         NEW i \in DOMAIN frames, NEW j \in DOMAIN frames, frames[i].frame = frames[j].frame
  PROVE  i = j
<1> DEFINE p == (i - 1) * e
           q == (j - 1) * e
<1>1. i \in Nat /\ j \in Nat /\ i - 1 \in Int /\ j - 1 \in Int
  OBVIOUS
<1>2. p \in Int /\ q \in Int
  BY <1>1
<1>3. frames[i].frame = 1 + p /\ frames[j].frame = 1 + q
  BY DEF Evenly
<1>4. i - 1 < j - 1 => p + e <= q
  BY <1>1, Multiples
<1>5. j - 1 < i - 1 => q + e <= p
  BY <1>1, Multiples
<1> HIDE DEF p, q
<1>6. 1 + p = 1 + q
  BY <1>3
<1>7. p = q
  BY <1>2, <1>6
<1> QED
  BY <1>1, <1>2, <1>4, <1>5, <1>7

LEMMA TimingFollows ==
  ASSUME IInv, Accepted, NEW k \in DOMAIN streams, NEW m \in DOMAIN Pairs(format)
  PROVE  LET s == streams[k]
             t == verdict.summary.streams[k].results[m]
             At(f, i) == {e \in Range(s.events) : e.frame = f /\ e.boundary = Pairs(format)[m][i]} IN
         /\ \A x \in Range(t.samples) :
              \E a, b \in truth[k].times :
                /\ a[1] = x.frame /\ b[1] = x.frame
                /\ a[2] = Pairs(format)[m][1] /\ b[2] = Pairs(format)[m][2]
                /\ x.delta = b[3] - a[3] /\ x.delta >= 0
         /\ \A f \in Range(s.frames) :
              (OwnMethod(format, m) /\ f.correlation = "exact"
                 /\ \E a \in At(f.frame, 1), b \in At(f.frame, 2) : a.at <= b.at)
              <=> \E x \in Range(t.samples) : x.frame = f.frame
<1> DEFINE s == streams[k]
           ends == Ends(s.events)
           t == Timing(format, s, ends, m)
           P == Used(format, s, ends, m)
           b1 == Pairs(format)[m][1]
           b2 == Pairs(format)[m][2]
           times == truth[k].times
<1>1. /\ s \in Stream(format) /\ Honest(s, truth[k]) /\ ValidStream(format, s)
      /\ verdict.summary.streams[k].results[m] = t
      /\ format \in Formats
  BY AcceptedHonest, SummaryOf DEF IInv, TypeOK
<1>2. /\ s.frames \in Seq(Frames) /\ s.events \in Seq(Events(format)) /\ s.every \in Nat \ {0}
  BY <1>1, StreamFields
<1>3. Passages(s.events, times) /\ Evenly(s.frames, s.every)
  BY <1>1 DEF Honest, FramesTrue, EventsTrue
<1> HIDE DEF s, times, t
<1>4. /\ P \in SUBSET DOMAIN s.frames
      /\ \A x \in Range(t.samples) :
           \E p \in P : /\ x.frame = s.frames[p].frame
                        /\ x.delta = TimeOf(format, ends, m, s.frames[p].frame, 2)
                                       - TimeOf(format, ends, m, s.frames[p].frame, 1)
      /\ \A p \in P : \E x \in Range(t.samples) : x.frame = s.frames[p].frame
  <2> HIDE DEF ends
  <2> QED
    BY <1>1, SamplesOf DEF t
<1> DEFINE Told(x, b, c) == \E e \in Range(s.events) : e.frame = x /\ e.boundary = b /\ e.at = c
<1>5. ASSUME NEW x, NEW b
      PROVE  /\ \A c \in TimesOf(ends, x, b) : c \in Nat /\ <<x, b, c>> \in times /\ Told(x, b, c)
             /\ \A e \in Range(s.events) :
                  e.frame = x /\ e.boundary = b => TimesOf(ends, x, b) = {e.at}
  BY <1>2, <1>3, TimesAre
<1>6. ASSUME NEW p \in DOMAIN s.frames
      PROVE  p \in P <=> /\ Unavailable(format, s, m) = Null /\ s.frames[p].correlation = "exact"
                         /\ TimesOf(ends, s.frames[p].frame, b1) # {}
                         /\ TimesOf(ends, s.frames[p].frame, b2) # {}
                         /\ \A a \in TimesOf(ends, s.frames[p].frame, b1),
                               b \in TimesOf(ends, s.frames[p].frame, b2) : ~(b < a)
  <2>1. s.frames[p] \in Frames
    BY <1>2
  <2>2. p \in P <=> Excluded(format, s, ends, m, s.frames[p]) = Null
    BY DEF Used
  <2> QED
    BY <1>1, <2>1, <2>2, NothingExcludes, Zenon
<1> HIDE DEF P, ends, b1, b2, Told
<1>7. ASSUME NEW x \in Range(t.samples)
      PROVE  \E a, b \in times : /\ a[1] = x.frame /\ b[1] = x.frame /\ a[2] = b1 /\ b[2] = b2
                                 /\ x.delta = b[3] - a[3] /\ x.delta >= 0
  <2>1. PICK p \in P : /\ x.frame = s.frames[p].frame
                       /\ x.delta = TimeOf(format, ends, m, s.frames[p].frame, 2)
                                      - TimeOf(format, ends, m, s.frames[p].frame, 1)
    BY <1>4
  <2> DEFINE n == s.frames[p].frame
             u == TimeOf(format, ends, m, n, 1)
             v == TimeOf(format, ends, m, n, 2)
  <2>2. p \in DOMAIN s.frames /\ x.frame = n /\ x.delta = v - u
    BY <1>4, <2>1
  <2>3. u \in TimesOf(ends, n, b1) /\ v \in TimesOf(ends, n, b2)
    BY <1>6, <2>2 DEF TimeOf, b1, b2
  <2> HIDE DEF u, v, n
  <2>4. u \in Nat /\ v \in Nat /\ <<n, b1, u>> \in times /\ <<n, b2, v>> \in times
    BY <1>5, <2>3
  <2>5. ~(v < u)
    BY <1>6, <2>2, <2>3 DEF n
  <2> <<n, b1, u>> \in times /\ <<n, b2, v>> \in times
    BY <2>4
  <2> WITNESS <<n, b1, u>> \in times, <<n, b2, v>> \in times
  <2> QED
    BY <2>2, <2>4, <2>5
<1>8. ASSUME NEW f \in Range(s.frames)
      PROVE  (/\ OwnMethod(format, m) /\ f.correlation = "exact"
              /\ \E a, b \in Range(s.events) :
                   /\ a.frame = f.frame /\ a.boundary = b1 /\ b.frame = f.frame /\ b.boundary = b2
                   /\ a.at <= b.at)
             <=> \E x \in Range(t.samples) : x.frame = f.frame
  <2>1. PICK p \in DOMAIN s.frames : f = s.frames[p]
    BY DEF Range
  <2>2. (\E x \in Range(t.samples) : x.frame = f.frame) <=> p \in P
    <3>1. ASSUME p \in P PROVE \E x \in Range(t.samples) : x.frame = f.frame
      BY <1>4, <2>1, <3>1
    <3>2. ASSUME NEW x \in Range(t.samples), x.frame = f.frame PROVE p \in P
      <4>1. PICK q \in P : x.frame = s.frames[q].frame
        BY <1>4
      <4>2. q = p
        <5>1. q \in DOMAIN s.frames /\ s.frames[q].frame = s.frames[p].frame
          BY <1>4, <2>1, <3>2, <4>1
        <5> QED
          BY <1>2, <1>3, <5>1, EvenlyInjective, Zenon
      <4> QED
        BY <4>2
    <3> QED
      BY <3>1, <3>2
  <2>3. ASSUME p \in P
        PROVE  /\ OwnMethod(format, m) /\ f.correlation = "exact"
               /\ \E a, b \in Range(s.events) :
                    /\ a.frame = f.frame /\ a.boundary = b1 /\ b.frame = f.frame /\ b.boundary = b2
                    /\ a.at <= b.at
    <3>1. OwnMethod(format, m)
      BY <1>6, <2>3, NullAssumption DEF Unavailable
    <3>2. PICK u \in TimesOf(ends, f.frame, b1), v \in TimesOf(ends, f.frame, b2) : ~(v < u)
      BY <1>6, <2>1, <2>3
    <3>3. u \in Nat /\ v \in Nat
      BY <1>5
    <3>4. PICK a \in Range(s.events) : a.frame = f.frame /\ a.boundary = b1 /\ a.at = u
      <4>1. Told(f.frame, b1, u)
        BY <1>5
      <4> QED
        BY <4>1 DEF Told
    <3>5. PICK b \in Range(s.events) : b.frame = f.frame /\ b.boundary = b2 /\ b.at = v
      <4>1. Told(f.frame, b2, v)
        BY <1>5
      <4> QED
        BY <4>1 DEF Told
    <3>6. a.at <= b.at
      BY <3>2, <3>3, <3>4, <3>5
    <3> QED
      BY <1>6, <2>1, <2>3, <3>1, <3>4, <3>5, <3>6
  <2>4. ASSUME OwnMethod(format, m), f.correlation = "exact",
               NEW a \in Range(s.events), NEW b \in Range(s.events), a.frame = f.frame, a.boundary = b1,
               b.frame = f.frame, b.boundary = b2, a.at <= b.at
        PROVE  p \in P
    <3>1. TimesOf(ends, f.frame, b1) = {a.at} /\ TimesOf(ends, f.frame, b2) = {b.at}
      BY <1>5, <2>4
    <3>2. a.at \in Nat /\ b.at \in Nat
      <4>1. \A e \in Range(s.events) : e \in Events(format)
        BY <1>2 DEF Range
      <4> QED
        BY <4>1 DEF Events
    <3>3. CapabilityOf(b1) \in Supported(s) /\ CapabilityOf(b2) \in Supported(s)
      <4>1. \A e \in Range(s.events) : CapabilityOf(e.boundary) \in Supported(s)
        BY <1>1 DEF ValidStream, EventsAdmitted, EventAdmitted, Range
      <4> QED
        BY <2>4, <4>1
    <3>4. Unavailable(format, s, m) = Null
      <4>1. Range(Pairs(format)[m]) = {b1, b2}
        BY <1>1 DEF Range, Pairs, Formats, b1, b2
      <4>2. {CapabilityOf(c) : c \in Range(Pairs(format)[m])} \subseteq Supported(s)
        BY <3>3, <4>1
      <4> QED
        BY <2>4, <4>2 DEF Unavailable
    <3>5. ~(b.at < a.at)
      BY <2>4, <3>2
    <3> QED
      BY <1>6, <2>1, <2>4, <3>1, <3>4, <3>5
  <2> QED
    BY <2>2, <2>3, <2>4
<1> QED
  BY <1>1, <1>7, <1>8 DEF s, times, t, b1, b2

LEMMA DeadlineHits ==
  ASSUME NEW s, NEW age, s.budget # Null
  PROVE  DeadlineOf(s, age).hits = Cardinality({i \in DOMAIN age.samples : age.samples[i].delta <= s.budget})
<1> DEFINE slack == [i \in DOMAIN age.samples |->
                       [frame |-> age.samples[i].frame, slack |-> s.budget - age.samples[i].delta,
                        hit |-> Hit(age.samples[i].delta, s.budget)]]
           samples == IF s.budget = Null THEN <<>> ELSE slack
<1>1. DeadlineOf(s, age).hits = Cardinality({i \in DOMAIN samples : samples[i].hit})
  BY DEF DeadlineOf
<1>2. samples = slack
  OBVIOUS
<1>3. {i \in DOMAIN slack : slack[i].hit} = {i \in DOMAIN age.samples : age.samples[i].delta <= s.budget}
  BY DEF Hit
<1> HIDE DEF samples, slack
<1> QED
  BY <1>1, <1>2, <1>3

LEMMA TimingsFollow == IInv => TimingsTrue
<1> SUFFICES ASSUME IInv, Accepted, NEW k \in DOMAIN streams, NEW m \in DOMAIN Pairs(format),
                    m = 3, streams[k].budget # Null
             PROVE  verdict.summary.streams[k].deadline.hits
                      = Cardinality({i \in DOMAIN verdict.summary.streams[k].results[m].samples :
                                       verdict.summary.streams[k].results[m].samples[i].delta
                                         <= streams[k].budget})
  BY TimingFollows, Zenon DEF TimingsTrue
<1> DEFINE s == streams[k]
           y == verdict.summary.streams[k]
<1>1. y.deadline = DeadlineOf(s, y.results[3]) /\ s.budget # Null
  BY AcceptedHonest, SummaryOf
<1> HIDE DEF y, s
<1> QED
  BY <1>1, DeadlineHits DEF y, s

(* A duration reconstructed from an accepted record is of one frame in one *)
(* lifetime whose two boundaries passed there that far apart; a frame is   *)
(* left out only for want of one of them, for a clock that ran backwards   *)
(* or for an ambiguous identity; and a deadline is hit exactly when the    *)
(* age fits the budget.                                                    *)
THEOREM TimingsAreTrue == Spec => []TimingsTrue
  BY StageInvariant, TimingsFollow, PTL
-----------------------------------------------------------------------------
(* What an honest recorder keeps of a lifetime, by format, settings and    *)
(* number.                                                                 *)
Declaration(f, x) ==
  [b \in Boundaries(f) |-> IF x.build = {} THEN "disabled"
                           ELSE IF b \in x.build THEN "supported"
                           ELSE IF b \in Allowed(f) THEN "not_instrumented"
                           ELSE "unsupported_source"]
Declared(f, x, k, s) ==
  /\ s.stream = k /\ s.epoch = k /\ s.clock = k
  /\ s.source = IF f = "engine" THEN "python_monotonic_ns" ELSE "browser_performance"
  /\ s.capabilities = Declaration(f, x) /\ s.every = x.every /\ s.budget = x.budget
  /\ s.limits = [frames |-> MaxFrames, events |-> MaxEvents]
  /\ s.stop = "disabled" <=> x.build = {}

Counted(f, s) ==
  /\ s.offered = s.sampled + s.unsampled + s.frameDropped
  /\ \A i \in DOMAIN s.frames : /\ s.frames[i].frame <= s.offered
                                /\ f # "engine" => s.frames[i].correlation = "exact"
  /\ f = "engine" => s.missed = 0

Admitted(s) ==
  /\ \A i, j \in DOMAIN s.events : i < j => s.events[i].sequence < s.events[j].sequence
  /\ \A i \in DOMAIN s.events : EventAdmitted(s, s.events[i])

Empty(s) ==
  /\ s.frames = <<>> /\ s.events = <<>>
  /\ s.offered = 0 /\ s.sampled = 0 /\ s.unsampled = 0 /\ s.frameDropped = 0
  /\ s.attempted = 0 /\ s.retained = 0 /\ s.lost = 0 /\ s.missed = 0

Proper(f, x, k, s) == Declared(f, x, k, s) /\ Counted(f, s) /\ Admitted(s) /\ (x.build = {} => Empty(s))

(* Without a slip every lifetime is kept so, and the record stays within   *)
(* its limits. *)
Unspoilt ==
  /\ verdict # Null => streams # <<>>
  /\ slip = Null =>
       /\ \A k \in DOMAIN All : Proper(format, settings, k, All[k])
       /\ Len(All) <= MaxStreams /\ FramesIn(All) <= MaxFrames /\ EventsIn(All) <= MaxEvents
-----------------------------------------------------------------------------
(* A sum of natural numbers is one, and none of them exceeds it.           *)
LEMMA SumIsNat ==
  ASSUME NEW v \in Seq(Nat)
  PROVE  SumOf(v) \in Nat /\ \A i \in DOMAIN v : v[i] <= SumOf(v)
<1> DEFINE L == Len(v)
<1>1. L \in Nat /\ DOMAIN v = 1..L /\ v \in Seq(Int)
  OBVIOUS
<1>2. PICK sum : Running(v, sum) /\ SumOf(v) = sum[L]
  BY <1>1, SumsExist
<1>3. /\ sum[0] = 0
      /\ \A n \in 1..L : sum[n] = sum[n - 1] + v[n]
  BY <1>2 DEF Running
<1> DEFINE Fits(n) == sum[n] \in Nat /\ \A i \in 1..n : v[i] <= sum[n]
           S == {n \in Nat : n <= L => Fits(n)}
<1>4. 0 \in S
  BY <1>3
<1>5. ASSUME NEW n \in S PROVE n + 1 \in S
  <2> SUFFICES ASSUME n + 1 <= L PROVE Fits(n + 1)
    OBVIOUS
  <2>1. Fits(n) /\ n + 1 \in 1..L /\ (n + 1) - 1 = n /\ n \in Nat
    BY <1>1
  <2>2. sum[n + 1] = sum[n] + v[n + 1] /\ v[n + 1] \in Nat
    BY <1>1, <1>3, <2>1
  <2>3. ASSUME NEW i \in 1..n + 1 PROVE v[i] <= sum[n + 1]
    <3>1. i = n + 1 \/ i \in 1..n
      BY <2>1
    <3>2. v[i] \in Nat
      BY <1>1, <2>1
    <3> QED
      BY <2>1, <2>2, <3>1, <3>2
  <2> QED
    BY <2>1, <2>2, <2>3
<1>6. S = Nat
  <2>1. S \in SUBSET Nat
    OBVIOUS
  <2> HIDE DEF S
  <2> QED
    BY <1>4, <1>5, <2>1, SetInduction
<1>7. Fits(L)
  BY <1>1, <1>6
<1> QED
  BY <1>1, <1>2, <1>7

LEMMA LastCounted ==
  ASSUME NEW f, NEW past \in Seq(Stream(f)), NEW s \in Stream(f)
  PROVE  /\ FramesIn(past) \in Nat /\ EventsIn(past) \in Nat
         /\ \A k \in DOMAIN past : Len(past[k].frames) <= FramesIn(past) /\ Len(past[k].events) <= EventsIn(past)
         /\ FramesIn(Append(past, s)) = FramesIn(past) + Len(s.frames)
         /\ EventsIn(Append(past, s)) = EventsIn(past) + Len(s.events)
         /\ Len(s.frames) \in Nat /\ Len(s.events) \in Nat
<1> DEFINE all == Append(past, s)
           vf == [i \in DOMAIN past |-> Len(past[i].frames)]
           ve == [i \in DOMAIN past |-> Len(past[i].events)]
<1>1. /\ Len(past) \in Nat /\ DOMAIN past = 1..Len(past) /\ DOMAIN all = 1..Len(past) + 1
      /\ all[Len(past) + 1] = s /\ \A i \in 1..Len(past) : all[i] = past[i]
  OBVIOUS
<1>2. \A x \in Stream(f) : Len(x.frames) \in Nat /\ Len(x.events) \in Nat
  BY StreamFields
<1>3. vf \in Seq(Nat) /\ ve \in Seq(Nat)
  <2>1. \A i \in 1..Len(past) : Len(past[i].frames) \in Nat /\ Len(past[i].events) \in Nat
    BY <1>1, <1>2
  <2> QED
    BY <1>1, <2>1
<1>4. Len(vf) = Len(past) /\ Len(ve) = Len(past)
  BY <1>1, <1>3
<1>5. /\ [i \in DOMAIN all |-> Len(all[i].frames)] = Append(vf, Len(s.frames))
      /\ [i \in DOMAIN all |-> Len(all[i].events)] = Append(ve, Len(s.events))
  <2> HIDE DEF all
  <2>1. [i \in DOMAIN all |-> Len(all[i].frames)] = Append(vf, Len(s.frames))
    <3>1. ASSUME NEW i \in 1..Len(past) + 1 PROVE Len(all[i].frames) = Append(vf, Len(s.frames))[i]
      BY <1>1, <1>3, <1>4
    <3> HIDE DEF vf
    <3> QED
      BY <1>1, <1>3, <1>4, <3>1
  <2>2. [i \in DOMAIN all |-> Len(all[i].events)] = Append(ve, Len(s.events))
    <3>1. ASSUME NEW i \in 1..Len(past) + 1 PROVE Len(all[i].events) = Append(ve, Len(s.events))[i]
      BY <1>1, <1>3, <1>4
    <3> HIDE DEF ve
    <3> QED
      BY <1>1, <1>3, <1>4, <3>1
  <2> QED
    BY <2>1, <2>2
<1>6. FramesIn(past) = SumOf(vf) /\ EventsIn(past) = SumOf(ve)
  BY DEF FramesIn, EventsIn
<1>7. FramesIn(all) = SumOf(Append(vf, Len(s.frames))) /\ EventsIn(all) = SumOf(Append(ve, Len(s.events)))
  BY <1>5 DEF FramesIn, EventsIn
<1>8. \A k \in DOMAIN past : vf[k] = Len(past[k].frames) /\ ve[k] = Len(past[k].events)
  OBVIOUS
<1>9. DOMAIN vf = DOMAIN past /\ DOMAIN ve = DOMAIN past
  OBVIOUS
<1>10. vf \in Seq(Int) /\ ve \in Seq(Int)
  BY <1>3
<1>11. Len(s.frames) \in Nat /\ Len(s.events) \in Nat
  BY <1>2
<1> HIDE DEF all, vf, ve
<1>12. /\ SumOf(Append(vf, Len(s.frames))) = SumOf(vf) + Len(s.frames)
       /\ SumOf(Append(ve, Len(s.events))) = SumOf(ve) + Len(s.events)
  <2>1. PICK p \in Int, q \in Int : p = Len(s.frames) /\ q = Len(s.events)
    BY <1>11
  <2>2. SumOf(Append(vf, p)) = SumOf(vf) + p /\ SumOf(Append(ve, q)) = SumOf(ve) + q
    BY <1>10, SumOfAppend
  <2> QED
    BY <2>1, <2>2, Zenon
<1>13. /\ SumOf(vf) \in Nat /\ SumOf(ve) \in Nat
       /\ \A k \in DOMAIN past : vf[k] <= SumOf(vf) /\ ve[k] <= SumOf(ve)
  BY <1>3, <1>9, SumIsNat
<1> QED
  BY <1>6, <1>7, <1>8, <1>11, <1>12, <1>13 DEF all

LEMMA AllCounted ==
  ASSUME TypeOK, open # Null
  PROVE  /\ FramesIn(streams) \in Nat /\ EventsIn(streams) \in Nat
         /\ FramesIn(All) = FramesIn(streams) + Len(open.frames)
         /\ EventsIn(All) = EventsIn(streams) + Len(open.events)
         /\ Len(open.frames) \in Nat /\ Len(open.events) \in Nat
<1>1. All = Append(streams, open) /\ streams \in Seq(Stream(format)) /\ open \in Stream(format)
  BY DEF TypeOK, All
<1> QED
  BY <1>1, LastCounted

SameDeclaration(s, t) ==
  /\ t.stream = s.stream /\ t.epoch = s.epoch /\ t.clock = s.clock /\ t.source = s.source
  /\ t.capabilities = s.capabilities /\ t.every = s.every /\ t.limits = s.limits /\ t.budget = s.budget
  /\ t.stop = s.stop

(* A step of the lifetime being recorded.                                  *)
LEMMA LastStays ==
  ASSUME IInv, Unspoilt, verdict = Null, slip = Null, open # Null, open.stop = Null,
         UNCHANGED <<format, settings, streams, verdict>>,
         open' \in Stream(format), SameDeclaration(open, open'),
         (Counted(format, open) /\ Admitted(open)) => Counted(format, open') /\ Admitted(open'),
         settings.build # {},
         \/ Len(open'.frames) = Len(open.frames)
         \/ FramesLeft > 0 /\ Len(open'.frames) = Len(open.frames) + 1,
         \/ Len(open'.events) <= Len(open.events)
         \/ EventsLeft > 0 /\ Len(open'.events) = Len(open.events) + 1
  PROVE  Unspoilt'
<1> DEFINE n == Len(streams) + 1
<1>0. TypeOK
  BY DEF IInv
<1>1. open' # Null
  BY <1>0, NullAssumption DEF TypeOK
<1>2. /\ streams \in Seq(Stream(format)) /\ open \in Stream(format) /\ n \in Nat
      /\ DOMAIN All = 1..n /\ Len(All) = n /\ All[n] = open /\ \A k \in 1..Len(streams) : All[k] = streams[k]
  BY <1>0, AllFacts DEF TypeOK
<1>3. All' = Append(streams, open')
  BY <1>1 DEF All
<1>4. /\ DOMAIN All' = 1..n /\ Len(All') = n /\ All'[n] = open'
      /\ \A k \in 1..Len(streams) : All'[k] = streams[k]
  BY <1>2, <1>3
<1>5. /\ \A k \in DOMAIN All : Proper(format, settings, k, All[k])
      /\ Len(All) <= MaxStreams /\ FramesIn(All) <= MaxFrames /\ EventsIn(All) <= MaxEvents
  BY DEF Unspoilt
<1>6. ASSUME NEW k \in 1..n PROVE Proper(format, settings, k, All'[k])
  <2>1. CASE k = n
    <3>1. Proper(format, settings, n, open)
      BY <1>2, <1>5, <2>1
    <3>2. Declared(format, settings, n, open')
      BY <3>1 DEF Proper, Declared, SameDeclaration
    <3> QED
      BY <1>4, <2>1, <3>1, <3>2 DEF Proper
  <2>2. CASE k # n
    <3>1. k \in 1..Len(streams) /\ k \in DOMAIN All
      BY <1>2, <2>2
    <3> QED
      BY <1>2, <1>4, <1>5, <3>1
  <2> QED
    BY <2>1, <2>2
<1>7. FramesIn(All') <= MaxFrames
  <2>1. /\ FramesIn(streams) \in Nat /\ FramesIn(All) = FramesIn(streams) + Len(open.frames)
        /\ Len(open.frames) \in Nat
    BY <1>0, AllCounted
  <2>2. FramesIn(All') = FramesIn(streams) + Len(open'.frames) /\ Len(open'.frames) \in Nat
    BY <1>2, <1>3, LastCounted
  <2>3. FramesLeft = MaxFrames - FramesIn(All) /\ MaxFrames \in Nat
    BY LimitsAssumption DEF FramesLeft
  <2> QED
    BY <1>5, <2>1, <2>2, <2>3
<1>8. EventsIn(All') <= MaxEvents
  <2>1. /\ EventsIn(streams) \in Nat /\ EventsIn(All) = EventsIn(streams) + Len(open.events)
        /\ Len(open.events) \in Nat
    BY <1>0, AllCounted
  <2>2. EventsIn(All') = EventsIn(streams) + Len(open'.events) /\ Len(open'.events) \in Nat
    BY <1>2, <1>3, LastCounted
  <2>3. EventsLeft = MaxEvents - EventsIn(All) /\ MaxEvents \in Nat
    BY LimitsAssumption DEF EventsLeft
  <2> QED
    BY <1>5, <2>1, <2>2, <2>3
<1> QED
  BY <1>2, <1>4, <1>5, <1>6, <1>7, <1>8 DEF Unspoilt

-----------------------------------------------------------------------------
LEMMA InitUnspoilt == Init => Unspoilt
<1> SUFFICES ASSUME Init PROVE Unspoilt
  OBVIOUS
<1>1. All = <<>> /\ verdict = Null
  BY DEF Init, All
<1>2. FramesIn(<<>>) = 0 /\ EventsIn(<<>>) = 0
  <2>1. [i \in DOMAIN <<>> |-> Len(<<>>[i].frames)] = <<>> /\ [i \in DOMAIN <<>> |-> Len(<<>>[i].events)] = <<>>
    OBVIOUS
  <2> QED
    BY <2>1, SumOfEmpty DEF FramesIn, EventsIn
<1> QED
  BY <1>1, <1>2, LimitsAssumption DEF Unspoilt

LEMMA LifetimeProper ==
  ASSUME NEW k
  PROVE  Proper(format, settings, k, Lifetime(k))
<1> DEFINE s == Lifetime(k)
<1>1. Declares = Declaration(format, settings)
  BY DEF Declares, Declaration
<1>2. Empty(s)
  BY DEF Lifetime, Empty
<1>3. Declared(format, settings, k, s)
  <2>1. s.stop = "disabled" <=> settings.build = {}
    BY NullAssumption DEF Lifetime
  <2> QED
    BY <1>1, <2>1 DEF Declared, Lifetime
<1> HIDE DEF s
<1>4. Counted(format, s) /\ Admitted(s)
  BY <1>2 DEF Empty, Counted, Admitted
<1> QED
  BY <1>2, <1>3, <1>4 DEF Proper, s

LEMMA BeginStays == ASSUME IInv, Unspoilt, Begin PROVE Unspoilt'
<1> DEFINE n == Len(streams) + 1
           s == Lifetime(n)
<1>0. TypeOK
  BY DEF IInv
<1>1. /\ open = Null /\ slip = Null /\ verdict = Null /\ open' = s /\ Len(streams) < MaxStreams
      /\ UNCHANGED <<format, settings, streams, verdict, slip>>
  BY DEF Begin, Open, Recording
<1>2. n \in Nat \ {0} /\ streams \in Seq(Stream(format)) /\ All = streams
  BY <1>0, <1>1 DEF TypeOK, All
<1>3. s \in Stream(format) /\ Proper(format, settings, n, s)
  BY <1>0, <1>2, LifetimeTyped, LifetimeProper
<1>4. s # Null /\ s.frames = <<>> /\ s.events = <<>>
  BY <1>0, <1>3, NullAssumption DEF TypeOK, Lifetime
<1> HIDE DEF s
<1>5. All' = Append(streams, s)
  BY <1>1, <1>4 DEF All
<1>6. /\ FramesIn(All') = FramesIn(All) /\ EventsIn(All') = EventsIn(All)
  <2>1. /\ FramesIn(All') = FramesIn(streams) + Len(s.frames) /\ FramesIn(streams) \in Nat
        /\ EventsIn(All') = EventsIn(streams) + Len(s.events) /\ EventsIn(streams) \in Nat
    BY <1>2, <1>3, <1>5, LastCounted
  <2> QED
    BY <1>2, <1>4, <2>1
<1>7. /\ DOMAIN All' = 1..n /\ Len(All') = n /\ All'[n] = s
      /\ \A k \in 1..Len(streams) : All'[k] = All[k] /\ k \in DOMAIN All
  BY <1>2, <1>3, <1>5
<1>8. /\ \A k \in DOMAIN All : Proper(format, settings, k, All[k])
      /\ FramesIn(All) <= MaxFrames /\ EventsIn(All) <= MaxEvents
  BY <1>1 DEF Unspoilt
<1>9. ASSUME NEW k \in 1..n PROVE Proper(format, settings, k, All'[k])
  <2>1. k = n \/ k \in 1..Len(streams)
    BY <1>2
  <2> QED
    BY <1>3, <1>7, <1>8, <2>1
<1>10. n <= MaxStreams
  BY <1>1, <1>2, LimitsAssumption
<1> QED
  BY <1>1, <1>6, <1>7, <1>8, <1>9, <1>10 DEF Unspoilt

LEMMA EndStays == ASSUME IInv, Unspoilt, End PROVE Unspoilt'
<1> DEFINE n == Len(streams) + 1
           s == IF open.stop = Null THEN [open EXCEPT !.stop = "completed"] ELSE open
<1>0. TypeOK
  BY DEF IInv
<1>1. /\ verdict = Null /\ open # Null /\ streams' = Append(streams, s) /\ open' = Null
      /\ UNCHANGED <<format, settings, verdict, slip>>
  BY DEF End, Recording
<1>2. /\ open \in Stream(format) /\ streams \in Seq(Stream(format)) /\ n \in Nat
      /\ Len(All) = n /\ DOMAIN All = 1..n /\ All[n] = open /\ \A k \in 1..Len(streams) : All[k] = streams[k]
  BY <1>0, <1>1, AllFacts DEF TypeOK
<1>3. s \in Stream(format)
  <2>1. open \in Stream(format)
    BY <1>2
  <2>2. [open EXCEPT !.stop = "completed"] \in Stream(format)
    BY ONLY <2>1 DEF Stream
  <2> QED
    BY <2>1, <2>2
<1>4. /\ s.stream = open.stream /\ s.epoch = open.epoch /\ s.clock = open.clock /\ s.source = open.source
      /\ s.capabilities = open.capabilities /\ s.every = open.every /\ s.limits = open.limits
      /\ s.budget = open.budget /\ s.missed = open.missed
      /\ s.frames = open.frames /\ s.events = open.events
      /\ s.offered = open.offered /\ s.sampled = open.sampled /\ s.unsampled = open.unsampled
      /\ s.frameDropped = open.frameDropped /\ s.attempted = open.attempted /\ s.retained = open.retained
      /\ s.lost = open.lost
  BY <1>2 DEF Stream
<1> s.stop = "disabled" <=> open.stop = "disabled"
  BY <1>2, NullAssumption DEF Stream
<1> HIDE DEF s
<1>5. All' = Append(streams, s)
  BY <1>1 DEF All
<1>6. /\ DOMAIN All' = 1..n /\ Len(All') = n /\ All'[n] = s
      /\ \A k \in 1..Len(streams) : All'[k] = All[k] /\ k \in DOMAIN All
  BY <1>2, <1>3, <1>5
<1>7. SUFFICES ASSUME slip = Null
               PROVE  /\ \A k \in 1..n : Proper(format, settings, k, All'[k])
                      /\ n <= MaxStreams /\ FramesIn(All') <= MaxFrames /\ EventsIn(All') <= MaxEvents
  BY <1>1, <1>6 DEF Unspoilt
<1>8. /\ \A k \in DOMAIN All : Proper(format, settings, k, All[k])
      /\ n <= MaxStreams /\ FramesIn(All) <= MaxFrames /\ EventsIn(All) <= MaxEvents
  BY <1>2, <1>7 DEF Unspoilt
<1>9. FramesIn(All') = FramesIn(All) /\ EventsIn(All') = EventsIn(All)
  <2>1. /\ FramesIn(All') = FramesIn(streams) + Len(s.frames) /\ EventsIn(All') = EventsIn(streams) + Len(s.events)
    BY <1>2, <1>3, <1>5, LastCounted
  <2>2. /\ FramesIn(All) = FramesIn(streams) + Len(open.frames)
        /\ EventsIn(All) = EventsIn(streams) + Len(open.events)
    BY <1>0, <1>1, AllCounted
  <2> QED
    BY <1>4, <2>1, <2>2
<1>10. Proper(format, settings, n, s)
  <2>1. Proper(format, settings, n, open)
    BY <1>2, <1>8
  <2>2. Declared(format, settings, n, s) /\ Counted(format, s) /\ (settings.build = {} => Empty(s))
    BY <1>4, <2>1 DEF Proper, Declared, Counted, Empty
  <2>3. Admitted(s)
    <3>1. \A e : EventAdmitted(s, e) <=> EventAdmitted(open, e)
      BY <1>4 DEF EventAdmitted, Supported
    <3> QED
      BY <1>4, <2>1, <3>1 DEF Proper, Admitted
  <2> QED
    BY <2>2, <2>3 DEF Proper
<1>11. ASSUME NEW k \in 1..n PROVE Proper(format, settings, k, All'[k])
  <2>1. k = n \/ k \in 1..Len(streams)
    BY <1>2
  <2> QED
    BY <1>6, <1>8, <1>10, <2>1
<1> QED
  BY <1>8, <1>9, <1>11

(* Whatever is adopted has a lifetime.                                     *)
LEMMA AdoptStays == ASSUME IInv, Unspoilt, Adopt PROVE Unspoilt'
<1>1. streams # <<>> /\ UNCHANGED <<format, settings, open, streams, slip>>
  BY DEF Adopt, recorder
<1>2. All' = All
  BY <1>1 DEF All
<1> QED
  BY <1>1, <1>2 DEF Unspoilt
LEMMA ProperLife ==
  ASSUME IInv, Unspoilt, InLifetime
  PROVE  /\ Proper(format, settings, Len(streams) + 1, open) /\ settings.build # {}
         /\ Counted(format, open) /\ Admitted(open) /\ open.every = settings.every
         /\ FramesLeft \in Nat /\ EventsLeft \in Nat
<1>1. /\ TypeOK /\ slip = Null /\ open # Null /\ open \in Stream(format) /\ open.stop # "disabled"
  BY InLife
<1>2. /\ Len(streams) + 1 \in DOMAIN All /\ All[Len(streams) + 1] = open
  BY <1>1, AllFacts
<1>3. Proper(format, settings, Len(streams) + 1, open)
  BY <1>1, <1>2 DEF Unspoilt
<1>4. FramesLeft \in Nat /\ EventsLeft \in Nat
  <2>1. /\ FramesIn(All) \in Nat /\ FramesIn(All) <= MaxFrames
        /\ EventsIn(All) \in Nat /\ EventsIn(All) <= MaxEvents
    BY <1>1, AllCounted DEF Unspoilt
  <2> QED
    BY <2>1, LimitsAssumption DEF FramesLeft, EventsLeft
<1> QED
  BY <1>1, <1>3, <1>4 DEF Proper, Declared

(* What was admitted stays so while frames only come.                      *)
LEMMA StaysAdmitted ==
  ASSUME NEW s, NEW t, Admitted(s), t.events = s.events, t.capabilities = s.capabilities,
         s.attempted \in Nat, t.attempted \in Nat, s.attempted <= t.attempted,
         \A i \in DOMAIN s.events : s.events[i].sequence \in Nat,
         Range(s.frames) \subseteq Range(t.frames)
  PROVE  Admitted(t)
<1>1. ASSUME NEW i \in DOMAIN s.events PROVE EventAdmitted(t, s.events[i])
  <2> DEFINE e == s.events[i]
  <2>1. EventAdmitted(s, e)
    BY DEF Admitted
  <2>2. e.sequence \in Nat
    OBVIOUS
  <2> HIDE DEF e
  <2>3. e.sequence <= t.attempted
    BY <2>1, <2>2 DEF EventAdmitted
  <2>4. Supported(t) = Supported(s)
    BY DEF Supported
  <2> QED
    BY <2>1, <2>3, <2>4 DEF EventAdmitted, e
<1> QED
  BY <1>1 DEF Admitted

LEMMA RangeGrows ==
  ASSUME NEW S, NEW seq \in Seq(S), NEW x \in S
  PROVE  Range(seq) \subseteq Range(Append(seq, x))
<1>1. \A i \in DOMAIN seq : i \in DOMAIN Append(seq, x) /\ Append(seq, x)[i] = seq[i]
  OBVIOUS
<1> HIDE DEF Range
<1> DEFINE y == Append(seq, x)
<1>2. \A i \in DOMAIN seq : i \in DOMAIN y /\ y[i] = seq[i]
  BY <1>1
<1> HIDE DEF y
<1>3. Range(seq) \subseteq Range(y)
  BY <1>2 DEF Range
<1> QED
  BY <1>3 DEF y

LEMMA OfferStays ==
  ASSUME IInv, Unspoilt, NEW c \in {"exact", "missing"}, NEW gap \in 0..1, Offer(c, gap)
  PROVE  Unspoilt'
<1>1. OfferedNow /\ InLifetime /\ slip' = slip
  BY DEF Offer, OfferedNow
<1>2. /\ TypeOK /\ verdict = Null /\ slip = Null /\ open # Null /\ open \in Stream(format)
      /\ open.stop = Null /\ UNCHANGED <<format, settings, streams, verdict>>
  BY <1>1, InLife
<1>3. /\ settings.build # {} /\ Counted(format, open) /\ Admitted(open) /\ FramesLeft \in Nat
  BY <1>1, ProperLife
<1> DEFINE n == open.offered
           f == [frame |-> n + 1, correlation |-> c]
<1>4. /\ n \in Nat /\ open.frameDropped \in Nat /\ open.sampled \in Nat /\ open.attempted \in Nat
      /\ open.unsampled \in Nat /\ open.missed \in Nat /\ open.frames \in Seq(Frames)
      /\ open.events \in Seq(Events(format))
  BY <1>2, StreamFields
<1>5. PICK o \in Nat, g \in Nat : o = n + 1 /\ g = open.missed + gap
  BY <1>4
<1>6. format = "engine" => g = 0
  <2>1. format = "engine" => gap = 0
    BY DEF Offer
  <2> QED
    BY <1>3, <1>5, <2>1 DEF Counted
<1>7. /\ n = open.sampled + open.unsampled + open.frameDropped
      /\ \A i \in DOMAIN open.frames : open.frames[i].frame \in Nat /\ open.frames[i].frame <= n
      /\ \A i \in DOMAIN open.frames : format # "engine" => open.frames[i].correlation = "exact"
  <2>1. \A i \in DOMAIN open.frames : open.frames[i] \in Frames
    BY <1>4
  <2>2. \A i \in DOMAIN open.frames : open.frames[i].frame \in Nat
    BY <2>1 DEF Frames
  <2> QED
    BY <1>3, <2>2 DEF Counted
<1>8. \A i \in DOMAIN open.frames : open.frames[i].frame <= o
  <2> HIDE DEF n
  <2>1. \A x \in Nat : x <= n => x <= o
    BY <1>4, <1>5
  <2> QED
    BY <1>7, <2>1
<1>14. /\ o = (open.sampled + 1) + open.unsampled + open.frameDropped
       /\ o = open.sampled + (open.unsampled + 1) + open.frameDropped
       /\ o = open.sampled + open.unsampled + (open.frameDropped + 1)
  <2>1. PICK p \in Nat, q \in Nat, d \in Nat : p = open.sampled /\ q = open.unsampled /\ d = open.frameDropped
    BY <1>4
  <2>2. o = p + q + d + 1
    BY <1>5, <1>7, <2>1
  <2>3. o = (p + 1) + q + d /\ o = p + (q + 1) + d /\ o = p + q + (d + 1)
    BY ONLY p \in Nat, q \in Nat, d \in Nat, <2>2
  <2> QED
    BY <2>1, <2>3
<1>9. \A i \in DOMAIN open.events : open.events[i].sequence \in Nat
  <2>1. \A i \in DOMAIN open.events : open.events[i] \in Events(format)
    BY <1>4
  <2> QED
    BY <2>1 DEF Events
<1>10. ASSUME open' \in Stream(format), SameDeclaration(open, open'), Counted(format, open'),
              Range(open.frames) \subseteq Range(open'.frames),
              open'.events = open.events, open'.attempted = open.attempted,
              \/ Len(open'.frames) = Len(open.frames)
              \/ FramesLeft > 0 /\ Len(open'.frames) = Len(open.frames) + 1
       PROVE  Unspoilt'
  <2>1. Admitted(open')
    <3>1. open'.capabilities = open.capabilities /\ open.attempted <= open'.attempted
      BY <1>4, <1>10 DEF SameDeclaration
    <3> QED
      BY <1>3, <1>4, <1>9, <1>10, <3>1, StaysAdmitted
  <2>2. Len(open'.events) <= Len(open.events)
    BY <1>4, <1>10
  <2> QED
    BY <1>2, <1>3, <1>10, <2>1, <2>2, LastStays
<1>11. CASE ~Eligible
  <2>0. PICK u \in Nat : u = open.unsampled + 1
    BY <1>4
  <2>1. open' = [open EXCEPT !.offered = o, !.missed = g, !.unsampled = u]
    BY <1>2, <1>5, <1>11, <2>0 DEF Offer, Stream
  <2>2. open' \in Stream(format)
    BY <1>2, <2>1 DEF Stream
  <2>3. SameDeclaration(open, open')
    BY <1>2, <2>1 DEF Stream, SameDeclaration
  <2>4. /\ open'.offered = o /\ open'.missed = g /\ open'.unsampled = u /\ open'.sampled = open.sampled
        /\ open'.frameDropped = open.frameDropped /\ open'.frames = open.frames
        /\ open'.events = open.events /\ open'.attempted = open.attempted
    BY <1>2, <2>1 DEF Stream
  <2>5. o = open.sampled + u + open.frameDropped
    BY <1>14, <2>0, Zenon
  <2>6. Counted(format, open')
    BY <1>6, <1>7, <1>8, <2>4, <2>5 DEF Counted
  <2> QED
    BY <1>10, <2>2, <2>3, <2>4, <2>6
<1>12. CASE Eligible /\ FramesLeft = 0
  <2>0. PICK d \in Nat : d = open.frameDropped + 1
    BY <1>4
  <2>1. open' = [open EXCEPT !.offered = o, !.missed = g, !.frameDropped = d]
    BY <1>2, <1>5, <1>12, <2>0 DEF Offer, Stream
  <2>2. open' \in Stream(format)
    BY <1>2, <2>1 DEF Stream
  <2>3. SameDeclaration(open, open')
    BY <1>2, <2>1 DEF Stream, SameDeclaration
  <2>4. /\ open'.offered = o /\ open'.missed = g /\ open'.unsampled = open.unsampled
        /\ open'.sampled = open.sampled /\ open'.frameDropped = d /\ open'.frames = open.frames
        /\ open'.events = open.events /\ open'.attempted = open.attempted
    BY <1>2, <2>1 DEF Stream
  <2>5. o = open.sampled + open.unsampled + d
    BY <1>14, <2>0, Zenon
  <2>6. Counted(format, open')
    BY <1>6, <1>7, <1>8, <2>4, <2>5 DEF Counted
  <2> QED
    BY <1>10, <2>2, <2>3, <2>4, <2>6
<1>13. CASE Eligible /\ FramesLeft # 0
  <2>1. f \in Frames /\ f.frame = o /\ f.correlation = c
    BY <1>4, <1>5 DEF Frames
  <2>2. format # "engine" => c = "exact"
    BY DEF Offer
  <2> HIDE DEF f
  <2>3. PICK h \in Nat : h = open.sampled + 1
    BY <1>4
  <2>4. /\ Append(open.frames, f) \in Seq(Frames) /\ Len(Append(open.frames, f)) = Len(open.frames) + 1
        /\ Append(open.frames, f)[Len(open.frames) + 1] = f
        /\ Range(open.frames) \subseteq Range(Append(open.frames, f))
        /\ \A i \in DOMAIN Append(open.frames, f) :
             i = Len(open.frames) + 1 \/ (i \in DOMAIN open.frames /\ Append(open.frames, f)[i] = open.frames[i])
    BY <1>4, <2>1, AppendFacts, RangeGrows
  <2>5. PICK fs \in Seq(Frames) : fs = Append(open.frames, f)
    BY <2>4
  <2>6. open' = [open EXCEPT !.offered = o, !.missed = g, !.sampled = h, !.frames = fs]
    BY <1>2, <1>5, <1>13, <2>3, <2>5 DEF Offer, Stream, f
  <2>7. open' \in Stream(format)
    BY <1>2, <2>6 DEF Stream, Frames
  <2>8. SameDeclaration(open, open')
    BY <1>2, <2>6 DEF Stream, SameDeclaration
  <2>9. /\ open'.offered = o /\ open'.missed = g /\ open'.unsampled = open.unsampled
        /\ open'.sampled = h /\ open'.frameDropped = open.frameDropped /\ open'.frames = fs
        /\ open'.events = open.events /\ open'.attempted = open.attempted
    BY <1>2, <2>6 DEF Stream
  <2>10. o = h + open.unsampled + open.frameDropped
    BY <1>14, <2>3, Zenon
  <2>11. ASSUME NEW i \in DOMAIN fs
         PROVE  fs[i].frame <= o /\ (format # "engine" => fs[i].correlation = "exact")
    <3>1. fs[i] = f \/ (i \in DOMAIN open.frames /\ fs[i] = open.frames[i])
      BY <2>4, <2>5
    <3>2. o <= o
      OBVIOUS
    <3> QED
      BY <1>7, <1>8, <2>1, <2>2, <3>1, <3>2
  <2>12. Counted(format, open')
    BY <1>6, <2>9, <2>10, <2>11 DEF Counted
  <2>13. FramesLeft > 0 /\ Len(open'.frames) = Len(open.frames) + 1 /\ Range(open.frames) \subseteq Range(open'.frames)
    BY <1>3, <1>13, <2>4, <2>5, <2>9
  <2> QED
    BY <1>10, <2>7, <2>8, <2>9, <2>12, <2>13
<1> QED
  BY <1>11, <1>12, <1>13

LEMMA AttemptStays ==
  ASSUME IInv, Unspoilt, open # Null, NEW i \in DOMAIN open.frames, NEW b \in Allowed(format), Attempt(i, b)
  PROVE  Unspoilt'
<1> DEFINE f == open.frames[i].frame
<1>1. /\ InLifetime /\ slip' = slip /\ CapabilityOf(b) \in Supported(open)
      /\ open.frames[i].correlation = "exact" \/ b = "capture_output"
      /\ \/ open' = Lose
         \/ EventsLeft > 0 /\ \E t \in now..MaxClock : open' = Retain(f, b, t)
  BY DEF Attempt, AttemptedNow
<1>2. /\ TypeOK /\ verdict = Null /\ slip = Null /\ open # Null /\ open \in Stream(format)
      /\ open.stop = Null /\ UNCHANGED <<format, settings, streams, verdict>>
  BY <1>1, InLife
<1>3. /\ settings.build # {} /\ Counted(format, open) /\ Admitted(open) /\ EventsLeft \in Nat
  BY <1>1, ProperLife
<1>4. /\ open.attempted \in Nat /\ open.retained \in Nat /\ open.lost \in Nat
      /\ open.events \in Seq(Events(format)) /\ open.frames \in Seq(Frames)
  BY <1>2, StreamFields
<1>5. f \in Nat \ {0} /\ now \in Nat
  <2>1. open.frames[i] \in Frames
    BY <1>4
  <2> QED
    BY <1>2, <2>1 DEF Frames, TypeOK
<1>6. \A j \in DOMAIN open.events : open.events[j].sequence \in Nat
  <2>1. \A j \in DOMAIN open.events : open.events[j] \in Events(format)
    BY <1>4
  <2> QED
    BY <2>1 DEF Events
<1>7. ASSUME open' \in Stream(format), SameDeclaration(open, open'), open'.frames = open.frames,
             open'.offered = open.offered, open'.sampled = open.sampled, open'.unsampled = open.unsampled,
             open'.frameDropped = open.frameDropped, open'.missed = open.missed, Admitted(open'),
             \/ Len(open'.events) <= Len(open.events)
             \/ EventsLeft > 0 /\ Len(open'.events) = Len(open.events) + 1
      PROVE  Unspoilt'
  <2>1. Counted(format, open')
    BY <1>3, <1>7 DEF Counted
  <2>2. Len(open'.frames) = Len(open.frames)
    BY <1>7
  <2> QED
    BY <1>2, <1>3, <1>7, <2>1, <2>2, LastStays
<1>8. PICK a \in Nat : a = open.attempted + 1
  BY <1>4
<1>9. CASE open' = Lose
  <2>1. PICK l \in Nat : l = open.lost + 1
    BY <1>4
  <2>2. open' = [open EXCEPT !.attempted = a, !.lost = l]
    BY <1>2, <1>8, <1>9, <2>1 DEF Lose, Stream
  <2>3. open' \in Stream(format)
    BY <1>2, <2>2 DEF Stream
  <2>4. SameDeclaration(open, open')
    BY <1>2, <2>2 DEF Stream, SameDeclaration
  <2>5. /\ open'.frames = open.frames /\ open'.offered = open.offered /\ open'.sampled = open.sampled
        /\ open'.unsampled = open.unsampled /\ open'.frameDropped = open.frameDropped
        /\ open'.missed = open.missed /\ open'.events = open.events /\ open'.attempted = a
        /\ open'.capabilities = open.capabilities
    BY <1>2, <2>2 DEF Stream
  <2>6. Admitted(open')
    <3>1. open.attempted <= a /\ Range(open.frames) \subseteq Range(open'.frames)
      BY <1>4, <1>8, <2>5
    <3> QED
      BY <1>3, <1>4, <1>6, <1>8, <2>5, <3>1, StaysAdmitted
  <2>7. Len(open'.events) <= Len(open.events)
    BY <1>4, <2>5
  <2> QED
    BY <1>7, <2>3, <2>4, <2>5, <2>6, <2>7
<1>10. ASSUME EventsLeft > 0, NEW t \in now..MaxClock, open' = Retain(f, b, t)
       PROVE  Unspoilt'
  <2> DEFINE x == [sequence |-> a, frame |-> f, boundary |-> b, at |-> t]
  <2>1. t \in Nat
    BY <1>5, BoundsAssumption
  <2>2. x \in Events(format) /\ x.sequence = a /\ x.frame = f /\ x.boundary = b
    BY <1>5, <2>1 DEF Events
  <2>3. PICK r \in Nat : r = open.retained + 1
    BY <1>4
  <2>4. open' = [open EXCEPT !.attempted = a, !.retained = r, !.events = Append(open.events, x)]
    BY <1>2, <1>8, <1>10, <2>3 DEF Retain, Numbered, Stream
  <2> HIDE DEF x
  <2>5. /\ Append(open.events, x) \in Seq(Events(format)) /\ Len(open.events) \in Nat
        /\ Len(Append(open.events, x)) = Len(open.events) + 1
        /\ Append(open.events, x)[Len(open.events) + 1] = x
        /\ \A j \in DOMAIN Append(open.events, x) :
             j = Len(open.events) + 1 \/ (j \in DOMAIN open.events /\ Append(open.events, x)[j] = open.events[j])
    BY <1>4, <2>2, AppendFacts
  <2>6. PICK es \in Seq(Events(format)) : es = Append(open.events, x)
    BY <2>5
  <2>7. open' = [open EXCEPT !.attempted = a, !.retained = r, !.events = es]
    BY <2>4, <2>6
  <2>8. open' \in Stream(format)
    BY <1>2, <2>7, EventsUpdated
  <2>9. SameDeclaration(open, open')
    BY <1>2, <2>7 DEF Stream, SameDeclaration
  <2>10. /\ open'.frames = open.frames /\ open'.offered = open.offered /\ open'.sampled = open.sampled
         /\ open'.unsampled = open.unsampled /\ open'.frameDropped = open.frameDropped
         /\ open'.missed = open.missed /\ open'.events = es /\ open'.attempted = a
         /\ open'.capabilities = open.capabilities
    BY <1>2, <2>7 DEF Stream
  <2>11. \A e : e.sequence \in Nat /\ EventAdmitted(open, e) => e.sequence < a /\ EventAdmitted(open', e)
    <3>1. Supported(open') = Supported(open)
      BY <2>10 DEF Supported
    <3>2. ASSUME NEW e, e.sequence \in Nat, EventAdmitted(open, e)
          PROVE  e.sequence < a /\ e.sequence <= open'.attempted
      BY <1>4, <1>8, <2>10, <3>2 DEF EventAdmitted
    <3> QED
      BY <2>10, <3>1, <3>2 DEF EventAdmitted
  <2>12. EventAdmitted(open', x)
    <3>1. open.frames[i] \in Range(open'.frames)
      BY <2>10 DEF Range
    <3>2. x.sequence <= open'.attempted
      BY <2>2, <2>10
    <3>3. CapabilityOf(x.boundary) \in Supported(open')
      BY <1>1, <2>2, <2>10 DEF Supported
    <3> QED
      BY <1>1, <2>2, <3>1, <3>2, <3>3 DEF EventAdmitted
  <2>13. ASSUME NEW j \in DOMAIN es PROVE EventAdmitted(open', es[j])
    <3>1. es[j] = x \/ (j \in DOMAIN open.events /\ es[j] = open.events[j])
      BY <2>5, <2>6
    <3> QED
      BY <1>3, <1>6, <2>11, <2>12, <3>1 DEF Admitted
  <2>14. ASSUME NEW j \in DOMAIN es, NEW m \in DOMAIN es, j < m
         PROVE  es[j].sequence < es[m].sequence
    <3>1. DOMAIN es = 1..Len(open.events) + 1
      BY <2>5, <2>6
    <3>2. j \in DOMAIN open.events /\ es[j] = open.events[j]
      BY <2>5, <2>6, <2>14, <3>1
    <3>3. CASE m = Len(open.events) + 1
      <4>1. es[m].sequence = a
        BY <2>2, <2>5, <2>6, <3>3
      <4> QED
        BY <1>3, <1>6, <2>11, <3>2, <4>1 DEF Admitted
    <3>4. CASE m # Len(open.events) + 1
      <4>1. m \in DOMAIN open.events /\ es[m] = open.events[m]
        BY <2>5, <2>6, <3>4
      <4> QED
        BY <1>3, <2>14, <3>2, <4>1 DEF Admitted
    <3> QED
      BY <3>3, <3>4
  <2>15. Admitted(open')
    BY <2>10, <2>13, <2>14 DEF Admitted
  <2>16. EventsLeft > 0 /\ Len(open'.events) = Len(open.events) + 1
    BY <1>10, <2>5, <2>6, <2>10
  <2> QED
    BY <1>7, <2>8, <2>9, <2>10, <2>15, <2>16
<1> QED
  BY <1>1, <1>9, <1>10

LEMMA AmbiguousStays ==
  ASSUME IInv, Unspoilt, open # Null, NEW i \in DOMAIN open.frames, Ambiguous(i)
  PROVE  Unspoilt'
<1> DEFINE f == open.frames[i].frame
           D == DOMAIN open.events
           gone == Downstream(f)
           k == Cardinality(gone)
           frames == [open.frames EXCEPT ![i].correlation = "ambiguous"]
           events == Kept(open.events, D \ gone)
<1>1. /\ InLifetime /\ slip' = slip /\ format = "engine"
      /\ open' = [open EXCEPT !.frames[i].correlation = "ambiguous",
                              !.events = Kept(@, DOMAIN @ \ Downstream(f)),
                              !.retained = @ - k, !.lost = @ + k]
  BY DEF Ambiguous
<1>2. /\ TypeOK /\ verdict = Null /\ slip = Null /\ open # Null /\ open \in Stream(format)
      /\ open.stop = Null /\ UNCHANGED <<format, settings, streams, verdict>>
      /\ Honest(open, truth[Life])
  BY <1>1, InLife
<1>3. /\ settings.build # {} /\ Counted(format, open) /\ Admitted(open)
  BY <1>1, ProperLife
<1>4. /\ open.retained \in Nat /\ open.lost \in Nat /\ open.attempted \in Nat
      /\ open.events \in Seq(Events(format)) /\ Len(open.events) \in Nat
      /\ open.frames \in Seq(Frames) /\ open.retained = Len(open.events)
  BY <1>2, StreamFields DEF Honest, EventsTrue
<1>5. gone \in SUBSET D
  BY DEF Downstream
<1>6. /\ k \in Nat /\ k <= Len(open.events) /\ Cardinality(D \ gone) = Len(open.events) - k
      /\ D \ gone \in SUBSET D
  <2> HIDE DEF gone
  <2> QED
    BY <1>4, <1>5, PositionsLeft
<1>7. /\ frames \in Seq(Frames) /\ Len(frames) = Len(open.frames) /\ DOMAIN frames = DOMAIN open.frames
      /\ \A j \in DOMAIN open.frames : /\ frames[j].frame = open.frames[j].frame
                                       /\ j # i => frames[j] = open.frames[j]
  <2> DEFINE x == open.frames[i]
             y == [x EXCEPT !.correlation = "ambiguous"]
  <2>1. x \in Frames
    BY <1>4
  <2>2. y \in Frames /\ y.frame = x.frame
    BY <2>1 DEF Frames
  <2>3. frames = [open.frames EXCEPT ![i] = y]
    OBVIOUS
  <2> HIDE DEF y, frames
  <2> QED
    BY <1>4, <2>2, <2>3
<1> DEFINE K == D \ gone
           n == Cardinality(K)
<1>8. /\ events \in Seq(Events(format)) /\ Len(events) = n /\ n \in Nat
      /\ \A j \in 1..n : Place(K, j) \in K /\ events[j] = open.events[Place(K, j)]
      /\ \A j, m \in 1..n : j < m => Place(K, j) < Place(K, m)
  <2>1. K \in SUBSET DOMAIN open.events /\ events = Kept(open.events, K)
    BY <1>6
  <2> HIDE DEF K, events
  <2> QED
    BY <1>4, <2>1, KeptInOrder
<1>9. n = Len(open.events) - k
  BY <1>6
<1>10. \A p \in K : p \in DOMAIN open.events /\ (open.events[p].frame # f \/ open.events[p].boundary = "capture_output")
  BY DEF Downstream
<1> HIDE DEF k, K, n
<1>11. PICK r \in Nat, l \in Nat : r = open.retained - k /\ l = open.lost + k
  <2>1. k \in Nat /\ k <= open.retained
    BY <1>4, <1>6, Zenon
  <2>2. open.retained - k \in Nat /\ open.lost + k \in Nat
    BY <1>4, <2>1
  <2> QED
    BY <2>2, Zenon
<1>12. open' = [open EXCEPT !.frames = frames, !.events = events, !.retained = r, !.lost = l]
  BY <1>1, <1>2, <1>11 DEF Stream
<1> HIDE DEF frames, events
<1>13. open' \in Stream(format)
  BY <1>2, <1>7, <1>8, <1>12 DEF Stream, Frames, Events
<1>14. SameDeclaration(open, open')
  BY <1>2, <1>12 DEF Stream, SameDeclaration
<1>15. /\ open'.frames = frames /\ open'.offered = open.offered /\ open'.sampled = open.sampled
       /\ open'.unsampled = open.unsampled /\ open'.frameDropped = open.frameDropped
       /\ open'.missed = open.missed /\ open'.events = events /\ open'.attempted = open.attempted
       /\ open'.capabilities = open.capabilities
  BY <1>2, <1>12 DEF Stream
<1>16. Counted(format, open')
  BY <1>1, <1>3, <1>7, <1>15 DEF Counted
<1>17. ASSUME NEW p \in K PROVE EventAdmitted(open', open.events[p])
  <2> DEFINE e == open.events[p]
  <2>1. EventAdmitted(open, e) /\ (e.frame # f \/ e.boundary = "capture_output")
    BY <1>3, <1>10 DEF Admitted
  <2> HIDE DEF e
  <2>2. PICK j \in DOMAIN open.frames :
          /\ open.frames[j].frame = e.frame
          /\ open.frames[j].correlation = "exact" \/ e.boundary = "capture_output"
    BY <2>1 DEF EventAdmitted, Range
  <2>3. frames[j] \in Range(frames) /\ frames[j].frame = e.frame
    BY <1>7, <2>2 DEF Range
  <2>4. frames[j].correlation = "exact" \/ e.boundary = "capture_output"
    BY <1>7, <2>1, <2>2
  <2>5. Supported(open') = Supported(open)
    BY <1>15 DEF Supported
  <2>6. EventAdmitted(open', e)
    BY <1>15, <2>1, <2>3, <2>4, <2>5 DEF EventAdmitted
  <2> QED
    BY <2>6 DEF e
<1>18. Admitted(open')
  <2>1. DOMAIN events = 1..n
    BY <1>8
  <2>2. ASSUME NEW j \in 1..n PROVE EventAdmitted(open', events[j])
    BY <1>8, <1>17
  <2>3. ASSUME NEW j \in 1..n, NEW m \in 1..n, j < m PROVE events[j].sequence < events[m].sequence
    <3>1. /\ Place(K, j) \in K /\ Place(K, m) \in K /\ Place(K, j) < Place(K, m)
          /\ events[j] = open.events[Place(K, j)] /\ events[m] = open.events[Place(K, m)]
      BY <1>8, <2>3
    <3> QED
      BY <1>3, <1>10, <3>1 DEF Admitted
  <2> QED
    BY <1>15, <2>1, <2>2, <2>3 DEF Admitted
<1>19. Len(open'.frames) = Len(open.frames) /\ Len(open'.events) <= Len(open.events)
  BY <1>4, <1>6, <1>7, <1>8, <1>9, <1>15
<1> QED
  BY <1>2, <1>3, <1>13, <1>14, <1>16, <1>18, <1>19, LastStays

LEMMA UnspoiltStays == ASSUME IInv, Unspoilt, [Next]_vars PROVE Unspoilt'
<1>1. CASE Begin \/ End \/ Adopt
  BY <1>1, BeginStays, EndStays, AdoptStays
<1>2. CASE \E c \in {"exact", "missing"}, gap \in 0..1 : Offer(c, gap)
  BY <1>2, OfferStays
<1>3. CASE open # Null /\ \E i \in DOMAIN open.frames : Ambiguous(i) \/ \E b \in Allowed(format) : Attempt(i, b)
  BY <1>3, AmbiguousStays, AttemptStays
<1>4. ASSUME slip' \in Kinds, verdict' = Null PROVE Unspoilt'
  BY <1>4, NullAssumption DEF Unspoilt
<1>5. CASE SlipLifetime
  BY <1>4, <1>5 DEF SlipLifetime, Open, Recording, Slips, Kinds
<1>6. CASE open # Null /\ SlipFrame
  BY <1>4, <1>6 DEF SlipFrame, OfferedNow, InLifetime, Recording, Slips, Kinds
<1>7. ASSUME NEW f \in 1..open.offered, NEW b \in Allowed(format), SlipEvent(f, b) PROVE Unspoilt'
  BY <1>4, <1>7 DEF SlipEvent, AttemptedNow, InLifetime, Recording, Slips, Kinds
<1>8. CASE UNCHANGED vars
  <2>1. UNCHANGED <<format, settings, open, streams, slip, verdict>>
    BY <1>8 DEF vars, recorder
  <2>2. All' = All
    BY <2>1 DEF All
  <2> QED
    BY <2>1, <2>2 DEF Unspoilt
<1> QED
  BY <1>1, <1>2, <1>3, <1>5, <1>6, <1>7, <1>8 DEF Next
(* Without a slip, what is kept satisfies every validator of a record.     *)
LEMMA ProperIsValid ==
  ASSUME NEW f \in Formats, NEW x \in Settings[f], NEW k, NEW s \in Stream(f), NEW t \in LifeOf(f),
         Proper(f, x, k, s), Honest(s, t), Len(s.frames) <= MaxFrames, Len(s.events) <= MaxEvents
  PROVE  /\ ValidStream(f, s) /\ SupportMatches(f, s)
         /\ s.frames # <<>> => Origin(f) \in Supported(s)
         /\ \A j \in DOMAIN s.events : s.events[j].boundary \in Allowed(f)
         /\ f # "engine" => s.budget = Null /\ \A j \in DOMAIN s.frames : s.frames[j].correlation = "exact"
<1>1. /\ Declared(f, x, k, s) /\ Counted(f, s) /\ Admitted(s) /\ (x.build = {} => Empty(s))
  BY DEF Proper
<1>2. FramesTrue(s, t) /\ EventsTrue(s, t)
  BY DEF Honest
<1>3. /\ s.every \in Nat \ {0} /\ s.frames \in Seq(Frames) /\ s.events \in Seq(Events(f))
  BY StreamFields
<1>4. /\ x.build = {} \/ (x.build \subseteq Allowed(f) \cap Boundaries(f) /\ Origin(f) \in x.build)
      /\ x.budget # Null => f = "engine" /\ x.build # {}
  BY SettingsAssumption
<1>5. /\ DOMAIN s.capabilities = Boundaries(f)
      /\ \A b \in Boundaries(f) : s.capabilities[b] = Declaration(f, x)[b]
  BY <1>1 DEF Declared, Declaration
<1>6. EligibleCounted(s)
  <2>1. CASE s.stop = "disabled"
    <3>1. s.sampled = 0 /\ s.frameDropped = 0 /\ s.offered = 0
      BY <1>1, <2>1 DEF Declared, Empty
    <3>2. Taken(0, s.every) = 0 /\ 0 \in Nat
      BY <1>3, TakenStep
    <3> QED
      BY <3>1, <3>2 DEF EligibleCounted, Taken
  <2>2. CASE s.stop # "disabled"
    BY <1>2, <2>2 DEF FramesTrue, EligibleCounted, Taken
  <2> QED
    BY <2>1, <2>2
<1>7. ScopeDeclared(f, s)
  <2>1. CountsConserved(s)
    BY <1>1, <1>2 DEF Counted, EventsTrue, CountsConserved
  <2> QED
    BY <1>5, <1>6, <2>1 DEF ScopeDeclared
<1>8. WithinCapacity(s)
  <2>1. s.limits.frames = MaxFrames /\ s.limits.events = MaxEvents
    BY <1>1 DEF Declared
  <2> QED
    BY <1>2, <2>1 DEF WithinCapacity, FramesTrue, EventsTrue
<1>9. PrefixSampled(s)
  BY <1>1, <1>2 DEF PrefixSampled, FramesTrue, Evenly, Counted
<1>10. EventsAdmitted(s)
  <2>1. Len(s.events) \in Nat /\ DOMAIN s.events = 1..Len(s.events)
    BY <1>3
  <2> DEFINE q == [i \in DOMAIN s.events |-> s.events[i].sequence]
  <2>2. StrictlyIncreasing(q)
    <3>1. DOMAIN q = 1..Len(s.events) /\ \A i \in DOMAIN s.events : s.events[i] \in Events(f)
      BY <1>3, <2>1
    <3>2. q \in Seq(Nat) /\ Len(q) = Len(s.events)
      <4>1. \A i \in 1..Len(s.events) : s.events[i].sequence \in Nat
        BY <2>1, <3>1 DEF Events
      <4> QED
        BY <2>1, <4>1
    <3>3. ASSUME NEW i \in 1..Len(q) - 1 PROVE q[i] < q[i + 1]
      <4>1. i \in DOMAIN s.events /\ i + 1 \in DOMAIN s.events /\ i < i + 1
        BY <2>1, <3>2
      <4> QED
        BY <1>1, <4>1 DEF Admitted
    <3> HIDE DEF q
    <3> QED
      BY <3>3 DEF StrictlyIncreasing
  <2>3. ASSUME NEW i \in DOMAIN s.events, NEW j \in 1..i - 1
        PROVE  <<s.events[i].frame, s.events[i].boundary>> # <<s.events[j].frame, s.events[j].boundary>>
    <3>1. j \in DOMAIN s.events /\ i # j
      BY <2>1
    <3>2. Passages(s.events, t.times)
      BY <1>2 DEF EventsTrue
    <3> QED
      BY <3>1, <3>2 DEF Passages
  <2> QED
    BY <1>1, <2>2, <2>3 DEF EventsAdmitted, Admitted
<1>11. DisabledIsEmpty(s)
  <2> SUFFICES ASSUME s.stop = "disabled"
               PROVE  /\ Range(s.capabilities) = {"disabled"}
                      /\ {s.offered, s.sampled, s.unsampled, s.frameDropped, s.attempted, s.retained, s.lost,
                          s.missed} = {0}
    BY DEF DisabledIsEmpty
  <2>1. x.build = {} /\ Empty(s)
    BY <1>1 DEF Declared
  <2>2. \A b \in Boundaries(f) : s.capabilities[b] = "disabled"
    BY <1>5, <2>1 DEF Declaration
  <2>3. "wire_send" \in Boundaries(f)
    BY DEF Boundaries
  <2>4. Range(s.capabilities) = {"disabled"}
    BY <1>5, <2>2, <2>3 DEF Range
  <2> QED
    BY <2>1, <2>4 DEF Empty
<1>12. SupportMatches(f, s)
  <2>1. ASSUME NEW b \in Boundaries(f), b \notin Allowed(f)
        PROVE  s.capabilities[b] \in {"unsupported_source", "disabled"}
    BY <1>4, <1>5, <2>1 DEF Declaration
  <2> QED
    BY <1>1, <1>5, <2>1 DEF SupportMatches, Declared, Counted
<1>13. ASSUME s.frames # <<>> PROVE Origin(f) \in Supported(s)
  <2>1. x.build # {}
    BY <1>1, <1>13 DEF Empty
  <2>2. Origin(f) \in x.build /\ Origin(f) \in Boundaries(f)
    BY <1>4, <2>1
  <2> QED
    BY <1>5, <2>1, <2>2 DEF Supported, Declaration
<1>14. \A j \in DOMAIN s.events : s.events[j].boundary \in Allowed(f)
  <2>1. \A j \in DOMAIN s.events : s.events[j] \in Events(f)
    BY <1>3
  <2> QED
    BY <2>1 DEF Events
<1>15. f # "engine" => s.budget = Null /\ \A j \in DOMAIN s.frames : s.frames[j].correlation = "exact"
  BY <1>1, <1>4 DEF Declared, Counted
<1>16. ValidStream(f, s)
  BY <1>7, <1>8, <1>9, <1>10, <1>11 DEF ValidStream
<1> QED
  BY <1>12, <1>13, <1>14, <1>15, <1>16

LEMMA HonestIsAccepted ==
  ASSUME IInv, Unspoilt, verdict # Null, slip = Null
  PROVE  ValidRecord(Record)
<1>1. /\ TypeOK /\ Truthful /\ open = Null /\ streams # <<>>
  BY DEF IInv, Settled, Unspoilt
<1>2. /\ All = streams /\ streams \in Seq(Stream(format)) /\ format \in Formats /\ settings \in Settings[format]
      /\ truth \in Seq(LifeOf(format)) /\ Len(truth) = Len(streams)
  BY <1>1 DEF TypeOK, All
<1>3. Record.format = format /\ Record.streams = streams
  BY DEF Record
<1>4. /\ \A k \in DOMAIN streams : Proper(format, settings, k, streams[k])
      /\ Len(streams) <= MaxStreams /\ FramesIn(streams) <= MaxFrames /\ EventsIn(streams) <= MaxEvents
  BY <1>2 DEF Unspoilt
<1>5. Len(streams) \in Nat /\ Len(streams) # 0 /\ DOMAIN streams = 1..Len(streams)
  BY <1>1, <1>2
<1>6. \A k \in DOMAIN streams : streams[k].stream = k /\ streams[k].epoch = k /\ streams[k].clock = k
  BY <1>4 DEF Proper, Declared
<1>7. ScopesDistinct(streams)
  <2>1. /\ [i \in DOMAIN streams |-> streams[i].stream] = [i \in DOMAIN streams |-> i]
        /\ [i \in DOMAIN streams |-> streams[i].epoch] = [i \in DOMAIN streams |-> i]
        /\ [i \in DOMAIN streams |-> streams[i].clock] = [i \in DOMAIN streams |-> i]
    BY <1>6
  <2> DEFINE same == [i \in DOMAIN streams |-> i]
  <2>2. same \in Seq(Nat) /\ Len(same) = Len(streams) /\ \A i \in DOMAIN streams : same[i] = i
    BY <1>5
  <2>3. DOMAIN same = DOMAIN streams
    BY Zenon
  <2> HIDE DEF same
  <2>4. StrictlyIncreasing(same)
    BY <1>5, <2>2 DEF StrictlyIncreasing
  <2>5. IsInjective(same)
    BY <2>2, <2>3 DEF IsInjective
  <2> QED
    BY <2>1, <2>4, <2>5 DEF ScopesDistinct, same
<1>8. ASSUME NEW k \in DOMAIN streams
      PROVE  LET s == streams[k] IN
             /\ ValidStream(format, s) /\ SupportMatches(format, s)
             /\ s.frames # <<>> => Origin(format) \in Supported(s)
             /\ \A j \in DOMAIN s.events : s.events[j].boundary \in Allowed(format)
             /\ format # "engine" =>
                  s.budget = Null /\ \A j \in DOMAIN s.frames : s.frames[j].correlation = "exact"
  <2> DEFINE s == streams[k]
  <2>1. s \in Stream(format) /\ truth[k] \in LifeOf(format)
    BY <1>2, <1>5
  <2>2. Proper(format, settings, k, s) /\ Honest(s, truth[k])
    BY <1>1, <1>2, <1>4 DEF Truthful
  <2>3. Len(s.frames) <= MaxFrames /\ Len(s.events) <= MaxEvents
    <3>1. /\ Len(s.frames) <= FramesIn(streams) /\ FramesIn(streams) \in Nat /\ Len(s.frames) \in Nat
          /\ Len(s.events) <= EventsIn(streams) /\ EventsIn(streams) \in Nat /\ Len(s.events) \in Nat
      BY <1>2, <2>1, LastCounted
    <3> QED
      BY <1>4, <3>1, LimitsAssumption
  <2> HIDE DEF s
  <2> QED
    BY <1>2, <2>1, <2>2, <2>3, ProperIsValid DEF s
<1>9. Len(streams) \in 1..MaxStreams
  BY <1>4, <1>5, LimitsAssumption
<1> QED
  BY <1>3, <1>4, <1>7, <1>8, <1>9 DEF ValidRecord

-----------------------------------------------------------------------------
(* What is reconstructed from a valid record satisfies every validator of  *)
(* a summary. *)
Out(f, s, ends, m, why) == {i \in DOMAIN s.frames : Excluded(f, s, ends, m, s.frames[i]) = why}

LEMMA Removed ==
  ASSUME NEW D, IsFiniteSet(D), NEW T \in SUBSET D
  PROVE  /\ IsFiniteSet(D \ T) /\ Cardinality(D \ T) \in Nat /\ Cardinality(T) \in Nat
         /\ Cardinality(D) = Cardinality(T) + Cardinality(D \ T)
<1>1. IsFiniteSet(D \ T) /\ Cardinality(D \ T) = Cardinality(D) - Cardinality(D \cap T)
  BY FS_Difference, Zenon
<1>2. D \cap T = T
  OBVIOUS
<1>3. IsFiniteSet(T)
  BY FS_Subset
<1>4. Cardinality(D) \in Nat /\ Cardinality(T) \in Nat /\ Cardinality(D \ T) \in Nat
  BY <1>1, <1>3, FS_CardinalityType
<1> QED
  BY <1>1, <1>2, <1>4

(* Every frame is used or excluded for one reason.                         *)
LEMMA OneReason ==
  ASSUME NEW f \in Formats, NEW s, NEW ends, NEW m, NEW x \in Frames
  PROVE  /\ Excluded(f, s, ends, m, x)
              \in {Null, "unsupported", "missing", "ambiguous", "missing_endpoint", "negative_duration"}
         /\ Excluded(f, s, ends, m, x) = "unsupported" <=> Unavailable(f, s, m) # Null
         /\ Unavailable(f, s, m) = Null =>
              /\ Excluded(f, s, ends, m, x) = "missing" <=> x.correlation = "missing"
              /\ Excluded(f, s, ends, m, x) = "ambiguous" <=> x.correlation = "ambiguous"
<1>1. x.correlation \in {"exact", "missing", "ambiguous"}
  BY DEF Frames
<1>2. Null \notin {"unsupported", "missing", "ambiguous", "missing_endpoint", "negative_duration"}
  BY NullAssumption DEF Exclusions
<1> DEFINE start == TimesOf(ends, x.frame, Pairs(f)[m][1])
           end == TimesOf(ends, x.frame, Pairs(f)[m][2])
<1>3. Excluded(f, s, ends, m, x)
        = IF Unavailable(f, s, m) # Null THEN "unsupported"
          ELSE IF x.correlation # "exact" THEN x.correlation
          ELSE IF {} \in {start, end} THEN "missing_endpoint"
          ELSE IF \E a \in start, b \in end : b < a THEN "negative_duration" ELSE Null
  BY DEF Excluded
<1> HIDE DEF start, end
<1> QED
  BY <1>1, <1>2, <1>3

LEMMA ReasonsCounted ==
  ASSUME NEW f \in Formats, NEW s \in Stream(f), NEW ends, NEW m
  PROVE  LET n(why) == Cardinality(Out(f, s, ends, m, why)) IN
         /\ Len(s.frames) \in Nat
         /\ \A why : n(why) \in Nat
         /\ Len(s.frames) = n(Null) + (n("unsupported") + n("missing") + n("ambiguous")
                                        + n("missing_endpoint") + n("negative_duration"))
<1> DEFINE D == DOMAIN s.frames
           R == {Null, "unsupported", "missing", "ambiguous", "missing_endpoint", "negative_duration"}
           O(why) == Out(f, s, ends, m, why)
<1>1. s.frames \in Seq(Frames) /\ Len(s.frames) \in Nat /\ D = 1..Len(s.frames)
  BY StreamFields
<1>2. IsFiniteSet(D) /\ Cardinality(D) = Len(s.frames)
  <2> DEFINE n == Len(s.frames)
  <2>1. n \in Nat
    BY <1>1
  <2> HIDE DEF n
  <2>2. IsFiniteSet(1..n) /\ Cardinality(1..n) = n
    BY <2>1, FS_Interval
  <2> QED
    BY <1>1, <2>2 DEF n
<1>3. \A i \in D : Excluded(f, s, ends, m, s.frames[i]) \in R
  <2>1. \A i \in D : s.frames[i] \in Frames
    BY <1>1
  <2> QED
    BY <2>1, OneReason
<1>4. /\ \A why : O(why) \in SUBSET D
      /\ \A i \in D : \E why \in R : i \in O(why)
      /\ \A u, v : u # v => O(u) \cap O(v) = {}
  <2>1. \A why : O(why) \in SUBSET D
    BY DEF Out
  <2>2. \A i \in D : i \in O(Excluded(f, s, ends, m, s.frames[i]))
    BY DEF Out
  <2>3. \A u, v : u # v => O(u) \cap O(v) = {}
    BY DEF Out
  <2> HIDE DEF O, R, D
  <2> QED
    BY <1>3, <2>1, <2>2, <2>3
<1> HIDE DEF D, O
<1>5. Null \notin {"unsupported", "missing", "ambiguous", "missing_endpoint", "negative_duration"}
  BY NullAssumption DEF Exclusions
<1> DEFINE D1 == D \ O(Null)
           D2 == D1 \ O("unsupported")
           D3 == D2 \ O("missing")
           D4 == D3 \ O("ambiguous")
           D5 == D4 \ O("missing_endpoint")
           D6 == D5 \ O("negative_duration")
<1>6. /\ O("unsupported") \subseteq D1 /\ O("missing") \subseteq D2 /\ O("ambiguous") \subseteq D3
      /\ O("missing_endpoint") \subseteq D4 /\ O("negative_duration") \subseteq D5
  BY <1>4, <1>5
<1>7. D6 = {}
  <2> SUFFICES ASSUME NEW i \in D6 PROVE FALSE
    OBVIOUS
  <2>1. i \in D
    OBVIOUS
  <2>2. PICK why \in R : i \in O(why)
    BY <1>4, <2>1
  <2> QED
    BY <2>2
<1>8. /\ IsFiniteSet(D1) /\ Cardinality(D1) \in Nat /\ Cardinality(O(Null)) \in Nat
      /\ Cardinality(D) = Cardinality(O(Null)) + Cardinality(D1)
  BY <1>2, <1>4, Removed
<1> HIDE DEF D1
<1>9. /\ IsFiniteSet(D2) /\ Cardinality(D2) \in Nat /\ Cardinality(O("unsupported")) \in Nat
      /\ Cardinality(D1) = Cardinality(O("unsupported")) + Cardinality(D2)
  BY <1>6, <1>8, Removed
<1> HIDE DEF D2
<1>10. /\ IsFiniteSet(D3) /\ Cardinality(D3) \in Nat /\ Cardinality(O("missing")) \in Nat
       /\ Cardinality(D2) = Cardinality(O("missing")) + Cardinality(D3)
  BY <1>6, <1>9, Removed
<1> HIDE DEF D3
<1>11. /\ IsFiniteSet(D4) /\ Cardinality(D4) \in Nat /\ Cardinality(O("ambiguous")) \in Nat
       /\ Cardinality(D3) = Cardinality(O("ambiguous")) + Cardinality(D4)
  BY <1>6, <1>10, Removed
<1> HIDE DEF D4
<1>12. /\ IsFiniteSet(D5) /\ Cardinality(D5) \in Nat /\ Cardinality(O("missing_endpoint")) \in Nat
       /\ Cardinality(D4) = Cardinality(O("missing_endpoint")) + Cardinality(D5)
  BY <1>6, <1>11, Removed
<1> HIDE DEF D5
<1>13. /\ Cardinality(D6) \in Nat /\ Cardinality(O("negative_duration")) \in Nat
       /\ Cardinality(D5) = Cardinality(O("negative_duration")) + Cardinality(D6)
  BY <1>6, <1>12, Removed
<1>14. Cardinality(D6) = 0
  BY <1>7, FS_EmptySet
<1> HIDE DEF D6
<1>15. ASSUME NEW why PROVE Cardinality(O(why)) \in Nat
  BY <1>2, <1>4, FS_Subset, FS_CardinalityType
<1>16. Cardinality(D) = Cardinality(O(Null))
         + (Cardinality(O("unsupported")) + Cardinality(O("missing")) + Cardinality(O("ambiguous"))
             + Cardinality(O("missing_endpoint")) + Cardinality(O("negative_duration")))
  BY <1>8, <1>9, <1>10, <1>11, <1>12, <1>13, <1>14
<1> QED
  BY <1>1, <1>2, <1>15, <1>16 DEF O
(* The durations of a method in their order, and what is said of them.     *)
TimingIs(f, s, ends, m, P, t) ==
  LET n == Cardinality(P)
      deltas == [i \in DOMAIN t.samples |-> t.samples[i].delta] IN
  /\ n \in Nat /\ Len(t.samples) = n /\ DOMAIN t.samples = 1..n
  /\ \A i \in 1..n :
       /\ Place(P, i) \in DOMAIN s.frames /\ Place(P, i) \in P
       /\ t.samples[i].frame = s.frames[Place(P, i)].frame
       /\ t.samples[i].delta = TimeOf(f, ends, m, t.samples[i].frame, 2)
                                 - TimeOf(f, ends, m, t.samples[i].frame, 1)
  /\ \A i, j \in 1..n : i < j => Place(P, i) < Place(P, j)
  /\ t.state = IF n # 0 THEN "measured" ELSE "unavailable"
  /\ t.reason = IF n # 0 THEN Null
                ELSE IF Unavailable(f, s, m) # Null THEN Unavailable(f, s, m)
                ELSE IF s.frames = <<>> THEN "no_frames" ELSE "no_usable_pairs"
  /\ t.eligible = Len(s.frames) /\ t.usable = n /\ t.excluded = Len(s.frames) - n
  /\ \A x \in Exclusions : t.exclusions[x] = Cardinality(Out(f, s, ends, m, x))
  /\ t.min = IF n = 0 THEN Null ELSE Min(Range(deltas))
  /\ t.max = IF n = 0 THEN Null ELSE Max(Range(deltas))
  /\ t.mean = IF n = 0 THEN Null ELSE <<SumOf(deltas), n>>

LEMMA TimingParts ==
  ASSUME NEW f, NEW s \in Stream(f), NEW ends, NEW m
  PROVE  TimingIs(f, s, ends, m, Out(f, s, ends, m, Null), Timing(f, s, ends, m))
<1> DEFINE P == Out(f, s, ends, m, Null)
           n == Cardinality(P)
           why == [i \in DOMAIN s.frames |-> Excluded(f, s, ends, m, s.frames[i])]
           used == Kept(s.frames, {i \in DOMAIN why : why[i] = Null})
           samples == [i \in DOMAIN used |-> [frame |-> used[i].frame,
                                              delta |-> TimeOf(f, ends, m, used[i].frame, 2)
                                                          - TimeOf(f, ends, m, used[i].frame, 1)]]
           deltas == [i \in DOMAIN samples |-> samples[i].delta]
           blocked == Unavailable(f, s, m)
           t == Timing(f, s, ends, m)
<1>1. s.frames \in Seq(Frames) /\ P \in SUBSET DOMAIN s.frames
  BY StreamFields DEF Out
<1>2. \A x : {i \in DOMAIN why : why[i] = x} = Out(f, s, ends, m, x)
  BY DEF Out
<1>3. /\ used \in Seq(Frames) /\ Len(used) = n /\ n \in Nat
      /\ \A i \in 1..n : Place(P, i) \in P /\ used[i] = s.frames[Place(P, i)]
      /\ \A i, j \in 1..n : i < j => Place(P, i) < Place(P, j)
  <2>1. used = Kept(s.frames, P)
    BY <1>2
  <2> HIDE DEF P, used
  <2> QED
    BY <1>1, <2>1, KeptInOrder
<1>4. t = [state |-> IF used # <<>> THEN "measured" ELSE "unavailable",
           reason |-> IF used # <<>> THEN Null
                      ELSE IF blocked # Null THEN blocked
                      ELSE IF s.frames = <<>> THEN "no_frames" ELSE "no_usable_pairs",
           eligible |-> Len(s.frames), usable |-> Len(used), excluded |-> Len(s.frames) - Len(used),
           exclusions |-> [x \in Exclusions |-> Cardinality({i \in DOMAIN why : why[i] = x})],
           samples |-> samples,
           min |-> IF used = <<>> THEN Null ELSE Min(Range(deltas)),
           max |-> IF used = <<>> THEN Null ELSE Max(Range(deltas)),
           mean |-> IF used = <<>> THEN Null ELSE <<SumOf(deltas), Len(deltas)>>]
  BY DEF Timing, TimeOf
<1> HIDE DEF used, P, why
<1>5. DOMAIN used = 1..n /\ (used = <<>> <=> n = 0)
  BY <1>3
<1>6. DOMAIN samples = 1..n
  BY <1>5
<1>7. ASSUME NEW i \in 1..n
      PROVE  /\ samples[i].frame = used[i].frame
             /\ samples[i].delta = TimeOf(f, ends, m, samples[i].frame, 2) - TimeOf(f, ends, m, samples[i].frame, 1)
  BY <1>6
<1>8. Len(samples) = n
  <2>1. n \in Nat
    BY <1>3
  <2> HIDE DEF samples, n
  <2> QED
    BY <1>6, <2>1
<1>9. DOMAIN deltas = 1..n /\ Len(deltas) = n
  <2>1. DOMAIN deltas = 1..n /\ n \in Nat
    BY <1>3, <1>6
  <2> HIDE DEF deltas, n
  <2> QED
    BY <2>1
<1> HIDE DEF samples, n, blocked
<1>10. t.samples = samples
  BY <1>4
<1>11. /\ t.state = IF used # <<>> THEN "measured" ELSE "unavailable"
       /\ t.reason = IF used # <<>> THEN Null
                     ELSE IF blocked # Null THEN blocked
                     ELSE IF s.frames = <<>> THEN "no_frames" ELSE "no_usable_pairs"
       /\ t.eligible = Len(s.frames) /\ t.usable = Len(used) /\ t.excluded = Len(s.frames) - Len(used)
       /\ t.exclusions = [x \in Exclusions |-> Cardinality({i \in DOMAIN why : why[i] = x})]
       /\ t.min = IF used = <<>> THEN Null ELSE Min(Range(deltas))
       /\ t.max = IF used = <<>> THEN Null ELSE Max(Range(deltas))
       /\ t.mean = IF used = <<>> THEN Null ELSE <<SumOf(deltas), Len(deltas)>>
  <2> HIDE DEF deltas
  <2> QED
    BY <1>4
<1> HIDE DEF t
<1>12. \A x \in Exclusions : t.exclusions[x] = Cardinality(Out(f, s, ends, m, x))
  BY <1>2, <1>11
<1>13. [i \in DOMAIN t.samples |-> t.samples[i].delta] = deltas
  BY <1>10
<1> HIDE DEF deltas
<1>14. ASSUME NEW i \in 1..n
       PROVE  /\ Place(P, i) \in DOMAIN s.frames /\ Place(P, i) \in P
              /\ t.samples[i].frame = s.frames[Place(P, i)].frame
              /\ t.samples[i].delta = TimeOf(f, ends, m, t.samples[i].frame, 2)
                                        - TimeOf(f, ends, m, t.samples[i].frame, 1)
  BY <1>1, <1>3, <1>7, <1>10
<1>15. /\ t.state = IF n # 0 THEN "measured" ELSE "unavailable"
       /\ t.reason = IF n # 0 THEN Null
                     ELSE IF blocked # Null THEN blocked
                     ELSE IF s.frames = <<>> THEN "no_frames" ELSE "no_usable_pairs"
       /\ t.eligible = Len(s.frames) /\ t.usable = n /\ t.excluded = Len(s.frames) - n
       /\ t.min = IF n = 0 THEN Null ELSE Min(Range(deltas))
       /\ t.max = IF n = 0 THEN Null ELSE Max(Range(deltas))
       /\ t.mean = IF n = 0 THEN Null ELSE <<SumOf(deltas), n>>
  BY <1>3, <1>5, <1>9, <1>11, Zenon
<1>16. n \in Nat /\ Len(t.samples) = n /\ DOMAIN t.samples = 1..n
  BY <1>3, <1>6, <1>8, <1>10
<1>17. \A i, j \in 1..n : i < j => Place(P, i) < Place(P, j)
  BY <1>3
<1> QED
  BY <1>12, <1>13, <1>14, <1>15, <1>16, <1>17, Zenon DEF TimingIs, n, P, t, deltas, blocked
LEMMA EvenlyRises ==
  ASSUME NEW frames \in Seq(Frames), NEW e \in Nat \ {0}, Evenly(frames, e),
         NEW i \in DOMAIN frames
  PROVE  /\ frames[i].frame \in Nat /\ \A j \in DOMAIN frames : i < j => frames[i].frame < frames[j].frame
         /\ (frames[i].frame - 1) % e = 0 /\ (frames[i].frame - 1) \div e = i - 1
<1>1. i \in Nat \ {0} /\ i - 1 \in Nat
  OBVIOUS
<1> DEFINE p == (i - 1) * e
<1>2. p \in Nat /\ frames[i].frame = 1 + p
  <2>1. p \in Nat
    BY <1>1
  <2> QED
    BY <2>1 DEF Evenly
<1>3. p % e = 0 /\ p \div e = i - 1
  <2>1. p = (i - 1) * e + 0
    BY <1>2
  <2>2. p \in Nat /\ 0 \in 0..e - 1
    BY <1>2
  <2> HIDE DEF p
  <2> QED
    BY <1>1, <2>1, <2>2, DivisionUnique
<1>4. ASSUME NEW j \in DOMAIN frames, i < j PROVE frames[i].frame < frames[j].frame
  <2> DEFINE q == (j - 1) * e
  <2>1. j \in Nat /\ j - 1 \in Int /\ i - 1 < j - 1
    BY <1>1, <1>4
  <2>2. q \in Int /\ frames[j].frame = 1 + q
    BY <2>1 DEF Evenly
  <2>3. p + e <= q
    BY <1>1, <2>1, Multiples
  <2> HIDE DEF p, q
  <2> QED
    BY <1>2, <2>2, <2>3
<1> HIDE DEF p
<1>5. (frames[i].frame - 1) = p
  BY <1>2
<1> QED
  BY <1>2, <1>3, <1>4, <1>5

LEMMA TimingValid ==
  ASSUME NEW f \in Formats, NEW s \in Stream(f), ValidStream(f, s), NEW m \in DOMAIN Pairs(f)
  PROVE  LET t == Timing(f, s, Ends(s.events), m) IN
         /\ ValidTiming(t) /\ t.eligible = s.sampled
         /\ \A x \in Range(t.samples) :
              (x.frame - 1) % s.every = 0 /\ (x.frame - 1) \div s.every < s.sampled
         /\ Len(t.samples) \in Nat /\ DOMAIN t.samples = 1..Len(t.samples)
         /\ StrictlyIncreasing(Ids(t.samples))
<1> DEFINE ends == Ends(s.events)
           t == Timing(f, s, ends, m)
           P == Out(f, s, ends, m, Null)
           n == Cardinality(P)
           deltas == [i \in DOMAIN t.samples |-> t.samples[i].delta]
<1> HIDE DEF ends, t
<1>0. TimingIs(f, s, ends, m, P, t)
  BY TimingParts, Zenon DEF t
<1> HIDE DEF P
<1>1. /\ n \in Nat /\ Len(t.samples) = n /\ DOMAIN t.samples = 1..n
      /\ \A i \in 1..n :
           /\ Place(P, i) \in DOMAIN s.frames /\ Place(P, i) \in P
           /\ t.samples[i].frame = s.frames[Place(P, i)].frame
           /\ t.samples[i].delta = TimeOf(f, ends, m, t.samples[i].frame, 2)
                                     - TimeOf(f, ends, m, t.samples[i].frame, 1)
      /\ \A i, j \in 1..n : i < j => Place(P, i) < Place(P, j)
  BY <1>0, Zenon DEF TimingIs
<1>2. /\ t.state = IF n # 0 THEN "measured" ELSE "unavailable"
      /\ t.reason = IF n # 0 THEN Null
                    ELSE IF Unavailable(f, s, m) # Null THEN Unavailable(f, s, m)
                    ELSE IF s.frames = <<>> THEN "no_frames" ELSE "no_usable_pairs"
      /\ t.eligible = Len(s.frames) /\ t.usable = n /\ t.excluded = Len(s.frames) - n
      /\ \A x \in Exclusions : t.exclusions[x] = Cardinality(Out(f, s, ends, m, x))
      /\ t.min = IF n = 0 THEN Null ELSE Min(Range(deltas))
      /\ t.max = IF n = 0 THEN Null ELSE Max(Range(deltas))
      /\ t.mean = IF n = 0 THEN Null ELSE <<SumOf(deltas), n>>
  BY <1>0, Zenon DEF TimingIs
<1> HIDE DEF n
<1>3. /\ s.every \in Nat \ {0} /\ s.frames \in Seq(Frames) /\ s.events \in Seq(Events(f))
      /\ Evenly(s.frames, s.every) /\ s.sampled = Len(s.frames)
  BY StreamFields DEF ValidStream, WithinCapacity, PrefixSampled, Evenly
<1>4. StrictlyIncreasing(Ids(t.samples))
  <2> DEFINE ids == Ids(t.samples)
  <2>1. DOMAIN ids = 1..n /\ \A i \in 1..n : ids[i] = s.frames[Place(P, i)].frame
    BY <1>1 DEF Ids
  <2>2. Len(ids) = n
    <3> HIDE DEF ids
    <3> QED
      BY <1>1, <2>1
  <2> HIDE DEF ids
  <2>3. ASSUME NEW i \in 1..Len(ids) - 1 PROVE ids[i] < ids[i + 1]
    <3>1. i \in 1..n /\ i + 1 \in 1..n /\ i < i + 1
      BY <1>1, <2>2
    <3>2. PICK p \in DOMAIN s.frames, q \in DOMAIN s.frames :
            p = Place(P, i) /\ q = Place(P, i + 1) /\ p < q
      BY <1>1, <3>1
    <3>3. s.frames[p].frame < s.frames[q].frame
      BY <1>3, <3>2, EvenlyRises
    <3> QED
      BY <2>1, <3>1, <3>2, <3>3
  <2> QED
    BY <2>3 DEF StrictlyIncreasing, ids
<1>5. ASSUME NEW i \in 1..n PROVE t.samples[i].delta \in Int /\ t.samples[i].delta >= 0
  <2>1. PICK p \in DOMAIN s.frames : p = Place(P, i) /\ p \in P
    BY <1>1
  <2> DEFINE x == s.frames[p].frame
             u == TimeOf(f, ends, m, x, 1)
             v == TimeOf(f, ends, m, x, 2)
  <2>2. t.samples[i].delta = v - u
    BY <1>1, <2>1
  <2>3. s.frames[p] \in Frames /\ Excluded(f, s, ends, m, s.frames[p]) = Null
    <3>1. s.frames[p] \in Frames
      BY <1>3
    <3>2. Excluded(f, s, ends, m, s.frames[p]) = Null
      BY <2>1, Zenon DEF P, Out
    <3> QED
      BY <3>1, <3>2
  <2>4. /\ TimesOf(ends, x, Pairs(f)[m][1]) # {} /\ TimesOf(ends, x, Pairs(f)[m][2]) # {}
        /\ \A a \in TimesOf(ends, x, Pairs(f)[m][1]), b \in TimesOf(ends, x, Pairs(f)[m][2]) : ~(b < a)
    BY <2>3, NothingExcludes
  <2>5. u \in TimesOf(ends, x, Pairs(f)[m][1]) /\ v \in TimesOf(ends, x, Pairs(f)[m][2])
    BY <2>4 DEF TimeOf
  <2>6. ASSUME NEW b, NEW c \in TimesOf(ends, x, b) PROVE c \in Nat
    <3>1. PICK e \in Range(s.events) : c = e.at
      <4>1. PICK r \in ends : c = r[3]
        BY DEF TimesOf
      <4>2. PICK e \in Range(s.events) : r = <<e.frame, e.boundary, e.at>>
        BY DEF ends, Ends
      <4> QED
        BY <4>1, <4>2
    <3>2. e \in Events(f)
      BY <1>3 DEF Range
    <3> QED
      BY <3>1, <3>2 DEF Events
  <2> HIDE DEF u, v, x
  <2>7. u \in Nat /\ v \in Nat /\ ~(v < u)
    BY <2>4, <2>5, <2>6
  <2> QED
    BY <2>2, <2>7
<1>6. ASSUME NEW x \in Range(t.samples)
      PROVE  (x.frame - 1) % s.every = 0 /\ (x.frame - 1) \div s.every < s.sampled
  <2>1. PICK i \in 1..n : x = t.samples[i]
    BY <1>1 DEF Range
  <2>2. PICK p \in DOMAIN s.frames : x.frame = s.frames[p].frame
    BY <1>1, <2>1
  <2>3. (x.frame - 1) % s.every = 0 /\ (x.frame - 1) \div s.every = p - 1
    BY <1>3, <2>2, EvenlyRises
  <2>4. p - 1 < Len(s.frames)
    BY <1>3
  <2> QED
    BY <1>3, <2>3, <2>4
<1>7. LET y == t.exclusions IN
      y["unsupported"] + y["missing"] + y["ambiguous"] + y["missing_endpoint"] + y["negative_duration"] = t.excluded
  <2> DEFINE c(why) == Cardinality(Out(f, s, ends, m, why))
             total == c("unsupported") + c("missing") + c("ambiguous") + c("missing_endpoint") + c("negative_duration")
  <2>1. /\ Len(s.frames) \in Nat /\ Len(s.frames) = n + total
        /\ c("unsupported") \in Nat /\ c("missing") \in Nat /\ c("ambiguous") \in Nat
        /\ c("missing_endpoint") \in Nat /\ c("negative_duration") \in Nat
    BY ReasonsCounted DEF n, P
  <2>2. /\ t.exclusions["unsupported"] = c("unsupported") /\ t.exclusions["missing"] = c("missing")
        /\ t.exclusions["ambiguous"] = c("ambiguous") /\ t.exclusions["missing_endpoint"] = c("missing_endpoint")
        /\ t.exclusions["negative_duration"] = c("negative_duration")
    <3> HIDE DEF c
    <3>1. \A x \in Exclusions : t.exclusions[x] = c(x)
      BY <1>2 DEF c
    <3> QED
      BY <3>1 DEF Exclusions
  <2> HIDE DEF c
  <2>3. total = t.excluded
    <3>1. PICK a \in Nat, b \in Nat, e \in Nat, g \in Nat, h \in Nat :
            /\ a = c("unsupported") /\ b = c("missing") /\ e = c("ambiguous")
            /\ g = c("missing_endpoint") /\ h = c("negative_duration")
      BY <2>1, Zenon
    <3>2. total = a + b + e + g + h
      BY <3>1, Zenon
    <3>3. a + b + e + g + h \in Nat
      OBVIOUS
    <3> HIDE DEF total
    <3> QED
      BY <1>1, <1>2, <2>1, <3>2, <3>3
  <2> QED
    BY <2>2, <2>3
<1>8. t.samples = <<>> <=> n = 0
  BY <1>1
<1>9. t.eligible = t.usable + t.excluded /\ t.usable = Len(t.samples)
  <2>1. Len(s.frames) \in Nat
    BY <1>3
  <2> QED
    BY <1>1, <1>2, <2>1
<1>10. n = 0 => t.reason # Null
  <2>1. Null \notin {"unsupported_source", "capability_unavailable", "no_frames", "no_usable_pairs", "budget_not_declared"}
    BY NullAssumption
  <2> QED
    BY <1>2, <2>1
<1>11. \A i \in DOMAIN t.samples : t.samples[i].delta >= 0
  BY <1>1, <1>5
<1>12. ValidTiming(t)
  <2> HIDE DEF deltas
  <2>1. n = 0 => t.state = "unavailable" /\ t.reason # Null /\ {t.min, t.mean, t.max} = {Null}
    BY <1>2, <1>10
  <2>2. n # 0 => /\ t.state = "measured" /\ t.reason = Null
                 /\ t.min = Min(Range(deltas)) /\ t.max = Max(Range(deltas))
                 /\ t.mean = <<SumOf(deltas), t.usable>>
    BY <1>2
  <2> QED
    BY <1>4, <1>7, <1>8, <1>9, <1>11, <2>1, <2>2, Zenon DEF ValidTiming, deltas
<1> QED
  BY <1>1, <1>2, <1>3, <1>4, <1>6, <1>12 DEF t, ends

LEMMA DeadlineValid ==
  ASSUME NEW s, NEW age, NEW n \in Nat, DOMAIN age.samples = 1..n, StrictlyIncreasing(Ids(age.samples))
  PROVE  /\ ValidDeadline(DeadlineOf(s, age)) /\ DeadlineFollowsAge(DeadlineOf(s, age), age)
         /\ DeadlineOf(s, age).budget = s.budget
<1> DEFINE slack == [i \in DOMAIN age.samples |->
                       [frame |-> age.samples[i].frame, slack |-> s.budget - age.samples[i].delta,
                        hit |-> Hit(age.samples[i].delta, s.budget)]]
           samples == IF s.budget = Null THEN <<>> ELSE slack
           d == DeadlineOf(s, age)
<1>1. d = [state |-> IF samples # <<>> THEN "measured" ELSE "unavailable",
           reason |-> IF samples # <<>> THEN Null
                      ELSE IF s.budget = Null THEN "budget_not_declared" ELSE "no_usable_pairs",
           budget |-> s.budget, samples |-> samples, usable |-> Len(samples),
           hits |-> Cardinality({i \in DOMAIN samples : samples[i].hit})]
  BY DEF DeadlineOf
<1> HIDE DEF samples
<1>2. /\ d.state = IF samples # <<>> THEN "measured" ELSE "unavailable"
      /\ d.reason = IF samples # <<>> THEN Null
                    ELSE IF s.budget = Null THEN "budget_not_declared" ELSE "no_usable_pairs"
      /\ d.budget = s.budget /\ d.samples = samples /\ d.usable = Len(samples)
      /\ d.hits = Cardinality({i \in DOMAIN samples : samples[i].hit})
  BY <1>1
<1> HIDE DEF d
<1>3. s.budget # Null => samples = slack
  BY DEF samples
<1>4. s.budget = Null => samples = <<>>
  BY DEF samples
<1>5. DOMAIN slack = 1..n
  OBVIOUS
<1>6. /\ Ids(slack) = Ids(age.samples)
      /\ \A i \in DOMAIN age.samples : /\ slack[i].slack = s.budget - age.samples[i].delta
                                       /\ slack[i].hit = (age.samples[i].delta <= s.budget)
  <2>1. \A i \in DOMAIN age.samples : slack[i].frame = age.samples[i].frame
    OBVIOUS
  <2>2. DOMAIN slack = DOMAIN age.samples
    OBVIOUS
  <2>3. \A i \in DOMAIN age.samples : slack[i].slack = s.budget - age.samples[i].delta
    OBVIOUS
  <2>4. \A i \in DOMAIN age.samples : slack[i].hit = (age.samples[i].delta <= s.budget)
    BY Zenon DEF Hit
  <2> HIDE DEF slack
  <2>5. Ids(slack) = Ids(age.samples)
    BY <2>1, <2>2 DEF Ids
  <2> QED
    BY <2>3, <2>4, <2>5, Zenon
<1> HIDE DEF slack
<1>7. StrictlyIncreasing(Ids(samples))
  <2>1. CASE s.budget = Null
    <3>1. Ids(<<>>) = <<>>
      BY DEF Ids
    <3>2. StrictlyIncreasing(<<>>)
      BY DEF StrictlyIncreasing
    <3> QED
      BY <1>4, <2>1, <3>1, <3>2
  <2>2. CASE s.budget # Null
    BY <1>3, <1>6, <2>2
  <2> QED
    BY <2>1, <2>2
<1>8. ValidDeadline(d)
  <2>1. d.hits = Cardinality({i \in DOMAIN d.samples : d.samples[i].hit})
    BY <1>2
  <2> QED
    BY <1>2, <1>4, <1>7, <2>1, Zenon DEF ValidDeadline
<1>9. DeadlineFollowsAge(d, age)
  <2> SUFFICES ASSUME s.budget # Null PROVE DeadlineFollowsAge(d, age)
    BY <1>2 DEF DeadlineFollowsAge
  <2>1. d.samples = slack /\ d.budget = s.budget
    BY <1>2, <1>3
  <2>2. DOMAIN slack = DOMAIN age.samples
    BY <1>5
  <2> QED
    BY <1>6, <2>1, <2>2, Zenon DEF DeadlineFollowsAge
<1> QED
  BY <1>2, <1>8, <1>9 DEF d
LEMMA PairsAre ==
  ASSUME NEW f \in Formats
  PROVE  Len(Pairs(f)) \in Nat /\ DOMAIN Pairs(f) = 1..Len(Pairs(f)) /\ 3 \in DOMAIN Pairs(f)
<1>1. CASE f = "browser_v2"
  BY <1>1 DEF Pairs
<1>2. CASE f # "browser_v2"
  BY <1>2 DEF Pairs
<1> QED
  BY <1>1, <1>2

SameScope(s, y) ==
  /\ y.stream = s.stream /\ y.epoch = s.epoch /\ y.clock = s.clock /\ y.source = s.source
  /\ y.capabilities = s.capabilities /\ y.every = s.every /\ y.offered = s.offered /\ y.sampled = s.sampled
  /\ y.unsampled = s.unsampled /\ y.frameDropped = s.frameDropped /\ y.attempted = s.attempted
  /\ y.retained = s.retained /\ y.lost = s.lost /\ y.missed = s.missed

LEMMA SummaryKeeps ==
  ASSUME NEW k \in DOMAIN streams
  PROVE  LET y == Reconstruct(Record).streams[k]  s == streams[k] IN
         /\ SameScope(s, y)
         /\ y.results = [m \in DOMAIN Pairs(format) |-> Timing(format, s, Ends(s.events), m)]
         /\ y.deadline = DeadlineOf(s, y.results[3])
<1> DEFINE s == streams[k]
           results == [i \in DOMAIN Pairs(format) |-> Timing(format, s, Ends(s.events), i)]
           y == [x \in ScopeFields \cup {"results", "deadline"} |->
                   CASE x = "results" -> results
                     [] x = "deadline" -> DeadlineOf(s, results[3])
                     [] OTHER -> s[x]]
<1>1. Reconstruct(Record).streams[k] = y
  BY DEF Reconstruct, Record, Endpoints, Ends
<1>2. y.results = results /\ y.deadline = DeadlineOf(s, results[3])
  <2> HIDE DEF results, s
  <2> QED
    OBVIOUS
<1>3. SameScope(s, y)
  <2> HIDE DEF results, s
  <2>1. \A x \in ScopeFields : y[x] = s[x]
    BY DEF ScopeFields
  <2> HIDE DEF y
  <2> QED
    BY <2>1 DEF ScopeFields, SameScope
<1> HIDE DEF y
<1> QED
  BY <1>1, <1>2, <1>3, Zenon

(* Coverage and reasons of a method follow from what excludes its frames.  *)
LEMMA MethodFollows ==
  ASSUME NEW f \in Formats, NEW s \in Stream(f), NEW m \in DOMAIN Pairs(f),
         f # "engine" => \A j \in DOMAIN s.frames : s.frames[j].correlation = "exact",
         NEW y, y.capabilities = s.capabilities, y.results[m] = Timing(f, s, Ends(s.events), m)
  PROVE  /\ MethodExplained(f, y, m) /\ Unavailable(f, y, m) = Unavailable(f, s, m)
         /\ Unavailable(f, s, m) = Null =>
              \A c \in {"missing", "ambiguous"} :
                y.results[m].exclusions[c] = Cardinality({i \in DOMAIN s.frames : s.frames[i].correlation = c})
<1> DEFINE ends == Ends(s.events)
           t == Timing(f, s, ends, m)
           P == Out(f, s, ends, m, Null)
           n == Cardinality(P)
           blocked == Unavailable(f, s, m)
           D == DOMAIN s.frames
<1> HIDE DEF ends, t
<1>0. TimingIs(f, s, ends, m, P, t)
  BY TimingParts, Zenon DEF t
<1>1. Unavailable(f, y, m) = blocked
  BY DEF Unavailable, Supported
<1>2. y.results[m] = t
  BY DEF t, ends
<1>3. s.frames \in Seq(Frames) /\ Len(s.frames) \in Nat /\ D = 1..Len(s.frames)
  BY StreamFields
<1>4. \A i \in D : s.frames[i] \in Frames
  BY <1>3
<1>5. /\ \A i \in D : Excluded(f, s, ends, m, s.frames[i]) = "unsupported" <=> blocked # Null
      /\ blocked = Null =>
           \A i \in D : /\ Excluded(f, s, ends, m, s.frames[i]) = "missing" <=> s.frames[i].correlation = "missing"
                        /\ Excluded(f, s, ends, m, s.frames[i]) = "ambiguous"
                             <=> s.frames[i].correlation = "ambiguous"
  BY <1>4, OneReason
<1> HIDE DEF P
<1>6. /\ n \in Nat /\ t.eligible = Len(s.frames) /\ t.usable = n
      /\ t.reason = IF n # 0 THEN Null
                    ELSE IF blocked # Null THEN blocked
                    ELSE IF s.frames = <<>> THEN "no_frames" ELSE "no_usable_pairs"
      /\ \A x \in Exclusions : t.exclusions[x] = Cardinality(Out(f, s, ends, m, x))
  BY <1>0, Zenon DEF TimingIs
<1>7. Cardinality({}) = 0 /\ Cardinality(D) = Len(s.frames)
  <2>1. Cardinality(1..Len(s.frames)) = Len(s.frames)
    <3> DEFINE l == Len(s.frames)
    <3>1. l \in Nat
      BY <1>3
    <3> HIDE DEF l
    <3>2. Cardinality(1..l) = l
      BY <3>1, FS_Interval
    <3> QED
      BY <3>2 DEF l
  <2> QED
    BY <1>3, <2>1, FS_EmptySet
<1>8. Null # "unsupported" /\ {"unsupported", "missing", "ambiguous"} \subseteq Exclusions
  BY NullAssumption DEF Exclusions
<1>9. ASSUME blocked = Null, NEW c \in {"missing", "ambiguous"}
      PROVE  t.exclusions[c] = Cardinality({i \in D : s.frames[i].correlation = c})
  <2>1. Out(f, s, ends, m, c) = {i \in D : s.frames[i].correlation = c}
    BY <1>5, <1>9 DEF Out
  <2> QED
    BY <1>6, <1>8, <2>1
<1>10. CASE blocked # Null
  <2>1. P = {} /\ Out(f, s, ends, m, "unsupported") = D
    BY <1>5, <1>8, <1>10 DEF P, Out
  <2>2. n = 0 /\ t.exclusions["unsupported"] = Len(s.frames)
    BY <1>6, <1>7, <1>8, <2>1
  <2>3. t.reason = blocked /\ t.usable = 0 /\ t.exclusions["unsupported"] = t.eligible
    BY <1>6, <1>10, <2>2
  <2> HIDE DEF blocked
  <2> QED
    BY <1>1, <1>2, <1>10, <2>3 DEF MethodExplained, blocked
<1>11. CASE blocked = Null
  <2>1. Out(f, s, ends, m, "unsupported") = {}
    BY <1>5, <1>11 DEF Out
  <2>2. t.exclusions["unsupported"] = 0
    BY <1>6, <1>7, <1>8, <2>1
  <2>3. t.reason = IF t.usable > 0 THEN Null ELSE IF t.eligible = 0 THEN "no_frames" ELSE "no_usable_pairs"
    <3>1. s.frames = <<>> <=> Len(s.frames) = 0
      BY <1>3
    <3>2. n > 0 <=> n # 0
      BY <1>6
    <3> QED
      BY <1>6, <1>11, <3>1, <3>2
  <2>4. f # "engine" => t.exclusions["missing"] = 0 /\ t.exclusions["ambiguous"] = 0
    <3> SUFFICES ASSUME f # "engine", NEW c \in {"missing", "ambiguous"} PROVE t.exclusions[c] = 0
      OBVIOUS
    <3>1. {i \in D : s.frames[i].correlation = c} = {}
      OBVIOUS
    <3> QED
      BY <1>7, <1>9, <1>11, <3>1
  <2> HIDE DEF blocked
  <2>5. MethodExplained(f, y, m)
    BY <1>1, <1>2, <1>11, <2>2, <2>3, <2>4, Zenon DEF MethodExplained
  <2>6. \A c \in {"missing", "ambiguous"} :
          y.results[m].exclusions[c] = Cardinality({i \in DOMAIN s.frames : s.frames[i].correlation = c})
    BY <1>2, <1>9, <1>11
  <2> QED
    BY <1>1, <2>5, <2>6 DEF blocked
<1> QED
  BY <1>10, <1>11

LEMMA StreamSummaryValid ==
  ASSUME IInv, Accepted, NEW k \in DOMAIN streams
  PROVE  LET y == verdict.summary.streams[k] IN
         /\ SameScope(streams[k], y) /\ y.sampled = Len(streams[k].frames) /\ y.retained = Len(streams[k].events)
         /\ ValidSummaryStream(format, y) /\ SupportMatches(format, y)
         /\ format # "engine" => y.deadline.budget = Null
         /\ \A m \in DOMAIN y.results : MethodExplained(format, y, m)
         /\ format = "engine" =>
              Cardinality({<<y.results[m].exclusions["missing"], y.results[m].exclusions["ambiguous"]>> :
                            m \in {m \in 1..3 : Unavailable("engine", y, m) = Null}}) <= 1
<1> DEFINE s == streams[k]
           y == verdict.summary.streams[k]
<1>1. /\ format \in Formats /\ s \in Stream(format) /\ ValidStream(format, s) /\ ValidRecord(Record)
      /\ verdict.summary = Reconstruct(Record)
  BY AcceptedHonest DEF IInv, TypeOK
<1>2. /\ SupportMatches(format, s)
      /\ format # "engine" => s.budget = Null /\ \A j \in DOMAIN s.frames : s.frames[j].correlation = "exact"
  <2>1. Record.format = format /\ Record.streams = streams
    BY DEF Record
  <2> QED
    BY <1>1, <2>1 DEF ValidRecord
<1>3. /\ SameScope(s, y)
      /\ y.results = [m \in DOMAIN Pairs(format) |-> Timing(format, s, Ends(s.events), m)]
      /\ y.deadline = DeadlineOf(s, y.results[3])
  BY <1>1, SummaryKeeps
<1>4. /\ Len(Pairs(format)) \in Nat /\ DOMAIN Pairs(format) = 1..Len(Pairs(format)) /\ 3 \in DOMAIN Pairs(format)
  BY <1>1, PairsAre
<1> HIDE DEF s, y
<1>5. DOMAIN y.results = DOMAIN Pairs(format) /\ Len(y.results) = Len(Pairs(format))
  BY <1>3, <1>4
<1>6. ASSUME NEW m \in DOMAIN Pairs(format)
      PROVE  /\ y.results[m] = Timing(format, s, Ends(s.events), m)
             /\ ValidTiming(y.results[m]) /\ y.results[m].eligible = s.sampled
             /\ \A x \in Range(y.results[m].samples) :
                  (x.frame - 1) % s.every = 0 /\ (x.frame - 1) \div s.every < s.sampled
             /\ Len(y.results[m].samples) \in Nat
             /\ DOMAIN y.results[m].samples = 1..Len(y.results[m].samples)
             /\ StrictlyIncreasing(Ids(y.results[m].samples))
  <2>1. y.results[m] = Timing(format, s, Ends(s.events), m)
    BY <1>3
  <2> QED
    BY <1>1, <2>1, TimingValid
<1>7. /\ ValidDeadline(y.deadline) /\ DeadlineFollowsAge(y.deadline, y.results[3])
      /\ y.deadline.budget = s.budget
  <2> DEFINE age == y.results[3]
             n == Len(age.samples)
  <2>1. n \in Nat /\ DOMAIN age.samples = 1..n /\ StrictlyIncreasing(Ids(age.samples))
    BY <1>4, <1>6
  <2>2. y.deadline = DeadlineOf(s, age)
    BY <1>3
  <2> HIDE DEF age, n
  <2>3. /\ ValidDeadline(y.deadline) /\ DeadlineFollowsAge(y.deadline, age) /\ y.deadline.budget = s.budget
    BY <2>1, <2>2, DeadlineValid
  <2> QED
    BY <2>3 DEF age
<1>8. ScopeDeclared(format, y)
  BY <1>1, <1>3 DEF ValidStream, ScopeDeclared, CountsConserved, EligibleCounted, SameScope
<1>9. y.every = s.every /\ y.sampled = s.sampled /\ y.capabilities = s.capabilities
  BY <1>3 DEF SameScope
<1>10. ValidSummaryStream(format, y)
  BY <1>5, <1>6, <1>7, <1>8, <1>9, Zenon DEF ValidSummaryStream
<1>11. SupportMatches(format, y)
  BY <1>2, <1>3 DEF SupportMatches, SameScope
<1>12. ASSUME NEW m \in DOMAIN Pairs(format)
       PROVE  /\ MethodExplained(format, y, m) /\ Unavailable(format, y, m) = Unavailable(format, s, m)
              /\ Unavailable(format, s, m) = Null =>
                   \A c \in {"missing", "ambiguous"} :
                     y.results[m].exclusions[c] = Cardinality({i \in DOMAIN s.frames : s.frames[i].correlation = c})
  BY <1>1, <1>2, <1>6, <1>9, MethodFollows
<1>13. ASSUME format = "engine"
       PROVE  Cardinality({<<y.results[m].exclusions["missing"], y.results[m].exclusions["ambiguous"]>> :
                             m \in {m \in 1..3 : Unavailable("engine", y, m) = Null}}) <= 1
  <2> DEFINE a == Cardinality({i \in DOMAIN s.frames : s.frames[i].correlation = "missing"})
             b == Cardinality({i \in DOMAIN s.frames : s.frames[i].correlation = "ambiguous"})
             T == {<<y.results[m].exclusions["missing"], y.results[m].exclusions["ambiguous"]>> :
                     m \in {m \in 1..3 : Unavailable("engine", y, m) = Null}}
  <2>1. \A m \in 1..3 : Unavailable("engine", y, m) = Null =>
          y.results[m].exclusions["missing"] = a /\ y.results[m].exclusions["ambiguous"] = b
    <3>1. 1..3 \subseteq DOMAIN Pairs(format)
      BY <1>4
    <3> HIDE DEF a, b
    <3>2. ASSUME NEW m \in 1..3, Unavailable("engine", y, m) = Null
          PROVE  y.results[m].exclusions["missing"] = a /\ y.results[m].exclusions["ambiguous"] = b
      <4>1. m \in DOMAIN Pairs(format) /\ Unavailable(format, s, m) = Null
        BY <1>12, <1>13, <3>1, <3>2
      <4>2. \A c \in {"missing", "ambiguous"} :
              y.results[m].exclusions[c] = Cardinality({i \in DOMAIN s.frames : s.frames[i].correlation = c})
        BY <1>12, <4>1
      <4> QED
        BY <4>2 DEF a, b
    <3> QED
      BY <3>2
  <2> HIDE DEF a, b
  <2>2. T = {} \/ T = {<<a, b>>}
    <3>1. \A p \in T : p = <<a, b>>
      BY <2>1
    <3> HIDE DEF T
    <3> QED
      BY <3>1
  <2> HIDE DEF T
  <2>3. Cardinality(T) <= 1
    <3>1. Cardinality({}) = 0 /\ Cardinality({<<a, b>>}) = 1
      BY FS_EmptySet, FS_Singleton, Zenon
    <3>2. Cardinality(T) = 0 \/ Cardinality(T) = 1
      BY <2>2, <3>1, Zenon
    <3> QED
      BY <3>2
  <2> QED
    BY <2>3 DEF T
<1>14. y.sampled = Len(s.frames) /\ y.retained = Len(s.events)
  BY <1>1, <1>3 DEF ValidStream, WithinCapacity, SameScope
<1>15. format # "engine" => y.deadline.budget = Null
  BY <1>2, <1>7
<1>16. \A m \in DOMAIN y.results : MethodExplained(format, y, m)
  BY <1>5, <1>12
<1> QED
  BY <1>3, <1>10, <1>11, <1>13, <1>14, <1>15, <1>16 DEF s, y

LEMMA SummaryIsValid == ASSUME IInv, Accepted PROVE ValidSummary(verdict.summary)
<1> DEFINE y == verdict.summary
<1>1. /\ streams \in Seq(Stream(format)) /\ ValidRecord(Record) /\ y = Reconstruct(Record)
  BY AcceptedHonest
<1>2. Record.format = format /\ Record.streams = streams
  BY DEF Record
<1>3. /\ Len(streams) \in 1..MaxStreams /\ ScopesDistinct(streams)
      /\ FramesIn(streams) <= MaxFrames /\ EventsIn(streams) <= MaxEvents
  BY <1>1, <1>2 DEF ValidRecord
<1>4. y.format = format /\ DOMAIN y.streams = DOMAIN streams
  BY <1>1, <1>2 DEF Reconstruct
<1>5. Len(y.streams) = Len(streams)
  <2>1. DOMAIN y.streams = 1..Len(streams) /\ Len(streams) \in Nat
    BY <1>1, <1>4
  <2>2. y.streams = [k \in DOMAIN streams |-> y.streams[k]]
    BY <1>1, <1>2 DEF Reconstruct
  <2> HIDE DEF y
  <2> QED
    BY <2>1, <2>2
<1> HIDE DEF y
<1>6. ASSUME NEW k \in DOMAIN streams
      PROVE  /\ SameScope(streams[k], y.streams[k]) /\ y.streams[k].sampled = Len(streams[k].frames)
             /\ y.streams[k].retained = Len(streams[k].events)
             /\ ValidSummaryStream(format, y.streams[k]) /\ SupportMatches(format, y.streams[k])
             /\ format # "engine" => y.streams[k].deadline.budget = Null
             /\ \A m \in DOMAIN y.streams[k].results : MethodExplained(format, y.streams[k], m)
             /\ format = "engine" =>
                  Cardinality({<<y.streams[k].results[m].exclusions["missing"],
                                 y.streams[k].results[m].exclusions["ambiguous"]>> :
                                m \in {m \in 1..3 : Unavailable("engine", y.streams[k], m) = Null}}) <= 1
  BY StreamSummaryValid DEF y
<1>7. /\ [k \in DOMAIN y.streams |-> y.streams[k].sampled] = [k \in DOMAIN streams |-> Len(streams[k].frames)]
      /\ [k \in DOMAIN y.streams |-> y.streams[k].retained] = [k \in DOMAIN streams |-> Len(streams[k].events)]
      /\ [k \in DOMAIN y.streams |-> y.streams[k].stream] = [k \in DOMAIN streams |-> streams[k].stream]
      /\ [k \in DOMAIN y.streams |-> y.streams[k].epoch] = [k \in DOMAIN streams |-> streams[k].epoch]
      /\ [k \in DOMAIN y.streams |-> y.streams[k].clock] = [k \in DOMAIN streams |-> streams[k].clock]
  <2>1. ASSUME NEW k \in DOMAIN streams
        PROVE  /\ y.streams[k].sampled = Len(streams[k].frames) /\ y.streams[k].retained = Len(streams[k].events)
               /\ y.streams[k].stream = streams[k].stream /\ y.streams[k].epoch = streams[k].epoch
               /\ y.streams[k].clock = streams[k].clock
    BY <1>6, Zenon DEF SameScope
  <2> QED
    BY <1>4, <2>1
<1>8. ScopesDistinct(y.streams)
  BY <1>3, <1>7 DEF ScopesDistinct
<1>9. /\ SumOf([k \in DOMAIN y.streams |-> y.streams[k].sampled]) <= MaxFrames
      /\ SumOf([k \in DOMAIN y.streams |-> y.streams[k].retained]) <= MaxEvents
  BY <1>3, <1>7 DEF FramesIn, EventsIn
<1>10. ValidSummary(y)
  BY <1>3, <1>4, <1>5, <1>6, <1>8, <1>9, Zenon DEF ValidSummary
<1> QED
  BY <1>10 DEF y

(* Nothing honest is refused: a recorder that did not slip is accepted,    *)
(* whatever it lost for want of room, of a lock or of a clock, and no      *)
(* reconstruction of an accepted record is refused by the validators of    *)
(* the summary. *)
THEOREM HonestIsNotRefused == Spec => []NothingHonestRefused
<1>1. Init => Unspoilt
  BY InitUnspoilt
<1>2. IInv /\ Unspoilt /\ [Next]_vars => Unspoilt'
  BY UnspoiltStays
<1>3. IInv /\ Unspoilt => NothingHonestRefused
  <2> SUFFICES ASSUME IInv, Unspoilt, verdict # Null
               PROVE  /\ slip = Null => verdict.accepted
                      /\ verdict.accepted => ValidSummary(verdict.summary)
    BY DEF NothingHonestRefused
  <2>1. slip = Null => verdict.accepted
    BY HonestIsAccepted DEF IInv, Settled
  <2>2. verdict.accepted => ValidSummary(verdict.summary)
    BY SummaryIsValid DEF Accepted
  <2> QED
    BY <2>1, <2>2
<1> QED
  BY <1>1, <1>2, <1>3, StageInvariant, PTL DEF Spec

-----------------------------------------------------------------------------
(* One experiment, whatever its producer did wrong once.  What runner and  *)
(* sampler have of the phases begun. *)
Actual == [phase : PhaseNames, start : Nat, end : Nat \cup {None}, state : {"partial", "complete"}]
Row == [from : Nat, to : Nat, first : Nat, last : Nat, workers : Nat, cpu : Nat]
Pair == [exact : BOOLEAN, captured : {0}, entered : {0, 50}]
Moment == [workers : Nat, paced : BOOLEAN, rate : {24, 30}, generation : {0, 1}]
RecordsTyped(n) ==
  /\ phases \in Seq(Actual) /\ Len(phases) = n
  /\ rows \in Seq(Seq(Row)) /\ Len(rows) = n
  /\ gaps \in Seq(Reasons \cup {None}) /\ Len(gaps) = n
  /\ pairs \in Seq(Seq(Pair)) /\ Len(pairs) = n
  /\ seconds \in Seq(Seq(Moment)) /\ Len(seconds) = n
ExperimentTyped ==
  /\ manifest \in Manifests
  /\ clock \in Nat /\ shown \in Nat /\ generation \in {0, 1} /\ bound \in {0, 1}
  /\ workers \in Nat /\ paced \in BOOLEAN
  /\ lapse \in Slippages \cup {None}
  /\ N \in 0..6 /\ RecordsTyped(N)
  /\ ended = None => inspection = None

(* A phase without a gap has a row of every second, and every second has a *)
(* pair; a finished one lasted as planned. *)
Recorded(row, gap, pair, secs) ==
  /\ gap = None => Len(row) = Len(secs) /\ \A k \in DOMAIN secs :
       row[k].workers = secs[k].workers /\ row[k].last - row[k].first = secs[k].rate
  /\ Len(pair) = Len(secs)
  /\ \A k \in DOMAIN secs : pair[k].entered = IF secs[k].paced THEN 50 ELSE 0
Timed(p, secs, duration, at) ==
  /\ p.state = "complete" => p.end # None /\ p.end - p.start = duration /\ duration = Second * Len(secs)
  /\ p.end = None => p.state = "partial" /\ at = p.start + Second * Len(secs)
PhaseTrue(i) ==
  /\ phases[i].phase = Phases[i]
  /\ Recorded(rows[i], gaps[i], pairs[i], seconds[i])
  /\ Timed(phases[i], seconds[i], manifest.phases[i].duration, clock)
PhasesTrue ==
  /\ \A i \in 1..N : PhaseTrue(i) /\ (i < N => phases[i].state = "complete")
  /\ ended = None /\ N > 0 /\ ~InPhase => phases[N].state = "complete"

(* A replaced camera starts again below what was last read; the sampler    *)
(* that does not notice reads a torn counter, unless it had read nothing   *)
(* before or reads nothing after. *)
AllOf(secs, g) == \A i \in DOMAIN secs : \A k \in DOMAIN secs[i] : secs[i][k].generation = g
TornAt(rs, i) ==
  \/ \E k \in 2..Len(rs[i]) : rs[i][k].first < rs[i][k - 1].last
  \/ i > 1 /\ rs[i] # <<>> /\ rs[i - 1] # <<>> /\ rs[i][1].first < rs[i - 1][Len(rs[i - 1])].last
Torn(rs) == \E i \in DOMAIN rs : TornAt(rs, i)
Ungapped(gs) == \A i \in DOMAIN gs : gs[i] = None
ReadingTrue ==
  /\ \A i \in DOMAIN rows : \A k \in DOMAIN rows[i] : rows[i][k].last >= 24
  /\ lapse # "reset" =>
       /\ bound = 0
       /\ \A i \in 1..N : gaps[i] = None => \A k \in DOMAIN seconds[i] : seconds[i][k].generation = 0
       /\ generation = 1 /\ InPhase => gaps[N] # None
  /\ lapse = "reset" =>
       /\ bound = 1 /\ generation = 1
       /\ Ungapped(gaps) => \/ AllOf(seconds, 1)
                            \/ AllOf(seconds, 0) /\ shown <= 15
                            \/ Torn(rows)
ExperimentInv == ExperimentTyped /\ PhasesTrue /\ ReadingTrue

LEMMA ManifestsPlanned ==
  ASSUME NEW m \in Manifests
  PROVE  /\ \A i \in 1..6 : m.phases[i].duration \in Nat /\ m.phases[i].duration >= Second
         /\ m.actions # <<>> => m.actions[1].workers \in Nat
<1>1. ValidManifest(m)
  BY ManifestsAssumption
<1>2. \A i \in 1..6 : m.phases[i].duration \in Second..300 * Second
  BY <1>1 DEF ValidManifest, ValidPlan
<1>3. m.actions # <<>> => m.actions[1].workers \in Nat
  BY <1>1 DEF ValidManifest
<1>4. ASSUME NEW i \in 1..6 PROVE m.phases[i].duration \in Nat /\ m.phases[i].duration >= Second
  <2> DEFINE d == m.phases[i].duration
  <2>1. d \in 2..300 * 2
    BY <1>2 DEF Second
  <2> HIDE DEF d
  <2>2. d \in Nat /\ d >= 2
    BY <2>1
  <2> QED
    BY <2>2 DEF d, Second
<1> QED
  BY <1>3, <1>4

LEMMA PhasesInOrder ==
  /\ DOMAIN Phases = 1..6 /\ Len(Phases) = 6
  /\ Phases[1] = "warmup" /\ Phases[2] = "healthy" /\ Phases[3] = "degraded"
  /\ Phases[4] = "probe" /\ Phases[5] = "recovery" /\ Phases[6] = "cooldown"
  /\ PhaseNames = {"warmup", "healthy", "degraded", "probe", "recovery", "cooldown"}
<1>1. /\ DOMAIN Phases = 1..6 /\ Len(Phases) = 6
      /\ Phases[1] = "warmup" /\ Phases[2] = "healthy" /\ Phases[3] = "degraded"
      /\ Phases[4] = "probe" /\ Phases[5] = "recovery" /\ Phases[6] = "cooldown"
  BY DEF Phases
<1>2. 1..6 = {1, 2, 3, 4, 5, 6}
  OBVIOUS
<1>3. PhaseNames = {Phases[i] : i \in {1, 2, 3, 4, 5, 6}}
  BY <1>1, <1>2 DEF PhaseNames, Range
<1> QED
  BY <1>1, <1>3

LEMMA LastOrBefore ==
  ASSUME NEW n \in Nat, NEW i \in 1..n
  PROVE  i \in 1..n - 1 \/ i = n
OBVIOUS

LEMMA BeforeLast ==
  ASSUME NEW n \in Nat, NEW i \in 1..n - 1
  PROVE  i \in 1..n /\ i < n /\ i # n
OBVIOUS

LEMMA LastElement ==
  ASSUME NEW S, NEW s \in Seq(S), NEW n \in Nat, n = Len(s), n > 0
  PROVE  s[n] \in S
OBVIOUS

Changed(s, n, x, t) == t = [s EXCEPT ![n] = x]
LEMMA LastChanged ==
  ASSUME NEW S, NEW s \in Seq(S), NEW n \in Nat, n = Len(s), n > 0, NEW x \in S, NEW t, Changed(s, n, x, t)
  PROVE  /\ t \in Seq(S) /\ Len(t) = n
         /\ t[n] = x
         /\ \A i \in 1..n - 1 : t[i] = s[i]
BY DEF Changed

LEMMA OneAdded ==
  ASSUME NEW S, NEW s \in Seq(S), NEW x \in S, NEW n, n = Len(s)
  PROVE  /\ Append(s, x) \in Seq(S) /\ Len(Append(s, x)) = n + 1 /\ n \in Nat
         /\ Append(s, x)[n + 1] = x
         /\ \A i \in 1..n : Append(s, x)[i] = s[i]
OBVIOUS

(* What is kept of a finished phase is true for good. *)
LEMMA PhaseStays ==
  ASSUME PhasesTrue, NEW i \in 1..N, manifest' = manifest,
         phases[i].state = "complete" \/ phases[i].end # None \/ clock' = clock,
         phases'[i] = phases[i], rows'[i] = rows[i], gaps'[i] = gaps[i], pairs'[i] = pairs[i],
         seconds'[i] = seconds[i]
  PROVE  PhaseTrue(i)'
<1>1. PhaseTrue(i)
  BY DEF PhasesTrue
<1>2. /\ phases'[i].phase = Phases[i]
      /\ Recorded(rows[i], gaps[i], pairs[i], seconds[i])'
  BY <1>1 DEF PhaseTrue, Recorded
<1>3. Timed(phases[i], seconds[i], manifest.phases[i].duration, clock)'
  BY <1>1 DEF PhaseTrue, Timed
<1> QED
  BY <1>2, <1>3 DEF PhaseTrue

LEMMA LastPhaseStands ==
  ASSUME N \in 0..6, PhasesTrue, ended = None, ~InPhase
  PROVE  \A i \in 1..N : PhaseTrue(i) /\ phases[i].state = "complete"
BY DEF PhasesTrue

(* A phase begins. *)
LEMMA PhaseBegins ==
  ASSUME ExperimentTyped, PhasesTrue, ended = None, ~InPhase, N < 6, BeginPhase, manifest' = manifest
  PROVE  N' \in 0..6 /\ RecordsTyped(N)' /\ N' = N + 1 /\ PhasesTrue'
<1>0. PICK n \in 0..5 : n = N /\ n = Len(phases) /\ RecordsTyped(n)
  <2>1. N \in 0..5 /\ RecordsTyped(N)
    BY DEF ExperimentTyped
  <2> QED
    BY <2>1 DEF N
<1> DEFINE p == [phase |-> Phases[n + 1], start |-> clock, end |-> None, state |-> "partial"]
           g == IF generation = bound THEN None ELSE "source_unavailable"
<1>1. p \in Actual /\ g \in Reasons \cup {None}
  <2>1. n + 1 \in 1..6
    OBVIOUS
  <2>2. Phases[n + 1] \in PhaseNames
    BY <2>1, PhasesInOrder DEF PhaseNames, Range
  <2> QED
    BY <2>2 DEF ExperimentTyped, Actual, Reasons
<1>2. <<>> \in Seq(Row) /\ <<>> \in Seq(Pair) /\ <<>> \in Seq(Moment)
  OBVIOUS
<1>3. /\ phases' = Append(phases, p) /\ rows' = Append(rows, <<>>) /\ gaps' = Append(gaps, g)
      /\ pairs' = Append(pairs, <<>>) /\ seconds' = Append(seconds, <<>>) /\ clock' = clock /\ ended' = None
  BY <1>0 DEF BeginPhase
<1> HIDE DEF p, g
<1>4. /\ phases' \in Seq(Actual) /\ Len(phases') = n + 1 /\ phases'[n + 1] = p
      /\ \A i \in 1..n : phases'[i] = phases[i]
  BY <1>1, <1>3, <1>0, OneAdded DEF RecordsTyped
<1>5. /\ rows' \in Seq(Seq(Row)) /\ Len(rows') = n + 1 /\ rows'[n + 1] = <<>>
      /\ \A i \in 1..n : rows'[i] = rows[i]
  BY <1>1, <1>2, <1>3, <1>0, OneAdded DEF RecordsTyped
<1>6. /\ gaps' \in Seq(Reasons \cup {None}) /\ Len(gaps') = n + 1 /\ gaps'[n + 1] = g
      /\ \A i \in 1..n : gaps'[i] = gaps[i]
  BY <1>1, <1>3, <1>0, OneAdded DEF RecordsTyped
<1>7. /\ pairs' \in Seq(Seq(Pair)) /\ Len(pairs') = n + 1 /\ pairs'[n + 1] = <<>>
      /\ \A i \in 1..n : pairs'[i] = pairs[i]
  BY <1>1, <1>2, <1>3, <1>0, OneAdded DEF RecordsTyped
<1>8. /\ seconds' \in Seq(Seq(Moment)) /\ Len(seconds') = n + 1 /\ seconds'[n + 1] = <<>>
      /\ \A i \in 1..n : seconds'[i] = seconds[i]
  BY <1>1, <1>2, <1>3, <1>0, OneAdded DEF RecordsTyped
<1>9. RecordsTyped(N)' /\ N' = n + 1
  BY <1>4, <1>5, <1>6, <1>7, <1>8 DEF RecordsTyped, N
<1>10. \A i \in 1..n : PhaseTrue(i)' /\ phases'[i].state = "complete"
  <2>1. \A i \in 1..n : phases[i].state = "complete"
    BY <1>0, LastPhaseStands DEF ExperimentTyped
  <2> QED
    BY <2>1, <1>0, <1>4, <1>5, <1>6, <1>7, <1>8, PhaseStays
<1>11. PhaseTrue(n + 1)' /\ phases'[n + 1].end = None
  <2>1. Recorded(<<>>, gaps'[n + 1], <<>>, <<>>)
    BY DEF Recorded
  <2>2. phases'[n + 1].phase = Phases[n + 1] /\ phases'[n + 1].end = None
        /\ phases'[n + 1].state = "partial" /\ phases'[n + 1].start = clock
    BY <1>4 DEF p
  <2>3. Timed(phases'[n + 1], <<>>, manifest.phases[n + 1].duration, clock')
    BY <1>1, <1>3, <2>2 DEF Timed, Second, ExperimentTyped
  <2> QED
    BY <1>5, <1>7, <1>8, <2>1, <2>2, <2>3 DEF PhaseTrue
<1> QED
  BY <1>0, <1>9, <1>10, <1>11 DEF PhasesTrue, InPhase

(* A second passes. *)
RowRead(rate, busy) ==
  [from |-> clock, to |-> clock + Second, first |-> shown, last |-> shown + rate,
   workers |-> workers, cpu |-> Second * busy]
PairMade(gap) == [exact |-> gap = None, captured |-> 0, entered |-> IF paced THEN 50 ELSE 0]
MomentNow(rate) == [workers |-> workers, paced |-> paced, rate |-> rate, generation |-> generation]

LEMMA OrdinaryRates ==
  ASSUME ExperimentTyped, PhasesTrue, InPhase
  PROVE  Rates \subseteq {24, 30} /\ Busy \subseteq {0, workers} /\ Gaps \subseteq {None, "collection_gap"}
<1>1. PICK n \in Nat : n > 0 /\ n = N /\ RecordsTyped(n)
  BY DEF ExperimentTyped, InPhase
<1>2. clock > phases[N].start => Last(seconds[N]).rate \in {24, 30}
  <2> SUFFICES ASSUME clock > phases[n].start PROVE Last(seconds[n]).rate \in {24, 30}
    BY <1>1
  <2>1. seconds[n] \in Seq(Moment) /\ phases[n] \in Actual
    BY <1>1 DEF RecordsTyped
  <2>2. clock = phases[n].start + Second * Len(seconds[n])
    BY <1>1 DEF InPhase, PhasesTrue, PhaseTrue, Timed
  <2>3. Len(seconds[n]) \in Nat /\ phases[n].start \in Nat
    BY <2>1 DEF Actual
  <2>4. Len(seconds[n]) # 0
    BY <2>2, <2>3 DEF Second
  <2>5. Last(seconds[n]) \in Moment
    BY <2>1, <2>3, <2>4 DEF Last
  <2> QED
    BY <2>5 DEF Moment
<1> QED
  BY <1>2 DEF Rates, Busy, Gaps

LEMMA SecondRecorded ==
  ASSUME ExperimentTyped, NEW n \in Nat, n > 0, n = N,
         NEW rate \in {24, 30}, NEW busy \in {0, workers}, NEW gap \in {None, "collection_gap"},
         Passes(rate, busy, gap)
  PROVE  /\ N' = n /\ RecordsTyped(n)' /\ phases' = phases
         /\ \A i \in 1..n - 1 : /\ rows'[i] = rows[i] /\ gaps'[i] = gaps[i]
                                /\ pairs'[i] = pairs[i] /\ seconds'[i] = seconds[i]
         /\ gaps'[n] = IF gaps[n] = None THEN gap ELSE gaps[n]
         /\ rows'[n] = IF gaps'[n] = None THEN Append(rows[n], RowRead(rate, busy)) ELSE rows[n]
         /\ pairs'[n] = Append(pairs[n], PairMade(gap))
         /\ seconds'[n] = Append(seconds[n], MomentNow(rate))
<1>1. RecordsTyped(n)
  BY DEF ExperimentTyped
<1>2. RowRead(rate, busy) \in Row
  BY DEF RowRead, Row, Second, ExperimentTyped
<1>3. PairMade(gap) \in Pair
  BY DEF PairMade, Pair
<1>4. MomentNow(rate) \in Moment
  BY DEF MomentNow, Moment, ExperimentTyped
<1> DEFINE g == IF gaps[n] = None THEN gap ELSE gaps[n]
           r == IF g = None THEN Append(rows[n], RowRead(rate, busy)) ELSE rows[n]
           p == Append(pairs[n], PairMade(gap))
           s == Append(seconds[n], MomentNow(rate))
<1> DEFINE G == Reasons \cup {None}
<1>5. /\ phases \in Seq(Actual) /\ Len(phases) = n /\ gaps \in Seq(G) /\ Len(gaps) = n
      /\ rows \in Seq(Seq(Row)) /\ Len(rows) = n /\ pairs \in Seq(Seq(Pair)) /\ Len(pairs) = n
      /\ seconds \in Seq(Seq(Moment)) /\ Len(seconds) = n
  BY <1>1 DEF RecordsTyped
<1>6. gaps[n] \in G /\ rows[n] \in Seq(Row) /\ pairs[n] \in Seq(Pair) /\ seconds[n] \in Seq(Moment)
  BY <1>5, LastElement
<1>7. g \in G
  BY <1>6 DEF Reasons
<1>8. r \in Seq(Row)
  BY <1>2, <1>6, OneAdded
<1>9. p \in Seq(Pair) /\ s \in Seq(Moment)
  BY <1>3, <1>4, <1>6, OneAdded
<1>10. Changed(gaps, n, g, gaps')
  BY DEF Passes, Changed
<1> HIDE DEF g, G
<1>11. /\ gaps' \in Seq(G) /\ Len(gaps') = n /\ gaps'[n] = g
       /\ \A i \in 1..n - 1 : gaps'[i] = gaps[i]
  <2>1. gaps \in Seq(G) /\ n = Len(gaps)
    BY <1>5
  <2> QED
    BY <1>7, <1>10, <2>1, LastChanged
<1>12. /\ Changed(rows, n, r, rows') /\ Changed(pairs, n, p, pairs')
       /\ Changed(seconds, n, s, seconds') /\ phases' = phases
  BY <1>11 DEF Passes, Changed, RowRead, PairMade, MomentNow
<1> HIDE DEF r, p, s
<1>13. /\ rows' \in Seq(Seq(Row)) /\ Len(rows') = n /\ rows'[n] = r
       /\ \A i \in 1..n - 1 : rows'[i] = rows[i]
  <2> DEFINE R == Seq(Row)
  <2>1. rows \in Seq(R) /\ n = Len(rows) /\ Changed(rows, n, r, rows') /\ r \in R
    BY <1>5, <1>8, <1>12
  <2> HIDE DEF R
  <2>2. /\ rows' \in Seq(R) /\ Len(rows') = n /\ rows'[n] = r
        /\ \A i \in 1..n - 1 : rows'[i] = rows[i]
    BY <2>1, LastChanged
  <2> QED
    BY <2>2 DEF R
<1>14. /\ pairs' \in Seq(Seq(Pair)) /\ Len(pairs') = n /\ pairs'[n] = p
       /\ \A i \in 1..n - 1 : pairs'[i] = pairs[i]
  <2>1. pairs \in Seq(Seq(Pair)) /\ n = Len(pairs) /\ Changed(pairs, n, p, pairs')
    BY <1>5, <1>12
  <2> QED
    BY <1>9, <2>1, LastChanged
<1>15. /\ seconds' \in Seq(Seq(Moment)) /\ Len(seconds') = n /\ seconds'[n] = s
       /\ \A i \in 1..n - 1 : seconds'[i] = seconds[i]
  <2> DEFINE M == Seq(Moment)
  <2>1. seconds \in Seq(M) /\ n = Len(seconds) /\ Changed(seconds, n, s, seconds')
    BY <1>5, <1>12
  <2>2. s \in M /\ n \in Nat /\ n > 0
    BY <1>5, <1>9
  <2> HIDE DEF M
  <2>3. /\ seconds' \in Seq(M) /\ Len(seconds') = n /\ seconds'[n] = s
        /\ \A i \in 1..n - 1 : seconds'[i] = seconds[i]
    BY <2>1, <2>2, LastChanged
  <2> QED
    BY <2>3 DEF M
<1>16. RecordsTyped(n)'
  BY <1>5, <1>11, <1>12, <1>13, <1>14, <1>15 DEF RecordsTyped, G
<1> QED
  BY <1>5, <1>11, <1>12, <1>13, <1>14, <1>15, <1>16 DEF N, g, r, p, s

(* What happens to the last phase leaves the others as they are. *)
LEMMA PhaseGoesOn ==
  ASSUME PhasesTrue, NEW n \in Nat, n > 0, n = N, n = N', manifest' = manifest,
         \A i \in 1..n - 1 : /\ phases'[i] = phases[i] /\ rows'[i] = rows[i] /\ gaps'[i] = gaps[i]
                             /\ pairs'[i] = pairs[i] /\ seconds'[i] = seconds[i],
         PhaseTrue(n)',
         ended' = None /\ ~InPhase' => phases'[n].state = "complete"
  PROVE  PhasesTrue'
<1>1. ASSUME NEW i \in 1..n - 1 PROVE PhaseTrue(i)' /\ phases'[i].state = "complete"
  <2>1. phases[i].state = "complete" /\ i \in 1..N
    BY BeforeLast DEF PhasesTrue
  <2> QED
    BY <2>1, PhaseStays
<1>2. \A i \in 1..n : i \in 1..n - 1 \/ i = n
  BY LastOrBefore
<1>3. ASSUME NEW i \in 1..n PROVE PhaseTrue(i)' /\ (i < n => phases'[i].state = "complete")
  <2>1. CASE i = n
    BY <2>1
  <2>2. CASE i \in 1..n - 1
    BY <1>1, <2>2
  <2> QED
    BY <1>2, <2>1, <2>2
<1>4. ended' = None /\ N' > 0 /\ ~InPhase' => phases'[N'].state = "complete"
  OBVIOUS
<1> QED
  BY <1>3, <1>4 DEF PhasesTrue

LEMMA SecondPasses ==
  ASSUME ExperimentTyped, PhasesTrue, InPhase,
         NEW rate \in Rates, NEW busy \in Busy, NEW gap \in Gaps, Passes(rate, busy, gap)
  PROVE  ExperimentTyped' /\ PhasesTrue'
<1>1. PICK n \in Nat : n > 0 /\ n = N /\ RecordsTyped(n)
  BY DEF ExperimentTyped, InPhase
<1>2. rate \in {24, 30} /\ busy \in {0, workers} /\ gap \in {None, "collection_gap"}
  BY OrdinaryRates
<1>3. /\ N' = n /\ RecordsTyped(n)' /\ phases' = phases
      /\ \A i \in 1..n - 1 : /\ rows'[i] = rows[i] /\ gaps'[i] = gaps[i]
                             /\ pairs'[i] = pairs[i] /\ seconds'[i] = seconds[i]
      /\ gaps'[n] = IF gaps[n] = None THEN gap ELSE gaps[n]
      /\ rows'[n] = IF gaps'[n] = None THEN Append(rows[n], RowRead(rate, busy)) ELSE rows[n]
      /\ pairs'[n] = Append(pairs[n], PairMade(gap))
      /\ seconds'[n] = Append(seconds[n], MomentNow(rate))
  BY <1>1, <1>2, SecondRecorded
<1>4. /\ clock' = clock + Second /\ shown' = shown + rate /\ ended' = None /\ ended = None
      /\ UNCHANGED <<manifest, inspection, generation, workers, paced, bound, lapse>>
  BY DEF Passes, Proceeds
<1>5. ExperimentTyped'
  BY <1>1, <1>2, <1>3, <1>4 DEF ExperimentTyped, Second
<1>6. /\ PhaseTrue(n) /\ rows[n] \in Seq(Row) /\ pairs[n] \in Seq(Pair) /\ seconds[n] \in Seq(Moment)
      /\ phases[n].end = None /\ phases[n] \in Actual
  BY <1>1 DEF PhasesTrue, RecordsTyped, InPhase
<1>7. Recorded(rows[n], gaps[n], pairs[n], seconds[n])'
  <2> DEFINE s == seconds[n]
             r == rows[n]
             q == pairs[n]
             m == MomentNow(rate)
             x == RowRead(rate, busy)
             y == PairMade(gap)
  <2>1. /\ x.workers = m.workers /\ x.last - x.first = m.rate /\ y.entered = IF m.paced THEN 50 ELSE 0
    BY <1>2 DEF MomentNow, RowRead, PairMade, ExperimentTyped
  <2>2. /\ gaps[n] = None => Len(r) = Len(s) /\ \A k \in DOMAIN s :
              r[k].workers = s[k].workers /\ r[k].last - r[k].first = s[k].rate
        /\ Len(q) = Len(s)
        /\ \A k \in DOMAIN s : q[k].entered = IF s[k].paced THEN 50 ELSE 0
    BY <1>6 DEF PhaseTrue, Recorded
  <2>3. /\ s \in Seq(Moment) /\ r \in Seq(Row) /\ q \in Seq(Pair)
        /\ m \in Moment /\ x \in Row /\ y \in Pair
    BY <1>2, <1>6 DEF MomentNow, RowRead, PairMade, ExperimentTyped, Moment, Row, Pair, Second
  <2> HIDE DEF m, x, y
  <2>4. /\ Len(Append(s, m)) = Len(s) + 1 /\ Append(s, m)[Len(s) + 1] = m
        /\ \A k \in 1..Len(s) : Append(s, m)[k] = s[k]
        /\ Len(Append(s, m)) \in Nat /\ DOMAIN s = 1..Len(s) /\ DOMAIN Append(s, m) = 1..Len(s) + 1
    BY <2>3, OneAdded
  <2>5. /\ Len(Append(r, x)) = Len(r) + 1 /\ Append(r, x)[Len(r) + 1] = x
        /\ \A k \in 1..Len(r) : Append(r, x)[k] = r[k]
    BY <2>3, OneAdded
  <2>6. /\ Len(Append(q, y)) = Len(q) + 1 /\ Append(q, y)[Len(q) + 1] = y
        /\ \A k \in 1..Len(q) : Append(q, y)[k] = q[k]
    BY <2>3, OneAdded
  <2>7. gaps'[n] = None => gaps[n] = None /\ rows'[n] = Append(r, x)
    BY <1>3 DEF x
  <2>8. seconds'[n] = Append(s, m) /\ pairs'[n] = Append(q, y)
    BY <1>3 DEF m, y
  <2> HIDE DEF s, r, q
  <2>9. gaps'[n] = None =>
          /\ Len(Append(r, x)) = Len(Append(s, m))
          /\ \A k \in DOMAIN Append(s, m) :
               /\ Append(r, x)[k].workers = Append(s, m)[k].workers
               /\ Append(r, x)[k].last - Append(r, x)[k].first = Append(s, m)[k].rate
    BY <2>1, <2>2, <2>4, <2>5, <2>7
  <2>10. /\ Len(Append(q, y)) = Len(Append(s, m))
         /\ \A k \in DOMAIN Append(s, m) : Append(q, y)[k].entered = IF Append(s, m)[k].paced THEN 50 ELSE 0
    BY <2>1, <2>2, <2>4, <2>6
  <2> QED
    BY <2>7, <2>8, <2>9, <2>10 DEF Recorded
<1>8. Timed(phases[n], seconds[n], manifest.phases[n].duration, clock)'
  <2>1. Len(seconds'[n]) = Len(seconds[n]) + 1 /\ Len(seconds[n]) \in Nat
    BY <1>2, <1>3, <1>6, OneAdded DEF MomentNow, Moment, ExperimentTyped
  <2>2. phases[n].state = "partial" /\ clock = phases[n].start + Second * Len(seconds[n]) /\ phases[n].start \in Nat
    BY <1>6 DEF PhaseTrue, Timed, Actual
  <2>3. clock' = phases[n].start + Second * Len(seconds'[n])
    BY <1>4, <2>1, <2>2 DEF Second
  <2> QED
    BY <1>3, <2>2, <2>3 DEF Timed
<1>9. PhaseTrue(n)'
  BY <1>3, <1>6, <1>7, <1>8 DEF PhaseTrue
<1>10. InPhase'
  <2>1. N' = n /\ phases'[n].end = None
    BY <1>3, <1>6
  <2> QED
    BY <1>1, <2>1 DEF InPhase
<1> QED
  BY <1>1, <1>3, <1>4, <1>5, <1>9, <1>10, PhaseGoesOn

LEMMA NoneThere ==
  /\ \A x \in Int : x # None
  /\ \A x \in Reasons \cup Slippages : x # None
  /\ \A reason \in ReasonsOf("aborted") : [status |-> "aborted", reason |-> reason] # None
<1>1. \A reason \in ReasonsOf("aborted") :
        [status |-> "aborted", reason |-> reason] \in Endings({None} \cup AdapterReasons \cup ReasonsOf("aborted"))
  BY DEF Endings
<1> QED
  BY <1>1, NoneAssumption DEF NoneIsNothing

(* A phase ends as planned. *)
LEMMA PhaseEnds ==
  ASSUME ExperimentTyped, PhasesTrue, EndPhase
  PROVE  ExperimentTyped' /\ PhasesTrue' /\ N' = N
<1>1. PICK n \in Nat : n > 0 /\ n = N /\ n = Len(phases) /\ RecordsTyped(n) /\ n \in 1..6
  BY DEF ExperimentTyped, EndPhase, InPhase, N
<1> DEFINE p == [phases[n] EXCEPT !.end = clock, !.state = "complete"]
<1>2. /\ phases[n] \in Actual /\ PhaseTrue(n) /\ phases[n].end = None
      /\ clock - phases[n].start = manifest.phases[n].duration
  <2>1. phases[n] \in Actual
    BY <1>1, LastElement DEF RecordsTyped
  <2> QED
    BY <1>1, <2>1 DEF EndPhase, PhasesTrue, InPhase
<1>3. p \in Actual /\ p.end = clock /\ p.state = "complete" /\ p.start = phases[n].start /\ p.phase = phases[n].phase
  BY <1>2 DEF Actual, ExperimentTyped
<1>4. Changed(phases, n, p, phases')
  <2>1. phases' = [phases EXCEPT ![n].end = clock, ![n].state = "complete"] /\ phases \in Seq(Actual)
    BY <1>1 DEF EndPhase, RecordsTyped
  <2> QED
    BY <1>1, <1>2, <2>1 DEF Changed
<1> HIDE DEF p
<1>5. phases' \in Seq(Actual) /\ Len(phases') = n /\ phases'[n] = p /\ \A i \in 1..n - 1 : phases'[i] = phases[i]
  <2>1. phases \in Seq(Actual) /\ n = Len(phases)
    BY <1>1 DEF RecordsTyped
  <2> QED
    BY <1>1, <1>3, <1>4, <2>1, LastChanged
<1>6. UNCHANGED <<manifest, clock, machine, bound, rows, gaps, pairs, seconds, lapse, ended, inspection>> /\ ended = None
  BY DEF EndPhase, Proceeds
<1>7. N' = n /\ RecordsTyped(n)'
  BY <1>1, <1>5, <1>6 DEF RecordsTyped, N
<1>8. ExperimentTyped'
  BY <1>1, <1>6, <1>7 DEF ExperimentTyped, machine
<1>9. PhaseTrue(n)'
  <2>1. Timed(p, seconds[n], manifest.phases[n].duration, clock)
    <3>1. clock = phases[n].start + Second * Len(seconds[n])
      BY <1>2 DEF PhaseTrue, Timed
    <3>2. seconds[n] \in Seq(Moment)
      BY <1>1, LastElement DEF RecordsTyped
    <3>3. phases[n].start \in Nat /\ Len(seconds[n]) \in Nat /\ clock \in Nat /\ clock # None
      BY <1>2, <3>2, NoneThere DEF Actual, ExperimentTyped
    <3> QED
      BY <1>2, <1>3, <3>1, <3>3 DEF Timed, Second
  <2>2. p.phase = Phases[n] /\ Recorded(rows[n], gaps[n], pairs[n], seconds[n])
    BY <1>2, <1>3 DEF PhaseTrue
  <2> QED
    BY <1>5, <1>6, <2>1, <2>2 DEF PhaseTrue
<1>10. phases'[n].state = "complete"
  BY <1>3, <1>5
<1> QED
  BY <1>1, <1>5, <1>6, <1>7, <1>8, <1>9, <1>10, PhaseGoesOn

(* The last phase gets a gap, and perhaps its end. *)
Stopped(s, n, t) == [s EXCEPT ![n].end = t]
Noted(s, n, g) == [s EXCEPT ![n] = g]
LEMMA PhaseBreaks ==
  ASSUME ExperimentTyped, PhasesTrue, InPhase, NEW g \in Reasons,
         UNCHANGED <<manifest, clock, rows, pairs, seconds>>,
         phases' = phases \/ (phases' = Stopped(phases, N, clock) /\ ended' # None),
         gaps' = gaps \/ gaps' = Noted(gaps, N, g)
  PROVE  /\ RecordsTyped(N)' /\ PhasesTrue' /\ N' = N
         /\ \A i \in 1..N : gaps'[i] = None => gaps[i] = None
         /\ gaps' # gaps => gaps'[N] = g
<1>1. PICK n \in Nat : n > 0 /\ n = N /\ n = Len(phases) /\ RecordsTyped(n) /\ n \in 1..6
  BY DEF ExperimentTyped, InPhase, N
<1> DEFINE G == Reasons \cup {None}
           p == [phases[n] EXCEPT !.end = clock]
<1>2. phases[n] \in Actual /\ gaps[n] \in G /\ gaps \in Seq(G) /\ phases \in Seq(Actual) /\ Len(phases) = n /\ Len(gaps) = n
  BY <1>1, LastElement DEF RecordsTyped
<1>3. PhaseTrue(n) /\ phases[n].end = None /\ phases[n].state = "partial"
  BY <1>1 DEF PhasesTrue, PhaseTrue, Timed, InPhase
<1>4. p \in Actual /\ p.end = clock /\ p.state = "partial" /\ p.phase = phases[n].phase
  BY <1>2, <1>3 DEF Actual, ExperimentTyped
<1>5. phases' = phases \/ Changed(phases, n, p, phases')
  BY <1>1, <1>2 DEF Changed, Stopped
<1>6. gaps' = gaps \/ Changed(gaps, n, g, gaps')
  BY <1>1 DEF Changed, Noted
<1> HIDE DEF p, G
<1>7. /\ phases' \in Seq(Actual) /\ Len(phases') = n /\ (phases'[n] = phases[n] \/ phases'[n] = p)
      /\ \A i \in 1..n - 1 : phases'[i] = phases[i]
  <2>1. phases \in Seq(Actual) /\ n = Len(phases)
    BY <1>2
  <2>2. CASE phases' = phases
    BY <2>1, <2>2
  <2>3. CASE Changed(phases, n, p, phases')
    BY <1>1, <1>4, <2>1, <2>3, LastChanged
  <2> QED
    BY <1>5, <2>2, <2>3
<1>8. /\ gaps' \in Seq(G) /\ Len(gaps') = n /\ (gaps'[n] = gaps[n] \/ gaps'[n] = g)
      /\ \A i \in 1..n - 1 : gaps'[i] = gaps[i]
      /\ gaps' # gaps => gaps'[n] = g
  <2>1. gaps \in Seq(G) /\ n = Len(gaps) /\ g \in G
    BY <1>2 DEF G
  <2>2. CASE gaps' = gaps
    BY <2>1, <2>2
  <2>3. CASE Changed(gaps, n, g, gaps')
    BY <1>1, <2>1, <2>3, LastChanged
  <2> QED
    BY <1>6, <2>2, <2>3
<1>9. N' = n /\ RecordsTyped(n)'
  BY <1>1, <1>7, <1>8 DEF RecordsTyped, N, G
<1>10. PhaseTrue(n)'
  <2>1. g # None /\ clock # None
    BY NoneThere DEF ExperimentTyped
  <2>2. Recorded(rows[n], gaps'[n], pairs[n], seconds[n])
    BY <1>3, <1>8, <2>1 DEF PhaseTrue, Recorded
  <2>3. Timed(phases'[n], seconds[n], manifest.phases[n].duration, clock)
    BY <1>3, <1>4, <1>7, <2>1 DEF PhaseTrue, Timed
  <2>4. phases'[n].phase = Phases[n]
    BY <1>3, <1>4, <1>7 DEF PhaseTrue
  <2> QED
    BY <2>2, <2>3, <2>4 DEF PhaseTrue
<1>11. ended' = None => InPhase'
  <2>1. ended' = None => phases' = phases
    OBVIOUS
  <2> QED
    BY <1>1, <1>9, <2>1 DEF InPhase
<1>12. PhasesTrue'
  BY <1>1, <1>7, <1>8, <1>9, <1>10, <1>11, PhaseGoesOn
<1>13. ASSUME NEW i \in 1..n, gaps'[i] = None PROVE gaps[i] = None
  <2>1. g # None
    BY NoneThere
  <2> QED
    BY <1>8, <1>13, <2>1, LastOrBefore
<1> QED
  BY <1>1, <1>8, <1>9, <1>12, <1>13

(* The records stand, and the clock too while a phase lasts. *)
LEMMA RecordsStand ==
  ASSUME ExperimentTyped, PhasesTrue, UNCHANGED <<manifest, phases, rows, gaps, pairs, seconds>>,
         InPhase => clock' = clock, ended' = None => ended = None
  PROVE  RecordsTyped(N)' /\ PhasesTrue' /\ N' = N
<1>1. N' = N /\ RecordsTyped(N)'
  BY DEF ExperimentTyped, RecordsTyped, N
<1>2. PICK n \in 0..6 : n = N /\ n = Len(phases)
  BY DEF ExperimentTyped, N
<1>3. ASSUME NEW i \in 1..n PROVE PhaseTrue(i)' /\ (i < n => phases'[i].state = "complete")
  <2>1. PhaseTrue(i) /\ (i < n => phases[i].state = "complete")
    BY <1>2 DEF PhasesTrue
  <2>2. phases[i].state = "complete" \/ phases[i].end # None \/ clock' = clock
    BY <1>2, <2>1 DEF InPhase
  <2> QED
    BY <1>2, <2>1, <2>2, PhaseStays
<1>4. InPhase' <=> InPhase
  BY <1>1 DEF InPhase
<1>5. ended' = None /\ n > 0 /\ ~InPhase' => phases'[n].state = "complete"
  BY <1>2, <1>4 DEF PhasesTrue
<1> QED
  BY <1>1, <1>2, <1>3, <1>5 DEF PhasesTrue

(* A torn counter stays torn. *)
LEMMA TornStays ==
  ASSUME NEW rs \in Seq(Seq(Row)), NEW ts \in Seq(Seq(Row)), Len(ts) >= Len(rs),
         \A i \in 1..Len(rs) : Len(ts[i]) >= Len(rs[i]) /\ \A k \in 1..Len(rs[i]) : ts[i][k] = rs[i][k],
         \A i \in 1..Len(rs) - 1 : ts[i] = rs[i],
         Torn(rs)
  PROVE  Torn(ts)
<1>1. PICK i \in DOMAIN rs : TornAt(rs, i)
  BY DEF Torn
<1>2. /\ i \in 1..Len(rs) /\ Len(rs) \in Nat /\ Len(ts) \in Nat /\ i \in DOMAIN ts
      /\ rs[i] \in Seq(Row) /\ ts[i] \in Seq(Row)
  OBVIOUS
<1>3. /\ Len(rs[i]) \in Nat /\ Len(ts[i]) \in Nat /\ Len(ts[i]) >= Len(rs[i])
      /\ \A k \in 1..Len(rs[i]) : ts[i][k] = rs[i][k]
  BY <1>2
<1>4. CASE \E k \in 2..Len(rs[i]) : rs[i][k].first < rs[i][k - 1].last
  <2>1. PICK k \in 2..Len(rs[i]) : rs[i][k].first < rs[i][k - 1].last
    BY <1>4
  <2>2. k \in 1..Len(rs[i]) /\ k - 1 \in 1..Len(rs[i]) /\ k \in 2..Len(ts[i])
    BY <1>3
  <2>3. ts[i][k] = rs[i][k] /\ ts[i][k - 1] = rs[i][k - 1]
    BY <1>3, <2>2
  <2> QED
    BY <1>2, <2>1, <2>2, <2>3 DEF Torn, TornAt
<1>5. CASE i > 1 /\ rs[i] # <<>> /\ rs[i - 1] # <<>> /\ rs[i][1].first < rs[i - 1][Len(rs[i - 1])].last
  <2>1. i - 1 \in 1..Len(rs) - 1
    BY <1>2, <1>5
  <2>2. ts[i - 1] = rs[i - 1]
    BY <2>1
  <2>3. Len(rs[i]) # 0
    BY <1>2, <1>5
  <2>4. ts[i] # <<>> /\ ts[i][1] = rs[i][1]
    BY <1>2, <1>3, <2>3
  <2> QED
    BY <1>2, <1>5, <2>2, <2>4 DEF Torn, TornAt
<1> QED
  BY <1>1, <1>4, <1>5 DEF TornAt

(* What was read stays true while nothing is read. *)
LEMMA ReadingStands ==
  ASSUME ExperimentTyped, ReadingTrue, UNCHANGED <<rows, seconds, shown, generation, bound>>,
         N' = N, gaps' \in Seq(Reasons \cup {None}), Len(gaps') = N,
         \A i \in 1..N : gaps'[i] = None => gaps[i] = None,
         lapse' = lapse \/ (lapse # "reset" /\ lapse' # "reset"), InPhase' => InPhase
  PROVE  ReadingTrue'
<1>1. PICK n \in 0..6 : n = N /\ RecordsTyped(n)
  BY DEF ExperimentTyped
<1>2. DOMAIN gaps = 1..n /\ DOMAIN gaps' = 1..n
  BY <1>1 DEF RecordsTyped
<1>3. Ungapped(gaps') => Ungapped(gaps)
  BY <1>1, <1>2 DEF Ungapped
<1>4. \A i \in DOMAIN rows' : \A k \in DOMAIN rows'[i] : rows'[i][k].last >= 24
  BY DEF ReadingTrue
<1>5. lapse' # "reset" =>
        /\ bound' = 0
        /\ \A i \in 1..N' : gaps'[i] = None => \A k \in DOMAIN seconds'[i] : seconds'[i][k].generation = 0
        /\ generation' = 1 /\ InPhase' => gaps'[N'] # None
  BY <1>1 DEF ReadingTrue, InPhase
<1>6. lapse' = "reset" =>
        /\ bound' = 1 /\ generation' = 1
        /\ Ungapped(gaps') => AllOf(seconds', 1) \/ (AllOf(seconds', 0) /\ shown' <= 15) \/ Torn(rows')
  BY <1>3 DEF ReadingTrue
<1> QED
  BY <1>4, <1>5, <1>6 DEF ReadingTrue

(* A new phase has read nothing. *)
LEMMA NothingRead ==
  ASSUME ExperimentTyped, ReadingTrue, ~InPhase, BeginPhase,
         lapse' = lapse \/ (lapse # "reset" /\ lapse' # "reset")
  PROVE  ReadingTrue'
<1>1. PICK n \in 0..6 : n = N /\ n = Len(phases) /\ RecordsTyped(n)
  BY DEF ExperimentTyped, N
<1> DEFINE p == [phase |-> Phases[n + 1], start |-> clock, end |-> None, state |-> "partial"]
           g == IF generation = bound THEN None ELSE "source_unavailable"
<1>2. /\ phases' = Append(phases, p) /\ rows' = Append(rows, <<>>) /\ gaps' = Append(gaps, g)
      /\ seconds' = Append(seconds, <<>>) /\ UNCHANGED <<shown, generation, bound>>
  BY <1>1 DEF BeginPhase, machine
<1>3. g # None <=> generation # bound
  BY NoneThere DEF Reasons
<1> HIDE DEF p, g
<1>4. /\ Len(phases') = n + 1 /\ DOMAIN rows' = 1..n + 1 /\ DOMAIN gaps' = 1..n + 1 /\ DOMAIN seconds' = 1..n + 1
      /\ DOMAIN rows = 1..n /\ DOMAIN gaps = 1..n /\ DOMAIN seconds = 1..n
  BY <1>1, <1>2 DEF RecordsTyped
<1>5. /\ rows'[n + 1] = <<>> /\ \A i \in 1..n : rows'[i] = rows[i]
  BY <1>1, <1>2 DEF RecordsTyped
<1>6. /\ gaps'[n + 1] = g /\ \A i \in 1..n : gaps'[i] = gaps[i]
  BY <1>1, <1>2 DEF RecordsTyped
<1>7. /\ seconds'[n + 1] = <<>> /\ \A i \in 1..n : seconds'[i] = seconds[i]
  BY <1>1, <1>2 DEF RecordsTyped
<1>8. N' = n + 1
  BY <1>4 DEF N
<1>9. \A i \in 1..n + 1 : i \in 1..n \/ i = n + 1
  OBVIOUS
<1>10. DOMAIN <<>> = {}
  OBVIOUS
<1>11. \A i \in DOMAIN rows' : \A k \in DOMAIN rows'[i] : rows'[i][k].last >= 24
  BY <1>4, <1>5, <1>9, <1>10 DEF ReadingTrue
<1>12. \A i \in 1..n + 1 : \A k \in DOMAIN seconds'[i] :
         i \in 1..n /\ seconds'[i] = seconds[i] /\ k \in DOMAIN seconds[i]
  BY <1>7, <1>9, <1>10
<1>13. lapse' # "reset" =>
         /\ bound' = 0
         /\ \A i \in 1..N' : gaps'[i] = None => \A k \in DOMAIN seconds'[i] : seconds'[i][k].generation = 0
         /\ generation' = 1 /\ InPhase' => gaps'[N'] # None
  <2> SUFFICES ASSUME lapse # "reset"
               PROVE  /\ bound' = 0
                      /\ \A i \in 1..n + 1 : gaps'[i] = None => \A k \in DOMAIN seconds'[i] : seconds'[i][k].generation = 0
                      /\ generation' = 1 => gaps'[n + 1] # None
    BY <1>8
  <2>1. bound = 0 /\ \A i \in 1..n : gaps[i] = None => \A k \in DOMAIN seconds[i] : seconds[i][k].generation = 0
    BY <1>1 DEF ReadingTrue
  <2>2. bound' = 0 /\ (generation' = 1 => gaps'[n + 1] # None)
    BY <1>2, <1>3, <1>6, <2>1
  <2>3. ASSUME NEW i \in 1..n + 1, gaps'[i] = None, NEW k \in DOMAIN seconds'[i]
        PROVE  seconds'[i][k].generation = 0
    <3>1. i \in 1..n /\ seconds'[i] = seconds[i] /\ k \in DOMAIN seconds[i]
      BY <1>12, <2>3
    <3> QED
      BY <1>6, <2>1, <2>3, <3>1
  <2> QED
    BY <2>2, <2>3
<1>14. Ungapped(gaps') => Ungapped(gaps)
  BY <1>4, <1>6 DEF Ungapped
<1>15. ASSUME NEW v, AllOf(seconds, v) PROVE AllOf(seconds', v)
  BY <1>4, <1>12, <1>15 DEF AllOf
<1>16. Torn(rows) => Torn(rows')
  <2>1. <<>> \in Seq(Row)
    OBVIOUS
  <2>2. rows \in Seq(Seq(Row)) /\ Len(rows) = n /\ rows' \in Seq(Seq(Row)) /\ Len(rows') = n + 1
    BY <1>1, <1>2, <2>1, OneAdded DEF RecordsTyped
  <2>3. \A i \in 1..n : Len(rows[i]) \in Nat
    BY <2>2
  <2>4. /\ Len(rows') >= Len(rows)
        /\ \A i \in 1..Len(rows) : Len(rows'[i]) >= Len(rows[i]) /\ \A k \in 1..Len(rows[i]) : rows'[i][k] = rows[i][k]
        /\ \A i \in 1..Len(rows) - 1 : rows'[i] = rows[i]
    BY <1>5, <2>2, <2>3
  <2> QED
    BY <2>2, <2>4, TornStays
<1>17. lapse' = "reset" =>
         /\ bound' = 1 /\ generation' = 1
         /\ Ungapped(gaps') => AllOf(seconds', 1) \/ (AllOf(seconds', 0) /\ shown' <= 15) \/ Torn(rows')
  BY <1>2, <1>14, <1>15, <1>16 DEF ReadingTrue
<1> QED
  BY <1>11, <1>13, <1>17 DEF ReadingTrue

(* A second of a replaced camera is noticed, or read with a torn counter. *)
LEMMA SecondRead ==
  ASSUME ExperimentTyped, PhasesTrue, ReadingTrue, InPhase,
         NEW rate \in Rates, NEW busy \in Busy, NEW gap \in Gaps, Passes(rate, busy, gap)
  PROVE  ReadingTrue'
<1>1. PICK n \in Nat : n > 0 /\ n = N /\ RecordsTyped(n) /\ n \in 1..6
  BY DEF ExperimentTyped, InPhase
<1>2. rate \in {24, 30} /\ busy \in {0, workers} /\ gap \in {None, "collection_gap"}
  BY OrdinaryRates
<1>3. /\ N' = n /\ RecordsTyped(n)' /\ phases' = phases
      /\ \A i \in 1..n - 1 : /\ rows'[i] = rows[i] /\ gaps'[i] = gaps[i]
                             /\ pairs'[i] = pairs[i] /\ seconds'[i] = seconds[i]
      /\ gaps'[n] = IF gaps[n] = None THEN gap ELSE gaps[n]
      /\ rows'[n] = IF gaps'[n] = None THEN Append(rows[n], RowRead(rate, busy)) ELSE rows[n]
      /\ pairs'[n] = Append(pairs[n], PairMade(gap))
      /\ seconds'[n] = Append(seconds[n], MomentNow(rate))
  BY <1>1, <1>2, SecondRecorded
<1>4. UNCHANGED <<generation, bound, lapse>>
  BY DEF Passes, Proceeds
<1> DEFINE x == RowRead(rate, busy)
           m == MomentNow(rate)
<1>5. x \in Row /\ m \in Moment /\ x.last >= 24 /\ x.first = shown /\ m.generation = generation
  BY <1>2 DEF RowRead, MomentNow, Row, Moment, Second, ExperimentTyped
<1> HIDE DEF x, m
<1>6. /\ DOMAIN rows' = 1..n /\ DOMAIN gaps' = 1..n /\ DOMAIN seconds' = 1..n
      /\ DOMAIN rows = 1..n /\ DOMAIN gaps = 1..n /\ DOMAIN seconds = 1..n
  BY <1>1, <1>3 DEF RecordsTyped
<1>7. rows[n] \in Seq(Row) /\ seconds[n] \in Seq(Moment)
  BY <1>1, LastElement DEF RecordsTyped
<1>8. gaps'[n] = None => gaps[n] = None /\ rows'[n] = Append(rows[n], x)
  BY <1>3 DEF x
<1>9. gaps'[n] # None => rows'[n] = rows[n]
  BY <1>3
<1>10. seconds'[n] = Append(seconds[n], m)
  BY <1>3 DEF m
<1>11. /\ Len(Append(rows[n], x)) = Len(rows[n]) + 1 /\ Append(rows[n], x)[Len(rows[n]) + 1] = x
       /\ DOMAIN Append(rows[n], x) = 1..Len(rows[n]) + 1 /\ DOMAIN rows[n] = 1..Len(rows[n]) /\ Len(rows[n]) \in Nat
       /\ \A k \in 1..Len(rows[n]) : Append(rows[n], x)[k] = rows[n][k]
  BY <1>5, <1>7, OneAdded
<1>12. /\ DOMAIN Append(seconds[n], m) = 1..Len(seconds[n]) + 1 /\ Append(seconds[n], m)[Len(seconds[n]) + 1] = m
       /\ DOMAIN seconds[n] = 1..Len(seconds[n]) /\ Len(seconds[n]) \in Nat
       /\ \A k \in 1..Len(seconds[n]) : Append(seconds[n], m)[k] = seconds[n][k]
  BY <1>5, <1>7, OneAdded
<1>13. ASSUME NEW i \in 1..n, NEW k \in DOMAIN rows'[i] PROVE rows'[i][k].last >= 24
  <2>0. \A j \in 1..n : \A l \in DOMAIN rows[j] : rows[j][l].last >= 24
    BY <1>6 DEF ReadingTrue
  <2>1. CASE i # n
    <3>1. rows'[i] = rows[i]
      BY <1>3, <2>1, LastOrBefore
    <3> QED
      BY <2>0, <3>1
  <2>2. CASE i = n
    <3>1. CASE gaps'[n] # None
      BY <1>9, <2>0, <2>2, <3>1
    <3>2. CASE gaps'[n] = None
      <4>1. k \in 1..Len(rows[n]) + 1 /\ rows'[n] = Append(rows[n], x)
        BY <1>8, <1>11, <2>2, <3>2
      <4>2. k = Len(rows[n]) + 1 \/ k \in 1..Len(rows[n])
        BY <1>11, <4>1
      <4> QED
        BY <1>5, <1>11, <2>0, <2>2, <4>1, <4>2
    <3> QED
      BY <3>1, <3>2
  <2> QED
    BY <2>1, <2>2
<1>14. ASSUME NEW i \in 1..n, NEW k \in DOMAIN seconds'[i]
       PROVE  \/ k \in DOMAIN seconds[i] /\ seconds'[i][k] = seconds[i][k]
              \/ i = n /\ k = Len(seconds[n]) + 1 /\ seconds'[i][k] = m
  <2>1. CASE i # n
    <3>1. seconds'[i] = seconds[i]
      BY <1>3, <2>1, LastOrBefore
    <3> QED
      BY <3>1
  <2>2. CASE i = n
    <3>1. k \in 1..Len(seconds[n]) + 1
      BY <1>10, <1>12, <2>2
    <3>2. k = Len(seconds[n]) + 1 \/ k \in 1..Len(seconds[n])
      BY <1>12, <3>1
    <3> QED
      BY <1>10, <1>12, <2>2, <3>2
  <2> QED
    BY <2>1, <2>2
<1>15. ASSUME NEW i \in 1..n, gaps'[i] = None PROVE gaps[i] = None
  BY <1>3, <1>8, <1>15, LastOrBefore
<1>16. lapse # "reset" =>
         /\ bound = 0
         /\ \A i \in 1..n : gaps'[i] = None => \A k \in DOMAIN seconds'[i] : seconds'[i][k].generation = 0
         /\ generation = 1 => gaps'[n] # None
  <2> SUFFICES ASSUME lapse # "reset"
               PROVE  /\ bound = 0
                      /\ \A i \in 1..n : gaps'[i] = None => \A k \in DOMAIN seconds'[i] : seconds'[i][k].generation = 0
                      /\ generation = 1 => gaps'[n] # None
    OBVIOUS
  <2>1. /\ bound = 0 /\ (generation = 1 => gaps[n] # None)
        /\ \A i \in 1..n : gaps[i] = None => \A k \in DOMAIN seconds[i] : seconds[i][k].generation = 0
    BY <1>1 DEF ReadingTrue
  <2>2. generation = 1 => gaps'[n] # None
    BY <1>8, <2>1
  <2>3. gaps'[n] = None => m.generation = 0
    BY <1>5, <2>2 DEF ExperimentTyped
  <2> QED
    BY <1>14, <1>15, <2>1, <2>2, <2>3
<1>17. ASSUME lapse = "reset", Ungapped(gaps')
       PROVE  AllOf(seconds', 1) \/ (AllOf(seconds', 0) /\ shown' <= 15) \/ Torn(rows')
  <2>1. /\ \A i \in 1..n : gaps[i] = None /\ gaps'[i] = None
        /\ Ungapped(gaps) /\ rows'[n] = Append(rows[n], x) /\ generation = 1
    BY <1>1, <1>6, <1>8, <1>15, <1>17 DEF Ungapped, ReadingTrue
  <2>2. AllOf(seconds, 1) \/ (AllOf(seconds, 0) /\ shown <= 15) \/ Torn(rows)
    BY <1>17, <2>1 DEF ReadingTrue
  <2>3. CASE AllOf(seconds, 1)
    BY <1>5, <1>6, <1>14, <2>1, <2>3 DEF AllOf
  <2>4. CASE Torn(rows)
    <3>1. /\ rows \in Seq(Seq(Row)) /\ Len(rows) = n /\ rows' \in Seq(Seq(Row)) /\ Len(rows') = n
      BY <1>1, <1>3 DEF RecordsTyped
    <3>2. ASSUME NEW i \in 1..n
          PROVE  Len(rows'[i]) >= Len(rows[i]) /\ \A k \in 1..Len(rows[i]) : rows'[i][k] = rows[i][k]
      <4>1. CASE i = n
        BY <1>11, <2>1, <4>1
      <4>2. CASE i # n
        <5>1. rows'[i] = rows[i]
          BY <1>3, <4>2, LastOrBefore
        <5>2. rows[i] \in Seq(Row)
          BY <3>1
        <5> QED
          BY <5>1, <5>2
      <4> QED
        BY <4>1, <4>2
    <3>3. \A i \in 1..n - 1 : rows'[i] = rows[i]
      BY <1>3
    <3>4. /\ Len(rows') >= Len(rows)
          /\ \A i \in 1..Len(rows) : Len(rows'[i]) >= Len(rows[i]) /\ \A k \in 1..Len(rows[i]) : rows'[i][k] = rows[i][k]
          /\ \A i \in 1..Len(rows) - 1 : rows'[i] = rows[i]
      BY <3>1, <3>2, <3>3
    <3> QED
      BY <2>4, <3>1, <3>4, TornStays
  <2>5. CASE AllOf(seconds, 0) /\ shown <= 15
    <3>1. /\ \A i \in 1..n : Len(rows[i]) = Len(seconds[i])
      BY <1>1, <2>1 DEF PhasesTrue, PhaseTrue, Recorded
    <3>2. CASE Len(rows[n]) > 0
      <4> DEFINE k == Len(rows[n]) + 1
      <4>1. k \in 2..Len(rows'[n]) /\ k - 1 = Len(rows[n]) /\ Len(rows[n]) \in DOMAIN rows[n]
        BY <1>11, <2>1, <3>2
      <4>2. rows'[n][k] = x /\ rows'[n][k - 1] = rows[n][Len(rows[n])]
        BY <1>11, <2>1, <4>1
      <4>3. rows[n][Len(rows[n])].last >= 24
        BY <1>1, <1>6, <4>1 DEF ReadingTrue
      <4>4. rows'[n][k].first < rows'[n][k - 1].last
        <5>1. rows[n][Len(rows[n])] \in Row
          BY <1>7, <4>1
        <5> DEFINE a == rows[n][Len(rows[n])].last
        <5>2. a \in Nat /\ a >= 24 /\ x.first \in Nat /\ x.first <= 15
          BY <1>5, <2>5, <4>3, <5>1 DEF Row
        <5> HIDE DEF a
        <5>3. x.first < a
          BY <5>2
        <5> QED
          BY <4>2, <5>3 DEF a
      <4> HIDE DEF k
      <4> QED
        BY <1>1, <1>6, <4>1, <4>4 DEF Torn, TornAt
    <3>3. CASE Len(rows[n]) = 0 /\ n = 1
      <4>1. Len(seconds[n]) = 0
        BY <1>1, <3>1, <3>3
      <4>2. \A i \in 1..n : \A k \in DOMAIN seconds'[i] : seconds'[i][k] = m
        BY <1>12, <1>14, <3>3, <4>1
      <4> QED
        BY <1>5, <1>6, <2>1, <4>2 DEF AllOf
    <3>4. CASE Len(rows[n]) = 0 /\ n > 1
      <4>1. n - 1 \in 1..n - 1 /\ n - 1 \in 1..n /\ n - 1 \in 1..6 /\ n - 1 < n
        BY <1>1, <3>4
      <4>2. rows'[n - 1] = rows[n - 1] /\ rows[n - 1] \in Seq(Row) /\ seconds[n - 1] \in Seq(Moment)
        BY <1>1, <1>3, <4>1 DEF RecordsTyped
      <4>3. manifest.phases[n - 1].duration >= Second /\ manifest.phases[n - 1].duration \in Nat
        BY <4>1, ManifestsPlanned DEF ExperimentTyped
      <4>4. manifest.phases[n - 1].duration = Second * Len(seconds[n - 1])
        BY <1>1, <4>1 DEF PhasesTrue, PhaseTrue, Timed
      <4>5. Len(seconds[n - 1]) # 0 /\ Len(rows[n - 1]) = Len(seconds[n - 1])
        BY <3>1, <4>1, <4>2, <4>3, <4>4 DEF Second
      <4> DEFINE l == Len(rows[n - 1])
      <4>6. l \in DOMAIN rows[n - 1] /\ rows[n - 1] # <<>> /\ rows[n - 1][l] \in Row
        BY <4>2, <4>5
      <4>7. rows[n - 1][l].last >= 24
        BY <1>6, <4>1, <4>6 DEF ReadingTrue
      <4>8. rows'[n] # <<>> /\ rows'[n][1] = x
        BY <1>11, <2>1, <3>4
      <4>9. rows'[n][1].first < rows'[n - 1][Len(rows'[n - 1])].last
        BY <1>5, <2>5, <4>2, <4>6, <4>7, <4>8 DEF Row
      <4>10. TornAt(rows', n)
        BY <3>4, <4>2, <4>6, <4>8, <4>9 DEF TornAt
      <4> QED
        BY <1>1, <1>6, <4>10 DEF Torn
    <3>5. Len(rows[n]) > 0 \/ (Len(rows[n]) = 0 /\ (n = 1 \/ n > 1))
      BY <1>1, <1>11
    <3> QED
      BY <3>2, <3>3, <3>4, <3>5
  <2> QED
    BY <2>2, <2>3, <2>4, <2>5
<1>18. lapse = "reset" => bound = 1 /\ generation = 1
  BY DEF ReadingTrue
<1> QED
  BY <1>3, <1>4, <1>6, <1>13, <1>16, <1>17, <1>18 DEF ReadingTrue

(* One lemma for each step of runner and sampler. *)
LEMMA LapsesKnown ==
  ASSUME ExperimentTyped, NEW name \in Slippages, lapse = None
  PROVE  lapse # "reset" /\ (lapse' = name => lapse' \in Slippages \cup {None})
<1>1. "reset" \in Slippages
  BY DEF Slippages
<1> QED
  BY <1>1, NoneThere

LEMMA BeginStep ==
  ASSUME ExperimentInv, NextPhase \/ SlipEarly
  PROVE  ExperimentInv'
<1>1. ended = None /\ ~InPhase /\ N < 6 /\ BeginPhase /\ UNCHANGED <<manifest, inspection>>
  BY DEF NextPhase, SlipEarly, Proceeds
<1>2. lapse' = lapse \/ (lapse = None /\ lapse' = "early")
  BY DEF NextPhase, SlipEarly, Lapses
<1>3. (lapse' = lapse \/ (lapse # "reset" /\ lapse' # "reset")) /\ lapse' \in Slippages \cup {None}
  <2>1. "early" \in Slippages
    BY DEF Slippages
  <2> QED
    BY <1>2, <2>1, LapsesKnown DEF ExperimentInv, ExperimentTyped
<1>4. N' \in 0..6 /\ RecordsTyped(N)' /\ N' = N + 1 /\ PhasesTrue'
  BY <1>1, PhaseBegins DEF ExperimentInv
<1>5. ReadingTrue'
  BY <1>1, <1>3, NothingRead DEF ExperimentInv
<1>6. UNCHANGED <<clock, shown, generation, workers, paced, bound, ended>>
  BY <1>1 DEF BeginPhase, machine
<1>7. ExperimentTyped'
  BY <1>1, <1>3, <1>4, <1>6 DEF ExperimentInv, ExperimentTyped
<1> QED
  BY <1>4, <1>5, <1>7 DEF ExperimentInv

LEMMA SecondStep ==
  ASSUME ExperimentInv, InPhase, \E rate \in Rates, busy \in Busy, gap \in Gaps : Passes(rate, busy, gap)
  PROVE  ExperimentInv'
  BY SecondPasses, SecondRead DEF ExperimentInv

LEMMA EndStep ==
  ASSUME ExperimentInv, EndPhase
  PROVE  ExperimentInv'
<1>1. ExperimentTyped' /\ PhasesTrue' /\ N' = N
  BY PhaseEnds DEF ExperimentInv
<1>2. UNCHANGED <<rows, gaps, seconds, shown, generation, bound, lapse>> /\ InPhase
  BY DEF EndPhase, machine
<1>3. gaps' \in Seq(Reasons \cup {None}) /\ Len(gaps') = N
  BY <1>1 DEF ExperimentTyped, RecordsTyped
<1>4. ReadingTrue'
  BY <1>1, <1>2, <1>3, ReadingStands DEF ExperimentInv
<1> QED
  BY <1>1, <1>4 DEF ExperimentInv

LEMMA ResetStep ==
  ASSUME ExperimentInv, Reset
  PROVE  ExperimentInv'
<1>1. /\ ended = None /\ N > 0 /\ lapse = None /\ generation' = 1 /\ shown' = 0
      /\ gaps' = (IF InPhase /\ gaps[N] = None THEN [gaps EXCEPT ![N] = "counter_reset"] ELSE gaps)
      /\ UNCHANGED <<manifest, inspection, clock, workers, paced, bound, phases, rows, pairs, ended, seconds, lapse>>
  BY DEF Reset, Proceeds, Untroubled
<1>2. "counter_reset" \in Reasons /\ "counter_reset" # None /\ lapse # "reset"
  <2>1. "counter_reset" \in Reasons /\ "reset" \in Slippages
    BY DEF Reasons, Slippages
  <2> QED
    BY <1>1, <2>1, NoneThere
<1>3. /\ RecordsTyped(N)' /\ PhasesTrue' /\ N' = N
      /\ \A i \in 1..N : gaps'[i] = None => gaps[i] = None
      /\ gaps' # gaps => gaps'[N] = "counter_reset"
  <2>1. CASE InPhase
    <3>1. gaps' = gaps \/ gaps' = Noted(gaps, N, "counter_reset")
      BY <1>1 DEF Noted
    <3>2. phases' = phases /\ UNCHANGED <<manifest, clock, rows, pairs, seconds>>
      BY <1>1
    <3> QED
      BY <1>2, <3>1, <3>2, <2>1, PhaseBreaks DEF ExperimentInv
  <2>2. CASE ~InPhase
    BY <1>1, <2>2, RecordsStand DEF ExperimentInv
  <2> QED
    BY <2>1, <2>2
<1>4. ExperimentTyped'
  BY <1>1, <1>3 DEF ExperimentInv, ExperimentTyped
<1>5. InPhase' => gaps'[N] # None
  <2>1. InPhase' => InPhase
    BY <1>1, <1>3 DEF InPhase
  <2>2. gaps' # gaps => gaps'[N] # None
    BY <1>2, <1>3
  <2>3. gaps' = gaps /\ InPhase => gaps[N] # None
    <3>1. N \in 1..N
      BY <1>1 DEF ExperimentInv, ExperimentTyped
    <3>2. SUFFICES ASSUME InPhase, gaps[N] = None PROVE gaps' # gaps
      OBVIOUS
    <3>3. gaps' = [gaps EXCEPT ![N] = "counter_reset"] /\ N \in DOMAIN gaps
      BY <1>1, <3>1, <3>2 DEF ExperimentInv, ExperimentTyped, RecordsTyped
    <3>4. gaps'[N] = "counter_reset"
      BY <3>3
    <3> QED
      BY <1>2, <3>2, <3>4
  <2> QED
    BY <2>1, <2>2, <2>3
<1>6. ReadingTrue'
  BY <1>1, <1>2, <1>3, <1>5 DEF ExperimentInv, ReadingTrue
<1> QED
  BY <1>3, <1>4, <1>6 DEF ExperimentInv

(* What touches no record. *)
LEMMA RecordsLeft ==
  ASSUME ExperimentInv, UNCHANGED <<manifest, phases, rows, gaps, pairs, seconds, shown, generation, bound>>,
         InPhase => clock' = clock, ended' = None => ended = None /\ inspection' = inspection,
         clock' \in Nat, workers' \in Nat, paced' \in BOOLEAN, lapse' \in Slippages \cup {None},
         lapse' = lapse \/ (lapse # "reset" /\ lapse' # "reset")
  PROVE  ExperimentInv'
<1>1. RecordsTyped(N)' /\ PhasesTrue' /\ N' = N
  BY RecordsStand DEF ExperimentInv
<1>2. ExperimentTyped'
  BY <1>1 DEF ExperimentInv, ExperimentTyped
<1>3. gaps' \in Seq(Reasons \cup {None}) /\ Len(gaps') = N
  BY <1>1 DEF RecordsTyped
<1>4. InPhase' => InPhase
  BY <1>1 DEF InPhase
<1>5. ReadingTrue'
  BY <1>1, <1>3, <1>4, ReadingStands DEF ExperimentInv
<1> QED
  BY <1>1, <1>2, <1>5 DEF ExperimentInv

LEMMA FaultStep ==
  ASSUME ExperimentInv, StartFault \/ StopFault
  PROVE  ExperimentInv'
<1>1. /\ ended = None /\ ~InPhase
      /\ UNCHANGED <<manifest, inspection, shown, generation, bound, phases, rows, gaps, pairs, ended, seconds, lapse>>
  BY DEF StartFault, StopFault, Proceeds, records
<1>2. \E wait \in Nat : clock' = clock + wait
  <2>1. 0..MaxWait \subseteq Nat
    BY WaitAssumption
  <2>2. \E wait \in 0..MaxWait : clock' = clock + wait
    BY DEF StartFault, StopFault
  <2> QED
    BY <2>1, <2>2
<1>3. clock' \in Nat
  BY <1>2 DEF ExperimentInv, ExperimentTyped
<1>4. Requested \in Nat
  BY ManifestsPlanned DEF ExperimentInv, ExperimentTyped, Requested, HasFault
<1>5. workers' \in Nat /\ paced' \in BOOLEAN
  <2>1. workers' = Requested \/ workers' = 0
    BY DEF StartFault, StopFault
  <2>2. paced' = (Requested = 0) \/ paced' = FALSE
    BY DEF StartFault, StopFault
  <2>3. (Requested = 0) \in BOOLEAN
    OBVIOUS
  <2>4. paced' \in BOOLEAN
    BY <2>2, <2>3, Zenon
  <2> QED
    BY <1>4, <2>1, <2>4
<1>6. lapse \in Slippages \cup {None}
  BY DEF ExperimentInv, ExperimentTyped
<1> QED
  BY <1>1, <1>3, <1>5, <1>6, RecordsLeft

LEMMA CutStep ==
  ASSUME ExperimentInv, Abort \/ StartFails \/ WorkerExits
  PROVE  ExperimentInv'
<1>0. PICK reason \in {"cancelled", "source_error", "action_failed"} :
        \E why \in {"cancelled", "start_failed", "exit_failed"} : CutShort(reason, why)
  BY DEF Abort, StartFails, WorkerExits
<1>1. PICK why \in {"cancelled", "start_failed", "exit_failed"} : CutShort(reason, why)
  BY <1>0
<1>2. ended = None /\ UNCHANGED <<manifest, inspection>>
  BY DEF Abort, StartFails, WorkerExits, Proceeds
<1>3. UNCHANGED <<clock, shown, generation, bound, rows, pairs, seconds, lapse>>
  BY <1>1 DEF CutShort
<1>4. ended' # None
  <2>1. {"cancelled", "source_error", "action_failed", "cleanup_failed"} \subseteq ReasonsOf("aborted")
    BY DEF ReasonsOf
  <2>2. EndsAs("aborted", reason) \/ EndsAs("aborted", "cleanup_failed")
    BY <1>1 DEF CutShort
  <2> QED
    BY <2>1, <2>2, NoneThere DEF EndsAs
<1>5. workers' \in {0, workers} /\ paced' \in {FALSE, paced}
  BY <1>1 DEF CutShort
<1>6. /\ phases' = IF InPhase THEN Stopped(phases, N, clock) ELSE phases
      /\ gaps' = IF InPhase /\ gaps[N] = None THEN Noted(gaps, N, "cancelled") ELSE gaps
  BY <1>1 DEF CutShort, Stopped, Noted
<1>7. "cancelled" \in Reasons
  BY DEF Reasons
<1>8. /\ RecordsTyped(N)' /\ PhasesTrue' /\ N' = N
      /\ \A i \in 1..N : gaps'[i] = None => gaps[i] = None
  <2>1. CASE InPhase
    BY <1>2, <1>3, <1>4, <1>6, <1>7, <2>1, PhaseBreaks DEF ExperimentInv
  <2>2. CASE ~InPhase
    BY <1>2, <1>3, <1>4, <1>6, <2>2, RecordsStand DEF ExperimentInv
  <2> QED
    BY <2>1, <2>2
<1>9. ExperimentTyped'
  <2>1. workers' \in Nat
    BY <1>5 DEF ExperimentInv, ExperimentTyped
  <2>2. paced \in BOOLEAN
    BY DEF ExperimentInv, ExperimentTyped
  <2>3. paced' \in BOOLEAN
    BY <1>5, <2>2, Zenon
  <2> QED
    BY <1>2, <1>3, <1>4, <2>1, <2>3, <1>8 DEF ExperimentInv, ExperimentTyped
<1>10. gaps' \in Seq(Reasons \cup {None}) /\ Len(gaps') = N
  BY <1>8 DEF RecordsTyped
<1>11. InPhase' => InPhase
  <2>1. ~InPhase => phases' = phases
    BY <1>6
  <2> QED
    BY <1>8, <2>1 DEF InPhase
<1>12. ReadingTrue'
  BY <1>3, <1>8, <1>10, <1>11, ReadingStands DEF ExperimentInv
<1> QED
  BY <1>8, <1>9, <1>12 DEF ExperimentInv

LEMMA WorkersStep ==
  ASSUME ExperimentInv, SlipWorkers
  PROVE  ExperimentInv'
<1>1. /\ ended = None
      /\ UNCHANGED <<manifest, inspection, clock, shown, generation, bound, phases, rows, gaps, pairs, ended, seconds>>
  BY DEF SlipWorkers, Proceeds, records
<1>2. Requested \in Nat
  BY ManifestsPlanned DEF ExperimentInv, ExperimentTyped, Requested, HasFault
<1>3. clock' \in Nat /\ workers' \in Nat /\ paced' \in BOOLEAN
  <2>1. clock \in Nat /\ paced \in BOOLEAN
    BY DEF ExperimentInv, ExperimentTyped
  <2>2. workers' \in {0, Requested} \/ workers' \in 0..1
    BY DEF SlipWorkers
  <2>3. paced' = paced \/ paced' = (HasFault /\ ~paced)
    BY DEF SlipWorkers
  <2>4. (HasFault /\ ~paced) \in BOOLEAN
    OBVIOUS
  <2>5. paced' \in BOOLEAN
    BY <2>1, <2>3, <2>4, Zenon
  <2>6. workers' \in Nat
    BY <1>2, <2>2
  <2> QED
    BY <1>1, <2>1, <2>5, <2>6
<1>4. lapse' = lapse \/ (lapse = None /\ lapse' = "unnoticed")
  BY DEF SlipWorkers, Lapses
<1>5. (lapse' = lapse \/ (lapse # "reset" /\ lapse' # "reset")) /\ lapse' \in Slippages \cup {None}
  <2>1. "unnoticed" \in Slippages
    BY DEF Slippages
  <2> QED
    BY <1>4, <2>1, LapsesKnown DEF ExperimentInv, ExperimentTyped
<1> QED
  BY <1>1, <1>3, <1>5, RecordsLeft

LEMMA SlipStep ==
  ASSUME ExperimentInv, SlipReset
  PROVE  ExperimentInv'
<1>1. /\ ended = None /\ lapse = None /\ lapse' = "reset"
      /\ generation' = 1 /\ bound' = 1 /\ shown' \in {0, 15} /\ \A i \in 1..N : gaps[i] = None
      /\ UNCHANGED <<manifest, inspection, clock, workers, paced, phases, rows, gaps, pairs, ended, seconds>>
  BY DEF SlipReset, Proceeds, Lapses, Untroubled, records
<1>2. "reset" \in Slippages /\ lapse # "reset"
  <2>1. "reset" \in Slippages
    BY DEF Slippages
  <2> QED
    BY <1>1, <2>1, NoneThere
<1>3. RecordsTyped(N)' /\ PhasesTrue' /\ N' = N
  BY <1>1, RecordsStand DEF ExperimentInv
<1>4. ExperimentTyped'
  BY <1>1, <1>2, <1>3 DEF ExperimentInv, ExperimentTyped
<1>5. AllOf(seconds, 0)
  <2>1. DOMAIN seconds = 1..N
    BY DEF ExperimentInv, ExperimentTyped, RecordsTyped
  <2> QED
    BY <1>1, <1>2, <2>1 DEF ExperimentInv, ReadingTrue, AllOf
<1>6. ReadingTrue'
  BY <1>1, <1>5 DEF ExperimentInv, ReadingTrue
<1> QED
  BY <1>3, <1>4, <1>6 DEF ExperimentInv

LEMMA EndedStep ==
  ASSUME ExperimentInv, Finish \/ Inspect \/ UNCHANGED experimentVars
  PROVE  ExperimentInv'
<1>1. UNCHANGED <<manifest, clock, shown, generation, workers, paced, bound, phases, rows, gaps, pairs, seconds>>
  BY DEF Finish, Inspect, experimentVars, machine, records
<1>2. lapse' = lapse \/ (lapse = None /\ lapse' = "report")
  BY DEF Finish, Inspect, experimentVars, Lapses
<1>3. (lapse' = lapse \/ (lapse # "reset" /\ lapse' # "reset")) /\ lapse' \in Slippages \cup {None}
  <2>1. "report" \in Slippages
    BY DEF Slippages
  <2> QED
    BY <1>2, <2>1, LapsesKnown DEF ExperimentInv, ExperimentTyped
<1>4. ended' = None => ended = None /\ inspection' = inspection
  BY DEF Finish, Inspect, experimentVars
<1>5. clock' \in Nat /\ workers' \in Nat /\ paced' \in BOOLEAN
  BY <1>1 DEF ExperimentInv, ExperimentTyped
<1> QED
  BY <1>1, <1>3, <1>4, <1>5, RecordsLeft

LEMMA ExperimentStep == ExperimentInv /\ [ExperimentNext]_experimentVars => ExperimentInv'
  BY BeginStep, SecondStep, EndStep, ResetStep, FaultStep, CutStep, WorkersStep, SlipStep, EndedStep DEF ExperimentNext

LEMMA ExperimentBegins == ExperimentInit => ExperimentInv
<1> SUFFICES ASSUME ExperimentInit PROVE ExperimentInv
  OBVIOUS
<1>1. N = 0 /\ RecordsTyped(N)
  BY DEF ExperimentInit, RecordsTyped, N
<1>2. ExperimentTyped
  <2>1. N \in 0..6
    BY <1>1
  <2>2. lapse \in Slippages \cup {None}
    BY DEF ExperimentInit
  <2>3. clock \in Nat /\ shown \in Nat /\ generation \in {0, 1} /\ bound \in {0, 1} /\ workers \in Nat
    BY DEF ExperimentInit
  <2>4. paced \in BOOLEAN /\ manifest \in Manifests /\ inspection = None
    BY DEF ExperimentInit
  <2> QED
    BY <1>1, <2>1, <2>2, <2>3, <2>4 DEF ExperimentTyped
<1>3. PhasesTrue
  BY <1>1 DEF PhasesTrue
<1>4. lapse # "reset"
  <2>1. "reset" \in Slippages
    BY DEF Slippages
  <2> QED
    BY <2>1, NoneThere DEF ExperimentInit
<1>5. ReadingTrue
  BY <1>1, <1>4 DEF ExperimentInit, ReadingTrue, InPhase
<1> QED
  BY <1>2, <1>3, <1>5 DEF ExperimentInv

(* What an effect that is verified rests on. *)
Computed(m, r, ev, traces) ==
  IF m.version = 2 THEN RecomputePacing(m, r, ev, traces) ELSE RecomputeEffect(m, r, ev)
DelaysOf(trace) == IF trace = None THEN <<>> ELSE CaptureDelays(trace)
Reported(t) == <<t.frames, t.time>>

LEMMA JudgedReports ==
  ASSUME NEW reason, NEW h, NEW d, NEW r, NEW measured
  PROVE  LET e == Judged(reason, h, d, r, measured) IN
         e.healthy = Reported(h) /\ e.degraded = Reported(d) /\ e.recovery = Reported(r)
         /\ (e.state = "verified" => reason = None)
BY DEF Judged, Reported

LEMMA VerifiedNeeds ==
  ASSUME NEW m, NEW r, NEW ev, NEW traces, Computed(m, r, ev, traces).state = "verified"
  PROVE  /\ r.status = "completed" /\ AllComplete(ev)
         /\ Computed(m, r, ev, traces).healthy = Reported(Totals(ev["healthy"]))
         /\ Computed(m, r, ev, traces).degraded = Reported(Totals(ev["degraded"]))
         /\ Computed(m, r, ev, traces).recovery = Reported(Totals(ev["recovery"]))
         /\ m.version = 2 => /\ ~(Count(DelaysOf(traces["degraded"])) < Enough)
                             /\ ~(LowerMedian(DelaysOf(traces["degraded"])) < 40)
<1> DEFINE e == Computed(m, r, ev, traces)
           h == Totals(ev["healthy"])  d == Totals(ev["degraded"])  t == Totals(ev["recovery"])
<1>1. \A reason : NoEffect(reason).state # "verified"
  BY DEF NoEffect
<1>2. "adapter_unavailable" # None /\ "incomplete_run" # None /\ "pacing_not_observed" # None
      /\ "baseline_inadequate" # None
  BY NoneAssumption DEF NoneIsNothing, Excuses
<1>3. CannotTell(m, r) = None => r.status = "completed"
  BY <1>2 DEF CannotTell
<1>4. CASE m.version = 2
  <2> DEFINE few == \E p \in {"healthy", "degraded", "recovery"} :
                      ~LongEnough(ev[p]) \/ Count(DelaysOf(traces[p])) < Enough
             delayed == LowerMedian(DelaysOf(traces["degraded"]))
             base == LowerMedian(DelaysOf(traces["healthy"]))
             why == IF ~Adequate(h) THEN "baseline_inadequate"
              ELSE IF delayed < 40 \/ delayed - base < 40 THEN "pacing_not_observed"
              ELSE IF ~Slowed(h, d) THEN "degradation_not_observed"
              ELSE IF ~Restored(h, t) \/ LowerMedian(DelaysOf(traces["recovery"])) > base + 10
              THEN "recovery_not_observed" ELSE None
  <2>1. e = IF CannotTell(m, r) # None THEN NoEffect(CannotTell(m, r))
            ELSE IF ~AllComplete(ev) \/ few THEN NoEffect("insufficient_evidence")
            ELSE Judged(why, h, d, t, delayed)
    BY <1>4 DEF Computed, RecomputePacing, DelaysOf
  <2>2. why = None => ~(delayed < 40)
    BY <1>2
  <2>3. ~few => ~(Count(DelaysOf(traces["degraded"])) < Enough)
    OBVIOUS
  <2> HIDE DEF few, delayed, base, why, e, h, d, t
  <2>4. CannotTell(m, r) = None /\ AllComplete(ev) /\ ~few /\ e = Judged(why, h, d, t, delayed)
    BY <2>1, <1>1 DEF e
  <2>5. why = None /\ e.healthy = Reported(h) /\ e.degraded = Reported(d) /\ e.recovery = Reported(t)
    BY <2>4, JudgedReports DEF e
  <2> QED
    BY <1>3, <2>2, <2>3, <2>4, <2>5 DEF e, h, d, t, delayed
<1>5. CASE m.version # 2
  <2> DEFINE contention == m.scenario = "host_contention"
             why == IF ~Adequate(h) THEN "baseline_inadequate"
              ELSE IF contention /\ d.cpu * 100 < 50 * d.time THEN "pressure_not_observed"
              ELSE IF contention /\ ~Slowed(h, d) THEN "degradation_not_observed"
              ELSE IF ~contention /\ ~Adequate(d) THEN "degradation_not_observed"
              ELSE IF contention /\ ~Restored(h, t) THEN "recovery_not_observed"
              ELSE IF ~contention /\ ~Adequate(t) THEN "recovery_not_observed" ELSE None
             measured == IF contention THEN <<d.cpu, d.time>> ELSE None
             few == ~\A p \in {"healthy", "degraded", "recovery"} : LongEnough(ev[p])
  <2>1. e = IF CannotTell(m, r) # None THEN NoEffect(CannotTell(m, r))
            ELSE IF ~AllComplete(ev) \/ few THEN NoEffect("insufficient_evidence")
            ELSE Judged(why, h, d, t, measured)
    BY <1>5 DEF Computed, RecomputeEffect
  <2> HIDE DEF few, contention, why, measured, e, h, d, t
  <2>2. CannotTell(m, r) = None /\ AllComplete(ev) /\ e = Judged(why, h, d, t, measured)
    BY <2>1, <1>1 DEF e
  <2>3. e.healthy = Reported(h) /\ e.degraded = Reported(d) /\ e.recovery = Reported(t)
    BY <2>2, JudgedReports DEF e
  <2> QED
    BY <1>3, <1>5, <2>2, <2>3 DEF e, h, d, t
<1> QED
  BY <1>4, <1>5

(* A pacing that was never in force leaves every pair without delay, and *)
(* their middle with it. *)
LEMMA PacedSecond ==
  ASSUME NEW secs \in Seq(Moment), NEW pair \in Seq(Pair), Len(pair) = Len(secs),
         \A k \in DOMAIN secs : pair[k].entered = IF secs[k].paced THEN 50 ELSE 0,
         NEW trace, trace.streams = << pair >>,
         ~(Count(DelaysOf(trace)) < Enough), ~(LowerMedian(DelaysOf(trace)) < 40)
  PROVE  \E k \in DOMAIN secs : secs[k].paced
<1> SUFFICES ASSUME \A k \in DOMAIN secs : ~secs[k].paced PROVE FALSE
  OBVIOUS
<1> DEFINE delays == DelaysOf(trace)  D == DOMAIN delays
<1>1. \A k \in 1..Len(pair) : pair[k].captured = 0 /\ pair[k].entered = 0
  <2>1. DOMAIN secs = 1..Len(pair)
    OBVIOUS
  <2>2. \A k \in 1..Len(pair) : pair[k] \in Pair /\ pair[k].entered = 0
    BY <2>1
  <2> QED
    BY <2>2 DEF Pair
<1>2. CASE trace = None
  <2>1. D = {}
    BY <1>2 DEF DelaysOf
  <2>2. Count(delays) = 0
    BY <2>1, FS_EmptySet, Zenon DEF Count
  <2> QED
    BY <2>2, EnoughAssumption
<1>3. CASE trace # None
  <2> DEFINE at(x) == trace.streams[x[1]][x[2]]
             all == UNION {{i} \X DOMAIN trace.streams[i] : i \in DOMAIN trace.streams}
             usable == {x \in all : /\ at(x).exact /\ None \notin {at(x).captured, at(x).entered}
                                    /\ at(x).entered >= at(x).captured}
  <2>1. delays = [x \in usable |-> at(x).entered - at(x).captured]
    BY <1>3 DEF DelaysOf, CaptureDelays
  <2>2. all = {1} \X (1..Len(pair))
    <3>1. DOMAIN << pair >> = {1} /\ << pair >>[1] = pair /\ DOMAIN pair = 1..Len(pair)
      OBVIOUS
    <3>2. \A i \in DOMAIN trace.streams : i = 1 /\ DOMAIN trace.streams[i] = 1..Len(pair)
      BY <3>1
    <3>3. 1 \in DOMAIN trace.streams
      BY <3>1
    <3> DEFINE K == 1..Len(pair)  T == trace.streams
    <3>4. (\A i \in DOMAIN T : i = 1 /\ DOMAIN T[i] = K) /\ 1 \in DOMAIN T
      BY <3>2, <3>3
    <3> HIDE DEF K, T
    <3>5. UNION {{i} \X DOMAIN T[i] : i \in DOMAIN T} = {1} \X K
      BY <3>4
    <3> QED
      BY <3>5, Zenon DEF K, T
  <2>3. \A x \in usable : at(x).captured = 0 /\ at(x).entered = 0
    BY <1>1, <2>2
  <2>4. D = usable /\ D \subseteq {1} \X (1..Len(pair))
    BY <2>1, <2>2
  <2>5. \A x \in D : delays[x] = 0
    <3> SUFFICES ASSUME NEW x \in usable PROVE delays[x] = 0
      BY <2>4
    <3>1. delays[x] = at(x).entered - at(x).captured
      BY <2>1
    <3>2. at(x).entered = 0 /\ at(x).captured = 0
      BY <2>3
    <3> HIDE DEF usable, all, delays, D, at
    <3> QED
      BY <3>1, <3>2
  <2> HIDE DEF usable, all, delays, D
  <2>6. IsFiniteSet(D) /\ Cardinality(D) \in Nat
    <3>1. Len(pair) \in Nat
      OBVIOUS
    <3>2. IsFiniteSet(1..Len(pair)) /\ IsFiniteSet({1})
      <4>1. IsFiniteSet(1..Len(pair))
        BY <3>1, FS_Interval
      <4>2. IsFiniteSet({1})
        BY FS_Singleton, Zenon
      <4> QED
        BY <4>1, <4>2
    <3> DEFINE K == 1..Len(pair)
    <3> HIDE DEF K
    <3>3. IsFiniteSet({1} \X K)
      BY <3>2, FS_Product, Zenon DEF K
    <3>4. D \in SUBSET ({1} \X K)
      BY <2>4, Zenon DEF K
    <3> QED
      BY <3>3, <3>4, FS_Subset, FS_CardinalityType
  <2>7. D # {} /\ Cardinality(D) > 0
    <3>1. ~(Cardinality(D) < Enough)
      BY DEF Count, D, delays
    <3> QED
      BY <2>6, <3>1, EnoughAssumption, FS_EmptySet
  <2>8. Range(delays) = {0}
    BY <2>5, <2>7 DEF Range, D
  <2>9. {x \in D : delays[x] < 0} = {} /\ {x \in D : delays[x] <= 0} = D
    BY <2>5
  <2>10. /\ 2 * Cardinality({x \in D : delays[x] < 0}) < Cardinality(D)
         /\ 2 * Cardinality({x \in D : delays[x] <= 0}) >= Cardinality(D)
    <3> DEFINE c == Cardinality(D)
    <3>1. Cardinality({}) = 0
      BY FS_EmptySet, Zenon
    <3>2. Cardinality({x \in D : delays[x] < 0}) = 0 /\ Cardinality({x \in D : delays[x] <= 0}) = c
      BY <2>9, <3>1, Zenon
    <3>3. c \in Nat /\ c > 0
      BY <2>6, <2>7
    <3> HIDE DEF c
    <3>4. 2 * 0 < c /\ 2 * c >= c
      BY <3>3
    <3> QED
      BY <3>2, <3>4 DEF c
  <2>11. LowerMedian(delays) = 0
    <3> DEFINE Middle(x) == /\ 2 * Cardinality({y \in D : delays[y] < x}) < Cardinality(D)
                            /\ 2 * Cardinality({y \in D : delays[y] <= x}) >= Cardinality(D)
    <3>1. Middle(0)
      BY <2>10
    <3>2. LowerMedian(delays) = CHOOSE x \in Range(delays) : Middle(x)
      BY DEF LowerMedian, Count, D
    <3> HIDE DEF Middle
    <3>3. LowerMedian(delays) \in {0}
      BY <2>8, <3>1, <3>2, Zenon
    <3> QED
      BY <3>3
  <2> QED
    BY <2>11 DEF delays
<1> QED
  BY <1>2, <1>3

(* The artifacts of a bundle: the evidence of each phase begun, then the traces. *)
Traced(n) == IF n > 5 THEN 4 ELSE IF n < 2 THEN 0 ELSE n - 1
EvidenceAt(i) == [role |-> "phase_evidence", phase |-> Phases[i], model |-> EvidenceOf(i)]
TraceAt(i) == [role |-> "stage_trace", phase |-> Phases[i + 1], model |-> TraceOf(i + 1)]

LEMMA Joined ==
  ASSUME NEW S, NEW f \in Seq(S), NEW g \in Seq(S)
  PROVE  /\ DOMAIN (f \o g) = 1..(Len(f) + Len(g))
         /\ \A i \in 1..Len(f) : (f \o g)[i] = f[i]
         /\ \A i \in 1..Len(g) : (f \o g)[Len(f) + i] = g[i]
OBVIOUS

LEMMA ArtifactsAre ==
  ASSUME NEW n \in 0..6, n = N
  PROVE  /\ DOMAIN Artifacts = 1..(n + Traced(n))
         /\ \A i \in 1..n : Artifacts[i] = EvidenceAt(i)
         /\ \A i \in 1..Traced(n) : Artifacts[n + i] = TraceAt(i)
<1> DEFINE k == Traced(n)
           f == [i \in 1..n |-> EvidenceAt(i)]
           g == [i \in 1..k |-> TraceAt(i)]
           S == {EvidenceAt(i) : i \in 1..n} \cup {TraceAt(i) : i \in 1..k}
<1>1. Artifacts = f \o g
  BY DEF Artifacts, EvidenceAt, TraceAt, Traced
<1>2. n \in Nat /\ k \in Nat
  BY DEF Traced
<1> HIDE DEF k
<1>3. f \in Seq(S) /\ Len(f) = n /\ g \in Seq(S) /\ Len(g) = k
  BY <1>2
<1>4. (\A i \in 1..n : f[i] = EvidenceAt(i)) /\ \A i \in 1..k : g[i] = TraceAt(i)
  OBVIOUS
<1> HIDE DEF f, g, S
<1>5. /\ DOMAIN (f \o g) = 1..(n + k)
      /\ \A i \in 1..n : (f \o g)[i] = f[i]
      /\ \A i \in 1..k : (f \o g)[n + i] = g[i]
  <2>1. /\ DOMAIN (f \o g) = 1..(Len(f) + Len(g))
        /\ \A i \in 1..Len(f) : (f \o g)[i] = f[i]
        /\ \A i \in 1..Len(g) : (f \o g)[Len(f) + i] = g[i]
    <3>1. f \in Seq(S)
      BY <1>3
    <3>2. g \in Seq(S)
      BY <1>3
    <3> QED
      BY <3>1, <3>2, Joined
  <2> QED
    BY <1>3, <2>1
<1>6. /\ DOMAIN Artifacts = 1..(n + k)
      /\ \A i \in 1..n : Artifacts[i] = EvidenceAt(i)
      /\ \A i \in 1..k : Artifacts[n + i] = TraceAt(i)
  BY <1>1, <1>4, <1>5
<1> QED
  BY <1>6 DEF k

(* A bundle that says of each phase begun what runner and sampler have. *)
Keeps(a, i) ==
  /\ a.role = "phase_evidence" /\ a.phase = Phases[i]
  /\ a.model.intervals = rows[i] /\ a.model.phase = Phases[i]
  /\ a.model.start = phases[i].start /\ a.model.end = phases[i].end
Shaped(artifacts) ==
  /\ DOMAIN artifacts = 1..(N + Traced(N))
  /\ \A i \in 1..N : Keeps(artifacts[i], i)
  /\ \A i \in 1..Traced(N) : artifacts[N + i].role = "stage_trace" /\ artifacts[N + i].phase = Phases[i + 1]

LEMMA ArtifactsShaped ==
  ASSUME N \in 0..6
  PROVE  Shaped(Artifacts)
<1>1. \A i : Keeps(EvidenceAt(i), i)
  BY DEF Keeps, EvidenceAt, EvidenceOf
<1>2. \A i : TraceAt(i).role = "stage_trace" /\ TraceAt(i).phase = Phases[i + 1]
  BY DEF TraceAt
<1> QED
  BY <1>1, <1>2, ArtifactsAre DEF Shaped

(* What a bundle's evidence and traces are, by phase. *)
LEMMA PhaseNamed ==
  /\ \A i \in 1..6 : Phases[i] \in PhaseNames
  /\ \A i, j \in 1..6 : Phases[i] = Phases[j] => i = j
<1>1. \A i \in 1..6 : Phases[i] \in PhaseNames
  BY PhasesInOrder DEF PhaseNames, Range
<1>2. 1..6 = {1, 2, 3, 4, 5, 6}
  OBVIOUS
<1>3. \A i, j \in {1, 2, 3, 4, 5, 6} : Phases[i] = Phases[j] => i = j
  BY PhasesInOrder
<1> QED
  BY <1>1, <1>2, <1>3

LEMMA ModelOfPhase ==
  ASSUME NEW n \in 0..6, n = N, NEW r, Shaped(r.artifacts), NEW i \in 1..n
  PROVE  ModelsOf(r, "phase_evidence")[Phases[i]] = r.artifacts[i].model
<1> DEFINE A == r.artifacts  p == Phases[i]
           Is(j) == A[j].role = "phase_evidence" /\ A[j].phase = p
<1>1. i \in 1..6 /\ p \in PhaseNames /\ i \in DOMAIN A
  BY PhaseNamed DEF Shaped, Traced
<1>2. Is(i)
  BY DEF Shaped, Keeps
<1>3. ASSUME NEW j \in DOMAIN A, Is(j) PROVE j = i
  <2>1. CASE j \in 1..n
    BY <1>1, <1>3, <2>1, PhaseNamed DEF Shaped, Keeps
  <2>2. CASE j \notin 1..n
    <3>1. j \in 1..(n + Traced(n)) /\ Traced(n) \in Nat
      BY DEF Shaped, Traced
    <3>2. j - n \in 1..Traced(n) /\ n + (j - n) = j
      BY <2>2, <3>1
    <3>3. A[j].role = "stage_trace"
      BY <3>2 DEF Shaped
    <3> QED
      BY <1>3, <3>3
  <2> QED
    BY <2>1, <2>2
<1>4. <<"phase_evidence", p>> \in Roles(r)
  BY <1>1, <1>2 DEF Roles
<1>5. ModelsOf(r, "phase_evidence")[p] = A[CHOOSE j \in DOMAIN A : Is(j)].model
  BY <1>1, <1>4 DEF ModelsOf
<1> HIDE DEF A, p, Is
<1>6. (CHOOSE j \in DOMAIN A : Is(j)) = i
  BY <1>1, <1>2, <1>3
<1> QED
  BY <1>5, <1>6 DEF A, p

LEMMA NoModelAfter ==
  ASSUME NEW n \in 0..6, n = N, NEW r, Shaped(r.artifacts), NEW i \in (n + 1)..6
  PROVE  ModelsOf(r, "phase_evidence")[Phases[i]] = None
<1> DEFINE A == r.artifacts
<1>1. i \in 1..6 /\ Phases[i] \in PhaseNames /\ i \notin 1..n
  BY PhaseNamed
<1>2. ASSUME NEW j \in DOMAIN A, A[j].role = "phase_evidence" PROVE A[j].phase # Phases[i]
  <2>1. CASE j \in 1..n
    BY <1>1, <2>1, PhaseNamed DEF Shaped, Keeps
  <2>2. CASE j \notin 1..n
    <3>1. j \in 1..(n + Traced(n)) /\ Traced(n) \in Nat
      BY DEF Shaped, Traced
    <3>2. j - n \in 1..Traced(n) /\ n + (j - n) = j
      BY <2>2, <3>1
    <3> QED
      BY <1>2, <3>2 DEF Shaped
  <2> QED
    BY <2>1, <2>2
<1>3. <<"phase_evidence", Phases[i]>> \notin Roles(r)
  BY <1>2 DEF Roles
<1> QED
  BY <1>1, <1>3 DEF ModelsOf

LEMMA ThirdTrace ==
  ASSUME N = 6, NEW r, r.artifacts = Artifacts
  PROVE  LET t == ModelsOf(r, "stage_trace")["degraded"] IN t = TraceOf(3)
<1> DEFINE A == r.artifacts
           Is(j) == A[j].role = "stage_trace" /\ A[j].phase = "degraded"
<1>1. Shaped(A) /\ Traced(6) = 4
  BY ArtifactsShaped DEF Traced
<1>2. 8 \in DOMAIN A /\ A[8] = TraceAt(2)
  BY <1>1, ArtifactsAre
<1>3. Is(8) /\ A[8].model = TraceOf(3)
  BY <1>2, PhasesInOrder DEF TraceAt
<1>4. ASSUME NEW j \in DOMAIN A, Is(j) PROVE j = 8
  <2>1. CASE j \in 1..6
    BY <1>1, <1>4, <2>1 DEF Shaped, Keeps
  <2>2. CASE j \notin 1..6
    <3>1. j \in 1..10
      BY <1>1 DEF Shaped
    <3>2. j - 6 \in 1..4 /\ 6 + (j - 6) = j
      BY <2>2, <3>1
    <3>3. Phases[(j - 6) + 1] = Phases[3]
      BY <1>1, <1>4, <3>2, PhasesInOrder DEF Shaped
    <3>4. (j - 6) + 1 \in 1..6 /\ 3 \in 1..6
      BY <3>2
    <3>5. (j - 6) + 1 = 3
      BY <3>3, <3>4, PhaseNamed
    <3> QED
      BY <3>1, <3>5
  <2> QED
    BY <2>1, <2>2
<1>5. "degraded" \in PhaseNames /\ <<"stage_trace", "degraded">> \in Roles(r)
  BY <1>2, <1>3, PhasesInOrder DEF Roles
<1>6. ModelsOf(r, "stage_trace")["degraded"] = A[CHOOSE j \in DOMAIN A : Is(j)].model
  BY <1>5 DEF ModelsOf
<1> HIDE DEF A, Is
<1>7. (CHOOSE j \in DOMAIN A : Is(j)) = 8
  BY <1>2, <1>3, <1>4
<1> QED
  BY <1>3, <1>6, <1>7

(* Only a run of all six phases has complete evidence of each. *)
LEMMA AllBegun ==
  ASSUME NEW n \in 0..6, n = N, NEW r, Shaped(r.artifacts), AllComplete(ModelsOf(r, "phase_evidence"))
  PROVE  n = 6 /\ \A i \in 1..6 : r.artifacts[i].model # None /\ r.artifacts[i].model.state = "complete"
<1>1. n = 6
  <2> SUFFICES ASSUME n # 6 PROVE FALSE
    OBVIOUS
  <2>1. 6 \in (n + 1)..6 /\ Phases[6] \in PhaseNames
    BY PhaseNamed
  <2>2. ModelsOf(r, "phase_evidence")[Phases[6]] = None
    BY <2>1, NoModelAfter
  <2> QED
    BY <2>1, <2>2 DEF AllComplete
<1>2. ASSUME NEW i \in 1..6 PROVE r.artifacts[i].model # None /\ r.artifacts[i].model.state = "complete"
  <2>1. ModelsOf(r, "phase_evidence")[Phases[i]] = r.artifacts[i].model /\ Phases[i] \in PhaseNames
    BY <1>1, PhaseNamed, ModelOfPhase
  <2> QED
    BY <2>1 DEF AllComplete
<1> QED
  BY <1>1, <1>2

(* Whatever the bundle misreports, it keeps the phases and their rows, and *)
(* its effect is that of the records unless it is claimed of them. *)
Base(r) == r.phases = phases /\ r.status = ended.status
Swapped(artifacts, i, e) == [artifacts EXCEPT ![i].model = e]

LEMMA SwapsKeep ==
  ASSUME N \in 0..6, NEW i \in 1..N, NEW e \in Misread(i)
  PROVE  Shaped(Swapped(Artifacts, i, e))
<1> DEFINE A == Artifacts  B == Swapped(A, i, e)
<1>1. Shaped(A) /\ A[i] = EvidenceAt(i) /\ i \in DOMAIN A
  BY ArtifactsShaped, ArtifactsAre DEF Shaped, Traced
<1>2. DOMAIN B = DOMAIN A /\ \A j \in DOMAIN A : j # i => B[j] = A[j]
  BY DEF Swapped
<1>3. B[i] = [role |-> "phase_evidence", phase |-> Phases[i], model |-> e]
  BY <1>1 DEF Swapped, EvidenceAt
<1>4. /\ e.intervals = rows[i] /\ e.phase = Phases[i]
      /\ e.start = phases[i].start /\ e.end = phases[i].end
  BY DEF Misread, EvidenceOf
<1>5. Keeps(B[i], i)
  BY <1>3, <1>4 DEF Keeps
<1>6. \A j \in 1..Traced(N) : N + j # i /\ N + j \in DOMAIN A
  BY <1>1 DEF Shaped, Traced
<1>7. 1..N \subseteq DOMAIN A
  BY <1>1 DEF Shaped, Traced
<1> HIDE DEF A, B
<1>8. Shaped(B)
  BY <1>1, <1>2, <1>5, <1>6, <1>7 DEF Shaped
<1> QED
  BY <1>8 DEF A, B

LEMMA DraftIs ==
  ASSUME NEW e
  PROVE  Base(Draft(e)) /\ Draft(e).artifacts = Artifacts /\ Draft(e).effect = e
BY DEF Base, Draft

LEMMA MisreportsKeep ==
  ASSUME N \in 0..6, NEW r \in Misreported
  PROVE  /\ Base(r) /\ Shaped(r.artifacts)
         /\ r.effect = Result.effect \/ r.artifacts = Artifacts
<1>1. CASE \E i \in 1..N : \E e \in Misread(i) : r = [Result EXCEPT !.artifacts[i].model = e]
  <2> PICK i \in 1..N : \E e \in Misread(i) : r = [Result EXCEPT !.artifacts[i].model = e]
    BY <1>1
  <2> PICK e \in Misread(i) : r = [Result EXCEPT !.artifacts[i].model = e]
    OBVIOUS
  <2>1. r.phases = phases /\ r.status = ended.status /\ r.effect = Result.effect
        /\ r.artifacts = Swapped(Artifacts, i, e)
    BY DEF Result, Draft, Swapped
  <2> QED
    BY <2>1, SwapsKeep DEF Base
<1>2. CASE r = [Result EXCEPT !.effect = [@ EXCEPT !.state = "verified", !.reason = None]]
  <2>1. r.phases = phases /\ r.status = ended.status /\ r.artifacts = Artifacts
    BY <1>2 DEF Result, Draft
  <2> QED
    BY <2>1, ArtifactsShaped DEF Base
<1> DEFINE Swap(i, e) == [Result EXCEPT !.artifacts[i].model = e]
           Claim == [Result EXCEPT !.effect = [@ EXCEPT !.state = "verified", !.reason = None]]
           I == {i \in 1..N : gaps[i] # None \/ i = 2}
<1>3. Misreported = (UNION {{Swap(i, e) : e \in Misread(i)} : i \in I}) \cup {Claim}
  BY DEF Misreported
<1>4. (\E i \in 1..N : \E e \in Misread(i) : r = Swap(i, e)) \/ r = Claim
  <2>1. I \subseteq 1..N
    OBVIOUS
  <2> HIDE DEF Swap, Claim, I
  <2>2. r \in UNION {{Swap(i, e) : e \in Misread(i)} : i \in I} \/ r = Claim
    BY <1>3, Zenon
  <2>3. ASSUME r \in UNION {{Swap(i, e) : e \in Misread(i)} : i \in I}
        PROVE  \E i \in I : \E e \in Misread(i) : r = Swap(i, e)
    BY <2>3, Zenon
  <2> QED
    BY <2>1, <2>2, <2>3, Zenon
<1> QED
  BY <1>1, <1>2, <1>4

(* What a finished phase without a gap is reported as is what it was. *)
LEMMA TrulyReported ==
  ASSUME NEW i \in 1..N, rows[i] \in Seq(Row), seconds[i] \in Seq(Moment), PhaseTrue(i), gaps[i] = None,
         phases[i].state = "complete"
  PROVE  Reported(Totals(EvidenceOf(i))) = Truly(i)
<1> DEFINE frames == [k \in DOMAIN rows[i] |-> rows[i][k].last - rows[i][k].first]
           rates == [k \in DOMAIN seconds[i] |-> seconds[i][k].rate]
<1>1. Recorded(rows[i], None, pairs[i], seconds[i])
  BY DEF PhaseTrue
<1>2. DOMAIN rows[i] = DOMAIN seconds[i] /\ \A k \in DOMAIN seconds[i] : rows[i][k].last - rows[i][k].first = seconds[i][k].rate
  BY <1>1 DEF Recorded
<1>3. frames = rates
  BY <1>2
<1>4. Totals(EvidenceOf(i)).frames = Total(frames)
  BY DEF Totals, EvidenceOf, TotalOf
<1>5. Totals(EvidenceOf(i)).time = phases[i].end - phases[i].start
  BY DEF Totals, EvidenceOf
<1>6. phases[i].end - phases[i].start = Second * Len(seconds[i])
  BY DEF PhaseTrue, Timed
<1>7. Truly(i) = <<Total(rates), Second * Len(seconds[i])>>
  BY DEF Truly, TotalOf
<1> QED
  BY <1>3, <1>4, <1>5, <1>6, <1>7 DEF Reported

(* Evidence that is accepted goes on from row to row and from phase to phase. *)
LEMMA NotTorn ==
  ASSUME NEW n \in Nat, NEW rs \in Seq(Seq(Row)), Len(rs) = n,
         \A i \in 1..n : \A k \in 2..Len(rs[i]) : rs[i][k].first = rs[i][k - 1].last,
         \A i \in 1..n : i > 1 /\ rs[i] # <<>> /\ rs[i - 1] # <<>> =>
            rs[i][1].first >= rs[i - 1][Len(rs[i - 1])].last
  PROVE  ~Torn(rs)
<1> SUFFICES ASSUME NEW i \in 1..n, TornAt(rs, i) PROVE FALSE
  BY DEF Torn
<1>1. rs[i] \in Seq(Row)
  OBVIOUS
<1>2. CASE \E k \in 2..Len(rs[i]) : rs[i][k].first < rs[i][k - 1].last
  <2> PICK k \in 2..Len(rs[i]) : rs[i][k].first < rs[i][k - 1].last
    BY <1>2
  <2>1. rs[i][k - 1] \in Row
    BY <1>1
  <2>2. rs[i][k - 1].last \in Nat /\ rs[i][k].first = rs[i][k - 1].last
    BY <2>1 DEF Row
  <2> QED
    BY <2>2
<1>3. CASE i > 1 /\ rs[i] # <<>> /\ rs[i - 1] # <<>> /\ rs[i][1].first < rs[i - 1][Len(rs[i - 1])].last
  <2>1. rs[i - 1] \in Seq(Row) /\ rs[i - 1] # <<>> /\ rs[i] # <<>>
    BY <1>3
  <2>2. rs[i - 1][Len(rs[i - 1])] \in Row /\ rs[i][1] \in Row
    BY <1>1, <2>1
  <2>3. rs[i - 1][Len(rs[i - 1])].last \in Nat /\ rs[i][1].first \in Nat
    BY <2>2 DEF Row
  <2> DEFINE a == rs[i][1].first  b == rs[i - 1][Len(rs[i - 1])].last
  <2>4. a >= b /\ a < b
    BY <1>3
  <2> HIDE DEF a, b
  <2>5. a \in Nat /\ b \in Nat
    BY <2>3 DEF a, b
  <2> QED
    BY <2>4, <2>5
<1> QED
  BY <1>2, <1>3 DEF TornAt

Evidence(r, i) == ModelsOf(r, "phase_evidence")[Phases[i]]
LEMMA EvidenceHolds ==
  ASSUME NEW i \in 1..6, NEW r, Linked(manifest, r), Evidence(r, i) # None
  PROVE  /\ CoversPrefix(Evidence(r, i)) /\ WorkersMatch(manifest, r, Evidence(r, i))
         /\ OneGeneration(r, ModelsOf(r, "phase_evidence"))
BY PhaseNamed DEF Linked, ValidEvidence, EvidenceBelongs, Evidence

(* An accepted bundle that keeps the phases: its workers were those asked   *)
(* for, and it is not torn. *)
LEMMA WorkersAsked ==
  ASSUME NEW i \in 1..6, NEW r, WorkersMatch(manifest, r, Evidence(r, i)), r.status = "completed",
         Evidence(r, i).intervals = rows[i], Evidence(r, i).phase = Phases[i],
         DOMAIN rows[i] = DOMAIN seconds[i],
         \A k \in DOMAIN seconds[i] : rows[i][k].workers = seconds[i][k].workers
  PROVE  \A k \in DOMAIN seconds[i] : seconds[i][k].workers = AsMany(i)
BY DEF WorkersMatch, AsMany, Requested, HasFault

LEMMA PrefixGoesOn ==
  ASSUME NEW e, CoversPrefix(e), NEW s \in Seq(Row), e.intervals = s
  PROVE  \A k \in 2..Len(s) : s[k].first = s[k - 1].last
<1> SUFFICES ASSUME NEW k \in 2..Len(s) PROVE s[k].first = s[k - 1].last
  OBVIOUS
<1>1. k \in DOMAIN s /\ k > 1
  OBVIOUS
<1> QED
  BY <1>1 DEF CoversPrefix

LEMMA PhaseBefore ==
  ASSUME NEW i \in 1..6, i > 1
  PROVE  i - 1 \in 1..6 /\ i - 1 \in 1..5 /\ (i - 1) + 1 = i
OBVIOUS

LEMMA GenerationGoesOn ==
  ASSUME NEW r, NEW ev, OneGeneration(r, ev), Len(r.phases) = 6, NEW j \in 1..5,
         NEW a, NEW b, a = ev[r.phases[j].phase], b = ev[r.phases[j + 1].phase], a # None, b # None,
         NEW s \in Seq(Row), NEW t \in Seq(Row), a.intervals = s, b.intervals = t, s # <<>>, t # <<>>
  PROVE  t[1].first >= s[Len(s)].last
<1>1. j \in 1..(Len(r.phases) - 1)
  OBVIOUS
<1>2. Head(t).first >= Last(s).last
  BY <1>1 DEF OneGeneration
<1>3. Head(t) = t[1] /\ Last(s) = s[Len(s)]
  BY DEF Last
<1> QED
  BY <1>2, <1>3

LEMMA RowsGoOn ==
  ASSUME rows \in Seq(Seq(Row)), Len(rows) = 6, \A i \in 1..6 : rows[i] \in Seq(Row), Len(phases) = 6, NEW r, r.phases = phases,
         \A i \in 1..6 : phases[i].phase = Phases[i] /\ Evidence(r, i) # None /\ Evidence(r, i).intervals = rows[i],
         \A i \in 1..6 : CoversPrefix(Evidence(r, i)),
         OneGeneration(r, ModelsOf(r, "phase_evidence"))
  PROVE  ~Torn(rows)
<1>1. \A i \in 1..6 : \A k \in 2..Len(rows[i]) : rows[i][k].first = rows[i][k - 1].last
  <2> TAKE i \in 1..6
  <2> DEFINE e == Evidence(r, i)
  <2>1. e.intervals = rows[i]
    OBVIOUS
  <2>2. CoversPrefix(e) /\ rows[i] \in Seq(Row)
    OBVIOUS
  <2> HIDE DEF e
  <2> QED
    BY <2>1, <2>2, PrefixGoesOn
<1>2. ASSUME NEW i \in 1..6, i > 1, rows[i] # <<>>, rows[i - 1] # <<>>
      PROVE  rows[i][1].first >= rows[i - 1][Len(rows[i - 1])].last
  <2>1. PICK j \in 1..5 : j = i - 1 /\ j \in 1..6 /\ j + 1 = i
    BY <1>2, PhaseBefore
  <2> DEFINE ev == ModelsOf(r, "phase_evidence")
             a == Evidence(r, j)  b == Evidence(r, i)  s == rows[j]  t == rows[i]
  <2>2. a = ev[r.phases[j].phase] /\ b = ev[r.phases[j + 1].phase]
    BY <2>1 DEF Evidence
  <2>3. a # None /\ b # None /\ a.intervals = s /\ b.intervals = t
    BY <2>1
  <2>4. s \in Seq(Row) /\ t \in Seq(Row) /\ s # <<>> /\ t # <<>>
    BY <1>2, <2>1
  <2>5. OneGeneration(r, ev) /\ Len(r.phases) = 6
    OBVIOUS
  <2> HIDE DEF a, b, ev, s, t
  <2>6. t[1].first >= s[Len(s)].last
    BY <2>2, <2>3, <2>4, <2>5, GenerationGoesOn
  <2> QED
    BY <2>1, <2>6 DEF s, t
<1> DEFINE n == 6
<1>3. n \in Nat /\ Len(rows) = n
  OBVIOUS
<1> QED
  BY <1>1, <1>2, <1>3, NotTorn

(* What is judged: its phases and rows, and where its effect comes from. *)
LEMMA JudgedComes ==
  ASSUME N \in 0..6, NEW r \in Misreported \cup {Result}, Linked(manifest, r)
  PROVE  /\ Base(r) /\ Shaped(r.artifacts)
         /\ r.effect = EffectOf(r)
         /\ \E d : d.artifacts = Artifacts /\ r.effect = EffectOf(d)
<1>1. r.effect = EffectOf(r)
  BY DEF Linked, EffectOf
<1>2. /\ Base(Result) /\ Result.artifacts = Artifacts /\ Result.effect = EffectOf(Draft(None))
      /\ Draft(None).artifacts = Artifacts
  BY DraftIs DEF Result
<1>3. CASE r = Result
  BY <1>1, <1>2, <1>3, ArtifactsShaped
<1>4. CASE r \in Misreported
  <2>1. Base(r) /\ Shaped(r.artifacts) /\ (r.effect = Result.effect \/ r.artifacts = Artifacts)
    BY <1>4, MisreportsKeep
  <2> QED
    BY <1>1, <1>2, <2>1
<1> QED
  BY <1>3, <1>4

LEMMA EffectComputed ==
  ASSUME NEW r
  PROVE  EffectOf(r) = Computed(manifest, r, ModelsOf(r, "phase_evidence"), ModelsOf(r, "stage_trace"))
BY DEF EffectOf, Computed

(* The effect of the records themselves. *)
LEMMA RecordsEffect ==
  ASSUME N \in 0..6, NEW d, d.artifacts = Artifacts, EffectOf(d).state = "verified"
  PROVE  /\ N = 6 /\ \A i \in 1..6 : gaps[i] = None
         /\ EffectOf(d).healthy = Reported(Totals(EvidenceOf(2)))
         /\ EffectOf(d).degraded = Reported(Totals(EvidenceOf(3)))
         /\ EffectOf(d).recovery = Reported(Totals(EvidenceOf(5)))
         /\ manifest.version = 2 => /\ ~(Count(DelaysOf(TraceOf(3))) < Enough)
                                    /\ ~(LowerMedian(DelaysOf(TraceOf(3))) < 40)
<1> DEFINE ev == ModelsOf(d, "phase_evidence")  traces == ModelsOf(d, "stage_trace")
<1>1. EffectOf(d) = Computed(manifest, d, ev, traces)
  BY EffectComputed
<1>2. Shaped(d.artifacts)
  BY ArtifactsShaped
<1>3. AllComplete(ev)
  BY <1>1, VerifiedNeeds
<1>4. N = 6 /\ \A i \in 1..6 : d.artifacts[i].model.state = "complete"
  BY <1>2, <1>3, AllBegun
<1>5. \A i \in 1..6 : Artifacts[i] = EvidenceAt(i)
  BY <1>4, ArtifactsAre
<1>6. \A i \in 1..6 : EvidenceOf(i).state = "complete"
  BY <1>4, <1>5 DEF EvidenceAt
<1>7. \A i \in 1..6 : gaps[i] = None
  BY <1>6 DEF EvidenceOf
<1>8. \A i \in 1..6 : ev[Phases[i]] = EvidenceOf(i)
  <2>1. \A i \in 1..6 : ev[Phases[i]] = d.artifacts[i].model
    BY <1>2, <1>4, ModelOfPhase
  <2> QED
    BY <1>5, <2>1 DEF EvidenceAt
<1>9. ev["healthy"] = EvidenceOf(2) /\ ev["degraded"] = EvidenceOf(3) /\ ev["recovery"] = EvidenceOf(5)
  <2>1. 2 \in 1..6 /\ 3 \in 1..6 /\ 5 \in 1..6
    OBVIOUS
  <2> HIDE DEF ev
  <2> QED
    BY <1>8, <2>1, PhasesInOrder
<1>10. traces["degraded"] = TraceOf(3)
  BY <1>4, ThirdTrace
<1> HIDE DEF ev, traces
<1> QED
  BY <1>1, <1>4, <1>7, <1>9, <1>10, VerifiedNeeds

(* What follows for a bundle that is accepted. *)
LEMMA AcceptedAll ==
  ASSUME N \in 0..6, NEW r, Base(r), Shaped(r.artifacts), ValidResult(r), r.effect = EffectOf(r), r.effect.state = "verified"
  PROVE  /\ r.status = "completed" /\ r.phases = phases /\ Len(phases) = 6 /\ phases[6].state = "complete"
         /\ \A i \in 1..6 : /\ Evidence(r, i) # None /\ Evidence(r, i).intervals = rows[i]
                            /\ Evidence(r, i).phase = Phases[i]
<1> DEFINE ev == ModelsOf(r, "phase_evidence")  traces == ModelsOf(r, "stage_trace")
<1>1. r.status = "completed" /\ AllComplete(ev)
  BY EffectComputed, VerifiedNeeds
<1>2. N = 6 /\ \A i \in 1..6 : r.artifacts[i].model # None
  BY <1>1, AllBegun
<1>3. \A i \in 1..6 : Evidence(r, i) = r.artifacts[i].model
  BY <1>2, ModelOfPhase DEF Evidence
<1>4. \A i \in 1..6 : Keeps(r.artifacts[i], i)
  BY <1>2 DEF Shaped
<1>5. Len(r.phases) = 6 /\ Last(r.phases).state = "complete"
  BY <1>1 DEF ValidResult, Finished
<1>6. r.phases = phases
  BY DEF Base
<1>7. Last(phases) = phases[6]
  BY <1>5, <1>6 DEF Last
<1> QED
  BY <1>1, <1>2, <1>3, <1>4, <1>5, <1>6, <1>7 DEF Keeps

LEMMA ElementOf ==
  ASSUME NEW S, NEW s \in Seq(S)
  PROVE  DOMAIN s = 1..Len(s) /\ \A i \in 1..Len(s) : s[i] \in S
OBVIOUS

LEMMA OfSix ==
  ASSUME NEW S, NEW s \in Seq(S), Len(s) = 6
  PROVE  DOMAIN s = 1..6 /\ \A i \in 1..6 : s[i] \in S
BY ElementOf, Zenon

LEMMA VerifiedIsTrue ==
  ASSUME ExperimentInv, NEW r \in Misreported \cup {Result}, Inspected(manifest, r), r.effect.state = "verified"
  PROVE  TrulySo(r.effect)
<1>1. N \in 0..6 /\ RecordsTyped(N) /\ PhasesTrue /\ ReadingTrue /\ manifest \in Manifests
  BY DEF ExperimentInv, ExperimentTyped
<1>2. Linked(manifest, r) /\ ValidResult(r)
  BY DEF Inspected
<1>3. Base(r) /\ Shaped(r.artifacts) /\ r.effect = EffectOf(r)
  BY <1>1, <1>2, JudgedComes
<1>4. PICK d : d.artifacts = Artifacts /\ r.effect = EffectOf(d)
  BY <1>1, <1>2, JudgedComes
<1>5. N = 6 /\ \A i \in 1..6 : gaps[i] = None
  BY <1>1, <1>4, RecordsEffect
<1>6. /\ r.status = "completed" /\ r.phases = phases /\ Len(phases) = 6 /\ phases[6].state = "complete"
      /\ \A i \in 1..6 : /\ Evidence(r, i) # None /\ Evidence(r, i).intervals = rows[i]
                         /\ Evidence(r, i).phase = Phases[i]
  BY <1>1, <1>2, <1>3, AcceptedAll
<1>7. /\ rows \in Seq(Seq(Row)) /\ Len(rows) = 6 /\ \A i \in 1..6 : rows[i] \in Seq(Row)
      /\ \A i \in 1..6 : seconds[i] \in Seq(Moment) /\ pairs[i] \in Seq(Pair)
      /\ DOMAIN seconds = 1..6 /\ DOMAIN gaps = 1..6 /\ DOMAIN rows = 1..6
  <2>1. RecordsTyped(6)
    BY <1>1, <1>5
  <2>2. rows \in Seq(Seq(Row)) /\ Len(rows) = 6
    BY <2>1 DEF RecordsTyped
  <2>3. seconds \in Seq(Seq(Moment)) /\ Len(seconds) = 6
    BY <2>1 DEF RecordsTyped
  <2>4. pairs \in Seq(Seq(Pair)) /\ Len(pairs) = 6
    BY <2>1 DEF RecordsTyped
  <2>5. gaps \in Seq(Reasons \cup {None}) /\ Len(gaps) = 6
    BY <2>1 DEF RecordsTyped
  <2> QED
    BY <2>2, <2>3, <2>4, <2>5, OfSix
<1>8. \A i \in 1..6 : PhaseTrue(i) /\ phases[i].state = "complete" /\ phases[i].phase = Phases[i]
  <2> TAKE i \in 1..6
  <2>1. PhaseTrue(i) /\ (i < 6 => phases[i].state = "complete")
    BY <1>1, <1>5 DEF PhasesTrue
  <2> QED
    BY <1>6, <2>1 DEF PhaseTrue
<1>9. \A i \in 1..6 : Second * Len(seconds[i]) = manifest.phases[i].duration
  BY <1>8 DEF PhaseTrue, Timed
<1>10. \A i \in 1..6 : /\ CoversPrefix(Evidence(r, i)) /\ WorkersMatch(manifest, r, Evidence(r, i))
                       /\ OneGeneration(r, ModelsOf(r, "phase_evidence"))
  BY <1>2, <1>6, EvidenceHolds
<1>11. \A i \in 1..6 : DOMAIN rows[i] = DOMAIN seconds[i] /\ Len(pairs[i]) = Len(seconds[i])
          /\ \A k \in DOMAIN seconds[i] : /\ rows[i][k].workers = seconds[i][k].workers
                                          /\ pairs[i][k].entered = IF seconds[i][k].paced THEN 50 ELSE 0
  <2> TAKE i \in 1..6
  <2>1. Recorded(rows[i], None, pairs[i], seconds[i]) /\ rows[i] \in Seq(Row) /\ seconds[i] \in Seq(Moment)
    BY <1>5, <1>7, <1>8 DEF PhaseTrue
  <2> QED
    BY <2>1 DEF Recorded
<1>12. \A i \in 1..6 : \A k \in DOMAIN seconds[i] : seconds[i][k].workers = AsMany(i)
  <2> TAKE i \in 1..6
  <2> QED
    BY <1>6, <1>10, <1>11, WorkersAsked
<1>13. ~Torn(rows)
  <2>1. OneGeneration(r, ModelsOf(r, "phase_evidence"))
    <3>1. 1 \in 1..6
      OBVIOUS
    <3> QED
      BY <1>10, <3>1
  <2>2. \A i \in 1..6 : phases[i].phase = Phases[i] /\ Evidence(r, i) # None /\ Evidence(r, i).intervals = rows[i]
    BY <1>6, <1>8
  <2>3. \A i \in 1..6 : CoversPrefix(Evidence(r, i))
    BY <1>10
  <2>4. rows \in Seq(Seq(Row)) /\ Len(rows) = 6 /\ \A i \in 1..6 : rows[i] \in Seq(Row)
    BY <1>7
  <2>5. Len(phases) = 6 /\ r.phases = phases
    BY <1>6
  <2> QED
    BY <2>1, <2>2, <2>3, <2>4, <2>5, RowsGoOn
<1>14. \E g \in {0, 1} : AllOf(seconds, g)
  <2>1. Ungapped(gaps)
    BY <1>5, <1>7 DEF Ungapped
  <2>2. CASE lapse = "reset"
    BY <1>1, <1>13, <2>1, <2>2 DEF ReadingTrue
  <2>3. CASE lapse # "reset"
    BY <1>1, <1>5, <1>7, <2>3 DEF ReadingTrue, AllOf
  <2> QED
    BY <2>2, <2>3
<1>15. \A i, j \in 2..5 : \A k \in DOMAIN seconds[i], l \in DOMAIN seconds[j] :
         seconds[i][k].generation = seconds[j][l].generation
  <2> PICK g \in {0, 1} : AllOf(seconds, g)
    BY <1>14
  <2>1. 2..5 \subseteq DOMAIN seconds
    BY <1>7
  <2> QED
    BY <2>1 DEF AllOf
<1>16. \A i \in 1..6 : Reported(Totals(EvidenceOf(i))) = Truly(i)
  BY <1>5, <1>7, <1>8, TrulyReported
<1>17. <<r.effect.healthy, r.effect.degraded, r.effect.recovery>> = <<Truly(2), Truly(3), Truly(5)>>
  <2>1. /\ r.effect.healthy = Reported(Totals(EvidenceOf(2)))
        /\ r.effect.degraded = Reported(Totals(EvidenceOf(3)))
        /\ r.effect.recovery = Reported(Totals(EvidenceOf(5)))
    BY <1>1, <1>4, RecordsEffect
  <2>2. 2 \in 1..6 /\ 3 \in 1..6 /\ 5 \in 1..6
    OBVIOUS
  <2> QED
    BY <1>16, <2>1, <2>2
<1>18. manifest.version = 2 => \E k \in DOMAIN seconds[3] : seconds[3][k].paced
  <2> SUFFICES ASSUME manifest.version = 2 PROVE \E k \in DOMAIN seconds[3] : seconds[3][k].paced
    OBVIOUS
  <2>1. ~(Count(DelaysOf(TraceOf(3))) < Enough) /\ ~(LowerMedian(DelaysOf(TraceOf(3))) < 40)
    BY <1>1, <1>4, RecordsEffect
  <2> DEFINE secs == seconds[3]  pair == pairs[3]  trace == TraceOf(3)
  <2>2. trace.streams = << pair >>
    BY DEF TraceOf
  <2>3. /\ secs \in Seq(Moment) /\ pair \in Seq(Pair) /\ Len(pair) = Len(secs)
        /\ \A k \in DOMAIN secs : pair[k].entered = IF secs[k].paced THEN 50 ELSE 0
    <3>1. 3 \in 1..6
      OBVIOUS
    <3> QED
      BY <1>7, <1>11, <3>1
  <2> HIDE DEF secs, pair, trace
  <2>4. \E k \in DOMAIN secs : secs[k].paced
    BY <2>1, <2>2, <2>3, PacedSecond DEF trace
  <2> QED
    BY <2>4 DEF secs
<1> QED
  BY <1>7, <1>9, <1>12, <1>15, <1>17, <1>18 DEF TrulySo

LEMMA EffectStep ==
  ASSUME ExperimentInv, VerifiedEffect, [ExperimentNext]_experimentVars
  PROVE  VerifiedEffect'
<1>1. CASE Inspect
  <2>1. UNCHANGED <<manifest, seconds>>
    BY <1>1 DEF Inspect
  <2>2. PICK r \in Misreported \cup {Result} : Judge(r)
    BY <1>1 DEF Inspect
  <2>3. inspection'.accepted = Inspected(manifest, r) /\ inspection'.effect = r.effect
    BY <2>2 DEF Judge
  <2>4. ASSUME Inspected(manifest, r), r.effect.state = "verified" PROVE TrulySo(r.effect)
    BY <2>4, VerifiedIsTrue
  <2>5. \A e : TrulySo(e) => TrulySo(e)'
    BY <2>1 DEF TrulySo, Truly, AsMany, Requested, HasFault, TotalOf
  <2> QED
    BY <2>3, <2>4, <2>5 DEF VerifiedEffect
<1>2. CASE ~Inspect
  <2>1. inspection' = None \/ UNCHANGED <<manifest, seconds, inspection>>
    <3>1. ended = None => inspection = None
      BY DEF ExperimentInv, ExperimentTyped
    <3> QED
      BY <1>2, <3>1 DEF ExperimentNext, NextPhase, EndPhase, Reset, StartFault, StopFault, Passes, Abort, StartFails,
         WorkerExits, Finish, SlipEarly, SlipWorkers, SlipReset, Proceeds, experimentVars
  <2>2. UNCHANGED <<manifest, seconds, inspection>> => VerifiedEffect'
    BY DEF VerifiedEffect, TrulySo, Truly, AsMany, Requested, HasFault, TotalOf
  <2> QED
    BY <2>1, <2>2 DEF VerifiedEffect
<1> QED
  BY <1>1, <1>2

(* Whatever runner and sampler do, and whichever of them lapses once: the  *)
(* phases are as planned, the rows of a phase without a gap are its seconds *)
(* one by one, and a counter reset that went unnoticed shows in the rows   *)
(* unless nothing was read before it or nothing after. *)
THEOREM ExperimentsAreTrue == ExperimentSpec => []ExperimentInv
<1>1. ExperimentInit => ExperimentInv
  BY ExperimentBegins
<1>2. ExperimentInv /\ [ExperimentNext]_experimentVars => ExperimentInv'
  BY ExperimentStep
<1> QED
  BY <1>1, <1>2, PTL DEF ExperimentSpec

(* An accepted and verified effect is what happened: all six phases ran as *)
(* planned, on one generation of the camera from healthy to recovery, with *)
(* the requested workers, at the reported rates, and a verified pacing was *)
(* in force, for every manifest and any length of its phases. *)
THEOREM EffectsAreTrue == ExperimentSpec => []VerifiedEffect
<1>1. ExperimentInit => VerifiedEffect
  BY DEF ExperimentInit, VerifiedEffect
<1>2. ExperimentInv /\ VerifiedEffect /\ [ExperimentNext]_experimentVars => VerifiedEffect'
  BY EffectStep
<1>3. ExperimentSpec => []ExperimentInv
  BY ExperimentsAreTrue
<1> QED
  BY <1>1, <1>2, <1>3, PTL DEF ExperimentSpec
-----------------------------------------------------------------------------
(* What an honest producer has.  The rows of a phase follow one another    *)
(* from its beginning, with the workers there should be. *)
LastOf(i) == rows[i][Len(rows[i])].last
RowTrue(i, k, row) ==
  /\ row.from = phases[i].start + Second * (k - 1) /\ row.to = row.from + Second
  /\ row.first <= row.last /\ row.workers = AsMany(i) /\ row.cpu <= Second * AsMany(i)
RowsFollow(i) ==
  /\ Len(rows[i]) <= Len(seconds[i])
  /\ \A k \in DOMAIN rows[i] : RowTrue(i, k, rows[i][k]) /\ (k > 1 => rows[i][k].first = rows[i][k - 1].last)
GoesOn(i) ==
  (rows[i] # <<>> /\ rows[i + 1] # <<>>) =>
    /\ LastOf(i) <= rows[i + 1][1].first
    /\ (i = 3 /\ gaps[3] = None) => LastOf(3) = rows[4][1].first
(* The camera has not gone back of what was read last, in this phase or,   *)
(* as long as nothing was, in the one before. *)
UpToNow(i, exactly) == rows[i] # <<>> => LastOf(i) <= shown /\ (exactly => LastOf(i) = shown)
ReadSoFar ==
  (generation = 0 /\ N > 0) =>
    /\ UpToNow(N, gaps[N] = None)
    /\ (N > 1 /\ rows[N] = <<>>) => UpToNow(N - 1, N = 4 /\ gaps[3] = None /\ gaps[4] = None)
RowsTrue ==
  /\ \A i \in 1..N : RowsFollow(i)
  /\ \A i \in 1..N - 1 : GoesOn(i)
  /\ ReadSoFar

(* The phases follow one another but for the waits, and last at most as    *)
(* long as planned. *)
Waited(i) == IF HasFault /\ i \in {2, 4} THEN 0..MaxWait ELSE {0}
Lasts(i) ==
  /\ Second * Len(seconds[i]) <= manifest.phases[i].duration
  /\ phases[i].end # None => phases[i].end = phases[i].start + Second * Len(seconds[i])
TimesTrue ==
  /\ N > 0 => phases[1].start = 0
  /\ \A i \in 1..N : Lasts(i)
  /\ \A i \in 1..N - 1 : phases[i + 1].start - phases[i].end \in Waited(i)

(* The fault is not begun, in force, or over; its times are those of the   *)
(* phases around it. *)
Unneeded == Cleaned("not_required", None, None, None, 0)
AtRest == IF N = 0 THEN clock = 0 ELSE ~InPhase => clock = phases[N].end
Idle == action = NoAction /\ cleanup = Unneeded /\ workers = 0 /\ (HasFault => N <= 2) /\ AtRest
Acting ==
  /\ HasFault /\ N \in 2..4 /\ workers = Requested /\ cleanup = Unneeded /\ action.started <= clock
  /\ action = [NoAction EXCEPT !.state = "started", !.started = action.started]
  /\ IF N = 2 THEN ~InPhase /\ action.started = clock /\ clock - phases[2].end \in 0..MaxWait
     ELSE action.started = phases[3].start /\ AtRest
Over ==
  /\ HasFault /\ N \in 4..6 /\ workers = 0 /\ phases[3].start <= phases[4].end /\ phases[4].end <= clock
  /\ action = [NoAction EXCEPT !.state = "stopped", !.started = phases[3].start, !.stopped = phases[4].end]
  /\ cleanup = Cleaned("restored", None, phases[4].end, cleanup.ended, 0)
  /\ IF N = 4 THEN ~InPhase /\ cleanup.ended = clock /\ clock - phases[4].end \in 0..MaxWait
     ELSE cleanup.ended = phases[5].start /\ AtRest
FaultTrue == ended = None => Idle \/ Acting \/ Over

(* How the run ended. *)
Covered == action.started # None =>
  /\ cleanup.state # "not_required"
  /\ cleanup.state = "restored" => action.stopped # None /\ action.stopped <= cleanup.ended
EndedWhole ==
  /\ ended = [status |-> "completed", reason |-> None]
  /\ Available /\ N = 6 /\ phases[6].state = "complete" /\ (Idle \/ Over)
EndedShort ==
  /\ ended.status = "aborted" /\ ended.reason \in ReasonsOf("aborted") /\ Available
  /\ action.id = NoAction.id /\ ValidAction(action) /\ ValidCleanup(cleanup) /\ Covered
EndedUnbegun ==
  /\ ended = [status |-> "unsupported", reason |-> manifest.adapter.reason]
  /\ ~Available /\ N = 0 /\ cleanup = Unneeded
EndTrue ==
  ended # None =>
    /\ ~InPhase /\ (N > 0 /\ gaps[N] = None => phases[N].state = "complete")
    /\ EndedWhole \/ EndedShort \/ EndedUnbegun

Begun == Available \/ N = 0
HonestInv == lapse = None => RowsTrue /\ TimesTrue /\ FaultTrue /\ EndTrue /\ Begun

(* What is as it was: rows of a phase, and how they go on. *)
LEMMA RowsKept ==
  ASSUME NEW i, RowsFollow(i), manifest' = manifest, rows'[i] = rows[i], seconds'[i] = seconds[i],
         phases'[i].start = phases[i].start
  PROVE  RowsFollow(i)'
BY DEF RowsFollow, RowTrue, AsMany, Requested, HasFault

LEMMA GoesOnKept ==
  ASSUME NEW i \in Nat, GoesOn(i), rows'[i] = rows[i], rows'[i + 1] = rows[i + 1], gaps'[3] = None => (i = 3 => gaps[3] = None)
  PROVE  GoesOn(i)'
<1>1. i = 3 => i + 1 = 4
  OBVIOUS
<1> QED
  BY <1>1 DEF GoesOn, LastOf

LEMMA LastsKept ==
  ASSUME NEW i, Lasts(i), manifest' = manifest, seconds'[i] = seconds[i], phases'[i] = phases[i]
  PROVE  Lasts(i)'
BY DEF Lasts

(* Nothing is read. *)
LEMMA RowsLeft ==
  ASSUME N \in 0..6, RowsTrue, UNCHANGED <<manifest, rows, seconds>>, N' = N,
         \A i \in 1..N : phases'[i].start = phases[i].start /\ (gaps'[i] = None => gaps[i] = None),
         generation' = 1 \/ UNCHANGED <<generation, shown>>
  PROVE  RowsTrue'
<1>1. PICK n \in 0..6 : n = N /\ n = N'
  OBVIOUS
<1>2. \A i \in 1..n : RowsFollow(i)'
  BY <1>1, RowsKept DEF RowsTrue
<1>3. ASSUME NEW i \in 1..n - 1 PROVE GoesOn(i)'
  <2>1. GoesOn(i) /\ i \in Nat /\ i \in 1..n
    BY <1>1 DEF RowsTrue
  <2> QED
    BY <1>1, <2>1, GoesOnKept
<1>4. ReadSoFar'
  <2> SUFFICES ASSUME generation' = 0, n > 0
               PROVE  (/\ UpToNow(n, gaps[n] = None)
                       /\ (n > 1 /\ rows[n] = <<>>) => UpToNow(n - 1, n = 4 /\ gaps[3] = None /\ gaps[4] = None))'
    BY <1>1 DEF ReadSoFar
  <2>1. UNCHANGED <<generation, shown>>
    OBVIOUS
  <2>2. UpToNow(n, gaps[n] = None) /\ ((n > 1 /\ rows[n] = <<>>) => UpToNow(n - 1, n = 4 /\ gaps[3] = None /\ gaps[4] = None))
    BY <1>1, <2>1 DEF RowsTrue, ReadSoFar
  <2>3. gaps'[n] = None => gaps[n] = None
    BY <1>1
  <2>4. n = 4 /\ gaps'[3] = None /\ gaps'[4] = None => n = 4 /\ gaps[3] = None /\ gaps[4] = None
    BY <1>1
  <2> QED
    BY <2>1, <2>2, <2>3, <2>4 DEF UpToNow, LastOf
<1> QED
  BY <1>1, <1>2, <1>3, <1>4 DEF RowsTrue

LEMMA TimesLeft ==
  ASSUME N \in 0..6, TimesTrue, UNCHANGED <<manifest, phases, seconds>>
  PROVE  TimesTrue'
BY DEF TimesTrue, Lasts, Waited, HasFault, N

(* A phase begins. *)
LEMMA RowsBegin ==
  ASSUME ExperimentTyped, RowsTrue, BeginPhase, manifest' = manifest, N' = N + 1, N < 6
  PROVE  RowsTrue'
<1>1. PICK n \in 0..5 : n = N /\ n + 1 = N' /\ RecordsTyped(n)
  BY DEF ExperimentTyped
<1>2. /\ \A i \in 1..n : /\ rows'[i] = rows[i] /\ seconds'[i] = seconds[i] /\ gaps'[i] = gaps[i]
                         /\ phases'[i].start = phases[i].start
      /\ rows'[n + 1] = <<>> /\ seconds'[n + 1] = <<>>
      /\ UNCHANGED <<shown, generation>>
  BY <1>1 DEF BeginPhase, RecordsTyped, machine
<1>3. ASSUME NEW i \in 1..n + 1 PROVE RowsFollow(i)'
  <2>1. CASE i \in 1..n
    BY <1>1, <1>2, <2>1, RowsKept DEF RowsTrue
  <2>2. CASE i = n + 1
    BY <1>2, <2>2 DEF RowsFollow
  <2> QED
    BY <2>1, <2>2
<1>4. ASSUME NEW i \in 1..n PROVE GoesOn(i)'
  <2>1. CASE i \in 1..n - 1
    <3>1. GoesOn(i) /\ i + 1 \in 1..n /\ i \in Nat
      BY <1>1, <2>1 DEF RowsTrue
    <3>2. i = 3 => gaps'[3] = gaps[3]
      BY <1>2
    <3> QED
      BY <1>2, <3>1, <3>2, GoesOnKept
  <2>2. CASE i = n
    BY <1>2, <2>2 DEF GoesOn
  <2> QED
    BY <2>1, <2>2
<1>5. ReadSoFar'
  <2> SUFFICES ASSUME generation' = 0
               PROVE  (/\ UpToNow(n + 1, gaps[n + 1] = None)
                       /\ n + 1 > 1 => UpToNow((n + 1) - 1, n + 1 = 4 /\ gaps[3] = None /\ gaps[4] = None))'
    BY <1>1 DEF ReadSoFar
  <2>1. UpToNow(n + 1, gaps[n + 1] = None)'
    BY <1>2 DEF UpToNow
  <2>2. ASSUME n > 0 PROVE UpToNow(n, n + 1 = 4 /\ gaps[3] = None /\ gaps[4] = None)'
    <3>1. UpToNow(n, gaps[n] = None) /\ n \in 1..n
      BY <1>1, <1>2, <2>2 DEF RowsTrue, ReadSoFar
    <3>2. n + 1 = 4 => n = 3
      OBVIOUS
    <3> QED
      BY <1>2, <3>1, <3>2 DEF UpToNow, LastOf
  <2>3. (n + 1) - 1 = n /\ (n + 1 > 1 => n > 0)
    OBVIOUS
  <2> QED
    BY <2>1, <2>2, <2>3
<1>6. (n + 1) - 1 = n
  OBVIOUS
<1> QED
  BY <1>1, <1>3, <1>4, <1>5, <1>6 DEF RowsTrue

LEMMA TimesBegin ==
  ASSUME ExperimentTyped, TimesTrue, FaultTrue, ended = None, ~InPhase, BeginPhase, manifest' = manifest,
         N' = N + 1, N < 6
  PROVE  TimesTrue'
<1>1. PICK n \in 0..5 : n = N /\ n + 1 = N' /\ RecordsTyped(n)
  BY DEF ExperimentTyped
<1>2. /\ \A i \in 1..n : seconds'[i] = seconds[i] /\ phases'[i] = phases[i]
      /\ seconds'[n + 1] = <<>> /\ phases'[n + 1].start = clock /\ phases'[n + 1].end = None
  BY <1>1 DEF BeginPhase, RecordsTyped
<1>3. \A i \in 1..n : Lasts(i)'
  BY <1>1, <1>2, LastsKept DEF TimesTrue
<1>4. Lasts(n + 1)'
  <2>1. manifest.phases[n + 1].duration \in Nat
    BY ManifestsPlanned DEF ExperimentTyped
  <2> QED
    BY <1>2, <2>1 DEF Lasts, Second
<1>5. n = 0 => clock = 0
  BY <1>1 DEF FaultTrue, Idle, Acting, Over, AtRest
<1>6. n > 0 => clock - phases[n].end \in Waited(n)
  <2> SUFFICES ASSUME n > 0 PROVE clock - phases[n].end \in Waited(n)
    OBVIOUS
  <2>0. clock \in Nat /\ MaxWait \in Nat
    BY WaitAssumption DEF ExperimentTyped
  <2>1. AtRest => clock - phases[n].end \in Waited(n)
    <3>1. AtRest => clock = phases[n].end
      BY <1>1 DEF AtRest
    <3>2. clock - clock = 0 /\ 0 \in 0..MaxWait
      BY <2>0
    <3> QED
      BY <3>1, <3>2 DEF Waited
  <2>2. (Acting /\ n = 2) \/ (Over /\ n = 4) => clock - phases[n].end \in Waited(n)
    BY <1>1 DEF Acting, Over, Waited
  <2>3. Idle => AtRest
    BY DEF Idle
  <2>4. Acting /\ n # 2 => AtRest
    BY <1>1 DEF Acting
  <2>5. Over /\ n # 4 => AtRest
    BY <1>1 DEF Over
  <2> QED
    BY <2>1, <2>2, <2>3, <2>4, <2>5 DEF FaultTrue
<1>7. n > 0 => phases'[1] = phases[1]
  BY <1>2
<1>8. phases'[1].start = 0
  <2>1. n = 0 => n + 1 = 1
    OBVIOUS
  <2> QED
    BY <1>1, <1>2, <1>5, <1>7, <2>1 DEF TimesTrue
<1>9. ASSUME NEW i \in 1..n PROVE (phases[i + 1].start - phases[i].end \in Waited(i))'
  <2>1. CASE i \in 1..n - 1
    <3>1. i \in 1..n /\ i + 1 \in 1..n
      BY <2>1
    <3> QED
      BY <1>1, <1>2, <2>1, <3>1 DEF TimesTrue, Waited, HasFault
  <2>2. CASE i = n
    BY <1>2, <1>6, <2>2 DEF Waited, HasFault
  <2> QED
    BY <2>1, <2>2
<1>10. (n + 1) - 1 = n /\ \A i \in 1..n + 1 : i \in 1..n \/ i = n + 1
  OBVIOUS
<1> QED
  BY <1>1, <1>3, <1>4, <1>8, <1>9, <1>10 DEF TimesTrue

LEMMA FaultBegins ==
  ASSUME ExperimentTyped, FaultTrue, NextPhase, N' = N + 1
  PROVE  FaultTrue'
<1>1. PICK n \in 0..5 : n = N /\ n + 1 = N' /\ RecordsTyped(n)
  BY DEF ExperimentTyped, NextPhase
<1>2. /\ \A i \in 1..n : phases'[i] = phases[i]
      /\ phases'[n + 1].start = clock /\ phases'[n + 1].end = None
  BY <1>1 DEF NextPhase, BeginPhase, RecordsTyped
<1>3. /\ UNCHANGED <<manifest, clock, workers, action, cleanup>> /\ ~InPhase /\ ended = None
      /\ (n = 2 /\ HasFault) => action.state = "started"
      /\ (n = 4 /\ HasFault) => cleanup.state = "restored"
  BY <1>1 DEF NextPhase, BeginPhase, machine, Proceeds
<1>4. InPhase' /\ AtRest'
  BY <1>1, <1>2 DEF InPhase, AtRest
<1>5. UNCHANGED <<HasFault, Requested>>
  BY <1>3 DEF HasFault, Requested
<1>6. CASE Idle
  <2>1. HasFault => n # 2
    BY <1>1, <1>3, <1>6 DEF Idle, NoAction
  <2> QED
    BY <1>1, <1>3, <1>4, <1>5, <1>6, <2>1 DEF Idle, FaultTrue
<1>7. CASE Acting
  <2>1. n \in 2..3
    BY <1>1, <1>3, <1>7 DEF Acting, Unneeded, Cleaned
  <2>2. n = 2 => action.started = phases'[3].start
    BY <1>1, <1>2, <1>7 DEF Acting
  <2>3. n = 3 => action.started = phases'[3].start
    BY <1>1, <1>2, <1>7 DEF Acting
  <2> QED
    BY <1>1, <1>3, <1>4, <1>5, <1>7, <2>1, <2>2, <2>3 DEF Acting, FaultTrue
<1>8. CASE Over
  <2>1. n \in 4..5
    BY <1>1, <1>8 DEF Over
  <2>2. n = 4 => cleanup.ended = phases'[5].start
    BY <1>1, <1>2, <1>8 DEF Over
  <2>3. n = 5 => cleanup.ended = phases'[5].start
    BY <1>1, <1>2, <1>8 DEF Over
  <2>4. phases'[3] = phases[3] /\ phases'[4] = phases[4]
    BY <1>2, <2>1
  <2> QED
    BY <1>1, <1>3, <1>4, <1>5, <1>8, <2>1, <2>2, <2>3, <2>4 DEF Over, FaultTrue
<1> QED
  BY <1>3, <1>6, <1>7, <1>8 DEF FaultTrue

LEMMA TimesTyped ==
  ASSUME ExperimentTyped, PhasesTrue
  PROVE  \A i \in 1..N : phases[i].start \in Nat /\ phases[i].end \in Nat \cup {None} /\ (i < N => phases[i].end \in Nat)
<1> TAKE i \in 1..N
<1>1. phases[i] \in Actual
  BY DEF ExperimentTyped, RecordsTyped
<1>2. i < N => phases[i].end # None
  BY DEF PhasesTrue, PhaseTrue, Timed
<1> QED
  BY <1>1, <1>2 DEF Actual

(* The fault and its times while phases, but for an end, stay as they are. *)
LEMMA FaultLeft ==
  ASSUME ExperimentTyped, PhasesTrue, FaultTrue, N \in 0..6, N' = N, UNCHANGED <<manifest, workers, action, cleanup>>,
         InPhase \/ UNCHANGED <<clock, phases>>, clock \in Nat, clock' \in Nat, clock <= clock', ended' = None => ended = None,
         \A i \in 1..N : phases'[i].start = phases[i].start /\ (i < N => phases'[i] = phases[i]),
         InPhase => InPhase' \/ clock' = phases'[N].end
  PROVE  FaultTrue'
<1> SUFFICES ASSUME ended = None PROVE FaultTrue'
  BY DEF FaultTrue
<1>1. UNCHANGED <<HasFault, Requested>>
  BY DEF HasFault, Requested
<1>2. CASE ~InPhase
  <2>1. phases' = phases /\ clock' = clock /\ N' = N /\ ~InPhase'
    BY <1>2 DEF InPhase
  <2> QED
    BY <1>1, <2>1 DEF FaultTrue, Idle, Acting, Over, AtRest, InPhase
<1>3. CASE InPhase
  <2>0. PICK n \in 1..6 : n = N /\ n = N'
    BY <1>3 DEF InPhase
  <2>1. AtRest'
    BY <1>3, <2>0 DEF AtRest, InPhase
  <2>2. CASE Idle
    BY <1>1, <2>0, <2>1, <2>2 DEF Idle, FaultTrue
  <2>5. \A t \in Nat : t <= clock => t <= clock'
    OBVIOUS
  <2>6. n \in 1..n /\ \A i \in 1..n : phases[i].start \in Nat /\ (i < n => phases[i].end \in Nat)
    BY <2>0, TimesTyped
  <2>3. CASE Acting
    <3>1. n \in 3..4 /\ phases'[3].start = phases[3].start
      BY <1>3, <2>0, <2>3 DEF Acting
    <3>2. action.started <= clock'
      BY <2>0, <2>3, <2>5, <2>6, <3>1 DEF Acting
    <3> QED
      BY <1>1, <2>0, <2>1, <2>3, <3>1, <3>2 DEF Acting, FaultTrue
  <2>4. CASE Over
    <3>1. n \in 5..6 /\ phases'[3] = phases[3] /\ phases'[4] = phases[4] /\ phases'[5].start = phases[5].start
      BY <1>3, <2>0, <2>4 DEF Over
    <3>2. phases[4].end <= clock'
      BY <2>0, <2>4, <2>5, <2>6, <3>1 DEF Over
    <3> QED
      BY <1>1, <2>0, <2>1, <2>4, <3>1, <3>2 DEF Over, FaultTrue
  <2> QED
    BY <2>2, <2>3, <2>4 DEF FaultTrue
<1> QED
  BY <1>2, <1>3

LEMMA FaultStates ==
  /\ Idle => action.state = "not_started"
  /\ Acting => action.state = "started"
  /\ Over => action.state = "stopped"
<1>1. \A s : [NoAction EXCEPT !.state = "started", !.started = s].state = "started"
  BY DEF NoAction
<1>2. \A s, t : [NoAction EXCEPT !.state = "stopped", !.started = s, !.stopped = t].state = "stopped"
  BY DEF NoAction
<1>3. Idle => action.state = "not_started"
  BY DEF Idle, NoAction
<1>4. Acting => action.state = "started"
  BY <1>1 DEF Acting
<1>5. Over => action.state = "stopped"
  BY <1>2 DEF Over
<1> QED
  BY <1>3, <1>4, <1>5

LEMMA FaultStarts ==
  ASSUME ExperimentTyped, FaultTrue, StartFault
  PROVE  FaultTrue' /\ N' = N
<1>1. PICK wait \in 0..MaxWait : clock' = clock + wait /\ action' = [action EXCEPT !.state = "started", !.started = clock + wait]
  BY DEF StartFault
<1>2. /\ N = 2 /\ ~InPhase /\ HasFault /\ action.state = "not_started" /\ ended = None
      /\ UNCHANGED <<manifest, phases, cleanup>> /\ workers' = Requested
  BY DEF StartFault, Proceeds, records
<1>3. Idle /\ clock = phases[2].end
  BY <1>2, FaultStates DEF FaultTrue, Idle, AtRest
<1>4. UNCHANGED <<HasFault, Requested, N, InPhase>>
  BY <1>2 DEF HasFault, Requested, N, InPhase
<1>5. action' = [NoAction EXCEPT !.state = "started", !.started = clock'] /\ action'.started = clock'
  BY <1>1, <1>3 DEF Idle, NoAction
<1>6. clock' - phases'[2].end \in 0..MaxWait
  BY <1>1, <1>2, <1>3, WaitAssumption DEF ExperimentTyped
<1>7. action'.started <= clock'
  BY <1>1, <1>5, WaitAssumption DEF ExperimentTyped
<1>8. Acting'
  BY <1>7, <1>2, <1>3, <1>4, <1>5, <1>6 DEF Acting, Idle
<1> QED
  BY <1>4, <1>8 DEF FaultTrue

LEMMA FaultStops ==
  ASSUME ExperimentTyped, FaultTrue, StopFault
  PROVE  FaultTrue' /\ N' = N
<1>1. PICK wait \in 0..MaxWait :
        /\ clock' = clock + wait /\ action' = [action EXCEPT !.state = "stopped", !.stopped = clock]
        /\ cleanup' = Cleaned("restored", None, clock, clock + wait, 0)
  BY DEF StopFault
<1>2. /\ N = 4 /\ ~InPhase /\ action.state = "started" /\ ended = None
      /\ UNCHANGED <<manifest, phases>> /\ workers' = 0
  BY DEF StopFault, Proceeds, records
<1>3. Acting /\ clock = phases[4].end /\ action.started = phases[3].start
  BY <1>2, FaultStates DEF FaultTrue, Acting, AtRest
<1>4. UNCHANGED <<HasFault, Requested, N, InPhase>>
  BY <1>2 DEF HasFault, Requested, N, InPhase
<1>5. action' = [NoAction EXCEPT !.state = "stopped", !.started = phases[3].start, !.stopped = phases[4].end]
  <2> DEFINE s == action.started
  <2>1. action = [NoAction EXCEPT !.state = "started", !.started = s] /\ s = phases[3].start
    BY <1>3 DEF Acting
  <2> HIDE DEF s
  <2> QED
    BY <1>1, <1>3, <2>1 DEF NoAction
<1>6. cleanup'.ended = clock' /\ cleanup' = Cleaned("restored", None, phases[4].end, cleanup'.ended, 0)
  BY <1>1, <1>3 DEF Cleaned
<1>7. clock' - phases'[4].end \in 0..MaxWait
  BY <1>1, <1>2, <1>3, WaitAssumption DEF ExperimentTyped
<1>8. phases'[3].start <= phases'[4].end /\ phases'[4].end <= clock'
  BY <1>1, <1>2, <1>3, WaitAssumption DEF ExperimentTyped, Acting
<1>9. Over'
  BY <1>8, <1>2, <1>3, <1>4, <1>5, <1>6, <1>7 DEF Over, Acting
<1> QED
  BY <1>4, <1>9 DEF FaultTrue

LEMMA NoneIn ==
  ASSUME NEW S, NEW s \in Seq(S)
  PROVE  (s = <<>>) <=> (Len(s) = 0)
OBVIOUS

LEMMA NextBefore ==
  ASSUME NEW n \in Nat, NEW i \in 1..n - 1
  PROVE  n > 1 /\ i \in Nat /\ (i # n - 1 => i + 1 \in 1..n - 1)
OBVIOUS

(* The rows of the phases before the last are as they were. *)
LEMMA RowsOthers ==
  ASSUME NEW n \in 1..6, n = N, n = N', RowsTrue, manifest' = manifest, phases' = phases,
         \A i \in 1..n - 1 : rows'[i] = rows[i] /\ gaps'[i] = gaps[i] /\ seconds'[i] = seconds[i],
         RowsFollow(n)', n > 1 => GoesOn(n - 1)', ReadSoFar'
  PROVE  RowsTrue'
<1>0. n \in Nat
  OBVIOUS
<1>1. ASSUME NEW i \in 1..n PROVE RowsFollow(i)'
  <2>1. i \in 1..n - 1 \/ i = n
    BY <1>0, LastOrBefore
  <2>2. ASSUME i \in 1..n - 1 PROVE RowsFollow(i)'
    <3>1. RowsFollow(i)
      BY DEF RowsTrue
    <3> QED
      BY <2>2, <3>1, RowsKept
  <2> QED
    BY <2>1, <2>2
<1>2. ASSUME NEW i \in 1..n - 1 PROVE GoesOn(i)'
  <2>1. CASE i = n - 1
    <3>1. n > 1 /\ (n > 1 => GoesOn(n - 1)')
      BY <1>0, NextBefore
    <3> QED
      BY <2>1, <3>1 DEF GoesOn, LastOf
  <2>2. CASE i # n - 1
    <3>0. i \in 1..N - 1
      OBVIOUS
    <3>1. GoesOn(i)
      BY <3>0 DEF RowsTrue
    <3>3. i \in Nat /\ i + 1 \in 1..n - 1
      BY <1>0, <2>2, NextBefore
    <3>2. i = 3 => gaps'[3] = gaps[3]
      OBVIOUS
    <3> QED
      BY <3>1, <3>2, <3>3, GoesOnKept
  <2> QED
    BY <2>1, <2>2
<1> QED
  BY <1>1, <1>2 DEF RowsTrue

(* A second passes. *)
LEMMA ItsWorkers ==
  ASSUME ExperimentTyped, FaultTrue, ended = None, InPhase
  PROVE  workers = AsMany(N)
<1>1. PICK n \in 1..6 : n = N
  BY DEF ExperimentTyped, InPhase
<1>2. Phases[n] \in {"degraded", "probe"} <=> n \in 3..4
  <2>1. 1..6 = {1, 2, 3, 4, 5, 6} /\ 3..4 = {3, 4}
    OBVIOUS
  <2> QED
    BY <2>1, PhasesInOrder
<1>3. AsMany(n) = IF n \in 3..4 THEN Requested ELSE 0
  BY <1>2 DEF AsMany
<1>4. CASE Idle
  BY <1>1, <1>3, <1>4 DEF Idle, Requested
<1>5. CASE Acting
  BY <1>1, <1>3, <1>5 DEF Acting
<1>6. CASE Over
  BY <1>1, <1>3, <1>6 DEF Over
<1> QED
  BY <1>4, <1>5, <1>6 DEF FaultTrue

LEMMA RowIsTrue ==
  ASSUME NEW start \in Nat, NEW k \in Nat, NEW at \in Nat, at = start + Second * k
  PROVE  at = start + Second * ((k + 1) - 1)
BY DEF Second

LEMMA RowsPass ==
  ASSUME ExperimentInv, RowsTrue, FaultTrue, lapse # "reset", InPhase,
         NEW rate \in Rates, NEW busy \in Busy, NEW gap \in Gaps, Passes(rate, busy, gap)
  PROVE  RowsTrue'
<1>1. PICK n \in 1..6 : n > 0 /\ n \in Nat /\ n = N /\ RecordsTyped(n)
  BY DEF ExperimentInv, ExperimentTyped, InPhase
<1>2. rate \in {24, 30} /\ busy \in {0, workers} /\ gap \in {None, "collection_gap"}
  BY OrdinaryRates DEF ExperimentInv
<1>3. /\ N' = n /\ RecordsTyped(n)' /\ phases' = phases
      /\ \A i \in 1..n - 1 : /\ rows'[i] = rows[i] /\ gaps'[i] = gaps[i]
                             /\ pairs'[i] = pairs[i] /\ seconds'[i] = seconds[i]
      /\ gaps'[n] = IF gaps[n] = None THEN gap ELSE gaps[n]
      /\ rows'[n] = IF gaps'[n] = None THEN Append(rows[n], RowRead(rate, busy)) ELSE rows[n]
      /\ seconds'[n] = Append(seconds[n], MomentNow(rate))
  BY <1>1, <1>2, SecondRecorded DEF ExperimentInv
<1>4. /\ shown' = shown + rate /\ ended = None /\ manifest' = manifest /\ generation' = generation
  BY DEF Passes, Proceeds
<1>5. /\ PhaseTrue(n) /\ rows[n] \in Seq(Row) /\ seconds[n] \in Seq(Moment) /\ phases[n].start \in Nat
      /\ phases[n].end = None /\ RowsFollow(n)
  <2>1. PhaseTrue(n) /\ RowsFollow(n) /\ phases[n].end = None
    BY <1>1 DEF ExperimentInv, PhasesTrue, InPhase, RowsTrue
  <2>2. rows[n] \in Seq(Row) /\ seconds[n] \in Seq(Moment)
    BY <1>1 DEF RecordsTyped
  <2>3. phases[n] \in Actual
    BY <1>1 DEF RecordsTyped
  <2> QED
    BY <2>1, <2>2, <2>3 DEF Actual
<1>6. workers = AsMany(n) /\ clock \in Nat /\ shown \in Nat /\ workers \in Nat
  BY <1>1, <1>4, ItsWorkers DEF ExperimentInv, ExperimentTyped
<1>7. PICK j \in Nat : j = Len(rows[n])
  BY <1>5
<1> DEFINE r == rows[n]  s == seconds[n]  x == RowRead(rate, busy)
<1>8. Len(seconds'[n]) = Len(s) + 1 /\ Len(s) \in Nat /\ j \in Nat /\ j <= Len(s)
  <2>1. seconds'[n] = Append(s, MomentNow(rate)) /\ s \in Seq(Moment) /\ Len(r) <= Len(s)
    BY <1>3, <1>5 DEF RowsFollow
  <2>2. MomentNow(rate) \in Moment
    BY <1>2, <1>6 DEF MomentNow, Moment, ExperimentInv, ExperimentTyped
  <2> HIDE DEF s
  <2> QED
    BY <1>7, <2>1, <2>2, OneAdded
<1>9. UNCHANGED <<AsMany(n)>> /\ phases'[n].start = phases[n].start
  BY <1>3, <1>4 DEF AsMany, Requested, HasFault
<1>10. CASE gaps'[n] = None
  <2>1. gaps[n] = None /\ rows'[n] = Append(r, x)
    BY <1>3, <1>10
  <2>2. j = Len(s) /\ clock = phases[n].start + Second * j
    BY <1>5, <1>7, <2>1 DEF PhaseTrue, Recorded, Timed
  <2>3. generation = 0
    <3>1. generation # 1
      BY <1>1, <2>1 DEF ExperimentInv, ReadingTrue
    <3> QED
      BY <3>1 DEF ExperimentInv, ExperimentTyped
  <2>4. /\ UpToNow(n, TRUE)
        /\ (n > 1 /\ rows[n] = <<>>) => UpToNow(n - 1, n = 4 /\ gaps[3] = None)
    BY <1>1, <2>1, <2>3 DEF RowsTrue, ReadSoFar
  <2>5. RowTrue(n, j + 1, x) /\ x.first = shown /\ x.last = shown' /\ x \in Row
    <3>1. clock = phases[n].start + Second * ((j + 1) - 1)
      BY <1>5, <1>6, <1>8, <2>2, RowIsTrue
    <3>2. x.from = clock /\ x.to = x.from + Second /\ x.first = shown /\ x.last = shown + rate
          /\ x.workers = workers /\ x.cpu = Second * busy
      BY DEF RowRead
    <3>3. shown <= shown + rate /\ Second * busy <= Second * workers
      BY <1>2, <1>6 DEF Second
    <3>4. x \in Row
      BY <1>2, <1>6 DEF RowRead, Row, Second
    <3> QED
      BY <1>4, <1>6, <3>1, <3>2, <3>3, <3>4 DEF RowTrue
  <2> HIDE DEF x
  <2>6. /\ Len(rows'[n]) = j + 1 /\ DOMAIN rows'[n] = 1..j + 1 /\ rows'[n][j + 1] = x
        /\ \A k \in 1..j : rows'[n][k] = r[k]
        /\ rows'[n] # <<>>
    <3>1. r \in Seq(Row) /\ x \in Row /\ j = Len(r)
      BY <1>5, <1>7, <2>5
    <3> HIDE DEF r
    <3>2. /\ Append(r, x) \in Seq(Row) /\ Len(Append(r, x)) = j + 1 /\ Append(r, x)[j + 1] = x
          /\ \A k \in 1..j : Append(r, x)[k] = r[k]
      BY <3>1, OneAdded
    <3>3. Append(r, x) # <<>> /\ DOMAIN Append(r, x) = 1..j + 1
      <4> DEFINE q == Append(r, x)
      <4>1. q \in Seq(Row) /\ Len(q) = j + 1 /\ j + 1 # 0
        BY <3>2
      <4> HIDE DEF q
      <4>2. q # <<>> /\ DOMAIN q = 1..j + 1
        BY <4>1, NoneIn, ElementOf
      <4> QED
        BY <4>2 DEF q
    <3> QED
      BY <2>1, <3>2, <3>3
  <2>7. j > 0 => r # <<>> /\ LastOf(n) = shown /\ r[j].last = shown
    BY <1>5, <1>7, <2>4, NoneIn DEF UpToNow, LastOf
  <2> HIDE DEF r, s
  <2>8. RowsFollow(n)'
    <3>1. Len(rows'[n]) <= Len(seconds'[n])
      BY <1>8, <2>2, <2>6
    <3>2. ASSUME NEW k \in 1..j PROVE RowTrue(n, k, rows[n][k])' /\ (k > 1 => rows'[n][k].first = rows'[n][k - 1].last)
      <4>1. RowTrue(n, k, r[k]) /\ (k > 1 => r[k].first = r[k - 1].last)
        BY <1>5, <1>7, ElementOf DEF RowsFollow, r
      <4>2. rows'[n][k] = r[k] /\ (k > 1 => rows'[n][k - 1] = r[k - 1])
        <5>1. k > 1 => k - 1 \in 1..j
          BY <1>8
        <5> QED
          BY <2>6, <5>1
      <4> QED
        BY <1>9, <4>1, <4>2 DEF RowTrue
    <3>3. RowTrue(n, j + 1, rows[n][j + 1])'
      BY <1>9, <2>5, <2>6 DEF RowTrue
    <3>4. j + 1 > 1 => rows'[n][j + 1].first = rows'[n][(j + 1) - 1].last
      <4>1. (j + 1) - 1 = j /\ (j + 1 > 1 => j > 0 /\ j \in 1..j)
        BY <1>8
      <4> QED
        BY <2>5, <2>6, <2>7, <4>1
    <3>5. \A k \in 1..j + 1 : k \in 1..j \/ k = j + 1
      BY <1>8
    <3>6. \A k \in 1..j + 1 : RowTrue(n, k, rows[n][k])' /\ (k > 1 => rows'[n][k].first = rows'[n][k - 1].last)
      BY <3>2, <3>3, <3>4, <3>5
    <3>7. DOMAIN rows'[n] = 1..j + 1
      BY <2>6
    <3> QED
      BY <3>1, <3>6, <3>7 DEF RowsFollow
  <2>9. (n - 1) + 1 = n
    BY <1>8
  <2>10. n > 1 => GoesOn(n - 1)'
    <3> SUFFICES ASSUME n > 1, rows'[n - 1] # <<>>
                 PROVE  /\ LastOf(n - 1)' <= rows'[n][1].first
                        /\ n - 1 = 3 /\ gaps'[3] = None => LastOf(3)' = rows'[4][1].first
      <4>1. n - 1 = 3 => n = 4
        BY <2>9
      <4> QED
        BY <2>6, <2>9, <4>1 DEF GoesOn
    <3>1. rows'[n - 1] = rows[n - 1] /\ LastOf(n - 1)' = LastOf(n - 1)
      BY <1>3 DEF LastOf
    <3>2. n - 1 = 3 => n = 4 /\ gaps'[3] = gaps[3] /\ LastOf(3) = LastOf(n - 1) /\ LastOf(3)' = LastOf(n - 1)'
      BY <1>3
    <3>3. CASE j = 0
      <4>1. rows[n] = <<>>
        BY <1>5, <1>7, <3>3, NoneIn
      <4>2. rows'[n][1] = x
        BY <2>6, <3>3
      <4> QED
        BY <2>4, <2>5, <3>1, <3>2, <4>1, <4>2 DEF UpToNow
    <3>4. CASE j # 0
      <4>1. rows[n] # <<>> /\ rows'[n][1] = rows[n][1]
        BY <1>5, <1>7, <2>6, <3>4, NoneIn DEF r
      <4>2. GoesOn(n - 1)
        BY <1>1 DEF RowsTrue
      <4> QED
        BY <2>9, <3>1, <3>2, <4>1, <4>2 DEF GoesOn
    <3> QED
      BY <3>3, <3>4
  <2>11. ReadSoFar'
    <3>1. LastOf(n)' = shown'
      BY <2>5, <2>6 DEF LastOf
    <3>2. UpToNow(n, gaps[n] = None)' 
      <4>1. shown' <= shown'
        BY <1>2, <1>4, <1>6
      <4> QED
        BY <3>1, <4>1 DEF UpToNow
    <3> QED
      BY <1>3, <2>6, <3>2 DEF ReadSoFar
  <2> QED
    BY <1>1, <1>3, <1>4, <2>8, <2>10, <2>11, RowsOthers
<1>11. CASE gaps'[n] # None
  <2>1. rows'[n] = rows[n]
    BY <1>3, <1>11
  <2>2. RowsFollow(n)'
    <3>1. \A k \in DOMAIN rows[n] : RowTrue(n, k, rows[n][k])'
      <4> TAKE k \in DOMAIN rows[n]
      <4>1. RowTrue(n, k, rows[n][k]) /\ rows'[n][k] = rows[n][k]
        BY <1>5, <2>1 DEF RowsFollow
      <4> QED
        BY <1>9, <4>1 DEF RowTrue
    <3>2. Len(rows'[n]) <= Len(seconds'[n])
      <4> HIDE DEF s
      <4> QED
        BY <1>8, <1>7, <2>1
    <3> QED
      BY <1>5, <2>1, <3>1, <3>2 DEF RowsFollow
  <2>3. n > 1 => GoesOn(n - 1)'
    <3> SUFFICES ASSUME n > 1 PROVE GoesOn(n - 1)'
      OBVIOUS
    <3>1. GoesOn(n - 1) /\ n - 1 \in Nat /\ (n - 1) + 1 = n /\ n - 1 \in 1..n - 1
      BY <1>1 DEF RowsTrue
    <3>2. n - 1 = 3 => gaps'[3] = gaps[3]
      BY <1>3, <3>1
    <3> QED
      BY <1>3, <2>1, <3>1, <3>2, GoesOnKept
  <2>4. ReadSoFar'
    <3> SUFFICES ASSUME generation = 0
                 PROVE  (/\ UpToNow(n, gaps[n] = None)
                         /\ (n > 1 /\ rows[n] = <<>>) => UpToNow(n - 1, n = 4 /\ gaps[3] = None /\ gaps[4] = None))'
      BY <1>3, <1>4 DEF ReadSoFar
    <3>1. /\ UpToNow(n, gaps[n] = None)
          /\ (n > 1 /\ rows[n] = <<>>) => UpToNow(n - 1, n = 4 /\ gaps[3] = None /\ gaps[4] = None)
      BY <1>1 DEF RowsTrue, ReadSoFar
    <3>2. \A v \in Nat : v <= shown => v <= shown'
      BY <1>2, <1>4, <1>6
    <3>3. rows[n] # <<>> => LastOf(n)' = LastOf(n) /\ LastOf(n) \in Nat
      <4>1. rows[n] # <<>> => Len(rows[n]) \in 1..Len(rows[n])
        BY <1>5
      <4>2. rows[n] # <<>> => rows[n][Len(rows[n])] \in Row
        BY <1>5, <4>1
      <4> QED
        BY <2>1, <4>2 DEF LastOf, Row
    <3>4. n > 1 /\ rows[n - 1] # <<>> => LastOf(n - 1)' = LastOf(n - 1) /\ LastOf(n - 1) \in Nat
      <4> SUFFICES ASSUME n > 1, rows[n - 1] # <<>> PROVE LastOf(n - 1)' = LastOf(n - 1) /\ LastOf(n - 1) \in Nat
        OBVIOUS
      <4>1. n - 1 \in 1..n - 1 /\ n - 1 \in 1..n
        OBVIOUS
      <4>2. rows[n - 1] \in Seq(Row) /\ rows'[n - 1] = rows[n - 1]
        BY <1>1, <1>3, <4>1 DEF RecordsTyped
      <4> DEFINE q == rows[n - 1]
      <4>3. q \in Seq(Row) /\ q # <<>>
        BY <4>2
      <4> HIDE DEF q
      <4>4. q[Len(q)] \in Row
        BY <4>3
      <4> QED
        BY <4>2, <4>4 DEF LastOf, Row, q
    <3>5. UpToNow(n, gaps[n] = None)'
      BY <1>11, <2>1, <3>1, <3>2, <3>3 DEF UpToNow
    <3>6. ASSUME n > 1, rows'[n] = <<>> PROVE UpToNow(n - 1, n = 4 /\ gaps[3] = None /\ gaps[4] = None)'
      <4>1. UpToNow(n - 1, n = 4 /\ gaps[3] = None /\ gaps[4] = None)
        BY <2>1, <3>1, <3>6
      <4>2. ~(n = 4 /\ gaps'[3] = None /\ gaps'[4] = None)
        BY <1>11
      <4>3. rows'[n - 1] = rows[n - 1]
        BY <1>3, <3>6
      <4> QED
        BY <3>2, <3>4, <3>6, <4>1, <4>2, <4>3 DEF UpToNow
    <3> QED
      BY <3>5, <3>6
  <2> QED
    BY <1>1, <1>3, <1>4, <2>2, <2>3, <2>4, RowsOthers
<1> QED
  BY <1>10, <1>11

LEMMA WholeSeconds ==
  ASSUME NEW k \in Nat, NEW l \in Nat, 2 * l < 2 * k
  PROVE  2 * (l + 1) <= 2 * k
OBVIOUS

LEMMA InSuccession ==
  ASSUME NEW n \in Nat, NEW i \in 1..n - 1
  PROVE  i \in 1..n /\ i < n /\ i + 1 \in 1..n
OBVIOUS

LEMMA TimesPass ==
  ASSUME ExperimentInv, TimesTrue, InPhase,
         NEW rate \in Rates, NEW busy \in Busy, NEW gap \in Gaps, Passes(rate, busy, gap)
  PROVE  TimesTrue' /\ N' = N
<1>1. PICK n \in 1..6 : n > 0 /\ n \in Nat /\ n = N /\ RecordsTyped(n)
  BY DEF ExperimentInv, ExperimentTyped, InPhase
<1>2. rate \in {24, 30} /\ busy \in {0, workers} /\ gap \in {None, "collection_gap"}
  BY OrdinaryRates DEF ExperimentInv
<1>3. /\ N' = n /\ RecordsTyped(n)' /\ phases' = phases
      /\ \A i \in 1..n - 1 : /\ rows'[i] = rows[i] /\ gaps'[i] = gaps[i]
                             /\ pairs'[i] = pairs[i] /\ seconds'[i] = seconds[i]
      /\ gaps'[n] = IF gaps[n] = None THEN gap ELSE gaps[n]
      /\ rows'[n] = IF gaps'[n] = None THEN Append(rows[n], RowRead(rate, busy)) ELSE rows[n]
      /\ seconds'[n] = Append(seconds[n], MomentNow(rate))
  BY <1>1, <1>2, SecondRecorded DEF ExperimentInv
<1>4. /\ clock - phases[n].start < manifest.phases[n].duration /\ manifest' = manifest /\ phases[n].end = None
  BY <1>1 DEF Passes, Proceeds, InPhase
<1>5. PICK l \in Nat : l = Len(seconds[n]) /\ Len(seconds'[n]) = l + 1 /\ clock = phases[n].start + 2 * l
  <2>1. seconds[n] \in Seq(Moment) /\ MomentNow(rate) \in Moment
    BY <1>1, <1>2 DEF RecordsTyped, MomentNow, Moment, ExperimentInv, ExperimentTyped
  <2>2. clock = phases[n].start + Second * Len(seconds[n])
    BY <1>1, <1>4 DEF ExperimentInv, PhasesTrue, PhaseTrue, Timed
  <2> QED
    BY <1>3, <2>1, <2>2, OneAdded DEF Second
<1>6. PICK k \in Nat : manifest.phases[n].duration = 2 * k
  <2>1. \E k \in 1..300 : manifest.phases[n].duration = Second * k
    BY PlansAssumption DEF ExperimentInv, ExperimentTyped
  <2> QED
    BY <2>1 DEF Second
<1>7. 2 * (l + 1) <= 2 * k
  <2>1. phases[n].start \in Nat
    BY <1>1, TimesTyped DEF ExperimentInv
  <2>2. 2 * l < 2 * k
    BY <1>4, <1>5, <1>6, <2>1
  <2> QED
    BY <2>2, WholeSeconds
<1>8. Lasts(n)'
  BY <1>3, <1>4, <1>5, <1>6, <1>7 DEF Lasts, Second
<1>9. ASSUME NEW i \in 1..n PROVE Lasts(i)'
  <2>1. CASE i \in 1..n - 1
    <3>1. Lasts(i)
      BY <1>1 DEF TimesTrue
    <3> QED
      BY <1>3, <1>4, <2>1, <3>1, LastsKept
  <2> QED
    BY <1>1, <1>8, <2>1, LastOrBefore
<1> QED
  BY <1>1, <1>3, <1>4, <1>9 DEF TimesTrue, Waited, HasFault

(* A phase ends, as planned or not. *)
Closes(state) == phases' = [phases EXCEPT ![N] = [@ EXCEPT !.end = clock, !.state = state]]
LEMMA PhaseClosed ==
  ASSUME ExperimentTyped, InPhase, NEW state \in {"partial", "complete"}, Closes(state)
  PROVE  /\ N' = N /\ ~InPhase' /\ phases'[N].end = clock /\ phases'[N].state = state
         /\ \A i \in 1..N : phases'[i].start = phases[i].start /\ (i < N => phases'[i] = phases[i])
<1>1. PICK n \in 1..6 : n > 0 /\ n \in Nat /\ n = N /\ n = Len(phases) /\ phases \in Seq(Actual) /\ phases[n] \in Actual
  <2>1. PICK n \in 1..6 : n > 0 /\ n \in Nat /\ n = N /\ RecordsTyped(n)
    BY DEF ExperimentTyped, InPhase
  <2>2. phases \in Seq(Actual) /\ n = Len(phases)
    BY <2>1 DEF RecordsTyped
  <2> QED
    BY <2>1, <2>2, LastElement
<1> DEFINE p == [phases[n] EXCEPT !.end = clock, !.state = state]
<1>2. p \in Actual /\ p.end = clock /\ p.state = state /\ p.start = phases[n].start
  BY <1>1 DEF Actual, ExperimentTyped
<1>3. Changed(phases, n, p, phases')
  BY <1>1 DEF Closes, Changed
<1> HIDE DEF p
<1>4. phases' \in Seq(Actual) /\ Len(phases') = n /\ phases'[n] = p /\ \A i \in 1..n - 1 : phases'[i] = phases[i]
  BY <1>1, <1>2, <1>3, LastChanged
<1>5. clock # None
  BY NoneThere DEF ExperimentTyped
<1>6. N' = n
  BY <1>4 DEF N
<1>7. ~InPhase'
  BY <1>2, <1>4, <1>5, <1>6 DEF InPhase
<1> QED
  BY <1>1, <1>2, <1>4, <1>6, <1>7, LastOrBefore

LEMMA TimesClose ==
  ASSUME ExperimentInv, TimesTrue, InPhase, NEW state \in {"partial", "complete"}, Closes(state),
         UNCHANGED <<manifest, seconds>>
  PROVE  TimesTrue'
<1>1. PICK n \in 1..6 : n \in Nat /\ n = N /\ n = N' /\ phases[n].end = None
  BY PhaseClosed DEF ExperimentInv, ExperimentTyped, InPhase
<1>2. /\ phases'[n].end = clock
      /\ \A i \in 1..n : phases'[i].start = phases[i].start /\ (i < n => phases'[i] = phases[i])
  BY <1>1, PhaseClosed DEF ExperimentInv
<1>3. Lasts(n)'
  <2>1. clock = phases[n].start + Second * Len(seconds[n])
    BY <1>1 DEF ExperimentInv, PhasesTrue, PhaseTrue, Timed
  <2>2. Lasts(n)
    BY <1>1 DEF TimesTrue
  <2> QED
    BY <1>1, <1>2, <2>1, <2>2 DEF Lasts
<1>4. ASSUME NEW i \in 1..n - 1 PROVE Lasts(i)' /\ (phases[i + 1].start - phases[i].end \in Waited(i))'
  <2>1. i \in 1..n /\ i < n /\ i + 1 \in 1..n
    BY <1>1, InSuccession
  <2>2. Lasts(i) /\ phases[i + 1].start - phases[i].end \in Waited(i)
    BY <1>1, <2>1 DEF TimesTrue
  <2>3. Lasts(i)'
    BY <1>2, <2>1, <2>2, LastsKept
  <2> QED
    BY <1>2, <2>1, <2>2, <2>3 DEF Waited, HasFault
<1>5. phases'[1].start = 0
  BY <1>1, <1>2 DEF TimesTrue
<1> QED
  BY <1>1, <1>3, <1>4, <1>5, LastOrBefore DEF TimesTrue

(* Runs end. *)
LEMMA EndedAsIs ==
  ASSUME ExperimentInv, EndTrue, ended # None,
         UNCHANGED <<manifest, clock, workers, phases, rows, gaps, action, cleanup, ended>>
  PROVE  EndTrue'
BY DEF EndTrue, EndedWhole, EndedShort, EndedUnbegun, InPhase, N, Available, Idle, Over, AtRest, HasFault, Covered

LEMMA RunFinishes ==
  ASSUME ExperimentInv, FaultTrue, Begun, Finish
  PROVE  EndTrue'
<1>1. /\ UNCHANGED <<manifest, clock, shown, generation, workers, paced, bound, phases, rows, gaps, action, cleanup>>
      /\ ended = None
  BY DEF Finish, machine, records
<1>2. UNCHANGED <<N, InPhase, Available, HasFault>>
  BY <1>1 DEF N, InPhase, Available, HasFault
<1>3. N > 0 /\ ~InPhase => phases[N].state = "complete"
  BY <1>1 DEF ExperimentInv, PhasesTrue
<1>4. N = 0 => ~InPhase
  BY DEF InPhase
<1>5. CASE Available
  <2>1. ~InPhase /\ N = 6 /\ ended' = [status |-> "completed", reason |-> None]
    BY <1>5 DEF Finish, EndsAs
  <2>2. Idle \/ Over
    BY <1>1, <2>1 DEF FaultTrue, Acting
  <2>3. (Idle \/ Over)'
    BY <1>1, <1>2, <2>2 DEF Idle, Over, AtRest
  <2>4. EndedWhole'
    BY <1>1, <1>2, <1>3, <1>5, <2>1, <2>3 DEF EndedWhole
  <2> QED
    BY <1>1, <1>2, <1>3, <2>1, <2>4 DEF EndTrue
<1>6. CASE ~Available
  <2>1. N = 0 /\ ended' = [status |-> "unsupported", reason |-> manifest.adapter.reason]
    BY <1>6 DEF Finish, EndsAs, Begun
  <2>2. cleanup = Unneeded
    BY <1>1, <2>1 DEF FaultTrue, Idle, Acting, Over
  <2>3. EndedUnbegun'
    BY <1>1, <1>2, <1>6, <2>1, <2>2 DEF EndedUnbegun, Unneeded, Cleaned
  <2> QED
    BY <1>1, <1>2, <1>4, <2>1, <2>3 DEF EndTrue
<1> QED
  BY <1>5, <1>6

(* What is written of a fault that is cut short. *)
LEMMA NoneOfThese ==
  /\ \A why \in {"cancelled", "start_failed", "stop_failed", "exit_failed", "missing_evidence"} : why # None
  /\ \A t \in Nat : t # None
<1>1. "cancelled" \in Reasons
  BY DEF Reasons
<1> QED
  BY <1>1, NoneThere, NoneAssumption DEF NoneIsNothing, Failures

LEMMA NothingBegun ==
  ASSUME NEW a, a = NoAction \/ a = [NoAction EXCEPT !.state = "failed", !.reason = "start_failed"]
  PROVE  ValidAction(a) /\ a.started = None /\ a.id = NoAction.id
<1>1. PICK reason \in {None, "start_failed"}, state \in {"not_started", "failed"} :
        /\ a = [id |-> 1, state |-> state, started |-> None, stopped |-> None, reason |-> reason]
        /\ (state = "failed") = (reason # None)
  BY NoneOfThese DEF NoAction
<1>2. NoAction.id = 1
  BY DEF NoAction
<1> QED
  BY <1>1, <1>2 DEF ValidAction, Ordered

LEMMA CutStopped ==
  ASSUME NEW why \in {"cancelled", "start_failed", "stop_failed", "exit_failed"}, NEW s \in Nat, NEW t \in Nat \cup {None},
         t # None => s <= t, NEW a,
         a = [id |-> NoAction.id, state |-> "failed", started |-> s, stopped |-> t, reason |-> why]
  PROVE  ValidAction(a) /\ a.id = NoAction.id /\ a.started = s /\ a.stopped = t
BY NoneOfThese DEF ValidAction, Ordered

LEMMA CleanedAway ==
  ASSUME NEW t \in Nat
  PROVE  ValidCleanup(Cleaned("restored", None, t, t, 0))
<1>1. t <= t /\ t - t <= 10 * Second /\ t # None
  BY NoneOfThese DEF Second
<1> QED
  BY <1>1 DEF ValidCleanup, Cleaned, Ordered

LEMMA CleanedNot ==
  ASSUME NEW t \in Nat, NEW w \in Nat, NEW c,
         c \in {Cleaned("failed", "stop_failed", t, None, w), Cleaned("unverified", "missing_evidence", None, None, None)}
  PROVE  ValidCleanup(c) /\ c.state \notin {"not_required", "restored"}
BY NoneOfThese DEF ValidCleanup, Cleaned, Ordered

LEMMA CutCovered ==
  ASSUME ExperimentInv, FaultTrue, ended = None, NEW reason,
         NEW why \in {"cancelled", "start_failed", "exit_failed"}, CutShort(reason, why)
  PROVE  action'.id = NoAction.id /\ ValidAction(action') /\ ValidCleanup(cleanup') /\ Covered'
<1>0. /\ clock \in Nat /\ workers \in Nat /\ clock # None
      /\ \A i \in 1..N : phases[i].start \in Nat /\ (i < N => phases[i].end \in Nat)
  BY TimesTyped, NoneOfThese DEF ExperimentInv, ExperimentTyped
<1>1. CASE Idle
  <2>1. action = NoAction /\ cleanup = Unneeded /\ action.started = None
    BY <1>1 DEF Idle, NoAction
  <2>2. cleanup' = cleanup /\ (action' = NoAction \/ action' = [NoAction EXCEPT !.state = "failed", !.reason = "start_failed"])
    BY <2>1 DEF CutShort
  <2>3. ValidAction(action') /\ action'.started = None /\ action'.id = NoAction.id
    BY <2>2, NothingBegun
  <2>4. ValidCleanup(Unneeded)
    BY DEF ValidCleanup, Unneeded, Cleaned, Ordered
  <2> QED
    BY <2>1, <2>2, <2>3, <2>4 DEF Covered
<1>2. CASE Acting
  <2>1. PICK s \in Nat : s = action.started /\ s <= clock /\ s # None
    <3>1. N = 2 => action.started = clock
      BY <1>2 DEF Acting
    <3>2. N # 2 => action.started = phases[3].start /\ 3 \in 1..N
      BY <1>2 DEF Acting
    <3>3. action.started \in Nat /\ action.started <= clock
      BY <1>0, <1>2, <3>1, <3>2 DEF Acting
    <3> QED
      BY <3>3, NoneOfThese
  <2>2. action = [NoAction EXCEPT !.state = "started", !.started = s]
    BY <1>2, <2>1 DEF Acting
  <2>3. action.state = "started" /\ action.started # None
    BY <1>2, <2>1, FaultStates
  <2>4. CASE /\ action' = [action EXCEPT !.state = "failed", !.reason = why, !.stopped = clock]
             /\ cleanup' = Cleaned("restored", None, clock, clock, 0)
    <3>1. action' = [id |-> NoAction.id, state |-> "failed", started |-> s, stopped |-> clock, reason |-> why]
      BY <2>2, <2>4 DEF NoAction
    <3>2. ValidAction(action') /\ action'.id = NoAction.id /\ action'.started = s /\ action'.stopped = clock
      BY <1>0, <2>1, <3>1, CutStopped
    <3>3. ValidCleanup(cleanup') /\ cleanup'.state = "restored" /\ cleanup'.ended = clock
      BY <1>0, <2>4, CleanedAway DEF Cleaned
    <3>4. clock <= clock
      BY <1>0
    <3> QED
      BY <1>0, <3>2, <3>3, <3>4 DEF Covered
  <2>5. CASE /\ action' = [action EXCEPT !.state = "failed", !.reason = "stop_failed"]
             /\ cleanup' \in {Cleaned("failed", "stop_failed", clock, None, workers),
                              Cleaned("unverified", "missing_evidence", None, None, None)}
    <3>1. action' = [id |-> NoAction.id, state |-> "failed", started |-> s, stopped |-> None, reason |-> "stop_failed"]
      BY <2>2, <2>5 DEF NoAction
    <3>2. ValidAction(action') /\ action'.id = NoAction.id
      BY <1>0, <2>1, <3>1, CutStopped
    <3>3. ValidCleanup(cleanup') /\ cleanup'.state \notin {"not_required", "restored"}
      BY <1>0, <2>5, CleanedNot
    <3> QED
      BY <3>2, <3>3 DEF Covered
  <2> QED
    BY <2>3, <2>4, <2>5 DEF CutShort
<1>3. CASE Over
  <2>1. /\ 3 \in 1..N /\ 4 \in 1..N
        /\ action = [NoAction EXCEPT !.state = "stopped", !.started = phases[3].start, !.stopped = phases[4].end]
        /\ phases[3].start <= phases[4].end /\ phases[4].end <= clock
    BY <1>3 DEF Over
  <2>2. PICK s \in Nat, t \in Nat : s = phases[3].start /\ t = phases[4].end /\ s # None /\ t # None
    <3>1. N = 4 => clock - phases[4].end \in 0..MaxWait /\ phases[4].end # None
      BY <1>3 DEF Over, InPhase
    <3>2. phases[4].end \in Nat \cup {None}
      BY <2>1, TimesTyped DEF ExperimentInv
    <3>3. N # 4 => 4 < N
      BY <1>3 DEF Over
    <3>4. phases[4].end \in Nat
      BY <1>0, <2>1, <3>1, <3>2, <3>3
    <3> QED
      BY <1>0, <2>1, <3>4, NoneOfThese
  <2>3. /\ action.id = NoAction.id /\ action.state = "stopped" /\ action.started = s /\ action.stopped = t
        /\ action.reason = None
    BY <2>1, <2>2 DEF NoAction
  <2>4. ValidAction(action)
    BY <2>1, <2>2, <2>3 DEF ValidAction, Ordered
  <2>5. action' = action /\ cleanup' = Cleaned("restored", None, clock, clock, 0)
    BY <2>2, <2>3 DEF CutShort
  <2>6. ValidCleanup(cleanup') /\ cleanup'.state = "restored" /\ cleanup'.ended = clock
    BY <1>0, <2>5, CleanedAway DEF Cleaned
  <2> QED
    BY <2>1, <2>2, <2>3, <2>4, <2>5, <2>6 DEF Covered
<1> QED
  BY <1>1, <1>2, <1>3 DEF FaultTrue

LEMMA PartialInPhase ==
  ASSUME ExperimentTyped, PhasesTrue, InPhase
  PROVE  /\ phases[N].state = "partial" /\ N \in DOMAIN phases
         /\ Stopped(phases, N, clock) = [phases EXCEPT ![N] = [@ EXCEPT !.end = clock, !.state = "partial"]]
<1>1. PICK n \in 1..6 : n > 0 /\ n \in Nat /\ n = N /\ RecordsTyped(n)
  BY DEF ExperimentTyped, InPhase
<1>2. phases \in Seq(Actual) /\ n = Len(phases)
  BY <1>1 DEF RecordsTyped
<1>3. phases[n] \in Actual /\ n \in DOMAIN phases
  BY <1>1, <1>2, LastElement
<1>4. phases[n].state = "partial"
  BY <1>1 DEF PhasesTrue, PhaseTrue, Timed, InPhase
<1>5. [phases[n] EXCEPT !.end = clock] = [phases[n] EXCEPT !.end = clock, !.state = "partial"]
  BY <1>3, <1>4 DEF Actual
<1> QED
  BY <1>1, <1>3, <1>4, <1>5 DEF Stopped

LEMMA RunIsCut ==
  ASSUME ExperimentInv, FaultTrue, Abort \/ StartFails \/ WorkerExits
  PROVE  EndTrue' /\ ended' # None
<1>1. PICK reason \in {"cancelled", "source_error", "action_failed"}, why \in {"cancelled", "start_failed", "exit_failed"} :
        CutShort(reason, why)
  BY DEF Abort, StartFails, WorkerExits
<1>2. ended = None /\ Available /\ UNCHANGED <<manifest>>
  BY DEF Abort, StartFails, WorkerExits, Proceeds
<1>3. /\ action'.id = NoAction.id /\ ValidAction(action') /\ ValidCleanup(cleanup') /\ Covered'
  BY <1>1, <1>2, CutCovered
<1>4. /\ ended'.status = "aborted" /\ ended'.reason \in ReasonsOf("aborted")
      /\ ended' = [status |-> "aborted", reason |-> ended'.reason]
  <2>1. EndsAs("aborted", reason) \/ EndsAs("aborted", "cleanup_failed")
    BY <1>1 DEF CutShort
  <2>2. {"cancelled", "source_error", "action_failed", "cleanup_failed"} \subseteq ReasonsOf("aborted")
    BY DEF ReasonsOf
  <2> QED
    BY <2>1, <2>2 DEF EndsAs
<1>5. ended' # None
  BY <1>4, NoneThere
<1>6. EndedShort'
  BY <1>2, <1>3, <1>4 DEF EndedShort, Available
<1>7. ~InPhase' /\ (N' > 0 /\ gaps'[N'] = None => phases'[N'].state = "complete")
  <2>1. CASE InPhase
    <3>1. phases' = Stopped(phases, N, clock) /\ gaps' = IF gaps[N] = None THEN Noted(gaps, N, "cancelled") ELSE gaps
      BY <1>1, <2>1 DEF CutShort, Stopped, Noted
    <3>2. Closes("partial")
      BY <2>1, <3>1, PartialInPhase DEF Closes, Stopped, ExperimentInv
    <3>3. N' = N /\ ~InPhase'
      BY <2>1, <3>2, PhaseClosed DEF ExperimentInv
    <3>4. gaps'[N] # None
      <4>1. "cancelled" # None
        BY NoneOfThese
      <4>2. N \in DOMAIN gaps
        BY <2>1 DEF ExperimentInv, ExperimentTyped, RecordsTyped, InPhase
      <4> QED
        BY <3>1, <4>1, <4>2 DEF Noted
    <3> QED
      BY <3>3, <3>4
  <2>2. CASE ~InPhase
    <3>1. phases' = phases /\ gaps' = gaps
      BY <1>1, <2>2 DEF CutShort
    <3>2. N' = N /\ ~InPhase'
      BY <2>2, <3>1 DEF N, InPhase
    <3> QED
      BY <1>2, <2>2, <3>1, <3>2 DEF ExperimentInv, PhasesTrue
  <2> QED
    BY <2>1, <2>2
<1> QED
  BY <1>5, <1>6, <1>7 DEF EndTrue

Honestly == RowsTrue /\ TimesTrue /\ FaultTrue /\ EndTrue /\ Begun

LEMMA HonestBegins ==
  ASSUME ExperimentInv, Honestly, NextPhase
  PROVE  Honestly'
<1>1. ended = None /\ ~InPhase /\ N < 6 /\ BeginPhase /\ UNCHANGED manifest /\ Available
  BY DEF NextPhase, Proceeds
<1>2. N' = N + 1
  BY <1>1, PhaseBegins DEF ExperimentInv
<1>3. RowsTrue' /\ TimesTrue' /\ FaultTrue'
  BY <1>1, <1>2, RowsBegin, TimesBegin, FaultBegins DEF ExperimentInv, Honestly
<1>4. EndTrue' /\ Begun'
  BY <1>1 DEF BeginPhase, EndTrue, Begun, Available
<1> QED
  BY <1>3, <1>4 DEF Honestly

LEMMA HonestSeconds ==
  ASSUME ExperimentInv, Honestly, lapse # "reset", InPhase,
         NEW rate \in Rates, NEW busy \in Busy, NEW gap \in Gaps, Passes(rate, busy, gap)
  PROVE  Honestly'
<1>1. RowsTrue' /\ TimesTrue' /\ N' = N
  BY RowsPass, TimesPass DEF Honestly
<1>2. UNCHANGED <<manifest, workers, action, cleanup, phases, ended>> /\ ended = None /\ Available /\ clock' = clock + Second
  BY DEF Passes, Proceeds
<1>3. InPhase' /\ N \in 0..6 /\ clock \in Nat /\ clock' \in Nat /\ clock <= clock'
  BY <1>1, <1>2 DEF InPhase, ExperimentInv, ExperimentTyped, Second
<1>4. FaultTrue'
  BY <1>1, <1>2, <1>3, FaultLeft DEF Honestly, ExperimentInv
<1>5. EndTrue' /\ Begun'
  BY <1>2 DEF EndTrue, Begun, Available
<1> QED
  BY <1>1, <1>4, <1>5 DEF Honestly

LEMMA HonestEnds ==
  ASSUME ExperimentInv, Honestly, EndPhase
  PROVE  Honestly'
<1>1. /\ UNCHANGED <<manifest, clock, shown, generation, workers, rows, gaps, seconds, action, cleanup, ended>>
      /\ ended = None /\ Available /\ InPhase
      /\ phases' = [phases EXCEPT ![N].end = clock, ![N].state = "complete"]
  BY DEF EndPhase, Proceeds, machine
<1>2. Closes("complete")
  <2>1. N \in DOMAIN phases
    BY <1>1, PartialInPhase DEF ExperimentInv
  <2> QED
    BY <1>1, <2>1 DEF Closes
<1>3. /\ N' = N /\ phases'[N].end = clock
      /\ \A i \in 1..N : phases'[i].start = phases[i].start /\ (i < N => phases'[i] = phases[i])
  BY <1>1, <1>2, PhaseClosed DEF ExperimentInv
<1>4. N \in 0..6 /\ clock \in Nat /\ clock <= clock
  BY DEF ExperimentInv, ExperimentTyped
<1>5. RowsTrue'
  BY <1>1, <1>3, <1>4, RowsLeft DEF Honestly
<1>6. TimesTrue'
  BY <1>1, <1>2, TimesClose DEF Honestly
<1>7. FaultTrue'
  BY <1>1, <1>3, <1>4, FaultLeft DEF Honestly, ExperimentInv
<1>8. EndTrue' /\ Begun'
  BY <1>1 DEF EndTrue, Begun, Available
<1> QED
  BY <1>5, <1>6, <1>7, <1>8 DEF Honestly

LEMMA HonestResets ==
  ASSUME ExperimentInv, Honestly, Reset
  PROVE  Honestly'
<1>1. /\ UNCHANGED <<manifest, clock, workers, phases, rows, seconds, action, cleanup, ended>>
      /\ ended = None /\ Available /\ generation' = 1
      /\ gaps' = IF InPhase /\ gaps[N] = None THEN [gaps EXCEPT ![N] = "counter_reset"] ELSE gaps
  BY DEF Reset, Proceeds
<1>2. N' = N /\ N \in 0..6 /\ clock \in Nat /\ clock <= clock /\ (InPhase => InPhase')
  BY <1>1 DEF ExperimentInv, ExperimentTyped, N, InPhase
<1>3. \A i \in 1..N : gaps'[i] = None => gaps[i] = None
  <2>1. "counter_reset" # None
    BY NoneThere DEF Reasons
  <2>2. DOMAIN gaps = 1..N
    BY DEF ExperimentInv, ExperimentTyped, RecordsTyped
  <2> QED
    BY <1>1, <2>1, <2>2
<1>4. RowsTrue'
  BY <1>1, <1>2, <1>3, RowsLeft DEF Honestly
<1>5. TimesTrue'
  BY <1>1, <1>2, TimesLeft DEF Honestly
<1>6. FaultTrue'
  BY <1>1, <1>2, FaultLeft DEF Honestly, ExperimentInv
<1>7. EndTrue' /\ Begun'
  BY <1>1 DEF EndTrue, Begun, Available
<1> QED
  BY <1>4, <1>5, <1>6, <1>7 DEF Honestly

LEMMA HonestFaults ==
  ASSUME ExperimentInv, Honestly, StartFault \/ StopFault
  PROVE  Honestly'
<1>1. /\ UNCHANGED <<manifest, shown, generation, phases, rows, gaps, seconds, ended>>
      /\ ended = None /\ Available
  BY DEF StartFault, StopFault, Proceeds, records
<1>2. N \in 0..6
  BY DEF ExperimentInv, ExperimentTyped
<1>3. FaultTrue' /\ N' = N
  BY FaultStarts, FaultStops DEF Honestly, ExperimentInv
<1>4. RowsTrue'
  BY <1>1, <1>2, <1>3, RowsLeft DEF Honestly
<1>5. TimesTrue'
  BY <1>1, <1>2, TimesLeft DEF Honestly
<1>6. EndTrue' /\ Begun'
  BY <1>1 DEF EndTrue, Begun, Available
<1> QED
  BY <1>3, <1>4, <1>5, <1>6 DEF Honestly

LEMMA HonestCuts ==
  ASSUME ExperimentInv, Honestly, Abort \/ StartFails \/ WorkerExits
  PROVE  Honestly'
<1>1. PICK reason \in {"cancelled", "source_error", "action_failed"}, why \in {"cancelled", "start_failed", "exit_failed"} :
        CutShort(reason, why)
  BY DEF Abort, StartFails, WorkerExits
<1>2. ended = None /\ Available /\ manifest' = manifest
  BY DEF Abort, StartFails, WorkerExits, Proceeds
<1>3. /\ UNCHANGED <<clock, shown, generation, rows, seconds>>
      /\ phases' = IF InPhase THEN Stopped(phases, N, clock) ELSE phases
      /\ gaps' = IF InPhase /\ gaps[N] = None THEN Noted(gaps, N, "cancelled") ELSE gaps
  BY <1>1 DEF CutShort, Stopped, Noted
<1>4. InPhase => Closes("partial")
  BY <1>3, PartialInPhase DEF Closes, ExperimentInv
<1>5. /\ N' = N /\ N \in 0..6
      /\ \A i \in 1..N : phases'[i].start = phases[i].start
  <2>1. InPhase => N' = N /\ \A i \in 1..N : phases'[i].start = phases[i].start
    BY <1>4, PhaseClosed DEF ExperimentInv
  <2>2. ~InPhase => N' = N /\ phases' = phases
    BY <1>3 DEF N
  <2>3. N \in 0..6
    BY DEF ExperimentInv, ExperimentTyped
  <2> QED
    BY <2>1, <2>2, <2>3
<1>6. \A i \in 1..N : gaps'[i] = None => gaps[i] = None
  <2>1. "cancelled" # None
    BY NoneOfThese
  <2>2. DOMAIN gaps = 1..N
    BY DEF ExperimentInv, ExperimentTyped, RecordsTyped
  <2> QED
    BY <1>3, <2>1, <2>2 DEF Noted
<1>7. RowsTrue'
  BY <1>2, <1>3, <1>5, <1>6, RowsLeft DEF Honestly
<1>8. TimesTrue'
  <2>1. CASE InPhase
    BY <1>2, <1>3, <1>4, <2>1, TimesClose DEF Honestly
  <2>2. CASE ~InPhase
    BY <1>2, <1>3, <1>5, <2>2, TimesLeft DEF Honestly
  <2> QED
    BY <2>1, <2>2
<1>9. EndTrue' /\ ended' # None
  BY RunIsCut DEF Honestly
<1>10. FaultTrue' /\ Begun'
  BY <1>2, <1>9 DEF FaultTrue, Begun, Available
<1> QED
  BY <1>7, <1>8, <1>9, <1>10 DEF Honestly

LEMMA HonestRests ==
  ASSUME ExperimentInv, Honestly, Finish \/ Inspect \/ UNCHANGED experimentVars
  PROVE  Honestly'
<1>1. /\ UNCHANGED <<manifest, clock, shown, generation, workers, paced, bound, phases, rows, gaps, seconds>>
      /\ UNCHANGED <<action, cleanup>>
  BY DEF Finish, Inspect, experimentVars, machine, records
<1>2. N' = N /\ N \in 0..6 /\ InPhase' = InPhase /\ Available' = Available
  BY <1>1 DEF ExperimentInv, ExperimentTyped, N, InPhase, Available
<1>3. RowsTrue' /\ TimesTrue'
  BY <1>1, <1>2, RowsLeft, TimesLeft DEF Honestly
<1>4. Begun'
  BY <1>2 DEF Begun, Honestly
<1>5. CASE Finish
  <2>1. ended' # None
    <3>1. manifest \in Manifests
      BY DEF ExperimentInv, ExperimentTyped
    <3>2. manifest.adapter.reason \in {None} \cup AdapterReasons \cup ReasonsOf("aborted")
      BY <3>1, PlansAssumption
    <3>3. ended' \in Endings({None} \cup AdapterReasons \cup ReasonsOf("aborted"))
      BY <1>5, <3>2 DEF Finish, EndsAs, Endings
    <3> QED
      BY <3>3, NoneAssumption DEF NoneIsNothing
  <2> QED
    BY <1>3, <1>4, <1>5, <2>1, RunFinishes DEF Honestly, FaultTrue
<1>6. CASE ended # None /\ ended' = ended
  BY <1>1, <1>3, <1>4, <1>6, EndedAsIs DEF Honestly, FaultTrue
<1>7. CASE ended = None /\ UNCHANGED experimentVars
  <2>1. ended' = None
    BY <1>7 DEF experimentVars
  <2>2. FaultTrue'
    BY <1>1, <1>2, <1>7 DEF Honestly, FaultTrue, Idle, Acting, Over, AtRest, Requested, HasFault
  <2> QED
    BY <1>3, <1>4, <2>1, <2>2 DEF Honestly, EndTrue
<1> QED
  BY <1>5, <1>6, <1>7 DEF Inspect, experimentVars

LEMMA HonestStep == ExperimentInv /\ HonestInv /\ [ExperimentNext]_experimentVars => HonestInv'
<1> SUFFICES ASSUME ExperimentInv, HonestInv, [ExperimentNext]_experimentVars, lapse' = None PROVE Honestly'
  BY DEF HonestInv, Honestly
<1>1. {"early", "unnoticed", "reset", "report"} \subseteq Slippages
  BY DEF Slippages
<1>2. "early" # None /\ "unnoticed" # None /\ "reset" # None /\ "report" # None
  BY <1>1, NoneThere
<1>3. ~SlipEarly /\ ~SlipWorkers /\ ~SlipReset
  BY <1>2 DEF SlipEarly, SlipWorkers, SlipReset, Lapses
<1>4. lapse = None
  BY <1>3 DEF ExperimentNext, NextPhase, EndPhase, Reset, StartFault, StopFault, Passes, Abort, StartFails, WorkerExits,
     CutShort, Finish, Inspect, experimentVars, Lapses
<1>5. Honestly /\ lapse # "reset"
  BY <1>2, <1>4 DEF HonestInv, Honestly
<1> QED
  BY <1>3, <1>5, HonestBegins, HonestSeconds, HonestEnds, HonestResets, HonestFaults, HonestCuts, HonestRests
     DEF ExperimentNext

LEMMA HonestAtFirst == ExperimentInit => HonestInv
<1> SUFFICES ASSUME ExperimentInit PROVE Honestly
  BY DEF HonestInv, Honestly
<1>1. N = 0 /\ ~InPhase /\ ended = None
  BY DEF ExperimentInit, N, InPhase
<1>2. RowsTrue
  BY <1>1 DEF RowsTrue, ReadSoFar
<1>3. TimesTrue /\ EndTrue /\ Begun
  BY <1>1 DEF TimesTrue, EndTrue, Begun
<1>4. Idle
  BY <1>1 DEF Idle, AtRest, Unneeded, ExperimentInit
<1> QED
  BY <1>2, <1>3, <1>4 DEF Honestly, FaultTrue

-----------------------------------------------------------------------------
(* A run that ended: its phases one after another. *)
LEMMA ManifestsKept ==
  ASSUME ExperimentInv
  PROVE  /\ manifest \in Manifests /\ ValidManifest(manifest) /\ ValidPlan(manifest)
         /\ \A i \in 1..6 : manifest.phases[i].duration \in Nat /\ manifest.phases[i].duration \in Second..300 * Second
         /\ HasFault => /\ Len(manifest.actions) = 1 /\ BoundedFault(manifest) /\ manifest.actions[1].id = NoAction.id
                        /\ manifest.actions[1].workers \in 0..8
         /\ ~HasFault => manifest.actions = <<>>
         /\ manifest.adapter.state \in {"available", "unavailable"}
         /\ ~Available => manifest.adapter.reason \in AdapterReasons /\ manifest.adapter.state = "unavailable"
<1>1. manifest \in Manifests
  BY DEF ExperimentInv, ExperimentTyped
<1>2. ValidManifest(manifest)
  BY <1>1, ManifestsAssumption
<1>3. ValidPlan(manifest)
  BY <1>2 DEF ValidManifest
<1>4. \A i \in 1..6 : manifest.phases[i].duration \in Nat /\ manifest.phases[i].duration \in Second..300 * Second
  BY <1>1, <1>3, ManifestsPlanned DEF ValidPlan
<1>5. /\ HasFault => /\ Len(manifest.actions) = 1 /\ BoundedFault(manifest)
                     /\ manifest.actions[1].workers \in 0..8
      /\ ~HasFault => manifest.actions = <<>>
  BY <1>2 DEF ValidManifest, HasFault
<1>6. HasFault => manifest.actions[1].id = NoAction.id
  BY <1>1, PlansAssumption DEF HasFault
<1>7. /\ manifest.adapter.state \in {"available", "unavailable"}
      /\ manifest.adapter.reason \in AdapterReasons \cup {None}
  BY <1>1, PlansAssumption
<1>8. ~Available => manifest.adapter.reason # None
  BY <1>3, <1>7 DEF ValidPlan, Available
<1> QED
  BY <1>1, <1>2, <1>3, <1>4, <1>5, <1>6, <1>7, <1>8 DEF Available

LEMMA PhasesDone ==
  ASSUME ExperimentInv, Honestly, ended # None, NEW n, n = N
  PROVE  /\ n \in 0..6 /\ phases \in Seq(Actual) /\ Len(phases) = n /\ DOMAIN phases = 1..n
         /\ rows \in Seq(Seq(Row)) /\ DOMAIN rows = 1..n /\ seconds \in Seq(Seq(Moment)) /\ DOMAIN seconds = 1..n
         /\ \A i \in 1..n : /\ rows[i] \in Seq(Row) /\ seconds[i] \in Seq(Moment)
                            /\ gaps[i] \in Reasons \cup {None} /\ phases[i] \in Actual
                            /\ phases[i].phase = Phases[i]
                            /\ phases[i].start \in Nat /\ phases[i].end \in Nat
                            /\ phases[i].end = phases[i].start + Second * Len(seconds[i])
                            /\ Second * Len(seconds[i]) <= manifest.phases[i].duration
                            /\ phases[i].state = "complete" => Second * Len(seconds[i]) = manifest.phases[i].duration
                            /\ gaps[i] = None => phases[i].state = "complete" /\ Len(rows[i]) = Len(seconds[i])
                            /\ RowsFollow(i)
         /\ \A i \in 1..n - 1 : phases[i].state = "complete" /\ phases[i + 1].start - phases[i].end \in Waited(i)
                                /\ GoesOn(i)
         /\ n > 0 => phases[1].start = 0
<1>1. n \in 0..6 /\ RecordsTyped(n)
  BY DEF ExperimentInv, ExperimentTyped
<1>2. /\ phases \in Seq(Actual) /\ Len(phases) = n
      /\ rows \in Seq(Seq(Row)) /\ Len(rows) = n
      /\ gaps \in Seq(Reasons \cup {None}) /\ Len(gaps) = n
      /\ seconds \in Seq(Seq(Moment)) /\ Len(seconds) = n
  BY <1>1 DEF RecordsTyped
<1>3. /\ DOMAIN phases = 1..n /\ DOMAIN rows = 1..n /\ DOMAIN seconds = 1..n
      /\ \A i \in 1..n : /\ rows[i] \in Seq(Row) /\ seconds[i] \in Seq(Moment)
                         /\ gaps[i] \in Reasons \cup {None} /\ phases[i] \in Actual
  BY <1>2, ElementOf
<1>4. ~InPhase /\ (n > 0 /\ gaps[n] = None => phases[n].state = "complete")
  BY DEF Honestly, EndTrue
<1>5. \A i \in 1..n : /\ phases[i].start \in Nat /\ phases[i].end \in Nat \cup {None}
                      /\ (i < n => phases[i].end \in Nat)
  BY TimesTyped DEF ExperimentInv
<1>6. ASSUME NEW i \in 1..n
      PROVE  /\ phases[i].phase = Phases[i] /\ (i < n => phases[i].state = "complete")
             /\ gaps[i] = None => Len(rows[i]) = Len(seconds[i])
             /\ phases[i].state = "complete" => Second * Len(seconds[i]) = manifest.phases[i].duration
  <2>1. PhaseTrue(i) /\ (i < n => phases[i].state = "complete")
    BY DEF ExperimentInv, PhasesTrue
  <2> QED
    BY <2>1 DEF PhaseTrue, Recorded, Timed
<1>7. ASSUME NEW i \in 1..n
      PROVE  /\ RowsFollow(i) /\ Second * Len(seconds[i]) <= manifest.phases[i].duration
             /\ phases[i].end \in Nat /\ phases[i].end = phases[i].start + Second * Len(seconds[i])
             /\ gaps[i] = None => phases[i].state = "complete"
  <2>1. RowsFollow(i) /\ Lasts(i)
    BY DEF Honestly, RowsTrue, TimesTrue
  <2>2. phases[i].end \in Nat
    <3>1. n > 0 => phases[n].end # None
      BY <1>1, <1>4 DEF InPhase
    <3>2. i < n \/ (i = n /\ n > 0)
      BY <1>1
    <3> QED
      BY <1>5, <3>1, <3>2
  <2>3. phases[i].end # None
    BY <2>2, NoneOfThese
  <2>4. i < n \/ (i = n /\ n > 0)
    BY <1>1
  <2> QED
    BY <1>4, <1>6, <2>1, <2>2, <2>3, <2>4 DEF Lasts
<1>8. ASSUME NEW i \in 1..n - 1
      PROVE  /\ phases[i].state = "complete" /\ phases[i + 1].start - phases[i].end \in Waited(i)
             /\ GoesOn(i)
  <2>1. i \in 1..n /\ i < n
    BY <1>1
  <2> QED
    BY <1>6, <2>1 DEF Honestly, RowsTrue, TimesTrue
<1>9. n > 0 => phases[1].start = 0
  BY DEF Honestly, TimesTrue
<1> QED
  BY <1>1, <1>2, <1>3, <1>5, <1>6, <1>7, <1>8, <1>9

(* They fit into twenty minutes. *)
TimesRun(n, d, s, e, w) ==
  /\ \A i \in 1..6 : d[i] \in Nat
  /\ \A i \in 1..n : s[i] \in Nat /\ e[i] \in Nat /\ e[i] <= s[i] + d[i]
  /\ n > 0 => s[1] = 0
  /\ \A i \in 1..n - 1 : s[i + 1] <= e[i] + (IF i \in {2, 4} THEN w ELSE 0)
LEMMA TimeRuns ==
  ASSUME NEW n \in 0..6, NEW d, NEW s, NEW e, NEW w \in Nat, TimesRun(n, d, s, e, w)
  PROVE  \A i \in 1..n : e[i] <= d[1] + d[2] + d[3] + d[4] + d[5] + d[6] + 2 * w
<1>0. /\ d[1] \in Nat /\ d[2] \in Nat /\ d[3] \in Nat /\ d[4] \in Nat /\ d[5] \in Nat /\ d[6] \in Nat
      /\ \A i \in 1..n : s[i] \in Nat /\ e[i] \in Nat /\ e[i] <= s[i] + d[i]
      /\ \A i \in 1..n - 1 : s[i + 1] <= e[i] + (IF i \in {2, 4} THEN w ELSE 0)
  BY DEF TimesRun
<1>1. n > 0 => e[1] <= d[1]
  BY <1>0 DEF TimesRun
<1>2. n > 1 => e[2] <= d[1] + d[2]
  <2>1. n > 1 => s[1 + 1] <= e[1] + 0 /\ e[2] <= s[2] + d[2] /\ s[2] \in Nat /\ e[2] \in Nat /\ e[1] \in Nat
    BY <1>0
  <2> QED
    BY <1>0, <1>1, <2>1
<1>3. n > 2 => e[3] <= d[1] + d[2] + d[3] + w
  <2>1. n > 2 => s[2 + 1] <= e[2] + w /\ e[3] <= s[3] + d[3] /\ s[3] \in Nat /\ e[3] \in Nat /\ e[2] \in Nat
    BY <1>0
  <2> QED
    BY <1>0, <1>2, <2>1
<1>4. n > 3 => e[4] <= d[1] + d[2] + d[3] + d[4] + w
  <2>1. n > 3 => s[3 + 1] <= e[3] + 0 /\ e[4] <= s[4] + d[4] /\ s[4] \in Nat /\ e[4] \in Nat /\ e[3] \in Nat
    BY <1>0
  <2> QED
    BY <1>0, <1>3, <2>1
<1>5. n > 4 => e[5] <= d[1] + d[2] + d[3] + d[4] + d[5] + 2 * w
  <2>1. n > 4 => s[4 + 1] <= e[4] + w /\ e[5] <= s[5] + d[5] /\ s[5] \in Nat /\ e[5] \in Nat /\ e[4] \in Nat
    BY <1>0
  <2> QED
    BY <1>0, <1>4, <2>1
<1>6. n > 5 => e[6] <= d[1] + d[2] + d[3] + d[4] + d[5] + d[6] + 2 * w
  <2>1. n > 5 => s[5 + 1] <= e[5] + 0 /\ e[6] <= s[6] + d[6] /\ s[6] \in Nat /\ e[6] \in Nat /\ e[5] \in Nat
    BY <1>0
  <2> QED
    BY <1>0, <1>5, <2>1
<1>7. SUFFICES ASSUME NEW i \in 1..n PROVE e[i] <= d[1] + d[2] + d[3] + d[4] + d[5] + d[6] + 2 * w
  OBVIOUS
<1>8. i \in {1, 2, 3, 4, 5, 6} /\ i <= n /\ e[i] \in Nat
  BY <1>0
<1>9. CASE i \in {1, 2, 3}
  BY <1>0, <1>1, <1>2, <1>3, <1>8, <1>9
<1>10. CASE i \in {4, 5, 6}
  BY <1>0, <1>4, <1>5, <1>6, <1>8, <1>10
<1> QED
  BY <1>8, <1>9, <1>10

LEMMA TimesFit ==
  ASSUME ExperimentInv, Honestly, ended # None
  PROVE  \A i \in 1..N : phases[i].end <= 1200 * Second
<1> DEFINE n == N
           d(i) == manifest.phases[i].duration
           w == IF HasFault THEN MaxWait ELSE 0
<1>1. /\ n \in 0..6
      /\ \A i \in 1..n : /\ phases[i].start \in Nat /\ phases[i].end \in Nat
                         /\ phases[i].end <= phases[i].start + d(i)
      /\ \A i \in 1..n - 1 : phases[i + 1].start - phases[i].end \in Waited(i)
      /\ n > 0 => phases[1].start = 0
  <2>1. \A i \in 1..n : /\ phases[i].start \in Nat /\ phases[i].end \in Nat
                        /\ phases[i].end = phases[i].start + Second * Len(seconds[i])
                        /\ Second * Len(seconds[i]) <= d(i)
                        /\ Len(seconds[i]) \in Nat /\ d(i) \in Nat
    <3> SUFFICES ASSUME NEW i \in 1..n
                 PROVE  /\ phases[i].start \in Nat /\ phases[i].end \in Nat
                        /\ phases[i].end = phases[i].start + Second * Len(seconds[i])
                        /\ Second * Len(seconds[i]) <= d(i)
                        /\ Len(seconds[i]) \in Nat /\ d(i) \in Nat
      OBVIOUS
    <3>1. n \in 0..6 /\ seconds[i] \in Seq(Moment)
      BY PhasesDone
    <3>2. i \in 1..6 /\ Len(seconds[i]) \in Nat
      BY <3>1
    <3>3. d(i) \in Nat
      BY <3>2, ManifestsKept
    <3>4. /\ phases[i].start \in Nat /\ phases[i].end \in Nat
          /\ phases[i].end = phases[i].start + Second * Len(seconds[i])
          /\ Second * Len(seconds[i]) <= d(i)
      BY PhasesDone
    <3> QED
      BY <3>2, <3>3, <3>4
  <2>2. n \in 0..6 /\ (\A i \in 1..n - 1 : phases[i + 1].start - phases[i].end \in Waited(i))
        /\ (n > 0 => phases[1].start = 0)
    BY PhasesDone
  <2> HIDE DEF n, d
  <2>3. \A i \in 1..n : phases[i].end <= phases[i].start + d(i)
    BY <2>1 DEF Second
  <2> QED
    BY <2>1, <2>2, <2>3
<1>2. MaxWait \in Nat /\ w \in Nat
  BY WaitAssumption
<1>3. d(1) \in Nat /\ d(2) \in Nat /\ d(3) \in Nat /\ d(4) \in Nat /\ d(5) \in Nat /\ d(6) \in Nat
  BY ManifestsKept
<1>4. d(1) + d(2) + d(3) + d(4) + d(5) + d(6) + 2 * w <= 1200 * Second
  <2>1. Planned(manifest) + (IF manifest.actions = <<>> THEN 0 ELSE 2 * MaxWait) <= 1200 * Second
    BY RoomAssumption, ManifestsKept
  <2> QED
    BY <2>1, <1>2, <1>3 DEF Planned, HasFault, Second
<1>5. ASSUME NEW i \in 1..n - 1
      PROVE  phases[i + 1].start <= phases[i].end + (IF i \in {2, 4} THEN w ELSE 0)
  <2>1. \A x \in Waited(i) : x <= (IF i \in {2, 4} THEN w ELSE 0) /\ x \in Nat
    BY <1>2 DEF Waited
  <2>2. i \in 1..n /\ i + 1 \in 1..n
    BY <1>1
  <2> HIDE DEF n, w
  <2> QED
    BY <1>1, <1>2, <2>1, <2>2
<1> DEFINE s == [i \in 1..6 |-> phases[i].start]
           e == [i \in 1..6 |-> phases[i].end]
           f == [i \in 1..6 |-> d(i)]
<1>6. \A i \in 1..6 : s[i] = phases[i].start /\ e[i] = phases[i].end /\ f[i] = d(i)
  OBVIOUS
<1>7. (\A i \in 1..n : i \in 1..6) /\ (\A i \in 1..n - 1 : i \in 1..6 /\ i + 1 \in 1..6) /\ (n > 0 => 1 \in 1..n)
  BY <1>1
<1>8. \A i \in 1..6 : d(i) \in Nat
  BY ManifestsKept
<1> HIDE DEF n, w, d, s, e, f
<1>9. \A i \in 1..n : s[i] \in Nat /\ e[i] \in Nat /\ e[i] <= s[i] + f[i]
  BY <1>1, <1>6, <1>7
<1>10. \A i \in 1..n - 1 : s[i + 1] <= e[i] + (IF i \in {2, 4} THEN w ELSE 0)
  BY <1>5, <1>6, <1>7
<1>11. TimesRun(n, f, s, e, w)
  BY <1>1, <1>6, <1>7, <1>8, <1>9, <1>10 DEF TimesRun
<1>12. \A i \in 1..n : e[i] <= f[1] + f[2] + f[3] + f[4] + f[5] + f[6] + 2 * w
  BY <1>1, <1>2, <1>11, TimeRuns
<1>13. \A i \in 1..n : phases[i].end <= 1200 * Second
  <2> SUFFICES ASSUME NEW i \in 1..n PROVE phases[i].end <= 1200 * Second
    OBVIOUS
  <2>1. /\ e[i] <= d(1) + d(2) + d(3) + d(4) + d(5) + d(6) + 2 * w
        /\ e[i] \in Nat /\ e[i] = phases[i].end
    BY <1>6, <1>7, <1>9, <1>12
  <2> QED
    BY <1>2, <1>3, <1>4, <2>1 DEF Second
<1> QED
  BY <1>13 DEF n

LEMMA PrefixOfPhases ==
  ASSUME NEW n \in 0..6, NEW ps \in Seq(Actual), Len(ps) = n, \A i \in 1..n : ps[i].phase = Phases[i]
  PROVE  IsPhasePrefix(ps)
<1>1. Phases \in Seq(PhaseNames) /\ Len(Phases) = 6
  BY PhasesInOrder DEF Phases
<1>2. DOMAIN ps = 1..n
  OBVIOUS
<1>3. SubSeq(Phases, 1, n) = [i \in 1..n |-> Phases[i]]
  BY <1>1
<1>4. [i \in DOMAIN ps |-> ps[i].phase] = [i \in 1..n |-> Phases[i]]
  BY <1>2
<1> QED
  BY <1>3, <1>4 DEF IsPhasePrefix

LEMMA ProbeIsFourth ==
  \A i \in 1..5 : Phases[i + 1] = "probe" => i = 3
<1>1. \A i \in 1..5 : i \in {1, 2, 3, 4, 5}
  OBVIOUS
<1> QED
  BY <1>1, PhasesInOrder

LEMMA RunFollows ==
  ASSUME ExperimentInv, Honestly, ended # None
  PROVE  PhasesFollow(phases)
<1> DEFINE n == N
<1>1. n \in 0..6 /\ phases \in Seq(Actual) /\ Len(phases) = n /\ DOMAIN phases = 1..n
      /\ (n > 0 => phases[1].start = 0)
  BY PhasesDone
<1>2. \A i \in 1..n : phases[i].phase = Phases[i]
  BY PhasesDone
<1>3. phases # <<>> => phases[1].start = 0
  BY <1>1
<1>4. ASSUME NEW i \in 1..n PROVE ValidActual(phases[i])
  <2>1. /\ phases[i].start \in Nat /\ phases[i].end \in Nat
        /\ phases[i].end = phases[i].start + Second * Len(seconds[i])
        /\ phases[i].state = "complete" => Second * Len(seconds[i]) = manifest.phases[i].duration
        /\ seconds[i] \in Seq(Moment)
    BY PhasesDone
  <2>2. phases[i].end <= 1200 * Second
    BY TimesFit
  <2>3. i \in 1..6 /\ manifest.phases[i].duration \in Nat /\ manifest.phases[i].duration \in Second..300 * Second
    BY <1>1, ManifestsKept
  <2>4. Len(seconds[i]) \in Nat /\ phases[i].start # None
    BY <2>1, NoneOfThese
  <2>5. phases[i].end - phases[i].start = Second * Len(seconds[i]) /\ phases[i].start <= phases[i].end
    BY <2>1, <2>4 DEF Second
  <2>6. phases[i].state = "complete" => phases[i].end - phases[i].start \in Second..302 * Second
    <3>1. \A x \in Nat : x \in Second..300 * Second => x \in Second..302 * Second
      BY DEF Second
    <3> QED
      BY <2>1, <2>3, <2>5, <3>1
  <2> QED
    BY <2>2, <2>4, <2>5, <2>6 DEF ValidActual, Ordered
<1>5. ASSUME NEW i \in 1..n - 1
      PROVE  /\ phases[i].state = "complete"
             /\ phases[i + 1].start - phases[i].end \in 0..5 * Second
             /\ phases[i + 1].phase = "probe" => phases[i + 1].start - phases[i].end = 0
  <2>1. phases[i].state = "complete" /\ phases[i + 1].start - phases[i].end \in Waited(i)
    BY PhasesDone
  <2>2. i \in 1..5 /\ i + 1 \in 1..n
    BY <1>1
  <2>3. Waited(i) \subseteq 0..5 * Second /\ (i = 3 => Waited(i) = {0})
    BY WaitAssumption, RoomAssumption DEF Waited, Second
  <2>4. phases[i + 1].phase = "probe" => i = 3
    BY <1>2, <2>2, ProbeIsFourth
  <2> QED
    BY <2>1, <2>3, <2>4
<1>6. IsPhasePrefix(phases)
  BY <1>1, <1>2, PrefixOfPhases
<1> HIDE DEF n
<1> QED
  BY <1>1, <1>3, <1>4, <1>5, <1>6 DEF PhasesFollow

(* How a run may have ended. *)
LEMMA EndsAre ==
  ASSUME ExperimentInv, Honestly, ended # None
  PROVE  EndedWhole \/ EndedShort \/ EndedUnbegun
BY DEF Honestly, EndTrue

LEMMA UnneededValid == ValidCleanup(Unneeded) /\ Unneeded.state = "not_required"
BY DEF Unneeded, Cleaned, ValidCleanup, Ordered

LEMMA OverClean ==
  ASSUME ExperimentInv, Honestly, ended # None, N = 6, Over
  PROVE  /\ HasFault /\ phases[3].start \in Nat /\ phases[4].end \in Nat
         /\ phases[5].start \in Nat /\ phases[2].end <= phases[3].start /\ phases[4].end <= phases[5].start
         /\ phases[2].end \in Nat /\ phases[5].start - phases[4].end <= 5 * Second
         /\ phases[4].end - phases[3].start <= FaultTime(manifest) + 10 * Second
         /\ phases[3].start <= phases[4].end
         /\ action = [id |-> NoAction.id, state |-> "stopped",
                      started |-> phases[3].start, stopped |-> phases[4].end, reason |-> None]
         /\ cleanup = Cleaned("restored", None, phases[4].end, phases[5].start, 0)
<1>0. ASSUME NEW i \in 1..6
      PROVE  /\ phases[i].start \in Nat /\ phases[i].end \in Nat
             /\ phases[i].end = phases[i].start + Second * Len(seconds[i])
             /\ Second * Len(seconds[i]) <= manifest.phases[i].duration
             /\ Len(seconds[i]) \in Nat
  <2>1. seconds[i] \in Seq(Moment)
    BY PhasesDone
  <2>2. Len(seconds[i]) \in Nat
    BY <2>1
  <2> QED
    BY <2>2, PhasesDone
<1>1. /\ phases[2].end \in Nat /\ phases[3].start \in Nat /\ phases[3].end \in Nat
      /\ phases[4].start \in Nat /\ phases[4].end \in Nat /\ phases[5].start \in Nat
      /\ phases[4].end = phases[4].start + Second * Len(seconds[4])
      /\ phases[3].end = phases[3].start + Second * Len(seconds[3])
      /\ Second * Len(seconds[4]) <= manifest.phases[4].duration
      /\ Second * Len(seconds[3]) <= manifest.phases[3].duration
      /\ Len(seconds[3]) \in Nat /\ Len(seconds[4]) \in Nat
  BY <1>0
<1>2. \A i \in 1..5 : phases[i + 1].start - phases[i].end \in Waited(i)
  BY PhasesDone
<1>3. manifest.phases[3].duration \in Nat /\ manifest.phases[4].duration \in Nat
  BY ManifestsKept
<1>4. HasFault /\ phases[3].start <= phases[4].end
  BY DEF Over
<1>5. MaxWait \in Nat /\ MaxWait <= 5 * Second
  BY WaitAssumption, RoomAssumption
<1>6. Waited(2) = 0..MaxWait /\ Waited(4) = 0..MaxWait /\ Waited(3) = {0}
  BY <1>4 DEF Waited
<1>7. phases[2 + 1].start - phases[2].end \in Waited(2) /\ phases[3 + 1].start - phases[3].end \in Waited(3)
      /\ phases[4 + 1].start - phases[4].end \in Waited(4)
  BY <1>2
<1>8. /\ phases[2].end <= phases[3].start /\ phases[4].end <= phases[5].start
      /\ phases[5].start - phases[4].end <= 5 * Second /\ phases[4].start = phases[3].end
  <2>1. \A x, y \in Nat : x - y \in Waited(2) \/ x - y \in Waited(4) => y <= x /\ x - y <= 5 * Second
    BY <1>5, <1>6 DEF Second
  <2>2. \A x, y \in Nat : x - y \in Waited(3) => x = y
    BY <1>6
  <2>3. phases[3].start - phases[2].end \in Waited(2) /\ phases[4].start - phases[3].end \in Waited(3)
        /\ phases[5].start - phases[4].end \in Waited(4)
    BY <1>7
  <2>4. phases[2].end <= phases[3].start
    BY <1>1, <2>1, <2>3
  <2>5. phases[4].end <= phases[5].start /\ phases[5].start - phases[4].end <= 5 * Second
    BY <1>1, <2>1, <2>3
  <2>6. phases[4].start = phases[3].end
    BY <1>1, <2>2, <2>3
  <2> QED
    BY <2>4, <2>5, <2>6
<1>9. phases[4].end - phases[3].start <= FaultTime(manifest) + 10 * Second
  <2>0. \A x, y, d, l \in Nat : y = x + Second * l /\ Second * l <= d => y <= x + d
    BY DEF Second
  <2>1. phases[4].end <= phases[4].start + manifest.phases[4].duration
    BY <1>1, <1>3, <2>0
  <2>2. phases[3].end <= phases[3].start + manifest.phases[3].duration
    BY <1>1, <1>3, <2>0
  <2>3. phases[4].end - phases[3].start <= manifest.phases[3].duration + manifest.phases[4].duration
    <3>1. \A s, e, t, u, x, y \in Nat : u <= t + y /\ e <= s + x /\ t = e => u - s <= x + y
      OBVIOUS
    <3> QED
      BY <1>1, <1>3, <1>8, <2>1, <2>2, <3>1
  <2>4. \A x \in Int, y \in Nat : x <= y => x <= y + 10 * Second
    BY DEF Second
  <2>5. phases[4].end - phases[3].start \in Int
    BY <1>1
  <2> QED
    BY <1>3, <2>3, <2>4, <2>5 DEF FaultTime
<1>10. /\ action = [id |-> NoAction.id, state |-> "stopped",
                    started |-> phases[3].start, stopped |-> phases[4].end, reason |-> None]
       /\ cleanup = Cleaned("restored", None, phases[4].end, phases[5].start, 0)
  <2>1. /\ action = [NoAction EXCEPT !.state = "stopped", !.started = phases[3].start, !.stopped = phases[4].end]
        /\ cleanup = Cleaned("restored", None, phases[4].end, cleanup.ended, 0)
    BY DEF Over
  <2>2. cleanup.ended = phases[5].start
    <3>1. IF 6 = 4 THEN TRUE ELSE cleanup.ended = phases[5].start
      BY DEF Over
    <3> QED
      BY <3>1
  <2> QED
    BY <2>1, <2>2 DEF NoAction
<1> QED
  BY <1>1, <1>4, <1>8, <1>9, <1>10

LEMMA StoppedValid ==
  ASSUME NEW s \in Nat, NEW t \in Nat, s <= t, NEW u \in Nat, t <= u, u - t <= 5 * Second
  PROVE  /\ ValidAction([id |-> NoAction.id, state |-> "stopped", started |-> s, stopped |-> t, reason |-> None])
         /\ ValidCleanup(Cleaned("restored", None, t, u, 0))
<1>1. s # None /\ t # None /\ u # None
  BY NoneOfThese
<1>2. u - t <= 10 * Second
  BY DEF Second
<1> QED
  BY <1>1, <1>2 DEF ValidAction, ValidCleanup, Cleaned, Ordered

LEMMA FaultReported ==
  ASSUME ExperimentInv, Honestly, ended # None
  PROVE  /\ HasFault /\ Available => ValidAction(action) /\ action.id = NoAction.id /\ Covered
         /\ ValidCleanup(cleanup)
         /\ EndedUnbegun => cleanup.state = "not_required"
         /\ EndedWhole /\ HasFault => Over
         /\ EndedWhole => cleanup.state \in {"not_required", "restored"}
<1>1. EndedWhole \/ EndedShort \/ EndedUnbegun
  BY EndsAre
<1>2. EndedUnbegun => ~Available /\ cleanup = Unneeded
  BY DEF EndedUnbegun
<1>3. EndedShort => ValidAction(action) /\ action.id = NoAction.id /\ Covered /\ ValidCleanup(cleanup)
  BY DEF EndedShort
<1>4. EndedWhole => N = 6 /\ (Idle \/ Over)
  BY DEF EndedWhole
<1>5. N = 6 /\ Idle => ~HasFault /\ cleanup = Unneeded
  BY DEF Idle
<1>6. N = 6 /\ Over => /\ ValidAction(action) /\ action.id = NoAction.id /\ Covered
                       /\ ValidCleanup(cleanup) /\ cleanup.state = "restored"
  <2> SUFFICES ASSUME N = 6, Over
               PROVE  /\ ValidAction(action) /\ action.id = NoAction.id /\ Covered
                      /\ ValidCleanup(cleanup) /\ cleanup.state = "restored"
    OBVIOUS
  <2>1. phases[4].end # None /\ phases[5].start # None
    BY OverClean, NoneOfThese
  <2> QED
    BY <2>1, OverClean, StoppedValid DEF Covered, Cleaned
<1>7. EndedWhole => ended.status = "completed"
  BY DEF EndedWhole
<1>8. EndedShort => ended.status = "aborted"
  BY DEF EndedShort
<1>9. EndedUnbegun => ended.status = "unsupported"
  BY DEF EndedUnbegun
<1> QED
  BY <1>1, <1>2, <1>3, <1>4, <1>5, <1>6, <1>7, <1>8, <1>9, UnneededValid

(* What a bundle holds, one artifact for each phase in each role. *)
LEMMA ArtifactIsOf ==
  ASSUME NEW n \in 0..6, n = N, NEW j \in DOMAIN Artifacts
  PROVE  \/ j \in 1..n /\ Artifacts[j] = EvidenceAt(j)
         \/ j - n \in 1..Traced(n) /\ n + (j - n) = j /\ Artifacts[j] = TraceAt(j - n)
                                   /\ (j - n) + 1 \in 2..5 /\ (j - n) + 1 <= n
<1>1. j \in 1..(n + Traced(n)) /\ Traced(n) \in Nat
  BY ArtifactsAre DEF Traced
<1>2. CASE j \in 1..n
  BY <1>2, ArtifactsAre
<1>3. CASE j \notin 1..n
  <2>1. j - n \in 1..Traced(n) /\ n + (j - n) = j
    BY <1>1, <1>3
  <2>2. \A k \in 1..Traced(n) : k + 1 \in 2..5 /\ k + 1 <= n
    BY DEF Traced
  <2> QED
    BY <2>1, <2>2, ArtifactsAre
<1> QED
  BY <1>2, <1>3

LEMMA ArtifactsLength ==
  ASSUME NEW n \in 0..6, n = N
  PROVE  /\ Len(Artifacts) = n + Traced(n) /\ DOMAIN Artifacts = 1..(n + Traced(n)) /\ n + Traced(n) \in Nat
         /\ n = 0 => Artifacts = <<>>
<1>1. DOMAIN Artifacts = 1..(n + Traced(n)) /\ n + Traced(n) \in Nat
  <2>1. Traced(n) \in Nat
    BY DEF Traced
  <2> QED
    BY <2>1, ArtifactsAre
<1> DEFINE f == [i \in 1..n |-> EvidenceAt(i)]
           g == [i \in 1..Traced(n) |-> TraceAt(i)]
           S == {EvidenceAt(i) : i \in 1..n} \cup {TraceAt(i) : i \in 1..Traced(n)}
<1>2. Artifacts = f \o g
  BY DEF Artifacts, Traced, EvidenceAt, TraceAt
<1>3. f \in Seq(S) /\ g \in Seq(S) /\ Len(f) = n /\ Len(g) = Traced(n)
  <2>1. \A i \in 1..n : EvidenceAt(i) \in S
    OBVIOUS
  <2>2. \A i \in 1..Traced(n) : TraceAt(i) \in S
    OBVIOUS
  <2>3. n \in Nat /\ Traced(n) \in Nat
    BY DEF Traced
  <2> HIDE DEF S
  <2> QED
    BY <2>1, <2>2, <2>3
<1> HIDE DEF f, g, S
<1>4. Len(f \o g) = Len(f) + Len(g)
  BY <1>3
<1>5. n = 0 => f \o g = <<>>
  <2>1. f \o g \in Seq(S) /\ (n = 0 => Traced(n) = 0)
    BY <1>3 DEF Traced
  <2> QED
    BY <1>3, <1>4, <2>1, NoneIn
<1> QED
  BY <1>1, <1>2, <1>3, <1>4, <1>5

LEMMA EachInItsRole ==
  ASSUME NEW n \in 0..6, n = N, NEW r, r.artifacts = Artifacts
  PROVE  Cardinality(Roles(r)) = Len(r.artifacts)
<1> DEFINE m == n + Traced(n)
           f == [j \in 1..m |-> <<Artifacts[j].role, Artifacts[j].phase>>]
<1>1. DOMAIN Artifacts = 1..m /\ Len(Artifacts) = m /\ m \in Nat
  BY ArtifactsLength
<1>2. Roles(r) = {f[j] : j \in 1..m}
  BY <1>1 DEF Roles
<1>3. ASSUME NEW j \in 1..m, NEW k \in 1..m, f[j] = f[k] PROVE j = k
  <2>1. Artifacts[j].role = Artifacts[k].role /\ Artifacts[j].phase = Artifacts[k].phase
    BY <1>3
  <2>2. \/ j \in 1..n /\ Artifacts[j] = EvidenceAt(j)
        \/ j - n \in 1..Traced(n) /\ n + (j - n) = j /\ Artifacts[j] = TraceAt(j - n)
                                  /\ (j - n) + 1 \in 2..5 /\ (j - n) + 1 <= n
    BY <1>1, ArtifactIsOf
  <2>3. \/ k \in 1..n /\ Artifacts[k] = EvidenceAt(k)
        \/ k - n \in 1..Traced(n) /\ n + (k - n) = k /\ Artifacts[k] = TraceAt(k - n)
                                  /\ (k - n) + 1 \in 2..5 /\ (k - n) + 1 <= n
    BY <1>1, ArtifactIsOf
  <2>4. CASE j \in 1..n /\ Artifacts[j] = EvidenceAt(j)
    <3>1. k \in 1..n /\ Artifacts[k] = EvidenceAt(k)
      BY <2>1, <2>3, <2>4 DEF EvidenceAt, TraceAt
    <3>2. Phases[j] = Phases[k] /\ j \in 1..6 /\ k \in 1..6
      BY <2>1, <2>4, <3>1 DEF EvidenceAt
    <3> QED
      BY <3>2, PhaseNamed
  <2>5. CASE j - n \in 1..Traced(n) /\ n + (j - n) = j /\ Artifacts[j] = TraceAt(j - n)
                                    /\ (j - n) + 1 \in 2..5
    <3>1. k - n \in 1..Traced(n) /\ n + (k - n) = k /\ Artifacts[k] = TraceAt(k - n) /\ (k - n) + 1 \in 2..5
      BY <2>1, <2>3, <2>5 DEF EvidenceAt, TraceAt
    <3>2. Phases[(j - n) + 1] = Phases[(k - n) + 1] /\ (j - n) + 1 \in 1..6 /\ (k - n) + 1 \in 1..6
      BY <2>1, <2>5, <3>1 DEF TraceAt
    <3>3. (j - n) + 1 = (k - n) + 1
      BY <3>2, PhaseNamed
    <3> QED
      BY <3>3
  <2> QED
    BY <2>2, <2>4, <2>5
<1> HIDE DEF m
<1>4. f \in Bijection(1..m, Roles(r))
  <2>1. f \in [1..m -> Roles(r)]
    BY <1>2
  <2>2. \A t \in Roles(r) : \E j \in 1..m : f[j] = t
    BY <1>2
  <2> HIDE DEF f
  <2> QED
    BY <1>3, <2>1, <2>2 DEF Bijection, Injection, Surjection, IsInjective
<1>5. ExistsBijection(1..m, Roles(r))
  BY <1>4 DEF ExistsBijection
<1> QED
  BY <1>1, <1>5, FS_CountingElements

LEMMA RolesAre ==
  ASSUME NEW n \in 0..6, n = N, NEW r, r.artifacts = Artifacts, NEW x \in Roles(r)
  PROVE  \/ \E i \in 1..n : x = <<"phase_evidence", Phases[i]>>
         \/ \E i \in 2..5 : i <= n /\ x = <<"stage_trace", Phases[i]>>
<1>1. PICK j \in DOMAIN Artifacts : x = <<Artifacts[j].role, Artifacts[j].phase>>
  BY DEF Roles
<1>2. CASE j \in 1..n /\ Artifacts[j] = EvidenceAt(j)
  BY <1>1, <1>2 DEF EvidenceAt
<1>3. CASE j - n \in 1..Traced(n) /\ n + (j - n) = j /\ Artifacts[j] = TraceAt(j - n)
                                  /\ (j - n) + 1 \in 2..5 /\ (j - n) + 1 <= n
  BY <1>1, <1>3 DEF TraceAt
<1> QED
  BY <1>2, <1>3, ArtifactIsOf

LEMMA RolesThere ==
  ASSUME N = 6, NEW r, r.artifacts = Artifacts
  PROVE  {"phase_evidence"} \X PhaseNames \cup {"stage_trace"} \X Measured \subseteq Roles(r)
<1>1. /\ DOMAIN Artifacts = 1..10
      /\ \A i \in 1..6 : Artifacts[i] = EvidenceAt(i)
      /\ \A i \in 1..4 : Artifacts[6 + i] = TraceAt(i)
  <2>1. Traced(6) = 4
    BY DEF Traced
  <2> QED
    BY <2>1, ArtifactsAre
<1>2. \A i \in 1..6 : <<"phase_evidence", Phases[i]>> \in Roles(r)
  <2> SUFFICES ASSUME NEW i \in 1..6 PROVE <<"phase_evidence", Phases[i]>> \in Roles(r)
    OBVIOUS
  <2>1. i \in DOMAIN Artifacts /\ Artifacts[i].role = "phase_evidence" /\ Artifacts[i].phase = Phases[i]
    BY <1>1 DEF EvidenceAt
  <2> QED
    BY <2>1 DEF Roles
<1>3. \A i \in 1..4 : <<"stage_trace", Phases[i + 1]>> \in Roles(r)
  <2> SUFFICES ASSUME NEW i \in 1..4 PROVE <<"stage_trace", Phases[i + 1]>> \in Roles(r)
    OBVIOUS
  <2>1. 6 + i \in DOMAIN Artifacts /\ Artifacts[6 + i].role = "stage_trace" /\ Artifacts[6 + i].phase = Phases[i + 1]
    BY <1>1 DEF TraceAt
  <2> QED
    BY <2>1 DEF Roles
<1>4. \A p \in PhaseNames : \E i \in 1..6 : p = Phases[i]
  BY PhasesInOrder
<1>5. \A p \in Measured : \E i \in 1..4 : p = Phases[i + 1]
  <2>1. Phases[1 + 1] = "healthy" /\ Phases[2 + 1] = "degraded" /\ Phases[3 + 1] = "probe" /\ Phases[4 + 1] = "recovery"
    BY PhasesInOrder
  <2> QED
    BY <2>1 DEF Measured
<1>6. \A p \in PhaseNames : <<"phase_evidence", p>> \in Roles(r)
  BY <1>2, <1>4
<1>7. \A p \in Measured : <<"stage_trace", p>> \in Roles(r)
  BY <1>3, <1>5
<1> QED
  BY <1>6, <1>7

LEMMA TracesAre ==
  ASSUME NEW n \in 0..6, n = N, NEW r, r.artifacts = Artifacts, NEW p \in PhaseNames,
         ModelsOf(r, "stage_trace")[p] # None
  PROVE  \E i \in 2..5 : ModelsOf(r, "stage_trace")[p] = TraceOf(i)
<1> DEFINE A == r.artifacts
           Is(j) == A[j].role = "stage_trace" /\ A[j].phase = p
           k == CHOOSE j \in DOMAIN A : Is(j)
<1>1. <<"stage_trace", p>> \in Roles(r) /\ ModelsOf(r, "stage_trace")[p] = A[k].model
  BY DEF ModelsOf
<1>2. \E j \in DOMAIN A : Is(j)
  BY <1>1 DEF Roles
<1>3. k \in DOMAIN A /\ A[k].role = "stage_trace"
  <2> HIDE DEF A
  <2> QED
    BY <1>2
<1> HIDE DEF k
<1>4. (k - n) + 1 \in 2..5 /\ Artifacts[k] = TraceAt(k - n)
  BY <1>3, ArtifactIsOf DEF EvidenceAt
<1>5. A[k].model = TraceOf((k - n) + 1)
  BY <1>4 DEF TraceAt
<1> QED
  BY <1>1, <1>4, <1>5

(* The evidence of each phase begun is valid, and belongs to the run. *)
LEMMA RowsValid ==
  ASSUME NEW s \in Nat, NEW k \in Nat, k > 0, NEW l \in Nat, k <= l, NEW row \in Row, NEW w \in 0..8,
         row.from = s + Second * (k - 1), row.to = row.from + Second, row.first <= row.last,
         row.workers = w, row.cpu <= Second * w
  PROVE  ValidInterval(row) /\ row.to = s + Second * k /\ row.to <= s + Second * l /\ row.to - row.from = Second
<1>1. /\ row.from \in Nat /\ row.to \in Nat /\ row.first \in Nat /\ row.last \in Nat /\ row.workers \in Nat
      /\ row.cpu \in Nat
  BY DEF Row
<1>2. row.to = s + Second * k /\ row.to - row.from = Second /\ row.to <= s + Second * l
  BY <1>1 DEF Second
<1>3. row.cpu <= (row.to - row.from) * row.workers
  BY <1>2
<1>4. 2 * (row.to - row.from) >= Second /\ row.to - row.from <= 5 * Second
  BY <1>2 DEF Second
<1> QED
  BY <1>2, <1>3, <1>4 DEF ValidInterval

LEMMA AskedAtMost ==
  ASSUME ExperimentInv, NEW i \in 1..6
  PROVE  AsMany(i) \in 0..8
<1>1. Requested \in 0..8
  BY ManifestsKept DEF Requested
<1> QED
  BY <1>1 DEF AsMany

LEMMA EvidenceValid ==
  ASSUME ExperimentInv, Honestly, ended # None, NEW i \in 1..N
  PROVE  ValidEvidence(EvidenceOf(i))
<1> DEFINE s == phases[i].start
           l == Len(seconds[i])
           R == rows[i]
           e == EvidenceOf(i)
<1>1. /\ s \in Nat /\ phases[i].end \in Nat /\ phases[i].end = s + Second * l
      /\ R \in Seq(Row) /\ seconds[i] \in Seq(Moment) /\ RowsFollow(i)
      /\ gaps[i] = None => phases[i].state = "complete" /\ Len(R) = l
      /\ phases[i].state = "complete" => Second * l = manifest.phases[i].duration
      /\ gaps[i] \in Reasons \cup {None} /\ N \in 0..6
  BY PhasesDone
<1>2. i \in 1..6 /\ l \in Nat /\ DOMAIN R = 1..Len(R) /\ Len(R) \in Nat /\ \A k \in 1..Len(R) : R[k] \in Row
  BY <1>1
<1>3. manifest.phases[i].duration \in Nat /\ manifest.phases[i].duration >= Second
  BY <1>2, ManifestsKept
<1>4. AsMany(i) \in 0..8
  BY <1>2, AskedAtMost
<1>5. Len(R) <= l
      /\ \A k \in 1..Len(R) : RowTrue(i, k, R[k]) /\ (k > 1 => R[k].first = R[k - 1].last)
  BY <1>1, <1>2 DEF RowsFollow
<1>6. ASSUME NEW k \in 1..Len(R)
      PROVE  /\ ValidInterval(R[k]) /\ R[k].to = s + Second * k /\ R[k].to <= s + Second * l
             /\ R[k].from = s + Second * (k - 1)
  <2>1. k \in Nat /\ k > 0 /\ k <= l /\ R[k] \in Row
    BY <1>2, <1>5
  <2>2. RowTrue(i, k, R[k])
    BY <1>5
  <2>3. /\ R[k].from = s + Second * (k - 1) /\ R[k].to = R[k].from + Second /\ R[k].first <= R[k].last
        /\ R[k].workers = AsMany(i) /\ R[k].cpu <= Second * AsMany(i)
    BY <2>2 DEF RowTrue
  <2> HIDE DEF s, l, R
  <2> QED
    BY <1>1, <1>2, <1>4, <2>1, <2>3, RowsValid
<1>7. e.start = s /\ e.end = phases[i].end /\ e.reason = gaps[i] /\ e.intervals = R
      /\ e.state = (IF gaps[i] = None THEN "complete" ELSE IF R = <<>> THEN "unavailable" ELSE "partial")
  BY DEF EvidenceOf
<1> HIDE DEF e, s, l, R
<1>8. ASSUME NEW k \in 1..Len(R) PROVE R[k].from = IF k = 1 THEN s ELSE R[k - 1].to
  <2>1. CASE k = 1
    BY <1>1, <1>6, <2>1 DEF Second
  <2>2. CASE k # 1
    <3>1. k - 1 \in 1..Len(R)
      BY <1>2, <2>2
    <3> QED
      BY <1>6, <2>2, <3>1
  <2> QED
    BY <2>1, <2>2
<1>9. CoversPrefix(e)
  <2>1. DOMAIN e.intervals = 1..Len(R)
    BY <1>2, <1>7
  <2>2. ASSUME NEW k \in 1..Len(R)
        PROVE  /\ ValidInterval(e.intervals[k]) /\ e.intervals[k].to <= e.end
               /\ k > 1 => e.intervals[k].first = e.intervals[k - 1].last
    BY <1>1, <1>5, <1>6, <1>7
  <2>3. \A k \in 1..Len(R) : e.intervals[k].from = IF k = 1 THEN e.start ELSE e.intervals[k - 1].to
    BY <1>7, <1>8
  <2> QED
    BY <2>1, <2>2, <2>3 DEF CoversPrefix
<1>10. Ordered(e.start, e.end)
  <2>1. s <= phases[i].end
    <3>1. \A x, y \in Nat : x <= x + Second * y
      BY DEF Second
    <3> QED
      BY <1>1, <1>2, <3>1
  <2>2. s # None
    BY <1>1, NoneOfThese
  <2> QED
    BY <1>7, <2>1, <2>2 DEF Ordered
<1>11. ASSUME gaps[i] = None
       PROVE  R # <<>> /\ s < phases[i].end /\ R[Len(R)].to = phases[i].end
  <2>1. l > 0 /\ Len(R) = l
    BY <1>1, <1>2, <1>3, <1>11 DEF Second
  <2>2. l \in 1..Len(R) /\ R # <<>>
    BY <1>1, <1>2, <2>1
  <2>3. s < phases[i].end
    BY <1>1, <1>2, <2>1 DEF Second
  <2> QED
    BY <1>1, <1>6, <2>1, <2>2, <2>3
<1>12. /\ (e.state = "complete") = (e.reason = None)
       /\ e.state = "unavailable" => e.intervals = <<>>
       /\ e.state = "complete" => gaps[i] = None
  BY <1>7
<1> QED
  <2>1. Last(e.intervals) = e.intervals[Len(e.intervals)]
    BY DEF Last
  <2>2. e.state = "complete" => e.intervals # <<>> /\ e.start < e.end /\ Last(e.intervals).to = e.end
    BY <1>7, <1>11, <1>12, <2>1
  <2>3. ValidEvidence(e)
    BY <1>9, <1>10, <1>12, <2>2 DEF ValidEvidence
  <2> QED
    BY <2>3 DEF e

LEMMA EvidenceOfRun ==
  ASSUME ExperimentInv, Honestly, ended # None, NEW i \in 1..N, NEW r,
         r.phases = phases, r.manifest = manifest.id
  PROVE  EvidenceBelongs(manifest, r, Phases[i], EvidenceOf(i))
<1> DEFINE n == N
           e == EvidenceOf(i)
           actual == r.phases[CHOOSE j \in DOMAIN r.phases : r.phases[j].phase = Phases[i]]
<1>1. /\ n \in 0..6 /\ DOMAIN phases = 1..n
      /\ gaps[i] = None => phases[i].state = "complete"
      /\ rows[i] \in Seq(Row) /\ RowsFollow(i)
  BY PhasesDone
<1>2. \A j \in 1..n : phases[j].phase = Phases[j]
  BY PhasesDone
<1>3. actual = phases[i]
  <2>1. i \in DOMAIN r.phases /\ r.phases[i].phase = Phases[i]
    BY <1>1, <1>2
  <2>2. \A j \in DOMAIN r.phases : r.phases[j].phase = Phases[i] => j = i
    <3>1. \A j \in 1..n : j \in 1..6
      BY <1>1
    <3> QED
      BY <1>1, <1>2, <3>1, PhaseNamed
  <2>3. (CHOOSE j \in DOMAIN r.phases : r.phases[j].phase = Phases[i]) = i
    BY <2>1, <2>2
  <2> QED
    BY <2>3
<1>4. /\ e.run = manifest.run /\ e.manifest = manifest.id /\ e.clock = manifest.clock /\ e.phase = Phases[i]
      /\ e.start = phases[i].start /\ e.end = phases[i].end /\ e.intervals = rows[i]
      /\ e.state = "complete" => gaps[i] = None
  BY DEF EvidenceOf
<1>5. WorkersMatch(manifest, r, e)
  <2>1. \A k \in DOMAIN rows[i] : rows[i][k].workers = AsMany(i)
    BY <1>1 DEF RowsFollow, RowTrue
  <2>2. AsMany(i) = IF manifest.actions # <<>> /\ e.phase \in {"degraded", "probe"} THEN manifest.actions[1].workers ELSE 0
    BY <1>4 DEF AsMany, Requested, HasFault
  <2>3. AsMany(i) <= AsMany(i)
    <3>1. i \in 1..6
      BY <1>1
    <3> QED
      BY <3>1, AskedAtMost
  <2> HIDE DEF e
  <2> QED
    BY <1>4, <2>1, <2>2, <2>3 DEF WorkersMatch
<1> HIDE DEF e, actual
<1>6. actual = r.phases[CHOOSE j \in DOMAIN r.phases : r.phases[j].phase = Phases[i]]
  BY DEF actual
<1> QED
  BY <1>1, <1>3, <1>4, <1>5 DEF EvidenceBelongs, actual, e

LEMMA GoesOnLinked ==
  ASSUME ExperimentInv, Honestly, ended # None, NEW r, r.phases = phases, r.artifacts = Artifacts
  PROVE  OneGeneration(r, ModelsOf(r, "phase_evidence"))
<1> DEFINE n == N
           ev == ModelsOf(r, "phase_evidence")
<1>1. n \in 0..6 /\ Len(phases) = n
  BY PhasesDone
<1>2. ASSUME NEW i \in 1..n PROVE ev[r.phases[i].phase] = EvidenceOf(i) /\ rows[i] \in Seq(Row)
  <2>1. phases[i].phase = Phases[i] /\ rows[i] \in Seq(Row)
    BY PhasesDone
  <2>2. Shaped(r.artifacts) /\ r.artifacts[i] = EvidenceAt(i)
    BY <1>1, ArtifactsShaped, ArtifactsAre
  <2>3. ev[Phases[i]] = r.artifacts[i].model
    BY <1>1, <2>2, ModelOfPhase
  <2> QED
    BY <2>1, <2>2, <2>3 DEF EvidenceAt
<1> HIDE DEF ev
<1>3. ASSUME NEW i \in 1..n - 1, EvidenceOf(i).intervals # <<>>, EvidenceOf(i + 1).intervals # <<>>
      PROVE  LET last == Last(EvidenceOf(i).intervals).last  first == Head(EvidenceOf(i + 1).intervals).first IN
             /\ first >= last
             /\ (EvidenceOf(i + 1).phase = "probe" /\ EvidenceOf(i).state = "complete") => first = last
  <2>1. GoesOn(i)
    BY PhasesDone
  <2>2. EvidenceOf(i).intervals = rows[i] /\ EvidenceOf(i + 1).intervals = rows[i + 1]
        /\ EvidenceOf(i + 1).phase = Phases[i + 1] /\ (EvidenceOf(i).state = "complete" => gaps[i] = None)
    BY DEF EvidenceOf
  <2>3. i \in 1..5 /\ i \in 1..n /\ i + 1 \in 1..n
    BY <1>1
  <2>4. rows[i] \in Seq(Row) /\ rows[i + 1] \in Seq(Row) /\ rows[i] # <<>> /\ rows[i + 1] # <<>>
    BY <1>2, <1>3, <2>2, <2>3
  <2>5. Last(rows[i]).last = LastOf(i) /\ Head(rows[i + 1]) = rows[i + 1][1] /\ LastOf(i) \in Nat /\ rows[i + 1][1].first \in Nat
    <3>1. \A s \in Seq(Row) : s # <<>> => s[Len(s)] \in Row /\ s[1] \in Row /\ Head(s) = s[1]
      OBVIOUS
    <3>2. rows[i][Len(rows[i])] \in Row /\ rows[i + 1][1] \in Row /\ Head(rows[i + 1]) = rows[i + 1][1]
      BY <2>4, <3>1
    <3>3. rows[i][Len(rows[i])].last \in Nat /\ rows[i + 1][1].first \in Nat
      BY <3>2 DEF Row
    <3> QED
      BY <3>2, <3>3 DEF Last, LastOf
  <2>6. LastOf(i) <= rows[i + 1][1].first /\ (i = 3 /\ gaps[3] = None => LastOf(3) = rows[4][1].first)
    BY <2>1, <2>4 DEF GoesOn
  <2>7. Phases[i + 1] = "probe" => i = 3
    BY <2>3, ProbeIsFourth
  <2>8. (Phases[i + 1] = "probe" /\ gaps[i] = None) => rows[i + 1][1].first = LastOf(i)
    <3> SUFFICES ASSUME Phases[i + 1] = "probe", gaps[i] = None PROVE rows[i + 1][1].first = LastOf(i)
      OBVIOUS
    <3>1. i = 3 /\ i + 1 = 4
      BY <2>7
    <3> QED
      BY <2>6, <3>1
  <2> QED
    BY <2>2, <2>5, <2>6, <2>8
<1>4. \A i \in 1..n - 1 : i \in 1..n /\ i + 1 \in 1..n
  BY <1>1
<1> HIDE DEF n
<1>5. \A i \in 1..n - 1 : ev[r.phases[i].phase] = EvidenceOf(i) /\ ev[r.phases[i + 1].phase] = EvidenceOf(i + 1)
  BY <1>2, <1>4
<1>6. Len(r.phases) = n
  BY <1>1
<1> QED
  BY <1>3, <1>5, <1>6 DEF OneGeneration, ev

(* The effect reported is that of the records. *)
LEMMA EffectsSame ==
  ASSUME NEW r, NEW d, r.artifacts = d.artifacts, r.status = d.status, r.cleanup = d.cleanup
  PROVE  EffectOf(r) = EffectOf(d)
<1>1. Roles(r) = Roles(d)
  BY DEF Roles
<1>2. ModelsOf(r, "phase_evidence") = ModelsOf(d, "phase_evidence")
      /\ ModelsOf(r, "stage_trace") = ModelsOf(d, "stage_trace")
  BY <1>1 DEF ModelsOf
<1>3. CannotTell(manifest, r) = CannotTell(manifest, d)
  BY DEF CannotTell
<1>4. ASSUME NEW ev PROVE RecomputeEffect(manifest, r, ev) = RecomputeEffect(manifest, d, ev)
  BY <1>3 DEF RecomputeEffect
<1>5. ASSUME NEW ev, NEW traces PROVE RecomputePacing(manifest, r, ev, traces) = RecomputePacing(manifest, d, ev, traces)
  BY <1>3 DEF RecomputePacing
<1> QED
  BY <1>2, <1>4, <1>5 DEF EffectOf

LEMMA NothingTold ==
  ASSUME NEW r, CannotTell(manifest, r) # None
  PROVE  EffectOf(r) = NoEffect(CannotTell(manifest, r))
<1>1. ASSUME NEW ev PROVE RecomputeEffect(manifest, r, ev) = NoEffect(CannotTell(manifest, r))
  BY DEF RecomputeEffect
<1>2. ASSUME NEW ev, NEW traces PROVE RecomputePacing(manifest, r, ev, traces) = NoEffect(CannotTell(manifest, r))
  BY DEF RecomputePacing
<1> QED
  BY <1>1, <1>2 DEF EffectOf

(* What an honest producer reports. *)
Reports(r) ==
  /\ r.run = manifest.run /\ r.manifest = manifest.id /\ r.status = ended.status /\ r.reason = ended.reason
  /\ r.phases = phases /\ r.artifacts = Artifacts /\ r.cleanup = cleanup
  /\ r.actions = (IF HasFault /\ Available THEN <<action>> ELSE <<>>)
  /\ r.effect = EffectOf(r)
LEMMA ResultReports == Reports(Result)
<1> DEFINE d == Draft(None)
<1>1. /\ d.artifacts = Artifacts /\ d.status = ended.status /\ d.cleanup = cleanup
      /\ \A e : /\ Draft(e).artifacts = Artifacts /\ Draft(e).status = ended.status /\ Draft(e).cleanup = cleanup
                /\ Draft(e).effect = e
  BY DEF Draft
<1>2. Result = Draft(EffectOf(d))
  BY DEF Result
<1> HIDE DEF d
<1>3. Result.effect = EffectOf(d) /\ EffectOf(Result) = EffectOf(d)
  BY <1>1, <1>2, EffectsSame
<1>4. /\ Result.run = manifest.run /\ Result.manifest = manifest.id /\ Result.status = ended.status
      /\ Result.reason = ended.reason /\ Result.phases = phases /\ Result.artifacts = Artifacts
      /\ Result.cleanup = cleanup /\ Result.actions = (IF HasFault /\ Available THEN <<action>> ELSE <<>>)
  BY <1>2 DEF Draft
<1> QED
  BY <1>3, <1>4 DEF Reports

LEMMA StatusOf ==
  /\ EndedWhole => ended.status = "completed" /\ ended.reason = None /\ Available
  /\ EndedShort => ended.status = "aborted" /\ ended.reason \in ReasonsOf("aborted") /\ Available
  /\ EndedUnbegun => ended.status = "unsupported" /\ ended.reason = manifest.adapter.reason /\ ~Available
BY DEF EndedWhole, EndedShort, EndedUnbegun

LEMMA EffectTold ==
  ASSUME ExperimentInv, Honestly, ended # None, NEW r, Reports(r)
  PROVE  /\ r.status = "unsupported" => r.effect = NoEffect("adapter_unavailable")
         /\ r.status = "aborted" => r.effect.state = "unavailable" /\ r.effect.reason = "incomplete_run"
<1>1. EndedWhole \/ EndedShort \/ EndedUnbegun
  BY EndsAre
<1>2. "adapter_unavailable" # None /\ "incomplete_run" # None
  <2>1. "adapter_unavailable" \in Excuses /\ "incomplete_run" \in Excuses
    BY DEF Excuses
  <2> QED
    BY <2>1, NoneAssumption DEF NoneIsNothing
<1>3. ASSUME r.status = "unsupported" PROVE r.effect = NoEffect("adapter_unavailable")
  <2>1. ~Available
    BY <1>1, <1>3, StatusOf DEF Reports
  <2>2. manifest.adapter.state = "unavailable"
    BY <2>1, ManifestsKept
  <2>3. CannotTell(manifest, r) = "adapter_unavailable"
    BY <2>2 DEF CannotTell
  <2> QED
    BY <1>2, <2>3, NothingTold DEF Reports
<1>4. ASSUME r.status = "aborted" PROVE r.effect.state = "unavailable" /\ r.effect.reason = "incomplete_run"
  <2>1. Available
    BY <1>1, <1>4, StatusOf DEF Reports
  <2>2. manifest.adapter.state # "unavailable"
    BY <2>1 DEF Available
  <2>3. CannotTell(manifest, r) = "incomplete_run"
    BY <1>4, <2>2 DEF CannotTell
  <2>4. r.effect = NoEffect("incomplete_run")
    BY <1>2, <2>3, NothingTold DEF Reports
  <2> QED
    BY <2>4 DEF NoEffect
<1> QED
  BY <1>3, <1>4

LEMMA ActionsReported ==
  ASSUME ExperimentInv, Honestly, ended # None, NEW r, Reports(r)
  PROVE  /\ \A i \in DOMAIN r.actions : i = 1 /\ r.actions[i] = action /\ HasFault /\ Available
         /\ HasFault /\ Available => Len(r.actions) = 1 /\ DOMAIN r.actions = {1} /\ r.actions[1] = action
         /\ ~HasFault \/ ~Available => r.actions = <<>>
<1>1. CASE HasFault /\ Available
  <2>1. r.actions = <<action>>
    BY <1>1 DEF Reports
  <2> QED
    BY <1>1, <2>1
<1>2. CASE ~(HasFault /\ Available)
  <2>1. r.actions = <<>>
    BY <1>2 DEF Reports
  <2> QED
    BY <1>2, <2>1
<1> QED
  BY <1>1, <1>2

LEMMA RunFinished ==
  ASSUME ExperimentInv, Honestly, ended # None, NEW r, Reports(r), r.status = "completed"
  PROVE  Finished(r)
<1>1. EndedWhole
  BY EndsAre, StatusOf DEF Reports
<1>2. N = 6 /\ phases[6].state = "complete" /\ Available
  BY <1>1 DEF EndedWhole
<1>3. phases \in Seq(Actual) /\ Len(phases) = 6
  BY <1>2, PhasesDone
<1>4. Len(r.phases) = 6 /\ Last(r.phases).state = "complete"
  BY <1>2, <1>3 DEF Reports, Last
<1>5. {"phase_evidence"} \X PhaseNames \cup {"stage_trace"} \X Measured \subseteq Roles(r)
  BY <1>2, RolesThere DEF Reports
<1>6. HasFault => Over
  BY <1>1, FaultReported
<1>7. CASE HasFault
  <2>1. /\ \A i \in DOMAIN r.actions : i = 1 /\ r.actions[i] = action
        /\ r.phases = phases /\ r.cleanup = cleanup
    BY ActionsReported DEF Reports
  <2>2. /\ action.state = "stopped" /\ action.started = phases[3].start /\ action.stopped = phases[4].end
        /\ cleanup.state = "restored" /\ cleanup.ended = phases[5].start
        /\ phases[3].start \in Nat /\ phases[4].end \in Nat /\ phases[5].start \in Nat /\ phases[2].end \in Nat
        /\ phases[2].end <= phases[3].start /\ phases[4].end <= phases[5].start
    <3>1. action = [id |-> NoAction.id, state |-> "stopped",
                    started |-> phases[3].start, stopped |-> phases[4].end, reason |-> None]
          /\ cleanup = Cleaned("restored", None, phases[4].end, phases[5].start, 0)
      BY <1>2, <1>6, <1>7, OverClean
    <3> QED
      BY <1>2, <1>6, <1>7, <3>1, OverClean DEF Cleaned
  <2>3. action.started \in phases[2].end..phases[3].start /\ action.stopped \in phases[4].end..phases[5].start
    BY <2>2
  <2>4. ActedBetween(r)
    BY <2>1, <2>3 DEF ActedBetween
  <2>5. cleanup.ended <= phases[5].start
    BY <2>2
  <2> QED
    BY <1>4, <1>5, <2>1, <2>2, <2>4, <2>5 DEF Finished
<1>8. CASE ~HasFault
  <2>1. r.actions = <<>>
    BY <1>8, ActionsReported
  <2> QED
    BY <1>4, <1>5, <2>1 DEF Finished
<1> QED
  BY <1>7, <1>8

LEMMA HonestResult ==
  ASSUME ExperimentInv, Honestly, ended # None, NEW r, Reports(r)
  PROVE  ValidResult(r)
<1> DEFINE n == N
<1>1. n \in 0..6 /\ r.artifacts = Artifacts /\ r.phases = phases /\ r.cleanup = cleanup
  BY PhasesDone DEF Reports
<1>2. EndedWhole \/ EndedShort \/ EndedUnbegun
  BY EndsAre
<1>3. r.reason \in ReasonsOf(r.status)
  <2>1. CASE EndedWhole
    BY <2>1, StatusOf DEF Reports, ReasonsOf
  <2>2. CASE EndedShort
    BY <2>2, StatusOf DEF Reports
  <2>3. CASE EndedUnbegun
    <3>1. r.status = "unsupported" /\ r.reason \in AdapterReasons
      BY <2>3, StatusOf, ManifestsKept DEF Reports
    <3> QED
      BY <3>1 DEF ReasonsOf
  <2> QED
    BY <1>2, <2>1, <2>2, <2>3
<1>4. PhasesFollow(r.phases)
  BY <1>1, RunFollows
<1>5. \A i \in DOMAIN r.actions : ValidAction(r.actions[i])
  BY ActionsReported, FaultReported
<1>6. Cardinality(Roles(r)) = Len(r.artifacts)
  BY <1>1, EachInItsRole
<1>7. ASSUME NEW x \in Roles(r)
      PROVE  /\ \E i \in DOMAIN r.phases : r.phases[i].phase = x[2]
             /\ x[1] = "stage_trace" => x[2] \in Measured
  <2>1. DOMAIN phases = 1..n
    BY PhasesDone
  <2>2. \A i \in 1..n : phases[i].phase = Phases[i]
    BY PhasesDone
  <2>3. \A i \in 2..5 : Phases[i] \in Measured /\ (i <= n => i \in 1..n)
    BY <1>1, PhasesInOrder DEF Measured
  <2>4. \/ \E i \in 1..n : x = <<"phase_evidence", Phases[i]>>
        \/ \E i \in 2..5 : i <= n /\ x = <<"stage_trace", Phases[i]>>
    BY <1>1, RolesAre
  <2> HIDE DEF n
  <2> QED
    BY <1>1, <2>1, <2>2, <2>3, <2>4
<1>8. ValidCleanup(r.cleanup)
  BY <1>1, FaultReported
<1>9. CleanupCovers(r)
  BY <1>1, ActionsReported, FaultReported DEF CleanupCovers, Covered
<1>10. r.status = "unsupported" =>
         /\ r.phases = <<>> /\ r.actions = <<>> /\ r.artifacts = <<>> /\ r.cleanup.state = "not_required"
         /\ r.effect = NoEffect("adapter_unavailable")
  <2> SUFFICES ASSUME r.status = "unsupported"
               PROVE  /\ r.phases = <<>> /\ r.actions = <<>> /\ r.artifacts = <<>> /\ r.cleanup.state = "not_required"
                      /\ r.effect = NoEffect("adapter_unavailable")
    OBVIOUS
  <2>1. EndedUnbegun /\ ~Available
    BY <1>2, StatusOf DEF Reports
  <2>2. N = 0
    BY <2>1 DEF EndedUnbegun
  <2>3. phases = <<>>
    <3>1. phases \in Seq(Actual) /\ Len(phases) = 0
      BY <2>2, PhasesDone
    <3> QED
      BY <3>1, NoneIn
  <2>4. Artifacts = <<>>
    BY <2>2, ArtifactsLength
  <2>5. r.actions = <<>>
    BY <2>1, ActionsReported
  <2>6. cleanup.state = "not_required"
    BY <2>1, FaultReported
  <2> QED
    BY <1>1, <2>3, <2>4, <2>5, <2>6, EffectTold
<1>11. r.status = "aborted" => r.effect.state = "unavailable" /\ r.effect.reason = "incomplete_run"
  BY EffectTold
<1>12. r.status = "completed" => Finished(r)
  BY RunFinished
<1>13. r.cleanup.state \in {"failed", "unverified"} =>
         /\ r.effect.state # "verified"
         /\ r.status = "completed" => r.effect.state = "unavailable" /\ r.effect.reason = "cleanup_unverified"
  <2> SUFFICES ASSUME cleanup.state \in {"failed", "unverified"}
               PROVE  r.effect.state # "verified" /\ r.status # "completed"
    BY <1>1
  <2>1. EndedShort
    BY <1>2, FaultReported
  <2>2. r.status = "aborted"
    BY <2>1, StatusOf DEF Reports
  <2> QED
    BY <1>11, <2>2
<1> HIDE DEF n
<1> QED
  BY <1>3, <1>4, <1>5, <1>6, <1>7, <1>8, <1>9, <1>10, <1>11, <1>12, <1>13 DEF ValidResult

LEMMA ActionsAsPlanned ==
  ASSUME ExperimentInv, Honestly, ended # None, NEW r, Reports(r)
  PROVE  ActionsMatch(manifest, r)
<1>1. EndedWhole \/ EndedShort \/ EndedUnbegun
  BY EndsAre
<1>2. CASE ~Available
  <2>1. r.status = "unsupported" /\ r.reason = manifest.adapter.reason /\ manifest.adapter.state = "unavailable"
    BY <1>1, <1>2, StatusOf, ManifestsKept DEF Reports
  <2> QED
    BY <2>1 DEF ActionsMatch
<1>3. CASE Available
  <2>1. r.status # "unsupported" /\ manifest.adapter.state # "unavailable"
    BY <1>1, <1>3, StatusOf DEF Reports, Available
  <2>2. CASE ~HasFault
    <3>1. manifest.actions = <<>> /\ r.actions = <<>>
      BY <2>2, ManifestsKept, ActionsReported
    <3> QED
      BY <2>1, <3>1 DEF ActionsMatch
  <2>3. CASE HasFault
    <3>1. Len(manifest.actions) = 1 /\ manifest.actions[1].id = NoAction.id /\ BoundedFault(manifest)
      BY <2>3, ManifestsKept
    <3>2. Len(r.actions) = 1 /\ r.actions[1] = action /\ action.id = NoAction.id
      BY <1>3, <2>3, ActionsReported, FaultReported
    <3>3. \A i \in DOMAIN manifest.actions : i = 1
      <4>1. DOMAIN manifest.actions = {1}
        BY <2>3, PlansAssumption, ManifestsKept DEF HasFault
      <4> QED
        BY <4>1
    <3>4. (r.status = "completed" /\ None \notin {action.started, action.stopped}) =>
            action.stopped - action.started <= manifest.actions[1].allowance
      <4> SUFFICES ASSUME r.status = "completed"
                   PROVE  action.stopped - action.started <= manifest.actions[1].allowance
        OBVIOUS
      <4>1. EndedWhole
        BY <1>1, StatusOf DEF Reports
      <4>2. N = 6 /\ Over
        BY <2>3, <4>1, FaultReported DEF EndedWhole
      <4>3. action.started = phases[3].start /\ action.stopped = phases[4].end
        BY <4>2, OverClean
      <4>4. phases[4].end - phases[3].start <= FaultTime(manifest) + 10 * Second
        BY <4>2, OverClean
      <4> QED
        BY <3>1, <4>3, <4>4 DEF BoundedFault
    <3> QED
      BY <2>1, <3>1, <3>2, <3>3, <3>4 DEF ActionsMatch
  <2> QED
    BY <2>2, <2>3
<1> QED
  BY <1>2, <1>3

LEMMA PhasesAsPlanned ==
  ASSUME ExperimentInv, Honestly, ended # None, NEW r, Reports(r)
  PROVE  PhasesMatch(manifest, r)
<1>1. r.phases = phases /\ DOMAIN phases = 1..N /\ N \in 0..6
  BY PhasesDone DEF Reports
<1>2. ASSUME NEW i \in 1..N, phases[i].state = "complete"
      PROVE  phases[i].end - phases[i].start - manifest.phases[i].duration \in 0..2 * Second
  <2>1. /\ phases[i].start \in Nat /\ phases[i].end \in Nat
        /\ phases[i].end = phases[i].start + Second * Len(seconds[i])
        /\ Second * Len(seconds[i]) = manifest.phases[i].duration
    BY <1>2, PhasesDone
  <2>2. i \in 1..6
    BY <1>1
  <2>3. manifest.phases[i].duration \in Nat
    BY <2>2, ManifestsKept
  <2>4. \A s, e, d \in Nat : e = s + d => e - s - d \in 0..2 * Second
    BY DEF Second
  <2> QED
    BY <2>1, <2>3, <2>4
<1> QED
  BY <1>1, <1>2 DEF PhasesMatch

LEMMA HonestLinked ==
  ASSUME ExperimentInv, Honestly, ended # None, NEW r, Reports(r)
  PROVE  Linked(manifest, r)
<1> DEFINE n == N
           ev == ModelsOf(r, "phase_evidence")
           traces == ModelsOf(r, "stage_trace")
<1>1. /\ n \in 0..6 /\ r.artifacts = Artifacts /\ r.phases = phases /\ r.manifest = manifest.id /\ r.run = manifest.run
      /\ Shaped(r.artifacts)
  BY PhasesDone, ArtifactsShaped DEF Reports
<1>2. ASSUME NEW p \in PhaseNames, ev[p] # None
      PROVE  ValidEvidence(ev[p]) /\ EvidenceBelongs(manifest, r, p, ev[p])
  <2>1. PICK i \in 1..6 : p = Phases[i]
    BY PhasesInOrder
  <2>2. CASE i \in 1..n
    <3>1. ev[p] = EvidenceOf(i)
      BY <1>1, <2>1, <2>2, ModelOfPhase, ArtifactsAre DEF EvidenceAt
    <3> QED
      BY <1>1, <2>1, <2>2, <3>1, EvidenceValid, EvidenceOfRun
  <2>3. CASE i \notin 1..n
    <3>1. i \in (n + 1)..6
      BY <1>1, <2>3
    <3> QED
      BY <1>1, <1>2, <2>1, <3>1, NoModelAfter
  <2> QED
    BY <2>2, <2>3
<1>3. ASSUME NEW p \in PhaseNames, traces[p] # None PROVE TraceBelongs(manifest, traces[p])
  <2>1. PICK i \in 2..5 : traces[p] = TraceOf(i)
    BY <1>1, <1>3, TracesAre
  <2>2. TraceBelongs(manifest, TraceOf(i))
    BY DEF TraceBelongs, TraceOf
  <2> QED
    BY <2>1, <2>2
<1>4. ASSUME NEW i \in DOMAIN r.artifacts PROVE r.artifacts[i].role # "observation_window"
  BY <1>1, ArtifactIsOf DEF EvidenceAt, TraceAt
<1>5. OneGeneration(r, ev)
  BY <1>1, GoesOnLinked
<1>6. r.effect = IF manifest.version = 2 THEN RecomputePacing(manifest, r, ev, traces) ELSE RecomputeEffect(manifest, r, ev)
  BY DEF Reports, EffectOf
<1>7. ActionsMatch(manifest, r) /\ PhasesMatch(manifest, r)
  BY ActionsAsPlanned, PhasesAsPlanned
<1> HIDE DEF n
<1>8. \A p \in PhaseNames :
        /\ ev[p] # None => ValidEvidence(ev[p]) /\ EvidenceBelongs(manifest, r, p, ev[p])
        /\ traces[p] # None => TraceBelongs(manifest, traces[p])
  BY <1>2, <1>3
<1> QED
  BY <1>1, <1>4, <1>5, <1>6, <1>7, <1>8 DEF Linked

LEMMA HonestInspected ==
  ASSUME ExperimentInv, Honestly, ended # None
  PROVE  Inspected(manifest, Result)
BY ResultReports, HonestResult, HonestLinked, ManifestsKept DEF Inspected

LEMMA HonestVerdict ==
  ASSUME ExperimentInv, HonestInv, HonestAccepted, [ExperimentNext]_experimentVars
  PROVE  HonestAccepted'
<1> SUFFICES ASSUME inspection' # None, lapse' = None PROVE inspection'.accepted
  BY DEF HonestAccepted
<1>1. CASE Inspect
  <2>1. "report" # None
    BY NoneThere DEF Slippages
  <2>2. Judge(Result) /\ lapse = None /\ ended # None
    BY <1>1, <2>1 DEF Inspect, Lapses
  <2>3. Inspected(manifest, Result)
    BY <2>2, HonestInspected DEF HonestInv, Honestly
  <2> QED
    BY <2>2, <2>3 DEF Judge
<1>2. CASE ~Inspect
  <2>1. UNCHANGED inspection
    BY <1>2 DEF ExperimentNext, NextPhase, EndPhase, Reset, StartFault, StopFault, Passes, Abort, StartFails, WorkerExits,
       CutShort, Finish, SlipEarly, SlipWorkers, SlipReset, Proceeds, experimentVars
  <2>2. ended # None
    BY <2>1 DEF ExperimentInv, ExperimentTyped
  <2>3. UNCHANGED experimentVars
    BY <1>2, <2>2 DEF ExperimentNext, NextPhase, EndPhase, Reset, StartFault, StopFault, Passes, Abort, StartFails, WorkerExits,
       Finish, SlipEarly, SlipWorkers, SlipReset, Proceeds
  <2>4. lapse = None
    BY <2>3 DEF experimentVars
  <2> QED
    BY <2>1, <2>4 DEF HonestAccepted
<1> QED
  BY <1>1, <1>2

(* Nothing honest is refused: whatever was missed, reset, lost or left     *)
(* running, and wherever a run was cut short, a bundle kept and reported   *)
(* without a lapse passes every check of the result, of the evidence and   *)
(* of what links them, its effect recomputed as reported, for every        *)
(* manifest that leaves room for the waits. *)
THEOREM HonestAreAccepted == ExperimentSpec => []HonestAccepted
<1>1. ExperimentInit => ExperimentInv /\ HonestInv /\ HonestAccepted
  BY ExperimentBegins, HonestAtFirst DEF ExperimentInit, HonestAccepted
<1>2. /\ ExperimentInv /\ HonestInv /\ HonestAccepted /\ [ExperimentNext]_experimentVars
      => (ExperimentInv /\ HonestInv /\ HonestAccepted)'
  BY ExperimentStep, HonestStep, HonestVerdict
<1> QED
  BY <1>1, <1>2, PTL DEF ExperimentSpec
=============================================================================
