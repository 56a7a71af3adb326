------------------------- MODULE MetricSeriesProofs -------------------------
(***************************************************************************)
(* Proofs about MetricSeries, for every register, window, set of valid     *)
(* definitions and bound: what the aggregator's loop keeps of the rows is  *)
(* well typed, the growth it accepts is the growth there was, and a        *)
(* summary claims what was observed and satisfies its own validator.       *)
(***************************************************************************)
EXTENDS MetricSeries, TLAPS

(* What may have happened from one moment to a later one.  The register    *)
(* went round not at all, once, or at least twice.                         *)
Passed(x, y) ==
  /\ x.restarts <= y.restarts
  /\ x.made <= y.made
  /\ x.restarts # y.restarts => y.register <= y.made - x.made
  /\ x.restarts = y.restarts =>
       \/ y.made - x.made = y.register - x.register
       \/ y.made - x.made = y.register - x.register + Modulus
       \/ y.made - x.made >= y.register - x.register + 2 * Modulus

(* The rows were exported one after the other.                             *)
Told ==
  /\ truth # <<>> => Passed(truth[Len(truth)], Now)
  /\ \A p \in 1..Len(truth) - 1 : Passed(truth[p], truth[p + 1])

(* An accepted interval is the step between a row and the next, both       *)
(* usable, both new when they were read.                                   *)
Between(i, p) ==
  /\ i = Interval(samples[p], samples[p + 1])
  /\ Usable(samples[p]) /\ Usable(samples[p + 1])
  /\ samples[p + 1].value < samples[p].value => definition.reset = "wrap"
  /\ samples[p].at < samples[p + 1].at
  /\ \A q \in 1..p - 1 : samples[q].row # samples[p].row
  /\ \A q \in 1..p : samples[q].row # samples[p + 1].row

Gathered ==
  /\ stage = "capturing" => next = 1 /\ intervals = <<>>
  /\ \A p \in usable : Usable(samples[p])
  /\ chronological => \A m \in 1..next - 1 : ~Disorder(m)
  /\ \A k \in DOMAIN intervals : \E p \in 1..Len(samples) - 1 : Between(intervals[k], p)

Inv == TypeOK /\ Told /\ Gathered

-----------------------------------------------------------------------------
(* The producer.                                                           *)

LEMMA NowTyped ==
  ASSUME TypeOK PROVE Now \in Moment
  BY DEF TypeOK, Now, Moment

LEMMA PassedReflexive ==
  ASSUME NEW x \in Moment PROVE Passed(x, x)
  BY WindowAssumption DEF Passed, Moment

(* An event or a restart only adds to what has happened since a row.       *)
LEMMA EventPasses ==
  ASSUME TypeOK, Event, NEW x \in Moment, Passed(x, Now) PROVE Passed(x, Now')
<1>1. Now \in Moment BY NowTyped
<1>2. /\ Now'.made = Now.made + 1 /\ Now'.restarts = Now.restarts
      /\ Now'.register = IF Now.register + 1 = Modulus THEN 0 ELSE Now.register + 1
  BY DEF Now, Event
<1> HIDE DEF Now
<1> QED BY <1>1, <1>2, WindowAssumption DEF Passed, Moment

LEMMA RestartPasses ==
  ASSUME TypeOK, Restart, NEW x \in Moment, Passed(x, Now) PROVE Passed(x, Now')
<1>1. Now \in Moment BY NowTyped
<1>2. /\ Now'.made = Now.made /\ Now'.restarts = Now.restarts + 1
      /\ Now'.register = 0
  BY DEF Now, Restart
<1> HIDE DEF Now
<1> QED BY <1>1, <1>2, WindowAssumption DEF Passed, Moment

(* A row says what it holds, or why it holds nothing.                      *)
LEMMA RowsExported ==
  ASSUME TypeOK, Sample \/ FalseSample
  PROVE  \E s \in Sampled, fault \in {0, 1} :
           Export(s, fault) /\ (s.value = Null) = (s.why # Null)
<1>1. /\ register \in Int /\ register # Null
      /\ clock \in Nat /\ Len(samples) + 1 \in Nat \ {0}
      /\ Modulus \in Int
  BY WindowAssumption, ArithmeticAssumption DEF TypeOK
<1>2. ASSUME NEW why \in {"missing", "rejected"}
      PROVE  /\ Row(Null, why) \in Sampled
             /\ (Row(Null, why).value = Null) = (Row(Null, why).why # Null)
  BY <1>1, ArithmeticAssumption DEF Row, Sampled
<1>3. ASSUME NEW value \in Int, NEW row \in Nat \ {0}, NEW utc \in Nat
      PROVE  LET s == [row |-> row, at |-> clock, utc |-> utc, value |-> value, why |-> Null]
             IN  s \in Sampled /\ (s.value = Null) = (s.why # Null)
  BY <1>1, ArithmeticAssumption DEF Sampled
<1>4. CASE Sample
  BY <1>4, <1>1, <1>2, <1>3 DEF Sample, Row
<1>5. CASE FalseSample
  <2> DEFINE s == Row(register, Null)  b == Last(samples)
  <2>1. b \in Sampled
    BY <1>5 DEF FalseSample, Last, TypeOK
  <2>2. b.row \in Nat \ {0} /\ b.utc \in Nat
    BY <2>1 DEF Sampled
  <2>3. PICK r \in Nat \ {0}, u \in Nat, v \in Int :
          Export([row |-> r, at |-> clock, utc |-> u, value |-> v, why |-> Null], 1)
    <3> DEFINE X(r, u, v) == [row |-> r, at |-> clock, utc |-> u, value |-> v, why |-> Null]
    <3>1. /\ [s EXCEPT !.row = b.row] = X(b.row, clock, register)
          /\ [s EXCEPT !.utc = b.utc] = X(Len(samples) + 1, b.utc, register)
          /\ s = X(Len(samples) + 1, clock, register)
      BY DEF Row
    <3>2. ASSUME NEW v
          PROVE  [s EXCEPT !.value = v] = X(Len(samples) + 1, clock, v)
      BY DEF Row
    <3>3. \/ Export([s EXCEPT !.row = b.row], 1)
          \/ Export([s EXCEPT !.utc = b.utc], 1)
          \/ \E v \in {-1, Modulus} : Export([s EXCEPT !.value = v], 1)
          \/ Export(s, 1)
      BY <1>5, Zenon DEF FalseSample
    <3>4. -1 \in Int OBVIOUS
    <3> SUFFICES \E r \in Nat \ {0}, u \in Nat, v \in Int : Export(X(r, u, v), 1)
      OBVIOUS
    <3> HIDE DEF s, b, X
    <3>5. CASE Export([s EXCEPT !.row = b.row], 1) BY <3>5, <3>1, <2>2, <1>1
    <3>6. CASE Export([s EXCEPT !.utc = b.utc], 1) BY <3>6, <3>1, <2>2, <1>1
    <3>7. CASE Export(s, 1) BY <3>7, <3>1, <1>1
    <3>8. ASSUME NEW v \in {-1, Modulus}, Export([s EXCEPT !.value = v], 1)
          PROVE  \E r \in Nat \ {0}, u \in Nat, w \in Int : Export(X(r, u, w), 1)
      <4>1. v \in Int BY <3>4, <1>1
      <4> QED BY <4>1, <3>8, <3>2, <1>1
    <3> QED BY <3>3, <3>5, <3>6, <3>7, <3>8, Zenon
  <2> QED BY <2>3, <1>3
<1> QED BY <1>4, <1>5

(* What a row is added to keeps its order.                                 *)
LEMMA ExportTells ==
  ASSUME TypeOK, Told, NEW s, NEW fault, Export(s, fault) PROVE Told'
<1>1. PICK n \in Nat : n = Len(truth) BY DEF TypeOK
<1>2. /\ truth' = Append(truth, Now) /\ Now' = Now
      /\ truth \in Seq(Moment) /\ Now \in Moment
  BY NowTyped DEF Export, Now, TypeOK
<1>3. /\ Len(truth') = n + 1 /\ truth'[n + 1] = Now
      /\ \A p \in 1..n : truth'[p] = truth[p]
  BY <1>1, <1>2
<1>4. Passed(truth'[n + 1], Now')
  BY <1>2, <1>3, PassedReflexive
<1>5. ASSUME NEW p \in 1..n PROVE Passed(truth'[p], truth'[p + 1])
  <2>1. CASE p = n
    <3>1. truth # <<>> BY <1>1, <1>2, <2>1
    <3> QED BY <3>1, <2>1, <1>1, <1>3 DEF Told
  <2>2. CASE p < n
    BY <2>2, <1>1, <1>3 DEF Told
  <2> QED BY <2>1, <2>2
<1> QED BY <1>3, <1>4, <1>5 DEF Told

LEMMA ToldKept ==
  ASSUME TypeOK, Told, [Next]_vars PROVE Told'
<1>0. ASSUME NEW p \in 1..Len(truth) PROVE truth[p] \in Moment
  <2>1. truth \in Seq(Moment) BY DEF TypeOK
  <2> QED BY <1>0, <2>1
<1>1. CASE Event
  <2>1. truth' = truth BY <1>1 DEF Event
  <2>2. truth # <<>> => truth[Len(truth)] \in Moment
    BY <1>0 DEF TypeOK
  <2> QED BY <2>1, <2>2, <1>1, EventPasses DEF Told
<1>2. CASE Restart
  <2>1. truth' = truth BY <1>2 DEF Restart
  <2>2. truth # <<>> => truth[Len(truth)] \in Moment
    BY <1>0 DEF TypeOK
  <2> QED BY <2>1, <2>2, <1>2, RestartPasses DEF Told
<1>3. CASE Sample \/ FalseSample
  BY <1>3, RowsExported, ExportTells
<1>4. CASE Tick
  BY <1>4 DEF Tick, Told, Now
<1>5. CASE Submit \/ Read \/ Finish \/ UNCHANGED vars
  <2>1. UNCHANGED world
    BY <1>5 DEF Submit, Read, Finish, vars
  <2> QED BY <2>1 DEF world, Told, Now
<1> QED BY <1>1, <1>2, <1>3, <1>4, <1>5 DEF Next

-----------------------------------------------------------------------------
(* The aggregator.                                                         *)

(* Whatever does not read a row leaves the reader's variables typed.       *)
LEMMA CapturingTyped ==
  ASSUME TypeOK, Event \/ Restart \/ Tick \/ Sample \/ FalseSample
  PROVE  TypeOK'
<1>1. CASE Event
  BY <1>1, WindowAssumption DEF Event, Capturing, TypeOK, reader, Positions
<1>2. CASE Restart
  BY <1>2, WindowAssumption DEF Restart, Capturing, TypeOK, reader, Positions
<1>3. CASE Tick
  BY <1>3 DEF Tick, Capturing, TypeOK, reader, Positions
<1>4. CASE Sample \/ FalseSample
  <2>1. PICK s \in Sampled, fault \in {0, 1} :
          Export(s, fault) /\ (s.value = Null) = (s.why # Null)
    BY <1>4, RowsExported
  <2>2. PICK n \in Nat : n = Len(samples) /\ n = Len(truth) BY DEF TypeOK
  <2>3. Now \in Moment
    BY NowTyped
  <2>4. /\ samples' \in Seq(Sampled) /\ Len(samples') = n + 1 /\ DOMAIN samples' = 1..n + 1
        /\ samples'[n + 1] = s /\ \A p \in 1..n : samples'[p] = samples[p]
    BY <2>1, <2>2 DEF Export, TypeOK
  <2>5. /\ truth' \in Seq(Moment)
        /\ Len(truth') = n + 1
    BY <2>1, <2>2, <2>3 DEF Export, TypeOK
  <2>6. \A p \in DOMAIN samples' : (samples'[p].value = Null) = (samples'[p].why # Null)
    <3>1. \A p \in 1..n : (samples[p].value = Null) = (samples[p].why # Null)
      BY <2>2 DEF TypeOK, Positions
    <3> SUFFICES ASSUME NEW p \in 1..n + 1
                 PROVE  (samples'[p].value = Null) = (samples'[p].why # Null)
      BY <2>4
    <3>2. CASE p = n + 1 BY <3>2, <2>1, <2>4
    <3>3. CASE p # n + 1
      <4>1. p \in 1..n BY <3>3, <2>2
      <4> QED BY <4>1, <3>1, <2>4
    <3> QED BY <3>2, <3>3
  <2>7. next' = next /\ next \in 1..n + 1
    BY <2>1, <2>2 DEF Export, Capturing, reader, TypeOK
  <2>8. faults' \in Nat
    BY <2>1 DEF Export, TypeOK
  <2>9. next' \in 1..Len(samples') + 1
    BY <2>7, <2>4, <2>2
  <2>10. /\ UNCHANGED <<definition, clock, register, made, restarts, stage, summary>>
         /\ UNCHANGED <<chronological, fatal, missing, rejected, usable, gaps, resets, intervals>>
    BY <2>1 DEF Export, Capturing, reader
  <2> QED
    BY <2>4, <2>5, <2>6, <2>7, <2>8, <2>9, <2>10 DEF TypeOK, Positions
<1> QED BY <1>1, <1>2, <1>3, <1>4

LEMMA CapturingGathers ==
  ASSUME TypeOK, Gathered, Event \/ Restart \/ Tick \/ Sample \/ FalseSample
  PROVE  Gathered'
<1>1. stage = "capturing" /\ UNCHANGED <<definition, stage, reader>>
  BY DEF Event, Restart, Tick, Sample, FalseSample, Export, Capturing
<1>2. next = 1 /\ intervals = <<>> /\ usable = {}
  BY <1>1 DEF Gathered, TypeOK
<1> QED BY <1>1, <1>2 DEF Gathered, reader

LEMMA RateTyped ==
  ASSUME NEW delta \in Nat, NEW elapsed \in Nat \ {0}
  PROVE  Rate(delta, elapsed) = Null \/ Rate(delta, elapsed) \in Nat \X (Nat \ {0})
<1>1. Scale \in Nat BY ArithmeticAssumption
<1>2. delta * Scale \in Nat BY <1>1
<1> QED BY <1>2 DEF Rate

(* Of two usable neighbours of a counter in order, the growth is a natural *)
(* number: less than the modulus is missing where the register wrapped.    *)
LEMMA PairOrdered ==
  ASSUME TypeOK, Gathered, stage = "reading", next <= Len(samples),
         definition.kind = "counter", Neighbours, ~Disorder(next)
  PROVE  LET a == samples[next - 1]  b == samples[next] IN
         /\ a \in Sampled /\ b \in Sampled
         /\ Usable(a) /\ Usable(b)
         /\ a.value \in Nat /\ b.value \in Nat
         /\ a.at < b.at
         /\ definition.reset = "wrap" =>
              /\ definition.modulus = Modulus
              /\ a.value < Modulus /\ b.value < Modulus
<1> DEFINE a == samples[next - 1]  b == samples[next]
<1>1. /\ next - 1 \in 1..Len(samples) /\ next \in 1..Len(samples)
      /\ next - 1 \in usable
  BY DEF Neighbours, TypeOK
<1>2. a \in Sampled /\ b \in Sampled
  BY <1>1 DEF TypeOK
<1>3. Usable(a) /\ Usable(b)
  BY <1>1 DEF Gathered, Neighbours
<1>4. a.at < b.at
  <2>1. ~(b.at <= a.at) BY <1>1 DEF Disorder, Neighbours
  <2>2. a.at \in Nat /\ b.at \in Nat BY <1>2 DEF Sampled
  <2> HIDE DEF a, b
  <2> QED BY <2>1, <2>2
<1>5. definition \in Definitions
  BY DEF TypeOK
<1>6. ValidDefinition(definition) /\ definition.modulus \in {Null, Modulus}
  BY <1>5, DefinitionsAssumption
<1>7. definition.nonNegative /\ (definition.reset = "wrap") = (definition.modulus # Null)
  BY <1>6 DEF ValidDefinition
<1> HIDE DEF a, b
<1>8. a.value \in Nat /\ b.value \in Nat
  BY <1>2, <1>3, <1>7 DEF Usable, Sampled
<1>9. ASSUME definition.reset = "wrap"
      PROVE  definition.modulus = Modulus /\ a.value < Modulus /\ b.value < Modulus
  BY <1>9, <1>3, <1>6, <1>7 DEF Usable
<1> QED BY <1>2, <1>3, <1>4, <1>8, <1>9 DEF a, b

LEMMA IntervalTyped ==
  ASSUME NEW a \in Sampled, NEW b \in Sampled, a.value \in Nat, b.value \in Nat, a.at < b.at,
         definition.reset = "wrap" =>
           definition.modulus = Modulus /\ a.value < Modulus /\ b.value < Modulus,
         b.value < a.value => definition.reset = "wrap",
         Interval(a, b).rate # Null
  PROVE  Interval(a, b) \in Accepted
<1>1. Delta(a, b) \in Nat
  BY WindowAssumption DEF Delta
<1>2. /\ b.at - a.at \in Nat \ {0} /\ a.at \in Nat /\ b.at \in Nat
      /\ a.row \in Nat \ {0} /\ b.row \in Nat \ {0}
  BY DEF Sampled
<1>3. Rate(Delta(a, b), b.at - a.at) \in Nat \X (Nat \ {0})
  BY <1>1, <1>2, RateTyped DEF Interval
<1>4. (b.value < a.value) \in BOOLEAN
  OBVIOUS
<1> HIDE DEF Delta
<1> QED BY <1>1, <1>2, <1>3, <1>4 DEF Interval, Accepted

(* What reading a row may do to the evidence: nothing, or one interval     *)
(* more, between it and the row before.                                    *)
Extends ==
  LET a == samples[next - 1]  b == samples[next] IN
  /\ definition.kind = "counter" /\ Neighbours /\ ~Disorder(next)
  /\ b.value < a.value => definition.reset = "wrap"
  /\ Interval(a, b).rate # Null
  /\ intervals' = Append(intervals, Interval(a, b))

LEMMA ReadExtends ==
  ASSUME TypeOK, Read
  PROVE  /\ intervals' = intervals \/ Extends
         /\ fatal' \in BOOLEAN
         /\ resets' = resets \/ (Usable(samples[next]) /\ resets' = resets \cup {next})
<1> DEFINE a == samples[next - 1]  b == samples[next]
<1>1. CASE definition.kind = "counter" /\ Neighbours /\ chronological'
  <2>1. Pair(a, b) /\ ~Disorder(next) /\ Usable(b)
    BY <1>1 DEF Read, Neighbours
  <2>2. fatal \in BOOLEAN BY DEF TypeOK
  <2>3. /\ intervals' = intervals
           \/ /\ b.value < a.value => definition.reset = "wrap"
              /\ Accept(Interval(a, b))
        /\ fatal' \in BOOLEAN
        /\ resets' = resets \/ resets' = resets \cup {next}
    BY <2>1, <2>2 DEF Pair, Accept
  <2> HIDE DEF a, b
  <2>4. Accept(Interval(a, b)) =>
          intervals' = intervals
            \/ (Interval(a, b).rate # Null /\ intervals' = Append(intervals, Interval(a, b)))
    BY DEF Accept
  <2> QED BY <1>1, <2>1, <2>3, <2>4 DEF Extends, a, b
<1>2. CASE ~(definition.kind = "counter" /\ Neighbours /\ chronological')
  BY <1>2 DEF Read, TypeOK
<1> QED BY <1>1, <1>2

LEMMA ReadTyped ==
  ASSUME TypeOK, Gathered, Read PROVE TypeOK'
<1>1. /\ stage = "reading" /\ next \in 1..Len(samples) /\ next' = next + 1
      /\ UNCHANGED <<definition, world, stage, summary>>
  BY DEF Read, TypeOK
<1>2. /\ chronological' \in BOOLEAN /\ missing' \in BOOLEAN /\ rejected' \in BOOLEAN
  BY Zenon DEF Read, TypeOK
<1>3. usable' \cup gaps' = 1..next' - 1 /\ usable' \cap gaps' = {}
  <2>1. usable \cup gaps = 1..next - 1 /\ usable \cap gaps = {}
    BY DEF TypeOK
  <2>2. 1..next' - 1 = (1..next - 1) \cup {next} /\ next \notin 1..next - 1
    BY <1>1
  <2>3. \/ usable' = usable \cup {next} /\ gaps' = gaps
        \/ usable' = usable /\ gaps' = gaps \cup {next}
    BY DEF Read
  <2> QED BY <2>1, <2>2, <2>3
<1>4. resets' \subseteq usable'
  BY ReadExtends DEF Read, TypeOK
<1>5. intervals' \in Seq(Accepted)
  <2>1. intervals \in Seq(Accepted) BY DEF TypeOK
  <2>2. CASE Extends
    <3> DEFINE a == samples[next - 1]  b == samples[next]
    <3>1. ~Disorder(next) /\ definition.kind = "counter" /\ Neighbours
      BY <2>2 DEF Extends
    <3>2. Interval(a, b) \in Accepted
      BY <3>1, <2>2, <1>1, PairOrdered, IntervalTyped DEF Extends
    <3> QED BY <3>2, <2>1, <2>2 DEF Extends
  <2> QED BY <2>1, <2>2, ReadExtends
<1>6. fatal' \in BOOLEAN
  BY ReadExtends
<1>7. next' \in 1..Len(samples') + 1
  BY <1>1 DEF world, TypeOK
<1> QED BY <1>1, <1>2, <1>3, <1>4, <1>5, <1>6, <1>7 DEF TypeOK, world, Positions

(* The pair it adds is between two new rows in order. *)
LEMMA ExtendsBetween ==
  ASSUME TypeOK, Gathered, Read, Extends
  PROVE  /\ next - 1 \in 1..Len(samples) - 1 /\ (next - 1) + 1 = next /\ chronological'
         /\ next - 1 \in usable /\ Usable(samples[next])
         /\ Between(Interval(samples[next - 1], samples[next]), next - 1)
<1> DEFINE a == samples[next - 1]  b == samples[next]
<1>1. next \in 1..Len(samples) /\ stage = "reading" /\ next <= Len(samples)
  BY DEF Read, TypeOK
<1>2. ~Disorder(next) /\ definition.kind = "counter" /\ Neighbours
  BY DEF Extends
<1>3. Usable(a) /\ Usable(b) /\ a.at < b.at
  BY <1>1, <1>2, PairOrdered
<1>4. next - 1 \in 1..Len(samples) - 1 /\ (next - 1) + 1 = next
  BY <1>1, <1>2 DEF Neighbours, TypeOK
<1>5. chronological'
  <2> DEFINE i == Interval(a, b)
  <2>1. intervals' = Append(intervals, i) /\ intervals \in Seq(Accepted)
    BY DEF Extends, TypeOK
  <2> HIDE DEF i
  <2>2. intervals' # intervals
    BY <2>1
  <2> QED BY <2>2 DEF Read
<1>6. ~Disorder(next - 1)
  <2>1. chronological BY <1>5 DEF Read
  <2>2. next - 1 \in 1..next - 1 BY <1>1, <1>4
  <2> QED BY <2>1, <2>2 DEF Gathered
<1>7. /\ \A q \in 1..(next - 1) - 1 : samples[q].row # samples[next - 1].row
      /\ \A q \in 1..next - 1 : samples[q].row # samples[next].row
  BY <1>2, <1>6 DEF Disorder
<1>8. Between(Interval(a, b), next - 1)
  BY <1>3, <1>4, <1>7, Zenon DEF Between, Extends
<1> QED BY <1>2, <1>3, <1>4, <1>5, <1>8 DEF Neighbours

LEMMA ReadGathers ==
  ASSUME TypeOK, Gathered, Read PROVE Gathered'
<1>1. /\ stage = "reading" /\ next \in 1..Len(samples) /\ next' = next + 1
      /\ stage' = stage /\ definition' = definition /\ samples' = samples
  BY DEF Read, TypeOK, world
<1>2. \A p \in usable' : Usable(samples[p])
  BY DEF Read, Gathered
<1>3. \A p \in usable' : Usable(samples[p])'
  BY <1>1, <1>2 DEF Usable
<1>4. chronological' => \A m \in 1..next' - 1 : Disorder(m)' = FALSE
  <2>1. \A m : Disorder(m)' = Disorder(m)
    BY <1>1 DEF Disorder
  <2>2. chronological' => ~Disorder(next) /\ \A m \in 1..next - 1 : ~Disorder(m)
    BY DEF Read, Gathered
  <2>3. \A m \in 1..next' - 1 : m = next \/ m \in 1..next - 1
    BY <1>1
  <2> QED BY <2>1, <2>2, <2>3
<1>5. \A k \in DOMAIN intervals' : \E p \in 1..Len(samples) - 1 : Between(intervals'[k], p)
  <2>1. PICK n \in Nat : /\ n = Len(intervals) /\ DOMAIN intervals = 1..n
                         /\ intervals \in Seq(Accepted)
    BY DEF TypeOK
  <2>2. \A k \in 1..n : \E p \in 1..Len(samples) - 1 : Between(intervals[k], p)
    BY <2>1 DEF Gathered
  <2>3. CASE intervals' = intervals
    BY <2>1, <2>2, <2>3
  <2>4. CASE Extends
    <3> DEFINE a == samples[next - 1]  b == samples[next]
    <3>3. next - 1 \in 1..Len(samples) - 1 /\ Between(Interval(a, b), next - 1)
      BY <2>4, ExtendsBetween
    <3>9. /\ DOMAIN intervals' = 1..n + 1 /\ intervals'[n + 1] = Interval(a, b)
          /\ \A k \in 1..n : intervals'[k] = intervals[k]
      <4> DEFINE i == Interval(a, b)
      <4>1. intervals' = Append(intervals, i) BY <2>4 DEF Extends
      <4> HIDE DEF i
      <4> QED BY <4>1, <2>1 DEF i
    <3> SUFFICES ASSUME NEW k \in 1..n + 1
                 PROVE  \E p \in 1..Len(samples) - 1 : Between(intervals'[k], p)
      BY <3>9
    <3>10. k = n + 1 \/ k \in 1..n BY <2>1
    <3> QED BY <3>3, <3>9, <3>10, <2>2
  <2> QED BY <2>3, <2>4, ReadExtends
<1>6. \A i, p : Between(i, p)' = Between(i, p)
  BY <1>1 DEF Between, Usable, Interval, Delta
<1> QED BY <1>1, <1>3, <1>4, <1>5, <1>6 DEF Gathered

-----------------------------------------------------------------------------
(* The invariant.                                                          *)

LEMMA Invariant == Spec => []Inv
<1>1. Init => Inv
  <2> SUFFICES ASSUME Init PROVE Inv OBVIOUS
  <2>1. 1..next - 1 = {} BY DEF Init
  <2>2. TypeOK
    <3>1. /\ samples = <<>> /\ truth = <<>> /\ intervals = <<>>
          /\ Len(samples) = 0 /\ DOMAIN samples = {}
      BY DEF Init
    <3>2. samples \in Seq(Sampled) /\ truth \in Seq(Moment) /\ intervals \in Seq(Accepted)
      BY <3>1
    <3>3. register \in 0..Modulus - 1
      BY WindowAssumption DEF Init
    <3>4. Len(truth) = Len(samples) /\ next \in 1..Len(samples) + 1
      BY <3>1 DEF Init
    <3>5. {chronological, fatal, missing, rejected} \subseteq BOOLEAN
      BY Zenon DEF Init
    <3>6. {clock, made, restarts, faults} \subseteq Nat
      BY DEF Init
    <3>7. /\ usable \cup gaps = 1..next - 1 /\ usable \cap gaps = {} /\ resets \subseteq usable
          /\ \A n \in Positions : (samples[n].value = Null) = (samples[n].why # Null)
      BY <2>1, <3>1 DEF Init, Positions
    <3>8. stage = "capturing" /\ definition = Null /\ summary = Null
      BY DEF Init
    <3> QED BY <3>2, <3>3, <3>4, <3>5, <3>6, <3>7, <3>8 DEF TypeOK
  <2>3. Told
    BY DEF Init, Told
  <2>4. Gathered
    BY <2>1 DEF Init, Gathered
  <2> QED BY <2>2, <2>3, <2>4 DEF Inv
<1>2. Inv /\ [Next]_vars => Inv'
  <2> SUFFICES ASSUME TypeOK, Told, Gathered, [Next]_vars PROVE Inv'
    BY DEF Inv
  <2>1. Told' BY ToldKept
  <2>2. CASE Event \/ Restart \/ Tick \/ Sample \/ FalseSample
    BY <2>1, <2>2, CapturingTyped, CapturingGathers DEF Inv
  <2>3. CASE Submit
    <3>1. TypeOK'
      BY <2>3 DEF Submit, TypeOK, world, reader, Positions
    <3>2. usable = {} /\ intervals = <<>> /\ next = 1
      BY <2>3 DEF Submit, Gathered, TypeOK
    <3>3. Gathered'
      BY <2>3, <3>2 DEF Submit, Gathered, reader
    <3> QED BY <2>1, <3>1, <3>3 DEF Inv
  <2>4. CASE Read
    BY <2>1, <2>4, ReadTyped, ReadGathers DEF Inv
  <2>5. CASE Finish \/ UNCHANGED vars
    <3>1. TypeOK'
      BY <2>5 DEF Finish, vars, TypeOK, world, reader, Positions
    <3>2. /\ definition' = definition /\ samples' = samples /\ UNCHANGED reader
          /\ stage' = "capturing" => stage = "capturing"
      BY <2>5 DEF Finish, vars, world
    <3>3. /\ \A i, p : Between(i, p)' = Between(i, p)
          /\ \A p : Usable(samples[p])' = Usable(samples[p])
          /\ \A m : Disorder(m)' = Disorder(m)
      BY <3>2 DEF Between, Usable, Interval, Delta, Disorder
    <3>4. Gathered'
      BY <3>2, <3>3 DEF Gathered, reader
    <3> QED BY <2>1, <3>1, <3>4 DEF Inv
  <2> QED BY <2>2, <2>3, <2>4, <2>5 DEF Next
<1> QED BY <1>1, <1>2, PTL DEF Spec

(* TypeOK holds in every state: among others, no accepted interval is      *)
(* negative or empty, and none has a rate that no float holds.             *)
THEOREM TypeCorrect == Spec => []TypeOK
BY Invariant, PTL DEF Inv

-----------------------------------------------------------------------------
(* What an accepted interval says.                                         *)

LEMMA FirstAtIs ==
  ASSUME NEW p \in Positions, \A q \in 1..p - 1 : samples[q].row # samples[p].row,
         samples \in Seq(Sampled)
  PROVE  FirstAt(samples[p].row) = p
<1>1. PICK n \in Nat : Positions = 1..n BY DEF Positions
<1> DEFINE Is(r) == samples[r].row = samples[p].row /\ \A q \in 1..r - 1 : samples[q].row # samples[p].row
<1>2. Is(p) OBVIOUS
<1>3. ASSUME NEW r \in Positions, Is(r) PROVE r = p
  <2>1. ~(r < p) BY <1>3, <1>1
  <2>2. ~(p < r) BY <1>3, <1>1
  <2> QED BY <2>1, <2>2, <1>1
<1> QED BY <1>2, <1>3 DEF FirstAt

(* From honest readings the growth is what was made, or less by whole      *)
(* turns of the register.                                                  *)
LEMMA GrowthIsTrue ==
  ASSUME NEW x \in Moment, NEW y \in Moment, Passed(x, y),
         NEW a, NEW b, a.value = x.register, b.value = y.register,
         b.value < a.value => definition.reset = "wrap",
         definition.reset = "wrap" => definition.modulus = Modulus
  PROVE  /\ Delta(a, b) <= y.made - x.made \/ (x.restarts # y.restarts /\ definition.reset = "wrap")
         /\ x.restarts = y.restarts /\ y.made - x.made < Modulus => Delta(a, b) = y.made - x.made
<1>1. /\ x.register \in 0..Modulus - 1 /\ y.register \in 0..Modulus - 1
      /\ x.made \in Nat /\ y.made \in Nat
  BY DEF Moment
<1>2. CASE b.value < a.value
  <2>1. Delta(a, b) = Modulus + y.register - x.register
    BY <1>2 DEF Delta
  <2> QED BY <1>1, <1>2, <2>1, WindowAssumption DEF Passed
<1>3. CASE ~(b.value < a.value)
  <2>1. Delta(a, b) = y.register - x.register
    BY <1>3 DEF Delta
  <2> QED BY <1>1, <1>3, <2>1, WindowAssumption DEF Passed
<1> QED BY <1>2, <1>3

LEMMA InvDeltas == ASSUME Inv PROVE DeltasTrue
<1> SUFFICES ASSUME NEW k \in DOMAIN intervals
             PROVE  LET i == intervals[k]
                        x == truth[FirstAt(i.startRow)]
                        y == truth[FirstAt(i.endRow)]
                        grown == y.made - x.made
                        restarted == x.restarts # y.restarts
                    IN  Honest(FirstAt(i.startRow)) /\ Honest(FirstAt(i.endRow)) =>
                        /\ i.delta <= grown \/ (restarted /\ definition.reset = "wrap")
                        /\ ~restarted /\ grown < Modulus => i.delta = grown
  BY DEF DeltasTrue
<1>1. PICK p \in 1..Len(samples) - 1 : Between(intervals[k], p)
  BY DEF Inv, Gathered
<1>2. PICK n \in Nat : /\ n = Len(samples) /\ n = Len(truth)
                       /\ samples \in Seq(Sampled) /\ truth \in Seq(Moment)
                       /\ Positions = 1..n
  BY DEF Inv, TypeOK, Positions
<1>3. p \in Positions /\ p + 1 \in Positions /\ (p + 1) - 1 = p /\ p \in 1..n - 1
  BY <1>2
<1> DEFINE a == samples[p]  b == samples[p + 1]  x == truth[p]  y == truth[p + 1]
<1>4. FirstAt(a.row) = p /\ FirstAt(b.row) = p + 1
  BY <1>1, <1>2, <1>3, FirstAtIs DEF Between
<1>5. /\ intervals[k].startRow = a.row /\ intervals[k].endRow = b.row
      /\ intervals[k].delta = Delta(a, b)
      /\ b.value < a.value => definition.reset = "wrap"
  BY <1>1 DEF Between, Interval
<1>6. x \in Moment /\ y \in Moment
  BY <1>2, <1>3
<1>7. Passed(x, y)
  BY <1>2, <1>3 DEF Inv, Told
<1>8. definition.reset = "wrap" => definition.modulus = Modulus
  <2>1. intervals # <<>> BY DEF Inv, TypeOK
  <2>2. definition \in Definitions BY <2>1 DEF Inv, Gathered, TypeOK
  <2>3. ValidDefinition(definition) /\ definition.modulus \in {Null, Modulus}
    BY <2>2, DefinitionsAssumption
  <2>4. definition.reset = "wrap" => definition.modulus # Null
    BY <2>3, ArithmeticAssumption DEF ValidDefinition
  <2> QED BY <2>3, <2>4
<1> SUFFICES ASSUME a.value = x.register, b.value = y.register
             PROVE  /\ Delta(a, b) <= y.made - x.made
                         \/ (x.restarts # y.restarts /\ definition.reset = "wrap")
                    /\ x.restarts = y.restarts /\ y.made - x.made < Modulus =>
                         Delta(a, b) = y.made - x.made
  BY <1>4, <1>5, Zenon DEF Honest
<1> HIDE DEF a, b, x, y
<1> QED BY <1>5, <1>6, <1>7, <1>8, GrowthIsTrue

(* DeltasTrue holds in every state: whatever the register, the policies    *)
(* and the rows, an accepted interval never reports more than happened,    *)
(* unless a restart passes for a declared wrap.                            *)
THEOREM DeltasAreTrue == Spec => []DeltasTrue
BY Invariant, InvDeltas, PTL
-----------------------------------------------------------------------------
(* What the accepted intervals add up to.  Nobody made more than a turn of *)
(* the register between two of the first m rows, nor restarted it, and the *)
(* rows hold what it read.                                                 *)
Clean(m) ==
  /\ \A p \in 1..m : Honest(p)
  /\ truth[1].restarts = truth[m].restarts
  /\ \A p \in 1..m - 1 : truth[p + 1].made - truth[p].made < Modulus

(* The intervals never last longer than the rows read, and as long only if *)
(* none was left out: then their growth is that of the rows.               *)
Tiled ==
  /\ Durations(intervals) \in Nat /\ Deltas(intervals) \in Int
  /\ next <= 2 => Durations(intervals) = 0 /\ Deltas(intervals) = 0
  /\ next > 1 => truth[1].restarts <= truth[next - 1].restarts
  /\ chronological /\ next > 1 =>
       /\ Durations(intervals) <= samples[next - 1].at - samples[1].at
       /\ Durations(intervals) = samples[next - 1].at - samples[1].at =>
            /\ next > 2 => \A p \in 1..next - 1 : Usable(samples[p])
            /\ Clean(next - 1) => Deltas(intervals) = truth[next - 1].made - truth[1].made

(* An interval more adds its duration and its growth.                      *)
LEMMA IntervalAdds ==
  ASSUME NEW s \in Seq(Accepted), NEW i \in Accepted
  PROVE  /\ Durations(Append(s, i)) = Durations(s) + i.duration
         /\ Deltas(Append(s, i)) = Deltas(s) + i.delta
<1>1. /\ \A k \in DOMAIN s : s[k].duration \in Int /\ s[k].delta \in Int
      /\ i.duration \in Int /\ i.delta \in Int
  <2>1. \A x \in Accepted : x.duration \in Int /\ x.delta \in Int
    BY DEF Accepted
  <2>2. \A k \in DOMAIN s : s[k] \in Accepted
    OBVIOUS
  <2> QED BY <2>1, <2>2
<1>2. PICK n \in Nat : n = Len(s) /\ DOMAIN s = 1..n
  OBVIOUS
<1>3. PICK w : w = Append(s, i)
  OBVIOUS
<1>4. /\ DOMAIN w = 1..n + 1 /\ w[n + 1] = i
      /\ \A k \in 1..n : w[k] = s[k]
  BY <1>2, <1>3
<1> DEFINE d == [k \in 1..n |-> s[k].duration]
           g == [k \in 1..n |-> s[k].delta]
<1>5. d \in Seq(Int) /\ g \in Seq(Int) /\ Len(d) = n /\ Len(g) = n
  BY <1>1, <1>2
<1>6. [k \in 1..n + 1 |-> w[k].duration] = Append(d, i.duration)
  <2>1. Append(d, i.duration) = [k \in 1..n + 1 |-> IF k = n + 1 THEN i.duration ELSE d[k]]
    BY <1>1, <1>5
  <2>2. \A k \in 1..n + 1 : w[k].duration = IF k = n + 1 THEN i.duration ELSE d[k]
    BY <1>2, <1>4
  <2> HIDE DEF d
  <2> QED BY <2>1, <2>2
<1>7. [k \in 1..n + 1 |-> w[k].delta] = Append(g, i.delta)
  <2>1. Append(g, i.delta) = [k \in 1..n + 1 |-> IF k = n + 1 THEN i.delta ELSE g[k]]
    BY <1>1, <1>5
  <2>2. \A k \in 1..n + 1 : w[k].delta = IF k = n + 1 THEN i.delta ELSE g[k]
    BY <1>2, <1>4
  <2> HIDE DEF g
  <2> QED BY <2>1, <2>2
<1>8. /\ Durations(w) = SumOf(Append(d, i.duration)) /\ Durations(s) = SumOf(d)
      /\ Deltas(w) = SumOf(Append(g, i.delta)) /\ Deltas(s) = SumOf(g)
  BY <1>2, <1>4, <1>6, <1>7 DEF Durations, Deltas
<1> HIDE DEF d, g
<1> QED BY <1>1, <1>3, <1>5, <1>8, SumOfAppend

LEMMA NothingAdded == Durations(<<>>) = 0 /\ Deltas(<<>>) = 0
<1>1. /\ [k \in DOMAIN <<>> |-> <<>>[k].duration] = <<>>
      /\ [k \in DOMAIN <<>> |-> <<>>[k].delta] = <<>>
  OBVIOUS
<1> QED BY <1>1, SumOfEmpty DEF Durations, Deltas

(* Nothing is added up before the second row is read.                      *)
LEMMA UnreadTiled ==
  ASSUME next = 1, intervals = <<>> PROVE Tiled
BY NothingAdded DEF Tiled
(* The growth between two honest rows nothing came between is what was     *)
(* made, whatever the aggregation.                                         *)
LEMMA CleanStep ==
  ASSUME TypeOK, Told, NEW n \in Nat, 1 < n, n <= Len(samples),
         truth[1].restarts <= truth[n - 1].restarts
  PROVE  /\ truth[1].restarts <= truth[n].restarts
         /\ truth[n - 1] \in Moment /\ truth[n] \in Moment /\ truth[1] \in Moment
         /\ Passed(truth[n - 1], truth[n])
         /\ Clean(n) => /\ Clean(n - 1)
                        /\ truth[n - 1].restarts = truth[n].restarts
                        /\ truth[n].made - truth[n - 1].made < Modulus
                        /\ samples[n - 1].value = truth[n - 1].register
                        /\ samples[n].value = truth[n].register
<1>1. PICK l \in Nat : /\ l = Len(samples) /\ l = Len(truth)
                       /\ truth \in Seq(Moment) /\ DOMAIN truth = 1..l
  BY DEF TypeOK
<1>2. n - 1 \in 1..l - 1 /\ n \in 1..l /\ 1 \in 1..l /\ (n - 1) + 1 = n /\ n - 1 \in Nat
  BY <1>1
<1>3. truth[n - 1] \in Moment /\ truth[n] \in Moment /\ truth[1] \in Moment
  BY <1>1, <1>2
<1>4. Passed(truth[n - 1], truth[n])
  BY <1>1, <1>2 DEF Told
<1>5. PICK u \in Nat, v \in Nat, w \in Nat :
        u = truth[1].restarts /\ v = truth[n - 1].restarts /\ w = truth[n].restarts
  BY <1>3 DEF Moment
<1>6. v <= w /\ u <= v
  BY <1>4, <1>5 DEF Passed
<1>7. ASSUME Clean(n)
      PROVE  /\ Clean(n - 1) /\ v = w
             /\ truth[n].made - truth[n - 1].made < Modulus
             /\ samples[n - 1].value = truth[n - 1].register
             /\ samples[n].value = truth[n].register
  <2>1. u = w /\ v = w
    BY <1>5, <1>6, <1>7 DEF Clean
  <2>2. /\ \A p \in 1..n : Honest(p)
        /\ \A p \in 1..n - 1 : truth[p + 1].made - truth[p].made < Modulus
    BY <1>7 DEF Clean
  <2>3. \A p \in 1..n - 1 : p \in 1..n
    BY <1>2
  <2>4. \A p \in 1..(n - 1) - 1 : p \in 1..n - 1
    BY <1>2
  <2>5. Clean(n - 1)
    BY <1>5, <2>1, <2>2, <2>3, <2>4 DEF Clean
  <2>6. Honest(n - 1) /\ Honest(n)
    BY <1>2, <2>2, <2>3
  <2>7. truth[n].made - truth[n - 1].made < Modulus
    <3>1. n - 1 \in 1..n - 1
      BY <1>2
    <3> QED BY <1>2, <2>2, <3>1
  <2> QED BY <2>1, <2>5, <2>6, <2>7 DEF Honest
<1> QED BY <1>3, <1>4, <1>5, <1>6, <1>7

(* The declared modulus is the register's.                                 *)
LEMMA DeclaredModulus ==
  ASSUME definition \in Definitions, definition.reset = "wrap"
  PROVE  definition.modulus = Modulus
BY DefinitionsAssumption, ArithmeticAssumption DEF ValidDefinition

LEMMA NumbersOfRows ==
  /\ \A s \in Sampled : s.at \in Nat
  /\ \A m \in Moment : m.made \in Nat /\ m.restarts \in Nat
BY DEF Sampled, Moment

LEMMA ReadTiles ==
  ASSUME TypeOK, Told, Gathered, Tiled, Read PROVE Tiled'
<1>1. PICK n \in Nat : /\ next = n /\ 1 <= n /\ n <= Len(samples) /\ next' = n + 1
                       /\ (n + 1) - 1 = n /\ stage = "reading"
  BY DEF Read, TypeOK
<1>2. samples' = samples /\ truth' = truth
  BY DEF Read, world
<1>3. /\ \A p : Usable(samples[p])' = Usable(samples[p])
      /\ \A m : Clean(m)' = Clean(m)
  BY <1>2 DEF Read, Usable, Clean, Honest
<1>4. PICK T \in Nat, D \in Int : T = Durations(intervals) /\ D = Deltas(intervals)
  BY DEF Tiled
<1>5. PICK l \in Nat : /\ l = Len(samples) /\ l = Len(truth) /\ samples \in Seq(Sampled)
                       /\ truth \in Seq(Moment) /\ DOMAIN samples = 1..l /\ DOMAIN truth = 1..l
  BY DEF TypeOK
<1>6. n \in 1..l /\ 1 \in 1..l
  BY <1>1, <1>5
<1>7. truth[1].restarts <= truth[n].restarts
  <2>1. CASE n = 1
    <3>1. truth[1].restarts \in Nat
      BY <1>5, <1>6, NumbersOfRows
    <3> QED BY <2>1, <3>1
  <2>2. CASE n > 1
    BY <1>1, <2>2, CleanStep DEF Tiled
  <2> QED BY <2>1, <2>2, <1>1
<1>8. \A p \in 1..l : samples[p].at \in Nat
  <2>1. \A p \in 1..l : samples[p] \in Sampled
    BY <1>5
  <2> QED BY <2>1, NumbersOfRows
<1>9. PICK f \in Nat, e \in Nat : f = samples[1].at /\ e = samples[n].at
  BY <1>6, <1>8
<1>10. chronological' => chronological /\ ~Disorder(n)
  BY <1>1 DEF Read
<1>11. ASSUME n > 1 PROVE
         /\ n - 1 \in 1..l /\ n - 1 \in Nat /\ samples[n - 1].at \in Nat
         /\ chronological' => samples[n - 1].at < e /\ T <= samples[n - 1].at - f
  <2>1. n - 1 \in 1..l /\ n - 1 \in Nat
    BY <1>6, <1>11
  <2>2. samples[n - 1].at \in Nat
    BY <1>8, <2>1
  <2>3. chronological' => ~(e <= samples[n - 1].at)
    BY <1>9, <1>10, <1>11 DEF Disorder
  <2>4. chronological => T <= samples[n - 1].at - f
    BY <1>1, <1>4, <1>9, <1>11 DEF Tiled
  <2> QED BY <1>10, <2>1, <2>2, <2>3, <2>4
<1>12. CASE intervals' = intervals
  <2>1. Durations(intervals') = T /\ Deltas(intervals') = D
    BY <1>4, <1>12
  <2>2. n + 1 <= 2 => T = 0 /\ D = 0
    BY <1>1, <1>4 DEF Tiled
  <2>3. chronological' => T <= e - f
    <3>1. CASE n = 1
      BY <1>9, <2>2, <3>1
    <3>2. CASE n > 1
      BY <1>11, <3>2
    <3> QED BY <1>1, <3>1, <3>2
  <2>4. ASSUME chronological', T = e - f
        PROVE  n = 1 /\ D = truth[n].made - truth[1].made
    <3>1. n = 1
      BY <1>1, <1>11, <2>4
    <3>2. truth[1].made \in Nat
      BY <1>5, <1>6, NumbersOfRows
    <3> QED BY <2>2, <3>1, <3>2
  <2>5. n + 1 > 2 => n # 1
    OBVIOUS
  <2> QED
    BY <1>1, <1>2, <1>3, <1>4, <1>7, <1>9, <2>1, <2>2, <2>3, <2>4, <2>5 DEF Tiled
<1>13. CASE Extends
  <2> DEFINE a == samples[n - 1]  b == samples[n]  i == Interval(a, b)
  <2>1. /\ definition.kind = "counter" /\ Neighbours /\ ~Disorder(n)
        /\ b.value < a.value => definition.reset = "wrap"
        /\ i.rate # Null /\ intervals' = Append(intervals, i)
    BY <1>1, <1>13 DEF Extends
  <2>2. n > 1 /\ definition \in Definitions
    BY <1>1, <2>1 DEF Neighbours, TypeOK
  <2>3. /\ a \in Sampled /\ b \in Sampled /\ Usable(a) /\ Usable(b)
        /\ a.value \in Nat /\ b.value \in Nat /\ a.at < b.at
        /\ definition.reset = "wrap" =>
             definition.modulus = Modulus /\ a.value < Modulus /\ b.value < Modulus
    BY <1>1, <2>1, PairOrdered
  <2>4. i \in Accepted
    BY <2>1, <2>3, IntervalTyped
  <2>5. i.duration = b.at - a.at /\ i.delta = Delta(a, b) /\ i.duration \in Nat /\ i.delta \in Nat
    <3>1. i.duration = b.at - a.at /\ i.delta = Delta(a, b)
      BY DEF Interval
    <3>2. i.duration \in Nat /\ i.delta \in Nat
      <4> HIDE DEF i
      <4> QED BY <2>4 DEF Accepted
    <3> QED BY <3>1, <3>2
  <2>6. intervals \in Seq(Accepted)
    BY DEF TypeOK
  <2> HIDE DEF i
  <2>7. /\ Durations(intervals') = T + i.duration /\ Deltas(intervals') = D + i.delta
    BY <1>4, <2>1, <2>4, <2>6, IntervalAdds
  <2>8. PICK g \in Nat : g = a.at /\ b.at = e
    BY <1>9, <1>11, <2>2
  <2>9. chronological' => T <= g - f
    BY <1>11, <2>2, <2>8
  <2>10. ASSUME chronological', T + i.duration = e - f
         PROVE  /\ \A p \in 1..n : Usable(samples[p])
                /\ Clean(n) => D + i.delta = truth[n].made - truth[1].made
    <3>1. T = g - f
      BY <2>5, <2>8, <2>10
    <3>2. n > 2 => \A p \in 1..n - 1 : Usable(samples[p])
      BY <1>1, <1>4, <1>9, <1>10, <2>2, <2>8, <2>10, <3>1 DEF Tiled
    <3>3. Clean(n - 1) => D = truth[n - 1].made - truth[1].made
      BY <1>1, <1>4, <1>9, <1>10, <2>2, <2>8, <2>10, <3>1 DEF Tiled
    <3>4. \A p \in 1..n : p = n \/ (p \in 1..n - 1 /\ (n > 2 \/ p = n - 1))
      BY <1>1, <2>2
    <3>5. \A p \in 1..n : Usable(samples[p])
      BY <2>3, <3>2, <3>4, Zenon
    <3>6. ASSUME Clean(n) PROVE D + i.delta = truth[n].made - truth[1].made
      <4>0. truth[1].restarts <= truth[n - 1].restarts
        BY <1>1, <2>2 DEF Tiled
      <4>1. /\ truth[n - 1] \in Moment /\ truth[n] \in Moment /\ truth[1] \in Moment
            /\ Passed(truth[n - 1], truth[n])
            /\ Clean(n - 1)
            /\ truth[n - 1].restarts = truth[n].restarts
            /\ truth[n].made - truth[n - 1].made < Modulus
            /\ samples[n - 1].value = truth[n - 1].register
            /\ samples[n].value = truth[n].register
        BY <1>1, <2>2, <3>6, <4>0, CleanStep
      <4>2. Delta(a, b) = truth[n].made - truth[n - 1].made
        BY <2>1, <2>3, <4>1, GrowthIsTrue
      <4>3. truth[n].made \in Nat /\ truth[n - 1].made \in Nat /\ truth[1].made \in Nat
        BY <4>1 DEF Moment
      <4> HIDE DEF a, b
      <4> QED BY <2>5, <3>3, <4>1, <4>2, <4>3
    <3> QED BY <3>5, <3>6
  <2>11. chronological' => T + i.duration <= e - f
    BY <2>5, <2>8, <2>9
  <2>12. T + i.duration \in Nat /\ D + i.delta \in Int /\ ~(n + 1 <= 2)
    BY <1>4, <2>2, <2>5
  <2> HIDE DEF a, b
  <2> QED
    BY <1>1, <1>2, <1>3, <1>7, <1>9, <2>7, <2>10, <2>11, <2>12 DEF Tiled
<1> QED BY <1>12, <1>13, ReadExtends
-----------------------------------------------------------------------------
(* What a summary claims when it is complete.                              *)

LEMMA WindowNumbers == Start \in Nat /\ End \in Nat /\ Start < End
BY WindowAssumption

(* Rows in order, each inside the window, cover it only from end to end.   *)
LEMMA EndToEnd ==
  ASSUME TypeOK, Gathered, chronological, next > Len(samples), samples # <<>>,
         samples[Len(samples)].at - samples[1].at >= End - Start
  PROVE  /\ samples[1].at = Start /\ samples[Len(samples)].at = End
         /\ samples[Len(samples)].at - samples[1].at = End - Start
         /\ Len(samples) > 1
<1>1. PICK l \in Nat : l = Len(samples) /\ samples \in Seq(Sampled) /\ DOMAIN samples = 1..l
  BY DEF TypeOK
<1>2. 1 \in 1..l /\ l \in 1..l
  BY <1>1
<1>3. \A p \in 1..l : ~Disorder(p)
  <2>1. \A p \in 1..l : p \in 1..next - 1
    BY <1>1 DEF TypeOK
  <2> QED BY <2>1 DEF Gathered
<1>4. samples[1].at \in Start..End /\ samples[l].at \in Start..End
  BY <1>2, <1>3 DEF Disorder
<1>5. PICK f \in Start..End, e \in Start..End : f = samples[1].at /\ e = samples[l].at
  BY <1>4
<1>6. f = Start /\ e = End
  <2>1. e - f >= End - Start
    BY <1>1, <1>5
  <2> QED BY <2>1, WindowNumbers
<1>7. l # 1
  <2>1. l = 1 => f = e
    BY <1>5
  <2> QED BY <1>6, <2>1, WindowNumbers
<1> QED BY <1>1, <1>2, <1>5, <1>6, <1>7, WindowNumbers

(* The time between usable neighbours is at most that between the first    *)
(* row and the last, and that much only if every row is usable.            *)
LEMMA SpannedInWindow ==
  ASSUME TypeOK, Gathered, chronological, next > Len(samples), samples # <<>>
  PROVE  /\ SumOf(Spanned) \in Int
         /\ SumOf(Spanned) <= samples[Len(samples)].at - samples[1].at
         /\ SumOf(Spanned) = samples[Len(samples)].at - samples[1].at /\ Len(samples) > 1 =>
              \A p \in 1..Len(samples) : p \in usable
<1>1. PICK l \in Nat : l = Len(samples) /\ samples \in Seq(Sampled) /\ DOMAIN samples = 1..l
  BY DEF TypeOK
<1>2. /\ \A p \in 1..l : samples[p].at \in Nat
      /\ \A p \in 1..l : ~Disorder(p)
  <2>1. \A p \in 1..l : p \in 1..next - 1 /\ samples[p] \in Sampled
    BY <1>1 DEF TypeOK
  <2> QED BY <2>1, NumbersOfRows DEF Gathered
<1> DEFINE at == [p \in 1..l |-> samples[p].at]
<1>3. \A p \in 1..l : at[p] \in Nat /\ at[p] = samples[p].at
  BY <1>2
<1>4. ASSUME NEW p \in 1..l, p > 1
      PROVE  /\ p - 1 \in 1..l /\ at[p - 1] < at[p]
             /\ Spanned[p] = 0 \/ Spanned[p] = at[p] - at[p - 1]
             /\ Spanned[p] # 0 => p - 1 \in usable /\ p \in usable
  <2>1. p - 1 \in 1..l
    BY <1>1, <1>4
  <2>2. ~(samples[p].at <= samples[p - 1].at)
    BY <1>2, <1>4 DEF Disorder
  <2>3. Spanned[p] = IF {p - 1, p} \subseteq usable THEN samples[p].at - samples[p - 1].at ELSE 0
    BY <1>1 DEF Spanned, Positions
  <2> QED BY <1>3, <2>1, <2>2, <2>3
<1>5. Spanned \in Seq(Int) /\ Len(Spanned) = l /\ (l > 0 => Spanned[1] = 0)
  <2>1. usable \subseteq Nat \ {0}
    BY DEF TypeOK
  <2>2. DOMAIN Spanned = 1..l /\ Spanned = [p \in 1..l |-> Spanned[p]]
    BY <1>1 DEF Spanned, Positions
  <2>3. l > 0 => Spanned[1] = 0
    BY <1>1, <2>1 DEF Spanned, Positions
  <2>4. \A p \in 1..l : Spanned[p] \in Int
    <3> SUFFICES ASSUME NEW p \in 1..l PROVE Spanned[p] \in Int
      OBVIOUS
    <3>1. CASE p = 1
      BY <1>1, <2>3, <3>1
    <3>2. CASE p > 1
      <4>1. at[p] \in Nat /\ at[p - 1] \in Nat
        BY <1>3, <1>4, <3>2
      <4> HIDE DEF at
      <4> QED BY <1>4, <3>2, <4>1
    <3> QED BY <1>1, <3>1, <3>2
  <2>5. Spanned \in [1..l -> Int]
    BY <2>2, <2>4
  <2> QED BY <1>1, <2>3, <2>5
<1> HIDE DEF at
<1>6. PICK sum : Running(Spanned, sum) /\ SumOf(Spanned) = sum[l]
  BY <1>5, SumsExist
<1>7. /\ \A n \in 0..l : sum[n] \in Int
      /\ \A n \in 1..l : sum[n] = sum[n - 1] + Spanned[n]
      /\ sum[0] = 0
  BY <1>5, <1>6 DEF Running
<1> DEFINE Holds(n) == /\ sum[n] <= at[n] - at[1]
                       /\ sum[n] = at[n] - at[1] /\ n > 1 => \A p \in 1..n : p \in usable
           S == {n \in Nat : n + 1 <= l => Holds(n + 1)}
<1>8. l > 0 => sum[1] = 0
  <2>1. l > 0 => 1 \in 1..l /\ 1 - 1 = 0
    BY <1>1
  <2> QED BY <1>5, <1>7, <2>1
<1>9. 0 \in S
  <2>1. 0 + 1 <= l => Holds(0 + 1)
    <3>1. l > 0 => at[1] \in Nat
      BY <1>1, <1>3
    <3> QED BY <1>1, <1>8, <3>1
  <2> HIDE DEF Holds
  <2> QED BY <2>1
<1>10. ASSUME NEW n \in S PROVE n + 1 \in S
  <2>1. n \in Nat /\ (n + 1 <= l => Holds(n + 1))
    OBVIOUS
  <2>2. SUFFICES ASSUME (n + 1) + 1 <= l PROVE Holds((n + 1) + 1)
    BY <2>1
  <2>3. PICK m \in 1..l : m = n + 1 /\ m + 1 \in 1..l /\ (m + 1) - 1 = m /\ m \in 0..l /\ m + 1 > 1
    BY <1>1, <2>1, <2>2
  <2>4. Holds(m)
    BY <1>1, <2>1, <2>3
  <2>5. /\ at[m] < at[m + 1]
        /\ Spanned[m + 1] = 0 \/ Spanned[m + 1] = at[m + 1] - at[m]
        /\ Spanned[m + 1] # 0 => m \in usable /\ m + 1 \in usable
    BY <1>4, <2>3
  <2>6. PICK x \in Int, y \in Int, a \in Nat, b \in Nat, c \in Nat :
          /\ x = sum[m] /\ y = sum[m + 1] /\ a = at[1] /\ b = at[m] /\ c = at[m + 1]
    <3>1. sum[m] \in Int /\ sum[m + 1] \in Int
      BY <1>7, <2>3
    <3>2. at[1] \in Nat /\ at[m] \in Nat /\ at[m + 1] \in Nat
      BY <1>1, <1>3, <2>3
    <3> QED BY <3>1, <3>2
  <2>7. y = x \/ (y = x + (c - b) /\ m \in usable /\ m + 1 \in usable)
    BY <1>7, <2>3, <2>5, <2>6
  <2>8. b < c /\ x <= b - a
    BY <2>4, <2>5, <2>6
  <2>9. y <= c - a
    BY <2>7, <2>8
  <2>10. ASSUME y = c - a PROVE \A p \in 1..m + 1 : p \in usable
    <3>1. x = b - a /\ m \in usable /\ m + 1 \in usable
      BY <2>7, <2>8, <2>10
    <3>2. m > 1 => \A p \in 1..m : p \in usable
      BY <2>4, <2>6, <3>1
    <3>3. \A p \in 1..m + 1 : p = m + 1 \/ p = m \/ (m > 1 /\ p \in 1..m)
      BY <2>3
    <3> QED BY <3>1, <3>2, <3>3
  <2> QED BY <2>3, <2>6, <2>9, <2>10
<1>11. S = Nat
  <2>1. S \in SUBSET Nat
    OBVIOUS
  <2> HIDE DEF S
  <2> QED BY <1>9, <1>10, <2>1, SetInduction
<1>12. l \in 1..l /\ 1 \in 1..l /\ l - 1 \in Nat /\ (l - 1) + 1 = l
  BY <1>1
<1>13. Holds(l)
  <2>1. l - 1 \in S
    BY <1>11, <1>12
  <2> HIDE DEF Holds
  <2> QED BY <1>1, <1>12, <2>1
<1> QED BY <1>1, <1>3, <1>6, <1>7, <1>12, <1>13
(* What CompleteIsTrue says of a summary that there is.                    *)
Truthful(s) ==
  s.status = "complete" =>
    LET n == Len(samples) IN
    /\ \A p \in Positions : Usable(samples[p])
    /\ samples[1].at = Start /\ samples[n].at = End
    /\ \/ definition.kind = "gauge"
       \/ \E p \in Positions : ~Honest(p)
       \/ truth[1].restarts # truth[n].restarts
       \/ \E p \in 1..n - 1 : truth[p + 1].made - truth[p].made >= Modulus
       \/ LET events == truth[n].made - truth[1].made IN
          Same(s.aggregates[definition.primary],
               IF definition.primary = "total" THEN <<events, 1>> ELSE <<events * Scale, End - Start>>)

LEMMA CompleteNeeds ==
  ASSUME NEW rows, NEW accepted, NEW observed, NEW aggregates, NEW reject, NEW counted,
         Summary(rows, accepted, observed, aggregates, reject, counted).status = "complete"
  PROVE  observed = End - Start /\ DOMAIN aggregates # {}
BY DEF Summary, Status

LEMMA NothingEmpty == DOMAIN Nothing = {}
BY DEF Nothing

(* A complete gauge was usable from end to end.                            *)
LEMMA GaugeTruthful ==
  ASSUME TypeOK, Gathered, stage = "reading", next > Len(samples), definition.kind = "gauge"
  PROVE  Truthful(GaugeSummary)
<1> SUFFICES ASSUME GaugeSummary.status = "complete"
             PROVE  /\ \A p \in Positions : Usable(samples[p])
                    /\ samples[1].at = Start /\ samples[Len(samples)].at = End
  BY DEF Truthful
<1>1. PICK publish, rows, accepted, aggregates, reject, counted :
        /\ GaugeSummary = Summary(rows, accepted, IF publish THEN SumOf(Spanned) ELSE 0,
                                  IF publish THEN aggregates ELSE Nothing, reject, counted)
        /\ publish => chronological
  BY Zenon DEF GaugeSummary
<1>2. /\ (IF publish THEN SumOf(Spanned) ELSE 0) = End - Start
      /\ DOMAIN (IF publish THEN aggregates ELSE Nothing) # {}
  BY <1>1, CompleteNeeds
<1>3. chronological /\ SumOf(Spanned) = End - Start
  BY <1>1, <1>2, NothingEmpty
<1>4. samples # <<>>
  <2>1. samples = <<>> => Spanned = <<>>
    BY DEF Spanned, Positions
  <2>2. End - Start # 0
    BY WindowNumbers
  <2> QED BY <1>3, <2>1, <2>2, SumOfEmpty
<1>5. PICK l \in Nat : /\ l = Len(samples) /\ samples \in Seq(Sampled) /\ DOMAIN samples = 1..l
                       /\ 1 \in 1..l /\ l \in 1..l
  BY <1>4 DEF TypeOK
<1>6. PICK f \in Nat, e \in Nat : f = samples[1].at /\ e = samples[l].at
  BY <1>5, NumbersOfRows
<1>7. /\ SumOf(Spanned) <= e - f
      /\ SumOf(Spanned) = e - f /\ l > 1 => \A p \in 1..l : p \in usable
  BY <1>3, <1>4, <1>5, <1>6, SpannedInWindow
<1>8. f = Start /\ e = End /\ e - f = End - Start /\ l > 1
  <2>1. e - f >= End - Start
    BY <1>3, <1>7, WindowNumbers
  <2> QED BY <1>3, <1>4, <1>5, <1>6, <2>1, EndToEnd
<1> QED BY <1>3, <1>5, <1>6, <1>7, <1>8 DEF Positions, Gathered

(* A complete counter was usable from end to end, no pair of rows was left *)
(* out, and its intervals add up to what was made.                         *)
LEMMA CounterTruthful ==
  ASSUME TypeOK, Gathered, Tiled, stage = "reading", next > Len(samples),
         definition.kind # "gauge"
  PROVE  Truthful(CounterSummary)
<1> SUFFICES ASSUME CounterSummary.status = "complete" PROVE Truthful(CounterSummary)
  BY DEF Truthful
<1> DEFINE value == Aggregate
           publish == intervals # <<>> /\ ~Withdrawn /\ value # Null
<1>1. PICK rows, accepted, reject, counted :
        CounterSummary = Summary(rows, accepted, Durations(IF publish THEN intervals ELSE <<>>),
                                 IF publish THEN [a \in {definition.primary} |-> value] ELSE Nothing,
                                 reject, counted)
  BY Zenon DEF CounterSummary
<1>2. CounterSummary.aggregates = IF publish THEN [a \in {definition.primary} |-> value] ELSE Nothing
  BY <1>1 DEF Summary
<1>3. /\ Durations(IF publish THEN intervals ELSE <<>>) = End - Start
      /\ DOMAIN (IF publish THEN [a \in {definition.primary} |-> value] ELSE Nothing) # {}
  BY <1>1, CompleteNeeds
<1>4. publish
  BY <1>3, NothingEmpty
<1>5. chronological /\ Durations(intervals) = End - Start /\ value # Null
  BY <1>3, <1>4 DEF Withdrawn
<1>16. value = CounterValue(definition, intervals)
  BY <1>5 DEF Aggregate
<1>6. CounterSummary.aggregates[definition.primary] = value
  BY <1>2, <1>4
<1> HIDE DEF publish
<1>7. samples # <<>> /\ next > 1 /\ next - 1 = Len(samples) /\ next # 2
  <2>1. Len(samples) \in Nat /\ next \in 1..Len(samples) + 1
    BY DEF TypeOK
  <2>2. ~(next <= 2)
    BY <1>5, WindowNumbers DEF Tiled
  <2> QED BY <2>1, <2>2
<1>8. PICK l \in Nat : /\ l = Len(samples) /\ samples \in Seq(Sampled) /\ DOMAIN samples = 1..l
                       /\ l = Len(truth) /\ truth \in Seq(Moment) /\ 1 \in 1..l /\ l \in 1..l
  BY <1>7 DEF TypeOK
<1>9. PICK f \in Nat, e \in Nat : f = samples[1].at /\ e = samples[l].at
  BY <1>8, NumbersOfRows
<1>10. /\ Durations(intervals) <= e - f
       /\ Durations(intervals) = e - f =>
            /\ \A p \in 1..l : Usable(samples[p])
            /\ Clean(l) => Deltas(intervals) = truth[l].made - truth[1].made
  <2>1. next > 2 /\ next - 1 = l
    BY <1>7, <1>8 DEF TypeOK
  <2>2. next > 1
    BY <1>7
  <2>3. /\ Durations(intervals) <= samples[l].at - samples[1].at
        /\ Durations(intervals) = samples[l].at - samples[1].at =>
             /\ \A p \in 1..l : Usable(samples[p])
             /\ Clean(l) => Deltas(intervals) = truth[l].made - truth[1].made
    BY <1>5, <2>1, <2>2, Zenon DEF Tiled
  <2> QED BY <1>9, <2>3
<1>11. f = Start /\ e = End /\ e - f = End - Start
  <2>1. e - f >= End - Start
    BY <1>5, <1>10, WindowNumbers
  <2> QED BY <1>5, <1>7, <1>8, <1>9, <2>1, EndToEnd
<1>12. /\ \A p \in 1..l : Usable(samples[p])
       /\ Clean(l) => Deltas(intervals) = truth[l].made - truth[1].made
  BY <1>5, <1>10, <1>11
<1> DEFINE events == truth[l].made - truth[1].made
<1>13. ASSUME Clean(l)
       PROVE  Same(value, IF definition.primary = "total" THEN <<events, 1>>
                                                          ELSE <<events * Scale, End - Start>>)
  <2>1. Deltas(intervals) = events
    BY <1>12, <1>13
  <2>2. PICK x \in Nat, y \in Nat : x = truth[l].made /\ y = truth[1].made
    BY <1>8, NumbersOfRows
  <2>3. events \in Int /\ End - Start \in Int /\ Scale \in Int
    BY <2>2, WindowNumbers, ArithmeticAssumption
  <2>4. events * Scale \in Int
    BY <2>3
  <2> HIDE DEF events
  <2>5. CASE definition.primary = "total"
    <3>1. value = <<events, 1>>
      BY <1>5, <1>16, <2>1, <2>5 DEF CounterValue
    <3> QED BY <1>5, <2>5, <3>1 DEF Same
  <2>6. CASE definition.primary # "total"
    <3>1. value = <<events * Scale, End - Start>>
      BY <1>5, <1>16, <2>1, <2>6 DEF CounterValue, Rate
    <3> HIDE DEF value
    <3>2. PICK p \in Int, q \in Int : p = events * Scale /\ q = End - Start
      BY <2>3, <2>4
    <3>3. value = <<p, q>> /\ <<p, q>> # Null
      BY <1>5, <3>1, <3>2
    <3>4. Same(value, <<p, q>>)
      BY <3>3 DEF Same
    <3> QED BY <2>6, <3>2, <3>4
  <2> QED BY <2>5, <2>6
<1>14. \/ \E p \in 1..l : ~Honest(p)
       \/ truth[1].restarts # truth[l].restarts
       \/ \E p \in 1..l - 1 : truth[p + 1].made - truth[p].made >= Modulus
       \/ Clean(l)
  <2> SUFFICES ASSUME ~\E p \in 1..l - 1 : truth[p + 1].made - truth[p].made >= Modulus,
                      \A p \in 1..l : Honest(p), truth[1].restarts = truth[l].restarts
               PROVE  \A p \in 1..l - 1 : truth[p + 1].made - truth[p].made < Modulus
    BY DEF Clean
  <2> SUFFICES ASSUME NEW p \in 1..l - 1 PROVE truth[p + 1].made - truth[p].made < Modulus
    OBVIOUS
  <2>1. p \in 1..l /\ p + 1 \in 1..l
    BY <1>8
  <2>2. PICK x \in Nat, y \in Nat : x = truth[p + 1].made /\ y = truth[p].made
    BY <1>8, <2>1, NumbersOfRows
  <2>3. ~(x - y >= Modulus)
    BY <2>2
  <2> QED BY <2>2, <2>3, WindowAssumption
<1> HIDE DEF value, events
<1>15. \/ \E p \in Positions : ~Honest(p)
       \/ truth[1].restarts # truth[l].restarts
       \/ \E p \in 1..l - 1 : truth[p + 1].made - truth[p].made >= Modulus
       \/ Same(value, IF definition.primary = "total" THEN <<events, 1>>
                                                      ELSE <<events * Scale, End - Start>>)
  BY <1>8, <1>13, <1>14 DEF Positions
<1> QED BY <1>6, <1>8, <1>9, <1>11, <1>12, <1>15 DEF Truthful, Positions, events
(* What was and is, for a summary that does not change.                    *)
LEMMA TruthfulKept ==
  ASSUME UNCHANGED <<definition, samples, truth>>, NEW s, Truthful(s)
  PROVE  summary' = s => CompleteIsTrue'
BY DEF Truthful, CompleteIsTrue, Positions, Usable, Honest

(* The inductive invariant of what is complete. *)
CInv == Inv /\ Tiled /\ CompleteIsTrue

LEMMA CompleteInvariant == Spec => []CInv
<1>1. Init => Tiled /\ CompleteIsTrue
  BY UnreadTiled DEF Init, CompleteIsTrue
<1>2. Inv /\ Tiled /\ CompleteIsTrue /\ [Next]_vars => Tiled' /\ CompleteIsTrue'
  <2> SUFFICES ASSUME TypeOK, Told, Gathered, Tiled, CompleteIsTrue, [Next]_vars
               PROVE  Tiled' /\ CompleteIsTrue'
    BY DEF Inv
  <2>1. CASE Event \/ Restart \/ Tick \/ Sample \/ FalseSample \/ Submit
    <3>1. stage = "capturing" /\ UNCHANGED <<reader, summary>>
      BY <2>1 DEF Event, Restart, Tick, Sample, FalseSample, Submit, Export, Capturing
    <3>2. next' = 1 /\ intervals' = <<>> /\ summary' = Null
      BY <3>1 DEF Gathered, TypeOK, reader
    <3>3. Durations(intervals') = 0 /\ Deltas(intervals') = 0
      BY <3>2, NothingAdded
    <3>4. Tiled'
      BY <3>2, <3>3 DEF Tiled
    <3> QED BY <3>2, <3>4 DEF CompleteIsTrue
  <2>2. CASE Read
    <3>1. summary' = Null
      BY <2>2 DEF Read, TypeOK
    <3> QED BY <2>2, <3>1, ReadTiles DEF CompleteIsTrue
  <2>3. CASE Finish
    <3>1. /\ UNCHANGED <<definition, samples, truth>> /\ UNCHANGED reader
          /\ stage = "reading" /\ next > Len(samples)
      BY <2>3 DEF Finish, world
    <3>2. Tiled'
      BY <3>1 DEF Tiled, Clean, Honest, Usable, reader
    <3>3. CASE definition.kind = "gauge"
      <4>1. summary' = GaugeSummary
        BY <2>3, <3>3 DEF Finish
      <4>2. Truthful(GaugeSummary)
        BY <3>1, <3>3, GaugeTruthful
      <4> QED BY <3>1, <3>2, <4>1, <4>2, TruthfulKept
    <3>4. CASE definition.kind # "gauge"
      <4>1. summary' = CounterSummary
        BY <2>3, <3>4 DEF Finish
      <4>2. Truthful(CounterSummary)
        BY <3>1, <3>4, CounterTruthful
      <4> QED BY <3>1, <3>2, <4>1, <4>2, TruthfulKept
    <3> QED BY <3>3, <3>4
  <2>4. CASE UNCHANGED vars
    <3>1. Tiled'
      BY <2>4 DEF vars, world, reader, Tiled, Clean, Honest, Usable
    <3>2. CompleteIsTrue'
      BY <2>4 DEF vars, world, reader, CompleteIsTrue, Positions, Usable, Honest
    <3> QED BY <3>1, <3>2
  <2> QED BY <2>1, <2>2, <2>3, <2>4 DEF Next
<1> QED BY <1>1, <1>2, Invariant, PTL DEF Spec, CInv

(* CompleteIsTrue holds in every state: a series said to be complete was   *)
(* usable from the start of its window to the end, and a counter's total   *)
(* and rate are then those of everything that was counted in it, whatever  *)
(* the register, the policies, the window and the number of rows.          *)
THEOREM CompleteIsWhole == Spec => []CompleteIsTrue
BY CompleteInvariant, PTL DEF CInv
-----------------------------------------------------------------------------
(* What a summary claims, and may claim.  Time t passed between the rows n *)
(* and n + 1, and they count it.                                           *)
Spans(n, t) == Joined(n) /\ samples[n].at <= t /\ t < samples[n + 1].at

(* The time the first m rows have observed. *)
Seen(m) == {t \in Start..End - 1 : \E n \in 1..m - 1 : Spans(n, t)}

(* The k-th accepted interval is between the rows p and p + 1.             *)
Stands(k, p) ==
  /\ p \in usable /\ p + 1 \in usable
  /\ Between(intervals[k], p)
  /\ intervals[k].rate # Null
  /\ intervals[k].wrapped => p + 1 \in resets

(* A row that is left out, a reset or an order that is none shows.         *)
Shown ==
  /\ ~chronological => rejected
  /\ gaps # {} => missing \/ rejected
  /\ \A p \in gaps : ~Usable(samples[p])
  /\ stage # "capturing" /\ definition.reset = "series" /\ resets # {} => fatal

(* The intervals are in the order of the rows, fewer than the usable ones. *)
Placed ==
  /\ Len(intervals) = 0 \/ Len(intervals) < Cardinality(usable)
  /\ \A k \in DOMAIN intervals : \E p \in 1..next - 2 : Stands(k, p)
  /\ \A k \in 1..Len(intervals) - 1 :
       \E p, q \in 1..next - 2 : p < q /\ Stands(k, p) /\ Stands(k + 1, q)

Rising == chronological => \A p, q \in 1..next - 1 : p < q => samples[p].at < samples[q].at

(* As long as no series was ended, they last as long as was observed. *)
Measured ==
  stage # "capturing" /\ definition.kind = "counter" /\ chronological /\ ~fatal =>
    Durations(intervals) = Cardinality(Seen(next - 1))

(* What ends a counter's series for good: a reset its policy does not      *)
(* forgive, or an increment whose rate is no number.                       *)
Ends(n) ==
  \/ Fell(n) /\ definition.reset = "series"
  \/ /\ Joined(n)
     /\ Rate(Delta(samples[n], samples[n + 1]), samples[n + 1].at - samples[n].at) = Null

(* What the aggregator holds against the rows so far is what is the matter *)
(* with them, and of a counter it did not give up it has all the growth.   *)
Judged ==
  /\ ~chronological => \E m \in 1..next - 1 : Disorder(m)
  /\ fatal => rejected
  /\ stage = "capturing" => ~missing /\ ~rejected
  /\ definition.kind # "counter" /\ chronological /\ gaps = {} => ~missing /\ ~rejected
  /\ definition.kind = "counter" /\ chronological =>
       /\ fatal <=> \E n \in 1..next - 2 : Ends(n)
       /\ ~fatal => \A sum : Running(Growth, sum) => Deltas(intervals) = sum[next - 1]

Accounted == Shown /\ Placed /\ Rising /\ Measured /\ Judged
(* A row more adds the time since the row before, if the two are joined.   *)
LEMMA SeenStep ==
  ASSUME samples \in Seq(Sampled), NEW n \in Nat, 0 < n, n < Len(samples),
         \A p, q \in 1..n + 1 : p < q => samples[p].at < samples[q].at,
         samples[n].at \in Start..End, samples[n + 1].at \in Start..End,
         IsFiniteSet(Seen(n))
  PROVE  /\ IsFiniteSet(Seen(n + 1))
         /\ Cardinality(Seen(n)) \in Nat
         /\ Cardinality(Seen(n + 1)) =
              Cardinality(Seen(n)) + IF Joined(n) THEN samples[n + 1].at - samples[n].at ELSE 0
<1>1. PICK x \in Nat, y \in Nat : /\ x = samples[n].at /\ y = samples[n + 1].at
                                  /\ x \in Start..End /\ y \in Start..End /\ x < y
  <2>1. n \in 1..n + 1 /\ n + 1 \in 1..n + 1 /\ n < n + 1
    OBVIOUS
  <2>2. samples[n].at < samples[n + 1].at
    BY <2>1
  <2>3. samples[n] \in Sampled /\ samples[n + 1] \in Sampled
    OBVIOUS
  <2> QED BY <2>2, <2>3, NumbersOfRows
<1> DEFINE B == {t \in Start..End - 1 : Spans(n, t)}
<1>2. B = IF Joined(n) THEN x..y - 1 ELSE {}
  <2>1. \A t \in x..y - 1 : t \in Start..End - 1 /\ x <= t /\ t < y
    BY <1>1, WindowNumbers
  <2>2. \A t : Spans(n, t) <=> (x <= t /\ t < y /\ Joined(n))
    BY <1>1 DEF Spans
  <2>3. \A t \in Start..End - 1 : x <= t /\ t < y => t \in x..y - 1
    BY <1>1, WindowNumbers
  <2>4. CASE Joined(n)
    <3>1. \A t : t \in B <=> t \in x..y - 1
      BY <2>1, <2>2, <2>3, <2>4
    <3> QED BY <2>4, <3>1
  <2>5. CASE ~Joined(n)
    <3>1. \A t : t \notin B
      BY <2>2, <2>5
    <3> QED BY <2>5, <3>1
  <2> QED BY <2>4, <2>5
<1>3. IsFiniteSet(B) /\ Cardinality(B) = IF Joined(n) THEN y - x ELSE 0
  <2>1. IsFiniteSet(x..y - 1) /\ Cardinality(x..y - 1) = (y - 1) - x + 1
    <3>1. x \in Int /\ y - 1 \in Int /\ ~(x > y - 1)
      BY <1>1
    <3> QED BY <3>1, FS_Interval
  <2>2. IsFiniteSet({}) /\ Cardinality({}) = 0
    BY FS_EmptySet, Zenon
  <2> HIDE DEF B
  <2> QED BY <1>1, <1>2, <2>1, <2>2
<1>4. Seen(n + 1) = Seen(n) \cup B
  <2>1. \A m : m \in 1..(n + 1) - 1 <=> (m \in 1..n - 1 \/ m = n)
    OBVIOUS
  <2>2. \A t : (\E m \in 1..(n + 1) - 1 : Spans(m, t)) <=> ((\E m \in 1..n - 1 : Spans(m, t)) \/ Spans(n, t))
    BY <2>1
  <2> QED BY <2>2 DEF Seen
<1>5. Seen(n) \cap B = {}
  <2> SUFFICES ASSUME NEW t \in Seen(n), t \in B PROVE FALSE
    OBVIOUS
  <2>1. PICK m \in 1..n - 1 : Spans(m, t)
    BY DEF Seen
  <2>2. t \in Int /\ x <= t
    BY <1>1 DEF Spans
  <2>3. m + 1 \in 1..n + 1 /\ n \in 1..n + 1 /\ m + 1 \in 1..Len(samples) /\ (m + 1 = n \/ m + 1 < n)
    OBVIOUS
  <2>4. samples[m + 1] \in Sampled
    BY <2>3
  <2>5. PICK z \in Nat : z = samples[m + 1].at
    BY <2>4, NumbersOfRows
  <2>6. t < z
    BY <2>1, <2>5 DEF Spans
  <2>7. z <= x
    <3>1. CASE m + 1 = n
      BY <1>1, <2>5, <3>1
    <3>2. CASE m + 1 < n
      <4>1. samples[m + 1].at < samples[n].at
        BY <2>3, <3>2
      <4> QED BY <1>1, <2>5, <4>1
    <3> QED BY <2>3, <3>1, <3>2
  <2> QED BY <1>1, <2>2, <2>5, <2>6, <2>7
<1> HIDE DEF B
<1>6. Cardinality(Seen(n)) \in Nat /\ Cardinality(B) \in Nat
  BY <1>3, FS_CardinalityType
<1>7. /\ IsFiniteSet(Seen(n) \cup B)
      /\ Cardinality(Seen(n) \cup B) = Cardinality(Seen(n)) + Cardinality(B) - Cardinality({})
  BY <1>3, <1>5, FS_Union
<1>8. Cardinality({}) = 0
  BY FS_EmptySet, Zenon
<1>9. PICK c \in Nat, d \in Nat : c = Cardinality(Seen(n)) /\ d = Cardinality(B)
  BY <1>6
<1>10. Cardinality(Seen(n + 1)) = c + d
  <2>1. Cardinality(Seen(n + 1)) = Cardinality(Seen(n)) + Cardinality(B) - Cardinality({})
    BY <1>4, <1>7, Zenon
  <2>2. Cardinality(Seen(n + 1)) = c + d - 0
    BY <1>8, <1>9, <2>1, Zenon
  <2> QED BY <1>9, <2>2
<1>11. d = IF Joined(n) THEN samples[n + 1].at - samples[n].at ELSE 0
  BY <1>1, <1>3, <1>9
<1>12. IsFiniteSet(Seen(n + 1))
  BY <1>4, <1>7
<1> QED BY <1>9, <1>10, <1>11, <1>12

(* Nothing is observed before a second row. *)
LEMMA SeenNothing ==
  ASSUME NEW n \in Int, n <= 1
  PROVE  Seen(n) = {} /\ IsFiniteSet(Seen(n)) /\ Cardinality(Seen(n)) = 0
<1>1. 1..n - 1 = {}
  OBVIOUS
<1>2. Seen(n) = {}
  BY <1>1 DEF Seen
<1>3. IsFiniteSet({}) /\ Cardinality({}) = 0
  BY FS_EmptySet, Zenon
<1> QED BY <1>2, <1>3, Zenon

LEMMA SeenFinite == \A n : IsFiniteSet(Seen(n)) /\ Cardinality(Seen(n)) \in Nat
                           /\ Cardinality(Seen(n)) <= End - Start
<1> SUFFICES ASSUME NEW n PROVE /\ IsFiniteSet(Seen(n)) /\ Cardinality(Seen(n)) \in Nat
                                /\ Cardinality(Seen(n)) <= End - Start
  OBVIOUS
<1>1. Start \in Int /\ End - 1 \in Int /\ ~(Start > End - 1) /\ (End - 1) - Start + 1 = End - Start
  BY WindowNumbers
<1>2. IsFiniteSet(Start..End - 1) /\ Cardinality(Start..End - 1) = End - Start
  BY <1>1, FS_Interval
<1>3. Seen(n) \in SUBSET (Start..End - 1)
  BY DEF Seen
<1> QED BY <1>2, <1>3, FS_Subset, FS_CardinalityType
(* What a pair of neighbours does: a fall shows, one that ends the series  *)
(* is fatal, and where nothing is fatal only a refused fall adds nothing.  *)
LEMMA PairOutcome ==
  ASSUME TypeOK, NEW a, NEW b, Pair(a, b)
  PROVE  /\ fatal => fatal'
         /\ b.value < a.value => resets' = resets \cup {next}
         /\ ~(b.value < a.value) => resets' = resets
         /\ b.value < a.value /\ definition.reset = "series" => fatal'
         /\ ~fatal' /\ (b.value < a.value => definition.reset = "wrap") =>
              Interval(a, b).rate # Null /\ intervals' = Append(intervals, Interval(a, b))
         /\ fatal' => \/ fatal
                      \/ b.value < a.value /\ definition.reset = "series"
                      \/ /\ b.value < a.value => definition.reset = "wrap"
                         /\ Interval(a, b).rate = Null
<1> DEFINE fell == b.value < a.value
           refused == fell /\ definition.reset # "wrap"
           killed == fatal \/ (refused /\ definition.reset = "series")
<1>1. /\ resets' = IF fell THEN resets \cup {next} ELSE resets
      /\ refused \/ killed => intervals' = intervals /\ fatal' = killed
      /\ ~(refused \/ killed) => Accept(Interval(a, b))
  BY Zenon DEF Pair
<1>2. fatal \in BOOLEAN
  BY DEF TypeOK
<1> DEFINE i == Interval(a, b)
<1>3. Accept(i) => \/ i.rate = Null /\ fatal' = TRUE
                   \/ i.rate # Null /\ fatal' = fatal /\ intervals' = Append(intervals, i)
  BY DEF Accept
<1>4. "series" # "wrap"
  OBVIOUS
<1> HIDE DEF i
<1>5. fatal => fatal'
  BY <1>1, <1>2, <1>3, Zenon DEF i
<1>6. fell /\ definition.reset = "series" => fatal'
  BY <1>1, <1>4, Zenon
<1>7. ~fatal' /\ (fell => definition.reset = "wrap") => i.rate # Null /\ intervals' = Append(intervals, i)
  BY <1>1, <1>2, <1>3, Zenon DEF i
<1>8. fatal' => \/ fatal
                \/ fell /\ definition.reset = "series"
                \/ (fell => definition.reset = "wrap") /\ i.rate = Null
  BY <1>1, <1>2, <1>3, Zenon DEF i
<1> QED BY <1>1, <1>5, <1>6, <1>7, <1>8, Zenon DEF i

LEMMA ReadRefuses ==
  ASSUME TypeOK, Read
  PROVE  LET a == samples[next - 1]  b == samples[next] IN
         /\ fatal => fatal'
         /\ definition.reset = "series" /\ resets' # resets => fatal'
         /\ resets \subseteq resets'
         /\ Extends /\ b.value < a.value => next \in resets'
         /\ /\ definition.kind = "counter" /\ Neighbours /\ chronological' /\ ~fatal'
            /\ b.value < a.value => definition.reset = "wrap"
            => Extends
<1> DEFINE a == samples[next - 1]  b == samples[next]
           fell == b.value < a.value
<1>1. CASE definition.kind = "counter" /\ Neighbours /\ chronological'
  <2>1. Pair(a, b) /\ ~Disorder(next)
    BY <1>1, Zenon DEF Read
  <2> HIDE DEF a, b
  <2>2. /\ fatal => fatal'
        /\ fell => resets' = resets \cup {next}
        /\ ~fell => resets' = resets
        /\ fell /\ definition.reset = "series" => fatal'
        /\ ~fatal' /\ (fell => definition.reset = "wrap") =>
             Interval(a, b).rate # Null /\ intervals' = Append(intervals, Interval(a, b))
    BY <2>1, PairOutcome
  <2>3. ~fatal' /\ (fell => definition.reset = "wrap") => Extends
    BY <1>1, <2>1, <2>2, Zenon DEF Extends, a, b
  <2>4. resets \subseteq resets' /\ (fell => next \in resets')
    BY <2>2
  <2>5. definition.reset = "series" /\ resets' # resets => fatal'
    BY <2>2, Zenon
  <2> QED BY <2>2, <2>3, <2>4, <2>5, Zenon DEF a, b
<1>2. CASE ~(definition.kind = "counter" /\ Neighbours /\ chronological')
  <2>1. UNCHANGED <<resets, intervals, fatal>>
    BY <1>2, Zenon DEF Read
  <2>2. ~Extends
    <3> SUFFICES ASSUME Extends PROVE FALSE
      OBVIOUS
    <3> DEFINE i == Interval(a, b)
    <3>1. intervals' = Append(intervals, i)
      BY DEF Extends
    <3> HIDE DEF i
    <3>2. Len(intervals) \in Nat /\ Len(Append(intervals, i)) = Len(intervals) + 1
      BY DEF TypeOK
    <3> QED BY <2>1, <3>1, <3>2
  <2> QED BY <1>2, <2>1, <2>2
<1> QED BY <1>1, <1>2
(* What reading a row leaves alone. *)
LEMMA ReadKeeps ==
  ASSUME TypeOK, Read
  PROVE  /\ next \in Nat /\ 1 <= next /\ next <= Len(samples) /\ next' = next + 1 /\ next' - 1 = next
         /\ stage = "reading" /\ stage' = stage /\ definition' = definition /\ samples' = samples
         /\ definition \in Definitions
         /\ \A s : Usable(s)' = Usable(s)
         /\ \A i, p : Between(i, p)' = Between(i, p)
         /\ \A n : Seen(n)' = Seen(n)
         /\ \/ Usable(samples[next]) /\ usable' = usable \cup {next} /\ gaps' = gaps
            \/ ~Usable(samples[next]) /\ usable' = usable /\ gaps' = gaps \cup {next}
         /\ usable \cup gaps = 1..next - 1
         /\ samples \in Seq(Sampled)
<1>1. /\ stage = "reading" /\ stage' = stage /\ definition' = definition /\ samples' = samples
      /\ next' = next + 1 /\ next <= Len(samples) /\ next \in 1..Len(samples) + 1
      /\ usable \cup gaps = 1..next - 1 /\ definition \in Definitions /\ samples \in Seq(Sampled)
  BY DEF Read, world, TypeOK
<1>2. \A s : Usable(s)' = Usable(s)
  BY <1>1 DEF Usable
<1>3. \A i, p : Between(i, p)' = Between(i, p)
  BY <1>1 DEF Between, Usable, Interval, Delta
<1>4. \A n : Seen(n)' = Seen(n)
  BY <1>1 DEF Seen, Spans, Joined, Fell, Usable
<1>5. \/ Usable(samples[next]) /\ usable' = usable \cup {next} /\ gaps' = gaps
      \/ ~Usable(samples[next]) /\ usable' = usable /\ gaps' = gaps \cup {next}
  BY DEF Read
<1>6. Len(samples) \in Nat
  BY <1>1
<1>7. next \in Nat /\ 1 <= next /\ next' - 1 = next
  BY <1>1, <1>6
<1> QED BY <1>1, <1>2, <1>3, <1>4, <1>5, <1>7, Zenon

LEMMA ReadShows ==
  ASSUME TypeOK, Shown, Read PROVE Shown'
<1>1. ~chronological' => rejected'
  BY Zenon DEF Read, Shown
<1>2. ASSUME gaps' # {} PROVE missing' \/ rejected'
  <2>1. CASE gaps # {}
    <3>1. missing \/ rejected
      BY <2>1 DEF Shown
    <3> QED BY <3>1, Zenon DEF Read
  <2>2. CASE gaps = {}
    <3>1. ~Usable(samples[next])
      BY <1>2, <2>2, ReadKeeps
    <3>2. next \in Positions
      BY ReadKeeps DEF Positions
    <3>3. samples[next] \in Sampled
      BY <3>2, ReadKeeps DEF Positions
    <3>4. \/ samples[next].value # Null
          \/ samples[next].why = "missing" \/ samples[next].why = "rejected"
      <4>1. (samples[next].value = Null) = (samples[next].why # Null)
        BY <3>2 DEF TypeOK
      <4>2. samples[next].why \in {Null, "missing", "rejected"}
        BY <3>3 DEF Sampled
      <4> QED BY <4>1, <4>2
    <3> QED BY <3>1, <3>4, Zenon DEF Read
  <2> QED BY <2>1, <2>2
<1>3. \A p \in gaps' : ~Usable(samples[p])
  <2>1. \A p \in gaps : ~Usable(samples[p])
    BY DEF Shown
  <2> QED BY <2>1, ReadKeeps
<1>4. ASSUME definition.reset = "series", resets' # {} PROVE fatal'
  <2>1. CASE resets = {}
    BY <1>4, <2>1, ReadRefuses
  <2>2. CASE resets # {}
    <3>1. fatal
      BY <1>4, <2>2, ReadKeeps DEF Shown
    <3> QED BY <3>1, ReadRefuses
  <2> QED BY <2>1, <2>2
<1>5. \A p \in gaps' : ~Usable(samples[p])'
  BY <1>3, ReadKeeps
<1>6. definition' = definition
  BY ReadKeeps
<1> QED BY <1>1, <1>2, <1>4, <1>5, <1>6, Zenon DEF Shown

LEMMA ReadRises ==
  ASSUME TypeOK, Rising, Read PROVE Rising'
<1> SUFFICES ASSUME chronological', NEW p \in 1..next, NEW q \in 1..next, p < q
             PROVE  samples[p].at < samples[q].at
  BY ReadKeeps DEF Rising
<1>1. chronological /\ ~Disorder(next)
  BY Zenon DEF Read
<1>2. next \in Nat /\ next <= Len(samples) /\ samples \in Seq(Sampled)
  BY ReadKeeps
<1>3. \A m, n \in 1..next - 1 : m < n => samples[m].at < samples[n].at
  BY <1>1 DEF Rising
<1>4. CASE q # next
  <2>1. p \in 1..next - 1 /\ q \in 1..next - 1
    BY <1>2, <1>4
  <2> QED BY <1>3, <2>1
<1>5. CASE q = next
  <2>1. next > 1 /\ p \in 1..next - 1 /\ next - 1 \in 1..next - 1 /\ (p = next - 1 \/ p < next - 1)
    BY <1>2, <1>5
  <2>2. ~(samples[next].at <= samples[next - 1].at)
    BY <1>1, <2>1 DEF Disorder
  <2>3. samples[p] \in Sampled /\ samples[next - 1] \in Sampled /\ samples[next] \in Sampled
    BY <1>2, <2>1
  <2>4. PICK x \in Nat, y \in Nat, z \in Nat :
          x = samples[p].at /\ y = samples[next - 1].at /\ z = samples[next].at
    BY <2>3, NumbersOfRows
  <2>5. x = y \/ x < y
    BY <1>3, <2>1, <2>4
  <2>6. y < z
    BY <2>2, <2>4
  <2> QED BY <1>5, <2>4, <2>5, <2>6
<1> QED BY <1>4, <1>5
LEMMA ReadPlaces ==
  ASSUME TypeOK, Gathered, Placed, Read PROVE Placed'
<1>1. PICK n \in Nat : /\ n = Len(intervals) /\ DOMAIN intervals = 1..n
                       /\ intervals \in Seq(Accepted)
  BY DEF TypeOK
<1>2. /\ next \in Nat /\ 1 <= next /\ next' = next + 1 /\ next' - 1 = next
      /\ usable \cup gaps = 1..next - 1
  BY ReadKeeps
<1>3. usable \subseteq usable' /\ resets \subseteq resets'
  BY ReadKeeps, ReadRefuses
<1>4. ASSUME NEW k \in 1..n, NEW p, intervals'[k] = intervals[k], Stands(k, p) PROVE Stands(k, p)'
  <2>1. PICK i : i = intervals[k]
    OBVIOUS
  <2>2. Between(i, p)'
    BY <1>4, <2>1, ReadKeeps DEF Stands
  <2>3. Between(intervals[k], p)'
    BY <1>4, <2>1, <2>2, Zenon DEF Between
  <2> QED BY <1>3, <1>4, <2>3, Zenon DEF Stands
<1>5. \A p : p \in 1..next - 2 => p \in 1..next' - 2
  BY <1>2
<1>6. IsFiniteSet(usable) /\ Cardinality(usable) \in Nat /\ next \notin usable
  <2>1. IsFiniteSet(1..next - 1) /\ usable \in SUBSET (1..next - 1)
    <3>1. 1 \in Int /\ next - 1 \in Int
      BY <1>2
    <3>2. IsFiniteSet(1..next - 1)
      BY <3>1, FS_Interval
    <3> QED BY <1>2, <3>2
  <2>2. next \notin 1..next - 1
    BY <1>2
  <2> QED BY <2>1, <2>2, FS_Subset, FS_CardinalityType
<1>7. Cardinality(usable') = Cardinality(usable) \/ Cardinality(usable') = Cardinality(usable) + 1
  <2>1. Cardinality(usable \cup {next}) = Cardinality(usable) + 1
    BY <1>6, FS_AddElement
  <2> QED BY <2>1, ReadKeeps
<1>8. CASE intervals' = intervals
  <2>1. Len(intervals') = 0 \/ Len(intervals') < Cardinality(usable')
    <3>1. n = 0 \/ n < Cardinality(usable)
      BY <1>1 DEF Placed
    <3> QED BY <1>1, <1>6, <1>7, <1>8, <3>1
  <2>2. \A k \in 1..n : \E p \in 1..next' - 2 : Stands(k, p)'
    <3> SUFFICES ASSUME NEW k \in 1..n PROVE \E p \in 1..next' - 2 : Stands(k, p)'
      OBVIOUS
    <3>1. PICK p \in 1..next - 2 : Stands(k, p)
      BY <1>1 DEF Placed
    <3> QED BY <1>4, <1>5, <1>8, <3>1
  <2>3. \A k \in 1..n - 1 : \E p, q \in 1..next' - 2 : p < q /\ Stands(k, p)' /\ Stands(k + 1, q)'
    <3> SUFFICES ASSUME NEW k \in 1..n - 1
                 PROVE  \E p, q \in 1..next' - 2 : p < q /\ Stands(k, p)' /\ Stands(k + 1, q)'
      OBVIOUS
    <3>1. PICK p \in 1..next - 2, q \in 1..next - 2 : p < q /\ Stands(k, p) /\ Stands(k + 1, q)
      BY <1>1 DEF Placed
    <3>2. k \in 1..n /\ k + 1 \in 1..n
      BY <1>1
    <3>3. Stands(k, p)' /\ Stands(k + 1, q)'
      BY <1>4, <1>8, <3>1, <3>2
    <3>4. p \in 1..next' - 2 /\ q \in 1..next' - 2
      BY <1>5
    <3> QED BY <3>1, <3>3, <3>4
  <2> QED BY <1>1, <1>8, <2>1, <2>2, <2>3 DEF Placed
<1>9. CASE Extends
  <2> DEFINE a == samples[next - 1]  b == samples[next]
  <2>0. PICK i, m : i = Interval(a, b) /\ m = next - 1
    OBVIOUS
  <2>1. m \in usable /\ Usable(b) /\ Between(i, m) /\ m + 1 = next /\ m \in 1..next - 1
    <3>1. /\ next - 1 \in usable /\ Usable(b) /\ Between(Interval(a, b), next - 1)
          /\ (next - 1) + 1 = next
      BY <1>9, ExtendsBetween
    <3>2. next - 1 \in 1..next - 1
      BY <1>2, <3>1
    <3> QED BY <2>0, <3>1, <3>2
  <2>2. usable' = usable \cup {next} /\ Cardinality(usable') = Cardinality(usable) + 1
    BY <1>6, <2>1, FS_AddElement, ReadKeeps
  <2>3. intervals' = Append(intervals, i)
    BY <1>9, <2>0 DEF Extends
  <2>4. i.wrapped = (b.value < a.value)
    BY <2>0 DEF Interval
  <2>5. i.wrapped => m + 1 \in resets'
    BY <1>9, <2>1, <2>4, ReadRefuses
  <2>6. /\ Len(intervals') = n + 1 /\ DOMAIN intervals' = 1..n + 1 /\ intervals'[n + 1] = i
        /\ \A k \in 1..n : intervals'[k] = intervals[k]
    BY <1>1, <2>3
  <2>7. Stands(n + 1, m)'
    <3>1. Between(i, m)'
      BY <2>1, ReadKeeps
    <3>2. Between(intervals[n + 1], m)'
      BY <2>6, <3>1, Zenon DEF Between
    <3>3. /\ m \in usable' /\ m + 1 \in usable'
          /\ intervals'[n + 1].rate # Null
          /\ intervals'[n + 1].wrapped => m + 1 \in resets'
      BY <1>9, <2>0, <2>1, <2>2, <2>5, <2>6 DEF Extends
    <3> QED BY <3>2, <3>3, Zenon DEF Stands
  <2>8. m \in 1..next' - 2
    BY <1>2, <2>1
  <2>9. n + 1 < Cardinality(usable')
    <3>1. n = 0 \/ n < Cardinality(usable)
      BY <1>1 DEF Placed
    <3>2. Cardinality(usable) # 0
      BY <1>6, <2>1, FS_EmptySet
    <3> QED BY <1>1, <1>6, <2>2, <3>1, <3>2
  <2>10. \A k \in 1..n + 1 : \E p \in 1..next' - 2 : Stands(k, p)'
    <3> SUFFICES ASSUME NEW k \in 1..n, k # n + 1 PROVE \E p \in 1..next' - 2 : Stands(k, p)'
      BY <2>7, <2>8
    <3>1. PICK p \in 1..next - 2 : Stands(k, p)
      BY <1>1 DEF Placed
    <3> QED BY <1>4, <1>5, <2>6, <3>1
  <2>11. \A k \in 1..(n + 1) - 1 : \E p, q \in 1..next' - 2 : p < q /\ Stands(k, p)' /\ Stands(k + 1, q)'
    <3> SUFFICES ASSUME NEW k \in 1..n
                 PROVE  \E p, q \in 1..next' - 2 : p < q /\ Stands(k, p)' /\ Stands(k + 1, q)'
      OBVIOUS
    <3>1. CASE k = n
      <4>1. PICK p \in 1..next - 2 : Stands(k, p)
        BY <1>1 DEF Placed
      <4>2. p < m /\ p \in 1..next' - 2
        BY <1>2, <1>5, <2>0
      <4>3. Stands(k, p)'
        BY <1>4, <2>6, <4>1
      <4> QED BY <2>7, <2>8, <3>1, <4>2, <4>3
    <3>2. CASE k # n
      <4>1. k \in 1..n - 1 /\ k + 1 \in 1..n
        BY <3>2
      <4>2. PICK p \in 1..next - 2, q \in 1..next - 2 : p < q /\ Stands(k, p) /\ Stands(k + 1, q)
        BY <1>1, <4>1 DEF Placed
      <4>3. Stands(k, p)' /\ Stands(k + 1, q)'
        BY <1>4, <2>6, <4>1, <4>2
      <4>4. p \in 1..next' - 2 /\ q \in 1..next' - 2
        BY <1>5
      <4> QED BY <4>2, <4>3, <4>4
    <3> QED BY <3>1, <3>2
  <2> QED BY <2>6, <2>9, <2>10, <2>11 DEF Placed
<1> QED BY <1>8, <1>9, ReadExtends
LEMMA ReadMeasures ==
  ASSUME TypeOK, Gathered, Shown, Rising, Measured, Read PROVE Measured'
<1> SUFFICES ASSUME definition.kind = "counter", chronological', ~fatal'
             PROVE  Durations(intervals') = Cardinality(Seen(next))
  <2>1. /\ definition' = definition /\ next' - 1 = next
        /\ \A n : Seen(n)' = Seen(n)
    BY ReadKeeps
  <2>2. PICK m : m = next
    OBVIOUS
  <2>3. Seen(m)' = Seen(m)
    BY <2>1
  <2>4. Seen(next - 1)' = Seen(next)
    BY <2>1, <2>2, <2>3, Zenon DEF Seen
  <2> QED BY <2>1, <2>4 DEF Measured
<1>1. chronological /\ ~Disorder(next)
  BY Zenon DEF Read
<1>2. ~fatal
  BY ReadRefuses
<1>3. Durations(intervals) = Cardinality(Seen(next - 1))
  BY <1>1, <1>2, ReadKeeps DEF Measured
<1>4. PICK n \in Nat : /\ next = n /\ 1 <= n /\ n <= Len(samples)
                       /\ samples \in Seq(Sampled) /\ usable \cup gaps = 1..n - 1
  BY ReadKeeps
<1>5. CASE n = 1
  <2>1. Cardinality(Seen(next - 1)) = 0 /\ Cardinality(Seen(next)) = 0
    BY <1>4, <1>5, SeenNothing
  <2>2. ~Extends
    BY <1>4, <1>5 DEF Extends, Neighbours
  <2>3. intervals' = intervals
    BY <2>2, ReadExtends
  <2> QED BY <1>3, <2>1, <2>3
<1>6. CASE n > 1
  <2>1. PICK m \in Nat : /\ m = n - 1 /\ m + 1 = n /\ 0 < m /\ m < Len(samples)
                         /\ m \in 1..n - 1 /\ m \in 1..Len(samples) /\ m + 1 \in 1..Len(samples)
    BY <1>4, <1>6
  <2> DEFINE a == samples[m]  b == samples[m + 1]
  <2>2. \A p, q \in 1..m + 1 : p < q => samples[p].at < samples[q].at
    <3>1. Rising'
      BY ReadRises
    <3>2. samples' = samples /\ next' - 1 = m + 1
      BY <1>4, <2>1, ReadKeeps
    <3> QED BY <3>1, <3>2 DEF Rising
  <2>3. a.at \in Start..End /\ b.at \in Start..End
    <3>1. ~Disorder(m)
      BY <1>1, <1>4, <2>1 DEF Gathered
    <3>2. ~Disorder(m + 1)
      BY <1>1, <1>4, <2>1
    <3> QED BY <3>1, <3>2 DEF Disorder
  <2>4. PICK x \in Nat, y \in Nat : x = a.at /\ y = b.at
    <3>1. a \in Sampled /\ b \in Sampled
      BY <1>4, <2>1
    <3> QED BY <3>1, NumbersOfRows
  <2>5. /\ Cardinality(Seen(m)) \in Nat
        /\ Cardinality(Seen(m + 1)) = Cardinality(Seen(m)) + IF Joined(m) THEN b.at - a.at ELSE 0
    BY <1>4, <2>1, <2>2, <2>3, SeenFinite, SeenStep
  <2>6. next = m + 1 /\ next - 1 = m
    BY <1>4, <2>1
  <2>7. Usable(a) => m \in usable
    <3>1. m \in usable \/ m \in gaps
      BY <1>4, <2>1
    <3> QED BY <3>1 DEF Shown
  <2>8. CASE Joined(m)
    <3>1. Neighbours
      BY <1>4, <1>6, <2>6, <2>7, <2>8 DEF Neighbours, Joined
    <3>2. b.value < a.value => definition.reset = "wrap"
      BY <2>8 DEF Joined, Fell
    <3>3. Extends
      BY <2>6, <3>1, <3>2, ReadRefuses
    <3> DEFINE i == Interval(a, b)
    <3>4. intervals' = Append(intervals, i) /\ i.duration = y - x
      BY <2>4, <2>6, <3>3 DEF Extends, Interval
    <3>5. i \in Accepted
      <4>1. next <= Len(samples) /\ stage = "reading"
        BY <1>4, ReadKeeps
      <4>2. ~Disorder(next) /\ definition.kind = "counter" /\ Neighbours /\ Interval(samples[next - 1], samples[next]).rate # Null
        BY <3>3 DEF Extends
      <4>3. Interval(samples[next - 1], samples[next]) \in Accepted
        BY <4>1, <4>2, <3>2, <2>6, PairOrdered, IntervalTyped
      <4> QED BY <2>6, <4>3
    <3>6. intervals \in Seq(Accepted)
      BY DEF TypeOK
    <3> HIDE DEF i
    <3>7. Durations(intervals') = Durations(intervals) + (y - x)
      BY <3>4, <3>5, <3>6, IntervalAdds
    <3>8. Durations(intervals) = Cardinality(Seen(m))
      BY <1>3, <2>6
    <3>9. Cardinality(Seen(next)) = Cardinality(Seen(m)) + (y - x)
      BY <2>4, <2>5, <2>6, <2>8
    <3> QED BY <3>7, <3>8, <3>9
  <2>9. CASE ~Joined(m)
    <3>1. ~Extends
      <4> SUFFICES ASSUME Extends PROVE FALSE
        OBVIOUS
      <4>1. /\ next - 1 \in usable /\ Usable(samples[next])
            /\ samples[next].value < samples[next - 1].value => definition.reset = "wrap"
        BY ExtendsBetween DEF Extends
      <4>2. Usable(samples[next - 1])
        BY <4>1 DEF Gathered
      <4> QED BY <2>6, <2>9, <4>1, <4>2 DEF Joined, Fell
    <3>2. intervals' = intervals
      BY <3>1, ReadExtends
    <3> QED BY <1>3, <2>5, <2>6, <2>9, <3>2
  <2> QED BY <2>8, <2>9
<1> QED BY <1>4, <1>5, <1>6
-----------------------------------------------------------------------------
(* The step from the row before: what it does to a counter in order.       *)
LEMMA ReadJudgesPair ==
  ASSUME TypeOK, Gathered, Shown, Read, next > 1, definition.kind = "counter", chronological'
  PROVE  /\ fatal' <=> fatal \/ Ends(next - 1)
         /\ ~fatal' => (Extends <=> Joined(next - 1))
<1> DEFINE n == next - 1  a == samples[n]  b == samples[next]
<1>1. /\ next \in Nat /\ n + 1 = next /\ next <= Len(samples) /\ n \in 1..next - 1
      /\ usable \cup gaps = 1..next - 1
  BY ReadKeeps
<1>2. Usable(a) <=> n \in usable
  BY <1>1 DEF Gathered, Shown
<1>3. Neighbours <=> Usable(a) /\ Usable(b)
  BY <1>2 DEF Neighbours
<1>4. /\ Fell(n) <=> Usable(a) /\ Usable(b) /\ b.value < a.value
      /\ Joined(n) <=> /\ Usable(a) /\ Usable(b)
                       /\ b.value < a.value => definition.reset = "wrap"
  BY <1>1 DEF Fell, Joined
<1>5. Ends(n) <=> \/ Fell(n) /\ definition.reset = "series"
                  \/ Joined(n) /\ Interval(a, b).rate = Null
  BY <1>1 DEF Ends, Interval
<1>6. CASE Neighbours
  <2>1. Pair(a, b)
    BY <1>6, Zenon DEF Read
  <2> HIDE DEF a, b, n
  <2>2. /\ fatal => fatal'
        /\ b.value < a.value /\ definition.reset = "series" => fatal'
        /\ ~fatal' /\ (b.value < a.value => definition.reset = "wrap") => Interval(a, b).rate # Null
        /\ fatal' => \/ fatal
                     \/ b.value < a.value /\ definition.reset = "series"
                     \/ /\ b.value < a.value => definition.reset = "wrap"
                        /\ Interval(a, b).rate = Null
    BY <2>1, PairOutcome
  <2>3. fatal' <=> fatal \/ Ends(n)
    BY <1>3, <1>4, <1>5, <1>6, <2>2, Zenon
  <2>4. ~fatal' /\ Joined(n) => Extends
    BY <1>4, <1>6, ReadRefuses, Zenon DEF n, a, b
  <2>5. Extends => Joined(n)
    BY <1>3, <1>4, <1>6, Zenon DEF Extends, n, a, b
  <2> QED BY <2>3, <2>4, <2>5 DEF n
<1>7. CASE ~Neighbours
  <2>1. UNCHANGED <<resets, intervals, fatal>>
    BY <1>7, Zenon DEF Read
  <2>2. ~Joined(n) /\ ~Ends(n)
    BY <1>3, <1>4, <1>5, <1>7, Zenon
  <2>3. ~Extends
    BY <1>7 DEF Extends
  <2> QED BY <2>1, <2>2, <2>3
<1> QED BY <1>6, <1>7

LEMMA ReadJudges ==
  ASSUME TypeOK, Gathered, Shown, Judged, Read PROVE Judged'
<1>1. /\ next \in Nat /\ 1 <= next /\ next <= Len(samples) /\ next' = next + 1 /\ next' - 1 = next
      /\ next' - 2 = next - 1 /\ stage = "reading" /\ stage' = stage
      /\ definition' = definition /\ samples' = samples /\ definition \in Definitions
  BY ReadKeeps
<1>2. /\ \A m : Disorder(m)' = Disorder(m)
      /\ \A n : Ends(n)' = Ends(n)
      /\ Growth' = Growth
  <2>1. \A m : Disorder(m)' = Disorder(m)
    BY <1>1 DEF Disorder
  <2>2. \A n : Ends(n)' = Ends(n)
    BY <1>1 DEF Ends, Fell, Joined, Usable, Delta
  <2>3. Growth' = Growth
    BY <1>1 DEF Growth, Fell, Joined, Usable, Delta, Positions
  <2> QED BY <2>1, <2>2, <2>3
<1>3. ASSUME ~chronological' PROVE \E m \in 1..next : Disorder(m)
  <2>1. ~chronological \/ Disorder(next)
    BY <1>3, Zenon DEF Read
  <2>2. \A m \in 1..next - 1 : m \in 1..next
    BY <1>1
  <2>3. next \in 1..next
    BY <1>1
  <2> QED BY <2>1, <2>2, <2>3 DEF Judged
<1>4. fatal' => rejected'
  <2>1. CASE fatal
    <3>1. rejected
      BY <2>1 DEF Judged
    <3> QED BY <3>1, Zenon DEF Read
  <2>2. CASE ~fatal
    <3>1. fatal' => fatal' # fatal
      BY <2>2
    <3> QED BY <3>1, Zenon DEF Read
  <2> QED BY <2>1, <2>2
<1>5. ASSUME definition.kind # "counter", chronological', gaps' = {} PROVE ~missing' /\ ~rejected'
  <2>1. chronological /\ ~Disorder(next)
    BY <1>5, Zenon DEF Read
  <2>2. Usable(samples[next]) /\ gaps = {}
    BY <1>5, ReadKeeps
  <2>3. ~missing /\ ~rejected
    BY <1>5, <2>1, <2>2 DEF Judged
  <2>4. samples[next].value # Null /\ samples[next].why = Null
    <3>1. next \in Positions
      BY <1>1 DEF Positions
    <3>2. (samples[next].value = Null) = (samples[next].why # Null)
      BY <3>1 DEF TypeOK
    <3>3. samples[next].value # Null
      BY <2>2 DEF Usable
    <3> QED BY <3>2, <3>3
  <2>5. Null \notin {"missing", "rejected"}
    BY ArithmeticAssumption
  <2>6. UNCHANGED <<resets, intervals, fatal>>
    BY <1>5, Zenon DEF Read
  <2>7. ~missing'
    BY <2>3, <2>4, <2>5 DEF Read
  <2>8. rejected' <=> \/ rejected \/ Disorder(next)
                      \/ samples[next].why = "rejected"
                      \/ samples[next].value # Null /\ ~Usable(samples[next])
                      \/ fatal' # fatal
                      \/ resets' # resets /\ definition.reset # "wrap"
    BY Zenon DEF Read
  <2>9. ~rejected'
    BY <2>1, <2>2, <2>3, <2>4, <2>5, <2>6, <2>8
  <2> QED BY <2>7, <2>9
<1>6. ASSUME definition.kind = "counter", chronological'
      PROVE  /\ fatal' <=> \E n \in 1..next - 1 : Ends(n)
             /\ ~fatal' => \A sum : Running(Growth, sum) => Deltas(intervals') = sum[next]
  <2>1. chronological
    BY <1>6, Zenon DEF Read
  <2>2. /\ fatal <=> \E n \in 1..next - 2 : Ends(n)
        /\ ~fatal => \A sum : Running(Growth, sum) => Deltas(intervals) = sum[next - 1]
    BY <1>6, <2>1 DEF Judged
  <2>3. /\ next \in DOMAIN Growth
        /\ DOMAIN Growth = 1..Len(samples) /\ Len(Growth) = Len(samples)
        /\ Growth[next] = IF next > 1 /\ Joined(next - 1)
                          THEN Delta(samples[next - 1], samples[next]) ELSE 0
    <3>1. Positions = 1..Len(samples) /\ Len(samples) \in Nat
      BY DEF TypeOK, Positions
    <3> QED BY <1>1, <3>1 DEF Growth
  <2>4. ASSUME NEW sum, Running(Growth, sum)
        PROVE  /\ sum[next] = sum[next - 1] + Growth[next] /\ sum[next - 1] \in Int
               /\ sum[0] = 0
    BY <1>1, <2>3, <2>4 DEF Running
  <2>5. CASE next = 1
    <3>1. ~Neighbours /\ Growth[next] = 0 /\ next - 1 = 0
      BY <2>3, <2>5 DEF Neighbours
    <3>2. UNCHANGED <<resets, intervals, fatal>>
      BY <3>1, Zenon DEF Read
    <3>3. \A n \in 1..next - 1 : FALSE
      BY <2>5
    <3>4. \A n \in 1..next - 2 : FALSE
      BY <2>5
    <3>5. \A sum : Running(Growth, sum) => sum[next] = sum[next - 1]
      BY <2>4, <3>1
    <3> QED BY <2>2, <3>2, <3>3, <3>4, <3>5
  <2>6. CASE next > 1
    <3>1. /\ fatal' <=> fatal \/ Ends(next - 1)
          /\ ~fatal' => (Extends <=> Joined(next - 1))
      BY <1>6, <2>6, ReadJudgesPair
    <3>2. \A n : n \in 1..next - 1 <=> (n \in 1..next - 2 \/ n = next - 1)
      BY <1>1, <2>6
    <3>3. fatal' <=> \E n \in 1..next - 1 : Ends(n)
      BY <2>2, <3>1, <3>2
    <3>4. ASSUME ~fatal', NEW sum, Running(Growth, sum) PROVE Deltas(intervals') = sum[next]
      <4>1. Deltas(intervals) = sum[next - 1]
        BY <2>2, <3>1, <3>4
      <4>2. CASE ~Joined(next - 1)
        <5>1. intervals' = intervals
          BY <3>1, <3>4, <4>2, ReadExtends
        <5> QED BY <2>3, <2>4, <3>4, <4>1, <4>2, <5>1
      <4>3. CASE Joined(next - 1)
        <5> DEFINE a == samples[next - 1]  b == samples[next]  i == Interval(a, b)
        <5>1. Extends
          BY <3>1, <3>4, <4>3
        <5>2. /\ ~Disorder(next) /\ Neighbours /\ i.rate # Null
              /\ b.value < a.value => definition.reset = "wrap"
              /\ intervals' = Append(intervals, i)
          BY <5>1 DEF Extends
        <5>3. /\ a \in Sampled /\ b \in Sampled
              /\ a.value \in Nat /\ b.value \in Nat /\ a.at < b.at
              /\ definition.reset = "wrap" =>
                   definition.modulus = Modulus /\ a.value < Modulus /\ b.value < Modulus
          BY <1>1, <1>6, <5>2, PairOrdered
        <5>4. i \in Accepted
          BY <5>2, <5>3, IntervalTyped
        <5>5. i.delta = Delta(a, b)
          BY DEF Interval
        <5>6. intervals \in Seq(Accepted)
          BY DEF TypeOK
        <5> HIDE DEF i, a, b
        <5>7. Deltas(intervals') = Deltas(intervals) + Delta(a, b)
          BY <5>2, <5>4, <5>5, <5>6, IntervalAdds
        <5> QED BY <2>3, <2>4, <2>6, <3>4, <4>1, <4>3, <5>7 DEF a, b
      <4> QED BY <4>2, <4>3
    <3> QED BY <3>3, <3>4
  <2> QED BY <1>1, <2>5, <2>6
<1>7. \A sum : Running(Growth, sum)' = Running(Growth, sum)
  BY <1>2 DEF Running
<1> QED BY <1>1, <1>2, <1>3, <1>4, <1>5, <1>6, <1>7 DEF Judged
-----------------------------------------------------------------------------
(* Numbers in order.                                                       *)

(* Some number of a sequence is the largest. *)
LEMMA LargestThere ==
  ASSUME NEW v \in Seq(Nat), NEW l \in Nat, l = Len(v), l > 0
  PROVE  \E k \in 1..l : \A j \in 1..l : v[j] <= v[k]
<1> DEFINE Holds(n) == \E k \in 1..n : \A j \in 1..n : v[j] <= v[k]
           S == {n \in Nat : n + 1 <= l => Holds(n + 1)}
<1>1. \A k \in 1..l : v[k] \in Nat
  OBVIOUS
<1>2. 0 \in S
  <2>1. 0 + 1 <= l => Holds(0 + 1)
    <3>1. 1 \in 1..l /\ \A j \in 1..1 : j = 1
      OBVIOUS
    <3>2. v[1] <= v[1]
      BY <1>1, <3>1
    <3> QED BY <3>1, <3>2
  <2> QED BY <2>1
<1>3. ASSUME NEW n \in S PROVE n + 1 \in S
  <2> SUFFICES ASSUME (n + 1) + 1 <= l PROVE Holds((n + 1) + 1)
    OBVIOUS
  <2>1. PICK m \in Nat : m = n + 1 /\ m + 1 <= l /\ m <= l
    OBVIOUS
  <2>2. PICK k \in 1..m : \A j \in 1..m : v[j] <= v[k]
    BY <2>1
  <2>3. v[k] \in Nat /\ v[m + 1] \in Nat /\ \A j \in 1..m : v[j] \in Nat
    BY <1>1, <2>1
  <2>4. \A j \in 1..m + 1 : j \in 1..m \/ j = m + 1
    OBVIOUS
  <2>5. k \in 1..m + 1 /\ m + 1 \in 1..m + 1
    OBVIOUS
  <2>6. CASE v[m + 1] <= v[k]
    <3>1. \A j \in 1..m + 1 : v[j] <= v[k]
      BY <2>2, <2>4, <2>6
    <3> QED BY <2>1, <2>5, <3>1
  <2>7. CASE ~(v[m + 1] <= v[k])
    <3>1. v[k] <= v[m + 1] /\ v[m + 1] <= v[m + 1]
      BY <2>3, <2>7
    <3>2. \A j \in 1..m : v[j] <= v[m + 1]
      BY <2>2, <2>3, <3>1
    <3>3. \A j \in 1..m + 1 : v[j] <= v[m + 1]
      BY <2>4, <3>1, <3>2
    <3> QED BY <2>1, <2>5, <3>3
  <2> QED BY <2>6, <2>7
<1>4. S = Nat
  <2>1. S \in SUBSET Nat
    OBVIOUS
  <2> HIDE DEF S
  <2> QED BY <1>2, <1>3, <2>1, SetInduction
<1>5. l - 1 \in Nat /\ (l - 1) + 1 = l
  OBVIOUS
<1> HIDE DEF Holds
<1>6. Holds(l)
  <2>1. l - 1 \in S
    <3> HIDE DEF S
    <3> QED BY <1>4, <1>5
  <2> QED BY <1>5, <2>1
<1> QED BY <1>6 DEF Holds

(* The i-th in order is the least number that i of them do not exceed.     *)
LEMMA AscendingLeast ==
  ASSUME NEW v \in Seq(Nat), NEW i \in DOMAIN v
  PROVE  /\ Ascending(v)[i] \in Reached(v, i) /\ Ascending(v)[i] \in Nat
         /\ \A y \in Reached(v, i) : Ascending(v)[i] <= y
<1>1. PICK l \in Nat : l = Len(v) /\ DOMAIN v = 1..l /\ l > 0 /\ i <= l
  OBVIOUS
<1>2. Reached(v, i) \in SUBSET Nat
  BY DEF Reached, Range
<1>3. Reached(v, i) # {}
  <2>1. PICK k \in 1..l : \A j \in 1..l : v[j] <= v[k]
    BY <1>1, LargestThere
  <2>2. {j \in DOMAIN v : v[j] <= v[k]} = 1..l
    BY <1>1, <2>1
  <2>3. Cardinality(1..l) = l
    BY FS_Interval
  <2>4. v[k] \in Range(v)
    BY <1>1 DEF Range
  <2>5. Cardinality({j \in DOMAIN v : v[j] <= v[k]}) >= i
    BY <1>1, <2>2, <2>3
  <2> QED BY <2>4, <2>5 DEF Reached
<1>4. \E x \in Reached(v, i) : \A y \in Reached(v, i) : x <= y
  BY <1>2, <1>3, LeastNumber
<1>5. Ascending(v)[i] = CHOOSE x \in Reached(v, i) : \A y \in Reached(v, i) : x <= y
  BY DEF Ascending
<1> QED BY <1>2, <1>4, <1>5

LEMMA AscendingRises ==
  ASSUME NEW v \in Seq(Nat), NEW i \in DOMAIN v, NEW j \in DOMAIN v, i <= j
  PROVE  Ascending(v)[i] <= Ascending(v)[j]
<1>1. PICK x : x = Ascending(v)[j]
  OBVIOUS
<1>2. x \in Range(v) /\ Cardinality({k \in DOMAIN v : v[k] <= x}) >= j
  BY <1>1, AscendingLeast DEF Reached
<1>3. IsFiniteSet(DOMAIN v)
  <2>1. PICK l \in Nat : DOMAIN v = 1..l
    OBVIOUS
  <2>2. IsFiniteSet(1..l)
    BY FS_Interval
  <2> QED BY <2>1, <2>2
<1>4. Cardinality({k \in DOMAIN v : v[k] <= x}) \in Nat
  <2>1. {k \in DOMAIN v : v[k] <= x} \in SUBSET DOMAIN v
    OBVIOUS
  <2> QED BY <1>3, <2>1, FS_Subset, FS_CardinalityType
<1>5. i \in Nat /\ j \in Nat
  OBVIOUS
<1>6. Cardinality({k \in DOMAIN v : v[k] <= x}) >= i
  BY <1>2, <1>4, <1>5
<1>7. x \in Reached(v, i)
  BY <1>2, <1>6 DEF Reached
<1> QED BY <1>1, <1>7, AscendingLeast

LEMMA AscendingTyped ==
  ASSUME NEW v \in Seq(Nat)
  PROVE  Ascending(v) \in Seq(Nat) /\ Len(Ascending(v)) = Len(v)
<1>1. PICK l \in Nat : l = Len(v) /\ DOMAIN v = 1..l
  OBVIOUS
<1>2. \A i \in 1..l : Ascending(v)[i] \in Nat
  BY <1>1, AscendingLeast
<1>3. /\ DOMAIN Ascending(v) = 1..l
      /\ Ascending(v) = [i \in 1..l |-> Ascending(v)[i]]
  BY <1>1 DEF Ascending
<1>4. Ascending(v) \in [1..l -> Nat]
  BY <1>2, <1>3
<1> QED BY <1>1, <1>4

(* Least, middle and largest are in that order. *)
LEMMA StatisticsOrdered ==
  ASSUME NEW g \in Seq(Nat), g # <<>>, \A i, j \in DOMAIN g : i <= j => g[i] <= g[j]
  PROVE  IsOrdered(<<Statistic("minimum", g), Statistic("median", g), Statistic("maximum", g)>>)
<1>1. PICK n \in Nat : n = Len(g) /\ DOMAIN g = 1..n /\ n > 0
  OBVIOUS
<1>2. Statistic("minimum", g) = <<g[1], 1>>
  BY DEF Statistic
<1>3. Statistic("maximum", g) = <<g[n], 1>>
  BY <1>1 DEF Statistic
<1>4. Statistic("median", g) = Median(g)
  BY DEF Statistic
<1>5. PICK m \in Nat : m = n \div 2 /\ 2 * m <= n /\ (n % 2 = 1 => m + 1 <= n) /\ (n % 2 # 1 => m > 0)
  <2>1. n \div 2 \in Nat /\ n = 2 * (n \div 2) + (n % 2) /\ (n % 2 = 0 \/ n % 2 = 1)
    BY <1>1
  <2> QED BY <1>1, <2>1
<1>6. 1 \in 1..n /\ n \in 1..n
  BY <1>1
<1>7. PICK x \in Nat, z \in Nat : x = g[1] /\ z = g[n]
  BY <1>1, <1>6
<1>8. CASE n % 2 = 1
  <2>1. m + 1 \in 1..n /\ 1 <= m + 1 /\ m + 1 <= n
    BY <1>5, <1>8
  <2>2. PICK y \in Nat : y = g[m + 1]
    BY <1>1, <2>1
  <2>3. x <= y /\ y <= z
    BY <1>1, <1>6, <1>7, <2>1, <2>2
  <2>4. Median(g) = <<y, 1>>
    BY <1>1, <1>5, <1>8, <2>2 DEF Median
  <2> QED BY <1>2, <1>3, <1>4, <1>7, <2>3, <2>4 DEF IsOrdered
<1>9. CASE n % 2 # 1
  <2>1. m \in 1..n /\ m + 1 \in 1..n /\ 1 <= m /\ 1 <= m + 1 /\ m <= n /\ m + 1 <= n
    BY <1>5, <1>9
  <2>2. PICK y \in Nat, w \in Nat : y = g[m] /\ w = g[m + 1]
    BY <1>1, <2>1
  <2>3. x <= y /\ y <= z /\ x <= w /\ w <= z
    BY <1>1, <1>6, <1>7, <2>1, <2>2
  <2>4. Median(g) = <<y + w, 2>>
    BY <1>1, <1>5, <1>9, <2>2 DEF Median
  <2> QED BY <1>2, <1>3, <1>4, <1>7, <2>3, <2>4 DEF IsOrdered
<1> QED BY <1>8, <1>9

LEMMA CadenceOrdered ==
  ASSUME TypeOK, Rising, next > Len(samples), Cadence # Null
  PROVE  Len(samples) >= 2 /\ IsOrdered(Cadence)
<1>1. PICK l \in Nat : l = Len(samples) /\ samples \in Seq(Sampled) /\ next \in Nat /\ next - 1 = l
  BY DEF TypeOK
<1> DEFINE v == [n \in 1..Len(samples) - 1 |-> samples[n + 1].at - samples[n].at]
           g == Ascending(v)
<1>2. g # <<>> /\ chronological
        /\ Cadence = <<Statistic("minimum", g), Statistic("median", g), Statistic("maximum", g)>>
  BY Zenon DEF Cadence
<1>3. \A n \in 1..l - 1 : samples[n + 1].at - samples[n].at \in Nat
  <2> SUFFICES ASSUME NEW n \in 1..l - 1 PROVE samples[n + 1].at - samples[n].at \in Nat
    OBVIOUS
  <2>1. n \in 1..next - 1 /\ n + 1 \in 1..next - 1 /\ n < n + 1
    BY <1>1
  <2>2. samples[n].at < samples[n + 1].at
    BY <1>2, <2>1 DEF Rising
  <2>3. samples[n] \in Sampled /\ samples[n + 1] \in Sampled
    BY <1>1
  <2>4. samples[n].at \in Nat /\ samples[n + 1].at \in Nat
    BY <2>3, NumbersOfRows
  <2> QED BY <2>2, <2>4
<1>4. v = [n \in 1..l - 1 |-> v[n]] /\ \A n \in 1..l - 1 : v[n] \in Nat
  BY <1>1, <1>3
<1>5. DOMAIN v = 1..l - 1
  BY <1>1
<1> HIDE DEF v
<1>6. l # 0 => l - 1 \in Nat
  OBVIOUS
<1>7. v \in Seq(Nat) /\ Len(v) = IF l = 0 THEN 0 ELSE l - 1
  <2>1. CASE l = 0
    <3>1. v = <<>>
      BY <1>4, <1>5, <2>1
    <3> QED BY <2>1, <3>1
  <2>2. CASE l # 0
    <3>1. v \in [1..l - 1 -> Nat]
      BY <1>4
    <3> QED BY <1>6, <2>2, <3>1
  <2> QED BY <2>1, <2>2
<1>8. g \in Seq(Nat) /\ Len(g) = Len(v) /\ \A i, j \in DOMAIN v : i <= j => g[i] <= g[j]
  BY <1>7, AscendingTyped, AscendingRises
<1>9. DOMAIN g = DOMAIN v
  BY <1>7, <1>8
<1> HIDE DEF g
<1>10. Len(g) # 0
  BY <1>2, <1>8
<1>11. IsOrdered(<<Statistic("minimum", g), Statistic("median", g), Statistic("maximum", g)>>)
  BY <1>2, <1>8, <1>9, StatisticsOrdered
<1> QED BY <1>1, <1>2, <1>7, <1>8, <1>10, <1>11
-----------------------------------------------------------------------------
(* The rows a summary names.                                               *)
RowsOf(positions) ==
  LET kept == Kept(samples, positions) IN [n \in DOMAIN kept |-> kept[n].row]

Distinct(positions) == \A p, q \in positions : samples[p].row = samples[q].row => p = q

LEMMA RepeatedIs ==
  ASSUME samples \in Seq(Sampled), NEW P \in SUBSET Positions
  PROVE  /\ IsFiniteSet(P) /\ Cardinality(P) \in Nat /\ Cardinality(P) <= Len(samples)
         /\ IsFiniteSet(RowsAt(P)) /\ Cardinality(RowsAt(P)) \in Nat
         /\ Cardinality(RowsAt(P)) <= Cardinality(P)
         /\ Repeated(P) <=> ~Distinct(P)
<1>1. PICK l \in Nat : l = Len(samples) /\ Positions = 1..l
  BY DEF Positions
<1>2. IsFiniteSet(P) /\ Cardinality(P) \in Nat /\ Cardinality(P) <= l
  <2>1. 1 \in Int /\ l \in Int /\ l = IF 1 > l THEN 0 ELSE l - 1 + 1
    OBVIOUS
  <2>2. IsFiniteSet(1..l) /\ Cardinality(1..l) = l
    BY <2>1, FS_Interval
  <2> QED BY <1>1, <2>2, FS_Subset, FS_CardinalityType
<1> DEFINE G == [p \in P |-> samples[p].row]
<1>3. G \in Surjection(P, RowsAt(P))
  BY DEF Surjection, RowsAt
<1>4. G \in Injection(P, RowsAt(P)) <=> Distinct(P)
  <2>1. G \in [P -> RowsAt(P)] /\ DOMAIN G = P /\ \A p \in P : G[p] = samples[p].row
    BY DEF RowsAt
  <2> HIDE DEF G
  <2> QED BY <2>1 DEF Injection, IsInjective, Distinct
<1> HIDE DEF G
<1>5. /\ IsFiniteSet(RowsAt(P)) /\ Cardinality(RowsAt(P)) <= Cardinality(P)
      /\ Cardinality(RowsAt(P)) = Cardinality(P) <=> Distinct(P)
  BY <1>2, <1>3, <1>4, FS_Surjection
<1>6. Cardinality(RowsAt(P)) \in Nat
  BY <1>5, FS_CardinalityType
<1> QED BY <1>1, <1>2, <1>5, <1>6 DEF Repeated

LEMMA RowsNamed ==
  ASSUME samples \in Seq(Sampled), NEW P \in SUBSET Positions
  PROVE  /\ RowsOf(P) \in Seq(Nat) /\ Len(RowsOf(P)) = Cardinality(P)
         /\ DOMAIN RowsOf(P) = 1..Cardinality(P) /\ Cardinality(P) \in Nat
         /\ Range(RowsOf(P)) = RowsAt(P)
         /\ Distinct(P) => IsInjective(RowsOf(P))
         /\ \A p \in P : /\ Before(P, p) + 1 \in 1..Cardinality(P)
                         /\ RowsOf(P)[Before(P, p) + 1] = samples[p].row
<1>1. P \in SUBSET DOMAIN samples
  BY DEF Positions
<1>2. PICK n \in Nat : n = Cardinality(P)
  BY RepeatedIs
<1> DEFINE kept == Kept(samples, P)
<1>3. /\ kept \in Seq(Sampled) /\ Len(kept) = n
      /\ \A i \in 1..n : Place(P, i) \in P /\ kept[i] = samples[Place(P, i)]
      /\ \A i, j \in 1..n : i < j => Place(P, i) < Place(P, j)
      /\ \A p \in P : \E i \in 1..n : Place(P, i) = p
  BY <1>1, <1>2, KeptInOrder
<1>4. DOMAIN kept = 1..n
  BY <1>3
<1>5. RowsOf(P) = [i \in 1..n |-> kept[i].row]
  BY <1>4 DEF RowsOf
<1> HIDE DEF kept
<1>6. \A i \in 1..n : RowsOf(P)[i] = samples[Place(P, i)].row /\ RowsOf(P)[i] \in Nat
  <2> SUFFICES ASSUME NEW i \in 1..n PROVE RowsOf(P)[i] = samples[Place(P, i)].row /\ RowsOf(P)[i] \in Nat
    OBVIOUS
  <2>1. kept[i] \in Sampled
    BY <1>3, <1>4
  <2>2. kept[i].row \in Nat
    BY <2>1 DEF Sampled
  <2> QED BY <1>3, <1>5, <2>2
<1>7. RowsOf(P) \in [1..n -> Nat] /\ DOMAIN RowsOf(P) = 1..n
  BY <1>5, <1>6
<1>8. RowsOf(P) \in Seq(Nat) /\ Len(RowsOf(P)) = n
  BY <1>7
<1>9. Range(RowsOf(P)) = RowsAt(P)
  <2>1. \A x : x \in Range(RowsOf(P)) <=> \E i \in 1..n : x = RowsOf(P)[i]
    BY <1>7, Zenon DEF Range
  <2>2. ASSUME NEW i \in 1..n PROVE \E p \in P : RowsOf(P)[i] = samples[p].row
    BY <1>3, <1>6
  <2>3. ASSUME NEW p \in P PROVE \E i \in 1..n : samples[p].row = RowsOf(P)[i]
    <3>1. PICK i \in 1..n : Place(P, i) = p
      BY <1>3
    <3> QED BY <1>6, <3>1
  <2>4. \A x : x \in RowsAt(P) <=> \E p \in P : x = samples[p].row
    BY Zenon DEF RowsAt
  <2>5. \A x : x \in Range(RowsOf(P)) <=> x \in RowsAt(P)
    BY <2>1, <2>2, <2>3, <2>4, Zenon
  <2> QED BY <2>5, Zenon
<1>10. ASSUME Distinct(P) PROVE IsInjective(RowsOf(P))
  <2> SUFFICES ASSUME NEW i \in 1..n, NEW j \in 1..n, RowsOf(P)[i] = RowsOf(P)[j] PROVE i = j
    BY <1>7 DEF IsInjective
  <2>1. Place(P, i) = Place(P, j) /\ Place(P, i) \in P /\ Place(P, j) \in P
    BY <1>3, <1>6, <1>10 DEF Distinct
  <2>2. PICK x \in Int : x = Place(P, i) /\ x = Place(P, j)
    BY <1>1, <2>1
  <2>3. (i < j => Place(P, i) < Place(P, j)) /\ (j < i => Place(P, j) < Place(P, i))
    BY <1>3
  <2>4. ~(i < j) /\ ~(j < i)
    BY <2>2, <2>3
  <2> QED BY <2>4
<1>11. ASSUME NEW p \in P
       PROVE  Before(P, p) + 1 \in 1..n /\ RowsOf(P)[Before(P, p) + 1] = samples[p].row
  <2>1. PICK i \in 1..n : Place(P, i) = p
    BY <1>3
  <2>2. \E q \in P : Before(P, q) = i - 1
    <3>1. PICK l \in Nat : l = Len(samples) /\ P \in SUBSET (1..l)
      BY <1>1
    <3> QED BY <1>2, <3>1, RanksTaken
  <2>3. Before(P, p) = i - 1
    BY <2>1, <2>2 DEF Place
  <2>4. Before(P, p) + 1 = i
    BY <2>3
  <2> QED BY <1>6, <2>1, <2>4
<1> QED BY <1>2, <1>7, <1>8, <1>9, <1>10, <1>11
(* Rows in order name themselves once. *)
LEMMA InOrderDistinct ==
  ASSUME TypeOK, Gathered, chronological, next > Len(samples)
  PROVE  Distinct(Positions)
<1>1. PICK l \in Nat : l = Len(samples) /\ Positions = 1..l /\ next - 1 = l
  BY DEF TypeOK, Positions
<1>2. ASSUME NEW p \in 1..l, NEW q \in 1..l, p < q PROVE samples[p].row # samples[q].row
  <2>1. ~Disorder(q)
    BY <1>1 DEF Gathered
  <2>2. p \in 1..q - 1
    BY <1>2
  <2> QED BY <2>1, <2>2 DEF Disorder
<1> SUFFICES ASSUME NEW p \in 1..l, NEW q \in 1..l, samples[p].row = samples[q].row PROVE p = q
  BY <1>1 DEF Distinct
<1>3. ~(p < q) /\ ~(q < p)
  BY <1>2
<1> QED BY <1>3

-----------------------------------------------------------------------------
(* What a summary may claim.                                               *)

LEMMA CoveredIsSeen == Observed = Seen(Len(samples))
BY DEF Observed, Covered, Seen, Spans

(* All rows are read: what is refused is what the aggregator refuses.      *)
LEMMA RefusedShows ==
  ASSUME TypeOK, Gathered, Shown, Judged, stage = "reading", next > Len(samples)
  PROVE  /\ Refused <=> \/ ~chronological
                        \/ definition.missing = "strict" /\ gaps # {}
                        \/ definition.reset = "series" /\ \E n \in 1..Len(samples) - 1 : Fell(n)
         /\ gaps # {} => missing \/ rejected
         /\ (\E p \in Positions : Usable(samples[p])) <=> usable # {}
<1>1. PICK l \in Nat : l = Len(samples) /\ Positions = 1..l /\ next - 1 = l /\ usable \cup gaps = 1..l
  BY DEF TypeOK, Positions
<1>2. (\E n \in Positions : Disorder(n)) <=> ~chronological
  BY <1>1 DEF Gathered, Judged
<1>3. /\ \A p \in Positions : Usable(samples[p]) <=> p \in usable
      /\ \A p \in Positions : ~Usable(samples[p]) <=> p \in gaps
  BY <1>1 DEF Gathered, Shown
<1>4. usable \subseteq Positions /\ gaps \subseteq Positions
  BY <1>1
<1>5. gaps # {} <=> \E n \in Positions : ~Usable(samples[n])
  BY <1>3, <1>4
<1>6. gaps # {} => missing \/ rejected
  BY DEF Shown
<1>7. (\E p \in Positions : Usable(samples[p])) <=> usable # {}
  BY <1>3, <1>4
<1> QED BY <1>2, <1>5, <1>6, <1>7, Zenon DEF Refused

(* Growth is a sequence of numbers. *)
LEMMA GrowthTyped ==
  ASSUME TypeOK, definition \in Definitions
  PROVE  Growth \in Seq(Int) /\ Len(Growth) = Len(samples)
<1>1. PICK l \in Nat : l = Len(samples) /\ Positions = 1..l /\ samples \in Seq(Sampled)
  BY DEF TypeOK, Positions
<1>2. ASSUME NEW p \in 1..l PROVE Growth[p] \in Int
  <2>1. CASE ~(p > 1 /\ Joined(p - 1))
    BY <1>1, <2>1 DEF Growth
  <2>2. CASE p > 1 /\ Joined(p - 1)
    <3> DEFINE a == samples[p - 1]  b == samples[p]
    <3>1. p - 1 \in 1..l /\ (p - 1) + 1 = p
      BY <2>2
    <3>2. a \in Sampled /\ b \in Sampled /\ a.value # Null /\ b.value # Null
      BY <1>1, <2>2, <3>1 DEF Joined, Usable
    <3>3. Growth[p] = Delta(a, b)
      BY <1>1, <2>2 DEF Growth
    <3> HIDE DEF a, b
    <3>4. a.value \in Int /\ b.value \in Int
      BY <3>2 DEF Sampled
    <3>5. definition.reset = "wrap" => definition.modulus \in Int
      BY DeclaredModulus, WindowAssumption
    <3>6. Delta(a, b) \in Int
      BY <3>4, <3>5 DEF Delta
    <3> QED BY <3>3, <3>6
  <2> QED BY <2>1, <2>2
<1>3. DOMAIN Growth = 1..l /\ Growth = [p \in 1..l |-> Growth[p]]
  BY <1>1 DEF Growth
<1>4. Growth \in [1..l -> Int]
  BY <1>2, <1>3
<1> QED BY <1>1, <1>3, <1>4

(* Counts, status and cadence of a summary agree, whatever it is made of,  *)
(* if what it publishes has rows and what it names it names once.          *)
LEMMA SummaryAgrees ==
  ASSUME TypeOK, Rising, next > Len(samples),
         NEW rows \in Seq(Nat), IsInjective(rows), Len(rows) <= Len(samples),
         NEW accepted \in Nat, accepted = 0 \/ accepted < Len(rows),
         NEW observed \in Nat, observed <= End - Start, (accepted = 0) = (observed = 0),
         NEW aggregates, DOMAIN aggregates \subseteq definition.available,
         DOMAIN aggregates # {} => Len(rows) > 0 /\ definition.primary \in DOMAIN aggregates,
         NEW reject, DOMAIN aggregates = {} /\ ~reject => definition.kind = "counter" \/ rows = <<>>,
         NEW counted
  PROVE  LET s == Summary(rows, accepted, observed, aggregates, reject, counted) IN
         CountsAgree(s) /\ StatusJustified(s, definition)
<1> DEFINE miss == missing \/ samples = <<>>
<1>1. PICK s : s = Summary(rows, accepted, observed, aggregates, reject, counted)
  OBVIOUS
<1>2. /\ s.start = Start /\ s.end = End /\ s.samples = Len(samples)
      /\ s.usable = Len(rows) /\ s.rows = rows /\ s.accepted = accepted /\ s.observed = observed
      /\ s.cadence = Cadence /\ s.aggregates = aggregates /\ s.missing = miss /\ s.rejected = reject
      /\ s.status = Status(aggregates, observed, miss, reject, rows)
  BY <1>1 DEF Summary
<1> HIDE DEF miss
<1>3. CountsAgree(s)
  BY <1>2, CadenceOrdered DEF CountsAgree
<1>4. Len(rows) \in Nat /\ (rows # <<>> => Len(rows) > 0) /\ (rows = <<>> => Len(rows) = 0)
  OBVIOUS
<1>5. /\ s.status \in {"missing", "rejected"} => DOMAIN aggregates = {}
      /\ s.status = "rejected" => reject
      /\ s.status = "missing" => DOMAIN aggregates = {} /\ ~reject /\ ~(definition.kind = "counter" /\ rows # <<>>)
      /\ s.status = "incomplete" =>
           DOMAIN aggregates # {} \/ (DOMAIN aggregates = {} /\ definition.kind = "counter" /\ rows # <<>>)
      /\ s.status = "complete" => DOMAIN aggregates # {} /\ observed = End - Start /\ ~miss /\ ~reject
  BY <1>2 DEF Status
<1>6. StatusJustified(s, definition)
  BY <1>2, <1>4, <1>5 DEF StatusJustified
<1> QED BY <1>1, <1>3, <1>6
(* The facts about complete rows in order. *)
LEMMA RowsInOrder ==
  ASSUME TypeOK, Gathered, Rising, Shown, chronological, next > Len(samples)
  PROVE  /\ \A n \in 1..Len(samples) : samples[n].at \in Start..End /\ samples[n].at \in Nat
         /\ \A p, q \in 1..Len(samples) : p < q => samples[p].at < samples[q].at
         /\ \A n \in 1..Len(samples) : Usable(samples[n]) <=> n \in usable
<1>1. PICK l \in Nat : l = Len(samples) /\ next - 1 = l /\ samples \in Seq(Sampled) /\ usable \cup gaps = 1..l
  BY DEF TypeOK
<1>2. \A n \in 1..l : samples[n].at \in Start..End
  <2>1. \A n \in 1..l : ~Disorder(n)
    BY <1>1 DEF Gathered
  <2> QED BY <2>1 DEF Disorder
<1>3. \A n \in 1..l : samples[n].at \in Nat
  <2>1. \A n \in 1..l : samples[n] \in Sampled
    BY <1>1
  <2> QED BY <2>1, NumbersOfRows
<1>4. \A p, q \in 1..l : p < q => samples[p].at < samples[q].at
  BY <1>1 DEF Rising
<1>5. \A n \in 1..l : Usable(samples[n]) <=> n \in usable
  BY <1>1 DEF Gathered, Shown
<1> QED BY <1>1, <1>2, <1>3, <1>4, <1>5

(* Time is observed where two rows are joined. *)
LEMMA JoinedSeen ==
  ASSUME TypeOK, Gathered, Rising, Shown, chronological, next > Len(samples),
         NEW n \in 1..Len(samples) - 1, Joined(n)
  PROVE  Seen(Len(samples)) # {}
<1>1. n \in 1..Len(samples) /\ n + 1 \in 1..Len(samples) /\ n < n + 1
  BY DEF TypeOK
<1>2. PICK x \in Nat, y \in Nat :
        /\ x = samples[n].at /\ y = samples[n + 1].at
        /\ x \in Start..End /\ y \in Start..End /\ x < y
  BY <1>1, RowsInOrder
<1>3. x \in Start..End - 1
  BY <1>2, WindowNumbers
<1>4. Spans(n, x)
  BY <1>2 DEF Spans
<1> QED BY <1>3, <1>4 DEF Seen

(* The first n terms of Spanned add up to what the first n rows observed.  *)
LEMMA GaugeSeen ==
  ASSUME TypeOK, Gathered, Rising, Shown, chronological, next > Len(samples),
         definition.kind = "gauge"
  PROVE  SumOf(Spanned) = Cardinality(Seen(Len(samples)))
<1>1. PICK l \in Nat : l = Len(samples) /\ samples \in Seq(Sampled) /\ DOMAIN samples = 1..l
  BY DEF TypeOK
<1>2. \A p \in 1..l : Spanned[p] = IF {p - 1, p} \subseteq usable
                                   THEN samples[p].at - samples[p - 1].at ELSE 0
  BY <1>1 DEF Spanned, Positions
<1>3. usable \subseteq Nat \ {0}
  BY DEF TypeOK
<1>4. ASSUME NEW n \in 1..l - 1
      PROVE  /\ Spanned[n + 1] \in Int
             /\ Spanned[n + 1] = IF Joined(n) THEN samples[n + 1].at - samples[n].at ELSE 0
  <2>1. n \in 1..l /\ n + 1 \in 1..l /\ (n + 1) - 1 = n
    OBVIOUS
  <2>2. Joined(n) <=> {n, n + 1} \subseteq usable
    <3>1. (Usable(samples[n]) <=> n \in usable) /\ (Usable(samples[n + 1]) <=> n + 1 \in usable)
      BY <1>1, <2>1, RowsInOrder
    <3>2. definition.kind # "counter"
      OBVIOUS
    <3> QED BY <3>1, <3>2 DEF Joined
  <2>3. Spanned[n + 1] = IF Joined(n) THEN samples[n + 1].at - samples[n].at ELSE 0
    BY <1>2, <2>1, <2>2
  <2>4. PICK x \in Nat, y \in Nat : x = samples[n].at /\ y = samples[n + 1].at
    BY <1>1, <2>1, RowsInOrder
  <2> QED BY <2>3, <2>4
<1>5. l > 0 => Spanned[1] = 0
  BY <1>2, <1>3
<1>6. Spanned \in Seq(Int) /\ Len(Spanned) = l
  <2>1. DOMAIN Spanned = 1..l /\ Spanned = [p \in 1..l |-> Spanned[p]]
    BY <1>1 DEF Spanned, Positions
  <2>2. ASSUME NEW p \in 1..l PROVE Spanned[p] \in Int
    <3>1. CASE p = 1
      BY <1>5, <3>1
    <3>2. CASE p # 1
      <4>1. p - 1 \in 1..l - 1 /\ (p - 1) + 1 = p
        BY <3>2
      <4> QED BY <1>4, <4>1
    <3> QED BY <3>1, <3>2
  <2>3. Spanned \in [1..l -> Int]
    BY <2>1, <2>2
  <2> QED BY <2>1, <2>3
<1>7. PICK sum : Running(Spanned, sum) /\ SumOf(Spanned) = sum[l]
  BY <1>6, SumsExist
<1>8. sum[0] = 0 /\ \A n \in 1..l : sum[n] = sum[n - 1] + Spanned[n]
  BY <1>6, <1>7 DEF Running
<1> DEFINE S == {n \in Nat : n <= l => sum[n] = Cardinality(Seen(n))}
<1>9. 0 \in S
  BY <1>8, SeenNothing
<1>10. ASSUME NEW n \in S PROVE n + 1 \in S
  <2>1. n \in Nat /\ (n <= l => sum[n] = Cardinality(Seen(n)))
    OBVIOUS
  <2> HIDE DEF S
  <2>2. SUFFICES ASSUME n + 1 <= l PROVE sum[n + 1] = Cardinality(Seen(n + 1))
    BY <2>1 DEF S
  <2>3. n + 1 \in 1..l /\ (n + 1) - 1 = n
    BY <2>1, <2>2
  <2>4. sum[n + 1] = sum[n] + Spanned[n + 1] /\ sum[n] = Cardinality(Seen(n))
    BY <1>8, <2>1, <2>2, <2>3
  <2>5. CASE n = 0
    BY <1>5, <1>8, <2>2, <2>4, <2>5, SeenNothing
  <2>6. CASE n # 0
    <3>1. n \in 1..l - 1 /\ 0 < n /\ n < Len(samples) /\ n \in 1..l
      BY <1>1, <2>1, <2>2, <2>6
    <3>2. /\ \A p, q \in 1..n + 1 : p < q => samples[p].at < samples[q].at
          /\ samples[n].at \in Start..End /\ samples[n + 1].at \in Start..End
      <4>1. \A p \in 1..n + 1 : p \in 1..l
        BY <2>1, <2>2
      <4> QED BY <1>1, <2>3, <3>1, <4>1, RowsInOrder
    <3>3. Cardinality(Seen(n + 1)) =
            Cardinality(Seen(n)) + IF Joined(n) THEN samples[n + 1].at - samples[n].at ELSE 0
      BY <1>1, <2>1, <3>1, <3>2, SeenFinite, SeenStep
    <3> QED BY <1>4, <2>4, <3>1, <3>3
  <2> QED BY <2>5, <2>6
<1>11. S = Nat
  <2>1. S \in SUBSET Nat
    OBVIOUS
  <2> HIDE DEF S
  <2> QED BY <1>9, <1>10, <2>1, SetInduction
<1>12. l \in S
  <2> HIDE DEF S
  <2> QED BY <1>11
<1> QED BY <1>1, <1>7, <1>12
(* What SummaryHonest says of a summary that there is. *)
Claims(s) ==
  /\ DOMAIN s.aggregates # {} <=> Measurable /\ ~Refused /\ ~Unheld
  /\ Unheld => s.status = "rejected"
  /\ s.observed = IF DOMAIN s.aggregates = {} THEN 0 ELSE Cardinality(Observed)
  /\ ValidSummary(s, definition)

(* Fewer rows have a usable successor than are usable: the first follows   *)
(* none.                                                                   *)
LEMMA FewerPaired ==
  ASSUME TypeOK
  PROVE  LET paired == {p \in usable : p + 1 \in usable} IN
         /\ IsFiniteSet(paired) /\ Cardinality(paired) \in Nat
         /\ paired = {} \/ Cardinality(paired) < Cardinality(usable)
<1> DEFINE paired == {p \in usable : p + 1 \in usable}
<1>1. usable \in SUBSET Nat /\ IsFiniteSet(usable) /\ Cardinality(usable) \in Nat
  <2>1. PICK k \in Nat : usable \in SUBSET (1..k)
    <3>1. next - 1 \in Nat /\ usable \cup gaps = 1..next - 1
      BY DEF TypeOK
    <3> QED BY <3>1
  <2>2. IsFiniteSet(1..k)
    BY FS_Interval
  <2>3. usable \in SUBSET Nat
    BY <2>1
  <2> QED BY <2>1, <2>2, <2>3, FS_Subset, FS_CardinalityType
<1>2. IsFiniteSet(paired) /\ Cardinality(paired) \in Nat
  <2>1. paired \in SUBSET usable
    OBVIOUS
  <2> HIDE DEF paired
  <2> QED BY <1>1, <2>1, FS_Subset, FS_CardinalityType
<1>3. ASSUME paired # {} PROVE Cardinality(paired) < Cardinality(usable)
  <2>1. PICK m \in usable : \A k \in usable : m <= k
    <3>1. usable # {}
      BY <1>3
    <3> QED BY <1>1, <3>1, LeastNumber
  <2>2. IsFiniteSet(usable \ {m}) /\ Cardinality(usable \ {m}) = Cardinality(usable) - 1
    BY <1>1, FS_RemoveElement
  <2> DEFINE f == [p \in paired |-> p + 1]
  <2>3. \A p \in paired : p + 1 \in usable \ {m} /\ p \in Nat
    BY <1>1, <2>1
  <2>4. f \in [paired -> usable \ {m}]
    BY <2>3
  <2>5. \A p, q \in paired : f[p] = f[q] => p = q
    BY <2>3
  <2>6. f \in Injection(paired, usable \ {m})
    <3>1. DOMAIN f = paired
      OBVIOUS
    <3> HIDE DEF f, paired
    <3> QED BY <2>4, <2>5, <3>1 DEF Injection, IsInjective
  <2> HIDE DEF f, paired
  <2>7. Cardinality(paired) <= Cardinality(usable \ {m})
    BY <2>2, <2>6, FS_Injection
  <2> QED BY <1>1, <1>2, <2>2, <2>7
<1> QED BY <1>2, <1>3

LEMMA GaugeClaims ==
  ASSUME TypeOK, Gathered, Rising, Shown, Judged, stage = "reading", next > Len(samples),
         definition.kind = "gauge"
  PROVE  Claims(GaugeSummary)
<1> DEFINE kept == Kept(samples, usable)
           readings == [n \in DOMAIN kept |-> kept[n].value]
           values == Ascending(readings)
           paired == {p \in usable : p + 1 \in usable}
           publish == values # <<>> /\ chronological /\ ~GaugeRefused
           rows == IF Repeated(usable) THEN <<>> ELSE RowsOf(usable)
           accepted == IF publish THEN Cardinality(paired) ELSE 0
           observed == IF publish THEN SumOf(Spanned) ELSE 0
           aggregates == IF publish THEN [a \in definition.available |-> Statistic(a, values)] ELSE Nothing
           reject == rejected \/ (values # <<>> /\ chronological /\ GaugeRefused)
           counted == [intervals |-> <<>>, resets |-> {}, gaps |-> {}]
<1>1. GaugeSummary = Summary(rows, accepted, observed, aggregates, reject, counted)
  BY Zenon DEF GaugeSummary, RowsOf
<1>2. PICK l \in Nat : /\ l = Len(samples) /\ samples \in Seq(Sampled) /\ Positions = 1..l
                       /\ usable \in SUBSET Positions /\ next - 1 = l
  BY DEF TypeOK, Positions
<1>3. PICK n \in Nat : n = Cardinality(usable) /\ n <= l /\ (n = 0 <=> usable = {})
  BY <1>2, RepeatedIs, FS_EmptySet
<1>4. values # <<>> <=> n # 0
  <2>1. DOMAIN kept = 1..n
    BY <1>3 DEF Kept
  <2> HIDE DEF kept
  <2>2. DOMAIN readings = 1..n
    BY <2>1
  <2> HIDE DEF readings
  <2>3. DOMAIN values = 1..n /\ values = [i \in 1..n |-> values[i]]
    BY <2>2 DEF Ascending
  <2> HIDE DEF values
  <2>4. n = 0 => values = <<>>
    BY <2>3
  <2>5. n # 0 => 1 \in DOMAIN values
    BY <2>3
  <2> QED BY <2>4, <2>5
<1>5. definition \in Definitions /\ definition.primary \in definition.available
  BY DefinitionsAssumption DEF TypeOK, ValidDefinition
<1> HIDE DEF values
<1>6. /\ publish => DOMAIN aggregates = definition.available /\ DOMAIN aggregates # {}
      /\ ~publish => DOMAIN aggregates = {}
  BY <1>5, NothingEmpty
<1>7. /\ rows \in Seq(Nat) /\ IsInjective(rows) /\ Len(rows) <= l
      /\ rows = <<>> \/ Len(rows) = n
      /\ chronological => Len(rows) = n
  <2>1. IsInjective(<<>>) /\ <<>> \in Seq(Nat) /\ Len(<<>>) = 0
    BY DEF IsInjective
  <2>2. ~Repeated(usable) => RowsOf(usable) \in Seq(Nat) /\ Len(RowsOf(usable)) = n /\ IsInjective(RowsOf(usable))
    BY <1>2, <1>3, RepeatedIs, RowsNamed
  <2>3. chronological => ~Repeated(usable)
    <3>1. chronological => Distinct(Positions)
      BY <1>2, InOrderDistinct
    <3> QED BY <1>2, <3>1, RepeatedIs DEF Distinct
  <2> QED BY <1>2, <1>3, <2>1, <2>2, <2>3
<1>8. chronological => (Seen(l) # {} <=> paired # {})
  <2> SUFFICES ASSUME chronological PROVE Seen(l) # {} <=> paired # {}
    OBVIOUS
  <2>1. \A p \in 1..l : Usable(samples[p]) <=> p \in usable
    BY <1>2, RowsInOrder
  <2>2. ASSUME NEW t \in Seen(l) PROVE paired # {}
    <3>1. PICK p \in 1..l - 1 : Usable(samples[p]) /\ Usable(samples[p + 1])
      BY DEF Seen, Spans, Joined
    <3>2. p \in 1..l /\ p + 1 \in 1..l
      OBVIOUS
    <3> QED BY <2>1, <3>1, <3>2
  <2>3. ASSUME NEW p \in paired PROVE Seen(l) # {}
    <3>1. p \in 1..l /\ p + 1 \in 1..l /\ p \in usable /\ p + 1 \in usable
      BY <1>2
    <3>2. p \in 1..l - 1
      BY <3>1
    <3>3. Joined(p)
      BY <2>1, <3>1 DEF Joined, Fell
    <3> QED BY <1>2, <3>2, <3>3, JoinedSeen
  <2> QED BY <2>2, <2>3
<1>9. publish => observed = Cardinality(Seen(l))
  BY <1>2, GaugeSeen
<1>10. /\ accepted \in Nat /\ observed \in Nat /\ observed <= End - Start
       /\ accepted = 0 \/ accepted < Len(rows)
       /\ (accepted = 0) = (observed = 0)
  <2>1. CASE publish
    <3>1. accepted = Cardinality(paired) /\ observed = Cardinality(Seen(l)) /\ chronological
      BY <1>9, <2>1
    <3>2. /\ IsFiniteSet(paired) /\ Cardinality(paired) \in Nat
          /\ paired = {} \/ Cardinality(paired) < Cardinality(usable)
      BY FewerPaired
    <3> HIDE DEF paired, accepted, observed, rows, publish
    <3>3. (Cardinality(paired) = 0 <=> paired = {}) /\ (Cardinality(Seen(l)) = 0 <=> Seen(l) = {})
      BY <3>2, FS_EmptySet, SeenFinite
    <3>4. accepted = 0 <=> observed = 0
      BY <1>8, <3>1, <3>3
    <3>5. observed \in Nat /\ observed <= End - Start
      BY <3>1, SeenFinite
    <3>6. accepted = 0 \/ accepted < Len(rows)
      BY <1>3, <1>7, <3>1, <3>2, <3>3
    <3> QED BY <3>1, <3>2, <3>4, <3>5, <3>6
  <2>2. CASE ~publish
    <3>1. 0 <= End - Start
      BY WindowNumbers
    <3> QED BY <2>2, <3>1
  <2> QED BY <2>1, <2>2
<1>11. DOMAIN aggregates # {} => Len(rows) > 0 /\ definition.primary \in DOMAIN aggregates
  <2>1. publish => Len(rows) > 0
    BY <1>3, <1>4, <1>7
  <2> QED BY <1>5, <1>6, <2>1
<1>12. DOMAIN aggregates = {} /\ ~reject => rows = <<>>
  <2>1. ~rejected => chronological
    BY DEF Shown
  <2>2. DOMAIN aggregates = {} => ~publish
    BY <1>6
  <2>3. DOMAIN aggregates = {} /\ ~reject => values = <<>>
    BY <2>1, <2>2
  <2>4. n = 0 => rows = <<>>
    BY <1>7
  <2> QED BY <1>4, <2>3, <2>4
<1>13. DOMAIN aggregates \subseteq definition.available
  BY <1>6
<1>14. publish <=> Measurable /\ ~Refused
  <2>1. definition.reset # "series"
    BY <1>5, DefinitionsAssumption, ArithmeticAssumption DEF ValidDefinition
  <2>2. Refused <=> ~chronological \/ (definition.missing = "strict" /\ gaps # {})
    BY <2>1, RefusedShows
  <2>3. chronological => (gaps # {} <=> missing \/ rejected)
    BY RefusedShows DEF Judged
  <2>4. Measurable <=> usable # {}
    BY RefusedShows DEF Measurable
  <2>5. values # <<>> <=> usable # {}
    BY <1>3, <1>4
  <2> QED BY <2>2, <2>3, <2>4, <2>5 DEF GaugeRefused
<1>21. ~Unheld
  BY DEF Unheld
<1>15. observed = IF DOMAIN aggregates = {} THEN 0 ELSE Cardinality(Observed)
  BY <1>2, <1>6, <1>9, CoveredIsSeen
<1> HIDE DEF rows, accepted, observed, aggregates, reject, counted, publish
<1>16. PICK s : s = Summary(rows, accepted, observed, aggregates, reject, counted)
  OBVIOUS
<1>17. CountsAgree(s) /\ StatusJustified(s, definition)
  BY <1>2, <1>7, <1>10, <1>11, <1>12, <1>13, <1>16, SummaryAgrees
<1>18. /\ s.intervals = <<>> /\ s.resets = {} /\ s.gaps = {}
       /\ s.aggregates = aggregates /\ s.observed = observed
  BY <1>16 DEF Summary, counted
<1>19. ValidSummary(s, definition)
  BY <1>17, <1>18 DEF ValidSummary
<1>20. Claims(s)
  <2>1. DOMAIN s.aggregates # {} <=> publish
    BY <1>6, <1>18, Zenon
  <2> QED BY <1>14, <1>15, <1>18, <1>19, <1>21, <2>1, Zenon DEF Claims
<1> QED BY <1>1, <1>16, <1>20
(* The accepted intervals follow the rows they are between. *)
LEMMA IntervalsFollow ==
  ASSUME TypeOK, Gathered, Rising, Shown, Placed, chronological, next > Len(samples),
         NEW s, s.rows = RowsOf(usable), s.start = Start, s.end = End,
         s.intervals = intervals, s.resets = RowsAt(resets)
  PROVE  IntervalsFollowRows(s)
<1> DEFINE at(row) == CHOOSE p \in DOMAIN s.rows : s.rows[p] = row
<1>1. PICK l \in Nat : /\ l = Len(samples) /\ samples \in Seq(Sampled) /\ Positions = 1..l
                       /\ usable \in SUBSET (1..l) /\ next - 1 = l /\ next - 2 = l - 1
                       /\ resets \subseteq usable
  BY DEF TypeOK, Positions
<1>2. PICK n \in Nat : n = Len(intervals) /\ DOMAIN intervals = 1..n
  BY DEF TypeOK
<1>3. Distinct(Positions) /\ Distinct(usable)
  BY <1>1, InOrderDistinct DEF Distinct
<1>4. IsInjective(s.rows) /\ Range(s.rows) = RowsAt(usable)
  BY <1>1, <1>3, RowsNamed
<1>13. \A p \in Nat : /\ Before(usable, p) \in Nat
                       /\ Before(usable, p + 1) = IF p \in usable THEN Before(usable, p) + 1
                                                                 ELSE Before(usable, p)
  BY <1>1, BeforeNext
<1>5. ASSUME NEW p \in usable
      PROVE  /\ at(samples[p].row) = Before(usable, p) + 1 /\ samples[p].row \in Range(s.rows)
             /\ p \in Nat /\ Before(usable, p) \in Nat
  <2>0. PICK rows : rows = s.rows
    OBVIOUS
  <2>1. Before(usable, p) + 1 \in DOMAIN rows /\ rows[Before(usable, p) + 1] = samples[p].row
    BY <1>1, <2>0, RowsNamed
  <2>2. \A x, y \in DOMAIN rows : rows[x] = rows[y] => x = y
    BY <1>4, <2>0 DEF IsInjective
  <2>3. samples[p].row \in Range(s.rows)
    BY <1>4 DEF RowsAt
  <2>4. p \in Nat /\ Before(usable, p) \in Nat
    BY <1>1, <1>13
  <2>5. \E x \in DOMAIN rows : rows[x] = samples[p].row
    BY <2>1
  <2>6. at(samples[p].row) \in DOMAIN rows /\ rows[at(samples[p].row)] = samples[p].row
    BY <2>0, <2>5
  <2> HIDE DEF at
  <2> QED BY <2>1, <2>2, <2>3, <2>4, <2>6
<1> HIDE DEF at
<1>6. ASSUME NEW p \in usable, p + 1 \in usable
      PROVE  at(samples[p + 1].row) = at(samples[p].row) + 1
  <2>1. Before(usable, p + 1) = Before(usable, p) + 1
    BY <1>5, <1>13
  <2> QED BY <1>5, <1>6, <2>1
<1>7. ASSUME NEW p \in usable, NEW q \in usable, p < q
      PROVE  at(samples[p].row) <= at(samples[q].row)
  <2>1. p \in Nat /\ q \in Nat
    BY <1>1
  <2>2. Before(usable, p) <= Before(usable, q)
    BY <1>1, <1>7, <2>1, BeforeRises
  <2> QED BY <1>5, <2>2
<1>8. /\ \A p \in 1..l : samples[p].at \in Start..End /\ samples[p].at \in Nat
      /\ \A p, q \in 1..l : p < q => samples[p].at < samples[q].at
  BY <1>1, RowsInOrder
<1>9. ASSUME NEW k \in 1..n, NEW p \in 1..l - 1, Stands(k, p)
      PROVE  LET i == intervals[k]  a == samples[p]  b == samples[p + 1] IN
             /\ p \in usable /\ p + 1 \in usable /\ p \in 1..l /\ p + 1 \in 1..l /\ p < p + 1
             /\ i.startRow = a.row /\ i.endRow = b.row /\ i.start = a.at /\ i.end = b.at
             /\ i.duration = i.end - i.start /\ i.rate = Rate(i.delta, i.duration) /\ i.rate # Null
             /\ i.wrapped => p + 1 \in resets
  <2>1. intervals[k] = Interval(samples[p], samples[p + 1])
    BY <1>9 DEF Stands, Between
  <2>2. p \in 1..l /\ p + 1 \in 1..l /\ p < p + 1
    OBVIOUS
  <2> QED BY <1>9, <2>1, <2>2 DEF Stands, Interval
<1>10. ASSUME NEW k \in 1..n
       PROVE  LET i == intervals[k] IN
              /\ {i.startRow, i.endRow} \subseteq Range(s.rows)
              /\ at(i.endRow) = at(i.startRow) + 1
              /\ Start <= i.start /\ i.end <= End
              /\ i.start < i.end /\ i.duration = i.end - i.start
              /\ i.wrapped => i.endRow \in RowsAt(resets)
              /\ Same(i.rate, Rate(i.delta, i.duration))
  <2>1. PICK p \in 1..l - 1 : Stands(k, p)
    BY <1>1, <1>2 DEF Placed
  <2>2. PICK i, a, b : i = intervals[k] /\ a = samples[p] /\ b = samples[p + 1]
    OBVIOUS
  <2>3. /\ p \in usable /\ p + 1 \in usable /\ p \in 1..l /\ p + 1 \in 1..l /\ p < p + 1
        /\ i.startRow = a.row /\ i.endRow = b.row /\ i.start = a.at /\ i.end = b.at
        /\ i.duration = i.end - i.start /\ i.rate = Rate(i.delta, i.duration) /\ i.rate # Null
        /\ i.wrapped => p + 1 \in resets
    BY <1>9, <2>1, <2>2
  <2>4. i.startRow \in Range(s.rows) /\ i.endRow \in Range(s.rows)
    BY <1>5, <2>2, <2>3
  <2>5. at(i.endRow) = at(i.startRow) + 1
    BY <1>6, <2>2, <2>3
  <2>6. a.at \in Start..End /\ b.at \in Start..End /\ a.at < b.at
    BY <1>8, <2>2, <2>3
  <2>7. Start <= i.start /\ i.end <= End /\ i.start < i.end
    BY <2>3, <2>6, WindowNumbers
  <2>8. i.wrapped => i.endRow \in RowsAt(resets)
    BY <2>2, <2>3 DEF RowsAt
  <2>9. Same(i.rate, Rate(i.delta, i.duration))
    BY <2>3 DEF Same
  <2> QED BY <2>2, <2>3, <2>4, <2>5, <2>7, <2>8, <2>9
<1>11. ASSUME NEW k \in 1..n - 1
       PROVE  LET i == intervals[k]  j == intervals[k + 1] IN
              /\ i.end <= j.start /\ at(i.endRow) <= at(j.startRow)
              /\ i.endRow = j.startRow => i.end = j.start
  <2>1. PICK p \in 1..l - 1, q \in 1..l - 1 : p < q /\ Stands(k, p) /\ Stands(k + 1, q)
    BY <1>1, <1>2 DEF Placed
  <2>2. PICK i, j : i = intervals[k] /\ j = intervals[k + 1]
    OBVIOUS
  <2>3. k \in 1..n /\ k + 1 \in 1..n
    OBVIOUS
  <2>4. /\ p + 1 \in usable /\ p + 1 \in 1..l
        /\ i.endRow = samples[p + 1].row /\ i.end = samples[p + 1].at
    BY <1>9, <2>1, <2>2, <2>3
  <2>5. /\ q \in usable /\ q \in 1..l
        /\ j.startRow = samples[q].row /\ j.start = samples[q].at
    BY <1>9, <2>1, <2>2, <2>3
  <2>6. p + 1 = q \/ p + 1 < q
    BY <2>1
  <2>7. PICK x \in Nat, y \in Nat : x = samples[p + 1].at /\ y = samples[q].at
    BY <1>8, <2>4, <2>5
  <2>8. x <= y
    BY <1>8, <2>4, <2>5, <2>6, <2>7
  <2>9. at(i.endRow) <= at(j.startRow)
    <3>1. at(samples[q].row) <= at(samples[q].row)
      BY <1>5, <2>5
    <3> QED BY <1>7, <2>4, <2>5, <2>6, <3>1
  <2>10. i.endRow = j.startRow => p + 1 = q
    BY <1>3, <2>4, <2>5 DEF Distinct
  <2> QED BY <2>2, <2>4, <2>5, <2>7, <2>8, <2>9, <2>10
<1>12. Len(s.intervals) = n /\ DOMAIN s.intervals = 1..n
  BY <1>2
<1>14. \A k \in DOMAIN s.intervals : LET i == s.intervals[k] IN
         /\ {i.startRow, i.endRow} \subseteq Range(s.rows)
         /\ at(i.endRow) = at(i.startRow) + 1
         /\ s.start <= i.start /\ i.end <= s.end
         /\ i.start < i.end /\ i.duration = i.end - i.start
         /\ i.wrapped => i.endRow \in s.resets
         /\ Same(i.rate, Rate(i.delta, i.duration))
  BY <1>10, <1>12
<1>15. \A k \in 1..Len(s.intervals) - 1 :
         LET i == s.intervals[k]  j == s.intervals[k + 1] IN
         /\ i.end <= j.start /\ at(i.endRow) <= at(j.startRow)
         /\ i.endRow = j.startRow => i.end = j.start
  BY <1>11, <1>12
<1> QED BY <1>14, <1>15, Zenon DEF IntervalsFollowRows, at
(* A counter in order that was not given up is worth what its rows grew.   *)
LEMMA CounterWorth ==
  ASSUME TypeOK, Gathered, Accounted, stage = "reading", next > Len(samples),
         definition.kind = "counter", chronological
  PROVE  /\ fatal <=> \E n \in 1..Len(samples) - 1 : Ends(n)
         /\ ~fatal => /\ Deltas(intervals) = SumOf(Growth) /\ Deltas(intervals) \in Int
                      /\ Durations(intervals) = Cardinality(Observed)
                      /\ intervals # <<>> <=> Observed # {}
                      /\ intervals = <<>> => SumOf(Growth) = 0
<1> USE DEF Accounted
<1>1. PICK l \in Nat : /\ l = Len(samples) /\ next - 1 = l /\ next - 2 = l - 1
                       /\ stage # "capturing" /\ definition \in Definitions
                       /\ intervals \in Seq(Accepted)
  BY DEF TypeOK
<1>2. fatal <=> \E n \in 1..l - 1 : Ends(n)
  BY <1>1 DEF Judged
<1>3. ASSUME ~fatal
      PROVE  /\ Deltas(intervals) = SumOf(Growth) /\ Deltas(intervals) \in Int
             /\ Durations(intervals) = Cardinality(Observed)
             /\ intervals # <<>> <=> Observed # {}
             /\ intervals = <<>> => SumOf(Growth) = 0
  <2>1. Growth \in Seq(Int) /\ Len(Growth) = l
    BY <1>1, GrowthTyped
  <2>2. PICK sum : Running(Growth, sum) /\ SumOf(Growth) = sum[l]
    BY <2>1, SumsExist
  <2>3. Deltas(intervals) = sum[l] /\ sum[l] \in Int
    <3>1. sum[l] \in Int
      BY <1>1, <2>1, <2>2 DEF Running
    <3> QED BY <1>1, <1>3, <2>2, <3>1 DEF Judged
  <2>4. Durations(intervals) = Cardinality(Observed)
    BY <1>1, <1>3, CoveredIsSeen DEF Measured
  <2>5. ASSUME intervals = <<>> PROVE Observed = {} /\ Deltas(intervals) = 0
    <3>1. Durations(intervals) = 0 /\ Deltas(intervals) = 0
      BY <2>5, NothingAdded
    <3>2. IsFiniteSet(Observed)
      BY CoveredIsSeen, SeenFinite
    <3> QED BY <2>4, <3>1, <3>2, FS_EmptySet
  <2>6. ASSUME intervals # <<>> PROVE Observed # {}
    <3>1. 1 \in DOMAIN intervals
      BY <1>1, <2>6
    <3>2. PICK p \in 1..l - 1 : Stands(1, p)
      BY <1>1, <3>1 DEF Placed
    <3>3. Joined(p)
      BY <3>2 DEF Stands, Between, Joined, Fell
    <3> QED BY <1>1, <3>3, JoinedSeen, CoveredIsSeen
  <2> QED BY <2>2, <2>3, <2>4, <2>5, <2>6
<1> QED BY <1>1, <1>2, <1>3

LEMMA CounterClaims ==
  ASSUME TypeOK, Gathered, Accounted, stage = "reading", next > Len(samples),
         definition.kind # "gauge"
  PROVE  Claims(CounterSummary)
<1> USE DEF Accounted
<1> DEFINE value == Aggregate
           publish == intervals # <<>> /\ ~Withdrawn /\ value # Null
           kept == IF publish THEN intervals ELSE <<>>
           named(positions) == IF Repeated(Positions) THEN {} ELSE positions
           rows == RowsOf(named(usable))
           aggregates == IF publish THEN [a \in {definition.primary} |-> value] ELSE Nothing
           reject == \/ rejected
                     \/ definition.missing = "strict" /\ gaps # {}
                     \/ intervals # <<>> /\ ~Withdrawn /\ value = Null
           counted == [intervals |-> kept, resets |-> RowsAt(named(resets)), gaps |-> RowsAt(named(gaps))]
<1>1. CounterSummary = Summary(rows, Len(kept), Durations(kept), aggregates, reject, counted)
  BY Zenon DEF CounterSummary, RowsOf
<1>2. PICK l \in Nat : /\ l = Len(samples) /\ samples \in Seq(Sampled) /\ Positions = 1..l
                       /\ usable \cup gaps = 1..l /\ usable \cap gaps = {} /\ resets \subseteq usable
                       /\ next - 1 = l /\ next - 2 = l - 1 /\ stage # "capturing"
                       /\ intervals \in Seq(Accepted)
  BY DEF TypeOK, Positions
<1>3. definition.kind = "counter" /\ definition.primary \in definition.available
  BY DefinitionsAssumption DEF TypeOK, ValidDefinition
<1>4. publish => chronological /\ ~fatal /\ ~(definition.missing = "strict" /\ gaps # {})
  BY DEF Withdrawn
<1> DEFINE U == named(usable)  G == named(gaps)  R == named(resets)
<1>5. /\ U \in SUBSET Positions /\ G \in SUBSET Positions /\ R \subseteq U /\ U \cap G = {}
      /\ Distinct(U \cup G)
      /\ chronological => U = usable /\ R = resets
  <2>1. ~Repeated(Positions) => Distinct(Positions)
    BY <1>2, RepeatedIs
  <2>2. chronological => ~Repeated(Positions)
    BY <1>2, InOrderDistinct, RepeatedIs
  <2> QED BY <1>2, <2>1, <2>2 DEF Distinct
<1>6. Cardinality(U) + Cardinality(G) <= l /\ Cardinality(U) \in Nat /\ Cardinality(G) \in Nat
  <2> HIDE DEF U, G
  <2>1. IsFiniteSet(U) /\ IsFiniteSet(G) /\ Cardinality(U) \in Nat /\ Cardinality(G) \in Nat
    BY <1>2, <1>5, RepeatedIs
  <2>2. Cardinality(U \cup G) = Cardinality(U) + Cardinality(G) - Cardinality({})
    BY <1>5, <2>1, FS_Union
  <2>3. U \cup G \in SUBSET Positions
    BY <1>5
  <2>4. Cardinality(U \cup G) <= l
    BY <1>2, <2>3, RepeatedIs
  <2>5. Cardinality({}) = 0
    BY FS_EmptySet, Zenon
  <2> QED BY <2>1, <2>2, <2>4, <2>5
<1>7. /\ rows \in Seq(Nat) /\ Len(rows) = Cardinality(U) /\ Range(rows) = RowsAt(U)
      /\ IsInjective(rows)
  <2>1. Distinct(U)
    BY <1>5 DEF Distinct
  <2> QED BY <1>2, <1>5, <2>1, RowsNamed
<1>8. chronological => rows = RowsOf(usable)
  BY <1>5
<1>9. /\ RowsAt(R) \subseteq Range(rows) /\ RowsAt(G) \cap Range(rows) = {}
      /\ Cardinality(RowsAt(G)) <= l - Cardinality(U)
  <2> HIDE DEF U, G, R
  <2>1. Cardinality(RowsAt(G)) <= Cardinality(G) /\ Cardinality(RowsAt(G)) \in Nat
    BY <1>2, <1>5, RepeatedIs
  <2>2. RowsAt(R) \subseteq RowsAt(U) /\ RowsAt(G) \cap RowsAt(U) = {}
    BY <1>5 DEF RowsAt, Distinct
  <2> QED BY <1>2, <1>6, <1>7, <2>1, <2>2
<1> HIDE DEF rows, U, G, R
<1>10. /\ publish => Durations(intervals) = Cardinality(Seen(l))
       /\ Durations(<<>>) = 0
  BY <1>2, <1>3, <1>4, NothingAdded DEF Measured
<1>11. publish => /\ Len(intervals) > 0 /\ Len(intervals) < Len(rows)
                  /\ Seen(l) # {}
  <2> SUFFICES ASSUME publish PROVE Len(intervals) > 0 /\ Len(intervals) < Len(rows) /\ Seen(l) # {}
    OBVIOUS
  <2>1. Len(intervals) > 0 /\ 1 \in DOMAIN intervals
    BY <1>2
  <2>2. Len(intervals) < Len(rows)
    BY <1>4, <1>5, <1>7, <2>1 DEF Placed
  <2>3. PICK p \in 1..l - 1 : Stands(1, p)
    BY <1>2, <2>1 DEF Placed
  <2>4. Joined(p)
    BY <2>3 DEF Stands, Between, Joined, Fell
  <2>5. Seen(l) # {}
    BY <1>2, <1>4, <2>4, JoinedSeen
  <2> QED BY <2>1, <2>2, <2>5
<1>12. /\ publish => DOMAIN aggregates = {definition.primary}
       /\ ~publish => DOMAIN aggregates = {}
  BY NothingEmpty
<1>13. /\ Len(kept) \in Nat /\ Durations(kept) \in Nat /\ Durations(kept) <= End - Start
       /\ Len(kept) = 0 \/ Len(kept) < Len(rows)
       /\ (Len(kept) = 0) = (Durations(kept) = 0)
  <2>1. CASE publish
    <3>1. kept = intervals
      BY <2>1
    <3>2. /\ Len(kept) > 0 /\ Len(kept) < Len(rows) /\ Len(kept) \in Nat
          /\ Durations(kept) = Cardinality(Seen(l)) /\ Seen(l) # {}
      BY <1>2, <1>10, <1>11, <2>1, <3>1
    <3> HIDE DEF kept, publish
    <3>3. /\ Cardinality(Seen(l)) \in Nat /\ Cardinality(Seen(l)) <= End - Start
          /\ Cardinality(Seen(l)) # 0
      BY <3>2, FS_EmptySet, SeenFinite
    <3> QED BY <3>2, <3>3
  <2>2. CASE ~publish
    <3>1. kept = <<>> /\ Len(kept) = 0 /\ Durations(kept) = 0
      BY <1>10, <2>2
    <3> HIDE DEF kept
    <3> QED BY <3>1, WindowNumbers
  <2> QED BY <2>1, <2>2
<1> DEFINE beyond == SumOf(Growth) > Largest
                     \/ Rate(SumOf(Growth), Cardinality(Observed)) = Null
<1>25. Refused <=> \/ ~chronological
                   \/ definition.missing = "strict" /\ gaps # {}
                   \/ definition.reset = "series" /\ \E n \in 1..l - 1 : Fell(n)
  BY <1>2, RefusedShows
<1>26. Unheld <=> \/ \E n \in 1..l - 1 :
                       /\ Joined(n)
                       /\ Rate(Delta(samples[n], samples[n + 1]), samples[n + 1].at - samples[n].at) = Null
                  \/ SumOf(Growth) > Largest
                  \/ Observed # {} /\ Rate(SumOf(Growth), Cardinality(Observed)) = Null
  <2>1. ASSUME NEW n \in 1..l - 1, Joined(n)
        PROVE  Growth[n + 1] = Delta(samples[n], samples[n + 1])
    <3>1. n + 1 \in Positions /\ n + 1 > 1 /\ (n + 1) - 1 = n
      BY <1>2
    <3> QED BY <2>1, <3>1 DEF Growth
  <2> QED BY <1>2, <1>3, <2>1 DEF Unheld
<1>27. ASSUME chronological
       PROVE  /\ fatal <=> \E n \in 1..l - 1 : Ends(n)
              /\ ~fatal => /\ Deltas(intervals) = SumOf(Growth) /\ Deltas(intervals) \in Int
                           /\ Durations(intervals) = Cardinality(Observed)
                           /\ intervals # <<>> <=> Observed # {}
                           /\ intervals = <<>> => SumOf(Growth) = 0
  BY <1>2, <1>3, <1>27, CounterWorth
<1>28. ASSUME chronological, ~fatal
       PROVE  /\ value = Null <=> beyond
              /\ Unheld <=> intervals # <<>> /\ beyond
  <2>1. /\ Deltas(intervals) = SumOf(Growth) /\ SumOf(Growth) \in Int
        /\ Durations(intervals) = Cardinality(Observed)
        /\ intervals # <<>> <=> Observed # {}
        /\ intervals = <<>> => SumOf(Growth) = 0
    BY <1>27, <1>28
  <2>2. value = Null <=> beyond
    <3>1. PICK g \in Int : g = SumOf(Growth)
      BY <2>1
    <3>4. PICK d : d = Cardinality(Observed)
      OBVIOUS
    <3>2. <<g, 1>> # Null
      BY ArithmeticAssumption
    <3>3. Aggregate = IF Rate(g, d) = Null THEN Null
                      ELSE IF g > Largest THEN Null
                      ELSE IF definition.primary = "total" THEN <<g, 1>> ELSE Rate(g, d)
      BY <2>1, <3>1, <3>4 DEF Aggregate, CounterValue
    <3> QED BY <3>1, <3>2, <3>3, <3>4
  <2>3. intervals = <<>> => ~(SumOf(Growth) > Largest)
    BY <2>1, ArithmeticAssumption
  <2>4. ~\E n \in 1..l - 1 :
          /\ Joined(n)
          /\ Rate(Delta(samples[n], samples[n + 1]), samples[n + 1].at - samples[n].at) = Null
    BY <1>27, <1>28 DEF Ends
  <2> HIDE DEF value
  <2> QED BY <1>26, <2>1, <2>2, <2>3, <2>4
<1>29. Ends(1) \in BOOLEAN /\ \A n : Ends(n) => Refused \/ Unheld \/ n \notin 1..l - 1
  BY <1>25, <1>26 DEF Ends
<1> HIDE DEF value, beyond
<1>14. publish <=> Measurable /\ ~Refused /\ ~Unheld
  <2>1. Measurable <=> Observed # {}
    BY <1>3 DEF Measurable
  <2>2. CASE ~chronological \/ (definition.missing = "strict" /\ gaps # {})
    BY <1>25, <2>2 DEF Withdrawn
  <2>3. CASE chronological /\ fatal
    BY <1>27, <1>29, <2>3 DEF Withdrawn
  <2>4. CASE chronological /\ ~fatal /\ ~(definition.missing = "strict" /\ gaps # {})
    <3>1. ~Refused
      BY <1>25, <1>27, <2>4 DEF Ends
    <3>2. ~Withdrawn
      BY <2>4 DEF Withdrawn
    <3> QED BY <1>27, <1>28, <2>1, <2>4, <3>1, <3>2
  <2> QED BY <2>2, <2>3, <2>4
<1>30. Unheld => reject
  <2>1. CASE ~chronological
    BY <2>1 DEF Shown
  <2>2. CASE chronological /\ fatal
    BY <2>2 DEF Judged
  <2>3. CASE chronological /\ ~fatal
    BY <1>28, <2>3 DEF Withdrawn
  <2> QED BY <2>1, <2>2, <2>3
<1>15. Durations(kept) = IF DOMAIN aggregates = {} THEN 0 ELSE Cardinality(Observed)
  <2>1. CASE publish
    <3>1. kept = intervals
      BY <2>1
    <3> QED BY <1>2, <1>10, <1>12, <2>1, <3>1, CoveredIsSeen
  <2>2. CASE ~publish
    <3>1. kept = <<>>
      BY <2>2
    <3> QED BY <1>10, <1>12, <2>2, <3>1
  <2> QED BY <2>1, <2>2
<1>16. /\ DOMAIN aggregates \subseteq definition.available
       /\ DOMAIN aggregates # {} => /\ Len(rows) > 0 /\ definition.primary \in DOMAIN aggregates
                                    /\ publish
  <2>1. publish => Len(rows) > 0
    BY <1>7, <1>11
  <2> HIDE DEF publish, aggregates
  <2> QED BY <1>3, <1>12, <2>1
<1>17. DOMAIN aggregates # {} =>
         /\ kept # <<>> /\ kept = intervals /\ Same(aggregates[definition.primary], CounterValue(definition, kept))
  <2> SUFFICES ASSUME publish
               PROVE  kept # <<>> /\ kept = intervals /\ Same(aggregates[definition.primary], CounterValue(definition, kept))
    BY <1>16
  <2>1. kept = intervals /\ intervals # <<>> /\ value # Null
    OBVIOUS
  <2>4. value = CounterValue(definition, kept)
    BY <2>1 DEF value, Aggregate
  <2>2. aggregates[definition.primary] = value
    OBVIOUS
  <2>3. Same(value, value)
    <3> HIDE DEF value
    <3> QED BY <2>1 DEF Same
  <2> HIDE DEF kept, aggregates
  <2> QED BY <2>1, <2>2, <2>3, <2>4
<1> DEFINE observed == Durations(kept)
           accepted == Len(kept)
<1>18. PICK s : s = Summary(rows, accepted, observed, aggregates, reject, counted)
  OBVIOUS
<1>19. /\ s.intervals = kept /\ s.resets = RowsAt(R) /\ s.gaps = RowsAt(G) /\ s.rows = rows
       /\ s.aggregates = aggregates /\ s.observed = observed /\ s.accepted = accepted
       /\ s.start = Start /\ s.end = End /\ s.samples = l /\ s.usable = Len(rows)
  BY <1>2, <1>18 DEF Summary, R, G
<1>20. CountsAgree(s) /\ StatusJustified(s, definition)
  <2> HIDE DEF aggregates, reject, counted, kept, publish, observed, accepted
  <2>1. accepted \in Nat /\ observed \in Nat /\ observed <= End - Start
        /\ (accepted = 0 \/ accepted < Len(rows)) /\ (accepted = 0) = (observed = 0)
    BY <1>13 DEF observed, accepted
  <2>2. Len(rows) <= Len(samples)
    BY <1>2, <1>6, <1>7
  <2> QED BY <1>3, <1>7, <1>16, <1>18, <2>1, <2>2, SummaryAgrees
<1>21. IntervalsFollowRows(s)
  <2>1. CASE publish
    <3>1. kept = intervals
      BY <2>1
    <3>2. chronological /\ rows = RowsOf(usable) /\ R = resets
      BY <1>4, <1>5, <1>8, <2>1
    <3> HIDE DEF kept
    <3> QED BY <1>19, <3>1, <3>2, IntervalsFollow
  <2>2. CASE ~publish
    <3>1. kept = <<>>
      BY <2>2
    <3>2. s.intervals = <<>>
      BY <1>19, <3>1
    <3>3. DOMAIN s.intervals = {} /\ 1..Len(s.intervals) - 1 = {}
      BY <3>2
    <3> QED BY <3>3 DEF IntervalsFollowRows
  <2> QED BY <2>1, <2>2
<1> HIDE DEF aggregates, reject, counted, kept, publish, value
<1>22. CounterEvidence(s, definition)
  BY <1>7, <1>9, <1>17, <1>19, <1>21, Zenon DEF CounterEvidence, observed, accepted
<1>23. ValidSummary(s, definition)
  BY <1>3, <1>20, <1>22 DEF ValidSummary
<1>31. Unheld => s.status = "rejected"
  <2>1. s.status = Status(aggregates, observed, missing \/ samples = <<>>, reject, rows)
    BY <1>18 DEF Summary
  <2>2. Unheld => DOMAIN aggregates = {} /\ reject
    BY <1>12, <1>14, <1>30
  <2> QED BY <2>1, <2>2 DEF Status
<1>24. Claims(s)
  BY <1>12, <1>14, <1>15, <1>19, <1>23, <1>31, Zenon DEF Claims, observed
<1> QED BY <1>1, <1>18, <1>24, Zenon DEF observed, accepted

-----------------------------------------------------------------------------
(* The inductive invariant of what is claimed. *)
SInv == Inv /\ Accounted /\ SummaryHonest

(* What was and is, for a summary that does not change. *)
LEMMA ClaimsKept ==
  ASSUME UNCHANGED <<definition, samples>>, NEW s, Claims(s)
  PROVE  summary' = s => SummaryHonest'
<1>1. /\ \A x : Usable(x)' = Usable(x)
      /\ \A n : Fell(n)' = Fell(n)
      /\ \A n : Joined(n)' = Joined(n)
      /\ \A a, b : Delta(a, b)' = Delta(a, b)
  BY DEF Fell, Joined, Usable, Delta
<1>2. Refused' = Refused
  BY <1>1 DEF Refused, Disorder, Positions
<1>3. Observed' = Observed
  BY <1>1 DEF Observed, Covered
<1>4. Growth' = Growth
  BY <1>1 DEF Growth, Positions
<1>5. Unheld' = Unheld
  <2>1. SumOf(Growth)' = SumOf(Growth)
    BY <1>4 DEF SumOf
  <2> QED BY <1>1, <1>3, <1>4, <2>1 DEF Unheld
<1>6. Measurable' = Measurable
  BY <1>1, <1>3 DEF Measurable, Positions
<1> SUFFICES ASSUME summary' = s PROVE SummaryHonest'
  OBVIOUS
<1>7. CoverageHonest'
  BY <1>2, <1>3, <1>5, <1>6, Zenon DEF Claims, CoverageHonest
<1>8. SummariesValidate'
  BY Zenon DEF Claims, SummariesValidate
<1> QED BY <1>7, <1>8 DEF SummaryHonest

Unread ==
  /\ next = 1 /\ usable = {} /\ gaps = {} /\ resets = {} /\ intervals = <<>>
  /\ chronological /\ ~fatal /\ ~missing /\ ~rejected

LEMMA UnreadAccounted == Unread => Accounted
<1> SUFFICES ASSUME Unread PROVE Accounted
  OBVIOUS
<1> USE DEF Unread
<1>1. /\ 1..next - 1 = {} /\ DOMAIN intervals = {} /\ Len(intervals) = 0
      /\ 1..Len(intervals) - 1 = {}
  OBVIOUS
<1>2. Durations(intervals) = 0 /\ Cardinality(Seen(next - 1)) = 0
  <2>1. next - 1 \in Int /\ next - 1 <= 1
    OBVIOUS
  <2>2. Cardinality(Seen(next - 1)) = 0
    BY <2>1, SeenNothing
  <2> QED BY <2>2, NothingAdded
<1>3. Shown
  BY DEF Shown
<1>4. Placed
  BY <1>1, Zenon DEF Placed
<1>5. Rising
  BY <1>1, Zenon DEF Rising
<1>6. Measured
  BY <1>2, Zenon DEF Measured
<1>7. Judged
  <2>1. Deltas(intervals) = 0 /\ next - 1 = 0 /\ 1..next - 2 = {}
    BY NothingAdded
  <2>2. \A sum : Running(Growth, sum) => sum[0] = 0
    BY DEF Running
  <2> QED BY <2>1, <2>2 DEF Judged
<1> QED BY <1>3, <1>4, <1>5, <1>6, <1>7 DEF Accounted

LEMMA SummaryInvariant == Spec => []SInv
<1>1. Init => Accounted /\ SummaryHonest
  BY UnreadAccounted DEF Init, Unread, SummaryHonest, CoverageHonest, SummariesValidate
<1>0. Unread' => Accounted'
  BY UnreadAccounted, PTL
<1>2. Inv /\ Accounted /\ SummaryHonest /\ [Next]_vars => Accounted' /\ SummaryHonest'
  <2> SUFFICES ASSUME TypeOK, Told, Gathered, Accounted, SummaryHonest, [Next]_vars
               PROVE  Accounted' /\ SummaryHonest'
    BY DEF Inv
  <2>1. CASE Event \/ Restart \/ Tick \/ Sample \/ FalseSample \/ Submit
    <3>1. stage = "capturing" /\ UNCHANGED <<reader, summary>>
      BY <2>1 DEF Event, Restart, Tick, Sample, FalseSample, Submit, Export, Capturing
    <3>2. /\ next = 1 /\ intervals = <<>> /\ summary = Null
          /\ usable = {} /\ gaps = {} /\ resets = {}
      BY <3>1 DEF Gathered, TypeOK
    <3>3. /\ next' = 1 /\ intervals' = <<>> /\ summary' = Null
          /\ usable' = {} /\ gaps' = {} /\ resets' = {}
          /\ chronological' /\ ~fatal' /\ ~missing' /\ ~rejected'
      <4>1. chronological /\ ~fatal /\ ~missing /\ ~rejected
        BY <3>1, <3>2 DEF Accounted, Judged
      <4> QED BY <3>1, <3>2, <4>1 DEF reader
    <3>4. Accounted'
      BY <1>0, <3>3 DEF Unread
    <3> QED BY <3>3, <3>4 DEF SummaryHonest, CoverageHonest, SummariesValidate
  <2>2. CASE Read
    <3>1. summary' = Null
      BY <2>2 DEF Read, TypeOK
    <3>2. Accounted'
      BY <2>2, ReadShows, ReadPlaces, ReadRises, ReadMeasures, ReadJudges DEF Accounted
    <3> QED BY <3>1, <3>2 DEF SummaryHonest, CoverageHonest, SummariesValidate
  <2>3. CASE Finish \/ UNCHANGED vars
    <3>1. /\ UNCHANGED <<definition, samples>> /\ UNCHANGED reader
          /\ stage' = "capturing" => stage = "capturing"
          /\ stage = "capturing" => stage' = "capturing"
      BY <2>3 DEF Finish, vars, world, reader
    <3>0. UNCHANGED <<definition, samples>>
      BY <3>1
    <3>2. Accounted'
      <4>1. /\ \A i, p : Between(i, p)' = Between(i, p)
            /\ \A s : Usable(s)' = Usable(s)
            /\ Seen(next - 1)' = Seen(next - 1)
        BY <3>1 DEF Between, Usable, Interval, Delta, Seen, Spans, Joined, Fell, reader
      <4>2. \A k, p : Stands(k, p)' = Stands(k, p)
        BY <3>1, <4>1 DEF Stands, Between, reader, Usable, Interval, Delta
      <4>3. /\ \A m : Disorder(m)' = Disorder(m)
            /\ \A n : Ends(n)' = Ends(n)
        BY <3>1 DEF Disorder, Ends, Fell, Joined, Usable, Delta
      <4>4. \A sum : Running(Growth, sum)' = Running(Growth, sum)
        BY <3>1 DEF Running, Growth, Fell, Joined, Usable, Delta, Positions
      <4>5. Deltas(intervals)' = Deltas(intervals)
        BY <3>1 DEF reader, Deltas, SumOf
      <4>6. Judged'
        BY <3>1, <4>3, <4>4, <4>5 DEF Accounted, Judged, reader
      <4>7. Shown' /\ Placed' /\ Rising' /\ Measured'
        BY <3>1, <4>1, <4>2 DEF Accounted, Shown, Placed, Rising, Measured, reader
      <4> QED BY <4>6, <4>7 DEF Accounted
    <3>3. CASE UNCHANGED vars
      <4>1. summary' = summary
        BY <3>3 DEF vars
      <4>2. PICK s : s = summary
        OBVIOUS
      <4>3. s # Null => Claims(s)
        BY <4>2 DEF SummaryHonest, CoverageHonest, SummariesValidate, Claims
      <4>4. s # Null => SummaryHonest'
        BY <3>0, <4>1, <4>2, <4>3, ClaimsKept
      <4>5. summary' = Null => SummaryHonest'
        BY DEF SummaryHonest, CoverageHonest, SummariesValidate
      <4> QED BY <3>2, <4>1, <4>2, <4>4, <4>5
    <3>4. CASE Finish
      <4>1. stage = "reading" /\ next > Len(samples)
        BY <3>4 DEF Finish
      <4>2. CASE definition.kind = "gauge"
        <5>1. summary' = GaugeSummary
          BY <3>4, <4>2 DEF Finish
        <5>2. PICK s : s = GaugeSummary
          OBVIOUS
        <5>3. Claims(s)
          BY <4>1, <4>2, <5>2, GaugeClaims DEF Accounted
        <5> QED BY <3>0, <3>2, <5>1, <5>2, <5>3, ClaimsKept
      <4>3. CASE definition.kind # "gauge"
        <5>1. summary' = CounterSummary
          BY <3>4, <4>3 DEF Finish
        <5>2. PICK s : s = CounterSummary
          OBVIOUS
        <5>3. Claims(s)
          BY <4>1, <4>3, <5>2, CounterClaims
        <5> QED BY <3>0, <3>2, <5>1, <5>2, <5>3, ClaimsKept
      <4> QED BY <4>2, <4>3
    <3> QED BY <2>3, <3>2, <3>3, <3>4
  <2> QED BY <2>1, <2>2, <2>3 DEF Next
<1> QED BY <1>1, <1>2, Invariant, PTL DEF Spec, SInv

(* SummaryHonest holds in every state: whatever the rows, the policies and *)
(* the window, a summary claims as observed the time its rows covered, not *)
(* a millisecond more or less, publishes nothing its policies refuse, and  *)
(* satisfies every check of its own validator.                             *)
THEOREM SummariesAreHonest == Spec => []SummaryHonest
BY SummaryInvariant, PTL DEF SInv
=============================================================================
