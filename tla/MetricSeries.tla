---------------------------- MODULE MetricSeries ----------------------------
(***************************************************************************)
(* One metric over one window: a producer whose register counts events,    *)
(* an exporter that samples it into rows, and the aggregator that reads    *)
(* the rows afterwards, one at a time (measurement/aggregation.py).  The   *)
(* register starts again at zero when it is full or the producer restarts; *)
(* a gauge is the same register read as a level.                           *)
(* First the contracts (models/measurement.py): what a definition of a     *)
(* metric may ask for, what an accepted counter interval says, and what a  *)
(* summary must agree with before it can be built at all.  Numbers are     *)
(* integers and fractions <<numerator, denominator>>; reasons, of which    *)
(* only the presence matters, are Booleans.                                *)
(***************************************************************************)
EXTENDS Integers, SequencesExt, SequenceParts

CONSTANTS
  Null,
  Largest,      \* the largest number a float holds
  Tiniest,      \* 1 / Tiniest is the smallest positive number a float holds
  Scale         \* milliseconds in the unit of time of a rate

ASSUME ArithmeticAssumption ==
  /\ {Largest, Tiniest, Scale} \subseteq Nat \ {0}
  /\ Null \notin Int /\ Null \notin Int \X Int /\ Null \notin {"missing", "rejected", "wrap", "series"}

GaugeAggregations == {"median", "p95", "minimum", "maximum"}
CounterAggregations == {"total", "rate"}

(* What MetricDefinition.validate_definition lets through. *)
ValidDefinition(d) ==
  /\ d.primary \in d.available
  /\ \/ /\ d.kind = "gauge"
        /\ d.available \subseteq GaugeAggregations
        /\ d.missing \in {"omit", "strict"}
        /\ d.reset = Null
        /\ d.modulus = Null
     \/ /\ d.kind = "counter"
        /\ d.available \in {{a} : a \in CounterAggregations}
        /\ d.missing \in {"break", "strict"}
        /\ d.reset \in {"segment", "series", "wrap"}
        /\ d.nonNegative
        /\ (d.reset = "wrap") = (d.modulus # Null)

(* _counter_rate: Null where Python raises. *)
Rate(delta, elapsed) ==
  IF \/ delta * Scale > Largest * elapsed
     \/ delta > 0 /\ delta * Scale * Tiniest < elapsed
  THEN Null ELSE <<delta * Scale, elapsed>>

Same(p, q) == p # Null /\ q # Null /\ p[1] * q[2] = q[1] * p[2]

Durations(intervals) == SumOf([k \in DOMAIN intervals |-> intervals[k].duration])
Deltas(intervals) == SumOf([k \in DOMAIN intervals |-> intervals[k].delta])

(* What the validator reconstructs of a counter's intervals. *)
CounterValue(d, intervals) ==
  IF Deltas(intervals) > Largest THEN Null
  ELSE IF d.primary = "total" THEN <<Deltas(intervals), 1>>
  ELSE Rate(Deltas(intervals), Durations(intervals))

-----------------------------------------------------------------------------
(* MetricSeriesSummary.validate_summary, part by part. *)
IsOrdered(c) == c[1][1] * c[2][2] <= c[2][1] * c[1][2] /\ c[2][1] * c[3][2] <= c[3][1] * c[2][2]

CountsAgree(s) ==
  /\ Len(s.rows) = s.usable /\ IsInjective(s.rows)
  /\ s.usable <= s.samples
  /\ s.accepted = 0 \/ s.accepted < s.usable
  /\ s.observed <= s.end - s.start
  /\ (s.accepted = 0) = (s.observed = 0)
  /\ s.cadence # Null => s.samples >= 2 /\ IsOrdered(s.cadence)

StatusJustified(s, d) ==
  LET published == DOMAIN s.aggregates
      full == s.observed = s.end - s.start
  IN  /\ published \subseteq d.available
      /\ published # {} => s.usable > 0 /\ d.primary \in published
      /\ s.status \in {"missing", "rejected"} => published = {}
      /\ s.status = "rejected" => s.rejected
      /\ s.status = "missing" => s.usable = 0 /\ ~s.rejected
      /\ s.status = "incomplete" => s.usable > 0
      /\ s.status = "complete" => published # {} /\ full /\ ~s.missing /\ ~s.rejected

(* Intervals run forward inside the window, each between neighbours among  *)
(* the usable rows, and a row is at one time only.                         *)
IntervalsFollowRows(s) ==
  LET at(row) == CHOOSE p \in DOMAIN s.rows : s.rows[p] = row IN
  /\ \A k \in DOMAIN s.intervals : LET i == s.intervals[k] IN
       /\ {i.startRow, i.endRow} \subseteq Range(s.rows)
       /\ at(i.endRow) = at(i.startRow) + 1
       /\ s.start <= i.start /\ i.end <= s.end
       /\ i.start < i.end /\ i.duration = i.end - i.start
       /\ i.wrapped => i.endRow \in s.resets
       /\ Same(i.rate, Rate(i.delta, i.duration))
  /\ \A k \in 1..Len(s.intervals) - 1 :
       LET i == s.intervals[k]  j == s.intervals[k + 1] IN
       /\ i.end <= j.start /\ at(i.endRow) <= at(j.startRow)
       /\ i.endRow = j.startRow => i.end = j.start

CounterEvidence(s, d) ==
  /\ Len(s.intervals) = s.accepted
  /\ IntervalsFollowRows(s)
  /\ Durations(s.intervals) = s.observed
  /\ DOMAIN s.aggregates # {} =>
       /\ s.intervals # <<>>
       /\ Same(s.aggregates[d.primary], CounterValue(d, s.intervals))
  /\ s.resets \subseteq Range(s.rows)
  /\ s.gaps \cap Range(s.rows) = {}
  /\ Cardinality(s.gaps) <= s.samples - s.usable

ValidSummary(s, d) ==
  /\ CountsAgree(s)
  /\ StatusJustified(s, d)
  /\ IF d.kind = "gauge"
     THEN s.intervals = <<>> /\ s.resets = {} /\ s.gaps = {}
     ELSE CounterEvidence(s, d)

-----------------------------------------------------------------------------
(* One metric over one window. *)
CONSTANTS
  Definitions,   \* the definitions a series may be aggregated under
  Modulus,       \* readings of the register are 0..Modulus-1
  Start, End,    \* the window
  MaxClock,      \* bound on the exporter's clock
  MaxGrowth,     \* bound on the events
  MaxRows,       \* bound on the rows
  MaxRestarts,   \* bound on the restarts of the producer
  MaxFaults      \* bound on the rows with a false identity, time or value

ASSUME DefinitionsAssumption ==
  \A d \in Definitions : ValidDefinition(d) /\ d.modulus \in {Null, Modulus}
ASSUME WindowAssumption ==
  /\ Start \in Nat /\ End \in Nat /\ Start < End
  /\ Modulus \in Nat \ {0}
ASSUME BoundsAssumption ==
  {MaxClock, MaxGrowth, MaxRows, MaxRestarts, MaxFaults} \subseteq Nat

VARIABLES
  definition,   \* what the rows are aggregated under, once they are
  clock,
  register,
  made,         \* the events so far, which nobody sees
  restarts,
  faults,
  samples,      \* the rows exported
  truth,        \* what was the case when each was
  stage,
  next,         \* the row the aggregator reads next
  chronological,
  fatal,
  missing, rejected,   \* whether there are reasons of either kind
  usable,       \* the positions of the usable rows,
  gaps,         \* of the others,
  resets,       \* and of those that read less than the row before
  intervals,    \* the pairs accepted
  summary

world == <<clock, register, made, restarts, faults, samples, truth>>
reader == <<next, chronological, fatal, missing, rejected, usable, gaps, resets, intervals>>
vars == <<definition, world, stage, reader, summary>>

Init ==
  /\ definition = Null
  /\ clock = 0 /\ register = 0 /\ made = 0 /\ restarts = 0 /\ faults = 0
  /\ samples = <<>> /\ truth = <<>>
  /\ stage = "capturing"
  /\ next = 1 /\ chronological = TRUE /\ fatal = FALSE
  /\ missing = FALSE /\ rejected = FALSE
  /\ usable = {} /\ gaps = {} /\ resets = {} /\ intervals = <<>>
  /\ summary = Null

-----------------------------------------------------------------------------
(* The producer and the exporter. *)
Capturing ==
  /\ stage = "capturing"
  /\ UNCHANGED <<definition, stage, reader, summary>>

Event ==
  /\ Capturing
  /\ made < MaxGrowth
  /\ made' = made + 1
  /\ register' = IF register + 1 = Modulus THEN 0 ELSE register + 1
  /\ UNCHANGED <<clock, restarts, faults, samples, truth>>

Restart ==
  /\ Capturing
  /\ restarts < MaxRestarts
  /\ restarts' = restarts + 1
  /\ register' = 0
  /\ UNCHANGED <<clock, made, faults, samples, truth>>

Tick ==
  /\ Capturing
  /\ clock < MaxClock
  /\ clock' = clock + 1
  /\ UNCHANGED <<register, made, restarts, faults, samples, truth>>

Now == [made |-> made, restarts |-> restarts, register |-> register]

Export(s, fault) ==
  /\ Capturing
  /\ Len(samples) < MaxRows
  /\ faults + fault <= MaxFaults
  /\ faults' = faults + fault
  /\ samples' = Append(samples, s)
  /\ truth' = Append(truth, Now)
  /\ UNCHANGED <<clock, register, made, restarts>>

Row(value, why) ==
  [row |-> Len(samples) + 1, at |-> clock, utc |-> clock, value |-> value, why |-> why]

Later == IF samples = <<>> THEN TRUE ELSE Last(samples).at < clock

(* What the register reads; or nothing, for a reason. *)
Sample ==
  /\ Later
  /\ \/ Export(Row(register, Null), 0)
     \/ \E why \in {"missing", "rejected"} : Export(Row(Null, why), 0)

(* A repeated identity or time, a clock set back, or a reading that is     *)
(* none of the register's.                                                 *)
FalseSample ==
  /\ samples # <<>>
  /\ LET s == Row(register, Null)  b == Last(samples) IN
     \/ Later /\ \/ Export([s EXCEPT !.row = b.row], 1)
                 \/ Export([s EXCEPT !.utc = b.utc], 1)
                 \/ \E v \in {-1, Modulus} : Export([s EXCEPT !.value = v], 1)
     \/ ~Later /\ Export(s, 1)

(* The rows are complete, and aggregated under one of the definitions that *)
(* share them.  What happens after the last row is in no window.           *)
Submit ==
  /\ stage = "capturing"
  /\ IF samples = <<>> THEN Now = [made |-> 0, restarts |-> 0, register |-> 0] /\ clock = 0
                        ELSE Now = Last(truth) /\ clock = Last(samples).at
  /\ stage' = "reading"
  /\ definition' \in Definitions
  /\ UNCHANGED <<world, reader, summary>>

-----------------------------------------------------------------------------
(* The loop of aggregate_gauge and aggregate_counter.  Definitions whose   *)
(* name starts with Bug are what a slip would make of the one after them.  *)
Usable(s) ==
  /\ s.value # Null
  /\ definition.nonNegative => s.value >= 0
  /\ definition.modulus # Null => s.value < definition.modulus

(* The row cannot follow those before it. *)
Disorder(n) ==
  \/ \E m \in 1..n - 1 : samples[m].row = samples[n].row
  \/ samples[n].at \notin Start..End
  \/ n > 1 /\ (samples[n].at <= samples[n - 1].at \/ samples[n].utc <= samples[n - 1].utc)

BugDelta(a, b) ==
  IF b.value < a.value /\ definition.reset = "wrap"
  THEN definition.modulus - 1 + b.value - a.value ELSE b.value - a.value
Delta(a, b) ==
  IF b.value < a.value /\ definition.reset = "wrap"
  THEN definition.modulus + b.value - a.value ELSE b.value - a.value

Interval(a, b) ==
  [startRow |-> a.row, endRow |-> b.row, start |-> a.at, end |-> b.at,
   duration |-> b.at - a.at, delta |-> Delta(a, b),
   rate |-> Rate(Delta(a, b), b.at - a.at), wrapped |-> b.value < a.value]

(* A counter's pair of usable neighbours: growth, a wrap, a reset that is  *)
(* rejected, or a rate no float holds.                                     *)
Accept(i) ==
  IF i.rate = Null
  THEN intervals' = intervals /\ fatal' = TRUE
  ELSE intervals' = Append(intervals, i) /\ fatal' = fatal

Pair(a, b) ==
  LET fell == b.value < a.value
      refused == fell /\ definition.reset # "wrap"
      killed == fatal \/ (refused /\ definition.reset = "series")
  IN  /\ resets' = IF fell THEN resets \cup {next} ELSE resets
      /\ IF refused \/ killed
         THEN intervals' = intervals /\ fatal' = killed
         ELSE Accept(Interval(a, b))

Neighbours == next > 1 /\ next - 1 \in usable /\ Usable(samples[next])

Read ==
  /\ stage = "reading"
  /\ next <= Len(samples)
  /\ next' = next + 1
  /\ chronological' = (chronological /\ ~Disorder(next))
  /\ missing' = (missing \/ samples[next].why = "missing")
  /\ IF Usable(samples[next])
     THEN usable' = usable \cup {next} /\ gaps' = gaps
     ELSE usable' = usable /\ gaps' = gaps \cup {next}
  /\ IF definition.kind = "counter" /\ Neighbours /\ chronological'
     THEN Pair(samples[next - 1], samples[next])
     ELSE UNCHANGED <<resets, intervals, fatal>>
  /\ rejected' = (\/ rejected \/ Disorder(next)
                  \/ samples[next].why = "rejected"
                  \/ samples[next].value # Null /\ ~Usable(samples[next])
                  \/ fatal' # fatal
                  \/ resets' # resets /\ definition.reset # "wrap")
  /\ UNCHANGED <<definition, world, stage, summary>>

-----------------------------------------------------------------------------
(* The summary. *)
Positions == DOMAIN samples

(* Numbers in order: the i-th is the least that i of them do not exceed. *)
Reached(numbers, i) ==
  {x \in Range(numbers) : Cardinality({k \in DOMAIN numbers : numbers[k] <= x}) >= i}
Ascending(numbers) ==
  [i \in DOMAIN numbers |-> CHOOSE x \in Reached(numbers, i) : \A y \in Reached(numbers, i) : x <= y]

RowsAt(positions) == {samples[p].row : p \in positions}
Repeated(positions) == Cardinality(RowsAt(positions)) < Cardinality(positions)

Median(v) ==
  LET m == Len(v) \div 2
  IN  IF Len(v) % 2 = 1 THEN <<v[m + 1], 1>> ELSE <<v[m] + v[m + 1], 2>>
Statistic(a, v) ==
  CASE a = "minimum" -> <<v[1], 1>>
    [] a = "maximum" -> <<v[Len(v)], 1>>
    [] a = "median" -> Median(v)
    [] a = "p95" -> <<v[(95 * Len(v) + 99) \div 100], 1>>

Cadence ==
  LET gap == Ascending([n \in 1..Len(samples) - 1 |-> samples[n + 1].at - samples[n].at])
  IN  IF gap # <<>> /\ chronological
      THEN <<Statistic("minimum", gap), Statistic("median", gap), Statistic("maximum", gap)>>
      ELSE Null

BugStatus(aggregates, observed, miss, reject, rows) ==
  IF DOMAIN aggregates # {}
  THEN IF observed > 0 /\ ~miss /\ ~reject THEN "complete" ELSE "incomplete"
  ELSE IF reject THEN "rejected"
  ELSE IF definition.kind = "counter" /\ rows # <<>> THEN "incomplete" ELSE "missing"
Status(aggregates, observed, miss, reject, rows) ==
  IF DOMAIN aggregates # {}
  THEN IF observed = End - Start /\ ~miss /\ ~reject THEN "complete" ELSE "incomplete"
  ELSE IF reject THEN "rejected"
  ELSE IF definition.kind = "counter" /\ rows # <<>> THEN "incomplete" ELSE "missing"

Nothing == [a \in {} |-> Null]

Summary(rows, accepted, observed, aggregates, reject, counted) ==
  LET miss == missing \/ samples = <<>> IN
  [start |-> Start, end |-> End, samples |-> Len(samples),
   usable |-> Len(rows), rows |-> rows, accepted |-> accepted, observed |-> observed,
   cadence |-> Cadence, aggregates |-> aggregates, missing |-> miss, rejected |-> reject,
   status |-> Status(aggregates, observed, miss, reject, rows),
   intervals |-> counted.intervals, resets |-> counted.resets, gaps |-> counted.gaps]

GaugeRefused == definition.missing = "strict" /\ (missing \/ rejected)

(* What observed_intervals adds up to: the time since the row before,      *)
(* where both are usable.                                                  *)
Spanned ==
  [p \in Positions |-> IF {p - 1, p} \subseteq usable THEN samples[p].at - samples[p - 1].at ELSE 0]

GaugeSummary ==
  LET kept == Kept(samples, usable)
      values == Ascending([n \in DOMAIN kept |-> kept[n].value])
      paired == {p \in usable : p + 1 \in usable}
      publish == values # <<>> /\ chronological /\ ~GaugeRefused
      rows == IF Repeated(usable) THEN <<>>
              ELSE [n \in DOMAIN kept |-> kept[n].row]
  IN  Summary(rows,
              IF publish THEN Cardinality(paired) ELSE 0,
              IF publish THEN SumOf(Spanned) ELSE 0,
              IF publish THEN [a \in definition.available |-> Statistic(a, values)] ELSE Nothing,
              rejected \/ (values # <<>> /\ chronological /\ GaugeRefused),
              [intervals |-> <<>>, resets |-> {}, gaps |-> {}])

(* A counter is worth what its intervals add up to, and nothing at all if  *)
(* their overall rate is none a float holds: aggregate_counter computes    *)
(* that rate for totals too.                                               *)
BugAggregate == CounterValue(definition, intervals)
Aggregate ==
  IF Rate(Deltas(intervals), Durations(intervals)) = Null
  THEN Null ELSE CounterValue(definition, intervals)

Withdrawn == fatal \/ ~chronological \/ (definition.missing = "strict" /\ gaps # {})

CounterSummary ==
  LET value == Aggregate
      publish == intervals # <<>> /\ ~Withdrawn /\ value # Null
      kept == IF publish THEN intervals ELSE <<>>
      named(positions) == IF Repeated(Positions) THEN {} ELSE positions
      listed == Kept(samples, named(usable))
  IN  Summary([n \in DOMAIN listed |-> listed[n].row],
              Len(kept), Durations(kept),
              IF publish THEN [a \in {definition.primary} |-> value] ELSE Nothing,
              \/ rejected
              \/ definition.missing = "strict" /\ gaps # {}
              \/ intervals # <<>> /\ ~Withdrawn /\ value = Null,
              [intervals |-> kept, resets |-> RowsAt(named(resets)), gaps |-> RowsAt(named(gaps))])

Finish ==
  /\ stage = "reading"
  /\ next > Len(samples)
  /\ stage' = "done"
  /\ summary' = IF definition.kind = "gauge" THEN GaugeSummary ELSE CounterSummary
  /\ UNCHANGED <<definition, world, reader>>

Next ==
  Event \/ Restart \/ Tick \/ Sample \/ FalseSample \/ Submit \/ Read \/ Finish

Spec == Init /\ [][Next]_vars

-----------------------------------------------------------------------------
Moment == [made : Nat, restarts : Nat, register : 0..Modulus - 1]
Sampled == [row : Nat \ {0}, at : Nat, utc : Nat, value : Int \cup {Null},
            why : {Null, "missing", "rejected"}]
Accepted == [startRow : Nat \ {0}, endRow : Nat \ {0}, start : Nat, end : Nat,
             duration : Nat \ {0}, delta : Nat, rate : Nat \X (Nat \ {0}), wrapped : BOOLEAN]

(* Every variable has the values its code gives it: a sample has a value   *)
(* or exactly one reason, the rows read are usable or gaps, and an         *)
(* accepted interval lasts some time and never runs backwards.             *)
TypeOK ==
  /\ IF stage = "capturing" THEN definition = Null ELSE definition \in Definitions
  /\ {clock, made, restarts, faults} \subseteq Nat
  /\ register \in 0..Modulus - 1
  /\ samples \in Seq(Sampled)
  /\ \A n \in Positions : (samples[n].value = Null) = (samples[n].why # Null)
  /\ truth \in Seq(Moment) /\ Len(truth) = Len(samples)
  /\ stage \in {"capturing", "reading", "done"}
  /\ next \in 1..Len(samples) + 1
  /\ {chronological, fatal, missing, rejected} \subseteq BOOLEAN
  /\ usable \cup gaps = 1..next - 1 /\ usable \cap gaps = {}
  /\ resets \subseteq usable
  /\ intervals \in Seq(Accepted)
  /\ stage # "done" => summary = Null

(* COUNTER_AGGREGATION: between two rows that hold what the register read, *)
(* the growth an accepted interval reports is never more than the events   *)
(* there were, unless a restart is taken for the wrap the definition       *)
(* declared; and it is exactly those events if the producer did not        *)
(* restart and the register did not go all the way round.                  *)
FirstAt(row) == CHOOSE p \in Positions :
  samples[p].row = row /\ \A q \in 1..p - 1 : samples[q].row # row
Honest(p) == samples[p].value = truth[p].register
DeltasTrue ==
  \A k \in DOMAIN intervals :
    LET i == intervals[k]
        a == truth[FirstAt(i.startRow)]
        b == truth[FirstAt(i.endRow)]
        grown == b.made - a.made
        restarted == a.restarts # b.restarts
    IN  Honest(FirstAt(i.startRow)) /\ Honest(FirstAt(i.endRow)) =>
        /\ i.delta <= grown \/ (restarted /\ definition.reset = "wrap")
        /\ ~restarted /\ grown < Modulus => i.delta = grown

(* GAUGE_AGGREGATION, COUNTER_AGGREGATION, from the rows alone: a series   *)
(* that is out of order, or that the policies its definition names refuse, *)
(* publishes nothing, and no more does a counter one of whose increments,  *)
(* or the sum or overall rate of whose increments, is no number; that one  *)
(* is rejected.  Every other series with something to show for itself is   *)
(* published, and then its duration is what passed between neighbouring    *)
(* rows that both count with no refused reset between them; otherwise none *)
(* was observed.                                                           *)
Fell(n) ==
  /\ Usable(samples[n]) /\ Usable(samples[n + 1])
  /\ samples[n + 1].value < samples[n].value
Joined(n) ==
  /\ Usable(samples[n]) /\ Usable(samples[n + 1])
  /\ definition.kind = "counter" /\ Fell(n) => definition.reset = "wrap"
Covered(t) ==
  \E n \in 1..Len(samples) - 1 : Joined(n) /\ samples[n].at <= t /\ t < samples[n + 1].at
Observed == {t \in Start..End - 1 : Covered(t)}
Growth ==
  [p \in Positions |->
     IF p > 1 /\ Joined(p - 1) THEN Delta(samples[p - 1], samples[p]) ELSE 0]

Refused ==
  \/ \E n \in Positions : Disorder(n)
  \/ definition.missing = "strict" /\ \E n \in Positions : ~Usable(samples[n])
  \/ definition.reset = "series" /\ \E n \in 1..Len(samples) - 1 : Fell(n)
Unheld ==
  /\ definition.kind = "counter"
  /\ \/ \E n \in 1..Len(samples) - 1 :
          Joined(n) /\ Rate(Growth[n + 1], samples[n + 1].at - samples[n].at) = Null
     \/ SumOf(Growth) > Largest
     \/ Observed # {} /\ Rate(SumOf(Growth), Cardinality(Observed)) = Null
Measurable ==
  IF definition.kind = "gauge" THEN \E n \in Positions : Usable(samples[n]) ELSE Observed # {}
CoverageHonest ==
  summary # Null =>
    /\ DOMAIN summary.aggregates # {} <=> Measurable /\ ~Refused /\ ~Unheld
    /\ Unheld => summary.status = "rejected"
    /\ summary.observed = IF DOMAIN summary.aggregates = {} THEN 0 ELSE Cardinality(Observed)

(* A complete series tells the truth about its whole window: every row     *)
(* counts, the first is at its start and the last at its end, and a        *)
(* counter that neither restarted nor went all the way round between two   *)
(* rows has exactly the events of the window as its total.                 *)
CompleteIsTrue ==
  summary # Null /\ summary.status = "complete" =>
    LET n == Len(samples) IN
    /\ \A p \in Positions : Usable(samples[p])
    /\ samples[1].at = Start /\ samples[n].at = End
    /\ \/ definition.kind = "gauge"
       \/ \E p \in Positions : ~Honest(p)
       \/ truth[1].restarts # truth[n].restarts
       \/ \E p \in 1..n - 1 : truth[p + 1].made - truth[p].made >= Modulus
       \/ LET events == truth[n].made - truth[1].made IN
          Same(summary.aggregates[definition.primary],
               IF definition.primary = "total" THEN <<events, 1>> ELSE <<events * Scale, End - Start>>)

(* The aggregators never build what validate_summary would refuse: an      *)
(* aggregation ends in a summary, not in an error.                         *)
SummariesValidate == summary # Null => ValidSummary(summary, definition)

(* A summary claims the time that was observed and nothing its validator   *)
(* would not let it claim.                                                 *)
SummaryHonest == CoverageHonest /\ SummariesValidate
=============================================================================
