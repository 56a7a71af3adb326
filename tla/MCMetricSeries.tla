--------------------------- MODULE MCMetricSeries ---------------------------
(* A register of three readings, exported at most three times, under every  *)
(* policy: counters as totals and as rates, gauges that omit what is       *)
(* missing and gauges that refuse it.                                      *)
EXTENDS MetricSeries

Counter(primary, policy, reset) ==
  [kind |-> "counter", primary |-> primary, available |-> {primary}, missing |-> policy,
   reset |-> reset, modulus |-> IF reset = "wrap" THEN Modulus ELSE Null, nonNegative |-> TRUE]
Gauge(policy, nonNegative) ==
  [kind |-> "gauge", primary |-> "median", available |-> GaugeAggregations, missing |-> policy,
   reset |-> Null, modulus |-> Null, nonNegative |-> nonNegative]

Policies == {Counter("total", "break", r) : r \in {"segment", "series", "wrap"}}
FaultyDefinitions ==
  Policies \cup {Counter("rate", "break", r) : r \in {"segment", "wrap"}}
    \cup {Counter("rate", "strict", "segment"), Gauge("omit", TRUE), Gauge("strict", FALSE)}
=============================================================================
