-------------------------- MODULE MCLatencyStats --------------------------
(* Instances of LatencyStats for TLC.                                      *)
EXTENDS LatencyStats

\* The types with a call of recordLatency: InsertMetric and DeleteDevice.
CallersTypes == {2, 3}

\* The last microsecond of a bucket and the first of the next, where the
\* width of the buckets changes, and one latency in between.
Boundaries == {0, 999, 1000, 99999, 100000, 999999, 1000000, 9999999, 10000000,
               100000000}
TwoLatencies == {50, 1500}
=============================================================================
