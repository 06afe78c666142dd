---------------------------- MODULE RunningMean ----------------------------
(***************************************************************************)
(* RunningMean.cpp: the first value and the sum of the differences to it.  *)
(* The code computes in doubles, the model exactly.                        *)
(***************************************************************************)
EXTENDS Integers

\* Mutated form of NewMean: the first value is not counted.
NewMean_uncounted(v1) == [v1 |-> v1, n |-> 0, running |-> 0]

NewMean(v1) == [v1 |-> v1, n |-> 1, running |-> 0]

\* Mutated form of addSample: adds the value, not its difference to v1.
addSample_value(m, vi) ==
  [v1 |-> m.v1, n |-> m.n + 1, running |-> m.running + vi]

addSample(m, vi) ==
  [v1 |-> m.v1, n |-> m.n + 1, running |-> m.running + (vi - m.v1)]

\* samples() * mean(), where mean() is v1 + running / n.
WeightedMean(m) == m.n * m.v1 + m.running
=============================================================================
