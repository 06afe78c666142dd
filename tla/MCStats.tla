------------------------------ MODULE MCStats ------------------------------
(* Instances of Stats for TLC.                                             *)
EXTENDS Stats

\* A quick and a slow insert, and a select.
ThreeReports == {[op |-> 2, time_us |-> 10, cnt |-> 1],
                 [op |-> 2, time_us |-> 30, cnt |-> 2],
                 [op |-> 4, time_us |-> 20, cnt |-> 1]}
=============================================================================
