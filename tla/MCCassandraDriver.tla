------------------------- MODULE MCCassandraDriver -------------------------
(* Instances of CassandraDriver for TLC.                                   *)
EXTENDS CassandraDriver

BothModes == {"prepare", "run"}
=============================================================================
