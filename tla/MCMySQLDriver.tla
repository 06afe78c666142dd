--------------------------- MODULE MCMySQLDriver ---------------------------
(* Instances of MySQLDriver for TLC.                                       *)
EXTENDS MySQLDriver

BothModes == {"prepare", "run"}
PrepareMode == {"prepare"}
=============================================================================
