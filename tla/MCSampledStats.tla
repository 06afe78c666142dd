-------------------------- MODULE MCSampledStats --------------------------
(* Instances of SampledStats for TLC.                                      *)
EXTENDS SampledStats

AllRoles == {PrepareInsert, MongoRunInsert, RunInsert, RunSelect}
RunModeInsert == {RunInsert}
ThreeTimes == {0, 1, 3}
=============================================================================
