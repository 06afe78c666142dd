-------------------------- MODULE MCMongoDBDriver --------------------------
(* Instances of MongoDBDriver for TLC.                                     *)
EXTENDS MongoDBDriver

BothModes == {"prepare", "run"}
PrepareMode == {"prepare"}
=============================================================================
