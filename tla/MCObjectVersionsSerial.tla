----------------------- MODULE MCObjectVersionsSerial -----------------------
(* Instances of ObjectVersionsSerial for TLC; a single request at a time.  *)
EXTENDS ObjectVersionsSerial, TLC
=============================================================================
