---------------------------- MODULE MCUserRecord ----------------------------
(* A small instance of UserRecord.  Requests are interchangeable: each may be *)
(* any use case.                                                              *)
EXTENDS UserRecord
=============================================================================
