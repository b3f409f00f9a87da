----------------------------- MODULE MCWslcDaemon -----------------------------
(* Instances of WslcDaemon for TLC.                                          *)
EXTENDS WslcDaemon
=============================================================================
