---------------------------- MODULE MCNamedLock ----------------------------
(* Instance of NamedLock for TLC: three goroutines, two names.              *)
EXTENDS NamedLock
=============================================================================
