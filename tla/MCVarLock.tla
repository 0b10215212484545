----------------------------- MODULE MCVarLock -----------------------------
(* Instances of VarLock for TLC.  Words have 8 bits and a millisecond is    *)
(* 10 ns, so that a word overflows as it does with 64 bits and 10^6 ns.     *)
(* The timeout 255 is ^uint(0), what VSTP passes for a lock without one.    *)
EXTENDS VarLock
=============================================================================
