--------------------------- MODULE MCVarObservers ---------------------------
(* Instance of VarObservers for TLC: two goroutines, two clients, the empty *)
(* metadata and one other, up to three observations.                        *)
EXTENDS VarObservers
=============================================================================
