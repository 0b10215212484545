--------------------------- MODULE MCVSTPSession ---------------------------
(* Instances of VSTPSession.  One suggestion per count: connections that   *)
(* read the same count get the same id.                                    *)
EXTENDS VSTPSession, TLC

CONSTANTS s0, s1, s2

MCSuggested == 0 :> {s0} @@ 1 :> {s1} @@ 2 :> {s2}

=============================================================================
