---------------------------- MODULE MCRamCacheDB ----------------------------
(* Instances of RamCacheDB for TLC.                                         *)
EXTENDS RamCacheDB, TLC

(* A parent, two childs and a second root. *)
MCKeys == {<<"a">>, <<"a", "b">>, <<"c">>}

(* Every key, and the name "a." that leads to the key a. *)
MCNames == MCKeys \cup {<<"a", "">>}

(* No key holds an "=". *)
MCBefore == [k \in MCKeys |-> k]

(* One-line texts: what VSTP can send. *)
MCPlain == {"x", "y"}
MCPlainHead == [v \in MCPlain |-> v]
MCPlainTail == [v \in MCPlain |-> {}]

(* "m" is the two-line text "x\nc=y", which an HTTP body can hold. *)
MCLines == {"x", "y", "m"}
MCLinesHead == ("x" :> "x") @@ ("y" :> "y") @@ ("m" :> "x")
MCLinesTail == ("x" :> {}) @@ ("y" :> {}) @@ ("m" :> {<< <<"c">>, "y" >>})

=============================================================================
