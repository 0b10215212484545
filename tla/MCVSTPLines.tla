---------------------------- MODULE MCVSTPLines ----------------------------
EXTENDS VSTPLines

Line(cmd) == <<cmd, "x", NL>>
(* Two commands, the second with the end of line of telnet. *)
Pairs == {Line(c) \o <<d, "x", CR, NL>> : c \in {"set", "delete", "lock"}, d \in Commands}
(* The commands that the order of the goroutines matters to. *)
Triples == {Line("lock") \o <<"lock", "x=9", NL>> \o Line("unlock"),
            Line("set") \o Line("delete") \o Line("get"),
            Line("subscribe") \o Line("set") \o Line("unsubscribe"),
            Line("setid") \o Line("subscribe") \o Line("set")}
(* Payloads that are missing, a timeout, an unknown word, an unended line. *)
Odd == {<<"set", NL, "get", NL, "delete", NL>>,
        <<"setid", NL, "unsubscribe", "x", NL>>,
        <<"lock", "x", NL, "lock", "x=9", NL, "set", "x", NL>>,
        <<"help", NL, NL, "ping", NL, "unlock">>}
MCStreams == Pairs \cup Triples \cup Odd
=============================================================================
