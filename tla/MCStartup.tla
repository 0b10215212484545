----------------------------- MODULE MCStartup -----------------------------
(* Instances of Startup for TLC: up to two arguments, one variable of the   *)
(* environment and one entry of the file.  A Duration is 27 bits wide and a *)
(* millisecond is 10 units, so that 6710886 ms is the longest interval; the *)
(* source's own are 2^63 and 10^6.                                          *)
EXTENDS Startup

Arg(item, spelling, value) ==
    [key |-> <<item, spelling>>, value |-> value, alone |-> FALSE, text |-> Word("arg")]
(* "--key value" is two arguments, and the second is a key of its own. *)
Alone(item, spelling) ==
    [key |-> <<item, spelling>>, value |-> EmptyText, alone |-> TRUE, text |-> Word("arg")]
Value(n) == [key |-> <<"value", "plain">>, value |-> EmptyText, alone |-> TRUE, text |-> Num(n)]

Args == {Arg("httpApiPort", "plain", Num(8080)), Arg("httpApiPort", "dashed", Num(70000))}
        \cup {Arg("allowRawDbAccess", "dashed", v) : v \in {EmptyText, Word("false")}}
        \cup {Arg("maxKeyLength", "variable", Num(0)), Arg("stdoutLogLevel", "dashed", Word("debug2")),
              Arg("httpDataDir", "short", Word("%APP_DIR%")), Arg("RamCacheDbDumpIntervalMs", "dashed", Num(0)),
              Arg("DbDirectory", "dashed", Word("%APP_DIR%")),
              Alone("allowRawDbAccess", "dashed"), Alone("httpApiPort", "dashed"),
              Arg("httpPort", "dashed", Num(8080)), Value(8080)}
MCArgLists == {<<>>} \cup {<<a>> : a \in Args} \cup {<<a, b>> : a \in Args, b \in Args}
MCFragments == {EmptyText, Word("warn"), Num(2)}
MCSettings == {[name |-> <<i, "variable">>, value |-> v] :
                 i \in {"httpApiPort", "allowRawDbAccess"}, v \in {EmptyText, Num(1)}}
              \cup {[name |-> <<"vstpApiPort", "plain">>, value |-> Word("none")],
                    [name |-> <<"RamCacheDbDumpIntervalMs", "plain">>, value |-> Num(10000000)],
                    [name |-> <<"maxKeyWordLength", "plain">>, value |-> Num(0)],
                    [name |-> <<"DbDirectory", "plain">>, value |-> Word("%PROJECT_DIR%")],
                    [name |-> <<"nothing", "plain">>, value |-> EmptyText]}
=============================================================================
