------------------------------ MODULE Startup ------------------------------
(***************************************************************************)
(* main.go with misc/confs: from the arguments, the environment and the    *)
(* configuration file to a server that runs.                               *)
(*                                                                         *)
(* main declares every configuration item before it starts anything.  An   *)
(* item takes its value from the first source that has one when it is      *)
(* first asked for, whoever asks, and keeps it; then the services read     *)
(* their settings from the items, in the order in which main starts them.  *)
(*                                                                         *)
(* A text is a number or a word, and an argument is split into its key and *)
(* its value: "=" and ":" part them, or the argument stands alone.  A      *)
(* numeral that Atoi refuses is a word.  Of a path only the placeholder    *)
(* that it begins with is kept.                                            *)
(***************************************************************************)
EXTENDS Integers, Sequences, SequencesExt

CONSTANTS ArgLists,   \* what os.Args[1:] may be
          Settings,   \* what the environment, and the file, may set: [name, value]
          Fragments,  \* other texts that are part of the string of the log levels
          Millisecond,\* time.Millisecond, in units of time.Duration
          WordSize    \* the values of an int64, which a Duration is

Num(n) == [num |-> n]
Word(w) == [word |-> w]
EmptyText == Word("")
IsNum(t) == "num" \in DOMAIN t

(* A name is that of an item in one of its spellings, or a name of no item;*)
(* the second of two arguments may be the value of the first.  A name of   *)
(* the environment stands for its capitals too, which EnvSource also tries.*)
(* Only httpDataDir has a short spelling.                                  *)
IsText(t) == IsNum(t) => t.num \in Int
IsName(name) == name = <<name[1], name[2]>> /\ name[2] \in {"plain", "dashed", "short", "variable"}
ASSUME StartupAssumption ==
    /\ \A list \in ArgLists :
          /\ list \in Seq(Range(list))
          /\ \A i \in DOMAIN list :
                IsName(list[i].key) /\ IsText(list[i].value) /\ IsText(list[i].text)
    /\ \A entry \in Settings : IsName(entry.name) /\ IsText(entry.value)
    /\ \A t \in Fragments : ~IsNum(t) =>
          t.word \notin {"%APP_DIR%", "%PROJECT_DIR%", "%SUGGESTED_DATA_DIRECTORY%", "data", "app"}
    /\ Millisecond \in Nat \ {0} /\ WordSize \in Nat \ {0}

VARIABLES args, env, file,   \* the sources, as found
          pc,                \* where main is
          declared,          \* how many items initConfigurations has made
          items,             \* Confs.items: name -> value of the items made so far
          server             \* the settings that the services have read

startupVars == <<args, env, file, pc, declared, items, server>>

-----------------------------------------------------------------------------
(* initConfigurations: the items, in order.  Every item is known to all    *)
(* sources by a plain name, a name with dashes (httpDataDir by a shorter   *)
(* one as well), and one for the environment, looked for in this order.    *)
Item(name, kind, default) == [name |-> name, kind |-> kind, default |-> default]
LogItems == << Item("maxLogFileSize", "size", Num(52428800)),
               Item("fileLogLevel", "level", Word("info2")),
               Item("stdoutLogLevel", "level", Word("info")) >>
ClientItems == << Item("serverDiscoveryPort", "free", Num(5022)),
                  Item("maxTimeWaitingClient_seconds", "free", Num(43200)) >>
FolderItems == << Item("DbDirectory", "free", Word("%SUGGESTED_DATA_DIRECTORY%")),
                  Item("httpDataDir", "free", Word("%SUGGESTED_DATA_DIRECTORY%")) >>
HttpItems == << Item("httpApiPort", "port", Num(5024)),
                Item("httpApiHttpsPort", "port", Num(5025)),
                Item("httpApiCertFile", "free", Word("%APP_DIR%")),
                Item("httpApiKeyFile", "free", Word("%APP_DIR%")),
                Item("httpApiReturnsFullPaths", "free", Word("false")) >>
ServiceItems == << Item("vstpApiPort", "port", Num(5032)),
                   Item("RamCacheDbDumpIntervalMs", "interval", Num(60000)) >>
LimitItems == << Item("maxKeyLength", "positive", Num(255)),
                 Item("maxKeyWordLength", "positive", Num(64)),
                 Item("maxValueSize", "positive", Num(1048576)),
                 Item("allowRawDbAccess", "free", Word("false")) >>
Items == LogItems \o ClientItems \o FolderItems \o HttpItems \o ServiceItems \o LimitItems
ItemNames == {Items[i].name : i \in DOMAIN Items}

Spellings == <<"plain", "dashed", "short", "variable">>
PossibleNames(item) == [i \in 1..4 |-> <<item.name, Spellings[i]>>]

(* The texts that the validation finds in its string of the levels, as a   *)
(* whole or in part; debug2, which ValueMap knows, is not among them.      *)
LevelMap == [trace |-> 9, debug2 |-> 10, debug |-> 20, info2 |-> 30, info |-> 40,
             warning |-> 50, error |-> 60, critical |-> 70]
LevelTexts == {Word(w) : w \in DOMAIN LevelMap \ {"debug2"}} \cup Fragments

(* The validation functions, by the kind of the item.                      *)
IsPort(n) == 1 <= n /\ n <= 65535
Valid(kind, t) ==
    /\ kind \in {"size", "port", "interval", "positive"} => IsNum(t)
    /\ kind = "port" => IsPort(t.num)
    /\ kind = "interval" => t.num >= 0
    /\ kind = "positive" => t.num >= 1
    /\ kind = "level" => t \in LevelTexts

-----------------------------------------------------------------------------
(* NewCommandLineSource: the last argument with a key decides; one that    *)
(* stands alone takes the whole next argument as its value.                *)
CommandLine(name) ==
    LET says(i) == args[i].key = name /\ (args[i].alone => i < Len(args))
    IN  IF \E i \in DOMAIN args : says(i)
        THEN LET i == CHOOSE i \in DOMAIN args :
                         says(i) /\ \A j \in (i + 1)..Len(args) : ~says(j)
             IN  <<IF args[i].alone THEN args[i + 1].text ELSE args[i].value>>
        ELSE <<>>

(* os.Getenv: a variable that is empty is not there.                       *)
Environment(name) == IF env.name = name /\ env.value # EmptyText THEN <<env.value>> ELSE <<>>
FileEntry(name) == IF file.name = name THEN <<file.value>> ELSE <<>>

(* AddPlaceHolders and applyPlaceHolders.                                  *)
PlaceHolders == [w \in {"%APP_DIR%", "%PROJECT_DIR%", "%SUGGESTED_DATA_DIRECTORY%"} |->
                    IF w = "%SUGGESTED_DATA_DIRECTORY%" THEN "data" ELSE "app"]
Expand(t) == IF ~IsNum(t) /\ t.word \in DOMAIN PlaceHolders THEN Word(PlaceHolders[t.word]) ELSE t

(* Broken variant: the file is asked before the environment. *)
FindFileFirst(item) ==
    LET names == PossibleNames(item)
        inSource(F(_)) == F(names[1]) \o F(names[2]) \o F(names[3]) \o F(names[4])
    IN  inSource(CommandLine) \o inSource(FileEntry) \o inSource(Environment)

(* The values that the sources have for an item, the strongest first:      *)
(* Find of every source tries the possible names in order.                 *)
Find(item) ==
    LET names == PossibleNames(item)
        inSource(F(_)) == F(names[1]) \o F(names[2]) \o F(names[3]) \o F(names[4])
    IN  inSource(CommandLine) \o inSource(Environment) \o inSource(FileEntry)

(* Broken variant: a value that is not valid stays. *)
ResolveAnyhow(item) == Expand(IF Find(item) = <<>> THEN item.default ELSE Head(Find(item)))

(* A value that is not valid gives way to the default, not to the next     *)
(* source.                                                                 *)
Resolve(item) ==
    IF Find(item) # <<>> /\ Valid(item.kind, Expand(Head(Find(item))))
    THEN Expand(Head(Find(item))) ELSE Expand(item.default)

(* CreateConfig, and GetConfig by a name alone: an item that exists is     *)
(* left as it is, and one that does not is made on the spot; without       *)
(* possible names no source knows it and its value is empty.               *)
Made(its, names, value) ==
    [n \in DOMAIN its \cup names |-> IF n \in DOMAIN its THEN its[n] ELSE value]
Declare(its, item) == Made(its, {item.name}, Resolve(item))
GetConfig(its, names) == Made(its, names, EmptyText)

(* The conversions of DynamicVar, and ConfItem.Value for a level: a word   *)
(* that ValueMap does not know becomes 0.                                  *)
GetInt(t) == IF IsNum(t) THEN t.num ELSE 0
LevelOf(t) == IF ~IsNum(t) /\ t.word \in DOMAIN LevelMap THEN LevelMap[t.word] ELSE GetInt(t)
GetBool(t) == t \in {Num(1), EmptyText, Word("true"), Word("yes"), Word("ok")}

-----------------------------------------------------------------------------
NotRead == [level |-> -1, interval |-> -1, wait |-> -1, keyLength |-> -1,
            keyWordLength |-> -1, valueSize |-> -1, raw |-> FALSE,
            vstpPort |-> -1, httpPort |-> -1]

StartupInit ==
    /\ args \in ArgLists /\ env \in Settings /\ file \in Settings
    /\ pc = "declares" /\ declared = 0 /\ items = <<>>
    /\ server = NotRead

MovesTo(step) == pc' = step /\ UNCHANGED <<args, env, file>>

(* Broken variant: the last item is not declared. *)
DeclareTooFew ==
    /\ pc = "declares"
    /\ declared' = declared + 1
    /\ items' = Declare(items, Items[declared'])
    /\ MovesTo(IF declared' = Len(Items) - 1 THEN "logger" ELSE "declares")
    /\ UNCHANGED server

(* initConfigurations, one item.                                           *)
DeclareNext ==
    /\ pc = "declares"
    /\ declared' = declared + 1
    /\ items' = Declare(items, Items[declared'])
    /\ MovesTo(IF declared' = Len(Items) THEN "logger" ELSE "declares")
    /\ UNCHANGED server

(* A service starts: it reads items, which makes the ones not there yet.   *)
Starts(step, names, next) ==
    /\ pc = step
    /\ items' = GetConfig(items, names)
    /\ MovesTo(next)
    /\ UNCHANGED declared

(* initLogger panics when the log file cannot be opened.                   *)
InitLogger ==
    /\ \/ Starts("logger", {"fileLogLevel", "stdoutLogLevel", "maxLogFileSize"}, "arguments")
       \/ Starts("logger", {"fileLogLevel", "stdoutLogLevel", "maxLogFileSize"}, "ended")
    /\ server' = [server EXCEPT !.level = LevelOf(items'["stdoutLogLevel"])]

(* detectInvalidArguments: main ends when a key is no name of an item.     *)
DetectInvalidArguments ==
    /\ pc = "arguments"
    /\ MovesTo(IF \A i \in DOMAIN args :
                     \E j \in DOMAIN Items : args[i].key \in Range(PossibleNames(Items[j]))
               THEN "banner" ELSE "refused")
    /\ UNCHANGED <<declared, items, server>>

PrintBanner ==
    /\ Starts("banner", {"DbDirectory", "vstpApiPort", "httpApiPort", "httpApiHttpsPort",
                         "serverDiscoveryPort"}, "storage")
    /\ UNCHANGED server

(* NewRamCacheDB: an interval that is not positive is five minutes.        *)
InitStorage ==
    /\ Starts("storage", {"DbDirectory", "RamCacheDbDumpIntervalMs"}, "controller")
    /\ LET given == GetInt(items'["RamCacheDbDumpIntervalMs"]) IN
       server' = [server EXCEPT !.interval = IF given > 0 THEN given ELSE 300000]

(* The interval as a Duration, which wraps around.                         *)
Duration(ms) == ((ms * Millisecond + WordSize \div 2) % WordSize) - WordSize \div 2

(* backgroundDumper, a goroutine of the storage: NewTicker panics for a    *)
(* Duration that is not positive, and the program ends.                    *)
NewTickerPanics ==
    /\ pc \in {"controller", "vstp", "http", "serves", "signalled"}
    /\ Duration(server.interval) <= 0
    /\ MovesTo("panicked")
    /\ UNCHANGED <<declared, items, server>>

(* NewController: a waiting time that is not positive is ignored.          *)
NewController ==
    /\ Starts("controller", {"maxTimeWaitingClient_seconds", "maxKeyLength", "maxKeyWordLength",
                             "maxValueSize", "allowRawDbAccess"}, "vstp")
    /\ LET wait == GetInt(items'["maxTimeWaitingClient_seconds"]) IN
       server' = [server EXCEPT !.wait = IF wait > 0 THEN wait ELSE 43200,
                                !.keyLength = GetInt(items'["maxKeyLength"]),
                                !.keyWordLength = GetInt(items'["maxKeyWordLength"]),
                                !.valueSize = GetInt(items'["maxValueSize"]),
                                !.raw = GetBool(items'["allowRawDbAccess"])]

(* NewVSTP fails when its port is taken, and main ends.                    *)
StartVSTP ==
    /\ \/ Starts("vstp", {"vstpApiPort"}, "http")
       \/ Starts("vstp", {"vstpApiPort"}, "ended")
    /\ server' = [server EXCEPT !.vstpPort = GetInt(items'["vstpApiPort"])]

(* httpapi.New never fails: whether it can listen is found out later, by   *)
(* a goroutine that drops the error.                                       *)
StartHTTP ==
    /\ Starts("http", {"httpApiPort", "allowRawDbAccess"}, "serves")
    /\ server' = [server EXCEPT !.httpPort = GetInt(items'["httpApiPort"])]

(* A signal wakes main, which then waits for ever for a mutex it holds:    *)
(* the services go on and Finalize is not called.                          *)
Signalled ==
    /\ pc = "serves"
    /\ MovesTo("signalled")
    /\ UNCHANGED <<declared, items, server>>

MainGoesOn ==
    \/ DeclareNext \/ InitLogger \/ DetectInvalidArguments \/ PrintBanner
    \/ InitStorage \/ NewController \/ StartVSTP \/ StartHTTP

StartupNext == MainGoesOn \/ NewTickerPanics \/ Signalled

StartupSpec == StartupInit /\ [][StartupNext]_startupVars

-----------------------------------------------------------------------------
Serving == pc \in {"serves", "signalled"}

(* Type: whoever reads an item, it is one of initConfigurations.           *)
StartupTypeOK ==
    /\ declared \in 0..Len(Items)
    /\ DOMAIN items \subseteq ItemNames
    /\ server.raw \in BOOLEAN
    /\ \A f \in DOMAIN server \ {"raw"} : server[f] \in Int

(* README "Vss Helper Text", on the sources: command line arguments come   *)
(* before environment variables and these before the configuration file.   *)
(* When a server runs whose arguments all have a value and name an item    *)
(* once at most, an item has the value of the strongest source that names  *)
(* it, or its default if there is none or that value is not valid.         *)
PrecedenceHolds ==
    LET argsOf(n) == {i \in DOMAIN args : args[i].key[1] = n}
        plainArgs == \A i \in DOMAIN args :
                        ~args[i].alone /\ argsOf(args[i].key[1]) = {i}
        given(n) == IF argsOf(n) # {} THEN {args[i].value : i \in argsOf(n)}
                    ELSE IF env.name[1] = n /\ env.value # EmptyText THEN {env.value}
                    ELSE IF file.name[1] = n THEN {file.value} ELSE {}
    IN  Serving /\ plainArgs =>
           \A i \in DOMAIN Items :
              LET item == Items[i] IN
              items[item.name] = IF \E v \in given(item.name) : Valid(item.kind, v)
                                 THEN Expand(CHOOSE v \in given(item.name) : TRUE)
                                 ELSE Expand(item.default)

(* Whatever the sources hold, the services that main starts got settings   *)
(* they can work with: ports that exist, a dump interval and a waiting     *)
(* time above zero, a folder without placeholder, and room for names.  And *)
(* the program panics in NewTicker only for an interval that a Duration    *)
(* cannot hold.                                                            *)
SettingsAreUsable ==
    /\ Serving =>
          /\ IsPort(server.vstpPort) /\ IsPort(server.httpPort)
          /\ server.interval > 0 /\ server.wait > 0 /\ server.keyLength > 0
          /\ items["DbDirectory"] # Word("%SUGGESTED_DATA_DIRECTORY%")
    /\ pc = "panicked" => server.interval * Millisecond >= WordSize \div 2

(* The controller opens the internal variables only when a source names    *)
(* allowRawDbAccess: GetBool takes an empty value for true, so an item     *)
(* made by a reader before main declares it would open them unasked.       *)
(* Types included.                                                         *)
RawAccessIsAsked ==
    /\ StartupTypeOK
    /\ server.raw =>
          \/ \E i \in DOMAIN args : args[i].key[1] = "allowRawDbAccess"
          \/ env.name[1] = "allowRawDbAccess" \/ file.name[1] = "allowRawDbAccess"
=============================================================================
