# Specifications of the Variables and Streams Server (VSS)

TLA+ models of the server in `src/` (Go), the TLC configurations that check them
on small instances, and TLAPS proofs of their main invariants for all instances.

## 1. The system

VSS is a server of named variables. Clients set, read, delete, lock and observe
variables over a text protocol on TCP (VSTP) or over HTTP and WebSocket. All
state lives in one storage, a tree of dot-separated keys in memory that is dumped
to a text file now and then. The variables, the lists of their observers, their
locks and the registry of clients are all keys of that tree.

| Component | State | Operations | Interacts through | Hard because |
|---|---|---|---|---|
| Named locks, `misc/namedlock.go` | map from name to a channel of capacity 1 | `NamedLockRun(name, timeout, f)` | called by the variable and client helpers | first-use races, time-outs against tokens |
| RAM cache storage, `services/storage/ramcachedb.go` | tree of nodes, `pendingChanges`, dump file, `stopCh` | `Set`, `Get`, `HasValue`, `GetChilds`, `DeleteValue`, background dumper, `load` | called by everything in the controller | death during a dump, failing disk, text format |
| Variable helper, `controller/controller_varhelper.go` | below `vars.<name>`: the value, `_lock`, `_observers.list`, `_observers.byId` | observation management, `Lock`, `Unlock`, flags | storage; named locks `<name>._observationLock` and `varLockerSystem` | multi-write updates, readers without the lock |
| Client helper, `controller/controller_clienthelper.go` | below `internal.clients`: api id, last life signal, observed variables | `initialize`, register/unregister, `Notify`, removal | storage; named lock `db.intenal.clients`; the APIs | two lists that must agree, expiry, late touches |
| Controller, `controller/controller.go` | the APIs, limits; a goroutine per call | `SetVar`, `GetVars`, `DelVar`, `LockVar`, `ObserveVar`, `ClientConnected`, notifications | helpers; `NotifyClient` and `CheckAlive` of the APIs | every call and every notification is a goroutine |
| VSTP API, `services/apis/vstp/vstp.go` | `clientsById`, `clientsByTcpCli`, input buffers, id counter | connect, disconnect and data callbacks, one goroutine per line, `NotifyClient` | TCP server, controller | lines in any order and after the disconnect, resumed ids |
| TCP server, `misc/tcpserver` | listener, callbacks | accept loop, a handler goroutine per connection | callbacks into VSTP | accepts before its callbacks are set |
| HTTP API, `services/apis/httpapi/httpapi.go` | WebSocket observers | GET/POST/DELETE, JSON to variables and back | controller | answers built from reads that others overtake, objects and arrays in random order |
| Configuration, `misc/confs`, and `main.go` | items, made once by whoever asks first | `CreateConfig`, `GetConfig`, the start of the services | every service reads its settings | precedence, order of the first reads, conversions |
| Logger, values | writers | | | output only |

What makes each correct:

- **Named locks**: one goroutine inside per name; no token lost or doubled by a
  time-out; every waiter is served.
- **Storage**: a clean `pendingChanges` means the file holds the memory; what is
  written reaches the disk; a restart brings back what was dumped.
- **Variable helper**: the list of observers has no holes; an indexed observation
  is listed, at its index (`ObserveVar` does nothing for an indexed one, so an
  index without its entry is a subscription lost for ever); one owner per lock; a
  `SetVar` that begins under a lock does not write.
- **Client helper**: what variables list as observers and what clients list as
  observed agree; a client that no API answers for is removed with all it observes.
- **Controller**: a change reaches everybody who observes the name or a pattern
  above it; a system at rest has told its observers the current values.
- **VSTP**: notifications of an id reach a connection of that id; no line is lost
  or torn; a client that awaits its answers reads them whole, and a confirmed
  write is seen by what follows.
- **HTTP**: a JSON answer tells values the variables had, and leaves none out.
- **Start**: the stronger source wins, and every service gets usable settings.

## 2. Modules

| Module | Models | Role |
|---|---|---|
| `Mutex` | the promise of named locks | abstract specification |
| `NamedLock`, `BuildingBlockProofs` | `namedlock.go` | refines `Mutex` |
| `DurableStore` | the promise of a persistent store | abstract specification |
| `RamCacheDB`, `RamCacheDBProofs` | `ramcachedb.go` | refines `DurableStore` |
| `ObserverList`, `BuildingBlockProofs` | the observers of a variable as atomic operations | abstract specification |
| `VarObservers`, `VarObserversProofs` | observation management of the variable helper, one storage write per step | refines `ObserverList`; uses the lock as `Mutex` |
| `VarLock`, `VarLockProofs` | `SetVar`, `DelVar`, `LockVar`, `UnlockVar` on one variable, dumps and restarts | uses the lock as `Mutex` |
| `ClientRegistry`, `ClientRegistryProofs` | `controller_clienthelper.go` and the calls of the controller that use it | composes the client's list with the operations of `ObserverList` |
| `Delivery`, `DeliveryProofs` | `SetVar`, `DelVar`, `GetVars`, `ObserveVar`, reconnection and the notification goroutines | values and messages of several names and patterns |
| `VSTPSession`, `VSTPProofs` | ids and connections of the VSTP API over the TCP server | |
| `VSTPLines`, `VSTPProofs` | the lines of one connection: framing, commands, answers | VSTP over the TCP server and the controller |
| `HttpTree`, `ServerProofs` | GET, POST and DELETE of the HTTP API over `GetVars` and `SetVar` | |
| `Startup`, `ServerProofs` | `main.go` and `misc/confs` | |
| `MC*` | | instances for TLC |

Definitions keep the names of the source where possible. A definition commented
"Broken variant" is not part of a specification: it is a plausible bug that the
property named for it in `PROJECT.json` must detect.

### NamedLock
`made` and `tokens` are the map and the contents of the channels, `pc` and `call`
the goroutines inside `NamedLockRun`. The lookup of the channel is one step
because it runs under `namedLocks.mu`. `TimeOut` may fire with a token available,
as Go's `select` may choose it. `Release` is the deferred `releaseNamedLock`, so it
also stands for a panic of `f`. The abstract holder is whoever is inside.

### RamCacheDB
A node is the sequence of words that leads to it; `nodes` is the tree, `val` the
values, `file` the entries of the dump. `Resolve` is what `scrollTree` does with a
name that ends in a dot: one empty last word is dropped. The dumper holds `r.mu`
while it writes, so operations wait (`MuFree`), but the process can die there:
`Restart` is enabled in every state and then finds a `TornFiles` file: a depth-first
prefix of the blocks in some order of the Go maps, possibly with the last one cut.
`RestartUnread` is a start whose two calls of `load` both failed: the memory is
empty, nothing is pending, and the file stays until the next dump replaces it
(`unread` remembers it).
`DumpFails` is an error of `MkdirAll` or `WriteFile`, at any point of the write. A
text is abstract: `HeadLine` is its first line, `TailEntry` the entry that a later
line looks like, `Stub` a cut text. A line is split at its first "=":
`BeforeEquals` is what stands before the first one of a key (the key itself when it
has none), and `Glued` the text that comes back for a key that was cut there.
`Finalize` is modelled, but main never calls it. The abstract store sees `Get` of every key and
what `load` would bring back; a dump that is not finished leaves an
`IsPartialCopy` of the memory.

### VarObservers and ObserverList
All changes of an observer list run under the named lock of the variable, so an
operation's reads are settled when it enters; `todo` holds its remaining storage
writes, and each `Write` applies one. `Observe` is the test of `ObserveVar`, which
runs without the lock and can see intermediate states. `LockTimesOut` is the
ignored error of the 10 s time-out. `stable` remembers the stored data when no
critical section was in progress: it is the abstract list that `ObserverList`
changes in one step per operation. `RemoveObservationById` and
`RemoveAllObservations` have no callers today and are modelled as well. There is no
restart in this module. `IndexedIsListed` holds in every intermediate state, so it
also says what a dump between two writes can contain, but not for the client whose
observation is being written: that one may come back cut in two.

### VarLock
One variable, one step per storage call and lock operation. `SetChecks` and
`SetWrites` are two steps because `SetVar` holds nothing between them. Time is the
age of a `Lock` call; `MaxTimeout` is the multiplication of the timeout in a signed
word of `Width` bits, which for some timeouts is negative (`Overflows`). `Dump` copies the flag to `saved`, and `Restart` brings that
copy back with no goroutine left to own it (`orphan`). `grants`, `barred` and `early`
are history variables: `barred` are the `SetVar` calls that began while somebody
owned the lock.

### ClientRegistry
`observers` and `indexed` are the lists of the variables, `node` what is stored of a
client, `job` what each goroutine does. A step is one critical section
(`initialize`, `RegisterNewObservation`, `UnregisterObservation`,
`RemoveClientFromObservationSystem`), one operation on a variable's list, or one
call of an API. `started` is `c.apis`, which the APIs fill when they are up while
their clients may already be connecting (`EarlyApis`). A notification looks up the
API of its client (`LookUp`), refreshes the life signal (`Initialize`), sends, and on
failure tests the age and deletes the client (`CheckClientLiveTime`, `Collect`,
`Purge`). `TimesOut`, `PurgeTimesOut` and
`StopTimesOut` are the time-outs of the named locks, whose errors the code drops: what
the critical section would have done is left out and the call goes on. `Dump` copies
the lists and the nodes to `saved` at any step between critical sections, and
`Restart` brings the copy back; a dump inside a critical section is left to
`VarObservers`, a start that cannot read its file to `RamCacheDB`. `uneven` are the clients for which the code itself lets the two lists
drift: a call that overlaps their deletion, one whose list was not changed because of
a time-out, one that was half done when the storage was dumped, or a stop without its
observe. `ListsAgree` is about all others.

### Delivery
A name is a sequence of words and "a.*" is the name whose last word is the star, as
in the storage. `notifying` are the goroutines of `notifyVarModification`, each with
the observer lists it has still to visit (the name, the patterns of its parents,
the pattern below it); every observer found gets a goroutine (`inflight`), so messages may
arrive in any order. `sub` is an observation and how far the goroutine of
`ObserveVar` has come that reads and sends the current value; `resuming` the same for
a client that reconnects. `Found` is what `GetVars` returns. A lock that times out leaves its operation out, up
to `MaxTimeouts` times: `NotifyNobody` is a visit that finds no observer, and an
`ObserveVar` may miss the list of the variable (`listed`) or that of the client (`own`)
and still send the current value. `due`, `missed` and `crossed` are history
variables: who was to be told of a change, who was not found by a visit that timed
out, and which names changed while a message about them was on its way.

### VSTPSession
`stage` counts the callbacks `NewVSTP` has set; the server accepts from the start.
The handler goroutine of a connection is `conn`; `running` are the goroutines of its
lines, in any order and also after the disconnect callback. `Accepts` and `Connects`
split the connect callback where it reads and increments `cliIdCount` without a
lock; the increment may or may not see those of others. `wedged` means that a
goroutine waits for `clientsLock` while it holds it. Kept are the commands that
change the maps (`setid`, `subscribe`); what a command reads and answers is in
`VSTPLines`.

### VSTPLines
One connection and one variable. The client sends a stream of fragments; a read
takes any number of them, so a line may be cut after its command, its payload or
its carriage return. `TakeLine` cuts a line off the buffer and starts its goroutine
in `tasks`; a goroutine has a `Script`: lines of the answer and one call of the
controller, in the order of the code, one step each. A lock that is taken may wait
(`LockTimesOut` is not fair, as a timeout may be as long as it likes). `patient` is
a client that awaits each answer. `ver`, `acked` and the `floor` of a task tell which
writes an answer must have seen.

### HttpTree
A JSON object is the set of its leaves, pairs of a path and a scalar. A GET has
three stages, one step per variable: `Read` (`GetVars`, while others write),
`Insert` (`insertNested`, in the order in which `GetVars` may return the names:
childs first) and `NormalizeArrays` (in any order of the keys). `Json` is how
`encoding/json` writes a text inside an object. The answer for a single variable is
written by hand (`AnswerScalar`): `Inferred` goes by `InferType`, gives a bool as `false`
or as bytes that are no JSON (`Broken`), a number formatted anew (`Number`), and a text
between quotes as it is (`Quoted`). A POST sets its values one by one in any order and
stops at the first that `SetVar` refuses (`Refusals`: a name that is not allowed, a value
that is too long, or a variable that happens to be locked); a name with a star
(`Starred`) passes and is not stored. It aborts at a null, where `NewDynamicVar` panics
and `net/http` recovers. Empty words of a name, which `insertNested` skips, do not
occur among `Names`.

### Startup
`items` is the map of configuration items, each with the value it got when it was
first asked for. `CommandLine`, `Environment` and `FileEntry` are the sources,
`Resolve` is `CreateConfig` with validation and placeholders, `GetInt`, `GetBool` and
`LevelOf` the readers. `LevelTexts` are the levels that pass: their names and any other
part of the string they are looked for in (`Fragments`). `httpDataDir` has a fourth name.
Then main starts its services in order, each reading its settings, and waits for a
signal. It ends early when the log file cannot be opened or an argument is unknown
("refused"), and the goroutine of the dumper ends it when the interval is no positive
`Duration` ("panicked").

## 3. Runs

| Run | Instance | Checks | Result |
|---|---|---|---|
| `named_lock` | 3 goroutines, 2 names, timed and untimed | mutual exclusion, conservation of the token, service of all waiters, refinement of `Mutex` | hold |
| `storage` | keys `a`, `a.b`, `c`, the name `a.`, two texts; failing and torn writes, unreadable files, deaths anywhere | types, clean means durable, durable in the end, refinement of `DurableStore` | hold |
| `var_observers` | 2 goroutines, 2 clients, 2 metadata, up to 3 observations | list contiguous, indexed is listed at any moment, refinement of `ObserverList` | hold |
| `var_lock` | 2 goroutines, timeouts 0, 1 and 255 (`^uint(0)`) ms, 8-bit words, dumps and restarts | one owner, flag has owner, early time-outs only of timeouts that overflow, no later `SetVar` writes, every `LockVar` returns | hold |
| `vstp_session` | 3 connections, 1 line each, 2 ids that clients ask for | route matches name, closed is forgotten, only unseen connections wedge, routes are not stolen | hold |
| `client_registry` | 1 client with 2 metadata, 2 goroutines, lock time-outs, a dump in the middle of a call, a restart | the lists agree, a client without API is purged in the end | hold |
| `delivery` | 1 client, `a.b.c` and `a.*`, 2 changes or 1 change and 1 lock that times out, 2 connections | all matches are told, a system at rest is caught up, an old value last only if messages crossed, a deleted tree is gone | hold |
| `http_tree` | 1 GET, of one of 5 queries, against 1 writer, 6 names with numerals, childs of childs, a refused one, which is asked for as well, and one with a star; a text that is too long | the answer is faithful, no scalar where an object is needed | hold |
| `vstp_lines` | 41 streams of 2 or 3 lines, patient or not | lines are neither lost nor torn, acknowledged writes are seen, patient clients read whole blocks, every line is answered | hold |
| `startup` | up to 2 arguments of 13, environment and file entries | precedence, usable settings, a panic only for an interval that overflows, raw access only on request | hold |
| `storage_newline` | as `storage`, a text with a newline | clean means durable | violated |
| `client_expiry` | 1 silent client of a running API | silent clients are finalized | violated |

The type invariants are conjuncts of `ListIsContiguous`, `ListsAgree`,
`MatchesAreTold`, `NoScalarInTheWay`, `FramesMatch` and `RawAccessIsAsked`, and are
proved with them; those of `NamedLock`, `VarLock` and `VSTPSession` are theorems of
their own.

Why the bounds suffice. A race on a lock or a map needs two actors, and a third to
be hurt by it: three goroutines in `named_lock`, three connections in
`vstp_session`. A shift of the observer list needs an entry before and one after
the removed one: three observations (`MaxObs`). A tree needs a parent, a child and a
second root. In `VarLock` two actors are enough for the fair run; the invariants are
proved for any number. 8-bit words with a factor of 10 overflow as 64-bit
words with 10^6 do, and `MaxAge` is the longest timeout that does not overflow. A
`Duration` of `Startup` has 27 bits and 10 units per millisecond for the same reason:
the defaults fit and an interval of 10^7 ms does not. The lists of
`ClientRegistry` are per client and per variable, so one of each shows what two
goroutines can do to them. A call that is cut by a dump needs only itself: the
goroutines outside `CutProcs` are idle at a dump and start nothing behind it, and one
restart (`MaxRestarts`) brings the dump back. `MaxObs` is 1 there: a client with
observations of several metadata is left to `var_observers` and the proofs.
`MaxUneven` ends an instance whose clients have all drifted. Two
changes and a return (`MaxConnects`) are what it takes for messages to
cross. `MaxCalls` bounds the changes and the time-outs together: a run has two
changes, or one of them and one time-out (`MaxTimeouts`), which shows each way in
which an operation can be left out, as what it leaves out is remembered per observer.
A GET that meets one request (`MaxPosts`) can be overtaken by each of its
writes. Two lines are enough to interleave answers; three let one wait for
another. `MaxLines`, `MaxGrants`, `MaxWait` and the domain of `Suggested` are the
other bounds in the guards; `FairLines` only says how many goroutines of
`VSTPLines` the fairness names.

Deadlock is not checked where the system may stop: `vstp_session` and `vstp_lines`
(every connection has come and gone), `delivery` and `http_tree` (the calls of the
bound are used up), `startup` (main has ended or serves).

### Fairness
- `NamedLock`: functions under a lock return (finite sequences of storage calls),
  timers fire (weak fairness); receivers of a Go channel are served in order of
  arrival (strong fairness of `Take`).
- `RamCacheDB`: the ticker goes on and a write ends (weak fairness of `DumpBegins`,
  `DumpEnds`). Nothing forces a restart, a failure or `Finalize`, and
  `EventuallyDurable` excuses itself with those.
- `VarLock`: goroutines that can run do, clocks advance, and entering
  `varLockerSystem` is strongly fair, which is `WaitersAreServed` of `NamedLock`.
  Nobody is assumed to ever call `UnlockVar`.
- `ClientRegistry`: goroutines run (weak fairness of `Steps`), and variables go on
  changing (strong fairness of `NotifyVar`): `ApilessIsPurged` and the expiry are
  promised for clients whose variables change, as only a failed notification looks
  at a client. A goroutine whose lock times out has taken its step as well; a client
  that is left behind by it is `uneven`. `RegistryTimedSpec` adds that time passes.
- `VSTPLines`: the handler and the goroutine of every line run. Weak fairness of the
  reads also makes the client send the rest of its stream, unless the connection
  breaks: `EveryLineIsAnswered` speaks of lines that are sent. A lock that waits need
  not time out.
- `Delivery`, `VSTPSession`, `HttpTree`, `ObserverList`, `VarObservers` and `Startup` have
  no fairness; only safety is claimed for them.

### Disagreements between code and documentation
With a run:
- `storage_newline`: a value with a newline is dumped as two lines; `load` cuts the
  value and may overwrite another key (`ramcachedb.go:341`, `:359`), against
  "Variable persistency" of `src/README.md:120`.
- `client_expiry`: every notification builds a client helper, which refreshes the
  life signal before `checkClientLiveTime` looks at it
  (`controller_clienthelper.go:97`), against `assets/confs.conf:4`.

The models show more of them, without a run of their own.

Storage and variables:
- a key with "=" comes back as another key (`ramcachedb.go:366`). The id and the
  metadata of an observer are part of keys (`controller_varhelper.go:100`) and are not
  filtered; `PlainData` excludes such keys;
- VSTP's `lock` without a timeout passes `^uint(0)`, which becomes a negative duration
  and gives up at once (`controller_varhelper.go:284`, against `controller.go:306`);
  `var_lock` has this timeout, and `EarlyOnlyIfOverflows` makes its exception for it;
- a start that cannot read the file (`ramcachedb.go:59`) goes on with an empty store,
  and the next dump overwrites the file; `CleanMeansDurable` makes an exception until
  then, and `DurableStore` allows it (`RecoverNothing`);
- a failed dump clears `pendingChanges` and is not tried again (`ramcachedb.go:110`);
  `CleanMeansDurable` makes an exception for it;
- `HasValue` is true for nodes without a value (`ramcachedb.go:209`, against
  `istorage.go:12`);
- unsubscribing one metadata removes the index of all observations of the client
  (`controller_varhelper.go:187`, against the comment above it);
- two equal `subscribe` commands in flight register twice (`controller.go:346`); a
  `subscribe` without metadata is refused when the client has one with metadata,
  because the tested name ends in a dot (`controller_varhelper.go:324`);
- `SetVar` writes a variable that was locked after its test (`controller.go:159`,
  against `:116`); `LockBarsLaterSets` is what remains.

Controller:
- a client that observes "a.*" and comes back is sent what `getVarInternal("a.*")`
  finds, which is nothing (`controller.go:519`, against `src/README.md:135`); `CaughtUp`
  speaks of observers of names;
- a name with a star that reaches `SetValue` is not stored and no error is returned,
  though its observers are notified and a POST is answered 204
  (`controller_varhelper.go:225`, against `src/README.md:134`);
- the time-outs of the named locks are dropped (`controller_varhelper.go:85`,
  `controller_clienthelper.go:86`, `:173`, `:197`, `:223`): a change may find no observer, and
  an observation may be in one list only; such clients are `uneven`, or do not `Follows`;
- a `StopObservingVar` may overtake the `ObserveVar` before it, and
  one of an observation that does not exist takes the variable from the list of the
  client (`controller.go:369`); such clients are `uneven`;
- an observer of the bare "*" is told of no change:
  `notifyParentGenericObservers` stops at the first word (`controller.go:457`), so
  `Matches` asks for a pattern with a parent;
- `DelVar` of a missing variable reports success: the branch at `controller.go:266`
  is not reached.

VSTP:
- a `setid` that runs after its connection's disconnect callback keeps a dead
  connection in the maps (`vstp.go:377`, against `:106`); `ClosedIsForgotten`
  makes an exception for such lines;
- the end of a client's old connection, noticed late, deletes the route of its new
  one when the two share an id (`vstp.go:110`, against `src/README.md:248`);
- with `EmptyId` in `Asked` `RouteMatchesName` fails (`vstp.go:372`);
- `wedged` is reachable through a connection accepted before the callbacks are set
  (`vstp.go:132`);
- `lockstatus` answers without a block, and `unsubscribe` from a connection without
  an id is not answered; `EveryLineIsAnswered` and `PatientReadsBlocks` know both.

HTTP:
- a lone true value is answered as `trye` (`httpapi.go:203`), and a lone text without
  escaping (`:214`), against `src/README.md:98`; the shape of the answer is not that of
  line 96 either, and "007" comes back as 7. `AnswerIsFaithful` says of such an answer
  that it is what `Inferred` makes of a value, JSON or not;
- an object with numeric keys becomes an array only if they count from 0 without a gap
  and Go's random map order gives them ascending (`httpapi.go:484`, against the comment
  at `:466`);
- a GET of "a.*" that finds only `a` keeps the whole name ("let fullName intact",
  `httpapi.go:221`), one that finds only `a.a` cuts the base off (`:226`): both
  answer `{"a": v}`, and `NamesOf` has both names for such a leaf;
- a POST of JSON ignores the path, and its errors are dropped (`httpapi.go:263`); a
  null in it panics after some values were set (`:298`).

Start:
- an interval that passes the validation (`main.go:486`) may overflow as a `Duration`
  (`ramcachedb.go:92`), and `time.NewTicker` panics: "panicked" is reached in `startup`;
- "0 means no limit" of `maxKeyWordLength` and `maxValueSize` (`main.go:521`, `:542`) does
  not pass their validation, and the default limit applies;
- the form `--http-api-port <port>` of the help (`main.go:138`) ends the program, as
  `detectInvalidArguments` takes the port for a name (`:213`);
- help and README name forms that are ignored or refused:
  `VSS_RAM_CACHE_DB_DUMP_INTERVAL_MS`, `--http-data-folder`;
- "debug2" is in the map of levels and refused, "warn" is accepted and becomes
  level 0; an empty `allowRawDbAccess` counts as true;
- the errors tested after `httpApiHttpsPort` and `vstpApiPort` (`main.go:431`, `:472`) are
  those of earlier items, and a failure of the HTTP listener is dropped
  (`httpapi.go:55`);
- after a signal main locks `mx` a second time and does not get to the services
  that "finalize services in reverse order" (`main.go:118`) speaks of: `Finalize`,
  modelled in `RamCacheDB`, is not called;
- `--help` and `--version` do not end the program by themselves.

## 4. Proofs

All proofs hold for any sets of goroutines, keys, clients and ids; the constants
satisfy the named assumptions of their modules, which TLC evaluates on every run.
`VarObservers` and `ClientRegistry` count goroutines in their bounds and
properties, so their assumptions say that `Procs` is finite. `LinesAssumption`
says that a stream is a finite sequence of fragments. `StartupAssumption` says
that names are those of an item in one of the four spellings, or of no item, that
the number of a numeric text is an integer, and that no fragment of a level is a
placeholder. `HttpAssumption` says that names are
non-empty, that `SetVar` refuses a name with the word "_value"
(`controller.go:126`, so for a server without raw access where it is the first
word), that different keys are different numbers, and that each text has a type and
its forms in JSON. `KeysAssumption` and `TextsAssumption` say that a key cut at its "="
is a key, and that the texts `load` makes up (`Stub`, `Glued`) are not stored ones.

| Theorem | Says | Argument |
|---|---|---|
| `LockTypeCorrect`, `LockTokenConserved`, `LockMutualExclusion` | invariants of `NamedLock` | `TokenConserved` with types and mutual exclusion is inductive: entering needs a token, and there is one only when nobody is inside |
| `LockNoDoubleRelease` | the `default` of `releaseNamedLock` is dead | from `TokenConserved` |
| `LockImplementsMutex` | refinement of `Mutex` | the holder is unique, so a step changes it only by `Take` and `Release` |
| `StorageTypeCorrect` | types of `RamCacheDB` | action by action; `Resolve` leads every name to a key. The next two theorems also use that every prefix of a node is a node (`TreeIsClosed`), which the model has to keep and a tree of pointers has by itself |
| `StorageCleanMeansDurable` | a clean flag means nothing to lose, unless the last dump failed or the file was not read | assumes `PlainData` (one-line values, keys without "="; `storage_newline` shows that it is needed); for such data a dump followed by `load` is the identity |
| `StorageImplementsDurableStore` | refinement of `DurableStore` | assumes `PlainData`; strengthened by: the file has one text per key, so what `load` brings back is determined; a finished dump copies the memory and a torn one leaves a part of it |
| `ListTypeCorrect`, `ListIndexSound` | invariants of `ObserverList` | assume `MaxObs \in Nat`; entries that did not move lie before the removed place, moved ones have been indexed again |
| `ObserversListIsContiguous`, `ObserversIndexedIsListed` | invariants of `VarObservers` | see below |
| `ObserversImplementList` | refinement of `ObserverList` | see below; with `ListIndexSound`, an index entry leads to its observation whenever no critical section is in progress |
| `VarLockTypeCorrect`, `VarLockOneOwner`, `VarLockFlagHasOwner` | invariants of `VarLock` | strengthened by `FlagProtected`: whoever is between entering and leaving holds the named lock, and nobody has been granted when the flag is about to be set |
| `VarLockBarsLaterSets` | a `SetVar` that began under a lock does not write before it is released | from `FlagHasOwner`: the flag the call tests is set as long as there is an owner, and a release clears `barred` |
| `VarLockEarlyOnlyIfOverflows` | `LockVar` gives up early only with a timeout that overflows | no assumption on the timeouts: for one that fits, `MaxTimeout` is the product itself; the rest is arithmetic of the age |
| `SessionTypeCorrect`, `SessionRouteMatchesName` | invariants of `VSTPSession` | the second assumes `EmptyId \notin Asked`; strengthened by: no connection is named "", a connection before its connect callback has no name, and only connections past it run lines |
| `SessionClosedIsForgotten` | a closed connection is in no map unless a late line brought it back | the same inductive invariant and assumption: its route and its name go together, and `Forget` deletes both |
| `SessionOnlyUnseenWedges` | the API stops only through a connection accepted too early | strengthened by: an open connection without a buffer has no name and no line, so it is one that no connect callback has seen |
| `SessionRoutesAreNotStolen` | a connection loses the route of its id only by renaming, closing, or to another of that name | case by case over the three ways in which the maps change: `Bind`, `Forget`, `Rename` |
| `RegistryListsAgree` | the two lists of observations agree, in memory and after a restart | see below |
| `DeliveryMatchesAreTold`, `DeliveryCaughtUp`, `DeliveryLateOnlyIfCrossed` | invariants of `Delivery`: nobody whom a change concerns is left out but by a time-out, and observers of a system at rest that are on both lists and were visited know the current values | see below |
| `FramesMatchHolds` | however the reads cut the stream, no line is lost, torn or doubled | see below |
| `AckedIsSeenHolds`, `PatientReadsBlocksHolds` | a confirmed write is seen by what follows; a client that awaits its answers reads whole blocks | see below |
| `HttpInvHolds`, `AnswerIsFaithfulHolds`, `NoScalarInTheWayHolds` | a JSON answer tells what the variables were, and all that kept its value | see below |
| `StartupInvHolds`, `PrecedenceHoldsAlways`, `SettingsAreUsableHolds`, `RawAccessIsAskedHolds` | the settings of a server that runs | see below |
| `DeliveryDeletedIsGone` | a `DelVar` that no `SetVar` raced leaves no value at or below its name | the same inductive invariant, conjunct `StillToDelete` |

**VarObservers.** Neither invariant is inductive: in the middle of an operation the
list has a hole or a double. The inductive invariant `ObserversInv` describes every
intermediate state relative to `stable`, the storage when the operation began:
which writes are left (`RegisterTodo`, `RemovalTodo`, `LastTodo`) and what the writes
done so far have made of the storage (`RegisterDb`, `ShiftingDb`, `RemovedDb`). The
entries behind the removed one have moved up to some turn of the loop, and
`Followed` says that the index of an observation is that of the last moved entry
that is equal to it, or still the old one if none is. `Room` bounds the counter by
the registrations that may still come. When the last write is done the storage is
again a `SoundList`, and it is the one that the abstract operation makes of
`stable`, which is the refinement.

**ClientRegistry.** `ListsAgree` counts: entries of the client in the variable's list
equal what the client's list says, plus registrations that are not yet noted, less
stops that are not yet taken out. The inductive invariant `RegistryInv` adds that
jobs name clients and variables, that the dump agrees for every client that was not
half done in it (`SavedIsEven`, which carries `ListsAgree` through a restart), and per
client (`ClientIsSound`) that a deletion which has read the client's list knows every
variable that has entries of it, and that no stop is under way during a purge. The
counting lemmas (`AppendCounts`, `RemoveAtCounts`, `SelectionCounts`) give
bijections between the entries before and after an operation. For this
`RemoveAllClientObservations` is written with the n-th place that is kept
(`NthOther`), as `SelectSeq` has no definition the provers can use.

**Delivery.** `CaughtUp` speaks of states at rest only, so the inductive invariant
`DeliveryInv` says what holds on the way to them. As long as an observer past its
registration, on both lists and never missed by a visit, has not been sent the
current value, something that carries the value
is on its way (`EveryoneIsReached`, `Awaits`): a notification that has still to visit
the list of the name, a message, a return of the client that has still to read or to
send it, or the registration's own read. A step that takes one of them away hands the
value on to the next or delivers it, and a change starts a notification. If no change
of the name crossed a message about it and no visit of its list timed out (`missed`), all that is on its way agrees
(`StraightUnlessCrossed`), which gives `LateOnlyIfCrossed` whatever the order of
arrival. `DueIsPlanned` says through which list somebody is still to be told; at the
start of a notification it rests on the lemma `TargetsAreTheMatches`: the lists that
`notifyVarModification` visits are exactly the patterns that match the name.
`StillToDelete` says that what an unraced `DelVar` has still to find is on its list.
`Targets` keeps lists that nobody can be in, as the code does: the notification finds
no observer there.

**VSTPLines.** The scripts of the commands are a finite set of shapes (`Todos`): not
yet writing (`Starting`), within a block (`InBlock`), done. The inductive invariant
`LinesInv` says for every goroutine which shapes its command can have
(`KeepsToScript`), counts the writes that are made and not yet confirmed
(`AcksAreCovered`), and says that a value which is told was read after the
confirmations that its line came after (`SeesFloor`). For a client that awaits its
answers only the last goroutine may be at work, and it is within its block exactly
when the latest line was not the end of one (`OneAtATime`). `FramesAgree`, for `FramesMatch`,
relates the buffer to all that was read: cutting at the ends of lines commutes with
appending a read to the rest that was kept, a lemma about the k-th end of line in a
concatenation.

**HttpTree.** `AnswerIsFaithful` speaks of finished answers, so `HttpInv` says for
each GET what it has of every variable. While `GetVars` reads (`ReadOK`), a variable
that kept its value is read or still to be; while `insertNested` fills the object
(`DocOK`), it is still among the values, or there is a leaf at one of its two places
(`Spot`): its path, or its path with "_value". `SpotIsRead` shows that a client who
reads either place gets the name back. Every leaf is at such a place of a variable
that had the value (`HasLeaf`), leaves are never below each other, and no variable
still to be inserted is below a leaf: this is what the order of `GetVars` gives
(`ChildsFirst`), and it makes `insertNested` the addition of one leaf (`InsertIs`).
That an array is made only of keys that count from 0 is `ArraysOK`.
The lemma `PathOrder` carries prefixes of paths over to prefixes of names.
Writers only add to what a GET may have seen (`SeenGrows`).

**Startup.** `StartupInv` follows main: the items declared so far are the ones that
`Resolve` gives (`ItemsInv`), and each service that has started holds the value of its
item (`ServerInv`). It needs that main declares all eighteen items before the first
service reads one, as `GetConfig` makes a missing item with an empty value. The
properties then are facts about `Resolve`: what it takes from each source
(`ArgsSay`, `EnvironmentSays`, `FileSays`), that a valid value stays valid when
placeholders are replaced, and that all defaults are valid. `DurationHolds` says that
an interval below half of the word is itself as a `Duration`, so the ticker panics only
for one that is not (`PanicsIfTooLong`).

Only model-checked: the liveness properties (`WaitersAreServed`,
`EventuallyDurable`, `LockVarReturns`, `ApilessIsPurged`, `EveryLineIsAnswered`), as
fairness is out of the prover's reach. Every invariant, every action property and
every refinement that a passing run checks is also a theorem. `HttpInv` itself has
quantifiers without bounds that TLC cannot evaluate; it checks the two properties
that follow from it.
