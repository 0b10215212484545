--------------------------- MODULE ClientRegistry ---------------------------
(***************************************************************************)
(* Who observes what, kept twice: a variable lists its observers (below    *)
(* "vars.<v>._observers"), a client lists the variables it observes (below *)
(* "internal.clients.byId.<c>").  ObserveVar, StopObservingVar,            *)
(* ClientConnected, the notification of a change and deleteClient          *)
(* (controller.go, controller_clienthelper.go) update both lists, each     *)
(* under a lock of its own, from goroutines of their own.                  *)
(*                                                                         *)
(* A step is one critical section, one unlocked storage call or one call   *)
(* of an API.  A critical section whose lock is not free in time (2, 5 or  *)
(* 10 s) is left out without a word and the call goes on: an action of its *)
(* own, TimesOut.  The list of a variable is the one of ObserverList; the  *)
(* payload of a notification is left to Delivery.  internal.clients.list   *)
(* is written and never read by the program, and left out.                 *)
(***************************************************************************)
EXTENDS Integers, Sequences, FiniteSets, SequencesExt

CONSTANTS Procs,        \* goroutines
          Clients,      \* client ids
          Vars,         \* variable names
          NoVar,        \* of a job that is about no single variable
          Metas,        \* metadata texts
          NoMeta,       \* the empty metadata
          Apis,         \* api ids
          EarlyApis,    \* apis that accept clients before they call ApiStarted
          NoApi,        \* no apiId, a nil api, or not connected
          MaxWait,      \* max-time-waiting-client-seconds, in ticks
          MaxObs,       \* bound on the observers of a variable
          MaxRestarts,  \* bound on the restarts of the server
          CutProcs,     \* bound: the goroutines at work at a dump and behind it
          MaxUneven     \* bound: this many uneven clients end all calls

ASSUME RegistryAssumption ==
    /\ NoApi \notin Apis /\ NoVar \notin Vars /\ NoMeta \in Metas
    /\ EarlyApis \subseteq Apis
    /\ IsFiniteSet(Procs) /\ CutProcs \subseteq Procs
    /\ MaxWait \in Nat \ {0}
    /\ MaxObs \in Nat /\ MaxRestarts \in Nat /\ MaxUneven \in Nat

VARIABLES started,      \* keys of c.apis
          online,       \* online[c]: the api that has a connection of c
          node,         \* node[c]: internal.clients.byId.<c>
          observers,    \* observers[v]: the list of the variable
          indexed,      \* indexed[v]: the pairs with a byId.<c>.byMetadata.<m>
          job,          \* job[p]: what a goroutine does
          saved,        \* the lists in the last dump of the storage
          uneven,       \* history: clients with a call that overlapped their deletion,
                        \* left out a change because its lock timed out or was half
                        \* done in the dump a restart brought back, or with a stop
                        \* that overtook its observe or had none
          restarts

lists == <<observers, indexed>>
vars == <<started, online, node, lists, job, saved, uneven, restarts>>

NoVars == [v \in Vars |-> 0]
(* No node: Get finds no apiId, the time 0 (long ago) and no variables.    *)
NoNode == [known |-> FALSE, api |-> NoApi, age |-> MaxWait, observing |-> NoVars]
Entries == [client : Clients, meta : Metas]
(* Before the first dump there is no file. *)
NoDump ==
    [node |-> [c \in Clients |-> NoNode], observers |-> [v \in Vars |-> <<>>],
     indexed |-> [v \in Vars |-> {}], uneven |-> {}]

RegistryInit ==
    /\ started = {}
    /\ online = [c \in Clients |-> NoApi]
    /\ node = [c \in Clients |-> NoNode]
    /\ observers = [v \in Vars |-> <<>>]
    /\ indexed = [v \in Vars |-> {}]
    /\ job = [p \in Procs |-> <<>>]
    /\ saved = NoDump
    /\ uneven = {}
    /\ restarts = 0

Idle(p) == job[p] = <<>>
At(p, pc) == ~Idle(p) /\ job[p].pc = pc
Jobs(c, pcs) == {p \in Procs : ~Idle(p) /\ job[p].client = c /\ job[p].pc \in pcs}

NewJob(kind, pc, c, v, m, a) ==
    [kind |-> kind, pc |-> pc, client |-> c, var |-> v, meta |-> m, api |-> a,
     todo |-> {}]

Begin(p, j) ==
    /\ Idle(p)
    /\ Cardinality(uneven) < MaxUneven
    /\ p \in CutProcs \/ (saved = NoDump /\ restarts = 0)
    /\ job' = [job EXCEPT ![p] = j]
GoTo(p, pc) == job' = [job EXCEPT ![p].pc = pc]
End(p) == job' = [job EXCEPT ![p] = <<>>]

-----------------------------------------------------------------------------
(* The list of a variable, one operation per critical section *)

IsClientObserving(v, c, m) ==
    IF m = NoMeta THEN \E x \in Metas : <<c, x>> \in indexed[v] ELSE <<c, m>> \in indexed[v]

Places(v, c, m) == {i \in DOMAIN observers[v] : observers[v][i] = [client |-> c, meta |-> m]}
PlacesOf(v, c) == {i \in DOMAIN observers[v] : observers[v][i].client = c}

(* The entries that move left are indexed again; the client whose entry    *)
(* goes loses all its indexes.                                             *)
Reindexed(v, c, i) ==
    (indexed[v] \cup {<<observers[v][j].client, observers[v][j].meta>> :
                         j \in (i + 1)..Len(observers[v])}) \ ({c} \X Metas)

Without(v, c, m) ==
    IF Places(v, c, m) = {} THEN UNCHANGED lists
    ELSE LET i == CHOOSE k \in Places(v, c, m) : \A j \in Places(v, c, m) : j <= k
         IN  /\ observers' = [observers EXCEPT ![v] = RemoveAt(@, i)]
             /\ indexed' = [indexed EXCEPT ![v] = Reindexed(v, c, i)]

(* The k-th of the entries of other clients. *)
OtherPlaces(v, c) == DOMAIN observers[v] \ PlacesOf(v, c)
NthOther(v, c, k) ==
    CHOOSE i \in OtherPlaces(v, c) : Cardinality({j \in OtherPlaces(v, c) : j <= i}) = k

(* RemoveAllClientObservations: the others stay, in their order. *)
WithoutClient(v, c) ==
    IF PlacesOf(v, c) = {} THEN UNCHANGED lists
    ELSE LET i == CHOOSE k \in PlacesOf(v, c) : \A j \in PlacesOf(v, c) : k <= j
         IN  /\ observers' = [observers EXCEPT ![v] =
                                 [k \in 1..Cardinality(OtherPlaces(v, c)) |-> @[NthOther(v, c, k)]]]
             /\ indexed' = [indexed EXCEPT ![v] = Reindexed(v, c, i)]

-----------------------------------------------------------------------------
(* Calls *)

(* A deletion of c between its look at the list of c and its end. *)
Deleting(c) == Jobs(c, {"remove", "purge"}) # {}

(* ObserveVar, up to the helper of the client. *)
ObserveVar(p, c, v, m) ==
    /\ online[c] # NoApi
    /\ Len(observers[v]) + Cardinality({q \in Procs : At(q, "register")}) < MaxObs
    /\ ~IsClientObserving(v, c, m)
    /\ Begin(p, NewJob("observe", "init", c, v, m, online[c]))
    /\ UNCHANGED <<started, online, node, lists, saved, uneven, restarts>>

(* StopObservingVar: the list of the variable first. *)
StopObservingVar(p, c, v, m) ==
    /\ online[c] # NoApi
    /\ Begin(p, NewJob("stop", "init", c, v, NoMeta, online[c]))
    /\ Without(v, c, m)
    /\ uneven' = uneven \cup {x \in {c} : Places(v, c, m) = {} \/ Deleting(c)}
    /\ UNCHANGED <<started, online, node, saved, restarts>>

(* runLocked timed out: the entry stays, and the client forgets it. *)
StopTimesOut(p, c, v) ==
    /\ online[c] # NoApi
    /\ Begin(p, NewJob("stop", "init", c, v, NoMeta, online[c]))
    /\ uneven' = uneven \cup {c}
    /\ UNCHANGED <<started, online, node, lists, saved, restarts>>

(* ClientConnected: setid of VSTP, a new WebSocket of HTTP. *)
ClientConnected(p, c) ==
    /\ online[c] # NoApi
    /\ Begin(p, NewJob("connect", "init", c, NoVar, NoMeta, online[c]))
    /\ UNCHANGED <<started, online, node, lists, saved, uneven, restarts>>

(* notifyClientsAboutVarChange: one goroutine for an observation that the  *)
(* change of v found.  (A visit of the list that times out finds none.)    *)
NotifyVar(p, v) ==
    /\ \E i \in DOMAIN observers[v] :
          Begin(p, NewJob("notify", "lookup", observers[v][i].client, NoVar, NoMeta, NoApi))
    /\ UNCHANGED <<started, online, node, lists, saved, uneven, restarts>>

-----------------------------------------------------------------------------
(* Steps of a goroutine *)

(* Broken variant: a client without an api is only logged. *)
LookUpReturns(p) ==
    LET a == node[job[p].client].api IN
    /\ At(p, "lookup")
    /\ job' = IF a \in started THEN [job EXCEPT ![p].pc = "init", ![p].api = a]
              ELSE [job EXCEPT ![p] = <<>>]
    /\ UNCHANGED <<started, online, node, lists, saved, uneven, restarts>>

(* NewControllerClientHelperWithApis: without an api the client is dropped. *)
LookUp(p) ==
    LET a == node[job[p].client].api IN
    /\ At(p, "lookup")
    /\ job' = IF a \in started THEN [job EXCEPT ![p].pc = "init", ![p].api = a]
              ELSE [job EXCEPT ![p].pc = "init", ![p].kind = "drop"]
    /\ UNCHANGED <<started, online, node, lists, saved, uneven, restarts>>

(* UpdateLiveTime writes below the node, and so makes one if there is none. *)
Refreshed(n) == [n EXCEPT !.known = TRUE, !.age = 0]

AfterInit ==
    [observe |-> "register", stop |-> "unregister", connect |-> "resume",
     notify |-> "send", drop |-> "collect"]

(* initialize, which every new helper runs. *)
Initialize(p) ==
    LET c == job[p].client
        n == IF job[p].api = NoApi THEN node[c] ELSE [node[c] EXCEPT !.api = job[p].api]
    IN  /\ At(p, "init")
        /\ node' = [node EXCEPT ![c] = Refreshed(n)]
        /\ GoTo(p, AfterInit[job[p].kind])
        /\ UNCHANGED <<started, online, lists, saved, uneven, restarts>>

(* vh.RegisterObservation *)
Register(p) ==
    LET c == job[p].client  v == job[p].var IN
    /\ At(p, "register")
    /\ observers' = [observers EXCEPT ![v] = Append(@, [client |-> c, meta |-> job[p].meta])]
    /\ indexed' = [indexed EXCEPT ![v] = @ \cup {<<c, job[p].meta>>}]
    /\ uneven' = uneven \cup {x \in {c} : Deleting(c)}
    /\ job' = [job EXCEPT ![p].pc = "note", ![p].meta = NoMeta]
    /\ UNCHANGED <<started, online, node, saved, restarts>>

(* client.RegisterNewObservation *)
RegisterNewObservation(p) ==
    LET c == job[p].client  v == job[p].var IN
    /\ At(p, "note")
    /\ node' = [node EXCEPT ![c] = [Refreshed(node[c]) EXCEPT !.observing[v] = @ + 1]]
    /\ uneven' = uneven \cup {x \in {c} : Deleting(c)}
    /\ GoTo(p, "send")
    /\ UNCHANGED <<started, online, lists, saved, restarts>>

(* ch.UnregisterObservation: the first of the equal entries, if any. *)
UnregisterObservation(p) ==
    LET c == job[p].client  v == job[p].var IN
    /\ At(p, "unregister")
    /\ node' = [node EXCEPT ![c] = [Refreshed(node[c]) EXCEPT
                    !.observing[v] = IF @ > 0 THEN @ - 1 ELSE @]]
    /\ uneven' = uneven \cup {x \in {c} : Deleting(c) \/ node[c].observing[v] = 0}
    /\ End(p)
    /\ UNCHANGED <<started, online, lists, saved, restarts>>

Observing(c) == {v \in Vars : node[c].observing[v] > 0}

(* updateClientAboutObservatingVars: GetObservingVars, then one Notify per *)
(* variable.                                                               *)
Resume(p) ==
    /\ At(p, "resume")
    /\ job' = IF Observing(job[p].client) = {} THEN [job EXCEPT ![p] = <<>>]
              ELSE [job EXCEPT ![p].pc = "send", ![p].todo = Observing(job[p].client)]
    /\ UNCHANGED <<started, online, node, lists, saved, uneven, restarts>>

(* Notify: the client gets it, and is refreshed ... *)
Sends(p) ==
    LET c == job[p].client IN
    /\ At(p, "send")
    /\ online[c] = job[p].api
    /\ node' = [node EXCEPT ![c] = Refreshed(@)]
    /\ IF Cardinality(job[p].todo) <= 1 THEN End(p)
       ELSE \E v \in job[p].todo : job' = [job EXCEPT ![p].todo = @ \ {v}]
    /\ UNCHANGED <<started, online, lists, saved, uneven, restarts>>

(* ... or the api does not know it, or the write fails. *)
SendFails(p) ==
    /\ At(p, "send")
    /\ GoTo(p, "check")
    /\ UNCHANGED <<started, online, node, lists, saved, uneven, restarts>>

(* checkClientLiveTime *)
CheckClientLiveTime(p) ==
    LET c == job[p].client
        alive == online[c] = job[p].api
    IN  /\ At(p, "check")
        /\ node' = IF alive THEN [node EXCEPT ![c] = Refreshed(@)] ELSE node
        /\ IF ~alive /\ node[c].age >= MaxWait THEN GoTo(p, "collect") ELSE End(p)
        /\ UNCHANGED <<started, online, lists, saved, uneven, restarts>>

(* Broken variant: the list of the client is read after it was removed. *)
CollectNothing(p) ==
    /\ At(p, "collect")
    /\ job' = [job EXCEPT ![p].pc = "remove", ![p].todo = {}]
    /\ UNCHANGED <<started, online, node, lists, saved, uneven, restarts>>

(* deleteClient: GetObservingVars, *)
Collect(p) ==
    /\ At(p, "collect")
    /\ job' = [job EXCEPT ![p].pc = "remove", ![p].todo = Observing(job[p].client)]
    /\ UNCHANGED <<started, online, node, lists, saved, uneven, restarts>>

(* RemoveClientFromObservationSystem, *)
RemoveClientFromObservationSystem(p) ==
    LET c == job[p].client IN
    /\ At(p, "remove")
    /\ node' = [node EXCEPT ![c] = NoNode]
    /\ IF job[p].todo = {} THEN End(p) ELSE GoTo(p, "purge")
    /\ uneven' = uneven \cup {x \in {c} : \E q \in Jobs(c, {"init", "unregister"}) : job[q].kind = "stop"}
    /\ UNCHANGED <<started, online, lists, saved, restarts>>

(* RemoveAllClientObservations of each variable that was in the list. *)
Purge(p) ==
    LET c == job[p].client IN
    /\ At(p, "purge")
    /\ \E v \in job[p].todo :
          /\ WithoutClient(v, c)
          /\ job' = IF job[p].todo = {v} THEN [job EXCEPT ![p] = <<>>]
                    ELSE [job EXCEPT ![p].todo = @ \ {v}]
          /\ uneven' = uneven \cup {x \in {c} : \/ \E q \in Jobs(c, {"note"}) : job[q].var = v
                                               \/ node[c].observing[v] > 0}
    /\ UNCHANGED <<started, online, node, saved, restarts>>

(* The lock of a critical section timed out: what it would have changed    *)
(* stays as it is, and the call goes on behind it.                         *)
Skipped(p) ==
    CASE At(p, "init")       -> GoTo(p, AfterInit[job[p].kind])
      [] At(p, "register")   -> job' = [job EXCEPT ![p].pc = "note", ![p].meta = NoMeta]
      [] At(p, "note")       -> GoTo(p, "send")
      [] At(p, "unregister") -> End(p)
      [] At(p, "remove")     -> IF job[p].todo = {} THEN End(p) ELSE GoTo(p, "purge")

(* All but initialize leave the lists apart. *)
TimesOut(p) ==
    /\ \E pc \in {"init", "register", "note", "unregister", "remove"} : At(p, pc)
    /\ Skipped(p)
    /\ uneven' = IF At(p, "init") THEN uneven ELSE uneven \cup {job[p].client}
    /\ UNCHANGED <<started, online, node, lists, saved, restarts>>

(* RemoveAllClientObservations of one of the variables timed out. *)
PurgeTimesOut(p) ==
    /\ At(p, "purge")
    /\ \E v \in job[p].todo :
          job' = IF job[p].todo = {v} THEN [job EXCEPT ![p] = <<>>]
                 ELSE [job EXCEPT ![p].todo = @ \ {v}]
    /\ uneven' = uneven \cup {job[p].client}
    /\ UNCHANGED <<started, online, node, lists, saved, restarts>>

-----------------------------------------------------------------------------
(* The surroundings *)

ApiStarted(a) ==
    /\ a \notin started
    /\ started' = started \cup {a}
    /\ UNCHANGED <<online, node, lists, job, saved, uneven, restarts>>

GoesOnline(c, a) ==
    /\ online[c] = NoApi
    /\ a \in started \cup EarlyApis
    /\ online' = [online EXCEPT ![c] = a]
    /\ UNCHANGED <<started, node, lists, job, saved, uneven, restarts>>

GoesOffline(c) ==
    /\ online[c] # NoApi
    /\ online' = [online EXCEPT ![c] = NoApi]
    /\ UNCHANGED <<started, node, lists, job, saved, uneven, restarts>>

UpTo(t) == IF t < MaxWait THEN t + 1 ELSE t

Aged(n) == [c \in Clients |-> [n[c] EXCEPT !.age = UpTo(@)]]

(* Time passes for the live times in the dump as well. *)
Tick ==
    /\ node' = Aged(node)
    /\ saved' = [saved EXCEPT !.node = Aged(@)]
    /\ UNCHANGED <<started, online, lists, job, uneven, restarts>>

(* Clients with a call between its change of one list and of the other. *)
HalfDone ==
    {c \in Clients : \E p \in Procs :
        /\ ~Idle(p)
        /\ job[p].client = c
        /\ \/ job[p].pc \in {"note", "purge"}
           \/ job[p].kind = "stop" /\ job[p].pc \in {"init", "unregister"}}

(* The dump of the storage (RamCacheDB), which knows nothing of the calls. *)
Dump ==
    /\ restarts < MaxRestarts
    /\ \A p \in Procs \ CutProcs : Idle(p)
    /\ saved' = [node |-> node, observers |-> observers, indexed |-> indexed,
                  uneven |-> uneven \cup HalfDone]
    /\ UNCHANGED <<started, online, node, lists, job, uneven, restarts>>

(* The process dies and comes back with the last dump. *)
Restart ==
    /\ restarts < MaxRestarts
    /\ restarts' = restarts + 1
    /\ started' = {}
    /\ online' = [c \in Clients |-> NoApi]
    /\ node' = saved.node
    /\ observers' = saved.observers
    /\ indexed' = saved.indexed
    /\ uneven' = saved.uneven
    /\ job' = [p \in Procs |-> <<>>]
    /\ UNCHANGED saved

Calls(p) ==
    \/ \E c \in Clients, v \in Vars, m \in Metas :
          ObserveVar(p, c, v, m) \/ StopObservingVar(p, c, v, m)
    \/ \E c \in Clients, v \in Vars : StopTimesOut(p, c, v)
    \/ \E c \in Clients : ClientConnected(p, c)

Steps(p) ==
    \/ LookUp(p) \/ Initialize(p) \/ Register(p) \/ RegisterNewObservation(p)
    \/ UnregisterObservation(p) \/ Resume(p) \/ Sends(p) \/ SendFails(p)
    \/ CheckClientLiveTime(p) \/ Collect(p) \/ RemoveClientFromObservationSystem(p)
    \/ Purge(p) \/ TimesOut(p) \/ PurgeTimesOut(p)

Surroundings ==
    \/ Tick
    \/ /\ Cardinality(uneven) < MaxUneven
       /\ \/ \E a \in Apis : ApiStarted(a)
          \/ \E c \in Clients : GoesOffline(c) \/ \E a \in Apis : GoesOnline(c, a)
          \/ Dump
          \/ Restart

RegistryNext ==
    \/ \E p \in Procs : Calls(p) \/ (\E v \in Vars : NotifyVar(p, v)) \/ Steps(p)
    \/ Surroundings

RegistrySpec == RegistryInit /\ [][RegistryNext]_vars

(* Go runs every goroutine, and every variable changes again and again,    *)
(* each time finding a goroutine for each of its observers.                *)
RegistryFairSpec ==
    /\ RegistrySpec
    /\ \A p \in Procs : WF_vars(Steps(p))
    /\ \A v \in Vars : SF_vars(\E p \in Procs : NotifyVar(p, v))

(* And time passes. *)
RegistryTimedSpec == RegistryFairSpec /\ WF_vars(Tick)

-----------------------------------------------------------------------------
(* Properties *)

Kinds == {"observe", "stop", "connect", "notify", "drop"}
Pcs == {"lookup", "init", "register", "note", "unregister", "resume", "send", "check",
        "collect", "remove", "purge"}
JobRecords == [kind : Kinds, pc : Pcs, client : Clients, var : Vars \cup {NoVar}, meta : Metas,
               api : Apis \cup {NoApi}, todo : SUBSET Vars]

NodeRecords == [known : BOOLEAN, api : Apis \cup {NoApi}, age : 0..MaxWait,
                observing : [Vars -> Nat]]

(* The types of what the storage keeps. *)
ListsTyped(n, o, x, u) ==
    /\ n \in [Clients -> NodeRecords]
    /\ o \in [Vars -> Seq(Entries)]
    /\ x \in [Vars -> SUBSET (Clients \X Metas)]
    /\ u \subseteq Clients

(* Types of both lists, of their dump and of the goroutines. *)
RegistryTypeOK ==
    /\ started \subseteq Apis
    /\ online \in [Clients -> Apis \cup {NoApi}]
    /\ ListsTyped(node, observers, indexed, uneven)
    /\ ListsTyped(saved.node, saved.observers, saved.indexed, saved.uneven)
    /\ \A p \in Procs : Idle(p) \/ job[p] \in JobRecords
    /\ restarts \in 0..MaxRestarts

Purging(c, v) == \E p \in Jobs(c, {"purge"}) : v \in job[p].todo
Noting(c, v) == {p \in Jobs(c, {"note"}) : job[p].var = v}
Stopping(c, v) == {p \in Jobs(c, {"init", "unregister"}) : job[p].kind = "stop" /\ job[p].var = v}

(* The two lists agree, entry by entry, up to the operations in progress,  *)
(* however calls, notifications and deletions of clients interleave: what  *)
(* deleteClient finds in the list of the client is all that the variables  *)
(* have of it, and no count drops below zero.  They come apart only for a  *)
(* client in uneven: by a lock that timed out, a call that overlapped a    *)
(* deletion, or a dump between the two lists.  Types included.             *)
ListsAgree ==
    /\ RegistryTypeOK
    /\ \A c \in Clients \ uneven, v \in Vars :
          \/ Purging(c, v)
          \/ Cardinality(PlacesOf(v, c)) =
               node[c].observing[v] + Cardinality(Noting(c, v)) - Cardinality(Stopping(c, v))

Listed(c, v) == PlacesOf(v, c) # {}

(* A client that is away and whose api is not there does not stay among    *)
(* the observers of a variable that goes on changing.                      *)
ApilessIsPurged ==
    \A c \in Clients, v \in Vars :
        (Listed(c, v) /\ node[c].api \notin started)
        ~> (~Listed(c, v) \/ node[c].api \in started \/ online[c] # NoApi \/ c \in uneven)

(* confs.conf:4, "After this time (without any life signal from the        *)
(* client) the client is considered disconnected and all client            *)
(* observations are finalized".                                            *)
SilentClientsAreFinalized ==
    \A c \in Clients, v \in Vars :
        Listed(c, v) ~> (~Listed(c, v) \/ online[c] # NoApi \/ c \in uneven)

=============================================================================
