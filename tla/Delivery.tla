------------------------------ MODULE Delivery ------------------------------
(***************************************************************************)
(* What observers are told: SetVar, DelVar, GetVars, ObserveVar,           *)
(* ClientConnected and notifyVarModification of controller.go.             *)
(*                                                                         *)
(* A name is a sequence of words; a subscription "a.*" is an observation   *)
(* of the name whose last word is the star.  A change notifies from a      *)
(* goroutine of its own, which starts another one for each observer, and   *)
(* a new observer reads and is sent the current value by yet another, so   *)
(* messages to a client are delivered in any order.  Observer lists are    *)
(* those of ObserverList with one metadata per client, and clients are not *)
(* deleted here (ClientRegistry).  An operation on a list whose lock is    *)
(* not free in time is left out, and its caller goes on all the same.      *)
(***************************************************************************)
EXTENDS Integers, Sequences, FiniteSets, SequencesExt

CONSTANTS Clients,
          Names,        \* names callers use that pass the checks of SetVar, as sequences of words
          Star,         \* the word "*"
          Values,       \* non-empty values
          Empty,        \* "", no value
          MaxCalls,     \* bound on the SetVar and DelVar calls and the operations left out
          MaxTimeouts,  \* bound on the operations whose lock timed out
          MaxConnects   \* bound on the connections of a client

ASSUME DeliveryAssumption ==
    /\ \A n \in Names : n \in Seq(Range(n)) /\ n # <<>>
    /\ Empty \notin Values
    /\ MaxCalls \in Nat /\ MaxTimeouts \in Nat /\ MaxConnects \in Nat

VARIABLES value,        \* value[n]: vars.<n>
          sub,          \* sub[c][n]: the observation of n by c, what it has read, and
                        \* whether the variable and the client have it on their lists
          calls,        \* SetVar and DelVar calls so far
          timeouts,     \* operations left out so far
          deleting,     \* DelVar goroutines
          notifying,    \* notifyVarModification goroutines
          inflight,     \* goroutines of notifyClientsAboutVarChange
          online, connects,
          resuming,     \* resuming[c]: updateClientAboutObservatingVars
          got,          \* got[c][n]: values of n the client received on this connection
                        \* since it asked for n
          last,         \* last[c][n]: the one received last
          due,          \* history: who was to be told of a change when it was made
          missed,       \* history: who was on the list of a changed name when the visit of
                        \* it timed out, on this connection
          crossed       \* history: changes made while a message about the name was on its way

jobs == <<deleting, notifying, inflight, resuming>>
client == <<online, connects, got, last>>
record == <<due, missed, crossed>>
vars == <<value, sub, calls, timeouts, jobs, client, record>>

NoSub == [pc |-> "none", load |-> {}, listed |-> FALSE, own |-> FALSE]
NoResume == [pc |-> "idle", todo |-> {}, load |-> {}]

DeliveryInit ==
    /\ value = [n \in Names |-> Empty]
    /\ sub = [c \in Clients |-> [n \in Names |-> NoSub]]
    /\ calls = 0 /\ timeouts = 0
    /\ deleting = {} /\ notifying = {} /\ inflight = {}
    /\ online = [c \in Clients |-> TRUE]
    /\ connects = [c \in Clients |-> 1]
    /\ resuming = [c \in Clients |-> NoResume]
    /\ got = [c \in Clients |-> [n \in Names |-> {}]]
    /\ last = [c \in Clients |-> [n \in Names |-> Empty]]
    /\ due = {} /\ missed = {} /\ crossed = {}

-----------------------------------------------------------------------------
(* Names *)

HasStar(n) == Star \in Range(n)
EndsInStar(n) == Last(n) = Star
Parent(n) == Front(n)

(* Broken variant: only the direct parent is asked. *)
ParentsShallow(n) == IF Len(n) > 1 THEN <<Append(Parent(n), Star)>> ELSE <<>>

(* notifyParentGenericObservers: parent.*, then its parent's, up to the    *)
(* first word.                                                             *)
ParentGenerics(n) == [i \in 1..(Len(n) - 1) |-> Append(SubSeq(n, 1, Len(n) - i), Star)]

(* The lists that notifyVarModification looks at, in its order.  (Below the *)
(* empty name, which a DelVar of "*" may find, the pattern would be ".*".)  *)
Targets(n) ==
    <<n>> \o ParentGenerics(n) \o (IF n = <<>> THEN <<>> ELSE <<Append(n, Star)>>)

(* GetAllObservingClients *)
Observers(n) == {c \in Clients : n \in Names /\ sub[c][n].listed}

(* The operations in "left" are left out: their locks were not free within *)
(* 10 s (lists of variables) or 2 s (lists of clients).                    *)
TimesOut(left) ==
    /\ timeouts' = timeouts + Cardinality(left)
    /\ timeouts' <= MaxTimeouts
    /\ left = {} \/ calls + timeouts' <= MaxCalls

(* GetVars: the variables with a value at or below the name before a star, *)
(* or the name itself; the name alone when there is none.                  *)
Base(n) == IF EndsInStar(n) THEN Parent(n) ELSE n

Covers(n, x) == x = Base(n) \/ (EndsInStar(n) /\ IsPrefix(Base(n), x))

(* Broken variant: only the children of the name. *)
FoundShallow(n) ==
    LET here == {x \in Names : value[x] # Empty /\ (x = Base(n) \/ (EndsInStar(n) /\ Parent(x) = Base(n)))}
    IN  IF here = {} THEN {Base(n)} ELSE here

Found(n) ==
    LET here == {x \in Names : value[x] # Empty /\ Covers(n, x)}
    IN  IF here = {} THEN {Base(n)} ELSE here

(* getVarInternal: the value and those of the children.  (Children without *)
(* a value are sent as "" and left out here.)                              *)
GetVarInternal(n) == {<<x, value[x]>> : x \in {y \in Names : value[y] # Empty /\ (y = n \/ Parent(y) = n)}}

-----------------------------------------------------------------------------
(* Changes *)

(* For the record: whom a change should reach, and whether a message about *)
(* the name is on its way while it is made.  (The bare star is a pattern   *)
(* of no parent: notifyParentGenericObservers stops at the first word.)    *)
Matches(k, n) == k = n \/ (EndsInStar(k) /\ Len(k) > 1 /\ IsPrefix(Parent(k), n))

Concerns(k, n) == n = k \/ Parent(n) = k

OnItsWay(n) ==
    \/ \E j \in notifying \cup inflight : j.name = n
    \/ \E c \in Clients : \/ \E k \in Names : sub[c][k].pc = "read" /\ Concerns(k, n)
                          \/ resuming[c].pc = "send" /\ Concerns(resuming[c].key, n)

Notify(id, n, v) ==
    /\ notifying' = notifying \cup {[id |-> id, name |-> n, value |-> v, todo |-> Targets(n)]}
    /\ due' = due \cup {d \in {id} \X {n} \X Clients \X Names :
                           d[3] \in Observers(d[4]) /\ Matches(d[4], n)}
    /\ crossed' = IF OnItsWay(n) THEN crossed \cup {n} ELSE crossed

(* A SetVar that stores "stored" and notifies of v. *)
Setting(n, stored, v) ==
    /\ calls + timeouts < MaxCalls
    /\ calls' = calls + 1
    /\ value' = stored
    /\ Notify(calls, n, v)
    /\ deleting' = {[d EXCEPT !.raced = @ \/ Covers(d.key, n)] : d \in deleting}
    /\ UNCHANGED <<sub, timeouts, inflight, resuming, client, missed>>

(* SetValue leaves a name with a star alone. *)
Stored(n, v) == IF HasStar(n) THEN value ELSE [value EXCEPT ![n] = v]

(* Broken variant: the goroutine is given the value before the write.      *)
SetVarNotifiesOld(n, v) == Setting(n, Stored(n, v), value[n])

(* SetVar of a name and a value that pass its checks: the notification     *)
(* starts in any case.                                                     *)
SetVar(n, v) == Setting(n, Stored(n, v), v)

(* DelVar: GetVars, and then one variable after the other. *)
DelVar(n) ==
    /\ calls + timeouts < MaxCalls
    /\ ~HasStar(Front(n))
    /\ calls' = calls + 1
    /\ deleting' = deleting \cup {[id |-> calls, key |-> n, todo |-> Found(n), raced |-> FALSE]}
    /\ UNCHANGED <<value, sub, timeouts, notifying, inflight, resuming, client, record>>

DelVarNext(d) ==
    \E n \in d.todo :
        /\ value' = [x \in Names |-> IF x = n THEN Empty ELSE value[x]]
        /\ Notify(d.id, n, Empty)
        /\ deleting' = (deleting \ {d}) \cup
                          (IF d.todo = {n} THEN {} ELSE {[d EXCEPT !.todo = @ \ {n}]})
        /\ UNCHANGED <<sub, calls, timeouts, inflight, resuming, client, missed>>

(* A notification goes on to its next list. *)
Visited(j) ==
    notifying' = (notifying \ {j}) \cup
        (IF Len(j.todo) = 1 THEN {} ELSE {[j EXCEPT !.todo = Tail(@)]})

(* One list of notifyVarModification: a goroutine for each observer. *)
NotifyNext(j) ==
    LET k == Head(j.todo) IN
    /\ inflight' = inflight \cup
          {[id |-> j.id, name |-> j.name, value |-> j.value, via |-> k, to |-> c] : c \in Observers(k)}
    /\ Visited(j)
    /\ due' = {d \in due : ~(d[1] = j.id /\ d[2] = j.name /\ d[4] = k /\ d[3] \in Observers(k))}
    /\ UNCHANGED <<value, sub, calls, timeouts, deleting, resuming, client, missed, crossed>>

(* The visit of the list timed out: GetAllObservingClients finds nobody    *)
(* although there are observers.                                           *)
NotifyNobody(j) ==
    LET k == Head(j.todo) IN
    /\ Observers(k) # {}
    /\ TimesOut({k})
    /\ Visited(j)
    /\ due' = {d \in due : ~(d[1] = j.id /\ d[2] = j.name /\ d[4] = k)}
    /\ missed' = missed \cup {<<c, j.name>> : c \in {x \in Observers(k) : k = j.name}}
    /\ UNCHANGED <<value, sub, calls, deleting, inflight, resuming, client, crossed>>

-----------------------------------------------------------------------------
(* The client *)

Receive(c, load) ==
    /\ got' = [got EXCEPT ![c] = [n \in Names |-> @[n] \cup {l[2] : l \in {x \in load : x[1] = n}}]]
    /\ last' = [last EXCEPT ![c] =
                  [n \in Names |-> IF \E l \in load : l[1] = n
                                   THEN (CHOOSE l \in load : l[1] = n)[2] ELSE @[n]]]

(* NotifyClient of the api reaches the client if it is connected. *)
Send(c, load) ==
    /\ IF online[c] THEN Receive(c, load) ELSE UNCHANGED <<got, last>>
    /\ UNCHANGED <<online, connects>>

Deliver(m) ==
    /\ inflight' = inflight \ {m}
    /\ Send(m.to, {<<m.name, m.value>>})
    /\ UNCHANGED <<value, sub, calls, timeouts, deleting, notifying, resuming, record>>

SetSub(c, n, s) ==
    /\ sub' = [sub EXCEPT ![c][n] = s]
    /\ UNCHANGED <<value, calls, jobs, missed, crossed>>

(* What may time out of an observation: the list of the variable, and the  *)
(* list of the client.                                                     *)
Lists == {"variable", "client"}

(* ObserveVar: the observation is registered with the variable and added   *)
(* to the list of the client,                                              *)
ObserveVar(c, n) ==
    /\ online[c]
    /\ sub[c][n].pc = "none"
    /\ \E left \in SUBSET Lists :
          /\ TimesOut(left)
          /\ SetSub(c, n, [pc |-> "registered", load |-> {},
                           listed |-> "variable" \notin left, own |-> "client" \notin left])
    /\ got' = [got EXCEPT ![c][n] = {}]
    /\ last' = [last EXCEPT ![c][n] = Empty]
    /\ UNCHANGED <<online, connects, due>>

(* the current value is read, *)
ReadCurrent(c, n) ==
    /\ sub[c][n].pc = "registered"
    /\ SetSub(c, n, [sub[c][n] EXCEPT !.pc = "read", !.load = GetVarInternal(n)])
    /\ UNCHANGED <<timeouts, client, due>>

(* and sent. *)
SendCurrent(c, n) ==
    /\ sub[c][n].pc = "read"
    /\ SetSub(c, n, [sub[c][n] EXCEPT !.pc = "done", !.load = {}])
    /\ Send(c, sub[c][n].load)
    /\ UNCHANGED <<timeouts, due>>

(* Bound: a client observes a name once. *)
StopObservingVar(c, n) ==
    /\ online[c]
    /\ sub[c][n].pc = "done"
    /\ \E left \in SUBSET Lists :
          /\ TimesOut(left)
          /\ SetSub(c, n, [sub[c][n] EXCEPT !.pc = "gone", !.listed = @ /\ "variable" \in left,
                                            !.own = @ /\ "client" \in left])
    /\ due' = {d \in due : ~(d[3] = c /\ d[4] = n)}
    /\ UNCHANGED client

(* Bound: the last connection stays. *)
Disconnects(c) ==
    /\ online[c]
    /\ connects[c] < MaxConnects
    /\ online' = [online EXCEPT ![c] = FALSE]
    /\ UNCHANGED <<value, sub, calls, timeouts, jobs, connects, got, last, record>>

(* The client is back under its id: ClientConnected.  Bound: the goroutine *)
(* of its last return has ended.                                           *)
ClientConnected(c) ==
    /\ ~online[c]
    /\ connects[c] < MaxConnects
    /\ resuming[c].pc = "idle"
    /\ online' = [online EXCEPT ![c] = TRUE]
    /\ connects' = [connects EXCEPT ![c] = @ + 1]
    /\ resuming' = [resuming EXCEPT ![c].pc = "list"]
    /\ got' = [got EXCEPT ![c] = [n \in Names |-> {}]]
    /\ last' = [last EXCEPT ![c] = [n \in Names |-> Empty]]
    /\ missed' = {x \in missed : x[1] # c}
    /\ UNCHANGED <<value, sub, calls, timeouts, deleting, notifying, inflight, due, crossed>>

Resuming(c, r) ==
    /\ resuming' = [resuming EXCEPT ![c] = r]
    /\ UNCHANGED <<value, sub, calls, timeouts, deleting, notifying, inflight, record>>

NextOf(todo) == IF todo = {} THEN NoResume ELSE [NoResume EXCEPT !.pc = "read", !.todo = todo]

(* GetObservingVars: the list of the client may have an observation that   *)
(* is being registered, or not yet.                                        *)
ListObserving(c) ==
    /\ resuming[c].pc = "list"
    /\ \E new \in SUBSET {n \in Names : sub[c][n].pc = "registered" /\ sub[c][n].own} :
          Resuming(c, NextOf(new \cup {n \in Names : sub[c][n].pc # "registered" /\ sub[c][n].own}))
    /\ UNCHANGED client

(* updateClientAboutObservatingVars: read a variable, *)
ReadObserved(c) ==
    /\ resuming[c].pc = "read"
    /\ \E n \in resuming[c].todo :
          Resuming(c, [pc |-> "send", key |-> n, todo |-> resuming[c].todo \ {n},
                       load |-> GetVarInternal(n)])
    /\ UNCHANGED client

(* Broken variant: the return that ends the loop is taken every time. *)
SendObservedOnce(c) ==
    /\ resuming[c].pc = "send"
    /\ Resuming(c, NoResume)
    /\ Send(c, resuming[c].load)

(* send it, and stop if the client is away again. *)
SendObserved(c) ==
    /\ resuming[c].pc = "send"
    /\ Resuming(c, IF online[c] THEN NextOf(resuming[c].todo) ELSE NoResume)
    /\ Send(c, resuming[c].load)

-----------------------------------------------------------------------------
Changes ==
    \/ \E n \in Names : (\E v \in Values : SetVar(n, v)) \/ DelVar(n)

Goroutines ==
    \/ \E d \in deleting : DelVarNext(d)
    \/ \E j \in notifying : NotifyNext(j) \/ NotifyNobody(j)
    \/ \E m \in inflight : Deliver(m)
    \/ \E c \in Clients :
          \/ ListObserving(c) \/ ReadObserved(c) \/ SendObserved(c)
          \/ \E n \in Names : ReadCurrent(c, n) \/ SendCurrent(c, n)

Requests ==
    \E c \in Clients :
        \/ Disconnects(c) \/ ClientConnected(c)
        \/ \E n \in Names : ObserveVar(c, n) \/ StopObservingVar(c, n)

DeliveryNext == Changes \/ Goroutines \/ Requests

DeliverySpec == DeliveryInit /\ [][DeliveryNext]_vars

-----------------------------------------------------------------------------
(* Properties *)

Loads == SUBSET (Names \X Values)
Texts == Values \cup {Empty}

(* Types of the values, the observations, the messages and the clients. *)
DeliveryTypeOK ==
    /\ value \in [Names -> Texts]
    /\ \A n \in Names : HasStar(n) => value[n] = Empty
    /\ sub \in [Clients -> [Names -> [pc : {"none", "registered", "read", "done", "gone"}, load : Loads,
                                      listed : BOOLEAN, own : BOOLEAN]]]
    /\ timeouts <= MaxTimeouts
    /\ \A j \in notifying : j.id \in 0..calls /\ j.value \in Texts /\ j.todo # <<>>
    /\ \A m \in inflight : m.to \in Clients /\ m.name \in Names \cup {Base(n) : n \in Names} /\ m.value \in Texts
    /\ got \in [Clients -> [Names -> SUBSET Texts]]
    /\ last \in [Clients -> [Names -> Texts]]

(* Every client that observed the name itself, or "x.*" for some x at or   *)
(* above it, when the change was made is sent the change, unless it stopped *)
(* observing or the visit of its list timed out, and nobody else is: the   *)
(* chain of parents leaves out no pattern.  Types included.                *)
MatchesAreTold ==
    /\ DeliveryTypeOK
    /\ \A d \in due : \E j \in notifying : j.id = d[1] /\ j.name = d[2]
    /\ \A m \in inflight : Matches(m.via, m.name)

Quiet ==
    /\ deleting = {} /\ notifying = {} /\ inflight = {}
    /\ \A c \in Clients : /\ resuming[c].pc = "idle"
                          /\ \A n \in Names : sub[c][n].pc \notin {"registered", "read"}

(* A connected observer that is on both lists, and whose list was visited  *)
(* for every change since it connected.                                    *)
Follows(c, k, n) ==
    /\ online[c] /\ sub[c][k].pc = "done" /\ sub[c][k].listed /\ sub[c][k].own
    /\ <<c, n>> \notin missed

(* Once nothing is on its way, an observer of a name has been sent its     *)
(* current value since it connected, however its registration or its       *)
(* return overlapped changes.  (An observer of a pattern is not told on    *)
(* its return what the pattern matches.)                                   *)
CaughtUp ==
    Quiet => \A c \in Clients, n \in Names :
                Follows(c, n, n) /\ value[n] # Empty => value[n] \in got[c][n]

(* And it is the value it was sent last, or it was told last that there is *)
(* none any more, unless a change of the name was made while a message     *)
(* about it was on its way.  (A SetVar of "x.*" tells of a value that is   *)
(* not stored.)                                                            *)
LateOnlyIfCrossed ==
    Quiet => \A c \in Clients, n \in Names \ crossed :
                Follows(c, n, n) /\ ~HasStar(n) => last[c][n] = value[n]

(* DelVar of "x.*" leaves no value at or below x, if none was set since it *)
(* began: GetVars finds them at every depth.                               *)
DeletedIsGone ==
    [][\A d \in deleting :
          (\A e \in deleting' : e.id # d.id) /\ ~d.raced
          => \A x \in Names : Covers(d.key, x) => value'[x] = Empty]_vars

=============================================================================
