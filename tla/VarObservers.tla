---------------------------- MODULE VarObservers ----------------------------
(***************************************************************************)
(* controller/controller_varhelper.go: the observations of one variable,   *)
(* kept in the storage below "vars.<name>._observers", at the granularity  *)
(* of single storage writes.                                               *)
(*                                                                         *)
(* Every operation runs under the named lock "<name>._observationLock"     *)
(* (runLocked), so what it reads inside cannot change under it: its writes *)
(* are known when it enters, and "todo" holds those still to be done.      *)
(* Only the test of ObserveVar (IsClientObserving) reads the storage       *)
(* without the lock, and it can see every intermediate state.  The lock    *)
(* itself is the Mutex that NamedLock implements.                          *)
(***************************************************************************)
EXTENDS Integers, Sequences, FiniteSets

CONSTANTS Procs,        \* goroutines that work on the variable
          Clients,      \* client ids
          Metas,        \* metadata texts, NoMeta included
          NoMeta,       \* the empty metadata
          NoClient,     \* the empty client id: what Get returns for a missing entry
          MaxObs,       \* bound on list.count
          Free          \* nobody holds the lock

ASSUME VarObserversAssumption ==
    /\ NoMeta \in Metas
    /\ NoClient \notin Clients
    /\ Free \notin Procs
    /\ IsFiniteSet(Procs)
    /\ MaxObs \in Nat

VARIABLES count,        \* list.count
          slot,         \* slot[i]: list.i.clientId and list.i.metadata
          index,        \* index[c][m]: byId.c.byMetadata.m, or NoIndex
          holder,       \* who holds "<name>._observationLock"
          op,           \* the operation each goroutine is in
          todo,         \* the writes the lock holder still has to do
          stable        \* history: list.count, list and byId when the lock was last free

db == <<count, slot, index>>
vars == <<count, slot, index, holder, op, todo, stable>>

NoIndex == -1
Places == 0..(MaxObs - 1)
NoSlot == [client |-> NoClient, meta |-> NoMeta]
AnyClient == Clients \cup {NoClient}
NoIndexes == [m \in Metas |-> NoIndex]

Idle == [kind |-> "idle", client |-> NoClient, meta |-> NoMeta, next |-> NoIndex]
NewOp(kind, c, m) == [kind |-> kind, client |-> c, meta |-> m, next |-> NoIndex]

ObserversInit ==
    /\ count = 0
    /\ slot = [i \in Places |-> NoSlot]
    /\ index = [c \in AnyClient |-> NoIndexes]
    /\ holder = Free
    /\ op = [p \in Procs |-> Idle]
    /\ todo = <<>>
    /\ stable = db

-----------------------------------------------------------------------------
(* The writes of an operation, as records to be applied one at a time. *)

SetClient(i, c)   == [f |-> "clientId", at |-> i, client |-> c, meta |-> NoMeta]
SetMeta(i, m)     == [f |-> "metadata", at |-> i, client |-> NoClient, meta |-> m]
SetIndex(c, m, i) == [f |-> "byId", at |-> i, client |-> c, meta |-> m]
SetCount(n)       == [f |-> "count", at |-> n, client |-> NoClient, meta |-> NoMeta]
DelSlot(i)        == [f |-> "delSlot", at |-> i, client |-> NoClient, meta |-> NoMeta]
DelClient(c)      == [f |-> "delClient", at |-> NoIndex, client |-> c, meta |-> NoMeta]
DelAll            == [f |-> "delAll", at |-> NoIndex, client |-> NoClient, meta |-> NoMeta]

(* RegisterObservation *)
RegisterWrites(c, m) ==
    <<SetClient(count, c), SetMeta(count, m), SetIndex(c, m, count), SetCount(count + 1)>>

(* The last place of the observation, as the downward loop finds it. *)
PlacesOf(c, m) == {i \in 0..(count - 1) : slot[i] = [client |-> c, meta |-> m]}
LastPlace(c, m) == CHOOSE i \in PlacesOf(c, m) : \A j \in PlacesOf(c, m) : j <= i

(* Broken variant: the shift writes the metadata twice and no index. *)
ShiftWritesNoIndex(j) ==
    <<SetClient(j, slot[j + 1].client), SetMeta(j, slot[j + 1].meta),
      SetMeta(j, slot[j + 1].meta)>>

(* One turn of the shifting loop: entry j + 1 moves to j. *)
ShiftWrites(j) ==
    <<SetClient(j, slot[j + 1].client), SetMeta(j, slot[j + 1].meta),
      SetIndex(slot[j + 1].client, slot[j + 1].meta, j)>>

(* The whole loop from place i on: three writes for each turn. *)
Shifts(i) ==
    [n \in 1..(3 * (count - 1 - i)) |-> ShiftWrites(i + ((n - 1) \div 3))[((n - 1) % 3) + 1]]

(* Broken variant: the last list node is not deleted. *)
RemoveWritesKeepSlot(c, m) ==
    IF PlacesOf(c, m) = {} THEN <<>>
    ELSE Shifts(LastPlace(c, m)) \o <<SetCount(count - 1), DelClient(c)>>

(* Broken variant: the byId mapping is not deleted. *)
RemoveWritesKeepIndex(c, m) ==
    IF PlacesOf(c, m) = {} THEN <<>>
    ELSE Shifts(LastPlace(c, m)) \o <<DelSlot(count - 1), SetCount(count - 1)>>

(* internalRemoveObserving *)
RemoveWrites(c, m) ==
    IF PlacesOf(c, m) = {} THEN <<>>
    ELSE Shifts(LastPlace(c, m)) \o <<DelSlot(count - 1), SetCount(count - 1), DelClient(c)>>

(* RemoveAllObservations *)
ClearWrites == <<DelAll, SetCount(0)>>

(* One storage call. *)
Apply(w) ==
    /\ count' = IF w.f = "count" THEN w.at
                ELSE IF w.f = "delAll" THEN 0 ELSE count
    /\ slot' = CASE w.f = "clientId" -> [slot EXCEPT ![w.at].client = w.client]
                 [] w.f = "metadata" -> [slot EXCEPT ![w.at].meta = w.meta]
                 [] w.f = "delSlot"  -> [slot EXCEPT ![w.at] = NoSlot]
                 [] w.f = "delAll"   -> [i \in Places |-> NoSlot]
                 [] OTHER -> slot
    /\ index' = CASE w.f = "byId"      -> [index EXCEPT ![w.client][w.meta] = w.at]
                  [] w.f = "delClient" -> [index EXCEPT ![w.client] = NoIndexes]
                  [] w.f = "delAll"    -> [c \in AnyClient |-> NoIndexes]
                  [] OTHER -> index

-----------------------------------------------------------------------------
(* Steps of a goroutine *)

(* IsClientObserving: HasValue of byId.c.byMetadata.m.  With the empty     *)
(* metadata that name ends in a dot and leads to the node byMetadata,      *)
(* which is there as soon as the client has any metadata indexed.          *)
IsClientObserving(c, m) ==
    IF m = NoMeta THEN \E x \in Metas : index[c][x] # NoIndex
                  ELSE index[c][m] # NoIndex

Begin(p, o) ==
    /\ op[p] = Idle
    /\ op' = [op EXCEPT ![p] = o]
    /\ UNCHANGED <<count, slot, index, holder, todo, stable>>

(* ObserveVar, up to the call of RegisterObservation: tests without the    *)
(* lock.  The bound also keeps room for the goroutines past their test.    *)
Observe(p, c, m) ==
    /\ count + Cardinality({q \in Procs : op[q].kind = "register"}) < MaxObs
    /\ ~IsClientObserving(c, m)
    /\ Begin(p, NewOp("register", c, m))

(* StopObservingVar -> RemoveObservationByClientAndMetadata *)
StopObserving(p, c, m) == Begin(p, NewOp("remove", c, m))

(* RemoveObservationById: reads the entry without the lock, then removes   *)
(* whatever observation it saw.                                            *)
RemoveObservationById(p, i) ==
    /\ slot[i] # NoSlot
    /\ Begin(p, NewOp("remove", slot[i].client, slot[i].meta))

(* deleteClient -> RemoveAllClientObservations *)
RemoveAllClientObservations(p, c) == Begin(p, NewOp("removeAll", c, NoMeta))

RemoveAllObservations(p) == Begin(p, NewOp("clear", NoClient, NoMeta))

(* The 10 s of runLocked are over: the error is ignored, nothing is done.  *)
LockTimesOut(p) ==
    /\ op[p] # Idle
    /\ holder # p
    /\ op' = [op EXCEPT ![p] = Idle]
    /\ UNCHANGED <<count, slot, index, holder, todo, stable>>

WritesOf(o) ==
    CASE o.kind = "register" -> RegisterWrites(o.client, o.meta)
      [] o.kind = "remove"   -> RemoveWrites(o.client, o.meta)
      [] o.kind = "clear"    -> ClearWrites
      [] OTHER -> <<>>

(* The lock is taken and list.count read.  RemoveAllClientObservations     *)
(* starts its own loop at the last place.                                  *)
Enter(p) ==
    /\ op[p] # Idle
    /\ holder = Free
    /\ holder' = p
    /\ todo' = WritesOf(op[p])
    /\ op' = [op EXCEPT ![p].next = count - 1]
    /\ UNCHANGED <<count, slot, index, stable>>

Write(p) ==
    /\ holder = p
    /\ todo # <<>>
    /\ Apply(Head(todo))
    /\ todo' = Tail(todo)
    /\ UNCHANGED <<holder, op, stable>>

(* One turn of the loop of RemoveAllClientObservations. *)
NextPlace(p) ==
    LET i == op[p].next IN
    /\ holder = p
    /\ todo = <<>>
    /\ op[p].kind = "removeAll"
    /\ i >= 0
    /\ op' = [op EXCEPT ![p].next = i - 1]
    /\ todo' = IF slot[i].client = op[p].client
               THEN RemoveWrites(slot[i].client, slot[i].meta) ELSE <<>>
    /\ stable' = db
    /\ UNCHANGED <<count, slot, index, holder>>

Leave(p) ==
    /\ holder = p
    /\ todo = <<>>
    /\ op[p].kind = "removeAll" => op[p].next < 0
    /\ holder' = Free
    /\ op' = [op EXCEPT ![p] = Idle]
    /\ stable' = db
    /\ UNCHANGED <<count, slot, index, todo>>

Starts(p) ==
    \/ \E c \in Clients, m \in Metas : Observe(p, c, m) \/ StopObserving(p, c, m)
    \/ \E i \in Places : RemoveObservationById(p, i)
    \/ \E c \in Clients : RemoveAllClientObservations(p, c)
    \/ RemoveAllObservations(p)

ObserversNext ==
    \E p \in Procs :
        Starts(p) \/ LockTimesOut(p) \/ Enter(p) \/ Write(p) \/ NextPlace(p) \/ Leave(p)

ObserversSpec == ObserversInit /\ [][ObserversNext]_vars

-----------------------------------------------------------------------------
(* Properties *)

OpKinds == {"idle", "register", "remove", "removeAll", "clear"}

(* Types of the stored list, its index and the operations in progress. *)
ObserversTypeOK ==
    /\ count \in 0..MaxObs
    /\ slot \in [Places -> [client : AnyClient, meta : Metas]]
    /\ index \in [AnyClient -> [Metas -> Places \cup {NoIndex}]]
    /\ holder \in Procs \cup {Free}
    /\ op \in [Procs -> [kind : OpKinds, client : AnyClient, meta : Metas, next : Places \cup {NoIndex}]]

Listed(c, m) == PlacesOf(c, m) # {}

(* The list has no hole below list.count and no leftover above it whenever *)
(* nobody works on it: registrations and shifts never lose or overlay      *)
(* entries.  Types included.                                               *)
ListIsContiguous ==
    /\ ObserversTypeOK
    /\ holder = Free => \A i \in Places : (slot[i].client # NoClient) <=> (i < count)

(* Whoever finds an observation indexed, at any moment and without the     *)
(* lock, will find it notified: it is listed, or the lock holder is at     *)
(* work on this client's observations.  The same holds for what a dump     *)
(* between two writes stores and a restart loads: only the observations of *)
(* the operation that was cut off may be indexed and not listed.           *)
IndexedIsListed ==
    \A c \in Clients, m \in Metas :
        index[c][m] # NoIndex =>
            \/ Listed(c, m)
            \/ /\ holder # Free
               /\ op[holder].kind = "clear" \/ op[holder].client = c

(* The abstract list, as it was when the lock was last free. *)
Abstract == INSTANCE ObserverList
    WITH list <- [i \in 1..stable[1] |-> stable[2][i - 1]],
         index <- [c \in Clients |-> stable[3][c]]

(* The writes of each critical section together are one atomic operation   *)
(* of ObserverList: the shifting loop removes one entry, and the index     *)
(* follows, so that what ListIndexSound proves of the list holds here      *)
(* whenever the lock is free.                                              *)
ImplementsObserverList == Abstract!ListSpec
=============================================================================
