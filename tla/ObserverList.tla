---------------------------- MODULE ObserverList ----------------------------
(***************************************************************************)
(* The observers of one variable as the rest of the controller sees them:  *)
(* a list of (client, metadata) entries and an index from (client,         *)
(* metadata) to a place in the list.  Each operation of the variable       *)
(* helper (controller_varhelper.go) is one step here.  VarObservers shows  *)
(* that its sequence of storage writes amounts to these steps.             *)
(***************************************************************************)
EXTENDS Integers, Sequences

CONSTANTS Clients,      \* client ids
          Metas,        \* metadata texts, the empty one included
          MaxObs        \* bound on the length of the list

VARIABLES list,         \* ._observers.list
          index         \* index[c][m]: ._observers.byId.c.byMetadata.m, or NoIndex

NoIndex == -1

Entries == [client : Clients, meta : Metas]

NoIndexes == [m \in Metas |-> NoIndex]

ListInit ==
    /\ list = <<>>
    /\ index = [c \in Clients |-> NoIndexes]

(* RegisterObservation: append, point the index to the new entry. *)
Register(c, m) ==
    /\ Len(list) < MaxObs
    /\ list' = Append(list, [client |-> c, meta |-> m])
    /\ index' = [index EXCEPT ![c][m] = Len(list)]

(* The list without its entry at place i (0-based). *)
Without(i) == [j \in 1..(Len(list) - 1) |-> IF j <= i THEN list[j] ELSE list[j + 1]]

(* The entries after place i have moved left by one; the index follows the *)
(* moved entries, and forgets the client c altogether.                     *)
Reindexed(c, i) ==
    /\ index' \in [Clients -> [Metas -> (0..MaxObs) \cup {NoIndex}]]
    /\ index'[c] = NoIndexes
    /\ \A d \in Clients \ {c}, m \in Metas :
          \/ \E j \in i..(Len(list) - 2) : list'[j + 1] = [client |-> d, meta |-> m] /\ index'[d][m] = j
          \/ /\ index'[d][m] = index[d][m]
             /\ \A j \in i..(Len(list) - 2) : list'[j + 1] # [client |-> d, meta |-> m]

(* internalRemoveObserving, for an entry that is there. *)
Remove(c, m) ==
    \E i \in 0..(Len(list) - 1) :
        /\ list[i + 1] = [client |-> c, meta |-> m]
        /\ list' = Without(i)
        /\ Reindexed(c, i)

(* RemoveAllObservations *)
RemoveEverything ==
    /\ list' = <<>>
    /\ index' = [c \in Clients |-> NoIndexes]

ListNext ==
    \/ \E c \in Clients, m \in Metas : Register(c, m) \/ Remove(c, m)
    \/ RemoveEverything

ListSpec == ListInit /\ [][ListNext]_<<list, index>>

-----------------------------------------------------------------------------
(* Properties *)

(* Types of the list and its index. *)
ListTypeOK ==
    /\ list \in Seq(Entries)
    /\ Len(list) <= MaxObs
    /\ index \in [Clients -> [Metas -> (0..MaxObs) \cup {NoIndex}]]

(* An indexed observation is in the list at its index.  ObserveVar does    *)
(* nothing for an indexed observation, so an index without its entry would *)
(* be a subscription that never notifies and can never be made again.      *)
IndexSound ==
    \A c \in Clients, m \in Metas :
        index[c][m] # NoIndex =>
            /\ index[c][m] < Len(list)
            /\ list[index[c][m] + 1] = [client |-> c, meta |-> m]

=============================================================================
