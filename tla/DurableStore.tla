---------------------------- MODULE DurableStore ----------------------------
(***************************************************************************)
(* What the controller expects from an IStorage with "disk persistence"    *)
(* (README.md:8, :120): a map from keys to texts, a durable copy of it     *)
(* that is brought up to date now and then, and a restart that comes back  *)
(* with the durable copy, or with nothing when the copy cannot be read.  A *)
(* sync that is cut short leaves, for each key, the synced text, a cut     *)
(* text or nothing, and never a text of another key or of another moment.  *)
(***************************************************************************)

CONSTANTS Keys,         \* keys of the store
          Texts,        \* non-empty texts
          Empty,        \* the empty text: no value
          Stub,         \* a text cut short by a torn write
          Under(_, _)   \* Under(a, k): key k is a or lies below a

VARIABLES kv,           \* the text of every key, as Get returns it
          durable,      \* the texts a restart brings back
          syncing       \* a sync is in progress

IsPartialCopy(q, m) == DOMAIN q = Keys /\ \A k \in Keys : q[k] \in {m[k], Empty, Stub}

StoreInit ==
    /\ kv = [k \in Keys |-> Empty]
    /\ durable = [k \in Keys |-> Empty]
    /\ syncing = FALSE

Put(k, v) ==
    /\ ~syncing
    /\ kv' = [kv EXCEPT ![k] = v]
    /\ UNCHANGED <<durable, syncing>>

RemoveTree(k) ==
    /\ ~syncing
    /\ kv' = [q \in Keys |-> IF Under(k, q) THEN Empty ELSE kv[q]]
    /\ UNCHANGED <<durable, syncing>>

BeginSync ==
    /\ ~syncing
    /\ syncing' = TRUE
    /\ UNCHANGED <<kv, durable>>

EndSync ==
    /\ syncing
    /\ durable' = kv
    /\ syncing' = FALSE
    /\ UNCHANGED kv

AbortSync ==
    /\ syncing
    /\ durable' = durable \/ IsPartialCopy(durable', kv)
    /\ syncing' = FALSE
    /\ UNCHANGED kv

(* The copy after the process died: as it was, or a part of the new one. *)
CopyLeft == IF syncing THEN IsPartialCopy(durable', kv) ELSE durable' = durable

Recover ==
    /\ CopyLeft
    /\ kv' = durable'
    /\ syncing' = FALSE

RecoverNothing ==
    /\ CopyLeft
    /\ kv' = [k \in Keys |-> Empty]
    /\ syncing' = FALSE

StoreNext ==
    \/ \E k \in Keys, v \in Texts \cup {Empty} : Put(k, v)
    \/ \E k \in Keys : RemoveTree(k)
    \/ BeginSync
    \/ EndSync
    \/ AbortSync
    \/ Recover
    \/ RecoverNothing

StoreSpec == StoreInit /\ [][StoreNext]_<<kv, durable, syncing>>

=============================================================================
