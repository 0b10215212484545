----------------------------- MODULE RamCacheDB -----------------------------
(***************************************************************************)
(* services/storage/ramcachedb.go: the in-memory tree of dot-separated     *)
(* keys, its background dump to RamCacheDb.dump.txt and the load of that   *)
(* file at start.                                                          *)
(*                                                                         *)
(* A key is the sequence of its words.  A node of the tree is the key that *)
(* leads to it, so the set "nodes" is the tree and val its values.  All    *)
(* operations run under r.mu; the dumper holds r.mu from the test of       *)
(* pendingChanges to the end of the write, so no operation runs while it   *)
(* writes, but the process may die there.                                  *)
(*                                                                         *)
(* A value is a text.  Only two things about a text matter here: what it   *)
(* becomes when the dump file is read back line by line (HeadLine, and the *)
(* entry that a later line of it looks like, TailEntry), and that a torn   *)
(* write can cut it short (Stub).  Of a key it matters where load ends it: *)
(* at the first "=" of its line (BeforeEquals), which is in the key itself *)
(* when the key holds one; the rest of the key is then a part of the value *)
(* (Glued).                                                                *)
(***************************************************************************)
EXTENDS Naturals, Sequences, FiniteSets

CONSTANTS Keys,         \* keys of the nodes the instance talks about
          Names,        \* names callers use, "a." included
          Texts,        \* non-empty texts callers store
          Empty,        \* the empty text
          Stub,         \* a text cut short by a torn write
          Glued,        \* the rest of a key after its "=", an "=" and a value
          BeforeEquals, \* BeforeEquals[k]: k up to its first "="
          HeadLine,     \* HeadLine[v]: v up to its first newline
          TailEntry     \* TailEntry[v]: {} or {<<key, text>>}, a later "key=text" line of v

VARIABLES nodes,        \* keys that have a node
          val,          \* val[k]: the value of the node, Empty where there is none
          pending,      \* pendingChanges
          file,         \* the entries of RamCacheDb.dump.txt
          dumper,       \* backgroundDumper: "idle", "writing" (holds r.mu) or "stopped"
          stop,         \* stopCh is closed
          failed,       \* history: the last dump of this process failed
          unread        \* history: the file could not be read at the start, and nothing was written since

vars == <<nodes, val, pending, file, dumper, stop, failed, unread>>

AllTexts == Texts \cup {Empty, Stub, Glued}

-----------------------------------------------------------------------------
(* Keys *)

(* a is k or a proper ancestor of k. *)
Under(a, k) == Len(a) <= Len(k) /\ \A i \in 1..Len(a) : a[i] = k[i]

Below(k) == {q \in Keys : Under(k, q)}

Path(k) == {a \in Keys : Under(a, k)}

(* scrollTree: the key a name leads to.  One empty last word is dropped:   *)
(* the recursion stops as soon as nothing remains after the dot.           *)
Resolve(name) ==
    IF Len(name) > 1 /\ name[Len(name)] = ""
    THEN SubSeq(name, 1, Len(name) - 1)
    ELSE name

ASSUME KeysAssumption ==
    /\ \A k \in Keys : k \in Seq(STRING) /\ k # <<>>
    /\ \A n \in Names : Resolve(n) \in Keys
    /\ \A k \in Keys : Resolve(k) \in Keys
    /\ BeforeEquals \in [Keys -> Keys]

ASSUME TextsAssumption ==
    /\ Texts \cap {Empty, Stub, Glued} = {}
    /\ Empty \notin {Stub, Glued}
    /\ HeadLine \in [Texts -> Texts \cup {Empty}]
    /\ TailEntry \in [Texts -> SUBSET (Keys \X Texts)]

-----------------------------------------------------------------------------
(* The operations of IStorage *)

(* Broken variant: the dumper writes without holding r.mu. *)
MuNotHeld == TRUE

(* r.mu is free: operations do not run while the dumper writes. *)
MuFree == dumper # "writing"

(* Get: the value of the node, the default only where there is no node.    *)
Get(name, default) == IF Resolve(name) \in nodes THEN val[Resolve(name)] ELSE default

HasValue(name) == Resolve(name) \in nodes

Childs(k) == {q \in nodes : Under(k, q) /\ Len(q) = Len(k) + 1}

(* GetChilds: the last words of the childs of a node. *)
GetChilds(name) == {q[Len(q)] : q \in Childs(Resolve(name))}

(* Broken variant: the write is not recorded as a change to dump. *)
SetNotPending(name, v) ==
    LET k == Resolve(name) IN
    /\ MuFree
    /\ nodes' = nodes \cup Path(k)
    /\ val' = [val EXCEPT ![k] = v]
    /\ unread' = FALSE
    /\ UNCHANGED <<pending, file, dumper, stop, failed>>

(* Broken variant: the empty last word of a name makes a node of its own. *)
SetUnresolved(name, v) ==
    /\ MuFree
    /\ nodes' = nodes \cup Path(name) \cup {name}
    /\ val' = [val EXCEPT ![Resolve(name)] = v]
    /\ pending' = TRUE
    /\ unread' = FALSE
    /\ UNCHANGED <<file, dumper, stop, failed>>

(* Set: scrollTree makes the missing nodes on the way to the key. *)
Set(name, v) ==
    LET k == Resolve(name) IN
    /\ MuFree
    /\ nodes' = nodes \cup Path(k)
    /\ val' = [val EXCEPT ![k] = v]
    /\ pending' = TRUE
    /\ unread' = FALSE
    /\ UNCHANGED <<file, dumper, stop, failed>>

(* delete(item.parent.childs, ...): whatever hangs below goes with the node. *)
Unlink(k) ==
    /\ nodes' = nodes \ Below(k)
    /\ val' = [q \in Keys |-> IF Under(k, q) THEN Empty ELSE val[q]]

(* DeleteValue: clears the value, drops the childs when it cascades, and   *)
(* unlinks the node when no child is left.  Ancestors stay, even empty.    *)
DeleteValue(name, cascade) ==
    LET k == Resolve(name) IN
    /\ MuFree
    /\ k \in nodes
    /\ IF cascade \/ Childs(k) = {}
       THEN Unlink(k)
       ELSE /\ val' = [val EXCEPT ![k] = Empty]
            /\ UNCHANGED nodes
    /\ pending' = TRUE
    /\ unread' = FALSE
    /\ UNCHANGED <<file, dumper, stop, failed>>

-----------------------------------------------------------------------------
(* Dump and load *)

(* dumpToStringLocked writes one block per non-empty node: the line        *)
(* "key=value", and further lines when the value holds newlines.  Block(k) *)
(* is what load makes of it: the line is split at its first "=", and what  *)
(* stands before it is resolved again.                                     *)
LineKey(k) == Resolve(BeforeEquals[k])

HeadOf(k) ==
    IF BeforeEquals[k] # k THEN Glued
    ELSE IF val[k] \in Texts THEN HeadLine[val[k]] ELSE val[k]

TailOf(k) == IF val[k] \in Texts THEN TailEntry[val[k]] ELSE {}

Block(k) == {<<LineKey(k), HeadOf(k)>>} \cup TailOf(k)

Dumped == {k \in nodes : val[k] # Empty}

FileOf(D) == UNION {Block(k) : k \in D}

(* The blocks are written depth first, a node before its subtree and its   *)
(* childs in any order (a Go map).  D can have been written, and nothing   *)
(* else, when ancestors come first and at most one branch is unfinished.   *)
Unfinished(k, D) == (Below(k) \cap D # {}) /\ (Below(k) \cap (Dumped \ D) # {})

IsPrefixOfDump(D) ==
    /\ \A k \in D : Path(k) \cap Dumped \subseteq D
    /\ \A a, b \in Keys : Unfinished(a, D) /\ Unfinished(b, D) => Under(a, b) \/ Under(b, a)

(* What a block cut in the middle still says: nothing (cut in the key), an *)
(* empty or a cut value, or its first line and a cut second one.           *)
CutBlocks(k) ==
    {{}, {<<LineKey(k), Empty>>}, {<<LineKey(k), Stub>>}}
      \cup {{<<LineKey(k), HeadOf(k)>>} \cup {<<e[1], w>>} : e \in TailOf(k), w \in {Empty, Stub}}

NextBlocks(D) == {k \in Dumped \ D : IsPrefixOfDump(D \cup {k})}

TornAfter(D) == UNION {{FileOf(D) \cup cut : cut \in CutBlocks(k)} : k \in NextBlocks(D)}

TornFiles ==
    LET written == {D \in SUBSET Dumped : IsPrefixOfDump(D)}
    IN  {FileOf(D) : D \in written} \cup UNION {TornAfter(D) : D \in written}

(* load: every entry of the file creates its node; where two lines give    *)
(* the same key the later one wins, and their order is that of a Go map.   *)
TextsOf(k, f) == {e[2] : e \in {x \in f : x[1] = k}}

Loaded(f) ==
    LET choices == [k \in Keys |-> IF TextsOf(k, f) = {} THEN {Empty} ELSE TextsOf(k, f)]
    IN  {m \in [Keys -> UNION {choices[k] : k \in Keys}] : \A k \in Keys : m[k] \in choices[k]}

LoadedNodes(f) == UNION {Path(e[1]) : e \in f}

(* Broken variant: the dumper only works when it is told to stop. *)
DumpBeginsOnStop ==
    /\ stop
    /\ dumper = "idle"
    /\ pending
    /\ dumper' = "writing"
    /\ UNCHANGED <<nodes, val, pending, file, stop, failed, unread>>

(* backgroundDumper takes r.mu with changes pending, on a tick or because  *)
(* stopCh is closed.  Without changes a tick does nothing.                 *)
DumpBegins ==
    /\ dumper = "idle"
    /\ pending
    /\ dumper' = "writing"
    /\ UNCHANGED <<nodes, val, pending, file, stop, failed, unread>>

(* After a dump the loop goes on; once stopCh is closed it may have been   *)
(* the dump of the stop case (the select picks any ready case).            *)
AfterDump == dumper' \in IF stop THEN {"idle", "stopped"} ELSE {"idle"}

(* os.WriteFile succeeded. *)
DumpEnds ==
    /\ dumper = "writing"
    /\ file' = FileOf(Dumped)
    /\ pending' = FALSE
    /\ failed' = FALSE
    /\ AfterDump
    /\ UNCHANGED <<nodes, val, stop, unread>>

(* MkdirAll failed (file untouched) or WriteFile failed (file torn): dump  *)
(* logs the error and the dumper clears pendingChanges all the same.       *)
DumpFails ==
    /\ dumper = "writing"
    /\ file' \in TornFiles \cup {file}
    /\ pending' = FALSE
    /\ failed' = TRUE
    /\ AfterDump
    /\ UNCHANGED <<nodes, val, stop, unread>>

(* stopCh closed, nothing pending: the dumper returns. *)
DumperStops ==
    /\ dumper = "idle"
    /\ stop
    /\ ~pending
    /\ dumper' = "stopped"
    /\ UNCHANGED <<nodes, val, pending, file, stop, failed, unread>>

Finalize ==
    /\ ~stop
    /\ stop' = TRUE
    /\ UNCHANGED <<nodes, val, pending, file, dumper, failed, unread>>

(* The process died, at any moment, and starts again: a dump in progress   *)
(* leaves a torn file.                                                     *)
Starts ==
    /\ file' \in IF dumper = "writing" THEN TornFiles ELSE {file}
    /\ pending' = FALSE
    /\ dumper' = "idle"
    /\ stop' = FALSE
    /\ failed' = FALSE

(* NewRamCacheDB: one of its two calls of load, at least, read the file    *)
(* (or there is none yet).  A second load of the same file adds nothing.   *)
Restart ==
    /\ Starts
    /\ nodes' = LoadedNodes(file')
    /\ val' \in Loaded(file')
    /\ unread' = FALSE

(* ReadFile failed in both calls: "Continuing with empty RamCacheDB", with *)
(* the file as it was.  The next dump replaces it by what is in memory.    *)
RestartUnread ==
    /\ Starts
    /\ nodes' = {}
    /\ val' = [k \in Keys |-> Empty]
    /\ unread' = TRUE

StorageInit ==
    /\ nodes = {}
    /\ val = [k \in Keys |-> Empty]
    /\ pending = FALSE
    /\ file = {}
    /\ dumper = "idle"
    /\ stop = FALSE
    /\ failed = FALSE
    /\ unread = FALSE

StorageNext ==
    \/ \E n \in Names, v \in Texts \cup {Empty} : Set(n, v)
    \/ \E n \in Names, cascade \in BOOLEAN : DeleteValue(n, cascade)
    \/ DumpBegins
    \/ DumpEnds
    \/ DumpFails
    \/ DumperStops
    \/ Finalize
    \/ Restart
    \/ RestartUnread

StorageSpec == StorageInit /\ [][StorageNext]_vars

(* The ticker keeps ticking and a write ends.  Nothing else is assumed. *)
StorageFairSpec == StorageSpec /\ WF_vars(DumpBegins) /\ WF_vars(DumpEnds)

-----------------------------------------------------------------------------
(* Properties *)

(* The data the text dump can represent: one-line values, and no key that  *)
(* holds an "=" or whose last word is empty.  SetVar takes the "=" out of  *)
(* the names of variables; nothing takes it out of the client ids that are *)
(* words of the keys of the observer lists.                                *)
PlainData ==
    /\ \A k \in Keys : Resolve(k) = k /\ BeforeEquals[k] = k
    /\ \A v \in Texts : HeadLine[v] = v /\ TailEntry[v] = {}

(* Types of the storage state. *)
StorageTypeOK ==
    /\ nodes \subseteq Keys
    /\ val \in [Keys -> AllTexts]
    /\ pending \in BOOLEAN
    /\ file \subseteq Keys \X AllTexts
    /\ dumper \in {"idle", "writing", "stopped"}
    /\ stop \in BOOLEAN
    /\ failed \in BOOLEAN
    /\ unread \in BOOLEAN

(* The abstract store. *)
kvView == [k \in Keys |-> Get(k, Empty)]

durableView ==
    [k \in Keys |-> IF TextsOf(k, file) = {} THEN Empty ELSE CHOOSE t \in TextsOf(k, file) : TRUE]

Store == INSTANCE DurableStore
            WITH kv <- kvView, durable <- durableView, syncing <- (dumper = "writing")

(* The tree, the dumper, torn writes and restarts implement a store with a *)
(* durable copy: in particular a change touches one key or one subtree, no *)
(* change slips into a running dump, and a restart brings back what the    *)
(* last dump left, or nothing at all when the file cannot be read, which   *)
(* leaves the durable copy as it was.                                      *)
ImplementsDurableStore == Store!StoreSpec

(* With no change pending, the last dump written and the file read at the  *)
(* start, the file holds what the memory holds: whoever dies now loses     *)
(* nothing.  It relates the flag, the file and the tree through every      *)
(* write, delete, dump and restart.                                        *)
CleanMeansDurable == ~pending /\ ~failed /\ ~unread => kvView \in Loaded(file)

(* A value that stays long enough reaches the disk (until Finalize stops   *)
(* the dumper, or a dump fails: its changes are not tried again).          *)
EventuallyDurable ==
    \A k \in Keys, v \in Texts :
        (val[k] = v) ~> (val[k] # v \/ durableView[k] = v \/ stop \/ failed)

=============================================================================
