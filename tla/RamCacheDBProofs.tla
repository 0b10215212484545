-------------------------- MODULE RamCacheDBProofs --------------------------
(***************************************************************************)
(* Proofs about services/storage/ramcachedb.go, for any set of keys, names *)
(* and texts.                                                              *)
(***************************************************************************)
EXTENDS RamCacheDB, TLAPS

(* Every key lies under itself. *)
LEMMA UnderReflexive == \A k \in Keys : Under(k, k)
  BY KeysAssumption DEF Under

(* An ancestor of an ancestor is an ancestor. *)
LEMMA UnderTransitive ==
  \A a, b, c \in Keys : Under(a, b) /\ Under(b, c) => Under(a, c)
  BY KeysAssumption DEF Under

(* The key itself is on its path, and the path of an ancestor is a part of *)
(* the path.                                                               *)
LEMMA PathClosed ==
  ASSUME NEW k \in Keys
  PROVE  k \in Path(k) /\ Path(k) \subseteq Keys /\ \A a \in Path(k) : Path(a) \subseteq Path(k)
  BY UnderReflexive, UnderTransitive DEF Path

(* An entry of a dump, whole or torn, names a key and a text. *)
LEMMA EntriesTyped ==
  ASSUME StorageTypeOK
  PROVE  /\ \A D \in SUBSET Keys : FileOf(D) \subseteq Keys \X AllTexts
         /\ \A f \in TornFiles : f \subseteq Keys \X AllTexts
<1>1. \A k \in Keys : HeadOf(k) \in AllTexts /\ TailOf(k) \subseteq Keys \X AllTexts
  BY TextsAssumption DEF StorageTypeOK, HeadOf, TailOf, AllTexts
<1>0. \A k \in Keys : LineKey(k) \in Keys
  BY KeysAssumption DEF LineKey
<1>2. \A k \in Keys : Block(k) \subseteq Keys \X AllTexts
  BY <1>0, <1>1 DEF Block
<1>3. \A D \in SUBSET Keys : FileOf(D) \subseteq Keys \X AllTexts
  BY <1>2 DEF FileOf
<1>4. \A k \in Keys : \A cut \in CutBlocks(k) : cut \subseteq Keys \X AllTexts
  BY <1>0, <1>1 DEF CutBlocks, AllTexts
<1>5. Dumped \subseteq Keys
  BY DEF Dumped, StorageTypeOK
<1>6. \A D \in SUBSET Dumped : \A f \in TornAfter(D) : f \subseteq Keys \X AllTexts
  <2> SUFFICES ASSUME NEW D \in SUBSET Dumped, NEW f \in TornAfter(D)
               PROVE  f \subseteq Keys \X AllTexts
    OBVIOUS
  <2>1. PICK k \in NextBlocks(D) : f \in {FileOf(D) \cup cut : cut \in CutBlocks(k)}
    BY DEF TornAfter
  <2>2. PICK cut \in CutBlocks(k) : f = FileOf(D) \cup cut
    BY <2>1
  <2>3. k \in Keys
    BY <1>5 DEF NextBlocks
  <2>4. D \in SUBSET Keys
    BY <1>5
  <2>5. FileOf(D) \subseteq Keys \X AllTexts /\ cut \subseteq Keys \X AllTexts
    BY <1>3, <1>4, <2>3, <2>4
  <2> QED BY <2>2, <2>5
<1> QED
  BY <1>3, <1>5, <1>6 DEF TornFiles

(* load only brings back keys and texts. *)
LEMMA LoadedTyped ==
  ASSUME NEW f \in SUBSET (Keys \X AllTexts)
  PROVE  /\ Loaded(f) \subseteq [Keys -> AllTexts]
         /\ LoadedNodes(f) \subseteq Keys
<1>1. \A k \in Keys : TextsOf(k, f) \subseteq AllTexts
  BY DEF TextsOf
<1>2. Loaded(f) \subseteq [Keys -> AllTexts]
  BY <1>1 DEF Loaded, AllTexts
<1>3. LoadedNodes(f) \subseteq Keys
  BY DEF LoadedNodes, Path
<1> QED BY <1>2, <1>3

(* What load brings back is a tree: every value has its node, and every    *)
(* node its ancestors.                                                     *)
LEMMA LoadedClosed ==
  ASSUME NEW f \in SUBSET (Keys \X AllTexts), NEW m \in Loaded(f)
  PROVE  /\ \A k \in LoadedNodes(f) : Path(k) \subseteq LoadedNodes(f)
         /\ \A k \in Keys : m[k] # Empty => k \in LoadedNodes(f)
<1>1. \A k \in LoadedNodes(f) : Path(k) \subseteq LoadedNodes(f)
  BY PathClosed DEF LoadedNodes
<1>2. ASSUME NEW k \in Keys, m[k] # Empty
      PROVE  k \in LoadedNodes(f)
  <2>1. TextsOf(k, f) # {}
    BY <1>2 DEF Loaded
  <2>2. PICK e \in f : e[1] = k
    BY <2>1 DEF TextsOf
  <2> QED BY <2>2, PathClosed DEF LoadedNodes
<1> QED BY <1>1, <1>2

-----------------------------------------------------------------------------
(* Type correctness *)

(* Every operation, dump and restart keeps the types. *)
LEMMA StorageTypeStep == StorageTypeOK /\ [StorageNext]_vars => StorageTypeOK'
<1> SUFFICES ASSUME StorageTypeOK, [StorageNext]_vars
             PROVE  StorageTypeOK'
  OBVIOUS
<1>1. ASSUME NEW n \in Names, NEW v \in Texts \cup {Empty}, Set(n, v)
      PROVE  StorageTypeOK'
  BY <1>1, KeysAssumption DEF Set, StorageTypeOK, Path, AllTexts
<1>2. ASSUME NEW n \in Names, NEW cascade \in BOOLEAN, DeleteValue(n, cascade)
      PROVE  StorageTypeOK'
  BY <1>2, KeysAssumption DEF DeleteValue, Unlink, StorageTypeOK, AllTexts
<1>3. ASSUME DumpBegins PROVE StorageTypeOK'
  BY <1>3 DEF DumpBegins, StorageTypeOK
<1>4. ASSUME DumpEnds PROVE StorageTypeOK'
  <2>1. Dumped \subseteq Keys
    BY DEF Dumped, StorageTypeOK
  <2>2. FileOf(Dumped) \subseteq Keys \X AllTexts
    BY <2>1, EntriesTyped
  <2> QED BY <1>4, <2>2 DEF DumpEnds, AfterDump, StorageTypeOK
<1>5. ASSUME DumpFails PROVE StorageTypeOK'
  <2>1. file' \subseteq Keys \X AllTexts
    BY <1>5, EntriesTyped DEF DumpFails, StorageTypeOK
  <2> QED BY <1>5, <2>1 DEF DumpFails, AfterDump, StorageTypeOK
<1>6. ASSUME DumperStops PROVE StorageTypeOK'
  BY <1>6 DEF DumperStops, StorageTypeOK
<1>7. ASSUME Finalize PROVE StorageTypeOK'
  BY <1>7 DEF Finalize, StorageTypeOK
<1>8. ASSUME Restart PROVE StorageTypeOK'
  <2>1. file' \subseteq Keys \X AllTexts
    BY <1>8, EntriesTyped DEF Restart, Starts, StorageTypeOK
  <2> QED BY <1>8, <2>1, LoadedTyped DEF Restart, Starts, StorageTypeOK
<1>10. ASSUME RestartUnread PROVE StorageTypeOK'
  <2>1. file' \subseteq Keys \X AllTexts
    BY <1>10, EntriesTyped DEF RestartUnread, Starts, StorageTypeOK
  <2> QED BY <1>10, <2>1 DEF RestartUnread, Starts, StorageTypeOK, AllTexts
<1>9. CASE UNCHANGED vars
  BY <1>9 DEF vars, StorageTypeOK
<1> QED
  BY <1>1, <1>2, <1>3, <1>4, <1>5, <1>6, <1>7, <1>8, <1>9, <1>10 DEF StorageNext

(* The storage state always has its types. *)
THEOREM StorageTypeCorrect == StorageSpec => []StorageTypeOK
<1>1. StorageInit => StorageTypeOK
  BY DEF StorageInit, StorageTypeOK, AllTexts
<1> QED
  BY <1>1, StorageTypeStep, PTL DEF StorageSpec

-----------------------------------------------------------------------------
(* The tree *)

(* The part of the tree's shape the proofs below rest on: a node has its   *)
(* ancestors, and a value its node.                                        *)
TreeIsClosed ==
    /\ \A k \in nodes : Path(k) \subseteq nodes
    /\ \A k \in Keys : val[k] # Empty => k \in nodes

(* Every operation, dump and restart keeps the nodes a tree. *)
LEMMA TreeStep == StorageTypeOK /\ TreeIsClosed /\ [StorageNext]_vars => TreeIsClosed'
<1> SUFFICES ASSUME StorageTypeOK, TreeIsClosed, [StorageNext]_vars
             PROVE  TreeIsClosed'
  OBVIOUS
<1>1. ASSUME NEW n \in Names, NEW v \in Texts \cup {Empty}, Set(n, v)
      PROVE  TreeIsClosed'
  <2> DEFINE k == Resolve(n)
  <2>1. k \in Keys
    BY KeysAssumption
  <2>2. nodes' = nodes \cup Path(k) /\ val' = [val EXCEPT ![k] = v]
    BY <1>1 DEF Set
  <2> QED
    BY <2>1, <2>2, PathClosed DEF TreeIsClosed, StorageTypeOK
<1>2. ASSUME NEW n \in Names, NEW cascade \in BOOLEAN, DeleteValue(n, cascade)
      PROVE  TreeIsClosed'
  <2> DEFINE k == Resolve(n)
  <2>1. k \in Keys
    BY KeysAssumption
  <2>2. CASE Unlink(k)
    <3>1. \A q \in nodes \ Below(k) : Path(q) \cap Below(k) = {}
      BY <2>1, UnderTransitive DEF Path, Below, StorageTypeOK
    <3> QED
      BY <2>1, <2>2, <3>1 DEF Unlink, Below, TreeIsClosed, StorageTypeOK
  <2>3. CASE nodes' = nodes /\ val' = [val EXCEPT ![k] = Empty]
    BY <2>1, <2>3 DEF TreeIsClosed, StorageTypeOK
  <2> QED
    BY <1>2, <2>2, <2>3 DEF DeleteValue
<1>3. ASSUME DumpBegins \/ DumpEnds \/ DumpFails \/ DumperStops \/ Finalize \/ UNCHANGED vars
      PROVE  TreeIsClosed'
  BY <1>3 DEF DumpBegins, DumpEnds, DumpFails, DumperStops, Finalize, vars, TreeIsClosed
<1>4. ASSUME Restart PROVE TreeIsClosed'
  <2>1. file' \subseteq Keys \X AllTexts
    BY <1>4, EntriesTyped DEF Restart, Starts, StorageTypeOK
  <2> QED
    BY <1>4, <2>1, LoadedClosed DEF Restart, TreeIsClosed
<1>5. ASSUME RestartUnread PROVE TreeIsClosed'
  BY <1>5 DEF RestartUnread, TreeIsClosed
<1> QED
  BY <1>1, <1>2, <1>3, <1>4, <1>5 DEF StorageNext

(* The nodes always form a tree in which every value can be reached,       *)
(* through cascades, torn dumps and restarts.                              *)
LEMMA StorageTreeClosed == StorageSpec => []TreeIsClosed
<1>1. StorageInit => TreeIsClosed
  BY DEF StorageInit, TreeIsClosed
<1> QED
  BY <1>1, StorageTypeCorrect, TreeStep, PTL DEF StorageSpec

-----------------------------------------------------------------------------
(* Durability *)

(* On plain data the whole dump says of each key exactly its value. *)
LEMMA DumpSaysValue ==
  ASSUME StorageTypeOK, PlainData, NEW k \in Keys
  PROVE  TextsOf(k, FileOf(Dumped)) = IF k \in Dumped THEN {val[k]} ELSE {}
<1>1. \A q \in Dumped : Block(q) = {<<q, val[q]>>}
  BY DEF PlainData, Block, LineKey, HeadOf, TailOf, Dumped, StorageTypeOK
<1>2. \A e \in FileOf(Dumped) : \E q \in Dumped : e = <<q, val[q]>>
  BY <1>1 DEF FileOf
<1>3. \A q \in Dumped : <<q, val[q]>> \in FileOf(Dumped)
  BY <1>1 DEF FileOf
<1>4. \A e \in FileOf(Dumped) : e[1] = k => k \in Dumped /\ e[2] = val[k]
  BY <1>2
<1>5. CASE k \in Dumped
  <2>1. val[k] \in TextsOf(k, FileOf(Dumped))
    <3> DEFINE e == <<k, val[k]>>
    <3>1. e \in {x \in FileOf(Dumped) : x[1] = k} /\ e[2] = val[k]
      BY <1>3, <1>5
    <3> HIDE DEF e
    <3> QED BY <3>1 DEF TextsOf
  <2>2. \A t \in TextsOf(k, FileOf(Dumped)) : t = val[k]
    <3> SUFFICES ASSUME NEW t \in TextsOf(k, FileOf(Dumped)) PROVE t = val[k]
      OBVIOUS
    <3>1. PICK e \in {x \in FileOf(Dumped) : x[1] = k} : t = e[2]
      BY DEF TextsOf
    <3> QED BY <1>4, <3>1
  <2> QED BY <1>5, <2>1, <2>2
<1>6. CASE k \notin Dumped
  BY <1>4, <1>6 DEF TextsOf
<1> QED BY <1>5, <1>6

(* So a load of it brings back the memory. *)
LEMMA DumpRoundTrip ==
  ASSUME StorageTypeOK, PlainData
  PROVE  kvView \in Loaded(FileOf(Dumped))
<1> DEFINE f == FileOf(Dumped)
           choices == [k \in Keys |-> IF TextsOf(k, f) = {} THEN {Empty} ELSE TextsOf(k, f)]
<1>1. \A k \in Keys : kvView[k] = IF k \in Dumped THEN val[k] ELSE Empty
  BY DEF kvView, Get, PlainData, Dumped
<1>2. \A k \in Keys : kvView[k] \in choices[k]
  BY <1>1, DumpSaysValue
<1>3. kvView \in [Keys -> UNION {choices[k] : k \in Keys}]
  <2>1. \A k \in Keys : kvView[k] \in UNION {choices[q] : q \in Keys}
    BY <1>2
  <2>2. kvView = [k \in Keys |-> kvView[k]]
    BY DEF kvView
  <2> HIDE DEF choices
  <2> QED BY <2>1, <2>2
<1> QED BY <1>2, <1>3 DEF Loaded

(* No step but a dump that fails clears pendingChanges with the file       *)
(* behind the memory, and no start but one that cannot read the file.      *)
LEMMA CleanStep ==
  ASSUME PlainData, StorageTypeOK, StorageTypeOK', TreeIsClosed',
         CleanMeansDurable, [StorageNext]_vars
  PROVE  CleanMeansDurable'
<1>1. ASSUME NEW n \in Names, NEW v \in Texts \cup {Empty}, Set(n, v)
      PROVE  CleanMeansDurable'
  BY <1>1 DEF Set, CleanMeansDurable
<1>2. ASSUME NEW n \in Names, NEW cascade \in BOOLEAN, DeleteValue(n, cascade)
      PROVE  CleanMeansDurable'
  BY <1>2 DEF DeleteValue, CleanMeansDurable
<1>3. ASSUME DumpBegins \/ DumperStops \/ Finalize \/ UNCHANGED vars
      PROVE  CleanMeansDurable'
  <2>1. kvView' = kvView /\ file' = file /\ pending' = pending /\ failed' = failed
        /\ unread' = unread
    BY <1>3 DEF DumpBegins, DumperStops, Finalize, vars, kvView, Get
  <2>2. Loaded(file') = Loaded(file)
    BY <2>1
  <2> QED BY <2>1, <2>2 DEF CleanMeansDurable
<1>4. ASSUME DumpEnds PROVE CleanMeansDurable'
  <2>1. kvView' = kvView /\ file' = FileOf(Dumped)
    BY <1>4 DEF DumpEnds, kvView, Get
  <2>2. kvView' \in Loaded(file')
    BY <2>1, DumpRoundTrip
  <2> QED BY <2>2 DEF CleanMeansDurable
<1>5. ASSUME DumpFails PROVE CleanMeansDurable'
  BY <1>5 DEF DumpFails, CleanMeansDurable
<1>6. ASSUME Restart PROVE CleanMeansDurable'
  <2>1. kvView' = val'
    BY DEF kvView, Get, PlainData, TreeIsClosed, StorageTypeOK
  <2> QED BY <1>6, <2>1 DEF Restart, CleanMeansDurable
<1>7. ASSUME RestartUnread PROVE CleanMeansDurable'
  BY <1>7 DEF RestartUnread, CleanMeansDurable
<1> QED
  BY <1>1, <1>2, <1>3, <1>4, <1>5, <1>6, <1>7 DEF StorageNext

(* With plain data, a store with nothing pending whose last dump was       *)
(* written, and that read its file when it started, loses nothing when the *)
(* process dies.                                                           *)
THEOREM StorageCleanMeansDurable ==
  ASSUME PlainData
  PROVE  StorageSpec => []CleanMeansDurable
<1>1. StorageInit => CleanMeansDurable
  <2> SUFFICES ASSUME StorageInit PROVE kvView \in Loaded(file)
    BY DEF CleanMeansDurable
  <2>1. StorageTypeOK /\ Dumped = {}
    BY DEF StorageInit, StorageTypeOK, Dumped, AllTexts
  <2>2. FileOf(Dumped) = file
    BY <2>1 DEF FileOf, StorageInit
  <2> QED BY <2>1, <2>2, DumpRoundTrip
<1>2. StorageTypeOK /\ StorageTypeOK' /\ TreeIsClosed' /\ CleanMeansDurable /\ [StorageNext]_vars
        => CleanMeansDurable'
  BY CleanStep
<1> QED
  BY <1>1, <1>2, StorageTypeCorrect, StorageTreeClosed, PTL DEF StorageSpec

-----------------------------------------------------------------------------
(* Refinement: the storage implements DurableStore *)

(* No key has two texts in the file, so a load of it has one outcome. *)
OneTextPerKey == \A e, g \in file : e[1] = g[1] => e[2] = g[2]

(* On plain data a whole block is the key and its value. *)
LEMMA PlainBlocks ==
  ASSUME StorageTypeOK, PlainData, NEW D \in SUBSET Dumped
  PROVE  \A e : e \in FileOf(D) <=> \E q \in D : e = <<q, val[q]>>
<1>1. \A q \in D : Block(q) = {<<q, val[q]>>}
  BY DEF PlainData, Block, LineKey, HeadOf, TailOf, Dumped, StorageTypeOK
<1> QED BY <1>1 DEF FileOf

(* On plain data a dump cut short holds, for each key at most once, its    *)
(* value, the empty text or a cut text.                                    *)
LEMMA TornIsPartial ==
  ASSUME StorageTypeOK, PlainData, NEW f \in TornFiles
  PROVE  /\ \A e \in f : e[1] \in Dumped /\ e[2] \in {val[e[1]], Empty, Stub}
         /\ \A e, g \in f : e[1] = g[1] => e[2] = g[2]
<1>1. CASE \E D \in SUBSET Dumped : f = FileOf(D)
  BY <1>1, PlainBlocks
<1>2. ASSUME NEW D \in SUBSET Dumped, f \in TornAfter(D)
      PROVE  /\ \A e \in f : e[1] \in Dumped /\ e[2] \in {val[e[1]], Empty, Stub}
             /\ \A e, g \in f : e[1] = g[1] => e[2] = g[2]
  <2>1. PICK k \in NextBlocks(D) : f \in {FileOf(D) \cup cut : cut \in CutBlocks(k)}
    BY <1>2 DEF TornAfter
  <2>2. PICK cut \in CutBlocks(k) : f = FileOf(D) \cup cut
    BY <2>1
  <2>3. k \in Dumped \ D /\ k \in Keys /\ LineKey(k) = k /\ TailOf(k) = {}
    BY DEF NextBlocks, Dumped, PlainData, LineKey, TailOf, StorageTypeOK
  <2>4. cut = {} \/ cut = {<<k, Empty>>} \/ cut = {<<k, Stub>>}
    BY <2>3 DEF CutBlocks
  <2>5. \A e \in FileOf(D) : e[1] \in D /\ e[2] = val[e[1]]
    BY PlainBlocks
  <2>6. \A e \in cut : e[1] = k /\ e[2] \in {Empty, Stub}
    BY <2>4
  <2>7. \A e, g \in cut : e = g
    BY <2>4
  <2> QED BY <2>2, <2>3, <2>5, <2>6, <2>7
<1> QED
  BY <1>1, <1>2 DEF TornFiles

(* What a file with one text per key says of each key. *)
LEMMA FileSays ==
  ASSUME NEW f, \A e, g \in f : e[1] = g[1] => e[2] = g[2], NEW k \in Keys
  PROVE  /\ \A e \in f : e[1] = k => TextsOf(k, f) = {e[2]}
         /\ (\A e \in f : e[1] # k) => TextsOf(k, f) = {}
<1>1. ASSUME NEW e \in f, e[1] = k
      PROVE  TextsOf(k, f) = {e[2]}
  <2>1. e[2] \in TextsOf(k, f)
    BY <1>1 DEF TextsOf
  <2>2. \A t \in TextsOf(k, f) : t = e[2]
    BY <1>1 DEF TextsOf
  <2> QED BY <2>1, <2>2
<1>2. (\A e \in f : e[1] # k) => TextsOf(k, f) = {}
  BY DEF TextsOf
<1> QED BY <1>1, <1>2

(* Every dump, whole or torn, and so every load, has one text per key. *)
LEMMA OneTextStep ==
  ASSUME PlainData, StorageTypeOK, OneTextPerKey, [StorageNext]_vars
  PROVE  OneTextPerKey'
<1>1. ASSUME file' = FileOf(Dumped) PROVE OneTextPerKey'
  <2>1. \A e \in file' : e[2] = val[e[1]]
    BY <1>1, PlainBlocks
  <2> QED BY <2>1 DEF OneTextPerKey
<1>2. ASSUME file' \in TornFiles PROVE OneTextPerKey'
  BY <1>2, TornIsPartial DEF OneTextPerKey
<1>3. ASSUME file' = file PROVE OneTextPerKey'
  BY <1>3 DEF OneTextPerKey
<1>4. file' = FileOf(Dumped) \/ file' \in TornFiles \/ file' = file
  BY DEF StorageNext, Set, DeleteValue, DumpBegins, DumpEnds, DumpFails, DumperStops,
         Finalize, Restart, RestartUnread, Starts, vars
<1> QED BY <1>1, <1>2, <1>3, <1>4

(* A load of such a file brings back exactly what it says of each key. *)
LEMMA LoadIsDetermined ==
  ASSUME NEW f, \A e, g \in f : e[1] = g[1] => e[2] = g[2], NEW m \in Loaded(f)
  PROVE  m = [k \in Keys |-> IF TextsOf(k, f) = {} THEN Empty
                                                   ELSE CHOOSE t \in TextsOf(k, f) : TRUE]
<1> DEFINE said(k) == IF TextsOf(k, f) = {} THEN Empty ELSE CHOOSE t \in TextsOf(k, f) : TRUE
<1>1. ASSUME NEW k \in Keys PROVE m[k] = said(k)
  <2>1. CASE \E e \in f : e[1] = k
    <3>1. PICK e \in f : TextsOf(k, f) = {e[2]}
      BY <2>1, FileSays
    <3> QED BY <3>1 DEF Loaded
  <2>2. CASE \A e \in f : e[1] # k
    <3>1. TextsOf(k, f) = {}
      BY <2>2, FileSays
    <3> QED BY <3>1 DEF Loaded
  <2> QED BY <2>1, <2>2
<1>2. m = [k \in Keys |-> m[k]]
  BY DEF Loaded
<1> QED BY <1>1, <1>2

(* In a tree whose keys resolve to themselves, Get reads val. *)
LEMMA GetReadsVal ==
  ASSUME PlainData, StorageTypeOK, TreeIsClosed
  PROVE  kvView = val
<1>1. \A k \in Keys : kvView[k] = val[k]
  BY DEF kvView, Get, PlainData, TreeIsClosed
<1> QED BY <1>1 DEF kvView, StorageTypeOK

(* A dump cut short leaves a partial copy of the memory. *)
LEMMA TornLeavesPartialCopy ==
  ASSUME PlainData, StorageTypeOK, TreeIsClosed, file' \in TornFiles
  PROVE  Store!IsPartialCopy(durableView', kvView)
<1>1. \A e \in file' : e[1] \in Dumped /\ e[2] \in {val[e[1]], Empty, Stub}
  BY TornIsPartial
<1>2. \A e, g \in file' : e[1] = g[1] => e[2] = g[2]
  BY TornIsPartial
<1>3. ASSUME NEW k \in Keys PROVE durableView'[k] \in {val[k], Empty, Stub}
  <2>1. CASE \E e \in file' : e[1] = k
    <3>1. PICK e \in file' : e[1] = k /\ TextsOf(k, file') = {e[2]}
      BY <1>2, <2>1, FileSays
    <3> QED BY <1>1, <3>1 DEF durableView
  <2>2. CASE \A e \in file' : e[1] # k
    <3>1. TextsOf(k, file') = {}
      BY <1>2, <2>2, FileSays
    <3> QED BY <3>1 DEF durableView
  <2> QED BY <2>1, <2>2
<1>4. DOMAIN durableView' = Keys
  BY DEF durableView
<1> QED BY <1>3, <1>4, GetReadsVal DEF Store!IsPartialCopy

(* A whole dump makes the durable view equal to the memory. *)
LEMMA DumpCopiesMemory ==
  ASSUME PlainData, StorageTypeOK, TreeIsClosed, file' = FileOf(Dumped)
  PROVE  durableView' = kvView
<1>1. \A k \in Keys : durableView'[k] = val[k]
  <2> TAKE k \in Keys
  <2>1. TextsOf(k, file') = IF k \in Dumped THEN {val[k]} ELSE {}
    BY DumpSaysValue
  <2>2. k \notin Dumped => val[k] = Empty
    BY DEF Dumped, TreeIsClosed
  <2> QED BY <2>1, <2>2 DEF durableView
<1>2. durableView' = [k \in Keys |-> durableView'[k]]
  BY DEF durableView
<1> QED BY <1>1, <1>2, GetReadsVal DEF StorageTypeOK

(* A step that leaves the file alone leaves the durable copy alone. *)
LEMMA SameFileSameCopy == file' = file => durableView' = durableView
  BY DEF durableView

(* Every step of the storage is a step of the abstract store, or none. *)
LEMMA StorageStepRefines ==
  ASSUME PlainData, StorageTypeOK, StorageTypeOK', TreeIsClosed, TreeIsClosed',
         OneTextPerKey', [StorageNext]_vars
  PROVE  [Store!StoreNext]_<<kvView, durableView, dumper = "writing">>
<1>0. kvView = val /\ kvView' = val'
  BY GetReadsVal DEF kvView, Get, PlainData, TreeIsClosed, StorageTypeOK
<1>1. ASSUME NEW n \in Names, NEW v \in Texts \cup {Empty}, Set(n, v)
      PROVE  Store!StoreNext
  <2>1. Resolve(n) \in Keys
    BY KeysAssumption
  <2>2. Store!Put(Resolve(n), v)
    BY <1>0, <1>1, SameFileSameCopy DEF Set, MuFree, Store!Put
  <2> QED BY <2>1, <2>2 DEF Store!StoreNext
<1>2. ASSUME NEW n \in Names, NEW cascade \in BOOLEAN, DeleteValue(n, cascade)
      PROVE  Store!StoreNext
  <2>1. Resolve(n) \in Keys
    BY KeysAssumption
  <2>2. CASE Unlink(Resolve(n))
    <3>1. Store!RemoveTree(Resolve(n))
      BY <1>0, <1>2, <2>2, SameFileSameCopy DEF DeleteValue, Unlink, MuFree, Store!RemoveTree
    <3> QED BY <2>1, <3>1 DEF Store!StoreNext
  <2>3. CASE val' = [val EXCEPT ![Resolve(n)] = Empty]
    <3>1. Store!Put(Resolve(n), Empty)
      BY <1>0, <1>2, <2>3, SameFileSameCopy DEF DeleteValue, MuFree, Store!Put
    <3> QED BY <2>1, <3>1 DEF Store!StoreNext
  <2> QED BY <1>2, <2>2, <2>3 DEF DeleteValue
<1>3. ASSUME DumpBegins PROVE Store!StoreNext
  <2>1. Store!BeginSync
    BY <1>0, <1>3, SameFileSameCopy DEF DumpBegins, Store!BeginSync
  <2> QED BY <2>1 DEF Store!StoreNext
<1>4. ASSUME DumpEnds PROVE Store!StoreNext
  <2>1. durableView' = kvView
    BY <1>4, DumpCopiesMemory DEF DumpEnds
  <2>2. Store!EndSync
    BY <1>0, <1>4, <2>1 DEF DumpEnds, AfterDump, Store!EndSync
  <2> QED BY <2>2 DEF Store!StoreNext
<1>5. ASSUME DumpFails PROVE Store!StoreNext
  <2>1. durableView' = durableView \/ Store!IsPartialCopy(durableView', kvView)
    BY <1>5, SameFileSameCopy, TornLeavesPartialCopy DEF DumpFails
  <2>2. Store!AbortSync
    BY <1>0, <1>5, <2>1 DEF DumpFails, AfterDump, Store!AbortSync
  <2> QED BY <2>2 DEF Store!StoreNext
<1>6. ASSUME DumperStops \/ Finalize \/ UNCHANGED vars
      PROVE  UNCHANGED <<kvView, durableView, dumper = "writing">>
  BY <1>0, <1>6, SameFileSameCopy DEF DumperStops, Finalize, vars
<1>7. ASSUME Restart PROVE Store!StoreNext
  <2>1. val' = durableView'
    BY <1>7, LoadIsDetermined DEF Restart, OneTextPerKey, durableView
  <2>2. Store!Recover
    BY <1>0, <1>7, <2>1, SameFileSameCopy, TornLeavesPartialCopy
       DEF Restart, Starts, Store!Recover, Store!CopyLeft
  <2> QED BY <2>2 DEF Store!StoreNext
<1>8. ASSUME RestartUnread PROVE Store!StoreNext
  <2>1. Store!RecoverNothing
    BY <1>0, <1>8, SameFileSameCopy, TornLeavesPartialCopy
       DEF RestartUnread, Starts, Store!RecoverNothing, Store!CopyLeft
  <2> QED BY <2>1 DEF Store!StoreNext
<1> QED
  BY <1>1, <1>2, <1>3, <1>4, <1>5, <1>6, <1>7, <1>8 DEF StorageNext

(* On plain data the tree, the dumper, torn writes and restarts implement  *)
(* a store with a durable copy: a change touches one key or one subtree,   *)
(* none slips into a running dump, and a restart brings back what the last *)
(* dump left of each key, or nothing when the file cannot be read.         *)
THEOREM StorageImplementsDurableStore ==
  ASSUME PlainData
  PROVE  StorageSpec => ImplementsDurableStore
<1>1. StorageInit => OneTextPerKey
  BY DEF StorageInit, OneTextPerKey
<1>2. StorageInit => Store!StoreInit
  <2> SUFFICES ASSUME StorageInit PROVE Store!StoreInit
    OBVIOUS
  <2>1. kvView = [k \in Keys |-> Empty]
    BY DEF StorageInit, kvView, Get
  <2>2. durableView = [k \in Keys |-> Empty]
    BY DEF StorageInit, durableView, TextsOf
  <2> QED BY <2>1, <2>2 DEF StorageInit, Store!StoreInit
<1>3. StorageTypeOK /\ OneTextPerKey /\ [StorageNext]_vars => OneTextPerKey'
  BY OneTextStep
<1>4. /\ StorageTypeOK /\ StorageTypeOK' /\ TreeIsClosed /\ TreeIsClosed'
      /\ OneTextPerKey' /\ [StorageNext]_vars
      => [Store!StoreNext]_<<kvView, durableView, dumper = "writing">>
  BY StorageStepRefines
<1> QED
  BY <1>1, <1>2, <1>3, <1>4, StorageTypeCorrect, StorageTreeClosed, PTL
     DEF StorageSpec, ImplementsDurableStore, Store!StoreSpec

=============================================================================
