------------------------ MODULE ClientRegistryProofs ------------------------
(***************************************************************************)
(* Proofs about controller.go and controller_clienthelper.go: for any      *)
(* number of goroutines, clients, variables, dumps and restarts, the       *)
(* observers listed by the variables and the variables listed by the       *)
(* clients agree up to the operations in progress.                         *)
(***************************************************************************)
EXTENDS ClientRegistry, FiniteSetTheorems, SequenceTheorems, TLAPS

-----------------------------------------------------------------------------
(* How often a client is in a list of observers *)

EntriesOf(s, c) == {i \in DOMAIN s : s[i].client = c}

LEMMA SameSize ==
  ASSUME NEW A, NEW B, IsFiniteSet(A), NEW f \in [A -> B],
         \A a, b \in A : f[a] = f[b] => a = b,
         \A x \in B : \E a \in A : f[a] = x
  PROVE  IsFiniteSet(B) /\ Cardinality(A) = Cardinality(B)
<1>1. f \in Injection(A, B)
  BY DEF Injection, IsInjective
<1>2. f \in Surjection(A, B)
  BY DEF Surjection
<1>3. ExistsBijection(A, B)
  BY <1>1, <1>2 DEF ExistsBijection, Bijection
<1> QED BY <1>3, FS_Bijection

LEMMA EntriesAreFinite ==
  ASSUME NEW s \in Seq(Entries), NEW c
  PROVE  /\ IsFiniteSet(DOMAIN s)
         /\ IsFiniteSet(EntriesOf(s, c))
         /\ Cardinality(EntriesOf(s, c)) \in Nat
<1>1. IsFiniteSet(DOMAIN s)
  BY FS_Interval
<1>2. IsFiniteSet(EntriesOf(s, c))
  BY <1>1, FS_Subset DEF EntriesOf
<1> QED BY <1>1, <1>2, FS_CardinalityType

LEMMA PlacesAreInts ==
  ASSUME NEW s \in Seq(Entries), NEW S, S \subseteq DOMAIN s
  PROVE  S \subseteq Int /\ IsFiniteSet(S)
<1>1. DOMAIN s = 1..Len(s) /\ Len(s) \in Nat
  BY LenProperties
<1>2. IsFiniteSet(DOMAIN s)
  BY EntriesAreFinite
<1> QED BY <1>1, <1>2, FS_Subset

(* An entry added at the end counts for its client. *)
LEMMA AppendCounts ==
  ASSUME NEW s \in Seq(Entries), NEW e \in Entries, NEW c
  PROVE  Cardinality(EntriesOf(Append(s, e), c)) =
            Cardinality(EntriesOf(s, c)) + (IF e.client = c THEN 1 ELSE 0)
<1> DEFINE n == Len(s) + 1
<1>1. /\ DOMAIN Append(s, e) = (DOMAIN s) \cup {n}
      /\ \A i \in DOMAIN s : Append(s, e)[i] = s[i]
      /\ Append(s, e)[n] = e
      /\ n \notin DOMAIN s
  <2>1. /\ Append(s, e) \in Seq(Entries)
        /\ Len(Append(s, e)) = Len(s) + 1
        /\ \A i \in 1..Len(s) : Append(s, e)[i] = s[i]
        /\ Append(s, e)[Len(s) + 1] = e
    BY AppendProperties
  <2>2. DOMAIN Append(s, e) = 1..(Len(s) + 1) /\ DOMAIN s = 1..Len(s) /\ Len(s) \in Nat
    BY <2>1, LenProperties
  <2> QED BY <2>1, <2>2
<1> HIDE DEF n
<1>2. CASE e.client = c
  <2>1. EntriesOf(Append(s, e), c) = EntriesOf(s, c) \cup {n}
    BY <1>1, <1>2 DEF EntriesOf
  <2>2. n \notin EntriesOf(s, c)
    BY <1>1 DEF EntriesOf
  <2> QED BY <1>2, <2>1, <2>2, EntriesAreFinite, FS_AddElement
<1>3. CASE e.client # c
  <2>1. EntriesOf(Append(s, e), c) = EntriesOf(s, c)
    BY <1>1, <1>3 DEF EntriesOf
  <2> QED BY <1>3, <2>1, EntriesAreFinite
<1> QED BY <1>2, <1>3

(* RemoveAt, place by place. *)
LEMMA RemoveAtPlaces ==
  ASSUME NEW s \in Seq(Entries), NEW i \in DOMAIN s
  PROVE  /\ RemoveAt(s, i) \in Seq(Entries)
         /\ DOMAIN RemoveAt(s, i) = 1..(Len(s) - 1)
         /\ \A k \in 1..(Len(s) - 1) : RemoveAt(s, i)[k] = IF k < i THEN s[k] ELSE s[k + 1]
<1> DEFINE l == SubSeq(s, 1, i - 1)
           r == SubSeq(s, i + 1, Len(s))
<1>1. Len(s) \in Nat /\ DOMAIN s = 1..Len(s) /\ i \in 1..Len(s)
  BY LenProperties
<1>2. l \in Seq(Entries) /\ Len(l) = i - 1 /\ \A k \in 1..(i - 1) : l[k] = s[k]
  BY <1>1
<1>3. r \in Seq(Entries) /\ Len(r) = Len(s) - i /\ \A k \in 1..(Len(s) - i) : r[k] = s[i + k]
  BY <1>1
<1>4. /\ l \o r \in Seq(Entries)
      /\ Len(l \o r) = Len(l) + Len(r)
      /\ \A k \in 1..(Len(l) + Len(r)) : (l \o r)[k] = IF k <= Len(l) THEN l[k] ELSE r[k - Len(l)]
  BY <1>2, <1>3, ConcatProperties
<1>5. Len(l) + Len(r) = Len(s) - 1
  BY <1>1, <1>2, <1>3
<1>6. RemoveAt(s, i) = l \o r
  BY DEF RemoveAt
<1> HIDE DEF l, r
<1>7. ASSUME NEW k \in 1..(Len(s) - 1)
      PROVE  (l \o r)[k] = IF k < i THEN s[k] ELSE s[k + 1]
  <2>1. CASE k < i
    BY <1>1, <1>2, <1>4, <1>5, <2>1
  <2>2. CASE k >= i
    <3>1. k - (i - 1) \in 1..(Len(s) - i) /\ i + (k - (i - 1)) = k + 1 /\ ~(k <= i - 1)
      BY <1>1, <2>2
    <3>2. (l \o r)[k] = r[k - (i - 1)]
      BY <1>2, <1>4, <1>5, <3>1
    <3>3. r[k - (i - 1)] = s[i + (k - (i - 1))]
      BY <1>3, <3>1
    <3>4. ~(k < i)
      BY <1>1, <2>2
    <3> QED BY <3>1, <3>2, <3>3, <3>4
  <2>3. k < i \/ k >= i
    BY <1>1
  <2> QED BY <2>1, <2>2, <2>3
<1> QED BY <1>4, <1>5, <1>6, <1>7, LenProperties

(* Without its entry at place i a list has one entry less of that client,  *)
(* and as many as before of the others.                                    *)
LEMMA RemoveAtCounts ==
  ASSUME NEW s \in Seq(Entries), NEW i \in DOMAIN s, NEW c
  PROVE  Cardinality(EntriesOf(RemoveAt(s, i), c)) =
            Cardinality(EntriesOf(s, c)) - (IF s[i].client = c THEN 1 ELSE 0)
<1> DEFINE t == RemoveAt(s, i)
           A == EntriesOf(s, c) \ {i}
           f == [k \in A |-> IF k < i THEN k ELSE k - 1]
<1>1. Len(s) \in Nat /\ DOMAIN s = 1..Len(s) /\ i \in 1..Len(s)
  BY LenProperties
<1>2. /\ t \in Seq(Entries)
      /\ DOMAIN t = 1..(Len(s) - 1)
      /\ \A k \in 1..(Len(s) - 1) : t[k] = IF k < i THEN s[k] ELSE s[k + 1]
  BY RemoveAtPlaces
<1> HIDE DEF t
<1>3. Cardinality(A) = Cardinality(EntriesOf(t, c))
  <2>1. ASSUME NEW k \in A PROVE f[k] \in EntriesOf(t, c)
    <3>1. k \in 1..Len(s) /\ s[k].client = c /\ k # i
      BY <1>1 DEF EntriesOf
    <3>2. CASE k < i
      <4>1. k \in 1..(Len(s) - 1)
        BY <1>1, <3>1, <3>2
      <4> QED BY <1>2, <3>1, <3>2, <4>1 DEF EntriesOf
    <3>3. CASE k > i
      <4>1. k - 1 \in 1..(Len(s) - 1) /\ ~(k - 1 < i) /\ (k - 1) + 1 = k /\ ~(k < i)
        BY <1>1, <3>1, <3>3
      <4>2. t[k - 1] = s[k]
        BY <1>2, <4>1
      <4> QED BY <1>2, <3>1, <4>1, <4>2 DEF EntriesOf
    <3> QED BY <1>1, <3>1, <3>2, <3>3
  <2>2. ASSUME NEW a \in A, NEW b \in A, f[a] = f[b] PROVE a = b
    <3>1. a \in 1..Len(s) /\ b \in 1..Len(s) /\ a # i /\ b # i
      BY <1>1 DEF EntriesOf
    <3> QED BY <1>1, <2>2, <3>1
  <2>3. ASSUME NEW k \in EntriesOf(t, c) PROVE \E a \in A : f[a] = k
    <3>1. k \in 1..(Len(s) - 1) /\ t[k].client = c
      BY <1>2 DEF EntriesOf
    <3>2. CASE k < i
      <4>1. k \in A
        BY <1>1, <1>2, <3>1, <3>2 DEF EntriesOf
      <4> QED BY <3>2, <4>1
    <3>3. CASE k >= i
      <4>1. k + 1 \in A /\ ~(k + 1 < i) /\ (k + 1) - 1 = k
        BY <1>1, <1>2, <3>1, <3>3 DEF EntriesOf
      <4> QED BY <4>1
    <3> QED BY <1>1, <3>1, <3>2, <3>3
  <2> HIDE DEF A
  <2>4. f \in [A -> EntriesOf(t, c)]
    BY <2>1
  <2> HIDE DEF f
  <2>5. IsFiniteSet(A)
    BY EntriesAreFinite, FS_RemoveElement DEF A
  <2> QED BY <2>2, <2>3, <2>4, <2>5, SameSize
<1>4. IsFiniteSet(EntriesOf(s, c)) /\ Cardinality(EntriesOf(s, c)) \in Nat
  BY EntriesAreFinite
<1>5. CASE s[i].client = c
  <2>1. i \in EntriesOf(s, c)
    BY <1>5 DEF EntriesOf
  <2>2. Cardinality(A) = Cardinality(EntriesOf(s, c)) - 1
    BY <1>4, <2>1, FS_RemoveElement
  <2> QED BY <1>3, <1>5, <2>2 DEF t
<1>6. CASE s[i].client # c
  <2>1. A = EntriesOf(s, c)
    BY <1>6 DEF EntriesOf
  <2> HIDE DEF A
  <2> QED BY <1>3, <1>4, <1>6, <2>1 DEF t
<1> QED BY <1>5, <1>6

(* The place of a number among the numbers of a finite set, from 1 on. *)
Rank(S, i) == Cardinality({j \in S : j <= i})

LEMMA RankIsOneToOne ==
  ASSUME NEW S, S \subseteq Int, IsFiniteSet(S)
  PROVE  /\ \A i \in S : Rank(S, i) \in 1..Cardinality(S)
         /\ \A i, j \in S : Rank(S, i) = Rank(S, j) => i = j
         /\ \A k \in 1..Cardinality(S) : \E i \in S : Rank(S, i) = k
         /\ \A i, j \in S : i < j => Rank(S, i) < Rank(S, j)
<1> DEFINE U(i) == {j \in S : j <= i}
<1>1. \A i : /\ IsFiniteSet(U(i)) /\ Cardinality(U(i)) \in Nat
             /\ Cardinality(U(i)) <= Cardinality(S)
  BY FS_Subset, FS_CardinalityType
<1>2. Cardinality(S) \in Nat
  BY FS_CardinalityType
<1>3. ASSUME NEW i \in S PROVE Rank(S, i) \in 1..Cardinality(S)
  <2>1. i \in U(i)
    OBVIOUS
  <2>2. Cardinality(U(i)) # 0
    BY <1>1, <2>1, FS_EmptySet
  <2> HIDE DEF U
  <2>3. Cardinality(U(i)) \in 1..Cardinality(S)
    BY <1>1, <1>2, <2>2
  <2> QED BY <2>3 DEF Rank, U
<1>4. ASSUME NEW i \in S, NEW j \in S, i < j PROVE Rank(S, i) < Rank(S, j)
  <2>1. i \in Int /\ j \in Int /\ \A k \in S : k \in Int
    OBVIOUS
  <2>2. U(i) \subseteq U(j)
    <3>1. ASSUME NEW k \in S, k <= i PROVE k <= j
      BY <1>4, <2>1, <3>1
    <3> QED BY <3>1
  <2>3. j \in U(j) /\ j \notin U(i)
    BY <1>4, <2>1
  <2> HIDE DEF U
  <2>4. U(i) # U(j)
    BY <2>3
  <2>5. Cardinality(U(i)) < Cardinality(U(j))
    BY <1>1, <2>2, <2>4, FS_Subset
  <2> QED BY <2>5 DEF Rank, U
<1>5. ASSUME NEW i \in S, NEW j \in S, Rank(S, i) = Rank(S, j) PROVE i = j
  <2>1. Rank(S, i) \in Int /\ Rank(S, j) \in Int
    BY <1>2, <1>3
  <2>2. ~(i < j) /\ ~(j < i)
    BY <1>4, <1>5, <2>1
  <2> QED BY <2>2
<1>6. \A k \in 1..Cardinality(S) : \E i \in S : Rank(S, i) = k
  <2> DEFINE f == [i \in S |-> Rank(S, i)]
  <2>1. f \in [S -> 1..Cardinality(S)]
    BY <1>3
  <2>2. \A a, b \in S : f[a] = f[b] => a = b
    BY <1>5
  <2>3. \A k : (\E i \in S : f[i] = k) => (\E i \in S : Rank(S, i) = k)
    OBVIOUS
  <2> HIDE DEF f
  <2>4. f \in Injection(S, 1..Cardinality(S))
    BY <2>1, <2>2 DEF Injection, IsInjective
  <2>5. IsFiniteSet(1..Cardinality(S)) /\ Cardinality(1..Cardinality(S)) = Cardinality(S)
    BY <1>2, FS_Interval
  <2>6. f \in Surjection(S, 1..Cardinality(S))
    BY <2>4, <2>5, FS_Injection
  <2> QED BY <2>3, <2>6 DEF Surjection
<1> QED BY <1>3, <1>4, <1>5, <1>6

LEMMA Extremes ==
  ASSUME NEW S, S \subseteq Int, IsFiniteSet(S), S # {}
  PROVE  /\ \E i \in S : \A j \in S : j <= i
         /\ \E i \in S : \A j \in S : i <= j
<1>1. Cardinality(S) \in Nat /\ Cardinality(S) # 0
  BY FS_CardinalityType, FS_EmptySet
<1>2. /\ \A i \in S : Rank(S, i) \in 1..Cardinality(S)
      /\ \A k \in 1..Cardinality(S) : \E i \in S : Rank(S, i) = k
      /\ \A i, j \in S : i < j => Rank(S, i) < Rank(S, j)
  BY RankIsOneToOne
<1>3. PICK t \in S : Rank(S, t) = Cardinality(S)
  BY <1>1, <1>2
<1>4. PICK b \in S : Rank(S, b) = 1
  BY <1>1, <1>2
<1>5. ASSUME NEW j \in S PROVE j <= t /\ b <= j
  <2>1. Rank(S, j) \in 1..Cardinality(S) /\ t \in Int /\ b \in Int /\ j \in Int
    BY <1>2
  <2>2. ~(t < j) /\ ~(j < b)
    BY <1>1, <1>2, <1>3, <1>4, <2>1
  <2> QED BY <2>1, <2>2
<1> QED BY <1>5

EntriesAmong(s, O, c) == {i \in O : s[i].client = c}

(* The entries of s at the places O, in their order: as many of a client   *)
(* as O has.                                                               *)
Selection(s, O) ==
    [k \in 1..Cardinality(O) |-> s[CHOOSE i \in O : Cardinality({j \in O : j <= i}) = k]]

LEMMA SelectionCounts ==
  ASSUME NEW s \in Seq(Entries), NEW O, O \subseteq DOMAIN s, NEW d
  PROVE  /\ Selection(s, O) \in Seq(Entries)
         /\ Cardinality(EntriesOf(Selection(s, O), d)) = Cardinality(EntriesAmong(s, O, d))
<1>0. PICK t : t = Selection(s, O)
  OBVIOUS
<1> DEFINE N(k) == CHOOSE i \in O : Rank(O, i) = k
           A == {i \in O : s[i].client = d}
           f == [i \in A |-> Rank(O, i)]
<1>1. O \subseteq Int /\ IsFiniteSet(O) /\ Cardinality(O) \in Nat
  BY LenProperties, EntriesAreFinite, FS_Subset, FS_CardinalityType
<1>2. /\ \A i \in O : Rank(O, i) \in 1..Cardinality(O)
      /\ \A i, j \in O : Rank(O, i) = Rank(O, j) => i = j
      /\ \A k \in 1..Cardinality(O) : \E i \in O : Rank(O, i) = k
  BY <1>1, RankIsOneToOne
<1>3. t = [k \in 1..Cardinality(O) |-> s[N(k)]]
  BY <1>0 DEF Rank, Selection
<1>4. \A k \in 1..Cardinality(O) : N(k) \in O /\ Rank(O, N(k)) = k
  BY <1>2
<1> HIDE DEF N
<1>5. t \in Seq(Entries) /\ DOMAIN t = 1..Cardinality(O)
  <2>1. \A k \in 1..Cardinality(O) : s[N(k)] \in Entries
    BY <1>4, ElementOfSeq, LenProperties
  <2>2. t \in [1..Cardinality(O) -> Entries]
    BY <1>3, <2>1
  <2> QED BY <1>1, <2>2, SeqDef
<1>6. \A i \in O : Rank(O, i) \in DOMAIN t /\ t[Rank(O, i)] = s[i]
  BY <1>2, <1>3, <1>4
<1>7. \A k \in DOMAIN t : N(k) \in O /\ Rank(O, N(k)) = k /\ t[k] = s[N(k)]
  BY <1>3, <1>4, <1>5
<1>8. Cardinality(A) = Cardinality(EntriesOf(t, d))
  <2>1. f \in [A -> EntriesOf(t, d)]
    BY <1>6 DEF EntriesOf
  <2>2. \A a, b \in A : f[a] = f[b] => a = b
    BY <1>2
  <2>3. ASSUME NEW k \in EntriesOf(t, d) PROVE \E a \in A : f[a] = k
    <3>1. N(k) \in A /\ f[N(k)] = k
      BY <1>7 DEF EntriesOf
    <3> QED BY <3>1
  <2>4. IsFiniteSet(A)
    BY <1>1, FS_Subset
  <2> HIDE DEF A, f
  <2> QED BY <2>1, <2>2, <2>3, <2>4, SameSize
<1> QED BY <1>0, <1>5, <1>8 DEF EntriesAmong

-----------------------------------------------------------------------------
(* The inductive invariant *)

(* What goroutines are about: no helper is built for a client of unknown   *)
(* api but by a notification, and only ObserveVar and StopObservingVar     *)
(* come to the lists, with a variable.                                     *)
SoundJob(j) ==
    j # <<>> => /\ j.kind \in {"observe", "stop"} => j.var \in Vars
                /\ j.pc \in {"register", "note"} => j.kind = "observe"
                /\ j.pc = "unregister" => j.kind = "stop"
                /\ j.pc = "lookup" => j.kind = "notify"

JobsAreSound ==
    /\ job \in [Procs -> JobRecords \cup {<<>>}]
    /\ \A p \in Procs : SoundJob(job[p])

(* In a dump the lists of a client with no call in between agree exactly:  *)
(* a restart ends all calls.                                               *)
SavedIsEven ==
    /\ saved = [node |-> saved.node, observers |-> saved.observers,
                indexed |-> saved.indexed, uneven |-> saved.uneven]
    /\ \A c \in Clients \ saved.uneven, v \in Vars :
          Cardinality(EntriesOf(saved.observers[v], c)) = saved.node[c].observing[v]

Agrees(c, v) ==
    \/ Purging(c, v)
    \/ Cardinality(PlacesOf(v, c)) =
         node[c].observing[v] + Cardinality(Noting(c, v)) - Cardinality(Stopping(c, v))

(* Of a client that no call overlapped: the lists agree; a deletion that   *)
(* has read its list knows all of it; and no stop is under way that a      *)
(* deletion would overtake.                                                *)
ClientIsSound(c) ==
    /\ \A v \in Vars : Agrees(c, v)
    /\ \A p \in Jobs(c, {"remove"}), v \in Vars : v \notin job[p].todo => node[c].observing[v] = 0
    /\ \A p \in Jobs(c, {"purge"}), v \in Vars : Stopping(c, v) = {}

RegistryInv ==
    /\ RegistryTypeOK
    /\ JobsAreSound
    /\ SavedIsEven
    /\ \A c \in Clients \ uneven : ClientIsSound(c)

-----------------------------------------------------------------------------
(* What a step of one goroutine leaves alone *)

LEMMA RecordsAreNotIdle == \A j \in JobRecords : j # <<>>
<1> SUFFICES ASSUME NEW j \in JobRecords, j = <<>> PROVE FALSE
  OBVIOUS
<1>1. "kind" \in DOMAIN j
  BY DEF JobRecords
<1>2. DOMAIN j = {}
  OBVIOUS
<1> QED BY <1>1, <1>2

(* What a job counts for. *)
Notes(j, c, v) == j # <<>> /\ j.client = c /\ j.pc = "note" /\ j.var = v
Stops(j, c, v) ==
    j # <<>> /\ j.client = c /\ j.pc \in {"init", "unregister"} /\ j.kind = "stop" /\ j.var = v
Purges(j, c, v) == j # <<>> /\ j.client = c /\ j.pc = "purge" /\ v \in j.todo
Deletes(j, c, pc) == j # <<>> /\ j.client = c /\ j.pc = pc

(* A job that counts for nothing in the lists. *)
Passive(j) ==
    j # <<>> => /\ j.pc \notin {"note", "purge", "remove"}
                /\ ~(j.kind = "stop" /\ j.pc \in {"init", "unregister"})

LEMMA JobSets ==
  /\ \A c, v : Noting(c, v) = {p \in Procs : Notes(job[p], c, v)}
  /\ \A c, v : Stopping(c, v) = {p \in Procs : Stops(job[p], c, v)}
  /\ \A c, v : Purging(c, v) <=> \E p \in Procs : Purges(job[p], c, v)
  /\ \A c : Jobs(c, {"remove"}) = {p \in Procs : Deletes(job[p], c, "remove")}
  /\ \A c : Jobs(c, {"purge"}) = {p \in Procs : Deletes(job[p], c, "purge")}
  BY DEF Noting, Stopping, Purging, Jobs, Idle, Notes, Stops, Purges, Deletes

LEMMA JobSetsPrimed ==
  /\ \A c, v : Noting(c, v)' = {p \in Procs : Notes(job'[p], c, v)}
  /\ \A c, v : Stopping(c, v)' = {p \in Procs : Stops(job'[p], c, v)}
  /\ \A c, v : Purging(c, v)' <=> \E p \in Procs : Purges(job'[p], c, v)
  /\ \A c : Jobs(c, {"remove"})' = {p \in Procs : Deletes(job'[p], c, "remove")}
  /\ \A c : Jobs(c, {"purge"})' = {p \in Procs : Deletes(job'[p], c, "purge")}
  BY DEF Noting, Stopping, Purging, Jobs, Idle, Notes, Stops, Purges, Deletes

(* A step that a client does not notice. *)
LEMMA ClientFrame ==
  ASSUME NEW d \in Clients, ClientIsSound(d),
         \A v \in Vars : /\ Cardinality(PlacesOf(v, d))' = Cardinality(PlacesOf(v, d))
                         /\ node'[d].observing[v] = node[d].observing[v],
         \A q \in Procs, v \in Vars :
            /\ Notes(job'[q], d, v) <=> Notes(job[q], d, v)
            /\ Stops(job'[q], d, v) <=> Stops(job[q], d, v)
            /\ Purges(job[q], d, v) => Purges(job'[q], d, v),
         \A q \in Procs :
            /\ Deletes(job'[q], d, "remove") =>
                  \A v \in Vars : v \notin job'[q].todo => node[d].observing[v] = 0
            /\ Deletes(job'[q], d, "purge") => Deletes(job[q], d, "purge")
  PROVE  ClientIsSound(d)'
<1>1. \A v \in Vars : /\ Noting(d, v)' = Noting(d, v)
                      /\ Stopping(d, v)' = Stopping(d, v)
                      /\ Purging(d, v) => Purging(d, v)'
  BY JobSets, JobSetsPrimed
<1>2. \A v \in Vars : Agrees(d, v)'
  <2> TAKE v \in Vars
  <2>1. Agrees(d, v)
    BY DEF ClientIsSound
  <2> QED BY <1>1, <2>1 DEF Agrees
<1>3. (\A p \in Jobs(d, {"remove"}), v \in Vars : v \notin job[p].todo => node[d].observing[v] = 0)'
  BY JobSetsPrimed
<1>4. (\A p \in Jobs(d, {"purge"}), v \in Vars : Stopping(d, v) = {})'
  <2>1. Jobs(d, {"purge"})' \subseteq Jobs(d, {"purge"})
    BY JobSets, JobSetsPrimed
  <2>2. \A p \in Jobs(d, {"purge"}), v \in Vars : Stopping(d, v) = {}
    BY DEF ClientIsSound
  <2> QED BY <1>1, <2>1, <2>2
<1> QED BY <1>2, <1>3, <1>4 DEF ClientIsSound

SomeJob == JobRecords \cup {<<>>}

(* Goroutine p is left with job k. *)
LEMMA JobStep ==
  ASSUME JobsAreSound, NEW p \in Procs, NEW k \in SomeJob, SoundJob(k),
         job' = [job EXCEPT ![p] = k]
  PROVE  /\ JobsAreSound'
         /\ \A q \in Procs : Idle(q)' \/ job'[q] \in JobRecords
         /\ job'[p] = k
         /\ \A q \in Procs \ {p} : job'[q] = job[q]
<1>1. job \in [Procs -> SomeJob] /\ \A q \in Procs : SoundJob(job[q])
  BY DEF JobsAreSound, SomeJob
<1>2. job' \in [Procs -> SomeJob] /\ job'[p] = k /\ \A q \in Procs \ {p} : job'[q] = job[q]
  BY <1>1
<1>3. \A q \in Procs : SoundJob(job'[q])
  BY <1>1, <1>2
<1>4. JobsAreSound'
  BY <1>2, <1>3 DEF JobsAreSound, SomeJob, SoundJob
<1>5. \A q \in Procs : Idle(q)' \/ job'[q] \in JobRecords
  BY <1>2 DEF SomeJob, Idle
<1> QED BY <1>2, <1>4, <1>5

(* A job for client c is of no other client's concern. *)
LEMMA OtherClients ==
  ASSUME JobsAreSound, NEW p \in Procs, NEW k \in SomeJob, SoundJob(k),
         job' = [job EXCEPT ![p] = k],
         NEW c \in Clients, ~Idle(p) => job[p].client = c, k # <<>> => k.client = c,
         NEW d \in Clients \ {c}, ClientIsSound(d),
         \A v \in Vars : /\ Cardinality(PlacesOf(v, d))' = Cardinality(PlacesOf(v, d))
                         /\ node'[d].observing[v] = node[d].observing[v]
  PROVE  ClientIsSound(d)'
<1>1. job'[p] = k /\ \A q \in Procs \ {p} : job'[q] = job[q]
  BY JobStep
<1>2. \A v : /\ ~Notes(job'[p], d, v) /\ ~Notes(job[p], d, v)
             /\ ~Stops(job'[p], d, v) /\ ~Stops(job[p], d, v)
             /\ ~Purges(job'[p], d, v) /\ ~Purges(job[p], d, v)
  BY <1>1 DEF Notes, Stops, Purges, Idle
<1>3. ~Deletes(job'[p], d, "remove") /\ ~Deletes(job'[p], d, "purge")
  BY <1>1 DEF Deletes
<1>4. \A q \in Procs, v \in Vars :
         /\ Notes(job'[q], d, v) <=> Notes(job[q], d, v)
         /\ Stops(job'[q], d, v) <=> Stops(job[q], d, v)
         /\ Purges(job[q], d, v) => Purges(job'[q], d, v)
  BY <1>1, <1>2
<1>5. \A q \in Procs :
         /\ Deletes(job'[q], d, "remove") => Deletes(job[q], d, "remove") /\ job'[q].todo = job[q].todo
         /\ Deletes(job'[q], d, "purge") => Deletes(job[q], d, "purge")
  BY <1>1, <1>3
<1>6. \A q \in Procs : Deletes(job[q], d, "remove") =>
         \A v \in Vars : v \notin job[q].todo => node[d].observing[v] = 0
  BY JobSets DEF ClientIsSound
<1> QED BY <1>4, <1>5, <1>6, ClientFrame

(* Going from job j to job k makes and ends no pending change of the lists *)
(* and a deletion has read the whole list of its client.                   *)
Quiet(j, k) ==
    /\ \A c \in Clients, v \in Vars :
          /\ Notes(k, c, v) <=> Notes(j, c, v)
          /\ Stops(k, c, v) <=> Stops(j, c, v)
          /\ ~Purges(j, c, v)
    /\ \A c \in Clients :
          /\ Deletes(k, c, "remove") => \A v \in Vars : v \notin k.todo => node[c].observing[v] = 0
          /\ ~Deletes(k, c, "purge")

LEMMA PassiveIsQuiet ==
  ASSUME NEW j, NEW k, Passive(j), Passive(k)
  PROVE  Quiet(j, k)
<1>1. \A c, v : /\ ~Notes(k, c, v) /\ ~Notes(j, c, v)
                /\ ~Stops(k, c, v) /\ ~Stops(j, c, v)
                /\ ~Purges(j, c, v)
  BY DEF Passive, Notes, Stops, Purges
<1>2. \A c : ~Deletes(k, c, "remove") /\ ~Deletes(k, c, "purge")
  BY DEF Passive, Deletes
<1> QED BY <1>1, <1>2 DEF Quiet

LEMMA QuietStep ==
  ASSUME JobsAreSound, NEW p \in Procs, NEW k \in SomeJob, SoundJob(k),
         job' = [job EXCEPT ![p] = k], Quiet(job[p], k),
         observers' = observers, uneven' = uneven,
         \A c \in Clients, v \in Vars : node'[c].observing[v] = node[c].observing[v],
         \A c \in Clients \ uneven : ClientIsSound(c)
  PROVE  (\A c \in Clients \ uneven : ClientIsSound(c))'
<1> SUFFICES ASSUME NEW d \in Clients \ uneven PROVE ClientIsSound(d)'
  OBVIOUS
<1>1. job'[p] = k /\ \A q \in Procs \ {p} : job'[q] = job[q]
  BY JobStep
<1>2. ClientIsSound(d)
  OBVIOUS
<1>3. \A v \in Vars : Cardinality(PlacesOf(v, d))' = Cardinality(PlacesOf(v, d))
  BY DEF PlacesOf
<1>4. \A q \in Procs, v \in Vars :
         /\ Notes(job'[q], d, v) <=> Notes(job[q], d, v)
         /\ Stops(job'[q], d, v) <=> Stops(job[q], d, v)
         /\ Purges(job[q], d, v) => Purges(job'[q], d, v)
  BY <1>1 DEF Quiet
<1>5. \A q \in Procs : Deletes(job[q], d, "remove") =>
         \A v \in Vars : v \notin job[q].todo => node[d].observing[v] = 0
  BY <1>2, JobSets DEF ClientIsSound
<1>6. \A q \in Procs :
         /\ Deletes(job'[q], d, "remove") =>
               \A v \in Vars : v \notin job'[q].todo => node[d].observing[v] = 0
         /\ Deletes(job'[q], d, "purge") => Deletes(job[q], d, "purge")
  BY <1>1, <1>5 DEF Quiet
<1> QED BY <1>2, <1>3, <1>4, <1>6, ClientFrame

-----------------------------------------------------------------------------
(* Steps that leave the lists alone *)

LEMMA InvFacts ==
  ASSUME RegistryInv
  PROVE  /\ RegistryTypeOK /\ JobsAreSound /\ SavedIsEven
         /\ \A c \in Clients \ uneven : ClientIsSound(c)
         /\ job \in [Procs -> SomeJob]
         /\ online \in [Clients -> Apis \cup {NoApi}]
         /\ node \in [Clients -> NodeRecords]
         /\ observers \in [Vars -> Seq(Entries)]
         /\ indexed \in [Vars -> SUBSET (Clients \X Metas)]
         /\ uneven \subseteq Clients
         /\ ListsTyped(saved.node, saved.observers, saved.indexed, saved.uneven)
  BY DEF RegistryInv, RegistryTypeOK, ListsTyped, JobsAreSound, SomeJob

LEMMA SavedFrame ==
  ASSUME RegistryInv, saved' = saved
  PROVE  SavedIsEven'
  BY DEF RegistryInv, SavedIsEven

LEMMA AtFacts ==
  ASSUME RegistryInv, NEW p \in Procs, NEW pc, At(p, pc)
  PROVE  /\ ~Idle(p) /\ job[p] # <<>> /\ job[p].pc = pc
         /\ job[p] \in JobRecords /\ SoundJob(job[p])
         /\ job[p].client \in Clients
         /\ node[job[p].client] \in NodeRecords
         /\ job[p].todo \subseteq Vars
<1>1. ~Idle(p) /\ job[p] # <<>> /\ job[p].pc = pc
  BY DEF At, Idle
<1>2. job[p] \in JobRecords /\ SoundJob(job[p])
  BY <1>1, InvFacts DEF JobsAreSound, SomeJob
<1>3. job[p].client \in Clients /\ job[p].todo \subseteq Vars
  BY <1>2 DEF JobRecords
<1> QED BY <1>1, <1>2, <1>3, InvFacts

LEMMA NewJobs ==
  ASSUME NEW kind \in Kinds, NEW pc \in Pcs, NEW c \in Clients, NEW v \in Vars \cup {NoVar},
         NEW m \in Metas, NEW a \in Apis \cup {NoApi}
  PROVE  NewJob(kind, pc, c, v, m, a) \in JobRecords
<1>1. 0 \in 0..MaxWait
  BY RegistryAssumption
<1> QED BY <1>1 DEF NewJob, JobRecords

(* A call that only starts a helper. *)
LEMMA CallStep ==
  ASSUME RegistryInv, NEW p \in Procs, NEW k \in JobRecords, SoundJob(k), Passive(k),
         Begin(p, k), UNCHANGED <<started, online, node, lists, saved, uneven, restarts>>
  PROVE  RegistryInv'
<1>1. job[p] = <<>> /\ job' = [job EXCEPT ![p] = k] /\ k \in SomeJob
  BY DEF Begin, Idle, SomeJob
<1>2. JobsAreSound' /\ \A q \in Procs : Idle(q)' \/ job'[q] \in JobRecords
  BY <1>1, InvFacts, JobStep
<1>3. RegistryTypeOK'
  BY <1>2, InvFacts DEF RegistryTypeOK, ListsTyped, lists
<1>4. SavedIsEven'
  BY <1>1, SavedFrame
<1>5. Quiet(job[p], k)
  BY <1>1, PassiveIsQuiet DEF Passive
<1>6. (\A c \in Clients \ uneven : ClientIsSound(c))'
  BY <1>1, <1>5, InvFacts, QuietStep DEF lists
<1> QED BY <1>2, <1>3, <1>4, <1>6 DEF RegistryInv

LEMMA StartStep ==
  ASSUME RegistryInv, NEW p \in Procs, NEW c \in Clients, NEW v \in Vars, NEW m \in Metas,
         ObserveVar(p, c, v, m)
  PROVE  RegistryInv'
<1> DEFINE k == NewJob("observe", "init", c, v, m, online[c])
<1>1. k \in JobRecords
  BY InvFacts, NewJobs DEF Kinds, Pcs
<1>2. SoundJob(k) /\ Passive(k)
  BY DEF SoundJob, Passive, NewJob
<1> QED BY <1>1, <1>2, CallStep DEF ObserveVar

LEMMA ConnectStep ==
  ASSUME RegistryInv, NEW p \in Procs, NEW c \in Clients, ClientConnected(p, c)
  PROVE  RegistryInv'
<1> DEFINE k == NewJob("connect", "init", c, NoVar, NoMeta, online[c])
<1>1. k \in JobRecords
  BY InvFacts, NewJobs, RegistryAssumption DEF Kinds, Pcs
<1>2. SoundJob(k) /\ Passive(k)
  BY DEF SoundJob, Passive, NewJob
<1> QED BY <1>1, <1>2, CallStep DEF ClientConnected

LEMMA NotifyStep ==
  ASSUME RegistryInv, NEW p \in Procs, NEW v \in Vars, NotifyVar(p, v)
  PROVE  RegistryInv'
<1>1. PICK i \in DOMAIN observers[v] :
        Begin(p, NewJob("notify", "lookup", observers[v][i].client, NoVar, NoMeta, NoApi))
  BY DEF NotifyVar
<1> DEFINE k == NewJob("notify", "lookup", observers[v][i].client, NoVar, NoMeta, NoApi)
<1>2. observers[v][i].client \in Clients
  <2>1. observers[v] \in Seq(Entries)
    BY InvFacts
  <2>2. observers[v][i] \in Entries
    BY <2>1, ElementOfSeq, LenProperties
  <2> QED BY <2>2 DEF Entries
<1>3. k \in JobRecords
  BY <1>2, NewJobs, RegistryAssumption DEF Kinds, Pcs
<1>4. SoundJob(k) /\ Passive(k)
  BY DEF SoundJob, Passive, NewJob
<1> QED BY <1>1, <1>3, <1>4, CallStep DEF NotifyVar

(* A quiet step that at most refreshes the node of its client. *)
LEMMA HelperStep ==
  ASSUME RegistryInv, NEW p \in Procs, NEW k \in SomeJob, SoundJob(k), job' = [job EXCEPT ![p] = k],
         node' \in [Clients -> NodeRecords],
         \A c \in Clients : node'[c].observing = node[c].observing,
         Quiet(job[p], k),
         UNCHANGED <<started, online, lists, saved, uneven, restarts>>
  PROVE  RegistryInv'
<1>1. JobsAreSound' /\ \A q \in Procs : Idle(q)' \/ job'[q] \in JobRecords
  BY InvFacts, JobStep
<1>2. RegistryTypeOK'
  BY <1>1, InvFacts DEF RegistryTypeOK, ListsTyped, lists
<1>3. SavedIsEven'
  BY SavedFrame
<1>4. (\A c \in Clients \ uneven : ClientIsSound(c))'
  BY InvFacts, QuietStep DEF lists
<1> QED BY <1>1, <1>2, <1>3, <1>4 DEF RegistryInv

LEMMA LookUpStep ==
  ASSUME RegistryInv, NEW p \in Procs, LookUp(p)
  PROVE  RegistryInv'
<1> DEFINE j == job[p]
           a == node[j.client].api
           k == IF a \in started THEN [j EXCEPT !.pc = "init", !.api = a]
                ELSE [j EXCEPT !.pc = "init", !.kind = "drop"]
<1>1. /\ j # <<>> /\ j.pc = "lookup" /\ j \in JobRecords /\ j.kind = "notify"
      /\ a \in Apis \cup {NoApi}
  BY AtFacts DEF LookUp, SoundJob, NodeRecords
<1>2. job \in [Procs -> SomeJob] /\ node \in [Clients -> NodeRecords]
  BY InvFacts
<1>3. k \in JobRecords
  BY <1>1 DEF JobRecords, Kinds, Pcs
<1>4. k.pc = "init" /\ k.kind \in {"notify", "drop"}
  BY <1>1 DEF JobRecords
<1>5. job' = [job EXCEPT ![p] = k]
  BY <1>1, <1>2 DEF LookUp
<1> HIDE DEF k
<1>6. SoundJob(k) /\ Passive(k) /\ Passive(j)
  BY <1>1, <1>4 DEF SoundJob, Passive
<1>7. Quiet(job[p], k) /\ k \in SomeJob
  BY <1>3, <1>6, PassiveIsQuiet DEF SomeJob
<1> QED BY <1>2, <1>5, <1>6, <1>7, HelperStep DEF LookUp

(* What follows initialize counts for as much as the call did before. *)
LEMMA AfterInitIsQuiet ==
  ASSUME NEW j \in JobRecords, j # <<>>, j.pc = "init", SoundJob(j)
  PROVE  LET k == [j EXCEPT !.pc = AfterInit[j.kind]]
         IN  k \in JobRecords /\ k \in SomeJob /\ SoundJob(k) /\ Quiet(j, k)
<1> DEFINE k == [j EXCEPT !.pc = AfterInit[j.kind]]
<1>1. j.kind \in Kinds
  BY DEF JobRecords
<1>2. /\ AfterInit[j.kind] \in {"register", "unregister", "resume", "send", "collect"}
      /\ AfterInit[j.kind] = "unregister" <=> j.kind = "stop"
      /\ AfterInit[j.kind] = "register" <=> j.kind = "observe"
  BY <1>1 DEF AfterInit, Kinds
<1>3. /\ k \in JobRecords /\ k.client = j.client /\ k.pc = AfterInit[j.kind]
      /\ k.kind = j.kind /\ k.var = j.var
  BY <1>2 DEF JobRecords, Pcs
<1> HIDE DEF k
<1>4. k # <<>> /\ k \in SomeJob
  BY <1>3, RecordsAreNotIdle DEF SomeJob
<1>5. SoundJob(k)
  BY <1>2, <1>3 DEF SoundJob
<1>6. Quiet(j, k)
  <2>1. \A d, v : /\ ~Notes(k, d, v) /\ ~Notes(j, d, v)
                  /\ Stops(k, d, v) <=> Stops(j, d, v)
                  /\ ~Purges(j, d, v)
    BY <1>2, <1>3, <1>4 DEF Notes, Stops, Purges
  <2>2. \A d : ~Deletes(k, d, "remove") /\ ~Deletes(k, d, "purge")
    BY <1>2, <1>3 DEF Deletes
  <2> QED BY <2>1, <2>2 DEF Quiet
<1> QED BY <1>3, <1>4, <1>5, <1>6 DEF k

LEMMA InitializeStep ==
  ASSUME RegistryInv, NEW p \in Procs, Initialize(p)
  PROVE  RegistryInv'
<1> DEFINE j == job[p]
           c == j.client
           n == IF j.api = NoApi THEN node[c] ELSE [node[c] EXCEPT !.api = j.api]
           k == [j EXCEPT !.pc = AfterInit[j.kind]]
<1>1. j # <<>> /\ j.pc = "init" /\ j \in JobRecords /\ SoundJob(j) /\ c \in Clients /\ node[c] \in NodeRecords
  BY AtFacts DEF Initialize
<1>2. job \in [Procs -> SomeJob] /\ node \in [Clients -> NodeRecords]
  BY InvFacts
<1>3. j.api \in Apis \cup {NoApi} /\ 0 \in 0..MaxWait
  BY <1>1, RegistryAssumption DEF JobRecords
<1>4. k \in SomeJob /\ SoundJob(k) /\ Quiet(job[p], k)
  BY <1>1, AfterInitIsQuiet
<1>5. Refreshed(n) \in NodeRecords /\ Refreshed(n).observing = node[c].observing
  BY <1>1, <1>3 DEF Refreshed, NodeRecords
<1>6. job' = [job EXCEPT ![p] = k] /\ node' = [node EXCEPT ![c] = Refreshed(n)]
  BY <1>1, <1>2 DEF Initialize, GoTo
<1> HIDE DEF k, n
<1>7. /\ node' \in [Clients -> NodeRecords]
      /\ \A d \in Clients : node'[d].observing = node[d].observing
  BY <1>1, <1>2, <1>5, <1>6
<1> QED BY <1>4, <1>6, <1>7, HelperStep DEF Initialize

LEMMA ResumeStep ==
  ASSUME RegistryInv, NEW p \in Procs, Resume(p)
  PROVE  RegistryInv'
<1> DEFINE j == job[p]
           k == IF Observing(j.client) = {} THEN <<>>
                ELSE [j EXCEPT !.pc = "send", !.todo = Observing(j.client)]
<1>1. j # <<>> /\ j.pc = "resume" /\ j \in JobRecords /\ SoundJob(j)
  BY AtFacts DEF Resume
<1>2. job \in [Procs -> SomeJob] /\ node \in [Clients -> NodeRecords]
  BY InvFacts
<1>3. k # <<>> => /\ k \in JobRecords /\ k.pc = "send" /\ k.client = j.client
                  /\ k.kind = j.kind /\ k.var = j.var
  BY <1>1 DEF JobRecords, Pcs, Observing
<1>4. job' = [job EXCEPT ![p] = k]
  BY <1>1, <1>2 DEF Resume
<1> HIDE DEF k
<1>5. SoundJob(k) /\ Passive(k) /\ Passive(j)
  BY <1>1, <1>3 DEF SoundJob, Passive
<1>6. Quiet(job[p], k) /\ k \in SomeJob
  BY <1>3, <1>5, PassiveIsQuiet DEF SomeJob
<1> QED BY <1>2, <1>4, <1>5, <1>6, HelperStep DEF Resume

(* UpdateLiveTime of client c. *)
LEMMA RefreshStep ==
  ASSUME RegistryInv, NEW c \in Clients, node' = [node EXCEPT ![c] = Refreshed(@)]
  PROVE  /\ node' \in [Clients -> NodeRecords]
            /\ \A d \in Clients : node'[d].observing = node[d].observing
<1>1. node \in [Clients -> NodeRecords] /\ 0 \in 0..MaxWait
  BY InvFacts, RegistryAssumption
<1>2. /\ Refreshed(node[c]) \in NodeRecords
      /\ Refreshed(node[c]).observing = node[c].observing
  BY <1>1 DEF Refreshed, NodeRecords
<1>3. node'[c] = Refreshed(node[c]) /\ \A d \in Clients \ {c} : node'[d] = node[d]
  BY <1>1
<1>4. node' \in [Clients -> NodeRecords]
  BY <1>1, <1>2
<1> QED BY <1>2, <1>3, <1>4

LEMMA SendsStep ==
  ASSUME RegistryInv, NEW p \in Procs, Sends(p)
  PROVE  RegistryInv'
<1> DEFINE j == job[p]
<1>1. j # <<>> /\ j.pc = "send" /\ j \in JobRecords /\ SoundJob(j) /\ j.client \in Clients
  BY AtFacts DEF Sends
<1>2. job \in [Procs -> SomeJob]
  BY InvFacts
<1>3. PICK k : /\ job' = [job EXCEPT ![p] = k]
               /\ k = <<>> \/ \E v \in j.todo : k = [j EXCEPT !.todo = @ \ {v}]
  <2>1. CASE Cardinality(j.todo) <= 1
    BY <2>1 DEF Sends, End
  <2>2. CASE ~(Cardinality(j.todo) <= 1)
    <3>1. PICK v \in j.todo : job' = [job EXCEPT ![p].todo = @ \ {v}]
      BY <2>2 DEF Sends
    <3>2. job' = [job EXCEPT ![p] = [j EXCEPT !.todo = @ \ {v}]]
      BY <1>1, <1>2, <3>1
    <3> QED BY <3>2
  <2> QED BY <2>1, <2>2
<1>4. k # <<>> => /\ k \in JobRecords /\ k.pc = "send" /\ k.client = j.client
                  /\ k.kind = j.kind /\ k.var = j.var
  BY <1>1, <1>3 DEF JobRecords
<1>5. SoundJob(k) /\ Passive(k) /\ Passive(j)
  BY <1>1, <1>4 DEF SoundJob, Passive
<1>6. Quiet(job[p], k) /\ k \in SomeJob
  BY <1>4, <1>5, PassiveIsQuiet DEF SomeJob
<1>7. node' = [node EXCEPT ![j.client] = Refreshed(@)]
  BY DEF Sends
<1> HIDE DEF j
<1>9. /\ node' \in [Clients -> NodeRecords]
      /\ \A d \in Clients : node'[d].observing = node[d].observing
  BY <1>1, <1>7, RefreshStep
<1> QED BY <1>3, <1>5, <1>6, <1>9, HelperStep DEF Sends

LEMMA SendFailsStep ==
  ASSUME RegistryInv, NEW p \in Procs, SendFails(p)
  PROVE  RegistryInv'
<1> DEFINE j == job[p]
           k == [j EXCEPT !.pc = "check"]
<1>1. j # <<>> /\ j.pc = "send" /\ j \in JobRecords /\ SoundJob(j)
  BY AtFacts DEF SendFails
<1>2. job \in [Procs -> SomeJob] /\ node \in [Clients -> NodeRecords]
  BY InvFacts
<1>3. /\ k \in JobRecords /\ k.pc = "check" /\ k.client = j.client
      /\ k.kind = j.kind /\ k.var = j.var
  BY <1>1 DEF JobRecords, Pcs
<1>4. job' = [job EXCEPT ![p] = k]
  BY <1>1, <1>2 DEF SendFails, GoTo
<1> HIDE DEF k
<1>5. SoundJob(k) /\ Passive(k) /\ Passive(j)
  BY <1>1, <1>3 DEF SoundJob, Passive
<1>6. Quiet(job[p], k) /\ k \in SomeJob
  BY <1>3, <1>5, PassiveIsQuiet DEF SomeJob
<1> QED BY <1>2, <1>3, <1>4, <1>5, <1>6, HelperStep DEF SendFails

LEMMA CheckStep ==
  ASSUME RegistryInv, NEW p \in Procs, CheckClientLiveTime(p)
  PROVE  RegistryInv'
<1> DEFINE j == job[p]
           k == IF online[j.client] # j.api /\ node[j.client].age >= MaxWait
                THEN [j EXCEPT !.pc = "collect"] ELSE <<>>
<1>1. j # <<>> /\ j.pc = "check" /\ j \in JobRecords /\ SoundJob(j) /\ j.client \in Clients
  BY AtFacts DEF CheckClientLiveTime
<1>2. job \in [Procs -> SomeJob] /\ node \in [Clients -> NodeRecords]
  BY InvFacts
<1>3. k # <<>> => /\ k \in JobRecords /\ k.pc = "collect" /\ k.client = j.client
                  /\ k.kind = j.kind /\ k.var = j.var
  BY <1>1 DEF JobRecords, Pcs
<1>4. job' = [job EXCEPT ![p] = k]
  BY <1>1, <1>2 DEF CheckClientLiveTime, GoTo, End
<1> HIDE DEF k
<1>5. SoundJob(k) /\ Passive(k) /\ Passive(j)
  BY <1>1, <1>3 DEF SoundJob, Passive
<1>6. Quiet(job[p], k) /\ k \in SomeJob
  BY <1>3, <1>5, PassiveIsQuiet DEF SomeJob
<1>7. /\ node' \in [Clients -> NodeRecords]
      /\ \A d \in Clients : node'[d].observing = node[d].observing
  <2>1. CASE node' = [node EXCEPT ![j.client] = Refreshed(@)]
    BY <1>1, <2>1, RefreshStep
  <2>2. CASE node' = node
    BY <1>2, <2>2
  <2> QED BY <2>1, <2>2 DEF CheckClientLiveTime
<1> QED BY <1>4, <1>5, <1>6, <1>7, HelperStep DEF CheckClientLiveTime

LEMMA CollectStep ==
  ASSUME RegistryInv, NEW p \in Procs, Collect(p)
  PROVE  RegistryInv'
<1> DEFINE j == job[p]
           k == [j EXCEPT !.pc = "remove", !.todo = Observing(j.client)]
<1>1. j # <<>> /\ j.pc = "collect" /\ j \in JobRecords /\ SoundJob(j) /\ j.client \in Clients
  BY AtFacts DEF Collect
<1>2. job \in [Procs -> SomeJob] /\ node \in [Clients -> NodeRecords]
  BY InvFacts
<1>3. /\ k \in JobRecords /\ k.pc = "remove" /\ k.client = j.client
      /\ k.kind = j.kind /\ k.var = j.var /\ k.todo = Observing(j.client)
  BY <1>1 DEF JobRecords, Pcs, Observing
<1>4. job' = [job EXCEPT ![p] = k]
  BY <1>1, <1>2 DEF Collect
<1> HIDE DEF k
<1>5. SoundJob(k) /\ k \in SomeJob
  BY <1>1, <1>3 DEF SoundJob, SomeJob
<1>6. Quiet(job[p], k)
  <2>1. \A d, v : /\ ~Notes(k, d, v) /\ ~Notes(j, d, v)
                  /\ ~Stops(k, d, v) /\ ~Stops(j, d, v)
                  /\ ~Purges(j, d, v)
    BY <1>1, <1>3 DEF Notes, Stops, Purges
  <2>2. \A d : ~Deletes(k, d, "purge")
    BY <1>3 DEF Deletes
  <2>3. ASSUME NEW v \in Vars, v \notin k.todo PROVE node[j.client].observing[v] = 0
    <3>1. node[j.client].observing[v] \in Nat
      BY <1>1, <1>2 DEF NodeRecords
    <3>2. ~(node[j.client].observing[v] > 0)
      BY <1>3, <2>3 DEF Observing
    <3> QED BY <3>1, <3>2
  <2>4. \A d \in Clients : Deletes(k, d, "remove") => d = j.client
    BY <1>3 DEF Deletes
  <2> QED BY <2>1, <2>2, <2>3, <2>4 DEF Quiet
<1> QED BY <1>2, <1>4, <1>5, <1>6, HelperStep DEF Collect

-----------------------------------------------------------------------------
(* Steps that change one of the lists *)

One(b) == IF b THEN 1 ELSE 0
Same(w, v) == IF w = v THEN 1 ELSE 0

(* One goroutine changes its job: a count of goroutines follows. *)
LEMMA CountStep ==
  ASSUME NEW A, NEW B, A \subseteq Procs, B \subseteq Procs, NEW p \in Procs,
         \A q \in Procs \ {p} : q \in A <=> q \in B
  PROVE  /\ Cardinality(A) \in Nat /\ Cardinality(B) \in Nat
         /\ Cardinality(B) = Cardinality(A) + One(p \in B) - One(p \in A)
<1>1. /\ IsFiniteSet(A) /\ IsFiniteSet(B)
      /\ Cardinality(A) \in Nat /\ Cardinality(B) \in Nat
  BY FS_Subset, FS_CardinalityType, RegistryAssumption
<1>2. CASE p \in A /\ p \in B
  <2>1. A = B
    BY <1>2
  <2> QED BY <1>1, <1>2, <2>1 DEF One
<1>3. CASE p \in A /\ p \notin B
  <2>1. B = A \ {p}
    BY <1>3
  <2>2. Cardinality(B) = Cardinality(A) - 1
    BY <1>1, <1>3, <2>1, FS_RemoveElement
  <2> QED BY <1>1, <1>3, <2>2 DEF One
<1>4. CASE p \notin A /\ p \in B
  <2>1. B = A \cup {p}
    BY <1>4
  <2>2. Cardinality(B) = Cardinality(A) + 1
    BY <1>1, <1>4, <2>1, FS_AddElement
  <2> QED BY <1>1, <1>4, <2>2 DEF One
<1>5. CASE p \notin A /\ p \notin B
  <2>1. A = B
    BY <1>5
  <2> QED BY <1>1, <1>5, <2>1 DEF One
<1> QED BY <1>2, <1>3, <1>4, <1>5

NoteOf(j, c, v) == IF Notes(j, c, v) THEN 1 ELSE 0
StopOf(j, c, v) == IF Stops(j, c, v) THEN 1 ELSE 0

LEMMA PendingCounts ==
  ASSUME JobsAreSound, NEW p \in Procs, NEW k \in SomeJob, SoundJob(k),
         job' = [job EXCEPT ![p] = k], NEW c, NEW v
  PROVE  /\ Cardinality(Noting(c, v)) \in Nat
         /\ Cardinality(Stopping(c, v)) \in Nat
         /\ Cardinality(Noting(c, v))' =
               Cardinality(Noting(c, v)) + NoteOf(k, c, v) - NoteOf(job[p], c, v)
         /\ Cardinality(Stopping(c, v))' =
               Cardinality(Stopping(c, v)) + StopOf(k, c, v) - StopOf(job[p], c, v)
<1>1. job'[p] = k /\ \A q \in Procs \ {p} : job'[q] = job[q]
  BY JobStep
<1> DEFINE A == Noting(c, v)
           B == {q \in Procs : Notes(job'[q], c, v)}
           C == Stopping(c, v)
           D == {q \in Procs : Stops(job'[q], c, v)}
<1>2. A = {q \in Procs : Notes(job[q], c, v)} /\ C = {q \in Procs : Stops(job[q], c, v)}
  BY JobSets
<1>3. Cardinality(A)' = Cardinality(B) /\ Cardinality(C)' = Cardinality(D)
  BY JobSetsPrimed
<1>4. /\ Cardinality(A) \in Nat
      /\ Cardinality(B) = Cardinality(A) + One(p \in B) - One(p \in A)
  <2>1. \A q \in Procs \ {p} : q \in A <=> q \in B
    BY <1>1, <1>2
  <2>2. A \subseteq Procs /\ B \subseteq Procs
    BY <1>2
  <2> HIDE DEF A, B
  <2> QED BY <2>1, <2>2, CountStep
<1>5. /\ Cardinality(C) \in Nat
      /\ Cardinality(D) = Cardinality(C) + One(p \in D) - One(p \in C)
  <2>1. \A q \in Procs \ {p} : q \in C <=> q \in D
    BY <1>1, <1>2
  <2>2. C \subseteq Procs /\ D \subseteq Procs
    BY <1>2
  <2> HIDE DEF C, D
  <2> QED BY <2>1, <2>2, CountStep
<1>6. /\ p \in A <=> Notes(job[p], c, v)
      /\ p \in B <=> Notes(k, c, v)
      /\ p \in C <=> Stops(job[p], c, v)
      /\ p \in D <=> Stops(k, c, v)
  BY <1>1, <1>2
<1>7. /\ One(p \in A) = NoteOf(job[p], c, v) /\ One(p \in B) = NoteOf(k, c, v)
      /\ One(p \in C) = StopOf(job[p], c, v) /\ One(p \in D) = StopOf(k, c, v)
  BY <1>6 DEF One, NoteOf, StopOf
<1> HIDE DEF B, D
<1> QED BY <1>3, <1>4, <1>5, <1>7

(* The counts of a client that no goroutine is deleting. *)
Balanced(c, v) ==
    Cardinality(PlacesOf(v, c)) =
        node[c].observing[v] + Cardinality(Noting(c, v)) - Cardinality(Stopping(c, v))

LEMMA UndeletedBefore ==
  ASSUME NEW c \in Clients, ClientIsSound(c), ~Deleting(c)
  PROVE  \A v \in Vars : Balanced(c, v)
<1>1. \A v \in Vars : ~Purging(c, v)
  BY DEF Deleting, Purging, Jobs
<1>2. \A v \in Vars : Agrees(c, v)
  BY DEF ClientIsSound
<1> QED BY <1>1, <1>2 DEF Agrees, Balanced

LEMMA UndeletedAfter ==
  ASSUME JobsAreSound, NEW p \in Procs, NEW k \in SomeJob, SoundJob(k),
         job' = [job EXCEPT ![p] = k], NEW c \in Clients, ~Deleting(c),
         k # <<>> => k.pc \notin {"remove", "purge"},
         \A v \in Vars : Balanced(c, v)'
  PROVE  ClientIsSound(c)'
<1>1. job'[p] = k /\ \A q \in Procs \ {p} : job'[q] = job[q]
  BY JobStep
<1>2. \A q \in Procs : ~Deletes(job[q], c, "remove") /\ ~Deletes(job[q], c, "purge")
  BY DEF Deleting, Jobs, Idle, Deletes
<1>3. \A q \in Procs : ~Deletes(job'[q], c, "remove") /\ ~Deletes(job'[q], c, "purge")
  BY <1>1, <1>2 DEF Deletes
<1>4. Jobs(c, {"remove"})' = {} /\ Jobs(c, {"purge"})' = {}
  BY <1>3, JobSetsPrimed
<1>5. \A v \in Vars : Agrees(c, v)'
  BY DEF Agrees, Balanced
<1> QED BY <1>4, <1>5 DEF ClientIsSound

(* The places gained are the notes taken and the pending changes gained. *)
LEMMA BalanceStep ==
  ASSUME JobsAreSound, NEW p \in Procs, NEW k \in SomeJob, SoundJob(k),
         job' = [job EXCEPT ![p] = k], NEW c \in Clients, NEW v \in Vars,
         node[c].observing[v] \in Nat, Balanced(c, v), NEW x \in Int, NEW y \in Int,
         Cardinality(PlacesOf(v, c))' = Cardinality(PlacesOf(v, c)) + x,
         node'[c].observing[v] = node[c].observing[v] + y,
         x = y + (NoteOf(k, c, v) - NoteOf(job[p], c, v)) - (StopOf(k, c, v) - StopOf(job[p], c, v))
  PROVE  Balanced(c, v)'
<1>1. /\ Cardinality(Noting(c, v)) \in Nat /\ Cardinality(Stopping(c, v)) \in Nat
      /\ Cardinality(Noting(c, v))' = Cardinality(Noting(c, v)) + NoteOf(k, c, v) - NoteOf(job[p], c, v)
      /\ Cardinality(Stopping(c, v))' = Cardinality(Stopping(c, v)) + StopOf(k, c, v) - StopOf(job[p], c, v)
  BY PendingCounts, ZenonT(40)
<1>2. NoteOf(k, c, v) \in Int /\ NoteOf(job[p], c, v) \in Int
  BY DEF NoteOf
<1>3. StopOf(k, c, v) \in Int /\ StopOf(job[p], c, v) \in Int
  BY DEF StopOf
<1> QED BY <1>1, <1>2, <1>3 DEF Balanced

LEMMA PlacesAreEntries ==
  /\ \A c, v : PlacesOf(v, c) = EntriesOf(observers[v], c)
  /\ \A c, v : Cardinality(PlacesOf(v, c))' = Cardinality(EntriesOf(observers'[v], c))
  BY DEF PlacesOf, EntriesOf

LEMMA RegisterStep ==
  ASSUME RegistryInv, NEW p \in Procs, Register(p)
  PROVE  RegistryInv'
<1>1. PICK j, c, v : j = job[p] /\ c = j.client /\ v = j.var
  OBVIOUS
<1>2. /\ j # <<>> /\ ~Idle(p) /\ j.pc = "register" /\ j \in JobRecords /\ SoundJob(j)
      /\ c \in Clients /\ j.kind = "observe" /\ v \in Vars /\ j.meta \in Metas
  BY <1>1, AtFacts DEF Register, SoundJob, JobRecords
<1>3. /\ job \in [Procs -> SomeJob] /\ node \in [Clients -> NodeRecords]
      /\ observers \in [Vars -> Seq(Entries)]
      /\ indexed \in [Vars -> SUBSET (Clients \X Metas)]
      /\ uneven \subseteq Clients /\ JobsAreSound /\ NoMeta \in Metas
  BY InvFacts, RegistryAssumption
<1>4. PICK e, k : e = [client |-> c, meta |-> j.meta] /\ k = [j EXCEPT !.pc = "note", !.meta = NoMeta]
  OBVIOUS
<1>5. e \in Entries /\ e.client = c
  BY <1>2, <1>4 DEF Entries
<1>6. /\ k \in JobRecords /\ k.pc = "note" /\ k.client = c /\ k.kind = "observe" /\ k.var = v
      /\ k # <<>>
  BY <1>1, <1>2, <1>3, <1>4, RecordsAreNotIdle DEF JobRecords, Pcs
<1>7. job' = [job EXCEPT ![p] = k]
  BY <1>1, <1>2, <1>3, <1>4 DEF Register
<1>8. /\ observers' = [observers EXCEPT ![v] = Append(@, e)]
      /\ indexed' = [indexed EXCEPT ![v] = @ \cup {<<c, j.meta>>}]
      /\ uneven' = uneven \cup {x \in {c} : Deleting(c)}
      /\ UNCHANGED <<started, online, node, saved, restarts>>
  BY <1>1, <1>4 DEF Register
<1>9. k \in SomeJob /\ SoundJob(k)
  BY <1>2, <1>6 DEF SomeJob, SoundJob
<1>10. JobsAreSound' /\ \A q \in Procs : Idle(q)' \/ job'[q] \in JobRecords
  BY <1>3, <1>7, <1>9, JobStep
<1>11. RegistryTypeOK'
  <2>1. observers' \in [Vars -> Seq(Entries)]
    <3>1. Append(observers[v], e) \in Seq(Entries)
      BY <1>2, <1>3, <1>5
    <3> QED BY <1>2, <1>3, <1>8, <3>1
  <2>2. indexed' \in [Vars -> SUBSET (Clients \X Metas)]
    BY <1>2, <1>3, <1>8
  <2> QED BY <1>2, <1>3, <1>8, <1>10, <2>1, <2>2, InvFacts DEF RegistryTypeOK, ListsTyped, lists
<1>12. SavedIsEven'
  BY <1>8, SavedFrame
<1>13. \A d \in Clients, w \in Vars :
          Cardinality(PlacesOf(w, d))' =
             Cardinality(PlacesOf(w, d)) + (IF d = c THEN Same(w, v) ELSE 0)
  <2> TAKE d \in Clients, w \in Vars
  <2>1. CASE w = v
    <3>1. observers'[w] = Append(observers[w], e) /\ observers[w] \in Seq(Entries)
      BY <1>3, <1>8, <2>1
    <3>2. Cardinality(EntriesOf(Append(observers[w], e), d)) =
             Cardinality(EntriesOf(observers[w], d)) + (IF d = c THEN Same(w, v) ELSE 0)
      BY <1>5, <2>1, <3>1, AppendCounts DEF Same
    <3> QED BY <3>1, <3>2, PlacesAreEntries
  <2>2. CASE w # v
    <3>1. observers'[w] = observers[w] /\ observers[w] \in Seq(Entries)
      BY <1>3, <1>8, <2>2
    <3>2. Cardinality(EntriesOf(observers[w], d)) \in Nat
      BY <3>1, EntriesAreFinite
    <3> QED BY <2>2, <3>1, <3>2, PlacesAreEntries DEF Same
  <2> QED BY <2>1, <2>2
<1>14. (\A d \in Clients \ uneven : ClientIsSound(d))'
  <2> SUFFICES ASSUME NEW d \in Clients \ uneven' PROVE ClientIsSound(d)'
    OBVIOUS
  <2>1. ClientIsSound(d)
    BY <1>8, InvFacts
  <2>2. CASE d # c
    <3>1. \A w \in Vars : Cardinality(PlacesOf(w, d))' = Cardinality(PlacesOf(w, d))
      <4> TAKE w \in Vars
      <4>1. Cardinality(PlacesOf(w, d)) \in Nat
        BY <1>3, PlacesAreEntries, EntriesAreFinite
      <4> QED BY <1>13, <2>2, <4>1 DEF Same
    <3> QED BY <1>1, <1>2, <1>3, <1>6, <1>7, <1>8, <1>9, <2>1, <2>2, <3>1, OtherClients
  <2>3. CASE d = c
    <3>1. ~Deleting(c)
      BY <1>8, <2>3
    <3>2. ASSUME NEW w \in Vars PROVE Balanced(c, w)'
      <4>1. Balanced(c, w)
        BY <2>1, <2>3, <3>1, UndeletedBefore
      <4>2. /\ NoteOf(k, c, w) = Same(w, v) /\ NoteOf(job[p], c, w) = 0
            /\ StopOf(k, c, w) = 0 /\ StopOf(job[p], c, w) = 0
        BY <1>1, <1>2, <1>6 DEF Notes, Stops, NoteOf, StopOf, Same
      <4>3. Cardinality(PlacesOf(w, c))' = Cardinality(PlacesOf(w, c)) + Same(w, v)
        BY <1>2, <1>13 DEF Same
      <4>4. node[c].observing[w] \in Nat /\ node'[c].observing[w] = node[c].observing[w] + 0
        BY <1>2, <1>3, <1>8 DEF NodeRecords
      <4>5. Same(w, v) \in Int
        BY DEF Same
      <4>6. 0 \in Int /\ Same(w, v) =
               0 + (NoteOf(k, c, w) - NoteOf(job[p], c, w)) - (StopOf(k, c, w) - StopOf(job[p], c, w))
        BY <4>2, <4>5
      <4> QED BY <1>2, <1>3, <1>7, <1>9, <4>1, <4>3, <4>4, <4>5, <4>6, BalanceStep
    <3> QED BY <1>2, <1>3, <1>6, <1>7, <1>9, <2>3, <3>1, <3>2, UndeletedAfter
  <2> QED BY <2>2, <2>3
<1> QED BY <1>10, <1>11, <1>12, <1>14 DEF RegistryInv

LEMMA NoteStep ==
  ASSUME RegistryInv, NEW p \in Procs, RegisterNewObservation(p)
  PROVE  RegistryInv'
<1>1. PICK j, c, v : j = job[p] /\ c = j.client /\ v = j.var
  OBVIOUS
<1>2. /\ j # <<>> /\ ~Idle(p) /\ j.pc = "note" /\ j \in JobRecords /\ SoundJob(j)
      /\ c \in Clients /\ j.kind = "observe" /\ v \in Vars
  BY <1>1, AtFacts DEF RegisterNewObservation, SoundJob
<1>3. /\ job \in [Procs -> SomeJob] /\ node \in [Clients -> NodeRecords]
      /\ observers \in [Vars -> Seq(Entries)]
      /\ uneven \subseteq Clients /\ JobsAreSound /\ 0 \in 0..MaxWait
  BY InvFacts, RegistryAssumption
<1>4. PICK n, k : n = [Refreshed(node[c]) EXCEPT !.observing[v] = @ + 1] /\ k = [j EXCEPT !.pc = "send"]
  OBVIOUS
<1>5. /\ n \in NodeRecords
      /\ \A w \in Vars : n.observing[w] = node[c].observing[w] + Same(w, v)
  <2>1. node[c] \in NodeRecords
    BY <1>2, <1>3
  <2>2. Refreshed(node[c]) \in NodeRecords
        /\ Refreshed(node[c]).observing = node[c].observing
    BY <1>3, <2>1 DEF Refreshed, NodeRecords
  <2>3. n.observing = [node[c].observing EXCEPT ![v] = @ + 1]
    BY <1>4, <2>2 DEF NodeRecords
  <2>4. node[c].observing \in [Vars -> Nat]
    BY <2>1 DEF NodeRecords
  <2>5. n.observing \in [Vars -> Nat]
    BY <1>2, <2>3, <2>4
  <2>6. n = [Refreshed(node[c]) EXCEPT !.observing = n.observing]
    BY <1>4, <2>2, <2>3 DEF NodeRecords
  <2>7. n \in NodeRecords
    BY <2>2, <2>5, <2>6 DEF NodeRecords
  <2> QED BY <1>2, <2>3, <2>4, <2>7 DEF Same
<1>6. /\ k \in JobRecords /\ k.pc = "send" /\ k.client = c /\ k.kind = "observe" /\ k.var = v
      /\ k # <<>>
  BY <1>1, <1>2, <1>4, RecordsAreNotIdle DEF JobRecords, Pcs
<1>7. job' = [job EXCEPT ![p] = k]
  BY <1>1, <1>2, <1>3, <1>4 DEF RegisterNewObservation, GoTo
<1>8. /\ node' = [node EXCEPT ![c] = n]
      /\ uneven' = uneven \cup {x \in {c} : Deleting(c)}
      /\ UNCHANGED <<started, online, observers, indexed, saved, restarts>>
  BY <1>1, <1>4 DEF RegisterNewObservation, lists
<1>9. k \in SomeJob /\ SoundJob(k)
  BY <1>2, <1>6 DEF SomeJob, SoundJob
<1>10. JobsAreSound' /\ \A q \in Procs : Idle(q)' \/ job'[q] \in JobRecords
  BY <1>3, <1>7, <1>9, JobStep
<1>11. node' \in [Clients -> NodeRecords] /\ node'[c] = n /\ \A d \in Clients \ {c} : node'[d] = node[d]
  BY <1>2, <1>3, <1>5, <1>8
<1>12. RegistryTypeOK'
  BY <1>2, <1>8, <1>10, <1>11, InvFacts DEF RegistryTypeOK, ListsTyped, lists
<1>13. SavedIsEven'
  BY <1>8, SavedFrame
<1>14. (\A d \in Clients \ uneven : ClientIsSound(d))'
  <2> SUFFICES ASSUME NEW d \in Clients \ uneven' PROVE ClientIsSound(d)'
    OBVIOUS
  <2>1. ClientIsSound(d)
    BY <1>8, InvFacts
  <2>2. \A w \in Vars : /\ Cardinality(PlacesOf(w, d))' = Cardinality(PlacesOf(w, d))
                        /\ Cardinality(PlacesOf(w, d)) \in Nat
    BY <1>3, <1>8, PlacesAreEntries, EntriesAreFinite
  <2>3. CASE d # c
    BY <1>1, <1>2, <1>3, <1>6, <1>7, <1>9, <1>11, <2>1, <2>2, <2>3, OtherClients
  <2>4. CASE d = c
    <3>1. ~Deleting(c)
      BY <1>8, <2>4
    <3>2. ASSUME NEW w \in Vars PROVE Balanced(c, w)'
      <4>1. Balanced(c, w)
        BY <2>1, <2>4, <3>1, UndeletedBefore
      <4>2. /\ NoteOf(k, c, w) = 0 /\ NoteOf(job[p], c, w) = Same(w, v)
            /\ StopOf(k, c, w) = 0 /\ StopOf(job[p], c, w) = 0
        BY <1>1, <1>2, <1>6 DEF Notes, Stops, NoteOf, StopOf, Same
      <4>3. node[c].observing[w] \in Nat /\ node'[c].observing[w] = node[c].observing[w] + Same(w, v)
        BY <1>2, <1>3, <1>5, <1>11 DEF NodeRecords
      <4>4. Same(w, v) \in Int
        BY DEF Same
      <4>5. Cardinality(PlacesOf(w, c))' = Cardinality(PlacesOf(w, c)) + 0
        BY <2>2, <2>4
      <4>6. 0 \in Int /\ 0 = Same(w, v) + (NoteOf(k, c, w) - NoteOf(job[p], c, w))
                                   - (StopOf(k, c, w) - StopOf(job[p], c, w))
        BY <4>2, <4>4
      <4> QED BY <1>2, <1>3, <1>7, <1>9, <4>1, <4>3, <4>4, <4>5, <4>6, BalanceStep
    <3> QED BY <1>2, <1>3, <1>6, <1>7, <1>9, <2>4, <3>1, <3>2, UndeletedAfter
  <2> QED BY <2>3, <2>4
<1> QED BY <1>10, <1>12, <1>13, <1>14 DEF RegistryInv

LEMMA UnregisterStep ==
  ASSUME RegistryInv, NEW p \in Procs, UnregisterObservation(p)
  PROVE  RegistryInv'
<1>1. PICK j, c, v : j = job[p] /\ c = j.client /\ v = j.var
  OBVIOUS
<1>2. /\ j # <<>> /\ ~Idle(p) /\ j.pc = "unregister" /\ j \in JobRecords /\ SoundJob(j)
      /\ c \in Clients /\ j.kind = "stop" /\ v \in Vars
  BY <1>1, AtFacts DEF UnregisterObservation, SoundJob
<1>3. /\ job \in [Procs -> SomeJob] /\ node \in [Clients -> NodeRecords]
      /\ observers \in [Vars -> Seq(Entries)]
      /\ uneven \subseteq Clients /\ JobsAreSound /\ 0 \in 0..MaxWait
  BY InvFacts, RegistryAssumption
<1>4. PICK n : n = [Refreshed(node[c]) EXCEPT !.observing[v] = IF @ > 0 THEN @ - 1 ELSE @]
  OBVIOUS
<1>5. /\ n \in NodeRecords
      /\ \A w \in Vars : node[c].observing[v] # 0 =>
            n.observing[w] = node[c].observing[w] - Same(w, v)
  <2>1. node[c] \in NodeRecords
    BY <1>2, <1>3
  <2>2. Refreshed(node[c]) \in NodeRecords
        /\ Refreshed(node[c]).observing = node[c].observing
    BY <1>3, <2>1 DEF Refreshed, NodeRecords
  <2>3. /\ n.observing = [node[c].observing EXCEPT ![v] = IF @ > 0 THEN @ - 1 ELSE @]
       
    BY <1>4, <2>2 DEF NodeRecords
  <2>4. node[c].observing \in [Vars -> Nat]
    BY <2>1 DEF NodeRecords
  <2>5. n.observing \in [Vars -> Nat]
    BY <1>2, <2>3, <2>4
  <2>6. n = [Refreshed(node[c]) EXCEPT !.observing = n.observing]
    BY <1>4, <2>2, <2>3 DEF NodeRecords
  <2>7. n \in NodeRecords
    BY <2>2, <2>5, <2>6 DEF NodeRecords
  <2> QED BY <1>2, <2>3, <2>4, <2>7 DEF Same
<1>6. job' = [job EXCEPT ![p] = <<>>]
  BY <1>1 DEF UnregisterObservation, End
<1>7. /\ node' = [node EXCEPT ![c] = n]
      /\ uneven' = uneven \cup {x \in {c} : Deleting(c) \/ node[c].observing[v] = 0}
      /\ UNCHANGED <<started, online, observers, indexed, saved, restarts>>
  BY <1>1, <1>4 DEF UnregisterObservation, lists
<1>8. <<>> \in SomeJob /\ SoundJob(<<>>)
  BY DEF SomeJob, SoundJob
<1>9. JobsAreSound' /\ \A q \in Procs : Idle(q)' \/ job'[q] \in JobRecords
  BY <1>3, <1>6, <1>8, JobStep
<1>10. node' \in [Clients -> NodeRecords] /\ node'[c] = n /\ \A d \in Clients \ {c} : node'[d] = node[d]
  BY <1>2, <1>3, <1>5, <1>7
<1>11. RegistryTypeOK'
  BY <1>2, <1>7, <1>9, <1>10, InvFacts DEF RegistryTypeOK, ListsTyped, lists
<1>12. SavedIsEven'
  BY <1>7, SavedFrame
<1>13. (\A d \in Clients \ uneven : ClientIsSound(d))'
  <2> SUFFICES ASSUME NEW d \in Clients \ uneven' PROVE ClientIsSound(d)'
    OBVIOUS
  <2>1. ClientIsSound(d)
    BY <1>7, InvFacts
  <2>2. \A w \in Vars : /\ Cardinality(PlacesOf(w, d))' = Cardinality(PlacesOf(w, d))
                        /\ Cardinality(PlacesOf(w, d)) \in Nat
    BY <1>3, <1>7, PlacesAreEntries, EntriesAreFinite
  <2>3. CASE d # c
    BY <1>1, <1>2, <1>3, <1>6, <1>8, <1>10, <2>1, <2>2, <2>3, OtherClients
  <2>4. CASE d = c
    <3>1. ~Deleting(c) /\ node[c].observing[v] # 0
      BY <1>7, <2>4
    <3>2. ASSUME NEW w \in Vars PROVE Balanced(c, w)'
      <4>1. Balanced(c, w)
        BY <2>1, <2>4, <3>1, UndeletedBefore
      <4>2. /\ NoteOf(<<>>, c, w) = 0 /\ NoteOf(job[p], c, w) = 0
            /\ StopOf(<<>>, c, w) = 0 /\ StopOf(job[p], c, w) = Same(w, v)
        BY <1>1, <1>2 DEF Notes, Stops, NoteOf, StopOf, Same
      <4>3. node[c].observing[w] \in Nat /\ node'[c].observing[w] = node[c].observing[w] - Same(w, v)
        BY <1>2, <1>3, <1>5, <1>10, <3>1 DEF NodeRecords
      <4>4. Same(w, v) \in Int
        BY DEF Same
      <4>5. Cardinality(PlacesOf(w, c))' = Cardinality(PlacesOf(w, c)) + 0
        BY <2>2, <2>4
      <4> DEFINE y == 0 - Same(w, v)
      <4>6. y \in Int /\ node'[c].observing[w] = node[c].observing[w] + y
        BY <4>3, <4>4
      <4>7. 0 \in Int /\ 0 = y + (NoteOf(<<>>, c, w) - NoteOf(job[p], c, w)) - (StopOf(<<>>, c, w) - StopOf(job[p], c, w))
        BY <4>2, <4>4
      <4> HIDE DEF y
      <4> QED BY <1>2, <1>3, <1>6, <1>8, <4>1, <4>3, <4>5, <4>6, <4>7, BalanceStep
    <3> QED BY <1>2, <1>3, <1>6, <1>8, <2>4, <3>1, <3>2, UndeletedAfter
  <2> QED BY <2>3, <2>4
<1> QED BY <1>9, <1>11, <1>12, <1>13 DEF RegistryInv

(* The index after the entries behind place i have moved. *)
LEMMA ReindexedType ==
  ASSUME RegistryInv, NEW v \in Vars, NEW c \in Clients, NEW i \in DOMAIN observers[v]
  PROVE  Reindexed(v, c, i) \subseteq Clients \X Metas
<1>1. /\ observers[v] \in Seq(Entries) /\ Len(observers[v]) \in Nat
      /\ DOMAIN observers[v] = 1..Len(observers[v])
      /\ indexed[v] \subseteq Clients \X Metas
  BY InvFacts, LenProperties
<1>2. \A j \in (i + 1)..Len(observers[v]) : observers[v][j] \in Entries
  <2> TAKE j \in (i + 1)..Len(observers[v])
  <2>1. j \in 1..Len(observers[v])
    BY <1>1
  <2> QED BY <1>1, <2>1, ElementOfSeq
<1>3. \A j \in (i + 1)..Len(observers[v]) :
         <<observers[v][j].client, observers[v][j].meta>> \in Clients \X Metas
  BY <1>2 DEF Entries
<1> QED BY <1>1, <1>3 DEF Reindexed

(* internalRemoveObserving takes one entry of its client. *)
LEMMA WithoutCounts ==
  ASSUME RegistryInv, NEW v \in Vars, NEW c \in Clients, NEW m \in Metas, Without(v, c, m)
  PROVE  /\ observers' \in [Vars -> Seq(Entries)]
         /\ indexed' \in [Vars -> SUBSET (Clients \X Metas)]
         /\ \A d \in Clients, w \in Vars :
               /\ Cardinality(PlacesOf(w, d)) \in Nat
               /\ Cardinality(PlacesOf(w, d))' = Cardinality(PlacesOf(w, d)) -
                     (IF d = c /\ Places(v, c, m) # {} THEN Same(w, v) ELSE 0)
<1>1. /\ observers \in [Vars -> Seq(Entries)]
      /\ indexed \in [Vars -> SUBSET (Clients \X Metas)]
  BY InvFacts
<1>2. \A d \in Clients, w \in Vars : Cardinality(PlacesOf(w, d)) \in Nat
  BY <1>1, PlacesAreEntries, EntriesAreFinite
<1>3. CASE Places(v, c, m) = {}
  <2>1. observers' = observers /\ indexed' = indexed
    BY <1>3 DEF Without, lists
  <2>2. \A d \in Clients, w \in Vars : Cardinality(PlacesOf(w, d))' = Cardinality(PlacesOf(w, d))
    BY <2>1, PlacesAreEntries
  <2> QED BY <1>1, <1>2, <1>3, <2>1, <2>2
<1>4. CASE Places(v, c, m) # {}
  <2> DEFINE S == Places(v, c, m)
  <2>1. S \subseteq DOMAIN observers[v] /\ observers[v] \in Seq(Entries)
    BY <1>1 DEF Places
  <2>2. S \subseteq Int /\ IsFiniteSet(S)
    BY <2>1, PlacesAreInts
  <2>3. PICK i : i = CHOOSE k \in S : \A j \in S : j <= k
    OBVIOUS
  <2>4. i \in S
    <3> HIDE DEF S
    <3>1. \E k \in S : \A j \in S : j <= k
      BY <1>4, <2>2, Extremes DEF S
    <3> QED BY <2>3, <3>1
  <2>5. i \in DOMAIN observers[v] /\ observers[v][i].client = c
    BY <2>4 DEF Places
  <2>6. /\ observers' = [observers EXCEPT ![v] = RemoveAt(observers[v], i)]
        /\ indexed' = [indexed EXCEPT ![v] = Reindexed(v, c, i)]
    BY <1>4, <2>3 DEF Without
  <2>7. RemoveAt(observers[v], i) \in Seq(Entries)
    BY <2>1, <2>5, RemoveAtPlaces
  <2>8. /\ observers' \in [Vars -> Seq(Entries)]
        /\ indexed' \in [Vars -> SUBSET (Clients \X Metas)]
    BY <1>1, <2>5, <2>6, <2>7, ReindexedType
  <2>9. ASSUME NEW d \in Clients, NEW w \in Vars
        PROVE  Cardinality(PlacesOf(w, d))' = Cardinality(PlacesOf(w, d)) -
                     (IF d = c THEN Same(w, v) ELSE 0)
    <3>1. CASE w = v
      <4>1. observers'[w] = RemoveAt(observers[v], i)
        BY <1>1, <2>6, <3>1
      <4>2. Cardinality(EntriesOf(RemoveAt(observers[v], i), d)) =
               Cardinality(EntriesOf(observers[v], d)) - (IF c = d THEN 1 ELSE 0)
        BY <2>1, <2>5, RemoveAtCounts
      <4> QED BY <3>1, <4>1, <4>2, PlacesAreEntries DEF Same
    <3>2. CASE w # v
      <4>1. observers'[w] = observers[w]
        BY <1>1, <2>6, <3>2
      <4>2. Cardinality(PlacesOf(w, d))' = Cardinality(PlacesOf(w, d))
        BY <4>1, PlacesAreEntries
      <4>3. Cardinality(PlacesOf(w, d)) \in Nat
        BY <1>2
      <4> QED BY <3>2, <4>2, <4>3 DEF Same
    <3> QED BY <3>1, <3>2
  <2> QED BY <1>2, <1>4, <2>8, <2>9
<1> QED BY <1>3, <1>4

LEMMA StopStep ==
  ASSUME RegistryInv, NEW p \in Procs, NEW c \in Clients, NEW v \in Vars, NEW m \in Metas,
         StopObservingVar(p, c, v, m)
  PROVE  RegistryInv'
<1>1. PICK k : k = NewJob("stop", "init", c, v, NoMeta, online[c])
  OBVIOUS
<1>2. /\ JobsAreSound /\ uneven \subseteq Clients /\ node \in [Clients -> NodeRecords]
      /\ online[c] \in Apis \cup {NoApi} /\ NoMeta \in Metas
  BY InvFacts, RegistryAssumption
<1>3. /\ k \in JobRecords /\ k # <<>> /\ k.pc = "init" /\ k.kind = "stop" /\ k.client = c
      /\ k.var = v
  <2>1. k \in JobRecords
    BY <1>1, <1>2, NewJobs DEF Kinds, Pcs
  <2> QED BY <1>1, <2>1, RecordsAreNotIdle DEF NewJob
<1>4. /\ job[p] = <<>> /\ Idle(p) /\ job' = [job EXCEPT ![p] = k]
      /\ Without(v, c, m)
      /\ uneven' = uneven \cup {x \in {c} : Places(v, c, m) = {} \/ Deleting(c)}
      /\ UNCHANGED <<started, online, node, saved, restarts>>
  BY <1>1 DEF StopObservingVar, Begin, Idle
<1>5. k \in SomeJob /\ SoundJob(k)
  BY <1>3 DEF SomeJob, SoundJob
<1>6. JobsAreSound' /\ \A q \in Procs : Idle(q)' \/ job'[q] \in JobRecords
  BY <1>2, <1>4, <1>5, JobStep
<1>7. /\ observers' \in [Vars -> Seq(Entries)]
      /\ indexed' \in [Vars -> SUBSET (Clients \X Metas)]
      /\ \A d \in Clients, w \in Vars :
            /\ Cardinality(PlacesOf(w, d)) \in Nat
            /\ Cardinality(PlacesOf(w, d))' = Cardinality(PlacesOf(w, d)) -
                  (IF d = c /\ Places(v, c, m) # {} THEN Same(w, v) ELSE 0)
  BY <1>4, WithoutCounts
<1>8. RegistryTypeOK'
  BY <1>4, <1>6, <1>7, InvFacts DEF RegistryTypeOK, ListsTyped, lists
<1>9. SavedIsEven'
  BY <1>4, SavedFrame
<1>10. (\A d \in Clients \ uneven : ClientIsSound(d))'
  <2> SUFFICES ASSUME NEW d \in Clients \ uneven' PROVE ClientIsSound(d)'
    OBVIOUS
  <2>1. ClientIsSound(d)
    BY <1>4, InvFacts
  <2>2. CASE d # c
    <3>1. \A w \in Vars : Cardinality(PlacesOf(w, d))' = Cardinality(PlacesOf(w, d))
      BY <1>7, <2>2
    <3> QED BY <1>2, <1>3, <1>4, <1>5, <2>1, <2>2, <3>1, OtherClients
  <2>3. CASE d = c
    <3>1. ~Deleting(c) /\ Places(v, c, m) # {}
      BY <1>4, <2>3
    <3>2. ASSUME NEW w \in Vars PROVE Balanced(c, w)'
      <4>1. Balanced(c, w)
        BY <2>1, <2>3, <3>1, UndeletedBefore
      <4>2. /\ NoteOf(k, c, w) = 0 /\ NoteOf(job[p], c, w) = 0
            /\ StopOf(k, c, w) = Same(w, v) /\ StopOf(job[p], c, w) = 0
        BY <1>3, <1>4 DEF Notes, Stops, NoteOf, StopOf, Same
      <4>3. Same(w, v) \in Int /\ 0 \in Int
        BY DEF Same
      <4> DEFINE x == 0 - Same(w, v)
      <4>4. x \in Int /\ Cardinality(PlacesOf(w, c))' = Cardinality(PlacesOf(w, c)) + x
        BY <1>7, <3>1, <4>3
      <4>5. x = 0 + (NoteOf(k, c, w) - NoteOf(job[p], c, w)) - (StopOf(k, c, w) - StopOf(job[p], c, w))
        BY <4>2, <4>3
      <4>6. node[c].observing[w] \in Nat /\ node'[c].observing[w] = node[c].observing[w] + 0
        BY <1>2, <1>4 DEF NodeRecords
      <4> HIDE DEF x
      <4> QED BY <1>2, <1>4, <1>5, <4>1, <4>3, <4>4, <4>5, <4>6, BalanceStep
    <3> QED BY <1>2, <1>3, <1>4, <1>5, <2>3, <3>1, <3>2, UndeletedAfter
  <2> QED BY <2>2, <2>3
<1> QED BY <1>6, <1>8, <1>9, <1>10 DEF RegistryInv

(* RemoveClientFromObservationSystem: what the list of the client had is   *)
(* all in todo, and to be purged.                                          *)
LEMMA RemoveStep ==
  ASSUME RegistryInv, NEW p \in Procs, RemoveClientFromObservationSystem(p)
  PROVE  RegistryInv'
<1>1. PICK j, c, k : /\ j = job[p] /\ c = j.client
                     /\ k = IF j.todo = {} THEN <<>> ELSE [j EXCEPT !.pc = "purge"]
  OBVIOUS
<1>2. /\ j # <<>> /\ ~Idle(p) /\ j.pc = "remove" /\ j \in JobRecords /\ SoundJob(j)
      /\ c \in Clients /\ j.todo \subseteq Vars
  BY <1>1, AtFacts DEF RemoveClientFromObservationSystem
<1>3. /\ job \in [Procs -> SomeJob] /\ node \in [Clients -> NodeRecords]
      /\ observers \in [Vars -> Seq(Entries)]
      /\ uneven \subseteq Clients /\ JobsAreSound
  BY InvFacts
<1>4. k # <<>> => /\ k \in JobRecords /\ k.pc = "purge" /\ k.client = c
                  /\ k.kind = j.kind /\ k.var = j.var /\ k.todo = j.todo
  BY <1>1, <1>2 DEF JobRecords, Pcs
<1>5. k = <<>> <=> j.todo = {}
  BY <1>1, <1>2, RecordsAreNotIdle DEF JobRecords, Pcs
<1>6. job' = [job EXCEPT ![p] = k]
  BY <1>1, <1>2, <1>3 DEF RemoveClientFromObservationSystem, End, GoTo
<1>7. /\ node' = [node EXCEPT ![c] = NoNode]
      /\ uneven' = uneven \cup {x \in {c} : \E q \in Jobs(c, {"init", "unregister"}) : job[q].kind = "stop"}
      /\ UNCHANGED <<started, online, observers, indexed, saved, restarts>>
  BY <1>1 DEF RemoveClientFromObservationSystem, lists
<1>8. k \in SomeJob /\ SoundJob(k)
  BY <1>2, <1>4 DEF SomeJob, SoundJob
<1>9. /\ JobsAreSound' /\ \A q \in Procs : Idle(q)' \/ job'[q] \in JobRecords
      /\ job'[p] = k /\ \A q \in Procs \ {p} : job'[q] = job[q]
  BY <1>3, <1>6, <1>8, JobStep
<1>10. NoNode \in NodeRecords /\ ~NoNode.known /\ \A w \in Vars : NoNode.observing[w] = 0
  BY RegistryAssumption DEF NoNode, NoVars, NodeRecords
<1>11. node' \in [Clients -> NodeRecords] /\ node'[c] = NoNode /\ \A d \in Clients \ {c} : node'[d] = node[d]
  BY <1>2, <1>3, <1>7, <1>10
<1>12. RegistryTypeOK'
  BY <1>2, <1>7, <1>9, <1>11, InvFacts DEF RegistryTypeOK, ListsTyped, lists
<1>13. SavedIsEven'
  BY <1>7, SavedFrame
<1>14. (\A d \in Clients \ uneven : ClientIsSound(d))'
  <2> SUFFICES ASSUME NEW d \in Clients \ uneven' PROVE ClientIsSound(d)'
    OBVIOUS
  <2>1. ClientIsSound(d)
    BY <1>7, InvFacts
  <2>2. \A w \in Vars : Cardinality(PlacesOf(w, d))' = Cardinality(PlacesOf(w, d))
    BY <1>7, PlacesAreEntries
  <2>3. CASE d # c
    <3>1. k # <<>> => k.client = c
      BY <1>4
    <3>2. job[p].client = c /\ d \in Clients \ {c} /\ node'[d] = node[d]
      BY <1>1, <1>11, <2>3
    <3> QED BY <1>2, <1>3, <1>6, <1>8, <2>1, <2>2, <3>1, <3>2, OtherClients
  <2>4. CASE d = c
    <3>1. \A w \in Vars : w \notin j.todo => node[c].observing[w] = 0
      <4>1. p \in Jobs(c, {"remove"})
        BY <1>1, <1>2 DEF Jobs
      <4> QED BY <1>1, <2>1, <2>4, <4>1 DEF ClientIsSound
    <3>2. \A w \in Vars : Stopping(c, w)' = {}
      <4>1. ~\E q \in Jobs(c, {"init", "unregister"}) : job[q].kind = "stop"
        BY <1>7, <2>4
      <4>2. \A q \in Procs, w \in Vars : ~Stops(job[q], c, w)
        BY <4>1 DEF Jobs, Idle, Stops
      <4>3. \A w \in Vars : ~Stops(k, c, w)
        BY <1>4 DEF Stops
      <4>4. \A q \in Procs, w \in Vars : ~Stops(job'[q], c, w)
        BY <1>9, <4>2, <4>3
      <4> QED BY <4>4, JobSetsPrimed
    <3>3. ASSUME NEW w \in Vars PROVE Agrees(c, w)'
      <4>1. CASE w \in j.todo
        <5>1. Purges(job'[p], c, w)
          BY <1>4, <1>5, <1>9, <4>1 DEF Purges
        <5>2. Purging(c, w)'
          BY <5>1, JobSetsPrimed
        <5> QED BY <5>2 DEF Agrees
      <4>2. CASE w \notin j.todo
        <5>1. \A q \in Procs : /\ Purges(job[q], c, w) => Purges(job'[q], c, w)
                               /\ Notes(job'[q], c, w) <=> Notes(job[q], c, w)
                               /\ Stops(job'[q], c, w) <=> Stops(job[q], c, w)
          <6>1. /\ ~Purges(j, c, w) /\ ~Notes(j, c, w) /\ ~Notes(k, c, w)
                /\ ~Stops(j, c, w) /\ ~Stops(k, c, w)
            BY <1>2, <1>4 DEF Purges, Notes, Stops
          <6> QED BY <1>1, <1>9, <6>1
        <5>2. /\ Purging(c, w) => Purging(c, w)'
              /\ Noting(c, w)' = Noting(c, w)
              /\ Stopping(c, w)' = Stopping(c, w)
          BY <5>1, JobSets, JobSetsPrimed
        <5>3. node'[c].observing[w] = node[c].observing[w]
          BY <1>10, <1>11, <3>1, <4>2
        <5>4. Agrees(c, w)
          BY <2>1, <2>4 DEF ClientIsSound
        <5> QED BY <2>2, <2>4, <5>2, <5>3, <5>4 DEF Agrees
      <4> QED BY <4>1, <4>2
    <3>4. \A w \in Vars : node'[c].observing[w] = 0
      BY <1>10, <1>11
    <3> QED BY <2>4, <3>2, <3>3, <3>4 DEF ClientIsSound
  <2> QED BY <2>3, <2>4
<1> QED BY <1>9, <1>12, <1>13, <1>14 DEF RegistryInv

(* RemoveAllClientObservations takes all entries of its client. *)
LEMMA WithoutClientCounts ==
  ASSUME RegistryInv, NEW v \in Vars, NEW c \in Clients, WithoutClient(v, c)
  PROVE  /\ observers' \in [Vars -> Seq(Entries)]
         /\ indexed' \in [Vars -> SUBSET (Clients \X Metas)]
         /\ Cardinality(PlacesOf(v, c))' = 0
         /\ \A d \in Clients, w \in Vars : d # c \/ w # v =>
               Cardinality(PlacesOf(w, d))' = Cardinality(PlacesOf(w, d))
<1>1. /\ observers \in [Vars -> Seq(Entries)]
      /\ indexed \in [Vars -> SUBSET (Clients \X Metas)]
  BY InvFacts
<1>2. CASE PlacesOf(v, c) = {}
  <2>1. observers' = observers /\ indexed' = indexed
    BY <1>2 DEF WithoutClient, lists
  <2>2. \A d \in Clients, w \in Vars : Cardinality(PlacesOf(w, d))' = Cardinality(PlacesOf(w, d))
    BY <2>1, PlacesAreEntries
  <2>3. Cardinality(PlacesOf(v, c)) = 0
    BY <1>2, FS_EmptySet
  <2> QED BY <1>1, <2>1, <2>2, <2>3
<1>3. CASE PlacesOf(v, c) # {}
  <2>1. PICK s, O, t : /\ s = observers[v] /\ O = OtherPlaces(v, c)
                       /\ t = Selection(s, O)
    OBVIOUS
  <2>2. /\ s \in Seq(Entries) /\ O \subseteq DOMAIN s
        /\ O = {i \in DOMAIN s : s[i].client # c}
    BY <1>1, <2>1 DEF OtherPlaces, PlacesOf
  <2> DEFINE S == PlacesOf(v, c)
  <2>3. S \subseteq Int /\ IsFiniteSet(S)
    BY <2>1, <2>2, PlacesAreInts DEF PlacesOf
  <2>4. PICK i : i = CHOOSE k \in S : \A j \in S : k <= j
    OBVIOUS
  <2>5. i \in S
    <3> HIDE DEF S
    <3>1. \E k \in S : \A j \in S : k <= j
      BY <1>3, <2>3, Extremes DEF S
    <3> QED BY <2>4, <3>1
  <2>6. i \in DOMAIN observers[v]
    BY <2>5 DEF PlacesOf
  <2>7. /\ observers' = [observers EXCEPT ![v] = t]
        /\ indexed' = [indexed EXCEPT ![v] = Reindexed(v, c, i)]
    <3>1. t = [k \in 1..Cardinality(OtherPlaces(v, c)) |-> observers[v][NthOther(v, c, k)]]
      BY <2>1 DEF NthOther, Selection
    <3> QED BY <1>3, <2>4, <3>1 DEF WithoutClient
  <2>8. t \in Seq(Entries)
    BY <2>1, <2>2, SelectionCounts
  <2>9. /\ observers' \in [Vars -> Seq(Entries)]
        /\ indexed' \in [Vars -> SUBSET (Clients \X Metas)]
        /\ observers'[v] = t
        /\ \A w \in Vars \ {v} : observers'[w] = observers[w]
    BY <1>1, <2>6, <2>7, <2>8, ReindexedType
  <2>10. \A d : Cardinality(EntriesOf(t, d)) = Cardinality(EntriesAmong(s, O, d))
    BY <2>1, <2>2, SelectionCounts
  <2>11. Cardinality(PlacesOf(v, c))' = 0
    <3>1. EntriesAmong(s, O, c) = {}
      BY <2>2 DEF EntriesAmong
    <3>2. Cardinality(EntriesAmong(s, O, c)) = 0
      BY <3>1, FS_EmptySet
    <3> QED BY <2>9, <2>10, <3>2, PlacesAreEntries
  <2>12. ASSUME NEW d \in Clients, d # c
         PROVE  Cardinality(PlacesOf(v, d))' = Cardinality(PlacesOf(v, d))
    <3>1. EntriesAmong(s, O, d) = EntriesOf(s, d)
      BY <2>2, <2>12 DEF EntriesOf, EntriesAmong
    <3>2. Cardinality(EntriesOf(t, d)) = Cardinality(EntriesOf(s, d))
      BY <2>10, <3>1
    <3> QED BY <2>1, <2>9, <3>2, PlacesAreEntries
  <2>13. \A d \in Clients, w \in Vars \ {v} :
            Cardinality(PlacesOf(w, d))' = Cardinality(PlacesOf(w, d))
    BY <2>9, PlacesAreEntries
  <2> QED BY <2>9, <2>11, <2>12, <2>13
<1> QED BY <1>2, <1>3

(* Nothing is left of the client in a variable that deleteClient has       *)
(* purged, and nobody has made or is making a new entry.                   *)
LEMMA PurgeStep ==
  ASSUME RegistryInv, NEW p \in Procs, Purge(p)
  PROVE  RegistryInv'
<1>1. PICK j, c : j = job[p] /\ c = j.client
  OBVIOUS
<1>2. /\ j # <<>> /\ ~Idle(p) /\ j.pc = "purge" /\ j \in JobRecords /\ SoundJob(j)
      /\ c \in Clients /\ j.todo \subseteq Vars
  BY <1>1, AtFacts DEF Purge
<1>3. /\ job \in [Procs -> SomeJob] /\ node \in [Clients -> NodeRecords]
      /\ uneven \subseteq Clients /\ JobsAreSound
  BY InvFacts
<1>4. PICK v \in j.todo :
        /\ WithoutClient(v, c)
        /\ job' = IF j.todo = {v} THEN [job EXCEPT ![p] = <<>>]
                  ELSE [job EXCEPT ![p].todo = @ \ {v}]
        /\ uneven' = uneven \cup {x \in {c} : \/ \E q \in Jobs(c, {"note"}) : job[q].var = v
                                             \/ node[c].observing[v] > 0}
  BY <1>1 DEF Purge
<1>5. PICK k : k = IF j.todo = {v} THEN <<>> ELSE [j EXCEPT !.todo = @ \ {v}]
  OBVIOUS
<1>6. k # <<>> => /\ k \in JobRecords /\ k.pc = "purge" /\ k.client = c
                  /\ k.kind = j.kind /\ k.var = j.var /\ k.todo = j.todo \ {v}
  BY <1>1, <1>2, <1>5 DEF JobRecords
<1>7. k = <<>> <=> j.todo = {v}
  BY <1>2, <1>5, RecordsAreNotIdle DEF JobRecords
<1>8. job' = [job EXCEPT ![p] = k]
  BY <1>1, <1>2, <1>3, <1>4, <1>5
<1>9. v \in Vars /\ UNCHANGED <<started, online, node, saved, restarts>>
  BY <1>2, <1>4 DEF Purge
<1>10. k \in SomeJob /\ SoundJob(k)
  BY <1>2, <1>6 DEF SomeJob, SoundJob
<1>11. /\ JobsAreSound' /\ \A q \in Procs : Idle(q)' \/ job'[q] \in JobRecords
       /\ job'[p] = k /\ \A q \in Procs \ {p} : job'[q] = job[q]
  BY <1>3, <1>8, <1>10, JobStep
<1>12. /\ observers' \in [Vars -> Seq(Entries)]
       /\ indexed' \in [Vars -> SUBSET (Clients \X Metas)]
       /\ Cardinality(PlacesOf(v, c))' = 0
       /\ \A d \in Clients, w \in Vars : d # c \/ w # v =>
             Cardinality(PlacesOf(w, d))' = Cardinality(PlacesOf(w, d))
  BY <1>2, <1>4, <1>9, WithoutClientCounts
<1>13. RegistryTypeOK'
  BY <1>2, <1>3, <1>4, <1>9, <1>11, <1>12, InvFacts DEF RegistryTypeOK, ListsTyped, lists
<1>14. SavedIsEven'
  BY <1>9, SavedFrame
<1>15. (\A d \in Clients \ uneven : ClientIsSound(d))'
  <2> SUFFICES ASSUME NEW d \in Clients \ uneven' PROVE ClientIsSound(d)'
    OBVIOUS
  <2>1. ClientIsSound(d)
    BY <1>4, InvFacts
  <2>2. CASE d # c
    <3>1. (k # <<>> => k.client = c) /\ job[p].client = c /\ d \in Clients \ {c}
      BY <1>1, <1>6, <2>2
    <3>2. \A w \in Vars : /\ Cardinality(PlacesOf(w, d))' = Cardinality(PlacesOf(w, d))
                          /\ node'[d].observing[w] = node[d].observing[w]
      BY <1>9, <1>12, <2>2
    <3> QED BY <1>2, <1>3, <1>8, <1>10, <2>1, <3>1, <3>2, OtherClients
  <2>3. CASE d = c
    <3>1. \A w \in Vars : ~Stops(j, c, w) /\ ~Stops(k, c, w) /\ ~Notes(j, c, w) /\ ~Notes(k, c, w)
      BY <1>2, <1>6 DEF Stops, Notes
    <3>2. \A q \in Procs, w \in Vars : /\ Notes(job'[q], c, w) <=> Notes(job[q], c, w)
                                       /\ Stops(job'[q], c, w) <=> Stops(job[q], c, w)
      BY <1>1, <1>11, <3>1
    <3>3. \A w \in Vars : Noting(c, w)' = Noting(c, w) /\ Stopping(c, w)' = Stopping(c, w)
      BY <3>2, JobSets, JobSetsPrimed
    <3>4. \A w \in Vars : Stopping(c, w) = {}
      <4>1. p \in Jobs(c, {"purge"})
        BY <1>1, <1>2 DEF Jobs
      <4> QED BY <2>1, <2>3, <4>1 DEF ClientIsSound
    <3>5. Agrees(c, v)'
      <4>1. ~(\E q \in Jobs(c, {"note"}) : job[q].var = v) /\ ~(node[c].observing[v] > 0)
        BY <1>4, <2>3
      <4>2. Noting(c, v) = {}
        BY <4>1 DEF Noting
      <4>3. node'[c].observing[v] = 0
        <5>1. node[c].observing[v] \in Nat
          BY <1>2, <1>3, <1>9 DEF NodeRecords
        <5> QED BY <1>9, <4>1, <5>1
      <4>4. Cardinality(Noting(c, v))' = 0 /\ Cardinality(Stopping(c, v))' = 0
        <5>1. Noting(c, v)' = {} /\ Stopping(c, v)' = {}
          BY <1>9, <3>3, <3>4, <4>2
        <5> QED BY <5>1, FS_EmptySet
      <4> QED BY <1>12, <4>3, <4>4 DEF Agrees
    <3>6. ASSUME NEW w \in Vars, w # v PROVE Agrees(c, w)'
      <4>1. Purges(j, c, w) => Purges(k, c, w)
        BY <1>6, <1>7, <3>6 DEF Purges
      <4>2. \A q \in Procs : Purges(job[q], c, w) => Purges(job'[q], c, w)
        BY <1>1, <1>11, <4>1
      <4>3. Purging(c, w) => Purging(c, w)'
        BY <4>2, JobSets, JobSetsPrimed
      <4>4. Agrees(c, w)
        BY <2>1, <2>3 DEF ClientIsSound
      <4>5. /\ Cardinality(PlacesOf(w, c))' = Cardinality(PlacesOf(w, c))
            /\ node'[c].observing[w] = node[c].observing[w]
        BY <1>2, <1>9, <1>12, <3>6
      <4> QED BY <3>3, <4>3, <4>4, <4>5 DEF Agrees
    <3>7. \A q \in Jobs(c, {"remove"})' : \A w \in Vars :
             w \notin job'[q].todo => node'[c].observing[w] = 0
      <4>1. ~Deletes(k, c, "remove")
        BY <1>6 DEF Deletes
      <4>2. \A q \in Jobs(c, {"remove"})' : q \in Jobs(c, {"remove"}) /\ job'[q] = job[q]
        BY <1>11, <4>1, JobSets, JobSetsPrimed
      <4> QED BY <1>9, <2>1, <2>3, <4>2 DEF ClientIsSound
    <3> QED BY <2>3, <3>3, <3>4, <3>5, <3>6, <3>7 DEF ClientIsSound
  <2> QED BY <2>2, <2>3
<1> QED BY <1>11, <1>13, <1>14, <1>15 DEF RegistryInv

-----------------------------------------------------------------------------
(* Locks that time out *)

(* A change left out because its lock timed out: the lists of the client   *)
(* may come apart, and those of the others do not notice.                  *)
LEMMA LeftOutStep ==
  ASSUME RegistryInv, NEW p \in Procs, NEW k \in SomeJob, SoundJob(k), job' = [job EXCEPT ![p] = k],
         NEW c \in Clients, ~Idle(p) => job[p].client = c, k # <<>> => k.client = c,
         uneven' = uneven \cup {c},
         UNCHANGED <<started, online, node, lists, saved, restarts>>
  PROVE  RegistryInv'
<1>1. JobsAreSound' /\ \A q \in Procs : Idle(q)' \/ job'[q] \in JobRecords
  BY InvFacts, JobStep
<1>2. RegistryTypeOK'
  BY <1>1, InvFacts DEF RegistryTypeOK, ListsTyped, lists
<1>3. SavedIsEven'
  BY SavedFrame
<1>4. (\A d \in Clients \ uneven : ClientIsSound(d))'
  <2> SUFFICES ASSUME NEW d \in Clients \ uneven' PROVE ClientIsSound(d)'
    OBVIOUS
  <2>1. ClientIsSound(d) /\ d \in Clients \ {c} /\ JobsAreSound
    BY InvFacts
  <2>2. \A v \in Vars : /\ Cardinality(PlacesOf(v, d))' = Cardinality(PlacesOf(v, d))
                        /\ node'[d].observing[v] = node[d].observing[v]
    BY PlacesAreEntries DEF lists
  <2> QED BY <2>1, <2>2, OtherClients
<1> QED BY <1>1, <1>2, <1>3, <1>4 DEF RegistryInv

LEMMA StopTimesOutStep ==
  ASSUME RegistryInv, NEW p \in Procs, NEW c \in Clients, NEW v \in Vars, StopTimesOut(p, c, v)
  PROVE  RegistryInv'
<1> DEFINE k == NewJob("stop", "init", c, v, NoMeta, online[c])
<1>1. k \in JobRecords
  BY InvFacts, NewJobs, RegistryAssumption DEF Kinds, Pcs
<1>2. SoundJob(k) /\ k.client = c /\ k \in SomeJob
  BY <1>1 DEF SoundJob, NewJob, SomeJob
<1>3. Idle(p) /\ job' = [job EXCEPT ![p] = k]
  BY DEF StopTimesOut, Begin
<1> HIDE DEF k
<1> QED BY <1>2, <1>3, LeftOutStep DEF StopTimesOut

LEMMA InitializeTimesOutStep ==
  ASSUME RegistryInv, NEW p \in Procs, TimesOut(p), At(p, "init")
  PROVE  RegistryInv'
<1> DEFINE j == job[p]
           k == [j EXCEPT !.pc = AfterInit[j.kind]]
<1>1. j # <<>> /\ j.pc = "init" /\ j \in JobRecords /\ SoundJob(j) /\ j.client \in Clients
  BY AtFacts
<1>2. job \in [Procs -> SomeJob] /\ node \in [Clients -> NodeRecords]
  BY InvFacts
<1>3. /\ k \in JobRecords /\ k \in SomeJob /\ SoundJob(k) /\ Quiet(j, k)
  BY <1>1, AfterInitIsQuiet
<1>4. ~At(p, "register") /\ ~At(p, "note") /\ ~At(p, "unregister") /\ ~At(p, "remove")
  BY <1>1 DEF At
<1>5. GoTo(p, AfterInit[job[p].kind])
  BY <1>4 DEF TimesOut, Skipped
<1>6. job' = [job EXCEPT ![p] = k]
  BY <1>1, <1>2, <1>5 DEF GoTo
<1> HIDE DEF k
<1> QED BY <1>2, <1>3, <1>6, HelperStep DEF TimesOut

(* The other critical sections of a goroutine. *)
LEMMA TimesOutStep ==
  ASSUME RegistryInv, NEW p \in Procs, TimesOut(p)
  PROVE  RegistryInv'
<1>1. CASE At(p, "init")
  BY <1>1, InitializeTimesOutStep
<1>2. CASE ~At(p, "init")
  <2>1. PICK j, c : j = job[p] /\ c = j.client
    OBVIOUS
  <2>2. /\ j # <<>> /\ ~Idle(p) /\ j \in JobRecords /\ SoundJob(j) /\ c \in Clients
        /\ j.pc \in {"register", "note", "unregister", "remove"}
    <3>1. PICK pc \in {"init", "register", "note", "unregister", "remove"} : At(p, pc)
      BY DEF TimesOut
    <3> QED BY <1>2, <2>1, <3>1, AtFacts
  <2>3. job \in [Procs -> SomeJob] /\ NoMeta \in Metas
    BY InvFacts, RegistryAssumption
  <2>4. uneven' = uneven \cup {c} /\ UNCHANGED <<started, online, node, lists, saved, restarts>>
    BY <1>2, <2>1 DEF TimesOut
  <2>5. \A pc : At(p, pc) <=> j.pc = pc
    BY <2>1, <2>2 DEF At
  <2>6. PICK k : /\ job' = [job EXCEPT ![p] = k]
                 /\ \/ k = <<>>
                    \/ k = [j EXCEPT !.pc = "note", !.meta = NoMeta] /\ j.pc = "register"
                    \/ k = [j EXCEPT !.pc = "send"] /\ j.pc = "note"
                    \/ k = [j EXCEPT !.pc = "purge"] /\ j.pc = "remove"
    <3>1. CASE j.pc = "register"
      <4>1. job' = [job EXCEPT ![p].pc = "note", ![p].meta = NoMeta]
        BY <2>5, <3>1 DEF TimesOut, Skipped
      <4>2. job' = [job EXCEPT ![p] = [j EXCEPT !.pc = "note", !.meta = NoMeta]]
        BY <2>1, <2>2, <2>3, <4>1
      <4> QED BY <3>1, <4>2
    <3>2. CASE j.pc = "note"
      <4>1. GoTo(p, "send")
        BY <2>5, <3>2 DEF TimesOut, Skipped
      <4>2. job' = [job EXCEPT ![p] = [j EXCEPT !.pc = "send"]]
        BY <2>1, <2>2, <2>3, <4>1 DEF GoTo
      <4> QED BY <3>2, <4>2
    <3>3. CASE j.pc = "unregister"
      <4>1. End(p)
        BY <2>5, <3>3 DEF TimesOut, Skipped
      <4> QED BY <4>1 DEF End
    <3>4. CASE j.pc = "remove"
      <4>1. End(p) \/ GoTo(p, "purge")
        BY <2>5, <3>4 DEF TimesOut, Skipped
      <4>2. CASE End(p)
        BY <4>2 DEF End
      <4>3. CASE GoTo(p, "purge")
        <5>1. job' = [job EXCEPT ![p] = [j EXCEPT !.pc = "purge"]]
          BY <2>1, <2>2, <2>3, <4>3 DEF GoTo
        <5> QED BY <3>4, <5>1
      <4> QED BY <4>1, <4>2, <4>3
    <3> QED BY <2>2, <3>1, <3>2, <3>3, <3>4
  <2>7. k # <<>> => /\ k \in JobRecords /\ k.client = c /\ k.kind = j.kind /\ k.var = j.var
                    /\ k.pc \in {"note", "send", "purge"}
                    /\ k.pc = "note" => j.pc = "register"
    BY <2>1, <2>2, <2>3, <2>6 DEF JobRecords, Pcs
  <2>8. k \in SomeJob /\ SoundJob(k)
    BY <2>2, <2>7 DEF SomeJob, SoundJob
  <2> QED BY <2>1, <2>2, <2>4, <2>6, <2>7, <2>8, LeftOutStep
<1> QED BY <1>1, <1>2

LEMMA PurgeTimesOutStep ==
  ASSUME RegistryInv, NEW p \in Procs, PurgeTimesOut(p)
  PROVE  RegistryInv'
<1>1. PICK j, c : j = job[p] /\ c = j.client
  OBVIOUS
<1>2. j # <<>> /\ ~Idle(p) /\ j.pc = "purge" /\ j \in JobRecords /\ SoundJob(j) /\ c \in Clients
  BY <1>1, AtFacts DEF PurgeTimesOut
<1>3. job \in [Procs -> SomeJob]
  BY InvFacts
<1>4. PICK v \in j.todo : job' = IF j.todo = {v} THEN [job EXCEPT ![p] = <<>>]
                                 ELSE [job EXCEPT ![p].todo = @ \ {v}]
  BY <1>1 DEF PurgeTimesOut
<1>5. PICK k : k = IF j.todo = {v} THEN <<>> ELSE [j EXCEPT !.todo = @ \ {v}]
  OBVIOUS
<1>6. job' = [job EXCEPT ![p] = k]
  BY <1>1, <1>2, <1>3, <1>4, <1>5
<1>7. k # <<>> => /\ k \in JobRecords /\ k.pc = "purge" /\ k.client = c
                  /\ k.kind = j.kind /\ k.var = j.var
  BY <1>1, <1>2, <1>5 DEF JobRecords
<1>8. k \in SomeJob /\ SoundJob(k)
  BY <1>2, <1>7 DEF SomeJob, SoundJob
<1>9. uneven' = uneven \cup {c} /\ UNCHANGED <<started, online, node, lists, saved, restarts>>
  BY <1>1 DEF PurgeTimesOut
<1> QED BY <1>1, <1>2, <1>6, <1>7, <1>8, <1>9, LeftOutStep

-----------------------------------------------------------------------------
(* The surroundings, and the theorems *)

(* The goroutines and the counts of both lists are what they were. *)
LEMMA StillStep ==
  ASSUME RegistryInv, UNCHANGED <<observers, job, uneven>>,
         \A c \in Clients, v \in Vars : node'[c].observing[v] = node[c].observing[v]
  PROVE  JobsAreSound' /\ (\A c \in Clients \ uneven : ClientIsSound(c))'
<1>1. JobsAreSound'
  BY InvFacts DEF JobsAreSound, SoundJob
<1>2. ASSUME NEW d \in Clients \ uneven PROVE ClientIsSound(d)'
  <2>1. ClientIsSound(d)
    BY InvFacts
  <2>2. \A v \in Vars : Cardinality(PlacesOf(v, d))' = Cardinality(PlacesOf(v, d))
    BY PlacesAreEntries
  <2>3. \A q \in Procs : Deletes(job[q], d, "remove") =>
           \A v \in Vars : v \notin job[q].todo => node[d].observing[v] = 0
    BY <2>1, JobSets DEF ClientIsSound
  <2> QED BY <2>1, <2>2, <2>3, ClientFrame
<1> QED BY <1>1, <1>2

LEMMA AgedNodes ==
  ASSUME NEW n \in [Clients -> NodeRecords]
  PROVE  /\ Aged(n) \in [Clients -> NodeRecords]
         /\ \A c \in Clients : Aged(n)[c].observing = n[c].observing
<1>1. ASSUME NEW c \in Clients
      PROVE  /\ [n[c] EXCEPT !.age = UpTo(@)] \in NodeRecords
             /\ [n[c] EXCEPT !.age = UpTo(@)].observing = n[c].observing
  <2>1. n[c] \in NodeRecords
    OBVIOUS
  <2>2. n[c].age \in 0..MaxWait
    BY <2>1 DEF NodeRecords
  <2>3. UpTo(n[c].age) \in 0..MaxWait
    BY <2>2, RegistryAssumption DEF UpTo
  <2> QED BY <2>1, <2>3 DEF NodeRecords
<1> QED BY <1>1 DEF Aged

LEMMA TickStep ==
  ASSUME RegistryInv, Tick
  PROVE  RegistryInv'
<1>1. node \in [Clients -> NodeRecords] /\ saved.node \in [Clients -> NodeRecords]
  BY InvFacts DEF ListsTyped
<1>2. node' = Aged(node) /\ UNCHANGED <<started, online, observers, indexed, job, uneven, restarts>>
  BY DEF Tick, lists
<1>3. /\ node' \in [Clients -> NodeRecords]
      /\ \A c \in Clients : node'[c].observing = node[c].observing
  BY <1>1, <1>2, AgedNodes
<1>4. /\ saved'.node = Aged(saved.node) /\ saved'.observers = saved.observers
      /\ saved'.indexed = saved.indexed /\ saved'.uneven = saved.uneven
      /\ saved' = [node |-> saved'.node, observers |-> saved'.observers,
                   indexed |-> saved'.indexed, uneven |-> saved'.uneven]
  <2>1. PICK n, o, x, u : saved = [node |-> n, observers |-> o, indexed |-> x, uneven |-> u]
    BY DEF RegistryInv, SavedIsEven
  <2>2. saved' = [node |-> Aged(n), observers |-> o, indexed |-> x, uneven |-> u]
    BY <2>1 DEF Tick
  <2> QED BY <2>1, <2>2
<1>5. /\ saved'.node \in [Clients -> NodeRecords]
      /\ \A c \in Clients : saved'.node[c].observing = saved.node[c].observing
  BY <1>1, <1>4, AgedNodes
<1>6. RegistryTypeOK'
  <2>1. ListsTyped(node, observers, indexed, uneven)'
    BY <1>2, <1>3, InvFacts DEF ListsTyped
  <2>2. ListsTyped(saved.node, saved.observers, saved.indexed, saved.uneven)'
    BY <1>4, <1>5, InvFacts DEF ListsTyped
  <2> QED BY <1>2, <2>1, <2>2, InvFacts DEF RegistryTypeOK, Idle
<1>7. SavedIsEven'
  <2>1. \A c \in Clients \ saved.uneven, v \in Vars :
           Cardinality(EntriesOf(saved.observers[v], c)) = saved.node[c].observing[v]
    BY DEF RegistryInv, SavedIsEven
  <2>2. \A c \in Clients \ saved'.uneven, v \in Vars :
           Cardinality(EntriesOf(saved'.observers[v], c)) = saved'.node[c].observing[v]
    BY <1>4, <1>5, <2>1
  <2> QED BY <1>4, <2>2 DEF SavedIsEven, EntriesOf
<1>8. JobsAreSound' /\ (\A c \in Clients \ uneven : ClientIsSound(c))'
  BY <1>2, <1>3, StillStep
<1> QED BY <1>6, <1>7, <1>8 DEF RegistryInv

(* The lists of a client with no change half done are the same.            *)
LEMMA WholeClients ==
  ASSUME RegistryInv, NEW c \in Clients \ (uneven \cup HalfDone), NEW v \in Vars
  PROVE  Cardinality(EntriesOf(observers[v], c)) = node[c].observing[v]
<1>1. \A q \in Procs : ~Notes(job[q], c, v) /\ ~Stops(job[q], c, v) /\ ~Purges(job[q], c, v)
  BY DEF HalfDone, Idle, Notes, Stops, Purges
<1>2. Noting(c, v) = {} /\ Stopping(c, v) = {} /\ ~Purging(c, v)
  BY <1>1, JobSets
<1>3. ClientIsSound(c) /\ node[c] \in NodeRecords
  BY InvFacts
<1>4. Agrees(c, v) /\ node[c].observing[v] \in Nat
  BY <1>3 DEF ClientIsSound, NodeRecords
<1>5. Cardinality(Noting(c, v)) = 0 /\ Cardinality(Stopping(c, v)) = 0
  BY <1>2, FS_EmptySet
<1>6. Cardinality(PlacesOf(v, c)) = node[c].observing[v]
  BY <1>2, <1>4, <1>5 DEF Agrees
<1> QED BY <1>6, PlacesAreEntries

LEMMA DumpStep ==
  ASSUME RegistryInv, Dump
  PROVE  RegistryInv'
<1>1. UNCHANGED <<started, online, node, observers, indexed, job, uneven, restarts>>
  BY DEF Dump, lists
<1>2. /\ saved'.node = node /\ saved'.observers = observers /\ saved'.indexed = indexed
      /\ saved'.uneven = uneven \cup HalfDone
      /\ saved' = [node |-> saved'.node, observers |-> saved'.observers,
                   indexed |-> saved'.indexed, uneven |-> saved'.uneven]
  BY DEF Dump
<1>3. RegistryTypeOK'
  <2>1. ListsTyped(node, observers, indexed, uneven)'
    BY <1>1, InvFacts DEF ListsTyped
  <2>2. ListsTyped(saved.node, saved.observers, saved.indexed, saved.uneven)'
    BY <1>1, <1>2, InvFacts DEF ListsTyped, HalfDone
  <2> QED BY <1>1, <2>1, <2>2, InvFacts DEF RegistryTypeOK, Idle
<1>4. SavedIsEven'
  <2>1. \A c \in Clients \ saved'.uneven, v \in Vars :
           Cardinality(EntriesOf(saved'.observers[v], c)) = saved'.node[c].observing[v]
    BY <1>2, WholeClients
  <2> QED BY <1>2, <2>1 DEF SavedIsEven, EntriesOf
<1>5. JobsAreSound' /\ (\A c \in Clients \ uneven : ClientIsSound(c))'
  BY <1>1, StillStep
<1> QED BY <1>3, <1>4, <1>5 DEF RegistryInv

(* No goroutine, and lists that agree. *)
LEMMA QuietServer ==
  ASSUME NEW c \in Clients, \A q \in Procs : job'[q] = <<>>,
         \A v \in Vars : /\ node'[c].observing[v] \in Nat
                         /\ Cardinality(EntriesOf(observers'[v], c)) = node'[c].observing[v]
  PROVE  ClientIsSound(c)'
<1>1. \A q \in Procs : \A v : ~Notes(job'[q], c, v) /\ ~Stops(job'[q], c, v)
  BY DEF Notes, Stops
<1>2. \A q \in Procs : ~Deletes(job'[q], c, "remove") /\ ~Deletes(job'[q], c, "purge")
  BY DEF Deletes
<1>3. \A v : Noting(c, v)' = {} /\ Stopping(c, v)' = {}
  BY <1>1, JobSetsPrimed
<1>4. Jobs(c, {"remove"})' = {} /\ Jobs(c, {"purge"})' = {}
  BY <1>2, JobSetsPrimed
<1>5. \A v : Cardinality(Noting(c, v))' = 0 /\ Cardinality(Stopping(c, v))' = 0
  BY <1>3, FS_EmptySet
<1>6. \A v \in Vars : Agrees(c, v)'
  BY <1>5, PlacesAreEntries DEF Agrees
<1> QED BY <1>4, <1>6 DEF ClientIsSound

(* A restart ends every call and takes the lists of the dump. *)
LEMMA RestartStep ==
  ASSUME RegistryInv, Restart
  PROVE  RegistryInv'
<1>1. /\ \A q \in Procs : job'[q] = <<>>
      /\ node' = saved.node /\ observers' = saved.observers /\ indexed' = saved.indexed
      /\ uneven' = saved.uneven /\ saved' = saved
  BY DEF Restart
<1>2. job' \in [Procs -> SomeJob]
  BY DEF Restart, SomeJob
<1>3. JobsAreSound' /\ \A q \in Procs : Idle(q)' \/ job'[q] \in JobRecords
  BY <1>1, <1>2 DEF JobsAreSound, SomeJob, Idle, SoundJob
<1>4. RegistryTypeOK'
  <2>1. restarts' \in 0..MaxRestarts
    BY RegistryAssumption, InvFacts DEF Restart, RegistryTypeOK
  <2>2. started' \subseteq Apis /\ online' \in [Clients -> Apis \cup {NoApi}]
    BY DEF Restart
  <2>3. ListsTyped(node, observers, indexed, uneven)'
    BY <1>1, InvFacts DEF ListsTyped
  <2>4. ListsTyped(saved.node, saved.observers, saved.indexed, saved.uneven)'
    BY <1>1, InvFacts DEF ListsTyped
  <2> QED BY <1>3, <2>1, <2>2, <2>3, <2>4 DEF RegistryTypeOK
<1>5. SavedIsEven'
  BY <1>1, SavedFrame
<1>6. ASSUME NEW d \in Clients \ uneven' PROVE ClientIsSound(d)'
  <2>1. saved.node[d] \in NodeRecords
    BY InvFacts DEF ListsTyped
  <2>2. \A v \in Vars : saved.node[d].observing[v] \in Nat
    BY <2>1 DEF NodeRecords
  <2>3. \A v \in Vars : Cardinality(EntriesOf(saved.observers[v], d)) = saved.node[d].observing[v]
    BY <1>1 DEF RegistryInv, SavedIsEven
  <2> QED BY <1>1, <2>2, <2>3, QuietServer
<1> QED BY <1>3, <1>4, <1>5, <1>6 DEF RegistryInv

LEMMA ConnectionStep ==
  ASSUME RegistryInv,
         \/ \E a \in Apis : ApiStarted(a)
         \/ \E c \in Clients : GoesOffline(c) \/ \E a \in Apis : GoesOnline(c, a)
  PROVE  RegistryInv'
<1>1. UNCHANGED <<node, observers, indexed, job, saved, uneven, restarts>>
  BY DEF ApiStarted, GoesOffline, GoesOnline, lists
<1>2. started' \subseteq Apis /\ online' \in [Clients -> Apis \cup {NoApi}]
  BY InvFacts DEF RegistryTypeOK, ApiStarted, GoesOffline, GoesOnline
<1>3. RegistryTypeOK'
  BY <1>1, <1>2, InvFacts DEF RegistryTypeOK, ListsTyped, Idle
<1>4. JobsAreSound' /\ (\A c \in Clients \ uneven : ClientIsSound(c))'
  BY <1>1, StillStep
<1>5. SavedIsEven'
  BY <1>1, SavedFrame
<1> QED BY <1>3, <1>4, <1>5 DEF RegistryInv

LEMMA RegistryInitial ==
  ASSUME RegistryInit
  PROVE  RegistryInv
<1>1. /\ job \in [Procs -> SomeJob] /\ \A q \in Procs : job[q] = <<>>
      /\ node = [c \in Clients |-> NoNode]
  BY DEF RegistryInit, SomeJob
<1>2. NoNode \in NodeRecords /\ \A v \in Vars : NoNode.observing[v] = 0
  BY RegistryAssumption DEF NoNode, NoVars, NodeRecords
<1>3. node \in [Clients -> NodeRecords]
  BY <1>1, <1>2
<1>4. RegistryTypeOK
  <2>1. <<>> \in Seq(Entries)
    OBVIOUS
  <2>2. 0 \in 0..MaxRestarts
    BY RegistryAssumption
  <2>3. ListsTyped(node, observers, indexed, uneven)
    BY <1>3, <2>1 DEF RegistryInit, ListsTyped
  <2>4. ListsTyped(saved.node, saved.observers, saved.indexed, saved.uneven)
    <3>1. saved.node = node /\ saved.observers = observers /\ saved.indexed = indexed /\ saved.uneven = uneven
      BY DEF RegistryInit, NoDump
    <3> QED BY <2>3, <3>1
  <2> QED BY <1>1, <2>2, <2>3, <2>4 DEF RegistryInit, RegistryTypeOK, Idle
<1>5. JobsAreSound
  BY <1>1 DEF JobsAreSound, SomeJob, SoundJob
<1>6. SavedIsEven
  <2>1. /\ saved.node = node /\ saved.observers = [v \in Vars |-> <<>>]
        /\ saved = [node |-> saved.node, observers |-> saved.observers,
                    indexed |-> saved.indexed, uneven |-> saved.uneven]
    BY DEF RegistryInit, NoDump
  <2>2. \A c \in Clients, v \in Vars : EntriesOf(saved.observers[v], c) = {}
    BY <2>1 DEF EntriesOf
  <2>3. \A c \in Clients, v \in Vars : Cardinality(EntriesOf(saved.observers[v], c)) = 0
    BY <2>2, FS_EmptySet
  <2> QED BY <1>1, <1>2, <2>1, <2>3 DEF SavedIsEven
<1>7. ASSUME NEW c \in Clients PROVE ClientIsSound(c)
  <2>1. \A q \in Procs : \A v : ~Notes(job[q], c, v) /\ ~Stops(job[q], c, v)
    BY <1>1 DEF Notes, Stops
  <2>2. \A q \in Procs : ~Deletes(job[q], c, "remove") /\ ~Deletes(job[q], c, "purge")
    BY <1>1 DEF Deletes
  <2>3. \A v : Noting(c, v) = {} /\ Stopping(c, v) = {}
    BY <2>1, JobSets
  <2>4. Jobs(c, {"remove"}) = {} /\ Jobs(c, {"purge"}) = {}
    BY <2>2, JobSets
  <2>5. \A v \in Vars : PlacesOf(v, c) = {}
    BY DEF RegistryInit, PlacesOf
  <2>6. \A v \in Vars : node[c].observing[v] = 0
    BY <1>1, <1>2
  <2>7. \A v \in Vars : Agrees(c, v)
    BY <2>3, <2>5, <2>6, FS_EmptySet DEF Agrees
  <2> QED BY <2>4, <2>7 DEF ClientIsSound
<1> QED BY <1>4, <1>5, <1>6, <1>7 DEF RegistryInv

LEMMA RegistryStep ==
  ASSUME RegistryInv, [RegistryNext]_vars
  PROVE  RegistryInv'
<1>1. CASE UNCHANGED vars
  <2>1. UNCHANGED <<started, online, node, observers, indexed, job, saved, uneven, restarts>>
    BY <1>1 DEF vars, lists
  <2>2. RegistryTypeOK'
    BY <2>1, InvFacts DEF RegistryTypeOK, ListsTyped, Idle
  <2>3. SavedIsEven'
    BY <2>1, SavedFrame
  <2>4. JobsAreSound' /\ (\A c \in Clients \ uneven : ClientIsSound(c))'
    BY <2>1, StillStep
  <2> QED BY <2>2, <2>3, <2>4 DEF RegistryInv
<1>2. ASSUME NEW p \in Procs, Calls(p) PROVE RegistryInv'
  <2>1. CASE \E c \in Clients, v \in Vars, m \in Metas : ObserveVar(p, c, v, m)
    BY <2>1, StartStep
  <2>2. CASE \E c \in Clients, v \in Vars, m \in Metas : StopObservingVar(p, c, v, m)
    BY <2>2, StopStep
  <2>3. CASE \E c \in Clients : ClientConnected(p, c)
    BY <2>3, ConnectStep
  <2>4. CASE \E c \in Clients, v \in Vars : StopTimesOut(p, c, v)
    BY <2>4, StopTimesOutStep
  <2> QED BY <1>2, <2>1, <2>2, <2>3, <2>4 DEF Calls
<1>3. ASSUME NEW p \in Procs, NEW v \in Vars, NotifyVar(p, v) PROVE RegistryInv'
  BY <1>3, NotifyStep
<1>4. ASSUME NEW p \in Procs, Steps(p) PROVE RegistryInv'
  BY <1>4, LookUpStep, InitializeStep, RegisterStep, NoteStep, UnregisterStep, ResumeStep,
     SendsStep, SendFailsStep, CheckStep, CollectStep, RemoveStep, PurgeStep,
     TimesOutStep, PurgeTimesOutStep DEF Steps
<1>5. ASSUME Surroundings PROVE RegistryInv'
  BY <1>5, ConnectionStep, TickStep, DumpStep, RestartStep DEF Surroundings
<1> QED BY <1>1, <1>2, <1>3, <1>4, <1>5 DEF RegistryNext

LEMMA RegistryInvariant == RegistrySpec => []RegistryInv
<1>1. RegistryInit => RegistryInv
  BY RegistryInitial
<1>2. RegistryInv /\ [RegistryNext]_vars => RegistryInv'
  BY RegistryStep
<1> QED BY <1>1, <1>2, PTL DEF RegistrySpec

(* Types and, for every client whose calls no time-out of a lock, no       *)
(* deletion of it, no early stop and no dump that a restart came back to   *)
(* cut across: what the variables list of the client and what the client   *)
(* lists of the variables differ exactly by the calls of ObserveVar and    *)
(* StopObservingVar in progress, unless deleteClient is about to remove    *)
(* the rest.  Restarts with a dump of any age included.                    *)
THEOREM RegistryListsAgree == RegistrySpec => []ListsAgree
<1>1. RegistryInv => ListsAgree
  BY DEF RegistryInv, ListsAgree, ClientIsSound, Agrees
<1> QED BY <1>1, RegistryInvariant, PTL

=============================================================================
