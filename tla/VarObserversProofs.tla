------------------------- MODULE VarObserversProofs -------------------------
(***************************************************************************)
(* Proofs about controller/controller_varhelper.go, observations: for any  *)
(* number of goroutines, clients, metadata texts and observations, the     *)
(* single storage writes of each critical section amount to one operation  *)
(* of ObserverList, and no reader without the lock is misled about the     *)
(* observations of a client that the lock holder is not working on.        *)
(*                                                                         *)
(* The argument: "stable" is the storage when the current operation began. *)
(* The inductive invariant says, for each operation, how far it is: which  *)
(* writes are left, and what the storage is after those done, both in      *)
(* terms of stable.                                                        *)
(***************************************************************************)
EXTENDS VarObservers, FiniteSetTheorems, SequenceTheorems, WellFoundedInduction, TLAPS

Entry(c, m) == [client |-> c, meta |-> m]

OldCount == stable[1]
OldSlot == stable[2]
OldIndex == stable[3]

-----------------------------------------------------------------------------
(* The inductive invariant *)

(* The storage when the operation began: no hole, and every index leads to *)
(* its entry.                                                              *)
SoundList(n, s, x) ==
    /\ n \in 0..MaxObs
    /\ s \in [Places -> [client : AnyClient, meta : Metas]]
    /\ x \in [AnyClient -> [Metas -> Places \cup {NoIndex}]]
    /\ \A i \in Places : (s[i].client # NoClient) <=> (i < n)
    /\ \A c \in Clients, m \in Metas : x[c][m] # NoIndex => x[c][m] < n /\ s[x[c][m]] = Entry(c, m)

(* RegisterObservation of (c, m) after n of its four writes. *)
RegisterTodo(c, m, n) ==
    [k \in 1..(4 - n) |->
        <<SetClient(OldCount, c), SetMeta(OldCount, m), SetIndex(c, m, OldCount),
          SetCount(OldCount + 1)>>[n + k]]

RegisterDb(c, m, n) ==
    /\ count = IF n < 4 THEN OldCount ELSE OldCount + 1
    /\ \A a \in Places \ {OldCount} : slot[a] = OldSlot[a]
    /\ n >= 1 => slot[OldCount].client = c
    /\ n >= 2 => slot[OldCount].meta = m
    /\ index = IF n < 3 THEN OldIndex ELSE [OldIndex EXCEPT ![c][m] = OldCount]

(* The writes of the removal of client c's entry at place i, from turn j   *)
(* of the shifting loop, write r, on.                                      *)
ShiftWrite(i, n) ==
    LET j == i + ((n - 1) \div 3)
    IN  <<SetClient(j, OldSlot[j + 1].client), SetMeta(j, OldSlot[j + 1].meta),
          SetIndex(OldSlot[j + 1].client, OldSlot[j + 1].meta, j)>>[((n - 1) % 3) + 1]

LastWrites(c) == <<DelSlot(OldCount - 1), SetCount(OldCount - 1), DelClient(c)>>

LastTodo(c, k) == [x \in 1..(3 - k) |-> LastWrites(c)[k + x]]

RemovalWrite(c, i, n) ==
    LET shifts == 3 * (OldCount - 1 - i)
    IN  IF n <= shifts THEN ShiftWrite(i, n) ELSE LastWrites(c)[n - shifts]

RemovalTodo(c, i, n) ==
    [k \in 1..(3 * (OldCount - 1 - i) + 3 - n) |-> RemovalWrite(c, i, n + k)]

(* The entries behind place i up to place j have moved left by one, and    *)
(* the index of (d, m) followed the last of them that is (d, m).           *)
Followed(i, j, d, m) ==
    \/ \E a \in i..(j - 1) : OldSlot[a + 1] = Entry(d, m) /\ index[d][m] = a
    \/ /\ index[d][m] = OldIndex[d][m]
       /\ \A a \in i..(j - 1) : OldSlot[a + 1] # Entry(d, m)

(* The shifting loop has done its turns i..j-1 and r writes of turn j. *)
ShiftingDb(i, j, r) ==
    /\ count = OldCount
    /\ \A a \in Places :
          /\ a < i \/ a > j => slot[a] = OldSlot[a]
          /\ a \in i..(j - 1) => slot[a] = OldSlot[a + 1]
    /\ slot[j] = Entry(OldSlot[IF r = 0 THEN j ELSE j + 1].client,
                       OldSlot[IF r = 2 THEN j + 1 ELSE j].meta)
    /\ \A d \in AnyClient, m \in Metas : Followed(i, j, d, m)

(* The loop is over and k of the last three writes are done. *)
RemovedDb(c, i, k) ==
    /\ count = IF k = 1 THEN OldCount ELSE OldCount - 1
    /\ \A a \in Places :
          /\ a < i \/ a >= OldCount => slot[a] = OldSlot[a]
          /\ a \in i..(OldCount - 2) => slot[a] = OldSlot[a + 1]
    /\ slot[OldCount - 1] = NoSlot
    /\ \A d \in AnyClient, m \in Metas : (k = 3 /\ d = c) \/ Followed(i, OldCount - 1, d, m)
    /\ k = 3 => index[c] = NoIndexes

Shifting(c) ==
    \E i \in 0..(OldCount - 1) : \E j \in i..(OldCount - 1) : \E r \in 0..2 :
        /\ OldSlot[i].client = c
        /\ j = OldCount - 1 => r = 0
        /\ todo = RemovalTodo(c, i, 3 * (j - i) + r)
        /\ ShiftingDb(i, j, r)

Removing(c) ==
    \E i \in 0..(OldCount - 1), k \in 1..3 :
        /\ OldSlot[i].client = c
        /\ todo = LastTodo(c, k)
        /\ RemovedDb(c, i, k)

Registering(c, m) ==
    \E n \in 0..4 :
        /\ OldCount < MaxObs
        /\ todo = RegisterTodo(c, m, n)
        /\ RegisterDb(c, m, n)

Clearing ==
    \/ todo = ClearWrites /\ db = stable
    \/ /\ todo \in {<<SetCount(0)>>, <<>>}
       /\ count = 0
       /\ slot = [i \in Places |-> NoSlot]
       /\ index = [c \in AnyClient |-> NoIndexes]

Untouched == todo = <<>> /\ db = stable

(* How far the lock holder is. *)
Progress ==
    \/ Untouched
    \/ op[holder].kind = "register" /\ Registering(op[holder].client, op[holder].meta)
    \/ op[holder].kind \in {"remove", "removeAll"} /\ Shifting(op[holder].client)
    \/ op[holder].kind \in {"remove", "removeAll"} /\ Removing(op[holder].client)
    \/ op[holder].kind = "clear" /\ Clearing

(* Goroutines past the test of ObserveVar that have not made their entry.  *)
Registrants == {q \in Procs : op[q].kind = "register"}

Room ==
    IF holder # Free /\ op[holder].kind = "register" /\ todo = <<>>
    THEN count + Cardinality(Registrants) <= MaxObs + 1
    ELSE count + Cardinality(Registrants) <= MaxObs

ObserversInv ==
    /\ ObserversTypeOK
    /\ Len(stable) = 3
    /\ SoundList(OldCount, OldSlot, OldIndex)
    /\ \A p \in Procs : op[p].kind \in {"register", "removeAll"} => op[p].client \in Clients
    /\ \A p \in Procs : op[p].kind = "idle" => op[p] = Idle
    /\ holder # Free => op[holder].kind # "idle"
    /\ holder = Free => Untouched
    /\ holder # Free => Progress
    /\ Room

-----------------------------------------------------------------------------
(* What one storage write does *)

(* The places are natural numbers below MaxObs. *)
LEMMA PlacesAreNats ==
  /\ MaxObs \in Nat
  /\ \A i : i \in Places <=> i \in Nat /\ i < MaxObs
  /\ NoIndex \notin Nat
  BY VarObserversAssumption DEF Places, NoIndex

LEMMA ApplySetClient ==
  ASSUME NEW i, NEW c, Apply(SetClient(i, c))
  PROVE  count' = count /\ index' = index /\ slot' = [slot EXCEPT ![i].client = c]
  BY DEF Apply, SetClient

LEMMA ApplySetMeta ==
  ASSUME NEW i, NEW m, Apply(SetMeta(i, m))
  PROVE  count' = count /\ index' = index /\ slot' = [slot EXCEPT ![i].meta = m]
  BY DEF Apply, SetMeta

LEMMA ApplySetIndex ==
  ASSUME NEW c, NEW m, NEW i, Apply(SetIndex(c, m, i))
  PROVE  count' = count /\ slot' = slot /\ index' = [index EXCEPT ![c][m] = i]
  BY DEF Apply, SetIndex

LEMMA ApplySetCount ==
  ASSUME NEW n, Apply(SetCount(n))
  PROVE  count' = n /\ slot' = slot /\ index' = index
  BY DEF Apply, SetCount

LEMMA ApplyDelSlot ==
  ASSUME NEW i, Apply(DelSlot(i))
  PROVE  count' = count /\ index' = index /\ slot' = [slot EXCEPT ![i] = NoSlot]
  BY DEF Apply, DelSlot

LEMMA ApplyDelClient ==
  ASSUME NEW c, Apply(DelClient(c))
  PROVE  count' = count /\ slot' = slot /\ index' = [index EXCEPT ![c] = NoIndexes]
  BY DEF Apply, DelClient

LEMMA ApplyDelAll ==
  ASSUME Apply(DelAll)
  PROVE  /\ count' = 0
         /\ slot' = [i \in Places |-> NoSlot]
         /\ index' = [c \in AnyClient |-> NoIndexes]
  BY DEF Apply, DelAll

(* The types of the storage alone. *)
DbTypeOK ==
    /\ count \in 0..MaxObs
    /\ slot \in [Places -> [client : AnyClient, meta : Metas]]
    /\ index \in [AnyClient -> [Metas -> Places \cup {NoIndex}]]

(* A nonempty set of places has a last one, which the downward loop finds. *)
LEMMA LastPlaceIsAPlace ==
  ASSUME count \in Nat, NEW c, NEW m, PlacesOf(c, m) # {}
  PROVE  LastPlace(c, m) \in PlacesOf(c, m)
<1> DEFINE T == {count - i : i \in PlacesOf(c, m)}
           R == OpToRel(<, Nat)
<1>1. T \subseteq Nat /\ T # {}
  BY DEF PlacesOf
<1>2. PICK x \in T : \A y \in T : ~ (<<y, x>> \in R)
  <2>1. IsWellFoundedOn(R, Nat)
    BY NatLessThanWellFounded
  <2> HIDE DEF T, R
  <2> QED BY <1>1, <2>1, WFMin
<1>3. PICK i \in PlacesOf(c, m) : x = count - i
  BY <1>2
<1>4. \A j \in PlacesOf(c, m) : j <= i
  <2> TAKE j \in PlacesOf(c, m)
  <2>1. count - j \in T /\ x \in Nat /\ count - j \in Nat
    BY <1>1
  <2>2. ~ (count - j < x)
    BY <1>2, <2>1 DEF OpToRel
  <2> QED BY <1>3, <2>1, <2>2 DEF PlacesOf
<1> QED BY <1>4 DEF LastPlace

-----------------------------------------------------------------------------
(* RegisterObservation *)

(* Each of its writes brings it one write further. *)
LEMMA RegisterWriteStep ==
  ASSUME DbTypeOK, SoundList(OldCount, OldSlot, OldIndex),
         NEW c \in Clients, NEW m \in Metas, Registering(c, m),
         todo # <<>>, Apply(Head(todo)), todo' = Tail(todo), stable' = stable
  PROVE  Registering(c, m)' /\ DbTypeOK' /\ (todo' = <<>> => count' = count + 1)
                            /\ (todo' # <<>> => count' = count)
<1>1. PICK n \in 0..4 : /\ OldCount < MaxObs
                        /\ todo = RegisterTodo(c, m, n)
                        /\ RegisterDb(c, m, n)
  BY DEF Registering
<1>2. OldCount \in Nat /\ OldCount \in Places /\ c \in AnyClient
  BY <1>1, PlacesAreNats DEF SoundList, AnyClient
<1> DEFINE W == <<SetClient(OldCount, c), SetMeta(OldCount, m), SetIndex(c, m, OldCount),
                  SetCount(OldCount + 1)>>
<1>3. n < 4
  BY <1>1 DEF RegisterTodo
<1>4. Head(todo) = W[n + 1]
  BY <1>1, <1>3 DEF RegisterTodo
<1>5. todo' = RegisterTodo(c, m, n + 1)
  BY <1>1, <1>3 DEF RegisterTodo
<1>6. UNCHANGED <<OldCount, OldSlot, OldIndex>>
  BY DEF OldCount, OldSlot, OldIndex
<1>7. RegisterDb(c, m, n + 1)' /\ DbTypeOK'
  <2>1. CASE n = 0
    <3>1. count' = count /\ index' = index /\ slot' = [slot EXCEPT ![OldCount].client = c]
      BY <1>4, <2>1, ApplySetClient
    <3> QED BY <1>1, <1>2, <1>6, <2>1, <3>1 DEF RegisterDb, DbTypeOK
  <2>2. CASE n = 1
    <3>1. count' = count /\ index' = index /\ slot' = [slot EXCEPT ![OldCount].meta = m]
      BY <1>4, <2>2, ApplySetMeta
    <3> QED BY <1>1, <1>2, <1>6, <2>2, <3>1 DEF RegisterDb, DbTypeOK
  <2>3. CASE n = 2
    <3>1. count' = count /\ slot' = slot /\ index' = [index EXCEPT ![c][m] = OldCount]
      BY <1>4, <2>3, ApplySetIndex
    <3> QED BY <1>1, <1>2, <1>6, <2>3, <3>1 DEF RegisterDb, DbTypeOK
  <2>4. CASE n = 3
    <3>1. count' = OldCount + 1 /\ slot' = slot /\ index' = index
      BY <1>4, <2>4, ApplySetCount
    <3> QED BY <1>1, <1>2, <1>6, <2>4, <3>1, PlacesAreNats DEF RegisterDb, DbTypeOK
  <2> QED BY <1>3, <2>1, <2>2, <2>3, <2>4
<1>8. todo' = <<>> <=> n = 3
  BY <1>3, <1>5 DEF RegisterTodo
<1>9. (todo' = <<>> => count' = count + 1) /\ (todo' # <<>> => count' = count)
  BY <1>1, <1>2, <1>3, <1>6, <1>7, <1>8 DEF RegisterDb
<1>10. Registering(c, m)'
  <2>1. todo' = RegisterTodo(c, m, n + 1)'
    BY <1>5, <1>6 DEF RegisterTodo
  <2>2. n + 1 \in 0..4 /\ OldCount' < MaxObs
    BY <1>1, <1>3, <1>6
  <2> QED BY <1>7, <2>1, <2>2 DEF Registering
<1> QED BY <1>7, <1>9, <1>10

-----------------------------------------------------------------------------
(* internalRemoveObserving *)

(* The write of turn j, number r + 1, of a removal at place i. *)
LEMMA TurnWrite ==
  ASSUME NEW c, OldCount \in Nat, NEW i \in 0..(OldCount - 1), NEW j \in i..(OldCount - 2),
         NEW r \in 0..2
  PROVE  RemovalWrite(c, i, 3 * (j - i) + r + 1) =
            IF r = 0 THEN SetClient(j, OldSlot[j + 1].client)
            ELSE IF r = 1 THEN SetMeta(j, OldSlot[j + 1].meta)
            ELSE SetIndex(OldSlot[j + 1].client, OldSlot[j + 1].meta, j)
<1> DEFINE n == 3 * (j - i) + r + 1
<1>1. n \in Nat /\ n <= 3 * (OldCount - 1 - i)
  OBVIOUS
<1>2. i + ((n - 1) \div 3) = j /\ (n - 1) % 3 = r
  OBVIOUS
<1>3. RemovalWrite(c, i, n) = ShiftWrite(i, n)
  BY <1>1 DEF RemovalWrite
<1> HIDE DEF n
<1>4. ShiftWrite(i, n) = <<SetClient(j, OldSlot[j + 1].client), SetMeta(j, OldSlot[j + 1].meta),
                           SetIndex(OldSlot[j + 1].client, OldSlot[j + 1].meta, j)>>[r + 1]
  BY <1>2 DEF ShiftWrite
<1> QED BY <1>3, <1>4 DEF n

(* One write done is one write less to do. *)
LEMMA RemovalTodoTail ==
  ASSUME NEW c, OldCount \in Nat, NEW i \in 0..(OldCount - 1), NEW n \in Nat,
         n + 1 <= 3 * (OldCount - 1 - i) + 3
  PROVE  Tail(RemovalTodo(c, i, n)) = RemovalTodo(c, i, n + 1)
<1> DEFINE L == 3 * (OldCount - 1 - i) + 3
           R == RemovalTodo(c, i, n)
           Q == RemovalTodo(c, i, n + 1)
<1>1. L \in Nat /\ L - n \in Nat /\ L - n >= 1
  OBVIOUS
<1>2. R = [k \in 1..(L - n) |-> RemovalWrite(c, i, n + k)]
  BY DEF RemovalTodo
<1>3. Q = [k \in 1..(L - (n + 1)) |-> RemovalWrite(c, i, (n + 1) + k)]
  BY DEF RemovalTodo
<1> HIDE DEF L, R, Q
<1>4. Tail(R) = [k \in 1..((L - n) - 1) |-> R[k + 1]]
  BY <1>1, <1>2
<1>5. (L - n) - 1 = L - (n + 1)
  BY <1>1
<1>6. ASSUME NEW k \in 1..(L - (n + 1)) PROVE R[k + 1] = Q[k]
  <2>1. k + 1 \in 1..(L - n) /\ n + (k + 1) = (n + 1) + k
    BY <1>1
  <2> QED BY <1>2, <1>3, <2>1
<1>7. Tail(R) = [k \in 1..(L - (n + 1)) |-> R[k + 1]]
  BY <1>4, <1>5
<1>8. Q = [k \in 1..(L - (n + 1)) |-> Q[k]]
  BY <1>3
<1> QED BY <1>6, <1>7, <1>8 DEF R, Q

(* Each write of the shifting loop brings it one write further, and the    *)
(* write after the loop deletes the last list node.                        *)
LEMMA ShiftingWriteStep ==
  ASSUME DbTypeOK, SoundList(OldCount, OldSlot, OldIndex),
         NEW c \in AnyClient, Shifting(c),
         todo # <<>>, Apply(Head(todo)), todo' = Tail(todo), stable' = stable
  PROVE  (Shifting(c)' \/ Removing(c)') /\ DbTypeOK' /\ count' = count
<1>1. PICK i \in 0..(OldCount - 1) : \E j \in i..(OldCount - 1) : \E r \in 0..2 :
        /\ OldSlot[i].client = c
        /\ j = OldCount - 1 => r = 0
        /\ todo = RemovalTodo(c, i, 3 * (j - i) + r)
        /\ ShiftingDb(i, j, r)
  BY DEF Shifting
<1>2. PICK j \in i..(OldCount - 1), r \in 0..2 :
        /\ OldSlot[i].client = c
        /\ j = OldCount - 1 => r = 0
        /\ todo = RemovalTodo(c, i, 3 * (j - i) + r)
        /\ ShiftingDb(i, j, r)
  BY <1>1
<1>3. /\ OldCount \in 0..MaxObs
      /\ i \in Places /\ j \in Places /\ OldCount - 1 \in Places
      /\ OldSlot \in [Places -> [client : AnyClient, meta : Metas]]
  <2>1. /\ OldCount \in 0..MaxObs
        /\ OldSlot \in [Places -> [client : AnyClient, meta : Metas]]
    BY DEF SoundList
  <2>2. OldCount \in Nat /\ MaxObs \in Nat /\ i \in Nat /\ j \in Nat
    BY <2>1, PlacesAreNats
  <2> QED BY <2>1, <2>2 DEF Places
<1> DEFINE n == 3 * (j - i) + r
<1>4. n \in Nat /\ n <= 3 * (OldCount - 1 - i)
  BY <1>2, <1>3
<1>5. Head(todo) = RemovalWrite(c, i, n + 1)
  <2> HIDE DEF n
  <2> QED BY <1>2, <1>3, <1>4 DEF RemovalTodo, n
<1>6. todo' = RemovalTodo(c, i, n + 1)
  <2>1. n + 1 <= 3 * (OldCount - 1 - i) + 3
    BY <1>3, <1>4
  <2> HIDE DEF n
  <2>2. todo = RemovalTodo(c, i, n)
    BY <1>2 DEF n
  <2>3. OldCount \in Nat /\ n \in Nat
    BY <1>3, <1>4, VarObserversAssumption
  <2>4. Tail(RemovalTodo(c, i, n)) = RemovalTodo(c, i, n + 1)
    BY <2>1, <2>3, RemovalTodoTail
  <2> QED BY <2>2, <2>4
<1>7. UNCHANGED <<OldCount, OldSlot, OldIndex>>
  BY DEF OldCount, OldSlot, OldIndex
<1>8. RemovalTodo(c, i, n + 1)' = RemovalTodo(c, i, n + 1) /\ LastWrites(c)' = LastWrites(c)
  BY <1>7 DEF RemovalTodo, RemovalWrite, ShiftWrite, LastWrites
<1>9. CASE j < OldCount - 1
  <2>1. j \in i..(OldCount - 2) /\ j + 1 \in Places
    <3>1. OldCount \in Nat /\ i \in Nat /\ j \in Nat /\ MaxObs \in Nat /\ i <= j
      BY <1>3, PlacesAreNats, VarObserversAssumption
    <3>2. OldCount <= MaxObs /\ j < OldCount - 1
      BY <1>3, <1>9, <3>1
    <3> QED BY <3>1, <3>2 DEF Places
  <2>2. CASE r = 0
    <3>1. Apply(SetClient(j, OldSlot[j + 1].client))
      BY <1>3, <1>5, <2>1, <2>2, TurnWrite
    <3>2. count' = count /\ index' = index /\ slot' = [slot EXCEPT ![j].client = OldSlot[j + 1].client]
      BY <3>1, ApplySetClient
    <3>3. ShiftingDb(i, j, 1)'
      <4>1. \A a \in Places \ {j} : slot'[a] = slot[a]
        BY <1>3, <3>2 DEF DbTypeOK
      <4>2. slot'[j] = Entry(OldSlot[j + 1].client, OldSlot[j].meta)
        BY <1>2, <1>3, <2>1, <2>2, <3>2 DEF ShiftingDb, DbTypeOK, Entry
      <4>3. \A d \in AnyClient, m \in Metas : Followed(i, j, d, m)'
        BY <1>2, <1>7, <3>2 DEF ShiftingDb, Followed
      <4>4. count' = OldCount'
        BY <1>2, <1>7, <3>2 DEF ShiftingDb
      <4>5. ASSUME NEW a \in Places
            PROVE  /\ a < i \/ a > j => slot'[a] = OldSlot'[a]
                   /\ a \in i..(j - 1) => slot'[a] = OldSlot'[a + 1]
        <5>1. /\ a < i \/ a > j => slot[a] = OldSlot[a]
              /\ a \in i..(j - 1) => slot[a] = OldSlot[a + 1]
          BY <1>2 DEF ShiftingDb
        <5>2. a < i \/ a > j \/ a \in i..(j - 1) => a # j
          BY <1>3, PlacesAreNats
        <5> QED BY <1>7, <4>1, <5>1, <5>2
      <4>6. slot'[j] = Entry(OldSlot'[j + 1].client, OldSlot'[j].meta)
        BY <1>7, <4>2
      <4> QED BY <4>3, <4>4, <4>5, <4>6 DEF ShiftingDb
    <3>4. Shifting(c)'
      <4>1. todo' = RemovalTodo(c, i, 3 * (j - i) + 1)'
        BY <1>6, <1>8, <2>2
      <4> QED BY <1>2, <1>3, <1>7, <1>9, <3>3, <4>1 DEF Shifting
    <3>5. DbTypeOK'
      BY <1>3, <2>1, <3>2 DEF DbTypeOK
    <3> QED BY <3>2, <3>4, <3>5
  <2>3. CASE r = 1
    <3>1. Apply(SetMeta(j, OldSlot[j + 1].meta))
      BY <1>3, <1>5, <2>1, <2>3, TurnWrite
    <3>2. count' = count /\ index' = index /\ slot' = [slot EXCEPT ![j].meta = OldSlot[j + 1].meta]
      BY <3>1, ApplySetMeta
    <3>3. ShiftingDb(i, j, 2)'
      <4>1. \A a \in Places \ {j} : slot'[a] = slot[a]
        BY <1>3, <3>2 DEF DbTypeOK
      <4>2. slot'[j] = Entry(OldSlot[j + 1].client, OldSlot[j + 1].meta)
        BY <1>2, <1>3, <2>1, <2>3, <3>2 DEF ShiftingDb, DbTypeOK, Entry
      <4>3. \A d \in AnyClient, m \in Metas : Followed(i, j, d, m)'
        BY <1>2, <1>7, <3>2 DEF ShiftingDb, Followed
      <4>4. count' = OldCount'
        BY <1>2, <1>7, <3>2 DEF ShiftingDb
      <4>5. ASSUME NEW a \in Places
            PROVE  /\ a < i \/ a > j => slot'[a] = OldSlot'[a]
                   /\ a \in i..(j - 1) => slot'[a] = OldSlot'[a + 1]
        <5>1. /\ a < i \/ a > j => slot[a] = OldSlot[a]
              /\ a \in i..(j - 1) => slot[a] = OldSlot[a + 1]
          BY <1>2 DEF ShiftingDb
        <5>2. a < i \/ a > j \/ a \in i..(j - 1) => a # j
          BY <1>3, PlacesAreNats
        <5> QED BY <1>7, <4>1, <5>1, <5>2
      <4>6. slot'[j] = Entry(OldSlot'[j + 1].client, OldSlot'[j + 1].meta)
        BY <1>7, <4>2
      <4> QED BY <4>3, <4>4, <4>5, <4>6 DEF ShiftingDb
    <3>4. Shifting(c)'
      <4>1. todo' = RemovalTodo(c, i, 3 * (j - i) + 2)'
        BY <1>6, <1>8, <2>3
      <4> QED BY <1>2, <1>3, <1>7, <1>9, <3>3, <4>1 DEF Shifting
    <3>5. DbTypeOK'
      BY <1>3, <2>1, <3>2 DEF DbTypeOK
    <3> QED BY <3>2, <3>4, <3>5
  <2>4. CASE r = 2
    <3> DEFINE e == OldSlot[j + 1]
    <3>1. Apply(SetIndex(e.client, e.meta, j))
      BY <1>3, <1>5, <2>1, <2>4, TurnWrite
    <3>2. count' = count /\ slot' = slot /\ index' = [index EXCEPT ![e.client][e.meta] = j]
      BY <3>1, ApplySetIndex
    <3>3. e \in [client : AnyClient, meta : Metas] /\ e = Entry(e.client, e.meta)
      BY <1>3, <2>1 DEF Entry
    <3>4. \A d \in AnyClient, m \in Metas : Followed(i, j + 1, d, m)'
      <4> TAKE d \in AnyClient, m \in Metas
      <4>1. Followed(i, j, d, m)
        BY <1>2 DEF ShiftingDb
      <4>2. CASE e = Entry(d, m)
        <5>1. index'[d][m] = j
          BY <3>2, <3>3, <4>2 DEF DbTypeOK, Entry
        <5> QED BY <1>3, <1>7, <2>1, <4>2, <5>1 DEF Followed
      <4>3. CASE e # Entry(d, m)
        <5>1. index'[d][m] = index[d][m]
          <6>1. ~(e.client = d /\ e.meta = m)
            BY <3>3, <4>3
          <6> HIDE DEF e
          <6> QED BY <3>2, <3>3, <6>1 DEF DbTypeOK
        <5>2. \A a \in i..((j + 1) - 1) : a \in i..(j - 1) \/ a = j
          BY <1>3, <2>1
        <5>3. i..(j - 1) \subseteq i..((j + 1) - 1)
          BY <1>3, <2>1
        <5> HIDE DEF e
        <5>4. CASE \E a \in i..(j - 1) : OldSlot[a + 1] = Entry(d, m) /\ index[d][m] = a
          BY <1>7, <5>1, <5>3, <5>4 DEF Followed
        <5>5. CASE index[d][m] = OldIndex[d][m] /\ \A a \in i..(j - 1) : OldSlot[a + 1] # Entry(d, m)
          BY <1>7, <4>3, <5>1, <5>2, <5>5 DEF Followed, e
        <5> QED BY <4>1, <5>4, <5>5 DEF Followed
      <4> QED BY <4>2, <4>3
    <3>5. ShiftingDb(i, j + 1, 0)'
      <4>1. count' = OldCount'
        BY <1>2, <1>7, <3>2 DEF ShiftingDb
      <4>2. slot[j] = OldSlot[j + 1]
        BY <1>2, <1>3, <2>1, <2>4, <3>3 DEF ShiftingDb
      <4>3. ASSUME NEW a \in Places
            PROVE  /\ a < i \/ a > j + 1 => slot'[a] = OldSlot'[a]
                   /\ a \in i..((j + 1) - 1) => slot'[a] = OldSlot'[a + 1]
        <5>1. /\ a < i \/ a > j => slot[a] = OldSlot[a]
              /\ a \in i..(j - 1) => slot[a] = OldSlot[a + 1]
          BY <1>2 DEF ShiftingDb
        <5>2. a > j + 1 => a > j
          BY <1>3, PlacesAreNats
        <5>3. a \in i..((j + 1) - 1) => a \in i..(j - 1) \/ a = j
          BY <1>3, <2>1
        <5> QED BY <1>7, <3>2, <4>2, <5>1, <5>2, <5>3
      <4>4. slot'[j + 1] = OldSlot'[j + 1]
        BY <1>2, <1>3, <1>7, <2>1, <3>2, PlacesAreNats DEF ShiftingDb
      <4>5. slot'[j + 1] = Entry(OldSlot'[j + 1].client, OldSlot'[j + 1].meta)
        BY <4>4, <1>7, <3>3
      <4> QED BY <1>3, <2>1, <3>4, <4>1, <4>3, <4>5 DEF ShiftingDb
    <3>6. Shifting(c)'
      <4>1. todo' = RemovalTodo(c, i, 3 * ((j + 1) - i) + 0)'
        <5>1. n + 1 = 3 * ((j + 1) - i) + 0
          BY <1>3, <2>4
        <5> HIDE DEF n
        <5> QED BY <1>6, <1>8, <5>1
      <4>2. j + 1 \in i..(OldCount - 1) /\ 0 \in 0..2
        BY <1>3, <2>1
      <4> QED BY <1>2, <1>3, <1>7, <1>9, <3>5, <4>1, <4>2 DEF Shifting
    <3>7. DbTypeOK'
      <4> HIDE DEF e
      <4> QED BY <1>3, <2>1, <3>2, <3>3 DEF DbTypeOK
    <3> QED BY <3>2, <3>6, <3>7
  <2> QED BY <2>2, <2>3, <2>4
<1>10. CASE j = OldCount - 1
  <2>1. r = 0 /\ n = 3 * (OldCount - 1 - i)
    BY <1>2, <1>10
  <2>2. RemovalWrite(c, i, n + 1) = DelSlot(OldCount - 1)
    <3>1. n + 1 > 3 * (OldCount - 1 - i) /\ (n + 1) - 3 * (OldCount - 1 - i) = 1
      BY <1>3, <1>4, <2>1
    <3> QED BY <3>1, <2>1, <1>4, <1>3 DEF RemovalWrite, LastWrites
  <2>3. count' = count /\ index' = index /\ slot' = [slot EXCEPT ![OldCount - 1] = NoSlot]
    BY <1>5, <2>2, ApplyDelSlot
  <2>4. todo' = LastTodo(c, 1)'
    <3> DEFINE T == 3 * (OldCount - 1 - i)
    <3>0. T \in Nat /\ n = T
      BY <1>4, <2>1
    <3> HIDE DEF n, T
    <3>1. \A k \in 1..2 : RemovalWrite(c, i, (n + 1) + k) = LastWrites(c)[1 + k]
      <4> TAKE k \in 1..2
      <4>1. ~((n + 1) + k <= T) /\ ((n + 1) + k) - T = 1 + k
        BY <3>0
      <4> QED BY <4>1 DEF RemovalWrite, T
    <3>2. 1..(T + 3 - (n + 1)) = 1..2 /\ 3 - 1 = 2
      BY <3>0
    <3>3. todo' = [k \in 1..2 |-> LastWrites(c)[1 + k]]
      BY <1>6, <3>1, <3>2 DEF RemovalTodo, T
    <3>4. LastTodo(c, 1) = [k \in 1..2 |-> LastWrites(c)[1 + k]]
      BY <3>2 DEF LastTodo
    <3> QED BY <1>8, <3>3, <3>4 DEF LastTodo
  <2>5. RemovedDb(c, i, 1)'
    <3>1. \A a \in Places \ {OldCount - 1} : slot'[a] = slot[a]
      BY <1>3, <2>3 DEF DbTypeOK
    <3>2. slot'[OldCount - 1] = NoSlot
      BY <1>3, <2>3 DEF DbTypeOK
    <3>3. \A d \in AnyClient, m \in Metas : Followed(i, OldCount - 1, d, m)'
      BY <1>2, <1>7, <1>10, <2>3 DEF ShiftingDb, Followed
    <3>4. ASSUME NEW a \in Places
          PROVE  /\ a < i \/ a >= OldCount => slot'[a] = OldSlot[a]
                 /\ a \in i..(OldCount - 2) => slot'[a] = OldSlot[a + 1]
      <4>1. /\ a < i \/ a > j => slot[a] = OldSlot[a]
            /\ a \in i..(j - 1) => slot[a] = OldSlot[a + 1]
        BY <1>2 DEF ShiftingDb
      <4>2. a >= OldCount => a > j /\ a # OldCount - 1
        BY <1>3, <1>10, PlacesAreNats
      <4>3. a < i => a # OldCount - 1
        BY <1>3, <1>10, PlacesAreNats
      <4>4. a \in i..(OldCount - 2) => a \in i..(j - 1) /\ a # OldCount - 1
        BY <1>3, <1>10
      <4> QED BY <3>1, <4>1, <4>2, <4>3, <4>4
    <3>5. count' = OldCount
      BY <1>2, <2>3 DEF ShiftingDb
    <3> QED BY <1>7, <3>2, <3>3, <3>4, <3>5 DEF RemovedDb
  <2>6. Removing(c)'
    BY <1>2, <1>7, <2>4, <2>5 DEF Removing
  <2>7. DbTypeOK'
    BY <1>3, <2>3, VarObserversAssumption DEF DbTypeOK, NoSlot, AnyClient
  <2> QED BY <2>3, <2>6, <2>7
<1> QED BY <1>3, <1>9, <1>10

(* Each of the writes behind the loop brings the removal one further. *)
LEMMA RemovingWriteStep ==
  ASSUME DbTypeOK, SoundList(OldCount, OldSlot, OldIndex),
         NEW c \in AnyClient, Removing(c),
         todo # <<>>, Apply(Head(todo)), todo' = Tail(todo), stable' = stable
  PROVE  Removing(c)' /\ DbTypeOK' /\ count' <= count
<1>1. PICK i \in 0..(OldCount - 1), k \in 1..3 :
        /\ OldSlot[i].client = c
        /\ todo = LastTodo(c, k)
        /\ RemovedDb(c, i, k)
  BY DEF Removing
<1>2. OldCount \in 0..MaxObs /\ OldCount \in Nat /\ OldCount - 1 \in 0..MaxObs
  BY PlacesAreNats DEF SoundList
<1>3. UNCHANGED <<OldCount, OldSlot, OldIndex>>
  BY DEF OldCount, OldSlot, OldIndex
<1>4. \A q \in 1..3 : LastTodo(c, q)' = LastTodo(c, q)
  BY <1>3 DEF LastTodo, LastWrites
<1>5. k \in 1..2 /\ Head(todo) = LastWrites(c)[k + 1] /\ todo' = LastTodo(c, k + 1)
  BY <1>1 DEF LastTodo, LastWrites
<1>6. NoIndexes \in [Metas -> Places \cup {NoIndex}]
  BY DEF NoIndexes
<1>7. CASE k = 1
  <2>1. count' = OldCount - 1 /\ slot' = slot /\ index' = index
    BY <1>5, <1>7, ApplySetCount DEF LastWrites
  <2>2. RemovedDb(c, i, 2)'
    BY <1>1, <1>3, <1>7, <2>1 DEF RemovedDb, Followed
  <2>3. Removing(c)'
    BY <1>1, <1>3, <1>4, <1>5, <1>7, <2>2 DEF Removing
  <2>4. DbTypeOK' /\ count' <= count
    BY <1>1, <1>2, <1>7, <2>1 DEF DbTypeOK, RemovedDb
  <2> QED BY <2>3, <2>4
<1>8. CASE k = 2
  <2>1. count' = count /\ slot' = slot /\ index' = [index EXCEPT ![c] = NoIndexes]
    BY <1>5, <1>8, ApplyDelClient DEF LastWrites
  <2>2. index'[c] = NoIndexes /\ \A d \in AnyClient \ {c} : index'[d] = index[d]
    BY <2>1 DEF DbTypeOK
  <2>3. RemovedDb(c, i, 3)'
    BY <1>1, <1>3, <1>8, <2>1, <2>2 DEF RemovedDb, Followed
  <2>4. Removing(c)'
    BY <1>1, <1>3, <1>4, <1>5, <1>8, <2>3 DEF Removing
  <2>5. DbTypeOK' /\ count' <= count
    BY <1>6, <2>1 DEF DbTypeOK
  <2> QED BY <2>4, <2>5
<1> QED BY <1>5, <1>7, <1>8

(* The storage after the last write of a removal is a sound list again:    *)
(* every index followed its entry, and the client's own are gone.          *)
LEMMA RemovedIsSound ==
  ASSUME DbTypeOK, SoundList(OldCount, OldSlot, OldIndex),
         NEW c \in AnyClient, NEW i \in 0..(OldCount - 1), OldSlot[i].client = c,
         RemovedDb(c, i, 3)
  PROVE  SoundList(count, slot, index)
<1>1. OldCount \in 0..MaxObs /\ count = OldCount - 1 /\ i \in Places /\ OldCount - 1 \in Places
  <2>1. OldCount \in 0..MaxObs /\ MaxObs \in Nat /\ count = OldCount - 1
    BY PlacesAreNats DEF SoundList, RemovedDb
  <2> QED BY <2>1 DEF Places
<1>2. ASSUME NEW a \in Places PROVE (slot[a].client # NoClient) <=> (a < count)
  <2>1. a \in Nat /\ a < MaxObs
    BY PlacesAreNats
  <2>2. CASE a < i
    BY <1>1, <2>1, <2>2 DEF RemovedDb, SoundList
  <2>3. CASE a \in i..(OldCount - 2)
    <3>1. a + 1 \in Places /\ slot[a] = OldSlot[a + 1]
      BY <1>1, <2>1, <2>3, PlacesAreNats DEF RemovedDb
    <3> QED BY <1>1, <2>1, <2>3, <3>1 DEF SoundList
  <2>4. CASE a = OldCount - 1
    BY <1>1, <2>4 DEF RemovedDb, NoSlot
  <2>5. CASE a >= OldCount
    BY <1>1, <2>1, <2>5 DEF RemovedDb, SoundList
  <2> QED BY <1>1, <2>1, <2>2, <2>3, <2>4, <2>5
<1>3. ASSUME NEW d \in Clients, NEW m \in Metas, index[d][m] # NoIndex
      PROVE  index[d][m] < count /\ slot[index[d][m]] = Entry(d, m)
  <2>1. d \in AnyClient /\ d # c
    BY <1>3 DEF AnyClient, RemovedDb, NoIndexes
  <2>2. Followed(i, OldCount - 1, d, m)
    BY <2>1 DEF RemovedDb
  <2>3. CASE \E a \in i..(OldCount - 2) : OldSlot[a + 1] = Entry(d, m) /\ index[d][m] = a
    <3>1. PICK a \in i..(OldCount - 2) : OldSlot[a + 1] = Entry(d, m) /\ index[d][m] = a
      BY <2>3
    <3>2. a \in Places
      BY <1>1, PlacesAreNats
    <3>3. slot[a] = OldSlot[a + 1]
      BY <3>2 DEF RemovedDb
    <3> QED BY <1>1, <3>1, <3>3
  <2>4. CASE /\ index[d][m] = OldIndex[d][m]
             /\ \A a \in i..(OldCount - 2) : OldSlot[a + 1] # Entry(d, m)
    <3> DEFINE b == OldIndex[d][m]
    <3>1. b \in Places /\ b < OldCount /\ OldSlot[b] = Entry(d, m)
      BY <1>3, <2>1, <2>4 DEF SoundList
    <3> HIDE DEF b
    <3>2. b # i
      BY <2>1, <3>1 DEF Entry
    <3>3. ~(b > i)
      <4> SUFFICES ASSUME b > i PROVE FALSE
        OBVIOUS
      <4>1. b - 1 \in i..(OldCount - 2) /\ (b - 1) + 1 = b
        BY <1>1, <3>1, PlacesAreNats
      <4> QED BY <2>4, <3>1, <4>1
    <3>4. b < i
      BY <1>1, <3>1, <3>2, <3>3, PlacesAreNats
    <3>5. slot[b] = OldSlot[b] /\ b < count
      BY <1>1, <3>1, <3>4, PlacesAreNats DEF RemovedDb
    <3> QED BY <2>4, <3>1, <3>5 DEF b
  <2>5. (OldCount - 1) - 1 = OldCount - 2
    BY <1>1
  <2> QED BY <2>2, <2>3, <2>4, <2>5 DEF Followed
<1> QED BY <1>2, <1>3 DEF SoundList, DbTypeOK

(* So is the storage after the last write of a registration. *)
LEMMA RegisteredIsSound ==
  ASSUME DbTypeOK, SoundList(OldCount, OldSlot, OldIndex),
         NEW c \in Clients, NEW m \in Metas, OldCount < MaxObs, RegisterDb(c, m, 4)
  PROVE  /\ SoundList(count, slot, index)
         /\ count = OldCount + 1 /\ slot[OldCount] = Entry(c, m)
<1>1. OldCount \in Nat /\ OldCount \in Places /\ count = OldCount + 1 /\ c \in AnyClient /\ c # NoClient
  BY PlacesAreNats, VarObserversAssumption DEF SoundList, RegisterDb, AnyClient
<1>2. slot[OldCount] = Entry(c, m)
  BY <1>1 DEF RegisterDb, DbTypeOK, Entry
<1>3. \A a \in Places \ {OldCount} : slot[a] = OldSlot[a]
  BY DEF RegisterDb
<1>4. \A a \in Places : (slot[a].client # NoClient) <=> (a < count)
  <2> TAKE a \in Places
  <2>1. CASE a = OldCount
    BY <1>1, <1>2, <2>1 DEF Entry
  <2>2. CASE a # OldCount
    BY <1>1, <1>3, <2>2, PlacesAreNats DEF SoundList
  <2> QED BY <2>1, <2>2
<1>5. ASSUME NEW d \in Clients, NEW x \in Metas, index[d][x] # NoIndex
      PROVE  index[d][x] < count /\ slot[index[d][x]] = Entry(d, x)
  <2>1. index = [OldIndex EXCEPT ![c][m] = OldCount] /\ d \in AnyClient
    BY DEF RegisterDb, AnyClient
  <2>2. CASE d = c /\ x = m
    <3>1. index[d][x] = OldCount
      BY <1>1, <2>1, <2>2 DEF SoundList
    <3> QED BY <1>1, <1>2, <2>2, <3>1
  <2>3. CASE ~(d = c /\ x = m)
    <3>1. index[d][x] = OldIndex[d][x] /\ OldIndex[d][x] \in Places
      BY <1>1, <1>5, <2>1, <2>3 DEF SoundList
    <3>2. OldIndex[d][x] < OldCount /\ OldSlot[OldIndex[d][x]] = Entry(d, x)
      BY <1>5, <3>1 DEF SoundList
    <3> QED BY <1>1, <1>3, <3>1, <3>2, PlacesAreNats
  <2> QED BY <2>2, <2>3
<1> QED BY <1>1, <1>2, <1>4, <1>5 DEF SoundList, DbTypeOK

(* And the empty storage. *)
LEMMA EmptyIsSound ==
  SoundList(0, [i \in Places |-> NoSlot], [c \in AnyClient |-> NoIndexes])
  BY PlacesAreNats, VarObserversAssumption DEF SoundList, NoSlot, NoIndexes, AnyClient

-----------------------------------------------------------------------------
(* The invariant is kept *)

(* An operation that has done all its writes leaves a sound list. *)
LEMMA DoneIsSound ==
  ASSUME ObserversInv, todo = <<>>
  PROVE  SoundList(count, slot, index)
<1>0. DbTypeOK /\ SoundList(OldCount, OldSlot, OldIndex)
  BY DEF ObserversInv, ObserversTypeOK, DbTypeOK
<1>1. ASSUME db = stable PROVE SoundList(count, slot, index)
  BY <1>0, <1>1 DEF db, OldCount, OldSlot, OldIndex
<1>2. CASE holder = Free
  BY <1>1, <1>2 DEF ObserversInv, Untouched
<1>3. CASE holder # Free
  <2> DEFINE c == op[holder].client
             m == op[holder].meta
  <2>0. holder \in Procs /\ c \in AnyClient /\ m \in Metas
    BY <1>3 DEF ObserversInv, ObserversTypeOK
  <2>1. ASSUME op[holder].kind = "register", Registering(c, m)
        PROVE  SoundList(count, slot, index)
    <3>1. PICK n \in 0..4 : OldCount < MaxObs /\ todo = RegisterTodo(c, m, n) /\ RegisterDb(c, m, n)
      BY <2>1 DEF Registering
    <3>2. n = 4
      BY <3>1 DEF RegisterTodo
    <3>3. c \in Clients
      BY <2>0, <2>1 DEF ObserversInv
    <3> QED BY <1>0, <2>0, <3>1, <3>2, <3>3, RegisteredIsSound
  <2>2. ASSUME Shifting(c) PROVE FALSE
    <3>1. PICK i \in 0..(OldCount - 1) : \E j \in i..(OldCount - 1) : \E r \in 0..2 :
             todo = RemovalTodo(c, i, 3 * (j - i) + r) /\ (j = OldCount - 1 => r = 0)
      BY <2>2 DEF Shifting
    <3>2. PICK j \in i..(OldCount - 1), r \in 0..2 :
             todo = RemovalTodo(c, i, 3 * (j - i) + r) /\ (j = OldCount - 1 => r = 0)
      BY <3>1
    <3>3. OldCount \in Nat
      BY <1>0, PlacesAreNats DEF SoundList
    <3>4. 3 * (OldCount - 1 - i) + 3 - (3 * (j - i) + r) >= 1
      BY <3>2, <3>3
    <3>5. 1 \in DOMAIN todo
      BY <3>2, <3>3, <3>4 DEF RemovalTodo
    <3> QED BY <3>5
  <2>3. ASSUME Removing(c) PROVE SoundList(count, slot, index)
    <3>1. PICK i \in 0..(OldCount - 1), k \in 1..3 :
             OldSlot[i].client = c /\ todo = LastTodo(c, k) /\ RemovedDb(c, i, k)
      BY <2>3 DEF Removing
    <3>2. k = 3
      BY <3>1 DEF LastTodo
    <3> QED BY <1>0, <2>0, <3>1, <3>2, RemovedIsSound
  <2>4. ASSUME Clearing PROVE SoundList(count, slot, index)
    BY <2>4, EmptyIsSound DEF Clearing, ClearWrites
  <2> QED BY <1>1, <1>3, <2>1, <2>2, <2>3, <2>4 DEF ObserversInv, Progress, Untouched
<1> QED BY <1>2, <1>3

(* The clearing of RemoveAllObservations. *)
LEMMA ClearingWriteStep ==
  ASSUME DbTypeOK, Clearing,
         todo # <<>>, Apply(Head(todo)), todo' = Tail(todo), stable' = stable
  PROVE  Clearing' /\ DbTypeOK' /\ count' <= count
<1>1. CASE todo = ClearWrites
  <2>1. Head(todo) = DelAll /\ todo' = <<SetCount(0)>>
    BY <1>1 DEF ClearWrites
  <2>2. /\ count' = 0
        /\ slot' = [i \in Places |-> NoSlot]
        /\ index' = [c \in AnyClient |-> NoIndexes]
    BY <2>1, ApplyDelAll
  <2>3. DbTypeOK'
    BY <2>2, EmptyIsSound DEF DbTypeOK, SoundList
  <2>4. Clearing'
    BY <2>1, <2>2 DEF Clearing, SetCount
  <2> QED BY <2>2, <2>3, <2>4 DEF DbTypeOK
<1>2. CASE todo = <<SetCount(0)>> /\ todo # ClearWrites
  <2>1. Head(todo) = SetCount(0) /\ todo' = <<>>
    BY <1>2
  <2>2. count' = 0 /\ slot' = slot /\ index' = index
    BY <2>1, ApplySetCount
  <2>3. count = 0 /\ slot = [i \in Places |-> NoSlot] /\ index = [c \in AnyClient |-> NoIndexes]
    BY <1>2 DEF Clearing
  <2>4. DbTypeOK' /\ count' <= count
    BY <2>2, <2>3 DEF DbTypeOK
  <2> QED BY <2>1, <2>2, <2>3, <2>4 DEF Clearing
<1> QED BY <1>1, <1>2 DEF Clearing

(* A write of the lock holder brings its operation one write further.      *)
LEMMA WriteKeeps ==
  ASSUME ObserversInv, NEW p \in Procs, Write(p)
  PROVE  ObserversInv'
<1> DEFINE c == op[p].client
           m == op[p].meta
<1>0. /\ DbTypeOK /\ SoundList(OldCount, OldSlot, OldIndex)
      /\ holder = p /\ p # Free /\ c \in AnyClient /\ m \in Metas
      /\ todo # <<>> /\ Apply(Head(todo)) /\ todo' = Tail(todo)
      /\ UNCHANGED <<holder, op, stable>>
  BY VarObserversAssumption DEF ObserversInv, ObserversTypeOK, DbTypeOK, Write
<1>1. UNCHANGED <<OldCount, OldSlot, OldIndex>>
  BY <1>0 DEF OldCount, OldSlot, OldIndex
<1>2. SoundList(OldCount, OldSlot, OldIndex)'
  BY <1>0, <1>1 DEF SoundList
<1>3. Registrants' = Registrants /\ Cardinality(Registrants) \in Nat
  <2>1. Registrants \subseteq Procs
    BY DEF Registrants
  <2>2. IsFiniteSet(Registrants)
    BY <2>1, FS_Subset, VarObserversAssumption
  <2> QED BY <1>0, <2>2, FS_CardinalityType DEF Registrants
<1>4. count + Cardinality(Registrants) <= MaxObs
  BY <1>0 DEF ObserversInv, Room
<1>5. ASSUME DbTypeOK', Progress', count' <= count
      PROVE  ObserversInv'
  <2>1. ObserversTypeOK'
    BY <1>0, <1>5 DEF ObserversInv, ObserversTypeOK, DbTypeOK
  <2>2. Room'
    BY <1>0, <1>3, <1>4, <1>5, PlacesAreNats DEF Room, DbTypeOK
  <2> QED BY <1>0, <1>2, <1>5, <2>1, <2>2 DEF ObserversInv
<1>6. CASE op[p].kind = "register" /\ Registering(c, m)
  <2>1. c \in Clients
    BY <1>6 DEF ObserversInv
  <2>2. /\ Registering(c, m)' /\ DbTypeOK'
        /\ todo' = <<>> => count' = count + 1
        /\ todo' # <<>> => count' = count
    BY <1>0, <1>6, <2>1, RegisterWriteStep
  <2>3. Progress'
    BY <1>0, <1>6, <2>2 DEF Progress
  <2>4. ObserversTypeOK'
    BY <1>0, <2>2 DEF ObserversInv, ObserversTypeOK, DbTypeOK
  <2>5. Room'
    BY <1>0, <1>3, <1>4, <1>6, <2>2, PlacesAreNats DEF Room, DbTypeOK
  <2> QED BY <1>0, <1>2, <2>3, <2>4, <2>5 DEF ObserversInv
<1>7. CASE op[p].kind \in {"remove", "removeAll"} /\ Shifting(c)
  <2>1. (Shifting(c)' \/ Removing(c)') /\ DbTypeOK' /\ count' = count
    BY <1>0, <1>7, ShiftingWriteStep
  <2> QED BY <1>0, <1>5, <1>7, <2>1 DEF Progress, DbTypeOK
<1>8. CASE op[p].kind \in {"remove", "removeAll"} /\ Removing(c)
  <2>1. Removing(c)' /\ DbTypeOK' /\ count' <= count
    BY <1>0, <1>8, RemovingWriteStep
  <2> QED BY <1>0, <1>5, <1>8, <2>1 DEF Progress
<1>9. CASE op[p].kind = "clear" /\ Clearing
  <2>1. Clearing' /\ DbTypeOK' /\ count' <= count
    BY <1>0, <1>9, ClearingWriteStep
  <2> QED BY <1>0, <1>5, <1>9, <2>1 DEF Progress
<1> QED
  BY <1>0, <1>6, <1>7, <1>8, <1>9 DEF ObserversInv, Progress, Untouched

(* The writes that internalRemoveObserving computes from the storage are   *)
(* all still to be done, in terms of the storage it begins with.           *)
LEMMA RemovalStarts ==
  ASSUME SoundList(count, slot, index), NEW c \in AnyClient, NEW m \in Metas,
         UNCHANGED <<count, slot, index>>, stable' = db, todo' = RemoveWrites(c, m)
  PROVE  (todo' = <<>> /\ db' = stable') \/ Shifting(c)'
<1>1. CASE PlacesOf(c, m) = {}
  BY <1>1 DEF RemoveWrites, db
<1>2. CASE PlacesOf(c, m) # {}
  <2>1. count \in Nat /\ MaxObs \in Nat /\ count <= MaxObs
    BY PlacesAreNats DEF SoundList
  <2>2. PICK i \in PlacesOf(c, m) : i = LastPlace(c, m)
    BY <1>2, <2>1, LastPlaceIsAPlace
  <2> DEFINE T == 3 * (count - 1 - i)
             W == <<DelSlot(count - 1), SetCount(count - 1), DelClient(c)>>
  <2>3. i \in 0..(count - 1) /\ slot[i] = Entry(c, m) /\ i \in Places /\ slot[i].client = c
    BY <2>1, <2>2 DEF PlacesOf, Entry, Places
  <2>4. todo' = Shifts(i) \o W
    BY <1>2, <2>2 DEF RemoveWrites
  <2>5. OldCount' = count /\ OldSlot' = slot /\ OldIndex' = index
    BY DEF OldCount, OldSlot, OldIndex, db
  <2>6. T \in Nat
    BY <2>1, <2>3
  <2>7. Len(Shifts(i)) = T /\ DOMAIN Shifts(i) = 1..T
    BY <2>6 DEF Shifts
  <2>8. \A k \in 1..T : Shifts(i)[k] = RemovalWrite(c, i, k)'
    <3> TAKE k \in 1..T
    <3>1. RemovalWrite(c, i, k)' = ShiftWrite(i, k)'
      BY <2>1, <2>3, <2>5 DEF RemovalWrite
    <3>2. ShiftWrite(i, k)' = ShiftWrites(i + ((k - 1) \div 3))[((k - 1) % 3) + 1]
      BY <2>5, Zenon DEF ShiftWrite, ShiftWrites
    <3>3. Shifts(i)[k] = ShiftWrites(i + ((k - 1) \div 3))[((k - 1) % 3) + 1]
      BY Zenon DEF Shifts
    <3> QED BY <3>1, <3>2, <3>3
  <2>9. \A k \in (T + 1)..(T + 3) : W[k - T] = RemovalWrite(c, i, k)'
    <3> TAKE k \in (T + 1)..(T + 3)
    <3>1. ~(k <= T) /\ T = 3 * (OldCount' - 1 - i)
      BY <2>5, <2>6
    <3>2. LastWrites(c)' = W
      BY <2>5 DEF LastWrites
    <3> HIDE DEF W, T
    <3> QED BY <3>1, <3>2 DEF RemovalWrite
  <2> HIDE DEF T
  <2>10. Shifts(i) \o W = [k \in 1..(T + 3) |-> IF k <= T THEN Shifts(i)[k] ELSE W[k - T]]
    BY <2>6, <2>7
  <2> HIDE DEF W
  <2>11. \A k \in 1..(T + 3) : (Shifts(i) \o W)[k] = RemovalWrite(c, i, k)'
    <3> TAKE k \in 1..(T + 3)
    <3>1. CASE k <= T
      <4>1. k \in 1..T
        BY <2>6, <3>1
      <4> QED BY <2>8, <2>10, <3>1, <4>1
    <3>2. CASE ~(k <= T)
      <4>1. k \in (T + 1)..(T + 3)
        BY <2>6, <3>2
      <4> QED BY <2>9, <2>10, <3>2, <4>1
    <3> QED BY <3>1, <3>2
  <2>12. todo' = RemovalTodo(c, i, 0)'
    <3> DEFINE R == RemovalTodo(c, i, 0)'
    <3>1. R = [k \in 1..(3 * (OldCount' - 1 - i) + 3 - 0) |-> RemovalWrite(c, i, 0 + k)']
      BY DEF RemovalTodo
    <3>2. 3 * (OldCount' - 1 - i) + 3 - 0 = T + 3
      BY <2>1, <2>3, <2>5 DEF T
    <3>3. \A k \in 1..(T + 3) : 0 + k = k
      BY <2>6
    <3>4. R = [k \in 1..(T + 3) |-> R[k]] /\ \A k \in 1..(T + 3) : R[k] = RemovalWrite(c, i, k)'
      BY <3>1, <3>2, <3>3
    <3>5. todo' = [k \in 1..(T + 3) |-> todo'[k]]
      BY <2>4, <2>10
    <3>6. \A k \in 1..(T + 3) : todo'[k] = RemovalWrite(c, i, k)'
      BY <2>4, <2>11
    <3> HIDE DEF R
    <3> QED BY <3>4, <3>5, <3>6 DEF R
  <2>13. ShiftingDb(i, i, 0)'
    <3>1. slot[i] = Entry(slot[i].client, slot[i].meta)
      BY <2>3 DEF Entry
    <3> QED BY <2>1, <2>3, <2>5, <3>1 DEF ShiftingDb, Followed
  <2>14. 3 * (i - i) + 0 = 0 /\ i \in i..(count - 1)
    BY <2>1, <2>3
  <2> QED
    BY <2>3, <2>5, <2>12, <2>13, <2>14 DEF Shifting
<1> QED BY <1>1, <1>2

(* How many goroutines are past their test, when one of them changes. *)
LEMMA RegistrantsChange ==
  ASSUME ObserversTypeOK, NEW p \in Procs, NEW o, op' = [op EXCEPT ![p] = o]
  PROVE  /\ Cardinality(Registrants) \in Nat /\ Cardinality(Registrants') \in Nat
         /\ o.kind = "register" => Cardinality(Registrants') <= Cardinality(Registrants) + 1
         /\ o.kind # "register" => Cardinality(Registrants') <= Cardinality(Registrants)
         /\ op[p].kind = "register" =>
               /\ Cardinality(Registrants) >= 1
               /\ o.kind # "register" => Cardinality(Registrants') = Cardinality(Registrants) - 1
         /\ o.kind = "register" /\ op[p].kind = "register" => Registrants' = Registrants
<1>1. IsFiniteSet(Registrants) /\ IsFiniteSet(Registrants')
  <2>1. Registrants \subseteq Procs /\ Registrants' \subseteq Procs
    BY DEF Registrants
  <2> QED BY <2>1, FS_Subset, VarObserversAssumption
<1>2. p \in Registrants <=> op[p].kind = "register"
  BY DEF Registrants
<1>3. CASE o.kind = "register"
  <2>1. Registrants' = Registrants \cup {p}
    BY <1>3 DEF Registrants, ObserversTypeOK
  <2> QED BY <1>1, <1>2, <1>3, <2>1, FS_AddElement, FS_CardinalityType, FS_EmptySet
<1>4. CASE o.kind # "register"
  <2>1. Registrants' = Registrants \ {p}
    BY <1>4 DEF Registrants, ObserversTypeOK
  <2> QED BY <1>1, <1>2, <1>4, <2>1, FS_RemoveElement, FS_CardinalityType, FS_EmptySet
<1> QED BY <1>3, <1>4

(* Whoever does not write does not disturb the lock holder. *)
LEMMA ProgressStays ==
  ASSUME UNCHANGED <<count, slot, index, todo, stable, holder>>,
         op'[holder] = op[holder], Progress
  PROVE  Progress'
<1>1. /\ UNCHANGED <<OldCount, OldSlot, OldIndex, db>>
  BY DEF OldCount, OldSlot, OldIndex, db
<1>2. ASSUME NEW c, NEW m PROVE Registering(c, m)' = Registering(c, m)
  BY <1>1 DEF Registering, RegisterTodo, RegisterDb
<1>3. ASSUME NEW c, NEW i, NEW n PROVE RemovalTodo(c, i, n)' = RemovalTodo(c, i, n)
  BY <1>1 DEF RemovalTodo, RemovalWrite, ShiftWrite, LastWrites
<1>4. ASSUME NEW c, Shifting(c) PROVE Shifting(c)'
  <2>1. ASSUME NEW i, NEW j, NEW r, ShiftingDb(i, j, r) PROVE ShiftingDb(i, j, r)'
    BY <1>1, <2>1 DEF ShiftingDb, Followed
  <2>2. PICK i \in 0..(OldCount - 1) : \E j \in i..(OldCount - 1) : \E r \in 0..2 :
          /\ OldSlot[i].client = c
          /\ j = OldCount - 1 => r = 0
          /\ todo = RemovalTodo(c, i, 3 * (j - i) + r)
          /\ ShiftingDb(i, j, r)
    BY <1>4 DEF Shifting
  <2>3. PICK j \in i..(OldCount - 1), r \in 0..2 :
          /\ OldSlot[i].client = c
          /\ j = OldCount - 1 => r = 0
          /\ todo = RemovalTodo(c, i, 3 * (j - i) + r)
          /\ ShiftingDb(i, j, r)
    BY <2>2
  <2> QED BY <1>1, <1>3, <2>1, <2>3 DEF Shifting
<1>5. ASSUME NEW c PROVE Removing(c)' = Removing(c)
  BY <1>1 DEF Removing, RemovedDb, Followed, LastTodo, LastWrites
<1>6. Clearing' = Clearing /\ Untouched' = Untouched
  BY <1>1 DEF Clearing, Untouched
<1> QED BY <1>2, <1>4, <1>5, <1>6 DEF Progress

(* A goroutine that starts an operation, or gives up waiting for the lock. *)
LEMMA OutsiderKeeps ==
  ASSUME ObserversInv, NEW p \in Procs, holder # p,
         NEW o \in [kind : OpKinds, client : AnyClient, meta : Metas, next : Places \cup {NoIndex}],
         op' = [op EXCEPT ![p] = o],
         o.kind \in {"register", "removeAll"} => o.client \in Clients,
         o.kind = "idle" => o = Idle,
         o.kind = "register" => count + Cardinality(Registrants) < MaxObs,
         UNCHANGED <<count, slot, index, holder, todo, stable>>
  PROVE  ObserversInv'
<1>1. ObserversTypeOK'
  BY DEF ObserversInv, ObserversTypeOK
<1>2. UNCHANGED <<OldCount, OldSlot, OldIndex, db>>
  BY DEF OldCount, OldSlot, OldIndex, db
<1>3. SoundList(OldCount, OldSlot, OldIndex)'
  BY <1>2 DEF ObserversInv, SoundList
<1>4. holder # Free => op'[holder] = op[holder]
  BY DEF ObserversInv, ObserversTypeOK
<1>5. Room'
  <2>1. ObserversTypeOK /\ count \in Nat /\ MaxObs \in Nat
    BY PlacesAreNats DEF ObserversInv, ObserversTypeOK
  <2>2. /\ Cardinality(Registrants) \in Nat /\ Cardinality(Registrants') \in Nat
        /\ o.kind = "register" => Cardinality(Registrants') <= Cardinality(Registrants) + 1
        /\ o.kind # "register" => Cardinality(Registrants') <= Cardinality(Registrants)
    BY <2>1, RegistrantsChange
  <2>3. Room
    BY DEF ObserversInv
  <2>4. CASE o.kind = "register"
    BY <1>4, <2>1, <2>2, <2>3, <2>4 DEF Room
  <2>5. CASE o.kind # "register"
    BY <1>4, <2>1, <2>2, <2>3, <2>5 DEF Room
  <2> QED BY <2>4, <2>5
<1>6. holder # Free => Progress'
  BY <1>4, ProgressStays DEF ObserversInv
<1>7. holder = Free => Untouched'
  BY <1>2 DEF ObserversInv, Untouched
<1>8. /\ \A q \in Procs : op'[q].kind \in {"register", "removeAll"} => op'[q].client \in Clients
      /\ \A q \in Procs : op'[q].kind = "idle" => op'[q] = Idle
  BY DEF ObserversInv, ObserversTypeOK
<1> QED
  BY <1>1, <1>3, <1>4, <1>5, <1>6, <1>7, <1>8 DEF ObserversInv

(* The start of an operation: the goroutine was idle, so it holds no lock. *)
LEMMA StartsKeeps ==
  ASSUME ObserversInv, NEW p \in Procs, Starts(p)
  PROVE  ObserversInv'
<1> DEFINE Ops == [kind : OpKinds, client : AnyClient, meta : Metas, next : Places \cup {NoIndex}]
<1>1. ASSUME NEW k \in OpKinds, NEW c \in AnyClient, NEW m \in Metas
      PROVE  /\ NewOp(k, c, m) \in Ops
             /\ NewOp(k, c, m).kind = k /\ NewOp(k, c, m).client = c
  BY DEF NewOp
<1>2. op[p] = Idle => holder # p
  BY VarObserversAssumption DEF ObserversInv, Idle
<1>3. NoMeta \in Metas /\ NoClient \in AnyClient /\ Clients \subseteq AnyClient
  BY VarObserversAssumption DEF AnyClient
<1>4. ASSUME NEW k \in OpKinds \ {"idle"}, NEW c \in AnyClient, NEW m \in Metas,
             Begin(p, NewOp(k, c, m)),
             k \in {"register", "removeAll"} => c \in Clients,
             k = "register" => count + Cardinality(Registrants) < MaxObs
      PROVE  ObserversInv'
  <2> DEFINE o == NewOp(k, c, m)
  <2>1. o \in Ops /\ o.kind = k /\ o.client = c
    BY <1>1
  <2>2. /\ op[p] = Idle
        /\ op' = [op EXCEPT ![p] = o]
        /\ UNCHANGED <<count, slot, index, holder, todo, stable>>
    BY <1>4 DEF Begin
  <2> HIDE DEF o
  <2> QED BY <1>2, <1>4, <2>1, <2>2, OutsiderKeeps
<1>5. ASSUME NEW c \in Clients, NEW m \in Metas, Observe(p, c, m) PROVE ObserversInv'
  BY <1>3, <1>4, <1>5 DEF Observe, Registrants, OpKinds
<1>6. ASSUME NEW c \in Clients, NEW m \in Metas, StopObserving(p, c, m) PROVE ObserversInv'
  BY <1>3, <1>4, <1>6 DEF StopObserving, OpKinds
<1>7. ASSUME NEW i \in Places, RemoveObservationById(p, i) PROVE ObserversInv'
  <2>1. slot[i].client \in AnyClient /\ slot[i].meta \in Metas
    BY DEF ObserversInv, ObserversTypeOK
  <2> QED BY <1>4, <1>7, <2>1 DEF RemoveObservationById, OpKinds
<1>8. ASSUME NEW c \in Clients, RemoveAllClientObservations(p, c) PROVE ObserversInv'
  BY <1>3, <1>4, <1>8 DEF RemoveAllClientObservations, OpKinds
<1>9. ASSUME RemoveAllObservations(p) PROVE ObserversInv'
  BY <1>3, <1>4, <1>9 DEF RemoveAllObservations, OpKinds
<1> QED BY <1>5, <1>6, <1>7, <1>8, <1>9 DEF Starts

(* The end of the wait for the lock. *)
LEMMA LockTimesOutKeeps ==
  ASSUME ObserversInv, NEW p \in Procs, LockTimesOut(p)
  PROVE  ObserversInv'
<1>1. Idle \in [kind : OpKinds, client : AnyClient, meta : Metas, next : Places \cup {NoIndex}]
  BY VarObserversAssumption DEF Idle, OpKinds, AnyClient
<1>2. Idle.kind = "idle"
  BY DEF Idle
<1>3. holder # p /\ op' = [op EXCEPT ![p] = Idle]
      /\ UNCHANGED <<count, slot, index, holder, todo, stable>>
  BY DEF LockTimesOut
<1> QED BY <1>1, <1>2, <1>3, OutsiderKeeps

(* The lock is taken: the operation begins with the storage that the last  *)
(* one left, and there is room for its entry.                              *)
LEMMA EnterKeeps ==
  ASSUME ObserversInv, NEW p \in Procs, Enter(p)
  PROVE  ObserversInv'
<1> DEFINE o == [op[p] EXCEPT !.next = count - 1]
           c == op[p].client
           m == op[p].meta
<1>0. /\ op[p] # Idle /\ holder = Free /\ holder' = p /\ todo' = WritesOf(op[p])
      /\ op' = [op EXCEPT ![p] = o]
      /\ UNCHANGED <<count, slot, index, stable>>
      /\ p # Free /\ todo = <<>> /\ db = stable
  BY VarObserversAssumption DEF Enter, ObserversInv, Untouched
<1>1. /\ ObserversTypeOK /\ count \in Nat /\ MaxObs \in Nat
      /\ c \in AnyClient /\ m \in Metas /\ op[p].kind \in OpKinds
  BY PlacesAreNats DEF ObserversInv, ObserversTypeOK
<1>2. /\ o \in [kind : OpKinds, client : AnyClient, meta : Metas, next : Places \cup {NoIndex}]
      /\ o.kind = op[p].kind /\ o.client = c /\ o.meta = m
  <2>1. count - 1 \in Places \cup {NoIndex}
    BY <1>1 DEF ObserversTypeOK, Places, NoIndex
  <2> QED BY <1>1, <2>1 DEF ObserversTypeOK
<1>3. op'[p] = o /\ \A q \in Procs \ {p} : op'[q] = op[q]
  BY <1>0, <1>1 DEF ObserversTypeOK
<1> HIDE DEF o
<1>4. ObserversTypeOK'
  BY <1>0, <1>2 DEF ObserversInv, ObserversTypeOK
<1>5. UNCHANGED <<OldCount, OldSlot, OldIndex>> /\ OldCount = count /\ OldSlot = slot /\ OldIndex = index
  BY <1>0 DEF OldCount, OldSlot, OldIndex, db
<1>6. SoundList(OldCount, OldSlot, OldIndex) /\ SoundList(count, slot, index)
  BY <1>5 DEF ObserversInv
<1>7. op[p].kind # "idle"
  BY <1>0 DEF ObserversInv
<1>8. count + Cardinality(Registrants) <= MaxObs
  BY <1>0 DEF ObserversInv, Room
<1>9. /\ Cardinality(Registrants) \in Nat /\ Cardinality(Registrants') \in Nat
      /\ Cardinality(Registrants') <= Cardinality(Registrants)
      /\ op[p].kind = "register" => count < MaxObs
  <2>1. CASE op[p].kind = "register"
    <3>1. /\ Registrants' = Registrants
          /\ Cardinality(Registrants) \in Nat /\ Cardinality(Registrants) >= 1
      BY <1>0, <1>1, <1>2, <2>1, RegistrantsChange
    <3> QED BY <1>1, <1>8, <3>1
  <2>2. CASE op[p].kind # "register"
    BY <1>0, <1>1, <1>2, <1>8, <2>2, RegistrantsChange
  <2> QED BY <2>1, <2>2
<1>10. Room'
  BY <1>0, <1>1, <1>8, <1>9 DEF Room
<1>11. Progress'
  <2>1. CASE op[p].kind = "register"
    <3>1. todo' = RegisterWrites(c, m)
      BY <1>0, <2>1 DEF WritesOf
    <3>2. RegisterTodo(c, m, 0) = RegisterWrites(c, m)
      BY <1>1, <1>5 DEF RegisterTodo, RegisterWrites
    <3>3. RegisterDb(c, m, 0)
      BY <1>5 DEF RegisterDb
    <3>4. Registering(op[p].client, op[p].meta)'
      <4> HIDE DEF c, m
      <4>1. ASSUME NEW d, NEW x, d = c, x = m PROVE Registering(d, x)'
        <5>1. todo' = RegisterTodo(d, x, 0)'
          BY <1>5, <3>1, <3>2, <4>1 DEF RegisterTodo
        <5>2. RegisterDb(d, x, 0)'
          BY <1>0, <1>5, <3>3, <4>1 DEF RegisterDb
        <5>3. OldCount' < MaxObs
          BY <1>5, <1>9, <2>1
        <5> QED BY <5>1, <5>2, <5>3 DEF Registering
      <4> QED BY <1>2, <1>3, <4>1
    <3> QED BY <1>0, <1>2, <1>3, <2>1, <3>4 DEF Progress
  <2>2. CASE op[p].kind = "remove"
    <3>1. todo' = RemoveWrites(c, m)
      BY <1>0, <2>2 DEF WritesOf
    <3>2. ASSUME NEW d \in AnyClient, NEW x \in Metas, d = c, x = m
          PROVE  Untouched' \/ Shifting(d)'
      BY <1>0, <1>6, <3>1, <3>2, RemovalStarts DEF Untouched
    <3>3. Untouched' \/ Shifting(op[p].client)'
      BY <1>1, <1>2, <1>3, <3>2
    <3> QED BY <1>0, <1>2, <1>3, <2>2, <3>3 DEF Progress
  <2>3. CASE op[p].kind = "clear"
    <3>1. todo' = ClearWrites /\ ClearWrites' = ClearWrites
      BY <1>0, <2>3 DEF WritesOf, ClearWrites, DelAll, SetCount
    <3>2. Clearing'
      BY <1>0, <3>1 DEF Clearing, db
    <3> QED BY <1>0, <1>2, <1>3, <2>3, <3>2 DEF Progress
  <2>4. CASE op[p].kind = "removeAll"
    <3>1. todo' = <<>>
      BY <1>0, <2>4 DEF WritesOf
    <3> QED BY <1>0, <3>1 DEF Progress, Untouched, db
  <2> QED BY <1>1, <1>7, <2>1, <2>2, <2>3, <2>4 DEF OpKinds
<1>12. /\ \A q \in Procs : op'[q].kind \in {"register", "removeAll"} => op'[q].client \in Clients
       /\ \A q \in Procs : op'[q].kind = "idle" => op'[q] = Idle
  BY <1>2, <1>3, <1>7 DEF ObserversInv
<1> QED
  BY <1>0, <1>2, <1>3, <1>4, <1>5, <1>6, <1>7, <1>10, <1>11, <1>12 DEF ObserversInv

(* One turn of RemoveAllClientObservations: what the turns before it left  *)
(* is where this one begins.                                               *)
LEMMA NextPlaceKeeps ==
  ASSUME ObserversInv, NEW p \in Procs, NextPlace(p)
  PROVE  ObserversInv'
<1> DEFINE i == op[p].next
           o == [op[p] EXCEPT !.next = i - 1]
           c == op[p].client
<1>0. /\ holder = p /\ todo = <<>> /\ op[p].kind = "removeAll" /\ i >= 0
      /\ op' = [op EXCEPT ![p] = o]
      /\ todo' = IF slot[i].client = c THEN RemoveWrites(slot[i].client, slot[i].meta) ELSE <<>>
      /\ stable' = db
      /\ UNCHANGED <<count, slot, index, holder>>
      /\ p # Free
  BY VarObserversAssumption DEF NextPlace
<1>1. /\ ObserversTypeOK /\ count \in Nat /\ MaxObs \in Nat /\ c \in Clients /\ c \in AnyClient
      /\ i \in Places
  BY <1>0, PlacesAreNats DEF ObserversInv, ObserversTypeOK, AnyClient, NoIndex
<1>2. /\ o \in [kind : OpKinds, client : AnyClient, meta : Metas, next : Places \cup {NoIndex}]
      /\ o.kind = op[p].kind /\ o.client = c /\ o.meta = op[p].meta
  <2>1. i - 1 \in Places \cup {NoIndex}
    BY <1>1 DEF Places, NoIndex
  <2> QED BY <1>1, <2>1 DEF ObserversTypeOK
<1>3. op'[p] = o /\ \A q \in Procs \ {p} : op'[q] = op[q]
  BY <1>0, <1>1 DEF ObserversTypeOK
<1> HIDE DEF o
<1>4. ObserversTypeOK'
  BY <1>0, <1>2 DEF ObserversInv, ObserversTypeOK
<1>5. OldCount' = count /\ OldSlot' = slot /\ OldIndex' = index /\ Len(stable') = 3
  BY <1>0 DEF OldCount, OldSlot, OldIndex, db
<1>6. SoundList(count, slot, index)
  BY <1>0, DoneIsSound
<1>7. SoundList(OldCount, OldSlot, OldIndex)'
  BY <1>5, <1>6 DEF SoundList
<1>8. Room'
  <2>1. count + Cardinality(Registrants) <= MaxObs
    BY <1>0 DEF ObserversInv, Room
  <2>2. Registrants' = Registrants
    BY <1>2, <1>3 DEF Registrants
  <2> QED BY <1>0, <1>2, <1>3, <2>1, <2>2 DEF Room
<1>9. Progress'
  <2>1. CASE slot[i].client = c
    <3>1. slot[i].meta \in Metas
      BY <1>1 DEF ObserversTypeOK
    <3>2. ASSUME NEW d \in AnyClient, NEW x \in Metas, d = c, x = slot[i].meta
          PROVE  Untouched' \/ Shifting(d)'
      BY <1>0, <1>6, <2>1, <3>2, RemovalStarts DEF Untouched
    <3>3. Untouched' \/ Shifting(op[p].client)'
      BY <1>1, <1>2, <1>3, <3>1, <3>2
    <3> QED BY <1>0, <1>2, <1>3, <3>3 DEF Progress
  <2>2. CASE slot[i].client # c
    BY <1>0, <2>2 DEF Progress, Untouched, db
  <2> QED BY <2>1, <2>2
<1>10. /\ \A q \in Procs : op'[q].kind \in {"register", "removeAll"} => op'[q].client \in Clients
       /\ \A q \in Procs : op'[q].kind = "idle" => op'[q] = Idle
  BY <1>0, <1>1, <1>2, <1>3 DEF ObserversInv
<1> QED
  BY <1>0, <1>2, <1>3, <1>4, <1>5, <1>7, <1>8, <1>9, <1>10 DEF ObserversInv

(* The lock is released with all writes done. *)
LEMMA LeaveKeeps ==
  ASSUME ObserversInv, NEW p \in Procs, Leave(p)
  PROVE  ObserversInv'
<1>0. /\ holder = p /\ todo = <<>> /\ holder' = Free
      /\ op' = [op EXCEPT ![p] = Idle]
      /\ stable' = db
      /\ UNCHANGED <<count, slot, index, todo>>
      /\ p # Free
  BY VarObserversAssumption DEF Leave
<1>1. Idle \in [kind : OpKinds, client : AnyClient, meta : Metas, next : Places \cup {NoIndex}]
      /\ Idle.kind = "idle"
  BY VarObserversAssumption DEF Idle, OpKinds, AnyClient
<1>2. /\ ObserversTypeOK /\ count \in Nat /\ MaxObs \in Nat
  BY PlacesAreNats DEF ObserversInv, ObserversTypeOK
<1>3. op'[p] = Idle /\ \A q \in Procs \ {p} : op'[q] = op[q]
  BY <1>0, <1>2 DEF ObserversTypeOK
<1>4. ObserversTypeOK'
  BY <1>0, <1>1 DEF ObserversInv, ObserversTypeOK
<1>5. OldCount' = count /\ OldSlot' = slot /\ OldIndex' = index /\ Len(stable') = 3
  BY <1>0 DEF OldCount, OldSlot, OldIndex, db
<1>6. SoundList(OldCount, OldSlot, OldIndex)'
  BY <1>0, <1>5, DoneIsSound DEF SoundList
<1>7. Untouched'
  BY <1>0 DEF Untouched, db
<1>8. Room'
  <2>1. /\ Cardinality(Registrants) \in Nat /\ Cardinality(Registrants') \in Nat
        /\ Cardinality(Registrants') <= Cardinality(Registrants)
        /\ op[p].kind = "register" => Cardinality(Registrants') = Cardinality(Registrants) - 1
    BY <1>0, <1>1, <1>2, RegistrantsChange
  <2>2. Room
    BY DEF ObserversInv
  <2>3. CASE op[p].kind = "register"
    BY <1>0, <1>2, <2>1, <2>2, <2>3 DEF Room
  <2>4. CASE op[p].kind # "register"
    BY <1>0, <1>2, <2>1, <2>2, <2>4 DEF Room
  <2> QED BY <2>3, <2>4
<1>9. /\ \A q \in Procs : op'[q].kind \in {"register", "removeAll"} => op'[q].client \in Clients
      /\ \A q \in Procs : op'[q].kind = "idle" => op'[q] = Idle
  BY <1>1, <1>3 DEF ObserversInv
<1> QED
  BY <1>0, <1>4, <1>5, <1>6, <1>7, <1>8, <1>9 DEF ObserversInv

(* The invariant holds before the first operation. *)
LEMMA ObserversInvInit == ObserversInit => ObserversInv
<1> SUFFICES ASSUME ObserversInit PROVE ObserversInv
  OBVIOUS
<1>1. count = 0 /\ holder = Free /\ op = [p \in Procs |-> Idle] /\ todo = <<>> /\ stable = db
  BY DEF ObserversInit
<1>2. SoundList(count, slot, index)
  BY EmptyIsSound DEF ObserversInit
<1>3. OldCount = count /\ OldSlot = slot /\ OldIndex = index /\ Len(stable) = 3
  BY <1>1 DEF OldCount, OldSlot, OldIndex, db
<1>4. Idle \in [kind : OpKinds, client : AnyClient, meta : Metas, next : Places \cup {NoIndex}]
      /\ Idle.kind = "idle"
  BY VarObserversAssumption DEF Idle, OpKinds, AnyClient
<1>5. ObserversTypeOK
  BY <1>1, <1>2, <1>4 DEF ObserversTypeOK, SoundList
<1>6. Registrants = {}
  BY <1>1, <1>4 DEF Registrants
<1>7. Room
  BY <1>1, <1>6, FS_EmptySet, PlacesAreNats DEF Room
<1> QED
  BY <1>1, <1>2, <1>3, <1>4, <1>5, <1>7 DEF ObserversInv, Untouched

(* Every step keeps the invariant. *)
LEMMA ObserversInvariant == ObserversSpec => []ObserversInv
<1>1. ObserversInv /\ [ObserversNext]_vars => ObserversInv'
  <2> SUFFICES ASSUME ObserversInv, [ObserversNext]_vars PROVE ObserversInv'
    OBVIOUS
  <2>1. ASSUME NEW p \in Procs,
               Starts(p) \/ LockTimesOut(p) \/ Enter(p) \/ Write(p) \/ NextPlace(p) \/ Leave(p)
        PROVE  ObserversInv'
    BY <2>1, StartsKeeps, LockTimesOutKeeps, EnterKeeps, WriteKeeps, NextPlaceKeeps, LeaveKeeps
  <2>2. CASE UNCHANGED vars
    <3>1. UNCHANGED <<count, slot, index, holder, op, todo, stable, OldCount, OldSlot, OldIndex, db,
                      Registrants>>
      BY <2>2 DEF vars, OldCount, OldSlot, OldIndex, db, Registrants
    <3>2. ObserversTypeOK' /\ SoundList(OldCount, OldSlot, OldIndex)' /\ Untouched' = Untouched
      BY <3>1 DEF ObserversInv, ObserversTypeOK, SoundList, Untouched
    <3>3. Room'
      BY <3>1 DEF ObserversInv, Room
    <3>4. holder # Free => Progress'
      BY <3>1, ProgressStays DEF ObserversInv
    <3> QED BY <3>1, <3>2, <3>3, <3>4 DEF ObserversInv
  <2> QED BY <2>1, <2>2 DEF ObserversNext
<1> QED BY <1>1, ObserversInvInit, PTL DEF ObserversSpec

-----------------------------------------------------------------------------
(* The properties *)

(* Whenever nobody works on it, the list has no hole below list.count and  *)
(* no leftover above it, for any number of goroutines and observations.    *)
THEOREM ObserversListIsContiguous == ObserversSpec => []ListIsContiguous
<1>1. ObserversInv => ListIsContiguous
  BY DEF ObserversInv, ListIsContiguous, Untouched, SoundList, db, OldCount, OldSlot, OldIndex
<1> QED BY <1>1, ObserversInvariant, PTL

(* Every old entry but the one that is removed is somewhere in the list    *)
(* after each write of the shifting loop.                                  *)
LEMMA ShiftingLosesNone ==
  ASSUME SoundList(OldCount, OldSlot, OldIndex),
         NEW i \in 0..(OldCount - 1), NEW j \in i..(OldCount - 1), NEW r \in 0..2,
         ShiftingDb(i, j, r), j = OldCount - 1 => r = 0,
         NEW b \in 0..(OldCount - 1), b # i
  PROVE  \E a \in 0..(count - 1) : slot[a] = OldSlot[b]
<1>1. OldCount \in Nat /\ MaxObs \in Nat /\ OldCount <= MaxObs /\ count = OldCount
  BY PlacesAreNats DEF SoundList, ShiftingDb
<1>2. \A a \in 0..(OldCount - 1) : a \in Places
  BY <1>1 DEF Places
<1>3. CASE b < i \/ b > j
  BY <1>1, <1>2, <1>3 DEF ShiftingDb
<1>4. CASE b > i /\ b <= j
  <2>1. b - 1 \in i..(j - 1) /\ b - 1 \in 0..(OldCount - 1) /\ (b - 1) + 1 = b
    BY <1>1, <1>4
  <2>2. slot[b - 1] = OldSlot[b]
    BY <1>2, <2>1 DEF ShiftingDb
  <2> QED BY <1>1, <2>1, <2>2
<1> QED BY <1>1, <1>3, <1>4

(* The same for the writes behind the loop. *)
LEMMA RemovedLosesNone ==
  ASSUME SoundList(OldCount, OldSlot, OldIndex),
         NEW c, NEW i \in 0..(OldCount - 1), NEW k \in 1..3, RemovedDb(c, i, k),
         NEW b \in 0..(OldCount - 1), b # i
  PROVE  \E a \in 0..(count - 1) : slot[a] = OldSlot[b]
<1>1. OldCount \in Nat /\ MaxObs \in Nat /\ OldCount <= MaxObs /\ count \in {OldCount, OldCount - 1}
  BY PlacesAreNats DEF SoundList, RemovedDb
<1>2. \A a \in 0..(OldCount - 1) : a \in Places
  BY <1>1 DEF Places
<1>3. CASE b < i
  <2>1. b \in 0..(count - 1)
    BY <1>1, <1>3
  <2> QED BY <1>2, <1>3, <2>1 DEF RemovedDb
<1>4. CASE b > i
  <2>1. b - 1 \in i..(OldCount - 2) /\ b - 1 \in 0..(OldCount - 1) /\ (b - 1) + 1 = b
        /\ b - 1 \in 0..(count - 1)
    BY <1>1, <1>4
  <2>2. slot[b - 1] = OldSlot[b]
    BY <1>2, <2>1 DEF RemovedDb
  <2> QED BY <2>1, <2>2
<1> QED BY <1>1, <1>3, <1>4

(* Whoever finds an observation indexed, at any moment and without the     *)
(* lock, finds it listed too, unless the lock holder is at work on this    *)
(* very client's observations or clears them all.                          *)
THEOREM ObserversIndexedIsListed == ObserversSpec => []IndexedIsListed
<1>1. ASSUME ObserversInv, NEW d \in Clients, NEW m \in Metas, index[d][m] # NoIndex,
             ~(holder # Free /\ (op[holder].kind = "clear" \/ op[holder].client = d))
      PROVE  Listed(d, m)
  <2> DEFINE c == op[holder].client
  <2>0. /\ SoundList(OldCount, OldSlot, OldIndex) /\ d \in AnyClient
        /\ OldCount \in Nat /\ MaxObs \in Nat /\ OldCount <= MaxObs
    BY <1>1, PlacesAreNats DEF ObserversInv, SoundList, AnyClient
  <2>1. ASSUME NEW a \in 0..(count - 1), slot[a] = Entry(d, m)
        PROVE  Listed(d, m)
    BY <2>1 DEF Listed, PlacesOf, Entry
  <2>2. ASSUME OldIndex[d][m] # NoIndex
        PROVE  /\ OldIndex[d][m] \in 0..(OldCount - 1) /\ OldIndex[d][m] \in Places
               /\ OldSlot[OldIndex[d][m]] = Entry(d, m)
    BY <2>0, <2>2, PlacesAreNats DEF SoundList
  <2>3. CASE db = stable
    <3>1. count = OldCount /\ slot = OldSlot /\ index = OldIndex
      BY <2>3 DEF db, OldCount, OldSlot, OldIndex
    <3> QED BY <1>1, <2>1, <2>2, <3>1
  <2>4. ASSUME holder # Free, Registering(c, op[holder].meta) PROVE Listed(d, m)
    <3>1. PICK n \in 0..4 : OldCount < MaxObs /\ RegisterDb(c, op[holder].meta, n)
      BY <2>4 DEF Registering
    <3>2. d # c
      BY <1>1, <2>4
    <3>3. index[d][m] = OldIndex[d][m]
      BY <2>0, <3>1, <3>2 DEF RegisterDb, SoundList
    <3>4. /\ OldIndex[d][m] \in 0..(OldCount - 1) /\ OldIndex[d][m] \in Places
          /\ OldSlot[OldIndex[d][m]] = Entry(d, m)
      BY <1>1, <2>2, <3>3
    <3>5. slot[OldIndex[d][m]] = Entry(d, m) /\ OldIndex[d][m] \in 0..(count - 1)
      BY <2>0, <3>1, <3>4 DEF RegisterDb
    <3> QED BY <2>1, <3>5
  <2>5. ASSUME NEW i \in 0..(OldCount - 1), NEW j \in i..(OldCount - 1),
               Followed(i, j, d, m), OldSlot[i].client # d
        PROVE  \E b \in 0..(OldCount - 1) : b # i /\ OldSlot[b] = Entry(d, m)
    <3>1. CASE \E a \in i..(j - 1) : OldSlot[a + 1] = Entry(d, m)
      <4>1. PICK a \in i..(j - 1) : OldSlot[a + 1] = Entry(d, m)
        BY <3>1
      <4>2. a + 1 \in 0..(OldCount - 1) /\ a + 1 # i
        BY <2>0
      <4> QED BY <4>1, <4>2
    <3>2. CASE index[d][m] = OldIndex[d][m]
      BY <1>1, <2>2, <2>5, <3>2 DEF Entry
    <3> QED BY <2>5, <3>1, <3>2 DEF Followed
  <2>6. ASSUME holder # Free, Shifting(c) PROVE Listed(d, m)
    <3>1. PICK i \in 0..(OldCount - 1) : \E j \in i..(OldCount - 1) : \E r \in 0..2 :
            OldSlot[i].client = c /\ (j = OldCount - 1 => r = 0) /\ ShiftingDb(i, j, r)
      BY <2>6 DEF Shifting
    <3>2. PICK j \in i..(OldCount - 1), r \in 0..2 :
            OldSlot[i].client = c /\ (j = OldCount - 1 => r = 0) /\ ShiftingDb(i, j, r)
      BY <3>1
    <3>3. OldSlot[i].client # d /\ Followed(i, j, d, m)
      BY <1>1, <2>0, <2>6, <3>2 DEF ShiftingDb
    <3>4. PICK b \in 0..(OldCount - 1) : b # i /\ OldSlot[b] = Entry(d, m)
      BY <2>5, <3>3
    <3>5. PICK a \in 0..(count - 1) : slot[a] = OldSlot[b]
      BY <2>0, <3>2, <3>4, ShiftingLosesNone
    <3> QED BY <2>1, <3>4, <3>5
  <2>7. ASSUME holder # Free, Removing(c) PROVE Listed(d, m)
    <3>1. PICK i \in 0..(OldCount - 1), k \in 1..3 : OldSlot[i].client = c /\ RemovedDb(c, i, k)
      BY <2>7 DEF Removing
    <3>2. OldSlot[i].client # d /\ Followed(i, OldCount - 1, d, m) /\ OldCount - 1 \in i..(OldCount - 1)
      BY <1>1, <2>0, <2>7, <3>1 DEF RemovedDb
    <3>3. PICK b \in 0..(OldCount - 1) : b # i /\ OldSlot[b] = Entry(d, m)
      BY <2>5, <3>2
    <3>4. PICK a \in 0..(count - 1) : slot[a] = OldSlot[b]
      BY <2>0, <3>1, <3>3, RemovedLosesNone
    <3> QED BY <2>1, <3>3, <3>4
  <2> QED
    BY <1>1, <2>3, <2>4, <2>6, <2>7 DEF ObserversInv, Untouched, Progress
<1>2. ObserversInv => IndexedIsListed
  BY <1>1 DEF IndexedIsListed
<1> QED BY <1>2, ObserversInvariant, PTL

-----------------------------------------------------------------------------
(* Refinement: a critical section is one operation of ObserverList *)

(* The list and the index of ObserverList. *)
ListView == [i \in 1..stable[1] |-> stable[2][i - 1]]
IndexView == [c \in Clients |-> stable[3][c]]

(* What the two views hold. *)
LEMMA Views ==
  ASSUME SoundList(OldCount, OldSlot, OldIndex)
  PROVE  /\ OldCount \in Nat
         /\ DOMAIN ListView = 1..OldCount /\ Len(ListView) = OldCount
         /\ ListView \in Seq([client : AnyClient, meta : Metas])
         /\ \A a \in 1..OldCount : ListView[a] = OldSlot[a - 1]
         /\ IndexView = [c \in Clients |-> OldIndex[c]]
<1>1. OldCount \in Nat /\ MaxObs \in Nat /\ OldCount <= MaxObs
  BY PlacesAreNats DEF SoundList
<1>2. ListView = [a \in 1..OldCount |-> OldSlot[a - 1]] /\ IndexView = [c \in Clients |-> OldIndex[c]]
  BY DEF ListView, IndexView, OldCount, OldSlot, OldIndex
<1>3. \A a \in 1..OldCount : OldSlot[a - 1] \in [client : AnyClient, meta : Metas]
  BY <1>1 DEF SoundList, Places
<1> QED BY <1>1, <1>2, <1>3

(* A registration appends its entry and points the index to it. *)
LEMMA RegisterRefines ==
  ASSUME DbTypeOK, SoundList(OldCount, OldSlot, OldIndex), SoundList(OldCount, OldSlot, OldIndex)',
         NEW c \in Clients, NEW m \in Metas, OldCount < MaxObs, RegisterDb(c, m, 4), stable' = db
  PROVE  Abstract!Register(c, m)
<1>1. /\ OldCount \in Nat /\ Len(ListView) = OldCount /\ DOMAIN ListView = 1..OldCount
      /\ \A a \in 1..OldCount : ListView[a] = OldSlot[a - 1]
      /\ IndexView = [d \in Clients |-> OldIndex[d]]
      /\ ListView \in Seq([client : AnyClient, meta : Metas])
  BY Views
<1>2. OldCount' = count /\ OldSlot' = slot /\ OldIndex' = index
  BY DEF OldCount, OldSlot, OldIndex, db
<1>3. count = OldCount + 1 /\ slot[OldCount] = Entry(c, m)
  BY RegisteredIsSound
<1>4. ListView' = [a \in 1..(OldCount + 1) |-> slot[a - 1]]
  BY <1>2, <1>3 DEF ListView, OldCount, OldSlot
<1>5. ListView' = Append(ListView, Entry(c, m))
  <2>1. ASSUME NEW a \in 1..OldCount PROVE slot[a - 1] = ListView[a]
    <3>1. a - 1 \in Places /\ a - 1 # OldCount
      BY <1>1, PlacesAreNats DEF Places
    <3> QED BY <1>1, <3>1 DEF RegisterDb
  <2> DEFINE app == Append(ListView, Entry(c, m))
             S == [client : AnyClient, meta : Metas]
  <2>2. /\ app \in Seq(S) /\ Len(app) = OldCount + 1
        /\ \A a \in 1..OldCount : app[a] = ListView[a]
        /\ app[OldCount + 1] = Entry(c, m)
    <3>1. Entry(c, m) \in S
      BY DEF Entry, AnyClient
    <3> QED BY <1>1, <3>1, AppendProperties
  <2> HIDE DEF app
  <2>3. ASSUME NEW a \in 1..(OldCount + 1) PROVE slot[a - 1] = app[a]
    BY <1>1, <1>3, <2>1, <2>2
  <2>4. app = [a \in 1..(OldCount + 1) |-> app[a]]
    BY <2>2
  <2> QED BY <1>4, <2>3, <2>4 DEF app
<1>6. IndexView' = [IndexView EXCEPT ![c][m] = Len(ListView)]
  <2>1. IndexView' = [d \in Clients |-> index[d]]
    BY <1>2 DEF IndexView, OldIndex
  <2>2. index = [OldIndex EXCEPT ![c][m] = OldCount] /\ OldIndex \in [AnyClient -> [Metas -> Places \cup {NoIndex}]]
    BY DEF RegisterDb, SoundList
  <2> QED BY <1>1, <2>1, <2>2 DEF AnyClient
<1> QED BY <1>1, <1>5, <1>6 DEF Abstract!Register, ListView, IndexView, Entry

(* The shifting loop and the writes behind it take one entry out, and the  *)
(* index follows the entries that moved.                                   *)
LEMMA RemoveRefines ==
  ASSUME DbTypeOK, SoundList(OldCount, OldSlot, OldIndex),
         NEW c \in AnyClient, NEW i \in 0..(OldCount - 1), OldSlot[i].client = c,
         RemovedDb(c, i, 3), stable' = db
  PROVE  \E m \in Metas : c \in Clients /\ Abstract!Remove(c, m)
<1>1. /\ OldCount \in Nat /\ Len(ListView) = OldCount /\ DOMAIN ListView = 1..OldCount
      /\ \A a \in 1..OldCount : ListView[a] = OldSlot[a - 1]
      /\ IndexView = [d \in Clients |-> OldIndex[d]]
      /\ ListView \in Seq([client : AnyClient, meta : Metas])
  BY Views
<1>2. OldCount' = count /\ OldSlot' = slot /\ OldIndex' = index
  BY DEF OldCount, OldSlot, OldIndex, db
<1>3. MaxObs \in Nat /\ OldCount <= MaxObs /\ i \in Places /\ count = OldCount - 1
  BY PlacesAreNats DEF SoundList, RemovedDb, Places
<1>4. PICK m \in Metas : c \in Clients /\ OldSlot[i] = Entry(c, m)
  BY <1>1, <1>3 DEF SoundList, AnyClient, Entry
<1>5. ListView[i + 1] = Entry(c, m)
  BY <1>1, <1>4
<1>6. /\ DOMAIN ListView' = 1..(OldCount - 1)
      /\ ListView' = [a \in 1..(OldCount - 1) |-> slot[a - 1]]
  BY <1>2, <1>3 DEF ListView, OldCount, OldSlot
<1>7. ListView' = [a \in 1..(Len(ListView) - 1) |-> IF a <= i THEN ListView[a] ELSE ListView[a + 1]]
  <2>1. ASSUME NEW a \in 1..(OldCount - 1)
        PROVE  slot[a - 1] = IF a <= i THEN ListView[a] ELSE ListView[a + 1]
    <3>1. a - 1 \in Places /\ a \in 1..OldCount /\ a + 1 \in 1..OldCount
      BY <1>1, <1>3 DEF Places
    <3>2. CASE a <= i
      <4>1. a - 1 < i
        BY <1>1, <3>2
      <4> QED BY <1>1, <3>1, <3>2, <4>1 DEF RemovedDb
    <3>3. CASE ~(a <= i)
      <4>1. a - 1 \in i..(OldCount - 2) /\ (a - 1) + 1 = (a + 1) - 1
        BY <1>1, <3>3
      <4>2. slot[a - 1] = OldSlot[(a - 1) + 1] /\ ListView[a + 1] = OldSlot[(a + 1) - 1]
        BY <1>1, <3>1, <4>1 DEF RemovedDb
      <4> QED BY <3>3, <4>1, <4>2
    <3> QED BY <3>2, <3>3
  <2> QED BY <1>1, <1>6, <2>1
<1>8. IndexView' = [d \in Clients |-> index[d]]
  BY <1>2 DEF IndexView, OldIndex
<1>9. IndexView' \in [Clients -> [Metas -> (0..MaxObs) \cup {-1}]]
  <2>1. Places \cup {NoIndex} \subseteq (0..MaxObs) \cup {-1}
    BY <1>3 DEF Places, NoIndex
  <2>2. \A d \in Clients : index[d] \in [Metas -> Places \cup {NoIndex}]
    BY DEF DbTypeOK, AnyClient
  <2>3. \A d \in Clients : index[d] \in [Metas -> (0..MaxObs) \cup {-1}]
    BY <2>1, <2>2
  <2> QED BY <1>8, <2>3
<1>10. IndexView'[c] = [x \in Metas |-> -1]
  BY <1>4, <1>8 DEF RemovedDb, NoIndexes, NoIndex
<1>11. ASSUME NEW d \in Clients \ {c}, NEW x \in Metas
       PROVE  \/ \E j \in i..(Len(ListView) - 2) :
                    ListView'[j + 1] = Entry(d, x) /\ IndexView'[d][x] = j
              \/ /\ IndexView'[d][x] = IndexView[d][x]
                 /\ \A j \in i..(Len(ListView) - 2) : ListView'[j + 1] # Entry(d, x)
  <2>1. Followed(i, OldCount - 1, d, x) /\ (OldCount - 1) - 1 = OldCount - 2
    BY <1>1 DEF RemovedDb, AnyClient
  <2>2. ASSUME NEW j \in i..(OldCount - 2)
        PROVE  ListView'[j + 1] = OldSlot[j + 1]
    <3>1. j \in Places /\ j + 1 \in 1..(OldCount - 1) /\ (j + 1) - 1 = j
      BY <1>1, <1>3 DEF Places
    <3>2. ListView'[j + 1] = slot[j]
      BY <1>6, <3>1
    <3> QED BY <3>1, <3>2 DEF RemovedDb
  <2>3. IndexView'[d][x] = index[d][x] /\ IndexView[d][x] = OldIndex[d][x]
    BY <1>1, <1>8
  <2> QED BY <1>1, <2>1, <2>2, <2>3 DEF Followed
<1>12. Abstract!Remove(c, m)
  <2>1. Abstract!Reindexed(c, i)
    BY <1>9, <1>10, <1>11 DEF Abstract!Reindexed, Abstract!NoIndexes, Abstract!NoIndex,
                              ListView, IndexView, Entry
  <2>2. i \in 0..(Len(ListView) - 1)
    BY <1>1
  <2> QED BY <1>5, <1>7, <2>1, <2>2 DEF Abstract!Remove, Abstract!Without, ListView, Entry
<1> QED BY <1>4, <1>12

(* When the lock holder has done all its writes, what it did is one        *)
(* operation of ObserverList, or nothing.                                  *)
LEMMA SectionRefines ==
  ASSUME ObserversInv, holder # Free, todo = <<>>, stable' = db
  PROVE  [Abstract!ListNext]_<<ListView, IndexView>>
<1> DEFINE c == op[holder].client
           m == op[holder].meta
<1>0. /\ DbTypeOK /\ SoundList(OldCount, OldSlot, OldIndex)
      /\ holder \in Procs /\ c \in AnyClient /\ m \in Metas
  BY DEF ObserversInv, ObserversTypeOK, DbTypeOK
<1>1. SoundList(OldCount, OldSlot, OldIndex)'
  BY DoneIsSound DEF SoundList, OldCount, OldSlot, OldIndex, db
<1>2. CASE Untouched
  BY <1>2 DEF Untouched, ListView, IndexView
<1>3. CASE op[holder].kind = "register" /\ Registering(c, m)
  <2>1. PICK n \in 0..4 : OldCount < MaxObs /\ todo = RegisterTodo(c, m, n) /\ RegisterDb(c, m, n)
    BY <1>3 DEF Registering
  <2>2. n = 4
    BY <2>1 DEF RegisterTodo
  <2>3. PICK d \in Clients, x \in Metas : d = c /\ x = m
    BY <1>0, <1>3 DEF ObserversInv
  <2>4. RegisterDb(d, x, 4)
    BY <2>1, <2>2, <2>3
  <2>5. Abstract!Register(d, x)
    BY <1>0, <1>1, <2>1, <2>4, RegisterRefines
  <2> QED BY <2>5 DEF Abstract!ListNext
<1>4. CASE Shifting(c)
  <2>1. PICK i \in 0..(OldCount - 1) : \E j \in i..(OldCount - 1) : \E r \in 0..2 :
           todo = RemovalTodo(c, i, 3 * (j - i) + r) /\ (j = OldCount - 1 => r = 0)
    BY <1>4 DEF Shifting
  <2>2. PICK j \in i..(OldCount - 1), r \in 0..2 :
           todo = RemovalTodo(c, i, 3 * (j - i) + r) /\ (j = OldCount - 1 => r = 0)
    BY <2>1
  <2>3. OldCount \in Nat
    BY <1>0, PlacesAreNats DEF SoundList
  <2>4. 3 * (OldCount - 1 - i) + 3 - (3 * (j - i) + r) >= 1
    BY <2>2, <2>3
  <2>5. 1 \in DOMAIN todo
    BY <2>2, <2>3, <2>4 DEF RemovalTodo
  <2> QED BY <2>5
<1>5. CASE Removing(c)
  <2>1. PICK i \in 0..(OldCount - 1), k \in 1..3 :
           OldSlot[i].client = c /\ todo = LastTodo(c, k) /\ RemovedDb(c, i, k)
    BY <1>5 DEF Removing
  <2>2. k = 3
    BY <2>1 DEF LastTodo
  <2>3. PICK d \in AnyClient : d = c
    BY <1>0
  <2>4. OldSlot[i].client = d /\ RemovedDb(d, i, 3)
    BY <2>1, <2>2, <2>3
  <2>5. \E x \in Metas : d \in Clients /\ Abstract!Remove(d, x)
    BY <1>0, <2>4, RemoveRefines
  <2> QED BY <2>5 DEF Abstract!ListNext
<1>6. CASE op[holder].kind = "clear" /\ Clearing /\ ~Untouched
  <2>1. /\ count = 0
        /\ index = [d \in AnyClient |-> NoIndexes]
    BY <1>6 DEF Clearing, Untouched, ClearWrites
  <2>2. ListView' = <<>>
    BY <2>1 DEF ListView, db
  <2>3. IndexView' = [d \in Clients |-> [x \in Metas |-> -1]]
    BY <2>1 DEF IndexView, db, NoIndexes, NoIndex, AnyClient
  <2>4. Abstract!RemoveEverything
    BY <2>2, <2>3 DEF Abstract!RemoveEverything, Abstract!NoIndexes, Abstract!NoIndex,
                      ListView, IndexView
  <2> QED BY <2>4 DEF Abstract!ListNext
<1> QED
  BY <1>2, <1>3, <1>4, <1>5, <1>6 DEF ObserversInv, Progress

(* The single storage writes of the variable helper implement ObserverList *)
(* for any number of goroutines, clients and observations: every critical  *)
(* section amounts to one operation on the list.                           *)
THEOREM ObserversImplementList == ObserversSpec => ImplementsObserverList
<1>1. ObserversInit => Abstract!ListInit
  <2> SUFFICES ASSUME ObserversInit PROVE Abstract!ListInit
    OBVIOUS
  <2>1. ListView = <<>>
    BY DEF ObserversInit, ListView, db
  <2>2. IndexView = [d \in Clients |-> [x \in Metas |-> -1]]
    BY DEF ObserversInit, IndexView, db, NoIndexes, NoIndex, AnyClient
  <2> QED
    BY <2>1, <2>2 DEF Abstract!ListInit, Abstract!NoIndexes, Abstract!NoIndex, ListView, IndexView
<1>2. ObserversInv /\ [ObserversNext]_vars => [Abstract!ListNext]_<<ListView, IndexView>>
  <2> SUFFICES ASSUME ObserversInv, [ObserversNext]_vars
               PROVE  [Abstract!ListNext]_<<ListView, IndexView>>
    OBVIOUS
  <2>1. CASE UNCHANGED stable
    BY <2>1 DEF ListView, IndexView
  <2>2. ASSUME NEW p \in Procs, NextPlace(p) \/ Leave(p)
        PROVE  [Abstract!ListNext]_<<ListView, IndexView>>
    <3>1. holder # Free /\ todo = <<>> /\ stable' = db
      BY <2>2, VarObserversAssumption DEF NextPlace, Leave
    <3> QED BY <3>1, SectionRefines
  <2>3. ASSUME NEW p \in Procs, Starts(p) \/ LockTimesOut(p) \/ Enter(p) \/ Write(p)
        PROVE  UNCHANGED stable
    BY <2>3 DEF Starts, Observe, StopObserving, RemoveObservationById, RemoveAllClientObservations,
                RemoveAllObservations, Begin, LockTimesOut, Enter, Write
  <2>4. UNCHANGED vars => UNCHANGED stable
    BY DEF vars
  <2> QED BY <2>1, <2>2, <2>3, <2>4 DEF ObserversNext
<1>3. ObserversInv /\ [ObserversNext]_vars =>
        [Abstract!ListNext]_<<[i \in 1..stable[1] |-> stable[2][i - 1]], [c \in Clients |-> stable[3][c]]>>
  BY <1>2 DEF ListView, IndexView
<1> QED
  BY <1>1, <1>3, ObserversInvariant, PTL DEF ObserversSpec, ImplementsObserverList, Abstract!ListSpec

=============================================================================
