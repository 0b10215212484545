------------------------ MODULE BuildingBlockProofs ------------------------
(***************************************************************************)
(* Proofs about two small parts that others are built from: the lock of    *)
(* misc/namedlock.go, for any number of goroutines and names, and the      *)
(* observer list of a variable (controller_varhelper.go), for any set of   *)
(* clients and metadata and any bound on the list.                         *)
(***************************************************************************)
EXTENDS NamedLock, ObserverList, TLAPS

-----------------------------------------------------------------------------
(* NamedLock *)

(* Mutual exclusion alone is not inductive: a second Take must be ruled    *)
(* out by the token having left the channel.                               *)
LockInv == NamedLockTypeOK /\ TokenConserved /\ MutualExclusion

(* The first state has no channel and nobody inside. *)
LEMMA LockInvInit == NamedLockInit => LockInv
  BY DEF NamedLockInit, LockInv, NamedLockTypeOK, TokenConserved, MutualExclusion,
         InsideOf, Capacity, NoCall, Calls

(* Every step of NamedLockRun keeps the types. *)
LEMMA TypeStep == NamedLockTypeOK /\ TokenConserved /\ [NamedLockNext]_vars => NamedLockTypeOK'
<1> SUFFICES ASSUME NamedLockTypeOK, TokenConserved, [NamedLockNext]_vars
             PROVE  NamedLockTypeOK'
  OBVIOUS
<1>1. ASSUME NEW p \in Procs, NEW n \in Names, NEW t \in BOOLEAN, Lookup(p, n, t)
      PROVE  NamedLockTypeOK'
  BY <1>1 DEF Lookup, FindChannel, NamedLockTypeOK, Calls, NoCall, Capacity
<1>2. ASSUME NEW p \in Procs, Take(p)
      PROVE  NamedLockTypeOK'
  BY <1>2 DEF Take, NamedLockTypeOK, Calls, NoCall, Capacity
<1>3. ASSUME NEW p \in Procs, TimeOut(p)
      PROVE  NamedLockTypeOK'
  BY <1>3 DEF TimeOut, Return, NamedLockTypeOK, Calls, NoCall, Capacity
<1>4. ASSUME NEW p \in Procs, Release(p)
      PROVE  NamedLockTypeOK'
  BY <1>4 DEF Release, Return, PutToken, NamedLockTypeOK, Calls, NoCall, Capacity
<1>5. CASE UNCHANGED vars
  BY <1>5 DEF vars, NamedLockTypeOK, Calls, NoCall, Capacity
<1> QED
  BY <1>1, <1>2, <1>3, <1>4, <1>5 DEF NamedLockNext

(* Every step keeps the token of each lock in one place, and so at most    *)
(* one goroutine inside.                                                   *)
LEMMA TokenStep == LockInv /\ [NamedLockNext]_vars => TokenConserved' /\ MutualExclusion'
<1> SUFFICES ASSUME LockInv, [NamedLockNext]_vars
             PROVE  TokenConserved' /\ MutualExclusion'
  OBVIOUS
<1> USE DEF LockInv, NamedLockTypeOK, TokenConserved, MutualExclusion, InsideOf, Capacity
<1>1. ASSUME NEW p \in Procs, NEW n \in Names, NEW t \in BOOLEAN, Lookup(p, n, t)
      PROVE  TokenConserved' /\ MutualExclusion'
  BY <1>1 DEF Lookup, FindChannel, Calls
<1>2. ASSUME NEW p \in Procs, Take(p)
      PROVE  TokenConserved' /\ MutualExclusion'
  BY <1>2 DEF Take, Calls
<1>3. ASSUME NEW p \in Procs, TimeOut(p)
      PROVE  TokenConserved' /\ MutualExclusion'
  BY <1>3 DEF TimeOut, Return, Calls
<1>4. ASSUME NEW p \in Procs, Release(p)
      PROVE  TokenConserved' /\ MutualExclusion'
  BY <1>4 DEF Release, Return, PutToken, Calls
<1>5. CASE UNCHANGED vars
  BY <1>5 DEF vars
<1> QED
  BY <1>1, <1>2, <1>3, <1>4, <1>5 DEF NamedLockNext

(* LockInv holds in every reachable state. *)
LEMMA LockInvariant == NamedLockSpec => []LockInv
<1>1. LockInv /\ [NamedLockNext]_vars => LockInv'
  BY TypeStep, TokenStep DEF LockInv
<1> QED
  BY LockInvInit, <1>1, PTL DEF NamedLockSpec

(* Type correctness of the named locks. *)
THEOREM LockTypeCorrect == NamedLockSpec => []NamedLockTypeOK
<1>1. LockInv => NamedLockTypeOK
  BY DEF LockInv
<1> QED
  BY LockInvariant, <1>1, PTL

(* NamedLockRun never runs two functions under one name at a time. *)
THEOREM LockMutualExclusion == NamedLockSpec => []MutualExclusion
<1>1. LockInv => MutualExclusion
  BY DEF LockInv
<1> QED
  BY LockInvariant, <1>1, PTL

(* No token is ever lost or doubled. *)
THEOREM LockTokenConserved == NamedLockSpec => []TokenConserved
<1>1. LockInv => TokenConserved
  BY DEF LockInv
<1> QED
  BY LockInvariant, <1>1, PTL

(* A release never meets a full channel: its default branch is dead code. *)
THEOREM LockNoDoubleRelease == NamedLockSpec => NoDoubleRelease
<1>1. LockInv /\ [NamedLockNext]_vars =>
        [\A p \in Procs : pc[p] = "inside" /\ pc'[p] = "idle" => tokens[call[p].name] = 0]_vars
  BY DEF LockInv, NamedLockTypeOK, TokenConserved, InsideOf
<1> QED
  BY LockInvariant, <1>1, PTL DEF NamedLockSpec, NoDoubleRelease

-----------------------------------------------------------------------------
(* Refinement: the token machinery implements the abstract mutex.          *)

(* With at most one goroutine inside, the CHOOSE of holderOf is that one.  *)
LEMMA HolderIsInside ==
  ASSUME LockInv, NEW n \in Names, NEW p \in Procs, InsideOf(p, n)
  PROVE  holderOf[n] = p
<1>1. PICK q \in Procs : InsideOf(q, n) /\ holderOf[n] = q
  BY DEF holderOf
<1> QED
  BY <1>1 DEF LockInv, MutualExclusion

(* With nobody inside, the abstract lock is free. *)
LEMMA HolderIsFree ==
  ASSUME NEW n \in Names, \A p \in Procs : ~InsideOf(p, n)
  PROVE  holderOf[n] = Free
  BY DEF holderOf

(* The holder of a lock depends only on who is inside. *)
LEMMA HolderSame ==
  ASSUME NEW n \in Names, \A p \in Procs : InsideOf(p, n)' <=> InsideOf(p, n)
  PROVE  holderOf'[n] = holderOf[n]
<1>1. (CHOOSE p \in Procs : InsideOf(p, n)') = (CHOOSE p \in Procs : InsideOf(p, n))
  OBVIOUS
<1> QED
  BY <1>1 DEF holderOf

(* A step that moves no goroutine in or out of f changes no holder. *)
LEMMA HolderUnchanged ==
  ASSUME \A p \in Procs, n \in Names : InsideOf(p, n)' <=> InsideOf(p, n)
  PROVE  holderOf' = holderOf
<1>1. \A n \in Names : holderOf'[n] = holderOf[n]
  BY HolderSame
<1>2. holderOf = [n \in Names |-> holderOf[n]] /\ holderOf' = [n \in Names |-> holderOf'[n]]
  BY DEF holderOf
<1> QED
  BY <1>1, <1>2

(* Take is the abstract Enter. *)
LEMMA TakeEnters ==
  ASSUME LockInv, LockInv', NEW p \in Procs, NEW n \in Names, n = call[p].name, Take(p)
  PROVE  Abstract!Enter(p, n)
<1>1. n \in Names /\ n \in made
  BY DEF LockInv, NamedLockTypeOK, Take, Calls
<1>2. holderOf[n] = Free
  <2>1. \A q \in Procs : ~InsideOf(q, n)
    BY <1>1 DEF LockInv, NamedLockTypeOK, TokenConserved, Take, Capacity
  <2> QED BY <1>1, <2>1, HolderIsFree
<1>3. InsideOf(p, n)'
  BY DEF Take, InsideOf, LockInv, NamedLockTypeOK
<1>4. \A q \in Procs : \A m \in Names : (q # p \/ m # n) => (InsideOf(q, m)' <=> InsideOf(q, m))
  BY DEF Take, InsideOf, LockInv, NamedLockTypeOK
<1>5. holderOf' = [holderOf EXCEPT ![n] = p]
  <2>1. holderOf'[n] = p
    <3>1. PICK q \in Procs : InsideOf(q, n)' /\ holderOf'[n] = q
      BY <1>1, <1>3 DEF holderOf
    <3> QED BY <1>1, <1>3, <3>1 DEF LockInv, MutualExclusion
  <2>2. \A m \in Names : m # n => holderOf'[m] = holderOf[m]
    <3> SUFFICES ASSUME NEW m \in Names, m # n
                 PROVE  holderOf'[m] = holderOf[m]
      OBVIOUS
    <3>1. \A q \in Procs : InsideOf(q, m)' <=> InsideOf(q, m)
      BY <1>4
    <3> QED BY <3>1, HolderSame
  <2>3. holderOf = [m \in Names |-> holderOf[m]] /\ holderOf' = [m \in Names |-> holderOf'[m]]
    BY DEF holderOf
  <2> QED BY <1>1, <2>1, <2>2, <2>3
<1> QED
  BY <1>2, <1>5 DEF Abstract!Enter

(* Release is the abstract Leave. *)
LEMMA ReleaseLeaves ==
  ASSUME LockInv, NEW p \in Procs, NEW n \in Names, n = call[p].name, Release(p)
  PROVE  Abstract!Leave(p, n)
<1>1. n \in Names /\ InsideOf(p, n)
  BY DEF LockInv, NamedLockTypeOK, Release, Calls, InsideOf
<1>2. holderOf[n] = p
  BY <1>1, HolderIsInside
<1>3. \A q \in Procs : ~InsideOf(q, n)'
  BY <1>1 DEF Release, Return, InsideOf, LockInv, NamedLockTypeOK, MutualExclusion
<1>4. \A q \in Procs : \A m \in Names : m # n => (InsideOf(q, m)' <=> InsideOf(q, m))
  BY DEF Release, Return, InsideOf, LockInv, NamedLockTypeOK
<1>5. holderOf' = [holderOf EXCEPT ![n] = Free]
  <2>1. holderOf'[n] = Free
    BY <1>1, <1>3 DEF holderOf
  <2>2. \A m \in Names : m # n => holderOf'[m] = holderOf[m]
    <3> SUFFICES ASSUME NEW m \in Names, m # n
                 PROVE  holderOf'[m] = holderOf[m]
      OBVIOUS
    <3>1. \A q \in Procs : InsideOf(q, m)' <=> InsideOf(q, m)
      BY <1>4
    <3> QED BY <3>1, HolderSame
  <2>3. holderOf = [m \in Names |-> holderOf[m]] /\ holderOf' = [m \in Names |-> holderOf'[m]]
    BY DEF holderOf
  <2> QED BY <1>1, <2>1, <2>2, <2>3
<1> QED
  BY <1>2, <1>5 DEF Abstract!Leave

(* NamedLock implements Mutex: Take is Enter, Release is Leave, and the    *)
(* lookups and time-outs are invisible.                                    *)
THEOREM LockImplementsMutex == NamedLockSpec => ImplementsMutex
<1>1. NamedLockInit => Abstract!MutexInit
  BY DEF NamedLockInit, Abstract!MutexInit, holderOf, InsideOf
<1>2. LockInv /\ LockInv' /\ [NamedLockNext]_vars => [Abstract!MutexNext]_holderOf
  <2> SUFFICES ASSUME LockInv, LockInv', [NamedLockNext]_vars
               PROVE  [Abstract!MutexNext]_holderOf
    OBVIOUS
  <2>1. ASSUME NEW p \in Procs, NEW n \in Names, NEW t \in BOOLEAN, Lookup(p, n, t)
        PROVE  holderOf' = holderOf
    <3>1. \A q \in Procs, m \in Names : InsideOf(q, m)' <=> InsideOf(q, m)
      BY <2>1 DEF Lookup, InsideOf, LockInv, NamedLockTypeOK
    <3> QED BY <3>1, HolderUnchanged
  <2>2. ASSUME NEW p \in Procs, Take(p)
        PROVE  Abstract!MutexNext
    <3>1. call[p].name \in Names
      BY <2>2 DEF LockInv, NamedLockTypeOK, Take, Calls
    <3> QED BY <2>2, <3>1, TakeEnters DEF Abstract!MutexNext
  <2>3. ASSUME NEW p \in Procs, TimeOut(p)
        PROVE  holderOf' = holderOf
    <3>1. \A q \in Procs, m \in Names : InsideOf(q, m)' <=> InsideOf(q, m)
      BY <2>3 DEF TimeOut, Return, InsideOf, LockInv, NamedLockTypeOK
    <3> QED BY <3>1, HolderUnchanged
  <2>4. ASSUME NEW p \in Procs, Release(p)
        PROVE  Abstract!MutexNext
    <3>1. call[p].name \in Names
      BY <2>4 DEF LockInv, NamedLockTypeOK, Release, Calls
    <3> QED BY <2>4, <3>1, ReleaseLeaves DEF Abstract!MutexNext
  <2>5. CASE UNCHANGED vars
    BY <2>5 DEF vars, holderOf, InsideOf
  <2> QED
    BY <2>1, <2>2, <2>3, <2>4, <2>5 DEF NamedLockNext
<1> QED
  BY LockInvariant, <1>1, <1>2, PTL DEF NamedLockSpec, ImplementsMutex, Abstract!MutexSpec

-----------------------------------------------------------------------------
(* ObserverList *)

(* Taking one entry out leaves a list of entries, one shorter, in which    *)
(* the entries up to place i stay and the others move left by one.         *)
LEMMA WithoutShape ==
  ASSUME ListTypeOK, NEW i \in 0..(Len(list) - 1)
  PROVE  /\ Without(i) \in Seq(Entries)
         /\ Len(Without(i)) = Len(list) - 1
         /\ \A j \in 1..(Len(list) - 1) :
               Without(i)[j] = IF j <= i THEN list[j] ELSE list[j + 1]
<1> DEFINE n == Len(list) - 1
<1>1. n \in Nat /\ \A j \in 1..(n + 1) : list[j] \in Entries
  BY DEF ListTypeOK
<1>2. Without(i) = [j \in 1..n |-> IF j <= i THEN list[j] ELSE list[j + 1]]
  BY DEF Without
<1>3. \A j \in 1..n : (IF j <= i THEN list[j] ELSE list[j + 1]) \in Entries
  BY <1>1
<1> HIDE DEF n
<1>4. Without(i) \in [1..n -> Entries]
  BY <1>2, <1>3
<1>5. Without(i) \in Seq(Entries) /\ Len(Without(i)) = n
  BY <1>1, <1>4
<1> QED
  BY <1>2, <1>5 DEF n

(* Every operation keeps the types of the list and of its index. *)
LEMMA ListTypeStep ==
  ASSUME MaxObs \in Nat
  PROVE  ListTypeOK /\ [ListNext]_<<list, index>> => ListTypeOK'
<1> SUFFICES ASSUME ListTypeOK, [ListNext]_<<list, index>>
             PROVE  ListTypeOK'
  OBVIOUS
<1>1. ASSUME NEW c \in Clients, NEW m \in Metas, Register(c, m)
      PROVE  ListTypeOK'
  <2>1. list' \in Seq(Entries) /\ Len(list') = Len(list) + 1 /\ Len(list) \in 0..MaxObs
    BY <1>1 DEF Register, ListTypeOK, Entries
  <2>2. index' \in [Clients -> [Metas -> (0..MaxObs) \cup {NoIndex}]]
    BY <1>1, <2>1 DEF Register, ListTypeOK
  <2> QED
    BY <1>1, <2>1, <2>2 DEF Register, ListTypeOK
<1>2. ASSUME NEW c \in Clients, NEW m \in Metas, Remove(c, m)
      PROVE  ListTypeOK'
  <2>1. PICK i \in 0..(Len(list) - 1) : list' = Without(i) /\ Reindexed(c, i)
    BY <1>2 DEF Remove
  <2>2. list' \in Seq(Entries) /\ Len(list') = Len(list) - 1
    BY <2>1, WithoutShape
  <2>3. index' \in [Clients -> [Metas -> (0..MaxObs) \cup {NoIndex}]]
    BY <2>1 DEF Reindexed
  <2> QED
    BY <2>2, <2>3 DEF ListTypeOK
<1>3. ASSUME RemoveEverything
      PROVE  ListTypeOK'
  BY <1>3 DEF RemoveEverything, NoIndexes, ListTypeOK
<1>4. CASE UNCHANGED <<list, index>>
  BY <1>4 DEF ListTypeOK
<1> QED
  BY <1>1, <1>2, <1>3, <1>4 DEF ListNext

(* The list and its index always have their types. *)
THEOREM ListTypeCorrect ==
  ASSUME MaxObs \in Nat
  PROVE  ListSpec => []ListTypeOK
<1>1. ListInit => ListTypeOK
  BY DEF ListInit, NoIndexes, ListTypeOK
<1>2. ListTypeOK /\ [ListNext]_<<list, index>> => ListTypeOK'
  BY ListTypeStep
<1> QED
  BY <1>1, <1>2, PTL DEF ListSpec

-----------------------------------------------------------------------------

(* A removal keeps the index sound: an observation of another client that  *)
(* did not move lies before the removed place, and one that moved has been *)
(* given its new place.                                                    *)
LEMMA RemoveKeepsIndex ==
  ASSUME ListTypeOK, ListTypeOK', IndexSound, NEW c \in Clients, NEW m \in Metas, Remove(c, m)
  PROVE  IndexSound'
<1>1. PICK i \in 0..(Len(list) - 1) :
         /\ list[i + 1] = [client |-> c, meta |-> m]
         /\ list' = Without(i)
         /\ Reindexed(c, i)
  BY DEF Remove
<1>2. /\ Len(list) \in Nat
      /\ Len(list') = Len(list) - 1
      /\ \A j \in 1..(Len(list) - 1) : list'[j] = IF j <= i THEN list[j] ELSE list[j + 1]
  <2>1. Len(list) \in Nat
    BY DEF ListTypeOK
  <2>2. /\ Len(Without(i)) = Len(list) - 1
        /\ \A j \in 1..(Len(list) - 1) :
              Without(i)[j] = IF j <= i THEN list[j] ELSE list[j + 1]
    BY WithoutShape
  <2> QED BY <1>1, <2>1, <2>2
<1> SUFFICES ASSUME NEW d \in Clients, NEW x \in Metas, index'[d][x] # NoIndex
             PROVE  /\ index'[d][x] < Len(list')
                    /\ list'[index'[d][x] + 1] = [client |-> d, meta |-> x]
  BY DEF IndexSound
<1>3. d # c
  BY <1>1 DEF Reindexed, NoIndexes
<1>4. CASE \E j \in i..(Len(list) - 2) :
             list'[j + 1] = [client |-> d, meta |-> x] /\ index'[d][x] = j
  BY <1>2, <1>4
<1>5. CASE /\ index'[d][x] = index[d][x]
           /\ \A j \in i..(Len(list) - 2) : list'[j + 1] # [client |-> d, meta |-> x]
  <2> DEFINE k == index[d][x]
  <2>1. k \in 0..MaxObs
    BY <1>5 DEF ListTypeOK
  <2>2. k < Len(list) /\ list[k + 1] = [client |-> d, meta |-> x]
    BY <1>5 DEF IndexSound
  <2>3. k # i
    BY <1>1, <1>3, <2>2
  <2>4. ~(k > i)
    <3> SUFFICES ASSUME k > i PROVE FALSE
      OBVIOUS
    <3>1. (k - 1) \in i..(Len(list) - 2)
      BY <1>2, <2>1, <2>2
    <3>2. list'[(k - 1) + 1] = list[k + 1]
      <4>1. k \in 1..(Len(list) - 1) /\ (k - 1) + 1 = k /\ ~(k <= i)
        BY <1>2, <2>1, <2>2
      <4>2. list'[k] = IF k <= i THEN list[k] ELSE list[k + 1]
        BY <1>2, <4>1
      <4> QED BY <4>1, <4>2
    <3> QED
      BY <1>5, <2>2, <3>1, <3>2
  <2>5. k < i
    BY <2>1, <2>3, <2>4
  <2>6. k + 1 \in 1..(Len(list) - 1) /\ k + 1 <= i
    BY <1>2, <2>1, <2>2, <2>5
  <2>7. list'[k + 1] = list[k + 1]
    BY <1>2, <2>6
  <2>8. k < Len(list')
    BY <1>2, <2>1, <2>6
  <2> QED
    BY <1>5, <2>2, <2>7, <2>8
<1> QED
  BY <1>1, <1>3, <1>4, <1>5 DEF Reindexed

(* An indexed observation is always in the list, at its index. *)
THEOREM ListIndexSound ==
  ASSUME MaxObs \in Nat
  PROVE  ListSpec => []IndexSound
<1>1. ListInit => IndexSound
  BY DEF ListInit, NoIndexes, IndexSound
<1>2. ListTypeOK /\ ListTypeOK' /\ IndexSound /\ [ListNext]_<<list, index>> => IndexSound'
  <2> SUFFICES ASSUME ListTypeOK, ListTypeOK', IndexSound, [ListNext]_<<list, index>>
               PROVE  IndexSound'
    OBVIOUS
  <2>1. ASSUME NEW c \in Clients, NEW m \in Metas, Register(c, m)
        PROVE  IndexSound'
    <3>1. /\ Len(list') = Len(list) + 1
          /\ list'[Len(list) + 1] = [client |-> c, meta |-> m]
          /\ \A j \in 1..Len(list) : list'[j] = list[j]
      BY <2>1 DEF Register, ListTypeOK, Entries
    <3>2. \A d \in Clients, x \in Metas :
            index'[d][x] = IF d = c /\ x = m THEN Len(list) ELSE index[d][x]
      BY <2>1 DEF Register, ListTypeOK
    <3>3. ASSUME NEW d \in Clients, NEW x \in Metas, index'[d][x] # NoIndex
          PROVE  /\ index'[d][x] < Len(list')
                 /\ list'[index'[d][x] + 1] = [client |-> d, meta |-> x]
      <4>1. Len(list) \in Nat
        BY DEF ListTypeOK
      <4>2. CASE d = c /\ x = m
        BY <3>1, <3>2, <4>1, <4>2
      <4>3. CASE ~(d = c /\ x = m)
        <5>1. index'[d][x] = index[d][x] /\ index[d][x] \in Nat
          BY <3>2, <3>3, <4>3 DEF ListTypeOK
        <5>2. index[d][x] < Len(list) /\ list[index[d][x] + 1] = [client |-> d, meta |-> x]
          BY <3>3, <5>1 DEF IndexSound
        <5> QED
          BY <3>1, <4>1, <5>1, <5>2
      <4> QED
        BY <4>2, <4>3
    <3> QED
      BY <3>3 DEF IndexSound
  <2>2. ASSUME NEW c \in Clients, NEW m \in Metas, Remove(c, m)
        PROVE  IndexSound'
    BY <2>2, RemoveKeepsIndex
  <2>3. ASSUME RemoveEverything
        PROVE  IndexSound'
    BY <2>3 DEF RemoveEverything, NoIndexes, IndexSound
  <2>4. CASE UNCHANGED <<list, index>>
    BY <2>4 DEF IndexSound
  <2> QED
    BY <2>1, <2>2, <2>3, <2>4 DEF ListNext
<1>3. ListSpec => []ListTypeOK
  BY ListTypeCorrect
<1> QED
  BY <1>1, <1>2, <1>3, PTL DEF ListSpec

=============================================================================
