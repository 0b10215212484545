---------------------------- MODULE VarLockProofs ----------------------------
(***************************************************************************)
(* Proofs about the locking of a variable, for any number of goroutines    *)
(* and any timeouts.                                                       *)
(***************************************************************************)
EXTENDS VarLock, TLAPS

Ops == [pc : Pcs, value : Values \cup {Empty}, ms : Timeouts \cup {0},
        age : 0..MaxAge, won : BOOLEAN]

(* A goroutine without a call, and one whose call just began. *)
LEMMA IdleTyped ==
  /\ Idle \in Ops
  /\ \A v \in Values : [Idle EXCEPT !.pc = "check", !.value = v] \in Ops
  /\ \A ms \in Timeouts : [Idle EXCEPT !.pc = "try", !.ms = ms] \in Ops
<1>1. 0 \in 0..MaxAge
  BY VarLockAssumption
<1>2. Idle \in Ops
  BY <1>1 DEF Idle, Ops, Pcs
<1>3. ASSUME NEW v \in Values
      PROVE  [Idle EXCEPT !.pc = "check", !.value = v] \in Ops
  BY <1>1 DEF Idle, Ops, Pcs
<1>4. ASSUME NEW ms \in Timeouts
      PROVE  [Idle EXCEPT !.pc = "try", !.ms = ms] \in Ops
  BY <1>1 DEF Idle, Ops, Pcs
<1> QED BY <1>2, <1>3, <1>4

(* The call records keep their type when a call goes on or returns. *)
LEMMA OpTyped ==
  ASSUME op \in [Procs -> Ops], NEW p \in Procs
  PROVE  /\ \A s \in Pcs : GoTo(p, s) => op' \in [Procs -> Ops]
         /\ Return(p) => op' \in [Procs -> Ops]
<1>1. ASSUME NEW s \in Pcs, GoTo(p, s)
      PROVE  op' \in [Procs -> Ops]
  <2>1. op[p] \in Ops
    OBVIOUS
  <2>2. [op[p] EXCEPT !.pc = s] \in Ops
    BY <2>1 DEF Ops
  <2> QED BY <1>1, <2>2 DEF GoTo
<1>2. ASSUME Return(p)
      PROVE  op' \in [Procs -> Ops]
  BY <1>2, IdleTyped DEF Return
<1> QED BY <1>1, <1>2

(* Every step keeps the types. *)
LEMMA VarLockTypeStep == VarLockTypeOK /\ [VarLockNext]_vars => VarLockTypeOK'
<1> SUFFICES ASSUME VarLockTypeOK, [VarLockNext]_vars
             PROVE  VarLockTypeOK'
  OBVIOUS
<1>0. op \in [Procs -> Ops]
  BY DEF VarLockTypeOK, Ops
<1>1. ASSUME NEW p \in Procs, Calls(p)
      PROVE  VarLockTypeOK'
  <2>1. ASSUME NEW v \in Values, SetVar(p, v) PROVE VarLockTypeOK'
    BY <2>1, <1>0, IdleTyped DEF SetVar, VarLockTypeOK, Ops, disk
  <2>2. ASSUME DelVar(p) PROVE VarLockTypeOK'
    BY <2>2 DEF DelVar, VarLockTypeOK, disk
  <2>3. ASSUME NEW ms \in Timeouts, LockVar(p, ms) PROVE VarLockTypeOK'
    BY <2>3, <1>0, IdleTyped DEF LockVar, VarLockTypeOK, Ops, disk
  <2>4. ASSUME UnlockVar(p) PROVE VarLockTypeOK'
    BY <2>4, <1>0, OpTyped DEF UnlockVar, VarLockTypeOK, Pcs, Ops, disk
  <2> QED BY <1>1, <2>1, <2>2, <2>3, <2>4 DEF Calls
<1>2. ASSUME NEW p \in Procs, LockSteps(p)
      PROVE  VarLockTypeOK'
  <2>1. ASSUME TryEnters(p) PROVE VarLockTypeOK'
    BY <2>1, <1>0, OpTyped DEF TryEnters, VarLockTypeOK, Pcs, Ops, disk
  <2>2. ASSUME TryTests(p) PROVE VarLockTypeOK'
    BY <2>2, <1>0, OpTyped DEF TryTests, VarLockTypeOK, Pcs, Ops, disk
  <2>3. ASSUME TrySets(p) PROVE VarLockTypeOK'
    BY <2>3, <1>0, OpTyped DEF TrySets, VarLockTypeOK, Pcs, Ops, disk
  <2>4. ASSUME TryRetests(p) PROVE VarLockTypeOK'
    <3>1. grants' \in 0..MaxGrants
      BY <2>4 DEF TryRetests, VarLockTypeOK, MaxGrants
    <3>2. [op[p] EXCEPT !.pc = "leave", !.won = flag] \in Ops
      BY <1>0 DEF VarLockTypeOK, Ops, Pcs
    <3>3. op' \in [Procs -> Ops]
      BY <2>4, <1>0, <3>2 DEF TryRetests
    <3> QED BY <2>4, <3>1, <3>3 DEF TryRetests, VarLockTypeOK, Ops, disk
  <2>5. ASSUME TryLeaves(p) PROVE VarLockTypeOK'
    BY <2>5, <1>0, OpTyped DEF TryLeaves, VarLockTypeOK, Pcs, Ops, disk
  <2>6. ASSUME GivesUp(p) PROVE VarLockTypeOK'
    BY <2>6, <1>0, OpTyped DEF GivesUp, VarLockTypeOK, Ops, disk
  <2>7. ASSUME BacksOff(p) PROVE VarLockTypeOK'
    BY <2>7, <1>0, OpTyped DEF BacksOff, VarLockTypeOK, Pcs, Ops, disk
  <2> QED BY <1>2, <2>1, <2>2, <2>3, <2>4, <2>5, <2>6, <2>7 DEF LockSteps
<1>3. ASSUME NEW p \in Procs, OtherSteps(p)
      PROVE  VarLockTypeOK'
  <2>1. ASSUME SetChecks(p) PROVE VarLockTypeOK'
    BY <2>1, <1>0, OpTyped DEF SetChecks, VarLockTypeOK, Pcs, Ops, disk
  <2>2. ASSUME SetWrites(p) PROVE VarLockTypeOK'
    BY <2>2, <1>0, OpTyped DEF SetWrites, VarLockTypeOK, Ops, disk
  <2>3. ASSUME UnlockEnters(p) PROVE VarLockTypeOK'
    BY <2>3, <1>0, OpTyped DEF UnlockEnters, VarLockTypeOK, Pcs, Ops, disk
  <2>4. ASSUME UnlockClears(p) PROVE VarLockTypeOK'
    <3>1. grants' \in 0..MaxGrants
      BY <2>4 DEF UnlockClears, MaxGrants
    <3>2. op' \in [Procs -> Ops]
      BY <2>4, <1>0, OpTyped DEF UnlockClears, Pcs
    <3> QED BY <2>4, <3>1, <3>2 DEF UnlockClears, VarLockTypeOK, Ops, disk
  <2>5. ASSUME UnlockLeaves(p) PROVE VarLockTypeOK'
    BY <2>5, <1>0, OpTyped DEF UnlockLeaves, VarLockTypeOK, Ops, disk
  <2> QED BY <1>3, <2>1, <2>2, <2>3, <2>4, <2>5 DEF OtherSteps
<1>4. ASSUME NEW p \in Procs, Tick(p)
      PROVE  VarLockTypeOK'
  BY <1>4, VarLockAssumption DEF Tick, VarLockTypeOK, disk
<1>5. ASSUME Dump PROVE VarLockTypeOK'
  BY <1>5 DEF Dump, VarLockTypeOK
<1>6. ASSUME Restart PROVE VarLockTypeOK'
  <2>1. op' \in [Procs -> Ops]
    BY <1>6, IdleTyped DEF Restart
  <2>2. grants' \in 0..MaxGrants
    BY <1>6 DEF Restart, MaxGrants
  <2> QED BY <1>6, <2>1, <2>2 DEF Restart, VarLockTypeOK, Ops
<1>7. CASE UNCHANGED vars
  BY <1>7 DEF vars, VarLockTypeOK
<1> QED
  BY <1>1, <1>2, <1>3, <1>4, <1>5, <1>6, <1>7 DEF VarLockNext

(* The state of a variable's lock always has its types. *)
THEOREM VarLockTypeCorrect == VarLockSpec => []VarLockTypeOK
<1>1. LockInit => VarLockTypeOK
  <2> SUFFICES ASSUME LockInit PROVE VarLockTypeOK
    OBVIOUS
  <2>1. grants \in 0..MaxGrants
    BY DEF LockInit, MaxGrants
  <2>2. op \in [Procs -> Ops]
    BY IdleTyped DEF LockInit
  <2> QED BY <2>1, <2>2 DEF LockInit, VarLockTypeOK, Ops
<1> QED
  BY <1>1, VarLockTypeStep, PTL DEF VarLockSpec

-----------------------------------------------------------------------------
(* The inductive invariant: the named lock protects the flag, and a call   *)
(* counts as barred only while the lock it met is granted.                 *)
BarredUnderGrant == barred # {} => grants > 0

VarLockInv == OneOwner /\ FlagHasOwner /\ FlagProtected /\ BarredUnderGrant /\ LockBarsLaterSets

(* Every step keeps it. *)
LEMMA VarLockInvStep ==
  ASSUME VarLockTypeOK, VarLockInv, [VarLockNext]_vars
  PROVE  VarLockInv'
<1> USE DEF VarLockTypeOK, VarLockInv, OneOwner, FlagHasOwner, FlagProtected, Critical, At, MaxGrants,
           BarredUnderGrant, LockBarsLaterSets, disk
<1>1. ASSUME NEW p \in Procs, Calls(p)
      PROVE  VarLockInv'
  <2>1. ASSUME NEW v \in Values, SetVar(p, v) PROVE VarLockInv'
    BY <2>1 DEF SetVar, Idle
  <2>2. ASSUME DelVar(p) PROVE VarLockInv'
    BY <2>2 DEF DelVar
  <2>3. ASSUME NEW ms \in Timeouts, LockVar(p, ms) PROVE VarLockInv'
    BY <2>3 DEF LockVar, Idle
  <2>4. ASSUME UnlockVar(p) PROVE VarLockInv'
    BY <2>4 DEF UnlockVar, GoTo
  <2> QED BY <1>1, <2>1, <2>2, <2>3, <2>4 DEF Calls
<1>2. ASSUME NEW p \in Procs, LockSteps(p)
      PROVE  VarLockInv'
  <2>1. ASSUME TryEnters(p) PROVE VarLockInv'
    BY <2>1, VarLockAssumption DEF TryEnters, GoTo
  <2>2. ASSUME TryTests(p) PROVE VarLockInv'
    BY <2>2 DEF TryTests, GoTo
  <2>3. ASSUME TrySets(p) PROVE VarLockInv'
    BY <2>3 DEF TrySets, GoTo
  <2>4. ASSUME TryRetests(p) PROVE VarLockInv'
    BY <2>4 DEF TryRetests
  <2>5. ASSUME TryLeaves(p) PROVE VarLockInv'
    BY <2>5 DEF TryLeaves, GoTo, Return, Idle
  <2>6. ASSUME GivesUp(p) PROVE VarLockInv'
    BY <2>6 DEF GivesUp, Return, Idle
  <2>7. ASSUME BacksOff(p) PROVE VarLockInv'
    BY <2>7 DEF BacksOff, GoTo
  <2> QED BY <1>2, <2>1, <2>2, <2>3, <2>4, <2>5, <2>6, <2>7 DEF LockSteps
<1>3. ASSUME NEW p \in Procs, OtherSteps(p)
      PROVE  VarLockInv'
  <2>1. ASSUME SetChecks(p) PROVE VarLockInv'
    BY <2>1 DEF SetChecks, GoTo, Return, Idle
  <2>2. ASSUME SetWrites(p) PROVE VarLockInv'
    BY <2>2 DEF SetWrites, Return, Idle
  <2>3. ASSUME UnlockEnters(p) PROVE VarLockInv'
    BY <2>3, VarLockAssumption DEF UnlockEnters, GoTo
  <2>4. ASSUME UnlockClears(p) PROVE VarLockInv'
    BY <2>4 DEF UnlockClears, GoTo
  <2>5. ASSUME UnlockLeaves(p) PROVE VarLockInv'
    BY <2>5 DEF UnlockLeaves, Return, Idle
  <2> QED BY <1>3, <2>1, <2>2, <2>3, <2>4, <2>5 DEF OtherSteps
<1>4. ASSUME NEW p \in Procs, Tick(p)
      PROVE  VarLockInv'
  BY <1>4 DEF Tick
<1>5. ASSUME Dump PROVE VarLockInv'
  BY <1>5 DEF Dump
<1>6. ASSUME Restart PROVE VarLockInv'
  BY <1>6 DEF Restart, Idle
<1>7. CASE UNCHANGED vars
  BY <1>7 DEF vars
<1> QED
  BY <1>1, <1>2, <1>3, <1>4, <1>5, <1>6, <1>7 DEF VarLockNext

(* VarLockInv holds in every reachable state. *)
LEMMA VarLockInvariant == VarLockSpec => []VarLockInv
<1>1. LockInit => VarLockInv
  BY DEF LockInit, Idle, VarLockInv, OneOwner, FlagHasOwner, FlagProtected, Critical, At,
         BarredUnderGrant, LockBarsLaterSets
<1>2. VarLockTypeOK /\ VarLockInv /\ [VarLockNext]_vars => VarLockInv'
  BY VarLockInvStep
<1> QED
  BY <1>1, <1>2, VarLockTypeCorrect, PTL DEF VarLockSpec

(* At most one LockVar succeeds between two clearings of the flag. *)
THEOREM VarLockOneOwner == VarLockSpec => []OneOwner
<1>1. VarLockInv => OneOwner
  BY DEF VarLockInv
<1> QED
  BY VarLockInvariant, <1>1, PTL

(* A set flag belongs to exactly one successful LockVar or to a process    *)
(* that died, and a successful LockVar to a set flag.                      *)
THEOREM VarLockFlagHasOwner == VarLockSpec => []FlagHasOwner
<1>1. VarLockInv => FlagHasOwner
  BY DEF VarLockInv
<1> QED
  BY VarLockInvariant, <1>1, PTL

(* A SetVar that begins under a granted lock writes nothing before the     *)
(* flag is cleared.                                                        *)
THEOREM VarLockBarsLaterSets == VarLockSpec => []LockBarsLaterSets
<1>1. VarLockInv => LockBarsLaterSets
  BY DEF VarLockInv
<1> QED
  BY VarLockInvariant, <1>1, PTL

-----------------------------------------------------------------------------
(* Timeouts *)

(* Timeouts are natural numbers. *)
LEMMA TimeoutsTyped == \A ms \in Timeouts \cup {0} : ms \in Nat
<1>1. \A w \in Nat : 0..w \subseteq Nat
  OBVIOUS
<1>2. 0..WordMax \subseteq Nat
  BY <1>1, VarLockAssumption
<1> QED BY <1>2, VarLockAssumption

(* Half of a natural number, rounded down. *)
LEMMA HalfOfNat == \A n \in Nat : n \div 2 \in Nat /\ 2 * (n \div 2) <= n
  OBVIOUS

(* A word is its own remainder. *)
LEMMA SmallRemainder ==
  ASSUME NEW x \in Nat, NEW w \in Nat, x < w
  PROVE  x % w = x
  OBVIOUS

(* A timeout that does not overflow is the one the loop waits for: a call  *)
(* that is timed out has waited at least what was asked.                   *)
LEMMA TimedOutWaited ==
  ASSUME VarLockTypeOK, NEW p \in Procs, TimedOut(p), ~Overflows(op[p].ms)
  PROVE  op[p].age >= Asked(p)
<1> DEFINE ms == op[p].ms
           age == op[p].age
           half == WordMax \div 2
<1>1. ms \in Timeouts \cup {0} /\ age \in Nat
  BY VarLockAssumption DEF VarLockTypeOK
<1>2. /\ ms \in Nat
      /\ NsPerMs \in Nat /\ NsPerMs > 0
      /\ DefaultMs \in Nat
      /\ half \in Nat /\ 2 * half <= WordMax /\ WordMax \in Nat
  <2>1. ms \in Nat
    BY <1>1, TimeoutsTyped
  <2>2. NsPerMs \in Nat /\ NsPerMs > 0 /\ DefaultMs \in Nat
    BY VarLockAssumption
  <2>3. WordMax \in Nat
    BY VarLockAssumption
  <2>4. half \in Nat /\ 2 * half <= WordMax
    BY <2>3, HalfOfNat
  <2> QED BY <2>1, <2>2, <2>3, <2>4
<1>3. ms * NsPerMs \in Nat /\ ms * NsPerMs <= half
  <2>1. ms * NsPerMs \in Nat
    BY <1>2
  <2>2. ~(ms * NsPerMs > half)
    BY DEF Overflows
  <2> QED BY <1>2, <2>1, <2>2
<1>4. age * NsPerMs >= MaxTimeout(ms)
  BY DEF TimedOut
<1>5. CASE ms = 0
  <2>1. Signed(ms) = 0
    BY <1>2, <1>5 DEF Signed
  <2>2. Signed((Signed(ms) * NsPerMs) % (WordMax + 1)) = 0
    BY <1>2, <1>5, <2>1 DEF Signed
  <2>3. age * NsPerMs >= DefaultMs * NsPerMs
    BY <1>4, <2>2 DEF MaxTimeout
  <2>4. age >= DefaultMs
    BY <1>1, <1>2, <2>3
  <2> QED BY <1>5, <2>4 DEF Asked
<1>6. CASE ms > 0
  <2>1. ms <= ms * NsPerMs
    BY <1>2, <1>6
  <2>2. Signed(ms) = ms
    BY <1>2, <1>3, <2>1 DEF Signed
  <2>3. (ms * NsPerMs) % (WordMax + 1) = ms * NsPerMs
    <3> DEFINE d == ms * NsPerMs
    <3>1. d \in Nat /\ d < WordMax + 1
      BY <1>2, <1>3
    <3>2. WordMax + 1 \in Nat
      BY <1>2
    <3> HIDE DEF d
    <3>3. d % (WordMax + 1) = d
      BY <3>1, <3>2, SmallRemainder
    <3> QED BY <3>3 DEF d
  <2>4. Signed(ms * NsPerMs) = ms * NsPerMs
    BY <1>2, <1>3 DEF Signed
  <2>5. ms * NsPerMs # 0
    BY <1>2, <1>6, <2>1
  <2>6. MaxTimeout(ms) = ms * NsPerMs
    BY <2>2, <2>3, <2>4, <2>5 DEF MaxTimeout
  <2>7. age >= ms
    BY <1>1, <1>2, <1>4, <2>6
  <2> QED BY <1>6, <2>7 DEF Asked
<1> QED BY <1>2, <1>5, <1>6

(* For every width of the word, every length of a millisecond and every    *)
(* set of timeouts: only a timeout that overflows makes LockVar give up    *)
(* before it is over.                                                      *)
THEOREM VarLockEarlyOnlyIfOverflows == VarLockSpec => []EarlyOnlyIfOverflows
<1>1. LockInit => EarlyOnlyIfOverflows
  BY DEF LockInit, EarlyOnlyIfOverflows
<1>2. ASSUME VarLockTypeOK, EarlyOnlyIfOverflows, [VarLockNext]_vars
      PROVE  EarlyOnlyIfOverflows'
  <2>1. ASSUME NEW p \in Procs, GivesUp(p) PROVE EarlyOnlyIfOverflows'
    <3>1. op[p].age \in Nat /\ Asked(p) \in Nat
      <4>1. op[p].age \in 0..MaxAge /\ op[p].ms \in Timeouts \cup {0}
        BY <1>2 DEF VarLockTypeOK
      <4>2. op[p].age \in Nat
        BY <4>1, VarLockAssumption
      <4>3. op[p].ms \in Nat /\ DefaultMs \in Nat
        BY <4>1, TimeoutsTyped, VarLockAssumption
      <4> QED BY <4>2, <4>3 DEF Asked
    <3>2. CASE op[p].age < Asked(p)
      <4>1. ~(op[p].age >= Asked(p))
        BY <3>1, <3>2
      <4>2. Overflows(op[p].ms)
        BY <1>2, <2>1, <4>1, TimedOutWaited DEF GivesUp
      <4>3. early' = early \cup {op[p].ms}
        BY <2>1, <3>2 DEF GivesUp
      <4> QED BY <1>2, <4>2, <4>3, Zenon DEF EarlyOnlyIfOverflows
    <3>3. CASE ~(op[p].age < Asked(p))
      BY <1>2, <2>1, <3>3 DEF GivesUp, EarlyOnlyIfOverflows
    <3> QED BY <3>2, <3>3
  <2>2. CASE UNCHANGED early
    BY <1>2, <2>2 DEF EarlyOnlyIfOverflows
  <2>3. UNCHANGED early \/ \E p \in Procs : GivesUp(p)
    BY <1>2 DEF VarLockNext, Calls, LockSteps, OtherSteps, SetVar, DelVar, LockVar, UnlockVar,
       TryEnters, TryTests, TrySets, TryRetests, TryLeaves, BacksOff, SetChecks, SetWrites,
       UnlockEnters, UnlockClears, UnlockLeaves, Tick, Dump, Restart, vars
  <2> QED BY <2>1, <2>2, <2>3
<1>3. VarLockTypeOK /\ EarlyOnlyIfOverflows /\ [VarLockNext]_vars => EarlyOnlyIfOverflows'
  BY <1>2
<1> QED
  BY <1>1, <1>3, VarLockTypeCorrect, PTL DEF VarLockSpec

=============================================================================
