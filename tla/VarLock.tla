------------------------------- MODULE VarLock -------------------------------
(***************************************************************************)
(* Locking of one variable: SetVar, DelVar, LockVar and UnlockVar of       *)
(* controller.go over IsLocked, Lock and Unlock of controller_varhelper.go. *)
(*                                                                         *)
(* Each call runs in its own goroutine.  A step is one storage call, one   *)
(* operation on the named lock "varLockerSystem" (the Mutex of NamedLock), *)
(* or one decision of the retry loop.  Lock and Unlock change the flag     *)
(* "_lock" under the named lock; SetVar tests it without, and then writes. *)
(*                                                                         *)
(* Time is counted in milliseconds since the start of a Lock call (age).   *)
(* The timeout of the loop is a time.Duration, a signed machine word.      *)
(***************************************************************************)
EXTENDS Integers, FiniteSets

CONSTANTS Procs,        \* goroutines that serve calls
          Values,       \* non-empty values of the variable
          Empty,        \* no value
          Timeouts,     \* timeouts callers ask for, in ms (words)
          Width,        \* bits of uint and of time.Duration
          NsPerMs,      \* time.Millisecond
          DefaultMs,    \* the 30 s of a zero timeout, in ms
          MaxAge,       \* bound on the time counted for a call
          Free          \* nobody holds "varLockerSystem"

WordMax == 2^Width - 1

ASSUME VarLockAssumption ==
    /\ Width \in Nat \ {0}
    /\ WordMax \in Nat
    /\ NsPerMs \in Nat \ {0}
    /\ DefaultMs \in Nat \ {0}
    /\ MaxAge \in Nat
    /\ Timeouts \subseteq 0..WordMax
    /\ Free \notin Procs
    /\ Empty \notin Values

VARIABLES value,        \* vars.<name>
          flag,         \* vars.<name>._lock: TRUE for "1", FALSE for "0" or no node
          holder,       \* who holds "varLockerSystem"
          op,           \* the call each goroutine serves
          grants,       \* history: calls granted since the flag was last cleared
          barred,       \* history: SetVar calls that began under a granted lock not cleared since
          early,        \* history: timeouts whose Lock call gave up before them
          saved,        \* the flag in the last dump of the storage
          orphan        \* history: the flag is set by a process that died

vars == <<value, flag, holder, op, grants, barred, early, saved, orphan>>
disk == <<saved, orphan>>

(* A word read as a signed integer, in two's complement. *)
Signed(x) == IF x > WordMax \div 2 THEN x - (WordMax + 1) ELSE x

(* time.Duration(waitTimeout_ms) * time.Millisecond, 0 meaning 30 s. *)
MaxTimeout(ms) ==
    LET d == Signed((Signed(ms) * NsPerMs) % (WordMax + 1))
    IN  IF d = 0 THEN DefaultMs * NsPerMs ELSE d

(* Two grants are enough to be wrong: the history counts no further. *)
MaxGrants == 2

Idle == [pc |-> "idle", value |-> Empty, ms |-> 0, age |-> 0, won |-> FALSE]

LockInit ==
    /\ value = Empty
    /\ flag = FALSE
    /\ holder = Free
    /\ op = [p \in Procs |-> Idle]
    /\ grants = 0
    /\ barred = {}
    /\ early = {}
    /\ saved = FALSE
    /\ orphan = FALSE

At(p, pc) == op[p].pc = pc
GoTo(p, pc) == op' = [op EXCEPT ![p].pc = pc]
Return(p) == op' = [op EXCEPT ![p] = Idle]

-----------------------------------------------------------------------------
(* SetVar.  A call whose name or value its checks refuse returns without   *)
(* touching anything and is not shown.                                     *)

SetVar(p, v) ==
    /\ At(p, "idle")
    /\ op' = [op EXCEPT ![p] = [Idle EXCEPT !.pc = "check", !.value = v]]
    /\ barred' = IF grants > 0 THEN barred \cup {p} ELSE barred \ {p}
    /\ UNCHANGED <<value, flag, holder, grants, early, disk>>

(* Broken variant: the flag is not looked at. *)
SetChecksNothing(p) ==
    /\ At(p, "check")
    /\ GoTo(p, "write")
    /\ UNCHANGED <<value, flag, holder, grants, barred, early, disk>>

(* vh.IsLocked(): an error if locked.  Nothing is held afterwards. *)
SetChecks(p) ==
    /\ At(p, "check")
    /\ IF flag THEN Return(p) ELSE GoTo(p, "write")
    /\ UNCHANGED <<value, flag, holder, grants, barred, early, disk>>

(* vh.SetValue(value) *)
SetWrites(p) ==
    /\ At(p, "write")
    /\ value' = op[p].value
    /\ Return(p)
    /\ UNCHANGED <<flag, holder, grants, barred, early, disk>>

(* DelVar of this one name: DeleteValue, whatever the flag says. *)
DelVar(p) ==
    /\ At(p, "idle")
    /\ value' = Empty
    /\ UNCHANGED <<flag, holder, op, grants, barred, early, disk>>

-----------------------------------------------------------------------------
(* LockVar *)

LockVar(p, ms) ==
    /\ At(p, "idle")
    /\ op' = [op EXCEPT ![p] = [Idle EXCEPT !.pc = "try", !.ms = ms]]
    /\ UNCHANGED <<value, flag, holder, grants, barred, early, disk>>

(* Broken variant: the test and the set are not under the named lock. *)
TryEntersUnlocked(p) ==
    /\ At(p, "try")
    /\ GoTo(p, "test")
    /\ UNCHANGED <<value, flag, holder, grants, barred, early, disk>>

(* tryLock: NamedLockRun("varLockerSystem", 0, ...) waits for the lock. *)
TryEnters(p) ==
    /\ At(p, "try")
    /\ holder = Free
    /\ holder' = p
    /\ GoTo(p, "test")
    /\ UNCHANGED <<value, flag, grants, barred, early, disk>>

TryTests(p) ==
    /\ At(p, "test")
    /\ GoTo(p, IF flag THEN "leave" ELSE "set")
    /\ UNCHANGED <<value, flag, holder, grants, barred, early, disk>>

TrySets(p) ==
    /\ At(p, "set")
    /\ flag' = TRUE
    /\ GoTo(p, "retest")
    /\ UNCHANGED <<value, holder, grants, barred, early, disk>>

(* locked = c.IsLocked() *)
TryRetests(p) ==
    /\ At(p, "retest")
    /\ op' = [op EXCEPT ![p].pc = "leave", ![p].won = flag]
    /\ grants' = IF flag /\ grants < MaxGrants THEN grants + 1 ELSE grants
    /\ UNCHANGED <<value, flag, holder, barred, early, disk>>

(* The named lock is released; success is reported, or time looked at. *)
TryLeaves(p) ==
    /\ At(p, "leave")
    /\ holder' = Free
    /\ IF op[p].won THEN Return(p) ELSE GoTo(p, "decide")
    /\ UNCHANGED <<value, flag, grants, barred, early, disk>>

TimedOut(p) == op[p].age * NsPerMs >= MaxTimeout(op[p].ms)

(* What the caller asked for, in ms. *)
Asked(p) == IF op[p].ms = 0 THEN DefaultMs ELSE op[p].ms

(* Broken variant: the loop never looks at the clock. *)
NeverGivesUp(p) ==
    /\ FALSE
    /\ UNCHANGED vars

(* Broken variant: a lock that is taken is a time-out at once. *)
GivesUpAtOnce(p) ==
    /\ At(p, "decide")
    /\ early' = IF op[p].age < Asked(p) THEN early \cup {op[p].ms} ELSE early
    /\ Return(p)
    /\ UNCHANGED <<value, flag, holder, grants, barred, disk>>

(* time.Since(start) >= maxTimeout: "timeout reached" *)
GivesUp(p) ==
    /\ At(p, "decide")
    /\ TimedOut(p)
    /\ early' = IF op[p].age < Asked(p) THEN early \cup {op[p].ms} ELSE early
    /\ Return(p)
    /\ UNCHANGED <<value, flag, holder, grants, barred, disk>>

(* time.Sleep(...), then again. *)
BacksOff(p) ==
    /\ At(p, "decide")
    /\ ~TimedOut(p)
    /\ GoTo(p, "try")
    /\ UNCHANGED <<value, flag, holder, grants, barred, early, disk>>

(* A millisecond passes for a Lock call. *)
Tick(p) ==
    /\ op[p].pc \in {"try", "test", "set", "retest", "leave", "decide"}
    /\ op[p].age < MaxAge
    /\ op' = [op EXCEPT ![p].age = @ + 1]
    /\ UNCHANGED <<value, flag, holder, grants, barred, early, disk>>

-----------------------------------------------------------------------------
(* UnlockVar: any client, the lock's owner or not. *)

UnlockVar(p) ==
    /\ At(p, "idle")
    /\ GoTo(p, "unlock")
    /\ UNCHANGED <<value, flag, holder, grants, barred, early, disk>>

(* Broken variant: Unlock clears the flag without the named lock. *)
UnlockEntersUnlocked(p) ==
    /\ At(p, "unlock")
    /\ GoTo(p, "clear")
    /\ UNCHANGED <<value, flag, holder, grants, barred, early, disk>>

UnlockEnters(p) ==
    /\ At(p, "unlock")
    /\ holder = Free
    /\ holder' = p
    /\ GoTo(p, "clear")
    /\ UNCHANGED <<value, flag, grants, barred, early, disk>>

UnlockClears(p) ==
    /\ At(p, "clear")
    /\ flag' = FALSE
    /\ grants' = 0
    /\ barred' = {}
    /\ orphan' = FALSE
    /\ GoTo(p, "done")
    /\ UNCHANGED <<value, holder, early, saved>>

UnlockLeaves(p) ==
    /\ At(p, "done")
    /\ holder' = Free
    /\ Return(p)
    /\ UNCHANGED <<value, flag, grants, barred, early, disk>>

-----------------------------------------------------------------------------
(* The storage: the flag is a value like any other, so a dump keeps it and *)
(* a restart brings it back without the client that asked for it.          *)

Dump ==
    /\ saved' = flag
    /\ UNCHANGED <<value, flag, holder, op, grants, barred, early, orphan>>

Restart ==
    /\ flag' = saved
    /\ value' \in Values \cup {Empty}
    /\ holder' = Free
    /\ op' = [p \in Procs |-> Idle]
    /\ grants' = 0
    /\ barred' = {}
    /\ orphan' = saved
    /\ UNCHANGED <<early, saved>>

-----------------------------------------------------------------------------
Calls(p) ==
    \/ \E v \in Values : SetVar(p, v)
    \/ DelVar(p)
    \/ \E ms \in Timeouts : LockVar(p, ms)
    \/ UnlockVar(p)

LockSteps(p) ==
    \/ TryEnters(p) \/ TryTests(p) \/ TrySets(p) \/ TryRetests(p) \/ TryLeaves(p)
    \/ GivesUp(p) \/ BacksOff(p)

OtherSteps(p) ==
    \/ SetChecks(p) \/ SetWrites(p)
    \/ UnlockEnters(p) \/ UnlockClears(p) \/ UnlockLeaves(p)

VarLockNext ==
    \/ \E p \in Procs : Calls(p) \/ LockSteps(p) \/ OtherSteps(p) \/ Tick(p)
    \/ Dump
    \/ Restart

VarLockSpec == LockInit /\ [][VarLockNext]_vars

(* A goroutine that can go on does (Go runs them all), clocks advance, and *)
(* the channel behind "varLockerSystem" serves its receivers in order, so  *)
(* entering it is strongly fair.                                           *)
VarLockFairSpec ==
    /\ VarLockSpec
    /\ \A p \in Procs :
          /\ WF_vars(LockSteps(p))
          /\ WF_vars(OtherSteps(p))
          /\ WF_vars(Tick(p))
          /\ SF_vars(TryEnters(p))
          /\ SF_vars(UnlockEnters(p))

-----------------------------------------------------------------------------
(* Properties *)

Pcs == {"idle", "check", "write", "try", "test", "set", "retest", "leave", "decide",
        "unlock", "clear", "done"}

(* Types of the variable, its lock and the calls in progress. *)
VarLockTypeOK ==
    /\ value \in Values \cup {Empty}
    /\ flag \in BOOLEAN
    /\ holder \in Procs \cup {Free}
    /\ op \in [Procs -> [pc : Pcs, value : Values \cup {Empty}, ms : Timeouts \cup {0},
                         age : 0..MaxAge, won : BOOLEAN]]
    /\ grants \in 0..MaxGrants
    /\ barred \subseteq Procs
    /\ early \subseteq Timeouts \cup {0}
    /\ saved \in BOOLEAN
    /\ orphan \in BOOLEAN

(* Between two clearings of the flag at most one LockVar succeeds, however *)
(* Lock, Unlock, SetVar and DelVar interleave.                             *)
OneOwner == grants <= 1

(* The flag and the grants agree: a granted lock is a set flag, and a set  *)
(* flag has been, or is about to be, reported to exactly one caller, or    *)
(* outlived the process that set it; then nobody has the lock, nor gets it *)
(* before an UnlockVar.  A flag set on behalf of nobody would lock the     *)
(* variable for good.                                                      *)
FlagHasOwner ==
    /\ grants > 0 => flag
    /\ flag => \/ grants > 0
               \/ orphan
               \/ \E p \in Procs : holder = p /\ At(p, "retest")
    /\ orphan => flag /\ grants = 0

(* Why they hold: whoever is between entering and leaving holds the named  *)
(* lock, so nobody else changes the flag between a test and its set.       *)
Critical == {"test", "set", "retest", "leave", "clear", "done"}

FlagProtected ==
    /\ \A p \in Procs : op[p].pc \in Critical => holder = p
    /\ \A p \in Procs : op[p].pc = "set" => ~flag
    /\ \A p \in Procs : op[p].pc = "retest" => flag /\ grants = 0 /\ ~orphan

(* The timeouts a time.Duration cannot hold: their product with a          *)
(* millisecond leaves the signed word.                                     *)
Overflows(ms) == ms * NsPerMs > WordMax \div 2

(* The wait is right wherever it can be: a LockVar that gives up before    *)
(* its timeout was given one that overflows, through whatever wraps        *)
(* MaxTimeout makes of the word on the way.                                *)
EarlyOnlyIfOverflows == \A ms \in early : Overflows(ms)

(* Every LockVar returns, with the lock or with "timeout reached". *)
LockVarReturns == \A p \in Procs : (op[p].pc = "try") ~> (op[p].pc = "idle")

(* controller.go:116, "It returns an error if the variable is internal     *)
(* (starts with '_') or locked": a SetVar that begins once a LockVar has   *)
(* been granted writes nothing before the flag is cleared.  (One that had  *)
(* passed its check still writes.)                                         *)
LockBarsLaterSets == \A p \in barred : ~At(p, "write")

=============================================================================
