----------------------------- MODULE NamedLock -----------------------------
(***************************************************************************)
(* misc/namedlock.go: locks by name, each a buffered channel of capacity 1 *)
(* that holds one token while the lock is free.  Channels are created on   *)
(* the first use of a name and are never removed from the map.             *)
(*                                                                         *)
(* A goroutine inside NamedLockRun moves through                           *)
(*    idle -> waiting (acquireNamedLock) -> inside (f) -> idle.            *)
(* The map's own mutex namedLocks.mu is held only for the map lookup, so   *)
(* the lookup is one atomic step.                                          *)
(***************************************************************************)
EXTENDS Naturals

CONSTANTS Procs,    \* goroutines that call NamedLockRun
          Names,    \* lock names
          Free      \* no goroutine, no name

ASSUME FreeIsNoProc == Free \notin Procs

VARIABLES made,     \* names that have a channel in namedLocks.locks
          tokens,   \* tokens[n]: what the channel of n holds
          pc,       \* where each goroutine is in NamedLockRun
          call      \* the arguments of its call: name, and whether timeout > 0

vars == <<made, tokens, pc, call>>

Capacity == 1       \* make(chan struct{}, 1)

Calls == [name : Names, timed : BOOLEAN]

NoCall == [name |-> Free, timed |-> FALSE]

NamedLockInit ==
    /\ made = {}
    /\ tokens = [n \in Names |-> 0]
    /\ pc = [p \in Procs |-> "idle"]
    /\ call = [p \in Procs |-> NoCall]

-----------------------------------------------------------------------------
(* The call is over: NamedLockRun returns to its caller. *)
Return(p) ==
    /\ pc' = [pc EXCEPT ![p] = "idle"]
    /\ call' = [call EXCEPT ![p] = NoCall]

(* Broken variant: a channel made outside the mutex, so that each of two   *)
(* first users may install one of its own.                                 *)
FindChannelAlwaysNew(n) ==
    /\ made' = made \cup {n}
    /\ tokens' = [tokens EXCEPT ![n] = 1]

(* Broken variant: the token is forgotten when the channel is made. *)
FindChannelEmpty(n) ==
    /\ made' = made \cup {n}
    /\ UNCHANGED tokens

(* acquireNamedLock, up to namedLocks.mu.Unlock(): find the channel of the *)
(* name or make one with its token in it.                                  *)
FindChannel(n) ==
    /\ made' = made \cup {n}
    /\ tokens' = IF n \in made THEN tokens ELSE [tokens EXCEPT ![n] = 1]

Lookup(p, n, timed) ==
    /\ pc[p] = "idle"
    /\ FindChannel(n)
    /\ pc' = [pc EXCEPT ![p] = "waiting"]
    /\ call' = [call EXCEPT ![p] = [name |-> n, timed |-> timed]]

(* The receive <-ch, alone or as a case of the select: takes the token.    *)
Take(p) ==
    /\ pc[p] = "waiting"
    /\ tokens[call[p].name] > 0
    /\ tokens' = [tokens EXCEPT ![call[p].name] = @ - 1]
    /\ pc' = [pc EXCEPT ![p] = "inside"]
    /\ UNCHANGED <<made, call>>

(* releaseNamedLock: put the token back, or drop it if the channel is full. *)
PutToken(n) ==
    tokens' = [tokens EXCEPT ![n] = IF @ < Capacity THEN @ + 1 ELSE @]

(* case <-time.After(timeout): NamedLockRun returns an error, f never runs. *)
(* The timer may fire with a token available: select then picks any case.  *)
TimeOut(p) ==
    /\ pc[p] = "waiting"
    /\ call[p].timed
    /\ Return(p)
    /\ UNCHANGED <<made, tokens>>

(* Broken variant: f ends (say, by a panic) and nothing releases the lock.  *)
ReleaseSkipped(p) ==
    /\ pc[p] = "inside"
    /\ Return(p)
    /\ UNCHANGED <<made, tokens>>

(* f returned or panicked, and the deferred releaseNamedLock runs.          *)
Release(p) ==
    /\ pc[p] = "inside"
    /\ PutToken(call[p].name)
    /\ Return(p)
    /\ UNCHANGED made

NamedLockNext ==
    \E p \in Procs :
        \/ \E n \in Names, timed \in BOOLEAN : Lookup(p, n, timed)
        \/ Take(p)
        \/ TimeOut(p)
        \/ Release(p)

NamedLockSpec == NamedLockInit /\ [][NamedLockNext]_vars

(* Fairness.  f returns: every function run under a named lock is a finite *)
(* sequence of storage calls.  Receivers blocked on a Go channel are       *)
(* queued and served in order, so a receiver that is again and again able  *)
(* to take the token gets it (strong fairness of Take).  Timers fire.      *)
LockFairness ==
    \A p \in Procs : SF_vars(Take(p)) /\ WF_vars(Release(p)) /\ WF_vars(TimeOut(p))

NamedLockFairSpec == NamedLockSpec /\ LockFairness

-----------------------------------------------------------------------------
(* Properties *)

InsideOf(p, n) == pc[p] = "inside" /\ call[p].name = n

(* Types: at most one token per channel, and only a caller has arguments.  *)
NamedLockTypeOK ==
    /\ made \subseteq Names
    /\ tokens \in [Names -> 0..Capacity]
    /\ pc \in [Procs -> {"idle", "waiting", "inside"}]
    /\ call \in [Procs -> Calls \cup {NoCall}]
    /\ \A p \in Procs : pc[p] # "idle" => call[p] \in Calls /\ call[p].name \in made

(* At most one goroutine runs under a name at a time, whatever timeouts and *)
(* first-use races happen: the promise of NamedLockRun.                    *)
MutualExclusion ==
    \A n \in Names : \A p, q \in Procs : InsideOf(p, n) /\ InsideOf(q, n) => p = q

(* The token of a created lock is either in its channel or with exactly    *)
(* one goroutine: it is never lost (which would block the name for ever)   *)
(* nor doubled.  This is what makes mutual exclusion inductive.            *)
TokenConserved ==
    \A n \in made : (tokens[n] = 0) <=> (\E p \in Procs : InsideOf(p, n))

(* releaseNamedLock says it must "avoid blocking if double-release": no    *)
(* release of NamedLockRun ever meets a full channel, so the default       *)
(* branch that would hide a double release is dead code.                   *)
NoDoubleRelease ==
    [][\A p \in Procs : pc[p] = "inside" /\ pc'[p] = "idle" => tokens[call[p].name] = 0]_vars

(* Every caller of NamedLockRun stops waiting: it gets the lock or, with a *)
(* timeout, gives up.  No token is lost and nobody is starved.             *)
WaitersAreServed == \A p \in Procs : (pc[p] = "waiting") ~> (pc[p] # "waiting")

(* The abstract view: who is inside. *)
holderOf ==
    [n \in Names |-> IF \E p \in Procs : InsideOf(p, n)
                     THEN CHOOSE p \in Procs : InsideOf(p, n)
                     ELSE Free]

Abstract == INSTANCE Mutex WITH holder <- holderOf

(* The token machinery implements the abstract mutex the other modules use. *)
ImplementsMutex == Abstract!MutexSpec

=============================================================================
