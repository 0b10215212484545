------------------------------- MODULE Mutex -------------------------------
(***************************************************************************)
(* What the rest of VSS expects from misc/namedlock.go: for every name, at *)
(* most one goroutine runs the function it gave to NamedLockRun, and the   *)
(* lock of a name can be taken again as soon as that function returned.    *)
(* The other modules of this project use this view of a named lock: a      *)
(* variable that holds the goroutine inside, or a "free" mark.             *)
(***************************************************************************)

CONSTANTS Procs,    \* goroutines
          Names,    \* lock names
          Free      \* mark of a lock nobody holds

VARIABLE holder     \* holder[n]: the goroutine that runs under the lock n

MutexInit == holder = [n \in Names |-> Free]

Enter(p, n) ==
    /\ holder[n] = Free
    /\ holder' = [holder EXCEPT ![n] = p]

Leave(p, n) ==
    /\ holder[n] = p
    /\ holder' = [holder EXCEPT ![n] = Free]

MutexNext == \E p \in Procs, n \in Names : Enter(p, n) \/ Leave(p, n)

MutexSpec == MutexInit /\ [][MutexNext]_holder

=============================================================================
