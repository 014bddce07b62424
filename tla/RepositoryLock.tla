--------------------------- MODULE RepositoryLock ---------------------------
(***************************************************************************)
(* What restic's repository lock promises: any number of processes may     *)
(* work under a shared lock, one may work under the exclusive lock, and    *)
(* never both.  ResticLock implements it; ResticRepository relies on it.   *)
(***************************************************************************)
CONSTANT Procs

VARIABLE held   \* the lock each process works under

Modes == {"shared", "exclusive"}

Compatible(p, mode) ==
  \A q \in Procs \ {p} :
    \/ held[q] = "none"
    \/ held[q] = "shared" /\ mode = "shared"

Init == held = [p \in Procs |-> "none"]

Acquire(p, mode) ==
  /\ held[p] = "none"
  /\ Compatible(p, mode)
  /\ held' = [held EXCEPT ![p] = mode]

\* time may run out for several at once
Release(S) ==
  /\ \A p \in S : held[p] # "none"
  /\ held' = [p \in Procs |-> IF p \in S THEN "none" ELSE held[p]]

Next ==
  \/ \E p \in Procs, mode \in Modes : Acquire(p, mode)
  \/ \E S \in SUBSET Procs : Release(S)

Spec == Init /\ [][Next]_held
=============================================================================
