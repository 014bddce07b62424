------------------------- MODULE MCResticRepository -------------------------
EXTENDS ResticRepository, TLC

CONSTANTS p1, p2, b1, b2

Symmetry == Permutations({p1, p2}) \cup Permutations({b1, b2})

\* the storage loses a pack while no command runs
LosePack ==
  /\ \A p \in Procs : At(p, "idle")
  /\ Described(indexes) \subseteq packs
  /\ \E pk \in packs : packs' = packs \ {pk}
  /\ UNCHANGED <<indexes, snapshots, held, proc>>

DamagedSpec == Init /\ [][Next \/ LosePack]_vars
=============================================================================
