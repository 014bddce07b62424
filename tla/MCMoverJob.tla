----------------------------- MODULE MCMoverJob -----------------------------
EXTENDS MoverJob

CONSTANTS u1, u2, c1, c2

S(kind, role, copy) == [kind |-> kind, role |-> role, copy |-> copy]

\* every mover, in both roles and with a snapshot as the destination's image
\* except for Kopia, whose restore into a snapshot is looked at on its own
AllSetups ==
  {S(kind, "source", "Direct") : kind \in Kinds} \cup
  {S(kind, "destination", "Snapshot") : kind \in Kinds \ {"kopia"}} \cup
  {S("kopia", "destination", "Direct")}

KopiaRestore == {S("kopia", "destination", "Snapshot")}
ResticRestore == {S("restic", "destination", "Snapshot")}
=============================================================================
