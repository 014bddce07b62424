------------------------------ MODULE SyncCycle ------------------------------
(***************************************************************************)
(* What the synchronization state machine promises to whoever watches the  *)
(* status of a ReplicationSource or ReplicationDestination: it alternates  *)
(* between synchronizing and cleaning up, it reports a synchronization as  *)
(* over only when data was moved during that synchronization, it acknow-   *)
(* ledges a manual trigger only at that moment, and it never starts the    *)
(* next one with the leftovers of the previous one still in place.         *)
(***************************************************************************)
CONSTANT Acks   \* the values status.lastManualSync can take

VARIABLES
  phase,   \* "initial", "synchronizing" or "cleaningup"
  moved,   \* a transfer has succeeded and has not been cleaned up
  ack      \* status.lastManualSync

vars == <<phase, moved, ack>>

Init ==
  /\ phase = "initial"
  /\ moved = FALSE
  /\ ack \in Acks

Start ==
  /\ phase \in {"initial", "cleaningup"}
  /\ ~moved
  /\ phase' = "synchronizing"
  /\ UNCHANGED <<moved, ack>>

Transfer ==
  /\ phase = "synchronizing"
  /\ ~moved
  /\ moved' = TRUE
  /\ UNCHANGED <<phase, ack>>

Complete ==
  /\ phase = "synchronizing"
  /\ moved
  /\ phase' = "cleaningup"
  /\ ack' \in Acks
  /\ UNCHANGED moved

CleanUp ==
  /\ phase = "cleaningup"
  /\ moved
  /\ moved' = FALSE
  /\ UNCHANGED <<phase, ack>>

Next == Start \/ Transfer \/ Complete \/ CleanUp

Spec == Init /\ [][Next]_vars
=============================================================================
