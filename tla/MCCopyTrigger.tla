--------------------------- MODULE MCCopyTrigger ---------------------------
(* Small instances of CopyTrigger for TLC. *)
EXTENDS CopyTrigger

CONSTANTS t1, t2

TwoTags == {t1, t2}

WhenAsked == {"WaitingForTrigger"}
Ahead     == {"WaitingForTrigger", "Completed"}
=============================================================================
