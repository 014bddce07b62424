------------------------ MODULE MCReplicationMachine ------------------------
(* Small instances of ReplicationMachine for TLC. *)
EXTENDS ReplicationMachine

CONSTANTS t1, t2

OneTag  == {t1}
TwoTags == {t1, t2}

OneCron  == {NoCron, 2}
AllCrons == {NoCron, 2, 3, BadCron}

Trigger(m, s) == [manual |-> m, sched |-> s]
StartAny == {Trigger(NoTag, NoCron), Trigger(NoTag, 2), Trigger(t1, NoCron)}
=============================================================================
