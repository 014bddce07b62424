------------------------- MODULE MCKopiaMaintenance -------------------------
(* Small instances of KopiaMaintenance for TLC. *)
EXTENDS KopiaMaintenance

CONSTANTS t1, t2, a, b

TwoTags == {t1, t2}
OneShape == {a}
TwoShapes == {a, b}

Everything == {"manual", "enabled", "suspend", "valid", "shape", "deleting",
               "reset"}
Triggers == {"manual", "reset"}
=============================================================================
