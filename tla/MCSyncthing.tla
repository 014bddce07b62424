---------------------------- MODULE MCSyncthing -----------------------------
EXTENDS Syncthing

CONSTANTS me, a, b, c, x, y

\* Another spelling of b and of the own id, and a string that is no id.
CONSTANTS me2, b2, bad

Spellings ==
  [s \in Listable |-> CASE s = me2 -> me [] s = b2 -> b [] s = bad -> NotAnId
                        [] OTHER -> s]
=============================================================================
