------------------------------- MODULE MCGoto -------------------------------
\* Values for Goto: two slews, so that one can be followed by the other while
\* the mount or a notification is still about the first, with an abort and
\* another request of the telescope between them.
EXTENDS Goto, TLC

CONSTANTS s1, s2, a1, o1

MCSlews == {s1, s2}
MCAborts == {a1}
MCOthers == {o1}
=============================================================================
