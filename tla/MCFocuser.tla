----------------------------- MODULE MCFocuser -----------------------------
\* Values for Focuser: two moves, so that one can begin while the other, halted
\* but not ended, goes on, over few positions, of which some are near, some far.
EXTENDS Focuser, TLC

CONSTANTS o1

MCOthers == {o1}
=============================================================================
