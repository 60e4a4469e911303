----------------------------- MODULE MCSchedules -----------------------------
\* Values for Schedules: days of three minutes, so that two tasks meet midnight
\* in every way; and app plans whose tasks are over midnight and the change of
\* the clock, a day apart, or both after the change.
EXTENDS Schedules, TLC

CONSTANTS n1, n2

MCNames == {n1, n2}
Symmetry == Permutations(MCNames)
MCDates == {0}
MCTasks == {<<>>} \cup [1..2 -> Times]
MCOneTasks == {[start |-> 2, end |-> 2]}
MCAppTasks == {<<[start |-> 2, end |-> 4], [start |-> 4, end |-> 7]>>,
               <<[start |-> 1, end |-> 2], [start |-> 5, end |-> 6]>>,
               <<[start |-> 4, end |-> 5], [start |-> 6, end |-> 8]>>}
=============================================================================
