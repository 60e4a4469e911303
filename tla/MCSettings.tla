---------------------------- MODULE MCSettings ----------------------------
\* Values for Settings: a capture, which configuration and reapply task, a filter
\* request of the wheel and a restart of the server may meet, two filters, and two
\* ids of which the firmware knows the second.
EXTENDS Settings, TLC

CONSTANTS m1, f1, f2, i1, i2

MCMoves == {m1}
MCFilters == {f1, f2}
MCWanted == {f2}
MCFilterIds == <<i1, i2>>
MCObeyed == {i2}
\* One that captures in a namespace of its own, one with stored presets only, and
\* one whose start carries the filter.
MCDevices == {[mini |-> FALSE, supports |-> TRUE, own |-> "other"],
              [mini |-> FALSE, supports |-> FALSE, own |-> "default"],
              [mini |-> TRUE, supports |-> TRUE, own |-> "default"]}
=============================================================================
