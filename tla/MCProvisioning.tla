--------------------------- MODULE MCProvisioning ---------------------------
\* Values for Provisioning: two networks, one of them saved, so that the device
\* may be on the other, and two runs, so that one can follow a failed one.
EXTENDS Provisioning, TLC

CONSTANTS j1, j2, w1, n1, n2

MCJobs == {j1, j2}
MCScans == {w1}
MCNets == {n1, n2}
MCSaved == {n1}
=============================================================================
