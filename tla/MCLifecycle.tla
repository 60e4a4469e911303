----------------------------- MODULE MCLifecycle -----------------------------
\* Values for Lifecycle: a preflight and a server, so that one thread's session
\* could meet the other's, a spare session, and a request under way.
EXTENDS Lifecycle, TLC

CONSTANTS s1, s2, s3, c1

MCSessions == {s1, s2, s3}
MCCalls == {c1}
=============================================================================
