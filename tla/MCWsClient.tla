---------------------------- MODULE MCWsClient ------------------------------
\* Values for WsClient.  Two calls of one command, of which the first has an
\* alias, as the master-lock requests of the session do, and the second may be
\* cancelled, over two connections; with MCReqs a third call, of another
\* command, contends for the alias.
EXTENDS WsClient, TLC

CONSTANTS r1, r2, r3, ask, get, note

MCReqs == {r1, r2, r3}
MCTwoReqs == {r1, r2}
MCKeys == {ask, get, note}
MCKeyOf == [r \in Reqs |-> IF r = r3 THEN get ELSE ask]
MCAltsOf == [r \in Reqs |-> IF r = r2 THEN {} ELSE {note}]
MCCancellable == {r2}
=============================================================================
