------------------------------ MODULE MCCapture -----------------------------
\* Values for Capture: StartExposure requests of two and of one frames, and
\* AbortExposure requests.
EXTENDS Capture

CONSTANTS s1, s2, s3, a1, a2

MCStarts == {s1, s2}
MCThreeStarts == {s1, s2, s3}
MCAborts == {a1}
MCTwoAborts == {a1, a2}
MCFramesOf == [s \in Starts |-> IF s = s1 THEN 2 ELSE 1]

\* The state without what no step reads again: the device's verdict and the
\* capture id of a monitor that has ended, the file retrieval of a fetch task that
\* is done, and how old the newest file was for it.  TLC tells states apart by it.
Watched(s) == monitor[s] \notin {"none", "ended"}
View ==
    <<stateVars, sessionVars, pc, fetch, monitor, abort, drop,
      dev, runsOn, devCap, shots, newest, notes,
      {s \in fresh : InProgress(s) \/ Live(s)},
      {s \in recent : s = captureId \/ Live(s)},
      [s \in Starts |-> IF Live(s) THEN ftp[s] ELSE "none"],
      [s \in Starts |-> IF Watched(s) THEN monitorId[s] ELSE None],
      [s \in Starts |-> IF Watched(s) \/ pc[s] = "sent" THEN verdict[s] ELSE "none"]>>
=============================================================================
