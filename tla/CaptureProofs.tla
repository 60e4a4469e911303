---------------------------- MODULE CaptureProofs ----------------------------
(***************************************************************************)
(* Theorems about Capture, for any aborts, frame counts and bounds, and whatever *)
(* fails.  The types are kept for any clients; one task fetches if the client  *)
(* makes one request at a time; and the properties of the images, the counts   *)
(* and the device hold besides for any number of patient starts, or for two of *)
(* any kind (Turns).                                                         *)
(***************************************************************************)
EXTENDS Capture, TLAPS

(***************************************************************************)
(* The types, in parts                                                     *)
(***************************************************************************)

StateTypes ==
    /\ phase \in Phases
    /\ captureId \in Starts \cup {None}
    /\ frames \in 1..MaxShots
    /\ current \in 0..MaxShots
    /\ image \in Starts \cup {None}
    /\ task \in Starts \cup {None}
    /\ connected \in BOOLEAN

SessionTypes ==
    /\ op \in OpStates \cup {"none"}
    /\ lastEntry \in Files \cup {None}
    /\ frameEvent \in BOOLEAN
    /\ startTask \in Starts \cup {None}
    /\ stopTask \in BOOLEAN

TaskTypes ==
    /\ pc \in [Starts -> StartPcs]
    /\ fetch \in [Starts -> {"none", "new", "waiting", "stopping", "ftp", "album",
                             "golive", "cancelled", "done"}]
    /\ ftp \in [Starts -> {"none", "pending", "found", "missing", "seen"}]

MonitorTypes ==
    /\ monitor \in [Starts -> {"none", "future", "waiting", "continuing",
                               "continued", "forced", "ended"}]
    /\ monitorId \in [Starts -> Starts \cup {None}]

RequestTypes ==
    /\ abort \in [Aborts -> {"idle", "fetch", "stop", "done"}]
    /\ drop \in {"idle", "fetch", "done"}

\* A file is newer than a start only if there is one, and a device that runs was
\* started for a capture: neither the file nor its capture is ever None.
DeviceTypes ==
    /\ dev \in {"idle", "running", "stopping"}
    /\ devCap \in Starts \cup {None}
    /\ shots \in 0..MaxShots
    /\ runsOn \in BOOLEAN
    /\ newest \in Files \cup {None} /\ fresh \subseteq Starts /\ recent \subseteq Starts
    /\ fresh # {} \/ recent # {} => newest \in Files
    /\ dev = "running" => devCap # None
    /\ verdict \in [Starts -> {"none", "ok", "dark", "error", "silent"}]
    /\ notes \in Seq(Notes) /\ Len(notes) <= MaxNotes

Types ==
    StateTypes /\ SessionTypes /\ TaskTypes /\ MonitorTypes /\ RequestTypes /\ DeviceTypes

\* The parts of the types make up the type invariant that TLC checks.
LEMMA TypesAreTypes == Types => TypeOK
  BY DEF Types, StateTypes, SessionTypes, TaskTypes, MonitorTypes, RequestTypes, DeviceTypes, TypeOK

\* The parts of the types hold before the first exposure.
LEMMA TypesInit == Init => Types
<1> SUFFICES ASSUME Init PROVE Types
  OBVIOUS
<1>1. StateTypes /\ RequestTypes
  BY CaptureAssumption DEF Init, StateTypes, RequestTypes, Phases
<1>2. SessionTypes
  BY DEF Init, SessionTypes, OpStates
<1>3. TaskTypes /\ MonitorTypes
  BY DEF Init, TaskTypes, MonitorTypes, StartPcs
<1>4. DeviceTypes
  <2>1. newest = None /\ fresh = {} /\ recent = {} /\ notes = << >> /\ shots = 0
    BY DEF Init
  <2>2. fresh \subseteq Starts /\ recent \subseteq Starts /\ runsOn \in BOOLEAN
    BY DEF Init
  <2> QED
    BY <2>1, <2>2, CaptureAssumption DEF Init, DeviceTypes
<1> QED
  BY <1>1, <1>2, <1>3, <1>4 DEF Types

(***************************************************************************)
(* What the device and its notifications do to the types                    *)
(***************************************************************************)

\* A notification that is sent, and one that is read or lost.
LEMMA NotifyTypes ==
  ASSUME DeviceTypes, NEW note \in Notes, Notify(note)
  PROVE  notes' \in Seq(Notes) /\ Len(notes') <= MaxNotes
  BY CaptureAssumption DEF DeviceTypes, Notify

\* What is read is a note, and leaves a queue of notes.
LEMMA ReadTypes ==
  ASSUME DeviceTypes, notes # << >>, notes' = Tail(notes)
  PROVE  Head(notes) \in Notes /\ notes' \in Seq(Notes) /\ Len(notes') <= MaxNotes
  BY CaptureAssumption DEF DeviceTypes

\* A file was shot for a capture.
LEMMA NewestTypes ==
  ASSUME DeviceTypes, newest # None
  PROVE  newest \in Files /\ newest[1] \in Starts
  BY DEF DeviceTypes, Files

\* A step that leaves the device alone keeps its types.
LEMMA DeviceKept ==
  ASSUME DeviceTypes, UNCHANGED deviceVars PROVE DeviceTypes'
  BY DEF DeviceTypes, deviceVars

\* The device may tell any of its states.
LEMMA StateNotes == \A st \in OpStates : NoteState(st) \in Notes
  BY DEF Notes

\* The device may tell any count of frames.
LEMMA CountNotes == \A n \in 1..MaxShots : NoteCount(n) \in Notes
  BY DEF Notes

\* A start command and a stop command.
LEMMA DeviceStartTypes ==
  ASSUME DeviceTypes, NEW s \in Starts, DeviceStart(s) PROVE DeviceTypes'
<1> USE CaptureAssumption
<1>1. CASE /\ dev' = "running" /\ devCap' = s /\ shots' = 0 /\ Notify(NoteState("running"))
           /\ runsOn' = FALSE
           /\ \E v \in {"ok", "silent"} : verdict' = [verdict EXCEPT ![s] = v]
           /\ UNCHANGED <<newest, fresh, recent>>
  <2>1. NoteState("running") \in Notes
    BY StateNotes DEF OpStates
  <2>2. notes' \in Seq(Notes) /\ Len(notes') <= MaxNotes
    BY <1>1, <2>1, NotifyTypes
  <2>3. runsOn' \in BOOLEAN
    BY <1>1
  <2> QED
    BY <1>1, <2>2, <2>3 DEF DeviceTypes
<1>2. CASE /\ \E v \in {"dark", "error", "silent"} : verdict' = [verdict EXCEPT ![s] = v]
           /\ UNCHANGED <<dev, runsOn, devCap, shots, notes, newest, fresh, recent>>
  BY <1>2 DEF DeviceTypes
<1> QED
  BY <1>1, <1>2 DEF DeviceStart

\* A device that is stopped keeps its types.
LEMMA DeviceStopTypes ==
  ASSUME DeviceTypes, DeviceStop PROVE DeviceTypes'
<1>1. CASE dev = "running" /\ Notify(NoteState("stopping"))
  <2>1. NoteState("stopping") \in Notes
    BY StateNotes DEF OpStates
  <2>2. notes' \in Seq(Notes) /\ Len(notes') <= MaxNotes
    BY <1>1, <2>1, NotifyTypes DEF DeviceStop
  <2> QED
    BY <1>1, <2>2 DEF DeviceTypes, DeviceStop
<1>2. CASE UNCHANGED <<dev, notes>>
  BY <1>2 DEF DeviceTypes, DeviceStop
<1> QED
  BY <1>1, <1>2 DEF DeviceStop

\* Each step keeps the types of the session, and then those of the device.
LEMMA TypesStep ==
    ASSUME Types, [Next]_vars PROVE Types'
<1> USE CaptureAssumption
<1>a. /\ StateTypes /\ SessionTypes /\ TaskTypes /\ MonitorTypes /\ RequestTypes /\ DeviceTypes
  BY DEF Types
<1>1. ASSUME NEW s \in Starts, Start(s) PROVE Types'
  <2>1. StateTypes' /\ SessionTypes' /\ TaskTypes' /\ MonitorTypes' /\ RequestTypes'
    BY <1>a, <1>1 DEF Start, sessionVars, taskVars, monitorVars, StateTypes, SessionTypes,
        TaskTypes, MonitorTypes, RequestTypes, Phases, OpStates, StartPcs
  <2>2. DeviceTypes'
    BY <1>a, <1>1, DeviceKept DEF Start
  <2> QED
    BY <2>1, <2>2 DEF Types
<1>2. ASSUME NEW s \in Starts, Wake(s) PROVE Types'
  <2>1. StateTypes' /\ SessionTypes' /\ TaskTypes' /\ MonitorTypes' /\ RequestTypes'
    BY <1>a, <1>2 DEF Wake, stateVars, sessionVars, taskVars, monitorVars, StateTypes,
        SessionTypes, TaskTypes, MonitorTypes, RequestTypes, Phases, OpStates, StartPcs
  <2>2. DeviceTypes'
    BY <1>a, <1>2, DeviceKept DEF Wake
  <2> QED
    BY <2>1, <2>2 DEF Types
<1>3. ASSUME NEW s \in Starts, QueryState(s) PROVE Types'
  <2>1. StateTypes' /\ SessionTypes' /\ TaskTypes' /\ MonitorTypes' /\ RequestTypes'
    <3>1. StateTypes'
      BY <1>a, <1>3 DEF QueryState, SetOperationState, stateVars, StateTypes, Phases
    <3>2. SessionTypes'
      BY <1>a, <1>3 DEF QueryState, SetOperationState, SessionTypes, OpStates, DeviceTypes
    <3>3. TaskTypes'
      BY <1>a, <1>3 DEF QueryState, SetOperationState, taskVars, TaskTypes, StartPcs
    <3>4. MonitorTypes'
      BY <1>a, <1>3 DEF QueryState, SetOperationState, monitorVars, MonitorTypes
    <3>5. RequestTypes'
      BY <1>a, <1>3 DEF QueryState, SetOperationState, RequestTypes
    <3> QED
      BY <3>1, <3>2, <3>3, <3>4, <3>5
  <2>2. DeviceTypes'
    BY <1>a, <1>3, DeviceKept DEF QueryState
  <2> QED
    BY <2>1, <2>2 DEF Types
<1>4. ASSUME NEW s \in Starts, Accept(s) PROVE Types'
  <2>1. StateTypes' /\ SessionTypes' /\ TaskTypes' /\ MonitorTypes' /\ RequestTypes'
    <3>1. StateTypes'
      BY <1>a, <1>4 DEF Accept, StateTypes, Phases
    <3>2. SessionTypes'
      BY <1>a, <1>4 DEF Accept, SessionTypes, OpStates
    <3>3. TaskTypes'
      BY <1>a, <1>4 DEF Accept, taskVars, TaskTypes, StartPcs
    <3>4. MonitorTypes'
      BY <1>a, <1>4 DEF Accept, monitorVars, MonitorTypes
    <3>5. RequestTypes'
      BY <1>a, <1>4 DEF Accept, RequestTypes
    <3> QED
      BY <3>1, <3>2, <3>3, <3>4, <3>5
  <2>2. DeviceTypes'
    BY <1>a, <1>4 DEF Accept, DeviceTypes
  <2> QED
    BY <2>1, <2>2 DEF Types
<1>5. ASSUME NEW s \in Starts, NotReady(s) \/ NotOpened(s) PROVE Types'
  <2>1. StateTypes' /\ SessionTypes' /\ TaskTypes' /\ MonitorTypes' /\ RequestTypes'
    BY <1>a, <1>5 DEF NotReady, NotOpened, sessionVars, taskVars, monitorVars, StateTypes,
           SessionTypes,
        TaskTypes, MonitorTypes, RequestTypes, Phases, OpStates, StartPcs
  <2>2. DeviceTypes'
    BY <1>a, <1>5, DeviceKept DEF NotReady, NotOpened
  <2> QED
    BY <2>1, <2>2 DEF Types
<1>6. ASSUME NEW s \in Starts, ParametersSet(s) PROVE Types'
  <2>1. StateTypes' /\ SessionTypes' /\ TaskTypes' /\ MonitorTypes' /\ RequestTypes'
    BY <1>a, <1>6 DEF ParametersSet, sessionVars, taskVars, monitorVars, StateTypes,
        SessionTypes, TaskTypes, MonitorTypes, RequestTypes, Phases, OpStates, StartPcs
  <2>2. DeviceTypes'
    BY <1>a, <1>6, DeviceKept DEF ParametersSet
  <2> QED
    BY <2>1, <2>2 DEF Types
<1>7. ASSUME NEW s \in Starts, DarkChecked(s) PROVE Types'
  <2>1. StateTypes' /\ SessionTypes' /\ TaskTypes' /\ MonitorTypes' /\ RequestTypes'
    BY <1>a, <1>7 DEF DarkChecked, stateVars, sessionVars, taskVars, monitorVars, StateTypes,
        SessionTypes, TaskTypes, MonitorTypes, RequestTypes, Phases, OpStates, StartPcs
  <2>2. DeviceTypes'
    BY <1>a, <1>7, DeviceKept DEF DarkChecked
  <2> QED
    BY <2>1, <2>2 DEF Types
<1>8. ASSUME NEW s \in Starts, FeaturesSet(s) PROVE Types'
  <2>1. StateTypes' /\ SessionTypes' /\ TaskTypes' /\ MonitorTypes' /\ RequestTypes'
    BY <1>a, <1>8 DEF FeaturesSet, sessionVars, taskVars, monitorVars, StateTypes, SessionTypes,
        TaskTypes, MonitorTypes, RequestTypes, Phases, OpStates, StartPcs
  <2>2. DeviceTypes'
    BY <1>a, <1>8, DeviceKept DEF FeaturesSet
  <2> QED
    BY <2>1, <2>2 DEF Types
<1>9. ASSUME NEW s \in Starts, ConfigurationFails(s) PROVE Types'
  <2>1. StateTypes' /\ SessionTypes' /\ TaskTypes' /\ MonitorTypes' /\ RequestTypes'
    BY <1>a, <1>9 DEF ConfigurationFails, sessionVars, taskVars, monitorVars, StateTypes,
        SessionTypes, TaskTypes, MonitorTypes, RequestTypes, Phases, OpStates, StartPcs
  <2>2. DeviceTypes'
    BY <1>a, <1>9, DeviceKept DEF ConfigurationFails
  <2> QED
    BY <2>1, <2>2 DEF Types
<1>10. ASSUME NEW s \in Starts, BaselineTaken(s) PROVE Types'
  <2>1. StateTypes' /\ SessionTypes' /\ TaskTypes' /\ MonitorTypes' /\ RequestTypes'
    BY <1>a, <1>10 DEF BaselineTaken, stateVars, sessionVars, taskVars, monitorVars, StateTypes,
        SessionTypes, TaskTypes, MonitorTypes, RequestTypes, Phases, OpStates, StartPcs
  <2>2. DeviceTypes'
    BY <1>a, <1>10, DeviceKept DEF BaselineTaken
  <2> QED
    BY <2>1, <2>2 DEF Types
<1>11. ASSUME NEW s \in Starts, Dispatch(s) PROVE Types'
  <2>1. StateTypes' /\ SessionTypes' /\ TaskTypes' /\ MonitorTypes' /\ RequestTypes'
    BY <1>a, <1>11 DEF Dispatch, StartFailed, stateVars, sessionVars, taskVars, StateTypes,
        SessionTypes, TaskTypes, MonitorTypes, RequestTypes, Phases, OpStates, StartPcs
  <2>2. DeviceTypes'
    BY <1>a, <1>11, DeviceKept, DeviceStartTypes DEF Dispatch
  <2> QED
    BY <2>1, <2>2 DEF Types
<1>12. ASSUME NEW s \in Starts, Dispatched(s) PROVE Types'
  <2>1. StateTypes' /\ SessionTypes' /\ TaskTypes' /\ MonitorTypes' /\ RequestTypes'
    BY <1>a, <1>12 DEF Dispatched, StartFailed, stateVars, taskVars, StateTypes, SessionTypes,
        TaskTypes, MonitorTypes, RequestTypes, Phases, OpStates, StartPcs
  <2>2. DeviceTypes'
    BY <1>a, <1>12, DeviceKept DEF Dispatched
  <2> QED
    BY <2>1, <2>2 DEF Types
<1>13. ASSUME NEW s \in Starts, Started(s) PROVE Types'
  <2>1. StateTypes' /\ SessionTypes' /\ TaskTypes' /\ MonitorTypes' /\ RequestTypes'
    BY <1>a, <1>13 DEF Started, sessionVars, monitorVars, StateTypes, SessionTypes, TaskTypes,
        MonitorTypes, RequestTypes, Phases, OpStates, StartPcs
  <2>2. DeviceTypes'
    BY <1>a, <1>13, DeviceKept DEF Started
  <2> QED
    BY <2>1, <2>2 DEF Types
<1>14. ASSUME NEW s \in Starts, MonitorAnswered(s) PROVE Types'
  <2>1. StateTypes' /\ SessionTypes' /\ TaskTypes' /\ MonitorTypes' /\ RequestTypes'
    BY <1>a, <1>14 DEF MonitorAnswered, MonitorRejects, MonitorEnded, CancelTask, StateTypes,
        SessionTypes, TaskTypes, MonitorTypes, RequestTypes, Phases, OpStates, StartPcs
  <2>2. DeviceTypes'
    BY <1>a, <1>14, DeviceKept DEF MonitorAnswered
  <2> QED
    BY <2>1, <2>2 DEF Types
<1>15. ASSUME NEW s \in Starts, MonitorContinues(s) PROVE Types'
  <2>1. StateTypes' /\ SessionTypes' /\ TaskTypes' /\ MonitorTypes' /\ RequestTypes'
    BY <1>a, <1>15 DEF MonitorContinues, MonitorRejects, MonitorEnded, CancelTask, StateTypes,
        SessionTypes, TaskTypes, MonitorTypes, RequestTypes, Phases, OpStates, StartPcs
  <2>2. DeviceTypes'
    BY <1>a, <1>15, DeviceKept, DeviceStartTypes DEF MonitorContinues
  <2> QED
    BY <2>1, <2>2 DEF Types
<1>16. ASSUME NEW s \in Starts, FetchBegin(s) PROVE Types'
  <2>1. StateTypes' /\ SessionTypes' /\ TaskTypes' /\ MonitorTypes' /\ RequestTypes'
    BY <1>a, <1>16 DEF FetchBegin, sessionVars, monitorVars, StateTypes, SessionTypes,
        TaskTypes, MonitorTypes, RequestTypes, Phases, OpStates, StartPcs
  <2>2. DeviceTypes'
    BY <1>a, <1>16, DeviceKept DEF FetchBegin
  <2> QED
    BY <2>1, <2>2 DEF Types
<1>17. ASSUME NEW s \in Starts, FetchWaits(s) PROVE Types'
  <2>1. StateTypes' /\ SessionTypes' /\ TaskTypes' /\ MonitorTypes' /\ RequestTypes'
    BY <1>a, <1>17 DEF FetchWaits, FetchLeaves, stateVars, StopPrelude, CancelStartMonitor,
        StateTypes, SessionTypes, TaskTypes, MonitorTypes, RequestTypes, Phases, OpStates,
        StartPcs
  <2>2. DeviceTypes'
    BY <1>a, <1>17, DeviceKept DEF FetchWaits
  <2> QED
    BY <2>1, <2>2 DEF Types
<1>18. ASSUME NEW s \in Starts, FetchStops(s) PROVE Types'
  <2>1. StateTypes' /\ SessionTypes' /\ TaskTypes' /\ MonitorTypes' /\ RequestTypes'
    <3>1. StateTypes'
      BY <1>a, <1>18 DEF FetchStops, stateVars, StateTypes, Phases
    <3>2. SessionTypes'
      BY <1>a, <1>18 DEF FetchStops, SessionTypes, OpStates
    <3>3. TaskTypes'
      BY <1>a, <1>18 DEF FetchStops, TaskTypes, StartPcs
    <3>4. MonitorTypes'
      BY <1>a, <1>18 DEF FetchStops, monitorVars, MonitorTypes
    <3>5. RequestTypes'
      BY <1>a, <1>18 DEF FetchStops, RequestTypes
    <3> QED
      BY <3>1, <3>2, <3>3, <3>4, <3>5
  <2>2. DeviceTypes'
    BY <1>a, <1>18, DeviceKept, DeviceStopTypes DEF FetchStops
  <2> QED
    BY <2>1, <2>2 DEF Types
<1>19. ASSUME NEW s \in Starts, FtpAwaited(s) PROVE Types'
  <2>1. StateTypes' /\ SessionTypes' /\ TaskTypes' /\ MonitorTypes' /\ RequestTypes'
    BY <1>a, <1>19 DEF FtpAwaited, stateVars, sessionVars, monitorVars, StateTypes,
        SessionTypes, TaskTypes, MonitorTypes, RequestTypes, Phases, OpStates, StartPcs
  <2>2. DeviceTypes'
    BY <1>a, <1>19, DeviceKept DEF FtpAwaited
  <2> QED
    BY <2>1, <2>2 DEF Types
<1>20. ASSUME NEW s \in Starts, AlbumGives(s) PROVE Types'
  <2>1. StateTypes' /\ SessionTypes' /\ TaskTypes' /\ MonitorTypes' /\ RequestTypes'
    <3>0. newest \in Files /\ newest[1] \in Starts
      BY <1>a, <1>20 DEF AlbumGives, IsRecent, DeviceTypes, Files
    <3>1. StateTypes'
      BY <1>a, <1>20, <3>0 DEF AlbumGives, StateTypes, Phases
    <3>2. SessionTypes'
      BY <1>a, <1>20 DEF AlbumGives, sessionVars, SessionTypes, OpStates
    <3>3. TaskTypes'
      BY <1>a, <1>20 DEF AlbumGives, TaskTypes, StartPcs
    <3>4. MonitorTypes'
      BY <1>a, <1>20 DEF AlbumGives, monitorVars, MonitorTypes
    <3>5. RequestTypes'
      BY <1>a, <1>20 DEF AlbumGives, RequestTypes
    <3> QED
      BY <3>1, <3>2, <3>3, <3>4, <3>5
  <2>2. DeviceTypes'
    BY <1>a, <1>20, DeviceKept DEF AlbumGives
  <2> QED
    BY <2>1, <2>2 DEF Types
<1>21. ASSUME NEW s \in Starts, AlbumFails(s) PROVE Types'
  <2>1. StateTypes' /\ SessionTypes' /\ TaskTypes' /\ MonitorTypes' /\ RequestTypes'
    BY <1>a, <1>21 DEF AlbumFails, sessionVars, monitorVars, StateTypes, SessionTypes,
        TaskTypes, MonitorTypes, RequestTypes, Phases, OpStates, StartPcs
  <2>2. DeviceTypes'
    BY <1>a, <1>21, DeviceKept DEF AlbumFails
  <2> QED
    BY <2>1, <2>2 DEF Types
<1>22. ASSUME NEW s \in Starts, WentLive(s) PROVE Types'
  <2>1. StateTypes' /\ SessionTypes' /\ TaskTypes' /\ MonitorTypes' /\ RequestTypes'
    BY <1>a, <1>22 DEF WentLive, sessionVars, monitorVars, StateTypes, SessionTypes, TaskTypes,
        MonitorTypes, RequestTypes, Phases, OpStates, StartPcs
  <2>2. DeviceTypes'
    BY <1>a, <1>22, DeviceKept DEF WentLive
  <2> QED
    BY <2>1, <2>2 DEF Types
<1>23. ASSUME NEW s \in Starts, FetchRaises(s) PROVE Types'
  <2>1. StateTypes' /\ SessionTypes' /\ TaskTypes' /\ MonitorTypes' /\ RequestTypes'
    BY <1>a, <1>23 DEF FetchRaises, stateVars, sessionVars, monitorVars, StateTypes,
        SessionTypes, TaskTypes, MonitorTypes, RequestTypes, Phases, OpStates, StartPcs
  <2>2. DeviceTypes'
    BY <1>a, <1>23, DeviceKept DEF FetchRaises
  <2> QED
    BY <2>1, <2>2 DEF Types
<1>24. ASSUME NEW s \in Starts, FetchCancelled(s) PROVE Types'
  <2>1. StateTypes' /\ SessionTypes' /\ TaskTypes' /\ MonitorTypes' /\ RequestTypes'
    BY <1>a, <1>24 DEF FetchCancelled, stateVars, sessionVars, monitorVars, StateTypes,
        SessionTypes, TaskTypes, MonitorTypes, RequestTypes, Phases, OpStates, StartPcs
  <2>2. DeviceTypes'
    BY <1>a, <1>24, DeviceKept DEF FetchCancelled
  <2> QED
    BY <2>1, <2>2 DEF Types
<1>25. ASSUME NEW s \in Starts, FtpFinds(s) PROVE Types'
  <2>1. StateTypes' /\ SessionTypes' /\ TaskTypes' /\ MonitorTypes' /\ RequestTypes'
    <3>1. StateTypes'
      BY <1>a, <1>25, NewestTypes DEF FtpFinds, StateTypes, Phases, IsNew
    <3>2. SessionTypes'
      BY <1>a, <1>25 DEF FtpFinds, SessionTypes, OpStates, DeviceTypes
    <3>3. TaskTypes'
      BY <1>a, <1>25 DEF FtpFinds, TaskTypes, StartPcs
    <3>4. MonitorTypes'
      BY <1>a, <1>25 DEF FtpFinds, monitorVars, MonitorTypes
    <3>5. RequestTypes'
      BY <1>a, <1>25 DEF FtpFinds, RequestTypes
    <3> QED
      BY <3>1, <3>2, <3>3, <3>4, <3>5
  <2>2. DeviceTypes'
    BY <1>a, <1>25, DeviceKept DEF FtpFinds
  <2> QED
    BY <2>1, <2>2 DEF Types
<1>26. ASSUME NEW s \in Starts, FtpGivesUp(s) PROVE Types'
  <2>1. StateTypes' /\ SessionTypes' /\ TaskTypes' /\ MonitorTypes' /\ RequestTypes'
    BY <1>a, <1>26 DEF FtpGivesUp, stateVars, sessionVars, monitorVars, StateTypes,
        SessionTypes, TaskTypes, MonitorTypes, RequestTypes, Phases, OpStates, StartPcs
  <2>2. DeviceTypes'
    BY <1>a, <1>26, DeviceKept DEF FtpGivesUp
  <2> QED
    BY <2>1, <2>2 DEF Types
<1>27. ASSUME NEW s \in Starts, FtpUndecodable(s) PROVE Types'
  <2>1. StateTypes' /\ SessionTypes' /\ TaskTypes' /\ MonitorTypes' /\ RequestTypes'
    BY <1>a, <1>27 DEF FtpUndecodable, stateVars, sessionVars, monitorVars, StateTypes,
        SessionTypes, TaskTypes, MonitorTypes, RequestTypes, Phases, OpStates, StartPcs
  <2>2. DeviceTypes'
    BY <1>a, <1>27, DeviceKept DEF FtpUndecodable
  <2> QED
    BY <2>1, <2>2 DEF Types
<1>28. ASSUME NEW a \in Aborts, AbortBegin(a) PROVE Types'
  <2>1. StateTypes' /\ SessionTypes' /\ TaskTypes' /\ MonitorTypes' /\ RequestTypes'
    BY <1>a, <1>28 DEF AbortBegin, AbortStop, CancelTask, AbortSucceeds, StopPrelude,
        CancelStartMonitor, StateTypes, SessionTypes, TaskTypes, MonitorTypes, RequestTypes,
        Phases, OpStates, StartPcs
  <2>2. DeviceTypes'
    BY <1>a, <1>28, DeviceKept DEF AbortBegin
  <2> QED
    BY <2>1, <2>2 DEF Types
<1>29. ASSUME NEW a \in Aborts, AbortStops(a) PROVE Types'
  <2>1. StateTypes' /\ SessionTypes' /\ TaskTypes' /\ MonitorTypes' /\ RequestTypes'
    BY <1>a, <1>29 DEF AbortStops, AbortStop, taskVars, AbortSucceeds, StopPrelude,
        CancelStartMonitor, StateTypes, SessionTypes, TaskTypes, MonitorTypes, RequestTypes,
        Phases, OpStates, StartPcs
  <2>2. DeviceTypes'
    BY <1>a, <1>29, DeviceKept DEF AbortStops
  <2> QED
    BY <2>1, <2>2 DEF Types
<1>30. ASSUME NEW a \in Aborts, AbortEnds(a) PROVE Types'
  <2>1. StateTypes' /\ SessionTypes' /\ TaskTypes' /\ MonitorTypes' /\ RequestTypes'
    <3>1. StateTypes'
      BY <1>a, <1>30 DEF AbortEnds, AbortSucceeds, StateTypes, Phases
    <3>2. SessionTypes'
      BY <1>a, <1>30 DEF AbortEnds, AbortSucceeds, SessionTypes, OpStates
    <3>3. TaskTypes'
      BY <1>a, <1>30 DEF AbortEnds, AbortSucceeds, taskVars, TaskTypes, StartPcs
    <3>4. MonitorTypes'
      BY <1>a, <1>30 DEF AbortEnds, AbortSucceeds, monitorVars, MonitorTypes
    <3>5. RequestTypes'
      BY <1>a, <1>30 DEF AbortEnds, AbortSucceeds, RequestTypes
    <3> QED
      BY <3>1, <3>2, <3>3, <3>4, <3>5
  <2>2. DeviceTypes'
    BY <1>a, <1>30, DeviceKept, DeviceStopTypes DEF AbortEnds
  <2> QED
    BY <2>1, <2>2 DEF Types
<1>31. CASE StopMonitorEnds
  <2>1. StateTypes' /\ SessionTypes' /\ TaskTypes' /\ MonitorTypes' /\ RequestTypes'
    <3>1. StateTypes'
      BY <1>a, <1>31 DEF StopMonitorEnds, stateVars, StateTypes, Phases
    <3>2. SessionTypes'
      BY <1>a, <1>31 DEF StopMonitorEnds, SessionTypes, OpStates
    <3>3. TaskTypes'
      BY <1>a, <1>31 DEF StopMonitorEnds, taskVars, TaskTypes, StartPcs
    <3>4. MonitorTypes'
      BY <1>a, <1>31 DEF StopMonitorEnds, monitorVars, MonitorTypes
    <3>5. RequestTypes'
      BY <1>a, <1>31 DEF StopMonitorEnds, RequestTypes
    <3> QED
      BY <3>1, <3>2, <3>3, <3>4, <3>5
  <2>2. DeviceTypes'
    BY <1>a, <1>31, DeviceKept DEF StopMonitorEnds
  <2> QED
    BY <2>1, <2>2 DEF Types
<1>32. CASE DisconnectBegin
  <2>1. StateTypes' /\ SessionTypes' /\ TaskTypes' /\ MonitorTypes' /\ RequestTypes'
    <3>1. StateTypes'
      BY <1>a, <1>32 DEF DisconnectBegin, Disconnected, CancelTask, CancelStartMonitor,
          StateTypes, Phases
    <3>2. SessionTypes'
      BY <1>a, <1>32 DEF DisconnectBegin, Disconnected, CancelTask, CancelStartMonitor,
          SessionTypes, OpStates
    <3>3. TaskTypes'
      BY <1>a, <1>32 DEF DisconnectBegin, Disconnected, CancelTask, CancelStartMonitor,
          TaskTypes, StartPcs
    <3>4. MonitorTypes'
      BY <1>a, <1>32 DEF DisconnectBegin, Disconnected, CancelTask, CancelStartMonitor,
          MonitorTypes
    <3>5. RequestTypes'
      BY <1>a, <1>32 DEF DisconnectBegin, Disconnected, CancelTask, CancelStartMonitor,
          RequestTypes
    <3> QED
      BY <3>1, <3>2, <3>3, <3>4, <3>5
  <2>2. DeviceTypes'
    BY <1>a, <1>32, DeviceKept DEF DisconnectBegin
  <2> QED
    BY <2>1, <2>2 DEF Types
<1>33. CASE DisconnectEnds
  <2>1. StateTypes' /\ SessionTypes' /\ TaskTypes' /\ MonitorTypes' /\ RequestTypes'
    <3>1. StateTypes'
      BY <1>a, <1>33 DEF DisconnectEnds, Disconnected, CancelStartMonitor, StateTypes, Phases
    <3>2. SessionTypes'
      BY <1>a, <1>33 DEF DisconnectEnds, Disconnected, CancelStartMonitor, SessionTypes,
          OpStates
    <3>3. TaskTypes'
      BY <1>a, <1>33 DEF DisconnectEnds, Disconnected, taskVars, CancelStartMonitor, TaskTypes,
          StartPcs
    <3>4. MonitorTypes'
      BY <1>a, <1>33 DEF DisconnectEnds, Disconnected, CancelStartMonitor, MonitorTypes
    <3>5. RequestTypes'
      BY <1>a, <1>33 DEF DisconnectEnds, Disconnected, CancelStartMonitor, RequestTypes
    <3> QED
      BY <3>1, <3>2, <3>3, <3>4, <3>5
  <2>2. DeviceTypes'
    BY <1>a, <1>33, DeviceKept DEF DisconnectEnds
  <2> QED
    BY <2>1, <2>2 DEF Types
<1>34. CASE Connect
  <2>1. StateTypes' /\ SessionTypes' /\ TaskTypes' /\ MonitorTypes' /\ RequestTypes'
    <3>1. StateTypes'
      BY <1>a, <1>34 DEF Connect, SetOperationState, StateTypes, Phases
    <3>2. SessionTypes'
      BY <1>a, <1>34 DEF Connect, SetOperationState, SessionTypes, OpStates, DeviceTypes
    <3>3. TaskTypes'
      BY <1>a, <1>34 DEF Connect, SetOperationState, taskVars, TaskTypes, StartPcs
    <3>4. MonitorTypes'
      BY <1>a, <1>34 DEF Connect, SetOperationState, monitorVars, MonitorTypes
    <3>5. RequestTypes'
      BY <1>a, <1>34 DEF Connect, SetOperationState, RequestTypes
    <3> QED
      BY <3>1, <3>2, <3>3, <3>4, <3>5
  <2>2. DeviceTypes'
    BY <1>a, <1>34, DeviceKept DEF Connect
  <2> QED
    BY <2>1, <2>2 DEF Types
<1>35. CASE Notification
  <2>1. StateTypes' /\ SessionTypes' /\ TaskTypes' /\ MonitorTypes' /\ RequestTypes'
    <3>0. Head(notes) \in Notes
      BY <1>a, <1>35, ReadTypes DEF Notification
    <3>1. StateTypes'
      BY <1>a, <1>35, <3>0 DEF Notification, SetOperationState, StateTypes, Phases, Notes,
          NoteState, NoteCount, CountFrame
    <3>2. SessionTypes'
      <4>1. ASSUME NEW st \in OpStates, Head(notes) = NoteState(st) PROVE SessionTypes'
        <5>1. Head(notes).state = st /\ st # "none"
          BY <4>1 DEF NoteState, OpStates
        <5>2. /\ op' = st /\ stopTask' = (stopTask /\ st \notin Ready)
              /\ UNCHANGED <<lastEntry, frameEvent, startTask>>
          BY <1>35, <5>1 DEF Notification, SetOperationState
        <5> QED
          BY <1>a, <4>1, <5>2 DEF SessionTypes, OpStates
      <4>2. ASSUME NEW n \in 1..MaxShots, Head(notes) = NoteCount(n) PROVE SessionTypes'
        <5>1. Head(notes).state = "none"
          BY <4>2 DEF NoteCount
        <5>2. frameEvent' \in BOOLEAN /\ UNCHANGED <<op, stopTask, lastEntry, startTask>>
          BY <1>a, <1>35, <5>1 DEF Notification, SessionTypes
        <5> QED
          BY <1>a, <5>2 DEF SessionTypes
      <4> QED
        BY <3>0, <4>1, <4>2 DEF Notes
    <3>3. TaskTypes'
      BY <1>a, <1>35 DEF Notification, SetOperationState, taskVars, TaskTypes, StartPcs
    <3>4. MonitorTypes'
      BY <1>a, <1>35 DEF Notification, SetOperationState, monitorVars, MonitorTypes
    <3>5. RequestTypes'
      BY <1>a, <1>35 DEF Notification, SetOperationState, RequestTypes
    <3> QED
      BY <3>1, <3>2, <3>3, <3>4, <3>5
  <2>2. DeviceTypes'
    BY <1>a, <1>35, ReadTypes DEF Notification, DeviceTypes
  <2> QED
    BY <2>1, <2>2 DEF Types
<1>36. CASE NotificationLost
  <2>1. StateTypes' /\ SessionTypes' /\ TaskTypes' /\ MonitorTypes' /\ RequestTypes'
    BY <1>a, <1>36 DEF NotificationLost, stateVars, sessionVars, taskVars, monitorVars,
        StateTypes, SessionTypes, TaskTypes, MonitorTypes, RequestTypes, Phases, OpStates,
        StartPcs
  <2>2. DeviceTypes'
    BY <1>a, <1>36, DeviceKept, ReadTypes DEF NotificationLost, DeviceTypes
  <2> QED
    BY <2>1, <2>2 DEF Types
<1>37. CASE DeviceShot
  <2>1. StateTypes' /\ SessionTypes' /\ TaskTypes' /\ MonitorTypes' /\ RequestTypes'
    BY <1>a, <1>37 DEF DeviceShot, stateVars, sessionVars, taskVars, monitorVars, StateTypes,
        SessionTypes, TaskTypes, MonitorTypes, RequestTypes, Phases, OpStates, StartPcs
  <2>2. DeviceTypes'
    <3>1. NoteCount(shots + 1) \in Notes /\ shots + 1 \in 1..MaxShots
      BY <1>a, <1>37, CountNotes DEF DeviceShot, DeviceTypes
    <3>2. notes' \in Seq(Notes) /\ Len(notes') <= MaxNotes
      BY <1>a, <1>37, <3>1, NotifyTypes DEF DeviceShot
    <3>3. newest' \in Files /\ fresh' \subseteq Starts
      BY <1>a, <1>37, <3>1 DEF DeviceShot, DeviceTypes, Files
    <3>4. UNCHANGED <<dev, runsOn, devCap, recent, verdict>> /\ shots' = shots + 1
      BY <1>37 DEF DeviceShot
    <3> QED
      BY <1>a, <3>1, <3>2, <3>3, <3>4 DEF DeviceTypes
  <2> QED
    BY <2>1, <2>2 DEF Types
<1>38. CASE DeviceStopped
  <2>1. StateTypes' /\ SessionTypes' /\ TaskTypes' /\ MonitorTypes' /\ RequestTypes'
    BY <1>a, <1>38 DEF DeviceStopped, stateVars, sessionVars, taskVars, monitorVars, StateTypes,
        SessionTypes, TaskTypes, MonitorTypes, RequestTypes, Phases, OpStates, StartPcs
  <2>2. DeviceTypes'
    <3>1. NoteState("stopped") \in Notes
      BY StateNotes DEF OpStates
    <3>2. notes' \in Seq(Notes) /\ Len(notes') <= MaxNotes
      BY <1>a, <1>38, <3>1, NotifyTypes DEF DeviceStopped
    <3> QED
      BY <1>a, <1>38, <3>2 DEF DeviceStopped, DeviceTypes
  <2> QED
    BY <2>1, <2>2 DEF Types
<1>39. CASE UNCHANGED vars
  <2>1. StateTypes' /\ SessionTypes' /\ TaskTypes' /\ MonitorTypes' /\ RequestTypes'
    BY <1>a, <1>39 DEF vars, stateVars, sessionVars, taskVars, monitorVars, StateTypes,
        SessionTypes, TaskTypes, MonitorTypes, RequestTypes, Phases, OpStates, StartPcs
  <2>2. DeviceTypes'
    BY <1>a, <1>39, DeviceKept DEF vars, deviceVars
  <2> QED
    BY <2>1, <2>2 DEF Types
<1> QED
  BY <1>1, <1>2, <1>3, <1>4, <1>5, <1>6, <1>7, <1>8, <1>9, <1>10, <1>11, <1>12, <1>13, <1>14,
      <1>15, <1>16, <1>17, <1>18, <1>19, <1>20, <1>21, <1>22, <1>23, <1>24, <1>25, <1>26, <1>27,
      <1>28, <1>29, <1>30, <1>31, <1>32, <1>33, <1>34, <1>35, <1>36, <1>37, <1>38, <1>39 DEF
      Next, StartStep, FetchStep


(***************************************************************************)
(* The requests take turns                                                 *)
(*                                                                         *)
(* The properties of Capture are not inductive.  What they rest on is, in     *)
(* seven parts: whose task runs (TaskInv), what the phase tells (PhaseInv),   *)
(* what a stop under way excludes (StopInv), who awaits the answer to a start  *)
(* command (WatchInv), when the device is at rest and how the session knows    *)
(* (RestInv, NoteInv, ReadyInv), whose the device's capture and files are      *)
(* (OwnInv), and that a capture is stopped when it is left (FrameInv).         *)
(***************************************************************************)

\* A start that is the current capture, and one whose command is not out yet.
Unsent == {"configuring", "dark", "feature", "baseline", "dispatch"}
Accepted == Unsent \cup {"sent", "runtime"}

\* Where a task is once it has left its wait.
Parting == {"stopping", "ftp", "album", "golive"}

AtRest == dev = "idle" /\ notes = << >>
\* A device that runs has been told to stop.
Told == dev = "running" => runsOn
Own(s) == pc[s] \in Accepted \/ Live(s)
Watching(s) == monitor[s] \in {"future", "waiting", "continuing", "continued", "forced"}
\* The device has refused the capture for now, and the monitor will try again.
Undecided(s) == verdict[s] = "dark" \/ (monitor[s] = "continued" /\ verdict[s] = "error")
AllMade == \A s \in Starts : pc[s] = "done"

\* A capture that has not been left: every new start is refused.
Engaged ==
    /\ phase \in Busy
    /\ \A s \in Starts : fetch[s] \notin Parting
    /\ \A a \in Aborts : abort[a] # "stop"

\* One request at a time, and a task that runs is registered, and is that of the
\* current capture unless it has been cancelled.
TaskInv ==
    /\ \A s, t \in Starts : InProgress(s) /\ InProgress(t) => s = t
    /\ \A s \in Starts : InProgress(s) =>
          /\ drop # "fetch"
          /\ \A t \in Starts : ~Live(t)
          /\ \A a \in Aborts : abort[a] \in {"idle", "done"}
    /\ \A s \in Starts : Live(s) => task = s /\ pc[s] = "done"
    /\ \A a \in Aborts : abort[a] = "stop" => \A s \in Starts : ~Live(s)
    /\ (drop = "fetch" \/ \E a \in Aborts : abort[a] = "fetch") =>
          \A s \in Starts : Live(s) => fetch[s] = "cancelled"
    /\ drop = "fetch" => \A a \in Aborts : abort[a] \in {"idle", "done"}
    /\ \A s \in Starts : pc[s] \in Accepted => captureId = s
    /\ \A s \in Starts : Live(s) => \/ captureId = s
                                    \/ (captureId = None /\ fetch[s] = "cancelled")

\* A start is made while the phase is not busy, which it is from then on until
\* the capture is ready, has failed or is stopped.
PhaseInv ==
    /\ \A s \in Starts :
          /\ pc[s] \in {"ready", "woken"} => phase \notin Busy
          /\ pc[s] \in Unsent \cup {"sent"} => phase \in Busy
          /\ pc[s] = "runtime" => phase \in Busy \cup {"failed"}
          /\ Live(s) /\ fetch[s] # "cancelled" => phase \in {"exposing", "transferring"}
    /\ phase = "ready" => captureId # None /\ \A s \in Starts : ~Live(s)
    /\ phase = "idle" => Told /\ \A s \in Starts : ~Watching(s)

\* While a stop is unanswered nothing can make the device run.
StopInv ==
    /\ stopTask => /\ op \notin Ready /\ Told
                   /\ \A s \in Starts : ~Watching(s) /\ pc[s] \notin Accepted \cup {"woken"}
    /\ (\/ \E s \in Starts : fetch[s] = "stopping"
        \/ \E a \in Aborts : abort[a] = "stop")
       => \A s \in Starts : ~Watching(s)

\* One start's answer is awaited, that of the current capture; until it is known
\* whether the device runs, the session takes it to.
WatchInv ==
    /\ \A s, t \in Starts : Watching(s) /\ Watching(t) => s = t
    /\ \A s \in Starts : Watching(s) => /\ pc[s] \in {"sent", "runtime", "done"}
                                        /\ captureId \in {s, None}
                                        /\ \A t \in Starts : Own(t) => t = s
                                        /\ Undecided(s) => AtRest
    /\ \A s \in Starts : pc[s] = "sent" => /\ monitor[s] = "future"
                                           /\ verdict[s] \in {"error", "dark"} => AtRest
    /\ \A s \in Starts : monitor[s] = "future" => pc[s] = "sent"
    /\ \A s \in Starts : monitor[s] \in {"waiting", "continuing", "continued", "forced"} =>
          /\ startTask = s
          /\ op \in Ready => AtRest /\ ~Undecided(s)
    /\ \A s \in Starts : monitor[s] = "continuing" => verdict[s] = "dark"

\* The device is at rest from when a start is woken until its command is out.
RestInv ==
    /\ \A s \in Starts : pc[s] \in Unsent \cup {"woken"} => AtRest
    /\ \A s, t \in Starts : pc[s] \in Unsent => ~Watching(t)

\* The word that it has stopped is the last one under way.
NoteInv ==
    \A i \in 1..Len(notes) :
        /\ notes[i].state # "idle"
        /\ notes[i].state = "stopped" => i = Len(notes) /\ dev = "idle"

\* The session takes the device to be ready when it is at rest, or while a new
\* start is refused.
ReadyInv ==
    ((op \in Ready /\ ~AtRest) \/ (\E s \in Starts : Watching(s))) => Engaged \/ AllMade

\* The device runs the current capture, and the files that are new are of it; so is
\* the image, unless the capture began within the tolerance of an earlier one's file.
OwnInv ==
    /\ \A s \in Starts : Own(s) => /\ devCap = s \/ (AtRest /\ s \notin fresh)
                                   /\ s \in fresh => newest[1] = s
    /\ \A s \in fresh : pc[s] \notin {"idle", "ready", "woken"}
    /\ captureId # None => devCap = captureId \/ (AtRest /\ current = 0)
    /\ captureId # None /\ image # None => image = captureId \/ captureId \in recent

\* The frame count that is complete is that of the capture, unless the last start
\* there is has overwritten it.
FrameInv ==
    \A s \in Starts : pc[s] \in Accepted \/ fetch[s] \in {"new", "waiting"} =>
        (frameEvent => current >= frames \/ AllMade)

CaptureInv ==
    /\ TaskInv /\ PhaseInv /\ StopInv /\ WatchInv
    /\ RestInv /\ NoteInv /\ ReadyInv /\ OwnInv /\ FrameInv

\* For whom the properties hold: clients that make one request at a time, and
\* either two starts or clients that start nothing while they see a capture under
\* way.
Turns == Serial /\ (Patient \/ \E s, t : Starts \subseteq {s, t})

\* A start that goes on to another place, and no other request does.
LEMMA StartMoves ==
    ASSUME TaskTypes, TaskInv, NEW s \in Starts, InProgress(s), NEW to \in StartPcs,
           pc' = [pc EXCEPT ![s] = to], to # "idle",
           UNCHANGED <<fetch, task, abort, drop>>,
           to \in Accepted => captureId' = s
    PROVE  TaskInv'
<1>1. \A t \in Starts : InProgress(t) => t = s
  BY DEF TaskInv
<1>2. \A t \in Starts : t # s => pc'[t] = pc[t] /\ pc[t] \notin Accepted
  BY <1>1 DEF TaskTypes, InProgress, Accepted, Unsent
<1>3. pc'[s] = to
  BY DEF TaskTypes
<1>4. \A t \in Starts : ~Live(t) /\ ~Live(t)'
  BY DEF TaskInv, Live
<1> QED
  BY <1>1, <1>2, <1>3, <1>4 DEF TaskInv, InProgress

\* A task that goes on, or ends if it has been cancelled.
LEMMA FetchMoves ==
    ASSUME TaskTypes, TaskInv, NEW s \in Starts, Live(s), NEW to,
           fetch' = [fetch EXCEPT ![s] = to], fetch[s] = "cancelled" => to = "done",
           UNCHANGED <<pc, task, abort, drop, captureId>>
    PROVE  TaskInv'
  BY DEF TaskTypes, TaskInv, Live, InProgress

\* The task that runs is cancelled.
LEMMA CancelTaskCancels ==
    ASSUME TaskTypes, TaskInv, CancelTask
    PROVE  /\ \A s \in Starts : Live(s)' => Live(s) /\ fetch'[s] = "cancelled"
           /\ \A s \in Starts : fetch'[s] \in {fetch[s], "cancelled", "done"}
           /\ \A s \in Starts : fetch'[s] \notin Parting \cup {"new", "waiting"}
  BY DEF TaskTypes, TaskInv, CancelTask, Live, Parting

\* No task is registered that runs: none runs.
LEMMA NoneRuns ==
    ASSUME TaskInv, ~TaskRuns PROVE \A s \in Starts : ~Live(s)
  BY DEF TaskInv, TaskRuns

\* The requests, the tasks and the current capture are as they were.
LEMMA TaskKept ==
    ASSUME TaskInv, UNCHANGED <<pc, fetch, task, abort, drop, captureId>>
    PROVE  TaskInv'
  BY DEF TaskInv, InProgress, Live

\* Every step keeps whose turn it is and which tasks may be alive.
LEMMA TaskInvStep ==
    ASSUME Serial, Types, TaskInv, [Next]_vars
    PROVE  TaskInv'
<1>a. TaskTypes /\ RequestTypes /\ None \notin Starts
  BY CaptureAssumption DEF Types
<1>1. ASSUME NEW s \in Starts, Start(s) PROVE TaskInv'
  <2>1. /\ UNCHANGED <<fetch, task, abort, drop, captureId>>
        /\ pc[s] = "idle" /\ (pc' = [pc EXCEPT ![s] = "done"] \/ pc' = [pc EXCEPT ![s] = "ready"])
        /\ pc'[s] # "done" => ~IsBusy
        /\ \A t \in Starts : ~InProgress(t)
        /\ \A a \in Aborts : abort[a] \in {"idle", "done"}
        /\ drop # "fetch"
    BY <1>a, <1>1 DEF Start, MayRequest, taskVars, TaskTypes
  <2>2. pc'[s] # "done" => \A t \in Starts : ~Live(t)
    BY <2>1, NoneRuns DEF IsBusy
  <2> QED
    BY <1>a, <2>1, <2>2 DEF TaskInv, TaskTypes, InProgress, Live, Accepted, Unsent
\* A start that goes on touches no task until it has one.
<1>2. ASSUME NEW s \in Starts,
             \/ Wake(s) \/ QueryState(s) \/ NotReady(s) \/ NotOpened(s)
             \/ ParametersSet(s) \/ DarkChecked(s)
             \/ FeaturesSet(s) \/ ConfigurationFails(s) \/ BaselineTaken(s)
      PROVE  TaskInv'
  <2>1. /\ InProgress(s) /\ UNCHANGED <<fetch, task, abort, drop, captureId>>
        /\ \/ pc' = pc
           \/ \E to \in StartPcs \ {"idle"} :
                 pc' = [pc EXCEPT ![s] = to] /\ (to \in Accepted => pc[s] \in Accepted)
    BY <1>2 DEF Wake, QueryState, NotReady, NotOpened, ParametersSet, DarkChecked, FeaturesSet,
           ConfigurationFails, BaselineTaken, InProgress, stateVars, taskVars, StartPcs, Accepted,
           Unsent
  <2>2. pc[s] \in Accepted => captureId' = s
    BY <2>1 DEF TaskInv
  <2> QED
    BY <1>a, <2>1, <2>2, StartMoves, TaskKept
<1>3. ASSUME NEW s \in Starts, Accept(s) PROVE TaskInv'
  BY <1>a, <1>3, StartMoves DEF Accept, InProgress, taskVars, StartPcs
<1>4. ASSUME NEW s \in Starts, Dispatch(s) \/ Dispatched(s) PROVE TaskInv'
  <2>1. /\ InProgress(s) /\ pc[s] \in Accepted /\ UNCHANGED <<fetch, task, abort, drop>>
        /\ \E to \in {"sent", "runtime", "done"} :
              pc' = [pc EXCEPT ![s] = to] /\ (to # "done" => captureId' = captureId)
    BY <1>4 DEF Dispatch, Dispatched, StartFailed, InProgress, stateVars, taskVars, Accepted,
           Unsent
  <2>2. captureId = s
    BY <2>1 DEF TaskInv
  <2> QED
    BY <1>a, <2>1, <2>2, StartMoves DEF StartPcs, Accepted, Unsent
<1>5. ASSUME NEW s \in Starts, Started(s) PROVE TaskInv'
  <2>1. /\ InProgress(s) /\ pc[s] = "runtime" /\ pc' = [pc EXCEPT ![s] = "done"]
        /\ UNCHANGED <<abort, drop, captureId>>
    BY <1>5 DEF Started, InProgress
  <2>2. CASE StillStarting(s)
    <3>1. fetch' = [fetch EXCEPT ![s] = "new"] /\ task' = s /\ captureId = s
      BY <1>5, <2>2 DEF Started, StillStarting
    <3>2. \A t \in Starts : ~InProgress(t)'
      BY <1>a, <2>1 DEF TaskTypes, TaskInv, InProgress
    <3>3. \A a \in Aborts : abort[a] \in {"idle", "done"}
      BY <2>1 DEF TaskInv
    <3>4. drop # "fetch" /\ \A t \in Starts : ~Live(t)
      BY <2>1 DEF TaskInv
    <3>5. \A t \in Starts : Live(t)' => t = s
      BY <1>a, <3>1, <3>4 DEF TaskTypes, Live
    <3>6. \A t \in Starts : pc'[t] \notin Accepted
      BY <3>2 DEF InProgress, Accepted, Unsent
    <3>7. pc'[s] = "done"
      BY <1>a, <2>1 DEF TaskTypes
    <3> QED
      BY <2>1, <3>1, <3>2, <3>3, <3>4, <3>5, <3>6, <3>7 DEF TaskInv
  <2>3. CASE ~StillStarting(s)
    BY <1>a, <1>5, <2>1, <2>3, StartMoves DEF Started, StartPcs, Accepted, Unsent
  <2> QED
    BY <2>2, <2>3
<1>6. ASSUME NEW s \in Starts, MonitorAnswered(s) \/ MonitorContinues(s) PROVE TaskInv'
  <2>1. UNCHANGED <<pc, task, abort, drop, captureId>> /\ (CancelTask \/ fetch' = fetch)
    BY <1>6 DEF MonitorAnswered, MonitorContinues, MonitorRejects
  <2> QED
    BY <1>a, <2>1, CancelTaskCancels, TaskKept DEF TaskInv, InProgress
\* A task that goes on has not been cancelled, one that was ends.
<1>7. ASSUME NEW s \in Starts, FetchStep(s) PROVE TaskInv'
  <2>1. UNCHANGED <<pc, task, abort, drop, captureId>>
    BY <1>7 DEF FetchStep, FetchBegin, FetchWaits, FetchStops, FtpAwaited, AlbumGives, AlbumFails,
                WentLive, FetchRaises, FetchCancelled, stateVars
  <2>2. /\ fetch[s] \in {"new", "waiting", "stopping", "ftp", "album", "golive", "cancelled"}
        /\ \/ fetch' = fetch
           \/ \E to \in {"waiting", "stopping", "ftp", "album", "golive", "done"} :
                 /\ fetch' = [fetch EXCEPT ![s] = to]
                 /\ fetch[s] = "cancelled" => to = "done"
    BY <1>7 DEF FetchStep, FetchBegin, FetchWaits, FetchLeaves, FetchStops, FtpAwaited, AlbumGives,
                AlbumFails, WentLive, FetchRaises, FetchCancelled
  <2>3. Live(s)
    BY <2>2 DEF Live
  <2> QED
    BY <1>a, <2>1, <2>2, <2>3, FetchMoves, TaskKept
<1>8. ASSUME NEW a \in Aborts, AbortBegin(a) PROVE TaskInv'
  <2>1. /\ pc' = pc /\ drop' = drop /\ captureId' = None /\ CancelTask
        /\ \A s \in Starts : ~InProgress(s)
        /\ drop # "fetch"
        /\ \A b \in Aborts : abort[b] \in {"idle", "done"}
    BY <1>8 DEF AbortBegin, MayRequest
  <2>2. \E to \in {"fetch", "stop", "done"} :
            abort' = [abort EXCEPT ![a] = to] /\ (to = "stop" => ~TaskRuns)
    BY <1>8 DEF AbortBegin, AbortStop, AbortSucceeds
  <2>3. \A s \in Starts : Live(s)' => task' = s /\ pc'[s] = "done"
    <3>1. CASE TaskRuns
      <4>1. task' = task
        BY <1>8, <3>1 DEF AbortBegin
      <4> QED
        BY <1>a, <2>1, <4>1, CancelTaskCancels DEF TaskInv
    <3>2. CASE ~TaskRuns
      BY <1>a, <2>1, <3>2, NoneRuns, CancelTaskCancels
    <3> QED
      BY <3>1, <3>2
  <2>4. ~TaskRuns => \A s \in Starts : ~Live(s)'
    BY <1>a, <2>1, NoneRuns, CancelTaskCancels
  <2>5. \A s \in Starts : Live(s)' => fetch'[s] = "cancelled"
    BY <1>a, <2>1, CancelTaskCancels
  <2>6. \A s \in Starts : pc[s] \notin Accepted
    BY <2>1 DEF InProgress, Accepted, Unsent
  <2> QED
    BY <1>a, <2>1, <2>2, <2>3, <2>4, <2>5, <2>6 DEF TaskInv, RequestTypes, InProgress
<1>9. ASSUME NEW a \in Aborts, AbortStops(a) \/ AbortEnds(a) PROVE TaskInv'
  <2>1. /\ UNCHANGED <<pc, fetch, drop, captureId>>
        /\ abort[a] \in {"fetch", "stop"}
        /\ abort[a] = "fetch" => ~TaskRuns
        /\ \E to \in {"stop", "done"} : abort' = [abort EXCEPT ![a] = to]
    BY <1>9 DEF AbortStops, AbortEnds, AbortStop, AbortSucceeds, taskVars
  <2>2. \A s \in Starts : ~Live(s) /\ ~Live(s)'
    BY <2>1, NoneRuns DEF TaskInv, Live
  <2>3. \A s \in Starts : ~InProgress(s)
    BY <2>1 DEF TaskInv
  <2>4. drop # "fetch"
    BY <2>1 DEF TaskInv
  <2>5. \A s \in Starts : pc[s] \notin Accepted
    BY <2>3 DEF InProgress, Accepted, Unsent
  <2> QED
    BY <2>1, <2>2, <2>3, <2>4, <2>5 DEF TaskInv, InProgress
<1>10. CASE DisconnectBegin
  <2>1. /\ UNCHANGED <<pc, abort, captureId>> /\ CancelTask
        /\ \A s \in Starts : ~InProgress(s)
        /\ \A a \in Aborts : abort[a] \in {"idle", "done"}
        /\ TaskRuns => task' = task
    BY <1>10 DEF DisconnectBegin, MayRequest, Disconnected
  <2>2. \A s \in Starts : Live(s)' => Live(s) /\ TaskRuns /\ fetch'[s] = "cancelled"
    BY <1>a, <2>1, NoneRuns, CancelTaskCancels
  <2> QED
    BY <1>a, <2>1, <2>2 DEF TaskInv, InProgress
<1>11. CASE DisconnectEnds
  <2>1. /\ UNCHANGED <<pc, abort, captureId, fetch>> /\ drop' = "done" /\ ~TaskRuns
    BY <1>11 DEF DisconnectEnds, Disconnected, taskVars
  <2>2. \A s \in Starts : ~Live(s) /\ ~Live(s)'
    BY <2>1, NoneRuns DEF Live
  <2> QED
    BY <1>a, <2>1, <2>2 DEF TaskInv, InProgress
<1>12. ASSUME NEW s \in Starts, FtpFinds(s) \/ FtpGivesUp(s) \/ FtpUndecodable(s)
       PROVE  TaskInv'
  BY <1>12, TaskKept DEF FtpFinds, FtpGivesUp, FtpUndecodable, stateVars
<1>13. CASE \/ StopMonitorEnds \/ Connect \/ Notification \/ NotificationLost
            \/ DeviceShot \/ DeviceStopped \/ UNCHANGED vars
  BY <1>13, TaskKept DEF StopMonitorEnds, Connect, Notification, NotificationLost, DeviceShot,
         DeviceStopped, vars, stateVars, taskVars
<1> QED
  BY <1>1, <1>2, <1>3, <1>4, <1>5, <1>6, <1>7, <1>8, <1>9, <1>10, <1>11, <1>12, <1>13
      DEF Next, StartStep, FetchStep

(***************************************************************************)
(* What the steps of several parts do                                      *)
(***************************************************************************)

\* A start command is taken, or leaves the device as it is.
LEMMA DeviceStarts ==
    ASSUME DeviceTypes, NEW s \in Starts, DeviceStart(s)
    PROVE  /\ UNCHANGED <<newest, fresh, recent>>
           /\ \A t \in Starts : t # s => verdict'[t] = verdict[t]
           /\ \/ UNCHANGED <<dev, runsOn, devCap, shots, notes>>
              \/ /\ dev = "idle" /\ dev' = "running" /\ devCap' = s
                 /\ notes' = Append(notes, NoteState("running"))
                 /\ verdict'[s] \in {"ok", "silent"}
  BY DEF DeviceTypes, DeviceStart, Notify

\* A stop command ends what runs.
LEMMA DeviceStops ==
    ASSUME DeviceTypes, DeviceStop
    PROVE  /\ UNCHANGED <<devCap, shots, newest, fresh, recent, verdict>>
           /\ Told' /\ (dev = "idle" => dev' = "idle")
           /\ \/ UNCHANGED <<dev, notes>>
              \/ /\ dev = "running" /\ dev' = "stopping"
                 /\ notes' = Append(notes, NoteState("stopping"))
  BY DEF DeviceTypes, DeviceStop, Told, Notify

\* The start command goes out, or the capture is given up.
LEMMA Dispatches ==
    ASSUME NEW s \in Starts, Dispatch(s)
    PROVE  /\ pc[s] = "dispatch"
           /\ UNCHANGED <<frames, current, image, task, connected, op, lastEntry, frameEvent,
                          startTask, stopTask, fetch, ftp, monitorId, abort, drop>>
           /\ \/ /\ pc' = [pc EXCEPT ![s] = "sent"]
                 /\ monitor' = [monitor EXCEPT ![s] = "future"]
                 /\ DeviceStart(s)
                 /\ UNCHANGED <<phase, captureId>>
              \/ /\ pc' = [pc EXCEPT ![s] = "done"] /\ captureId' = None
                 /\ phase' \in {"failed", "unknown"}
                 /\ UNCHANGED <<monitor, dev, runsOn, devCap, shots, newest, fresh, recent,
                                verdict, notes>>
  BY DEF Dispatch, StartFailed, stateVars, sessionVars, taskVars, deviceVars

\* The answer ends the monitor, maybe with the capture, or has it continue without
\* a dark; or the device is told to.
LEMMA MonitorMoves ==
    ASSUME NEW s \in Starts, MonitorAnswered(s) \/ MonitorContinues(s)
    PROVE  /\ UNCHANGED <<captureId, frames, current, image, task, connected, op, lastEntry,
                          frameEvent, stopTask, pc, ftp, monitorId, abort, drop>>
           /\ \/ /\ monitor[s] \in {"waiting", "continuing", "continued", "forced"}
                 /\ monitor' = [monitor EXCEPT ![s] = "ended"]
                 /\ startTask' = IF startTask = s THEN None ELSE startTask
                 /\ \/ UNCHANGED <<phase, fetch>>
                    \/ phase' = "failed" /\ CancelTask
                 /\ UNCHANGED <<dev, runsOn, devCap, shots, newest, fresh, recent, verdict, notes>>
              \/ /\ monitor[s] = "waiting" /\ verdict[s] = "dark"
                 /\ monitor' = [monitor EXCEPT ![s] = "continuing"]
                 /\ UNCHANGED <<startTask, phase, fetch>>
                 /\ UNCHANGED <<dev, runsOn, devCap, shots, newest, fresh, recent, verdict, notes>>
              \/ /\ \/ /\ monitor[s] = "continuing"
                       /\ monitor' = [monitor EXCEPT ![s] = "continued"]
                    \/ /\ monitor[s] = "continued" /\ verdict[s] = "error"
                       /\ monitor' = [monitor EXCEPT ![s] = "forced"]
                 /\ verdict'[s] # "dark"
                 /\ DeviceStart(s)
                 /\ UNCHANGED <<startTask, phase, fetch>>
<1>1. CASE MonitorAnswered(s)
  BY <1>1 DEF MonitorAnswered, MonitorRejects, MonitorEnded, deviceVars
<1>2. CASE MonitorContinues(s)
  BY <1>2 DEF MonitorContinues, MonitorRejects, MonitorEnded, deviceVars
<1> QED
  BY <1>1, <1>2

\* The wait goes on, or is left: with a stop command, one that is under way
\* already, or none if the frames are not complete after all.
LEMMA FetchLeft ==
    ASSUME NEW s \in Starts, FetchWaits(s)
    PROVE  /\ fetch[s] = "waiting"
           /\ UNCHANGED <<phase, captureId, frames, current, image, task, connected, lastEntry,
                          frameEvent, stopTask, pc, monitorId, abort, drop, dev, runsOn, devCap,
                          shots, newest, fresh, recent, verdict, notes>>
           /\ \/ /\ StopPrelude
                 /\ fetch' = [fetch EXCEPT ![s] = IF stopTask THEN "ftp" ELSE "stopping"]
              \/ /\ frameEvent /\ ~(current >= frames)
                 /\ fetch' = [fetch EXCEPT ![s] = "ftp"]
                 /\ UNCHANGED <<op, startTask, monitor>>
              \/ UNCHANGED <<op, startTask, monitor, fetch>>
  BY DEF FetchWaits, FetchLeaves, stateVars, deviceVars

\* No start's answer is awaited after a stop.
LEMMA MonitorsEnd ==
    ASSUME MonitorTypes, WatchInv, CancelStartMonitor
    PROVE  \A s \in Starts : ~Watching(s)' /\ monitor'[s] # "future"
  BY DEF MonitorTypes, WatchInv, CancelStartMonitor, Watching

\* What an abort does to the session, when it has no task to wait for.
LEMMA AbortStopDoes ==
    ASSUME NEW a \in Aborts, NEW ph, AbortStop(a, ph)
    PROVE  /\ CancelStartMonitor
           /\ op' = IF stopTask THEN op ELSE "stopping"
           /\ \/ /\ stopTask /\ abort' = [abort EXCEPT ![a] = "done"] /\ phase' = "idle"
                 /\ image' = None /\ task' = None
              \/ /\ ~stopTask /\ abort' = [abort EXCEPT ![a] = "stop"] /\ phase' = ph
                 /\ UNCHANGED <<image, task>>
  BY DEF AbortStop, StopPrelude, AbortSucceeds

\* A disconnection takes the monitors along, or not.
LEMMA DisconnectDoes ==
    ASSUME DisconnectBegin \/ DisconnectEnds
    PROVE  /\ CancelTask \/ fetch' = fetch
           /\ UNCHANGED <<phase, captureId, frames, current, op, lastEntry, frameEvent, pc, ftp,
                          monitorId, abort, dev, runsOn, devCap, shots, newest, fresh, recent,
                          verdict, notes>>
           /\ image' \in {image, None}
           /\ \/ UNCHANGED <<startTask, stopTask, monitor>>
              \/ CancelStartMonitor /\ stopTask' = FALSE
<1>1. CASE DisconnectBegin
  BY <1>1 DEF DisconnectBegin, Disconnected, deviceVars
<1>2. CASE DisconnectEnds
  BY <1>2 DEF DisconnectEnds, Disconnected, deviceVars, taskVars
<1> QED
  BY <1>1, <1>2

\* A ready device ends the monitor of a stop.
LEMMA OperationSet ==
    ASSUME NEW st, SetOperationState(st)
    PROVE  op' = st /\ (stopTask' => stopTask /\ op' \notin Ready)
  BY Zenon DEF SetOperationState

(***************************************************************************)
(* The phase, and a stop under way                                         *)
(***************************************************************************)

\* The phase is kept, and nothing begins.
LEMMA PhaseKept ==
    ASSUME PhaseInv, UNCHANGED <<phase, captureId, pc>>,
           \A s \in Starts :
              /\ Live(s)' => Live(s) /\ (fetch'[s] # "cancelled" => fetch[s] # "cancelled")
              /\ Watching(s)' => Watching(s),
           Told => Told'
    PROVE  PhaseInv'
  BY DEF PhaseInv, Busy

\* Every step keeps what a phase says of the task that owns it.
LEMMA PhaseInvStep ==
    ASSUME Turns, Types, CaptureInv, [Next]_vars
    PROVE  PhaseInv'
<1>a. /\ StateTypes /\ TaskTypes /\ MonitorTypes /\ RequestTypes /\ DeviceTypes
      /\ None \notin Starts
  BY CaptureAssumption DEF Types
<1>c. /\ TaskInv /\ PhaseInv /\ StopInv /\ WatchInv /\ RestInv
  BY DEF CaptureInv
<1>1. ASSUME NEW s \in Starts, Start(s) PROVE PhaseInv'
  BY <1>a, <1>c, <1>1 DEF Start, IsBusy, taskVars, monitorVars, deviceVars, PhaseInv, TaskTypes,
         Busy, Unsent, Live, Watching, Told
<1>2. ASSUME NEW s \in Starts, Wake(s) \/ QueryState(s) \/ NotReady(s) \/ NotOpened(s)
      PROVE  PhaseInv'
  BY <1>a, <1>c, <1>2 DEF Wake, QueryState, NotReady, NotOpened, stateVars, taskVars, monitorVars,
         deviceVars,
         PhaseInv, TaskInv, InProgress, TaskTypes, Busy, Unsent, Live, Watching, Told
<1>3. ASSUME NEW s \in Starts,
             \/ Accept(s) \/ ParametersSet(s) \/ DarkChecked(s) \/ FeaturesSet(s)
             \/ ConfigurationFails(s) \/ BaselineTaken(s)
      PROVE  PhaseInv'
  BY <1>a, <1>c, <1>3 DEF Accept, ParametersSet, DarkChecked, FeaturesSet, ConfigurationFails,
         BaselineTaken, StillStarting, stateVars, taskVars, monitorVars, deviceVars,
         PhaseInv, TaskInv, InProgress, TaskTypes, Busy, Unsent, Live, Watching
<1>4. ASSUME NEW s \in Starts, Dispatch(s) PROVE PhaseInv'
  <2>1. /\ pc[s] = "dispatch" /\ UNCHANGED fetch
        /\ \A t \in Starts : ~Live(t)
        /\ \A t \in Starts : t # s => pc[t] \in {"idle", "done"}
    BY <1>c, <1>4, Dispatches DEF TaskInv, InProgress
  <2>2. \A t \in Starts : ~Live(t)'
    BY <2>1 DEF Live
  <2>3. phase \in Busy
    BY <1>c, <2>1 DEF PhaseInv, Unsent
  <2>4. \/ pc' = [pc EXCEPT ![s] = "sent"] /\ phase' \in Busy
        \/ pc' = [pc EXCEPT ![s] = "done"] /\ phase' \in {"failed", "unknown"}
    BY <1>4, <2>3, Dispatches
  <2> QED
    BY <1>a, <2>1, <2>2, <2>4 DEF PhaseInv, TaskTypes, Busy, Unsent
<1>5. ASSUME NEW s \in Starts, Dispatched(s) \/ Started(s) PROVE PhaseInv'
  BY <1>a, <1>c, <1>5 DEF Dispatched, Started, StartFailed, StillStarting, stateVars, taskVars,
         monitorVars, deviceVars, PhaseInv, TaskInv, WatchInv, InProgress, TaskTypes, MonitorTypes,
         Busy, Unsent, Accepted, Live, Watching
<1>6. ASSUME NEW s \in Starts, MonitorAnswered(s) \/ MonitorContinues(s) PROVE PhaseInv'
  <2>1. UNCHANGED <<captureId, pc>> /\ monitor[s] \in {"waiting", "continuing", "continued",
                    "forced"}
    BY <1>6, MonitorMoves
  <2>2. Watching(s) /\ pc[s] \in {"runtime", "done"}
    BY <1>c, <2>1 DEF WatchInv, Watching
  <2>3. \A t \in Starts : pc[t] \notin Unsent \cup {"sent"}
    BY <1>c, <2>2 DEF WatchInv, Own, Accepted, Unsent
  <2>4. \A t \in Starts : Watching(t) => t = s
    BY <1>c, <2>2 DEF WatchInv
  <2>5. CASE UNCHANGED <<phase, fetch>>
    <3>1. phase # "idle"
      BY <1>c, <2>2 DEF PhaseInv
    <3> QED
      BY <1>c, <2>1, <2>5, <3>1 DEF PhaseInv, Live
  <2>6. CASE phase' = "failed" /\ CancelTask
    <3>1. \A t \in Starts : Live(t)' => fetch'[t] = "cancelled"
      BY <1>a, <1>c, <2>6, CancelTaskCancels
    <3> QED
      BY <1>c, <2>1, <2>3, <2>6, <3>1 DEF PhaseInv, Busy
  <2> QED
    BY <1>6, <2>5, <2>6, MonitorMoves
<1>7. ASSUME NEW s \in Starts, FetchBegin(s) \/ AlbumFails(s) \/ WentLive(s) PROVE PhaseInv'
  <2>1. /\ Live(s) /\ fetch[s] # "cancelled"
        /\ UNCHANGED <<captureId, pc, monitor, dev, runsOn>>
        /\ \E to \in {"waiting", "done"} : fetch' = [fetch EXCEPT ![s] = to]
    BY <1>7 DEF FetchBegin, AlbumFails, WentLive, Live, monitorVars, deviceVars
  <2>2. \A t \in Starts : Live(t) => t = s
    BY <1>c, <2>1 DEF TaskInv
  <2>3. captureId = s /\ \A t \in Starts : pc[t] \in {"idle", "done"}
    BY <1>c, <2>1 DEF TaskInv, InProgress
  <2>4. \/ phase' = "transferring"
        \/ phase' \in {"failed", "ready"} /\ fetch' = [fetch EXCEPT ![s] = "done"]
    BY <1>7 DEF FetchBegin, AlbumFails, WentLive
  <2>5. \A t \in Starts : Live(t)' => t = s /\ phase' = "transferring"
    BY <1>a, <2>1, <2>2, <2>4 DEF TaskTypes, Live
  <2> QED
    BY <1>a, <2>1, <2>3, <2>4, <2>5 DEF PhaseInv, Unsent
<1>8. ASSUME NEW s \in Starts,
             \/ FetchWaits(s) \/ FetchStops(s) \/ FtpAwaited(s) \/ AlbumGives(s)
             \/ FetchRaises(s) \/ FetchCancelled(s)
      PROVE  PhaseInv'
  <2>1. /\ UNCHANGED <<phase, captureId, pc>> /\ Live(s)
        /\ \/ fetch' = fetch
           \/ \E to \in {"ftp", "stopping", "album", "golive", "done"} :
                 fetch' = [fetch EXCEPT ![s] = to] /\ (fetch[s] = "cancelled" => to = "done")
    BY <1>8, FetchLeft DEF FetchStops, FtpAwaited, AlbumGives, FetchRaises, FetchCancelled,
           stateVars, Live
  <2>2. \A t \in Starts : Live(t)' => Live(t) /\ (fetch'[t] # "cancelled" => fetch[t] # "cancelled")
    BY <1>a, <2>1 DEF TaskTypes, Live
  <2>3. \A t \in Starts : Watching(t)' => Watching(t)
    <3>1. StopPrelude \/ UNCHANGED monitor
      BY <1>8, FetchLeft DEF FetchStops, FtpAwaited, AlbumGives, FetchRaises, FetchCancelled,
             monitorVars
    <3> QED
      BY <1>a, <1>c, <3>1, MonitorsEnd DEF StopPrelude, Watching
  <2>4. Told => Told'
    BY <1>a, <1>8, FetchLeft, DeviceStops DEF FetchStops, FtpAwaited, AlbumGives, FetchRaises,
           FetchCancelled, deviceVars, Told
  <2> QED
    BY <1>c, <2>1, <2>2, <2>3, <2>4, PhaseKept
<1>9. ASSUME NEW a \in Aborts, AbortBegin(a) PROVE PhaseInv'
  <2>1. /\ UNCHANGED <<pc, dev, runsOn>> /\ CancelTask
        /\ \A s \in Starts : pc[s] \in {"idle", "done"}
    BY <1>9 DEF AbortBegin, Turns, MayRequest, InProgress, deviceVars
  <2>2. \A s \in Starts : Live(s)' => fetch'[s] = "cancelled"
    BY <1>a, <1>c, <2>1, CancelTaskCancels
  <2>3. \/ phase' = "aborting"
        \/ stopTask /\ phase' = "idle" /\ CancelStartMonitor
    BY <1>9, AbortStopDoes DEF AbortBegin
  <2>4. phase' = "idle" => Told /\ \A s \in Starts : ~Watching(s)'
    BY <1>a, <1>c, <2>3, MonitorsEnd DEF StopInv
  <2> QED
    BY <2>1, <2>2, <2>3, <2>4 DEF PhaseInv, Unsent, Busy, Told
<1>10. ASSUME NEW a \in Aborts, AbortStops(a) PROVE PhaseInv'
  <2>1. /\ UNCHANGED <<pc, captureId, fetch, dev, runsOn>> /\ AbortStop(a, phase)
        /\ \A s \in Starts : ~Live(s)
    BY <1>c, <1>10, NoneRuns DEF AbortStops, taskVars, deviceVars
  <2>2. \A s \in Starts : pc[s] \in {"idle", "done"} /\ ~Live(s)'
    BY <1>c, <1>10, <2>1 DEF AbortStops, TaskInv, InProgress, Live
  <2>3. CancelStartMonitor /\ (phase' = phase \/ (stopTask /\ phase' = "idle"))
    BY <2>1, AbortStopDoes
  <2>4. \A s \in Starts : ~Watching(s)'
    BY <1>a, <1>c, <2>3, MonitorsEnd
  <2> QED
    BY <1>c, <2>1, <2>2, <2>3, <2>4 DEF PhaseInv, StopInv, Unsent, Told
<1>11. ASSUME NEW a \in Aborts, AbortEnds(a) PROVE PhaseInv'
  <2>1. /\ abort[a] = "stop" /\ UNCHANGED <<pc, captureId, fetch, monitor>>
        /\ \/ phase' = "idle" /\ Told'
           \/ phase' = phase /\ UNCHANGED <<dev, runsOn>>
    BY <1>a, <1>11, DeviceStops DEF AbortEnds, AbortSucceeds, taskVars, monitorVars, deviceVars
  <2>2. \A s \in Starts : pc[s] \in {"idle", "done"} /\ ~Live(s) /\ ~Live(s)' /\ ~Watching(s)'
    BY <1>c, <2>1 DEF TaskInv, StopInv, InProgress, Live, Watching
  <2> QED
    BY <1>c, <2>1, <2>2 DEF PhaseInv, Unsent, Told
<1>12. CASE DisconnectBegin \/ DisconnectEnds
  <2>1. /\ UNCHANGED <<phase, captureId, pc, dev, runsOn>>
        /\ CancelTask \/ fetch' = fetch
        /\ UNCHANGED monitor \/ CancelStartMonitor
    BY <1>12, DisconnectDoes
  <2>2. \A s \in Starts :
           /\ Live(s)' => Live(s) /\ (fetch'[s] # "cancelled" => fetch[s] # "cancelled")
           /\ Watching(s)' => Watching(s)
    BY <1>a, <1>c, <2>1, CancelTaskCancels, MonitorsEnd DEF Live, Watching
  <2> QED
    BY <1>c, <2>1, <2>2, PhaseKept DEF Told
<1>13. ASSUME NEW s \in Starts, FtpFinds(s) \/ FtpGivesUp(s) \/ FtpUndecodable(s)
       PROVE  PhaseInv'
  BY <1>c, <1>13, PhaseKept DEF FtpFinds, FtpGivesUp, FtpUndecodable, stateVars, monitorVars,
         deviceVars, Live, Watching, Told
<1>14. CASE \/ StopMonitorEnds \/ Connect \/ Notification \/ NotificationLost
            \/ DeviceShot \/ DeviceStopped \/ UNCHANGED vars
  BY <1>c, <1>14, PhaseKept DEF StopMonitorEnds, Connect, Notification, NotificationLost,
         DeviceShot, DeviceStopped, vars, stateVars, taskVars, monitorVars, deviceVars, Live,
         Watching, Told
<1> QED
  BY <1>1, <1>2, <1>3, <1>4, <1>5, <1>6, <1>7, <1>8, <1>9, <1>10, <1>11, <1>12, <1>13, <1>14
      DEF Next, StartStep, FetchStep

\* No stop becomes unanswered, and nothing is awaited or accepted.
LEMMA StopKept ==
    ASSUME StopInv, UNCHANGED abort, stopTask' => stopTask,
           stopTask' => op' \notin Ready /\ Told',
           \A s \in Starts :
              /\ Watching(s)' => Watching(s)
              /\ pc'[s] \in Accepted \cup {"woken"} => pc[s] \in Accepted \cup {"woken"}
              /\ fetch'[s] = "stopping" => fetch[s] = "stopping"
    PROVE  StopInv'
  BY DEF StopInv

\* Every step keeps that nothing can make the device run while a stop is unanswered.
LEMMA StopInvStep ==
    ASSUME Turns, Types, CaptureInv, [Next]_vars
    PROVE  StopInv'
<1>a. /\ StateTypes /\ TaskTypes /\ MonitorTypes /\ RequestTypes /\ DeviceTypes
      /\ None \notin Starts
  BY CaptureAssumption DEF Types
<1>c. /\ TaskInv /\ PhaseInv /\ StopInv /\ WatchInv /\ RestInv
  BY DEF CaptureInv
\* Until its command is out a start changes neither.
<1>1. ASSUME NEW s \in Starts,
             \/ Start(s) \/ QueryState(s) \/ Accept(s) \/ NotReady(s) \/ NotOpened(s)
             \/ ParametersSet(s)
             \/ DarkChecked(s) \/ FeaturesSet(s) \/ ConfigurationFails(s) \/ BaselineTaken(s)
             \/ Started(s)
      PROVE  StopInv'
  <2>1. /\ UNCHANGED <<abort, monitor, dev, runsOn>>
        /\ stopTask' => stopTask /\ op' \notin Ready
    <3>1. CASE QueryState(s)
      BY <3>1 DEF QueryState, SetOperationState, monitorVars, deviceVars
    <3>2. CASE ~QueryState(s)
      <4>1. UNCHANGED <<abort, monitor, dev, runsOn, stopTask, op>>
        BY <1>1, <3>2 DEF Start, Accept, NotReady, NotOpened, ParametersSet, DarkChecked,
               FeaturesSet,
               ConfigurationFails, BaselineTaken, Started, sessionVars, monitorVars, deviceVars
      <4> QED
        BY <1>c, <4>1 DEF StopInv
    <3> QED
      BY <3>1, <3>2
  <2>2. \A t \in Starts :
           pc'[t] \in Accepted \cup {"woken"} => pc[t] \in Accepted \cup {"woken"}
    BY <1>a, <1>1 DEF Start, QueryState, Accept, NotReady, NotOpened, ParametersSet, DarkChecked,
           FeaturesSet,
           ConfigurationFails, BaselineTaken, Started, TaskTypes, Accepted, Unsent
  <2>3. \A t \in Starts : fetch'[t] = "stopping" => fetch[t] = "stopping"
    BY <1>a, <1>1 DEF Start, QueryState, Accept, NotReady, NotOpened, ParametersSet, DarkChecked,
           FeaturesSet,
           ConfigurationFails, BaselineTaken, Started, taskVars, TaskTypes
  <2> QED
    BY <1>c, <2>1, <2>2, <2>3, StopKept DEF StopInv, Watching, Told
\* The ready device that wakes a start has ended the monitor of the stop.
<1>2. ASSUME NEW s \in Starts, Wake(s) PROVE StopInv'
  BY <1>a, <1>c, <1>2 DEF Wake, sessionVars, taskVars, monitorVars, deviceVars, StopInv, Watching
<1>3. ASSUME NEW s \in Starts, Dispatch(s) \/ Dispatched(s) PROVE StopInv'
  <2>1. pc[s] \in Accepted /\ UNCHANGED <<stopTask, fetch, abort>>
    BY <1>3, Dispatches DEF Dispatched, taskVars, Accepted, Unsent
  <2>2. ~stopTask
    BY <1>c, <2>1 DEF StopInv
  <2>3. \A t \in Starts : ~Live(t)
    BY <1>c, <2>1 DEF TaskInv, InProgress, Accepted, Unsent
  <2>4. \A a \in Aborts : abort[a] # "stop"
    BY <1>c, <2>1 DEF TaskInv, InProgress, Accepted, Unsent
  <2> QED
    BY <2>1, <2>2, <2>3, <2>4 DEF StopInv, Live
<1>4. ASSUME NEW s \in Starts, MonitorAnswered(s) \/ MonitorContinues(s) PROVE StopInv'
  <2>1. /\ Watching(s) /\ UNCHANGED <<stopTask, abort>>
        /\ \A t \in Starts : fetch'[t] = "stopping" => fetch[t] = "stopping"
    BY <1>a, <1>c, <1>4, MonitorMoves, CancelTaskCancels DEF Watching
  <2> QED
    BY <1>c, <2>1 DEF StopInv
<1>5. ASSUME NEW s \in Starts, FetchWaits(s) PROVE StopInv'
  <2>1. /\ UNCHANGED <<stopTask, pc, dev, runsOn, abort>>
        /\ \/ StopPrelude
           \/ /\ fetch' = [fetch EXCEPT ![s] = "ftp"] \/ fetch' = fetch
              /\ UNCHANGED <<op, monitor>>
    BY <1>5, FetchLeft
  <2>2. CASE StopPrelude
    <3>1. (\A t \in Starts : ~Watching(t)') /\ op' \in {op, "stopping"}
      BY <1>a, <1>c, <2>2, MonitorsEnd DEF StopPrelude
    <3> QED
      BY <1>c, <2>1, <3>1 DEF StopInv, Ready, Told
  <2>3. CASE /\ fetch' = [fetch EXCEPT ![s] = "ftp"] \/ fetch' = fetch
             /\ UNCHANGED <<op, monitor>>
    <3>1. \A t \in Starts : fetch'[t] = "stopping" => fetch[t] = "stopping"
      BY <1>a, <2>3 DEF TaskTypes
    <3> QED
      BY <1>c, <2>1, <2>3, <3>1, StopKept DEF StopInv, Watching, Told
  <2> QED
    BY <2>1, <2>2, <2>3
<1>6. ASSUME NEW s \in Starts, FetchStops(s) PROVE StopInv'
  <2>1. /\ fetch[s] = "stopping" /\ UNCHANGED <<op, pc, monitor, abort>>
        /\ \/ Told' /\ stopTask' = (op \notin Ready)
           \/ UNCHANGED <<dev, runsOn, stopTask>>
        /\ fetch' = [fetch EXCEPT ![s] = "ftp"]
    BY <1>a, <1>6, DeviceStops DEF FetchStops, monitorVars, deviceVars
  <2>2. (\A t \in Starts : ~Watching(t)') /\ Live(s)
    BY <1>c, <2>1 DEF StopInv, Watching, Live
  <2>3. \A t \in Starts : pc'[t] \notin Accepted \cup {"woken"}
    BY <1>c, <2>1, <2>2 DEF TaskInv, InProgress, Accepted, Unsent
  <2>4. stopTask' => op' \notin Ready /\ Told'
    BY <1>c, <2>1 DEF StopInv, Told
  <2> QED
    BY <2>2, <2>3, <2>4 DEF StopInv
<1>7. ASSUME NEW s \in Starts,
             \/ FetchBegin(s) \/ FtpAwaited(s) \/ AlbumGives(s) \/ AlbumFails(s) \/ WentLive(s)
             \/ FetchRaises(s) \/ FetchCancelled(s)
             \/ FtpFinds(s) \/ FtpGivesUp(s) \/ FtpUndecodable(s)
      PROVE  StopInv'
  <2>1. UNCHANGED <<abort, stopTask, op, dev, runsOn, pc, monitor>>
    BY <1>7 DEF FetchBegin, FtpAwaited, AlbumGives, AlbumFails, WentLive, FetchRaises,
           FetchCancelled, FtpFinds, FtpGivesUp, FtpUndecodable, sessionVars, monitorVars,
           deviceVars
  <2>2. \A t \in Starts : fetch'[t] = "stopping" => fetch[t] = "stopping"
    BY <1>a, <1>7 DEF FetchBegin, FtpAwaited, AlbumGives, AlbumFails, WentLive, FetchRaises,
           FetchCancelled, FtpFinds, FtpGivesUp, FtpUndecodable, TaskTypes
  <2> QED
    BY <1>c, <2>1, <2>2, StopKept DEF StopInv, Watching, Told
<1>8. ASSUME NEW a \in Aborts, AbortBegin(a) PROVE StopInv'
  <2>1. UNCHANGED <<stopTask, pc, dev, runsOn>> /\ CancelTask
    BY <1>8 DEF AbortBegin, deviceVars
  <2>2. \A s \in Starts : fetch'[s] # "stopping"
    BY <1>a, <1>c, <2>1, CancelTaskCancels DEF Parting
  <2>3. CASE TaskRuns
    <3>1. UNCHANGED <<op, monitor>> /\ \A b \in Aborts : abort'[b] # "stop"
      BY <1>a, <1>8, <2>3 DEF AbortBegin, MayRequest, Turns, RequestTypes
    <3> QED
      BY <1>c, <2>1, <2>2, <3>1 DEF StopInv, Watching, Told
  <2>4. CASE ~TaskRuns
    <3>1. CancelStartMonitor /\ op' = IF stopTask THEN op ELSE "stopping"
      BY <1>8, <2>4, AbortStopDoes DEF AbortBegin
    <3>2. \A s \in Starts : ~Watching(s)'
      BY <1>a, <1>c, <3>1, MonitorsEnd
    <3> QED
      BY <1>c, <2>1, <3>1, <3>2 DEF StopInv, Told
  <2> QED
    BY <2>3, <2>4
<1>9. ASSUME NEW a \in Aborts, AbortStops(a) PROVE StopInv'
  <2>1. UNCHANGED <<stopTask, pc, dev, runsOn>> /\ AbortStop(a, phase)
    BY <1>9 DEF AbortStops, deviceVars
  <2>2. CancelStartMonitor /\ op' = IF stopTask THEN op ELSE "stopping"
    BY <2>1, AbortStopDoes
  <2>3. \A s \in Starts : ~Watching(s)'
    BY <1>a, <1>c, <2>2, MonitorsEnd
  <2> QED
    BY <1>c, <2>1, <2>2, <2>3 DEF StopInv, Told
<1>10. ASSUME NEW a \in Aborts, AbortEnds(a) PROVE StopInv'
  <2>1. /\ abort[a] = "stop" /\ UNCHANGED <<op, pc, monitor, fetch>>
        /\ \/ Told' /\ stopTask' = (op \notin Ready)
           \/ UNCHANGED <<dev, runsOn, stopTask>>
    BY <1>a, <1>10, DeviceStops DEF AbortEnds, taskVars, monitorVars, deviceVars
  <2>2. \A s \in Starts : ~Watching(s)'
    BY <1>c, <2>1 DEF StopInv, Watching
  <2>3. \A s \in Starts : pc'[s] \notin Accepted \cup {"woken"}
    BY <1>c, <2>1 DEF TaskInv, InProgress, Accepted, Unsent
  <2>4. stopTask' => op' \notin Ready /\ Told'
    BY <1>c, <2>1 DEF StopInv, Told
  <2> QED
    BY <2>2, <2>3, <2>4 DEF StopInv
<1>11. CASE DisconnectBegin \/ DisconnectEnds
  <2>1. /\ UNCHANGED <<op, pc, abort, dev, runsOn>>
        /\ CancelTask \/ fetch' = fetch
        /\ \/ UNCHANGED <<stopTask, monitor>>
           \/ CancelStartMonitor /\ stopTask' = FALSE
    BY <1>11, DisconnectDoes
  <2>2. \A s \in Starts : /\ fetch'[s] = "stopping" => fetch[s] = "stopping"
                          /\ Watching(s)' => Watching(s)
    BY <1>a, <1>c, <2>1, CancelTaskCancels, MonitorsEnd DEF Watching
  <2> QED
    BY <1>c, <2>1, <2>2, StopKept DEF StopInv, Told
<1>12. CASE \/ StopMonitorEnds \/ Connect \/ Notification \/ NotificationLost
            \/ DeviceShot \/ DeviceStopped \/ UNCHANGED vars
  <2>1. /\ UNCHANGED <<abort, fetch, pc, monitor>>
        /\ stopTask' => stopTask /\ (op' = op \/ op' \notin Ready)
        /\ Told => Told'
    <3>1. CASE Connect
      <4>1. UNCHANGED <<abort, fetch, pc, monitor, dev, runsOn>>
        BY <3>1 DEF Connect, taskVars, monitorVars, deviceVars
      <4>2. UNCHANGED <<op, stopTask>> \/ SetOperationState(dev)
        BY <3>1, Zenon DEF Connect
      <4> QED
        BY <4>1, <4>2, OperationSet DEF Told
    <3>3. CASE Notification
      <4>1. UNCHANGED <<abort, fetch, pc, monitor, dev, runsOn>>
        BY <3>3 DEF Notification, taskVars, monitorVars
      <4>2. UNCHANGED <<op, stopTask>> \/ \E st : SetOperationState(st)
        BY <3>3, Zenon DEF Notification
      <4> QED
        BY <4>1, <4>2, OperationSet DEF Told
    <3>2. CASE StopMonitorEnds \/ NotificationLost \/ DeviceShot \/ DeviceStopped \/ UNCHANGED vars
      BY <3>2 DEF StopMonitorEnds, NotificationLost, DeviceShot, DeviceStopped, vars, stateVars,
             sessionVars, taskVars, monitorVars, deviceVars, Told
    <3> QED
      BY <1>12, <3>1, <3>2, <3>3
  <2> QED
    BY <1>c, <2>1, StopKept DEF StopInv, Watching
<1> QED
  BY <1>1, <1>2, <1>3, <1>4, <1>5, <1>6, <1>7, <1>8, <1>9, <1>10, <1>11, <1>12
      DEF Next, StartStep, FetchStep

(***************************************************************************)
(* The device at rest                                                      *)
(***************************************************************************)

\* A start that waits is not refused: nobody awaits an answer, and a device that
\* the session takes to be ready is at rest.
LEMMA ReadyIsRest ==
    ASSUME PhaseInv, RestInv, ReadyInv, NEW s \in Starts,
           pc[s] \in Unsent \cup {"ready", "woken"}
    PROVE  /\ \A t \in Starts : ~Watching(t)
           /\ op \in Ready => AtRest
<1>1. CASE pc[s] \in Unsent
  BY <1>1 DEF RestInv
<1>2. CASE pc[s] \in {"ready", "woken"}
  <2>1. phase \notin Busy /\ pc[s] # "done"
    BY <1>2 DEF PhaseInv
  <2> QED
    BY <2>1 DEF ReadyInv, Engaged, AllMade
<1> QED
  BY <1>1, <1>2

\* No start has been woken whose command is not out.
LEMMA RestFree ==
    ASSUME \A s \in Starts : pc'[s] \notin Unsent \cup {"woken"}
    PROVE  RestInv'
  BY DEF RestInv

\* Every step keeps the device at rest from a start's waking until its command is out.
LEMMA RestInvStep ==
    ASSUME Turns, Types, CaptureInv, [Next]_vars
    PROVE  RestInv'
<1>a. /\ StateTypes /\ TaskTypes /\ MonitorTypes /\ RequestTypes /\ DeviceTypes
      /\ None \notin Starts
  BY CaptureAssumption DEF Types
<1>c. /\ TaskInv /\ PhaseInv /\ WatchInv /\ RestInv /\ ReadyInv
  BY DEF CaptureInv
<1>1. ASSUME NEW s \in Starts,
             \/ Start(s) \/ QueryState(s) \/ Accept(s) \/ Wake(s) \/ NotReady(s) \/ NotOpened(s)
             \/ ParametersSet(s) \/ DarkChecked(s) \/ FeaturesSet(s) \/ ConfigurationFails(s)
             \/ BaselineTaken(s)
      PROVE  RestInv'
  <2>1. UNCHANGED <<dev, notes, monitor>>
    BY <1>1 DEF Start, QueryState, Accept, Wake, NotReady, NotOpened, ParametersSet, DarkChecked,
           FeaturesSet,
           ConfigurationFails, BaselineTaken, monitorVars, deviceVars
  <2>2. /\ \A t \in Starts : t # s => pc'[t] = pc[t]
        /\ pc'[s] \in Unsent \cup {"woken"} =>
              /\ pc[s] \in Unsent \cup {"ready", "woken"}
              /\ pc[s] = "ready" => op \in Ready
    BY <1>a, <1>1 DEF Start, QueryState, Accept, Wake, NotReady, NotOpened, ParametersSet,
           DarkChecked,
           FeaturesSet, ConfigurationFails, BaselineTaken, TaskTypes, Unsent
  <2>3. pc'[s] \in Unsent \cup {"woken"} => AtRest /\ \A t \in Starts : ~Watching(t)
    BY <1>c, <2>2, ReadyIsRest DEF RestInv
  <2> QED
    BY <1>c, <2>1, <2>2, <2>3 DEF RestInv, AtRest, Watching
<1>2. ASSUME NEW s \in Starts, Dispatch(s) \/ Dispatched(s) \/ Started(s) PROVE RestInv'
  <2>1. InProgress(s) /\ \E to \in {"sent", "runtime", "done"} : pc' = [pc EXCEPT ![s] = to]
    BY <1>2, Dispatches DEF Dispatched, Started, StartFailed, InProgress
  <2> QED
    BY <1>a, <1>c, <2>1, RestFree DEF TaskInv, TaskTypes, InProgress, Unsent
<1>3. ASSUME NEW s \in Starts, MonitorAnswered(s) \/ MonitorContinues(s) PROVE RestInv'
  <2>1. Watching(s) /\ pc' = pc
    BY <1>3, MonitorMoves DEF Watching
  <2>2. \A t \in Starts : pc[t] \notin Unsent \cup {"woken"}
    BY <1>c, <2>1, ReadyIsRest
  <2> QED
    BY <2>1, <2>2, RestFree
<1>4. ASSUME NEW s \in Starts, FetchStep(s) PROVE RestInv'
  <2>1. Live(s) /\ pc' = pc
    BY <1>4 DEF FetchStep, FetchBegin, FetchWaits, FetchStops, FtpAwaited, AlbumGives, AlbumFails,
           WentLive, FetchRaises, FetchCancelled, Live
  <2> QED
    BY <1>c, <2>1, RestFree DEF TaskInv, InProgress, Unsent
<1>5. ASSUME NEW a \in Aborts, AbortBegin(a) \/ AbortStops(a) \/ AbortEnds(a) PROVE RestInv'
  <2>1. pc' = pc /\ \A s \in Starts : ~InProgress(s)
    BY <1>c, <1>5 DEF AbortBegin, AbortStops, AbortEnds, Turns, MayRequest, TaskInv
  <2> QED
    BY <2>1, RestFree DEF InProgress, Unsent
<1>6. CASE DisconnectBegin \/ DisconnectEnds
  <2>1. pc' = pc /\ \A s \in Starts : ~InProgress(s)
    BY <1>c, <1>6 DEF DisconnectBegin, DisconnectEnds, Turns, MayRequest, TaskInv
  <2> QED
    BY <2>1, RestFree DEF InProgress, Unsent
<1>7. ASSUME NEW s \in Starts, FtpFinds(s) \/ FtpGivesUp(s) \/ FtpUndecodable(s) PROVE RestInv'
  BY <1>c, <1>7 DEF FtpFinds, FtpGivesUp, FtpUndecodable, monitorVars, deviceVars, RestInv, AtRest,
         Watching
<1>8. CASE StopMonitorEnds \/ Connect \/ UNCHANGED vars
  BY <1>c, <1>8 DEF StopMonitorEnds, Connect, vars, monitorVars, deviceVars, RestInv, AtRest,
         Watching
<1>9. CASE Notification \/ NotificationLost \/ DeviceShot \/ DeviceStopped
  <2>1. ~AtRest /\ pc' = pc
    BY <1>9 DEF Notification, NotificationLost, DeviceShot, DeviceStopped, AtRest
  <2> QED
    BY <1>c, <2>1, RestFree DEF RestInv
<1> QED
  BY <1>1, <1>2, <1>3, <1>4, <1>5, <1>6, <1>7, <1>8, <1>9 DEF Next, StartStep, FetchStep

\* A device that is told to start was at rest.
LEMMA RestBeforeStart ==
    ASSUME WatchInv, RestInv, NEW s \in Starts,
           \/ pc[s] = "dispatch" \/ monitor[s] = "continuing"
           \/ monitor[s] = "continued" /\ verdict[s] = "error"
    PROVE  AtRest
  BY DEF WatchInv, RestInv, Watching, Undecided, Unsent

\* The word that the device stopped is not followed by another.
LEMMA NoteAppended ==
    ASSUME DeviceTypes, NoteInv, NEW st \in {"running", "stopping", "stopped", "none"}, NEW n,
           st \in OpStates => n = NoteState(st), st = "none" => n.state = "none",
           notes' = Append(notes, n), AtRest \/ dev # "idle", st = "stopped" => dev' = "idle"
    PROVE  NoteInv'
<1>1. notes \in Seq(Notes) /\ Len(notes) \in Nat
  BY DEF DeviceTypes
<1>2. /\ Len(notes') = Len(notes) + 1 /\ notes'[Len(notes) + 1] = n
      /\ \A i \in 1..Len(notes) : notes'[i] = notes[i]
  BY <1>1
<1>3. \A i \in 1..Len(notes) : notes[i].state # "stopped"
  BY <1>1 DEF NoteInv, AtRest
<1>4. n.state = st
  BY DEF NoteState, OpStates
<1>5. ASSUME NEW i \in 1..Len(notes')
      PROVE  /\ notes'[i].state # "idle"
             /\ notes'[i].state = "stopped" => i = Len(notes') /\ dev' = "idle"
  <2>1. CASE i \in 1..Len(notes)
    BY <1>2, <1>3, <2>1 DEF NoteInv
  <2>2. CASE i = Len(notes) + 1
    BY <1>2, <1>4, <2>2
  <2> QED
    BY <1>1, <1>2, <2>1, <2>2
<1> QED
  BY <1>5 DEF NoteInv

\* The notes move up, but for the first.
LEMMA NotesMoveUp ==
    ASSUME NoteInv, Len(notes) \in Nat \ {0}, Len(notes') = Len(notes) - 1,
           \A i \in 1..Len(notes') : notes'[i] = notes[i + 1], UNCHANGED dev
    PROVE  NoteInv'
<1>1. ASSUME NEW i \in 1..Len(notes')
      PROVE  /\ notes'[i].state # "idle"
             /\ notes'[i].state = "stopped" => i = Len(notes') /\ dev' = "idle"
  <2>1. i + 1 \in 1..Len(notes) /\ notes'[i] = notes[i + 1]
    OBVIOUS
  <2>2. /\ notes[i + 1].state # "idle"
        /\ notes[i + 1].state = "stopped" => i + 1 = Len(notes) /\ dev = "idle"
    BY <2>1 DEF NoteInv
  <2>3. i + 1 = Len(notes) => i = Len(notes')
    OBVIOUS
  <2> QED
    BY <2>1, <2>2, <2>3
<1> QED
  BY <1>1 DEF NoteInv

\* The first note is taken away.
LEMMA NoteRead ==
    ASSUME DeviceTypes, NoteInv, notes # << >>, notes' = Tail(notes), UNCHANGED dev
    PROVE  /\ NoteInv'
           /\ Head(notes).state # "idle"
           /\ Head(notes).state = "stopped" => dev = "idle" /\ notes' = << >>
<1>1. /\ notes \in Seq(Notes) /\ Len(notes) \in Nat \ {0} /\ Len(notes') = Len(notes) - 1
      /\ \A i \in 1..Len(notes') : notes'[i] = notes[i + 1]
      /\ Head(notes) = notes[1] /\ notes' \in Seq(Notes)
  BY DEF DeviceTypes
<1>2. NoteInv'
  BY <1>1, NotesMoveUp
<1>3. 1 \in 1..Len(notes)
  BY <1>1
<1>4. /\ notes[1].state # "idle"
      /\ notes[1].state = "stopped" => 1 = Len(notes) /\ dev = "idle"
  BY <1>3 DEF NoteInv
<1>5. Len(notes) = 1 => notes' = << >>
  BY <1>1
<1> QED
  BY <1>1, <1>2, <1>4, <1>5

\* Every step keeps the word that the device has stopped the last one under way.
LEMMA NoteInvStep ==
    ASSUME Turns, Types, CaptureInv, [Next]_vars
    PROVE  NoteInv'
<1>a. DeviceTypes
  BY DEF Types
<1>c. WatchInv /\ RestInv /\ NoteInv
  BY DEF CaptureInv
<1>1. CASE UNCHANGED <<dev, notes>>
  BY <1>c, <1>1 DEF NoteInv
<1>2. ASSUME NEW s \in Starts, DeviceStart(s), AtRest PROVE NoteInv'
  BY <1>a, <1>c, <1>1, <1>2, DeviceStarts, NoteAppended DEF OpStates
<1>3. ASSUME DeviceStop PROVE NoteInv'
  BY <1>a, <1>c, <1>1, <1>3, DeviceStops, NoteAppended DEF OpStates
<1>4. ASSUME NEW s \in Starts, Dispatch(s) PROVE NoteInv'
  BY <1>c, <1>1, <1>2, <1>4, Dispatches, RestBeforeStart
<1>5. ASSUME NEW s \in Starts, MonitorAnswered(s) \/ MonitorContinues(s) PROVE NoteInv'
  BY <1>c, <1>1, <1>2, <1>5, MonitorMoves, RestBeforeStart
<1>6. ASSUME NEW s \in Starts, FetchStops(s) PROVE NoteInv'
  BY <1>1, <1>3, <1>6 DEF FetchStops, deviceVars
<1>7. ASSUME NEW a \in Aborts, AbortEnds(a) PROVE NoteInv'
  BY <1>1, <1>3, <1>7 DEF AbortEnds, deviceVars
<1>8. CASE Notification \/ NotificationLost
  BY <1>a, <1>c, <1>8, NoteRead DEF Notification, NotificationLost
<1>9. CASE DeviceShot
  BY <1>a, <1>c, <1>9, NoteAppended DEF DeviceShot, Notify, NoteCount, OpStates
<1>10. CASE DeviceStopped
  BY <1>a, <1>c, <1>10, NoteAppended DEF DeviceStopped, Notify, OpStates
<1>11. ASSUME NEW s \in Starts,
             \/ Start(s) \/ Wake(s) \/ QueryState(s) \/ Accept(s) \/ NotReady(s) \/ NotOpened(s)
             \/ ParametersSet(s) \/ DarkChecked(s) \/ FeaturesSet(s) \/ ConfigurationFails(s)
             \/ BaselineTaken(s) \/ Dispatched(s) \/ Started(s)
       PROVE NoteInv'
  BY <1>1, <1>11 DEF Start, Wake, QueryState, Accept, NotReady, NotOpened, ParametersSet,
         DarkChecked,
         FeaturesSet, ConfigurationFails, BaselineTaken, Dispatched, Started, deviceVars
<1>12. ASSUME NEW s \in Starts,
             \/ FetchBegin(s) \/ FetchWaits(s) \/ FtpAwaited(s) \/ AlbumGives(s) \/ AlbumFails(s)
             \/ WentLive(s) \/ FetchRaises(s) \/ FetchCancelled(s)
             \/ FtpFinds(s) \/ FtpGivesUp(s) \/ FtpUndecodable(s)
       PROVE NoteInv'
  BY <1>1, <1>12 DEF FetchBegin, FetchWaits, FtpAwaited, AlbumGives, AlbumFails, WentLive,
         FetchRaises, FetchCancelled, FtpFinds, FtpGivesUp, FtpUndecodable, deviceVars
<1>13. ASSUME NEW a \in Aborts, AbortBegin(a) \/ AbortStops(a) PROVE NoteInv'
  BY <1>1, <1>13 DEF AbortBegin, AbortStops, deviceVars
<1>14. CASE DisconnectBegin \/ DisconnectEnds \/ Connect \/ StopMonitorEnds \/ UNCHANGED vars
  BY <1>1, <1>14, DisconnectDoes DEF Connect, StopMonitorEnds, vars, deviceVars
<1> QED
  BY <1>4, <1>5, <1>6, <1>7, <1>8, <1>9, <1>10, <1>11, <1>12, <1>13, <1>14
      DEF Next, StartStep, FetchStep

(***************************************************************************)
(* Who awaits the answer, and what the session takes the device for         *)
(***************************************************************************)

\* Only a start that is under way keeps a capture from being the last.
LEMMA MadeKept ==
    ASSUME TaskTypes, AllMade, [Next]_vars PROVE pc' = pc
<1>1. \A s \in Starts : pc[s] = "done"
  BY DEF AllMade
<1>2. ASSUME NEW s \in Starts, Start(s) \/ StartStep(s) PROVE FALSE
  BY <1>1, <1>2 DEF Start, StartStep, Wake, QueryState, Accept, NotReady, NotOpened, ParametersSet,
         DarkChecked, FeaturesSet, ConfigurationFails, BaselineTaken, Dispatch, Dispatched, Started
<1>3. ASSUME NEW s \in Starts, MonitorAnswered(s) \/ MonitorContinues(s) PROVE pc' = pc
  BY <1>3, MonitorMoves
<1>4. ASSUME NEW s \in Starts,
             FetchStep(s) \/ FtpFinds(s) \/ FtpGivesUp(s) \/ FtpUndecodable(s)
      PROVE  pc' = pc
  BY <1>4 DEF FetchStep, FetchBegin, FetchWaits, FetchStops, FtpAwaited, AlbumGives, AlbumFails,
         WentLive, FetchRaises, FetchCancelled, FtpFinds, FtpGivesUp, FtpUndecodable
<1>5. ASSUME NEW a \in Aborts, AbortBegin(a) \/ AbortStops(a) \/ AbortEnds(a) PROVE pc' = pc
  BY <1>5 DEF AbortBegin, AbortStops, AbortEnds
<1>6. CASE \/ StopMonitorEnds \/ DisconnectBegin \/ DisconnectEnds \/ Connect \/ Notification
           \/ NotificationLost \/ DeviceShot \/ DeviceStopped \/ UNCHANGED vars
  BY <1>6 DEF StopMonitorEnds, DisconnectBegin, DisconnectEnds, Connect, Notification,
         NotificationLost, DeviceShot, DeviceStopped, vars
<1> QED
  BY <1>2, <1>3, <1>4, <1>5, <1>6 DEF Next

\* Nobody awaits an answer.
LEMMA NobodyWatches ==
    ASSUME \A s \in Starts : ~Watching(s)' /\ pc'[s] # "sent"
    PROVE  WatchInv'
  BY DEF WatchInv, Watching

\* Who does goes on to, no capture begins, and the device stays at rest or is not.
LEMMA WatchKept ==
    ASSUME WatchInv, UNCHANGED <<monitor, startTask, verdict, pc>>,
           captureId' \in {captureId, None},
           \A s \in Starts : Own(s)' => Own(s),
           AtRest => AtRest' /\ (op' \in Ready => op \in Ready),
           op' \in Ready => op \in Ready \/ AtRest'
    PROVE  WatchInv'
<1>1. \A s \in Starts : Watching(s)' <=> Watching(s)
  BY DEF Watching
<1>2. ASSUME NEW s \in Starts, monitor[s] \in {"waiting", "continuing", "continued", "forced"},
             op' \in Ready
      PROVE  AtRest' /\ ~Undecided(s)
  <2>1. Watching(s) /\ (Undecided(s) => AtRest) /\ (op \in Ready => AtRest /\ ~Undecided(s))
    BY <1>2 DEF WatchInv, Watching
  <2> QED
    BY <1>2, <2>1
<1>3. \A s \in Starts : Undecided(s)' <=> Undecided(s)
  BY DEF Undecided
<1> QED
  BY <1>1, <1>2, <1>3 DEF WatchInv

\* Every step keeps one start's answer awaited, that of the current capture.
LEMMA WatchInvStep ==
    ASSUME Turns, Types, CaptureInv, [Next]_vars
    PROVE  WatchInv'
<1>a. /\ StateTypes /\ TaskTypes /\ MonitorTypes /\ RequestTypes /\ DeviceTypes
      /\ None \notin Starts
  BY CaptureAssumption DEF Types
<1>c. TaskInv /\ PhaseInv /\ StopInv /\ WatchInv /\ RestInv /\ NoteInv /\ ReadyInv
  BY DEF CaptureInv
<1>1. ASSUME NEW s \in Starts, Start(s) PROVE WatchInv'
  <2>1. /\ UNCHANGED <<captureId, fetch, monitor, startTask, verdict, op, dev, notes>>
        /\ pc[s] = "idle" /\ pc'[s] \in {"ready", "done"}
        /\ \A t \in Starts : t # s => pc'[t] = pc[t]
    BY <1>a, <1>1 DEF Start, sessionVars, taskVars, monitorVars, deviceVars, TaskTypes
  <2> QED
    BY <1>c, <2>1 DEF WatchInv, Watching, Own, Accepted, Unsent, Live, AtRest, Undecided
<1>2. ASSUME NEW s \in Starts,
             \/ Wake(s) \/ QueryState(s) \/ Accept(s) \/ NotReady(s) \/ NotOpened(s)
             \/ ParametersSet(s) \/ DarkChecked(s) \/ FeaturesSet(s) \/ ConfigurationFails(s)
             \/ BaselineTaken(s)
      PROVE  WatchInv'
  <2>1. pc[s] \in Unsent \cup {"ready", "woken"} /\ UNCHANGED monitor
    BY <1>2 DEF Wake, QueryState, Accept, NotReady, NotOpened, ParametersSet, DarkChecked,
           FeaturesSet,
           ConfigurationFails, BaselineTaken, Unsent, monitorVars
  <2>2. \A t \in Starts : t # s => pc'[t] \in {"idle", "done"}
    BY <1>a, <1>c, <1>2, <2>1 DEF Wake, QueryState, Accept, NotReady, NotOpened, ParametersSet,
           DarkChecked,
           FeaturesSet, ConfigurationFails, BaselineTaken, TaskTypes, TaskInv, InProgress, Unsent
  <2>3. pc'[s] # "sent"
    BY <1>a, <1>2 DEF Wake, QueryState, Accept, NotReady, NotOpened, ParametersSet, DarkChecked,
           FeaturesSet,
           ConfigurationFails, BaselineTaken, TaskTypes
  <2> QED
    BY <1>c, <2>1, <2>2, <2>3, ReadyIsRest, NobodyWatches DEF Watching
<1>3. ASSUME NEW s \in Starts, Dispatch(s) PROVE WatchInv'
  <2>1. pc[s] = "dispatch" /\ UNCHANGED fetch
    BY <1>3, Dispatches
  <2>2. /\ captureId = s /\ AtRest
        /\ \A t \in Starts : ~Watching(t) /\ ~Live(t) /\ ~Live(t)'
        /\ \A t \in Starts : t # s => pc[t] \in {"idle", "done"}
    BY <1>c, <2>1, ReadyIsRest, RestBeforeStart DEF TaskInv, InProgress, Accepted, Unsent, Live
  <2>3. CASE /\ pc' = [pc EXCEPT ![s] = "sent"]
             /\ monitor' = [monitor EXCEPT ![s] = "future"]
             /\ DeviceStart(s)
             /\ UNCHANGED <<phase, captureId>>
    <3>1. verdict'[s] \in {"error", "dark"} => AtRest'
      BY <1>a, <2>2, <2>3, DeviceStarts DEF AtRest
    <3>2. /\ pc'[s] = "sent" /\ monitor'[s] = "future"
          /\ \A t \in Starts : t # s => /\ pc'[t] \in {"idle", "done"} /\ ~Watching(t)'
      BY <1>a, <2>2, <2>3 DEF TaskTypes, MonitorTypes, Watching
    <3>3. \A t \in Starts : Own(t)' => t = s
      BY <2>2, <3>2 DEF Own, Accepted, Unsent
    <3> QED
      BY <2>2, <2>3, <3>1, <3>2, <3>3 DEF WatchInv, Watching, Undecided
  <2>4. CASE pc' = [pc EXCEPT ![s] = "done"] /\ UNCHANGED monitor
    BY <1>a, <2>2, <2>4, NobodyWatches DEF TaskTypes, Watching
  <2> QED
    BY <1>3, <2>3, <2>4, Dispatches
<1>4. ASSUME NEW s \in Starts, Dispatched(s) PROVE WatchInv'
  <2>1. pc[s] = "sent" /\ UNCHANGED <<fetch, dev, notes, verdict>>
    BY <1>4 DEF Dispatched, taskVars, deviceVars
  <2>2. /\ captureId = s /\ monitor[s] = "future" /\ Watching(s)
        /\ \A t \in Starts : t # s => pc[t] \in {"idle", "done"} /\ ~Watching(t)
        /\ \A t \in Starts : ~Live(t)
        /\ verdict[s] = "dark" => AtRest
    BY <1>c, <2>1 DEF TaskInv, WatchInv, InProgress, Accepted, Watching
  <2>3. CASE /\ monitor' = [monitor EXCEPT ![s] = "ended"]
             /\ pc' = [pc EXCEPT ![s] = "done"] \/ pc' = [pc EXCEPT ![s] = "runtime"]
    BY <1>a, <2>2, <2>3, NobodyWatches DEF TaskTypes, MonitorTypes, Watching
  <2>4. CASE /\ pc' = [pc EXCEPT ![s] = "runtime"] /\ op' = "running" /\ startTask' = s
             /\ monitor' = [t \in Starts |-> IF t = s THEN "waiting"
                                             ELSE IF t = startTask THEN "ended" ELSE monitor[t]]
             /\ UNCHANGED captureId
    <3>1. /\ pc'[s] = "runtime" /\ monitor'[s] = "waiting"
          /\ \A t \in Starts : t # s => pc'[t] \in {"idle", "done"} /\ ~Watching(t)'
      BY <1>a, <2>2, <2>4 DEF TaskTypes, Watching
    <3>2. \A t \in Starts : Own(t)' => t = s
      BY <2>1, <2>2, <3>1 DEF Own, Accepted, Unsent, Live
    <3>3. (AtRest' <=> AtRest) /\ op' \notin Ready
      BY <2>1, <2>4 DEF AtRest, Ready
    <3> QED
      BY <2>1, <2>2, <2>4, <3>1, <3>2, <3>3 DEF WatchInv, Watching, Undecided
  <2> QED
    BY <1>4, <2>2, <2>3, <2>4 DEF Dispatched, StartFailed, stateVars
<1>5. ASSUME NEW s \in Starts, Started(s) PROVE WatchInv'
  <2>1. /\ pc[s] = "runtime" /\ pc' = [pc EXCEPT ![s] = "done"]
        /\ UNCHANGED <<captureId, monitor, startTask, verdict, op, dev, notes>>
        /\ fetch' = [fetch EXCEPT ![s] = "new"] \/ fetch' = fetch
    BY <1>5 DEF Started, sessionVars, monitorVars, deviceVars
  <2>2. \A t \in Starts : t # s => pc[t] \in {"idle", "done"} /\ ~Live(t)
    BY <1>c, <2>1 DEF TaskInv, InProgress
  <2>3. \A t \in Starts : t # s => pc'[t] = pc[t] /\ ~Own(t)'
    BY <1>a, <2>1, <2>2 DEF TaskTypes, Own, Live, Accepted, Unsent
  <2>4. pc'[s] = "done" /\ Own(s)
    BY <1>a, <2>1 DEF TaskTypes, Own, Accepted
  <2> QED
    BY <1>c, <2>1, <2>2, <2>3, <2>4 DEF WatchInv, Watching, AtRest, Undecided
<1>6. ASSUME NEW s \in Starts, MonitorAnswered(s) \/ MonitorContinues(s) PROVE WatchInv'
  <2>1. UNCHANGED <<captureId, op, pc>> /\ Watching(s) /\ monitor[s] # "future"
    BY <1>6, MonitorMoves DEF Watching
  <2>2. /\ \A t \in Starts : t # s => ~Watching(t)
        /\ \A t \in Starts : pc[t] # "sent"
        /\ startTask = s /\ captureId \in {s, None} /\ pc[s] \in {"runtime", "done"}
        /\ \A t \in Starts : Own(t) => t = s
    BY <1>c, <2>1 DEF WatchInv, Watching
  <2>3. CASE monitor' = [monitor EXCEPT ![s] = "ended"]
    BY <1>a, <2>1, <2>2, <2>3, NobodyWatches DEF MonitorTypes, Watching
  <2>4. CASE /\ monitor[s] = "waiting" /\ verdict[s] = "dark"
             /\ monitor' = [monitor EXCEPT ![s] = "continuing"]
             /\ UNCHANGED <<startTask, phase, fetch>>
             /\ UNCHANGED <<dev, runsOn, devCap, shots, newest, fresh, recent, verdict, notes>>
    <3>1. /\ monitor'[s] = "continuing"
          /\ \A t \in Starts : t # s => ~Watching(t)'
      BY <1>a, <2>2, <2>4 DEF MonitorTypes, Watching
    <3>2. AtRest' /\ op \notin Ready
      BY <1>c, <2>1, <2>4 DEF WatchInv, AtRest, Undecided
    <3>3. \A t \in Starts : Own(t)' => t = s
      BY <2>1, <2>2, <2>4 DEF Own, Live
    <3> QED
      BY <2>1, <2>2, <2>4, <3>1, <3>2, <3>3 DEF WatchInv, Watching
  <2>5. CASE /\ \/ /\ monitor[s] = "continuing"
                   /\ monitor' = [monitor EXCEPT ![s] = "continued"]
                \/ /\ monitor[s] = "continued" /\ verdict[s] = "error"
                   /\ monitor' = [monitor EXCEPT ![s] = "forced"]
             /\ verdict'[s] # "dark"
             /\ DeviceStart(s)
             /\ UNCHANGED <<startTask, phase, fetch>>
    <3>1. /\ monitor'[s] \in {"continued", "forced"}
          /\ \A t \in Starts : t # s => ~Watching(t)'
      BY <1>a, <2>2, <2>5 DEF MonitorTypes, Watching
    <3>2. op \notin Ready /\ AtRest
      BY <1>c, <2>1, <2>5 DEF WatchInv, Undecided
    <3>3. \A t \in Starts : Own(t)' => t = s
      BY <2>1, <2>2, <2>5 DEF Own, Live
    <3>4. Undecided(s)' => AtRest'
      BY <1>a, <2>5, <3>2, DeviceStarts DEF Undecided, AtRest
    <3> QED
      BY <2>1, <2>2, <2>5, <3>1, <3>2, <3>3, <3>4 DEF WatchInv, Watching
  <2> QED
    BY <1>6, <2>3, <2>4, <2>5, MonitorMoves
<1>7. ASSUME NEW s \in Starts, FetchWaits(s), StopPrelude PROVE WatchInv'
  <2>1. Live(s) /\ pc' = pc
    BY <1>7, FetchLeft DEF Live
  <2> QED
    BY <1>a, <1>c, <1>7, <2>1, MonitorsEnd, NobodyWatches DEF StopPrelude, TaskInv, InProgress
<1>8. ASSUME NEW s \in Starts, FetchStops(s) PROVE WatchInv'
  <2>1. fetch[s] = "stopping" /\ UNCHANGED <<pc, monitor>> /\ Live(s)
    BY <1>8 DEF FetchStops, monitorVars, Live
  <2> QED
    BY <1>c, <2>1, NobodyWatches DEF StopInv, TaskInv, InProgress, Watching
<1>9. ASSUME NEW s \in Starts,
             \/ FetchBegin(s) \/ (FetchWaits(s) /\ ~StopPrelude) \/ FtpAwaited(s) \/ AlbumGives(s)
             \/ AlbumFails(s) \/ WentLive(s) \/ FetchRaises(s) \/ FetchCancelled(s)
             \/ FtpFinds(s) \/ FtpGivesUp(s) \/ FtpUndecodable(s)
      PROVE  WatchInv'
  <2>1. UNCHANGED <<captureId, monitor, startTask, verdict, pc, op, dev, notes>>
    BY <1>9, FetchLeft DEF FetchBegin, FtpAwaited, AlbumGives, AlbumFails, WentLive, FetchRaises,
           FetchCancelled, FtpFinds, FtpGivesUp, FtpUndecodable, stateVars, sessionVars,
           monitorVars, deviceVars
  <2>2. Live(s) /\ \A t \in Starts : t # s => fetch'[t] = fetch[t]
    BY <1>a, <1>9 DEF FetchBegin, FetchWaits, FetchLeaves, FtpAwaited, AlbumGives, AlbumFails,
           WentLive, FetchRaises, FetchCancelled, FtpFinds, FtpGivesUp, FtpUndecodable, TaskTypes,
           Live
  <2> QED
    BY <1>c, <2>1, <2>2, WatchKept DEF Own, Live, AtRest
<1>10. ASSUME NEW a \in Aborts, AbortBegin(a) \/ AbortStops(a) PROVE WatchInv'
  <2>1. pc' = pc /\ \A s \in Starts : pc[s] \in {"idle", "done"}
    BY <1>c, <1>10 DEF AbortBegin, AbortStops, Turns, MayRequest, TaskInv, InProgress
  <2>2. CASE CancelStartMonitor
    BY <1>a, <1>c, <2>1, <2>2, MonitorsEnd, NobodyWatches
  <2>3. CASE AbortBegin(a) /\ TaskRuns
    <3>1. /\ captureId' = None /\ CancelTask
          /\ UNCHANGED <<monitor, startTask, verdict, op, dev, notes>>
      BY <2>3 DEF AbortBegin, deviceVars
    <3> QED
      BY <1>a, <1>c, <2>1, <3>1, CancelTaskCancels, WatchKept DEF Own, AtRest
  <2> QED
    BY <1>10, <2>2, <2>3, AbortStopDoes DEF AbortBegin, AbortStops
<1>11. ASSUME NEW a \in Aborts, AbortEnds(a) PROVE WatchInv'
  <2>1. abort[a] = "stop" /\ UNCHANGED <<pc, monitor>>
    BY <1>11 DEF AbortEnds, monitorVars
  <2> QED
    BY <1>c, <2>1, NobodyWatches DEF StopInv, TaskInv, InProgress, Watching
<1>12. CASE DisconnectBegin \/ DisconnectEnds
  <2>1. pc' = pc /\ \A s \in Starts : pc[s] \in {"idle", "done"}
    BY <1>c, <1>12 DEF DisconnectBegin, DisconnectEnds, Turns, MayRequest, TaskInv, InProgress
  <2>2. CASE CancelStartMonitor
    BY <1>a, <1>c, <2>1, <2>2, MonitorsEnd, NobodyWatches
  <2>3. CASE UNCHANGED <<startTask, monitor>>
    BY <1>a, <1>c, <1>12, <2>1, <2>3, DisconnectDoes, CancelTaskCancels, WatchKept
           DEF Own, AtRest, Live
  <2> QED
    BY <1>12, <2>2, <2>3, DisconnectDoes
<1>13. CASE Connect
  <2>1. UNCHANGED <<captureId, fetch, monitor, startTask, verdict, pc, dev, notes>>
    BY <1>13 DEF Connect, taskVars, monitorVars, deviceVars
  <2>2. op' = op \/ startTask = None
    BY <1>13 DEF Connect
  <2>3. startTask = None =>
            \A s \in Starts : monitor[s] \notin {"waiting", "continuing", "continued", "forced"}
    BY <1>a, <1>c DEF WatchInv
  <2> QED
    BY <1>c, <2>1, <2>2, <2>3 DEF WatchInv, Watching, Own, Live, AtRest, Undecided
<1>14. CASE Notification
  <2>1. /\ UNCHANGED <<captureId, fetch, monitor, startTask, verdict, pc, dev, runsOn>>
        /\ notes # << >> /\ notes' = Tail(notes)
    BY <1>14 DEF Notification, taskVars, monitorVars
  <2>2. op' = op \/ op' = Head(notes).state
    BY <1>14 DEF Notification, SetOperationState
  <2>3. Head(notes).state # "none" \/ op' = op
    BY <1>14 DEF Notification, SetOperationState
  <2>4. op' \in Ready => op \in Ready \/ AtRest'
    BY <1>a, <1>c, <2>1, <2>2, <2>3, NoteRead DEF Ready, AtRest
  <2> QED
    BY <1>c, <2>1, <2>4, WatchKept DEF Own, Live, AtRest
<1>15. CASE NotificationLost \/ DeviceShot \/ DeviceStopped
  <2>1. UNCHANGED <<captureId, fetch, monitor, startTask, verdict, pc, op>> /\ ~AtRest
    BY <1>15 DEF NotificationLost, DeviceShot, DeviceStopped, stateVars, sessionVars, taskVars,
           monitorVars, AtRest
  <2> QED
    BY <1>c, <2>1, WatchKept DEF Own, Live
<1>16. CASE StopMonitorEnds \/ UNCHANGED vars
  BY <1>c, <1>16, WatchKept DEF StopMonitorEnds, vars, stateVars, sessionVars, taskVars,
         monitorVars, deviceVars, Own, Live, AtRest
<1> QED
  BY <1>1, <1>2, <1>3, <1>4, <1>5, <1>6, <1>7, <1>8, <1>9, <1>10, <1>11, <1>12, <1>13, <1>14,
      <1>15, <1>16 DEF Next, StartStep, FetchStep

(***************************************************************************)
(* The frame count that ends a capture                                     *)
(***************************************************************************)

\* The captures whose end the frame count decides.
Counting(s) == pc[s] \in Accepted \/ fetch[s] \in {"new", "waiting"}

\* No capture begins to count, and none is forgotten that has begun.
LEMMA FrameKept ==
    ASSUME TaskTypes, FrameInv, [Next]_vars, UNCHANGED <<frameEvent, current, frames>>,
           \A s \in Starts : Counting(s)' => Counting(s)
    PROVE  FrameInv'
<1>1. AllMade => AllMade'
  BY MadeKept DEF AllMade
<1> QED
  BY <1>1 DEF FrameInv, Counting

\* Every step keeps a complete frame count the count of the current capture.
LEMMA FrameInvStep ==
    ASSUME Turns, Types, CaptureInv, [Next]_vars
    PROVE  FrameInv'
<1>a. /\ StateTypes /\ SessionTypes /\ TaskTypes /\ RequestTypes /\ DeviceTypes
  BY DEF Types
<1>c. TaskInv /\ PhaseInv /\ FrameInv
  BY DEF CaptureInv
<1>1. ASSUME NEW s \in Starts, Start(s) PROVE FrameInv'
  <2>1. /\ UNCHANGED <<fetch, frameEvent, current>> /\ pc[s] = "idle"
        /\ pc' = [pc EXCEPT ![s] = "done"] \/ pc' = [pc EXCEPT ![s] = "ready"]
        /\ \A t \in Starts : ~InProgress(t)
        /\ ~IsBusy \/ pc' = [pc EXCEPT ![s] = "done"]
        /\ Patient => phase \notin Busy
    BY <1>1 DEF Start, Turns, MayRequest, sessionVars, taskVars
  <2>2. \A t \in Starts : pc[t] \in {"idle", "done"} /\ pc'[t] \in {"idle", "ready", "done"}
    BY <1>a, <2>1 DEF TaskTypes, InProgress
  <2>3. CASE ~IsBusy
    <3>1. \A t \in Starts : ~Live(t)
      BY <1>c, <2>3, NoneRuns DEF IsBusy
    <3> QED
      BY <2>1, <2>2, <3>1 DEF FrameInv, Live, Accepted, Unsent
  <2>4. CASE pc' = [pc EXCEPT ![s] = "done"]
    <3>1. ASSUME NEW t \in Starts, fetch[t] \in {"new", "waiting"} PROVE AllMade'
      <4>1. Live(t) /\ pc[t] = "done" /\ phase \in Busy
        BY <1>c, <3>1 DEF TaskInv, PhaseInv, Live, Busy
      <4>2. \E u, v : Starts \subseteq {u, v}
        BY <2>1, <4>1 DEF Turns
      <4>3. \A u \in Starts : u \in {s, t}
        BY <2>1, <4>1, <4>2
      <4> QED
        BY <1>a, <2>1, <2>4, <4>1, <4>3 DEF TaskTypes, AllMade
    <3> QED
      BY <2>1, <2>2, <3>1 DEF FrameInv, Accepted, Unsent
  <2> QED
    BY <2>1, <2>3, <2>4
<1>2. ASSUME NEW s \in Starts, Accept(s) PROVE FrameInv'
  BY <1>2 DEF Accept, FrameInv
<1>3. ASSUME NEW s \in Starts,
             \/ Wake(s) \/ QueryState(s) \/ NotReady(s) \/ NotOpened(s)
             \/ ParametersSet(s) \/ DarkChecked(s)
             \/ FeaturesSet(s) \/ ConfigurationFails(s) \/ BaselineTaken(s) \/ Dispatched(s)
             \/ Started(s)
      PROVE  FrameInv'
  <2>1. UNCHANGED <<frameEvent, current, frames>>
    BY <1>3 DEF Wake, QueryState, NotReady, NotOpened, ParametersSet, DarkChecked, FeaturesSet,
           ConfigurationFails, BaselineTaken, Dispatched, Started, StartFailed, stateVars,
           sessionVars
  <2>2. \A t \in Starts : Counting(t)' => Counting(t)
    BY <1>a, <1>3 DEF Wake, QueryState, NotReady, NotOpened, ParametersSet, DarkChecked,
           FeaturesSet,
           ConfigurationFails, BaselineTaken, Dispatched, Started, StartFailed, taskVars,
           TaskTypes, Counting, Accepted, Unsent
  <2> QED
    BY <1>a, <1>c, <2>1, <2>2, FrameKept
<1>4. ASSUME NEW s \in Starts, Dispatch(s) PROVE FrameInv'
  <2>1. \A t \in Starts : Counting(t)' => Counting(t)
    BY <1>a, <1>4, Dispatches DEF TaskTypes, Counting, Accepted, Unsent
  <2> QED
    BY <1>a, <1>c, <1>4, <2>1, FrameKept, Dispatches
<1>5. ASSUME NEW s \in Starts, MonitorAnswered(s) \/ MonitorContinues(s) PROVE FrameInv'
  <2>1. UNCHANGED <<frameEvent, current, frames, pc>> /\ (CancelTask \/ fetch' = fetch)
    BY <1>5, MonitorMoves
  <2>2. \A t \in Starts : Counting(t)' => Counting(t)
    BY <1>a, <1>c, <2>1, CancelTaskCancels DEF Counting
  <2> QED
    BY <1>a, <1>c, <2>1, <2>2, FrameKept
<1>6. ASSUME NEW s \in Starts,
             \/ FetchStep(s) \/ FtpFinds(s) \/ FtpGivesUp(s) \/ FtpUndecodable(s)
      PROVE  FrameInv'
  <2>1. UNCHANGED <<frameEvent, current, frames, pc>>
    BY <1>6 DEF FetchStep, FetchBegin, FetchWaits, FetchStops, FtpAwaited, AlbumGives, AlbumFails,
           WentLive, FetchRaises, FetchCancelled, FtpFinds, FtpGivesUp, FtpUndecodable, stateVars,
           sessionVars
  <2>2. \A t \in Starts : fetch'[t] \in {"new", "waiting"} => fetch[t] \in {"new", "waiting"}
    BY <1>a, <1>6 DEF FetchStep, FetchBegin, FetchWaits, FetchLeaves, FetchStops, FtpAwaited,
           AlbumGives, AlbumFails, WentLive, FetchRaises, FetchCancelled, FtpFinds, FtpGivesUp,
           FtpUndecodable, TaskTypes
  <2> QED
    BY <1>a, <1>c, <2>1, <2>2, FrameKept DEF Counting
<1>7. ASSUME NEW a \in Aborts, AbortBegin(a) \/ AbortStops(a) \/ AbortEnds(a) PROVE FrameInv'
  <2>1. UNCHANGED <<frameEvent, current, frames, pc>> /\ (CancelTask \/ fetch' = fetch)
    BY <1>7 DEF AbortBegin, AbortStops, AbortEnds, taskVars
  <2>2. \A t \in Starts : Counting(t)' => Counting(t)
    BY <1>a, <1>c, <2>1, CancelTaskCancels DEF Counting
  <2> QED
    BY <1>a, <1>c, <2>1, <2>2, FrameKept
<1>8. CASE DisconnectBegin \/ DisconnectEnds
  <2>1. \A t \in Starts : Counting(t)' => Counting(t)
    BY <1>a, <1>c, <1>8, DisconnectDoes, CancelTaskCancels DEF Counting
  <2> QED
    BY <1>a, <1>c, <1>8, <2>1, DisconnectDoes, FrameKept
<1>9. CASE Notification
  <2>1. /\ UNCHANGED <<frames, pc, fetch>>
        /\ \/ UNCHANGED <<current, frameEvent>>
           \/ /\ current' = CountFrame(Head(notes).count)
              /\ frameEvent' = (frameEvent \/ (current' >= frames /\ captureId # None))
    BY <1>9 DEF Notification, taskVars
  <2>2. notes # << >> /\ Head(notes) \in Notes
    BY <1>a, <1>9 DEF Notification, DeviceTypes
  <2>3. Head(notes).count \in Nat
    BY <2>2, CaptureAssumption DEF Notes, NoteState, NoteCount
  <2>4. CASE UNCHANGED <<current, frameEvent>>
    BY <1>c, <2>1, <2>4 DEF FrameInv, AllMade
  <2>5. CASE /\ current' = CountFrame(Head(notes).count)
             /\ frameEvent' = (frameEvent \/ (current' >= frames /\ captureId # None))
    <3>1. current' >= current /\ (current >= frames => current' >= frames)
      BY <1>a, <2>3, <2>5, CaptureAssumption DEF CountFrame, StateTypes
    <3>2. frameEvent' => frameEvent \/ current' >= frames
      BY <2>5, Zenon
    <3>3. \A s \in Starts : Counting(s)' => Counting(s)
      BY <2>1 DEF Counting
    <3>4. AllMade' <=> AllMade
      BY <2>1 DEF AllMade
    <3> QED
      BY <1>c, <2>1, <3>1, <3>2, <3>3, <3>4 DEF FrameInv, Counting
  <2> QED
    BY <2>1, <2>4, <2>5
<1>10. CASE \/ StopMonitorEnds \/ Connect \/ NotificationLost \/ DeviceShot \/ DeviceStopped
            \/ UNCHANGED vars
  <2>1. UNCHANGED <<frameEvent, current, frames, pc, fetch>>
    BY <1>10 DEF StopMonitorEnds, Connect, NotificationLost, DeviceShot, DeviceStopped, vars,
           stateVars, sessionVars, taskVars
  <2> QED
    BY <1>c, <2>1 DEF FrameInv, AllMade
<1> QED
  BY <1>1, <1>2, <1>3, <1>4, <1>5, <1>6, <1>7, <1>8, <1>9, <1>10 DEF Next, StartStep

(***************************************************************************)
(* What the session takes for ready                                        *)
(***************************************************************************)

\* The device is not at rest and the session takes it for ready, or a start's
\* answer is awaited.
Doubtful == (op \in Ready /\ ~AtRest) \/ (\E s \in Starts : Watching(s))

\* There is no new doubt, and the capture is not left.
LEMMA DoubtKept ==
    ASSUME TaskTypes, ReadyInv, [Next]_vars, Doubtful' => Doubtful, Engaged => Engaged'
    PROVE  ReadyInv'
<1>1. AllMade => AllMade'
  BY MadeKept DEF AllMade
<1> QED
  BY <1>1 DEF ReadyInv, Doubtful

\* There is none.
LEMMA NoDoubt ==
    ASSUME ~Doubtful' PROVE ReadyInv'
  BY DEF ReadyInv, Doubtful

\* A device that is asked tells the truth.
LEMMA AskedIsTold ==
    ASSUME DeviceTypes, notes = << >>, op' = dev, UNCHANGED <<dev, notes>>
    PROVE  op' \in Ready => AtRest'
  BY DEF DeviceTypes, AtRest, Ready

\* A stop ends all doubt.
LEMMA StopEndsDoubt ==
    ASSUME MonitorTypes, WatchInv, StopInv, CancelStartMonitor,
           op' = IF stopTask THEN op ELSE "stopping"
    PROVE  ~Doubtful'
<1>1. \A s \in Starts : ~Watching(s)'
  BY MonitorsEnd
<1>2. op' \notin Ready
  BY DEF StopInv, Ready
<1> QED
  BY <1>1, <1>2 DEF Doubtful

\* The device takes the stop command, which is sent where a capture has been left.
LEMMA DoubtOfStopped ==
    ASSUME TaskTypes, DeviceTypes, ReadyInv, [Next]_vars, ~Engaged, UNCHANGED <<op, monitor>>,
           DeviceStop \/ UNCHANGED <<dev, notes>>
    PROVE  ReadyInv'
<1>1. AtRest => AtRest'
  BY DeviceStops DEF AtRest
<1>2. Doubtful' => Doubtful
  BY <1>1 DEF Doubtful, Watching
<1> QED
  BY <1>2, DoubtKept

\* Every step keeps that a device taken to be ready is at rest or refuses a start.
LEMMA ReadyInvStep ==
    ASSUME Turns, Types, CaptureInv, [Next]_vars
    PROVE  ReadyInv'
<1>a. /\ StateTypes /\ TaskTypes /\ MonitorTypes /\ RequestTypes /\ DeviceTypes
      /\ None \notin Starts
  BY CaptureAssumption DEF Types
<1>c. /\ TaskInv /\ PhaseInv /\ StopInv /\ WatchInv /\ RestInv /\ NoteInv /\ ReadyInv /\ FrameInv
  BY DEF CaptureInv
<1>1. ASSUME NEW s \in Starts, Start(s) PROVE ReadyInv'
  <2>1. /\ UNCHANGED <<op, dev, runsOn, notes, monitor, abort, fetch>> /\ pc[s] = "idle"
        /\ IsBusy => phase' = phase
    BY <1>1 DEF Start, sessionVars, taskVars, monitorVars, deviceVars
  <2>2. ~AllMade
    BY <2>1 DEF AllMade
  <2>3. Doubtful' => Doubtful /\ Engaged
    BY <1>c, <2>1, <2>2 DEF ReadyInv, Doubtful, Watching, AtRest
  <2>4. Engaged => Engaged'
    BY <2>1 DEF Engaged, IsBusy
  <2> QED
    BY <2>3, <2>4 DEF ReadyInv, Doubtful
<1>2. ASSUME NEW s \in Starts,
             \/ Wake(s) \/ QueryState(s) \/ Accept(s) \/ NotReady(s) \/ NotOpened(s)
             \/ ParametersSet(s) \/ DarkChecked(s) \/ FeaturesSet(s) \/ ConfigurationFails(s)
             \/ BaselineTaken(s)
      PROVE  ReadyInv'
  <2>1. /\ pc[s] \in Unsent \cup {"ready", "woken"} /\ UNCHANGED <<monitor, dev, notes>>
        /\ UNCHANGED op \/ (notes = << >> /\ op' = dev)
    BY <1>2, OperationSet DEF Wake, QueryState, Accept, NotReady, NotOpened, ParametersSet,
           DarkChecked,
           FeaturesSet, ConfigurationFails, BaselineTaken, Unsent, sessionVars, monitorVars,
           deviceVars
  <2>2. \A t \in Starts : ~Watching(t)'
    BY <1>c, <2>1, ReadyIsRest DEF Watching
  <2>3. op' \in Ready => AtRest'
    BY <1>a, <1>c, <2>1, ReadyIsRest, AskedIsTold DEF AtRest
  <2> QED
    BY <2>2, <2>3, NoDoubt DEF Doubtful
<1>3. ASSUME NEW s \in Starts, Dispatch(s) PROVE ReadyInv'
  <2>1. pc[s] = "dispatch" /\ UNCHANGED <<fetch, abort, op>>
    BY <1>3, Dispatches
  <2>2. /\ phase \in Busy /\ AtRest
        /\ \A t \in Starts : ~Watching(t) /\ ~Live(t)
        /\ \A a \in Aborts : abort[a] # "stop"
    BY <1>c, <2>1, ReadyIsRest, RestBeforeStart DEF TaskInv, PhaseInv, InProgress, Unsent
  <2>3. CASE UNCHANGED phase
    BY <2>1, <2>2, <2>3 DEF ReadyInv, Engaged, Live, Parting
  <2>4. CASE UNCHANGED <<monitor, dev, notes>>
    BY <2>1, <2>2, <2>4, NoDoubt DEF Doubtful, Watching, AtRest
  <2> QED
    BY <1>3, <2>3, <2>4, Dispatches
<1>4. ASSUME NEW s \in Starts, Dispatched(s) PROVE ReadyInv'
  <2>1. pc[s] = "sent" /\ UNCHANGED <<fetch, abort, dev, notes>>
    BY <1>4 DEF Dispatched, taskVars, deviceVars
  <2>2. /\ phase \in Busy
        /\ \A t \in Starts : ~Live(t)
        /\ \A a \in Aborts : abort[a] # "stop"
        /\ monitor[s] = "future" /\ \A t \in Starts : t # s => ~Watching(t)
        /\ verdict[s] \in {"error", "dark"} => AtRest
    BY <1>c, <2>1 DEF TaskInv, PhaseInv, WatchInv, InProgress, Watching
  <2>3. CASE UNCHANGED phase
    BY <2>1, <2>2, <2>3 DEF ReadyInv, Engaged, Live, Parting
  <2>4. CASE Rejected(s) /\ monitor' = [monitor EXCEPT ![s] = "ended"]
    <3>1. \A t \in Starts : ~Watching(t)'
      BY <1>a, <2>2, <2>4 DEF MonitorTypes, Watching
    <3>2. AtRest'
      BY <2>1, <2>2, <2>4 DEF Rejected, AtRest
    <3> QED
      BY <3>1, <3>2, NoDoubt DEF Doubtful
  <2> QED
    BY <1>4, <2>3, <2>4 DEF Dispatched, stateVars
<1>5. ASSUME NEW s \in Starts, Started(s) PROVE ReadyInv'
  <2>1. /\ UNCHANGED <<op, dev, runsOn, notes, monitor, abort>> /\ pc[s] = "runtime"
        /\ \/ UNCHANGED <<phase, fetch>>
           \/ phase' = "exposing" /\ fetch' = [fetch EXCEPT ![s] = "new"]
    BY <1>5 DEF Started, sessionVars, monitorVars, deviceVars
  <2>2. /\ \A t \in Starts : ~Live(t)
        /\ \A a \in Aborts : abort[a] # "stop"
    BY <1>c, <2>1 DEF TaskInv, InProgress
  <2>3. Engaged => Engaged'
    BY <1>a, <2>1, <2>2 DEF TaskTypes, Engaged, Busy, Live, Parting
  <2> QED
    BY <1>a, <1>c, <2>1, <2>3, DoubtKept DEF Doubtful, Watching, AtRest
<1>6. ASSUME NEW s \in Starts, MonitorAnswered(s) \/ MonitorContinues(s) PROVE ReadyInv'
  <2>1. Watching(s) /\ UNCHANGED <<op, pc, abort>>
    BY <1>6, MonitorMoves DEF Watching
  <2>2. CASE /\ monitor[s] \in {"waiting", "continuing", "continued", "forced"}
             /\ monitor' = [monitor EXCEPT ![s] = "ended"]
             /\ UNCHANGED <<dev, notes>>
    <3>1. \A t \in Starts : ~Watching(t)'
      BY <1>a, <1>c, <2>1, <2>2 DEF MonitorTypes, WatchInv, Watching
    <3>2. op \in Ready => AtRest
      BY <1>c, <2>2 DEF WatchInv
    <3> QED
      BY <2>1, <2>2, <3>1, <3>2, NoDoubt DEF Doubtful, AtRest
  <2>3. CASE UNCHANGED <<phase, fetch>>
    BY <1>c, <2>1, <2>3 DEF ReadyInv, Engaged, AllMade
  <2> QED
    BY <1>6, <2>2, <2>3, MonitorMoves
<1>7. ASSUME NEW s \in Starts, FetchBegin(s) PROVE ReadyInv'
  <2>1. /\ fetch[s] = "new" /\ fetch' = [fetch EXCEPT ![s] = "waiting"]
        /\ phase' = "transferring" /\ abort' = abort
    BY <1>7 DEF FetchBegin
  <2>2. \A t \in Starts : t # s => ~Live(t)
    BY <1>c, <2>1 DEF TaskInv, Live
  <2>3. \A a \in Aborts : abort[a] # "stop"
    BY <1>c, <2>1 DEF TaskInv, Live
  <2> QED
    BY <1>a, <2>1, <2>2, <2>3 DEF TaskTypes, ReadyInv, Engaged, Busy, Live, Parting
<1>8. ASSUME NEW s \in Starts, FetchWaits(s) PROVE ReadyInv'
  <2>1. CASE StopPrelude
    BY <1>a, <1>c, <2>1, StopEndsDoubt, NoDoubt DEF StopPrelude
  <2>2. CASE frameEvent /\ ~(current >= frames)
    <3>1. AllMade /\ pc' = pc
      BY <1>c, <1>8, <2>2, FetchLeft DEF FrameInv
    <3> QED
      BY <3>1 DEF ReadyInv, AllMade
  <2>3. CASE UNCHANGED <<op, monitor, fetch>>
    <3>1. UNCHANGED <<phase, abort, dev, notes>>
      BY <1>8, FetchLeft
    <3> QED
      BY <1>a, <1>c, <2>3, <3>1, DoubtKept DEF Doubtful, Watching, AtRest, Engaged
  <2> QED
    BY <1>8, <2>1, <2>2, <2>3, FetchLeft
<1>9. ASSUME NEW s \in Starts,
             \/ FetchStops(s) \/ FtpAwaited(s) \/ AlbumGives(s) \/ AlbumFails(s) \/ WentLive(s)
      PROVE  ReadyInv'
  <2>1. /\ fetch[s] \in Parting /\ UNCHANGED <<op, monitor>>
        /\ DeviceStop \/ UNCHANGED <<dev, notes>>
    BY <1>9 DEF FetchStops, FtpAwaited, AlbumGives, AlbumFails, WentLive, Parting, sessionVars,
           monitorVars, deviceVars
  <2>2. ~Engaged
    BY <2>1 DEF Engaged
  <2> QED
    BY <1>a, <1>c, <2>1, <2>2, DoubtOfStopped
<1>10. ASSUME NEW s \in Starts,
             \/ FetchRaises(s) \/ FetchCancelled(s)
             \/ FtpFinds(s) \/ FtpGivesUp(s) \/ FtpUndecodable(s)
       PROVE  ReadyInv'
  <2>1. UNCHANGED <<phase, abort, op, monitor, dev, notes>>
    BY <1>10 DEF FetchRaises, FetchCancelled, FtpFinds, FtpGivesUp, FtpUndecodable, stateVars,
           sessionVars, monitorVars, deviceVars
  <2>2. \A t \in Starts : fetch'[t] \in {fetch[t], "done"}
    BY <1>a, <1>10 DEF FetchRaises, FetchCancelled, FtpFinds, FtpGivesUp, FtpUndecodable, TaskTypes
  <2>3. Engaged => Engaged'
    BY <2>1, <2>2 DEF Engaged, Parting
  <2> QED
    BY <1>a, <1>c, <2>1, <2>3, DoubtKept DEF Doubtful, Watching, AtRest
<1>11. ASSUME NEW a \in Aborts, AbortBegin(a) \/ AbortStops(a) PROVE ReadyInv'
  <2>1. CASE CancelStartMonitor /\ op' = IF stopTask THEN op ELSE "stopping"
    BY <1>a, <1>c, <2>1, StopEndsDoubt, NoDoubt
  <2>2. CASE AbortBegin(a) /\ TaskRuns
    <3>1. /\ phase' = "aborting" /\ CancelTask
          /\ \A b \in Aborts : abort[b] # "stop"
          /\ abort' = [abort EXCEPT ![a] = "fetch"]
      BY <2>2 DEF AbortBegin, Turns, MayRequest
    <3> QED
      BY <1>a, <1>c, <3>1, CancelTaskCancels DEF ReadyInv, Engaged, Busy, RequestTypes
  <2> QED
    BY <1>11, <2>1, <2>2, AbortStopDoes DEF AbortBegin, AbortStops
<1>12. ASSUME NEW a \in Aborts, AbortEnds(a) PROVE ReadyInv'
  <2>1. abort[a] = "stop" /\ UNCHANGED <<op, monitor>> /\ (DeviceStop \/ UNCHANGED <<dev, notes>>)
    BY <1>12 DEF AbortEnds, monitorVars, deviceVars
  <2>2. ~Engaged
    BY <2>1 DEF Engaged
  <2> QED
    BY <1>a, <1>c, <2>1, <2>2, DoubtOfStopped
<1>13. CASE DisconnectBegin \/ DisconnectEnds
  <2>1. UNCHANGED <<phase, abort, op, dev, notes>> /\ (CancelTask \/ fetch' = fetch)
    BY <1>13, DisconnectDoes
  <2>2. Engaged => Engaged'
    BY <1>a, <1>c, <2>1, CancelTaskCancels DEF Engaged
  <2>3. \A t \in Starts : Watching(t)' => Watching(t)
    BY <1>a, <1>c, <1>13, DisconnectDoes, MonitorsEnd DEF Watching
  <2> QED
    BY <1>a, <1>c, <2>1, <2>2, <2>3, DoubtKept DEF Doubtful, AtRest
<1>14. CASE Connect
  <2>1. /\ UNCHANGED <<phase, abort, fetch, monitor, dev, notes>>
        /\ UNCHANGED op \/ (notes = << >> /\ op' = dev)
    BY <1>14, OperationSet DEF Connect, taskVars, monitorVars, deviceVars
  <2>2. op' \in Ready => AtRest' \/ (op \in Ready /\ ~AtRest)
    BY <1>a, <2>1, AskedIsTold DEF AtRest
  <2> QED
    BY <1>a, <1>c, <2>1, <2>2, DoubtKept DEF Doubtful, Watching, Engaged
<1>15. CASE Notification
  <2>1. /\ UNCHANGED <<phase, abort, fetch, monitor, dev,
                       runsOn>> /\ notes # << >> /\ notes' = Tail(notes)
        /\ op' = op \/ (Head(notes).state # "none" /\ op' = Head(notes).state)
    BY <1>15, OperationSet DEF Notification, taskVars, monitorVars
  <2>2. op' \in Ready => AtRest' \/ (op \in Ready /\ ~AtRest)
    BY <1>a, <1>c, <2>1, NoteRead DEF Ready, AtRest
  <2> QED
    BY <1>a, <1>c, <2>1, <2>2, DoubtKept DEF Doubtful, Watching, Engaged
<1>16. CASE NotificationLost \/ DeviceShot \/ DeviceStopped
  <2>1. UNCHANGED <<phase, abort, fetch, monitor, op>> /\ ~AtRest
    BY <1>16 DEF NotificationLost, DeviceShot, DeviceStopped, stateVars, sessionVars, taskVars,
           monitorVars, AtRest
  <2> QED
    BY <1>a, <1>c, <2>1, DoubtKept DEF Doubtful, Watching, Engaged
<1>17. CASE StopMonitorEnds \/ UNCHANGED vars
  BY <1>a, <1>c, <1>17, DoubtKept DEF StopMonitorEnds, vars, stateVars, sessionVars, taskVars,
         monitorVars, deviceVars, Doubtful, Watching, AtRest, Engaged
<1> QED
  BY <1>1, <1>2, <1>3, <1>4, <1>5, <1>6, <1>7, <1>8, <1>9, <1>10, <1>11, <1>12, <1>13, <1>14,
      <1>15, <1>16, <1>17 DEF Next, StartStep, FetchStep

(***************************************************************************)
(* Whose the device's capture and files are                                *)
(***************************************************************************)

\* No capture begins, no file is new, and a device at rest remains so.
LEMMA OwnKept ==
    ASSUME OwnInv, UNCHANGED <<devCap, newest, fresh, recent, current>>,
           captureId' \in {captureId, None}, image' \in {image, None},
           \A s \in Starts : Own(s)' => Own(s),
           \A s \in fresh : pc'[s] = pc[s] \/ pc'[s] \notin {"idle", "ready", "woken"},
           AtRest => AtRest'
    PROVE  OwnInv'
  BY DEF OwnInv

\* The device is told to start, for the only capture there is.
LEMMA OwnStarts ==
    ASSUME DeviceTypes, OwnInv, NEW s \in Starts, DeviceStart(s), UNCHANGED <<current, image>>,
           captureId \in {s, None}, captureId' = captureId,
           \A t \in Starts : Own(t)' => Own(t) /\ t = s,
           \A t \in fresh : pc'[t] = pc[t] \/ pc'[t] \notin {"idle", "ready", "woken"}
    PROVE  OwnInv'
<1>1. CASE UNCHANGED <<dev, runsOn, devCap, shots, notes>>
  BY <1>1, OwnKept, DeviceStarts DEF AtRest
<1>2. CASE devCap' = s
  BY <1>2, DeviceStarts DEF OwnInv
<1> QED
  BY <1>1, <1>2, DeviceStarts

\* A capture whose file is new is given its own.
LEMMA OwnImage ==
    ASSUME TaskInv, OwnInv, NEW s \in Starts, Live(s), image' = newest[1],
           IsRecent(s),
           UNCHANGED <<devCap, newest, fresh, recent, current, captureId, pc, dev, notes>>,
           \A t \in Starts : Live(t)' => Live(t)
    PROVE  OwnInv'
<1>1. newest[1] = s \/ s \in recent
  BY DEF OwnInv, Own, IsRecent
<1>2. captureId \in {s, None}
  BY DEF TaskInv
<1> QED
  BY <1>1, <1>2 DEF OwnInv, Own, AtRest

\* Every step keeps that what the device makes and what is retrieved is the capture's.
LEMMA OwnInvStep ==
    ASSUME Turns, Types, CaptureInv, [Next]_vars
    PROVE  OwnInv'
<1>a. /\ StateTypes /\ TaskTypes /\ MonitorTypes /\ RequestTypes /\ DeviceTypes
      /\ None \notin Starts
  BY CaptureAssumption DEF Types
<1>c. /\ TaskInv /\ PhaseInv /\ WatchInv /\ RestInv /\ NoteInv /\ OwnInv
  BY DEF CaptureInv
<1>1. ASSUME NEW s \in Starts,
             \/ Start(s) \/ Wake(s) \/ QueryState(s) \/ NotReady(s) \/ NotOpened(s)
             \/ ParametersSet(s)
             \/ DarkChecked(s) \/ FeaturesSet(s) \/ ConfigurationFails(s) \/ BaselineTaken(s)
      PROVE  OwnInv'
  <2>1. UNCHANGED <<devCap, newest, fresh, recent, current, captureId, image, fetch, dev, notes>>
    BY <1>1 DEF Start, Wake, QueryState, NotReady, NotOpened, ParametersSet, DarkChecked,
           FeaturesSet,
           ConfigurationFails, BaselineTaken, stateVars, taskVars, deviceVars
  <2>2. /\ \A t \in Starts : t # s => pc'[t] = pc[t]
        /\ pc'[s] \in Accepted => pc[s] \in Accepted
        /\ pc[s] \in {"idle", "ready", "woken"} \/ pc'[s] \notin {"idle", "ready", "woken"}
    BY <1>a, <1>1 DEF Start, Wake, QueryState, NotReady, NotOpened, ParametersSet, DarkChecked,
           FeaturesSet,
           ConfigurationFails, BaselineTaken, TaskTypes, Accepted, Unsent
  <2>3. \A t \in Starts : Own(t)' => Own(t)
    BY <2>1, <2>2 DEF Own, Live
  <2> QED
    BY <1>a, <1>c, <2>1, <2>2, <2>3 DEF OwnInv, AtRest, DeviceTypes
<1>2. ASSUME NEW s \in Starts, Accept(s) PROVE OwnInv'
  <2>1. /\ pc[s] = "woken" /\ pc' = [pc EXCEPT ![s] = "configuring"]
        /\ captureId' = s /\ current' = 0 /\ image' = None
        /\ UNCHANGED <<devCap, newest, fresh, fetch, dev, notes>> /\ recent \subseteq recent'
    BY <1>2 DEF Accept, taskVars, deviceVars
  <2>2. AtRest' /\ s \notin fresh
    BY <1>c, <2>1 DEF RestInv, OwnInv, AtRest
  <2>3. \A t \in Starts : t # s => (Own(t)' => Own(t)) /\ pc'[t] = pc[t]
    BY <1>a, <2>1 DEF TaskTypes, Own, Live
  <2>4. \A t \in fresh : pc'[t] \notin {"idle", "ready", "woken"}
    BY <1>a, <1>c, <2>1, <2>2, <2>3 DEF OwnInv, DeviceTypes
  <2> QED
    BY <1>a, <1>c, <2>1, <2>2, <2>3, <2>4 DEF OwnInv, AtRest, DeviceTypes
<1>3. ASSUME NEW s \in Starts, Dispatch(s) PROVE OwnInv'
  <2>1. pc[s] = "dispatch" /\ UNCHANGED <<current, image, fetch>>
    BY <1>3, Dispatches
  <2>2. /\ captureId = s /\ Own(s)
        /\ \A t \in Starts : ~Live(t) /\ (t # s => pc[t] \notin Accepted)
    BY <1>c, <2>1 DEF TaskInv, InProgress, Own, Accepted, Unsent
  <2>3. /\ \E to \in {"sent", "done"} : pc' = [pc EXCEPT ![s] = to]
        /\ \A t \in Starts : t # s => pc'[t] = pc[t]
    BY <1>a, <1>3, Dispatches DEF TaskTypes
  <2>4. \A t \in Starts : Own(t)' => Own(t) /\ t = s
    BY <2>1, <2>2, <2>3 DEF Own, Live
  <2>5. pc'[s] \notin {"idle", "ready", "woken"}
    BY <1>a, <2>3 DEF TaskTypes
  <2>6. \A t \in fresh : pc'[t] = pc[t] \/ pc'[t] \notin {"idle", "ready", "woken"}
    BY <1>a, <2>3, <2>5 DEF DeviceTypes
  <2>7. CASE DeviceStart(s) /\ captureId' = captureId
    BY <1>a, <1>c, <2>1, <2>2, <2>4, <2>6, <2>7, OwnStarts
  <2>8. CASE captureId' = None /\ UNCHANGED <<dev, devCap, newest, fresh, recent, notes>>
    BY <1>c, <2>1, <2>4, <2>6, <2>8, OwnKept DEF AtRest
  <2> QED
    BY <1>3, <2>7, <2>8, Dispatches
<1>4. ASSUME NEW s \in Starts, Dispatched(s) \/ Started(s) PROVE OwnInv'
  <2>1. /\ pc[s] \in {"sent", "runtime"}
        /\ UNCHANGED <<devCap, newest, fresh, recent, current, image, dev, notes>>
        /\ captureId' \in {captureId, None}
        /\ \E to \in {"runtime", "done"} : pc' = [pc EXCEPT ![s] = to]
        /\ fetch' = fetch \/ fetch' = [fetch EXCEPT ![s] = "new"]
    BY <1>4 DEF Dispatched, Started, StartFailed, stateVars, taskVars, deviceVars
  <2>2. /\ Own(s) /\ pc'[s] \in {"runtime", "done"}
        /\ \A t \in Starts : t # s => pc'[t] = pc[t] /\ fetch'[t] = fetch[t]
    BY <1>a, <2>1 DEF TaskTypes, Own, Accepted
  <2> QED
    BY <1>a, <1>c, <2>1, <2>2, OwnKept DEF Own, Live, AtRest, DeviceTypes
<1>5. ASSUME NEW s \in Starts, MonitorAnswered(s) \/ MonitorContinues(s) PROVE OwnInv'
  <2>1. /\ Watching(s) /\ UNCHANGED <<captureId, current, image, pc>>
        /\ CancelTask \/ fetch' = fetch
    BY <1>5, MonitorMoves DEF Watching
  <2>2. \A t \in Starts : Own(t)' => Own(t)
    BY <1>a, <1>c, <2>1, CancelTaskCancels DEF Own, Live
  <2>3. captureId \in {s, None} /\ \A t \in Starts : Own(t) => t = s
    BY <1>c, <2>1 DEF WatchInv
  <2>4. CASE UNCHANGED <<dev, devCap, newest, fresh, recent, notes>>
    BY <1>c, <2>1, <2>2, <2>4, OwnKept DEF AtRest
  <2>5. CASE DeviceStart(s)
    BY <1>a, <1>c, <2>1, <2>2, <2>3, <2>5, OwnStarts
  <2> QED
    BY <1>5, <2>4, <2>5, MonitorMoves
<1>6. ASSUME NEW s \in Starts,
             \/ FetchBegin(s) \/ FetchWaits(s) \/ FetchStops(s) \/ FtpAwaited(s) \/ AlbumFails(s)
             \/ WentLive(s) \/ FetchRaises(s) \/ FetchCancelled(s)
             \/ FtpGivesUp(s) \/ FtpUndecodable(s)
      PROVE  OwnInv'
  <2>1. /\ UNCHANGED <<current, captureId, image, pc>> /\ Live(s)
        /\ DeviceStop \/ UNCHANGED <<dev, devCap, newest, fresh, recent, notes>>
    BY <1>6, FetchLeft DEF FetchBegin, FetchStops, FtpAwaited, AlbumFails, WentLive, FetchRaises,
           FetchCancelled, FtpGivesUp, FtpUndecodable, stateVars, deviceVars, Live
  <2>2. \A t \in Starts : t # s => fetch'[t] = fetch[t]
    BY <1>a, <1>6 DEF FetchBegin, FetchWaits, FetchLeaves, FetchStops, FtpAwaited, AlbumFails,
           WentLive, FetchRaises, FetchCancelled, FtpGivesUp, FtpUndecodable, TaskTypes
  <2>3. UNCHANGED <<devCap, newest, fresh, recent>> /\ (AtRest => AtRest')
    BY <1>a, <2>1, DeviceStops DEF AtRest
  <2> QED
    BY <1>c, <2>1, <2>2, <2>3, OwnKept DEF Own, Live
<1>7. ASSUME NEW s \in Starts, FtpFinds(s) \/ AlbumGives(s) PROVE OwnInv'
  <2>1. /\ Live(s) /\ IsRecent(s) /\ image' = newest[1]
        /\ UNCHANGED <<devCap, newest, fresh, recent, current, captureId, pc, dev, notes>>
    BY <1>7 DEF FtpFinds, AlbumGives, IsNew, deviceVars, Live
  <2>2. \A t \in Starts : Live(t)' => Live(t)
    BY <1>a, <1>7, <2>1 DEF FtpFinds, AlbumGives, TaskTypes, Live
  <2> QED
    BY <1>c, <2>1, <2>2, OwnImage
<1>8. ASSUME NEW a \in Aborts, AbortBegin(a) \/ AbortStops(a) \/ AbortEnds(a) PROVE OwnInv'
  <2>1. /\ UNCHANGED <<current, pc>> /\ captureId' \in {captureId, None}
        /\ CancelTask \/ fetch' = fetch
    BY <1>8 DEF AbortBegin, AbortStops, AbortEnds, taskVars
  <2>2. image' \in {image, None}
    BY <1>8, AbortStopDoes DEF AbortBegin, AbortStops, AbortEnds, AbortSucceeds
  <2>3. DeviceStop \/ UNCHANGED <<dev, devCap, newest, fresh, recent, notes>>
    BY <1>8 DEF AbortBegin, AbortStops, AbortEnds, deviceVars
  <2>4. UNCHANGED <<devCap, newest, fresh, recent>> /\ (AtRest => AtRest')
    BY <1>a, <2>3, DeviceStops DEF AtRest
  <2>5. \A t \in Starts : Own(t)' => Own(t)
    BY <1>a, <1>c, <2>1, CancelTaskCancels DEF Own, Live
  <2> QED
    BY <1>c, <2>1, <2>2, <2>4, <2>5, OwnKept
<1>9. CASE DisconnectBegin \/ DisconnectEnds
  <2>1. \A t \in Starts : Own(t)' => Own(t)
    BY <1>a, <1>c, <1>9, DisconnectDoes, CancelTaskCancels DEF Own, Live
  <2> QED
    BY <1>c, <1>9, <2>1, DisconnectDoes, OwnKept DEF AtRest
<1>10. CASE Notification
  <2>1. UNCHANGED <<devCap, newest, fresh, recent, captureId, image, pc, fetch>> /\ ~AtRest
    BY <1>10 DEF Notification, taskVars, AtRest
  <2>2. \A s \in Starts : Own(s)' => Own(s)
    BY <2>1 DEF Own, Live
  <2> QED
    BY <1>c, <2>1, <2>2 DEF OwnInv
<1>11. CASE DeviceShot
  <2>1. /\ UNCHANGED <<devCap, recent, captureId, image, pc, fetch>> /\ ~AtRest
        /\ newest'[1] = devCap
        /\ fresh' = {s \in Starts : Live(s) \/ (InProgress(s) /\ pc[s] \notin {"ready", "woken"})}
    BY <1>11 DEF DeviceShot, stateVars, taskVars, AtRest
  <2>2. \A s \in Starts : Own(s)' => Own(s)
    BY <2>1 DEF Own, Live
  <2>3. \A s \in fresh' : pc'[s] \notin {"idle", "ready", "woken"}
    BY <1>c, <2>1 DEF TaskInv, InProgress
  <2> QED
    BY <1>c, <2>1, <2>2, <2>3 DEF OwnInv
<1>12. CASE StopMonitorEnds \/ Connect \/ NotificationLost \/ DeviceStopped \/ UNCHANGED vars
  <2>1. UNCHANGED <<devCap, newest, fresh, recent, current, captureId, image, pc, fetch>>
    BY <1>12 DEF StopMonitorEnds, Connect, NotificationLost, DeviceStopped, vars, stateVars,
           taskVars, deviceVars
  <2>2. AtRest => AtRest'
    BY <1>12 DEF StopMonitorEnds, Connect, NotificationLost, DeviceStopped, vars, deviceVars, AtRest
  <2> QED
    BY <1>c, <2>1, <2>2, OwnKept DEF Own, Live
<1> QED
  BY <1>1, <1>2, <1>3, <1>4, <1>5, <1>6, <1>7, <1>8, <1>9, <1>10, <1>11, <1>12
      DEF Next, StartStep, FetchStep

(***************************************************************************)
(* The theorems                                                            *)
(***************************************************************************)

\* The invariant holds before the first exposure.
LEMMA CaptureInvInit == Init => CaptureInv
  BY DEF Init, CaptureInv, TaskInv, PhaseInv, StopInv, WatchInv, RestInv, NoteInv, ReadyInv, OwnInv,
         FrameInv, InProgress, Live, Watching, Own, Accepted, Unsent, AtRest, Told, Ready, Busy

\* Every step keeps the invariant, each part by those before it.
LEMMA CaptureInvStep ==
    ASSUME Turns, Types, CaptureInv, [Next]_vars
    PROVE  CaptureInv'
<1>1. TaskInv'
  BY TaskInvStep DEF Turns, CaptureInv
<1>2. PhaseInv' /\ StopInv' /\ WatchInv' /\ RestInv'
  BY PhaseInvStep, StopInvStep, WatchInvStep, RestInvStep
<1>3. NoteInv' /\ ReadyInv' /\ OwnInv' /\ FrameInv'
  BY NoteInvStep, ReadyInvStep, OwnInvStep, FrameInvStep
<1> QED
  BY <1>1, <1>2, <1>3 DEF CaptureInv

\* Every variable of the capture keeps its type, whatever fails and whatever the
\* clients do: an image that is offered is one that the device shot for a capture
\* (session.py:6401-6548).
THEOREM TypeCorrect == Spec => []TypeOK
<1>1. Types /\ UNCHANGED vars => Types'
  BY TypesStep
<1> QED
  BY TypesInit, TypesStep, TypesAreTypes, PTL DEF Spec

\* If the client of the camera waits for the answer of each request, one capture
\* is fetched at a time, and it is the one that an abort or a disconnection would
\* cancel (session.py:3446, :3386, :3704): no task is left to deliver its file into
\* a later capture.
THEOREM OneFetch ==
    ASSUME Serial PROVE Spec => []Inv
<1>1. Init => TaskInv
  BY CaptureInvInit DEF CaptureInv
<1>2. Types /\ TaskInv /\ [Next]_vars => TaskInv'
  BY TaskInvStep
<1>3. TypeOK /\ TaskInv => Inv
  BY DEF TaskInv, Inv, OneRegisteredFetch
<1> QED
  BY <1>1, <1>2, <1>3, TypesInit, TypesStep, TypesAreTypes, PTL DEF Spec

\* What the next four rest on.
THEOREM TurnsAreKept ==
    ASSUME Turns PROVE Spec => [](Types /\ CaptureInv)
<1>1. Types /\ CaptureInv /\ [Next]_vars => CaptureInv'
  BY CaptureInvStep
<1> QED
  BY <1>1, CaptureInvInit, TypesInit, TypesStep, PTL DEF Spec

\* An image is offered for the current capture only, and nothing is left of the
\* capture when it is: no task, file or run of the device delivers into a later one
\* (session.py:6401-6548), and the next exposure is not refused (camera.py:764-769).
\* Only a capture that began within the tolerance of an earlier one's file may be
\* given that file (ftp_client.py:305).
THEOREM ImageIsCurrent ==
    ASSUME Turns PROVE Spec => []ReadyIsCurrent
<1>1. CaptureInv => ReadyIsCurrent
  BY DEF CaptureInv, PhaseInv, OwnInv, ReadyIsCurrent, ImageReady, IsBusy, TaskRuns, Busy
<1> QED
  BY <1>1, TurnsAreKept, PTL

\* The frames that end a capture were counted for it, though no notification names
\* one: the last word of an earlier capture has been heard before a start is accepted
\* (session.py:1391-1404, :5906).
THEOREM CountsOwn ==
    ASSUME Turns PROVE Spec => []CountsAreOwn
<1>1. CaptureInv => CountsAreOwn
  BY DEF CaptureInv, OwnInv, CountsAreOwn
<1> QED
  BY <1>1, TurnsAreKept, PTL

\* A capture that has been aborted leaves no device running that was not told to
\* stop (session.py:5769-5771).
THEOREM AbortStopsDevice ==
    ASSUME Turns PROVE Spec => []IdleMeansStopped
<1>1. CaptureInv => IdleMeansStopped
  BY DEF CaptureInv, PhaseInv, Told, IdleMeansStopped
<1> QED
  BY <1>1, TurnsAreKept, PTL

\* A start is accepted when the device has come to rest, not when it was told to
\* stop (session.py:5906-5944).
THEOREM StartsAtRest ==
    ASSUME Turns PROVE Spec => AcceptedAtRest
<1> DEFINE Steps == \A s \in Starts : pc[s] = "woken" /\ pc'[s] = "configuring" => dev = "idle"
<1>1. CaptureInv => Steps
  BY DEF CaptureInv, RestInv, AtRest
<1>2. Spec => [][Steps]_vars
  BY <1>1, TurnsAreKept, PTL DEF Spec
<1> QED
  BY <1>2 DEF AcceptedAtRest
=============================================================================
