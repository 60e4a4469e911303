------------------------------- MODULE Capture ------------------------------
(***************************************************************************)
(* The astronomy capture of a V3 device: StartExposure, AbortExposure and   *)
(* the Connected property of the Camera router (devices/camera.py), the     *)
(* capture methods of DwarfSession (dwarf/session.py), the tasks they spawn  *)
(* and the notifications that drive them.                                   *)
(*                                                                         *)
(* Every HTTP request is a coroutine of one event loop: an action is what   *)
(* one coroutine or task runs between two awaits.  A member of Starts is a  *)
(* StartExposure request and stands for the capture_id it draws, a member   *)
(* of Aborts an AbortExposure request; each is made once.                   *)
(*                                                                         *)
(* Left out: the simulator, the experimental photo workflow, timestamps and *)
(* the metadata copied beside the phase.  Of the raw files the device keeps *)
(* only the newest matters; which parameters configuration writes is        *)
(* abstracted to whether it succeeds.                                       *)
(***************************************************************************)
EXTENDS Integers, Sequences, FiniteSets

CONSTANTS
    Starts,      \* the StartExposure requests
    Aborts,      \* the AbortExposure requests
    FramesOf,    \* the frame count each start asks for
    Mini,        \* the profile is DWARF mini (dark frames are refused)
    NoDarks,     \* continue without darks (the default setting)
    Serial,      \* the client makes a request when its last one has returned
    Patient,     \* it starts no exposure while it sees one under way
    Faults,      \* which failures happen; see FaultKinds
    MaxShots,    \* bound: raw frames of one capture the device reports
    MaxNotes,    \* bound: notifications under way
    None

FaultKinds == {"refused", "timeout", "closed", "decode", "disconnect"}

ASSUME CaptureAssumption ==
    /\ None \notin Starts
    /\ FramesOf \in [Starts -> 1..MaxShots]
    /\ {Mini, NoDarks, Serial, Patient} \subseteq BOOLEAN
    /\ Faults \subseteq FaultKinds
    /\ MaxShots \in Nat \ {0} /\ MaxNotes \in Nat \ {0}

VARIABLES
    phase,       \* camera_state.capture_phase
    captureId,   \* camera_state.capture_id
    frames,      \* camera_state.requested_frame_count
    current,     \* camera_state.progress_current_count
    image,       \* camera_state.image: the capture of the device it was shot for
    task,        \* camera_state.capture_task: the capture it fetches
    connected,   \* the camera is connected
    op,          \* _astro_capture_operation_state
    lastEntry,   \* camera_state.last_ftp_entry, the last file FTP stored
    frameEvent,  \* _capture_frame_complete_event
    startTask,   \* _capture_start_response_task
    stopTask,    \* _capture_stop_response_task is running
    pc,          \* where each StartExposure is
    fetch,       \* where the _fetch_capture task of each capture is
    ftp,         \* the FTP retrieval that task spawned
    monitor,     \* the start command's response and who awaits it
    monitorId,   \* the capture_id the monitor was given
    abort,       \* where each AbortExposure is
    drop,        \* where Connected = False is
    dev,         \* the device: idle, running or stopping
    runsOn,      \* it was told to stop, and runs on
    devCap,      \* the capture it runs
    shots,       \* the raw frames it has taken of it
    newest,      \* its newest raw file
    fresh,       \* the starts that were accepted before it was shot
    recent,      \* the captures that began within 15 s of the newest file there
                 \* was: the clock tolerance of the retrieval
    verdict,     \* what it answers to each start command
    notes        \* the notifications under way, in order

stateVars   == <<phase, captureId, frames, current, image, task, connected>>
sessionVars == <<op, lastEntry, frameEvent, startTask, stopTask>>
taskVars    == <<fetch, ftp>>
monitorVars == <<monitor, monitorId>>
deviceVars  == <<dev, runsOn, devCap, shots, newest, fresh, recent, verdict, notes>>
vars == <<stateVars, sessionVars, pc, taskVars, monitorVars, abort, drop,
          deviceVars>>

Phases == {"idle", "configuring", "waiting_for_dark", "starting", "exposing",
           "transferring", "ready", "aborting", "failed", "unknown"}
\* PROCESSING is overwritten by TRANSFERRING before the task first suspends.
Busy == {"configuring", "waiting_for_dark", "starting", "exposing",
         "transferring", "aborting"}
OpStates == {"idle", "running", "stopping", "stopped"}
Files == Starts \X (1..MaxShots)
\* A notification carries an operation state, or a frame count.
NoteState(st) == [state |-> st, count |-> 0]
NoteCount(n) == [state |-> "none", count |-> n]
Notes == {NoteState(st) : st \in OpStates} \cup {NoteCount(n) : n \in 1..MaxShots}

StartPcs == {"idle", "ready", "woken", "configuring", "dark", "feature", "baseline",
             "dispatch", "sent", "runtime", "done"}
InProgress(s) == pc[s] \notin {"idle", "done"}
Live(s) == fetch[s] \notin {"none", "done"}
TaskRuns == \E s \in Starts : task = s /\ Live(s)

MayRequest ==
    Serial => /\ \A s \in Starts : ~InProgress(s)
              /\ \A a \in Aborts : abort[a] \in {"idle", "done"}
              /\ drop # "fetch"

TypeOK ==
    /\ phase \in Phases
    /\ captureId \in Starts \cup {None}
    /\ frames \in 1..MaxShots
    /\ current \in 0..MaxShots
    /\ image \in Starts \cup {None}
    /\ task \in Starts \cup {None}
    /\ connected \in BOOLEAN
    /\ op \in OpStates \cup {"none"}
    /\ lastEntry \in Files \cup {None}
    /\ frameEvent \in BOOLEAN
    /\ startTask \in Starts \cup {None}
    /\ stopTask \in BOOLEAN
    /\ pc \in [Starts -> StartPcs]
    /\ fetch \in [Starts -> {"none", "new", "waiting", "stopping", "ftp", "album",
                             "golive", "cancelled", "done"}]
    /\ ftp \in [Starts -> {"none", "pending", "found", "missing", "seen"}]
    /\ monitor \in [Starts -> {"none", "future", "waiting", "continuing",
                               "continued", "forced", "ended"}]
    /\ monitorId \in [Starts -> Starts \cup {None}]
    /\ abort \in [Aborts -> {"idle", "fetch", "stop", "done"}]
    /\ drop \in {"idle", "fetch", "done"}
    /\ dev \in {"idle", "running", "stopping"}
    /\ runsOn \in BOOLEAN
    /\ devCap \in Starts \cup {None}
    /\ shots \in 0..MaxShots
    /\ newest \in Files \cup {None} /\ fresh \subseteq Starts /\ recent \subseteq Starts
    /\ verdict \in [Starts -> {"none", "ok", "dark", "error", "silent"}]
    /\ notes \in Seq(Notes) /\ Len(notes) <= MaxNotes

Init ==
    /\ phase = "idle" /\ captureId = None /\ frames = 1 /\ current = 0
    /\ image = None /\ task = None /\ connected = TRUE
    /\ op = "none" /\ lastEntry = None /\ frameEvent = FALSE
    /\ startTask = None /\ stopTask = FALSE
    /\ pc = [s \in Starts |-> "idle"]
    /\ fetch = [s \in Starts |-> "none"]
    /\ ftp = [s \in Starts |-> "none"]
    /\ monitor = [s \in Starts |-> "none"]
    /\ monitorId = [s \in Starts |-> None]
    /\ abort = [a \in Aborts |-> "idle"]
    /\ drop = "idle"
    /\ dev = "idle" /\ runsOn = FALSE /\ devCap = None /\ shots = 0
    /\ newest = None /\ fresh = {} /\ recent = {}
    /\ verdict = [s \in Starts |-> "none"]
    /\ notes = << >>

(***************************************************************************)
(* The device (firmware), as the session sees it                           *)
(***************************************************************************)

Notify(note) == Len(notes) < MaxNotes /\ notes' = Append(notes, note)

\* It takes a start command when it is idle, or refuses it; a missing dark
\* waits for the continue command; the command or its answer may be lost.
DeviceStart(s) ==
    /\ \/ /\ dev = "idle"
          /\ verdict' = [verdict EXCEPT ![s] = "dark"]
          /\ UNCHANGED <<dev, runsOn, devCap, shots, notes>>
       \/ /\ dev = "idle"
          /\ \E v \in {"ok", "silent"} : verdict' = [verdict EXCEPT ![s] = v]
          /\ dev' = "running" /\ runsOn' = FALSE /\ devCap' = s /\ shots' = 0
          /\ Notify(NoteState("running"))
       \/ /\ \E v \in {"error", "silent"} : verdict' = [verdict EXCEPT ![s] = v]
          /\ UNCHANGED <<dev, runsOn, devCap, shots, notes>>
    /\ UNCHANGED <<newest, fresh, recent>>

\* It takes a stop command, or refuses it or does not hear it, which is only
\* logged when the answer is there or is given up.
DeviceStop ==
    /\ \/ /\ dev = "running"
          /\ dev' = "stopping" /\ runsOn' = FALSE
          /\ Notify(NoteState("stopping"))
       \/ /\ dev = "running" /\ Faults \cap {"refused", "timeout"} # {}
          /\ runsOn' = TRUE
          /\ UNCHANGED <<dev, notes>>
       \/ dev # "running" /\ UNCHANGED <<dev, runsOn, notes>>
    /\ UNCHANGED <<devCap, shots, newest, fresh, recent, verdict>>

DeviceShot ==
    /\ dev = "running"
    /\ shots < MaxShots
    /\ shots' = shots + 1
    /\ newest' = <<devCap, shots + 1>>
    /\ fresh' = {s \in Starts :
           Live(s) \/ (InProgress(s) /\ pc[s] \notin {"ready", "woken"})}
    /\ Notify(NoteCount(shots + 1))
    /\ UNCHANGED <<stateVars, sessionVars, pc, taskVars, monitorVars, abort, drop,
                   dev, runsOn, devCap, recent, verdict>>

DeviceStopped ==
    /\ dev = "stopping"
    /\ dev' = "idle"
    /\ Notify(NoteState("stopped"))
    /\ UNCHANGED <<stateVars, sessionVars, pc, taskVars, monitorVars, abort, drop,
                   runsOn, devCap, shots, newest, fresh, recent, verdict>>

(***************************************************************************)
(* Notifications                                                           *)
(***************************************************************************)

\* Mutant of Ready: a device that is finalizing its stack counts as ready.
ReadyTooEarly == {"none", "idle", "stopping", "stopped"}

\* Mutant of SetOperationState: the monitor of a stop waits for its answer only.
SetOperationStateOnly(st) == op' = st /\ UNCHANGED stopTask

\* _set_astro_capture_operation_state: a ready device sets the ready event,
\* which ends the monitor of a stop command at once.
Ready == {"none", "idle", "stopped"}
SetOperationState(st) ==
    /\ op' = st
    /\ stopTask' = (stopTask /\ st \notin Ready)

\* A count that is not larger than the last one changes nothing.
CountFrame(n) == IF n > current THEN n ELSE current

\* The state and the progress handlers.  Neither notification names a capture:
\* a count adds to whichever is current.
Notification ==
    /\ notes # << >>
    /\ notes' = Tail(notes)
    /\ LET note == Head(notes) IN
       \/ /\ note.state # "none"
          /\ SetOperationState(note.state)
          /\ UNCHANGED <<current, frameEvent>>
       \/ /\ note.state = "none"
          /\ current' = CountFrame(note.count)
          /\ frameEvent' = (frameEvent \/ (current' >= frames /\ captureId # None))
          /\ UNCHANGED <<op, stopTask>>
    /\ UNCHANGED <<phase, captureId, frames, image, task, connected, lastEntry,
                   startTask, pc, taskVars, monitorVars, abort, drop, dev, runsOn,
                   devCap, shots, newest, fresh, recent, verdict>>

\* It was sent while the websocket was down.
NotificationLost ==
    /\ Faults \cap {"closed", "disconnect"} # {}
    /\ notes # << >>
    /\ notes' = Tail(notes)
    /\ UNCHANGED <<stateVars, sessionVars, pc, taskVars, monitorVars, abort, drop,
                   dev, runsOn, devCap, shots, newest, fresh, recent, verdict>>

(***************************************************************************)
(* StartExposure                                                           *)
(***************************************************************************)

\* Mutant of IsBusy: a capture that is being retrieved does not count.
IsBusyInPhase == phase \in Busy \ {"transferring"}

IsBusy == TaskRuns \/ phase \in Busy

\* The router copies the request into the session before the session checks
\* for overlap; then the session waits for the websocket and for a device
\* that is still finalizing.  A Mini refuses a dark frame.
Start(s) ==
    /\ pc[s] = "idle"
    /\ connected
    /\ MayRequest /\ (Patient => phase \notin Busy)
    /\ frames' = FramesOf[s]
    /\ \/ /\ IsBusy
          /\ pc' = [pc EXCEPT ![s] = "done"]
          /\ UNCHANGED phase
       \/ /\ ~IsBusy /\ Mini
          /\ pc' = [pc EXCEPT ![s] = "done"]
          /\ phase' = "failed"
       \/ /\ ~IsBusy
          /\ pc' = [pc EXCEPT ![s] = "ready"]
          /\ UNCHANGED phase
    /\ UNCHANGED <<captureId, current, image, task, connected, sessionVars,
                   taskVars, monitorVars, abort, drop, deviceVars>>

\* The ready event wakes the start up, which does not look at it again.
Wake(s) ==
    /\ pc[s] = "ready"
    /\ op \in Ready
    /\ pc' = [pc EXCEPT ![s] = "woken"]
    /\ UNCHANGED <<stateVars, sessionVars, taskVars, monitorVars, abort, drop,
                   deviceVars>>

\* Every two seconds it asks the device, whose answer follows the
\* notifications sent before it; so does a websocket that had to be opened.
QueryState(s) ==
    /\ pc[s] = "ready"
    /\ op \notin Ready \/ "closed" \in Faults
    /\ notes = << >>
    /\ SetOperationState(dev)
    /\ UNCHANGED <<stateVars, lastEntry, frameEvent, startTask, pc, taskVars,
                   monitorVars, abort, drop, deviceVars>>

\* The websocket is not opened: a timeout becomes UNKNOWN, any other failure
\* leaves the phase as it is.
NotOpened(s) ==
    /\ pc[s] = "ready"
    /\ \/ "timeout" \in Faults /\ phase' = "unknown"
       \/ "closed" \in Faults /\ UNCHANGED phase
    /\ pc' = [pc EXCEPT ![s] = "done"]
    /\ UNCHANGED <<captureId, frames, current, image, task, connected, sessionVars,
                   taskVars, monitorVars, abort, drop, deviceVars>>

\* The start becomes the current capture.  The newest file there is may be
\* older than that by less than the tolerance.
Accept(s) ==
    /\ pc[s] = "woken"
    /\ pc' = [pc EXCEPT ![s] = "configuring"]
    /\ captureId' = s
    /\ phase' = "configuring"
    /\ current' = 0
    /\ image' = None
    /\ frameEvent' = FALSE
    /\ \/ UNCHANGED recent
       \/ newest # None /\ recent' = recent \cup {s}
    /\ UNCHANGED <<frames, task, connected, op, lastEntry, startTask, stopTask,
                   taskVars, monitorVars, abort, drop, dev, runsOn, devCap, shots,
                   newest, fresh, verdict, notes>>

\* 75 seconds without a ready device: CODE_ASTRO_FUNCTION_BUSY, which the
\* router turns into FAILED.
NotReady(s) ==
    /\ pc[s] = "ready"
    /\ op \notin Ready
    /\ pc' = [pc EXCEPT ![s] = "done"]
    /\ phase' = "failed"
    /\ UNCHANGED <<captureId, frames, current, image, task, connected, sessionVars,
                   taskVars, monitorVars, abort, drop, deviceVars>>

\* The configuration commands are acknowledged one after the other; each step
\* writes its phase whatever the phase has become meanwhile.  First the
\* observation mode, exposure, gain and filter; a dark frame then skips the
\* check of the dark library.
ParametersSet(s) ==
    /\ pc[s] = "configuring"
    /\ \/ /\ pc' = [pc EXCEPT ![s] = "dark"]
          /\ phase' = "waiting_for_dark"
       \/ /\ ~Mini
          /\ pc' = [pc EXCEPT ![s] = "feature"]
          /\ UNCHANGED phase
    /\ UNCHANGED <<captureId, frames, current, image, task, connected, sessionVars,
                   taskVars, monitorVars, abort, drop, deviceVars>>

DarkChecked(s) ==
    /\ pc[s] = "dark"
    /\ pc' = [pc EXCEPT ![s] = "feature"]
    /\ UNCHANGED <<stateVars, sessionVars, taskVars, monitorVars, abort, drop,
                   deviceVars>>

\* Binning, file format and frame count.
FeaturesSet(s) ==
    /\ pc[s] = "feature"
    /\ pc' = [pc EXCEPT ![s] = "baseline"]
    /\ phase' = "starting"
    /\ UNCHANGED <<captureId, frames, current, image, task, connected, sessionVars,
                   taskVars, monitorVars, abort, drop, deviceVars>>

\* One of them fails.  The router maps a refusal to FAILED and a timeout to
\* UNKNOWN; a closed websocket is neither and leaves the phase as it is.
ConfigurationFails(s) ==
    /\ pc[s] \in {"configuring", "dark", "feature", "baseline"}
    /\ \/ "refused" \in Faults /\ phase' = "failed"
       \/ "timeout" \in Faults /\ phase' = "unknown"
       \/ "closed" \in Faults /\ UNCHANGED phase
    /\ pc' = [pc EXCEPT ![s] = "done"]
    /\ UNCHANGED <<captureId, frames, current, image, task, connected, sessionVars,
                   taskVars, monitorVars, abort, drop, deviceVars>>

\* The start goes on only if it is still the current capture and STARTING.
StillStarting(s) == captureId = s /\ phase = "starting"

BaselineTaken(s) ==
    /\ pc[s] = "baseline"
    /\ pc' = [pc EXCEPT ![s] = IF StillStarting(s) THEN "dispatch" ELSE "done"]
    /\ UNCHANGED <<stateVars, sessionVars, taskVars, monitorVars, abort, drop,
                   deviceVars>>

\* Mutant of StartFailed: the phase is left as it is.
StartForgotten(s, ph) ==
    /\ pc' = [pc EXCEPT ![s] = "done"]
    /\ captureId' = None
    /\ UNCHANGED <<phase, frames, current, image, task, connected>>

\* Every exception of _start_astro_capture gives the capture up.
StartFailed(s, ph) ==
    /\ pc' = [pc EXCEPT ![s] = "done"]
    /\ captureId' = None
    /\ phase' = ph
    /\ UNCHANGED <<frames, current, image, task, connected>>

\* The start command goes out once the websocket is free, unless an earlier
\* one is still unanswered or the socket fails.
Dispatch(s) ==
    /\ pc[s] = "dispatch"
    /\ \/ /\ \A t \in Starts : monitor[t] \notin {"future", "waiting", "forced"}
          /\ DeviceStart(s)
          /\ monitor' = [monitor EXCEPT ![s] = "future"]
          /\ pc' = [pc EXCEPT ![s] = "sent"]
          /\ UNCHANGED stateVars
       \/ /\ \/ \E t \in Starts : monitor[t] \in {"future", "waiting", "forced"}
             \/ "closed" \in Faults
          /\ StartFailed(s, "failed")
          /\ UNCHANGED <<monitor, deviceVars>>
       \/ /\ "timeout" \in Faults
          /\ StartFailed(s, "unknown")
          /\ UNCHANGED <<monitor, deviceVars>>
    /\ UNCHANGED <<sessionVars, taskVars, monitorId, abort, drop>>

\* _validate_astro_start_response raises.
Rejected(s) == verdict[s] = "error" \/ (verdict[s] = "dark" /\ ~NoDarks)

\* One turn of the event loop later: an immediate rejection ends the start,
\* a future that an abort cancelled raises CancelledError, otherwise a
\* monitor is left to await the response.
Dispatched(s) ==
    /\ pc[s] = "sent"
    /\ \/ /\ monitor[s] = "future" /\ Rejected(s)
          /\ StartFailed(s, "failed")
          /\ monitor' = [monitor EXCEPT ![s] = "ended"]
          /\ UNCHANGED <<op, startTask, monitorId>>
       \/ /\ monitor[s] = "future" /\ verdict[s] = "ok"
          /\ pc' = [pc EXCEPT ![s] = "runtime"]
          /\ monitor' = [monitor EXCEPT ![s] = "ended"]
          /\ UNCHANGED <<stateVars, op, startTask, monitorId>>
       \/ /\ monitor[s] = "future"
          /\ pc' = [pc EXCEPT ![s] = "runtime"]
          /\ op' = "running"
          /\ startTask' = s
          /\ monitorId' = [monitorId EXCEPT ![s] = captureId]
          /\ monitor' = [t \in Starts |->
                 IF t = s THEN "waiting" ELSE IF t = startTask THEN "ended"
                 ELSE monitor[t]]
          /\ UNCHANGED stateVars
       \/ /\ monitor[s] = "ended"
          /\ pc' = [pc EXCEPT ![s] = "done"]
          /\ UNCHANGED <<stateVars, op, startTask, monitor, monitorId>>
    /\ UNCHANGED <<lastEntry, frameEvent, stopTask, taskVars, abort, drop,
                   deviceVars>>

\* The live parameters have been written, whatever came of it: the capture
\* is on its way and its fetch task is created, unless it was aborted.
Started(s) ==
    /\ pc[s] = "runtime"
    /\ pc' = [pc EXCEPT ![s] = "done"]
    /\ IF StillStarting(s)
       THEN /\ phase' = "exposing"
            /\ task' = s
            /\ fetch' = [fetch EXCEPT ![s] = "new"]
       ELSE UNCHANGED <<phase, task, fetch>>
    /\ UNCHANGED <<captureId, frames, current, image, connected, sessionVars, ftp,
                   monitorVars, abort, drop, deviceVars>>

(***************************************************************************)
(* Cancelling the fetch task, and stopping the device                      *)
(***************************************************************************)

\* capture_task.cancel(), unless it is done: a task that has not run yet
\* never does.
CancelTask ==
    fetch' = [s \in Starts |->
        IF s # task \/ ~Live(s) THEN fetch[s]
        ELSE IF fetch[s] = "new" THEN "done" ELSE "cancelled"]

\* The start's monitor and its future are cancelled.
CancelStartMonitor ==
    /\ startTask' = None
    /\ monitor' = [s \in Starts |->
           IF s = startTask \/ monitor[s] \in {"future", "waiting", "forced"}
           THEN "ended"
           ELSE monitor[s]]

\* Mutant of StopPrelude: sending the stop command makes the device reusable.
StopPreludeReusable ==
    /\ CancelStartMonitor
    /\ op' = IF stopTask THEN op ELSE "stopped"

\* The part of _stop_astro_capture before its first await: unless an earlier
\* stop is still unanswered the stop command is about to go out.
StopPrelude ==
    /\ CancelStartMonitor
    /\ op' = IF stopTask THEN op ELSE "stopping"

\* The stop is answered, or 75 seconds pass.
StopMonitorEnds ==
    /\ stopTask
    /\ stopTask' = FALSE
    /\ UNCHANGED <<stateVars, op, lastEntry, frameEvent, startTask, pc, taskVars,
                   monitorVars, abort, drop, deviceVars>>

(***************************************************************************)
(* The monitor of the start command                                        *)
(***************************************************************************)

MonitorEnded(s) ==
    /\ monitor' = [monitor EXCEPT ![s] = "ended"]
    /\ startTask' = IF startTask = s THEN None ELSE startTask

\* A late rejection fails the capture it belongs to and cancels the task.
MonitorRejects(s) ==
    /\ MonitorEnded(s)
    /\ IF captureId = monitorId[s] /\ image = None
       THEN /\ phase' = "failed"
            /\ CancelTask
       ELSE UNCHANGED <<phase, fetch>>

\* The response arrives, or the monitor times out.
MonitorAnswered(s) ==
    /\ monitor[s] = "waiting"
    /\ \/ /\ verdict[s] \in {"ok", "silent"}
          /\ MonitorEnded(s)
          /\ UNCHANGED <<phase, fetch, deviceVars>>
       \/ /\ Rejected(s) \/ "closed" \in Faults
          /\ MonitorRejects(s)
          /\ UNCHANGED deviceVars
       \/ /\ verdict[s] = "dark" /\ NoDarks
          /\ monitor' = [monitor EXCEPT ![s] = "continuing"]
          /\ UNCHANGED <<startTask, phase, fetch, deviceVars>>
    /\ UNCHANGED <<captureId, frames, current, image, task, connected, op,
                   lastEntry, frameEvent, stopTask, pc, ftp, monitorId, abort,
                   drop>>

\* The continue command goes out and is answered; a device that does not know it
\* is sent the start command again, to be forced.
MonitorContinues(s) ==
    /\ \/ /\ \/ monitor[s] = "continuing"
                /\ monitor' = [monitor EXCEPT ![s] = "continued"]
             \/ /\ monitor[s] = "continued" /\ verdict[s] = "error"
                /\ monitor' = [monitor EXCEPT ![s] = "forced"]
          /\ DeviceStart(s) /\ verdict'[s] # "dark"
          /\ UNCHANGED <<startTask, phase, fetch>>
       \/ /\ monitor[s] \in {"continued", "forced"} /\ verdict[s] # "error"
          /\ MonitorEnded(s)
          /\ UNCHANGED <<phase, fetch, deviceVars>>
       \/ /\ \/ /\ monitor[s] \in {"continuing", "continued", "forced"}
                /\ "closed" \in Faults
             \/ monitor[s] \in {"continued", "forced"} /\ verdict[s] = "error"
          /\ MonitorRejects(s)
          /\ UNCHANGED deviceVars
    /\ UNCHANGED <<captureId, frames, current, image, task, connected, op,
                   lastEntry, frameEvent, stopTask, pc, ftp, monitorId, abort,
                   drop>>

(***************************************************************************)
(* _fetch_capture                                                          *)
(***************************************************************************)

FetchBegin(s) ==
    /\ fetch[s] = "new"
    /\ phase' = "transferring"
    /\ fetch' = [fetch EXCEPT ![s] = "waiting"]
    /\ ftp' = [ftp EXCEPT ![s] = "pending"]
    /\ UNCHANGED <<captureId, frames, current, image, task, connected, sessionVars,
                   pc, monitorVars, abort, drop, deviceVars>>

\* Mutant of IsNew: not_before is not passed.
IsNewAnyTime(s) == newest # None /\ newest # lastEntry

\* The newest file is not older than the start of the capture less the tolerance.
IsRecent(s) == s \in fresh \cup recent

\* wait_for_new_photo: nor is it the last one that was stored.
IsNew(s) == newest # None /\ newest # lastEntry /\ IsRecent(s)

\* The FTP task finds a FITS file and stores it.
FtpFinds(s) ==
    /\ ftp[s] = "pending" /\ Live(s)
    /\ IsNew(s)
    /\ ftp' = [ftp EXCEPT ![s] = "found"]
    /\ lastEntry' = newest
    /\ image' = newest[1]
    /\ UNCHANGED <<phase, captureId, frames, current, task, connected, op,
                   frameEvent, startTask, stopTask, pc, fetch, monitorVars, abort,
                   drop, deviceVars>>

FtpGivesUp(s) ==
    /\ ftp[s] = "pending" /\ Live(s)
    /\ ftp' = [ftp EXCEPT ![s] = "missing"]
    /\ UNCHANGED <<stateVars, sessionVars, pc, fetch, monitorVars, abort, drop,
                   deviceVars>>

\* It finds a file that is not decoded.
FtpUndecodable(s) ==
    /\ "decode" \in Faults
    /\ ftp[s] = "pending" /\ Live(s)
    /\ IsNew(s)
    /\ ftp' = [ftp EXCEPT ![s] = "missing"]
    /\ UNCHANGED <<stateVars, sessionVars, pc, fetch, monitorVars, abort, drop,
                   deviceVars>>

\* Leaving the wait: the stop command is sent for a single frame, for enough
\* frames, or at the deadline, and the FTP task is awaited.
FetchLeaves(s, timeout) ==
    IF frames <= 1 \/ current >= frames \/ timeout
    THEN /\ StopPrelude
         /\ fetch' = [fetch EXCEPT ![s] = IF stopTask THEN "ftp" ELSE "stopping"]
    ELSE /\ fetch' = [fetch EXCEPT ![s] = "ftp"]
         /\ UNCHANGED <<op, startTask, monitor>>

\* The wait ends with the frame-count event, with a single frame's file, or
\* at the deadline.  A file of a longer sequence, or none, is not the end.
FetchWaits(s) ==
    /\ fetch[s] = "waiting"
    /\ \/ /\ frameEvent
          /\ FetchLeaves(s, FALSE)
          /\ UNCHANGED ftp
       \/ /\ ftp[s] = "found"
          /\ ftp' = [ftp EXCEPT ![s] = "seen"]
          /\ IF frames <= 1 THEN FetchLeaves(s, FALSE)
             ELSE UNCHANGED <<op, startTask, monitor, fetch>>
       \/ /\ FetchLeaves(s, TRUE)
          /\ UNCHANGED ftp
    /\ UNCHANGED <<stateVars, lastEntry, frameEvent, stopTask, pc, monitorId, abort,
                   drop, deviceVars>>

\* The stop command of the task; its failure is only logged.
FetchStops(s) ==
    /\ fetch[s] = "stopping"
    /\ fetch' = [fetch EXCEPT ![s] = "ftp"]
    /\ \/ /\ DeviceStop
          /\ stopTask' = (op \notin Ready)
       \/ /\ "closed" \in Faults
          /\ UNCHANGED <<deviceVars, stopTask>>
    /\ UNCHANGED <<stateVars, op, lastEntry, frameEvent, startTask, pc, ftp,
                   monitorVars, abort, drop>>

\* The FTP task is awaited.  Without a file of it, and without an image, the
\* album is asked for one.
FtpAwaited(s) ==
    /\ fetch[s] = "ftp"
    /\ ftp[s] # "pending"
    /\ fetch' = [fetch EXCEPT ![s] =
           IF ftp[s] = "missing" /\ image = None THEN "album" ELSE "golive"]
    /\ UNCHANGED <<stateVars, sessionVars, pc, ftp, monitorVars, abort, drop, deviceVars>>

\* Its newest entry is accepted if it is recent; the album's own baseline may be
\* missing.
AlbumGives(s) ==
    /\ fetch[s] = "album"
    /\ IsRecent(s)
    /\ image' = newest[1]
    /\ fetch' = [fetch EXCEPT ![s] = "golive"]
    /\ UNCHANGED <<phase, captureId, frames, current, task, connected, sessionVars, pc,
                   ftp, monitorVars, abort, drop, deviceVars>>

\* No entry is, or the list or the file is not given or not decoded.
AlbumFails(s) ==
    /\ fetch[s] = "album"
    /\ phase' = "failed"
    /\ fetch' = [fetch EXCEPT ![s] = "done"]
    /\ UNCHANGED <<captureId, frames, current, image, task, connected, sessionVars, pc,
                   ftp, monitorVars, abort, drop, deviceVars>>

\* The device has been sent back to live view, or not: a failure is logged.  The
\* phase is written last.
WentLive(s) ==
    /\ fetch[s] = "golive"
    /\ phase' = "ready"
    /\ fetch' = [fetch EXCEPT ![s] = "done"]
    /\ UNCHANGED <<captureId, frames, current, image, task, connected, sessionVars, pc,
                   ftp, monitorVars, abort, drop, deviceVars>>

\* A frame of an unsupported type raises out of the retrieval and the task.
FetchRaises(s) ==
    /\ "decode" \in Faults
    /\ \/ fetch[s] \in {"waiting", "ftp"} /\ ftp[s] = "pending"
       \/ fetch[s] = "album"
    /\ fetch' = [fetch EXCEPT ![s] = "done"]
    /\ UNCHANGED <<stateVars, sessionVars, pc, ftp, monitorVars, abort, drop,
                   deviceVars>>

FetchCancelled(s) ==
    /\ fetch[s] = "cancelled"
    /\ fetch' = [fetch EXCEPT ![s] = "done"]
    /\ UNCHANGED <<stateVars, sessionVars, pc, ftp, monitorVars, abort, drop,
                   deviceVars>>

(***************************************************************************)
(* AbortExposure                                                           *)
(***************************************************************************)

\* The abort has stopped the device, or found a stop under way.
AbortSucceeds(a) ==
    /\ abort' = [abort EXCEPT ![a] = "done"]
    /\ task' = None
    /\ image' = None
    /\ phase' = "idle"

\* Once no task is left to wait for.
AbortStop(a, ph) ==
    /\ StopPrelude
    /\ \/ stopTask /\ AbortSucceeds(a)
       \/ /\ ~stopTask
          /\ abort' = [abort EXCEPT ![a] = "stop"]
          /\ phase' = ph
          /\ UNCHANGED <<task, image>>

AbortBegin(a) ==
    /\ abort[a] = "idle"
    /\ MayRequest
    /\ captureId' = None
    /\ CancelTask
    /\ \/ /\ TaskRuns
          /\ phase' = "aborting"
          /\ abort' = [abort EXCEPT ![a] = "fetch"]
          /\ UNCHANGED <<image, task, op, startTask, monitor>>
       \/ ~TaskRuns /\ AbortStop(a, "aborting")
    /\ UNCHANGED <<frames, current, connected, lastEntry, frameEvent, stopTask, pc,
                   ftp, monitorId, drop, deviceVars>>

AbortStops(a) ==
    /\ abort[a] = "fetch"
    /\ ~TaskRuns
    /\ AbortStop(a, phase)
    /\ UNCHANGED <<captureId, frames, current, connected, lastEntry, frameEvent,
                   stopTask, pc, taskVars, monitorId, drop, deviceVars>>

\* The stop command goes out; a failure to send it is reported to the client.
AbortEnds(a) ==
    /\ abort[a] = "stop"
    /\ \/ /\ DeviceStop
          /\ stopTask' = (op \notin Ready)
          /\ AbortSucceeds(a)
       \/ /\ "closed" \in Faults
          /\ abort' = [abort EXCEPT ![a] = "done"]
          /\ UNCHANGED <<task, image, phase, stopTask, deviceVars>>
    /\ UNCHANGED <<captureId, frames, current, connected, op, lastEntry, frameEvent,
                   startTask, pc, taskVars, monitorVars, drop>>

(***************************************************************************)
(* Connected                                                               *)
(***************************************************************************)

\* camera_disconnect has cancelled and awaited the task; the phase is kept.
\* Then the camera's reference is released: the last one of the session's
\* devices takes the monitors and the websocket along.
Disconnected ==
    /\ task' = None
    /\ image' = None
    /\ connected' = FALSE
    /\ drop' = "done"
    /\ \/ UNCHANGED <<startTask, stopTask, monitor>>
       \/ CancelStartMonitor /\ stopTask' = FALSE

DisconnectBegin ==
    /\ "disconnect" \in Faults
    /\ drop = "idle"
    /\ connected
    /\ MayRequest
    /\ CancelTask
    /\ \/ /\ TaskRuns
          /\ drop' = "fetch"
          /\ UNCHANGED <<task, image, connected, startTask, stopTask, monitor>>
       \/ ~TaskRuns /\ Disconnected
    /\ UNCHANGED <<phase, captureId, frames, current, op, lastEntry, frameEvent, pc,
                   ftp, monitorId, abort, deviceVars>>

DisconnectEnds ==
    /\ drop = "fetch"
    /\ ~TaskRuns
    /\ Disconnected
    /\ UNCHANGED <<phase, captureId, frames, current, op, lastEntry, frameEvent, pc,
                   taskVars, monitorId, abort, deviceVars>>

\* A websocket that had to be opened asks for the device's state.  It was closed
\* with the last reference, when the start's monitor was cancelled.
Connect ==
    /\ ~connected
    /\ MayRequest
    /\ connected' = TRUE
    /\ \/ UNCHANGED <<op, stopTask>>
       \/ startTask = None /\ notes = << >> /\ SetOperationState(dev)
    /\ UNCHANGED <<phase, captureId, frames, current, image, task, lastEntry,
                   frameEvent, startTask, pc, taskVars, monitorVars, abort, drop,
                   deviceVars>>

-----------------------------------------------------------------------------
StartStep(s) ==
    \/ Wake(s) \/ QueryState(s) \/ Accept(s) \/ NotReady(s) \/ NotOpened(s)
    \/ ParametersSet(s) \/ DarkChecked(s) \/ FeaturesSet(s) \/ ConfigurationFails(s)
    \/ BaselineTaken(s) \/ Dispatch(s) \/ Dispatched(s) \/ Started(s)

FetchStep(s) ==
    \/ FetchBegin(s) \/ FetchWaits(s) \/ FetchStops(s) \/ FtpAwaited(s)
    \/ AlbumGives(s) \/ AlbumFails(s) \/ WentLive(s)
    \/ FetchRaises(s) \/ FetchCancelled(s)

Next ==
    \/ \E s \in Starts :
          \/ Start(s) \/ StartStep(s) \/ MonitorAnswered(s) \/ MonitorContinues(s)
          \/ FetchStep(s) \/ FtpFinds(s) \/ FtpGivesUp(s) \/ FtpUndecodable(s)
    \/ \E a \in Aborts : AbortBegin(a) \/ AbortStops(a) \/ AbortEnds(a)
    \/ StopMonitorEnds
    \/ DisconnectBegin \/ DisconnectEnds \/ Connect
    \/ Notification \/ NotificationLost \/ DeviceShot \/ DeviceStopped

Spec == Init /\ [][Next]_vars

\* Every coroutine that can run does, and every wait of the session has a
\* timeout: a start, a task, a monitor and an abort keep moving.  The client
\* and the device owe nothing, except that notifications under way arrive.
Fairness ==
    /\ \A s \in Starts :
          /\ WF_vars(StartStep(s))
          /\ WF_vars(MonitorAnswered(s) \/ MonitorContinues(s))
          /\ WF_vars(FetchStep(s)) /\ WF_vars(FtpGivesUp(s))
    /\ \A a \in Aborts : WF_vars(AbortStops(a) \/ AbortEnds(a))
    /\ WF_vars(DisconnectEnds)
    /\ WF_vars(Notification)

FairSpec == Spec /\ Fairness

-----------------------------------------------------------------------------
(***************************************************************************)
(* Properties                                                              *)
(***************************************************************************)

\* Every variable has its type, and one capture is fetched at a time, which is
\* the one that an abort or a disconnection would cancel (session.py:3446, :3386,
\* :3704).
OneRegisteredFetch ==
    \A s \in Starts : Live(s) => task = s \/ fetch[s] = "cancelled"
Inv == TypeOK /\ OneRegisteredFetch

\* The next four are for two starts, or for patient clients: a start that is refused
\* overwrites the frame count by which the running capture is stopped (see Start),
\* and if the word that the device runs is lost too, a third start finds it running.

\* ImageReady, as the camera router tells it.
ImageReady == phase = "ready" /\ image # None

\* An image is offered for the current capture only, and was shot for it: no
\* earlier capture's file, task or device run delivers into a later one
\* (session.py:6401-6548), unless the capture began within the tolerance of the
\* newest file (ftp_client.py:305).  By then nothing is left of the capture: the
\* client that takes the image and starts the next exposure at once is not
\* refused (camera.py:764-769).
ReadyIsCurrent ==
    /\ phase = "ready" => captureId # None
    /\ ImageReady => /\ image = captureId \/ captureId \in recent
                     /\ ~IsBusy

\* The frame counts that end a capture are its own, though notifications name
\* no capture (session.py:1391-1404, :5906).
CountsAreOwn == captureId # None /\ current > 0 => devCap = captureId

\* A start becomes the current capture when the device has come to rest, not
\* when the stop command was sent (session.py:5906-5944).
AcceptedAtRest ==
    [][\A s \in Starts :
          pc[s] = "woken" /\ pc'[s] = "configuring" => dev = "idle"]_vars

\* Once an abort has made the capture idle and nothing of it is left, the device
\* does not run unless it was told to stop and runs on: no stop command is skipped
\* (session.py:5769-5771) that was not sent already.
IdleMeansStopped ==
    ~ /\ phase = "idle"
      /\ \A s \in Starts : ~InProgress(s) /\ ~Live(s)
      /\ \A a \in Aborts : abort[a] = "done"
      /\ dev = "running" /\ ~runsOn

\* A start that waits for the device returns (session.py:5906), and so does an
\* abort that waits for the task it cancelled (session.py:3704); and a busy phase
\* ends: StartExposure is not refused for ever (session.py:3448-3457).
NothingHangs ==
    /\ \A s \in Starts : pc[s] = "ready" ~> pc[s] = "done"
    /\ \A a \in Aborts : abort[a] = "fetch" ~> abort[a] = "done"
    /\ phase \in Busy ~> phase \notin Busy
=============================================================================
