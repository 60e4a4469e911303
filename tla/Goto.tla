-------------------------------- MODULE Goto --------------------------------
(***************************************************************************)
(* A slew of the mount: the telescope router's SlewToCoordinatesAsync,       *)
(* AbortSlew, MoveAxis and Connected with the task that reports a slew       *)
(* (devices/telescope.py), the session's pending GoTo, its retry and its     *)
(* fallback to the one-click GoTo that calibrates first, with the monitor of *)
(* that command's late response (dwarf/session.py), and a device that        *)
(* executes what it is sent in order and reports in order what it does.      *)
(*                                                                         *)
(* Automatic calibration is on.  A calibration is recent or it is not: the   *)
(* kind of GoTo is a choice.  Left out: the simulator, the motion itself     *)
(* (module Motion), the texts shown while calibrating, and the flag          *)
(* _goto_waiting_for_tracking, which nothing reads.                          *)
(***************************************************************************)
EXTENDS Integers, Sequences

CONSTANTS
    Slews,     \* SlewToCoordinatesAsync requests, each to a target of its own
    Aborts,    \* AbortSlew requests
    Others,    \* MoveAxis and Connected requests
    Overlap,   \* aborts may be requested while another request is under way
    MaxWire,   \* bound: messages under way in either direction
    None

Reqs == Slews \cup Aborts \cup Others
Codes == {"needCalibration", "busy", "refused"}

ASSUME GotoAssumption ==
    /\ Slews \cap Aborts = {} /\ Slews \cap Others = {} /\ Aborts \cap Others = {}
    /\ None \notin Reqs
    /\ Overlap \in BOOLEAN
    /\ MaxWire \in Nat

VARIABLES
    connected,   \* TelescopeState.connected
    slewing,     \* TelescopeState.slewing
    rate,        \* a manual rate of TelescopeState is not zero
    task,        \* TelescopeState.slew_task: the slew it reports, or None
    tpc,         \* the slew tasks
    position,    \* the slew whose target is reported as reached, or None
    pending,     \* _goto_pending
    oneClick,    \* _one_click_goto_active
    result,      \* _goto_result
    target,      \* _last_goto_target, None when there is no record
    entry,       \* the one-click command whose response a monitor awaits, or None
    pc,          \* where each request is
    kind,        \* the command a slew uses
    retried,     \* the slews that were retried
    answer,      \* what came back for the command that is outstanding
    device,      \* what the mount does, and the last slew it accepted
    inbox,       \* commands on their way to the device
    wire,        \* messages on their way back
    reached      \* history: the slews whose target the mount reached

routerVars == <<connected, slewing, rate, task, tpc, position>>
gotoVars   == <<pending, oneClick, result, target>>
reqVars    == <<pc, kind, retried>>
linkVars   == <<inbox, wire>>
deviceVars == <<device, reached>>
vars == <<routerVars, gotoVars, entry, reqVars, answer, deviceVars, linkVars>>

Places == {"idle", "begun", "preparing", "ready", "sending", "sent", "stopping", "stopSent",
           "done", "failed", "escaped"}
InProgress(r) == pc[r] \notin {"idle", "done", "failed", "escaped"}
Live(s) == tpc[s] \in {"waiting", "woken"}
TaskLive == task # None /\ Live(task)

Commands == [what : {"goto", "click", "stop"}, req : Reqs]
Messages == [what : {"ack"}, req : Reqs, code : Codes \cup {"ok"}]
            \cup [what : {"tracking", "envelope"}]
            \cup [what : {"click"}, req : Slews, code : {"ok", "refused"}]

TypeOK ==
    /\ connected \in BOOLEAN /\ slewing \in BOOLEAN /\ rate \in BOOLEAN
    /\ pending \in BOOLEAN /\ oneClick \in BOOLEAN
    /\ task \in Slews \cup {None} /\ position \in Slews \cup {None}
    /\ target \in Slews \cup {None} /\ entry \in Slews \cup {None}
    /\ tpc \in [Slews -> {"none", "waiting", "woken", "ended"}]
    /\ result \in {"none", "success", "failed"}
    /\ pc \in [Reqs -> Places]
    /\ kind \in [Slews -> {"goto", "oneClick"}]
    /\ retried \subseteq Slews
    /\ answer \in {"none", "ok", "lost", "timeout", "cancelled"} \cup Codes
    /\ device \in [doing : {"rest", "moving", "tracking"}, slew : Slews \cup {None}]
    /\ inbox \in Seq(Commands) /\ wire \in Seq(Messages)
    /\ reached \subseteq Slews
    /\ pending => result = "none"

Init ==
    /\ connected = TRUE /\ slewing = FALSE /\ rate = FALSE /\ task = None /\ position = None
    /\ tpc = [s \in Slews |-> "none"]
    /\ pending = FALSE /\ oneClick = FALSE /\ result = "none" /\ target = None
    /\ entry = None
    /\ pc = [r \in Reqs |-> "idle"]
    /\ kind = [s \in Slews |-> "goto"]
    /\ retried = {}
    /\ answer = "none"
    /\ device = [doing |-> "rest", slew |-> None]
    /\ inbox = <<>> /\ wire = <<>>
    /\ reached = {}

Move(r, place) == pc' = [pc EXCEPT ![r] = place]

\* The client makes its requests one at a time, aborts perhaps excepted, and
\* slews only while Slewing reads false.
MayAsk(r) ==
    /\ pc[r] = "idle"
    /\ (Overlap /\ r \in Aborts) \/ \A q \in Reqs : ~InProgress(q)

\* A command is outstanding from its sending to its answer (_ws_command_lock).
CommandLockFree == \A r \in Reqs : pc[r] \notin {"sending", "sent", "stopSent"}

(***************************************************************************)
(* The pending GoTo                                                        *)
(***************************************************************************)

\* Setting the completion event wakes every slew task that waits for it.
Woken == [s \in Slews |-> IF tpc[s] = "waiting" THEN "woken" ELSE tpc[s]]

\* cancel_pending: the future of a GoTo command that awaits its answer.
GotoCancelled ==
    IF answer = "none" /\ \E s \in Slews : pc[s] = "sent" THEN "cancelled" ELSE answer

\* _resolve_goto: the record is kept on success only.
Resolve(how) ==
    \/ /\ pending
       /\ pending' = FALSE /\ oneClick' = FALSE /\ result' = how
       /\ target' = IF how = "success" THEN target ELSE None
       /\ tpc' = Woken
       /\ answer' = GotoCancelled
    \/ ~pending /\ UNCHANGED <<gotoVars, tpc, answer>>

\* _cancel_goto, _clear_goto
CancelGoto ==
    \/ pending /\ Resolve("failed")
    \/ /\ ~pending
       /\ target' = None
       /\ tpc' = IF target = None THEN tpc ELSE Woken
       /\ UNCHANGED <<pending, oneClick, result, answer>>

\* _record_goto and _mark_goto_pending: what was pending is superseded, and that
\* drops the record just made.
MarkPending(s, clicked) ==
    /\ target' = IF pending THEN None ELSE s
    /\ pending' = TRUE /\ result' = "none" /\ oneClick' = clicked

(***************************************************************************)
(* The slew task of the router                                             *)
(***************************************************************************)

\* The end of _complete_hardware_slew.
Report(s) ==
    /\ position' = IF result = "success" THEN s ELSE position
    /\ slewing' = FALSE /\ rate' = FALSE /\ task' = None

TaskReports(s) ==
    /\ tpc[s] = "woken"
    /\ tpc' = [tpc EXCEPT ![s] = "ended"]
    /\ Report(s)
    /\ UNCHANGED <<connected, gotoVars, entry, reqVars, answer, deviceVars, linkVars>>

\* Mutant of TaskTimesOut: Slewing is left to the next notification.
TaskTimesOutSlewing(s) ==
    /\ tpc[s] = "waiting"
    /\ tpc' = [tpc EXCEPT ![s] = "ended"]
    /\ task' = None
    /\ UNCHANGED <<connected, slewing, rate, position, gotoVars, entry, reqVars, answer,
                   deviceVars, linkVars>>

\* The wait for completion times out; the GoTo remains pending.
TaskTimesOut(s) ==
    /\ tpc[s] = "waiting"
    /\ tpc' = [tpc EXCEPT ![s] = "ended"]
    /\ slewing' = FALSE /\ rate' = FALSE /\ task' = None
    /\ UNCHANGED <<connected, position, gotoVars, entry, reqVars, answer, deviceVars, linkVars>>

\* The task is cancelled and awaited.  One that the event has woken already
\* reports nonetheless before Python 3.12, whose wait_for no longer hides the
\* cancellation.
TaskCancelled ==
    \/ /\ TaskLive
       /\ tpc' = [tpc EXCEPT ![task] = "ended"]
       /\ position' \in {position, IF tpc[task] = "woken" /\ result = "success"
                                   THEN task ELSE position}
    \/ /\ ~TaskLive
       /\ UNCHANGED <<tpc, position>>

\* The new task takes the place of the one that is there, which may still say
\* that it ended, though not how: the result has just been reset.
StartTask(s) ==
    LET before == IF pending THEN Woken ELSE tpc
    IN  /\ tpc' = [t \in Slews |-> IF t = s THEN "waiting"
                                   ELSE IF TaskLive /\ t = task THEN "ended" ELSE before[t]]
        /\ slewing' \in {slewing, slewing /\ ~(TaskLive /\ before[task] = "woken")}
        /\ task' = s /\ rate' = FALSE
        /\ UNCHANGED <<connected, position>>
        /\ Move(s, "done")

(***************************************************************************)
(* SlewToCoordinatesAsync                                                  *)
(***************************************************************************)

Slew(s) ==
    /\ MayAsk(s) /\ connected /\ ~slewing
    /\ slewing' = TRUE
    /\ Move(s, "begun")
    /\ UNCHANGED <<connected, rate, task, tpc, position, gotoVars, entry, kind, retried, answer,
                   deviceVars, linkVars>>

\* The socket is ensured, manual motion halted and the kind of GoTo chosen.
Choose(s) ==
    /\ pc[s] = "begun"
    /\ \/ kind' = [kind EXCEPT ![s] = "goto"] /\ Move(s, "ready")
       \/ kind' = [kind EXCEPT ![s] = "oneClick"] /\ Move(s, "preparing")
    /\ UNCHANGED <<routerVars, gotoVars, entry, retried, answer, deviceVars, linkVars>>

\* Autofocus, mode switch and camera are done, each an answered command, so what
\* the device had sent before has arrived; _start_one_click_goto_command raises
\* its flag before it waits for the command lock.
Prepared(s) ==
    /\ pc[s] = "preparing" /\ CommandLockFree
    /\ wire = <<>>
    /\ oneClick' = TRUE
    /\ Move(s, "ready")
    /\ UNCHANGED <<routerVars, pending, result, target, entry, kind, retried, answer, deviceVars,
                   linkVars>>

\* The router answers a refusal by the device and a timeout with Slewing false.
Reject(s) ==
    /\ slewing' = FALSE /\ rate' = FALSE
    /\ Move(s, "failed")
    /\ UNCHANGED <<connected, task, tpc, position>>

\* Any other exception passes through it, and Slewing stays true.
Escape(s) == Move(s, "escaped") /\ UNCHANGED routerVars

PrepareFails(s) ==
    /\ pc[s] \in {"begun", "preparing", "ready"}
    /\ Reject(s) \/ Escape(s)
    /\ oneClick' = (oneClick /\ ~(pc[s] = "ready" /\ kind[s] = "oneClick"))
    /\ UNCHANGED <<pending, result, target, entry, kind, retried, answer, deviceVars, linkVars>>

Sends(r, what) ==
    /\ CommandLockFree /\ Len(inbox) < MaxWire
    /\ inbox' = Append(inbox, [what |-> what, req |-> r])
    /\ answer' = "none"
    /\ UNCHANGED wire

\* Mutant of SendGoto: pending once it is sent, as the one-click GoTo is.
SendGotoPending(s) ==
    /\ pc[s] = "ready" /\ kind[s] = "goto"
    /\ Sends(s, "goto")
    /\ MarkPending(s, FALSE)
    /\ StartTask(s)
    /\ UNCHANGED <<entry, kind, retried, deviceVars>>

SendGoto(s) ==
    /\ pc[s] = "ready" /\ kind[s] = "goto"
    /\ Sends(s, "goto")
    /\ Move(s, "sent")
    /\ UNCHANGED <<routerVars, gotoVars, entry, kind, retried, deviceVars>>

\* The device has accepted the GoTo: only now is it pending.
GotoAccepted(s) ==
    /\ pc[s] = "sent" /\ answer = "ok"
    /\ MarkPending(s, FALSE)
    /\ StartTask(s)
    /\ UNCHANGED <<entry, kind, retried, deviceVars, linkVars>>
    /\ answer' = "none"

\* The firmware wants a calibration: the one-click GoTo instead.
FallBack(s) ==
    /\ pc[s] = "sent" /\ answer = "needCalibration" /\ s \notin retried
    /\ kind' = [kind EXCEPT ![s] = "oneClick"]
    /\ Move(s, "preparing")
    /\ UNCHANGED <<routerVars, gotoVars, entry, retried, deviceVars, linkVars>>
    /\ answer' = "none"

\* It fails: once, after a busy device, an abort and a retry; else for good.
GotoFails(s) ==
    /\ pc[s] = "sent"
    /\ \/ answer \in {"refused", "timeout"} /\ Reject(s)
       \/ answer \in {"busy", "needCalibration"} /\ s \in retried /\ Reject(s)
       \/ answer \in {"lost", "cancelled"} /\ Escape(s)
    /\ UNCHANGED <<gotoVars, entry, kind, retried, deviceVars, linkVars>>
    /\ answer' = "none"

\* begin_request refuses a second one-click command while one is registered.
BeginOneClick(s) ==
    /\ pc[s] = "ready" /\ kind[s] = "oneClick"
    /\ \/ /\ entry = None
          /\ entry' = s
          /\ Sends(s, "click")
          /\ Move(s, "sending")
          /\ UNCHANGED <<routerVars, oneClick>>
       \/ /\ entry # None /\ CommandLockFree
          /\ oneClick' = FALSE
          /\ Escape(s)
          /\ UNCHANGED <<entry, answer, linkVars>>
    /\ UNCHANGED <<pending, result, target, kind, retried, deviceVars>>

\* It is sent and not yet acknowledged, and pending at once.
OneClickBegun(s) ==
    /\ pc[s] = "sending"
    /\ \/ /\ answer # "lost"
          /\ MarkPending(s, TRUE)
          /\ StartTask(s)
       \/ /\ answer = "lost"
          /\ oneClick' = FALSE
          /\ Escape(s)
          /\ UNCHANGED <<pending, result, target>>
    /\ UNCHANGED <<entry, kind, retried, deviceVars, linkVars>>
    /\ answer' = "none"

\* The monitor gives up on the response.
MonitorTimesOut ==
    /\ entry # None
    /\ entry' = None
    /\ \/ oneClick /\ Resolve("failed")
       \/ ~oneClick /\ UNCHANGED <<gotoVars, tpc, answer>>
    /\ UNCHANGED <<connected, slewing, rate, task, position, reqVars, deviceVars, linkVars>>

(***************************************************************************)
(* telescope_abort_slew, for AbortSlew and for the retry of a slew          *)
(***************************************************************************)

StopBegin(r) ==
    /\ CancelGoto
    /\ Move(r, "stopping")
    /\ entry' = IF oneClick THEN None ELSE entry

Abort(r) ==
    /\ r \in Aborts /\ MayAsk(r)
    /\ StopBegin(r)
    /\ UNCHANGED <<connected, slewing, rate, task, position, kind, retried, deviceVars, linkVars>>

Retry(s) ==
    /\ pc[s] = "sent" /\ answer = "busy" /\ s \notin retried
    /\ retried' = retried \cup {s}
    /\ StopBegin(s)
    /\ UNCHANGED <<connected, slewing, rate, task, position, kind, deviceVars, linkVars>>

\* Mutant of SendStop: the stop is sent and not waited for.
SendStopOnly(r) ==
    /\ pc[r] = "stopping" /\ r \in Aborts
    /\ Sends(r, "stop")
    /\ Move(r, "done")
    /\ TaskCancelled
    /\ task' = None /\ slewing' = FALSE /\ rate' = FALSE
    /\ UNCHANGED <<connected, gotoVars, entry, kind, retried, deviceVars>>

SendStop(r) ==
    /\ pc[r] = "stopping"
    /\ Sends(r, "stop")
    /\ Move(r, "stopSent")
    /\ UNCHANGED <<routerVars, gotoVars, entry, kind, retried, deviceVars>>

\* Mutant of Stopped: the slew task is cancelled, and Slewing left to it.
StoppedSlewing(r) ==
    /\ pc[r] = "stopSent" /\ answer = "ok"
    /\ \/ r \in Slews /\ Move(r, "ready") /\ UNCHANGED routerVars
       \/ /\ r \in Aborts /\ Move(r, "done")
          /\ TaskCancelled
          /\ task' = None
          /\ UNCHANGED <<connected, slewing, rate>>
    /\ UNCHANGED <<gotoVars, entry, kind, retried, deviceVars, linkVars>>
    /\ answer' = "none"

\* The mount has stopped: the slew goes on to its second attempt, the router
\* ends the slew task.
Stopped(r) ==
    /\ pc[r] = "stopSent" /\ answer = "ok"
    /\ \/ r \in Slews /\ Move(r, "ready") /\ UNCHANGED routerVars
       \/ /\ r \in Aborts /\ Move(r, "done")
          /\ TaskCancelled
          /\ task' = None /\ slewing' = FALSE /\ rate' = FALSE
          /\ UNCHANGED connected
    /\ UNCHANGED <<gotoVars, entry, kind, retried, deviceVars, linkVars>>
    /\ answer' = "none"

StopFails(r) ==
    /\ \/ pc[r] = "stopping"
       \/ pc[r] = "stopSent" /\ answer \in {"refused", "timeout", "lost"}
    /\ \/ r \in Slews /\ (Reject(r) \/ Escape(r))
       \/ r \in Aborts /\ Move(r, "failed") /\ UNCHANGED routerVars
    /\ UNCHANGED <<gotoVars, entry, kind, retried, deviceVars, linkVars>>
    /\ answer' = IF pc[r] = "stopSent" THEN "none" ELSE answer

(***************************************************************************)
(* The other requests of the telescope router                              *)
(***************************************************************************)

\* MoveAxis ends the slew task and sets Slewing to whether an axis moves.  The
\* session's GoTo stays pending.  (Its motor command is in module Motion.)
MoveAxis(r) ==
    /\ r \in Others /\ MayAsk(r) /\ connected
    /\ TaskCancelled
    /\ task' = None
    /\ rate' \in BOOLEAN /\ slewing' = rate'
    /\ Move(r, "done")
    /\ UNCHANGED <<connected, gotoVars, entry, kind, retried, answer, deviceVars, linkVars>>

\* Connected = False, and True again.
PutConnected(r) ==
    /\ r \in Others /\ MayAsk(r)
    /\ connected' = ~connected
    /\ \/ /\ connected
          /\ TaskCancelled
          /\ task' = None /\ slewing' = FALSE /\ rate' = FALSE
       \/ ~connected /\ UNCHANGED <<task, tpc, position, slewing, rate>>
    /\ Move(r, "done")
    /\ UNCHANGED <<gotoVars, entry, kind, retried, answer, deviceVars, linkVars>>

(***************************************************************************)
(* The link                                                                *)
(***************************************************************************)

Outstanding(r) == pc[r] \in {"sending", "sent", "stopSent"} /\ answer = "none"

\* The websocket is lost: what was under way in either direction, and what the
\* monitor was waiting for.  A command that awaits its answer gets this one.
LinkLost(how) ==
    /\ inbox' = <<>> /\ wire' = <<>> /\ entry' = None
    /\ IF entry # None /\ oneClick /\ pending
       THEN /\ pending' = FALSE /\ oneClick' = FALSE /\ result' = "failed"
            /\ target' = None /\ tpc' = Woken
       ELSE UNCHANGED <<gotoVars, tpc>>
    /\ answer' = how
    /\ UNCHANGED <<connected, slewing, rate, task, position, reqVars, deviceVars>>

Drop ==
    /\ inbox # <<>> \/ wire # <<>> \/ entry # None
    /\ LinkLost(IF \E r \in Reqs : Outstanding(r) THEN "lost" ELSE answer)

\* The wait for an answer times out, and the session closes the websocket.
Expire(r) ==
    /\ pc[r] \in {"sent", "stopSent"} /\ answer = "none"
    /\ LinkLost("timeout")

\* _dispatch_packet.  Neither notification says whose it is.
TakesTracking == pending /\ target # None
TakesEnvelope == pending /\ oneClick

Notified(m) ==
    IF \/ m.what = "tracking" /\ TakesTracking
       \/ m.what = "envelope" /\ TakesEnvelope
    THEN Resolve("success")
    ELSE UNCHANGED <<gotoVars, tpc, answer>>

Receive ==
    /\ wire # <<>>
    /\ wire' = Tail(wire)
    /\ LET m == Head(wire) IN
       \/ /\ m.what = "ack"
          /\ answer' = IF Outstanding(m.req) THEN m.code ELSE answer
          /\ UNCHANGED <<gotoVars, tpc, entry>>
       \/ /\ m.what \in {"tracking", "envelope"}
          /\ Notified(m)
          /\ UNCHANGED entry
       \/ /\ m.what = "click"
          /\ entry' = IF entry = m.req THEN None ELSE entry
          /\ IF entry = m.req /\ m.code # "ok" /\ oneClick
             THEN Resolve("failed")
             ELSE UNCHANGED <<gotoVars, tpc, answer>>
    /\ UNCHANGED <<connected, slewing, rate, task, position, reqVars, deviceVars, inbox>>

(***************************************************************************)
(* The device                                                              *)
(***************************************************************************)

Ack(r, code) == [what |-> "ack", req |-> r, code |-> code]
Click(s, code) == [what |-> "click", req |-> s, code |-> code]
Note(what) == [what |-> what]

Execute ==
    /\ inbox # <<>> /\ Len(wire) < MaxWire
    /\ inbox' = Tail(inbox)
    /\ LET c == Head(inbox) IN
       \/ /\ c.what = "goto"
          /\ \/ device' = [doing |-> "moving", slew |-> c.req] /\ wire' = Append(wire, Ack(c.req, "ok"))
             \/ \E code \in Codes : wire' = Append(wire, Ack(c.req, code)) /\ UNCHANGED device
       \/ /\ c.what = "click"
          /\ \/ device' = [doing |-> "moving", slew |-> c.req] /\ UNCHANGED wire
             \/ wire' = Append(wire, Click(c.req, "refused")) /\ UNCHANGED device
       \/ /\ c.what = "stop"
          /\ \/ device' = [device EXCEPT !.doing = "rest"] /\ wire' = Append(wire, Ack(c.req, "ok"))
             \/ wire' = Append(wire, Ack(c.req, "refused")) /\ UNCHANGED device
    /\ UNCHANGED <<routerVars, gotoVars, entry, reqVars, answer, reached>>

\* The mount is at its target and tracks: both kinds of GoTo report it, the
\* one-click GoTo in either of two notifications and then in its response.
Arrive ==
    /\ device.doing = "moving" /\ Len(wire) < MaxWire
    /\ device' = [device EXCEPT !.doing = "tracking"]
    /\ reached' = reached \cup {device.slew}
    /\ \/ kind[device.slew] = "goto" /\ wire' = Append(wire, Note("tracking"))
       \/ /\ kind[device.slew] = "oneClick"
          /\ \E n \in {"tracking", "envelope"} :
                wire' = wire \o <<Note(n), Click(device.slew, "ok")>>
    /\ UNCHANGED <<routerVars, gotoVars, entry, reqVars, answer, inbox>>

\* It gives up.  A plain GoTo has been acknowledged: nothing more is said.
GiveUp ==
    /\ device.doing = "moving" /\ Len(wire) < MaxWire
    /\ device' = [device EXCEPT !.doing = "rest"]
    /\ wire' = IF kind[device.slew] = "goto" THEN wire
               ELSE Append(wire, Click(device.slew, "refused"))
    /\ UNCHANGED <<routerVars, gotoVars, entry, reqVars, answer, reached, inbox>>

(***************************************************************************)
(* Specification                                                           *)
(***************************************************************************)

SlewStep(s) ==
    \/ Choose(s) \/ Prepared(s) \/ PrepareFails(s)
    \/ SendGoto(s) \/ GotoAccepted(s) \/ FallBack(s) \/ GotoFails(s)
    \/ BeginOneClick(s) \/ OneClickBegun(s) \/ Retry(s)
StopStep(r) == SendStop(r) \/ Stopped(r) \/ StopFails(r) \/ Expire(r)
TaskStep(s) == TaskReports(s) \/ TaskTimesOut(s)
Request ==
    \/ \E s \in Slews : Slew(s)
    \/ \E r \in Aborts : Abort(r)
    \/ \E r \in Others : MoveAxis(r) \/ PutConnected(r)
Device == Execute \/ Arrive \/ GiveUp

Next ==
    \/ Request
    \/ \E s \in Slews : SlewStep(s) \/ TaskStep(s)
    \/ \E r \in Reqs : StopStep(r)
    \/ MonitorTimesOut \/ Receive \/ Drop \/ Device

Spec == Init /\ [][Next]_vars

\* The event loop runs every coroutine that can run, reads what has arrived,
\* and every wait has a timeout.  Of the device only that it takes its commands.
FairSpec ==
    /\ Spec
    /\ WF_vars(Receive) /\ WF_vars(Execute)
    /\ \A s \in Slews : WF_vars(SlewStep(s)) /\ WF_vars(TaskStep(s))
    /\ \A r \in Reqs : WF_vars(StopStep(r))

(***************************************************************************)
(* Properties                                                              *)
(***************************************************************************)

\* The position that is reported after a plain GoTo is one the mount reached.
\* A notification does not say whose it is (session.py:1880); what keeps that of
\* an earlier GoTo from ending this one is that this one is pending only once its
\* acknowledgement, which the device sends after it, has been read.
ReportedIsReached ==
    position # None /\ kind[position] = "goto" => position \in reached

\* A GoTo that is recorded and no longer pending, which is what allows a light
\* frame to be taken (session.py:3597), was reached, unless the mount has taken a
\* later GoTo whose acknowledgement the session has not acted on.
RecordIsReached ==
    target # None /\ ~pending /\ kind[target] = "goto" =>
        target \in reached \/ device.slew # target

\* What the session and the router say was reached, was.
SaysReached == ReportedIsReached /\ RecordIsReached

\* Slewing reads true only while somebody is there to end it: a request, a slew
\* task or a motion by hand; a slew that ended in an exception the router does not
\* map (telescope.py:443) is the exception here too.
SlewingHasOwner ==
    slewing => \/ rate
               \/ \E r \in Reqs : InProgress(r) \/ pc[r] = "escaped"
               \/ TaskLive

\* Every variable has its type, and Slewing somebody to end it.
Inv == TypeOK /\ SlewingHasOwner

\* An AbortSlew that returns without an error leaves the mount at rest, with no
\* GoTo pending and none on its way to the device.
AbortStops ==
    [][\A r \in Aborts : pc[r] # "done" /\ pc'[r] = "done" =>
          device'.doing # "moving" /\ inbox' = <<>> /\ ~pending' /\ ~slewing']_vars

\* Slewing ends, whether the mount arrives or not.
SlewingEnds == slewing ~> (~slewing \/ rate \/ \E s \in Slews : pc[s] = "escaped")
=============================================================================
