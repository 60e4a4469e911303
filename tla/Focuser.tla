------------------------------ MODULE Focuser ------------------------------
(***************************************************************************)
(* The focuser: Move, MoveAbsolute, Halt and Connected of the router          *)
(* (devices/focuser.py), the session's focuser_move with its single steps,   *)
(* its continuous motion up to a deadline and the nudge into the tolerance,  *)
(* and the notifications that tell the position (dwarf/session.py).          *)
(*                                                                         *)
(* The motor steps or runs until it is stopped, and reports each step in     *)
(* order, at once or late.  Lengths of waits are left out: an update that is *)
(* waited for comes or the wait times out.  Left out too: the simulator, the  *)
(* router's refusal of positions outside the range, and its own copies of    *)
(* position, isMoving and connected, which every request refreshes.          *)
(***************************************************************************)
EXTENDS Integers, Sequences

CONSTANTS
    NumMoves,   \* bound: Move and MoveAbsolute requests
    Others,     \* Halt and Connected requests
    MaxStep,    \* the last position, 20000 in the code
    Near,       \* the distance stepped singly, 10 in the code
    Tolerance,  \* focuser_target_tolerance_steps
    MaxNudges,  \* the steps of a nudge, 60 in the code
    MaxNotes,   \* bound: notifications under way
    Mini,       \* the device is a DWARF mini, which is always stepped singly
    None

Moves == 1..NumMoves   \* as they come
Reqs == Moves \cup Others
Positions == 0..MaxStep

ASSUME FocuserAssumption ==
    /\ NumMoves \in Nat /\ Moves \cap Others = {}
    /\ MaxStep \in Nat /\ Near \in Nat /\ Tolerance \in Nat /\ MaxNudges \in Nat
    /\ MaxNotes \in Nat
    /\ Mini \in BOOLEAN
    /\ None \notin Reqs

VARIABLES
    connected,  \* FocuserState.connected of the session
    position,   \* FocuserState.position
    isMoving,   \* FocuserState.is_moving
    event,      \* _focus_update_event
    pc,         \* where each request is
    goal,       \* the target of each move
    dir,        \* its direction
    left,       \* the steps, or nudges, it may still make
    got,        \* received_update
    cmd,        \* the command that is outstanding
    lens,       \* the motor: where the lens is
    motor,      \* the motor: the direction it runs in, 0 at rest
    notes,      \* the positions it reported that are not yet read
    unsure,     \* history: a start or a stop of the motor had no good answer
    clean       \* history: the move that is undisturbed so far, or None

stateVars  == <<connected, position, isMoving>>
moveVars   == <<goal, dir, left, got>>
deviceVars == <<lens, motor, notes>>
history    == <<unsure, clean>>
vars == <<stateVars, event, pc, moveVars, cmd, deviceVars, history>>

Places == {"idle", "begun",
           "step", "stepping", "stepped",            \* single steps
           "start", "starting", "running",           \* continuous motion
           "stop", "stopping", "settling",
           "nudge", "nudging", "nudged",
           "halt", "halting", "leave", "leaving", "query", "querying", "done", "failed", "escaped"}
Awaiting == {"stepping", "starting", "stopping", "nudging"}
InProgress(r) == pc[r] \notin {"idle", "done", "failed", "escaped"}
Commands == [req : Reqs, what : {"step", "start", "stop", "query"}, dir : {-1, 0, 1}]

TypeOK ==
    /\ connected \in BOOLEAN
    /\ position \in Positions /\ isMoving \in BOOLEAN
    /\ event \in BOOLEAN
    /\ pc \in [Reqs -> Places]
    /\ goal \in [Moves -> Positions] /\ dir \in [Moves -> {-1, 0, 1}]
    /\ left \in [Moves -> Nat] /\ got \in [Moves -> BOOLEAN]
    /\ cmd \in Commands \cup {None}
    /\ lens \in Positions /\ motor \in {-1, 0, 1}
    /\ notes \in Seq(Positions)
    /\ unsure \in BOOLEAN /\ clean \in Moves \cup {None}

Init ==
    /\ connected \in BOOLEAN
    /\ position = 0 /\ isMoving = FALSE /\ event = FALSE
    /\ pc = [r \in Reqs |-> "idle"]
    /\ goal = [m \in Moves |-> 0] /\ dir = [m \in Moves |-> 0]
    /\ left = [m \in Moves |-> 0] /\ got = [m \in Moves |-> FALSE]
    /\ cmd = None
    /\ lens \in {0, MaxStep} /\ motor = 0 /\ notes = <<>>
    /\ unsure = FALSE /\ clean = None

Abs(n) == IF n < 0 THEN -n ELSE n
Sign(n) == IF n < 0 THEN -1 ELSE 1

Clamp(n) == IF n < 0 THEN 0 ELSE IF n > MaxStep THEN MaxStep ELSE n

At(r, place) == pc' = [pc EXCEPT ![r] = place]

\* A move ends, and its locals with it.
Over(m, place) ==
    /\ At(m, place)
    /\ goal' = [goal EXCEPT ![m] = 0] /\ dir' = [dir EXCEPT ![m] = 0]
    /\ left' = [left EXCEPT ![m] = 0] /\ got' = [got EXCEPT ![m] = FALSE]
Single(m) == Mini \/ Abs(goal[m] - position) <= Near
Reached(m, at) == IF dir[m] > 0 THEN at >= goal[m] ELSE at <= goal[m]

(***************************************************************************)
(* Commands: one is outstanding at a time (_ws_command_lock)                *)
(***************************************************************************)

\* A move clears the event before it waits for the lock.
Sends(r, what, d) ==
    /\ cmd = None
    /\ cmd' = [req |-> r, what |-> what, dir |-> d]
    /\ event' \in IF r \notin Moves THEN {event}
                 ELSE IF \E q \in Reqs \ {r} : InProgress(q) THEN {FALSE, event}
                 ELSE {FALSE}

\* The motor obeys.
Obeys ==
    \/ /\ cmd.what = "step"
       /\ lens' = Clamp(lens + cmd.dir)
       /\ notes' = Append(notes, lens')
       /\ UNCHANGED motor
    \/ cmd.what = "start" /\ motor' = cmd.dir /\ UNCHANGED <<lens, notes>>
    \/ cmd.what = "stop" /\ motor' = 0 /\ UNCHANGED <<lens, notes>>
    \/ cmd.what = "query" /\ UNCHANGED <<lens, motor, notes>>

\* The reports under way are lost with the socket.
Lost ==
    \/ lens' = lens /\ motor' = motor
    \/ cmd.what = "step" /\ lens' = Clamp(lens + cmd.dir) /\ motor' = motor
    \/ cmd.what = "start" /\ lens' = lens /\ motor' = cmd.dir
    \/ cmd.what = "stop" /\ lens' = lens /\ motor' = 0

Ok(r) ==
    /\ cmd # None /\ cmd.req = r
    /\ Len(notes) < MaxNotes
    /\ Obeys
    /\ cmd' = None
    /\ unsure' = (unsure /\ cmd.what # "stop")
    /\ UNCHANGED clean

\* Refused, or no answer: the motor did as it was told or it did not.
Bad(r) ==
    /\ cmd # None /\ cmd.req = r
    /\ \/ UNCHANGED deviceVars
       \/ Lost /\ notes' = <<>>
    /\ cmd' = None
    /\ unsure' = (unsure \/ cmd.what \in {"start", "stop"})
    /\ clean' = None

(***************************************************************************)
(* focuser_move                                                            *)
(***************************************************************************)

\* The client moves the focuser while IsMoving reads false.
Move(m) ==
    /\ pc[m] = "idle" /\ \A n \in Moves : n < m => pc[n] # "idle"
    /\ connected /\ ~isMoving
    /\ \E target \in Positions \ {position} :
          /\ goal' = [goal EXCEPT ![m] = target]
          /\ dir' = [dir EXCEPT ![m] = Sign(target - position)]
          /\ left' = [left EXCEPT ![m] = Abs(target - position)]
    /\ isMoving' = TRUE
    /\ At(m, "begun")
    /\ clean' = IF /\ \A r \in Reqs : ~InProgress(r)
                   /\ position = lens /\ notes = <<>> /\ motor = 0
                THEN m ELSE None
    /\ UNCHANGED <<connected, position, event, got, cmd, deviceVars, unsure>>

Ensured(m) ==
    /\ pc[m] = "begun"
    /\ At(m, IF Single(m) THEN "step" ELSE "start")
    /\ UNCHANGED <<stateVars, event, moveVars, cmd, deviceVars, history>>

\* The socket cannot be opened: the exception is raised outside of the try
\* (session.py:6879), and IsMoving stays true.
EnsureFails(m) ==
    /\ pc[m] = "begun"
    /\ Over(m, "escaped")
    /\ clean' = None
    /\ UNCHANGED <<stateVars, event, cmd, deviceVars, unsure>>

Begin(m, from, what, d, to) ==
    /\ pc[m] = from
    /\ Sends(m, what, d)
    /\ At(m, to)
    /\ UNCHANGED <<stateVars, moveVars, deviceVars, history>>

SendStep(m) == Begin(m, "step", "step", dir[m], "stepping")
SendStart(m) == Begin(m, "start", "start", dir[m], "starting")
SendStop(m) == Begin(m, "stop", "stop", 0, "stopping")

CommandOk(m) ==
    /\ Ok(m)
    /\ At(m, CASE pc[m] = "stepping" -> "stepped"
               [] pc[m] = "starting" -> "running"
               [] pc[m] = "stopping" -> "settling"
               [] pc[m] = "nudging"  -> "nudged")
    /\ UNCHANGED <<stateVars, event, moveVars>>

MoveFails(m) ==
    /\ pc[m] \in Awaiting \ {"nudging"}
    /\ Bad(m)
    /\ Over(m, "failed")
    /\ isMoving' = FALSE
    /\ UNCHANGED <<connected, position, event>>

Finish(m) ==
    /\ Over(m, "done")
    /\ isMoving' = FALSE

\* A single step was reported, or is assumed after the wait for it.
Stepped(m) ==
    /\ pc[m] = "stepped"
    /\ \/ event /\ position' = position /\ UNCHANGED clean
       \/ ~event /\ position' = Clamp(position + dir[m]) /\ clean' = None
    /\ event' = FALSE
    /\ IF Reached(m, position') \/ left[m] = 1
       THEN Finish(m)
       ELSE /\ At(m, "step")
            /\ left' = [left EXCEPT ![m] = @ - 1] /\ got' = [got EXCEPT ![m] = TRUE]
            /\ UNCHANGED <<isMoving, goal, dir>>
    /\ UNCHANGED <<connected, cmd, deviceVars, unsure>>

\* An update of the continuous motion; the motor is stopped at the target.
Update(m) ==
    /\ pc[m] = "running" /\ event
    /\ event' = FALSE
    /\ got' = [got EXCEPT ![m] = TRUE]
    /\ IF Reached(m, position) THEN At(m, "stop") ELSE UNCHANGED pc
    /\ UNCHANGED <<stateVars, goal, dir, left, cmd, deviceVars, history>>

\* Mutant of Deadline: the motion that is given up is not stopped.
DeadlineRunsOn(m) ==
    /\ pc[m] = "running"
    /\ Finish(m)
    /\ UNCHANGED <<connected, position, event, cmd, deviceVars, history>>

\* Mutant of Deadline: it is looked at when an update has come.
DeadlineOnUpdate(m) ==
    /\ pc[m] = "running" /\ event
    /\ At(m, "stop")
    /\ UNCHANGED <<stateVars, event, moveVars, cmd, deviceVars, history>>

Deadline(m) ==
    /\ pc[m] = "running"
    /\ At(m, "stop")
    /\ UNCHANGED <<stateVars, event, moveVars, cmd, deviceVars, history>>

\* Mutant of Settled: where the motion ended is not looked at.
SettledAnywhere(m) ==
    /\ pc[m] = "settling"
    /\ event' = FALSE
    /\ Finish(m)
    /\ UNCHANGED <<connected, position, cmd, deviceVars, history>>

\* The motor has stopped and one more update was waited for.  The target is
\* taken for the position if nothing was reported; a nudge may be needed.
Settled(m) ==
    /\ pc[m] = "settling"
    /\ event' = FALSE
    /\ position' = IF got[m] \/ event THEN position ELSE goal[m]
    /\ clean' = IF got[m] \/ event THEN clean ELSE None
    /\ IF Tolerance > 0 /\ Abs(goal[m] - position') > Tolerance
       THEN /\ At(m, "nudge")
            /\ left' = [left EXCEPT ![m] = MaxNudges]
            /\ UNCHANGED <<isMoving, goal, dir, got>>
       ELSE Finish(m)
    /\ UNCHANGED <<connected, cmd, deviceVars, unsure>>

\* _focus_nudge_to_target
Nudge(m) ==
    /\ pc[m] = "nudge"
    /\ Abs(goal[m] - position) > Tolerance /\ left[m] > 0
    /\ Sends(m, "step", Sign(goal[m] - position))
    /\ dir' = [dir EXCEPT ![m] = cmd'.dir]
    /\ left' = [left EXCEPT ![m] = @ - 1]
    /\ At(m, "nudging")
    /\ UNCHANGED <<stateVars, goal, got, deviceVars, history>>

Nudged(m) ==
    /\ pc[m] = "nudged"
    /\ \/ event /\ UNCHANGED <<position, clean>>
       \/ ~event /\ position' = Clamp(position + dir[m]) /\ clean' = None
    /\ event' = FALSE
    /\ At(m, "nudge")
    /\ UNCHANGED <<connected, isMoving, moveVars, cmd, deviceVars, unsure>>

\* It is near enough, or the nudges are used up, or one fails: the move is done.
NudgeEnds(m) ==
    /\ \/ /\ pc[m] = "nudge" /\ Abs(goal[m] - position) <= Tolerance
          /\ UNCHANGED <<cmd, deviceVars, history>>
       \/ /\ pc[m] = "nudge" /\ left[m] = 0 /\ Abs(goal[m] - position) > Tolerance
          /\ clean' = None
          /\ UNCHANGED <<cmd, deviceVars, unsure>>
       \/ pc[m] = "nudging" /\ Bad(m)
    /\ Finish(m)
    /\ UNCHANGED <<connected, position, event>>

(***************************************************************************)
(* Halt and Connected                                                      *)
(***************************************************************************)

Ask(r, place) ==
    /\ pc[r] = "idle"
    /\ At(r, place)
    /\ clean' = None

Halt(r) ==
    /\ Ask(r, "halt")
    /\ UNCHANGED <<stateVars, event, moveVars, cmd, deviceVars, unsure>>

\* Connected is set only between the other requests.
Quiet == \A r \in Reqs : ~InProgress(r)

Disconnect(r) ==
    /\ Quiet /\ connected
    /\ Ask(r, "leave")
    /\ UNCHANGED <<stateVars, event, moveVars, cmd, deviceVars, unsure>>

Connect(r) ==
    /\ Quiet /\ ~connected
    /\ connected' = TRUE /\ isMoving' = FALSE
    /\ Ask(r, "query")
    /\ UNCHANGED <<position, event, moveVars, cmd, deviceVars, unsure>>

\* The socket is ensured and the command sent.
SendOther(r) ==
    /\ \/ pc[r] = "halt" /\ Sends(r, "stop", 0) /\ At(r, "halting")
       \/ pc[r] = "leave" /\ Sends(r, "stop", 0) /\ At(r, "leaving")
       \/ pc[r] = "query" /\ Sends(r, "query", 0) /\ At(r, "querying")
    /\ UNCHANGED <<stateVars, moveVars, deviceVars, history>>

\* The socket is not there.
OtherFails(r) ==
    /\ pc[r] \in {"halt", "leave", "query"}
    /\ At(r, "failed")
    /\ UNCHANGED <<stateVars, event, moveVars, cmd, deviceVars, history>>

\* IsMoving reads false whatever comes of it.
Halted(r) ==
    /\ pc[r] = "halting"
    /\ \/ Ok(r) /\ At(r, "done")
       \/ Bad(r) /\ At(r, "failed")
    /\ isMoving' = FALSE
    /\ UNCHANGED <<connected, position, event, moveVars>>

\* The failure of the stop is suppressed.
Disconnected(r) ==
    /\ pc[r] = "leaving"
    /\ Ok(r) \/ Bad(r)
    /\ connected' = FALSE /\ isMoving' = FALSE
    /\ At(r, "done")
    /\ UNCHANGED <<position, event, moveVars>>

\* The infinity position stored in the device is taken for the position.
Connected(r) ==
    /\ pc[r] = "querying"
    /\ \/ Ok(r) /\ position' \in Positions
       \/ Bad(r) /\ UNCHANGED position
    /\ At(r, "done")
    /\ UNCHANGED <<connected, isMoving, event, moveVars>>

(***************************************************************************)
(* The motor and its reports                                               *)
(***************************************************************************)

Run ==
    /\ motor # 0 /\ Len(notes) < MaxNotes
    /\ lens' = Clamp(lens + motor) /\ lens' # lens
    /\ notes' = Append(notes, lens')
    /\ UNCHANGED <<stateVars, event, pc, moveVars, cmd, motor, history>>

\* _handle_focus_notification
Notified ==
    /\ notes # <<>>
    /\ position' = Clamp(Head(notes))
    /\ notes' = Tail(notes)
    /\ connected' = TRUE /\ event' = TRUE
    /\ UNCHANGED <<isMoving, pc, moveVars, cmd, lens, motor, history>>

(***************************************************************************)
(* Specification                                                           *)
(***************************************************************************)

MoveStep(m) ==
    \/ Ensured(m) \/ EnsureFails(m) \/ MoveFails(m) \/ CommandOk(m)
    \/ SendStep(m) \/ Stepped(m)
    \/ SendStart(m) \/ Deadline(m) \/ SendStop(m) \/ Settled(m)
    \/ Nudge(m) \/ Nudged(m) \/ NudgeEnds(m)
OtherStep(r) ==
    SendOther(r) \/ OtherFails(r) \/ Halted(r) \/ Disconnected(r) \/ Connected(r)

Next ==
    \/ \E m \in Moves : Move(m) \/ MoveStep(m) \/ Update(m)
    \/ \E r \in Others : Halt(r) \/ Disconnect(r) \/ Connect(r) \/ OtherStep(r)
    \/ \/ Run \/ Notified

Spec == Init /\ [][Next]_vars

\* Every wait has a timeout, and the event loop runs what can run and reads what
\* has come; of the motor nothing is assumed.
FairSpec ==
    /\ Spec
    /\ \A m \in Moves : WF_vars(MoveStep(m))
    /\ \A r \in Others : WF_vars(OtherStep(r))
    /\ WF_vars(Notified)

(***************************************************************************)
(* Properties                                                              *)
(***************************************************************************)

\* The motor runs only for a request that will stop it, or after a start or a
\* stop that was refused or not answered.
RunningHasOwner ==
    motor # 0 => \/ unsure
                 \/ \E m \in Moves : pc[m] \in {"running", "stop", "stopping"}

\* IsMoving, which clients wait on, reads true only during a move, or after one
\* that found no socket.
MovingHasOwner == isMoving => \E m \in Moves : InProgress(m) \/ pc[m] = "escaped"

\* Every variable has its type; the motor, and IsMoving, have a move to end them.
Inv == TypeOK /\ RunningHasOwner /\ MovingHasOwner

\* A move that nothing disturbed, whose every wait for an update was answered and
\* that did not use up its nudges, has brought the lens, and not only the
\* position shown, to its target: exactly in single steps, within the tolerance
\* otherwise, once all reports are read.
MoveArrives ==
    [][\A m \in Moves :
          pc[m] # "done" /\ pc'[m] = "done" /\ clean' = m /\ notes' = <<>> =>
             Abs(lens' - goal[m]) <= IF pc[m] = "stepped" THEN 0 ELSE Tolerance]_vars

\* Every request returns.
RequestsReturn == \A r \in Reqs : InProgress(r) ~> ~InProgress(r)
=============================================================================
