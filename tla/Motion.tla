------------------------------- MODULE Motion -------------------------------
(***************************************************************************)
(* Moving the mount by hand: the telescope router's MoveAxis, AbortSlew and  *)
(* Connected = False (devices/telescope.py), the session's recorded rates,   *)
(* the joystick vector they make and the flag that a joystick command is in  *)
(* force (dwarf/session.py), and a mount that does what the last command it  *)
(* took says.  A GoTo begins with the same halt of both axes (Halt).         *)
(*                                                                         *)
(* A rate is zero or not; angle and length of the vector are the rates they  *)
(* are computed from.  Left out: the simulator; the slew itself and the rates *)
(* and the Slewing flag the router shows are in module Goto, whose names are  *)
(* not used here: MountProofs extends both.                                 *)
(***************************************************************************)
EXTENDS Integers, Sequences, FiniteSets, SequencesExt

CONSTANTS
    NumReqs,   \* bound: the requests of the telescope router
    Axes,      \* the axes, 0 and 1 in the code
    Rates      \* the rates that are not zero

\* The requests, numbered as they come.
Motions == 1..NumReqs

ASSUME MotionAssumption ==
    /\ IsFiniteSet(Axes) /\ Axes # {} /\ 0 \notin Rates
    /\ NumReqs \in Nat

VARIABLES
    rates,     \* _manual_axis_rates
    active,    \* _joystick_active
    stage,     \* where each request is
    call,      \* what it was asked, and the axes it has still to stop
    vector,    \* the joystick vector of the command it is about to send
    lock,      \* _ws_command_lock: its holder first, then those who wait
    moving,    \* the mount: the rate of each axis
    unsure,    \* history: a motion was sent whose answer never came
    stopped    \* history: the axes stopped since they were last moved, by a request
               \* that succeeded with no other under way

sessionVars == <<rates, active>>
motionVars == <<sessionVars, stage, call, vector, lock, moving, unsure, stopped>>

Rest == [a \in Axes |-> 0]
Vectors == [Axes -> Rates \cup {0}]
Ops == {"move", "stop", "halt", "disconnect", "abort"}
Stages == {"idle", "begun", "next", "queued", "sent", "ok", "refused", "lost", "done", "failed"}
UnderWay(r) == stage[r] \notin {"idle", "done", "failed"}

MotionTypeOK ==
    /\ rates \in Vectors /\ active \in BOOLEAN
    /\ stage \in [Motions -> Stages]
    /\ call \in [Motions -> [op : Ops, rate : Rates \cup {0}, axes : Seq(Axes)]]
    /\ vector \in [Motions -> Vectors]
    /\ lock \in Seq(Motions) /\ IsInjective(lock)
    /\ \A r \in Motions : stage[r] = "sent" => Head(lock) = r
    /\ moving \in Vectors
    /\ unsure \in BOOLEAN /\ stopped \subseteq Axes

NoCall == [op |-> "halt", rate |-> 0, axes |-> <<>>]

MotionInit ==
    /\ rates = Rest /\ active = FALSE
    /\ stage = [r \in Motions |-> "idle"]
    /\ call = [r \in Motions |-> NoCall]
    /\ vector = [r \in Motions |-> Rest]
    /\ lock = <<>>
    /\ moving = Rest
    /\ unsure = FALSE /\ stopped = {}

Enter(r, place) == stage' = [stage EXCEPT ![r] = place]
Finish(r, place) == Enter(r, place) /\ call' = [call EXCEPT ![r] = NoCall]
BothAxes == SetToSeq(Axes)

(***************************************************************************)
(* The requests                                                            *)
(***************************************************************************)

Asked(r, op, speed, axes) ==
    /\ stage[r] = "idle" /\ \A q \in 1..(r - 1) : stage[q] # "idle"
    /\ call' = [call EXCEPT ![r] = [op |-> op, rate |-> speed, axes |-> axes]]
    /\ Enter(r, "begun")
    /\ stopped' = stopped \ Range(axes)

MoveAxisAt(r, a, speed) ==
    /\ Asked(r, IF speed = 0 THEN "stop" ELSE "move", speed, <<a>>)
    /\ UNCHANGED <<sessionVars, vector, lock, moving, unsure>>

\* Connected = False, AbortSlew and the beginning of a slew stop both axes.
StopBoth(r, op) ==
    /\ Asked(r, op, 0, BothAxes)
    /\ UNCHANGED <<sessionVars, vector, lock, moving, unsure>>

\* The socket is there, control is held and, for AbortSlew, the command that
\* stops a slew was accepted.
Ensured(r) ==
    /\ stage[r] = "begun"
    /\ Enter(r, "next")
    /\ UNCHANGED <<sessionVars, call, vector, lock, moving, unsure, stopped>>

\* Connected = False ensures the socket for each axis and suppresses the failure.
EnsureFails(r) ==
    /\ \/ /\ call[r].op = "disconnect" /\ stage[r] \in {"begun", "next"} /\ call[r].axes # <<>>
          /\ call' = [call EXCEPT ![r].axes = Tail(@)]
          /\ Enter(r, "next")
       \/ call[r].op # "disconnect" /\ stage[r] = "begun" /\ Finish(r, "failed")
    /\ UNCHANGED <<sessionVars, vector, lock, moving, unsure, stopped>>

(***************************************************************************)
(* telescope_move_axis, telescope_stop_axis, _send_manual_vector            *)
(***************************************************************************)

\* The vector of the recorded rates joins the commands that wait to be sent.
SendVector(r) ==
    /\ vector' = [vector EXCEPT ![r] = rates']
    /\ lock' = Append(lock, r)
    /\ Enter(r, "queued")
    /\ UNCHANGED call

Axis(r) == Head(call[r].axes)

\* The axis is dealt with.
AxisDone(r) ==
    /\ call' = [call EXCEPT ![r].axes = Tail(@)]
    /\ stopped' = IF call[r].op # "move" /\ \A q \in Motions \ {r} : ~UnderWay(q)
                  THEN stopped \cup {Axis(r)} ELSE stopped

StartMotion(r) ==
    /\ stage[r] = "next" /\ call[r].op = "move" /\ call[r].axes # <<>>
    /\ rates' = [rates EXCEPT ![Axis(r)] = call[r].rate]
    /\ SendVector(r)
    /\ UNCHANGED <<active, moving, unsure, stopped>>

\* Mutant of NothingToStop: an axis without a rate is at rest.
NothingRecorded(r) == rates[Axis(r)] = 0 \/ (rates' = Rest /\ ~active)

\* No joystick command is in force, and none is needed for the other axis.
NothingToStop(r) == ~active /\ (rates[Axis(r)] = 0 \/ rates' = Rest)

\* The axis is stopped by the vector of what remains, the zero vector being a
\* stop, unless there is nothing to send.
StopAxis(r) ==
    /\ stage[r] = "next" /\ call[r].op # "move" /\ call[r].axes # <<>>
    /\ rates' = [rates EXCEPT ![Axis(r)] = 0]
    /\ \/ ~NothingToStop(r) /\ SendVector(r) /\ UNCHANGED stopped
       \/ NothingToStop(r) /\ AxisDone(r) /\ UNCHANGED <<stage, vector, lock>>
    /\ UNCHANGED <<active, moving, unsure>>

\* The first of the waiters has the command lock.
HoldsLock(r) == Head(lock) = r

Send(r) ==
    /\ stage[r] = "queued" /\ HoldsLock(r)
    /\ Enter(r, "sent")
    /\ UNCHANGED <<sessionVars, call, vector, lock, moving, unsure, stopped>>

(***************************************************************************)
(* The mount                                                               *)
(***************************************************************************)

\* The mount does what it is told, or refuses; or its answer is lost or late,
\* whether it did or not, and the command ends with the socket or the timeout.
Answer(r, how) ==
    /\ stage[r] = "sent"
    /\ \/ how = "ok" /\ moving' = vector[r]
       \/ how = "refused" /\ UNCHANGED moving
       \/ how = "lost" /\ moving' \in {moving, vector[r]}
    /\ unsure' = ((unsure \/ how = "lost") /\ ~(how = "ok" /\ vector[r] = Rest))
    /\ Enter(r, how)
    /\ UNCHANGED <<sessionVars, call, vector, lock, stopped>>

(***************************************************************************)
(* What the session and the router make of the answer                       *)
(***************************************************************************)

\* Mutant of Flag: the stop counts as done when it was sent.
FlagDropped(r) == vector[r] # Rest /\ (active \/ stage[r] = "ok")

\* _joystick_active: it changes when the command was accepted, and only then.
Flag(r) == IF stage[r] = "ok" THEN vector[r] # Rest ELSE active

\* An error ends MoveAxis; the halt of both axes suppresses it and goes on.
Failed(r) ==
    /\ \/ call[r].op \in {"move", "stop"} /\ Finish(r, "failed")
       \/ /\ call[r].op \notin {"move", "stop"} /\ Enter(r, "next")
          /\ call' = [call EXCEPT ![r].axes = Tail(@)]
    /\ UNCHANGED stopped

\* Mutant of Unlocked: a command that got no answer keeps the lock.
UnlockedIfAnswered(r) == IF stage[r] = "lost" THEN lock ELSE Tail(lock)

Unlocked(r) == Tail(lock)

Answered(r) ==
    /\ stage[r] \in {"ok", "refused", "lost"}
    /\ active' = Flag(r)
    /\ lock' = Unlocked(r)
    /\ vector' = [vector EXCEPT ![r] = Rest]
    /\ \/ stage[r] = "ok" /\ AxisDone(r) /\ Enter(r, "next")
       \/ stage[r] # "ok" /\ Failed(r)
    /\ UNCHANGED <<rates, moving, unsure>>

Return(r) ==
    /\ stage[r] = "next" /\ call[r].axes = <<>>
    /\ Finish(r, "done")
    /\ UNCHANGED <<sessionVars, vector, lock, moving, unsure, stopped>>

(***************************************************************************)
(* Specification                                                           *)
(***************************************************************************)

MotionRequest(r) ==
    \/ \E a \in Axes, speed \in Rates \cup {0} : MoveAxisAt(r, a, speed)
    \/ \E op \in {"halt", "disconnect", "abort"} : StopBoth(r, op)

Step(r) ==
    \/ Ensured(r) \/ EnsureFails(r)
    \/ StartMotion(r) \/ StopAxis(r) \/ Send(r)
    \/ \E how \in {"ok", "refused", "lost"} : Answer(r, how)
    \/ Answered(r) \/ Return(r)

MotionNext == \E r \in Motions : MotionRequest(r) \/ Step(r)

MotionSpec == MotionInit /\ [][MotionNext]_motionVars

\* The event loop runs what can run, and a command that gets no answer times out.
MotionFairSpec == MotionSpec /\ \A r \in Motions : WF_motionVars(Step(r))

(***************************************************************************)
(* Properties                                                              *)
(***************************************************************************)

\* While the mount moves by hand the session knows it: the flag without which a
\* stop sends nothing (session.py:2655, :2671) is down only if the answer of a
\* motion never came, or is yet to be read.
MotionIsSeen == moving # Rest => active \/ unsure \/ \E r \in Motions : stage[r] = "ok"

\* Every variable has its type, and a motion is seen.
MotionInv == MotionTypeOK /\ MotionIsSeen

\* An axis that was stopped, by MoveAxis at rate zero or by a halt of both axes,
\* stays at rest until it is asked to move again, whatever the other axis is
\* asked to do, unless the answer of a motion was lost before.
StoppedStays == \A a \in stopped : moving[a] = 0 \/ unsure

\* Every request returns, however the commands before it in the lock ended.
RequestsReturn == \A r \in Motions : UnderWay(r) ~> ~UnderWay(r)
=============================================================================
