---------------------------- MODULE FocuserProofs ----------------------------
(***************************************************************************)
(* Theorems about Focuser, for any moves, other requests, positions and        *)
(* tolerances, on either kind of device.                                    *)
(***************************************************************************)
EXTENDS Focuser, TLAPS

(***************************************************************************)
(* The parts of the invariant                                              *)
(***************************************************************************)

\* A move that steps singly has a step left to make.
LeftInv ==
    \A m \in Moves : pc[m] \in {"begun", "step", "stepping", "stepped"} => left[m] >= 1

\* The request whose command is outstanding waits for it, and knows what it sent.
CmdInv ==
    cmd # None =>
        \/ cmd.what = "step" /\ cmd.req \in Moves /\ pc[cmd.req] \in {"stepping", "nudging"}
        \/ cmd.what = "start" /\ cmd.req \in Moves /\ pc[cmd.req] = "starting"
        \/ cmd.what = "stop" /\ pc[cmd.req] \in {"stopping", "halting", "leaving"}
        \/ cmd.what = "query" /\ pc[cmd.req] = "querying"

\* A move is at no place of another request.
PlaceInv ==
    \A m \in Moves :
        pc[m] \notin {"halt", "halting", "leave", "leaving", "query", "querying"}

IInv == TypeOK /\ LeftInv /\ PlaceInv /\ CmdInv /\ RunningHasOwner /\ MovingHasOwner

\* A request waits for a command of the device.
Waits(r) == pc[r] \in Awaiting \cup {"halting", "leaving", "querying"}

(***************************************************************************)
(* Numbers                                                                 *)
(***************************************************************************)

\* A position that is clamped, the direction and the length of a move.
LEMMA ClampTypes ==
    ASSUME NEW n \in Int PROVE Clamp(n) \in Positions
  BY FocuserAssumption DEF Clamp, Positions

LEMMA SignTypes ==
    ASSUME NEW n \in Int
    PROVE  Sign(n) \in {-1, 1} /\ Abs(n) \in Nat /\ (n # 0 => Abs(n) >= 1)
  BY DEF Sign, Abs

\* Positions are whole numbers.
LEMMA PositionTypes == Positions \subseteq Int
  BY FocuserAssumption DEF Positions

(***************************************************************************)
(* Commands and their answers                                              *)
(***************************************************************************)

StateTypes ==
    connected \in BOOLEAN /\ position \in Positions /\ isMoving \in BOOLEAN /\ event \in BOOLEAN

MoveTypes ==
    /\ pc \in [Reqs -> Places] /\ goal \in [Moves -> Positions]
    /\ dir \in [Moves -> {-1, 0, 1}] /\ left \in [Moves -> Nat] /\ got \in [Moves -> BOOLEAN]

HistoryTypes ==
    cmd \in Commands \cup {None} /\ unsure \in BOOLEAN /\ clean \in Moves \cup {None}

DeviceTypes ==
    lens \in Positions /\ motor \in {-1, 0, 1} /\ notes \in Seq(Positions)

\* A move that ends.
LEMMA OverTypes ==
    ASSUME MoveTypes, NEW m \in Moves, NEW place \in Places, Over(m, place)
    PROVE  MoveTypes'
<1>1. m \in Reqs /\ 0 \in Positions
  BY FocuserAssumption DEF Reqs, Positions
<1> QED
  BY <1>1 DEF MoveTypes, Over, At

\* The motor obeys, or may have.
LEMMA ObeysTypes ==
    ASSUME TypeOK, cmd \in Commands, Obeys PROVE DeviceTypes'
<1>1. cmd.dir \in {-1, 0, 1} /\ lens \in Int
  BY PositionTypes DEF TypeOK, Commands
<1>2. Clamp(lens + cmd.dir) \in Positions
  BY <1>1, ClampTypes
<1>3. CASE lens' = Clamp(lens + cmd.dir) /\ notes' = Append(notes, lens') /\ UNCHANGED motor
  BY <1>2, <1>3 DEF TypeOK, DeviceTypes
<1>4. CASE motor' \in {cmd.dir, 0} /\ UNCHANGED <<lens, notes>>
  BY <1>1, <1>4 DEF TypeOK, DeviceTypes
<1>5. CASE UNCHANGED <<lens, motor, notes>>
  BY <1>5 DEF TypeOK, DeviceTypes
<1> QED
  BY <1>3, <1>4, <1>5 DEF Obeys

LEMMA LostTypes ==
    ASSUME TypeOK, cmd \in Commands, Lost, notes' = <<>> PROVE DeviceTypes'
<1>1. cmd.dir \in {-1, 0, 1} /\ lens \in Int
  BY PositionTypes DEF TypeOK, Commands
<1>2. Clamp(lens + cmd.dir) \in Positions
  BY <1>1, ClampTypes
<1> QED
  BY <1>1, <1>2 DEF TypeOK, Lost, DeviceTypes

\* After a good answer the motor runs only for the move that started it, or as
\* before.
LEMMA OkFacts ==
    ASSUME IInv, NEW r \in Reqs, Ok(r)
    PROVE  /\ Waits(r) /\ cmd' = None /\ DeviceTypes'
           /\ unsure' \in BOOLEAN /\ clean' = clean
           /\ \/ pc[r] \in {"stopping", "halting", "leaving"} /\ motor' = 0
              \/ pc[r] = "starting" /\ r \in Moves
              \/ /\ pc[r] \in {"stepping", "nudging", "querying"}
                 /\ motor' = motor /\ (unsure => unsure')
<1>1. cmd # None /\ cmd \in Commands /\ cmd.req = r
  BY DEF IInv, TypeOK, Ok
<1>2. DeviceTypes'
  BY <1>1, ObeysTypes DEF IInv, Ok
<1>3. unsure' \in BOOLEAN /\ clean' = clean /\ cmd' = None
  BY DEF IInv, TypeOK, Ok
<1>4. CASE cmd.what = "step" /\ pc[r] \in {"stepping", "nudging"}
  BY <1>2, <1>3, <1>4 DEF Ok, Obeys, Waits, Awaiting
<1>5. CASE cmd.what = "start" /\ r \in Moves /\ pc[r] = "starting"
  BY <1>2, <1>3, <1>5 DEF Waits, Awaiting
<1>6. CASE cmd.what = "stop" /\ pc[r] \in {"stopping", "halting", "leaving"}
  BY <1>2, <1>3, <1>6 DEF Ok, Obeys, Waits, Awaiting
<1>7. CASE cmd.what = "query" /\ pc[r] = "querying"
  BY <1>2, <1>3, <1>7 DEF Ok, Obeys, Waits, Awaiting
<1> QED
  BY <1>1, <1>4, <1>5, <1>6, <1>7 DEF IInv, CmdInv

\* After a bad one nothing is known of a motor that was to start or to stop.
LEMMA BadFacts ==
    ASSUME IInv, NEW r \in Reqs, Bad(r)
    PROVE  /\ Waits(r) /\ cmd' = None /\ DeviceTypes'
           /\ unsure' \in BOOLEAN /\ clean' = None
           /\ \/ unsure'
              \/ /\ pc[r] \in {"stepping", "nudging", "querying"}
                 /\ motor' = motor /\ (unsure => unsure')
<1>1. cmd # None /\ cmd \in Commands /\ cmd.req = r
  BY DEF IInv, TypeOK, Bad
<1>2. DeviceTypes'
  BY <1>1, LostTypes DEF IInv, TypeOK, Bad, DeviceTypes, deviceVars
<1>3. unsure' \in BOOLEAN /\ clean' = None /\ cmd' = None
  BY DEF IInv, TypeOK, Bad
<1>4. CASE cmd.what \in {"step", "query"} /\ pc[r] \in {"stepping", "nudging", "querying"}
  BY <1>2, <1>3, <1>4 DEF Bad, Lost, Waits, Awaiting, deviceVars
<1>5. CASE /\ cmd.what \in {"start", "stop"}
           /\ pc[r] \in {"starting", "stopping", "halting", "leaving"}
  BY <1>2, <1>3, <1>5 DEF Bad, Waits, Awaiting
<1> QED
  BY <1>1, <1>4, <1>5 DEF IInv, CmdInv

\* A command that is sent.
LEMMA SendFacts ==
    ASSUME TypeOK, NEW r \in Reqs, NEW what \in {"step", "start", "stop", "query"},
           NEW d \in {-1, 0, 1}, Sends(r, what, d)
    PROVE  /\ cmd = None /\ cmd' = [req |-> r, what |-> what, dir |-> d]
           /\ cmd' \in Commands /\ event' \in BOOLEAN
  BY DEF TypeOK, Sends, Commands

(***************************************************************************)
(* The invariant is kept                                                    *)
(***************************************************************************)

\* One step for each action: the types first, then what the invariant says of
\* the moves, then of the motor.
LEMMA InvariantKept ==
    ASSUME IInv, [Next]_vars PROVE IInv'
<1> USE FocuserAssumption
<1>0. TypeOK /\ LeftInv /\ PlaceInv /\ CmdInv /\ RunningHasOwner /\ MovingHasOwner
  BY DEF IInv
<1>t. StateTypes /\ MoveTypes /\ HistoryTypes /\ DeviceTypes
  BY <1>0 DEF TypeOK, StateTypes, MoveTypes, HistoryTypes, DeviceTypes
<1>1. ASSUME NEW m \in Moves, Move(m) PROVE IInv'
  <2>0. m \in Reqs
    BY DEF Reqs
  <2>1. TypeOK'
    <3>1. StateTypes'
      BY <1>t, <1>1, <2>0 DEF Move, At, InProgress, StateTypes
    <3>2. MoveTypes'
      <4>1. PICK target \in Positions \ {position} :
                /\ goal' = [goal EXCEPT ![m] = target]
                /\ dir' = [dir EXCEPT ![m] = Sign(target - position)]
                /\ left' = [left EXCEPT ![m] = Abs(target - position)]
        BY <1>1 DEF Move
      <4>2. Sign(target - position) \in {-1, 1} /\ Abs(target - position) \in Nat
        BY <1>t, SignTypes, PositionTypes DEF StateTypes
      <4> QED
        BY <1>t, <1>1, <2>0, <4>1, <4>2 DEF Move, At, MoveTypes, Places
    <3>3. HistoryTypes'
      BY <1>t, <1>1, <2>0 DEF Move, At, InProgress, HistoryTypes
    <3>4. DeviceTypes'
      BY <1>t, <1>1, <2>0 DEF Move, At, InProgress, deviceVars, DeviceTypes
    <3> QED
      BY <3>1, <3>2, <3>3, <3>4 DEF TypeOK, StateTypes, MoveTypes, HistoryTypes, DeviceTypes
  <2>2. LeftInv' /\ PlaceInv' /\ MovingHasOwner'
    <3>1. PICK target \in Positions \ {position} :
              left' = [left EXCEPT ![m] = Abs(target - position)]
      BY <1>1 DEF Move
    <3>2. Abs(target - position) >= 1
      BY <1>t, SignTypes, PositionTypes DEF StateTypes
    <3>3. pc' = [pc EXCEPT ![m] = "begun"]
      BY <1>1 DEF Move, At
    <3> QED
      BY <1>0, <1>t, <2>0, <3>1, <3>2, <3>3
         DEF MoveTypes, LeftInv, PlaceInv, MovingHasOwner, InProgress, Reqs
  <2>3. CmdInv' /\ RunningHasOwner'
    BY <2>0, <1>0, <1>1, SignTypes, PositionTypes DEF Move, At, InProgress, deviceVars, IInv,
        TypeOK, CmdInv, RunningHasOwner, Reqs, Commands, Waits, Awaiting
  <2> QED
    BY <2>1, <2>2, <2>3 DEF IInv
<1>2. ASSUME NEW m \in Moves, Ensured(m) PROVE IInv'
  <2>0. m \in Reqs
    BY DEF Reqs
  <2>1. TypeOK'
    BY <2>0, <1>0, <1>2 DEF Ensured, At, Single, stateVars, moveVars, deviceVars, history, IInv,
        TypeOK, DeviceTypes, Places, Waits, Awaiting
  <2>2. LeftInv' /\ PlaceInv' /\ MovingHasOwner'
    BY <2>0, <1>0, <1>2 DEF Ensured, At, Single, stateVars, moveVars, deviceVars, history, IInv,
        TypeOK, LeftInv, PlaceInv, MovingHasOwner, Reqs, Waits, Awaiting, InProgress
  <2>3. CmdInv' /\ RunningHasOwner'
    BY <2>0, <1>0, <1>2 DEF Ensured, At, Single, stateVars, moveVars, deviceVars, history, IInv,
        TypeOK, CmdInv, RunningHasOwner, Reqs, Commands, Waits, Awaiting
  <2> QED
    BY <2>1, <2>2, <2>3 DEF IInv
<1>3. ASSUME NEW m \in Moves, EnsureFails(m) PROVE IInv'
  <2>0. m \in Reqs
    BY DEF Reqs
  <2>1. TypeOK'
    <3>1. StateTypes'
      BY <1>t, <1>3, <2>0 DEF EnsureFails, Over, stateVars, At, StateTypes
    <3>2. MoveTypes'
      BY <1>t, <1>3, <2>0, OverTypes DEF EnsureFails, Over, At, MoveTypes, Places, Reqs
    <3>3. HistoryTypes'
      BY <1>t, <1>3, <2>0 DEF EnsureFails, Over, At, HistoryTypes
    <3>4. DeviceTypes'
      BY <1>t, <1>3, <2>0 DEF EnsureFails, Over, deviceVars, At, DeviceTypes
    <3> QED
      BY <3>1, <3>2, <3>3, <3>4 DEF TypeOK, StateTypes, MoveTypes, HistoryTypes, DeviceTypes
  <2>2. LeftInv' /\ PlaceInv' /\ MovingHasOwner'
    BY <2>0, <1>0, <1>3 DEF EnsureFails, Over, stateVars, deviceVars, At, IInv, TypeOK, LeftInv,
        PlaceInv, MovingHasOwner, Reqs, Waits, Awaiting, InProgress
  <2>3. CmdInv' /\ RunningHasOwner'
    BY <2>0, <1>0, <1>3 DEF EnsureFails, Over, stateVars, deviceVars, At, IInv, TypeOK, CmdInv,
        RunningHasOwner, Reqs, Commands, Waits, Awaiting
  <2> QED
    BY <2>1, <2>2, <2>3 DEF IInv
<1>4. ASSUME NEW m \in Moves, MoveFails(m) PROVE IInv'
  <2>0. m \in Reqs
    BY DEF Reqs
  <2>1. TypeOK'
    <3>1. StateTypes'
      BY <1>t, <1>4, <2>0, BadFacts DEF MoveFails, Over, At, StateTypes, HistoryTypes
    <3>2. MoveTypes'
      BY <1>t, <1>4, <2>0, OverTypes, BadFacts DEF MoveFails, Over, At, MoveTypes, Places, Reqs,
          HistoryTypes
    <3>3. HistoryTypes'
      BY <1>t, <1>4, <2>0, BadFacts DEF MoveFails, Over, At, HistoryTypes, HistoryTypes
    <3>4. DeviceTypes'
      BY <1>t, <1>4, <2>0, BadFacts DEF MoveFails, Over, At, DeviceTypes, HistoryTypes
    <3> QED
      BY <3>1, <3>2, <3>3, <3>4 DEF TypeOK, StateTypes, MoveTypes, HistoryTypes, DeviceTypes
  <2>2. LeftInv' /\ PlaceInv' /\ MovingHasOwner'
    BY <2>0, <1>0, <1>4, BadFacts DEF MoveFails, Over, At, IInv, TypeOK, LeftInv, PlaceInv,
        MovingHasOwner, Reqs, Waits, Awaiting, InProgress
  <2>3. CmdInv' /\ RunningHasOwner'
    BY <2>0, <1>0, <1>4, BadFacts DEF MoveFails, Over, At, IInv, TypeOK, CmdInv,
        RunningHasOwner, Reqs, Commands, Waits, Awaiting
  <2> QED
    BY <2>1, <2>2, <2>3 DEF IInv
<1>5. ASSUME NEW m \in Moves, CommandOk(m) PROVE IInv'
  <2>0. m \in Reqs
    BY DEF Reqs
  <2>1. TypeOK'
    <3>1. StateTypes'
      BY <1>t, <1>5, <2>0, OkFacts DEF CommandOk, At, stateVars, StateTypes, HistoryTypes
    <3>2. MoveTypes'
      <4>1. \E place \in {"stepped", "running", "settling", "nudged"} : At(m, place)
        BY <1>0, <1>5, <2>0, OkFacts DEF CommandOk, IInv, PlaceInv, Waits, Awaiting
      <4> QED
        BY <1>t, <1>5, <2>0, <4>1 DEF CommandOk, At, MoveTypes, moveVars, Places
    <3>3. HistoryTypes'
      BY <1>t, <1>5, <2>0, OkFacts DEF CommandOk, At, HistoryTypes, HistoryTypes
    <3>4. DeviceTypes'
      BY <1>t, <1>5, <2>0, OkFacts DEF CommandOk, At, DeviceTypes, HistoryTypes
    <3> QED
      BY <3>1, <3>2, <3>3, <3>4 DEF TypeOK, StateTypes, MoveTypes, HistoryTypes, DeviceTypes
  <2>2. LeftInv' /\ PlaceInv' /\ MovingHasOwner'
    <3>1. \/ pc[m] = "stepping" /\ At(m, "stepped")
          \/ \E place \in {"running", "settling", "nudged"} : At(m, place)
      BY <1>0, <1>5, <2>0, OkFacts DEF CommandOk, IInv, PlaceInv, Waits, Awaiting
    <3>2. UNCHANGED <<left, isMoving>>
      BY <1>5 DEF CommandOk, moveVars, stateVars
    <3> QED
      BY <1>0, <1>t, <2>0, <3>1, <3>2
         DEF At, MoveTypes, LeftInv, PlaceInv, MovingHasOwner, InProgress, Reqs
  <2>3. CmdInv' /\ RunningHasOwner'
    BY <2>0, <1>0, <1>5, OkFacts DEF CommandOk, At, stateVars, moveVars, IInv, TypeOK, CmdInv,
        RunningHasOwner, Reqs, Commands, Waits, Awaiting
  <2> QED
    BY <2>1, <2>2, <2>3 DEF IInv
<1>6. ASSUME NEW m \in Moves, SendStep(m) PROVE IInv'
  <2>0. m \in Reqs
    BY DEF Reqs
  <2>1. TypeOK'
    BY <2>0, <1>0, <1>6, SendFacts DEF SendStep, Begin, At, stateVars, moveVars, deviceVars,
        history, IInv, TypeOK, DeviceTypes, Places, Waits, Awaiting
  <2>2. LeftInv' /\ PlaceInv' /\ MovingHasOwner'
    BY <2>0, <1>0, <1>6, SendFacts DEF SendStep, Begin, At, stateVars, moveVars, deviceVars,
        history, IInv, TypeOK, LeftInv, PlaceInv, MovingHasOwner, Reqs, Waits, Awaiting,
        InProgress
  <2>3. CmdInv' /\ RunningHasOwner'
    <3>1. dir[m] \in {-1, 0, 1} /\ Sends(m, "step", dir[m])
      BY <1>t, <1>6 DEF SendStep, Begin, MoveTypes
    <3>2. cmd'.what = "step" /\ cmd'.req = m
      BY <3>1 DEF Sends
    <3>3. pc' = [pc EXCEPT ![m] = "stepping"] /\ pc[m] = "step" /\ UNCHANGED <<motor, unsure>>
      BY <1>6 DEF SendStep, Begin, At, deviceVars, history
    <3> QED
      BY <1>0, <1>t, <2>0, <3>2, <3>3 DEF MoveTypes, CmdInv, RunningHasOwner, Reqs
  <2> QED
    BY <2>1, <2>2, <2>3 DEF IInv
<1>7. ASSUME NEW m \in Moves, Stepped(m) PROVE IInv'
  <2>0. m \in Reqs
    BY DEF Reqs
  <2>1. TypeOK'
    <3>1. StateTypes'
      <4>1. position \in Int /\ dir[m] \in Int
        BY <1>t, PositionTypes DEF StateTypes, MoveTypes
      <4>2. Clamp(position + dir[m]) \in Positions
        BY <4>1, ClampTypes
      <4>3. position' \in Positions /\ event' = FALSE /\ connected' = connected
        BY <1>t, <1>7, <4>2 DEF Stepped, StateTypes
      <4>4. isMoving' \in BOOLEAN
        BY <1>t, <1>7 DEF Stepped, StateTypes, Finish
      <4> QED
        BY <1>t, <4>3, <4>4 DEF StateTypes
    <3>2. MoveTypes'
      <4>1. CASE Finish(m)
        BY <1>t, <4>1, OverTypes DEF Finish, Places
      <4>2. CASE /\ left[m] # 1 /\ At(m, "step")
                 /\ left' = [left EXCEPT ![m] = @ - 1] /\ got' = [got EXCEPT ![m] = TRUE]
                 /\ UNCHANGED <<goal, dir>>
        <5>1. left[m] - 1 \in Nat
          BY <1>0, <1>t, <1>7 DEF Stepped, LeftInv, MoveTypes
        <5> QED
          BY <1>t, <2>0, <4>2, <5>1 DEF At, MoveTypes, Places
      <4> QED
        BY <1>7, <4>1, <4>2 DEF Stepped
    <3>3. HistoryTypes'
      BY <1>t, <1>7, <2>0 DEF Stepped, At, Finish, Over, HistoryTypes
    <3>4. DeviceTypes'
      BY <1>t, <1>7, <2>0, ClampTypes, PositionTypes DEF Stepped, At, Finish, deviceVars, Over,
          DeviceTypes
    <3> QED
      BY <3>1, <3>2, <3>3, <3>4 DEF TypeOK, StateTypes, MoveTypes, HistoryTypes, DeviceTypes
  <2>2. LeftInv' /\ PlaceInv' /\ MovingHasOwner'
    <3>1. CASE Finish(m)
      BY <1>0, <1>t, <2>0, <3>1
         DEF Finish, Over, At, MoveTypes, LeftInv, PlaceInv, MovingHasOwner, Reqs
    <3>2. CASE /\ left[m] # 1 /\ At(m, "step") /\ isMoving' = isMoving
               /\ left' = [left EXCEPT ![m] = @ - 1]
      <4>1. left[m] \in Nat /\ left[m] - 1 >= 1
        BY <1>0, <1>t, <1>7, <3>2 DEF Stepped, LeftInv, MoveTypes
      <4> QED
        BY <1>0, <1>t, <1>7, <2>0, <3>2, <4>1
           DEF At, MoveTypes, LeftInv, PlaceInv, MovingHasOwner, InProgress, Reqs
    <3> QED
      BY <1>7, <3>1, <3>2 DEF Stepped
  <2>3. CmdInv' /\ RunningHasOwner'
    <3>1. pc[m] = "stepped" /\ UNCHANGED <<cmd, motor, unsure>>
      BY <1>7 DEF Stepped, deviceVars
    <3>2. At(m, "done") \/ At(m, "step")
      BY <1>7 DEF Stepped, Finish, Over
    <3> QED
      BY <1>0, <1>t, <2>0, <3>1, <3>2
         DEF At, MoveTypes, HistoryTypes, Commands, CmdInv, RunningHasOwner, Reqs
  <2> QED
    BY <2>1, <2>2, <2>3 DEF IInv
<1>8. ASSUME NEW m \in Moves, SendStart(m) PROVE IInv'
  <2>0. m \in Reqs
    BY DEF Reqs
  <2>1. TypeOK'
    BY <2>0, <1>0, <1>8, SendFacts DEF SendStart, Begin, At, stateVars, moveVars, deviceVars,
        history, IInv, TypeOK, DeviceTypes, Places, Waits, Awaiting
  <2>2. LeftInv' /\ PlaceInv' /\ MovingHasOwner'
    BY <2>0, <1>0, <1>8, SendFacts DEF SendStart, Begin, At, stateVars, moveVars, deviceVars,
        history, IInv, TypeOK, LeftInv, PlaceInv, MovingHasOwner, Reqs, Waits, Awaiting,
        InProgress
  <2>3. CmdInv' /\ RunningHasOwner'
    <3>1. dir[m] \in {-1, 0, 1} /\ Sends(m, "start", dir[m])
      BY <1>t, <1>8 DEF SendStart, Begin, MoveTypes
    <3>2. cmd'.what = "start" /\ cmd'.req = m
      BY <3>1 DEF Sends
    <3>3. pc' = [pc EXCEPT ![m] = "starting"] /\ pc[m] = "start" /\ UNCHANGED <<motor, unsure>>
      BY <1>8 DEF SendStart, Begin, At, deviceVars, history
    <3> QED
      BY <1>0, <1>t, <2>0, <3>2, <3>3 DEF MoveTypes, CmdInv, RunningHasOwner, Reqs
  <2> QED
    BY <2>1, <2>2, <2>3 DEF IInv
<1>9. ASSUME NEW m \in Moves, Deadline(m) PROVE IInv'
  <2>0. m \in Reqs
    BY DEF Reqs
  <2>1. TypeOK'
    BY <2>0, <1>0, <1>9 DEF Deadline, At, stateVars, moveVars, deviceVars, history, IInv,
        TypeOK, DeviceTypes, Places, Waits, Awaiting
  <2>2. LeftInv' /\ PlaceInv' /\ MovingHasOwner'
    BY <2>0, <1>0, <1>9 DEF Deadline, At, stateVars, moveVars, deviceVars, history, IInv,
        TypeOK, LeftInv, PlaceInv, MovingHasOwner, Reqs, Waits, Awaiting, InProgress
  <2>3. CmdInv' /\ RunningHasOwner'
    BY <2>0, <1>0, <1>9 DEF Deadline, At, stateVars, moveVars, deviceVars, history, IInv,
        TypeOK, CmdInv, RunningHasOwner, Reqs, Commands, Waits, Awaiting
  <2> QED
    BY <2>1, <2>2, <2>3 DEF IInv
<1>10. ASSUME NEW m \in Moves, SendStop(m) PROVE IInv'
  <2>0. m \in Reqs
    BY DEF Reqs
  <2>1. TypeOK'
    BY <2>0, <1>0, <1>10, SendFacts DEF SendStop, Begin, At, stateVars, moveVars, deviceVars,
        history, IInv, TypeOK, DeviceTypes, Places, Waits, Awaiting
  <2>2. LeftInv' /\ PlaceInv' /\ MovingHasOwner'
    BY <2>0, <1>0, <1>10, SendFacts DEF SendStop, Begin, At, stateVars, moveVars, deviceVars,
        history, IInv, TypeOK, LeftInv, PlaceInv, MovingHasOwner, Reqs, Waits, Awaiting,
        InProgress
  <2>3. CmdInv' /\ RunningHasOwner'
    BY <2>0, <1>0, <1>10, SendFacts DEF SendStop, Begin, At, stateVars, moveVars, deviceVars,
        history, IInv, TypeOK, CmdInv, RunningHasOwner, Reqs, Commands, Waits, Awaiting
  <2> QED
    BY <2>1, <2>2, <2>3 DEF IInv
<1>11. ASSUME NEW m \in Moves, Settled(m) PROVE IInv'
  <2>0. m \in Reqs
    BY DEF Reqs
  <2>1. TypeOK'
    <3>1. StateTypes'
      <4>1. position' \in Positions /\ event' = FALSE /\ connected' = connected
        BY <1>t, <1>11 DEF Settled, StateTypes, MoveTypes
      <4>2. isMoving' \in BOOLEAN
        BY <1>t, <1>11 DEF Settled, StateTypes, Finish
      <4> QED
        BY <1>t, <4>1, <4>2 DEF StateTypes
    <3>2. MoveTypes'
      <4>1. CASE Finish(m)
        BY <1>t, <4>1, OverTypes DEF Finish, Places
      <4>2. CASE /\ At(m, "nudge") /\ left' = [left EXCEPT ![m] = MaxNudges]
                 /\ UNCHANGED <<goal, dir, got>>
        BY <1>t, <2>0, <4>2 DEF At, MoveTypes, Places
      <4> QED
        BY <1>11, <4>1, <4>2 DEF Settled
    <3>3. HistoryTypes'
      BY <1>t, <1>11, <2>0 DEF Settled, At, Finish, Over, HistoryTypes
    <3>4. DeviceTypes'
      BY <1>t, <1>11, <2>0 DEF Settled, At, Finish, deviceVars, Over, DeviceTypes
    <3> QED
      BY <3>1, <3>2, <3>3, <3>4 DEF TypeOK, StateTypes, MoveTypes, HistoryTypes, DeviceTypes
  <2>2. LeftInv' /\ PlaceInv' /\ MovingHasOwner'
    <3>1. CASE Finish(m)
      BY <1>0, <1>t, <2>0, <3>1
         DEF Finish, Over, At, MoveTypes, LeftInv, PlaceInv, MovingHasOwner, Reqs
    <3>2. CASE /\ At(m, "nudge") /\ isMoving' = isMoving
               /\ left' = [left EXCEPT ![m] = MaxNudges]
      BY <1>0, <1>t, <2>0, <3>2
         DEF At, MoveTypes, LeftInv, PlaceInv, MovingHasOwner, InProgress, Reqs
    <3> QED
      BY <1>11, <3>1, <3>2 DEF Settled
  <2>3. CmdInv' /\ RunningHasOwner'
    BY <2>0, <1>0, <1>11 DEF Settled, At, Finish, deviceVars, Over, IInv, TypeOK, CmdInv,
        RunningHasOwner, Reqs, Commands, Waits, Awaiting
  <2> QED
    BY <2>1, <2>2, <2>3 DEF IInv
<1>12. ASSUME NEW m \in Moves, Nudge(m) PROVE IInv'
  <2>0. m \in Reqs
    BY DEF Reqs
  <2>1. TypeOK'
    <3>1. StateTypes'
      <4>1. event' \in BOOLEAN
        BY <1>t, <1>12 DEF Nudge, Sends, StateTypes
      <4> QED
        BY <1>t, <1>12, <4>1 DEF Nudge, stateVars, StateTypes
    <3>2. MoveTypes'
      <4>a. goal[m] \in Positions /\ position \in Positions
        BY <1>t DEF StateTypes, MoveTypes
      <4>b. goal[m] \in Int /\ position \in Int
        BY <4>a, PositionTypes
      <4>1. Sign(goal[m] - position) \in {-1, 1}
        BY <4>b, SignTypes
      <4>2. cmd'.dir = Sign(goal[m] - position)
        BY <1>12 DEF Nudge, Sends
      <4>3. left[m] - 1 \in Nat
        BY <1>t, <1>12 DEF Nudge, MoveTypes
      <4> QED
        BY <1>t, <1>12, <2>0, <4>1, <4>2, <4>3 DEF Nudge, At, MoveTypes, Places
    <3>3. HistoryTypes'
      <4>a. goal[m] \in Positions /\ position \in Positions
        BY <1>t DEF StateTypes, MoveTypes
      <4>b. goal[m] \in Int /\ position \in Int
        BY <4>a, PositionTypes
      <4>1. Sign(goal[m] - position) \in {-1, 1}
        BY <4>b, SignTypes
      <4>2. cmd' \in Commands
        BY <1>12, <2>0, <4>1 DEF Nudge, Sends, Commands
      <4> QED
        BY <1>t, <1>12, <4>2 DEF Nudge, HistoryTypes, history
    <3>4. DeviceTypes'
      BY <1>t, <1>12, <2>0, SendFacts DEF Nudge, At, deviceVars, DeviceTypes, HistoryTypes
    <3> QED
      BY <3>1, <3>2, <3>3, <3>4 DEF TypeOK, StateTypes, MoveTypes, HistoryTypes, DeviceTypes
  <2>2. LeftInv' /\ PlaceInv' /\ MovingHasOwner'
    BY <2>0, <1>0, <1>12, SendFacts, SignTypes, PositionTypes DEF Nudge, At, stateVars,
        deviceVars, history, IInv, TypeOK, LeftInv, PlaceInv, MovingHasOwner, Reqs, Waits,
        Awaiting, InProgress
  <2>3. CmdInv' /\ RunningHasOwner'
    <3>1. cmd'.what = "step" /\ cmd'.req = m
      BY <1>12 DEF Nudge, Sends
    <3>2. pc' = [pc EXCEPT ![m] = "nudging"] /\ pc[m] = "nudge" /\ UNCHANGED <<motor, unsure>>
      BY <1>12 DEF Nudge, At, deviceVars, history
    <3> QED
      BY <1>0, <1>t, <2>0, <3>1, <3>2 DEF MoveTypes, CmdInv, RunningHasOwner, Reqs
  <2> QED
    BY <2>1, <2>2, <2>3 DEF IInv
<1>13. ASSUME NEW m \in Moves, Nudged(m) PROVE IInv'
  <2>0. m \in Reqs
    BY DEF Reqs
  <2>1. TypeOK'
    <3>1. StateTypes'
      <4>1. position \in Int /\ dir[m] \in Int
        BY <1>t, PositionTypes DEF StateTypes, MoveTypes
      <4>2. Clamp(position + dir[m]) \in Positions
        BY <4>1, ClampTypes
      <4> QED
        BY <1>t, <1>13, <4>2 DEF Nudged, StateTypes
    <3>2. MoveTypes'
      BY <1>t, <1>13, <2>0 DEF Nudged, At, moveVars, MoveTypes, Places, Reqs
    <3>3. HistoryTypes'
      BY <1>t, <1>13, <2>0 DEF Nudged, At, HistoryTypes
    <3>4. DeviceTypes'
      BY <1>t, <1>13, <2>0, ClampTypes, PositionTypes DEF Nudged, At, deviceVars, DeviceTypes
    <3> QED
      BY <3>1, <3>2, <3>3, <3>4 DEF TypeOK, StateTypes, MoveTypes, HistoryTypes, DeviceTypes
  <2>2. LeftInv' /\ PlaceInv' /\ MovingHasOwner'
    BY <2>0, <1>0, <1>13, ClampTypes, PositionTypes DEF Nudged, At, moveVars, deviceVars, IInv,
        TypeOK, LeftInv, PlaceInv, MovingHasOwner, Reqs, Waits, Awaiting, InProgress
  <2>3. CmdInv' /\ RunningHasOwner'
    BY <2>0, <1>0, <1>13, ClampTypes, PositionTypes DEF Nudged, At, moveVars, deviceVars, IInv,
        TypeOK, CmdInv, RunningHasOwner, Reqs, Commands, Waits, Awaiting
  <2> QED
    BY <2>1, <2>2, <2>3 DEF IInv
<1>14. ASSUME NEW m \in Moves, NudgeEnds(m) PROVE IInv'
  <2>0. m \in Reqs
    BY DEF Reqs
  <2>1. TypeOK'
    <3>1. StateTypes'
      BY <1>t, <1>14, <2>0, BadFacts DEF NudgeEnds, Finish, Over, At, StateTypes, HistoryTypes
    <3>2. MoveTypes'
      BY <1>t, <1>14, <2>0, OverTypes, BadFacts DEF NudgeEnds, Finish, Over, At, MoveTypes,
          Places, Reqs, HistoryTypes
    <3>3. HistoryTypes'
      BY <1>t, <1>14, <2>0, BadFacts DEF NudgeEnds, Finish, history, Over, At, HistoryTypes,
          HistoryTypes
    <3>4. DeviceTypes'
      BY <1>t, <1>14, <2>0, BadFacts DEF NudgeEnds, Finish, deviceVars, Over, At, DeviceTypes,
          HistoryTypes
    <3> QED
      BY <3>1, <3>2, <3>3, <3>4 DEF TypeOK, StateTypes, MoveTypes, HistoryTypes, DeviceTypes
  <2>2. LeftInv' /\ PlaceInv' /\ MovingHasOwner'
    BY <2>0, <1>0, <1>14, BadFacts DEF NudgeEnds, Finish, deviceVars, history, Over, At, IInv,
        TypeOK, LeftInv, PlaceInv, MovingHasOwner, Reqs, Waits, Awaiting, InProgress
  <2>3. CmdInv' /\ RunningHasOwner'
    BY <2>0, <1>0, <1>14, BadFacts DEF NudgeEnds, Finish, deviceVars, history, Over, At, IInv,
        TypeOK, CmdInv, RunningHasOwner, Reqs, Commands, Waits, Awaiting
  <2> QED
    BY <2>1, <2>2, <2>3 DEF IInv
<1>15. ASSUME NEW m \in Moves, Update(m) PROVE IInv'
  <2>0. m \in Reqs
    BY DEF Reqs
  <2>1. TypeOK'
    BY <2>0, <1>0, <1>15 DEF Update, At, stateVars, deviceVars, history, IInv, TypeOK,
        DeviceTypes, Places, Waits, Awaiting
  <2>2. LeftInv' /\ PlaceInv' /\ MovingHasOwner'
    BY <2>0, <1>0, <1>15 DEF Update, At, stateVars, deviceVars, history, IInv, TypeOK, LeftInv,
        PlaceInv, MovingHasOwner, Reqs, Waits, Awaiting, InProgress
  <2>3. CmdInv' /\ RunningHasOwner'
    BY <2>0, <1>0, <1>15 DEF Update, At, stateVars, deviceVars, history, IInv, TypeOK, CmdInv,
        RunningHasOwner, Reqs, Commands, Waits, Awaiting
  <2> QED
    BY <2>1, <2>2, <2>3 DEF IInv
<1>16. ASSUME NEW r \in Others, Halt(r) PROVE IInv'
  <2>0. r \in Reqs
    BY DEF Reqs
  <2>1. TypeOK'
    BY <2>0, <1>0, <1>16 DEF Halt, Ask, stateVars, moveVars, deviceVars, At, IInv, TypeOK,
        DeviceTypes, Places, Waits, Awaiting
  <2>2. LeftInv' /\ PlaceInv' /\ MovingHasOwner'
    BY <2>0, <1>0, <1>16 DEF Halt, Ask, stateVars, moveVars, deviceVars, At, IInv, TypeOK,
        LeftInv, PlaceInv, MovingHasOwner, Reqs, Waits, Awaiting, InProgress
  <2>3. CmdInv' /\ RunningHasOwner'
    BY <2>0, <1>0, <1>16 DEF Halt, Ask, stateVars, moveVars, deviceVars, At, IInv, TypeOK,
        CmdInv, RunningHasOwner, Reqs, Commands, Waits, Awaiting
  <2> QED
    BY <2>1, <2>2, <2>3 DEF IInv
<1>17. ASSUME NEW r \in Others, Disconnect(r) PROVE IInv'
  <2>0. r \in Reqs
    BY DEF Reqs
  <2>1. TypeOK'
    BY <2>0, <1>0, <1>17 DEF Disconnect, Ask, Quiet, stateVars, moveVars, deviceVars, At,
        InProgress, IInv, TypeOK, DeviceTypes, Places, Waits, Awaiting
  <2>2. LeftInv' /\ PlaceInv' /\ MovingHasOwner'
    BY <2>0, <1>0, <1>17 DEF Disconnect, Ask, Quiet, stateVars, moveVars, deviceVars, At,
        InProgress, IInv, TypeOK, LeftInv, PlaceInv, MovingHasOwner, Reqs, Waits, Awaiting
  <2>3. CmdInv' /\ RunningHasOwner'
    BY <2>0, <1>0, <1>17 DEF Disconnect, Ask, Quiet, stateVars, moveVars, deviceVars, At,
        InProgress, IInv, TypeOK, CmdInv, RunningHasOwner, Reqs, Commands, Waits, Awaiting
  <2> QED
    BY <2>1, <2>2, <2>3 DEF IInv
<1>18. ASSUME NEW r \in Others, Connect(r) PROVE IInv'
  <2>0. r \in Reqs
    BY DEF Reqs
  <2>1. TypeOK'
    BY <2>0, <1>0, <1>18 DEF Connect, Ask, Quiet, moveVars, deviceVars, At, InProgress, IInv,
        TypeOK, DeviceTypes, Places, Waits, Awaiting
  <2>2. LeftInv' /\ PlaceInv' /\ MovingHasOwner'
    BY <2>0, <1>0, <1>18 DEF Connect, Ask, Quiet, moveVars, deviceVars, At, InProgress, IInv,
        TypeOK, LeftInv, PlaceInv, MovingHasOwner, Reqs, Waits, Awaiting
  <2>3. CmdInv' /\ RunningHasOwner'
    BY <2>0, <1>0, <1>18 DEF Connect, Ask, Quiet, moveVars, deviceVars, At, InProgress, IInv,
        TypeOK, CmdInv, RunningHasOwner, Reqs, Commands, Waits, Awaiting
  <2> QED
    BY <2>1, <2>2, <2>3 DEF IInv
<1>19. ASSUME NEW r \in Others, SendOther(r) PROVE IInv'
  <2>0. r \in Reqs
    BY DEF Reqs
  <2>1. TypeOK'
    BY <2>0, <1>0, <1>19, SendFacts DEF SendOther, At, stateVars, moveVars, deviceVars, history,
        IInv, TypeOK, DeviceTypes, Places, Waits, Awaiting
  <2>2. LeftInv' /\ PlaceInv' /\ MovingHasOwner'
    BY <2>0, <1>0, <1>19, SendFacts DEF SendOther, At, stateVars, moveVars, deviceVars, history,
        IInv, TypeOK, LeftInv, PlaceInv, MovingHasOwner, Reqs, Waits, Awaiting, InProgress
  <2>3. CmdInv' /\ RunningHasOwner'
    BY <2>0, <1>0, <1>19, SendFacts DEF SendOther, At, stateVars, moveVars, deviceVars, history,
        IInv, TypeOK, CmdInv, RunningHasOwner, Reqs, Commands, Waits, Awaiting
  <2> QED
    BY <2>1, <2>2, <2>3 DEF IInv
<1>20. ASSUME NEW r \in Others, OtherFails(r) PROVE IInv'
  <2>0. r \in Reqs
    BY DEF Reqs
  <2>1. TypeOK'
    BY <2>0, <1>0, <1>20 DEF OtherFails, At, stateVars, moveVars, deviceVars, history, IInv,
        TypeOK, DeviceTypes, Places, Waits, Awaiting
  <2>2. LeftInv' /\ PlaceInv' /\ MovingHasOwner'
    BY <2>0, <1>0, <1>20 DEF OtherFails, At, stateVars, moveVars, deviceVars, history, IInv,
        TypeOK, LeftInv, PlaceInv, MovingHasOwner, Reqs, Waits, Awaiting, InProgress
  <2>3. CmdInv' /\ RunningHasOwner'
    BY <2>0, <1>0, <1>20 DEF OtherFails, At, stateVars, moveVars, deviceVars, history, IInv,
        TypeOK, CmdInv, RunningHasOwner, Reqs, Commands, Waits, Awaiting
  <2> QED
    BY <2>1, <2>2, <2>3 DEF IInv
<1>21. ASSUME NEW r \in Others, Halted(r) PROVE IInv'
  <2>0. r \in Reqs
    BY DEF Reqs
  <2>1. TypeOK'
    BY <2>0, <1>0, <1>21, OkFacts, BadFacts DEF Halted, At, moveVars, IInv, TypeOK, DeviceTypes,
        Places, Waits, Awaiting
  <2>2. LeftInv' /\ PlaceInv' /\ MovingHasOwner'
    BY <2>0, <1>0, <1>21, OkFacts, BadFacts DEF Halted, At, moveVars, IInv, TypeOK, LeftInv,
        PlaceInv, MovingHasOwner, Reqs, Waits, Awaiting, InProgress
  <2>3. CmdInv' /\ RunningHasOwner'
    BY <2>0, <1>0, <1>21, OkFacts, BadFacts DEF Halted, At, moveVars, IInv, TypeOK, CmdInv,
        RunningHasOwner, Reqs, Commands, Waits, Awaiting
  <2> QED
    BY <2>1, <2>2, <2>3 DEF IInv
<1>22. ASSUME NEW r \in Others, Disconnected(r) PROVE IInv'
  <2>0. r \in Reqs
    BY DEF Reqs
  <2>1. TypeOK'
    BY <2>0, <1>0, <1>22, OkFacts, BadFacts DEF Disconnected, At, moveVars, IInv, TypeOK,
        DeviceTypes, Places, Waits, Awaiting
  <2>2. LeftInv' /\ PlaceInv' /\ MovingHasOwner'
    BY <2>0, <1>0, <1>22, OkFacts, BadFacts DEF Disconnected, At, moveVars, IInv, TypeOK,
        LeftInv, PlaceInv, MovingHasOwner, Reqs, Waits, Awaiting, InProgress
  <2>3. CmdInv' /\ RunningHasOwner'
    BY <2>0, <1>0, <1>22, OkFacts, BadFacts DEF Disconnected, At, moveVars, IInv, TypeOK,
        CmdInv, RunningHasOwner, Reqs, Commands, Waits, Awaiting
  <2> QED
    BY <2>1, <2>2, <2>3 DEF IInv
<1>23. ASSUME NEW r \in Others, Connected(r) PROVE IInv'
  <2>0. r \in Reqs
    BY DEF Reqs
  <2>1. TypeOK'
    BY <2>0, <1>0, <1>23, OkFacts, BadFacts DEF Connected, At, moveVars, IInv, TypeOK,
        DeviceTypes, Places, Waits, Awaiting
  <2>2. LeftInv' /\ PlaceInv' /\ MovingHasOwner'
    BY <2>0, <1>0, <1>23, OkFacts, BadFacts DEF Connected, At, moveVars, IInv, TypeOK, LeftInv,
        PlaceInv, MovingHasOwner, Reqs, Waits, Awaiting, InProgress
  <2>3. CmdInv' /\ RunningHasOwner'
    BY <2>0, <1>0, <1>23, OkFacts, BadFacts DEF Connected, At, moveVars, IInv, TypeOK, CmdInv,
        RunningHasOwner, Reqs, Commands, Waits, Awaiting
  <2> QED
    BY <2>1, <2>2, <2>3 DEF IInv
<1>24. CASE Run
  <2>1. TypeOK'
    BY <1>0, <1>24, ClampTypes, PositionTypes DEF Run, stateVars, moveVars, history, IInv,
        TypeOK, DeviceTypes, Places, Waits, Awaiting
  <2>2. LeftInv' /\ PlaceInv' /\ MovingHasOwner'
    BY <1>0, <1>24, ClampTypes, PositionTypes DEF Run, stateVars, moveVars, history, IInv,
        TypeOK, LeftInv, PlaceInv, MovingHasOwner, Reqs, Waits, Awaiting, InProgress
  <2>3. CmdInv' /\ RunningHasOwner'
    BY <1>0, <1>24, ClampTypes, PositionTypes DEF Run, stateVars, moveVars, history, IInv,
        TypeOK, CmdInv, RunningHasOwner, Reqs, Commands, Waits, Awaiting
  <2> QED
    BY <2>1, <2>2, <2>3 DEF IInv
<1>25. CASE Notified
  <2>1. TypeOK'
    <3>1. StateTypes'
      <4>a. notes # <<>> /\ notes \in Seq(Positions)
        BY <1>t, <1>25 DEF Notified, DeviceTypes
      <4>b. Head(notes) \in Positions
        BY <4>a
      <4>1. Head(notes) \in Int
        BY <4>b, PositionTypes
      <4>2. Clamp(Head(notes)) \in Positions
        BY <4>1, ClampTypes
      <4> QED
        BY <1>t, <1>25, <4>2 DEF Notified, StateTypes
    <3>2. MoveTypes'
      BY <1>t, <1>25 DEF Notified, moveVars, MoveTypes, Places, Reqs
    <3>3. HistoryTypes'
      BY <1>t, <1>25 DEF Notified, history, HistoryTypes
    <3>4. DeviceTypes'
      BY <1>t, <1>25, ClampTypes, PositionTypes DEF Notified, DeviceTypes
    <3> QED
      BY <3>1, <3>2, <3>3, <3>4 DEF TypeOK, StateTypes, MoveTypes, HistoryTypes, DeviceTypes
  <2>2. LeftInv' /\ PlaceInv' /\ MovingHasOwner'
    BY <1>0, <1>25, ClampTypes, PositionTypes DEF Notified, moveVars, history, IInv, TypeOK,
        LeftInv, PlaceInv, MovingHasOwner, Reqs, Waits, Awaiting, InProgress
  <2>3. CmdInv' /\ RunningHasOwner'
    BY <1>0, <1>25, ClampTypes, PositionTypes DEF Notified, moveVars, history, IInv, TypeOK,
        CmdInv, RunningHasOwner, Reqs, Commands, Waits, Awaiting
  <2> QED
    BY <2>1, <2>2, <2>3 DEF IInv
<1>26. CASE UNCHANGED vars
  <2>1. TypeOK'
    BY <1>0, <1>26 DEF vars, stateVars, moveVars, deviceVars, history, IInv, TypeOK,
        DeviceTypes, Places, Waits, Awaiting
  <2>2. LeftInv' /\ PlaceInv' /\ MovingHasOwner'
    BY <1>0, <1>26 DEF vars, stateVars, moveVars, deviceVars, history, IInv, TypeOK, LeftInv,
        PlaceInv, MovingHasOwner, Reqs, Waits, Awaiting, InProgress
  <2>3. CmdInv' /\ RunningHasOwner'
    BY <1>0, <1>26 DEF vars, stateVars, moveVars, deviceVars, history, IInv, TypeOK, CmdInv,
        RunningHasOwner, Reqs, Commands, Waits, Awaiting
  <2> QED
    BY <2>1, <2>2, <2>3 DEF IInv
<1> QED
  BY <1>1, <1>2, <1>3, <1>4, <1>5, <1>6, <1>7, <1>8, <1>9, <1>10, <1>11, <1>12, <1>13, <1>14,
      <1>15, <1>16, <1>17, <1>18, <1>19, <1>20, <1>21, <1>22, <1>23, <1>24, <1>25, <1>26
     DEF Next, MoveStep, OtherStep

(***************************************************************************)
(* Theorems                                                                *)
(***************************************************************************)

\* The invariant holds before the first move.
LEMMA Initially == Init => IInv
<1> SUFFICES ASSUME Init PROVE IInv
  OBVIOUS
<1>0. 0 \in Positions /\ MaxStep \in Positions
  BY FocuserAssumption DEF Positions
<1>1. TypeOK
  <2>1. StateTypes /\ HistoryTypes
    BY <1>0 DEF Init, StateTypes, HistoryTypes
  <2>3. lens \in Positions /\ motor = 0 /\ notes = <<>>
    BY <1>0 DEF Init
  <2>4. DeviceTypes
    BY <2>3 DEF DeviceTypes
  <2>2. MoveTypes
    BY <1>0 DEF Init, MoveTypes, Places
  <2> QED
    BY <2>1, <2>2, <2>4 DEF TypeOK, StateTypes, MoveTypes, HistoryTypes, DeviceTypes
<1>2. LeftInv /\ PlaceInv
  BY DEF Init, LeftInv, PlaceInv, Reqs
<1>3. CmdInv /\ RunningHasOwner /\ MovingHasOwner
  BY DEF Init, CmdInv, RunningHasOwner, MovingHasOwner
<1> QED
  BY <1>1, <1>2, <1>3 DEF IInv

\* Every behaviour has the invariant.
LEMMA Invariant == Spec => []IInv
<1>1. IInv /\ UNCHANGED vars => IInv'
  BY InvariantKept
<1> QED
  BY <1>1, Initially, InvariantKept, PTL DEF Spec

\* Every variable of the focuser keeps its type: a move neither leaves the range of
\* positions nor steps once more than it may (session.py:6817-7100).
THEOREM TypeCorrect == Spec => []TypeOK
<1>1. IInv => TypeOK
  BY DEF IInv
<1> QED
  BY <1>1, Invariant, PTL

\* For any number of moves, however they overlap and whatever their commands come
\* to, the motor runs only for a request that will stop it, or after a start or a
\* stop without a good answer; and IsMoving reads true only during a move, or after
\* one that found no socket (session.py:6879-7040).
THEOREM MotionHasOwner == Spec => []Inv
<1>1. IInv => Inv
  BY DEF IInv, Inv
<1> QED
  BY <1>1, Invariant, PTL
=============================================================================
