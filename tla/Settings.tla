------------------------------ MODULE Settings ------------------------------
(***************************************************************************)
(* How the filter, the exposure time, the gain and the frame count that an    *)
(* Alpaca client asks for reach the device (dwarf/session.py, and             *)
(* devices/filterwheel.py for the wheel).                                  *)
(*                                                                         *)
(* A capture asks for an exposure time and a gain of its own: both are        *)
(* named by its number, and 0 is the value of a stored preset.  The frame      *)
(* count is a command without a value.  How a capture that fails is cleared     *)
(* up, and how one that runs ends, is the subject of Capture.                 *)
(*                                                                         *)
(* The device names a parameter per shooting mode: the values of the astronomy   *)
(* mode are set before the start, and those of the mode in which the capture     *)
(* runs, its namespace, after it.  Answers carry the command and not the        *)
(* request; commands are sent one at a time.                                  *)
(***************************************************************************)
EXTENDS Integers, Sequences

CONSTANTS
    NumCaptures,   \* StartExposures
    Moves,         \* filter requests: PUT position, and the first PUT connected
    Filters,       \* filter positions
    Wanted,        \* bound: those that are requested
    Default,       \* the one a capture takes when none was selected
    FilterIds,     \* the filter parameter ids, in the order they are tried
    Obeyed,        \* those the device's firmware knows
    Nil,
    Devices,       \* [mini, supports, own] of the devices there are
    MaxRestarts    \* bound: restarts of the server

ASSUME SettingsAssumption ==
    /\ NumCaptures \in Nat
    /\ Default \in Filters /\ Wanted \subseteq Filters
    /\ Nil \notin Filters \cup {"default", "other"}
    /\ \A x \in Moves \cup {Nil} : x \notin -NumCaptures..NumCaptures
    /\ Nil \notin Moves
    /\ \A i \in 1..Len(FilterIds) : FilterIds[i] \notin {Nil, "live", "default", "other"}
    /\ FilterIds \in Seq({FilterIds[i] : i \in 1..Len(FilterIds)}) /\ FilterIds # <<>>
    /\ Obeyed \subseteq {FilterIds[i] : i \in 1..Len(FilterIds)}
    /\ Devices \subseteq [mini : BOOLEAN, supports : BOOLEAN, own : {"default", "other"}]
    /\ MaxRestarts \in Nat

Captures == 1..NumCaptures
Again(c) == -c             \* the task that sets a capture's values again
Agains == {Again(c) : c \in Captures}
Actors == Captures \cup Agains \cup Moves
Values == 0..NumCaptures
IdSet == {FilterIds[i] : i \in 1..Len(FilterIds)}
Spaces == {"default", "other"}
Params == {"exp", "gain"}

Steps == {"none", "lock", "filter", "default", "spare", "exp", "gain", "quick",
          "exp2", "gain2", "frames", "start", "runexp", "rungain", "runframes",
          "done", "failed"}

VARIABLES
    phase,      \* of the session: "idle", "busy" (configuring, starting) or "exposing"
    cap,        \* the last capture started, capture_id
    asked,      \* requested_gain
    step,       \* what each actor does next
    goal,       \* the filter it is about; the namespace, of a task that sets again
    tries,      \* the filter ids it has still to try
    gain,       \* the gain it writes, as it read it
    reached,    \* history: whether its values were confirmed in its namespace
    index,      \* camera_state.filter_index
    preferred,  \* _ws_v3_filter_param_id
    live,       \* _v3_live_parameters_supported
    space,      \* _v3_capture_param_mode_id
    guard,      \* holder of the filter lock
    pos,        \* the wheel's own position, FilterWheelState.position
    doubt,      \* history: the filter selected was not confirmed by the device
    spoilt,     \* history: whether another's task may have replaced them, or the
                \* connection's end lost them, since they were to be set again
    restarts,
    busy,       \* the actor whose command is outstanding
    out,        \* commands the device has not carried out
    inn,        \* answers and notifications the session has not read
    dev,        \* the device's values, [quick, run]
    own,        \* its namespace for captures
    mini,       \* whether its filter is a field of the start and of nothing else
    supports,   \* whether it takes values before and after the start
    wheel,      \* its filter
    shot,       \* the capture it runs, or 0
    stage       \* whether it has loaded its presets a second time

sessionVars == <<cap, asked, reached, live, space>>
filterVars  == <<index, preferred, guard, pos, doubt>>
actorVars   == <<step, goal, tries, gain>>
wireVars    == <<busy, out, inn>>
deviceVars  == <<dev, own, mini, supports, wheel, shot, stage>>
epochVars   == <<restarts, spoilt>>
settingsVars == <<phase, sessionVars, filterVars, actorVars, wireVars, deviceVars, epochVars>>

Commands == [cmd : {"exp", "gain", "quick"}, id : Spaces \cup {"live"}, val : Values, of : Values]
            \cup [cmd : {"int"}, id : Spaces \cup {"live"}, val : {0}, of : Values]
            \cup [cmd : {"int"}, id : IdSet, val : Filters, of : Values]
            \cup [cmd : {"start"}, id : {"live"}, val : Filters, of : Values]
Inputs == [cmd : {"exp", "gain", "int", "quick", "start"}, res : {"ok", "no", "minus"}]
          \cup [cmd : {"space", "elapsed"}, res : Spaces]

SessionTypes ==
    /\ phase \in {"idle", "busy", "exposing"} /\ cap \in 0..NumCaptures
    /\ asked \in Values /\ reached \in BOOLEAN
    /\ index \in Filters \cup {Nil} /\ pos \in Filters \cup {Nil}
    /\ preferred \in IdSet \cup {Nil} /\ guard \in Actors \cup {Nil}
    /\ live \in {"unknown", "yes", "no"} /\ space \in Spaces \cup {Nil}
    /\ doubt \in BOOLEAN /\ restarts \in 0..MaxRestarts /\ spoilt \in BOOLEAN

ActorTypes ==
    /\ step \in [Actors -> Steps]
    /\ goal \in [Actors -> Filters \cup Spaces \cup {Nil}]
    /\ tries \in [Actors -> Seq(IdSet)] /\ gain \in [Actors -> Values]

WireTypes ==
    busy \in Actors \cup {Nil} /\ out \in Seq(Commands) /\ inn \in Seq(Inputs)

DeviceTypes ==
    /\ dev \in [quick : [Params -> Values], run : [Params -> Values]]
    /\ own \in Spaces /\ wheel \in Filters /\ mini \in BOOLEAN /\ supports \in BOOLEAN
    /\ shot \in Values /\ stage \in {"start", "loaded"}

SettingsTypeOK ==
    /\ SessionTypes /\ ActorTypes /\ WireTypes /\ DeviceTypes
    /\ phase = "busy" => step[cap] \notin {"none", "done", "failed"}

Preset == [p \in Params |-> 0]

SettingsInit ==
    /\ phase = "idle" /\ cap = 0 /\ asked = 0 /\ reached = FALSE
    /\ step = [a \in Actors |-> "none"] /\ goal = [a \in Actors |-> Nil]
    /\ tries = [a \in Actors |-> <<>>] /\ gain = [a \in Actors |-> 0]
    /\ index = Nil /\ preferred = Nil /\ live = "unknown" /\ space = Nil
    /\ guard = Nil /\ pos = Nil /\ doubt = FALSE /\ restarts = 0
    /\ spoilt = FALSE
    /\ busy = Nil /\ out = <<>> /\ inn = <<>>
    /\ dev = [quick |-> Preset, run |-> Preset]
    /\ \E d \in Devices : own = d.own /\ mini = d.mini /\ supports = d.supports
    /\ wheel \in Filters /\ shot = 0 /\ stage = "start"

Goes(a, s) == step' = [step EXCEPT ![a] = s]
Idle(a) == step[a] \in {"none", "done", "failed"}

(***************************************************************************)
(* The filter                                                              *)
(***************************************************************************)

\* Once an id is known it is the only one that is tried.
Candidates == IF preferred # Nil THEN <<preferred>> ELSE FilterIds

\* PUT position, and PUT connected of a wheel whose filter is not known.
Move(m, f) ==
    /\ step[m] = "none"
    /\ Goes(m, "lock") /\ goal' = [goal EXCEPT ![m] = f]
    /\ UNCHANGED <<phase, sessionVars, filterVars, tries, gain, wireVars, deviceVars, epochVars>>

\* set_filter_position, with the lock: nothing is sent for the filter that is
\* selected already, nor to a device whose start carries the filter.
Selects(m) ==
    /\ step[m] = "lock" /\ guard = Nil
    /\ \/ /\ index = goal[m] \/ mini
          /\ Goes(m, "done")
          /\ index' = goal[m] /\ pos' = goal[m]
          /\ UNCHANGED <<guard, tries>>
       \/ /\ index # goal[m] /\ ~mini
          /\ Goes(m, "filter")
          /\ guard' = m /\ tries' = [tries EXCEPT ![m] = Candidates]
          /\ UNCHANGED <<index, pos>>
    /\ UNCHANGED <<phase, sessionVars, preferred, doubt, goal, gain, wireVars, deviceVars,
                   epochVars>>

\* PUT connected of a wheel whose filter is known.
ConnectWheel ==
    /\ index # Nil
    /\ pos' = index
    /\ UNCHANGED <<phase, sessionVars, index, preferred, guard, doubt, actorVars, wireVars,
                   deviceVars, epochVars>>

\* GET position of a wheel that outlived the session it was connected to.
GetPosition ==
    /\ index = Nil /\ pos # Nil
    /\ index' = pos /\ doubt' = TRUE
    /\ UNCHANGED <<phase, sessionVars, preferred, guard, pos, actorVars, wireVars,
                   deviceVars, epochVars>>

\* A write of the filter is over and did what it was for; it is sure to have when
\* the answer was the device's own and no notification taken for one.
Selected(a, sure) ==
    /\ index' = goal[a]
    /\ preferred' = Head(tries[a]) /\ doubt' = ~sure
    /\ pos' = IF a \in Moves THEN goal[a] ELSE pos
    /\ guard' = IF guard = a THEN Nil ELSE guard
    /\ tries' = [tries EXCEPT ![a] = IF a \in Captures /\ step[a] # "filter"
                                     THEN <<Head(tries[a])>> ELSE <<>>]
    /\ Goes(a, IF a \in Moves THEN "done" ELSE IF step[a] = "filter" THEN "exp" ELSE "filter")
    /\ UNCHANGED <<phase, goal>>

\* Mutant of Unconfirmed: the filter is taken for the selected one.
UnconfirmedSelects(a) == Selected(a, TRUE)

\* Mutant of Unconfirmed: the filter lock is not released.
UnconfirmedKeepsLock(a) ==
    /\ doubt' = TRUE /\ preferred' = Head(tries[a])
    /\ Goes(a, "failed") /\ tries' = [tries EXCEPT ![a] = <<>>]
    /\ phase' = IF a = cap THEN "idle" ELSE phase
    /\ UNCHANGED <<index, pos, goal, guard>>

\* It was not confirmed, by the last of the ids: that one is kept.  A capture
\* that has no filter selected tries the default once more.
Unconfirmed(a) ==
    /\ doubt' = TRUE
    /\ UNCHANGED <<index, pos, goal>>
    /\ IF Len(tries[a]) > 1
       THEN /\ tries' = [tries EXCEPT ![a] = Tail(@)]
            /\ UNCHANGED <<phase, preferred, guard, step>>
       ELSE /\ preferred' = Head(tries[a])
            /\ guard' = IF guard = a THEN Nil ELSE guard
            /\ IF step[a] = "default"
               THEN /\ Goes(a, "spare") /\ tries' = [tries EXCEPT ![a] = <<Head(tries[a])>>]
                    /\ UNCHANGED phase
               ELSE /\ Goes(a, "failed") /\ tries' = [tries EXCEPT ![a] = <<>>]
                    /\ phase' = IF a = cap THEN "idle" ELSE phase

(***************************************************************************)
(* A capture's configuration                                               *)
(***************************************************************************)

\* StartExposure, accepted.  A device whose start carries the filter needs none
\* set; for the others the one selected is written, or else the default.
Start(c) ==
    /\ phase = "idle" /\ c = cap + 1
    /\ phase' = "busy" /\ cap' = c /\ asked' = c /\ space' = Nil
    /\ reached' = FALSE /\ spoilt' = FALSE
    /\ LET f == IF index = Nil THEN Default ELSE index IN
       /\ goal' = [goal EXCEPT ![c] = f]
       /\ index' = IF mini THEN f ELSE index
       /\ Goes(c, IF mini THEN "exp" ELSE IF index = Nil THEN "lock" ELSE "filter")
       /\ tries' = [tries EXCEPT ![c] = IF mini THEN <<>> ELSE Candidates]
    /\ gain' = [gain EXCEPT ![c] = c]
    /\ UNCHANGED <<live, preferred, guard, pos, doubt, wireVars, deviceVars, restarts>>

\* StartExposure, refused: the gain it came with, no capture's, is kept all the same.
Refused ==
    /\ phase # "idle"
    /\ asked' = 0
    /\ UNCHANGED <<phase, cap, reached, live, space, filterVars, actorVars, wireVars,
                   deviceVars, epochVars>>

\* _ensure_default_filter: the default is selected as a request selects it.
SelectsDefault(c) ==
    /\ step[c] = "lock" /\ guard = Nil
    /\ IF index = Nil
       THEN Goes(c, "default") /\ guard' = c
       ELSE Goes(c, "filter") /\ UNCHANGED guard
    /\ tries' = [tries EXCEPT ![c] = Candidates]
    /\ goal' = [goal EXCEPT ![c] = IF index = Nil THEN Default ELSE index]
    /\ UNCHANGED <<phase, sessionVars, index, preferred, pos, doubt, gain, wireVars, deviceVars,
                   epochVars>>

RunSteps == {"runexp", "rungain", "runframes"}

\* The command an actor is about to send, or has sent.
Cmd(a) ==
    LET of == IF a \in Agains THEN -a ELSE IF a \in Captures THEN a ELSE 0
        into == IF a \in Agains THEN goal[a] ELSE "default"
        Writes(cmd, id, val) == [cmd |-> cmd, id |-> id, val |-> val, of |-> of] IN
    CASE step[a] \in {"filter", "default", "spare"} -> Writes("int", Head(tries[a]), goal[a])
      [] step[a] \in {"exp", "exp2"}   -> Writes("exp", "live", of)
      [] step[a] \in {"gain", "gain2"} -> Writes("gain", "live", gain[a])
      [] step[a] = "frames"            -> Writes("int", "live", 0)
      [] step[a] = "quick"             -> Writes("quick", "live", gain[a])
      [] step[a] = "start"             -> Writes("start", "live", index)
      [] step[a] = "runexp"            -> Writes("exp", into, of)
      [] step[a] = "rungain"           -> Writes("gain", into, gain[a])
      [] step[a] = "runframes"         -> Writes("int", into, 0)

Sendable(a) == step[a] \notin {"none", "lock", "done", "failed"}

Spoilt(yes) == spoilt \/ (yes /\ cap > 0 /\ step[Again(cap)] # "none")

\* _send_and_check and _send_request.
SendCommand(a) ==
    /\ Sendable(a) /\ step[a] # "start" /\ busy = Nil
    /\ busy' = a
    /\ out' = Append(out, Cmd(a))
    /\ spoilt' = Spoilt(a \notin Moves \cup {cap, Again(cap)})
    /\ UNCHANGED <<phase, sessionVars, filterVars, actorVars, inn, deviceVars, restarts>>

\* The capture is given up before it is started.
Fails(a) ==
    /\ Goes(a, "failed")
    /\ phase' = IF a = cap THEN "idle" ELSE phase

\* Where the configuration goes on when a command is done, and when the device
\* answers -1: it knows only stored presets, and a preset is what it is given.
After(s) ==
    CASE s = "exp" -> "gain" [] s = "gain" -> "quick"
      [] s = "exp2" -> "gain2" [] s = "gain2" -> "frames" [] s = "frames" -> "start"
      [] s = "runexp" -> "rungain" [] s = "rungain" -> "runframes"

AfterMinus(s) ==
    CASE s \in {"exp", "gain"} -> "quick" [] s \in {"exp2", "gain2"} -> "frames"
      [] s = "frames" -> "start"

\* The start is dispatched and what could be set is set: the capture runs,
\* unless it has been ended meanwhile.
Runs(a) ==
    /\ Goes(a, "done")
    /\ phase' = IF a = cap /\ phase = "busy" THEN "exposing" ELSE phase

\* _begin_request of the start: its answer is not waited for.  The gain is read
\* again for the values set after it.
SendStart(c) ==
    /\ step[c] = "start" /\ busy = Nil
    /\ out' = Append(out, Cmd(c))
    /\ gain' = [gain EXCEPT ![c] = asked]
    /\ IF live = "yes" THEN Goes(c, "runexp") /\ UNCHANGED phase ELSE Runs(c)
    /\ UNCHANGED <<sessionVars, filterVars, goal, tries, busy, inn, deviceVars, epochVars>>

\* An answer for the command that is outstanding.
Ok(a, sure) ==
    CASE step[a] \in {"filter", "default", "spare"} ->
             Selected(a, sure) /\ UNCHANGED <<gain, reached, live>>
      [] step[a] = "quick" ->
             /\ Goes(a, IF live = "yes" THEN "exp2" ELSE "start")
             /\ UNCHANGED <<phase, filterVars, goal, tries, gain, reached, live>>
      [] step[a] = "runframes" ->
             /\ Runs(a)
             /\ reached' = (reached \/ a = Again(cap))
             /\ UNCHANGED <<filterVars, goal, tries, gain, live>>
      [] OTHER ->
             /\ Goes(a, After(step[a]))
             /\ live' = IF step[a] = "gain" THEN "yes" ELSE live
             /\ UNCHANGED <<phase, filterVars, goal, tries, gain, reached>>

\* A refusal, or no answer in time.
Bad(a, minus) ==
    CASE step[a] \in {"filter", "default", "spare"} ->
             Unconfirmed(a) /\ UNCHANGED <<gain, reached, live>>
      [] step[a] \in RunSteps ->
             Runs(a) /\ UNCHANGED <<filterVars, goal, tries, gain, reached, live>>
      [] OTHER ->
             /\ IF minus /\ step[a] # "quick"
                THEN /\ Goes(a, AfterMinus(step[a])) /\ UNCHANGED phase
                     /\ live' = IF step[a] \in {"exp", "gain"} THEN "no" ELSE live
                ELSE Fails(a) /\ UNCHANGED live
             /\ UNCHANGED <<filterVars, goal, tries, gain, reached>>

Reads == inn' = Tail(inn)

\* The start is dispatched and the capture has not ended.
Started == (phase = "busy" /\ step[cap] \in RunSteps) \/ phase = "exposing"

\* A notification of a value in a namespace is an answer to any command that sets
\* one, and it names the namespace while a capture starts or runs.
Detected(m) == space' = IF Started THEN m.res ELSE space

Setting == {"exp", "gain", "int"}

\* Another integer's answer is still to come: the one at hand was an older one's.
Awaited(unread) ==
    \/ \E i \in 1..Len(out) : out[i].cmd = "int"
    \/ \E i \in 1..Len(unread) : unread[i].cmd = "int"

\* _dispatch_packet, for what concerns the settings.
Answer ==
    /\ inn # <<>> /\ Head(inn).cmd # "elapsed" /\ busy # Nil
    /\ LET m == Head(inn) a == busy IN
       /\ \/ m.cmd = Cmd(a).cmd
          \/ m.cmd = "space" /\ Cmd(a).cmd \in Setting
       /\ IF m.res \in {"no", "minus"} THEN Bad(a, m.res = "minus")
          ELSE Ok(a, m.cmd # "space" /\ ~Awaited(Tail(inn)))
       /\ IF m.cmd = "space" THEN Detected(m) ELSE UNCHANGED space
    /\ busy' = Nil /\ Reads
    /\ UNCHANGED <<cap, asked, out, deviceVars, epochVars>>

\* One that answers no command: the answer to a start that was refused ends its
\* capture, and one of a request that is not waited for is dropped.
Other ==
    /\ inn # <<>> /\ Head(inn).cmd # "elapsed"
    /\ LET m == Head(inn) IN
       /\ busy # Nil => m.cmd # Cmd(busy).cmd /\ ~(m.cmd = "space" /\ Cmd(busy).cmd \in Setting)
       /\ IF m.cmd = "space" THEN Detected(m) ELSE UNCHANGED space
       /\ phase' = IF m.cmd = "start" /\ m.res # "ok" /\ Started THEN "idle" ELSE phase
    /\ Reads
    /\ UNCHANGED <<cap, asked, reached, live, filterVars, actorVars, busy, out, deviceVars,
                   epochVars>>

\* Mutant of Elapsed: the namespace is taken for the one that is usual.
ElapsedDefault ==
    /\ inn # <<>> /\ Head(inn).cmd = "elapsed"
    /\ Reads
    /\ step' = [step EXCEPT ![Again(cap)] = "runexp"]
    /\ goal' = [goal EXCEPT ![Again(cap)] = "default"]
    /\ gain' = [gain EXCEPT ![Again(cap)] = asked]
    /\ UNCHANGED <<phase, sessionVars, filterVars, tries, busy, out, deviceVars, epochVars>>

\* The wait before the exposure is over, and with it the device's own loading of
\* presets: a task sets the values again, once in a capture.
Elapsed ==
    /\ inn # <<>> /\ Head(inn).cmd = "elapsed"
    /\ Reads
    /\ IF live # "no" /\ Started /\ step[Again(cap)] = "none"
       THEN /\ Goes(Again(cap), "runexp")
            /\ goal' = [goal EXCEPT ![Again(cap)] = IF space = Nil THEN "default" ELSE space]
            /\ gain' = [gain EXCEPT ![Again(cap)] = asked]
       ELSE UNCHANGED <<step, goal, gain>>
    /\ UNCHANGED <<phase, sessionVars, filterVars, tries, busy, out, deviceVars, epochVars>>

\* No answer in time.  A write of an integer leaves the connection as it is, and
\* may be carried out and answered later; any other closes it, and what is on its
\* way is lost.
TimesOut(a) ==
    /\ busy = a
    /\ Bad(a, FALSE)
    /\ busy' = Nil
    /\ spoilt' = Spoilt(Cmd(a).cmd # "int")
    /\ IF Cmd(a).cmd # "int" THEN out' = <<>> /\ inn' = <<>> ELSE UNCHANGED <<out, inn>>
    /\ UNCHANGED <<cap, asked, space, deviceVars, restarts>>

\* The connection is gone when a command is about to be sent, or a table that
\* is needed cannot be had, or a value is not in it.
CannotSend(a) ==
    /\ Sendable(a) /\ busy # a
    /\ IF step[a] \in RunSteps THEN Runs(a) /\ UNCHANGED tries
       ELSE IF step[a] = "default" THEN Goes(a, "spare") /\ UNCHANGED <<phase, tries>>
       ELSE Fails(a) /\ tries' = [tries EXCEPT ![a] = <<>>]
    /\ guard' = IF guard = a THEN Nil ELSE guard
    /\ UNCHANGED <<sessionVars, index, preferred, pos, doubt, goal, gain, wireVars, deviceVars,
                   epochVars>>

\* It ends, one way or another, and the device with it: a start on its way is
\* followed by the stop.
Ends ==
    /\ phase = "exposing"
    /\ phase' = "idle" /\ shot' = 0
    /\ out' = [i \in 1..Len(out) |-> IF out[i].cmd = "start" THEN [out[i] EXCEPT !.of = 0]
                                     ELSE out[i]]
    /\ UNCHANGED <<sessionVars, filterVars, actorVars, busy, inn, dev, own, mini, supports,
                   wheel, stage, epochVars>>

\* The server is started again, with nothing under way; the wheel's state, a
\* module's, is what it was.
Restart ==
    /\ restarts < MaxRestarts /\ phase = "idle" /\ \A a \in Actors : Idle(a)
    /\ restarts' = restarts + 1
    /\ index' = Nil /\ preferred' = Nil /\ live' = "unknown" /\ space' = Nil
    /\ asked' = 0 /\ reached' = FALSE /\ spoilt' = FALSE
    /\ out' = <<>> /\ inn' = <<>> /\ shot' = 0
    /\ UNCHANGED <<phase, cap, guard, pos, doubt, actorVars, busy, dev, own, mini, supports,
                   wheel, stage>>

(***************************************************************************)
(* The device                                                              *)
(***************************************************************************)

Says(m) == inn' = Append(inn, m)
Answers(c, res) == Says([cmd |-> c.cmd, res |-> res])

\* The values a capture begins with: the stored sequence, or, on a device that
\* takes values later, a preset of the firmware.
Stored == {dev.quick} \cup (IF supports THEN {Preset} ELSE {})

\* It carries out a command and answers.
Obeys ==
    /\ out # <<>>
    /\ LET c == Head(out) IN
       \/ /\ c.cmd \in Params
          /\ IF ~supports THEN Answers(c, "minus") /\ UNCHANGED dev
             ELSE /\ Answers(c, "ok")
                  /\ dev' = IF c.id = own THEN [dev EXCEPT !.run[c.cmd] = c.val] ELSE dev
          /\ UNCHANGED <<wheel, shot, stage>>
       \/ /\ c.cmd = "int"
          /\ IF c.id \in Obeyed THEN Answers(c, "ok") /\ wheel' = c.val
             ELSE Answers(c, IF c.id \in IdSet THEN "no" ELSE "ok") /\ UNCHANGED wheel
          /\ UNCHANGED <<dev, shot, stage>>
       \/ /\ c.cmd = "quick"
          /\ dev' = [dev EXCEPT !.quick = [exp |-> c.of, gain |-> c.val]]
          /\ Answers(c, "ok")
          /\ UNCHANGED <<wheel, shot, stage>>
       \/ /\ c.cmd = "start"
          /\ \/ /\ shot' = c.of /\ stage' = "start" /\ wheel' = c.val
                /\ \E run \in Stored : dev' = [dev EXCEPT !.run = run]
                /\ Answers(c, "ok")
             \/ Answers(c, "no") /\ UNCHANGED <<dev, wheel, shot, stage>>
    /\ out' = Tail(out)
    /\ UNCHANGED <<phase, sessionVars, filterVars, actorVars, busy, own, mini, supports, epochVars>>

\* It loads its presets once more before it exposes, and says so.
Loads ==
    /\ shot # 0 /\ stage = "start"
    /\ stage' = "loaded"
    /\ \E run \in Stored : dev' = [dev EXCEPT !.run = run]
    /\ inn' = (IF supports THEN Append(inn, [cmd |-> "space", res |-> own]) ELSE inn)
              \o <<[cmd |-> "elapsed", res |-> own]>>
    /\ UNCHANGED <<phase, sessionVars, filterVars, actorVars, busy, out, own, mini, supports, wheel,
                   shot, epochVars>>

(***************************************************************************)
(* Specification                                                           *)
(***************************************************************************)

Works(c) == SelectsDefault(c) \/ SendStart(c)
Does(a) == SendCommand(a) \/ TimesOut(a)

SettingsNext ==
    \/ \E c \in Captures : Start(c) \/ Works(c)
    \/ \E m \in Moves : Selects(m) \/ \E f \in Wanted : Move(m, f)
    \/ \E a \in Actors : Does(a) \/ CannotSend(a)
    \/ Refused \/ ConnectWheel \/ GetPosition
    \/ Answer \/ Other \/ Elapsed \/ Ends \/ Restart
    \/ Obeys \/ Loads

SettingsSpec == SettingsInit /\ [][SettingsNext]_settingsVars

\* The server does what it can do: its tasks run, and a wait for an answer ends.
Serves ==
    \/ \E c \in Captures : Works(c)
    \/ \E m \in Moves : Selects(m)
    \/ \E a \in Actors : Does(a)
    \/ Answer \/ Other \/ Elapsed

FairSpec == SettingsSpec /\ WF_settingsVars(Serves)

(***************************************************************************)
(* Properties                                                              *)
(***************************************************************************)

Written == {out[i].cmd : i \in 1..Len(out)}

\* When the task that sets a capture's values again has them confirmed, the device
\* has them for as long as the capture runs, whichever presets it loaded before
\* and whatever its namespace is; and one that takes no such values has them from
\* the stored sequence.  No refused StartExposure has brought another gain.
SettingsReached ==
    shot # 0 /\ shot = cap /\ asked = cap /\ ((reached /\ ~spoilt) \/ ~supports)
        /\ Written \cap Params = {}
    => dev.run = [p \in Params |-> cap]

Selecting == busy # Nil /\ step[busy] \in {"filter", "default", "spare"}

\* The position the wheel reports is that of the filter before the sensor, unless
\* a write of it was not confirmed or is on its way.
PositionIsWheel ==
    ~mini /\ index # Nil /\ ~doubt /\ "int" \notin Written /\ ~Selecting => wheel = index

\* Every variable has its type, and the position its filter.
Inv == SettingsTypeOK /\ PositionIsWheel

\* A filter request returns, and so does a StartExposure.
RequestsReturn ==
    /\ \A m \in Moves : step[m] # "none" ~> Idle(m)
    /\ phase = "busy" ~> phase # "busy"
=============================================================================
