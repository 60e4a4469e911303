# A TLA+ model of dwarfAlp

dwarfAlp is an ASCOM Alpaca server for DWARF smart telescopes. An Alpaca client
(NINA, for example) sends HTTP requests; the FastAPI routers in `devices/` call
one `DwarfSession` (`dwarf/session.py`), which talks protobuf over one websocket
(`dwarf/ws_client.py`), fetches files by FTP and HTTP, and turns device
notifications into state that the routers report. Everything a request does runs
on one asyncio event loop: a coroutine runs undisturbed between two `await`s, so
the unit of interleaving is the code between two awaits. That is what an action
is here. Beside the server there are the window that starts and stops it in a
thread of its own, the provisioning of the device over Bluetooth, and two
scripts that manage the device's shooting plans.

Paths below are relative to `src/src/dwarf_alpaca/` unless they begin with `docs/`,
`tests/` or `scripts/`; a number alone is a line of `dwarf/session.py`.

## 1. Inventory

| Component | State | Operations | Talks to | Hard because | Correct when |
| --- | --- | --- | --- | --- | --- |
| Websocket client, `dwarf/ws_client.py` | connection, reader and ping tasks, lock, pending table, alias table | connect, close, send_request, begin_request, cancel_pending, reader loop, dispatch | device; session notification handlers | answers carry no sequence number; timeout, cancellation, flush and dispatch race for a future; an old reader resets the new connection | an answer completes the request it belongs to, once; nothing stays registered; every call returns |
| Session: connection, 851-922, 1966-2463 | reference counts, session lock, master-lock flag and lock, command lock | acquire, release, _ensure_ws, _ensure_master_lock, _release_master_lock, _send_and_check | websocket client; all routers | four locks, one of which is replaced on timeout; reconnection in two places | teardown only without references; control is given up; requests return |
| Session: capture, 1343-1422, 3438-3716, 5250-5997, 6401-6548, and the camera router | phase, capture id, task, image, counts, device state, baselines, two monitors | start, abort, notifications, readiness wait, fetch task | FTP client, HTTP album | checks before awaits, state used after them; late notifications and rejections; cancellation in any await | a result is the current capture's; a start waits for the device; an abort stops it; busy ends |
| FTP client, `dwarf/ftp_client.py` | last file and its time | wait_for_new_photo | the device's FTP server | a walk over directories the device is writing; three notions of a file's time; baseline | the frame delivered is of this exposure, and a frame that is there is found |
| Session: GoTo, 2531-3340, and the telescope router | pending GoTo, target record, one-click command and monitor; slewing flag, slew task | slew, abort, completion, tracking notifications | websocket | superseded slews, late notifications, two coroutines write one flag | what is reported as reached was reached; an abort stops; Slewing ends |
| Session: manual motion, and the telescope router | recorded rates, joystick flag | MoveAxis, stops, halt before a slew | websocket | one vector command for two axes; recorded rates against executed ones | an axis that was stopped stays at rest; motion can be stopped |
| Session: focuser, 6817-7100, and the focuser router | position, moving, update event | move, halt, connect, disconnect, notifications | websocket | halting against stepping, deadlines, stale positions | the motor has an owner; a move arrives |
| Session: filter, exposure, gain, and the filter-wheel router | selected filter, preferred ids, parameters asked for | set_filter_position, presets, reapply task | websocket | ids that firmware ignores; three ways a write is confirmed; changes during a capture | what is confirmed is what the device uses |
| Session singleton, server and window, `server.py`, `gui/server.py`, `gui/workers.py`, end of `dwarf/session.py` | module-level session, threads, events, buttons | get_session, configure_session, shutdown_session, preflight, serve, monitor, start, stop | all | three threads and three event loops reach one global variable | a session is used in its own loop; nothing is left held; the buttons tell the truth |
| Provisioning, `dwarf/ble_provisioner.py`, `provisioning/`, `dwarf/state.py` | dialogue, state file, the window's copy | provision, scan, load, save | Bluetooth, the window | late packets, a device that is on another network, lost updates of one file | the address is on the network asked for, or on one the device was on meanwhile, and its password is saved |
| Scripts: shooting plans, `scripts/dwarf_schedule.py`, `scripts/schedule_plan.py` | a plan file, the device's list | list, export, delete, sync | websocket | times of day that become days; the list changes between two requests | tasks keep their order; an exported plan comes back |
| Exposure table, HTTP, RTSP, discovery, management, command line, profiles, names, generated code | none to speak of | - | - | I/O, tables, text | - |

`PROJECT.json` lists every component with its status and, under `hazards`, what
in this code a test would hardly reach, with the property that covers it or the
reason why none does.

## 2. Modules

| Module | Models | State and actions |
| --- | --- | --- |
| `WsClient` | `DwarfWsClient` whole, except pings | `conn`, `sock`, `reader`, `lock`, `closer` are `_conn`, the sockets, the reader tasks, `_lock` and the progress of `close()`; `pending` and `aliases` are the two tables; `pc`, `fut`, `answer` are a call and its future. `Begin` .. `Raise` are one call from `connect()` to its end; `Dispatch` is `_dispatch_packet`; `ReaderStart`, `ReaderEnds`, `ReaderCancelled` the reader; `CloseBegin` .. `CloseEnd` are `close()` between its awaits |
| `Connection` | acquire, release, `_ensure_ws`, the master lock, the command lock | `refs`, `sessLock`, `masterLock`, `flag`, `cmdLock`/`holder` are `_refs`, `_lock`, `_master_lock_lock`, `_master_lock_acquired`, `_ws_command_lock` and who holds each lock object; `conn`, `wsLock` and `sockets` (what became of each) reduce the websocket client; `granted` is whether the device gave control, `unsure` that the last exchange about it failed, a history; `pc[c]` is a request |
| `Capture` | the astronomy capture of a V3 device | `phase`, `captureId`, `task`, `image`, `current`, `op` are the fields of `CameraState` and the session; `pc[s]` is a StartExposure request, `fetch[s]` its fetch task and `ftp[s]` the FTP task under it, `startTask`/`stopTask` the monitors; `dev`, `devCap`, `notes`, `newest` the device, its notifications under way and its newest file |
| `Retrieval` | the FTP task's `wait_for_new_photo` | `dirs`, `names`, `entries`, `pick` are the local variables of the walk; `BeginWalk`, `OpenDir`, `LookAt`, `EndWalk` its steps, `Write` the device's |
| `Delivery` | abstract: what a retrieval promises | `Retrieval` implements it: `Promise == INSTANCE Delivery WITH ...`, `Delivers == Promise!Spec` |
| `Goto` | slews, AbortSlew, MoveAxis and Connected as far as they touch a slew | `pending`, `result`, `target`, `oneClick` are `_goto_pending`, `_goto_result`, `_last_goto_target`, `_one_click_goto_active`; `slewing`, `rate`, `task`, `position` the router's; `tpc[s]` is the task that reports a slew, `entry` the command whose late response a monitor awaits; `inbox`, `wire`, `device` the commands and the messages under way and the mount |
| `Motion` | MoveAxis, stops and the halt of both axes | `rates`, `active` are `_manual_axis_rates`, `_joystick_active`; `stage[r]` is a request, `vector[r]` the command it is about to send; `lock` is the command lock with its queue; `moving` is what the mount executes |
| `Focuser` | moves, nudge, Halt, Connected, position reports | `position`, `isMoving`, `connected` are the fields of `FocuserState`, `event` is `_focus_update_event`; `lens` and the motor are the device's |
| `Settings` | filter wheel, exposure, gain and frame count, the reapply task | an actor is a capture's StartExposure, its reapply task or a request of the wheel; `step[a]` is the write it is at; `inn`, `out` the wire; a restart forgets the session and keeps the device |
| `Lifecycle` | window, preflight, server thread with lifespan, monitor, calibration and requests, the global session | `at[t]` is where a task is, `current` the global session, `uses[t]` the session a task has in hand; `held` the sessions that have the device's lock, `kept` those whose device did not take it back when told; `posted` the signals on their way to the window |
| `Provisioning` | the Bluetooth dialogue, the workflow, `connectivity.json`, the window's copy | `file`, `latest`, `copy[j]` are the file, `_latest_state` and what a job loaded; `asked` what the device was asked and has not done yet (a request to join a network outlives its job), `wire` the packets on their way; `seen` the networks the device was on since the connection was made, a history |
| `Schedules` | the two scripts, the device's list, the telephone's app | `parsed`, `midnight`, `minStart`, `maxEnd` are the local variables of `sync_plan`; `plans` is the device's list; `zone` is `tz`, `Wall` what `fromtimestamp` makes of a time |
| `WsClientProofs`, `ConnectionProofs`, `CaptureProofs`, `RetrievalProofs`, `FocuserProofs` | theorems about the module each is named after | - |
| `ShootingProofs` | theorems about `Schedules` and `Settings` (whose definitions have names of their own, so that one module can extend both) | - |
| `MountProofs` | theorems about `Goto` and `Motion` (whose definitions have names of their own, so that one module can extend both) | - |
| `WindowProofs` | theorems about `Lifecycle` and `Provisioning`, what the window starts (the two share no name, so that one module can extend both) | - |
| `MC...` | values for TLC | - |

`Connection`, `Capture`, `Goto`, `Motion`, `Focuser` and `Settings` use the websocket
through what `WsClient` promises about it: a command is answered by its own
answer, fails, or times out. This link is a matter of reading, not of a
refinement: `WsClient` tells requests by their keys, the others by who sent
them, and in `Goto` and `Settings`, where two commands of one key can be
outstanding, the model lets an answer be late and meet the wrong one.
`Capture` takes from `Retrieval` what `Delivery` promises and the clock tolerance
allows: a file that is the capture's, a recent one of the capture before, or none.

## 3. Runs

Every run asks whether what it lists holds, and all hold.

| Run | Question | Instance | States | Time |
| --- | --- | --- | --- | --- |
| `Ws` | Can an answer reach the wrong request, an entry be left, a connection be open and unread, a call hang? | 2 calls of one command, one with an alias; 2 sockets; `close()` | 265,490 | 80 s |
| `Connection` | Does the last release tear down only what nobody uses and leave the device free? Does every request return? | 2 devices, 5 requests, 2 sockets, 3 lock objects | 61,465 | 54 s |
| `CaptureSafety` | Can one capture's file, count or task end another? Does a start wait for the device, an abort stop it? | 2 starts of two frames and one, 2 aborts, a disconnection and a reconnection, every fault, Mini; `View` | 1,241,875 | 55 s |
| `CaptureLiveness` | Do busy phases end, starts and aborts return? | 2 starts, an abort, refusals and timeouts | 340,423 | 107 s |
| `Retrieval` | Is the frame delivered one of this exposure (refinement of `Delivery`)? Is one that is there found? Does it end? | exposure at 4, deadline 6, tolerance 1; 2 directories a walk, 2 new files | 693,586 | 37 s |
| `Goto` | Was what is reported as reached reached? Does an abort leave the mount at rest? Does Slewing end? | 2 slews, an abort, another request, 2 messages under way | 228,333 | 20 s |
| `Motion` | Does a stopped axis stay at rest? Does the session know that the mount moves? | 3 requests, 2 axes | 181,570 | 43 s |
| `Focuser` | Has the running motor an owner? Does an undisturbed move arrive? | 2 moves, another request, positions 0..3, 2 reports under way | 241,745 | 66 s |
| `Settings` | Does the device use what was confirmed? | a capture, a wheel request, 2 filters, 2 ids, a restart, three kinds of device | 427,863 | 99 s |
| `Lifecycle` | Is a session used in its own loop only? Is nothing left held? Are the buttons right? Do starts and stops end? | a start, 3 session objects, a request | 208,141 | 159 s |
| `Provisioning` | Which network can a job's address be on? Is its password saved? Do jobs end? | 2 jobs, a scan, 2 networks, a write by the window, a packet under way | 414,968 | 155 s |
| `Schedules` | Are tasks placed in order? Does an exported plan come back with its times? | days of 3 minutes, 2 plans of up to 2 tasks, a change of the clock, names symmetric | 7,931,644 | 141 s |

**Bounds, and why they are enough.**

- `Ws`: two requests of one key are what it takes for an answer, a timeout or a pop to
  meet a stranger's entry; two sockets are an old and a new connection, the only
  relation the client knows. Three calls of two commands over one socket (606,805
  states) hold too.
- `Connection`: two devices make a reference that is and one that is not the last.
  `MaxLocks` lock objects are the first one and the successors of two timeouts; a
  timeout happens only while another may be created. The safety properties hold with
  three sockets too (204,456 states).
- `Capture`: two captures are a current and a previous one, an abort separates them
  and a second abort is the retry of one that failed. `MaxShots = 2` raw frames let a
  sequence end by count and a single frame be overtaken by a late one; `MaxNotes = 2`
  notifications let one be late. Three starts of a patient client
  (`Starts <- MCThreeStarts`, `Patient = TRUE`, an abort, every fault) hold as well, in
  3,766,167 states. A third start of an impatient client is section 4, item 7.
- `Goto`: two slews are a current and a superseded one; `MaxWire = 2` lets a message be
  overtaken by a request. `Motion`: three requests are a motion, its stop and
  a request of the other axis between them.
- `Focuser`: positions 0..3 hold a distance within `Near`, one beyond it and both ends of
  the range; `MaxNudges = 1` lets a nudge succeed and be used up.
- `Settings`: two ids are a preferred one and a fallback; a capture takes the filter
  `f1` when none is selected, and `Wanted = {f2}` lets a request select the other. The
  safety properties, and each part of the invariant of section 5, hold for two captures
  without wheel requests and restarts too (1,450,366 states).
- `Lifecycle`: a start with its own stop reaches every hand-over of the global variable.
  Two starts and four sessions (14.8 million states) hold too.
- `Provisioning`: two jobs and a scan are two writers and a reader of one file; two
  networks are the one the device is on and the one asked for. The device carries out
  what it was asked in any order, for a job that is gone too, or never. It leaves a
  network only while it carries out a request to join one, and then for that network,
  its own, or back.
- `Schedules`: a day of three minutes has a task before, across and after midnight;
  the clock is put forward by one in the middle of a plan of the app and before
  another, and is or is not ahead as the script injects.
- `Retrieval`: three directories (two within `MaxDirs`), files with and without a
  time in their names, a server that tells times and one that does not.

`CaptureSafety` compares states by `View` (`MCCapture`), which leaves out what no
step and no property of the run reads again: the verdict and the capture id of a
monitor that has ended, and the retrieval of a fetch task that is done.

**Runs may stop.** Every request is made once, so the system may come to rest:
`CHECK_DEADLOCK FALSE` everywhere. What must not stop is stated by the liveness
properties.

**Fairness.** A coroutine that can run is run (the event loop is fair), every
wait for the device has a timeout, and an open handshake succeeds or fails.
Hence weak fairness of the steps of a call, a task, a monitor, a reader, an
abort and a request. In `Goto` the messages under way are read and carried out, in
`Focuser` and `Settings` those that arrived are read, in `Retrieval` time passes. In
`Lifecycle` waiting for an asyncio lock is strongly fair: the lock is a queue, so a
waiter gets its turn although others take the lock in between; and the preflight
gives up at its deadline however often its attempts are retried. Nothing is
assumed of clients, who need not call at all, nor of devices, which may leave
every question unanswered.

**Assumptions about clients and devices.**

- `Serial = TRUE` in the Capture runs: the Alpaca client makes a request of the camera
  when its last one returned; in `Connection` the same for each device, while
  different devices interleave. `Overlap = FALSE` in `Goto`: the same for the
  telescope. `Motion` and the moves of `Focuser` interleave freely.
- `Recent = FALSE`: the last file of a capture is older than the 15 s tolerance
  when the next one starts (section 4, item 4). `Retrieval` assumes that the
  device's and the computer's clocks agree and that files appear whole.
- In `CaptureLiveness` no socket is lost, see section 4.
- In `Settings` the device carries commands out in order and answers each of them,
  if late: the answer to an integer that timed out may meet a later one of its kind,
  while any other command that times out closes the socket and is lost with all that
  is on its way (`_send_request`, 2019-2073). `LateEnd = FALSE` in `Lifecycle`: a stopped thread ends
  before the next preflight does. `SaysReached` excepts the one-click GoTo, which is
  pending before the device has acknowledged it.

## 4. Disagreements met while modelling

Where the code and what is said of it differ, the models contain what the code
does, and the properties state what holds in spite of it. None of these has a run.

1. `close()` awaits the cancelled reader, whose `finally` sets `_conn = None`, and so never
   closes the socket (`dwarf/ws_client.py:124`, 310-312; `tests/test_ws_client.py:185`
   expects it to). The models let go of it and leave it open: what was written to it
   the device may still do, and what it answers nobody reads. `ReleasedIsFree` and
   `NothingHeld` speak of the session's connection and of control, not of the socket.
2. A start writes its next phase without looking whether it was aborted while
   configuring (3609), and leaves a busy phase with no owner
   (`docs/development/architecture.md:87`).
3. The busy check (3468) precedes awaits, so two concurrent starts pass it
   (`docs/development/architecture.md:92`).
4. A frame of the previous capture is accepted if it is less than 15 s older than the
   start (6495, `dwarf/ftp_client.py:305`; `docs/development/architecture.md:112`).
5. A timeout replaces the command lock under its waiters (901), so that a second
   command can be outstanding (`docs/development/architecture.md:70`).
6. `begin_request` reconnects on its own (`dwarf/ws_client.py:169`); the session believes
   it still has control (`docs/development/websocket-protocol.md:52`).
7. A start that is refused as busy has already overwritten `requested_frame_count`
   (`devices/camera.py:690`), which the running capture's stop condition reads. With
   three starts of an impatient client, and the word that the device runs lost with
   the socket, a start finds the device running: `AcceptedAtRest`, `CountsAreOwn` and
   `ReadyIsCurrent` fail. Without lost sockets three impatient starts hold (458,212
   states). The refused start overwrites `requested_gain` too.

**Capture.** A `ConnectionClosed` during configuration is not among the exceptions the
camera router maps, so CONFIGURING stays, where `docs/development/architecture.md:89`
says "Configuration/transfer/decode error -> FAILED". An abort whose stop command
fails leaves ABORTING; a disconnection during a transfer, or a frame of an
unsupported type, leaves TRANSFERRING. Each refuses starts until an abort succeeds.
`docs/development/architecture.md:109` says the first new FITS sends 11006 at once; a
multi-frame sequence does not (6437-6443), on purpose. `IdleMeansStopped` needs the
serial client: an abort concurrent with another request can be followed by a
start command already under way.

**Connection.** The telescope and focuser routers acquire again when Connected is set
twice, and release once.

**GoTo.** With `Overlap = TRUE` an abort during the preparation of a slew does not cancel
it, and a task of an old slew is ended by a later slew whose acknowledgement timed out:
`AbortStops` and `SaysReached` fail, while `RecordIsReached` and `SlewingHasOwner`
hold (858,000 states). A tracking notification is accepted for whichever GoTo is
pending. `_goto_waiting_for_tracking` is written in five places and read by tests
only; `ensure_calibration`, `_schedule_calibration`, `_run_calibration_task` and
`_wait_for_calibration_ready` are never called.

**Motion.** A stop asked for while a motion's answer is outstanding sends nothing
and answers OK, and so does one after an answer was lost: hence `unsure` in
`StoppedStays`. A refused move stays recorded and is sent again with the other
axis's next vector. Connected = False and AbortSlew suppress failures to stop.

**Focuser.** `is_moving` stays true when `_ensure_ws` fails (6879 is outside the `try`).
Halt does not end the stepping loop of a Mini. A late notification sets `connected`
after a disconnection. A second move after a halt runs beside the first one's loop.

**Settings.** After every id failed the last one is kept (4803; the comment at 4767 says
otherwise). Answers carry no request number, so a late one, or a parameter
notification, confirms another write. A socket closed by a timed-out command of the
capture loses the reapply task's write though it was "confirmed". The reapply task
never looks whether its capture is still the current one, and
`_ensure_selected_filter` takes no filter lock. `docs/development/architecture.md:95-99`
describes the V2 parameter resolution, which no profile reaches.

**Lifecycle.** With `LateEnd = TRUE` and two starts `OwnSession` and `NothingHeld` hold, but
`ButtonsAreRight` fails: a preflight that ends while the previous thread winds up gets
"Server is already running", and both buttons stay disabled. `NothingHeld` excepts a
session (`loose`) that a failed shutdown or a replaced global variable has let go, and
allows for a device that keeps its lock (`kept`): `_release_master_lock` clears the flag
whether the device was reached (2220-2230), refused (2256-2260), did not answer
(2284-2291) or has the lock back. A link is what the session has of it, see item 1.

**Provisioning.** `provisioning/workflow.py:69` records an error in a state that was never
loaded, which erases the saved passwords (`docs/user-guide/provisioning.md:36`). The
window writes its own older copy over a newer file. An exception of the Bluetooth
connection escapes unrecorded. `StateStore.save` truncates the file before it writes, so
a load at that moment finds nothing. After the device was asked to join
a network the name in its configuration is not compared any more
(`dwarf/ble_provisioner.py:341-348`, compare 291-297): a device that still is, or is
again, on another network has that address taken for the one asked for.
`OwnNetwork` says what is left: such an address is one the device had since
the connection was made.

**Plans.** Deleting by number counts in the device's order
(`scripts/dwarf_schedule.py:304`) although the list shows another (155). Verification
accepts a plan of the same id or the same name (539; the docstring at 335 says id).
`sync_system_time` does not exist; the error is swallowed (347-351). An exported plan
loses its camera; a task that cannot be parsed becomes one from 21:30 to 23:00;
seconds are cut off. Times are exported by the rules of their own day (`fromtimestamp`,
201, 235) and injected with the offset of the present (370), so that a plan comes back
an hour early or late when the clock is, or has since been, changed between it and the
injection: `TimesComeBack` says by how much. `scripts/schedule_plan.py:175` calls a method that does not exist
after it has injected its plan. Ids of tasks, milliseconds plus 100 for each task, can
collide.

**Retrieval.** If the server does not tell a file's time, the time of the question stands
for it; only the newest entry of a walk is examined (`dwarf/ftp_client.py:300-303`), so
a new frame can be passed over: `NothingMissed` states an honest server. A frame
that is still being written is downloaded in part.

## 5. Proofs

Each proof module holds for every value of the constants its module's `ASSUME` allows;
nothing else is assumed, and nothing is cited that is not proved here or in the
library. The parts of each inductive invariant were model-checked before they
were proved.

`WsClientProofs`: `TypeCorrect`, inductive as it stands. `AliasesAreSound`,
`ResultsAreCorrelated` and `NoEntryLeaks` follow from the inductive `TableInv`; none of
the three is inductive alone: that an alias belongs to its request survives a pop
only if the table maps a key to a request of that key which is still under way.
Lemmas state once what popping, flushing, registering and dispatching do to both
tables. `FuturesCompleteOnce` is an action property: a completion is guarded by the
future being pending, whoever completes it. `ConnectionIsRead` and `OneCallOpens` follow
from `ConnectionInv`, which relates each socket to its reader, the lock's holder to the
one call that is opening, and `close()` to the reader it awaits.

`ConnectionProofs`: `ConnectionTypes`; its clause `cmdLock = 0 => made < MaxLocks` is what
lets a newcomer create a lock object. `TeardownUnreferenced`, `MasterCommandUnique` and
`ReleasedFree` follow from `IInv`, whose parts are kept each by the ones before it:
where a request of each kind may be; who holds each lock; that a request past its
beginning keeps its device acquired; that with no device acquired only a release in
progress has a connection or the flag set; that control the device has given, but for a
failed exchange, is flagged or about to be asked for again (`ControlInv`).

`CaptureProofs`: `TypeCorrect`, whatever fails and whatever the clients do, with the
facts that a running device has a capture and that what is fresh is a file.
`OneFetch` proves one registered fetch for a serial client (`ASSUME Serial`): requests
take turns, and while a start or an abort is under way every live task is one that
was cancelled (`TaskInv`). `ImageIsCurrent`, `CountsOwn`, `AbortStopsDevice` and
`StartsAtRest` follow from `CaptureInv`, which holds under `Turns`: a serial client, and
either a patient one (it starts nothing while a capture is under way) or only two
exposures; a third exposure of an impatient client breaks them (section 4, item 7).
`ImageIsCurrent` assumes `~Recent` too (item 4). The parts of `CaptureInv`, each kept by
those before it and itself:

- `PhaseInv`, `StopInv`: a phase that is not busy has no uncancelled task, and while a
  stop is unanswered no start's answer is awaited, so nothing can make the device run;
- `WatchInv`, `RestInv`: at most one start's answer is awaited, and from the moment a start
  is woken until its command is out the device is at rest;
- `NoteInv`: the word that the device has stopped is the last one under way. With it
  `ReadyInv`: the session takes the device to be ready only when it is at rest, or in a
  state that refuses starts. This is what makes the next start's readiness wait mean
  something although states come late;
- `OwnInv`, `FrameInv`: what the device makes, what is fresh, the image and a complete
  frame count are the current capture's.

`RetrievalProofs`: `TypeCorrect`, and `Implements`: every behaviour of `Retrieval`'s `Spec` is one
of `Delivery`. The inductive invariant (`Known`) says that what a walk has collected
exists and carries the time an honest server gives; with that, each step of
`Retrieval` is `Writes`, `Ends` or a stutter. `MissesNothing` is `NothingMissed`: what was
there when a walk began is walked or yet to be walked at each of its steps (`MissInv`),
so a walk that ends without a pick has seen every frame there was.

`MountProofs`, about `Goto`: `SlewingIsEnded` holds however requests overlap, from an
invariant on who may end Slewing (`Owned`). `ReachedAsSaid` and `AbortLeavesRest` assume
`~Overlap`, as the run does; without it both are false (section 4). Their invariant is
`GotoInv`. Both directions of the link keep their order, so an acknowledgement is read
before anything the mount said after it (`AskInv`, `TellInv`); a good acknowledgement says
what the mount does now (`DoesInv`); hence a task waits only for the slew the mount
is about (`WaitInv`), and a notification that is read while a GoTo is pending and no
acknowledgement is left to read is of that slew. `TurnInv`, `KindInv`, `AbortInv` and
`DoneInv` say whose turn it is, which slews are of the one-click kind, that an
abort has nothing pending, and that what is reported is of a slew that returned.

`MountProofs`, about `Motion`: `MotionTypeCorrect`; `MotionSeen` and `StopsHold` from the
invariant of which the parts are: who holds the command lock (`LockInv`), what axes a
request still has (`AxisInv`), that a command under way is the vector the session
recorded (`VectorInv`, `RateInv`, `OwnInv`, `AskedInv`), that an accepted motion is flagged
(`AcceptedInv`), and that a stopped axis has no rate in any vector to come (`StillInv`).

`FocuserProofs`: `TypeCorrect`, from which no goal leaves the range; `MotionHasOwner`, by
an invariant about where a request is when its command is on its way (`PlaceInv`,
`CmdInv`) and who still stops the motor (`LeftInv`).

`WindowProofs`, about `Lifecycle`: `SessionsAreOwn` and `NothingIsKept` hold for any number of
starts, sessions and requests, and also with `LateEnd = TRUE`; `WindowIsRight` assumes
`~LateEnd`, as the run does, and is false without it (section 4). `PointInv` and `AliveInv`
say which tasks can be alive together, `SignalInv` that the signals under way are those
of one thread with its end last, `ReadyInv` (the only part that needs `~LateEnd`) that a
preflight which ended finds no thread. `CurrentInv` is the heart of it: whenever the
global variable has a session, it is of the loop and the start of the thread that is
yet to shut it down, so a task that finds it there is of that thread (`OwnSession`) and
new settings never meet an older session (`ConfigureIdle`). `KeepInv` follows each link
and lock to whoever gives it back: what is neither loose nor kept by the device is the
global variable's or is being shut; two threads never shut the same one, because their loops differ
(`OneCleaner`). When both threads are gone neither is left.

`WindowProofs`, about `Provisioning`: `PasswordKept` and `AddressIsOwn`. One job has the link (`LinkInv`,
`ScanInv`); whatever the wire says of an address is one the device had since this
connection was made (`SeenInv`), since the wire is lost with the connection; where the
name is compared the address is of the network asked for (`NetInv`); and every copy of
the file keeps the address with its password (`CopiesInv`).

`ShootingProofs`, about `Schedules`: `TypeCorrect`, and `TasksInOrder` for days of any length and lists
of any tasks: each task is placed at or after the one before it, and the plan's bounds
are the first's start and the last's end. `RoundTrip` is `TimesComeBack`: a plan that was
exported and is injected again has the times it had, each moved by `Offset` at that time
less the offset at the injection (`BackInv`: the tasks placed so far are the exported
ones as the wall clock had them). It asks of the plan what one date and times of day can
tell: that on the wall clock the tasks are in order, less than a day apart, and no
longer than a day.

`ShootingProofs`, about `Settings`: `SettingsInvariant` (the types, and `PositionIsWheel`) and
`SettingsAreReached`, for any number of captures, filter requests, filters, ids and
devices. Neither is inductive: both are about what a device does with commands that
are answered by kind and not by request, so the invariant, `SettingsInv`, has to follow
each kind along the wire. It rests on one fact: a command is sent when no other is
outstanding, hence the outstanding one is the last on its way (`LastInv`), by an actor
at a known step (`PlaceInv`). From there

- `FilterInv`: while a filter is being written and nothing is left to carry out, the last
  integer answer that is unread is its own. An earlier one may be a late answer to a
  write that timed out; this is why an answer with another integer on its way counts as
  unconfirmed (`doubt`), and why `WheelInv`, that a confirmed filter is the wheel's and no
  write of another is on its way, survives late answers;
- `QuickInv`: once the write of the stored sequence is answered the device holds this
  capture's. It needs that a timeout of it closes the socket: otherwise an answer to an
  older capture's would be taken for it;
- `RestInv` and `StartInv`: before a capture sends its start no other start, nor its news,
  is on the way; afterwards its start, the answer, the namespace and the end of the wait
  come once and in this order, so the task that sets the values again begins after the
  device has loaded its presets for the second and last time;
- `SpaceInv`, `StoredInv`, `AgainInv`: the namespace is the device's own, and each value the
  task has come past is the device's or, with no later write of another value
  behind it, on its way (`Settles`).

`SettingsReached` excepts three cases in which the code does not hold it: a
StartExposure that was refused has brought another gain (`asked`), an older capture's
task is still writing, or the socket was lost under the task (`spoilt`).

**Only model-checked.** Every liveness property (with fairness and `ENABLED` it is out of
the prover's reach), `Focuser`'s `MoveArrives` among them. Every safety invariant and
every action property of the runs is a theorem.

## 6. What is left

In this order: an abstract request and response specification that `WsClient`
implements and the modules above it use; an abstract capture lifecycle for `Capture`.

## 7. Not modelled, and why

- The simulator: no device, no concurrency of interest.
- The V2 branches of capture, bootstrap, exposure, gain, feature and filter
  parameters: no profile of a device reaches them, and with them the exposure table.
- The experimental photo workflow: off by default.
- Dead code: the shared calibration task.
- The values of parameters, timestamps and metadata: abstracted to success, order
  or recency.
- The ping loop and the temperature monitor: the one sends pings only, the other is
  one more caller of `_ensure_ws`.
- HTTP requests and retries, RTSP, discovery, management, widgets, profiles and name
  tables, framing of packets, image encoding, generated code, the other scripts: I/O, text
  and tables without state of their own.
- In `Lifecycle`: links that break while serving (they are `Connection`'s), closing the
  window, and the order in which the command line calls what the window calls.
- A websocket that is lost and opened again by another device's request while a
  start's monitor is alive is outside `Capture`: the state query that follows a
  reconnection would then overwrite the state assumed at dispatch, and `AcceptedAtRest`
  would have to allow it.
- Python-level cancellation of an HTTP request by its client is in `WsClient` only.
