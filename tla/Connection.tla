----------------------------- MODULE Connection -----------------------------
(***************************************************************************)
(* How the devices share the session's websocket: DwarfSession.acquire and  *)
(* release with their reference counts, _ensure_ws, the master lock of the  *)
(* device, and the lock under which commands are sent (dwarf/session.py).   *)
(*                                                                         *)
(* A member of Calls is one request of an Alpaca client: it connects a      *)
(* device (acquire), disconnects it (release) or operates it (_ensure_ws    *)
(* and a command).  The requests of one device are made one at a time;      *)
(* those of different devices interleave at every await.  The websocket     *)
(* client is that of module WsClient, reduced to its sockets and readers: a   *)
(* socket is its number in opening order.                                     *)
(*                                                                         *)
(* close() awaits the reader it cancels, which resets _conn, and so lets go   *)
(* of the socket without closing it: the device has it open as before, and    *)
(* what it writes to it nobody reads.                                        *)
(*                                                                         *)
(* Left out: the simulator, the V2 bootstrap, the time-zone command, which   *)
(* follows the clock's as one more command, and the teardown of capture and  *)
(* calibration tasks in release.                                             *)
(***************************************************************************)
EXTENDS Integers

CONSTANTS
    Calls,       \* the requests; each is made once
    Devices,     \* the logical devices: telescope, camera, ...
    KindOf,      \* what a request does
    DevOf,       \* the device it is made to
    MaxConns,    \* bound: websockets opened in a behaviour
    MaxLocks,    \* bound: command locks created in a behaviour
    None

Kinds == {"acquire", "release", "operate"}
Locks == 1..MaxLocks

ASSUME ConnectionAssumption ==
    /\ KindOf \in [Calls -> Kinds]
    /\ DevOf \in [Calls -> Devices]
    /\ MaxConns \in Nat
    /\ MaxLocks \in Nat \ {0}
    /\ None \notin Calls

VARIABLES
    refs,        \* _refs: how often each device was acquired
    sessLock,    \* _lock: the request that holds it
    masterLock,  \* _master_lock_lock: the request that holds it
    flag,        \* _master_lock_acquired
    cmdLock,     \* _ws_command_lock: the lock object, 0 for None
    made,        \* the lock objects created so far
    holder,      \* the request that holds each lock object
    conn,        \* _conn if it is open, or 0
    opened,      \* the sockets opened so far
    sockets,     \* what became of each
    wsLock,      \* the websocket client's lock, while it closes
    granted,     \* whether the device has given control to the session
    unsure,      \* the last exchange about control failed or was not made
    pc,          \* where each request is
    cmd,         \* the command it sends: state, clock or its own
    lockOf,      \* the lock object it uses
    via          \* the socket on which it awaits an answer, 0 for none

lockVars   == <<sessLock, masterLock, flag, refs>>
cmdVars    == <<cmdLock, made, holder, cmd, lockOf>>
socketVars == <<conn, opened, sockets, wsLock>>
control    == <<granted, unsure>>
vars == <<lockVars, cmdVars, socketVars, control, pc, via>>

Places == {"idle", "called", "ensure", "connecting", "master", "asking", "clock", "ensured",
           "queue", "opening", "sent", "expired", "unlock", "reopening", "unlocking",
           "teardown", "closing", "done", "failed"}
InProgress(c) == pc[c] \notin {"idle", "done", "failed"}
\* A socket is read until it is closed by the network or the device and its reader
\* ends, or until close() leaves it to the device.
Fates == {"unopened", "read", "ending", "closed", "left"}
Releasing(c) ==
    KindOf[c] = "release" /\ pc[c] \in {"unlock", "reopening", "unlocking", "teardown", "closing"}

TypeOK ==
    /\ refs \in [Devices -> Nat]
    /\ sessLock \in Calls \cup {None}
    /\ masterLock \in Calls \cup {None}
    /\ flag \in BOOLEAN
    /\ cmdLock \in Locks \cup {0}
    /\ made \in Locks \cup {0}
    /\ cmdLock = 0 => made < MaxLocks
    /\ holder \in [Locks -> Calls \cup {None}]
    /\ conn \in 0..MaxConns
    /\ opened \in 0..MaxConns
    /\ sockets \in [1..MaxConns -> Fates]
    /\ wsLock \in Calls \cup {None}
    /\ granted \in BOOLEAN /\ unsure \in BOOLEAN
    /\ pc \in [Calls -> Places]
    /\ cmd \in [Calls -> {"none", "state", "clock", "own"}]
    /\ lockOf \in [Calls -> Locks \cup {0}]
    /\ via \in [Calls -> 0..MaxConns]

Init ==
    /\ refs = [d \in Devices |-> 0]
    /\ sessLock = None /\ masterLock = None /\ flag = FALSE
    /\ cmdLock = 0 /\ made = 0
    /\ holder = [l \in Locks |-> None]
    /\ conn = 0 /\ opened = 0 /\ wsLock = None
    /\ sockets = [i \in 1..MaxConns |-> "unopened"]
    /\ granted = FALSE /\ unsure = FALSE
    /\ pc = [c \in Calls |-> "idle"]
    /\ cmd = [c \in Calls |-> "none"]
    /\ lockOf = [c \in Calls |-> 0]
    /\ via = [c \in Calls |-> 0]

\* A client drives each device serially.
MayCall(c) ==
    /\ pc[c] = "idle"
    /\ \A e \in Calls : DevOf[e] = DevOf[c] => ~InProgress(e)

GoTo(c, place) == pc' = [pc EXCEPT ![c] = place]

\* DwarfWsClient.connect: nothing to do while a socket is open, else a new one
\* is opened under the client's lock.
Opens ==
    /\ conn = 0 /\ wsLock = None /\ opened < MaxConns
    /\ opened' = opened + 1 /\ conn' = opened + 1
    /\ sockets' = [sockets EXCEPT ![opened + 1] = "read"]
OpenFails == conn = 0 /\ wsLock = None /\ UNCHANGED <<conn, opened, sockets>>
AlreadyOpen == conn # 0 /\ UNCHANGED <<conn, opened, sockets>>

\* DwarfWsClient.close, once it has the client's lock: it ends the last reader and
\* fails every answer that is awaited.
Closed ==
    /\ conn' = 0 /\ wsLock' = None
    /\ sockets' = [i \in 1..MaxConns |->
          IF i # opened THEN sockets[i]
          ELSE CASE sockets[i] = "read"   -> "left"
                 [] sockets[i] = "ending" -> "closed"
                 [] OTHER                 -> sockets[i]]
    /\ via' = [c \in Calls |-> 0]
    /\ UNCHANGED opened

Awaits(c, socket) == via' = [via EXCEPT ![c] = socket]

\* An answer on the socket that c sent on is read.
Hears(c) == via[c] # 0 /\ sockets[via[c]] = "read"

(***************************************************************************)
(* Commands                                                                *)
(***************************************************************************)

\* The command is made once the lock is held; begin_request connects first.
Send(c) ==
    /\ GoTo(c, IF conn = 0 THEN "opening" ELSE "sent")
    /\ Awaits(c, conn)

\* _get_ws_command_lock, and the command at once when the lock is free.
Enter(c, k) ==
    LET l == IF cmdLock = 0 THEN made + 1 ELSE cmdLock IN
    /\ cmdLock' = l
    /\ made' = IF cmdLock = 0 THEN l ELSE made
    /\ lockOf' = [lockOf EXCEPT ![c] = l]
    /\ cmd' = [cmd EXCEPT ![c] = k]
    /\ \/ holder[l] # None /\ GoTo(c, "queue") /\ Awaits(c, 0) /\ UNCHANGED holder
       \/ holder[l] = None /\ holder' = [holder EXCEPT ![l] = c] /\ Send(c)

\* A waiter has the lock it queued for, be it the current one or not.
TakeCommandLock(c) ==
    /\ pc[c] = "queue"
    /\ holder[lockOf[c]] = None
    /\ holder' = [holder EXCEPT ![lockOf[c]] = c]
    /\ Send(c)
    /\ UNCHANGED <<lockVars, cmdLock, made, cmd, lockOf, socketVars, control>>

\* The command is over.  The state query and the clock command may fail: that
\* is logged only, and the clock is set if control is still held.
CommandOver(c, ok) ==
    /\ holder' = [holder EXCEPT ![lockOf[c]] = None]
    /\ lockOf' = [lockOf EXCEPT ![c] = 0] /\ cmd' = [cmd EXCEPT ![c] = "none"]
    /\ GoTo(c, CASE cmd[c] = "state" /\ flag -> "clock"
                 [] cmd[c] = "own" -> IF ok THEN "done" ELSE "failed"
                 [] OTHER -> "ensured")
    /\ masterLock' = IF cmd[c] = "own" \/ (cmd[c] = "state" /\ flag)
                     THEN masterLock ELSE None
    /\ UNCHANGED <<sessLock, flag, refs, cmdLock, made, control>>

\* begin_request found the socket closed and opens one, whatever the session
\* knows of the old one, or fails.
Reconnect(c) ==
    /\ pc[c] = "opening"
    /\ wsLock' = wsLock
    /\ \/ /\ Opens \/ AlreadyOpen
          /\ GoTo(c, "sent")
          /\ Awaits(c, conn')
          /\ UNCHANGED <<lockVars, cmdVars, control>>
       \/ OpenFails /\ CommandOver(c, FALSE) /\ UNCHANGED via

Answered(c) ==
    /\ pc[c] = "sent" /\ Hears(c)
    /\ CommandOver(c, TRUE) /\ Awaits(c, 0)
    /\ UNCHANGED socketVars

\* It is refused, or failed by close() or with its socket, or it is the state
\* query, whose timeout leaves the websocket and the lock alone.
Fails(c) ==
    /\ pc[c] = "sent"
    /\ CommandOver(c, FALSE) /\ Awaits(c, 0)
    /\ UNCHANGED socketVars

\* The timeout of any other command forgets the command lock while its holder
\* still holds it, and the holder then closes whatever websocket there is: its own
\* may be gone, as a socket that the device closes in good order fails nothing.
\* (The bound counts the lock object that the next caller will create.)
Expires(c) ==
    /\ pc[c] = "sent" /\ cmd[c] # "state" /\ via[c] # 0
    /\ made < MaxLocks
    /\ cmdLock' = 0
    /\ GoTo(c, "expired") /\ Awaits(c, 0)
    /\ UNCHANGED <<lockVars, made, holder, cmd, lockOf, socketVars, control>>

ExpiredCloses(c) ==
    /\ pc[c] = "expired" /\ wsLock = None
    /\ wsLock' = c
    /\ GoTo(c, "closing")
    /\ UNCHANGED <<lockVars, cmdVars, conn, opened, sockets, control, via>>

ExpiredClosed(c) ==
    /\ pc[c] = "closing" /\ ~Releasing(c)
    /\ Closed
    /\ CommandOver(c, FALSE)

(***************************************************************************)
(* _ensure_ws and the master lock                                          *)
(***************************************************************************)

\* acquire() and release() wait for _lock.
Call(c) ==
    /\ KindOf[c] \in {"acquire", "release"} /\ MayCall(c)
    /\ GoTo(c, "called")
    /\ UNCHANGED <<lockVars, cmdVars, socketVars, control, via>>

\* The reference count after a release, or after an acquire that failed.
Dropped(d) == IF refs[d] = 0 THEN 0 ELSE refs[d] - 1

\* Mutant of AcquireBegin: the session lock is not waited for.
AcquireUnlocked(c) ==
    /\ KindOf[c] = "acquire" /\ pc[c] = "called"
    /\ sessLock' = c
    /\ refs' = [refs EXCEPT ![DevOf[c]] = @ + 1]
    /\ GoTo(c, "ensure")
    /\ UNCHANGED <<masterLock, flag, cmdVars, socketVars, control, via>>

AcquireBegin(c) ==
    /\ KindOf[c] = "acquire" /\ pc[c] = "called"
    /\ sessLock = None
    /\ sessLock' = c
    /\ refs' = [refs EXCEPT ![DevOf[c]] = @ + 1]
    /\ GoTo(c, "ensure")
    /\ UNCHANGED <<masterLock, flag, cmdVars, socketVars, control, via>>

\* The routers refuse to operate a device that is not connected.
OperateBegin(c) ==
    /\ KindOf[c] = "operate" /\ MayCall(c)
    /\ refs[DevOf[c]] > 0
    /\ GoTo(c, "ensure")
    /\ UNCHANGED <<lockVars, cmdVars, socketVars, control, via>>

\* was_connected is read here and used after connect() has returned.
EnsureWs(c) ==
    /\ pc[c] = "ensure"
    /\ GoTo(c, CASE conn = 0 -> "connecting" [] flag -> "ensured" [] OTHER -> "master")
    /\ UNCHANGED <<lockVars, cmdVars, socketVars, control, via>>

Connected(c) ==
    /\ pc[c] = "connecting"
    /\ Opens \/ AlreadyOpen
    /\ flag' = FALSE
    /\ GoTo(c, "master")
    /\ UNCHANGED <<sessLock, masterLock, refs, cmdVars, wsLock, control, via>>

\* Mutant of ConnectFails: the session lock is not released.
ConnectFailsKeepsLock(c) ==
    /\ pc[c] = "connecting"
    /\ OpenFails
    /\ GoTo(c, "failed")
    /\ \/ /\ KindOf[c] = "acquire"
          /\ refs' = [refs EXCEPT ![DevOf[c]] = Dropped(DevOf[c])]
          /\ UNCHANGED sessLock
       \/ KindOf[c] = "operate" /\ UNCHANGED <<refs, sessLock>>
    /\ UNCHANGED <<masterLock, flag, cmdVars, wsLock, control, via>>

ConnectFails(c) ==
    /\ pc[c] = "connecting"
    /\ OpenFails
    /\ GoTo(c, "failed")
    /\ \/ /\ KindOf[c] = "acquire"
          /\ refs' = [refs EXCEPT ![DevOf[c]] = Dropped(DevOf[c])]
          /\ sessLock' = None
       \/ KindOf[c] = "operate" /\ UNCHANGED <<refs, sessLock>>
    /\ UNCHANGED <<masterLock, flag, cmdVars, wsLock, control, via>>

\* Mutant of TakeMaster: the master-lock lock is not waited for.
TakeMasterUnlocked(c) ==
    /\ pc[c] = "master"
    /\ \/ (flag \/ conn = 0)
          /\ unsure' = (unsure \/ ~flag)
          /\ GoTo(c, "ensured") /\ UNCHANGED <<masterLock, via>>
       \/ ~flag /\ conn # 0
          /\ GoTo(c, "asking") /\ masterLock' = c
          /\ Awaits(c, conn) /\ UNCHANGED unsure
    /\ UNCHANGED <<sessLock, flag, refs, cmdVars, socketVars, granted>>

\* The flag and the connection are looked at again under the lock.
TakeMaster(c) ==
    /\ pc[c] = "master" /\ masterLock = None
    /\ \/ (flag \/ conn = 0)
          /\ unsure' = (unsure \/ ~flag)
          /\ GoTo(c, "ensured") /\ UNCHANGED <<masterLock, via>>
       \/ ~flag /\ conn # 0
          /\ GoTo(c, "asking") /\ masterLock' = c
          /\ Awaits(c, conn) /\ UNCHANGED unsure
    /\ UNCHANGED <<sessLock, flag, refs, cmdVars, socketVars, granted>>

\* The device grants control; the device state is queried next.
Granted(c) ==
    /\ pc[c] = "asking" /\ Hears(c)
    /\ flag' = TRUE
    /\ granted' = TRUE /\ unsure' = FALSE
    /\ Enter(c, "state")
    /\ UNCHANGED <<sessLock, masterLock, refs, socketVars>>

\* Refusals, timeouts and lost sockets are logged and the request goes on; the
\* device may have granted control all the same.
NotGranted(c) ==
    /\ pc[c] = "asking"
    /\ granted' \in {granted, TRUE} /\ unsure' = TRUE
    /\ masterLock' = None
    /\ GoTo(c, "ensured") /\ Awaits(c, 0)
    /\ UNCHANGED <<sessLock, flag, refs, cmdVars, socketVars>>

SetClock(c) ==
    /\ pc[c] = "clock"
    /\ Enter(c, "clock")
    /\ UNCHANGED <<lockVars, socketVars, control>>

\* What a request does once _ensure_ws has returned.
Acquired(c) ==
    /\ KindOf[c] = "acquire" /\ pc[c] = "ensured"
    /\ GoTo(c, "done")
    /\ sessLock' = None
    /\ UNCHANGED <<masterLock, flag, refs, cmdVars, socketVars, control, via>>

Operate(c) ==
    /\ KindOf[c] = "operate" /\ pc[c] = "ensured"
    /\ Enter(c, "own")
    /\ UNCHANGED <<lockVars, socketVars, control>>

(***************************************************************************)
(* release                                                                 *)
(***************************************************************************)

ReleaseBegin(c) ==
    /\ KindOf[c] = "release" /\ pc[c] = "called"
    /\ sessLock = None
    /\ LET left == [refs EXCEPT ![DevOf[c]] = Dropped(DevOf[c])] IN
       /\ refs' = left
       /\ \/ /\ \A d \in Devices : left[d] = 0
             /\ sessLock' = c /\ GoTo(c, "unlock")
          \/ /\ \E d \in Devices : left[d] # 0
             /\ UNCHANGED sessLock /\ GoTo(c, "done")
    /\ UNCHANGED <<masterLock, flag, cmdVars, socketVars, control, via>>

\* _release_master_lock
Unlock(c) ==
    /\ pc[c] = "unlock" /\ masterLock = None
    /\ \/ ~flag /\ GoTo(c, "teardown") /\ UNCHANGED <<masterLock, via>>
       \/ flag /\ masterLock' = c
          /\ GoTo(c, IF conn = 0 THEN "reopening" ELSE "unlocking")
          /\ Awaits(c, conn)
    /\ UNCHANGED <<sessLock, flag, refs, cmdVars, socketVars, control>>

Reopen(c) ==
    /\ pc[c] = "reopening"
    /\ \/ /\ Opens \/ AlreadyOpen
          /\ GoTo(c, "unlocking")
          /\ Awaits(c, conn')
          /\ UNCHANGED <<flag, masterLock>>
          /\ UNCHANGED unsure
       \/ OpenFails /\ flag' = FALSE /\ masterLock' = None
          /\ unsure' = TRUE
          /\ GoTo(c, "teardown") /\ UNCHANGED via
    /\ UNCHANGED <<sessLock, refs, cmdVars, wsLock, granted>>

\* The device is told to take control back; refusals, timeouts and lost sockets
\* are logged only.
GivenBack(c) ==
    \/ Hears(c) /\ granted' = FALSE /\ unsure' = FALSE
    \/ granted' \in {granted, FALSE} /\ unsure' = TRUE

\* Mutant of Unlocked: control is taken to be held until it was given up.
UnlockedIfAnswered(c) ==
    /\ pc[c] = "unlocking"
    /\ masterLock' = None
    /\ GivenBack(c)
    /\ flag' = (flag /\ unsure')
    /\ GoTo(c, "teardown") /\ Awaits(c, 0)
    /\ UNCHANGED <<sessLock, refs, cmdVars, socketVars>>

\* Whatever the answer, the lock is taken to be given up.
Unlocked(c) ==
    /\ pc[c] = "unlocking"
    /\ flag' = FALSE /\ masterLock' = None
    /\ GivenBack(c)
    /\ GoTo(c, "teardown") /\ Awaits(c, 0)
    /\ UNCHANGED <<sessLock, refs, cmdVars, socketVars>>

Teardown(c) ==
    /\ pc[c] = "teardown" /\ wsLock = None
    /\ wsLock' = c
    /\ GoTo(c, "closing")
    /\ UNCHANGED <<lockVars, cmdVars, conn, opened, sockets, control, via>>

Released(c) ==
    /\ pc[c] = "closing" /\ Releasing(c)
    /\ Closed /\ sessLock' = None
    /\ GoTo(c, "done")
    /\ UNCHANGED <<masterLock, flag, refs, cmdVars, control>>

\* The network or the device closes a socket.
Drop(i) ==
    /\ sockets[i] = "read"
    /\ sockets' = [sockets EXCEPT ![i] = "ending"]
    /\ conn' = IF conn = i THEN 0 ELSE conn
    /\ UNCHANGED <<lockVars, cmdVars, opened, wsLock, control, pc, via>>

\* Its reader ends, and resets _conn whichever socket that is by now.
ReaderEnds(i) ==
    /\ sockets[i] = "ending"
    /\ sockets' = [sockets EXCEPT ![i] = "closed"]
    /\ conn' = 0
    /\ UNCHANGED <<lockVars, cmdVars, opened, wsLock, control, pc, via>>

Command(c) ==
    \/ TakeCommandLock(c) \/ Reconnect(c) \/ Answered(c) \/ Fails(c)
    \/ Expires(c) \/ ExpiredCloses(c) \/ ExpiredClosed(c)
Ensure(c) ==
    \/ AcquireBegin(c) \/ EnsureWs(c) \/ Connected(c) \/ ConnectFails(c) \/ TakeMaster(c)
    \/ Granted(c) \/ NotGranted(c) \/ SetClock(c) \/ Acquired(c) \/ Operate(c)
Release(c) ==
    \/ ReleaseBegin(c) \/ Unlock(c) \/ Reopen(c) \/ Unlocked(c) \/ Teardown(c) \/ Released(c)
Proceed(c) == Command(c) \/ Ensure(c) \/ Release(c)

Next ==
    \/ \E c \in Calls : Call(c) \/ OperateBegin(c) \/ Proceed(c)
    \/ \E i \in 1..MaxConns : Drop(i) \/ ReaderEnds(i)

Spec == Init /\ [][Next]_vars

\* The event loop runs every task that can run, and every wait for the device
\* has a timeout.  Nobody is obliged to make a request.
FairSpec == Spec /\ \A c \in Calls : WF_vars(Proceed(c))

(***************************************************************************)
(* Properties                                                              *)
(***************************************************************************)

\* While the last release gives up control and closes the websocket, no device
\* is acquired: _lock is held across the whole teardown (session.py:2449).
NoTeardownUnderReference ==
    \A c \in Calls : Releasing(c) => \A d \in Devices : refs[d] = 0

\* One master-lock command at a time: it is sent outside the command lock, and
\* a second one under the same key would be refused by the client as already
\* pending (session.py:2126, ws_client.py:177).
OneMasterCommand ==
    \A c, e \in Calls :
        pc[c] \in {"asking", "unlocking"} /\ pc[e] \in {"asking", "unlocking"} => c = e

\* When no request is being made and no device is acquired, the session has no
\* connection and does not take control to be held; and the device has control
\* back, or the last exchange about it failed or could not be made: otherwise the
\* official app finds the device occupied (session.py:2458).  That the socket
\* itself is closed the code does not see to, see the head of this module.
ReleasedIsFree ==
    (\A c \in Calls : ~InProgress(c)) /\ (\A d \in Devices : refs[d] = 0)
        => conn = 0 /\ ~flag /\ (granted => unsure)

\* Every request returns or raises, however the device and the other requests
\* behave: no lock is kept on any path out (session.py:2437-2463).
CallsReturn == \A c \in Calls : InProgress(c) ~> ~InProgress(c)
=============================================================================
