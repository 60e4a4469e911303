------------------------------ MODULE Lifecycle ------------------------------
(***************************************************************************)
(* Starting and stopping the server: the window's buttons (gui/app.py), the   *)
(* thread of the preflight (gui/workers.py, cli.py), the thread of the server *)
(* (gui/server.py, server.py) and the session they all reach through one      *)
(* global variable (the end of dwarf/session.py).                             *)
(*                                                                         *)
(* A start is known by its number, which also stands for its settings, and a  *)
(* thread by the start it serves.  The session is what the threads share: its *)
(* link, its references and the device's master lock.  A link is what the     *)
(* session has of it, _conn: close() lets go of the socket without closing    *)
(* it.  How links break and what becomes of sockets is in Connection; here    *)
(* the network only fails to connect, and locks are refused and answers lost. *)
(* The command line runs the same preflight and server one after the other,   *)
(* in one thread and without the monitor.                                     *)
(***************************************************************************)
EXTENDS Integers, Sequences

CONSTANTS
    Sessions,       \* identities of session objects
    Calls,          \* requests of Alpaca clients
    MaxStarts,      \* bound: presses of the start button
    MaxPosted,      \* bound: signals waiting for the window
    MaxRefs,        \* bound: references when a client connects
    LateEnd,        \* a stopped thread can outlive the next preflight
    Nothing

ASSUME LifecycleAssumption ==
    /\ MaxStarts \in Nat \ {0} /\ MaxPosted \in Nat /\ MaxRefs \in Nat \ {0} /\ LateEnd \in BOOLEAN
    /\ Nothing \notin Sessions
    /\ Calls \cap {"worker", "main", "monitor", "calibration"} = {}

\* worker is the preflight; main is _run and, within serve, the lifespan.
Tasks == {"worker", "main", "monitor", "calibration"} \cup Calls
\* The tasks that take the session's lock, in acquire and release.
Lockers == {"worker", "calibration"} \cup Calls

\* "lock" to "asked" is acquire, or for the monitor _ensure_ws; "drop" to
\* "close" is release, and "detach" to "hangup" is shutdown_session.
Points == {"off", "configure", "get", "lock", "link", "ask", "asked", "use", "sleep",
           "drop", "unlock", "close", "detach", "giveback", "hangup",
           "startup", "bind", "serving", "lifespan", "finish", "unwind", "ending"}
Signals == {"ready", "failed", "running", "stopped", "crashed"}
Shows == {"idle", "preflight", "up", "stopping"}

VARIABLES
    starts,     \* how often the server was started
    shown,      \* what the window's buttons show
    posted,     \* signals from the threads that the window has not handled
    at,         \* where each task is
    uses,       \* the session it has in hand
    succeeded,  \* whether the preflight has succeeded
    told,       \* the server was told to exit
    served,     \* the lifespan's shutdown is over
    start,      \* the start that the server's thread serves
    current,    \* _session
    config,     \* _session_settings: the start whose settings they are
    sess,       \* the session objects
    held,       \* the sessions to which the device has given its master lock
    kept,       \* those that did not get it back from a release
    loose       \* the sessions that may keep it, see NothingHeld

gui    == <<starts, shown, posted>>
thread == <<told, served, start>>
store  == <<current, config, sess, held, kept, loose>>
lifeVars   == <<gui, at, uses, succeeded, thread, store>>

Blank == [loop |-> <<0, "none">>, settings |-> 0, link |-> FALSE, flag |-> FALSE, refs |-> 0]
Loops == (0..MaxStarts) \X {"none", "preflight", "server"}

LifeTypeOK ==
    /\ starts \in 0..MaxStarts /\ shown \in Shows
    /\ posted \in Seq(Signals)
    /\ at \in [Tasks -> Points]
    /\ uses \in [Tasks -> Sessions \cup {Nothing}]
    /\ succeeded \in BOOLEAN /\ told \in BOOLEAN /\ served \in BOOLEAN
    /\ start \in 0..MaxStarts /\ config \in 0..MaxStarts
    /\ current \in Sessions \cup {Nothing}
    /\ sess \in [Sessions -> [loop : Loops, settings : 0..MaxStarts, link : BOOLEAN,
                              flag : BOOLEAN, refs : Nat]]
    /\ held \subseteq Sessions /\ kept \subseteq Sessions /\ loose \subseteq Sessions
    /\ \A t \in Tasks : at[t] \in {"link", "ask", "asked", "use", "drop"} => uses[t] # Nothing

LifeInit ==
    /\ starts = 0 /\ shown = "idle" /\ posted = <<>>
    /\ at = [t \in Tasks |-> "off"]
    /\ uses = [t \in Tasks |-> Nothing]
    /\ succeeded = FALSE /\ told = FALSE /\ served = FALSE /\ start = 0
    /\ current = Nothing /\ config = 0
    /\ sess = [s \in Sessions |-> Blank]
    /\ held = {} /\ kept = {} /\ loose = {}

Goes(t, place) == at' = [at EXCEPT ![t] = place]
Post(signal) == posted' = Append(posted, signal)

\* _running: from the creation of the server to the end of _run.
Running == at["main"] \notin {"off", "configure", "unwind", "ending"}
Alive == at["main"] # "off"
LoopOf(t) == IF t = "worker" THEN <<starts, "preflight">> ELSE <<start, "server">>

(***************************************************************************)
(* The window                                                              *)
(***************************************************************************)

\* _launch_server and ServerService.start, of a preflight or without one.
\* A refusal leaves the buttons as they are.
Launch(n) ==
    IF Alive THEN UNCHANGED <<shown, at, thread>>
    ELSE /\ shown' = "up"
         /\ Goes("main", "configure")
         /\ start' = n
         /\ UNCHANGED <<told, served>>

\* An identity is free again when nothing is left of its session.
Free(s) == /\ s # current /\ s \notin held /\ ~sess[s].link
           /\ \A t \in Tasks : uses[t] # s

\* Nothing reaches a session that was left loose, and the model forgets it.
Forget ==
    LET lost == {s \in Sessions : /\ s # current /\ \A t \in Tasks : uses[t] # s
                                  /\ s \in loose \cup kept \/ Free(s)} IN
    /\ held' = held \ lost
    /\ kept' = kept \ lost
    /\ loose' = loose \ lost
    /\ sess' = [s \in Sessions |-> IF s \in lost THEN Blank ELSE sess[s]]

StartPressed ==
    /\ shown = "idle" /\ ~Running /\ starts < MaxStarts
    /\ starts' = starts + 1
    /\ \/ Launch(starts') /\ UNCHANGED succeeded
       \/ /\ at["worker"] = "off"
          /\ shown' = "preflight" /\ succeeded' = FALSE
          /\ Goes("worker", "configure")
          /\ UNCHANGED thread
    /\ Forget
    /\ UNCHANGED <<posted, uses, current, config>>

\* A server that is only starting does not hear the button.
StopPressed ==
    /\ shown = "up" /\ Running
    /\ shown' = "stopping" /\ told' = TRUE
    /\ UNCHANGED <<starts, posted, at, uses, succeeded, served, start, store>>

HandleSignal ==
    /\ posted # <<>>
    /\ posted' = Tail(posted)
    /\ \/ Head(posted) = "ready" /\ Launch(starts)
       \/ /\ Head(posted) # "ready"
          /\ shown' = IF Head(posted) = "running" THEN "up" ELSE "idle"
          /\ UNCHANGED <<at, thread>>
    /\ UNCHANGED <<starts, uses, succeeded, store>>

(***************************************************************************)
(* The session                                                             *)
(***************************************************************************)

\* configure_session: a session that exists takes the new settings too.
Configure(n) ==
    /\ config' = n
    /\ sess' = IF current = Nothing THEN sess
               ELSE [sess EXCEPT ![current].settings = n, ![current].flag = FALSE]

\* get_session.
Obtain(t) ==
    \/ /\ current # Nothing
       /\ uses' = [uses EXCEPT ![t] = current]
       /\ UNCHANGED <<current, sess, loose>>
    \/ /\ current = Nothing
       /\ \E s \in Sessions : Free(s)
       /\ LET s == CHOOSE r \in Sessions : Free(r) IN
          /\ current' = s
          /\ sess' = [sess EXCEPT ![s] = [Blank EXCEPT !.loop = LoopOf(t), !.settings = config]]
          /\ loose' = loose \ {s}
          /\ uses' = [uses EXCEPT ![t] = s]

\* The session's lock, which acquire and release hold to their ends.
Locked(s) == \E t \in Lockers : /\ uses[t] = s
                               /\ at[t] \in {"link", "ask", "asked", "unlock", "close"}

\* The lock around the exchanges about the master lock.
Asking(s) == \E t \in Tasks : uses[t] = s /\ at[t] = "asked"

Loosen(s) == loose' = IF s = current THEN loose ELSE loose \cup {s}

Leave(t, place) ==
    /\ Goes(t, place)
    /\ uses' = IF place \in {"off", "sleep", "finish", "unwind"}
               THEN [uses EXCEPT ![t] = Nothing] ELSE uses

\* Where a task goes when its session is ready.
Ready(t) ==
    CASE t = "worker"      -> "drop"
      [] t = "calibration" -> "use"
      [] t = "monitor"     -> "sleep"
      [] OTHER             -> "off"

\* Connected = True waits at "lock", and Connected = False at "drop".
Get(t) ==
    /\ at[t] = "get"
    /\ Obtain(t)
    /\ \/ t = "monitor" /\ Goes(t, "link")
       \/ t # "monitor" /\ sess'[uses'[t]].refs < MaxRefs /\ Goes(t, "lock")
       \/ t \in Calls /\ Goes(t, "drop")
    /\ UNCHANGED <<gui, succeeded, thread, config, held, kept>>

Acquire(t) ==
    /\ at[t] = "lock" /\ ~Locked(uses[t])
    /\ sess' = [sess EXCEPT ![uses[t]].refs = @ + 1]
    /\ Goes(t, "link")
    /\ UNCHANGED <<gui, uses, succeeded, thread, current, config, held, kept, loose>>

\* _ensure_ws: a new link starts without the lock.
Link(t) ==
    /\ at[t] = "link"
    /\ LET s == uses[t] IN
       /\ sess' = [sess EXCEPT ![s].link = TRUE, ![s].flag = @ /\ sess[s].link]
       /\ Loosen(s)
    /\ Goes(t, "ask")
    /\ UNCHANGED <<gui, uses, succeeded, thread, current, config, held, kept>>

Less(n) == IF n = 0 THEN 0 ELSE n - 1

\* The device is not reached: a preflight tries again.
LinkFails(t) ==
    /\ at[t] = "link" /\ ~sess[uses[t]].link
    /\ sess' = IF t \in Lockers THEN [sess EXCEPT ![uses[t]].refs = Less(@)] ELSE sess
    /\ Leave(t, IF t = "worker" THEN "lock" ELSE IF t = "monitor" THEN "sleep" ELSE "off")
    /\ UNCHANGED <<gui, succeeded, thread, current, config, held, kept, loose>>

\* Its time is up.
GivesUp ==
    /\ at["worker"] = "link" /\ ~sess[uses["worker"]].link
    /\ sess' = [sess EXCEPT ![uses["worker"]].refs = Less(@)]
    /\ Goes("worker", "detach")
    /\ UNCHANGED <<gui, uses, succeeded, thread, current, config, held, kept, loose>>

\* _ensure_master_lock, to the request.
Ask(t) ==
    /\ at[t] = "ask"
    /\ LET s == uses[t] IN
       \/ /\ sess[s].flag \/ (~Asking(s) /\ ~sess[s].link)
          /\ Leave(t, Ready(t))
          /\ UNCHANGED loose
       \/ /\ ~sess[s].flag /\ ~Asking(s) /\ sess[s].link
          /\ Goes(t, "asked")
          /\ Loosen(s)
          /\ UNCHANGED uses
    /\ UNCHANGED <<gui, succeeded, thread, current, config, sess, held, kept>>

\* Mutant of Answered: a request whose link is gone is waited for.
AnsweredOnLink(t) ==
    /\ at[t] = "asked"
    /\ LET s == uses[t] IN
       /\ sess[s].link
       /\ \/ held' = held \cup {s} /\ sess' = [sess EXCEPT ![s].flag = TRUE]
          \/ UNCHANGED <<held, sess>>
    /\ Leave(t, Ready(t))
    /\ UNCHANGED <<gui, succeeded, thread, current, config, kept, loose>>

\* Given; refused; or given and the answer lost.
Answered(t) ==
    /\ at[t] = "asked"
    /\ LET s == uses[t] IN
       \/ /\ sess[s].link
          /\ held' = held \cup {s} /\ kept' = kept \ {s}
          /\ sess' = [sess EXCEPT ![s].flag = TRUE]
          /\ UNCHANGED loose
       \/ UNCHANGED <<held, kept, sess, loose>>
       \/ held' = held \cup {s} /\ loose' = loose \cup {s} /\ UNCHANGED <<kept, sess>>
    /\ Leave(t, Ready(t))
    /\ UNCHANGED <<gui, succeeded, thread, current, config>>

\* release: the last reference closes the session's link.
Drop(t) ==
    /\ at[t] = "drop" /\ ~Locked(uses[t])
    /\ LET s == uses[t]
           left == Less(sess[s].refs) IN
       /\ sess' = [sess EXCEPT ![s].refs = left]
       /\ IF left = 0 THEN Goes(t, "unlock") /\ UNCHANGED uses
          ELSE Leave(t, IF t = "worker" THEN "detach" ELSE "off")
    /\ succeeded' = (succeeded \/ t = "worker")
    /\ UNCHANGED <<gui, thread, current, config, held, kept, loose>>

\* The request of _release_master_lock for a lock the session believes it has.
\* The device takes it back, whether that is heard or not; or it does not, is not
\* reached, or says no, which is logged: the session forgets the lock all the same.
HandsBack(s) ==
    \/ /\ held' = held \ {s} /\ kept' = kept \ {s}
       /\ sess' = [sess EXCEPT ![s].link = TRUE, ![s].flag = FALSE]
    \/ /\ kept' = kept \cup {s} /\ UNCHANGED held
       /\ \E connected \in {sess[s].link, TRUE} :
             sess' = [sess EXCEPT ![s].link = connected, ![s].flag = FALSE]

\* Mutant of Unlock: closing the link is taken to be enough at the end.
UnlockOnRelease(t) ==
    /\ at[t] \in {"unlock", "giveback"} /\ ~Asking(uses[t])
    /\ IF sess[uses[t]].flag /\ at[t] = "unlock" THEN HandsBack(uses[t])
       ELSE UNCHANGED <<held, kept, sess>>
    /\ Goes(t, IF at[t] = "unlock" THEN "close" ELSE "hangup")
    /\ UNCHANGED <<gui, uses, succeeded, thread, current, config, loose>>

\* _release_master_lock, which connects again if it has to.
Unlock(t) ==
    /\ at[t] \in {"unlock", "giveback"} /\ ~Asking(uses[t])
    /\ IF sess[uses[t]].flag THEN HandsBack(uses[t]) ELSE UNCHANGED <<held, kept, sess>>
    /\ Goes(t, IF at[t] = "unlock" THEN "close" ELSE "hangup")
    /\ UNCHANGED <<gui, uses, succeeded, thread, current, config, loose>>

\* The end of release.  A lock obtained since Unlock stays with the device.
Close(t) ==
    /\ at[t] = "close"
    /\ LET s == uses[t] IN
       /\ sess' = [sess EXCEPT ![s].link = FALSE]
       /\ loose' = IF sess[s].flag THEN loose \cup {s} ELSE loose
    /\ Leave(t, IF t = "worker" THEN "detach" ELSE "off")
    /\ UNCHANGED <<gui, succeeded, thread, current, config, held, kept>>

(***************************************************************************)
(* The server's thread                                                     *)
(***************************************************************************)

\* main goes on and cancels a task: calibration releases what it has acquired,
\* and what was asked of the device may still be granted, or not given back.
Cancel(t, place) ==
    /\ at' = [at EXCEPT !["main"] = place, ![t] = IF @ = "use" THEN "drop" ELSE "off"]
    /\ uses' = IF at[t] = "use" THEN uses ELSE [uses EXCEPT ![t] = Nothing]
    /\ \/ at[t] = "asked" /\ held' = held \cup {uses[t]}
       \/ UNCHANGED held
    /\ loose' = IF at[t] \in {"asked", "unlock"} THEN loose \cup {uses[t]} ELSE loose
    /\ sess' = IF at[t] = "unlock" THEN [sess EXCEPT ![uses[t]].flag = FALSE] ELSE sess
    /\ UNCHANGED kept

Configured ==
    /\ at["main"] = "configure"
    /\ Configure(start)
    /\ \/ /\ at' = [at EXCEPT !["main"] = "startup", !["monitor"] = "get"]
          /\ Post("running")
       \/ Goes("main", "unwind") /\ Post("crashed")      \* discovery cannot start
    /\ UNCHANGED <<starts, shown, uses, succeeded, thread, current, held, kept, loose>>

\* The lifespan: preload_filters makes the session or finds the monitor's, and
\* calibration takes the same if it is wanted.
Startup ==
    /\ at["main"] = "startup"
    /\ \/ /\ Obtain("calibration")
          /\ at' = [at EXCEPT !["main"] = "bind", !["calibration"] = "lock"]
       \/ Obtain("main") /\ Goes("main", "bind")
    /\ UNCHANGED <<gui, succeeded, thread, config, held, kept>>

\* Told to exit while it starts, serve returns without the lifespan's shutdown;
\* without its port it shuts the lifespan down and exits.
Bind ==
    /\ at["main"] = "bind"
    /\ \/ /\ told /\ served' = TRUE /\ Goes("main", "finish")
          /\ UNCHANGED <<uses, held, kept, sess, loose>>
       \/ /\ ~told /\ Goes("main", "serving")
          /\ UNCHANGED <<served, uses, held, kept, sess, loose>>
       \/ Cancel("calibration", "lifespan") /\ UNCHANGED served
    /\ UNCHANGED <<gui, succeeded, told, start, current, config>>

CallBegins(c) ==
    /\ at["main"] = "serving" /\ ~told /\ at[c] = "off"
    /\ Goes(c, "get")
    /\ UNCHANGED <<gui, uses, succeeded, thread, store>>

Calibrated ==
    /\ at["calibration"] = "use"
    /\ Goes("calibration", "drop")
    /\ UNCHANGED <<gui, uses, succeeded, thread, store>>

\* The monitor's round is over: it tells the window what has changed.
MonitorTells ==
    /\ at["monitor"] = "sleep"
    /\ Goes("monitor", "get")
    /\ \/ Len(posted) < MaxPosted /\ Post("running")
       \/ UNCHANGED posted
    /\ UNCHANGED <<starts, shown, uses, succeeded, thread, store>>

\* The server has been told to exit and its requests are over.
Served ==
    /\ at["main"] = "serving" /\ told
    /\ \A c \in Calls : at[c] = "off"
    /\ Cancel("calibration", "lifespan")
    /\ UNCHANGED <<gui, succeeded, thread, current, config>>

LifespanEnds ==
    /\ at["main"] = "lifespan" /\ at["calibration"] = "off"
    /\ Goes("main", "detach")
    /\ UNCHANGED <<gui, uses, succeeded, thread, store>>

\* Mutant of Finish: the monitor is left to end by itself.
FinishWithMonitor ==
    /\ at["main"] = "finish"
    /\ Goes("main", "detach")
    /\ UNCHANGED <<gui, uses, succeeded, thread, store>>

Finish ==
    /\ at["main"] = "finish"
    /\ Cancel("monitor", "detach")
    /\ UNCHANGED <<gui, succeeded, thread, current, config>>

\* What follows shutdown_session: the preflight's signal, the rest of serve, or
\* the server's last signal.
AfterShutdown(t, well) ==
    \/ /\ t = "worker" /\ (LateEnd \/ ~Alive)
       /\ Post(IF succeeded /\ well THEN "ready" ELSE "failed")
       /\ Leave(t, "off")
       /\ UNCHANGED served
    \/ /\ t = "main" /\ ~served
       /\ served' = TRUE
       /\ Leave(t, "finish")
       /\ UNCHANGED posted
    \/ /\ t = "main" /\ served
       /\ Post(IF well THEN "stopped" ELSE "crashed")
       /\ Leave(t, "unwind")
       /\ UNCHANGED served

\* Mutant of Detach: the session is shut and stays where it is.
DetachNothing(t) ==
    /\ at[t] = "detach" /\ current # Nothing
    /\ uses' = [uses EXCEPT ![t] = current]
    /\ Goes(t, "giveback")
    /\ UNCHANGED <<gui, succeeded, thread, store>>

\* shutdown_session.
Detach(t) ==
    /\ at[t] = "detach" /\ current # Nothing
    /\ current' = Nothing
    /\ uses' = [uses EXCEPT ![t] = current]
    /\ Goes(t, "giveback")
    /\ UNCHANGED <<gui, succeeded, thread, config, sess, held, kept, loose>>

NoSession(t) ==
    /\ at[t] = "detach" /\ current = Nothing
    /\ AfterShutdown(t, TRUE)
    /\ UNCHANGED <<starts, shown, succeeded, told, start, store>>

\* Nothing is left of the session but what other tasks have in hand.
Hangup(t) ==
    /\ at[t] = "hangup"
    /\ LET s == uses[t]
           shared == \E u \in Tasks \ {t} : uses[u] = s IN
       /\ sess' = IF shared
                  THEN [sess EXCEPT ![s].link = FALSE, ![s].flag = FALSE, ![s].refs = 0]
                  ELSE [sess EXCEPT ![s] = Blank]
       /\ loose' = IF shared \/ s \in held THEN loose ELSE loose \ {s}
    /\ AfterShutdown(t, TRUE)
    /\ UNCHANGED <<starts, shown, succeeded, told, start, current, config, held, kept>>

\* Ending the session's tasks raises: the link and the lock are left alone.
ShutdownFails(t) ==
    /\ at[t] = "giveback"
    /\ AfterShutdown(t, FALSE)
    /\ loose' = loose \cup {uses[t]}
    /\ UNCHANGED <<starts, shown, succeeded, told, start, current, config, sess, held, kept>>

\* asyncio.run cancels what is left, and _thread_main forgets the server.
Unwind ==
    /\ at["main"] = "unwind"
    /\ Cancel("calibration", "ending")
    /\ UNCHANGED <<gui, succeeded, thread, current, config>>

ThreadEnds ==
    /\ at["main"] = "ending" /\ at["calibration"] = "off"
    /\ Goes("main", "off")
    /\ told' = FALSE /\ served' = FALSE
    /\ UNCHANGED <<gui, uses, succeeded, start, store>>

\* _preflight_session.
Preflight ==
    /\ at["worker"] = "configure"
    /\ Configure(starts)
    /\ Goes("worker", "get")
    /\ UNCHANGED <<gui, uses, succeeded, thread, current, held, kept, loose>>

Window == StartPressed \/ StopPressed \/ HandleSignal

Server ==
    \/ Configured \/ Startup \/ Bind \/ Served \/ LifespanEnds \/ Finish \/ Unwind \/ ThreadEnds

Session(t) ==
    \/ Get(t) \/ Acquire(t) \/ Link(t) \/ LinkFails(t) \/ Ask(t) \/ Answered(t)
    \/ Drop(t) \/ Unlock(t) \/ Close(t)

Shutdown(t) == Detach(t) \/ NoSession(t) \/ Hangup(t) \/ ShutdownFails(t)

\* The steps a task takes by itself.
Proceed(t) ==
    \/ Session(t) \/ Shutdown(t)
    \/ t = "main" /\ Server
    \/ t = "worker" /\ Preflight
    \/ t = "calibration" /\ Calibrated
    \/ t = "monitor" /\ MonitorTells

LifeNext ==
    \/ Window \/ GivesUp
    \/ \E t \in Tasks : Proceed(t)
    \/ \E c \in Calls : CallBegins(c)

LifeSpec == LifeInit /\ [][LifeNext]_lifeVars

\* What a task waits for arrives or its time is up, and locks are handed on in
\* the order in which they were asked for; a preflight's time comes to its end.
LifeFairSpec ==
    /\ LifeSpec
    /\ WF_lifeVars(HandleSignal) /\ SF_lifeVars(GivesUp)
    /\ \A t \in {"main", "worker", "monitor"} : WF_lifeVars(Proceed(t))
    /\ \A t \in {"calibration"} \cup Calls : SF_lifeVars(Proceed(t))

(***************************************************************************)
(* Properties                                                              *)
(***************************************************************************)

\* A task works with a session made in its own thread and with the settings of
\* its own start: a session holds the locks and tasks of the loop it was made
\* in (session.py:7147), and _session outlives every thread.
OwnSession ==
    \A t \in Tasks :
        uses[t] # Nothing => /\ sess[uses[t]].loop = LoopOf(t)
                          /\ sess[uses[t]].settings = LoopOf(t)[1]

\* When no thread is left no session object is connected, and the device has its
\* master lock back or was told to and did not hear it or refused (kept: nobody
\* tries again).  Excepted are the sessions that are loose: the answer about the
\* lock was lost or nobody was left to hear it, ending the session's tasks raised,
\* or the monitor worked on the session while it was being shut.
NothingHeld ==
    ~Alive /\ at["worker"] = "off" =>
        /\ held \subseteq loose \cup kept
        /\ \A s \in Sessions : sess[s].link => s \in loose

\* When no thread is left and the window has handled every signal, its start
\* button is enabled: no signal of the monitor comes after the last one.
ButtonsAreRight ==
    ~Alive /\ at["worker"] = "off" /\ posted = <<>> => shown = "idle"

\* Every variable has its type, and the window shows what there is.
LifeInv == LifeTypeOK /\ ButtonsAreRight

\* A server told to stop ends, and a preflight comes to an end in the window.
StartsAndStopsEnd ==
    /\ told ~> ~Alive
    /\ shown = "preflight" ~> shown # "preflight"
=============================================================================
