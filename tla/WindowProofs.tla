---------------------------- MODULE WindowProofs ----------------------------
(***************************************************************************)
(* Theorems about what the window starts: the server and its session       *)
(* (Lifecycle), for any sessions, requests and bounds, and the jobs that   *)
(* bring the device onto a network (Provisioning), for any networks, jobs, *)
(* scans and bounds.                                                       *)
(***************************************************************************)
EXTENDS Lifecycle, Provisioning, SequenceTheorems, TLAPS

(***************************************************************************)
(* Lifecycle: the parts of the invariant                                   *)
(***************************************************************************)

Winding == at["main"] \in {"off", "unwind", "ending"}
Up == {"startup", "bind", "serving", "lifespan", "detach", "giveback", "hangup", "finish"}
Having == {"lock", "link", "ask", "asked", "use", "drop", "unlock", "close", "giveback", "hangup"}
Without == {"off", "configure", "get", "sleep", "startup", "unwind", "ending"}

\* Which task may be where, and when it has a session in hand.
PointInv ==
    /\ at["worker"] \in {"off", "configure", "get", "lock", "link", "ask", "asked", "drop",
                         "unlock", "close", "detach", "giveback", "hangup"}
    /\ at["main"] \in {"off", "configure", "unwind", "ending"} \cup Up
    /\ at["monitor"] \in {"off", "get", "link", "ask", "asked", "sleep"}
    /\ at["calibration"] \in {"off", "lock", "link", "ask", "asked", "use", "drop", "unlock",
                              "close"}
    /\ \A c \in Calls : at[c] \in {"off", "get", "lock", "link", "ask", "asked", "drop",
                                   "unlock", "close"}
    /\ \A t \in Tasks : /\ at[t] \in Having => uses[t] # Nothing
                        /\ at[t] \in Without => uses[t] = Nothing

\* The signals that are posted are those of one thread, the last one its end.
SignalInv ==
    /\ at["worker"] # "off" => Len(posted) = 0 /\ shown = "preflight"
    /\ ~Winding => /\ at["worker"] = "off" /\ shown \in {"up", "stopping"}
                   /\ \A i \in 1..Len(posted) : posted[i] = "running"
    /\ \A i \in 1..Len(posted) : i < Len(posted) => posted[i] = "running"
    /\ shown = "idle" => Len(posted) = 0
    /\ shown = "preflight" => \A i \in 1..Len(posted) : posted[i] \in {"ready", "failed"}
    /\ shown \in {"up", "stopping"} =>
          /\ \A i \in 1..Len(posted) : posted[i] \in {"running", "stopped", "crashed"}
          /\ Winding => Len(posted) > 0 /\ posted[Len(posted)] # "running"

\* A preflight that ends finds no thread.
ReadyInv ==
    shown = "preflight" /\ at["worker"] = "off" => at["main"] = "off" /\ Len(posted) > 0

\* The monitor ends before the thread's second shutdown, the requests before its
\* first; calibration begins with the lifespan.
AliveInv ==
    /\ at["main"] \in {"off", "configure", "startup", "bind", "serving", "lifespan"} => ~served
    /\ at["main"] = "finish" => served
    /\ Winding \/ at["main"] = "configure" \/ (served /\ at["main"] # "finish") =>
          at["monitor"] = "off"
    /\ at["main"] # "serving" => \A c \in Calls : at[c] = "off"
    /\ at["main"] \in {"off", "configure", "startup"} => at["calibration"] = "off"

\* The settings are those of the thread that has the session.
ConfigInv ==
    /\ at["worker"] \notin {"off", "configure"} => config = starts
    /\ at["main"] \in Up => config = start

\* The global variable has a session of the thread that is to shut it.
Keeper(t) ==
    \/ /\ t = "worker"
       /\ at[t] \in {"lock", "link", "ask", "asked", "drop", "unlock", "close", "detach"}
    \/ t = "main" /\ at[t] \in Up /\ (at[t] \in {"giveback", "hangup"} => ~served)

Fits(t, s) == sess[s].loop = LoopOf(t) /\ sess[s].settings = LoopOf(t)[1]

CurrentInv == current # Nothing => \E t \in {"worker", "main"} : Keeper(t) /\ Fits(t, current)

GivesBack(s) == \E t \in {"worker", "main"} : at[t] = "giveback" /\ uses[t] = s
Cleans(s) == \E t \in {"worker", "main"} : at[t] \in {"giveback", "hangup"} /\ uses[t] = s

\* What is not loose is known to somebody who gives it back.
KeepInv ==
    /\ \A t \in {"worker", "main"} : at[t] \in {"giveback", "hangup"} => uses[t] # current
    /\ \A s \in Sessions \ loose :
          /\ s \in held \ kept => sess[s].flag
          /\ sess[s].flag => sess[s].link /\ (s = current \/ GivesBack(s))
          /\ sess[s].link => s = current \/ Cleans(s)
    /\ \A t \in Tasks, s \in Sessions \ loose :
          at[t] = "asked" /\ uses[t] = s => s = current \/ GivesBack(s)

PlaceTypes ==
    /\ at \in [Tasks -> Points]
    /\ uses \in [Tasks -> Sessions \cup {Nothing}]
    /\ current \in Sessions \cup {Nothing}

FlagTypes ==
    /\ starts \in 0..MaxStarts /\ shown \in Shows
    /\ posted \in Seq(Signals)
    /\ succeeded \in BOOLEAN /\ told \in BOOLEAN /\ served \in BOOLEAN
    /\ start \in 0..MaxStarts /\ config \in 0..MaxStarts

Kept == [loop : Loops, settings : 0..MaxStarts, link : BOOLEAN, flag : BOOLEAN, refs : Nat]

SessTypes ==
    /\ sess \in [Sessions -> Kept]
    /\ held \subseteq Sessions /\ kept \subseteq Sessions /\ loose \subseteq Sessions

(***************************************************************************)
(* Lifecycle: tasks and places                                             *)
(***************************************************************************)

\* The four tasks of the threads are no requests.
LEMMA TaskNames ==
    /\ {"worker", "main", "monitor", "calibration"} \subseteq Tasks
    /\ \A c \in Calls : c \in Tasks /\ c \notin {"worker", "main", "monitor", "calibration"}
    /\ \A t \in Tasks : t \in {"worker", "main", "monitor", "calibration"} \cup Calls
  BY LifecycleAssumption DEF LifecycleAssumption, Tasks

\* Every step keeps the types of where the tasks are.
LEMMA PlaceTypesKept ==
    ASSUME PlaceTypes, PointInv, [LifeNext]_lifeVars
    PROVE  PlaceTypes'
<1> USE TaskNames, LifecycleAssumption DEF LifecycleAssumption,
       PlaceTypes, PointInv, Having, Without, Up, Points
<1>1. CASE StartPressed
  BY <1>1 DEF StartPressed, Launch, Forget, Free, Running, Alive, Goes, gui, thread, store
<1>2. CASE StopPressed
  BY <1>2 DEF StopPressed, Running, Goes, gui, thread, store
<1>3. CASE HandleSignal
  BY <1>3 DEF HandleSignal, Launch, Alive, Goes, gui, thread, store
<1>4. CASE GivesUp
  BY <1>4 DEF GivesUp, Goes, gui, thread, store
<1>5. ASSUME NEW t \in Tasks, Get(t) PROVE PlaceTypes'
  BY <1>5 DEF Get, Obtain, Free, LoopOf, Goes, gui, thread, store
<1>6. ASSUME NEW t \in Tasks, Acquire(t) PROVE PlaceTypes'
  BY <1>6 DEF Acquire, Goes, gui, thread, store
<1>7. ASSUME NEW t \in Tasks, Link(t) PROVE PlaceTypes'
  BY <1>7 DEF Link, Loosen, Goes, gui, thread, store
<1>8. ASSUME NEW t \in Tasks, LinkFails(t) PROVE PlaceTypes'
  BY <1>8 DEF LinkFails, Leave, Goes, gui, thread, store
<1>9. ASSUME NEW t \in Tasks, Ask(t) PROVE PlaceTypes'
  BY <1>9 DEF Ask, Leave, Ready, Loosen, Asking, Goes, gui, thread, store
<1>10. ASSUME NEW t \in Tasks, Answered(t) PROVE PlaceTypes'
  BY <1>10 DEF Answered, Leave, Ready, Goes, gui, thread, store
<1>11. ASSUME NEW t \in Tasks, Drop(t) PROVE PlaceTypes'
  BY <1>11 DEF Drop, Leave, Goes, gui, thread, store
<1>12. ASSUME NEW t \in Tasks, Unlock(t) PROVE PlaceTypes'
  BY <1>12 DEF Unlock, Asking, Goes, gui, thread, store
<1>13. ASSUME NEW t \in Tasks, Close(t) PROVE PlaceTypes'
  BY <1>13 DEF Close, Leave, Goes, gui, thread, store
<1>14. ASSUME NEW t \in Tasks, Detach(t) PROVE PlaceTypes'
  BY <1>14 DEF Detach, Goes, gui, thread, store
<1>15. ASSUME NEW t \in Tasks, NoSession(t) PROVE PlaceTypes'
  BY <1>15 DEF NoSession, AfterShutdown, Leave, Post, Goes, gui, thread, store
<1>16. ASSUME NEW t \in Tasks, Hangup(t) PROVE PlaceTypes'
  BY <1>16 DEF Hangup, AfterShutdown, Leave, Post, Goes, gui, thread, store
<1>17. ASSUME NEW t \in Tasks, ShutdownFails(t) PROVE PlaceTypes'
  BY <1>17 DEF ShutdownFails, AfterShutdown, Leave, Post, Goes, gui, thread, store
<1>18. CASE Configured
  BY <1>18 DEF Configured, Configure, Post, Goes, gui, thread, store
<1>19. CASE Startup
  BY <1>19 DEF Startup, Obtain, Free, LoopOf, Goes, gui, thread, store
<1>20. CASE Bind
  BY <1>20 DEF Bind, Cancel, Goes, gui, thread, store
<1>21. CASE Served
  BY <1>21 DEF Served, Cancel, Goes, gui, thread, store
<1>22. CASE LifespanEnds
  BY <1>22 DEF LifespanEnds, Goes, gui, thread, store
<1>23. CASE Finish
  BY <1>23 DEF Finish, Cancel, Goes, gui, thread, store
<1>24. CASE Unwind
  BY <1>24 DEF Unwind, Cancel, Goes, gui, thread, store
<1>25. CASE ThreadEnds
  BY <1>25 DEF ThreadEnds, Goes, gui, thread, store
<1>26. CASE Preflight
  BY <1>26 DEF Preflight, Configure, Goes, gui, thread, store
<1>27. CASE Calibrated
  BY <1>27 DEF Calibrated, Goes, gui, thread, store
<1>28. CASE MonitorTells
  BY <1>28 DEF MonitorTells, Post, Goes, gui, thread, store
<1>29. ASSUME NEW c \in Calls, CallBegins(c) PROVE PlaceTypes'
  BY <1>29 DEF CallBegins, Goes, gui, thread, store
<1> QED
  <2>1. CASE UNCHANGED lifeVars
    BY <2>1 DEF lifeVars, gui, thread, store
  <2> QED
    BY <1>1, <1>2, <1>3, <1>4, <1>5, <1>6, <1>7, <1>8, <1>9, <1>10,
       <1>11, <1>12, <1>13, <1>14, <1>15, <1>16, <1>17, <1>18, <1>19, <1>20,
       <1>21, <1>22, <1>23, <1>24, <1>25, <1>26, <1>27, <1>28, <1>29, <2>1
    DEF LifeNext, Window, Proceed, Session, Shutdown, Server

\* Every step keeps where each task may be.
LEMMA PointsKept ==
    ASSUME PlaceTypes, PointInv, AliveInv, [LifeNext]_lifeVars
    PROVE  PointInv'
<1> USE TaskNames, LifecycleAssumption DEF LifecycleAssumption,
       PlaceTypes, PointInv, AliveInv, Having, Without, Up, Winding
<1>1. CASE StartPressed
  BY <1>1 DEF StartPressed, Launch, Forget, Free, Running, Alive, Goes, gui, thread, store
<1>2. CASE StopPressed
  BY <1>2 DEF StopPressed, Running, Goes, gui, thread, store
<1>3. CASE HandleSignal
  BY <1>3 DEF HandleSignal, Launch, Alive, Goes, gui, thread, store
<1>4. CASE GivesUp
  BY <1>4 DEF GivesUp, Goes, gui, thread, store
<1>5. ASSUME NEW t \in Tasks, Get(t) PROVE PointInv'
  BY <1>5 DEF Get, Obtain, Free, LoopOf, Goes, gui, thread, store
<1>6. ASSUME NEW t \in Tasks, Acquire(t) PROVE PointInv'
  BY <1>6 DEF Acquire, Goes, gui, thread, store
<1>7. ASSUME NEW t \in Tasks, Link(t) PROVE PointInv'
  BY <1>7 DEF Link, Loosen, Goes, gui, thread, store
<1>8. ASSUME NEW t \in Tasks, LinkFails(t) PROVE PointInv'
  BY <1>8 DEF LinkFails, Leave, Goes, gui, thread, store
<1>9. ASSUME NEW t \in Tasks, Ask(t) PROVE PointInv'
  BY <1>9 DEF Ask, Leave, Ready, Loosen, Asking, Goes, gui, thread, store
<1>10. ASSUME NEW t \in Tasks, Answered(t) PROVE PointInv'
  BY <1>10 DEF Answered, Leave, Ready, Goes, gui, thread, store
<1>11. ASSUME NEW t \in Tasks, Drop(t) PROVE PointInv'
  BY <1>11 DEF Drop, Leave, Goes, gui, thread, store
<1>12. ASSUME NEW t \in Tasks, Unlock(t) PROVE PointInv'
  BY <1>12 DEF Unlock, Asking, Goes, gui, thread, store
<1>13. ASSUME NEW t \in Tasks, Close(t) PROVE PointInv'
  BY <1>13 DEF Close, Leave, Goes, gui, thread, store
<1>14. ASSUME NEW t \in Tasks, Detach(t) PROVE PointInv'
  BY <1>14 DEF Detach, Goes, gui, thread, store
<1>15. ASSUME NEW t \in Tasks, NoSession(t) PROVE PointInv'
  BY <1>15 DEF NoSession, AfterShutdown, Leave, Post, Goes, gui, thread, store
<1>16. ASSUME NEW t \in Tasks, Hangup(t) PROVE PointInv'
  BY <1>16 DEF Hangup, AfterShutdown, Leave, Post, Goes, gui, thread, store
<1>17. ASSUME NEW t \in Tasks, ShutdownFails(t) PROVE PointInv'
  BY <1>17 DEF ShutdownFails, AfterShutdown, Leave, Post, Goes, gui, thread, store
<1>18. CASE Configured
  BY <1>18 DEF Configured, Configure, Post, Goes, gui, thread, store
<1>19. CASE Startup
  BY <1>19 DEF Startup, Obtain, Free, LoopOf, Goes, gui, thread, store
<1>20. CASE Bind
  BY <1>20 DEF Bind, Cancel, Goes, gui, thread, store
<1>21. CASE Served
  BY <1>21 DEF Served, Cancel, Goes, gui, thread, store
<1>22. CASE LifespanEnds
  BY <1>22 DEF LifespanEnds, Goes, gui, thread, store
<1>23. CASE Finish
  BY <1>23 DEF Finish, Cancel, Goes, gui, thread, store
<1>24. CASE Unwind
  BY <1>24 DEF Unwind, Cancel, Goes, gui, thread, store
<1>25. CASE ThreadEnds
  BY <1>25 DEF ThreadEnds, Goes, gui, thread, store
<1>26. CASE Preflight
  BY <1>26 DEF Preflight, Configure, Goes, gui, thread, store
<1>27. CASE Calibrated
  BY <1>27 DEF Calibrated, Goes, gui, thread, store
<1>28. CASE MonitorTells
  BY <1>28 DEF MonitorTells, Post, Goes, gui, thread, store
<1>29. ASSUME NEW c \in Calls, CallBegins(c) PROVE PointInv'
  BY <1>29 DEF CallBegins, Goes, gui, thread, store
<1> QED
  <2>1. CASE UNCHANGED lifeVars
    BY <2>1 DEF lifeVars, gui, thread, store
  <2> QED
    BY <1>1, <1>2, <1>3, <1>4, <1>5, <1>6, <1>7, <1>8, <1>9, <1>10,
       <1>11, <1>12, <1>13, <1>14, <1>15, <1>16, <1>17, <1>18, <1>19, <1>20,
       <1>21, <1>22, <1>23, <1>24, <1>25, <1>26, <1>27, <1>28, <1>29, <2>1
    DEF LifeNext, Window, Proceed, Session, Shutdown, Server

(***************************************************************************)
(* Lifecycle: signals and settings                                         *)
(***************************************************************************)

\* What is posted joins the end of the signals.
LEMMA Posted ==
    ASSUME posted \in Seq(Signals), NEW signal \in Signals, Post(signal)
    PROVE  /\ posted' \in Seq(Signals) /\ posted'[Len(posted')] = signal
           /\ Len(posted) \in Nat /\ Len(posted') = Len(posted) + 1
           /\ \A i \in 1..Len(posted') : /\ i < Len(posted') =>
                                               i \in 1..Len(posted) /\ posted'[i] = posted[i]
                                         /\ i >= Len(posted') => posted'[i] = signal
  BY DEF Post

\* The first element of a sequence leaves it.
LEMMA First ==
    ASSUME NEW S, NEW seq \in Seq(S), seq # <<>>
    PROVE  /\ Tail(seq) \in Seq(S) /\ Len(seq) \in Nat /\ Len(seq) >= 1
           /\ Len(Tail(seq)) = Len(seq) - 1 /\ Head(seq) = seq[1]
           /\ \A i \in 1..Len(seq) - 1 : Tail(seq)[i] = seq[i + 1]
  OBVIOUS

\* What the window handles is the first of the signals.
LEMMA Handled ==
    ASSUME posted \in Seq(Signals), posted # <<>>, posted' = Tail(posted)
    PROVE  /\ posted' \in Seq(Signals) /\ Len(posted) \in Nat /\ Len(posted) >= 1
           /\ Len(posted') = Len(posted) - 1 /\ Head(posted) = posted[1]
           /\ \A i \in 1..Len(posted') : posted'[i] = posted[i + 1]
  BY First

\* Every step keeps the types.
LEMMA FlagTypesKept ==
    ASSUME FlagTypes, [LifeNext]_lifeVars
    PROVE  FlagTypes'
<1> USE LifecycleAssumption DEF FlagTypes, Signals, Shows, LifecycleAssumption
<1>1. CASE StartPressed
  <2>1. starts' \in 0..MaxStarts
    BY <1>1 DEF StartPressed
  <2>2. start' \in {start, starts'} /\ UNCHANGED <<told, served, posted>> /\ shown' \in Shows
    BY <1>1 DEF StartPressed, Launch, thread
  <2>3. succeeded' \in BOOLEAN
    BY <1>1 DEF StartPressed
  <2>4. config' = config
    BY <1>1 DEF StartPressed
  <2> QED
    BY <2>1, <2>2, <2>3, <2>4
<1>2. CASE StopPressed
  BY <1>2 DEF StopPressed, Running, Goes, gui, thread, store
<1>3. CASE HandleSignal
  BY <1>3 DEF HandleSignal, Launch, Alive, Goes, gui, thread, store
<1>4. CASE GivesUp
  BY <1>4 DEF GivesUp, Goes, gui, thread, store
<1>5. ASSUME NEW t \in Tasks, Get(t) PROVE FlagTypes'
  BY <1>5 DEF Get, Obtain, Free, LoopOf, Goes, gui, thread, store
<1>6. ASSUME NEW t \in Tasks, Acquire(t) PROVE FlagTypes'
  BY <1>6 DEF Acquire, Goes, gui, thread, store
<1>7. ASSUME NEW t \in Tasks, Link(t) PROVE FlagTypes'
  BY <1>7 DEF Link, Loosen, Goes, gui, thread, store
<1>8. ASSUME NEW t \in Tasks, LinkFails(t) PROVE FlagTypes'
  BY <1>8 DEF LinkFails, Leave, Goes, gui, thread, store
<1>9. ASSUME NEW t \in Tasks, Ask(t) PROVE FlagTypes'
  BY <1>9 DEF Ask, Leave, Ready, Loosen, Asking, Goes, gui, thread, store
<1>10. ASSUME NEW t \in Tasks, Answered(t) PROVE FlagTypes'
  BY <1>10 DEF Answered, Leave, Ready, Goes, gui, thread, store
<1>11. ASSUME NEW t \in Tasks, Drop(t) PROVE FlagTypes'
  BY <1>11 DEF Drop, Leave, Goes, gui, thread, store
<1>12. ASSUME NEW t \in Tasks, Unlock(t) PROVE FlagTypes'
  BY <1>12 DEF Unlock, Asking, Goes, gui, thread, store
<1>13. ASSUME NEW t \in Tasks, Close(t) PROVE FlagTypes'
  BY <1>13 DEF Close, Leave, Goes, gui, thread, store
<1>14. ASSUME NEW t \in Tasks, Detach(t) PROVE FlagTypes'
  BY <1>14 DEF Detach, Goes, gui, thread, store
<1>15. ASSUME NEW t \in Tasks, NoSession(t) PROVE FlagTypes'
  BY <1>15, Posted DEF NoSession, AfterShutdown, Leave, Alive, Goes, gui, thread, store
<1>16. ASSUME NEW t \in Tasks, Hangup(t) PROVE FlagTypes'
  BY <1>16, Posted DEF Hangup, AfterShutdown, Leave, Alive, Goes, gui, thread, store
<1>17. ASSUME NEW t \in Tasks, ShutdownFails(t) PROVE FlagTypes'
  BY <1>17, Posted DEF ShutdownFails, AfterShutdown, Leave, Alive, Goes, gui, thread, store
<1>18. CASE Configured
  BY <1>18, Posted DEF Configured, Configure, Goes, gui, thread, store
<1>19. CASE Startup
  BY <1>19 DEF Startup, Obtain, Free, LoopOf, Goes, gui, thread, store
<1>20. CASE Bind
  BY <1>20 DEF Bind, Cancel, Goes, gui, thread, store
<1>21. CASE Served
  BY <1>21 DEF Served, Cancel, Goes, gui, thread, store
<1>22. CASE LifespanEnds
  BY <1>22 DEF LifespanEnds, Goes, gui, thread, store
<1>23. CASE Finish
  BY <1>23 DEF Finish, Cancel, Goes, gui, thread, store
<1>24. CASE Unwind
  BY <1>24 DEF Unwind, Cancel, Goes, gui, thread, store
<1>25. CASE ThreadEnds
  BY <1>25 DEF ThreadEnds, Goes, gui, thread, store
<1>26. CASE Preflight
  BY <1>26 DEF Preflight, Configure, Goes, gui, thread, store
<1>27. CASE Calibrated
  BY <1>27 DEF Calibrated, Goes, gui, thread, store
<1>28. CASE MonitorTells
  BY <1>28, Posted DEF MonitorTells, Goes, gui, thread, store
<1>29. ASSUME NEW c \in Calls, CallBegins(c) PROVE FlagTypes'
  BY <1>29 DEF CallBegins, Goes, gui, thread, store
<1> QED
  <2>1. CASE UNCHANGED lifeVars
    BY <2>1 DEF lifeVars, gui, thread, store
  <2> QED
    BY <1>1, <1>2, <1>3, <1>4, <1>5, <1>6, <1>7, <1>8, <1>9, <1>10,
       <1>11, <1>12, <1>13, <1>14, <1>15, <1>16, <1>17, <1>18, <1>19, <1>20,
       <1>21, <1>22, <1>23, <1>24, <1>25, <1>26, <1>27, <1>28, <1>29, <2>1
    DEF LifeNext, Window, Proceed, Session, Shutdown, Server

\* Every step keeps the signals in their order.
LEMMA SignalKept ==
    ASSUME FlagTypes, PlaceTypes, PointInv, AliveInv, SignalInv, [LifeNext]_lifeVars
    PROVE  SignalInv'
<1> USE TaskNames DEF FlagTypes, PlaceTypes, PointInv, AliveInv, SignalInv, Winding, Up, Signals
<1>1. CASE StartPressed
  BY <1>1 DEF StartPressed, Launch, Running, Alive, Goes, gui, thread, store
<1>2. CASE StopPressed
  BY <1>2 DEF StopPressed, Running, Goes, gui, thread, store
<1>3. CASE HandleSignal
  <2>1. /\ posted' \in Seq(Signals) /\ Len(posted) \in Nat /\ Len(posted) >= 1
        /\ Len(posted') = Len(posted) - 1 /\ Head(posted) = posted[1]
        /\ \A i \in 1..Len(posted') : posted'[i] = posted[i + 1]
    BY <1>3, Handled DEF HandleSignal
  <2>2. at["worker"] = "off" /\ shown # "idle" /\ posted[1] \in Signals
    BY <1>3, <2>1 DEF HandleSignal
  <2>3. \A i \in 1..Len(posted') : i + 1 \in 1..Len(posted)
    BY <2>1
  <2>4. CASE posted[1] = "ready"
    <3>1. Len(posted) = 1 /\ Len(posted') = 0
      BY <2>1, <2>2, <2>4
    <3>2. CASE Alive
      BY <1>3, <2>1, <2>2, <2>4, <3>1, <3>2 DEF HandleSignal, Launch
    <3>3. CASE ~Alive
      <4>1. shown' = "up" /\ at' = [at EXCEPT !["main"] = "configure"]
        BY <1>3, <2>1, <2>4, <3>3 DEF HandleSignal, Launch, Goes
      <4> QED
        BY <2>2, <3>1, <4>1
    <3> QED
      BY <3>2, <3>3
  <2>5. CASE posted[1] = "running"
    <3>1. shown \in {"up", "stopping"} /\ shown' = "up" /\ at' = at
      BY <1>3, <2>1, <2>2, <2>5 DEF HandleSignal, thread, Shows
    <3>2. Winding => Len(posted) > 1 /\ posted'[Len(posted')] = posted[Len(posted)]
      BY <2>1, <2>5, <3>1
    <3> QED
      BY <2>1, <2>2, <2>3, <3>1, <3>2
  <2>6. CASE posted[1] \in {"failed", "stopped", "crashed"}
    <3>1. Len(posted) = 1 /\ Len(posted') = 0 /\ shown' = "idle" /\ at' = at /\ Winding
      BY <1>3, <2>1, <2>2, <2>6 DEF HandleSignal, thread, Shows
    <3> QED
      BY <2>1, <2>2, <3>1
  <2> QED
    BY <2>2, <2>4, <2>5, <2>6
<1>4. CASE GivesUp
  BY <1>4 DEF GivesUp, Goes, gui, thread, store
<1>5. ASSUME NEW t \in Tasks, Get(t) PROVE SignalInv'
  BY <1>5 DEF Get, Obtain, Free, LoopOf, Goes, gui, thread, store
<1>6. ASSUME NEW t \in Tasks, Acquire(t) PROVE SignalInv'
  BY <1>6 DEF Acquire, Goes, gui, thread, store
<1>7. ASSUME NEW t \in Tasks, Link(t) PROVE SignalInv'
  BY <1>7 DEF Link, Loosen, Goes, gui, thread, store
<1>8. ASSUME NEW t \in Tasks, LinkFails(t) PROVE SignalInv'
  BY <1>8 DEF LinkFails, Leave, Goes, gui, thread, store
<1>9. ASSUME NEW t \in Tasks, Ask(t) PROVE SignalInv'
  BY <1>9 DEF Ask, Leave, Ready, Loosen, Asking, Goes, gui, thread, store
<1>10. ASSUME NEW t \in Tasks, Answered(t) PROVE SignalInv'
  BY <1>10 DEF Answered, Leave, Ready, Goes, gui, thread, store
<1>11. ASSUME NEW t \in Tasks, Drop(t) PROVE SignalInv'
  BY <1>11 DEF Drop, Leave, Goes, gui, thread, store
<1>12. ASSUME NEW t \in Tasks, Unlock(t) PROVE SignalInv'
  BY <1>12 DEF Unlock, Asking, Goes, gui, thread, store
<1>13. ASSUME NEW t \in Tasks, Close(t) PROVE SignalInv'
  BY <1>13 DEF Close, Leave, Goes, gui, thread, store
<1>14. ASSUME NEW t \in Tasks, Detach(t) PROVE SignalInv'
  BY <1>14 DEF Detach, Goes, gui, thread, store
<1>15. ASSUME NEW t \in Tasks, NoSession(t) PROVE SignalInv'
  <2>1. CASE t = "worker"
    <3>1. /\ at[t] \in {"detach", "giveback", "hangup"}
          /\ at' = [at EXCEPT ![t] = "off"] /\ shown' = shown
          /\ \E signal \in {"ready", "failed"} : Post(signal)
      BY <1>15, <2>1 DEF NoSession, AfterShutdown, Leave, Goes
    <3> QED
      BY <2>1, <3>1, Posted
  <2>2. CASE t = "main" /\ ~served
    <3>1. /\ at[t] \in {"detach", "giveback", "hangup"} /\ at' = [at EXCEPT ![t] = "finish"]
          /\ UNCHANGED <<shown, posted>>
      BY <1>15, <2>2 DEF NoSession, AfterShutdown, Leave, Goes
    <3> QED
      BY <2>2, <3>1
  <2>3. CASE t = "main" /\ served
    <3>1. /\ at[t] \in {"detach", "giveback", "hangup"}
          /\ at' = [at EXCEPT ![t] = "unwind"] /\ shown' = shown
          /\ \E signal \in {"stopped", "crashed"} : Post(signal)
      BY <1>15, <2>3 DEF NoSession, AfterShutdown, Leave, Goes
    <3>2. PICK signal \in {"stopped", "crashed"} : Post(signal)
      BY <3>1
    <3>3. /\ at'["main"] = "unwind" /\ at'["worker"] = "off" /\ shown' \in {"up", "stopping"}
          /\ \A i \in 1..Len(posted) : posted[i] = "running"
      BY <2>3, <3>1
    <3>4. /\ Len(posted') \in Nat /\ Len(posted') > 0 /\ posted'[Len(posted')] = signal
          /\ \A i \in 1..Len(posted') : /\ i < Len(posted') => posted'[i] = "running"
                                        /\ i >= Len(posted') => posted'[i] = signal
      BY <3>2, <3>3, Posted
    <3> QED
      BY <3>3, <3>4
  <2> QED
    BY <1>15, <2>1, <2>2, <2>3 DEF NoSession, AfterShutdown
<1>16. ASSUME NEW t \in Tasks, Hangup(t) PROVE SignalInv'
  <2>1. CASE t = "worker"
    <3>1. /\ at[t] \in {"detach", "giveback", "hangup"}
          /\ at' = [at EXCEPT ![t] = "off"] /\ shown' = shown
          /\ \E signal \in {"ready", "failed"} : Post(signal)
      BY <1>16, <2>1 DEF Hangup, AfterShutdown, Leave, Goes
    <3> QED
      BY <2>1, <3>1, Posted
  <2>2. CASE t = "main" /\ ~served
    <3>1. /\ at[t] \in {"detach", "giveback", "hangup"} /\ at' = [at EXCEPT ![t] = "finish"]
          /\ UNCHANGED <<shown, posted>>
      BY <1>16, <2>2 DEF Hangup, AfterShutdown, Leave, Goes
    <3> QED
      BY <2>2, <3>1
  <2>3. CASE t = "main" /\ served
    <3>1. /\ at[t] \in {"detach", "giveback", "hangup"}
          /\ at' = [at EXCEPT ![t] = "unwind"] /\ shown' = shown
          /\ \E signal \in {"stopped", "crashed"} : Post(signal)
      BY <1>16, <2>3 DEF Hangup, AfterShutdown, Leave, Goes
    <3>2. PICK signal \in {"stopped", "crashed"} : Post(signal)
      BY <3>1
    <3>3. /\ at'["main"] = "unwind" /\ at'["worker"] = "off" /\ shown' \in {"up", "stopping"}
          /\ \A i \in 1..Len(posted) : posted[i] = "running"
      BY <2>3, <3>1
    <3>4. /\ Len(posted') \in Nat /\ Len(posted') > 0 /\ posted'[Len(posted')] = signal
          /\ \A i \in 1..Len(posted') : /\ i < Len(posted') => posted'[i] = "running"
                                        /\ i >= Len(posted') => posted'[i] = signal
      BY <3>2, <3>3, Posted
    <3> QED
      BY <3>3, <3>4
  <2> QED
    BY <1>16, <2>1, <2>2, <2>3 DEF Hangup, AfterShutdown
<1>17. ASSUME NEW t \in Tasks, ShutdownFails(t) PROVE SignalInv'
  <2>1. CASE t = "worker"
    <3>1. /\ at[t] \in {"detach", "giveback", "hangup"}
          /\ at' = [at EXCEPT ![t] = "off"] /\ shown' = shown
          /\ \E signal \in {"ready", "failed"} : Post(signal)
      BY <1>17, <2>1 DEF ShutdownFails, AfterShutdown, Leave, Goes
    <3> QED
      BY <2>1, <3>1, Posted
  <2>2. CASE t = "main" /\ ~served
    <3>1. /\ at[t] \in {"detach", "giveback", "hangup"} /\ at' = [at EXCEPT ![t] = "finish"]
          /\ UNCHANGED <<shown, posted>>
      BY <1>17, <2>2 DEF ShutdownFails, AfterShutdown, Leave, Goes
    <3> QED
      BY <2>2, <3>1
  <2>3. CASE t = "main" /\ served
    <3>1. /\ at[t] \in {"detach", "giveback", "hangup"}
          /\ at' = [at EXCEPT ![t] = "unwind"] /\ shown' = shown
          /\ \E signal \in {"stopped", "crashed"} : Post(signal)
      BY <1>17, <2>3 DEF ShutdownFails, AfterShutdown, Leave, Goes
    <3>2. PICK signal \in {"stopped", "crashed"} : Post(signal)
      BY <3>1
    <3>3. /\ at'["main"] = "unwind" /\ at'["worker"] = "off" /\ shown' \in {"up", "stopping"}
          /\ \A i \in 1..Len(posted) : posted[i] = "running"
      BY <2>3, <3>1
    <3>4. /\ Len(posted') \in Nat /\ Len(posted') > 0 /\ posted'[Len(posted')] = signal
          /\ \A i \in 1..Len(posted') : /\ i < Len(posted') => posted'[i] = "running"
                                        /\ i >= Len(posted') => posted'[i] = signal
      BY <3>2, <3>3, Posted
    <3> QED
      BY <3>3, <3>4
  <2> QED
    BY <1>17, <2>1, <2>2, <2>3 DEF ShutdownFails, AfterShutdown
<1>18. CASE Configured
  <2>1. at["main"] = "configure" /\ shown' = shown
    BY <1>18 DEF Configured
  <2>2. CASE Post("running") /\ at' = [at EXCEPT !["main"] = "startup", !["monitor"] = "get"]
    <3>1. /\ at'["main"] = "startup" /\ at'["worker"] = "off" /\ shown' \in {"up", "stopping"}
          /\ \A i \in 1..Len(posted) : posted[i] = "running"
      BY <2>1, <2>2
    <3>2. \A i \in 1..Len(posted') : posted'[i] = "running"
      BY <2>2, <3>1, Posted
    <3> QED
      BY <3>1, <3>2
  <2>3. CASE Post("crashed") /\ at' = [at EXCEPT !["main"] = "unwind"]
    BY <2>1, <2>3, Posted
  <2> QED
    BY <1>18, <2>2, <2>3 DEF Configured, Goes
<1>19. CASE Startup
  BY <1>19 DEF Startup, Obtain, Free, LoopOf, Goes, gui, thread, store
<1>20. CASE Bind
  BY <1>20 DEF Bind, Cancel, Goes, gui, thread, store
<1>21. CASE Served
  BY <1>21 DEF Served, Cancel, Goes, gui, thread, store
<1>22. CASE LifespanEnds
  BY <1>22 DEF LifespanEnds, Goes, gui, thread, store
<1>23. CASE Finish
  BY <1>23 DEF Finish, Cancel, Goes, gui, thread, store
<1>24. CASE Unwind
  BY <1>24 DEF Unwind, Cancel, Goes, gui, thread, store
<1>25. CASE ThreadEnds
  BY <1>25 DEF ThreadEnds, Goes, gui, thread, store
<1>26. CASE Preflight
  BY <1>26 DEF Preflight, Configure, Goes, gui, thread, store
<1>27. CASE Calibrated
  BY <1>27 DEF Calibrated, Goes, gui, thread, store
<1>28. CASE MonitorTells
  <2>1. ~Winding /\ shown' = shown /\ at' = [at EXCEPT !["monitor"] = "get"]
    BY <1>28 DEF MonitorTells, Goes
  <2>2. CASE Post("running")
    <3>1. /\ at'["main"] = at["main"] /\ at'["worker"] = "off" /\ shown' \in {"up", "stopping"}
          /\ \A i \in 1..Len(posted) : posted[i] = "running"
      BY <2>1
    <3>2. \A i \in 1..Len(posted') : posted'[i] = "running"
      BY <2>2, <3>1, Posted
    <3> QED
      BY <2>1, <3>1, <3>2
  <2>3. CASE posted' = posted
    BY <2>1, <2>3
  <2> QED
    BY <1>28, <2>2, <2>3 DEF MonitorTells
<1>29. ASSUME NEW c \in Calls, CallBegins(c) PROVE SignalInv'
  BY <1>29 DEF CallBegins, Goes, gui, thread, store
<1> QED
  <2>1. CASE UNCHANGED lifeVars
    BY <2>1 DEF lifeVars, gui, thread, store
  <2> QED
    BY <1>1, <1>2, <1>3, <1>4, <1>5, <1>6, <1>7, <1>8, <1>9, <1>10,
       <1>11, <1>12, <1>13, <1>14, <1>15, <1>16, <1>17, <1>18, <1>19, <1>20,
       <1>21, <1>22, <1>23, <1>24, <1>25, <1>26, <1>27, <1>28, <1>29, <2>1
    DEF LifeNext, Window, Proceed, Session, Shutdown, Server

\* Every step keeps that a preflight which ended finds no thread.
LEMMA ReadyKept ==
    ASSUME ~LateEnd, FlagTypes, PlaceTypes, PointInv, SignalInv, ReadyInv, [LifeNext]_lifeVars
    PROVE  ReadyInv'
<1> USE TaskNames DEF FlagTypes, PlaceTypes, PointInv, SignalInv, ReadyInv, Winding, Up, Signals
<1>1. CASE StartPressed
  BY <1>1 DEF StartPressed, Launch, Running, Alive, Goes, gui, thread, store
<1>2. CASE StopPressed
  BY <1>2 DEF StopPressed, Running, Goes, gui, thread, store
<1>3. CASE HandleSignal
  BY <1>3, Handled DEF HandleSignal, Launch, Alive, Goes, gui, thread, store
<1>4. CASE GivesUp
  BY <1>4 DEF GivesUp, Goes, gui, thread, store
<1>5. ASSUME NEW t \in Tasks, Get(t) PROVE ReadyInv'
  BY <1>5 DEF Get, Obtain, Free, LoopOf, Goes, gui, thread, store
<1>6. ASSUME NEW t \in Tasks, Acquire(t) PROVE ReadyInv'
  BY <1>6 DEF Acquire, Goes, gui, thread, store
<1>7. ASSUME NEW t \in Tasks, Link(t) PROVE ReadyInv'
  BY <1>7 DEF Link, Loosen, Goes, gui, thread, store
<1>8. ASSUME NEW t \in Tasks, LinkFails(t) PROVE ReadyInv'
  BY <1>8 DEF LinkFails, Leave, Goes, gui, thread, store
<1>9. ASSUME NEW t \in Tasks, Ask(t) PROVE ReadyInv'
  BY <1>9 DEF Ask, Leave, Ready, Loosen, Asking, Goes, gui, thread, store
<1>10. ASSUME NEW t \in Tasks, Answered(t) PROVE ReadyInv'
  BY <1>10 DEF Answered, Leave, Ready, Goes, gui, thread, store
<1>11. ASSUME NEW t \in Tasks, Drop(t) PROVE ReadyInv'
  BY <1>11 DEF Drop, Leave, Goes, gui, thread, store
<1>12. ASSUME NEW t \in Tasks, Unlock(t) PROVE ReadyInv'
  BY <1>12 DEF Unlock, Asking, Goes, gui, thread, store
<1>13. ASSUME NEW t \in Tasks, Close(t) PROVE ReadyInv'
  BY <1>13 DEF Close, Leave, Goes, gui, thread, store
<1>14. ASSUME NEW t \in Tasks, Detach(t) PROVE ReadyInv'
  BY <1>14 DEF Detach, Goes, gui, thread, store
<1>15. ASSUME NEW t \in Tasks, NoSession(t) PROVE ReadyInv'
  BY <1>15, Posted DEF NoSession, AfterShutdown, Leave, Alive, Goes, gui, thread, store
<1>16. ASSUME NEW t \in Tasks, Hangup(t) PROVE ReadyInv'
  BY <1>16, Posted DEF Hangup, AfterShutdown, Leave, Alive, Goes, gui, thread, store
<1>17. ASSUME NEW t \in Tasks, ShutdownFails(t) PROVE ReadyInv'
  BY <1>17, Posted DEF ShutdownFails, AfterShutdown, Leave, Alive, Goes, gui, thread, store
<1>18. CASE Configured
  BY <1>18, Posted DEF Configured, Configure, Goes, gui, thread, store
<1>19. CASE Startup
  BY <1>19 DEF Startup, Obtain, Free, LoopOf, Goes, gui, thread, store
<1>20. CASE Bind
  BY <1>20 DEF Bind, Cancel, Goes, gui, thread, store
<1>21. CASE Served
  BY <1>21 DEF Served, Cancel, Goes, gui, thread, store
<1>22. CASE LifespanEnds
  BY <1>22 DEF LifespanEnds, Goes, gui, thread, store
<1>23. CASE Finish
  BY <1>23 DEF Finish, Cancel, Goes, gui, thread, store
<1>24. CASE Unwind
  BY <1>24 DEF Unwind, Cancel, Goes, gui, thread, store
<1>25. CASE ThreadEnds
  BY <1>25 DEF ThreadEnds, Goes, gui, thread, store
<1>26. CASE Preflight
  BY <1>26 DEF Preflight, Configure, Goes, gui, thread, store
<1>27. CASE Calibrated
  BY <1>27 DEF Calibrated, Goes, gui, thread, store
<1>28. CASE MonitorTells
  BY <1>28, Posted DEF MonitorTells, Goes, gui, thread, store
<1>29. ASSUME NEW c \in Calls, CallBegins(c) PROVE ReadyInv'
  BY <1>29 DEF CallBegins, Goes, gui, thread, store
<1> QED
  <2>1. CASE UNCHANGED lifeVars
    BY <2>1 DEF lifeVars, gui, thread, store
  <2> QED
    BY <1>1, <1>2, <1>3, <1>4, <1>5, <1>6, <1>7, <1>8, <1>9, <1>10,
       <1>11, <1>12, <1>13, <1>14, <1>15, <1>16, <1>17, <1>18, <1>19, <1>20,
       <1>21, <1>22, <1>23, <1>24, <1>25, <1>26, <1>27, <1>28, <1>29, <2>1
    DEF LifeNext, Window, Proceed, Session, Shutdown, Server

\* Every step keeps who may be alive.
LEMMA AliveKept ==
    ASSUME FlagTypes, PlaceTypes, PointInv, SignalInv, AliveInv, [LifeNext]_lifeVars
    PROVE  AliveInv'
<1> USE TaskNames DEF FlagTypes, PlaceTypes, PointInv, SignalInv, AliveInv, Winding, Up
<1>1. CASE StartPressed
  BY <1>1 DEF StartPressed, Launch, Running, Alive, Goes, gui, thread, store
<1>2. CASE StopPressed
  BY <1>2 DEF StopPressed, Running, Goes, gui, thread, store
<1>3. CASE HandleSignal
  BY <1>3 DEF HandleSignal, Launch, Alive, Goes, gui, thread, store
<1>4. CASE GivesUp
  BY <1>4 DEF GivesUp, Goes, gui, thread, store
<1>5. ASSUME NEW t \in Tasks, Get(t) PROVE AliveInv'
  BY <1>5 DEF Get, Obtain, Free, LoopOf, Goes, gui, thread, store
<1>6. ASSUME NEW t \in Tasks, Acquire(t) PROVE AliveInv'
  BY <1>6 DEF Acquire, Goes, gui, thread, store
<1>7. ASSUME NEW t \in Tasks, Link(t) PROVE AliveInv'
  BY <1>7 DEF Link, Loosen, Goes, gui, thread, store
<1>8. ASSUME NEW t \in Tasks, LinkFails(t) PROVE AliveInv'
  BY <1>8 DEF LinkFails, Leave, Goes, gui, thread, store
<1>9. ASSUME NEW t \in Tasks, Ask(t) PROVE AliveInv'
  BY <1>9 DEF Ask, Leave, Ready, Loosen, Asking, Goes, gui, thread, store
<1>10. ASSUME NEW t \in Tasks, Answered(t) PROVE AliveInv'
  BY <1>10 DEF Answered, Leave, Ready, Goes, gui, thread, store
<1>11. ASSUME NEW t \in Tasks, Drop(t) PROVE AliveInv'
  BY <1>11 DEF Drop, Leave, Goes, gui, thread, store
<1>12. ASSUME NEW t \in Tasks, Unlock(t) PROVE AliveInv'
  BY <1>12 DEF Unlock, Asking, Goes, gui, thread, store
<1>13. ASSUME NEW t \in Tasks, Close(t) PROVE AliveInv'
  BY <1>13 DEF Close, Leave, Goes, gui, thread, store
<1>14. ASSUME NEW t \in Tasks, Detach(t) PROVE AliveInv'
  BY <1>14 DEF Detach, Goes, gui, thread, store
<1>15. ASSUME NEW t \in Tasks, NoSession(t) PROVE AliveInv'
  BY <1>15 DEF NoSession, AfterShutdown, Leave, Alive, Goes, gui, thread, store
<1>16. ASSUME NEW t \in Tasks, Hangup(t) PROVE AliveInv'
  BY <1>16 DEF Hangup, AfterShutdown, Leave, Alive, Goes, gui, thread, store
<1>17. ASSUME NEW t \in Tasks, ShutdownFails(t) PROVE AliveInv'
  BY <1>17 DEF ShutdownFails, AfterShutdown, Leave, Alive, Goes, gui, thread, store
<1>18. CASE Configured
  BY <1>18 DEF Configured, Configure, Goes, gui, thread, store
<1>19. CASE Startup
  BY <1>19 DEF Startup, Obtain, Free, LoopOf, Goes, gui, thread, store
<1>20. CASE Bind
  BY <1>20 DEF Bind, Cancel, Goes, gui, thread, store
<1>21. CASE Served
  BY <1>21 DEF Served, Cancel, Goes, gui, thread, store
<1>22. CASE LifespanEnds
  BY <1>22 DEF LifespanEnds, Goes, gui, thread, store
<1>23. CASE Finish
  BY <1>23 DEF Finish, Cancel, Goes, gui, thread, store
<1>24. CASE Unwind
  BY <1>24 DEF Unwind, Cancel, Goes, gui, thread, store
<1>25. CASE ThreadEnds
  BY <1>25 DEF ThreadEnds, Goes, gui, thread, store
<1>26. CASE Preflight
  BY <1>26 DEF Preflight, Configure, Goes, gui, thread, store
<1>27. CASE Calibrated
  BY <1>27 DEF Calibrated, Goes, gui, thread, store
<1>28. CASE MonitorTells
  BY <1>28 DEF MonitorTells, Goes, gui, thread, store
<1>29. ASSUME NEW c \in Calls, CallBegins(c) PROVE AliveInv'
  BY <1>29 DEF CallBegins, Goes, gui, thread, store
<1> QED
  <2>1. CASE UNCHANGED lifeVars
    BY <2>1 DEF lifeVars, gui, thread, store
  <2> QED
    BY <1>1, <1>2, <1>3, <1>4, <1>5, <1>6, <1>7, <1>8, <1>9, <1>10,
       <1>11, <1>12, <1>13, <1>14, <1>15, <1>16, <1>17, <1>18, <1>19, <1>20,
       <1>21, <1>22, <1>23, <1>24, <1>25, <1>26, <1>27, <1>28, <1>29, <2>1
    DEF LifeNext, Window, Proceed, Session, Shutdown, Server

\* Every step keeps whose settings there are.
LEMMA ConfigKept ==
    ASSUME FlagTypes, PlaceTypes, PointInv, SignalInv, ConfigInv, [LifeNext]_lifeVars
    PROVE  ConfigInv'
<1> USE TaskNames DEF FlagTypes, PlaceTypes, PointInv, SignalInv, ConfigInv, Winding, Up
<1>1. CASE StartPressed
  BY <1>1 DEF StartPressed, Launch, Running, Alive, Goes, gui, thread, store
<1>2. CASE StopPressed
  BY <1>2 DEF StopPressed, Running, Goes, gui, thread, store
<1>3. CASE HandleSignal
  BY <1>3 DEF HandleSignal, Launch, Alive, Goes, gui, thread, store
<1>4. CASE GivesUp
  BY <1>4 DEF GivesUp, Goes, gui, thread, store
<1>5. ASSUME NEW t \in Tasks, Get(t) PROVE ConfigInv'
  BY <1>5 DEF Get, Obtain, Free, LoopOf, Goes, gui, thread, store
<1>6. ASSUME NEW t \in Tasks, Acquire(t) PROVE ConfigInv'
  BY <1>6 DEF Acquire, Goes, gui, thread, store
<1>7. ASSUME NEW t \in Tasks, Link(t) PROVE ConfigInv'
  BY <1>7 DEF Link, Loosen, Goes, gui, thread, store
<1>8. ASSUME NEW t \in Tasks, LinkFails(t) PROVE ConfigInv'
  BY <1>8 DEF LinkFails, Leave, Goes, gui, thread, store
<1>9. ASSUME NEW t \in Tasks, Ask(t) PROVE ConfigInv'
  BY <1>9 DEF Ask, Leave, Ready, Loosen, Asking, Goes, gui, thread, store
<1>10. ASSUME NEW t \in Tasks, Answered(t) PROVE ConfigInv'
  BY <1>10 DEF Answered, Leave, Ready, Goes, gui, thread, store
<1>11. ASSUME NEW t \in Tasks, Drop(t) PROVE ConfigInv'
  BY <1>11 DEF Drop, Leave, Goes, gui, thread, store
<1>12. ASSUME NEW t \in Tasks, Unlock(t) PROVE ConfigInv'
  BY <1>12 DEF Unlock, Asking, Goes, gui, thread, store
<1>13. ASSUME NEW t \in Tasks, Close(t) PROVE ConfigInv'
  BY <1>13 DEF Close, Leave, Goes, gui, thread, store
<1>14. ASSUME NEW t \in Tasks, Detach(t) PROVE ConfigInv'
  BY <1>14 DEF Detach, Goes, gui, thread, store
<1>15. ASSUME NEW t \in Tasks, NoSession(t) PROVE ConfigInv'
  BY <1>15 DEF NoSession, AfterShutdown, Leave, Alive, Goes, gui, thread, store
<1>16. ASSUME NEW t \in Tasks, Hangup(t) PROVE ConfigInv'
  BY <1>16 DEF Hangup, AfterShutdown, Leave, Alive, Goes, gui, thread, store
<1>17. ASSUME NEW t \in Tasks, ShutdownFails(t) PROVE ConfigInv'
  BY <1>17 DEF ShutdownFails, AfterShutdown, Leave, Alive, Goes, gui, thread, store
<1>18. CASE Configured
  BY <1>18 DEF Configured, Configure, Goes, gui, thread, store
<1>19. CASE Startup
  BY <1>19 DEF Startup, Obtain, Free, LoopOf, Goes, gui, thread, store
<1>20. CASE Bind
  BY <1>20 DEF Bind, Cancel, Goes, gui, thread, store
<1>21. CASE Served
  BY <1>21 DEF Served, Cancel, Goes, gui, thread, store
<1>22. CASE LifespanEnds
  BY <1>22 DEF LifespanEnds, Goes, gui, thread, store
<1>23. CASE Finish
  BY <1>23 DEF Finish, Cancel, Goes, gui, thread, store
<1>24. CASE Unwind
  BY <1>24 DEF Unwind, Cancel, Goes, gui, thread, store
<1>25. CASE ThreadEnds
  BY <1>25 DEF ThreadEnds, Goes, gui, thread, store
<1>26. CASE Preflight
  BY <1>26 DEF Preflight, Configure, Goes, gui, thread, store
<1>27. CASE Calibrated
  BY <1>27 DEF Calibrated, Goes, gui, thread, store
<1>28. CASE MonitorTells
  BY <1>28 DEF MonitorTells, Goes, gui, thread, store
<1>29. ASSUME NEW c \in Calls, CallBegins(c) PROVE ConfigInv'
  BY <1>29 DEF CallBegins, Goes, gui, thread, store
<1> QED
  <2>1. CASE UNCHANGED lifeVars
    BY <2>1 DEF lifeVars, gui, thread, store
  <2> QED
    BY <1>1, <1>2, <1>3, <1>4, <1>5, <1>6, <1>7, <1>8, <1>9, <1>10,
       <1>11, <1>12, <1>13, <1>14, <1>15, <1>16, <1>17, <1>18, <1>19, <1>20,
       <1>21, <1>22, <1>23, <1>24, <1>25, <1>26, <1>27, <1>28, <1>29, <2>1
    DEF LifeNext, Window, Proceed, Session, Shutdown, Server

(***************************************************************************)
(* Lifecycle: what the steps write of a session                            *)
(***************************************************************************)

\* A step that writes fields of one session and nothing else of any.
Sets(s, open, given, count) ==
    /\ sess' \in [Sessions -> Kept]
    /\ \A q \in Sessions \ {s} : sess'[q] = sess[q]
    /\ sess'[s].loop = sess[s].loop /\ sess'[s].settings = sess[s].settings
    /\ sess'[s].link = open /\ sess'[s].flag = given /\ sess'[s].refs = count

\* A session gets another record.
LEMMA Rewritten ==
    ASSUME sess \in [Sessions -> Kept], NEW s \in Sessions, NEW r \in Kept,
           sess' = [sess EXCEPT ![s] = r],
           r.loop = sess[s].loop, r.settings = sess[s].settings
    PROVE  Sets(s, r.link, r.flag, r.refs)
  BY DEF Sets

\* The number of its references is written.
LEMMA SetRefs ==
    ASSUME sess \in [Sessions -> Kept], NEW s \in Sessions, NEW n \in Nat,
           sess' = [sess EXCEPT ![s].refs = n]
    PROVE  Sets(s, sess[s].link, sess[s].flag, n)
<1> DEFINE r == [sess[s] EXCEPT !.refs = n]
<1>1. sess' = [sess EXCEPT ![s] = r]
  OBVIOUS
<1>2. /\ r \in Kept /\ r.loop = sess[s].loop /\ r.settings = sess[s].settings
      /\ r.link = sess[s].link /\ r.flag = sess[s].flag /\ r.refs = n
  BY DEF Kept
<1> HIDE DEF r
<1> QED
  BY <1>1, <1>2, Rewritten

\* Whether it has the device's master lock is written.
LEMMA SetFlag ==
    ASSUME sess \in [Sessions -> Kept], NEW s \in Sessions, NEW b \in BOOLEAN,
           sess' = [sess EXCEPT ![s].flag = b]
    PROVE  Sets(s, sess[s].link, b, sess[s].refs)
<1> DEFINE r == [sess[s] EXCEPT !.flag = b]
<1>1. sess' = [sess EXCEPT ![s] = r]
  OBVIOUS
<1>2. /\ r \in Kept /\ r.loop = sess[s].loop /\ r.settings = sess[s].settings
      /\ r.link = sess[s].link /\ r.flag = b /\ r.refs = sess[s].refs
  BY DEF Kept
<1> HIDE DEF r
<1> QED
  BY <1>1, <1>2, Rewritten

\* Whether its link is open is written.
LEMMA SetLink ==
    ASSUME sess \in [Sessions -> Kept], NEW s \in Sessions, NEW b \in BOOLEAN,
           sess' = [sess EXCEPT ![s].link = b]
    PROVE  Sets(s, b, sess[s].flag, sess[s].refs)
<1> DEFINE r == [sess[s] EXCEPT !.link = b]
<1>1. sess' = [sess EXCEPT ![s] = r]
  OBVIOUS
<1>2. /\ r \in Kept /\ r.loop = sess[s].loop /\ r.settings = sess[s].settings
      /\ r.link = b /\ r.flag = sess[s].flag /\ r.refs = sess[s].refs
  BY DEF Kept
<1> HIDE DEF r
<1> QED
  BY <1>1, <1>2, Rewritten

\* Both are written.
LEMMA SetBoth ==
    ASSUME sess \in [Sessions -> Kept], NEW s \in Sessions, NEW b \in BOOLEAN, NEW c \in BOOLEAN,
           sess' = [sess EXCEPT ![s].link = b, ![s].flag = c]
    PROVE  Sets(s, b, c, sess[s].refs)
<1> DEFINE r == [sess[s] EXCEPT !.link = b, !.flag = c]
<1>1. sess' = [sess EXCEPT ![s] = r]
  BY DEF Kept
<1>2. /\ r \in Kept /\ r.loop = sess[s].loop /\ r.settings = sess[s].settings
      /\ r.link = b /\ r.flag = c /\ r.refs = sess[s].refs
  BY DEF Kept
<1> HIDE DEF r
<1> QED
  BY <1>1, <1>2, Rewritten

\* A task that has a session has one of those there are.
LEMMA InHand ==
    ASSUME PlaceTypes, SessTypes, PointInv, NEW t \in Tasks, at[t] \in Having
    PROVE  /\ uses[t] \in Sessions /\ sess \in [Sessions -> Kept] /\ sess[uses[t]] \in Kept
           /\ sess[uses[t]].link \in BOOLEAN /\ sess[uses[t]].flag \in BOOLEAN
           /\ sess[uses[t]].refs \in Nat /\ Less(sess[uses[t]].refs) \in Nat
  BY DEF PlaceTypes, SessTypes, PointInv, Kept, Less

\* What acquire, the link and release write.
LEMMA AcquireSets ==
    ASSUME PlaceTypes, SessTypes, PointInv, NEW t \in Tasks, Acquire(t)
    PROVE  Sets(uses[t], sess[uses[t]].link, sess[uses[t]].flag, sess[uses[t]].refs + 1)
<1>1. at[t] \in Having
  BY DEF Acquire, Having
<1>2. sess' = [sess EXCEPT ![uses[t]].refs = sess[uses[t]].refs + 1]
  BY DEF Acquire
<1>3. sess[uses[t]].refs + 1 \in Nat
  BY <1>1, InHand
<1> QED
  BY <1>1, <1>2, <1>3, InHand, SetRefs

\* What a new link writes: it starts without the lock.
LEMMA LinkSets ==
    ASSUME PlaceTypes, SessTypes, PointInv, NEW t \in Tasks, Link(t)
    PROVE  Sets(uses[t], TRUE, sess[uses[t]].flag /\ sess[uses[t]].link, sess[uses[t]].refs)
<1>1. at[t] \in Having
  BY DEF Link, Having
<1>2. sess' = [sess EXCEPT ![uses[t]].link = TRUE,
                           ![uses[t]].flag = sess[uses[t]].flag /\ sess[uses[t]].link]
  BY <1>1, InHand DEF Link, Kept
<1> QED
  BY <1>1, <1>2, InHand, SetBoth

\* What a link that fails writes: acquire takes its reference back.
LEMMA LinkFailsSets ==
    ASSUME PlaceTypes, SessTypes, PointInv, NEW t \in Tasks, LinkFails(t)
    PROVE  \/ sess' = sess
           \/ Sets(uses[t], sess[uses[t]].link, sess[uses[t]].flag, Less(sess[uses[t]].refs))
<1>1. at[t] \in Having
  BY DEF LinkFails, Having
<1>2. CASE t \in Lockers
  <2>1. sess' = [sess EXCEPT ![uses[t]].refs = Less(sess[uses[t]].refs)]
    BY <1>2 DEF LinkFails
  <2> QED
    BY <1>1, <2>1, InHand, SetRefs
<1>3. CASE t \notin Lockers
  BY <1>3 DEF LinkFails
<1> QED
  BY <1>2, <1>3

\* What the preflight writes when its time is up.
LEMMA GivesUpSets ==
    ASSUME PlaceTypes, SessTypes, PointInv, GivesUp
    PROVE  LET s == uses["worker"] IN Sets(s, sess[s].link, sess[s].flag, Less(sess[s].refs))
<1>1. at["worker"] \in Having /\ "worker" \in Tasks
  BY TaskNames DEF GivesUp, Having
<1>2. sess' = [sess EXCEPT ![uses["worker"]].refs = Less(sess[uses["worker"]].refs)]
  BY DEF GivesUp
<1> QED
  BY <1>1, <1>2, InHand, SetRefs

\* What an answer about the master lock writes.
LEMMA AnsweredSets ==
    ASSUME PlaceTypes, SessTypes, PointInv, NEW t \in Tasks, Answered(t)
    PROVE  \/ sess' = sess
           \/ Sets(uses[t], sess[uses[t]].link, TRUE, sess[uses[t]].refs)
<1>1. at[t] \in Having
  BY DEF Answered, Having
<1>2. sess' = sess \/ sess' = [sess EXCEPT ![uses[t]].flag = TRUE]
  BY DEF Answered
<1> QED
  BY <1>1, <1>2, InHand, SetFlag

\* What release writes: a reference is gone.
LEMMA DropSets ==
    ASSUME PlaceTypes, SessTypes, PointInv, NEW t \in Tasks, Drop(t)
    PROVE  Sets(uses[t], sess[uses[t]].link, sess[uses[t]].flag, Less(sess[uses[t]].refs))
<1>1. at[t] \in Having
  BY DEF Drop, Having
<1>2. sess' = [sess EXCEPT ![uses[t]].refs = Less(sess[uses[t]].refs)]
  BY DEF Drop
<1> QED
  BY <1>1, <1>2, InHand, SetRefs

\* What giving the master lock back writes.
LEMMA UnlockSets ==
    ASSUME PlaceTypes, SessTypes, PointInv, NEW t \in Tasks, Unlock(t)
    PROVE  \/ ~sess[uses[t]].flag /\ sess' = sess
           \/ sess[uses[t]].flag /\ \E connected \in {sess[uses[t]].link, TRUE} :
                 Sets(uses[t], connected, FALSE, sess[uses[t]].refs)
<1>1. at[t] \in Having
  BY DEF Unlock, Having
<1>2. uses[t] \in Sessions /\ sess \in [Sessions -> Kept]
  BY <1>1, InHand DEF SessTypes
<1>3. sess[uses[t]].link \in BOOLEAN
  BY <1>2 DEF Kept
<1>4. CASE ~sess[uses[t]].flag
  BY <1>4 DEF Unlock
<1>5. CASE sess[uses[t]].flag
  <2>1. PICK connected \in {sess[uses[t]].link, TRUE} :
           sess' = [sess EXCEPT ![uses[t]].link = connected, ![uses[t]].flag = FALSE]
    BY <1>5 DEF Unlock, HandsBack
  <2>2. connected \in BOOLEAN
    BY <1>3
  <2>3. Sets(uses[t], connected, FALSE, sess[uses[t]].refs)
    <3> DEFINE r == [sess[uses[t]] EXCEPT !.link = connected, !.flag = FALSE]
    <3>1. sess' = [sess EXCEPT ![uses[t]] = r]
      BY <1>2, <2>1 DEF Kept
    <3>2. /\ r \in Kept /\ r.loop = sess[uses[t]].loop /\ r.settings = sess[uses[t]].settings
          /\ r.link = connected /\ r.flag = FALSE /\ r.refs = sess[uses[t]].refs
      BY <1>2, <2>2 DEF Kept
    <3> HIDE DEF r
    <3> QED
      BY <1>2, <3>1, <3>2, Rewritten
  <2> QED
    BY <1>5, <2>3
<1> QED
  BY <1>4, <1>5

\* What closing the link writes.
LEMMA CloseSets ==
    ASSUME PlaceTypes, SessTypes, PointInv, NEW t \in Tasks, Close(t)
    PROVE  Sets(uses[t], FALSE, sess[uses[t]].flag, sess[uses[t]].refs)
<1>1. at[t] \in Having
  BY DEF Close, Having
<1>2. sess' = [sess EXCEPT ![uses[t]].link = FALSE]
  BY DEF Close
<1> QED
  BY <1>1, <1>2, InHand, SetLink

\* What cancelling a task writes.
LEMMA CancelSets ==
    ASSUME PlaceTypes, SessTypes, PointInv, NEW t \in Tasks, NEW place, Cancel(t, place)
    PROVE  \/ at[t] # "unlock" /\ sess' = sess
           \/ at[t] = "unlock" /\ Sets(uses[t], sess[uses[t]].link, FALSE, sess[uses[t]].refs)
<1>1. \/ at[t] # "unlock" /\ sess' = sess
      \/ at[t] = "unlock" /\ sess' = [sess EXCEPT ![uses[t]].flag = FALSE]
  BY DEF Cancel
<1>2. at[t] = "unlock" => at[t] \in Having
  BY DEF Having
<1> QED
  BY <1>1, <1>2, InHand, SetFlag

\* What the end of a shutdown leaves of the session.
Shared(t) == \E u \in Tasks \ {t} : uses[u] = uses[t]

\* What the end of a shutdown writes: the session is blank when nobody else has it.
LEMMA HangupSets ==
    ASSUME PlaceTypes, SessTypes, PointInv, NEW t \in Tasks, Hangup(t)
    PROVE  \/ Shared(t) /\ Sets(uses[t], FALSE, FALSE, 0)
           \/ ~Shared(t) /\ sess' = [sess EXCEPT ![uses[t]] = Blank]
<1>1. at[t] \in Having
  BY DEF Hangup, Having
<1>2. \/ /\ Shared(t)
         /\ sess' = [sess EXCEPT ![uses[t]].link = FALSE, ![uses[t]].flag = FALSE,
                                 ![uses[t]].refs = 0]
      \/ ~Shared(t) /\ sess' = [sess EXCEPT ![uses[t]] = Blank]
  BY DEF Hangup, Shared
<1>3. ASSUME sess' = [sess EXCEPT ![uses[t]].link = FALSE, ![uses[t]].flag = FALSE,
                                  ![uses[t]].refs = 0]
      PROVE  Sets(uses[t], FALSE, FALSE, 0)
  <2> DEFINE r == [sess[uses[t]] EXCEPT !.link = FALSE, !.flag = FALSE, !.refs = 0]
  <2>1. sess' = [sess EXCEPT ![uses[t]] = r]
    BY <1>1, <1>3, InHand DEF Kept
  <2>2. /\ r \in Kept /\ r.loop = sess[uses[t]].loop /\ r.settings = sess[uses[t]].settings
        /\ r.link = FALSE /\ r.flag = FALSE /\ r.refs = 0
    BY <1>1, InHand DEF Kept
  <2> HIDE DEF r
  <2> QED
    BY <1>1, <2>1, <2>2, InHand, Rewritten
<1> QED
  BY <1>2, <1>3

\* get_session gives the session there is, or makes one that nobody has.
Makes(t, s) ==
    /\ Free(s) /\ current' = s
    /\ sess' \in [Sessions -> Kept]
    /\ \A q \in Sessions \ {s} : sess'[q] = sess[q]
    /\ sess'[s].loop = LoopOf(t) /\ sess'[s].settings = config
    /\ sess'[s].link = FALSE /\ sess'[s].flag = FALSE
    /\ loose' = loose \ {s}
    /\ uses' = [uses EXCEPT ![t] = s]

\* What get_session gives, in either case.
LEMMA Obtained ==
    ASSUME FlagTypes, PlaceTypes, SessTypes, NEW t \in Tasks, Obtain(t)
    PROVE  \/ current # Nothing /\ uses' = [uses EXCEPT ![t] = current]
                                /\ UNCHANGED <<current, sess, loose>>
           \/ current = Nothing /\ \E s \in Sessions : Makes(t, s)
<1>1. CASE current # Nothing
  BY <1>1 DEF Obtain
<1>2. CASE current = Nothing
  <2> DEFINE s == CHOOSE r \in Sessions : Free(r)
             fresh == [Blank EXCEPT !.loop = LoopOf(t), !.settings = config]
  <2>1. s \in Sessions /\ Free(s)
    BY <1>2 DEF Obtain
  <2>2. /\ current' = s /\ loose' = loose \ {s} /\ uses' = [uses EXCEPT ![t] = s]
        /\ sess' = [sess EXCEPT ![s] = fresh]
    BY <1>2 DEF Obtain
  <2>3. LoopOf(t) \in Loops
    BY LifecycleAssumption DEF LifecycleAssumption, LoopOf, Loops, FlagTypes
  <2>4. /\ fresh \in Kept /\ fresh.loop = LoopOf(t) /\ fresh.settings = config
        /\ fresh.link = FALSE /\ fresh.flag = FALSE
    BY <2>3 DEF Blank, Kept, FlagTypes
  <2> HIDE DEF s, fresh
  <2> QED
    BY <1>2, <2>1, <2>2, <2>4 DEF Makes, SessTypes
<1> QED
  BY <1>1, <1>2

\* What the model forgets nobody has in hand.
LEMMA Forgotten ==
    ASSUME PlaceTypes, SessTypes, Forget
    PROVE  \E lost \in SUBSET Sessions :
              /\ current \notin lost /\ \A t \in Tasks : uses[t] \notin lost
              /\ sess' \in [Sessions -> Kept]
              /\ \A s \in Sessions : sess'[s] = IF s \in lost THEN Blank ELSE sess[s]
              /\ held' = held \ lost /\ kept' = kept \ lost /\ loose' = loose \ lost
<1> DEFINE lost == {s \in Sessions : /\ s # current /\ \A t \in Tasks : uses[t] # s
                                     /\ s \in loose \cup kept \/ Free(s)}
<1>1. /\ held' = held \ lost /\ kept' = kept \ lost /\ loose' = loose \ lost
      /\ sess' = [s \in Sessions |-> IF s \in lost THEN Blank ELSE sess[s]]
  BY DEF Forget
<1>2. /\ lost \in SUBSET Sessions /\ current \notin lost
      /\ \A t \in Tasks : uses[t] \notin lost
  OBVIOUS
<1>3. Blank \in Kept
  BY LifecycleAssumption DEF LifecycleAssumption, Blank, Kept, Loops
<1> HIDE DEF lost
<1>4. /\ sess' \in [Sessions -> Kept]
      /\ \A s \in Sessions : sess'[s] = IF s \in lost THEN Blank ELSE sess[s]
  BY <1>1, <1>3 DEF SessTypes
<1> QED
  BY <1>1, <1>2, <1>4

\* Who keeps the session that the global variable has.
LEMMA OneKeeper ==
    ASSUME PointInv, SignalInv, CurrentInv, current # Nothing
    PROVE  /\ at["worker"] # "off" => Keeper("worker") /\ Fits("worker", current)
           /\ at["main"] \in Up => Keeper("main") /\ Fits("main", current)
           /\ at["worker"] # "off" \/ at["main"] \in Up
  BY DEF PointInv, SignalInv, CurrentInv, Keeper, Winding, Up

\* New settings find no session.
LEMMA ConfigureIdle ==
    ASSUME PointInv, SignalInv, CurrentInv, Configured \/ Preflight
    PROVE  current = Nothing /\ sess' = sess
<1>1. current = Nothing
  BY OneKeeper DEF Configured, Preflight, SignalInv, Keeper, Winding, Up
<1> QED
  BY <1>1 DEF Configured, Preflight, Configure

(***************************************************************************)
(* Lifecycle: the sessions' owners and keepers                             *)
(***************************************************************************)

\* The record of a session that is not there yet.
LEMMA BlankKept ==
    Blank \in Kept /\ ~Blank.link /\ ~Blank.flag
  BY LifecycleAssumption DEF LifecycleAssumption, Blank, Kept, Loops

\* Every step keeps the types of the sessions.
LEMMA SessTypesKept ==
    ASSUME FlagTypes, PlaceTypes, SessTypes, PointInv, SignalInv, CurrentInv, [LifeNext]_lifeVars
    PROVE  SessTypes'
<1> USE TaskNames DEF FlagTypes, PlaceTypes, SessTypes, PointInv, Having, Sets, Makes
<1>1. CASE StartPressed
  <2>1. Forget
    BY <1>1 DEF StartPressed
  <2>2. PICK lost \in SUBSET Sessions :
              /\ current \notin lost /\ \A t \in Tasks : uses[t] \notin lost
              /\ sess' \in [Sessions -> Kept]
              /\ \A s \in Sessions : sess'[s] = IF s \in lost THEN Blank ELSE sess[s]
              /\ held' = held \ lost /\ kept' = kept \ lost /\ loose' = loose \ lost
    BY <2>1, Forgotten
  <2> QED
    BY <1>1, <2>2 DEF StartPressed, Launch, Goes, Running, gui, thread, store
<1>2. CASE StopPressed
  BY <1>2 DEF StopPressed, Goes, gui, thread, store
<1>3. CASE HandleSignal
  BY <1>3 DEF HandleSignal, Goes, gui, thread, store
<1>4. CASE GivesUp
  BY <1>4, GivesUpSets DEF GivesUp, Goes, gui, thread, store
<1>5. ASSUME NEW t \in Tasks, Get(t) PROVE SessTypes'
  <2>1. Obtain(t)
    BY <1>5 DEF Get
  <2>2. held' = held /\ kept' = kept
    BY <1>5 DEF Get
  <2> QED
    BY <2>1, <2>2, Obtained
<1>6. ASSUME NEW t \in Tasks, Acquire(t) PROVE SessTypes'
  BY <1>6, AcquireSets DEF Acquire, Goes, gui, thread, store
<1>7. ASSUME NEW t \in Tasks, Link(t) PROVE SessTypes'
  <2>1. uses[t] \in Sessions
    BY <1>7, InHand DEF Link
  <2>2. sess' \in [Sessions -> Kept]
    BY <1>7, LinkSets
  <2> QED
    BY <1>7, <2>1, <2>2 DEF Link, Loosen
<1>8. ASSUME NEW t \in Tasks, LinkFails(t) PROVE SessTypes'
  BY <1>8, LinkFailsSets DEF LinkFails, Goes, gui, thread, store
<1>9. ASSUME NEW t \in Tasks, Ask(t) PROVE SessTypes'
  BY <1>9 DEF Ask, Loosen, Goes, gui, thread, store
<1>10. ASSUME NEW t \in Tasks, Answered(t) PROVE SessTypes'
  BY <1>10, AnsweredSets DEF Answered, Goes, gui, thread, store
<1>11. ASSUME NEW t \in Tasks, Drop(t) PROVE SessTypes'
  BY <1>11, DropSets DEF Drop, Goes, gui, thread, store
<1>12. ASSUME NEW t \in Tasks, Unlock(t) PROVE SessTypes'
  <2>1. uses[t] \in Sessions
    BY <1>12, InHand DEF Unlock
  <2>2. sess' \in [Sessions -> Kept]
    BY <1>12, UnlockSets
  <2> QED
    BY <1>12, <2>1, <2>2 DEF Unlock, HandsBack, Goes, gui, thread, store
<1>13. ASSUME NEW t \in Tasks, Close(t) PROVE SessTypes'
  <2>1. uses[t] \in Sessions
    BY <1>13, InHand DEF Close
  <2>2. sess' \in [Sessions -> Kept]
    BY <1>13, CloseSets
  <2> QED
    BY <1>13, <2>1, <2>2 DEF Close, Loosen
<1>14. ASSUME NEW t \in Tasks, Detach(t) PROVE SessTypes'
  BY <1>14 DEF Detach, Goes, gui, thread, store
<1>15. ASSUME NEW t \in Tasks, NoSession(t) PROVE SessTypes'
  BY <1>15 DEF NoSession, Goes, gui, thread, store
<1>16. ASSUME NEW t \in Tasks, Hangup(t) PROVE SessTypes'
  <2>1. uses[t] \in Sessions
    BY <1>16, InHand DEF Hangup
  <2>2. sess' \in [Sessions -> Kept]
    <3>1. \/ Sets(uses[t], FALSE, FALSE, 0)
          \/ sess' = [sess EXCEPT ![uses[t]] = Blank]
      BY <1>16, HangupSets
    <3> QED
      BY <3>1, BlankKept
  <2> QED
    BY <1>16, <2>1, <2>2 DEF Hangup
<1>17. ASSUME NEW t \in Tasks, ShutdownFails(t) PROVE SessTypes'
  BY <1>17 DEF ShutdownFails, Goes, gui, thread, store
<1>18. CASE Configured
  BY <1>18, ConfigureIdle DEF Configured, Goes, gui, thread, store
<1>19. CASE Startup
  <2>1. PICK t \in Tasks : Obtain(t)
    BY <1>19 DEF Startup
  <2>2. held' = held /\ kept' = kept
    BY <1>19 DEF Startup
  <2> QED
    BY <2>1, <2>2, Obtained
<1>20. CASE Bind
  <2>1. \A u \in Tasks : at[u] \in {"asked", "unlock"} => uses[u] \in Sessions
    BY InHand
  <2>2. CASE \E u \in Tasks, place \in Points : Cancel(u, place)
    <3>1. PICK u \in Tasks, place \in Points : Cancel(u, place)
      BY <2>2
    <3>2. sess' \in [Sessions -> Kept]
      BY <3>1, CancelSets
    <3>3. held' \subseteq Sessions /\ kept' \subseteq Sessions /\ loose' \subseteq Sessions
      BY <2>1, <3>1 DEF Cancel
    <3> QED
      BY <3>2, <3>3
  <2>3. CASE UNCHANGED <<sess, held, kept, loose>>
    BY <2>3
  <2> QED
    BY <1>20, <2>2, <2>3 DEF Bind, Points
<1>21. CASE Served
  <2>1. \A u \in Tasks : at[u] \in {"asked", "unlock"} => uses[u] \in Sessions
    BY InHand
  <2>2. CASE \E u \in Tasks, place \in Points : Cancel(u, place)
    <3>1. PICK u \in Tasks, place \in Points : Cancel(u, place)
      BY <2>2
    <3>2. sess' \in [Sessions -> Kept]
      BY <3>1, CancelSets
    <3>3. held' \subseteq Sessions /\ kept' \subseteq Sessions /\ loose' \subseteq Sessions
      BY <2>1, <3>1 DEF Cancel
    <3> QED
      BY <3>2, <3>3
  <2>3. CASE UNCHANGED <<sess, held, kept, loose>>
    BY <2>3
  <2> QED
    BY <1>21, <2>2, <2>3 DEF Served, Points
<1>22. CASE LifespanEnds
  BY <1>22 DEF LifespanEnds, Goes, gui, thread, store
<1>23. CASE Finish
  BY <1>23, CancelSets DEF Finish, Cancel, Goes, gui, thread, store
<1>24. CASE Unwind
  <2>1. \A u \in Tasks : at[u] \in {"asked", "unlock"} => uses[u] \in Sessions
    BY InHand
  <2>2. CASE \E u \in Tasks, place \in Points : Cancel(u, place)
    <3>1. PICK u \in Tasks, place \in Points : Cancel(u, place)
      BY <2>2
    <3>2. sess' \in [Sessions -> Kept]
      BY <3>1, CancelSets
    <3>3. held' \subseteq Sessions /\ kept' \subseteq Sessions /\ loose' \subseteq Sessions
      BY <2>1, <3>1 DEF Cancel
    <3> QED
      BY <3>2, <3>3
  <2>3. CASE UNCHANGED <<sess, held, kept, loose>>
    BY <2>3
  <2> QED
    BY <1>24, <2>2, <2>3 DEF Unwind, Points
<1>25. CASE ThreadEnds
  BY <1>25 DEF ThreadEnds, Goes, gui, thread, store
<1>26. CASE Preflight
  BY <1>26, ConfigureIdle DEF Preflight, Goes, gui, thread, store
<1>27. CASE Calibrated
  BY <1>27 DEF Calibrated, Goes, gui, thread, store
<1>28. CASE MonitorTells
  BY <1>28 DEF MonitorTells, Goes, gui, thread, store
<1>29. ASSUME NEW c \in Calls, CallBegins(c) PROVE SessTypes'
  BY <1>29 DEF CallBegins, Goes, gui, thread, store
<1> QED
  <2>1. CASE UNCHANGED lifeVars
    BY <2>1 DEF lifeVars, gui, thread, store
  <2> QED
    BY <1>1, <1>2, <1>3, <1>4, <1>5, <1>6, <1>7, <1>8, <1>9, <1>10,
       <1>11, <1>12, <1>13, <1>14, <1>15, <1>16, <1>17, <1>18, <1>19, <1>20,
       <1>21, <1>22, <1>23, <1>24, <1>25, <1>26, <1>27, <1>28, <1>29, <2>1
    DEF LifeNext, Window, Proceed, Session, Shutdown, Server

\* A step after which no session has another loop or other settings, and no task
\* another session.
SameOwners ==
    /\ \A s \in Sessions : sess'[s].loop = sess[s].loop /\ sess'[s].settings = sess[s].settings
    /\ \A t \in Tasks : uses'[t] \in {uses[t], Nothing}
    /\ UNCHANGED <<starts, start>>

\* Such a step keeps every session its task's own.
LEMMA OwnersKept ==
    ASSUME PlaceTypes, OwnSession, SameOwners
    PROVE  OwnSession'
  BY TaskNames DEF PlaceTypes, OwnSession, SameOwners, LoopOf

\* A shutdown leaves its session to those who have it in hand.
LEMMA HangupOwners ==
    ASSUME PlaceTypes, SessTypes, PointInv, OwnSession, NEW t \in Tasks, Hangup(t)
    PROVE  OwnSession'
<1>1. \A u \in Tasks \ {t} : uses'[u] = uses[u]
  BY DEF Hangup, AfterShutdown, Leave, PlaceTypes
<1>2. uses'[t] = Nothing /\ UNCHANGED <<starts, start>>
  BY DEF Hangup, AfterShutdown, Leave, PlaceTypes
<1>3. CASE Sets(uses[t], FALSE, FALSE, 0)
  <2>1. SameOwners
    BY <1>1, <1>2, <1>3 DEF Sets, SameOwners
  <2> QED
    BY <2>1, OwnersKept
<1>4. CASE ~Shared(t) /\ sess' = [sess EXCEPT ![uses[t]] = Blank]
  <2>1. \A u \in Tasks : uses'[u] # Nothing =>
           u # t /\ uses[u] # Nothing /\ sess'[uses[u]] = sess[uses[u]]
    BY <1>1, <1>2, <1>4 DEF Shared, SessTypes, PlaceTypes
  <2> QED
    BY <1>1, <1>2, <2>1 DEF OwnSession, LoopOf
<1> QED
  BY <1>3, <1>4, HangupSets

\* A session that is obtained is the task's own.
LEMMA ObtainOwners ==
    ASSUME FlagTypes, PlaceTypes, SessTypes, OwnSession, UNCHANGED <<starts, start>>,
           NEW t \in Tasks, Obtain(t),
           config = LoopOf(t)[1],
           current # Nothing => Fits(t, current)
    PROVE  OwnSession'
<1> USE DEF PlaceTypes
<1>1. CASE current # Nothing
  <2>1. uses' = [uses EXCEPT ![t] = current] /\ sess' = sess
    BY <1>1, Obtained
  <2> QED
    BY <1>1, <2>1 DEF OwnSession, LoopOf, Fits
<1>2. ASSUME NEW s \in Sessions, Makes(t, s) PROVE OwnSession'
  <2>1. \A u \in Tasks : LoopOf(u)' = LoopOf(u)
    BY DEF LoopOf
  <2>2. \A u \in Tasks \ {t} : uses'[u] = uses[u] /\ uses[u] # s
    BY <1>2 DEF Makes, Free
  <2>3. uses'[t] = s /\ sess'[s].loop = LoopOf(t) /\ sess'[s].settings = LoopOf(t)[1]
    BY <1>2 DEF Makes
  <2>4. \A u \in Tasks \ {t} : uses[u] # Nothing => sess'[uses[u]] = sess[uses[u]]
    BY <1>2, <2>2 DEF Makes
  <2> QED
    BY <2>1, <2>2, <2>3, <2>4 DEF OwnSession
<1> QED
  BY <1>1, <1>2, Obtained

\* Every step keeps that a task has a session of its own.
LEMMA OwnKept ==
    ASSUME FlagTypes, PlaceTypes, SessTypes, PointInv, SignalInv, AliveInv, ConfigInv,
           CurrentInv, OwnSession, [LifeNext]_lifeVars
    PROVE  OwnSession'
<1> USE TaskNames
<1>1. CASE StartPressed
  <2>1. Forget
    BY <1>1 DEF StartPressed
  <2>2. PICK lost \in SUBSET Sessions :
              /\ current \notin lost /\ \A t \in Tasks : uses[t] \notin lost
              /\ sess' \in [Sessions -> Kept]
              /\ \A s \in Sessions : sess'[s] = IF s \in lost THEN Blank ELSE sess[s]
              /\ held' = held \ lost /\ kept' = kept \ lost /\ loose' = loose \ lost
    BY <2>1, Forgotten
  <2>3. /\ uses' = uses /\ uses["worker"] = Nothing /\ at["worker"] = "off"
        /\ at["main"] = "off" \/ start' = start
    BY <1>1 DEF StartPressed, Launch, Alive, thread, PointInv, SignalInv, Winding, Up, Without
  <2>4. at["main"] = "off" => \A u \in Tasks : uses[u] = Nothing
    BY <2>3 DEF PointInv, AliveInv, Winding, Without
  <2>5. \A u \in Tasks : uses[u] # Nothing =>
           u # "worker" /\ LoopOf(u)' = LoopOf(u) /\ sess'[uses[u]] = sess[uses[u]]
    BY <2>2, <2>3, <2>4 DEF LoopOf, PlaceTypes
  <2> QED
    BY <2>3, <2>5 DEF OwnSession
<1>2. CASE StopPressed
  <2>1. \A s \in Sessions : sess'[s].loop = sess[s].loop /\ sess'[s].settings = sess[s].settings
    BY <1>2 DEF StopPressed, Sets, store
  <2>2. (\A u \in Tasks : uses'[u] \in {uses[u], Nothing}) /\ UNCHANGED <<starts, start>>
    BY <1>2 DEF StopPressed, PlaceTypes, Goes, gui, thread, store
  <2> QED
    BY <2>1, <2>2, OwnersKept DEF SameOwners
<1>3. CASE HandleSignal
  <2>1. uses' = uses /\ sess' = sess /\ starts' = starts /\ (at["main"] = "off" \/ start' = start)
    BY <1>3 DEF HandleSignal, Launch, Alive, thread, store
  <2>2. at["worker"] = "off"
    BY <1>3 DEF HandleSignal, SignalInv
  <2>3. at["main"] = "off" => \A u \in Tasks : uses[u] = Nothing
    BY <2>2 DEF PointInv, AliveInv, Winding, Without
  <2>4. \A u \in Tasks : uses[u] # Nothing => LoopOf(u)' = LoopOf(u)
    BY <2>1, <2>3 DEF LoopOf
  <2> QED
    BY <2>1, <2>4 DEF OwnSession
<1>4. CASE GivesUp
  <2>1. \A s \in Sessions : sess'[s].loop = sess[s].loop /\ sess'[s].settings = sess[s].settings
    BY <1>4, GivesUpSets DEF GivesUp, Sets, store
  <2>2. (\A u \in Tasks : uses'[u] \in {uses[u], Nothing}) /\ UNCHANGED <<starts, start>>
    BY <1>4 DEF GivesUp, PlaceTypes, Goes, gui, thread, store
  <2> QED
    BY <2>1, <2>2, OwnersKept DEF SameOwners
<1>5. ASSUME NEW t \in Tasks, Get(t) PROVE OwnSession'
  <2>1. Obtain(t) /\ UNCHANGED <<starts, start>> /\ at[t] = "get"
    BY <1>5 DEF Get, gui, thread
  <2>2. CASE t = "worker"
    <3>1. current = Nothing
      BY <2>1, <2>2, OneKeeper DEF Keeper
    <3>2. config = LoopOf(t)[1]
      BY <2>1, <2>2 DEF ConfigInv, LoopOf
    <3> QED
      BY <2>1, <3>1, <3>2, ObtainOwners
  <2>3. CASE t # "worker"
    <3>1. at["main"] \in Up
      BY <2>1, <2>3 DEF PointInv, AliveInv, Winding, Up
    <3>2. config = LoopOf(t)[1] /\ LoopOf(t) = LoopOf("main")
      BY <2>3, <3>1 DEF ConfigInv, LoopOf
    <3>3. current # Nothing => Fits(t, current)
      BY <3>1, <3>2, OneKeeper DEF Fits
    <3> QED
      BY <2>1, <3>2, <3>3, ObtainOwners
  <2> QED
    BY <2>2, <2>3
<1>6. ASSUME NEW t \in Tasks, Acquire(t) PROVE OwnSession'
  <2>1. \A s \in Sessions : sess'[s].loop = sess[s].loop /\ sess'[s].settings = sess[s].settings
    BY <1>6, AcquireSets DEF Acquire, Sets, store
  <2>2. (\A u \in Tasks : uses'[u] \in {uses[u], Nothing}) /\ UNCHANGED <<starts, start>>
    BY <1>6 DEF Acquire, PlaceTypes, Goes, gui, thread, store
  <2> QED
    BY <2>1, <2>2, OwnersKept DEF SameOwners
<1>7. ASSUME NEW t \in Tasks, Link(t) PROVE OwnSession'
  <2>1. \A s \in Sessions : sess'[s].loop = sess[s].loop /\ sess'[s].settings = sess[s].settings
    BY <1>7, LinkSets DEF Link, Sets, store
  <2>2. (\A u \in Tasks : uses'[u] \in {uses[u], Nothing}) /\ UNCHANGED <<starts, start>>
    BY <1>7 DEF Link, PlaceTypes, Goes, gui, thread, store
  <2> QED
    BY <2>1, <2>2, OwnersKept DEF SameOwners
<1>8. ASSUME NEW t \in Tasks, LinkFails(t) PROVE OwnSession'
  <2>1. \A s \in Sessions : sess'[s].loop = sess[s].loop /\ sess'[s].settings = sess[s].settings
    BY <1>8, LinkFailsSets DEF LinkFails, Sets, Leave, store
  <2>2. (\A u \in Tasks : uses'[u] \in {uses[u], Nothing}) /\ UNCHANGED <<starts, start>>
    BY <1>8 DEF LinkFails, Leave, PlaceTypes, Goes, gui, thread, store
  <2> QED
    BY <2>1, <2>2, OwnersKept DEF SameOwners
<1>9. ASSUME NEW t \in Tasks, Ask(t) PROVE OwnSession'
  <2>1. \A s \in Sessions : sess'[s].loop = sess[s].loop /\ sess'[s].settings = sess[s].settings
    BY <1>9 DEF Ask, Sets, Leave, store
  <2>2. (\A u \in Tasks : uses'[u] \in {uses[u], Nothing}) /\ UNCHANGED <<starts, start>>
    BY <1>9 DEF Ask, Leave, PlaceTypes, Goes, gui, thread, store
  <2> QED
    BY <2>1, <2>2, OwnersKept DEF SameOwners
<1>10. ASSUME NEW t \in Tasks, Answered(t) PROVE OwnSession'
  <2>1. \A s \in Sessions : sess'[s].loop = sess[s].loop /\ sess'[s].settings = sess[s].settings
    BY <1>10, AnsweredSets DEF Answered, Sets, Leave, store
  <2>2. (\A u \in Tasks : uses'[u] \in {uses[u], Nothing}) /\ UNCHANGED <<starts, start>>
    BY <1>10 DEF Answered, Leave, PlaceTypes, Goes, gui, thread, store
  <2> QED
    BY <2>1, <2>2, OwnersKept DEF SameOwners
<1>11. ASSUME NEW t \in Tasks, Drop(t) PROVE OwnSession'
  <2>1. \A s \in Sessions : sess'[s].loop = sess[s].loop /\ sess'[s].settings = sess[s].settings
    BY <1>11, DropSets DEF Drop, Sets, Leave, store
  <2>2. (\A u \in Tasks : uses'[u] \in {uses[u], Nothing}) /\ UNCHANGED <<starts, start>>
    BY <1>11 DEF Drop, Leave, PlaceTypes, Goes, gui, thread, store
  <2> QED
    BY <2>1, <2>2, OwnersKept DEF SameOwners
<1>12. ASSUME NEW t \in Tasks, Unlock(t) PROVE OwnSession'
  <2>1. \A s \in Sessions : sess'[s].loop = sess[s].loop /\ sess'[s].settings = sess[s].settings
    BY <1>12, UnlockSets DEF Unlock, Sets, store
  <2>2. (\A u \in Tasks : uses'[u] \in {uses[u], Nothing}) /\ UNCHANGED <<starts, start>>
    BY <1>12 DEF Unlock, PlaceTypes, Goes, gui, thread, store
  <2> QED
    BY <2>1, <2>2, OwnersKept DEF SameOwners
<1>13. ASSUME NEW t \in Tasks, Close(t) PROVE OwnSession'
  <2>1. \A s \in Sessions : sess'[s].loop = sess[s].loop /\ sess'[s].settings = sess[s].settings
    BY <1>13, CloseSets DEF Close, Sets, Leave, store
  <2>2. (\A u \in Tasks : uses'[u] \in {uses[u], Nothing}) /\ UNCHANGED <<starts, start>>
    BY <1>13 DEF Close, Leave, PlaceTypes, Goes, gui, thread, store
  <2> QED
    BY <2>1, <2>2, OwnersKept DEF SameOwners
<1>14. ASSUME NEW t \in Tasks, Detach(t) PROVE OwnSession'
  <2>1. Fits(t, current)
    BY <1>14, OneKeeper DEF Detach, PointInv, Up
  <2>2. /\ uses' = [uses EXCEPT ![t] = current]
        /\ UNCHANGED <<sess, starts, start>> /\ current # Nothing
    BY <1>14 DEF Detach, gui, thread
  <2> QED
    BY <2>1, <2>2 DEF OwnSession, Fits, LoopOf, PlaceTypes
<1>15. ASSUME NEW t \in Tasks, NoSession(t) PROVE OwnSession'
  <2>1. \A s \in Sessions : sess'[s].loop = sess[s].loop /\ sess'[s].settings = sess[s].settings
    BY <1>15 DEF NoSession, Sets, AfterShutdown, Leave, store
  <2>2. (\A u \in Tasks : uses'[u] \in {uses[u], Nothing}) /\ UNCHANGED <<starts, start>>
    BY <1>15 DEF NoSession, AfterShutdown, Leave, PlaceTypes, Goes, gui, thread, store
  <2> QED
    BY <2>1, <2>2, OwnersKept DEF SameOwners
<1>16. ASSUME NEW t \in Tasks, Hangup(t) PROVE OwnSession'
  BY <1>16, HangupOwners DEF FlagTypes
<1>17. ASSUME NEW t \in Tasks, ShutdownFails(t) PROVE OwnSession'
  <2>1. \A s \in Sessions : sess'[s].loop = sess[s].loop /\ sess'[s].settings = sess[s].settings
    BY <1>17 DEF ShutdownFails, Sets, AfterShutdown, Leave, store
  <2>2. (\A u \in Tasks : uses'[u] \in {uses[u], Nothing}) /\ UNCHANGED <<starts, start>>
    BY <1>17 DEF ShutdownFails, AfterShutdown, Leave, PlaceTypes, Goes, gui, thread, store
  <2> QED
    BY <2>1, <2>2, OwnersKept DEF SameOwners
<1>18. CASE Configured
  <2>1. \A s \in Sessions : sess'[s].loop = sess[s].loop /\ sess'[s].settings = sess[s].settings
    BY <1>18, ConfigureIdle DEF Configured, Sets, store
  <2>2. (\A u \in Tasks : uses'[u] \in {uses[u], Nothing}) /\ UNCHANGED <<starts, start>>
    BY <1>18 DEF Configured, PlaceTypes, Goes, gui, thread, store
  <2> QED
    BY <2>1, <2>2, OwnersKept DEF SameOwners
<1>19. CASE Startup
  <2>1. PICK t \in {"main", "calibration"} : Obtain(t)
    BY <1>19 DEF Startup
  <2>2. at["main"] \in Up /\ UNCHANGED <<starts, start>>
    BY <1>19 DEF Startup, Up, gui, thread
  <2>3. config = LoopOf(t)[1] /\ LoopOf(t) = LoopOf("main")
    BY <2>1, <2>2 DEF ConfigInv, LoopOf
  <2>4. current # Nothing => Fits(t, current)
    BY <2>2, <2>3, OneKeeper DEF Fits
  <2> QED
    BY <2>1, <2>2, <2>3, <2>4, ObtainOwners
<1>20. CASE Bind
  <2>1. \A s \in Sessions : sess'[s].loop = sess[s].loop /\ sess'[s].settings = sess[s].settings
    BY <1>20, CancelSets DEF Bind, Sets, Cancel, store
  <2>2. (\A u \in Tasks : uses'[u] \in {uses[u], Nothing}) /\ UNCHANGED <<starts, start>>
    BY <1>20 DEF Bind, Cancel, PlaceTypes, Goes, gui, thread, store
  <2> QED
    BY <2>1, <2>2, OwnersKept DEF SameOwners
<1>21. CASE Served
  <2>1. \A s \in Sessions : sess'[s].loop = sess[s].loop /\ sess'[s].settings = sess[s].settings
    BY <1>21, CancelSets DEF Served, Sets, Cancel, store
  <2>2. (\A u \in Tasks : uses'[u] \in {uses[u], Nothing}) /\ UNCHANGED <<starts, start>>
    BY <1>21 DEF Served, Cancel, PlaceTypes, Goes, gui, thread, store
  <2> QED
    BY <2>1, <2>2, OwnersKept DEF SameOwners
<1>22. CASE LifespanEnds
  <2>1. \A s \in Sessions : sess'[s].loop = sess[s].loop /\ sess'[s].settings = sess[s].settings
    BY <1>22 DEF LifespanEnds, Sets, store
  <2>2. (\A u \in Tasks : uses'[u] \in {uses[u], Nothing}) /\ UNCHANGED <<starts, start>>
    BY <1>22 DEF LifespanEnds, PlaceTypes, Goes, gui, thread, store
  <2> QED
    BY <2>1, <2>2, OwnersKept DEF SameOwners
<1>23. CASE Finish
  <2>1. \A s \in Sessions : sess'[s].loop = sess[s].loop /\ sess'[s].settings = sess[s].settings
    BY <1>23, CancelSets DEF Finish, Sets, Cancel, store
  <2>2. (\A u \in Tasks : uses'[u] \in {uses[u], Nothing}) /\ UNCHANGED <<starts, start>>
    BY <1>23 DEF Finish, Cancel, PlaceTypes, Goes, gui, thread, store
  <2> QED
    BY <2>1, <2>2, OwnersKept DEF SameOwners
<1>24. CASE Unwind
  <2>1. \A s \in Sessions : sess'[s].loop = sess[s].loop /\ sess'[s].settings = sess[s].settings
    BY <1>24, CancelSets DEF Unwind, Sets, Cancel, store
  <2>2. (\A u \in Tasks : uses'[u] \in {uses[u], Nothing}) /\ UNCHANGED <<starts, start>>
    BY <1>24 DEF Unwind, Cancel, PlaceTypes, Goes, gui, thread, store
  <2> QED
    BY <2>1, <2>2, OwnersKept DEF SameOwners
<1>25. CASE ThreadEnds
  <2>1. \A s \in Sessions : sess'[s].loop = sess[s].loop /\ sess'[s].settings = sess[s].settings
    BY <1>25 DEF ThreadEnds, Sets, store
  <2>2. (\A u \in Tasks : uses'[u] \in {uses[u], Nothing}) /\ UNCHANGED <<starts, start>>
    BY <1>25 DEF ThreadEnds, PlaceTypes, Goes, gui, thread, store
  <2> QED
    BY <2>1, <2>2, OwnersKept DEF SameOwners
<1>26. CASE Preflight
  <2>1. \A s \in Sessions : sess'[s].loop = sess[s].loop /\ sess'[s].settings = sess[s].settings
    BY <1>26, ConfigureIdle DEF Preflight, Sets, store
  <2>2. (\A u \in Tasks : uses'[u] \in {uses[u], Nothing}) /\ UNCHANGED <<starts, start>>
    BY <1>26 DEF Preflight, PlaceTypes, Goes, gui, thread, store
  <2> QED
    BY <2>1, <2>2, OwnersKept DEF SameOwners
<1>27. CASE Calibrated
  <2>1. \A s \in Sessions : sess'[s].loop = sess[s].loop /\ sess'[s].settings = sess[s].settings
    BY <1>27 DEF Calibrated, Sets, store
  <2>2. (\A u \in Tasks : uses'[u] \in {uses[u], Nothing}) /\ UNCHANGED <<starts, start>>
    BY <1>27 DEF Calibrated, PlaceTypes, Goes, gui, thread, store
  <2> QED
    BY <2>1, <2>2, OwnersKept DEF SameOwners
<1>28. CASE MonitorTells
  <2>1. \A s \in Sessions : sess'[s].loop = sess[s].loop /\ sess'[s].settings = sess[s].settings
    BY <1>28 DEF MonitorTells, Sets, store
  <2>2. (\A u \in Tasks : uses'[u] \in {uses[u], Nothing}) /\ UNCHANGED <<starts, start>>
    BY <1>28 DEF MonitorTells, PlaceTypes, Goes, gui, thread, store
  <2> QED
    BY <2>1, <2>2, OwnersKept DEF SameOwners
<1>29. ASSUME NEW c \in Calls, CallBegins(c) PROVE OwnSession'
  <2>1. \A s \in Sessions : sess'[s].loop = sess[s].loop /\ sess'[s].settings = sess[s].settings
    BY <1>29 DEF CallBegins, Sets, store
  <2>2. (\A u \in Tasks : uses'[u] \in {uses[u], Nothing}) /\ UNCHANGED <<starts, start>>
    BY <1>29 DEF CallBegins, PlaceTypes, Goes, gui, thread, store
  <2> QED
    BY <2>1, <2>2, OwnersKept DEF SameOwners
<1> QED
  <2>1. CASE UNCHANGED lifeVars
    BY <2>1 DEF lifeVars, gui, thread, store, OwnSession, LoopOf
  <2> QED
    BY <1>1, <1>2, <1>3, <1>4, <1>5, <1>6, <1>7, <1>8, <1>9, <1>10,
       <1>11, <1>12, <1>13, <1>14, <1>15, <1>16, <1>17, <1>18, <1>19, <1>20,
       <1>21, <1>22, <1>23, <1>24, <1>25, <1>26, <1>27, <1>28, <1>29, <2>1
    DEF LifeNext, Window, Proceed, Session, Shutdown, Server

\* A step after which no session has another loop or other settings, the global
\* variable has the same session, and who keeps it keeps it.
SameKeeper ==
    /\ \A s \in Sessions : sess'[s].loop = sess[s].loop /\ sess'[s].settings = sess[s].settings
    /\ \A t \in {"worker", "main"} : Keeper(t) => Keeper(t)'
    /\ UNCHANGED <<starts, start, current>>

\* Such a step keeps that the session has a keeper.
LEMMA KeeperKept ==
    ASSUME PlaceTypes, CurrentInv, SameKeeper
    PROVE  CurrentInv'
  BY DEF PlaceTypes, CurrentInv, SameKeeper, Fits, LoopOf

\* The session that is obtained has a keeper, if its task's thread has one.
LEMMA ObtainKeeper ==
    ASSUME FlagTypes, PlaceTypes, SessTypes, CurrentInv, UNCHANGED <<starts, start>>,
           NEW t \in Tasks, Obtain(t),
           config = LoopOf(t)[1],
           NEW u \in {"worker", "main"}, LoopOf(t) = LoopOf(u), Keeper(u)',
           current # Nothing => Fits(u, current)
    PROVE  CurrentInv'
<1> USE DEF PlaceTypes
<1>1. CASE current # Nothing
  <2>1. current' = current /\ sess' = sess
    BY <1>1, Obtained
  <2> QED
    BY <1>1, <2>1 DEF CurrentInv, Fits, LoopOf
<1>2. ASSUME NEW s \in Sessions, Makes(t, s) PROVE CurrentInv'
  <2>1. LoopOf(u)' = LoopOf(u)
    BY DEF LoopOf
  <2> QED
    BY <1>2, <2>1 DEF Makes, CurrentInv, Fits
<1> QED
  BY <1>1, <1>2, Obtained

\* The end of a shutdown leaves the other sessions alone.
LEMMA HangupRest ==
    ASSUME PlaceTypes, SessTypes, PointInv, NEW t \in Tasks, Hangup(t),
           NEW s \in Sessions, s # uses[t]
    PROVE  sess'[s] = sess[s]
  BY HangupSets DEF Sets, SessTypes

\* Every step keeps that the session of the global variable has a keeper.
LEMMA CurrentKept ==
    ASSUME FlagTypes, PlaceTypes, SessTypes, PointInv, SignalInv, AliveInv, ConfigInv,
           CurrentInv, KeepInv, [LifeNext]_lifeVars
    PROVE  CurrentInv'
<1> USE TaskNames DEF PointInv
<1>1. CASE StartPressed
  <2>1. Forget
    BY <1>1 DEF StartPressed
  <2>2. PICK lost \in SUBSET Sessions :
              /\ current \notin lost /\ \A t \in Tasks : uses[t] \notin lost
              /\ sess' \in [Sessions -> Kept]
              /\ \A s \in Sessions : sess'[s] = IF s \in lost THEN Blank ELSE sess[s]
              /\ held' = held \ lost /\ kept' = kept \ lost /\ loose' = loose \ lost
    BY <2>1, Forgotten
  <2>3. CASE current = Nothing
    BY <1>1, <2>3 DEF StartPressed, CurrentInv
  <2>4. CASE current # Nothing
    <3>1. at["worker"] = "off"
      BY <1>1 DEF StartPressed, SignalInv
    <3>2. Keeper("main") /\ Fits("main", current) /\ at["main"] # "off"
      BY <2>4, <3>1, OneKeeper DEF Up
    <3>3. /\ UNCHANGED <<current, start, served>>
          /\ at'["main"] = at["main"] /\ sess'[current] = sess[current]
      BY <1>1, <2>2, <2>4, <3>1, <3>2 DEF StartPressed, Launch, Alive, Goes, thread, PlaceTypes
    <3> QED
      BY <2>4, <3>2, <3>3 DEF CurrentInv, Keeper, Fits, LoopOf
  <2> QED
    BY <2>3, <2>4
<1>2. CASE StopPressed
  <2>1. \A s \in Sessions : sess'[s].loop = sess[s].loop /\ sess'[s].settings = sess[s].settings
    BY <1>2 DEF StopPressed, Sets, store
  <2>2. /\ \A u \in {"worker", "main"} : Keeper(u) => Keeper(u)'
        /\ UNCHANGED <<starts, start, current>>
    BY <1>2 DEF StopPressed, PlaceTypes, Keeper, Up, Goes, gui, thread, store
  <2> QED
    BY <2>1, <2>2, KeeperKept DEF SameKeeper
<1>3. CASE HandleSignal
  <2>1. UNCHANGED <<sess, current, starts, served>> /\ at["worker"] = "off"
    BY <1>3 DEF HandleSignal, Launch, thread, store, SignalInv
  <2>2. CASE at["main"] = "off"
    BY <2>1, <2>2, OneKeeper DEF CurrentInv, Up
  <2>3. CASE at["main"] # "off"
    <3>1. at' = at /\ start' = start
      BY <1>3, <2>3 DEF HandleSignal, Launch, Alive, thread
    <3> QED
      BY <2>1, <3>1 DEF CurrentInv, Keeper, Fits, LoopOf
  <2> QED
    BY <2>2, <2>3
<1>4. CASE GivesUp
  <2>1. \A s \in Sessions : sess'[s].loop = sess[s].loop /\ sess'[s].settings = sess[s].settings
    BY <1>4, GivesUpSets DEF GivesUp, Sets, store
  <2>2. /\ \A u \in {"worker", "main"} : Keeper(u) => Keeper(u)'
        /\ UNCHANGED <<starts, start, current>>
    BY <1>4 DEF GivesUp, PlaceTypes, Keeper, Up, Goes, gui, thread, store
  <2> QED
    BY <2>1, <2>2, KeeperKept DEF SameKeeper
<1>5. ASSUME NEW t \in Tasks, Get(t) PROVE CurrentInv'
  <2>1. Obtain(t) /\ UNCHANGED <<starts, start, served>> /\ at[t] = "get"
    BY <1>5 DEF Get, gui, thread
  <2>2. CASE t = "worker"
    <3>1. current = Nothing
      BY <2>1, <2>2, OneKeeper DEF Keeper
    <3>2. config = LoopOf(t)[1]
      BY <2>1, <2>2 DEF ConfigInv, LoopOf
    <3>3. Keeper("worker")'
      BY <1>5, <2>2, TaskNames DEF Get, Keeper, Goes, PlaceTypes
    <3> QED
      BY <2>1, <2>2, <3>1, <3>2, <3>3, ObtainKeeper
  <2>3. CASE t # "worker"
    <3>1. at["main"] \in Up /\ t # "main" /\ (served => at["main"] \in {"finish"})
      BY <2>1, <2>3 DEF PointInv, AliveInv, Winding, Up
    <3>2. config = LoopOf(t)[1] /\ LoopOf(t) = LoopOf("main")
      BY <2>3, <3>1 DEF ConfigInv, LoopOf
    <3>3. Keeper("main")'
      BY <1>5, <2>1, <3>1 DEF Get, Keeper, Goes, PlaceTypes
    <3> QED
      BY <2>1, <3>1, <3>2, <3>3, OneKeeper, ObtainKeeper
  <2> QED
    BY <2>2, <2>3
<1>6. ASSUME NEW t \in Tasks, Acquire(t) PROVE CurrentInv'
  <2>1. \A s \in Sessions : sess'[s].loop = sess[s].loop /\ sess'[s].settings = sess[s].settings
    BY <1>6, AcquireSets DEF Acquire, Sets, store
  <2>2. /\ \A u \in {"worker", "main"} : Keeper(u) => Keeper(u)'
        /\ UNCHANGED <<starts, start, current>>
    BY <1>6 DEF Acquire, PlaceTypes, Keeper, Up, Goes, gui, thread, store
  <2> QED
    BY <2>1, <2>2, KeeperKept DEF SameKeeper
<1>7. ASSUME NEW t \in Tasks, Link(t) PROVE CurrentInv'
  <2>1. \A s \in Sessions : sess'[s].loop = sess[s].loop /\ sess'[s].settings = sess[s].settings
    BY <1>7, LinkSets DEF Link, Sets, store
  <2>2. /\ \A u \in {"worker", "main"} : Keeper(u) => Keeper(u)'
        /\ UNCHANGED <<starts, start, current>>
    BY <1>7 DEF Link, PlaceTypes, Keeper, Up, Goes, gui, thread, store
  <2> QED
    BY <2>1, <2>2, KeeperKept DEF SameKeeper
<1>8. ASSUME NEW t \in Tasks, LinkFails(t) PROVE CurrentInv'
  <2>1. \A s \in Sessions : sess'[s].loop = sess[s].loop /\ sess'[s].settings = sess[s].settings
    BY <1>8, LinkFailsSets DEF LinkFails, Sets, Leave, store
  <2>2. /\ \A u \in {"worker", "main"} : Keeper(u) => Keeper(u)'
        /\ UNCHANGED <<starts, start, current>>
    BY <1>8 DEF LinkFails, Leave, PlaceTypes, Keeper, Up, Goes, gui, thread, store
  <2> QED
    BY <2>1, <2>2, KeeperKept DEF SameKeeper
<1>9. ASSUME NEW t \in Tasks, Ask(t) PROVE CurrentInv'
  <2>1. \A s \in Sessions : sess'[s].loop = sess[s].loop /\ sess'[s].settings = sess[s].settings
    BY <1>9 DEF Ask, Sets, Leave, Ready, store
  <2>2. /\ \A u \in {"worker", "main"} : Keeper(u) => Keeper(u)'
        /\ UNCHANGED <<starts, start, current>>
    BY <1>9 DEF Ask, Leave, Ready, PlaceTypes, Keeper, Up, Goes, gui, thread, store
  <2> QED
    BY <2>1, <2>2, KeeperKept DEF SameKeeper
<1>10. ASSUME NEW t \in Tasks, Answered(t) PROVE CurrentInv'
  <2>1. \A s \in Sessions : sess'[s].loop = sess[s].loop /\ sess'[s].settings = sess[s].settings
    BY <1>10, AnsweredSets DEF Answered, Sets, Leave, Ready, store
  <2>2. /\ \A u \in {"worker", "main"} : Keeper(u) => Keeper(u)'
        /\ UNCHANGED <<starts, start, current>>
    BY <1>10 DEF Answered, Leave, Ready, PlaceTypes, Keeper, Up, Goes, gui, thread, store
  <2> QED
    BY <2>1, <2>2, KeeperKept DEF SameKeeper
<1>11. ASSUME NEW t \in Tasks, Drop(t) PROVE CurrentInv'
  <2>1. \A s \in Sessions : sess'[s].loop = sess[s].loop /\ sess'[s].settings = sess[s].settings
    BY <1>11, DropSets DEF Drop, Sets, Leave, store
  <2>2. /\ \A u \in {"worker", "main"} : Keeper(u) => Keeper(u)'
        /\ UNCHANGED <<starts, start, current>>
    BY <1>11 DEF Drop, Leave, PlaceTypes, Keeper, Up, Goes, gui, thread, store
  <2> QED
    BY <2>1, <2>2, KeeperKept DEF SameKeeper
<1>12. ASSUME NEW t \in Tasks, Unlock(t) PROVE CurrentInv'
  <2>1. \A s \in Sessions : sess'[s].loop = sess[s].loop /\ sess'[s].settings = sess[s].settings
    BY <1>12, UnlockSets DEF Unlock, Sets, store
  <2>2. /\ \A u \in {"worker", "main"} : Keeper(u) => Keeper(u)'
        /\ UNCHANGED <<starts, start, current>>
    BY <1>12 DEF Unlock, PlaceTypes, Keeper, Up, Goes, gui, thread, store
  <2> QED
    BY <2>1, <2>2, KeeperKept DEF SameKeeper
<1>13. ASSUME NEW t \in Tasks, Close(t) PROVE CurrentInv'
  <2>1. \A s \in Sessions : sess'[s].loop = sess[s].loop /\ sess'[s].settings = sess[s].settings
    BY <1>13, CloseSets DEF Close, Sets, Leave, store
  <2>2. /\ \A u \in {"worker", "main"} : Keeper(u) => Keeper(u)'
        /\ UNCHANGED <<starts, start, current>>
    BY <1>13 DEF Close, Leave, PlaceTypes, Keeper, Up, Goes, gui, thread, store
  <2> QED
    BY <2>1, <2>2, KeeperKept DEF SameKeeper
<1>14. ASSUME NEW t \in Tasks, Detach(t) PROVE CurrentInv'
  BY <1>14 DEF Detach, CurrentInv, Goes, gui, thread, store
<1>15. ASSUME NEW t \in Tasks, NoSession(t) PROVE CurrentInv'
  BY <1>15 DEF NoSession, CurrentInv, Goes, gui, thread, store
<1>16. ASSUME NEW t \in Tasks, Hangup(t) PROVE CurrentInv'
  <2>1. /\ at[t] \in {"giveback", "hangup"} /\ t \in {"worker", "main"} /\ uses[t] \in Sessions
        /\ UNCHANGED <<current, starts, start>>
    BY <1>16, InHand DEF Hangup, PointInv, Having, Up
  <2>2. CASE t = "worker" \/ served
    BY <2>1, <2>2, OneKeeper DEF PointInv, SignalInv, Winding, Keeper, CurrentInv, Up
  <2>3. CASE t = "main" /\ ~served
    <3>1. /\ at' = [at EXCEPT !["main"] = "finish"] /\ uses[t] # current
      BY <1>16, <2>1, <2>3 DEF Hangup, AfterShutdown, Leave, Goes, KeepInv
    <3>2. Keeper("main")'
      BY <3>1 DEF Keeper, Up, PlaceTypes
    <3>3. current # Nothing => sess'[current] = sess[current] /\ Fits("main", current)
      BY <1>16, <2>1, <2>3, <3>1, OneKeeper, HangupRest DEF PlaceTypes, Up
    <3> QED
      BY <2>1, <3>2, <3>3 DEF CurrentInv, Fits, LoopOf
  <2> QED
    BY <2>1, <2>2, <2>3
<1>17. ASSUME NEW t \in Tasks, ShutdownFails(t) PROVE CurrentInv'
  <2>1. /\ at[t] \in {"giveback", "hangup"} /\ t \in {"worker", "main"} /\ uses[t] \in Sessions
        /\ UNCHANGED <<current, starts, start>>
    BY <1>17, InHand DEF ShutdownFails, PointInv, Having, Up
  <2>2. CASE t = "worker" \/ served
    BY <2>1, <2>2, OneKeeper DEF PointInv, SignalInv, Winding, Keeper, CurrentInv, Up
  <2>3. CASE t = "main" /\ ~served
    <3>1. /\ at' = [at EXCEPT !["main"] = "finish"] /\ uses[t] # current
      BY <1>17, <2>1, <2>3 DEF ShutdownFails, AfterShutdown, Leave, Goes, KeepInv
    <3>2. Keeper("main")'
      BY <3>1 DEF Keeper, Up, PlaceTypes
    <3>3. current # Nothing => sess'[current] = sess[current] /\ Fits("main", current)
      BY <1>17, <2>1, <2>3, <3>1, OneKeeper DEF PlaceTypes, Up, ShutdownFails
    <3> QED
      BY <2>1, <3>2, <3>3 DEF CurrentInv, Fits, LoopOf
  <2> QED
    BY <2>1, <2>2, <2>3
<1>18. CASE Configured
  BY <1>18, ConfigureIdle DEF Configured, CurrentInv, Goes, gui, thread, store
<1>19. CASE Startup
  <2>1. PICK t \in {"main", "calibration"} : Obtain(t)
    BY <1>19 DEF Startup
  <2>2. at["main"] \in Up /\ UNCHANGED <<starts, start>>
    BY <1>19 DEF Startup, Up, gui, thread
  <2>3. config = LoopOf(t)[1] /\ LoopOf(t) = LoopOf("main")
    BY <2>1, <2>2 DEF ConfigInv, LoopOf
  <2>4. Keeper("main")'
    BY <1>19 DEF Startup, Keeper, Goes, PlaceTypes, Up
  <2> QED
    BY <2>1, <2>2, <2>3, <2>4, OneKeeper, ObtainKeeper
<1>20. CASE Bind
  <2>1. \A s \in Sessions : sess'[s].loop = sess[s].loop /\ sess'[s].settings = sess[s].settings
    BY <1>20, CancelSets DEF Bind, Sets, Cancel, store
  <2>2. /\ \A u \in {"worker", "main"} : Keeper(u) => Keeper(u)'
        /\ UNCHANGED <<starts, start, current>>
    BY <1>20 DEF Bind, Cancel, PlaceTypes, Keeper, Up, Goes, gui, thread, store
  <2> QED
    BY <2>1, <2>2, KeeperKept DEF SameKeeper
<1>21. CASE Served
  <2>1. \A s \in Sessions : sess'[s].loop = sess[s].loop /\ sess'[s].settings = sess[s].settings
    BY <1>21, CancelSets DEF Served, Sets, Cancel, store
  <2>2. /\ \A u \in {"worker", "main"} : Keeper(u) => Keeper(u)'
        /\ UNCHANGED <<starts, start, current>>
    BY <1>21 DEF Served, Cancel, PlaceTypes, Keeper, Up, Goes, gui, thread, store
  <2> QED
    BY <2>1, <2>2, KeeperKept DEF SameKeeper
<1>22. CASE LifespanEnds
  <2>1. \A s \in Sessions : sess'[s].loop = sess[s].loop /\ sess'[s].settings = sess[s].settings
    BY <1>22 DEF LifespanEnds, Sets, store
  <2>2. /\ \A u \in {"worker", "main"} : Keeper(u) => Keeper(u)'
        /\ UNCHANGED <<starts, start, current>>
    BY <1>22 DEF LifespanEnds, PlaceTypes, Keeper, Up, Goes, gui, thread, store
  <2> QED
    BY <2>1, <2>2, KeeperKept DEF SameKeeper
<1>23. CASE Finish
  <2>1. \A s \in Sessions : sess'[s].loop = sess[s].loop /\ sess'[s].settings = sess[s].settings
    BY <1>23, CancelSets DEF Finish, Sets, Cancel, store
  <2>2. /\ \A u \in {"worker", "main"} : Keeper(u) => Keeper(u)'
        /\ UNCHANGED <<starts, start, current>>
    BY <1>23 DEF Finish, Cancel, PlaceTypes, Keeper, Up, Goes, gui, thread, store
  <2> QED
    BY <2>1, <2>2, KeeperKept DEF SameKeeper
<1>24. CASE Unwind
  <2>1. \A s \in Sessions : sess'[s].loop = sess[s].loop /\ sess'[s].settings = sess[s].settings
    BY <1>24, CancelSets DEF Unwind, Sets, Cancel, store
  <2>2. /\ \A u \in {"worker", "main"} : Keeper(u) => Keeper(u)'
        /\ UNCHANGED <<starts, start, current>>
    BY <1>24 DEF Unwind, Cancel, PlaceTypes, Keeper, Up, Goes, gui, thread, store
  <2> QED
    BY <2>1, <2>2, KeeperKept DEF SameKeeper
<1>25. CASE ThreadEnds
  <2>1. \A s \in Sessions : sess'[s].loop = sess[s].loop /\ sess'[s].settings = sess[s].settings
    BY <1>25 DEF ThreadEnds, Sets, store
  <2>2. /\ \A u \in {"worker", "main"} : Keeper(u) => Keeper(u)'
        /\ UNCHANGED <<starts, start, current>>
    BY <1>25 DEF ThreadEnds, PlaceTypes, Keeper, Up, Goes, gui, thread, store
  <2> QED
    BY <2>1, <2>2, KeeperKept DEF SameKeeper
<1>26. CASE Preflight
  BY <1>26, ConfigureIdle DEF Preflight, CurrentInv, Goes, gui, thread, store
<1>27. CASE Calibrated
  <2>1. \A s \in Sessions : sess'[s].loop = sess[s].loop /\ sess'[s].settings = sess[s].settings
    BY <1>27 DEF Calibrated, Sets, store
  <2>2. /\ \A u \in {"worker", "main"} : Keeper(u) => Keeper(u)'
        /\ UNCHANGED <<starts, start, current>>
    BY <1>27 DEF Calibrated, PlaceTypes, Keeper, Up, Goes, gui, thread, store
  <2> QED
    BY <2>1, <2>2, KeeperKept DEF SameKeeper
<1>28. CASE MonitorTells
  <2>1. \A s \in Sessions : sess'[s].loop = sess[s].loop /\ sess'[s].settings = sess[s].settings
    BY <1>28 DEF MonitorTells, Sets, store
  <2>2. /\ \A u \in {"worker", "main"} : Keeper(u) => Keeper(u)'
        /\ UNCHANGED <<starts, start, current>>
    BY <1>28 DEF MonitorTells, PlaceTypes, Keeper, Up, Goes, gui, thread, store
  <2> QED
    BY <2>1, <2>2, KeeperKept DEF SameKeeper
<1>29. ASSUME NEW c \in Calls, CallBegins(c) PROVE CurrentInv'
  <2>1. \A s \in Sessions : sess'[s].loop = sess[s].loop /\ sess'[s].settings = sess[s].settings
    BY <1>29 DEF CallBegins, Sets, store
  <2>2. /\ \A u \in {"worker", "main"} : Keeper(u) => Keeper(u)'
        /\ UNCHANGED <<starts, start, current>>
    BY <1>29 DEF CallBegins, PlaceTypes, Keeper, Up, Goes, gui, thread, store
  <2> QED
    BY <2>1, <2>2, KeeperKept DEF SameKeeper
<1> QED
  <2>1. CASE UNCHANGED lifeVars
    BY <2>1 DEF lifeVars, gui, thread, store, CurrentInv, Keeper, Fits, LoopOf
  <2> QED
    BY <1>1, <1>2, <1>3, <1>4, <1>5, <1>6, <1>7, <1>8, <1>9, <1>10,
       <1>11, <1>12, <1>13, <1>14, <1>15, <1>16, <1>17, <1>18, <1>19, <1>20,
       <1>21, <1>22, <1>23, <1>24, <1>25, <1>26, <1>27, <1>28, <1>29, <2>1
    DEF LifeNext, Window, Proceed, Session, Shutdown, Server

(***************************************************************************)
(* Lifecycle: who gives links and locks back                               *)
(***************************************************************************)

\* A step that begins and ends no shutdown of a session.
Quiet ==
    \A t \in {"worker", "main"} :
        \/ at'[t] = at[t] /\ uses'[t] = uses[t]
        \/ {at[t], at'[t]} \cap {"giveback", "hangup"} = {}

\* Such a step leaves every session to who shuts it.
LEMMA QuietCleaners ==
    ASSUME Quiet, NEW s
    PROVE  /\ GivesBack(s)' <=> GivesBack(s)
           /\ Cleans(s)' <=> Cleans(s)
  BY DEF Quiet, GivesBack, Cleans

\* A step that asks for no lock.
NoneAsks == \A t \in Tasks : at'[t] = "asked" => at[t] = "asked" /\ uses'[t] = uses[t]

\* A step that changes none of what the device and the sessions know of locks.
SameLocks ==
    /\ \A s \in Sessions : sess'[s].link = sess[s].link /\ sess'[s].flag = sess[s].flag
    /\ UNCHANGED <<current, held, kept, loose>>
    /\ Quiet /\ NoneAsks

\* Such a step keeps that what is not loose is given back.
LEMMA LocksKept ==
    ASSUME KeepInv, SameLocks
    PROVE  KeepInv'
<1>1. \A s : (GivesBack(s)' <=> GivesBack(s)) /\ (Cleans(s)' <=> Cleans(s))
  BY QuietCleaners DEF SameLocks
<1>2. \A t \in {"worker", "main"} : at'[t] \in {"giveback", "hangup"} => uses'[t] # current'
  BY DEF KeepInv, SameLocks, Quiet
<1>3. \A s \in Sessions \ loose' :
         /\ s \in held' \ kept' => sess'[s].flag
         /\ sess'[s].flag => sess'[s].link /\ (s = current' \/ GivesBack(s)')
         /\ sess'[s].link => s = current' \/ Cleans(s)'
  BY <1>1 DEF KeepInv, SameLocks
<1>4. \A t \in Tasks, s \in Sessions \ loose' :
         at'[t] = "asked" /\ uses'[t] = s => s = current' \/ GivesBack(s)'
  BY <1>1 DEF KeepInv, SameLocks, NoneAsks
<1> QED
  BY <1>2, <1>3, <1>4 DEF KeepInv

\* A task that is cancelled leaves loose what it was asking for.
LEMMA CancelLocks ==
    ASSUME PlaceTypes, SessTypes, PointInv, KeepInv,
           NEW t \in {"monitor", "calibration"},
           NEW place \in {"lifespan", "detach", "ending"}, Cancel(t, place),
           at["main"] \notin {"giveback", "hangup"}, current' = current
    PROVE  KeepInv'
<1> USE TaskNames
<1>1. Quiet
  BY DEF Quiet, Cancel, PlaceTypes
<1>2. NoneAsks
  BY DEF NoneAsks, Cancel, PlaceTypes
<1>3. CASE at[t] \notin {"asked", "unlock"}
  <2>1. sess' = sess /\ held' = held /\ kept' = kept /\ loose' = loose
    BY <1>3 DEF Cancel
  <2> QED
    BY <1>1, <1>2, <2>1, LocksKept DEF SameLocks
<1>4. CASE at[t] \in {"asked", "unlock"}
  <2>1. /\ loose' = loose \cup {uses[t]} /\ held' \in {held, held \cup {uses[t]}} /\ kept' = kept
        /\ \A s \in Sessions \ {uses[t]} : sess'[s] = sess[s]
    BY <1>4, CancelSets DEF Cancel, Sets
  <2>2. \A s \in Sessions \ loose' : /\ s \notin loose /\ sess'[s] = sess[s]
                                     /\ s \in held' \ kept' => s \in held \ kept
    BY <2>1
  <2>3. \A s : (GivesBack(s)' <=> GivesBack(s)) /\ (Cleans(s)' <=> Cleans(s))
    BY <1>1, QuietCleaners
  <2>4. \A u \in {"worker", "main"} : at'[u] \in {"giveback", "hangup"} => uses'[u] # current'
    BY <1>1 DEF KeepInv, Quiet
  <2>5. \A s \in Sessions \ loose' :
           /\ s \in held' \ kept' => sess'[s].flag
           /\ sess'[s].flag => sess'[s].link /\ (s = current' \/ GivesBack(s)')
           /\ sess'[s].link => s = current' \/ Cleans(s)'
    BY <2>2, <2>3 DEF KeepInv
  <2>6. \A u \in Tasks, s \in Sessions \ loose' :
           at'[u] = "asked" /\ uses'[u] = s => s = current' \/ GivesBack(s)'
    BY <1>2, <2>2, <2>3 DEF KeepInv, NoneAsks
  <2> QED
    BY <2>4, <2>5, <2>6 DEF KeepInv
<1> QED
  BY <1>3, <1>4

\* A session that is obtained has neither link nor lock yet.
LEMMA ObtainLocks ==
    ASSUME FlagTypes, PlaceTypes, SessTypes, PointInv, KeepInv,
           NEW t \in Tasks, Obtain(t), at[t] \in {"get", "startup", "off"}, held' = held, kept' = kept, NoneAsks,
           \A u \in {"worker", "main"} :
              \/ at'[u] = at[u] /\ u # t
              \/ {at[u], at'[u]} \cap {"giveback", "hangup"} = {}
    PROVE  KeepInv'
<1> USE TaskNames
<1>1. \A u \in Tasks \ {t} : uses'[u] = uses[u]
  <2>1. \E s : uses' = [uses EXCEPT ![t] = s]
    BY Obtained DEF Makes
  <2> QED
    BY <2>1 DEF PlaceTypes
<1>2. Quiet
  BY <1>1 DEF Quiet
<1>3. CASE current # Nothing
  <2>1. UNCHANGED <<current, sess, loose>>
    BY <1>3, Obtained
  <2> QED
    BY <1>2, <2>1, LocksKept DEF SameLocks
<1>4. ASSUME NEW r \in Sessions, Makes(t, r), current = Nothing PROVE KeepInv'
  <2>1. /\ current' = r /\ loose' = loose \ {r} /\ r \notin held
        /\ \A u \in Tasks : uses[u] # r
        /\ ~sess'[r].link /\ ~sess'[r].flag
        /\ \A s \in Sessions \ {r} : sess'[s] = sess[s]
    BY <1>4 DEF Makes, Free
  <2>2. \A s \in Sessions \ {r} : s # current
    BY <1>4, LifecycleAssumption DEF LifecycleAssumption
  <2>3. \A s : (GivesBack(s)' <=> GivesBack(s)) /\ (Cleans(s)' <=> Cleans(s))
    BY <1>2, QuietCleaners
  <2>4. \A u \in {"worker", "main"} : at'[u] \in {"giveback", "hangup"} => uses'[u] # current'
    BY <1>2, <2>1 DEF Quiet
  <2>5. \A s \in Sessions \ loose' :
           /\ s \in held' \ kept' => sess'[s].flag
           /\ sess'[s].flag => sess'[s].link /\ (s = current' \/ GivesBack(s)')
           /\ sess'[s].link => s = current' \/ Cleans(s)'
    BY <2>1, <2>2, <2>3 DEF KeepInv
  <2>6. \A u \in Tasks, s \in Sessions \ loose' :
           at'[u] = "asked" /\ uses'[u] = s => s = current' \/ GivesBack(s)'
    BY <2>1, <2>2, <2>3 DEF KeepInv, NoneAsks
  <2> QED
    BY <2>4, <2>5, <2>6 DEF KeepInv
<1> QED
  BY <1>3, <1>4, Obtained

\* Two threads do not shut the same session.
LEMMA OneCleaner ==
    ASSUME OwnSession, PlaceTypes, NEW t \in {"worker", "main"}, NEW u \in {"worker", "main"},
           uses[t] = uses[u], uses[t] # Nothing
    PROVE  t = u
<1>1. LoopOf(t) = LoopOf(u)
  BY TaskNames DEF OwnSession
<1> QED
  BY <1>1 DEF LoopOf

\* Every step keeps that what is not loose is given back by somebody.
LEMMA KeepKept ==
    ASSUME FlagTypes, PlaceTypes, SessTypes, PointInv, SignalInv, AliveInv, CurrentInv,
           OwnSession, KeepInv, [LifeNext]_lifeVars
    PROVE  KeepInv'
<1> USE TaskNames DEF PointInv
<1>1. CASE StartPressed
  <2>1. Forget
    BY <1>1 DEF StartPressed
  <2>2. PICK lost \in SUBSET Sessions :
              /\ current \notin lost /\ \A t \in Tasks : uses[t] \notin lost
              /\ sess' \in [Sessions -> Kept]
              /\ \A s \in Sessions : sess'[s] = IF s \in lost THEN Blank ELSE sess[s]
              /\ held' = held \ lost /\ kept' = kept \ lost /\ loose' = loose \ lost
    BY <2>1, Forgotten
  <2>3. /\ current' = current /\ Quiet /\ NoneAsks
    BY <1>1 DEF StartPressed, Launch, Alive, Quiet, NoneAsks, PlaceTypes, Goes, thread
  <2>4. \A s : (GivesBack(s)' <=> GivesBack(s)) /\ (Cleans(s)' <=> Cleans(s))
    BY <2>3, QuietCleaners
  <2>5. ASSUME NEW s \in Sessions, s \notin loose'
        PROVE  \/ s \notin loose /\ sess'[s] = sess[s] /\ (s \in held' \ kept' => s \in held \ kept)
               \/ sess'[s] = Blank /\ s \notin held'
    <3>1. CASE s \in lost
      BY <2>2, <3>1
    <3>2. CASE s \notin lost
      BY <2>2, <2>5, <3>2
    <3> QED
      BY <3>1, <3>2
  <2>6. \A u \in {"worker", "main"} : at'[u] \in {"giveback", "hangup"} => uses'[u] # current'
    BY <2>3 DEF KeepInv, Quiet
  <2>7. \A s \in Sessions \ loose' :
           /\ s \in held' \ kept' => sess'[s].flag
           /\ sess'[s].flag => sess'[s].link /\ (s = current' \/ GivesBack(s)')
           /\ sess'[s].link => s = current' \/ Cleans(s)'
    BY <2>3, <2>4, <2>5, BlankKept DEF KeepInv
  <2>8. \A u \in Tasks, s \in Sessions \ loose' :
           at'[u] = "asked" /\ uses'[u] = s => s = current' \/ GivesBack(s)'
    BY <2>2, <2>3, <2>4, <2>5 DEF KeepInv, NoneAsks
  <2> QED
    BY <2>6, <2>7, <2>8 DEF KeepInv
<1>2. CASE StopPressed
  <2>1. \A s \in Sessions : sess'[s].link = sess[s].link /\ sess'[s].flag = sess[s].flag
    BY <1>2 DEF StopPressed, Sets, store
  <2>2. UNCHANGED <<current, held, kept, loose>>
    BY <1>2 DEF StopPressed, store
  <2>3. Quiet /\ NoneAsks
    BY <1>2 DEF StopPressed, Quiet, NoneAsks, PlaceTypes, Goes,
          gui, thread, store
  <2> QED
    BY <2>1, <2>2, <2>3, LocksKept DEF SameLocks
<1>3. CASE HandleSignal
  <2>1. \A s \in Sessions : sess'[s].link = sess[s].link /\ sess'[s].flag = sess[s].flag
    BY <1>3 DEF HandleSignal, Sets, Launch, Alive, store
  <2>2. UNCHANGED <<current, held, kept, loose>>
    BY <1>3 DEF HandleSignal, Launch, Alive, store
  <2>3. Quiet /\ NoneAsks
    BY <1>3 DEF HandleSignal, Launch, Alive, Quiet, NoneAsks, PlaceTypes, Goes,
          gui, thread, store
  <2> QED
    BY <2>1, <2>2, <2>3, LocksKept DEF SameLocks
<1>4. CASE GivesUp
  <2>1. \A s \in Sessions : sess'[s].link = sess[s].link /\ sess'[s].flag = sess[s].flag
    BY <1>4, GivesUpSets DEF GivesUp, Sets, store
  <2>2. UNCHANGED <<current, held, kept, loose>>
    BY <1>4 DEF GivesUp, store
  <2>3. Quiet /\ NoneAsks
    BY <1>4 DEF GivesUp, Quiet, NoneAsks, PlaceTypes, Goes,
          gui, thread, store
  <2> QED
    BY <2>1, <2>2, <2>3, LocksKept DEF SameLocks
<1>5. ASSUME NEW t \in Tasks, Get(t) PROVE KeepInv'
  <2>1. Obtain(t) /\ at[t] = "get" /\ held' = held /\ kept' = kept
    BY <1>5 DEF Get
  <2>2. \A u \in Tasks \ {t} : uses'[u] = uses[u]
    <3>1. \E s : uses' = [uses EXCEPT ![t] = s]
      BY <2>1, Obtained DEF Makes
    <3> QED
      BY <3>1 DEF PlaceTypes
  <2>3. at'[t] \in {"link", "lock", "drop"} /\ \A u \in Tasks \ {t} : at'[u] = at[u]
    BY <1>5 DEF Get, Goes, PlaceTypes
  <2> QED
    BY <2>1, <2>2, <2>3, ObtainLocks DEF NoneAsks
<1>6. ASSUME NEW t \in Tasks, Acquire(t) PROVE KeepInv'
  <2>1. \A s \in Sessions : sess'[s].link = sess[s].link /\ sess'[s].flag = sess[s].flag
    BY <1>6, AcquireSets DEF Acquire, Sets, store
  <2>2. UNCHANGED <<current, held, kept, loose>>
    BY <1>6 DEF Acquire, store
  <2>3. Quiet /\ NoneAsks
    BY <1>6 DEF Acquire, Quiet, NoneAsks, PlaceTypes, Goes,
          gui, thread, store
  <2> QED
    BY <2>1, <2>2, <2>3, LocksKept DEF SameLocks
<1>7. ASSUME NEW t \in Tasks, Link(t) PROVE KeepInv'
  <2>1. uses[t] \in Sessions /\ at[t] = "link"
    BY <1>7, InHand DEF Link, Having
  <2>2. /\ at' = [at EXCEPT ![t] = "ask"] /\ UNCHANGED <<uses, current, held, kept>>
        /\ loose' = IF uses[t] = current THEN loose ELSE loose \cup {uses[t]}
    BY <1>7 DEF Link, Loosen, Goes
  <2>3. Quiet /\ NoneAsks
    BY <2>1, <2>2 DEF Quiet, NoneAsks, PlaceTypes
  <2>4. \A s : (GivesBack(s)' <=> GivesBack(s)) /\ (Cleans(s)' <=> Cleans(s))
    BY <2>3, QuietCleaners
  <2>5. \A s \in Sessions \ loose' :
           /\ s \notin loose
           /\ \/ s # uses[t] /\ sess'[s] = sess[s]
              \/ s = current /\ sess'[s].link = TRUE /\ sess'[s].flag = (sess[s].flag /\ sess[s].link)
    BY <1>7, <2>2, LinkSets DEF Sets
  <2>6. \A u \in {"worker", "main"} : at'[u] \in {"giveback", "hangup"} => uses'[u] # current'
    BY <2>2, <2>3 DEF KeepInv, Quiet
  <2>7. \A s \in Sessions \ loose' :
           /\ s \in held' \ kept' => sess'[s].flag
           /\ sess'[s].flag => sess'[s].link /\ (s = current' \/ GivesBack(s)')
           /\ sess'[s].link => s = current' \/ Cleans(s)'
    BY <2>2, <2>4, <2>5 DEF KeepInv
  <2>8. \A u \in Tasks, s \in Sessions \ loose' :
           at'[u] = "asked" /\ uses'[u] = s => s = current' \/ GivesBack(s)'
    BY <2>2, <2>3, <2>4, <2>5 DEF KeepInv, NoneAsks
  <2> QED
    BY <2>6, <2>7, <2>8 DEF KeepInv
<1>8. ASSUME NEW t \in Tasks, LinkFails(t) PROVE KeepInv'
  <2>1. \A s \in Sessions : sess'[s].link = sess[s].link /\ sess'[s].flag = sess[s].flag
    BY <1>8, LinkFailsSets DEF LinkFails, Sets, Leave, store
  <2>2. UNCHANGED <<current, held, kept, loose>>
    BY <1>8 DEF LinkFails, Leave, store
  <2>3. Quiet /\ NoneAsks
    BY <1>8 DEF LinkFails, Leave, Quiet, NoneAsks, PlaceTypes, Goes,
          gui, thread, store
  <2> QED
    BY <2>1, <2>2, <2>3, LocksKept DEF SameLocks
<1>9. ASSUME NEW t \in Tasks, Ask(t) PROVE KeepInv'
  <2>1. uses[t] \in Sessions /\ at[t] = "ask"
    BY <1>9, InHand DEF Ask, Having
  <2>2. CASE at' = [at EXCEPT ![t] = Ready(t)] /\ loose' = loose
    <3>1. /\ UNCHANGED <<sess, current, held, kept>> /\ uses'[t] \in {uses[t], Nothing}
          /\ \A u \in Tasks \ {t} : uses'[u] = uses[u]
      BY <1>9 DEF Ask, Leave, PlaceTypes
    <3>2. Quiet /\ NoneAsks
      BY <2>1, <2>2, <3>1 DEF Quiet, NoneAsks, PlaceTypes, Ready
    <3> QED
      BY <2>2, <3>1, <3>2, LocksKept DEF SameLocks
  <2>3. CASE /\ at' = [at EXCEPT ![t] = "asked"] /\ UNCHANGED <<uses, sess, current, held, kept>>
             /\ loose' = IF uses[t] = current THEN loose ELSE loose \cup {uses[t]}
    <3>1. Quiet
      BY <2>1, <2>3 DEF Quiet, PlaceTypes
    <3>2. \A s : (GivesBack(s)' <=> GivesBack(s)) /\ (Cleans(s)' <=> Cleans(s))
      BY <3>1, QuietCleaners
    <3>3. \A u \in {"worker", "main"} : at'[u] \in {"giveback", "hangup"} => uses'[u] # current'
      BY <2>3, <3>1 DEF KeepInv, Quiet
    <3>4. \A s \in Sessions \ loose' :
             /\ s \in held' \ kept' => sess'[s].flag
             /\ sess'[s].flag => sess'[s].link /\ (s = current' \/ GivesBack(s)')
             /\ sess'[s].link => s = current' \/ Cleans(s)'
      BY <2>3, <3>2 DEF KeepInv
    <3>5. \A u \in Tasks, s \in Sessions \ loose' :
             at'[u] = "asked" /\ uses'[u] = s => s = current' \/ GivesBack(s)'
      BY <2>3, <3>2 DEF KeepInv, PlaceTypes
    <3> QED
      BY <3>3, <3>4, <3>5 DEF KeepInv
  <2> QED
    BY <1>9, <2>2, <2>3 DEF Ask, Leave, Loosen, Goes
<1>10. ASSUME NEW t \in Tasks, Answered(t) PROVE KeepInv'
  <2>1. uses[t] \in Sessions /\ at[t] = "asked" /\ sess \in [Sessions -> Kept]
    BY <1>10, InHand DEF Answered, Having
  <2>2. /\ at'[t] \notin {"asked", "giveback", "hangup"} /\ uses'[t] \in {uses[t], Nothing}
        /\ \A u \in Tasks \ {t} : at'[u] = at[u] /\ uses'[u] = uses[u]
        /\ current' = current
    BY <1>10 DEF Answered, Leave, Ready, Goes, PlaceTypes
  <2>3. Quiet /\ NoneAsks
    BY <2>1, <2>2 DEF Quiet, NoneAsks, PlaceTypes
  <2>4. \A s : (GivesBack(s)' <=> GivesBack(s)) /\ (Cleans(s)' <=> Cleans(s))
    BY <2>3, QuietCleaners
  <2>5. uses[t] \in loose \/ uses[t] = current \/ GivesBack(uses[t])
    BY <2>1 DEF KeepInv
  <2>6. \/ /\ sess[uses[t]].link /\ held' = held \cup {uses[t]} /\ kept' = kept \ {uses[t]} /\ loose' = loose
           /\ Sets(uses[t], sess[uses[t]].link, TRUE, sess[uses[t]].refs)
        \/ UNCHANGED <<held, kept, sess, loose>>
        \/ held' = held \cup {uses[t]} /\ kept' = kept /\ loose' = loose \cup {uses[t]} /\ sess' = sess
    BY <1>10, <2>1, SetFlag DEF Answered
  <2>7. \A s \in Sessions \ loose' :
           /\ s \notin loose
           /\ \/ sess'[s] = sess[s] /\ (s \in held' \ kept' => s \in held \ kept)
              \/ s = uses[t] /\ sess'[s].link /\ sess'[s].flag
    BY <2>6 DEF Sets
  <2>8. \A u \in {"worker", "main"} : at'[u] \in {"giveback", "hangup"} => uses'[u] # current'
    BY <2>2, <2>3 DEF KeepInv, Quiet
  <2>9. \A s \in Sessions \ loose' :
           /\ s \in held' \ kept' => sess'[s].flag
           /\ sess'[s].flag => sess'[s].link /\ (s = current' \/ GivesBack(s)')
           /\ sess'[s].link => s = current' \/ Cleans(s)'
    BY <2>2, <2>4, <2>5, <2>7 DEF KeepInv, GivesBack, Cleans
  <2>10. \A u \in Tasks, s \in Sessions \ loose' :
           at'[u] = "asked" /\ uses'[u] = s => s = current' \/ GivesBack(s)'
    BY <2>2, <2>3, <2>4, <2>7 DEF KeepInv, NoneAsks
  <2> QED
    BY <2>8, <2>9, <2>10 DEF KeepInv
<1>11. ASSUME NEW t \in Tasks, Drop(t) PROVE KeepInv'
  <2>1. \A s \in Sessions : sess'[s].link = sess[s].link /\ sess'[s].flag = sess[s].flag
    BY <1>11, DropSets DEF Drop, Sets, Leave, store
  <2>2. UNCHANGED <<current, held, kept, loose>>
    BY <1>11 DEF Drop, Leave, store
  <2>3. Quiet /\ NoneAsks
    BY <1>11 DEF Drop, Leave, Quiet, NoneAsks, PlaceTypes, Goes,
          gui, thread, store
  <2> QED
    BY <2>1, <2>2, <2>3, LocksKept DEF SameLocks
<1>12. ASSUME NEW t \in Tasks, Unlock(t) PROVE KeepInv'
  <2>1. uses[t] \in Sessions /\ at[t] \in {"unlock", "giveback"} /\ ~Asking(uses[t])
    BY <1>12, InHand DEF Unlock, Having
  <2>2. /\ at' = [at EXCEPT ![t] = IF at[t] = "unlock" THEN "close" ELSE "hangup"]
        /\ UNCHANGED <<uses, current, loose>>
    BY <1>12 DEF Unlock, Goes
  <2>3. \A s \in Sessions : Cleans(s) => Cleans(s)'
    BY <2>1, <2>2 DEF Cleans, PlaceTypes
  <2>4. \A s \in Sessions \ {uses[t]} : GivesBack(s) => GivesBack(s)'
    BY <2>1, <2>2 DEF GivesBack, PlaceTypes
  <2>5. \A s \in Sessions : GivesBack(s) => Cleans(s)
    BY DEF GivesBack, Cleans
  <2>6. \A s \in Sessions \ {uses[t]} : sess'[s] = sess[s] /\ (s \in held' \ kept' => s \in held \ kept)
    <3>1. \A s \in Sessions \ {uses[t]} : sess'[s] = sess[s]
      BY <1>12, UnlockSets DEF Sets
    <3>2. \A s \in Sessions \ {uses[t]} : s \in held' \ kept' => s \in held \ kept
      BY <1>12 DEF Unlock, HandsBack
    <3> QED
      BY <3>1, <3>2
  <2>7. \/ sess[uses[t]].flag /\ ~sess'[uses[t]].flag /\ uses[t] \notin held' \ kept'
        \/ ~sess[uses[t]].flag /\ sess' = sess /\ held' = held /\ kept' = kept
    BY <1>12, UnlockSets DEF Sets, Unlock, HandsBack
  <2>8. \A u \in Tasks : at'[u] = "asked" => at[u] = "asked" /\ uses[u] # uses[t]
    BY <2>1, <2>2 DEF Asking, PlaceTypes
  <2>9. \A u \in {"worker", "main"} : at'[u] \in {"giveback", "hangup"} => uses'[u] # current'
    BY <2>1, <2>2 DEF KeepInv, PlaceTypes
  <2>10. \A s \in Sessions \ loose' :
           /\ s \in held' \ kept' => sess'[s].flag
           /\ sess'[s].flag => sess'[s].link /\ (s = current' \/ GivesBack(s)')
           /\ sess'[s].link => s = current' \/ Cleans(s)'
    BY <2>1, <2>2, <2>3, <2>4, <2>5, <2>6, <2>7 DEF KeepInv
  <2>11. \A u \in Tasks, s \in Sessions \ loose' :
           at'[u] = "asked" /\ uses'[u] = s => s = current' \/ GivesBack(s)'
    BY <2>2, <2>4, <2>8 DEF KeepInv
  <2> QED
    BY <2>9, <2>10, <2>11 DEF KeepInv
<1>13. ASSUME NEW t \in Tasks, Close(t) PROVE KeepInv'
  <2>1. uses[t] \in Sessions /\ at[t] = "close"
    BY <1>13, InHand DEF Close, Having
  <2>2. /\ at'[t] \in {"detach", "off"} /\ uses'[t] \in {uses[t], Nothing}
        /\ \A u \in Tasks \ {t} : at'[u] = at[u] /\ uses'[u] = uses[u]
        /\ UNCHANGED <<current, held, kept>>
    BY <1>13 DEF Close, Leave, Goes, PlaceTypes
  <2>3. Quiet /\ NoneAsks
    BY <2>1, <2>2 DEF Quiet, NoneAsks, PlaceTypes
  <2>4. \A s : (GivesBack(s)' <=> GivesBack(s)) /\ (Cleans(s)' <=> Cleans(s))
    BY <2>3, QuietCleaners
  <2>5. \A s \in Sessions \ loose' :
           /\ s \notin loose
           /\ \/ sess'[s] = sess[s]
              \/ ~sess[s].flag /\ ~sess'[s].link /\ ~sess'[s].flag
    BY <1>13, CloseSets DEF Sets, Close
  <2>6. \A u \in {"worker", "main"} : at'[u] \in {"giveback", "hangup"} => uses'[u] # current'
    BY <2>2, <2>3 DEF KeepInv, Quiet
  <2>7. \A s \in Sessions \ loose' :
           /\ s \in held' \ kept' => sess'[s].flag
           /\ sess'[s].flag => sess'[s].link /\ (s = current' \/ GivesBack(s)')
           /\ sess'[s].link => s = current' \/ Cleans(s)'
    BY <2>2, <2>4, <2>5 DEF KeepInv
  <2>8. \A u \in Tasks, s \in Sessions \ loose' :
           at'[u] = "asked" /\ uses'[u] = s => s = current' \/ GivesBack(s)'
    BY <2>2, <2>3, <2>4, <2>5 DEF KeepInv, NoneAsks
  <2> QED
    BY <2>6, <2>7, <2>8 DEF KeepInv
<1>14. ASSUME NEW t \in Tasks, Detach(t) PROVE KeepInv'
  <2>1. at[t] = "detach" /\ t \in {"worker", "main"} /\ current # Nothing
    BY <1>14 DEF Detach, PointInv, PlaceTypes, Up
  <2>2. /\ at' = [at EXCEPT ![t] = "giveback"] /\ uses' = [uses EXCEPT ![t] = current]
        /\ current' = Nothing /\ UNCHANGED <<sess, held, kept, loose>>
    BY <1>14 DEF Detach, Goes
  <2>3. \A s : s = current => GivesBack(s)' /\ Cleans(s)'
    BY <2>1, <2>2 DEF GivesBack, Cleans, PlaceTypes
  <2>4. \A s : (GivesBack(s) => GivesBack(s)') /\ (Cleans(s) => Cleans(s)')
    BY <2>1, <2>2 DEF GivesBack, Cleans, PlaceTypes
  <2>5. \A u \in {"worker", "main"} : at'[u] \in {"giveback", "hangup"} => uses'[u] # current'
    BY <2>1, <2>2, LifecycleAssumption DEF LifecycleAssumption, PlaceTypes, PointInv, Having
  <2>6. \A s \in Sessions \ loose' :
           /\ s \in held' \ kept' => sess'[s].flag
           /\ sess'[s].flag => sess'[s].link /\ (s = current' \/ GivesBack(s)')
           /\ sess'[s].link => s = current' \/ Cleans(s)'
    BY <2>2, <2>3, <2>4 DEF KeepInv
  <2>7. \A u \in Tasks, s \in Sessions \ loose' :
           at'[u] = "asked" /\ uses'[u] = s => s = current' \/ GivesBack(s)'
    BY <2>1, <2>2, <2>3, <2>4 DEF KeepInv, PlaceTypes
  <2> QED
    BY <2>5, <2>6, <2>7 DEF KeepInv
<1>15. ASSUME NEW t \in Tasks, NoSession(t) PROVE KeepInv'
  <2>1. \A s \in Sessions : sess'[s].link = sess[s].link /\ sess'[s].flag = sess[s].flag
    BY <1>15 DEF NoSession, Sets, AfterShutdown, Leave, store
  <2>2. UNCHANGED <<current, held, kept, loose>>
    BY <1>15 DEF NoSession, AfterShutdown, Leave, store
  <2>3. Quiet /\ NoneAsks
    BY <1>15 DEF NoSession, AfterShutdown, Leave, Quiet, NoneAsks, PlaceTypes, Goes,
          gui, thread, store
  <2> QED
    BY <2>1, <2>2, <2>3, LocksKept DEF SameLocks
<1>16. ASSUME NEW t \in Tasks, Hangup(t) PROVE KeepInv'
  <2>1. /\ uses[t] \in Sessions /\ t \in {"worker", "main"} /\ at[t] = "hangup"
    BY <1>16, InHand DEF Hangup, Having, PointInv, Up
  <2>2. /\ at'[t] \in {"off", "finish", "unwind"} /\ uses'[t] = Nothing
        /\ \A u \in Tasks \ {t} : at'[u] = at[u] /\ uses'[u] = uses[u]
        /\ UNCHANGED <<current, held, kept>>
    BY <1>16 DEF Hangup, AfterShutdown, Leave, Goes, PlaceTypes
  <2>3. \A s \in Sessions \ {uses[t]} : (GivesBack(s) => GivesBack(s)') /\ (Cleans(s) => Cleans(s)')
    BY <2>1, <2>2 DEF GivesBack, Cleans
  <2>4. uses[t] # current /\ ~GivesBack(uses[t])
    BY <2>1, OneCleaner, LifecycleAssumption DEF LifecycleAssumption, KeepInv, GivesBack
  <2>5. uses[t] \notin loose =>
           /\ uses[t] \notin held \ kept /\ \A u \in Tasks : uses[u] = uses[t] => at[u] # "asked"
    <3> SUFFICES ASSUME uses[t] \notin loose
                 PROVE  /\ uses[t] \notin held \ kept
                        /\ \A u \in Tasks : uses[u] = uses[t] => at[u] # "asked"
      OBVIOUS
    <3>1. /\ uses[t] \in held \ kept => sess[uses[t]].flag
          /\ sess[uses[t]].flag => uses[t] = current \/ GivesBack(uses[t])
      BY <2>1 DEF KeepInv
    <3>2. \A u \in Tasks : at[u] = "asked" /\ uses[u] = uses[t] => uses[t] = current \/ GivesBack(uses[t])
      BY <2>1 DEF KeepInv
    <3> QED
      BY <2>4, <3>1, <3>2
  <2>6. \A s \in Sessions \ {uses[t]} : sess'[s] = sess[s] /\ (s \in loose' <=> s \in loose)
    <3>1. \A s \in Sessions \ {uses[t]} : sess'[s] = sess[s]
      BY <1>16, HangupRest
    <3>2. loose' = loose \/ loose' = loose \ {uses[t]}
      BY <1>16 DEF Hangup
    <3> QED
      BY <3>1, <3>2
  <2>7. ~sess'[uses[t]].link /\ ~sess'[uses[t]].flag
    BY <1>16, <2>1, HangupSets, BlankKept DEF Sets, SessTypes
  <2>8. uses[t] \notin loose' =>
           /\ uses[t] \notin held \ kept
           /\ uses[t] \notin loose \/ \A u \in Tasks \ {t} : uses[u] # uses[t]
    BY <1>16, <2>5 DEF Hangup
  <2>9. \A u \in {"worker", "main"} : at'[u] \in {"giveback", "hangup"} => uses'[u] # current'
    BY <2>1, <2>2 DEF KeepInv
  <2>10. \A s \in Sessions \ loose' :
           /\ s \in held' \ kept' => sess'[s].flag
           /\ sess'[s].flag => sess'[s].link /\ (s = current' \/ GivesBack(s)')
           /\ sess'[s].link => s = current' \/ Cleans(s)'
    BY <2>1, <2>2, <2>3, <2>6, <2>7, <2>8 DEF KeepInv
  <2>11. \A u \in Tasks, s \in Sessions \ loose' :
           at'[u] = "asked" /\ uses'[u] = s => s = current' \/ GivesBack(s)'
    BY <2>1, <2>2, <2>3, <2>5, <2>6, <2>8 DEF KeepInv
  <2> QED
    BY <2>9, <2>10, <2>11 DEF KeepInv
<1>17. ASSUME NEW t \in Tasks, ShutdownFails(t) PROVE KeepInv'
  <2>1. /\ uses[t] \in Sessions /\ t \in {"worker", "main"} /\ at[t] = "giveback"
    BY <1>17, InHand DEF ShutdownFails, Having, PointInv, Up
  <2>2. /\ at'[t] \in {"off", "finish", "unwind"} /\ uses'[t] = Nothing
        /\ \A u \in Tasks \ {t} : at'[u] = at[u] /\ uses'[u] = uses[u]
        /\ UNCHANGED <<current, held, kept>>
    BY <1>17 DEF ShutdownFails, AfterShutdown, Leave, Goes, PlaceTypes
  <2>3. \A s \in Sessions \ {uses[t]} : (GivesBack(s) => GivesBack(s)') /\ (Cleans(s) => Cleans(s)')
    BY <2>1, <2>2 DEF GivesBack, Cleans
  <2>4. sess' = sess /\ loose' = loose \cup {uses[t]}
    BY <1>17 DEF ShutdownFails
  <2>5. \A u \in {"worker", "main"} : at'[u] \in {"giveback", "hangup"} => uses'[u] # current'
    BY <2>1, <2>2 DEF KeepInv
  <2>6. \A s \in Sessions \ loose' :
           /\ s \in held' \ kept' => sess'[s].flag
           /\ sess'[s].flag => sess'[s].link /\ (s = current' \/ GivesBack(s)')
           /\ sess'[s].link => s = current' \/ Cleans(s)'
    BY <2>1, <2>2, <2>3, <2>4 DEF KeepInv
  <2>7. \A u \in Tasks, s \in Sessions \ loose' :
           at'[u] = "asked" /\ uses'[u] = s => s = current' \/ GivesBack(s)'
    BY <2>1, <2>2, <2>3, <2>4 DEF KeepInv
  <2> QED
    BY <2>5, <2>6, <2>7 DEF KeepInv
<1>18. CASE Configured
  <2>1. \A s \in Sessions : sess'[s].link = sess[s].link /\ sess'[s].flag = sess[s].flag
    BY <1>18, ConfigureIdle DEF Configured, Sets, store
  <2>2. UNCHANGED <<current, held, kept, loose>>
    BY <1>18 DEF Configured, store
  <2>3. Quiet /\ NoneAsks
    BY <1>18 DEF Configured, Quiet, NoneAsks, PlaceTypes, Goes,
          gui, thread, store
  <2> QED
    BY <2>1, <2>2, <2>3, LocksKept DEF SameLocks
<1>19. CASE Startup
  <2>1. PICK t \in {"main", "calibration"} :
             /\ Obtain(t) /\ at' = IF t = "main" THEN [at EXCEPT !["main"] = "bind"]
                                   ELSE [at EXCEPT !["main"] = "bind", !["calibration"] = "lock"]
    BY <1>19 DEF Startup, Goes
  <2>2. at["main"] = "startup" /\ at["calibration"] = "off" /\ held' = held /\ kept' = kept
    BY <1>19 DEF Startup, AliveInv
  <2>3. \A u \in Tasks \ {t} : uses'[u] = uses[u]
    <3>1. t \in Tasks /\ Obtain(t)
      BY <2>1
    <3>2. \E s : uses' = [uses EXCEPT ![t] = s]
      BY <3>1, Obtained DEF Makes
    <3> QED
      BY <3>1, <3>2 DEF PlaceTypes
  <2>4. NoneAsks
    BY <2>1, <2>2, <2>3 DEF NoneAsks, PlaceTypes
  <2>5. \A u \in {"worker", "main"} : \/ at'[u] = at[u] /\ u # t
                                     \/ {at[u], at'[u]} \cap {"giveback", "hangup"} = {}
    BY <2>1, <2>2 DEF PlaceTypes
  <2> QED
    BY <2>1, <2>2, <2>4, <2>5, ObtainLocks
<1>20. CASE Bind
  <2>1. CASE Cancel("calibration", "lifespan")
    BY <1>20, <2>1, CancelLocks DEF Bind
  <2>2. CASE /\ at["main"] = "bind"
             /\ at' \in {[at EXCEPT !["main"] = "finish"], [at EXCEPT !["main"] = "serving"]}
             /\ UNCHANGED <<uses, held, kept, sess, loose, current>>
    <3>1. Quiet /\ NoneAsks
      BY <2>2 DEF Quiet, NoneAsks, PlaceTypes
    <3> QED
      BY <2>2, <3>1, LocksKept DEF SameLocks
  <2> QED
    BY <1>20, <2>1, <2>2 DEF Bind, Goes
<1>21. CASE Served
  BY <1>21, CancelLocks DEF Served, Goes, gui, thread, store
<1>22. CASE LifespanEnds
  <2>1. \A s \in Sessions : sess'[s].link = sess[s].link /\ sess'[s].flag = sess[s].flag
    BY <1>22 DEF LifespanEnds, Sets, store
  <2>2. UNCHANGED <<current, held, kept, loose>>
    BY <1>22 DEF LifespanEnds, store
  <2>3. Quiet /\ NoneAsks
    BY <1>22 DEF LifespanEnds, Quiet, NoneAsks, PlaceTypes, Goes,
          gui, thread, store
  <2> QED
    BY <2>1, <2>2, <2>3, LocksKept DEF SameLocks
<1>23. CASE Finish
  BY <1>23, CancelLocks DEF Finish, Goes, gui, thread, store
<1>24. CASE Unwind
  BY <1>24, CancelLocks DEF Unwind, Goes, gui, thread, store
<1>25. CASE ThreadEnds
  <2>1. \A s \in Sessions : sess'[s].link = sess[s].link /\ sess'[s].flag = sess[s].flag
    BY <1>25 DEF ThreadEnds, Sets, store
  <2>2. UNCHANGED <<current, held, kept, loose>>
    BY <1>25 DEF ThreadEnds, store
  <2>3. Quiet /\ NoneAsks
    BY <1>25 DEF ThreadEnds, Quiet, NoneAsks, PlaceTypes, Goes,
          gui, thread, store
  <2> QED
    BY <2>1, <2>2, <2>3, LocksKept DEF SameLocks
<1>26. CASE Preflight
  <2>1. \A s \in Sessions : sess'[s].link = sess[s].link /\ sess'[s].flag = sess[s].flag
    BY <1>26, ConfigureIdle DEF Preflight, Sets, store
  <2>2. UNCHANGED <<current, held, kept, loose>>
    BY <1>26 DEF Preflight, store
  <2>3. Quiet /\ NoneAsks
    BY <1>26 DEF Preflight, Quiet, NoneAsks, PlaceTypes, Goes,
          gui, thread, store
  <2> QED
    BY <2>1, <2>2, <2>3, LocksKept DEF SameLocks
<1>27. CASE Calibrated
  <2>1. \A s \in Sessions : sess'[s].link = sess[s].link /\ sess'[s].flag = sess[s].flag
    BY <1>27 DEF Calibrated, Sets, store
  <2>2. UNCHANGED <<current, held, kept, loose>>
    BY <1>27 DEF Calibrated, store
  <2>3. Quiet /\ NoneAsks
    BY <1>27 DEF Calibrated, Quiet, NoneAsks, PlaceTypes, Goes,
          gui, thread, store
  <2> QED
    BY <2>1, <2>2, <2>3, LocksKept DEF SameLocks
<1>28. CASE MonitorTells
  <2>1. \A s \in Sessions : sess'[s].link = sess[s].link /\ sess'[s].flag = sess[s].flag
    BY <1>28 DEF MonitorTells, Sets, store
  <2>2. UNCHANGED <<current, held, kept, loose>>
    BY <1>28 DEF MonitorTells, store
  <2>3. Quiet /\ NoneAsks
    BY <1>28 DEF MonitorTells, Quiet, NoneAsks, PlaceTypes, Goes,
          gui, thread, store
  <2> QED
    BY <2>1, <2>2, <2>3, LocksKept DEF SameLocks
<1>29. ASSUME NEW c \in Calls, CallBegins(c) PROVE KeepInv'
  <2>1. \A s \in Sessions : sess'[s].link = sess[s].link /\ sess'[s].flag = sess[s].flag
    BY <1>29 DEF CallBegins, Sets, store
  <2>2. UNCHANGED <<current, held, kept, loose>>
    BY <1>29 DEF CallBegins, store
  <2>3. Quiet /\ NoneAsks
    BY <1>29 DEF CallBegins, Quiet, NoneAsks, PlaceTypes, Goes,
          gui, thread, store
  <2> QED
    BY <2>1, <2>2, <2>3, LocksKept DEF SameLocks
<1> QED
  <2>1. CASE UNCHANGED lifeVars
    BY <2>1 DEF lifeVars, gui, thread, store, KeepInv, GivesBack, Cleans
  <2> QED
    BY <1>1, <1>2, <1>3, <1>4, <1>5, <1>6, <1>7, <1>8, <1>9, <1>10,
       <1>11, <1>12, <1>13, <1>14, <1>15, <1>16, <1>17, <1>18, <1>19, <1>20,
       <1>21, <1>22, <1>23, <1>24, <1>25, <1>26, <1>27, <1>28, <1>29, <2>1
    DEF LifeNext, Window, Proceed, Session, Shutdown, Server

(***************************************************************************)
(* Lifecycle: the theorems                                                 *)
(***************************************************************************)

\* All of it together is inductive.
LifeIInv ==
    /\ FlagTypes /\ PlaceTypes /\ SessTypes
    /\ PointInv /\ SignalInv /\ AliveInv /\ ConfigInv
    /\ CurrentInv /\ OwnSession /\ KeepInv

\* The invariant holds before the first start.
LEMMA LifeInits ==
    LifeInit => LifeIInv
<1> SUFFICES ASSUME LifeInit PROVE LifeIInv
  OBVIOUS
<1> USE TaskNames, LifecycleAssumption DEF LifeInit, LifecycleAssumption
<1>1. FlagTypes
  <2>1. posted \in Seq(Signals)
    OBVIOUS
  <2>2. 0 \in 0..MaxStarts
    OBVIOUS
  <2> QED
    BY <2>1, <2>2 DEF FlagTypes, Shows
<1>2. PlaceTypes
  BY DEF PlaceTypes, Points
<1>3. SessTypes
  BY BlankKept DEF SessTypes
<1>4. \A t \in Tasks : at[t] = "off" /\ uses[t] = Nothing
  OBVIOUS
<1>5. PointInv
  BY <1>4 DEF PointInv, Having
<1>6. SignalInv
  BY <1>4 DEF SignalInv, Winding
<1>7. AliveInv /\ ConfigInv
  BY <1>4 DEF AliveInv, ConfigInv, Up
<1>8. CurrentInv /\ OwnSession
  BY <1>4 DEF CurrentInv, OwnSession
<1>9. KeepInv
  BY <1>4, BlankKept DEF KeepInv
<1> QED
  BY <1>1, <1>2, <1>3, <1>5, <1>6, <1>7, <1>8, <1>9 DEF LifeIInv

\* Every step keeps the invariant.
LEMMA LifeSteps ==
    LifeIInv /\ [LifeNext]_lifeVars => LifeIInv'
  BY FlagTypesKept, PlaceTypesKept, SessTypesKept, PointsKept, SignalKept, AliveKept, ConfigKept,
     CurrentKept, OwnKept, KeepKept
  DEF LifeIInv

\* The invariant holds in every state.
LEMMA LifeInductive ==
    LifeSpec => []LifeIInv
  BY LifeInits, LifeSteps, PTL DEF LifeSpec

\* The invariant has the types in it.
LEMMA LifeTypes ==
    ASSUME LifeIInv
    PROVE  LifeTypeOK
<1>1. \A t \in Tasks : at[t] \in {"link", "ask", "asked", "use", "drop"} => uses[t] # Nothing
  BY DEF LifeIInv, PointInv, Having
<1> QED
  BY <1>1 DEF LifeIInv, FlagTypes, PlaceTypes, SessTypes, Kept, LifeTypeOK

\* The state of the threads, of the window and of every session has its type,
\* however the threads interleave.
THEOREM LifeTypeCorrect ==
    LifeSpec => []LifeTypeOK
  BY LifeInductive, LifeTypes, PTL

\* A task of a thread never works with a session that another thread made, or
\* with the settings of another start (session.py's _session and get_session).
THEOREM SessionsAreOwn ==
    LifeSpec => []OwnSession
<1>1. LifeIInv => OwnSession
  BY DEF LifeIInv
<1> QED
  BY <1>1, LifeInductive, PTL

\* When the preflight's thread and the server's are gone, no session object is
\* connected and the device has its master lock back, or did not take it back
\* when it was last told to: the loose sessions apart.
THEOREM NothingIsKept ==
    LifeSpec => []NothingHeld
<1>1. ASSUME LifeIInv PROVE NothingHeld
  <2> SUFFICES ASSUME at["main"] = "off", at["worker"] = "off"
               PROVE  \A s \in Sessions \ loose : s \notin held \ kept /\ ~sess[s].link
    BY <1>1 DEF NothingHeld, Alive, LifeIInv, SessTypes
  <2>0. /\ FlagTypes /\ PlaceTypes /\ SessTypes /\ PointInv /\ SignalInv /\ AliveInv
        /\ ConfigInv /\ CurrentInv /\ OwnSession /\ KeepInv
    BY <1>1 DEF LifeIInv
  <2>1. current = Nothing
    <3>1. at["main"] \notin Up
      BY DEF Up
    <3> QED
      BY <2>0, <3>1 DEF CurrentInv, Keeper
  <2> SUFFICES ASSUME NEW s \in Sessions, s \notin loose
               PROVE  s \notin held \ kept /\ ~sess[s].link
    OBVIOUS
  <2>2. ~GivesBack(s) /\ ~Cleans(s)
    BY DEF GivesBack, Cleans
  <2>3. s # current
    BY <2>1, LifecycleAssumption DEF LifecycleAssumption
  <2>4. /\ s \in held \ kept => sess[s].flag
        /\ sess[s].flag => s = current \/ GivesBack(s)
        /\ sess[s].link => s = current \/ Cleans(s)
    BY <2>0 DEF KeepInv
  <2> QED
    BY <2>2, <2>3, <2>4
<1> QED
  BY <1>1, LifeInductive, PTL

\* If a preflight's thread never outlives the next start's, the window shows
\* "idle" as soon as both threads are gone and their signals are handled.
THEOREM WindowIsRight ==
    ASSUME ~LateEnd
    PROVE  LifeSpec => []LifeInv
<1>1. LifeInit => ReadyInv
  BY DEF LifeInit, ReadyInv
<1>2. LifeIInv /\ ReadyInv /\ [LifeNext]_lifeVars => ReadyInv'
  BY ReadyKept DEF LifeIInv
<1>3. ASSUME LifeIInv, ReadyInv PROVE LifeInv
  <2>1. LifeTypeOK
    BY <1>3, LifeTypes
  <2>2. ButtonsAreRight
    BY <1>3 DEF LifeIInv, ReadyInv, SignalInv, Winding, FlagTypes, Shows, ButtonsAreRight, Alive
  <2> QED
    BY <2>1, <2>2 DEF LifeInv
<1> QED
  BY <1>1, <1>2, <1>3, LifeInductive, LifeInits, PTL DEF LifeSpec

(***************************************************************************)
(* Provisioning: packets                                                   *)
(***************************************************************************)

\* Those that say where the device is.
Speaks(p) == p.cmd \in {"config", "sta"}

LEMMA PacketFields ==
    ASSUME NEW p \in Packets
    PROVE  /\ p.cmd \in {"error", "list", "other", "config", "sta"}
           /\ Speaks(p) => p.at \in Addresses
  BY DEF Packets, Speaks

\* The rest of what is on its way was on its way before.
LEMMA RestOfWire ==
    ASSUME NEW w \in Seq(Packets), w # <<>>
    PROVE  /\ Head(w) \in Packets /\ Head(w) = w[1] /\ 1 \in 1..Len(w)
           /\ Tail(w) \in Seq(Packets)
           /\ \A i \in 1..Len(Tail(w)) : i + 1 \in 1..Len(w) /\ Tail(w)[i] = w[i + 1]
  OBVIOUS

LEMMA LongerWire ==
    ASSUME NEW w \in Seq(Packets), NEW p \in Packets
    PROVE  /\ Append(w, p) \in Seq(Packets)
           /\ \A i \in 1..Len(Append(w, p)) :
                 (i \in 1..Len(w) /\ Append(w, p)[i] = w[i]) \/ Append(w, p)[i] = p
  OBVIOUS

(***************************************************************************)
(* Provisioning: the parts of the invariant                                *)
(***************************************************************************)

\* One who talks has the connection.
LinkInv == \A j \in All : Talking(pc[j]) <=> link = j

\* A scan asks for no network, and a job not for a list.
ScanInv == \A j \in Scans : pc[j] # "sta"

\* A job under way has a network.
NetInv == \A j \in Jobs : pc[j] \notin {"idle", "done", "failed"} => net[j] \in Nets

\* What a packet says of the device it was or is since the connection was made.
Truthful(p, networks) == Speaks(p) /\ p.at \in Nets => p.at \in networks

\* So is everything on its way, and the network the device is on is one of them.
SeenInv ==
    link # None =>
        /\ on \in Nets => on \in seen
        /\ \A i \in 1..Len(wire) : Truthful(wire[i], seen)

HasPassword(f) == f.ip # None => f.of \in f.creds

\* Every copy of the file keeps the password of its address.
CopiesInv ==
    HasPassword(file) /\ HasPassword(latest) /\ \A j \in Jobs : HasPassword(copy[j])

FileInv == TypeOK /\ LinkInv /\ ScanInv /\ NetInv /\ SeenInv /\ CopiesInv

\* The invariant holds before the first job.
LEMMA FileInvInit == Init => FileInv
<1> SUFFICES ASSUME Init PROVE FileInv
  OBVIOUS
<1> USE ProvisioningAssumption DEF ProvisioningAssumption, Init
<1>1. TypeOK
  <2>1. Fresh \in Files /\ [Fresh EXCEPT !.creds = Saved] \in Files
    BY DEF Fresh, Files
  <2>2. file \in Files /\ latest \in Files /\ copy \in [Jobs -> Files]
    BY <2>1
  <2>3. pc \in [All -> Places] /\ link \in All \cup {None} /\ wire \in Seq(Packets)
    BY DEF Places
  <2> QED
    BY <2>2, <2>3 DEF TypeOK
<1>2. LinkInv
  BY DEF LinkInv, Talking, All
<1>3. ScanInv /\ NetInv /\ SeenInv
  BY DEF ScanInv, NetInv, SeenInv, All
<1>4. CopiesInv
  BY DEF CopiesInv, HasPassword, Fresh
<1> QED
  BY <1>1, <1>2, <1>3, <1>4 DEF FileInv

\* Every step keeps the invariant.
LEMMA FileInvKept == FileInv /\ [Next]_vars => FileInv'
<1> SUFFICES ASSUME FileInv, [Next]_vars PROVE FileInv'
  OBVIOUS
<1> USE ProvisioningAssumption DEF ProvisioningAssumption
<1>0. TypeOK /\ LinkInv /\ ScanInv /\ NetInv /\ SeenInv /\ CopiesInv
  BY DEF FileInv
<1>t. /\ pc \in [All -> Places] /\ net \in [Jobs -> Nets \cup {None}]
      /\ ip \in [Jobs -> Nets \cup {None}] /\ copy \in [Jobs -> Files]
      /\ file \in Files /\ latest \in Files /\ link \in All \cup {None} /\ None \notin All
      /\ on \in Nets \cup {Ap} /\ joining \in Nets \cup {None} /\ wire \in Seq(Packets)
      /\ asked \subseteq Requests /\ seen \subseteq Nets /\ writes \in 0..MaxGui
      /\ (link = None => wire = <<>>)
  BY <1>0 DEF TypeOK, All
<1>1. CASE UNCHANGED vars
  BY <1>0, <1>1 DEF vars, fileVars, jobVars, deviceVars, FileInv, TypeOK, LinkInv, ScanInv,
     NetInv, SeenInv, CopiesInv
\* A step of one who does not talk, before or after.
<1>2. ASSUME NEW j \in All, NEW place \in {"connect", "load", "save", "record", "done", "failed"},
             ~Talking(pc[j]), pc' = [pc EXCEPT ![j] = place], UNCHANGED <<link, deviceVars, seen>>
      PROVE  LinkInv' /\ ScanInv' /\ SeenInv'
  <2>1. ~Talking(place)
    BY <1>2 DEF Talking
  <2>2. LinkInv'
    BY <1>0, <1>t, <1>2, <2>1 DEF LinkInv, Talking
  <2>3. SeenInv'
    BY <1>0, <1>2 DEF SeenInv, Truthful, deviceVars
  <2>4. ScanInv'
    BY <1>0, <1>t, <1>2 DEF ScanInv, All
  <2> QED
    BY <2>2, <2>3, <2>4
<1>3. ASSUME NEW j \in Jobs, NEW n \in Nets, Provision(j, n)
      PROVE  FileInv'
  <2>1. LinkInv' /\ ScanInv' /\ SeenInv'
    BY <1>t, <1>2, <1>3 DEF Provision, At, Talking, All
  <2>2. TypeOK'
    BY <1>0, <1>3 DEF Provision, At, TypeOK, Places, All, fileVars, deviceVars
  <2>3. NetInv'
    BY <1>0, <1>t, <1>3 DEF Provision, At, NetInv, All
  <2>4. CopiesInv'
    BY <1>0, <1>3 DEF Provision, CopiesInv, fileVars
  <2> QED
    BY <2>1, <2>2, <2>3, <2>4 DEF FileInv
\* Other such steps change the network of nobody who is under way.
<1>4. ASSUME NEW j \in All, NEW place \in {"connect", "save", "record", "done", "failed"},
             ~Talking(pc[j]), pc' = [pc EXCEPT ![j] = place], UNCHANGED <<link, deviceVars, seen>>,
             j \in Jobs => pc[j] # "idle" /\ (place = "done" \/ place = "failed" \/ pc[j] \notin {"done", "failed"}),
             file' \in Files, copy' \in [Jobs -> Files], UNCHANGED <<latest, writes>>,
             ip' \in [Jobs -> Nets \cup {None}],
             \/ net' = net
             \/ place \in {"done", "failed"} /\ net' = [net EXCEPT ![j] = None],
             HasPassword(file'), \A i \in Jobs : HasPassword(copy'[i])
      PROVE  FileInv'
  <2>1. LinkInv' /\ ScanInv' /\ SeenInv'
    BY <1>2, <1>4
  <2>2. net' \in [Jobs -> Nets \cup {None}]
    BY <1>t, <1>4
  <2>3. TypeOK'
    BY <1>0, <1>4, <2>2 DEF TypeOK, Places, deviceVars
  <2>4. NetInv'
    BY <1>0, <1>t, <1>4 DEF NetInv, All
  <2>5. CopiesInv'
    BY <1>0, <1>4 DEF CopiesInv, HasPassword
  <2> QED
    BY <2>1, <2>3, <2>4, <2>5 DEF FileInv
<1>5. ASSUME NEW j \in Scans, Scan(j)
      PROVE  FileInv'
  BY <1>0, <1>t, <1>4, <1>5 DEF Scan, At, Talking, All, CopiesInv, fileVars, jobVars
<1>6. ASSUME NEW j \in All, ConnectFails(j)
      PROVE  FileInv'
  BY <1>0, <1>t, <1>4, <1>6 DEF ConnectFails, At, Talking, CopiesInv, fileVars, jobVars
<1>7. ASSUME NEW j \in Jobs, Load(j)
      PROVE  FileInv'
  BY <1>0, <1>t, <1>4, <1>7 DEF Load, At, Talking, All, CopiesInv, HasPassword, fileVars
\* What a job ends with.
<1>e. ASSUME NEW j \in Jobs, Ends(j)
      PROVE  /\ ip' \in [Jobs -> Nets \cup {None}] /\ net' = [net EXCEPT ![j] = None]
             /\ copy' \in [Jobs -> Files] /\ \A i \in Jobs : HasPassword(copy'[i])
  <2>1. Fresh \in Files /\ HasPassword(Fresh)
    BY DEF Fresh, Files, HasPassword
  <2> QED
    BY <1>0, <1>t, <1>e, <2>1 DEF Ends, CopiesInv
<1>8. ASSUME NEW j \in Jobs, Save(j)
      PROVE  FileInv'
  <2>1. net[j] \in Nets
    BY <1>0, <1>8 DEF Save, NetInv
  <2>2. Outcome(j) \in Files /\ HasPassword(Outcome(j))
    BY <1>t, <2>1 DEF Outcome, Files, HasPassword
  <2> QED
    BY <1>t, <1>e, <1>4, <1>8, <2>2 DEF Save, At, Talking, All
<1>9. ASSUME NEW j \in Jobs, RecordError(j)
      PROVE  FileInv'
  <2>1. file' \in Files /\ HasPassword(file')
    BY <1>9 DEF RecordError, Fresh, Files, HasPassword
  <2> QED
    BY <1>t, <1>e, <1>4, <1>9, <2>1 DEF RecordError, At, Talking, All
<1>10. CASE GuiWrites \/ Refresh
  <2>1. latest' \in Files /\ file' \in Files /\ HasPassword(latest') /\ HasPassword(file')
    BY <1>0, <1>t, <1>10 DEF GuiWrites, Refresh, CopiesInv
  <2>2. UNCHANGED <<pc, jobVars, link, deviceVars, seen>> /\ writes' \in 0..MaxGui
    BY <1>t, <1>10 DEF GuiWrites, Refresh
  <2>3. TypeOK'
    BY <1>0, <2>1, <2>2 DEF TypeOK, jobVars, deviceVars
  <2>4. LinkInv' /\ ScanInv' /\ NetInv' /\ SeenInv'
    BY <1>0, <2>2 DEF LinkInv, ScanInv, NetInv, SeenInv, jobVars, deviceVars
  <2>5. CopiesInv'
    BY <1>0, <2>1, <2>2 DEF CopiesInv, jobVars
  <2> QED
    BY <2>3, <2>4, <2>5 DEF FileInv
\* The connection is given up, with an address or without.
<1>11. ASSUME NEW j \in All, Talking(pc[j]), NEW place \in {"load", "record", "failed", "done"},
              pc' = [pc EXCEPT ![j] = place], HangUp, UNCHANGED <<fileVars, net, copy>>,
              ip' \in [Jobs -> Nets \cup {None}]
       PROVE  FileInv'
  <2>1. /\ link = j /\ link' = None /\ wire' = <<>> /\ asked' \subseteq Requests /\ seen' = {}
        /\ UNCHANGED <<on, joining>> /\ ~Talking(place)
    BY <1>0, <1>t, <1>11 DEF LinkInv, HangUp, Talking
  <2>2. LinkInv'
    <3> SUFFICES ASSUME NEW i \in All PROVE ~Talking(pc'[i])
      BY <1>t, <2>1 DEF LinkInv
    <3>1. CASE i = j
      BY <1>t, <1>11, <2>1, <3>1
    <3>2. CASE i # j
      BY <1>0, <1>t, <1>11, <2>1, <3>2 DEF LinkInv
    <3> QED
      BY <3>1, <3>2
  <2>3. NetInv'
    <3>1. pc[j] \notin {"idle", "done", "failed"}
      BY <1>11 DEF Talking
    <3> QED
      BY <1>0, <1>t, <1>11, <3>1 DEF NetInv, All
  <2>4. TypeOK'
    BY <1>0, <1>11, <2>1 DEF TypeOK, fileVars, Places
  <2>5. CopiesInv'
    BY <1>0, <1>11 DEF CopiesInv, fileVars
  <2>6. ScanInv' /\ SeenInv'
    BY <1>0, <1>t, <1>11, <2>1 DEF ScanInv, SeenInv, All
  <2> QED
    BY <2>2, <2>3, <2>4, <2>5, <2>6 DEF FileInv
<1>12. ASSUME NEW j \in All, Talking(pc[j]), Fails(j), UNCHANGED <<fileVars, net, copy>>
       PROVE  FileInv'
  <2>1. PICK place \in {"record", "failed"} : pc' = [pc EXCEPT ![j] = place]
    BY <1>12 DEF Fails, At
  <2> QED
    BY <1>t, <1>11, <1>12, <2>1 DEF Fails
<1>13. ASSUME NEW j \in All, GiveUp(j)
       PROVE  FileInv'
  BY <1>12, <1>13 DEF GiveUp
\* One who talks goes on to, with as many packets on their way or fewer.
<1>14. ASSUME NEW j \in All, Talking(pc[j]), NEW place \in {"config", "sta", "list"},
              pc' = [pc EXCEPT ![j] = place], wire # <<>>, wire' = Tail(wire),
              asked' \subseteq Requests, place = "sta" => j \in Jobs,
              UNCHANGED <<fileVars, net, copy, ip, link, on, joining, seen>>
       PROVE  FileInv'
  <2>1. link = j /\ link \in All
    BY <1>0, <1>14 DEF LinkInv
  <2>2. LinkInv'
    <3>1. Talking(place)
      BY DEF Talking
    <3> QED
      BY <1>0, <1>t, <1>14, <2>1, <3>1 DEF LinkInv
  <2>3. SeenInv' /\ wire' \in Seq(Packets)
    BY <1>0, <1>t, <1>14, RestOfWire DEF SeenInv
  <2>4. NetInv'
    BY <1>0, <1>t, <1>14 DEF NetInv, All, Talking
  <2>5. TypeOK'
    BY <1>0, <1>t, <1>14, <2>1, <2>3 DEF TypeOK, fileVars, Places
  <2>6. CopiesInv'
    BY <1>0, <1>14 DEF CopiesInv, fileVars
  <2>7. ScanInv'
    BY <1>0, <1>t, <1>14 DEF ScanInv, All
  <2> QED
    BY <2>2, <2>3, <2>4, <2>5, <2>6, <2>7 DEF FileInv
<1>15. ASSUME NEW j \in All, Connect(j)
       PROVE  FileInv'
  <2>1. link = None /\ link' = j /\ wire = <<>> /\ wire' = <<>> /\ seen' = {on} \cap Nets
    BY <1>t, <1>15 DEF Connect
  <2>2. pc' = [pc EXCEPT ![j] = "config"] /\ UNCHANGED <<fileVars, jobVars, on, joining>>
    BY <1>15 DEF Connect, At
  <2>3. asked' \subseteq Requests
    BY <1>t, <1>15 DEF Connect, Asks, Requests
  <2>4. LinkInv'
    <3> SUFFICES ASSUME NEW i \in All PROVE Talking(pc'[i]) <=> i = j
      BY <2>1 DEF LinkInv
    <3>1. ~Talking(pc[i]) /\ Talking("config")
      BY <1>0, <1>t, <2>1 DEF LinkInv, Talking
    <3> QED
      BY <1>t, <2>2, <3>1
  <2>5. SeenInv'
    BY <2>1, <2>2 DEF SeenInv
  <2>6. NetInv'
    BY <1>0, <1>t, <1>15, <2>2 DEF Connect, NetInv, All, jobVars
  <2>7. TypeOK'
    BY <1>0, <1>t, <2>1, <2>2, <2>3 DEF TypeOK, fileVars, jobVars, Places
  <2>8. CopiesInv'
    BY <1>0, <2>2 DEF CopiesInv, fileVars, jobVars
  <2>9. ScanInv'
    BY <1>0, <1>t, <2>2 DEF ScanInv, All
  <2> QED
    BY <2>4, <2>5, <2>6, <2>7, <2>8, <2>9 DEF FileInv
<1>16. ASSUME NEW j \in All, Take(j)
       PROVE  FileInv'
  <2>1. Talking(pc[j]) /\ link = j /\ wire # <<>> /\ UNCHANGED <<fileVars, net, copy>>
    BY <1>16 DEF Take
  <2>2. PICK m \in Packets : m = Head(wire)
    BY <1>t, <2>1, RestOfWire
  <2>3. ASSUME Wait PROVE FileInv'
    <3>1. pc' = [pc EXCEPT ![j] = pc[j]] /\ pc[j] \in {"config", "sta", "list"}
      BY <1>t, <2>1, <2>3 DEF Wait, Talking
    <3>2. pc[j] = "sta" => j \in Jobs
      BY <1>0 DEF ScanInv, All
    <3> QED
      BY <1>t, <1>14, <2>1, <2>3, <3>1, <3>2 DEF Wait
  <2>4. ASSUME NEW request \in Requests, NEW place \in {"config", "sta", "list"},
               place = "sta" => j \in Jobs, Continue(j, request, place)
        PROVE  FileInv'
    <3>1. asked' \subseteq Requests
      BY <1>t, <2>4 DEF Continue, Asks
    <3> QED
      BY <1>14, <2>1, <2>4, <3>1 DEF Continue, At
  <2>5. ASSUME j \in Jobs, Obtains(j, m.at), Speaks(m), Usable(m.at) PROVE FileInv'
    <3>1. m.at \in Nets
      BY <2>5, PacketFields DEF Addresses, Usable
    <3>2. ip' \in [Jobs -> Nets \cup {None}]
      BY <1>t, <2>5, <3>1 DEF Obtains
    <3> QED
      BY <1>11, <2>1, <2>5, <3>2 DEF Obtains, At
  <2>6. j \in Jobs => net[j] \in Nets
    BY <1>0, <2>1 DEF NetInv, Talking
  <2>7. ASSUME m.cmd = "config", TakeConfig(j, m) PROVE FileInv'
    <3>1. [cmd |-> "list"] \in Requests
      BY DEF Requests
    <3>2. j \in Jobs => [cmd |-> "sta", net |-> net[j]] \in Requests
      BY <2>6 DEF Requests
    <3>3. ASSUME j \in Scans, Continue(j, [cmd |-> "list"], "list") PROVE FileInv'
      BY <2>4, <3>1, <3>3
    <3>4. ASSUME j \in Jobs, Continue(j, [cmd |-> "sta", net |-> net[j]], "sta") PROVE FileInv'
      BY <2>4, <3>2, <3>4
    <3>5. ASSUME j \in Jobs, Joined(m, net[j]), Obtains(j, m.at) PROVE FileInv'
      BY <2>5, <2>7, <3>5 DEF Joined, Speaks
    <3> QED
      BY <1>12, <2>1, <2>7, <3>3, <3>4, <3>5 DEF TakeConfig
  <2>8. ASSUME m.cmd = "config", TakeFollowUp(j, m), j \in Jobs PROVE FileInv'
    <3>1. ASSUME Joined(m, None), Obtains(j, m.at) PROVE FileInv'
      BY <2>5, <2>8, <3>1 DEF Joined, Speaks
    <3> QED
      BY <1>12, <2>1, <2>3, <2>8, <3>1 DEF TakeFollowUp
  <2>9. ASSUME m.cmd = "sta", TakeSta(j, m), j \in Jobs PROVE FileInv'
    <3>1. [cmd |-> "config"] \in Requests
      BY DEF Requests
    <3>2. ASSUME Continue(j, [cmd |-> "config"], "sta") PROVE FileInv'
      BY <2>4, <2>9, <3>1, <3>2
    <3>3. ASSUME Usable(m.at), Obtains(j, m.at) PROVE FileInv'
      BY <2>5, <2>9, <3>3 DEF Speaks
    <3> QED
      BY <1>12, <2>1, <2>9, <3>2, <3>3 DEF TakeSta
  <2>10. ASSUME At(j, "done"), HangUp, UNCHANGED ip PROVE FileInv'
    BY <1>t, <1>11, <2>1, <2>10 DEF At
  <2>11. pc[j] = "sta" => j \in Jobs
    BY <1>0 DEF ScanInv, All
  <2>12. m.cmd = "sta" /\ m.cmd \in Expected(j) => pc[j] = "sta"
    <3>1. pc[j] = "config" => Expected(j) = {"error", "config"}
      BY DEF Expected
    <3>2. pc[j] = "list" => Expected(j) = {"error", "list"}
      BY DEF Expected
    <3> QED
      BY <2>1, <3>1, <3>2 DEF Talking
  <2>13. \/ Wait \/ Fails(j)
         \/ m.cmd = "config" /\ pc[j] = "config" /\ TakeConfig(j, m)
         \/ m.cmd = "config" /\ pc[j] = "sta" /\ TakeFollowUp(j, m)
         \/ m.cmd = "sta" /\ m.cmd \in Expected(j) /\ TakeSta(j, m)
         \/ m.cmd = "list" /\ At(j, "done") /\ HangUp /\ UNCHANGED ip
    BY <1>16, <2>2 DEF Take
  <2> QED
    BY <1>12, <2>1, <2>3, <2>7, <2>8, <2>9, <2>10, <2>11, <2>12, <2>13
\* The device is on a network, and says what it was on since the connection was
\* made.
<1>17. ASSUME on' \in Nets \cup {Ap}, joining' \in Nets \cup {None}, asked' \subseteq Requests,
              UNCHANGED <<fileVars, pc, jobVars, link>>,
              seen' = IF link = None THEN {} ELSE seen \cup ({on'} \cap Nets),
              \/ UNCHANGED wire
              \/ /\ link # None
                 /\ \E p \in Packets : /\ wire' = Append(wire, p)
                                       /\ Truthful(p, seen \cup ({on'} \cap Nets))
       PROVE  FileInv'
  <2>1. wire' \in Seq(Packets) /\ (link = None => wire' = <<>>)
    <3>1. \A p \in Packets : Append(wire, p) \in Seq(Packets)
      BY <1>t, LongerWire
    <3> QED
      BY <1>t, <1>17, <3>1
  <2>2. TypeOK'
    BY <1>0, <1>17, <2>1 DEF TypeOK, fileVars, jobVars
  <2>3. LinkInv' /\ ScanInv' /\ NetInv' /\ CopiesInv'
    BY <1>0, <1>17 DEF LinkInv, ScanInv, NetInv, CopiesInv, fileVars, jobVars
  <2>4. SeenInv'
    <3> SUFFICES ASSUME link # None
                 PROVE  /\ on' \in Nets => on' \in seen'
                        /\ \A i \in 1..Len(wire') : Truthful(wire'[i], seen')
      BY <1>17 DEF SeenInv
    <3>1. seen' = seen \cup ({on'} \cap Nets)
      BY <1>17
    <3>2. \A i \in 1..Len(wire) : Truthful(wire[i], seen')
      BY <1>0, <3>1 DEF SeenInv, Truthful
    <3>3. CASE UNCHANGED wire
      BY <3>1, <3>2, <3>3
    <3>4. CASE ~ UNCHANGED wire
      <4>1. PICK p \in Packets : wire' = Append(wire, p) /\ Truthful(p, seen')
        BY <1>17, <3>1, <3>4
      <4>2. \A i \in 1..Len(wire') : (i \in 1..Len(wire) /\ wire'[i] = wire[i]) \/ wire'[i] = p
        BY <1>t, <4>1, LongerWire
      <4> QED
        BY <3>1, <3>2, <4>1, <4>2
    <3> QED
      BY <3>3, <3>4
  <2> QED
    BY <2>2, <2>3, <2>4 DEF FileInv
\* What the device says is told to whoever is connected.
<1>18. ASSUME NEW said \in SUBSET Packets, Tells(said), NEW networks,
              \A p \in said : Truthful(p, networks)
       PROVE  \/ UNCHANGED wire
              \/ /\ link # None
                 /\ \E p \in Packets : wire' = Append(wire, p) /\ Truthful(p, networks)
  BY <1>18 DEF Tells
<1>19. CASE Does
  <2>1. /\ UNCHANGED <<fileVars, pc, jobVars, link>>
        /\ seen' = IF link = None THEN {} ELSE seen \cup ({on'} \cap Nets)
    BY <1>19 DEF Does
  <2>2. PICK q \in asked :
           /\ asked' = asked \ {q}
           /\ \/ q.cmd = "config" /\ Tells(Configs) /\ UNCHANGED <<on, joining>>
              \/ q.cmd = "sta" /\ DoSta(q.net)
              \/ q.cmd = "list" /\ Tells({[cmd |-> "list"]}) /\ UNCHANGED <<on, joining>>
              \/ Tells([cmd : {"error", "other"}]) /\ UNCHANGED <<on, joining>>
    BY <1>19 DEF Does
  <2>3. q \in Requests /\ asked' \subseteq Requests
    BY <1>t, <2>2
  <2>4. ASSUME NEW said \in SUBSET Packets, Tells(said),
               \A p \in said : Truthful(p, seen \cup ({on'} \cap Nets)),
               on' \in Nets \cup {Ap}, joining' \in Nets \cup {None}
        PROVE  FileInv'
    BY <1>17, <1>18, <2>1, <2>3, <2>4
  <2>5. \A ok \in BOOLEAN, a \in Addresses : [cmd |-> "sta", ok |-> ok, at |-> a] \in Packets
    BY DEF Packets
  <2>6. ASSUME UNCHANGED <<on, joining>>, Tells(Configs) PROVE FileInv'
    <3>1. \A ok \in BOOLEAN, state \in {"up", "down"}, a \in Addresses :
             [cmd |-> "config", ok |-> ok, state |-> state, at |-> a] \in Packets
      BY DEF Packets
    <3>2. on \in Addresses /\ None \in Addresses
      BY <1>t DEF Addresses
    <3>3. \A p \in Configs : p \in Packets /\ p.at \in {None, on}
      BY <3>1, <3>2 DEF Configs
    <3>4. \A p \in Configs : Truthful(p, seen \cup ({on'} \cap Nets))
      BY <2>6, <3>3 DEF Truthful
    <3>5. Configs \in SUBSET Packets
      BY <3>3
    <3> QED
      BY <1>t, <2>4, <2>6, <3>4, <3>5
  <2>7. ASSUME UNCHANGED <<on, joining>>, NEW said \in {{[cmd |-> "list"]}, [cmd : {"error", "other"}]},
               Tells(said)
        PROVE  FileInv'
    <3>0. \A cmd \in {"list", "error", "other"} :
             [cmd |-> cmd] \in Packets /\ ~Speaks([cmd |-> cmd])
      BY DEF Packets, Speaks
    <3>01. \A p \in said : \E cmd \in {"list", "error", "other"} : p = [cmd |-> cmd]
      <4>1. \A p \in [cmd : {"error", "other"}] : p = [cmd |-> p.cmd] /\ p.cmd \in {"error", "other"}
        OBVIOUS
      <4>2. CASE said = {[cmd |-> "list"]}
        BY <4>2
      <4>3. CASE said = [cmd : {"error", "other"}]
        BY <4>1, <4>3
      <4> QED
        BY <2>7, <4>2, <4>3
    <3>1. \A p \in said : p \in Packets /\ ~Speaks(p)
      BY <3>0, <3>01
    <3>2. \A p \in said : Truthful(p, seen \cup ({on'} \cap Nets))
      BY <3>1 DEF Truthful
    <3> QED
      BY <1>t, <2>4, <2>7, <3>1, <3>2
  <2>8. ASSUME NEW n \in Nets, DoSta(n) PROVE FileInv'
    <3>1. ASSUME NEW said, \A p \in said : \E ok \in BOOLEAN, a \in {None, on'} :
                                              p = [cmd |-> "sta", ok |-> ok, at |-> a],
                 Tells(said), on' \in Nets \cup {Ap}, joining' \in Nets \cup {None}
          PROVE  FileInv'
      <4>1. on' \in Addresses /\ None \in Addresses
        BY <3>1 DEF Addresses
      <4>2. \A p \in said : p \in Packets /\ p.at \in {None, on'}
        BY <2>5, <3>1, <4>1
      <4>3. \A p \in said : Truthful(p, seen \cup ({on'} \cap Nets))
        BY <4>2 DEF Truthful
      <4> QED
        BY <2>4, <3>1, <4>2, <4>3
    <3>2. CASE /\ joining' = n /\ UNCHANGED on
               /\ Tells({[cmd |-> "sta", ok |-> TRUE, at |-> a] : a \in {None, on}})
      BY <1>t, <3>1, <3>2
    <3>3. CASE /\ joining' = None /\ on' = n
               /\ Tells({[cmd |-> "sta", ok |-> TRUE, at |-> n]})
      BY <1>t, <3>1, <3>3
    <3>4. CASE /\ joining' = None /\ on' \in {Ap, on}
               /\ Tells({[cmd |-> "sta", ok |-> ok, at |-> on'] : ok \in BOOLEAN})
      BY <1>t, <3>1, <3>4
    <3> QED
      BY <2>8, <3>2, <3>3, <3>4 DEF DoSta
  <2>9. q.cmd = "sta" => q.net \in Nets
    BY <2>3 DEF Requests
  <2> QED
    BY <2>2, <2>6, <2>7, <2>8, <2>9
<1>20. CASE Joins
  <2>1. /\ on' \in Nets \cup {Ap} /\ joining' = None /\ asked' = asked /\ UNCHANGED wire
        /\ UNCHANGED <<fileVars, pc, jobVars, link>>
        /\ seen' = IF link = None THEN {} ELSE seen \cup ({on'} \cap Nets)
    BY <1>t, <1>20 DEF Joins
  <2> QED
    BY <1>t, <1>17, <2>1
<1> QED
  BY <1>1, <1>3, <1>5, <1>6, <1>7, <1>8, <1>9, <1>10, <1>13, <1>15, <1>16, <1>19, <1>20
     DEF Next, Step, JobStep, All

\* An address in the file comes with the password of the network it was obtained
\* for, whichever of the jobs and the window wrote it last (workflow.py:54-70,
\* state.py:85, app.py:883).
THEOREM PasswordKept == Spec => []Inv
<1>1. FileInv => Inv
  BY DEF FileInv, Inv, CopiesInv, HasPassword, AddressHasPassword
<1> QED
  BY FileInvInit, FileInvKept, <1>1, PTL DEF Spec

\* Only taking a packet gives a job an address.
LEMMA AddressStep ==
    FileInv /\ [Next]_vars =>
        \A j \in Jobs : ip[j] = None /\ ip'[j] # None =>
            /\ ip'[j] = net[j] \/ pc[j] = "sta"
            /\ ip'[j] \in seen
<1> SUFFICES ASSUME FileInv, [Next]_vars, NEW j \in Jobs, ip[j] = None, ip'[j] # None
             PROVE  (ip'[j] = net[j] \/ pc[j] = "sta") /\ ip'[j] \in seen
  OBVIOUS
<1> USE ProvisioningAssumption DEF ProvisioningAssumption
<1>1. /\ ip \in [Jobs -> Nets \cup {None}] /\ net \in [Jobs -> Nets \cup {None}]
      /\ wire \in Seq(Packets) /\ SeenInv /\ NetInv /\ LinkInv /\ ScanInv
      /\ link \in All \cup {None} /\ None \notin All
  BY DEF FileInv, TypeOK, All
<1>2. ~ UNCHANGED ip
  OBVIOUS
<1>3. ASSUME NEW i \in Jobs, Ends(i) PROVE FALSE
  BY <1>1, <1>3 DEF Ends
<1>4. PICK i \in All : Take(i)
  BY <1>2, <1>3 DEF Next, Step, JobStep, vars, jobVars, Provision, Scan, Connect, ConnectFails, GiveUp,
     Fails, Load, Save, RecordError, GuiWrites, Refresh, Does, Joins, All
<1>5. PICK m \in Packets : m = Head(wire) /\ m = wire[1] /\ 1 \in 1..Len(wire)
  BY <1>1, <1>4, RestOfWire DEF Take
<1>6. \/ m.cmd = "config" /\ pc[i] = "config" /\ TakeConfig(i, m)
      \/ m.cmd = "config" /\ pc[i] = "sta" /\ TakeFollowUp(i, m)
      \/ m.cmd = "sta" /\ m.cmd \in Expected(i) /\ TakeSta(i, m)
  BY <1>2, <1>4, <1>5 DEF Take, Wait, Fails
<1>7. /\ i \in All /\ link = i /\ Talking(pc[i])
      /\ \/ pc[i] = "sta" \/ m.at = net[i]
      /\ Obtains(i, m.at) /\ Usable(m.at) /\ Speaks(m)
  <2>1. m.cmd = "sta" /\ m.cmd \in Expected(i) => pc[i] = "sta"
    <3>1. pc[i] = "config" => Expected(i) = {"error", "config"}
      BY DEF Expected
    <3>2. pc[i] = "list" => Expected(i) = {"error", "list"}
      BY DEF Expected
    <3> QED
      BY <1>4, <3>1, <3>2 DEF Take, Talking
  <2>2. i \in Jobs /\ pc[i] = "config" => net[i] \in Nets
    BY <1>1 DEF NetInv
  <2>3. link = i /\ Talking(pc[i])
    BY <1>4 DEF Take
  <2>4. CASE m.cmd = "config" /\ pc[i] = "config" /\ TakeConfig(i, m)
    BY <1>2, <2>2, <2>3, <2>4 DEF TakeConfig, Continue, Fails, Joined, Speaks
  <2>5. CASE m.cmd = "config" /\ pc[i] = "sta" /\ TakeFollowUp(i, m)
    BY <1>2, <2>3, <2>5 DEF TakeFollowUp, Wait, Fails, Joined, Speaks
  <2>6. CASE m.cmd = "sta" /\ m.cmd \in Expected(i) /\ TakeSta(i, m)
    BY <1>2, <2>1, <2>3, <2>6 DEF TakeSta, Continue, Fails, Speaks
  <2> QED
    BY <1>6, <2>4, <2>5, <2>6
<1>8. ip' = [ip EXCEPT ![i] = m.at]
  BY <1>7 DEF Obtains
<1>9. i = j /\ ip'[j] = m.at
  BY <1>1, <1>8
<1>10. m.at \in Nets
  BY <1>7, PacketFields DEF Addresses, Usable
<1>11. m.at \in seen
  BY <1>1, <1>5, <1>7, <1>10 DEF SeenInv, Truthful
<1> QED
  BY <1>7, <1>9, <1>11

\* A job obtains the address of the network it asked for, or the device has been
\* asked to join it and was on the other since this connection was made: never is
\* it the answer to another job, nor the device's own network
\* (ble_provisioner.py:291-351).
THEOREM AddressIsOwn == Spec => OwnNetwork
<1> QED
  BY FileInvInit, FileInvKept, AddressStep, PTL DEF Spec, OwnNetwork
=============================================================================
