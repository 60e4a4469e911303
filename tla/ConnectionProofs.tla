-------------------------- MODULE ConnectionProofs --------------------------
(***************************************************************************)
(* Theorems about Connection, for any requests, devices and bounds.         *)
(***************************************************************************)
EXTENDS Connection, TLAPS

\* The types hold at the start.
LEMMA InitTypeOK == Init => TypeOK
  <1> SUFFICES ASSUME Init PROVE TypeOK
    OBVIOUS
  <1> USE ConnectionAssumption DEF ConnectionAssumption, Init, Places, Locks, Fates
  <1>1. /\ refs \in [Devices -> Nat]
        /\ holder \in [Locks -> Calls \cup {None}]
    OBVIOUS
  <1>2. /\ sessLock \in Calls \cup {None}
        /\ masterLock \in Calls \cup {None}
        /\ cmdLock \in Locks \cup {0}
        /\ made \in Locks \cup {0}
    OBVIOUS
  <1>3. flag \in BOOLEAN
    OBVIOUS
  <1>4. cmdLock = 0 => made < MaxLocks
    OBVIOUS
  <1>5. /\ conn \in 0..MaxConns
        /\ opened \in 0..MaxConns
        /\ wsLock \in Calls \cup {None}
        /\ sockets \in [1..MaxConns -> Fates]
        /\ granted \in BOOLEAN /\ unsure \in BOOLEAN
        /\ via \in [Calls -> 0..MaxConns]
    BY 0 \in 0..MaxConns
  <1>6. /\ pc \in [Calls -> Places]
        /\ cmd \in [Calls -> {"none", "state", "clock", "own"}]
        /\ lockOf \in [Calls -> Locks \cup {0}]
    OBVIOUS
  <1> QED BY <1>1, <1>2, <1>3, <1>4, <1>5, <1>6 DEF TypeOK

\* A socket that opens, fails to open or is open already keeps its bounds.
LEMMA OpenType ==
    ASSUME TypeOK, Opens \/ OpenFails \/ AlreadyOpen
    PROVE  /\ conn' \in 0..MaxConns /\ opened' \in 0..MaxConns
           /\ sockets' \in [1..MaxConns -> Fates]
  <1> USE ConnectionAssumption DEF ConnectionAssumption, TypeOK
  <1>1. CASE Opens
    BY <1>1 DEF Opens, Fates
  <1>2. CASE OpenFails \/ AlreadyOpen
    BY <1>2 DEF OpenFails, AlreadyOpen
  <1> QED BY <1>1, <1>2

\* So does a socket that close() lets go of.
LEMMA ClosedType ==
    ASSUME TypeOK, Closed
    PROVE  /\ conn' \in 0..MaxConns /\ opened' \in 0..MaxConns
           /\ sockets' \in [1..MaxConns -> Fates]
           /\ wsLock' \in Calls \cup {None}
           /\ via' \in [Calls -> 0..MaxConns]
  <1>1. 0 \in 0..MaxConns
    BY ConnectionAssumption DEF ConnectionAssumption
  <1>2. sockets' \in [1..MaxConns -> Fates]
    BY DEF Closed, TypeOK, Fates
  <1> QED BY <1>1, <1>2 DEF Closed, TypeOK

\* To wait for a command lock, a new one or the current one, keeps the types.
LEMMA EnterType ==
    ASSUME TypeOK, NEW c \in Calls, NEW k \in {"state", "clock", "own"}, Enter(c, k)
    PROVE  /\ cmdLock' \in Locks \cup {0}
           /\ made' \in Locks \cup {0}
           /\ cmdLock' = 0 => made' < MaxLocks
           /\ holder' \in [Locks -> Calls \cup {None}]
           /\ pc' \in [Calls -> Places]
           /\ cmd' \in [Calls -> {"none", "state", "clock", "own"}]
           /\ lockOf' \in [Calls -> Locks \cup {0}]
           /\ via' \in [Calls -> 0..MaxConns]
  <1> DEFINE l == IF cmdLock = 0 THEN made + 1 ELSE cmdLock
  <1> USE ConnectionAssumption DEF ConnectionAssumption, TypeOK
  <1>1. l \in Locks /\ cmdLock' = l
    BY DEF Enter, Locks
  <1>2. made' \in Locks \cup {0} /\ cmdLock' # 0
    BY <1>1 DEF Enter, Locks
  <1>3. /\ lockOf' = [lockOf EXCEPT ![c] = l]
        /\ cmd' = [cmd EXCEPT ![c] = k]
    BY DEF Enter
  <1>4. CASE holder[l] # None
    <2>1. GoTo(c, "queue") /\ Awaits(c, 0) /\ UNCHANGED holder
      BY <1>4 DEF Enter
    <2> QED BY <1>1, <1>2, <1>3, <2>1 DEF GoTo, Places, Awaits
  <1>5. CASE holder[l] = None
    <2>1. holder' = [holder EXCEPT ![l] = c] /\ Send(c)
      BY <1>5 DEF Enter
    <2> QED BY <1>1, <1>2, <1>3, <2>1 DEF Send, GoTo, Places, Awaits
  <1> QED BY <1>4, <1>5

\* The end of a command keeps the types.
LEMMA CommandOverType ==
    ASSUME TypeOK, NEW c \in Calls, NEW ok \in BOOLEAN, CommandOver(c, ok)
    PROVE  /\ holder' \in [Locks -> Calls \cup {None}]
           /\ pc' \in [Calls -> Places]
           /\ masterLock' \in Calls \cup {None}
           /\ cmd' \in [Calls -> {"none", "state", "clock", "own"}]
           /\ lockOf' \in [Calls -> Locks \cup {0}]
  <1>1. \E place \in {"clock", "done", "failed", "ensured"} : GoTo(c, place)
    BY DEF CommandOver
  <1> QED BY <1>1 DEF CommandOver, TypeOK, GoTo, Places

\* Every action keeps the types.
LEMMA NextTypeOK == TypeOK /\ [Next]_vars => TypeOK'
  <1> SUFFICES ASSUME TypeOK, [Next]_vars PROVE TypeOK'
    OBVIOUS
  <1> USE ConnectionAssumption DEF ConnectionAssumption, TypeOK, Kinds, Places, Locks,
        Fates, GoTo, vars, lockVars, cmdVars, socketVars, control, Awaits
  <1>1. ASSUME NEW c \in Calls, Call(c) PROVE TypeOK'
    BY <1>1 DEF Call, MayCall
  <1>2. ASSUME NEW c \in Calls, OperateBegin(c) PROVE TypeOK'
    BY <1>2 DEF OperateBegin, MayCall
  <1>3. ASSUME NEW c \in Calls, TakeCommandLock(c) PROVE TypeOK'
    BY <1>3 DEF TakeCommandLock, Send
  <1>4. ASSUME NEW c \in Calls, Reconnect(c) PROVE TypeOK'
    <2>1. conn' \in 0..MaxConns /\ opened' \in 0..MaxConns /\ sockets' \in [1..MaxConns -> Fates]
      BY <1>4, OpenType DEF Reconnect
    <2>2. CASE GoTo(c, "sent") /\ via' = [via EXCEPT ![c] = conn'] /\ UNCHANGED <<lockVars, cmdVars, control>>
      BY <1>4, <2>1, <2>2 DEF Reconnect
    <2>3. CASE CommandOver(c, FALSE) /\ UNCHANGED via
      BY <1>4, <2>1, <2>3, CommandOverType DEF Reconnect, CommandOver
    <2> QED BY <1>4, <2>2, <2>3 DEF Reconnect
  <1>5. ASSUME NEW c \in Calls, Answered(c) PROVE TypeOK'
    BY <1>5, CommandOverType, 0 \in 0..MaxConns DEF Answered, CommandOver
  <1>6. ASSUME NEW c \in Calls, Fails(c) PROVE TypeOK'
    BY <1>6, CommandOverType, 0 \in 0..MaxConns DEF Fails, CommandOver
  <1>7. ASSUME NEW c \in Calls, Expires(c) PROVE TypeOK'
    BY <1>7 DEF Expires
  <1>8. ASSUME NEW c \in Calls, ExpiredCloses(c) PROVE TypeOK'
    BY <1>8 DEF ExpiredCloses
  <1>9. ASSUME NEW c \in Calls, ExpiredClosed(c) PROVE TypeOK'
    <2>1. CommandOver(c, FALSE) /\ Closed
      BY <1>9 DEF ExpiredClosed
    <2> QED BY <2>1, ClosedType, CommandOverType DEF CommandOver, Closed
  <1>10. ASSUME NEW c \in Calls, AcquireBegin(c) PROVE TypeOK'
    BY <1>10 DEF AcquireBegin
  <1>11. ASSUME NEW c \in Calls, EnsureWs(c) PROVE TypeOK'
    BY <1>11 DEF EnsureWs
  <1>12. ASSUME NEW c \in Calls, Connected(c) PROVE TypeOK'
    BY <1>12, OpenType DEF Connected
  <1>13. ASSUME NEW c \in Calls, ConnectFails(c) PROVE TypeOK'
    BY <1>13 DEF ConnectFails, OpenFails, Dropped
  <1>14. ASSUME NEW c \in Calls, TakeMaster(c) PROVE TypeOK'
    BY <1>14 DEF TakeMaster
  <1>15. ASSUME NEW c \in Calls, Granted(c) PROVE TypeOK'
    BY <1>15, EnterType DEF Granted
  <1>16. ASSUME NEW c \in Calls, NotGranted(c) PROVE TypeOK'
    <2>1. granted' \in BOOLEAN /\ unsure' \in BOOLEAN
      BY <1>16, Zenon DEF NotGranted, TypeOK
    <2>2. via' \in [Calls -> 0..MaxConns] /\ pc' \in [Calls -> Places]
      BY <1>16, 0 \in 0..MaxConns DEF NotGranted
    <2> QED BY <1>16, <2>1, <2>2 DEF NotGranted
  <1>17. ASSUME NEW c \in Calls, SetClock(c) PROVE TypeOK'
    BY <1>17, EnterType DEF SetClock
  <1>18. ASSUME NEW c \in Calls, Acquired(c) PROVE TypeOK'
    BY <1>18 DEF Acquired
  <1>19. ASSUME NEW c \in Calls, Operate(c) PROVE TypeOK'
    BY <1>19, EnterType DEF Operate
  <1>20. ASSUME NEW c \in Calls, ReleaseBegin(c) PROVE TypeOK'
    <2>1. \A d \in Devices : Dropped(d) \in Nat
      BY DEF Dropped
    <2>2. refs' \in [Devices -> Nat]
      BY <1>20, <2>1 DEF ReleaseBegin
    <2>3. sessLock' \in Calls \cup {None}
      BY <1>20 DEF ReleaseBegin
    <2>4. pc' \in [Calls -> Places]
      <3>1. GoTo(c, "unlock") \/ GoTo(c, "done")
        BY <1>20 DEF ReleaseBegin
      <3> QED BY <3>1
    <2> QED BY <1>20, <2>2, <2>3, <2>4 DEF ReleaseBegin
  <1>21. ASSUME NEW c \in Calls, Unlock(c) PROVE TypeOK'
    BY <1>21 DEF Unlock
  <1>22. ASSUME NEW c \in Calls, Reopen(c) PROVE TypeOK'
    <2>1. conn' \in 0..MaxConns /\ opened' \in 0..MaxConns /\ sockets' \in [1..MaxConns -> Fates]
      BY <1>22, OpenType DEF Reopen
    <2>2. \/ GoTo(c, "unlocking") /\ via' = [via EXCEPT ![c] = conn'] /\ UNCHANGED <<flag, masterLock>>
          \/ flag' = FALSE /\ masterLock' = None /\ GoTo(c, "teardown") /\ UNCHANGED via
      BY <1>22 DEF Reopen
    <2>3. pc' \in [Calls -> Places]
      BY <2>2
    <2>4. via' \in [Calls -> 0..MaxConns]
      BY <2>1, <2>2
    <2>5. flag' \in BOOLEAN /\ masterLock' \in Calls \cup {None}
      BY <2>2
    <2> QED BY <1>22, <2>1, <2>3, <2>4, <2>5 DEF Reopen
  <1>23. ASSUME NEW c \in Calls, Unlocked(c) PROVE TypeOK'
    <2>1. granted' \in BOOLEAN /\ unsure' \in BOOLEAN
      BY <1>23, Zenon DEF Unlocked, GivenBack, TypeOK
    <2>2. via' \in [Calls -> 0..MaxConns] /\ pc' \in [Calls -> Places]
      BY <1>23, 0 \in 0..MaxConns DEF Unlocked
    <2> QED BY <1>23, <2>1, <2>2 DEF Unlocked
  <1>24. ASSUME NEW c \in Calls, Teardown(c) PROVE TypeOK'
    BY <1>24 DEF Teardown
  <1>25. ASSUME NEW c \in Calls, Released(c) PROVE TypeOK'
    BY <1>25 DEF Released, Closed, Releasing
  <1>26. ASSUME NEW i \in 1..MaxConns, Drop(i) PROVE TypeOK'
    BY <1>26 DEF Drop
  <1>27. ASSUME NEW i \in 1..MaxConns, ReaderEnds(i) PROVE TypeOK'
    BY <1>27 DEF ReaderEnds
  <1>28. CASE UNCHANGED vars
    BY <1>28
  <1> QED
    BY <1>1, <1>2, <1>3, <1>4, <1>5, <1>6, <1>7, <1>8, <1>9, <1>10, <1>11, <1>12,
       <1>13, <1>14, <1>15, <1>16, <1>17, <1>18, <1>19, <1>20, <1>21, <1>22, <1>23,
       <1>24, <1>25, <1>26, <1>27, <1>28 DEF Next, Proceed, Command, Ensure, Release

\* The variables keep their types; a lock object is left to be created whenever
\* a timeout has forgotten the current one.
THEOREM ConnectionTypes == Spec => []TypeOK
  <1> QED BY InitTypeOK, NextTypeOK, PTL DEF Spec

(***************************************************************************)
(* The inductive invariant                                                 *)
(***************************************************************************)

Commanding(c) == pc[c] \in {"queue", "opening", "sent", "expired", "closing"}
Ensuring(c) == pc[c] \notin {"idle", "called", "done", "failed"}

\* Which places and commands a kind of request goes through.
KindInv ==
    \A c \in Calls :
        /\ KindOf[c] = "release" =>
              /\ cmd[c] = "none"
              /\ pc[c] \in {"idle", "called", "unlock", "reopening", "unlocking",
                            "teardown", "closing", "done"}
        /\ KindOf[c] # "release" =>
              /\ pc[c] \notin {"unlock", "reopening", "unlocking", "teardown"}
              /\ Commanding(c) => cmd[c] # "none"
        /\ KindOf[c] = "acquire" => cmd[c] # "own"

\* Who is asking for control, giving it up, or making what follows the grant,
\* holds the lock.
HoldsMaster(c) ==
    \/ pc[c] \in {"asking", "unlocking", "reopening", "clock"}
    \/ Commanding(c) /\ cmd[c] \in {"state", "clock"}
MasterInv == \A c \in Calls : HoldsMaster(c) => masterLock = c

\* The session lock is held throughout acquire and the teardown.
SessInv ==
    \A c \in Calls :
        /\ KindOf[c] = "acquire" /\ Ensuring(c) => sessLock = c
        /\ Releasing(c) => sessLock = c /\ \A d \in Devices : refs[d] = 0

\* A request that is past its beginning keeps its device acquired, because the
\* requests of a device are made one at a time.
RefInv ==
    /\ \A c, e \in Calls :
          InProgress(c) /\ InProgress(e) /\ DevOf[c] = DevOf[e] => c = e
    /\ \A c \in Calls : KindOf[c] # "release" /\ Ensuring(c) => refs[DevOf[c]] > 0

\* Nobody but a release in progress leaves a socket or control behind when no
\* device is acquired; the second and third part keep the first through the end
\* of a release and through an acquire that fails.
OnlyRef(c) == \A d \in Devices : refs[d] = IF d = DevOf[c] THEN 1 ELSE 0
FreeInv ==
    /\ (\A d \in Devices : refs[d] = 0) /\ (conn # 0 \/ flag)
          => \E c \in Calls : Releasing(c)
    /\ \A c \in Calls : KindOf[c] = "release" /\ pc[c] \in {"teardown", "closing"} => ~flag
    /\ \A c \in Calls :
          KindOf[c] = "acquire" /\ pc[c] \in {"ensure", "connecting"} /\ OnlyRef(c) => ~flag

\* Control that the device has given, and not in a failed exchange, the session
\* knows of, or is about to ask for again.
ControlInv ==
    granted /\ ~unsure /\ ~flag => \E c \in Calls : pc[c] \in {"master", "asking"}

\* Every action leaves a request where its kind may be.
LEMMA KindInvStep == TypeOK /\ KindInv /\ [Next]_vars => KindInv'
  <1> SUFFICES ASSUME TypeOK, KindInv, [Next]_vars PROVE KindInv'
    OBVIOUS
  <1> USE ConnectionAssumption DEF ConnectionAssumption, TypeOK, Kinds, Places, GoTo,
        vars, lockVars, cmdVars, socketVars, KindInv, Commanding, Releasing
  <1>1. ASSUME NEW c \in Calls, Call(c) PROVE KindInv'
    BY <1>1 DEF Call, MayCall
  <1>2. ASSUME NEW c \in Calls, OperateBegin(c) PROVE KindInv'
    BY <1>2 DEF OperateBegin, MayCall
  <1>3. ASSUME NEW c \in Calls, TakeCommandLock(c) PROVE KindInv'
    BY <1>3 DEF TakeCommandLock, Send
  <1>4. ASSUME NEW c \in Calls, Reconnect(c) PROVE KindInv'
    BY <1>4 DEF Reconnect, Opens, AlreadyOpen, OpenFails, CommandOver
  <1>5. ASSUME NEW c \in Calls, Answered(c) PROVE KindInv'
    BY <1>5 DEF Answered, CommandOver
  <1>6. ASSUME NEW c \in Calls, Fails(c) PROVE KindInv'
    BY <1>6 DEF Fails, CommandOver
  <1>7. ASSUME NEW c \in Calls, Expires(c) PROVE KindInv'
    BY <1>7 DEF Expires
  <1>8. ASSUME NEW c \in Calls, ExpiredCloses(c) PROVE KindInv'
    BY <1>8 DEF ExpiredCloses
  <1>9. ASSUME NEW c \in Calls, ExpiredClosed(c) PROVE KindInv'
    BY <1>9 DEF ExpiredClosed, Closed, CommandOver, Releasing
  <1>10. ASSUME NEW c \in Calls, AcquireBegin(c) PROVE KindInv'
    BY <1>10 DEF AcquireBegin
  <1>11. ASSUME NEW c \in Calls, EnsureWs(c) PROVE KindInv'
    BY <1>11 DEF EnsureWs
  <1>12. ASSUME NEW c \in Calls, Connected(c) PROVE KindInv'
    BY <1>12 DEF Connected, Opens, AlreadyOpen
  <1>13. ASSUME NEW c \in Calls, ConnectFails(c) PROVE KindInv'
    BY <1>13 DEF ConnectFails, OpenFails, Dropped
  <1>14. ASSUME NEW c \in Calls, TakeMaster(c) PROVE KindInv'
    BY <1>14 DEF TakeMaster
  <1>15. ASSUME NEW c \in Calls, Granted(c) PROVE KindInv'
    BY <1>15 DEF Granted, Enter, Send
  <1>16. ASSUME NEW c \in Calls, NotGranted(c) PROVE KindInv'
    BY <1>16 DEF NotGranted
  <1>17. ASSUME NEW c \in Calls, SetClock(c) PROVE KindInv'
    BY <1>17 DEF SetClock, Enter, Send
  <1>18. ASSUME NEW c \in Calls, Acquired(c) PROVE KindInv'
    BY <1>18 DEF Acquired
  <1>19. ASSUME NEW c \in Calls, Operate(c) PROVE KindInv'
    BY <1>19 DEF Operate, Enter, Send
  <1>20. ASSUME NEW c \in Calls, ReleaseBegin(c) PROVE KindInv'
    BY <1>20 DEF ReleaseBegin, Dropped
  <1>21. ASSUME NEW c \in Calls, Unlock(c) PROVE KindInv'
    BY <1>21 DEF Unlock
  <1>22. ASSUME NEW c \in Calls, Reopen(c) PROVE KindInv'
    BY <1>22 DEF Reopen, Opens, AlreadyOpen, OpenFails
  <1>23. ASSUME NEW c \in Calls, Unlocked(c) PROVE KindInv'
    BY <1>23 DEF Unlocked, GivenBack
  <1>24. ASSUME NEW c \in Calls, Teardown(c) PROVE KindInv'
    BY <1>24 DEF Teardown
  <1>25. ASSUME NEW c \in Calls, Released(c) PROVE KindInv'
    BY <1>25 DEF Released, Closed, Releasing
  <1>26. ASSUME NEW i \in 1..MaxConns, Drop(i) PROVE KindInv'
    BY <1>26 DEF Drop
  <1>27. ASSUME NEW i \in 1..MaxConns, ReaderEnds(i) PROVE KindInv'
    BY <1>27 DEF ReaderEnds
  <1>28. CASE UNCHANGED vars
    BY <1>28 DEF control
  <1> QED
    BY <1>1, <1>2, <1>3, <1>4, <1>5, <1>6, <1>7, <1>8, <1>9, <1>10, <1>11, <1>12,
       <1>13, <1>14, <1>15, <1>16, <1>17, <1>18, <1>19, <1>20, <1>21, <1>22, <1>23,
       <1>24, <1>25, <1>26, <1>27, <1>28 DEF Next, Proceed, Command, Ensure, Release

\* The lock is taken before the question and dropped after the last command
\* that follows the grant.
LEMMA MasterInvStep == TypeOK /\ KindInv /\ MasterInv /\ [Next]_vars => MasterInv'
  <1> SUFFICES ASSUME TypeOK, KindInv, MasterInv, [Next]_vars PROVE MasterInv'
    OBVIOUS
  <1> USE ConnectionAssumption DEF ConnectionAssumption, TypeOK, Kinds, Places, GoTo,
        vars, lockVars, cmdVars, socketVars, KindInv, MasterInv, HoldsMaster,
        Commanding, Releasing
  <1>1. ASSUME NEW c \in Calls, Call(c) PROVE MasterInv'
    BY <1>1 DEF Call, MayCall
  <1>2. ASSUME NEW c \in Calls, OperateBegin(c) PROVE MasterInv'
    BY <1>2 DEF OperateBegin, MayCall
  <1>3. ASSUME NEW c \in Calls, TakeCommandLock(c) PROVE MasterInv'
    BY <1>3 DEF TakeCommandLock, Send
  <1>4. ASSUME NEW c \in Calls, Reconnect(c) PROVE MasterInv'
    <2>1. CASE GoTo(c, "sent") /\ UNCHANGED <<lockVars, cmdVars>>
      BY <1>4, <2>1 DEF Reconnect
    <2>2. CASE CommandOver(c, FALSE)
      BY <1>4, <2>2 DEF Reconnect, CommandOver
    <2> QED BY <1>4, <2>1, <2>2 DEF Reconnect
  <1>5. ASSUME NEW c \in Calls, Answered(c) PROVE MasterInv'
    BY <1>5 DEF Answered, CommandOver
  <1>6. ASSUME NEW c \in Calls, Fails(c) PROVE MasterInv'
    BY <1>6 DEF Fails, CommandOver
  <1>7. ASSUME NEW c \in Calls, Expires(c) PROVE MasterInv'
    BY <1>7 DEF Expires
  <1>8. ASSUME NEW c \in Calls, ExpiredCloses(c) PROVE MasterInv'
    BY <1>8 DEF ExpiredCloses
  <1>9. ASSUME NEW c \in Calls, ExpiredClosed(c) PROVE MasterInv'
    BY <1>9 DEF ExpiredClosed, Closed, CommandOver, Releasing
  <1>10. ASSUME NEW c \in Calls, AcquireBegin(c) PROVE MasterInv'
    BY <1>10 DEF AcquireBegin
  <1>11. ASSUME NEW c \in Calls, EnsureWs(c) PROVE MasterInv'
    BY <1>11 DEF EnsureWs
  <1>12. ASSUME NEW c \in Calls, Connected(c) PROVE MasterInv'
    BY <1>12 DEF Connected, Opens, AlreadyOpen
  <1>13. ASSUME NEW c \in Calls, ConnectFails(c) PROVE MasterInv'
    BY <1>13 DEF ConnectFails, OpenFails, Dropped
  <1>14. ASSUME NEW c \in Calls, TakeMaster(c) PROVE MasterInv'
    BY <1>14 DEF TakeMaster
  <1>15. ASSUME NEW c \in Calls, Granted(c) PROVE MasterInv'
    BY <1>15 DEF Granted, Enter, Send
  <1>16. ASSUME NEW c \in Calls, NotGranted(c) PROVE MasterInv'
    BY <1>16 DEF NotGranted
  <1>17. ASSUME NEW c \in Calls, SetClock(c) PROVE MasterInv'
    BY <1>17 DEF SetClock, Enter, Send
  <1>18. ASSUME NEW c \in Calls, Acquired(c) PROVE MasterInv'
    BY <1>18 DEF Acquired
  <1>19. ASSUME NEW c \in Calls, Operate(c) PROVE MasterInv'
    BY <1>19 DEF Operate, Enter, Send
  <1>20. ASSUME NEW c \in Calls, ReleaseBegin(c) PROVE MasterInv'
    BY <1>20 DEF ReleaseBegin, Dropped
  <1>21. ASSUME NEW c \in Calls, Unlock(c) PROVE MasterInv'
    BY <1>21 DEF Unlock
  <1>22. ASSUME NEW c \in Calls, Reopen(c) PROVE MasterInv'
    BY <1>22 DEF Reopen, Opens, AlreadyOpen, OpenFails
  <1>23. ASSUME NEW c \in Calls, Unlocked(c) PROVE MasterInv'
    BY <1>23 DEF Unlocked, GivenBack
  <1>24. ASSUME NEW c \in Calls, Teardown(c) PROVE MasterInv'
    BY <1>24 DEF Teardown
  <1>25. ASSUME NEW c \in Calls, Released(c) PROVE MasterInv'
    BY <1>25 DEF Released, Closed, Releasing
  <1>26. ASSUME NEW i \in 1..MaxConns, Drop(i) PROVE MasterInv'
    BY <1>26 DEF Drop
  <1>27. ASSUME NEW i \in 1..MaxConns, ReaderEnds(i) PROVE MasterInv'
    BY <1>27 DEF ReaderEnds
  <1>28. CASE UNCHANGED vars
    BY <1>28 DEF control
  <1> QED
    BY <1>1, <1>2, <1>3, <1>4, <1>5, <1>6, <1>7, <1>8, <1>9, <1>10, <1>11, <1>12,
       <1>13, <1>14, <1>15, <1>16, <1>17, <1>18, <1>19, <1>20, <1>21, <1>22, <1>23,
       <1>24, <1>25, <1>26, <1>27, <1>28 DEF Next, Proceed, Command, Ensure, Release

\* Only its holder leaves the places where the session lock is held, and while a
\* release holds it no acquire counts a reference.
LEMMA SessInvStep == TypeOK /\ KindInv /\ SessInv /\ [Next]_vars => SessInv'
  <1> SUFFICES ASSUME TypeOK, KindInv, SessInv, [Next]_vars PROVE SessInv'
    OBVIOUS
  <1> USE ConnectionAssumption DEF ConnectionAssumption, TypeOK, Kinds, Places, GoTo,
        vars, lockVars, cmdVars, socketVars, KindInv, SessInv, Ensuring, Releasing
  <1>1. ASSUME NEW c \in Calls, Call(c) PROVE SessInv'
    BY <1>1 DEF Call, MayCall
  <1>2. ASSUME NEW c \in Calls, OperateBegin(c) PROVE SessInv'
    BY <1>2 DEF OperateBegin, MayCall
  <1>3. ASSUME NEW c \in Calls, TakeCommandLock(c) PROVE SessInv'
    BY <1>3 DEF TakeCommandLock, Send
  <1>4. ASSUME NEW c \in Calls, Reconnect(c) PROVE SessInv'
    BY <1>4 DEF Reconnect, Opens, AlreadyOpen, OpenFails, CommandOver
  <1>5. ASSUME NEW c \in Calls, Answered(c) PROVE SessInv'
    BY <1>5 DEF Answered, CommandOver
  <1>6. ASSUME NEW c \in Calls, Fails(c) PROVE SessInv'
    BY <1>6 DEF Fails, CommandOver
  <1>7. ASSUME NEW c \in Calls, Expires(c) PROVE SessInv'
    BY <1>7 DEF Expires
  <1>8. ASSUME NEW c \in Calls, ExpiredCloses(c) PROVE SessInv'
    BY <1>8 DEF ExpiredCloses
  <1>9. ASSUME NEW c \in Calls, ExpiredClosed(c) PROVE SessInv'
    BY <1>9 DEF ExpiredClosed, Closed, CommandOver, Releasing
  <1>10. ASSUME NEW c \in Calls, AcquireBegin(c) PROVE SessInv'
    BY <1>10 DEF AcquireBegin
  <1>11. ASSUME NEW c \in Calls, EnsureWs(c) PROVE SessInv'
    BY <1>11 DEF EnsureWs
  <1>12. ASSUME NEW c \in Calls, Connected(c) PROVE SessInv'
    BY <1>12 DEF Connected, Opens, AlreadyOpen
  <1>13. ASSUME NEW c \in Calls, ConnectFails(c) PROVE SessInv'
    BY <1>13 DEF ConnectFails, OpenFails, Dropped
  <1>14. ASSUME NEW c \in Calls, TakeMaster(c) PROVE SessInv'
    BY <1>14 DEF TakeMaster
  <1>15. ASSUME NEW c \in Calls, Granted(c) PROVE SessInv'
    BY <1>15 DEF Granted, Enter, Send
  <1>16. ASSUME NEW c \in Calls, NotGranted(c) PROVE SessInv'
    BY <1>16 DEF NotGranted
  <1>17. ASSUME NEW c \in Calls, SetClock(c) PROVE SessInv'
    BY <1>17 DEF SetClock, Enter, Send
  <1>18. ASSUME NEW c \in Calls, Acquired(c) PROVE SessInv'
    BY <1>18 DEF Acquired
  <1>19. ASSUME NEW c \in Calls, Operate(c) PROVE SessInv'
    BY <1>19 DEF Operate, Enter, Send
  <1>20. ASSUME NEW c \in Calls, ReleaseBegin(c) PROVE SessInv'
    BY <1>20 DEF ReleaseBegin, Dropped
  <1>21. ASSUME NEW c \in Calls, Unlock(c) PROVE SessInv'
    BY <1>21 DEF Unlock
  <1>22. ASSUME NEW c \in Calls, Reopen(c) PROVE SessInv'
    BY <1>22 DEF Reopen, Opens, AlreadyOpen, OpenFails
  <1>23. ASSUME NEW c \in Calls, Unlocked(c) PROVE SessInv'
    BY <1>23 DEF Unlocked, GivenBack
  <1>24. ASSUME NEW c \in Calls, Teardown(c) PROVE SessInv'
    BY <1>24 DEF Teardown
  <1>25. ASSUME NEW c \in Calls, Released(c) PROVE SessInv'
    BY <1>25 DEF Released, Closed, Releasing
  <1>26. ASSUME NEW i \in 1..MaxConns, Drop(i) PROVE SessInv'
    BY <1>26 DEF Drop
  <1>27. ASSUME NEW i \in 1..MaxConns, ReaderEnds(i) PROVE SessInv'
    BY <1>27 DEF ReaderEnds
  <1>28. CASE UNCHANGED vars
    BY <1>28 DEF control
  <1> QED
    BY <1>1, <1>2, <1>3, <1>4, <1>5, <1>6, <1>7, <1>8, <1>9, <1>10, <1>11, <1>12,
       <1>13, <1>14, <1>15, <1>16, <1>17, <1>18, <1>19, <1>20, <1>21, <1>22, <1>23,
       <1>24, <1>25, <1>26, <1>27, <1>28 DEF Next, Proceed, Command, Ensure, Release

\* A request of the same device can neither start nor take the reference away.
LEMMA RefInvStep == TypeOK /\ KindInv /\ SessInv /\ RefInv /\ [Next]_vars => RefInv'
  <1> SUFFICES ASSUME TypeOK, KindInv, SessInv, RefInv, [Next]_vars PROVE RefInv'
    OBVIOUS
  <1> USE ConnectionAssumption DEF ConnectionAssumption, TypeOK, Kinds, Places, GoTo,
        vars, lockVars, cmdVars, socketVars, KindInv, SessInv, RefInv, InProgress,
        Ensuring, Releasing
  <1>1. ASSUME NEW c \in Calls, Call(c) PROVE RefInv'
    BY <1>1 DEF Call, MayCall
  <1>2. ASSUME NEW c \in Calls, OperateBegin(c) PROVE RefInv'
    BY <1>2 DEF OperateBegin, MayCall
  <1>3. ASSUME NEW c \in Calls, TakeCommandLock(c) PROVE RefInv'
    BY <1>3 DEF TakeCommandLock, Send
  <1>4. ASSUME NEW c \in Calls, Reconnect(c) PROVE RefInv'
    <2>1. /\ pc[c] = "opening" /\ UNCHANGED <<sessLock, refs>>
          /\ \E place \in {"sent", "clock", "done", "failed", "ensured"} : GoTo(c, place)
      BY <1>4 DEF Reconnect, CommandOver
    <2> QED BY <2>1
  <1>5. ASSUME NEW c \in Calls, Answered(c) PROVE RefInv'
    BY <1>5 DEF Answered, CommandOver
  <1>6. ASSUME NEW c \in Calls, Fails(c) PROVE RefInv'
    BY <1>6 DEF Fails, CommandOver
  <1>7. ASSUME NEW c \in Calls, Expires(c) PROVE RefInv'
    BY <1>7 DEF Expires
  <1>8. ASSUME NEW c \in Calls, ExpiredCloses(c) PROVE RefInv'
    BY <1>8 DEF ExpiredCloses
  <1>9. ASSUME NEW c \in Calls, ExpiredClosed(c) PROVE RefInv'
    BY <1>9 DEF ExpiredClosed, Closed, CommandOver, Releasing
  <1>10. ASSUME NEW c \in Calls, AcquireBegin(c) PROVE RefInv'
    BY <1>10 DEF AcquireBegin
  <1>11. ASSUME NEW c \in Calls, EnsureWs(c) PROVE RefInv'
    BY <1>11 DEF EnsureWs
  <1>12. ASSUME NEW c \in Calls, Connected(c) PROVE RefInv'
    BY <1>12 DEF Connected, Opens, AlreadyOpen
  <1>13. ASSUME NEW c \in Calls, ConnectFails(c) PROVE RefInv'
    <2>1. /\ pc[c] = "connecting" /\ pc' = [pc EXCEPT ![c] = "failed"]
          /\ \A d \in Devices \ {DevOf[c]} : refs'[d] = refs[d]
      BY <1>13 DEF ConnectFails
    <2>2. \A e \in Calls : InProgress(e)' => InProgress(e)
      BY <2>1
    <2>3. ASSUME NEW e \in Calls, KindOf[e] # "release", Ensuring(e)'
          PROVE  refs'[DevOf[e]] > 0
      <3>1. e # c /\ Ensuring(e) /\ InProgress(e) /\ InProgress(c)
        BY <2>1, <2>3
      <3>2. DevOf[e] # DevOf[c] /\ DevOf[e] \in Devices
        BY <3>1
      <3> QED BY <2>1, <2>3, <3>1, <3>2
    <2> QED BY <2>2, <2>3
  <1>14. ASSUME NEW c \in Calls, TakeMaster(c) PROVE RefInv'
    <2>1. /\ pc[c] = "master" /\ UNCHANGED <<sessLock, refs>>
          /\ \E place \in {"ensured", "asking"} : GoTo(c, place)
      BY <1>14 DEF TakeMaster
    <2> QED BY <2>1
  <1>15. ASSUME NEW c \in Calls, Granted(c) PROVE RefInv'
    <2>1. \E place \in {"queue", "opening", "sent"} : GoTo(c, place)
      BY <1>15 DEF Granted, Enter, Send
    <2>2. pc[c] = "asking" /\ UNCHANGED <<sessLock, refs>>
      BY <1>15 DEF Granted
    <2> QED BY <2>1, <2>2
  <1>16. ASSUME NEW c \in Calls, NotGranted(c) PROVE RefInv'
    BY <1>16 DEF NotGranted
  <1>17. ASSUME NEW c \in Calls, SetClock(c) PROVE RefInv'
    <2>1. /\ pc[c] = "clock" /\ UNCHANGED <<sessLock, refs>>
          /\ \E place \in {"queue", "opening", "sent"} : GoTo(c, place)
      BY <1>17 DEF SetClock, Enter, Send
    <2> QED BY <2>1
  <1>18. ASSUME NEW c \in Calls, Acquired(c) PROVE RefInv'
    BY <1>18 DEF Acquired
  <1>19. ASSUME NEW c \in Calls, Operate(c) PROVE RefInv'
    BY <1>19 DEF Operate, Enter, Send
  <1>20. ASSUME NEW c \in Calls, ReleaseBegin(c) PROVE RefInv'
    <2>1. /\ KindOf[c] = "release" /\ pc[c] = "called"
          /\ \E place \in {"unlock", "done"} : GoTo(c, place)
          /\ \A d \in Devices \ {DevOf[c]} : refs'[d] = refs[d]
      BY <1>20 DEF ReleaseBegin
    <2>2. \A e \in Calls : InProgress(e)' => InProgress(e)
      BY <2>1
    <2>3. ASSUME NEW e \in Calls, KindOf[e] # "release", Ensuring(e)'
          PROVE  refs'[DevOf[e]] > 0
      <3>1. e # c /\ Ensuring(e) /\ InProgress(e) /\ InProgress(c)
        BY <2>1, <2>3
      <3>2. DevOf[e] # DevOf[c] /\ DevOf[e] \in Devices
        BY <3>1
      <3> QED BY <2>1, <2>3, <3>1, <3>2
    <2> QED BY <2>2, <2>3
  <1>21. ASSUME NEW c \in Calls, Unlock(c) PROVE RefInv'
    BY <1>21 DEF Unlock
  <1>22. ASSUME NEW c \in Calls, Reopen(c) PROVE RefInv'
    BY <1>22 DEF Reopen, Opens, AlreadyOpen, OpenFails
  <1>23. ASSUME NEW c \in Calls, Unlocked(c) PROVE RefInv'
    BY <1>23 DEF Unlocked, GivenBack
  <1>24. ASSUME NEW c \in Calls, Teardown(c) PROVE RefInv'
    BY <1>24 DEF Teardown
  <1>25. ASSUME NEW c \in Calls, Released(c) PROVE RefInv'
    BY <1>25 DEF Released, Closed, Releasing
  <1>26. ASSUME NEW i \in 1..MaxConns, Drop(i) PROVE RefInv'
    BY <1>26 DEF Drop
  <1>27. ASSUME NEW i \in 1..MaxConns, ReaderEnds(i) PROVE RefInv'
    BY <1>27 DEF ReaderEnds
  <1>28. CASE UNCHANGED vars
    BY <1>28 DEF control
  <1> QED
    BY <1>1, <1>2, <1>3, <1>4, <1>5, <1>6, <1>7, <1>8, <1>9, <1>10, <1>11, <1>12,
       <1>13, <1>14, <1>15, <1>16, <1>17, <1>18, <1>19, <1>20, <1>21, <1>22, <1>23,
       <1>24, <1>25, <1>26, <1>27, <1>28 DEF Next, Proceed, Command, Ensure, Release

\* With every count at zero only a release in progress changes the socket or the
\* flag; the last reference to go is that of a release, or of an acquire that
\* found no socket.
LEMMA FreeInvStep == TypeOK /\ KindInv /\ SessInv /\ RefInv /\ FreeInv /\ [Next]_vars =>
      FreeInv'
  <1> SUFFICES ASSUME TypeOK, KindInv, SessInv, RefInv, FreeInv, [Next]_vars PROVE
        FreeInv'
    OBVIOUS
  <1> USE ConnectionAssumption DEF ConnectionAssumption, TypeOK, Kinds, Places, GoTo,
        vars, lockVars, cmdVars, socketVars, KindInv, SessInv, RefInv, FreeInv, OnlyRef,
        InProgress, Ensuring, Releasing
  <1>1. ASSUME NEW c \in Calls, Call(c) PROVE FreeInv'
    BY <1>1 DEF Call, MayCall
  <1>2. ASSUME NEW c \in Calls, OperateBegin(c) PROVE FreeInv'
    BY <1>2 DEF OperateBegin, MayCall
  <1>3. ASSUME NEW c \in Calls, TakeCommandLock(c) PROVE FreeInv'
    BY <1>3 DEF TakeCommandLock, Send
  <1>4. ASSUME NEW c \in Calls, Reconnect(c) PROVE FreeInv'
    <2>1. /\ pc[c] = "opening" /\ UNCHANGED <<refs, flag>>
          /\ \E place \in {"sent", "clock", "done", "failed", "ensured"} : GoTo(c, place)
      BY <1>4 DEF Reconnect, CommandOver
    <2>2. KindOf[c] # "release" /\ refs[DevOf[c]] > 0
      BY <2>1
    <2> QED BY <2>1, <2>2
  <1>5. ASSUME NEW c \in Calls, Answered(c) PROVE FreeInv'
    BY <1>5 DEF Answered, CommandOver
  <1>6. ASSUME NEW c \in Calls, Fails(c) PROVE FreeInv'
    BY <1>6 DEF Fails, CommandOver
  <1>7. ASSUME NEW c \in Calls, Expires(c) PROVE FreeInv'
    BY <1>7 DEF Expires
  <1>8. ASSUME NEW c \in Calls, ExpiredCloses(c) PROVE FreeInv'
    BY <1>8 DEF ExpiredCloses
  <1>9. ASSUME NEW c \in Calls, ExpiredClosed(c) PROVE FreeInv'
    BY <1>9 DEF ExpiredClosed, Closed, CommandOver, Releasing
  <1>10. ASSUME NEW c \in Calls, AcquireBegin(c) PROVE FreeInv'
    <2>1. /\ KindOf[c] = "acquire" /\ pc[c] = "called" /\ GoTo(c, "ensure")
          /\ sessLock = None /\ flag' = flag
          /\ refs' = [refs EXCEPT ![DevOf[c]] = @ + 1]
      BY <1>10 DEF AcquireBegin
    <2>2. \A e \in Calls : ~Releasing(e)
      BY <2>1
    <2>3. refs'[DevOf[c]] > 0
      BY <2>1
    <2>4. \A e \in Calls : KindOf[e] = "release" => pc'[e] = pc[e]
      BY <2>1
    <2>5. ASSUME NEW e \in Calls, KindOf[e] = "acquire", pc'[e] \in {"ensure", "connecting"}, OnlyRef(e)'
          PROVE  ~flag
      <3>1. e = c
        BY <2>1, <2>5
      <3>2. \A d \in Devices : refs[d] = 0
        BY <2>1, <2>5, <3>1
      <3> QED BY <2>2, <3>2
    <2> QED BY <2>1, <2>3, <2>4, <2>5
  <1>11. ASSUME NEW c \in Calls, EnsureWs(c) PROVE FreeInv'
    BY <1>11 DEF EnsureWs
  <1>12. ASSUME NEW c \in Calls, Connected(c) PROVE FreeInv'
    <2>1. pc[c] = "connecting" /\ GoTo(c, "master") /\ ~flag' /\ refs' = refs
      BY <1>12 DEF Connected
    <2>2. refs[DevOf[c]] > 0
      BY <2>1
    <2> QED BY <2>1, <2>2
  <1>13. ASSUME NEW c \in Calls, ConnectFails(c) PROVE FreeInv'
    <2>1. /\ pc[c] = "connecting" /\ pc' = [pc EXCEPT ![c] = "failed"]
          /\ conn = 0 /\ conn' = 0 /\ flag' = flag
      BY <1>13 DEF ConnectFails, OpenFails
    <2>2. KindOf[c] # "release" /\ refs[DevOf[c]] > 0
      BY <2>1
    <2>3. CASE KindOf[c] = "acquire" /\ refs' = [refs EXCEPT ![DevOf[c]] = Dropped(DevOf[c])]
      <3>1. (\A d \in Devices : refs'[d] = 0) => OnlyRef(c)
        BY <2>2, <2>3 DEF Dropped
      <3>2. (\A d \in Devices : refs'[d] = 0) => ~flag
        BY <2>1, <2>3, <3>1
      <3>3. \A e \in Calls : KindOf[e] = "acquire" => pc'[e] \notin {"ensure", "connecting"}
        BY <2>1, <2>3
      <3> QED BY <2>1, <2>2, <3>2, <3>3
    <2>4. CASE KindOf[c] = "operate" /\ refs' = refs
      BY <2>1, <2>2, <2>4
    <2> QED BY <1>13, <2>3, <2>4 DEF ConnectFails
  <1>14. ASSUME NEW c \in Calls, TakeMaster(c) PROVE FreeInv'
    <2>1. /\ pc[c] = "master" /\ UNCHANGED <<flag, conn, refs>>
          /\ \E place \in {"ensured", "asking"} : GoTo(c, place)
      BY <1>14 DEF TakeMaster
    <2> QED BY <2>1
  <1>15. ASSUME NEW c \in Calls, Granted(c) PROVE FreeInv'
    <2>1. /\ pc[c] = "asking" /\ refs' = refs
          /\ \E place \in {"queue", "opening", "sent"} : GoTo(c, place)
      BY <1>15 DEF Granted, Enter, Send
    <2>2. KindOf[c] # "release" /\ refs[DevOf[c]] > 0
      BY <2>1
    <2>3. \A e \in Calls : ~Releasing(e)
      BY <2>2
    <2>4. \A e \in Calls : KindOf[e] = "release" => pc'[e] \notin {"teardown", "closing"}
      BY <2>1, <2>2, <2>3
    <2>5. ASSUME NEW e \in Calls, pc'[e] \in {"ensure", "connecting"}
          PROVE  ~OnlyRef(e)
      <3>1. e # c /\ pc[e] = pc'[e]
        BY <2>1, <2>5
      <3>2. DevOf[e] # DevOf[c]
        BY <2>1, <2>5, <3>1
      <3> QED BY <2>2, <3>2
    <2> QED BY <2>1, <2>2, <2>4, <2>5
  <1>16. ASSUME NEW c \in Calls, NotGranted(c) PROVE FreeInv'
    BY <1>16 DEF NotGranted
  <1>17. ASSUME NEW c \in Calls, SetClock(c) PROVE FreeInv'
    <2>1. /\ pc[c] = "clock" /\ UNCHANGED <<flag, conn, refs>>
          /\ \E place \in {"queue", "opening", "sent"} : GoTo(c, place)
      BY <1>17 DEF SetClock, Enter, Send
    <2> QED BY <2>1
  <1>18. ASSUME NEW c \in Calls, Acquired(c) PROVE FreeInv'
    BY <1>18 DEF Acquired
  <1>19. ASSUME NEW c \in Calls, Operate(c) PROVE FreeInv'
    BY <1>19 DEF Operate, Enter, Send
  <1>20. ASSUME NEW c \in Calls, ReleaseBegin(c) PROVE FreeInv'
    BY <1>20 DEF ReleaseBegin, Dropped
  <1>21. ASSUME NEW c \in Calls, Unlock(c) PROVE FreeInv'
    BY <1>21 DEF Unlock
  <1>22. ASSUME NEW c \in Calls, Reopen(c) PROVE FreeInv'
    BY <1>22 DEF Reopen, Opens, AlreadyOpen, OpenFails
  <1>23. ASSUME NEW c \in Calls, Unlocked(c) PROVE FreeInv'
    BY <1>23 DEF Unlocked, GivenBack
  <1>24. ASSUME NEW c \in Calls, Teardown(c) PROVE FreeInv'
    BY <1>24 DEF Teardown
  <1>25. ASSUME NEW c \in Calls, Released(c) PROVE FreeInv'
    BY <1>25 DEF Released, Closed, Releasing
  <1>26. ASSUME NEW i \in 1..MaxConns, Drop(i) PROVE FreeInv'
    BY <1>26 DEF Drop
  <1>27. ASSUME NEW i \in 1..MaxConns, ReaderEnds(i) PROVE FreeInv'
    BY <1>27 DEF ReaderEnds
  <1>28. CASE UNCHANGED vars
    BY <1>28 DEF control
  <1> QED
    BY <1>1, <1>2, <1>3, <1>4, <1>5, <1>6, <1>7, <1>8, <1>9, <1>10, <1>11, <1>12,
       <1>13, <1>14, <1>15, <1>16, <1>17, <1>18, <1>19, <1>20, <1>21, <1>22, <1>23,
       <1>24, <1>25, <1>26, <1>27, <1>28 DEF Next, Proceed, Command, Ensure, Release

\* Only a connection that is opened again clears the flag before control is asked
\* for, and then the same request asks.
LEMMA ControlInvStep == TypeOK /\ ControlInv /\ [Next]_vars => ControlInv'
  <1> SUFFICES ASSUME TypeOK, ControlInv, [Next]_vars PROVE ControlInv'
    OBVIOUS
  <1> USE ConnectionAssumption DEF ConnectionAssumption, TypeOK, Kinds, Places, GoTo,
        vars, lockVars, cmdVars, socketVars, control, ControlInv, Releasing
  <1>1. ASSUME NEW c \in Calls, Call(c) PROVE ControlInv'
    BY <1>1 DEF Call, MayCall
  <1>2. ASSUME NEW c \in Calls, OperateBegin(c) PROVE ControlInv'
    BY <1>2 DEF OperateBegin, MayCall
  <1>3. ASSUME NEW c \in Calls, TakeCommandLock(c) PROVE ControlInv'
    BY <1>3 DEF TakeCommandLock, Send
  <1>4. ASSUME NEW c \in Calls, Reconnect(c) PROVE ControlInv'
    BY <1>4 DEF Reconnect, Opens, AlreadyOpen, OpenFails, CommandOver
  <1>5. ASSUME NEW c \in Calls, Answered(c) PROVE ControlInv'
    BY <1>5 DEF Answered, CommandOver
  <1>6. ASSUME NEW c \in Calls, Fails(c) PROVE ControlInv'
    BY <1>6 DEF Fails, CommandOver
  <1>7. ASSUME NEW c \in Calls, Expires(c) PROVE ControlInv'
    BY <1>7 DEF Expires
  <1>8. ASSUME NEW c \in Calls, ExpiredCloses(c) PROVE ControlInv'
    BY <1>8 DEF ExpiredCloses
  <1>9. ASSUME NEW c \in Calls, ExpiredClosed(c) PROVE ControlInv'
    BY <1>9 DEF ExpiredClosed, Closed, CommandOver, Releasing
  <1>10. ASSUME NEW c \in Calls, AcquireBegin(c) PROVE ControlInv'
    BY <1>10 DEF AcquireBegin
  <1>11. ASSUME NEW c \in Calls, EnsureWs(c) PROVE ControlInv'
    BY <1>11 DEF EnsureWs
  <1>12. ASSUME NEW c \in Calls, Connected(c) PROVE ControlInv'
    BY <1>12 DEF Connected, Opens, AlreadyOpen
  <1>13. ASSUME NEW c \in Calls, ConnectFails(c) PROVE ControlInv'
    BY <1>13 DEF ConnectFails, OpenFails, Dropped
  <1>14. ASSUME NEW c \in Calls, TakeMaster(c) PROVE ControlInv'
    BY <1>14 DEF TakeMaster
  <1>15. ASSUME NEW c \in Calls, Granted(c) PROVE ControlInv'
    BY <1>15 DEF Granted, Enter, Send
  <1>16. ASSUME NEW c \in Calls, NotGranted(c) PROVE ControlInv'
    BY <1>16 DEF NotGranted
  <1>17. ASSUME NEW c \in Calls, SetClock(c) PROVE ControlInv'
    BY <1>17 DEF SetClock, Enter, Send
  <1>18. ASSUME NEW c \in Calls, Acquired(c) PROVE ControlInv'
    BY <1>18 DEF Acquired
  <1>19. ASSUME NEW c \in Calls, Operate(c) PROVE ControlInv'
    BY <1>19 DEF Operate, Enter, Send
  <1>20. ASSUME NEW c \in Calls, ReleaseBegin(c) PROVE ControlInv'
    BY <1>20 DEF ReleaseBegin, Dropped
  <1>21. ASSUME NEW c \in Calls, Unlock(c) PROVE ControlInv'
    BY <1>21 DEF Unlock
  <1>22. ASSUME NEW c \in Calls, Reopen(c) PROVE ControlInv'
    BY <1>22 DEF Reopen, Opens, AlreadyOpen, OpenFails
  <1>23. ASSUME NEW c \in Calls, Unlocked(c) PROVE ControlInv'
    BY <1>23 DEF Unlocked, GivenBack
  <1>24. ASSUME NEW c \in Calls, Teardown(c) PROVE ControlInv'
    BY <1>24 DEF Teardown
  <1>25. ASSUME NEW c \in Calls, Released(c) PROVE ControlInv'
    BY <1>25 DEF Released, Closed, Releasing
  <1>26. ASSUME NEW i \in 1..MaxConns, Drop(i) PROVE ControlInv'
    BY <1>26 DEF Drop
  <1>27. ASSUME NEW i \in 1..MaxConns, ReaderEnds(i) PROVE ControlInv'
    BY <1>27 DEF ReaderEnds
  <1>28. CASE UNCHANGED vars
    BY <1>28
  <1> QED
    BY <1>1, <1>2, <1>3, <1>4, <1>5, <1>6, <1>7, <1>8, <1>9, <1>10, <1>11, <1>12,
       <1>13, <1>14, <1>15, <1>16, <1>17, <1>18, <1>19, <1>20, <1>21, <1>22, <1>23,
       <1>24, <1>25, <1>26, <1>27, <1>28 DEF Next, Proceed, Command, Ensure, Release

(***************************************************************************)
(* The theorems                                                            *)
(***************************************************************************)

\* The strengthening: each part is kept by the parts before it.
IInv == TypeOK /\ KindInv /\ MasterInv /\ SessInv /\ RefInv /\ FreeInv /\ ControlInv

\* Nothing is in progress, open or held at the start.
LEMMA InitIInv == Init => IInv
  <1> SUFFICES ASSUME Init PROVE IInv
    OBVIOUS
  <1>1. \A c \in Calls : pc[c] = "idle" /\ cmd[c] = "none"
    BY DEF Init
  <1>2. KindInv /\ MasterInv /\ SessInv /\ RefInv
    BY <1>1 DEF KindInv, MasterInv, HoldsMaster, Commanding, SessInv, Ensuring,
          Releasing,
                RefInv, InProgress
  <1>3. FreeInv /\ ControlInv
    BY <1>1 DEF FreeInv, ControlInv, Init
  <1> QED BY <1>2, <1>3, InitTypeOK DEF IInv

\* The strengthened invariant holds of every behaviour.
LEMMA Invariance == Spec => []IInv
  <1>1. IInv /\ [Next]_vars => IInv'
    BY NextTypeOK, KindInvStep, MasterInvStep, SessInvStep, RefInvStep, FreeInvStep,
       ControlInvStep DEF IInv
  <1> QED BY InitIInv, <1>1, PTL DEF Spec

\* While the last release tears the connection down no device is acquired: it
\* holds the session lock, without which no reference is counted
\* (release, session.py:2449).
THEOREM TeardownUnreferenced == Spec => []NoTeardownUnderReference
  <1>1. IInv => NoTeardownUnderReference
    BY DEF IInv, SessInv, NoTeardownUnderReference
  <1> QED BY Invariance, <1>1, PTL

\* Two requests never have a master-lock command under way at once: who sends
\* one holds the master-lock lock (_ensure_master_lock, session.py:2126).
THEOREM MasterCommandUnique == Spec => []OneMasterCommand
  <1>1. IInv => OneMasterCommand
    BY DEF IInv, MasterInv, HoldsMaster, OneMasterCommand
  <1> QED BY Invariance, <1>1, PTL

\* When every request has ended and no device is acquired, the session has no
\* connection and does not take control to be held, and the device has it back or
\* the last exchange about it failed or could not be made (release, session.py:2458).
THEOREM ReleasedFree == Spec => []ReleasedIsFree
  <1>1. IInv => ReleasedIsFree
    BY DEF IInv, TypeOK, FreeInv, ControlInv, ReleasedIsFree, Releasing, InProgress
  <1> QED BY Invariance, <1>1, PTL
=============================================================================
