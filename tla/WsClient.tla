------------------------------ MODULE WsClient ------------------------------
(***************************************************************************)
(* The websocket client of the DWARF control plane, dwarf/ws_client.py.     *)
(*                                                                         *)
(* One DwarfWsClient object is shared by every coroutine of the session.    *)
(* The protocol carries no sequence number: an answer is correlated with    *)
(* the request that waits for it by its (module, command) tuple alone, or   *)
(* by an alias the request registered (a notification that may complete     *)
(* it).  asyncio is cooperative, so one action below is what runs between   *)
(* two suspension points (await) of one coroutine.                          *)
(*                                                                         *)
(* A member of Reqs is one call of send_request (or of begin_request, whose *)
(* future some monitor of the session awaits with a timeout in the same     *)
(* way).  A member of Conns is one websocket, numbered in opening order.    *)
(* Payloads, version fields and the ping frames themselves are left out.    *)
(***************************************************************************)
EXTENDS Integers

CONSTANTS
    Reqs,         \* the calls; each is made once
    Keys,         \* the (module, command) tuples, of requests and of aliases
    KeyOf,        \* the tuple a call is sent under
    AltsOf,       \* the aliases a call registers (expected_responses)
    Cancellable,  \* the calls whose task the session may cancel
    MaxConns,     \* bound: websockets opened in a behaviour
    None          \* the absence of a request, key or answer

Conns == 1..MaxConns
PacketTypes == {"response", "notification"}
Classes == Keys \cup {"primary"}
Answers == [key : Keys, type : PacketTypes, cls : Classes]

ASSUME ConstantsAssumption ==
    /\ KeyOf \in [Reqs -> Keys]
    /\ AltsOf \in [Reqs -> SUBSET Keys]
    /\ Cancellable \subseteq Reqs
    /\ MaxConns \in Nat
    /\ None \notin Reqs \cup Keys \cup Answers \cup {"close"}
    /\ "close" \notin Reqs
    /\ "primary" \notin Keys

VARIABLES
    lock,        \* self._lock: None, the request that holds it, or "close"
    conn,        \* self._conn: 0 for None
    sock,        \* what websockets knows of each connection
    reader,      \* the reader task started for each connection
    readerTask,  \* self._reader_task: 0 for None
    event,       \* self._connected_event
    pinging,     \* self._ping_task runs
    pending,     \* self._pending: the request registered under a key
    aliases,     \* self._pending_aliases: the key an alias leads to
    pc,          \* where each call is
    via,         \* the connection a call was sent on
    fut,         \* the future of each call
    answer,      \* the packet a future was completed with
    closer       \* where close() is

connVars  == <<lock, conn, sock, reader, readerTask, event, pinging>>
tableVars == <<pending, aliases, fut, answer>>
callVars  == <<pc, via>>
vars == <<connVars, tableVars, callVars, closer>>

Final == {"done", "failed", "cancelled"}

TypeOK ==
    /\ lock \in Reqs \cup {None, "close"}
    /\ conn \in 0..MaxConns
    /\ sock \in [Conns -> {"unused", "open", "closing", "closed"}]
    /\ reader \in [Conns -> {"none", "starting", "reading", "handling",
                             "cancelled", "ended", "crashed"}]
    /\ readerTask \in 0..MaxConns
    /\ event \in BOOLEAN
    /\ pinging \in BOOLEAN
    /\ pending \in [Keys -> Reqs \cup {None}]
    /\ aliases \in [Keys -> Keys \cup {None}]
    /\ pc \in [Reqs -> {"idle", "locking", "opening", "sending", "waiting",
                        "expired"} \cup Final]
    /\ via \in [Reqs -> 0..MaxConns]
    /\ fut \in [Reqs -> {"none", "pending", "result", "error", "cancelled"}]
    /\ answer \in [Reqs -> Answers \cup {None}]
    /\ closer \in {"idle", "ping", "reader", "socket"}

Init ==
    /\ lock = None
    /\ conn = 0
    /\ sock = [g \in Conns |-> "unused"]
    /\ reader = [g \in Conns |-> "none"]
    /\ readerTask = 0
    /\ event = FALSE
    /\ pinging = FALSE
    /\ pending = [k \in Keys |-> None]
    /\ aliases = [k \in Keys |-> None]
    /\ pc = [r \in Reqs |-> "idle"]
    /\ via = [r \in Reqs |-> 0]
    /\ fut = [r \in Reqs |-> "none"]
    /\ answer = [r \in Reqs |-> None]
    /\ closer = "idle"

(***************************************************************************)
(* The correlation table                                                   *)
(***************************************************************************)

\* The property `connected`: a connection is installed and its state is OPEN.
\* A socket that has received a close frame is CLOSING, hence not connected,
\* while its reader still waits for the transport to go away.
Connected == conn # 0 /\ sock[conn] = "open"

\* The aliases left when the entry of key k is popped: those the popped
\* request registered and that still lead to k go, an alias that a later
\* request took over stays.
AliasesWithout(al, k) ==
    [a \in Keys |-> IF /\ pending[k] # None
                       /\ a \in AltsOf[pending[k]]
                       /\ al[a] = k
                    THEN None ELSE al[a]]

\* _pop_pending_request: whatever is registered under k, whoever registered it.
PopPendingRequest(al, k) ==
    /\ pending' = [pending EXCEPT ![k] = None]
    /\ aliases' = AliasesWithout(al, k)

\* _flush_pending: every registered future that is not done fails.
Registered == {r \in Reqs : pending[KeyOf[r]] = r}
FlushPending ==
    /\ fut' = [r \in Reqs |-> IF r \in Registered /\ fut[r] = "pending"
                              THEN "error" ELSE fut[r]]
    /\ pending' = [k \in Keys |-> None]
    /\ aliases' = [k \in Keys |-> None]
    /\ UNCHANGED answer

(***************************************************************************)
(* begin_request and send_request                                          *)
(***************************************************************************)

\* The part of begin_request after connect(), up to the send: a key already
\* registered is refused, else the future and its aliases are registered.
\* connect() returns without suspending when the client is connected, so
\* this runs in the step that found or made the connection c.
Register(r, c) ==
    LET k == KeyOf[r] IN
    \/ /\ pending[k] # None
       /\ pc' = [pc EXCEPT ![r] = "failed"]
       /\ UNCHANGED <<tableVars, via>>
    \/ /\ pending[k] = None
       /\ pending' = [pending EXCEPT ![k] = r]
       /\ aliases' = [a \in Keys |-> IF a \in AltsOf[r] THEN k ELSE aliases[a]]
       /\ fut' = [fut EXCEPT ![r] = "pending"]
       /\ pc' = [pc EXCEPT ![r] = "sending"]
       /\ via' = [via EXCEPT ![r] = c]
       /\ UNCHANGED answer

\* A call arrives.  Not connected, it queues for the lock of connect().
Begin(r) ==
    /\ pc[r] = "idle"
    /\ \/ /\ Connected
          /\ Register(r, conn)
       \/ /\ ~Connected
          /\ pc' = [pc EXCEPT ![r] = "locking"]
          /\ UNCHANGED <<tableVars, via>>
    /\ UNCHANGED <<connVars, closer>>

\* connect() has the lock and looks again before it opens a socket.
TakeLock(r) ==
    /\ pc[r] = "locking"
    /\ lock = None
    /\ \/ /\ Connected
          /\ Register(r, conn)
          /\ UNCHANGED lock
       \/ /\ ~Connected
          /\ lock' = r
          /\ pc' = [pc EXCEPT ![r] = "opening"]
          /\ UNCHANGED <<tableVars, via>>
    /\ UNCHANGED <<conn, sock, reader, readerTask, event, pinging, closer>>

\* Mutant of OpenOk: a reader task is started only if none was ever started.
OpenOkOneReader(r) ==
    /\ pc[r] = "opening"
    /\ \E g \in Conns :
          /\ sock[g] = "unused"
          /\ \A h \in Conns : h < g => sock[h] # "unused" /\ reader[h] # "starting"
          /\ conn' = g
          /\ sock' = [sock EXCEPT ![g] = "open"]
          /\ IF readerTask = 0
             THEN reader' = [reader EXCEPT ![g] = "starting"] /\ readerTask' = g
             ELSE UNCHANGED <<reader, readerTask>>
          /\ Register(r, g)
    /\ event' = TRUE
    /\ pinging' = TRUE
    /\ lock' = None
    /\ UNCHANGED closer

\* The handshake succeeds: the connection is installed over whatever _conn
\* holds, a reader task is created (it runs later) and the lock is released.
OpenOk(r) ==
    /\ pc[r] = "opening"
    /\ \E g \in Conns :
          /\ sock[g] = "unused"
          /\ \A h \in Conns : h < g => sock[h] # "unused" /\ reader[h] # "starting"
          /\ conn' = g
          /\ sock' = [sock EXCEPT ![g] = "open"]
          /\ reader' = [reader EXCEPT ![g] = "starting"]
          /\ readerTask' = g
          /\ Register(r, g)
    /\ event' = TRUE
    /\ pinging' = TRUE
    /\ lock' = None
    /\ UNCHANGED closer

\* Mutant of OpenFail: the lock is kept.
OpenFailKeepsLock(r) ==
    /\ pc[r] = "opening"
    /\ pc' = [pc EXCEPT ![r] = "failed"]
    /\ UNCHANGED <<connVars, tableVars, via, closer>>

OpenFail(r) ==
    /\ pc[r] = "opening"
    /\ lock' = None
    /\ pc' = [pc EXCEPT ![r] = "failed"]
    /\ UNCHANGED <<conn, sock, reader, readerTask, event, pinging, tableVars,
                   via, closer>>

SendOk(r) ==
    /\ pc[r] = "sending"
    /\ sock[via[r]] = "open"
    /\ pc' = [pc EXCEPT ![r] = "waiting"]
    /\ UNCHANGED <<connVars, tableVars, via, closer>>

\* send raises: the entry is popped and the exception propagates.
SendFail(r) ==
    /\ pc[r] = "sending"
    /\ sock[via[r]] # "open"
    /\ PopPendingRequest(aliases, KeyOf[r])
    /\ pc' = [pc EXCEPT ![r] = "failed"]
    /\ UNCHANGED <<connVars, fut, answer, via, closer>>

Return(r) ==
    /\ pc[r] = "waiting"
    /\ fut[r] = "result"
    /\ pc' = [pc EXCEPT ![r] = "done"]
    /\ UNCHANGED <<connVars, tableVars, via, closer>>

\* wait_for gives up: the future is cancelled now, the coroutine resumes later.
Expire(r) ==
    /\ pc[r] = "waiting"
    /\ fut[r] = "pending"
    /\ fut' = [fut EXCEPT ![r] = "cancelled"]
    /\ pc' = [pc EXCEPT ![r] = "expired"]
    /\ UNCHANGED <<connVars, pending, aliases, answer, via, closer>>

\* Mutant of Raise: the entry stays registered.
RaiseKeepsEntry(r) ==
    /\ \/ pc[r] = "expired"
       \/ pc[r] = "waiting" /\ fut[r] = "error"
    /\ pc' = [pc EXCEPT ![r] = "failed"]
    /\ UNCHANGED <<connVars, tableVars, via, closer>>

\* The coroutine resumes with an Exception and pops its key, whichever
\* request is registered there by now.
Raise(r) ==
    /\ \/ pc[r] = "expired"
       \/ pc[r] = "waiting" /\ fut[r] = "error"
    /\ PopPendingRequest(aliases, KeyOf[r])
    /\ pc' = [pc EXCEPT ![r] = "failed"]
    /\ UNCHANGED <<connVars, fut, answer, via, closer>>

\* CancelledError is not an Exception: nothing is popped on its way out.
RaiseCancelled(r) ==
    /\ pc[r] = "waiting"
    /\ fut[r] = "cancelled"
    /\ pc' = [pc EXCEPT ![r] = "cancelled"]
    /\ UNCHANGED <<connVars, tableVars, via, closer>>

\* The session cancels the task that makes the call.  A task that awaits its
\* future cancels the future; one that awaits the socket leaves it registered.
CancelCaller(r) ==
    /\ r \in Cancellable
    /\ \/ /\ pc[r] = "waiting" /\ fut[r] = "pending"
          /\ fut' = [fut EXCEPT ![r] = "cancelled"]
          /\ UNCHANGED <<pc, lock>>
       \/ /\ pc[r] \in {"locking", "opening", "sending"}
          /\ pc' = [pc EXCEPT ![r] = "cancelled"]
          /\ lock' = IF lock = r THEN None ELSE lock
          /\ UNCHANGED fut
    /\ UNCHANGED <<conn, sock, reader, readerTask, event, pinging, pending,
                   aliases, answer, via, closer>>

\* cancel_pending(key, reason): the future fails with the reason, or is
\* cancelled when there is none.
CancelPending(k) ==
    /\ pending[k] # None
    /\ PopPendingRequest(aliases, k)
    /\ \E s \in {"error", "cancelled"} :
          fut' = [fut EXCEPT ![pending[k]] = IF @ = "pending" THEN s ELSE @]
    /\ UNCHANGED <<connVars, answer, callVars, closer>>

(***************************************************************************)
(* The sockets and their readers                                           *)
(***************************************************************************)

\* The peer starts to close a connection, or it is lost.
SocketClosing(g) ==
    /\ sock[g] = "open"
    /\ sock' = [sock EXCEPT ![g] = "closing"]
    /\ UNCHANGED <<lock, conn, reader, readerTask, event, pinging, tableVars,
                   callVars, closer>>

SocketClosed(g) ==
    /\ sock[g] \in {"open", "closing"}
    /\ sock' = [sock EXCEPT ![g] = "closed"]
    /\ UNCHANGED <<lock, conn, reader, readerTask, event, pinging, tableVars,
                   callVars, closer>>

\* The first step of _reader_loop asserts that _conn is set.  The finally
\* clause of an older reader may have reset it since the task was created.
ReaderStart(g) ==
    /\ reader[g] = "starting"
    /\ reader' = [reader EXCEPT ![g] = IF conn = 0 THEN "crashed" ELSE "reading"]
    /\ UNCHANGED <<lock, conn, sock, readerTask, event, pinging, tableVars,
                   callVars, closer>>

\* The finally clause: it resets the client's connection, not its own.
ReaderFinally(g) ==
    /\ reader' = [reader EXCEPT ![g] = "ended"]
    /\ event' = FALSE
    /\ conn' = 0
    /\ UNCHANGED <<lock, sock, readerTask, pinging, callVars, closer>>

\* The connection ended normally (nothing is flushed) or with an error.
ReaderEnds(g) ==
    /\ reader[g] = "reading"
    /\ sock[g] = "closed"
    /\ UNCHANGED tableVars \/ FlushPending
    /\ ReaderFinally(g)

\* close() cancelled the reader.
ReaderCancelled(g) ==
    /\ reader[g] = "cancelled"
    /\ ReaderFinally(g)
    /\ UNCHANGED tableVars

\* Mutant of Consumed: a primary key is consumed by any packet.
ConsumedByAny(key, type) ==
    IF aliases[key] # None THEN pending[aliases[key]] ELSE pending[key]

\* The request a packet completes: an alias leads to its owner whatever the
\* packet's type, a primary key is consumed by a response only.
Consumed(key, type) ==
    IF aliases[key] # None THEN pending[aliases[key]]
    ELSE IF type = "response" THEN pending[key] ELSE None

ResponseClass(r, key) ==
    IF aliases[key] # None /\ key \in AltsOf[r] THEN key ELSE "primary"

\* Mutant of Complete: a future that is done is completed again.
CompleteAgain(r, key, type) ==
    IF r # None
    THEN /\ fut' = [fut EXCEPT ![r] = "result"]
         /\ answer' = [answer EXCEPT ![r] =
                [key |-> key, type |-> type, cls |-> ResponseClass(r, key)]]
    ELSE UNCHANGED <<fut, answer>>

\* A future that is done is left alone; a payload that cannot be decoded
\* completes it with an exception.
Complete(r, key, type) ==
    IF r # None /\ fut[r] = "pending"
    THEN \/ /\ fut' = [fut EXCEPT ![r] = "result"]
            /\ answer' = [answer EXCEPT ![r] =
                   [key |-> key, type |-> type, cls |-> ResponseClass(r, key)]]
         \/ fut' = [fut EXCEPT ![r] = "error"] /\ UNCHANGED answer
    ELSE UNCHANGED <<fut, answer>>

\* _dispatch_packet, up to the handlers, which a notification then awaits.
Dispatch(g, key, type) ==
    /\ reader[g] = "reading"
    /\ Complete(Consumed(key, type), key, type)
    /\ IF aliases[key] # None
       THEN PopPendingRequest([aliases EXCEPT ![key] = None], aliases[key])
       ELSE IF type = "response"
       THEN PopPendingRequest(aliases, key)
       ELSE UNCHANGED <<pending, aliases>>
    /\ reader' = IF type = "notification"
                 THEN [reader EXCEPT ![g] = "handling"] ELSE reader
    /\ UNCHANGED <<lock, conn, sock, readerTask, event, pinging, callVars, closer>>

HandlersDone(g) ==
    /\ reader[g] = "handling"
    /\ reader' = [reader EXCEPT ![g] = "reading"]
    /\ UNCHANGED <<lock, conn, sock, readerTask, event, pinging, tableVars,
                   callVars, closer>>

(***************************************************************************)
(* close()                                                                 *)
(***************************************************************************)

\* It takes the lock and awaits the cancelled ping task.
CloseBegin ==
    /\ closer = "idle"
    /\ lock = None
    /\ lock' = "close"
    /\ closer' = "ping"
    /\ UNCHANGED <<conn, sock, reader, readerTask, event, pinging, tableVars,
                   callVars>>

\* Then the reader is cancelled and awaited.  One that has not run yet ends
\* without its finally clause; awaiting one that crashed raises out of close().
CloseReader ==
    /\ closer = "ping"
    /\ pinging' = FALSE
    /\ IF readerTask # 0 /\ reader[readerTask] = "crashed"
       THEN closer' = "idle" /\ lock' = None /\ UNCHANGED reader
       ELSE /\ closer' = "reader"
            /\ reader' = [g \in Conns |->
                   IF g # readerTask THEN reader[g]
                   ELSE IF reader[g] \in {"reading", "handling"} THEN "cancelled"
                   ELSE "ended"]
            /\ UNCHANGED lock
    /\ UNCHANGED <<conn, sock, readerTask, event, tableVars, callVars>>

\* The reader is gone.  _conn is closed only if it is still set.
CloseSocket ==
    /\ closer = "reader"
    /\ readerTask # 0 => reader[readerTask] = "ended"
    /\ readerTask' = 0
    /\ closer' = "socket"
    /\ sock' = [g \in Conns |-> IF g = conn THEN "closed" ELSE sock[g]]
    /\ UNCHANGED <<lock, conn, reader, event, pinging, tableVars, callVars>>

CloseEnd ==
    /\ closer = "socket"
    /\ conn' = 0
    /\ event' = FALSE
    /\ FlushPending
    /\ lock' = None
    /\ closer' = "idle"
    /\ UNCHANGED <<sock, reader, readerTask, pinging, callVars>>

-----------------------------------------------------------------------------
Call(r) ==
    \/ Begin(r) \/ TakeLock(r) \/ OpenOk(r) \/ OpenFail(r)
    \/ SendOk(r) \/ SendFail(r) \/ Return(r) \/ Expire(r)
    \/ Raise(r) \/ RaiseCancelled(r) \/ CancelCaller(r)

Reader(g) ==
    \/ SocketClosing(g) \/ SocketClosed(g)
    \/ ReaderStart(g) \/ ReaderEnds(g) \/ ReaderCancelled(g) \/ HandlersDone(g)
    \/ \E key \in Keys, type \in PacketTypes : Dispatch(g, key, type)

Close == CloseBegin \/ CloseReader \/ CloseSocket \/ CloseEnd

Next ==
    \/ \E r \in Reqs : Call(r)
    \/ \E k \in Keys : CancelPending(k)
    \/ \E g \in Conns : Reader(g)
    \/ Close

Spec == Init /\ [][Next]_vars

\* The event loop runs every coroutine that is ready; a handshake, a send and
\* a close terminate (websockets bounds them with its own timeouts) and a
\* timer fires.  The peer, the session's cancellations and the callers of
\* close() owe nothing.
Fairness ==
    /\ \A r \in Reqs :
          /\ SF_vars(TakeLock(r))
          /\ WF_vars(OpenOk(r) \/ OpenFail(r)) /\ WF_vars(SendOk(r) \/ SendFail(r))
          /\ WF_vars(Return(r) \/ Expire(r) \/ Raise(r) \/ RaiseCancelled(r))
    /\ \A g \in Conns : WF_vars(ReaderCancelled(g))
    /\ WF_vars(CloseReader \/ CloseSocket \/ CloseEnd)

FairSpec == Spec /\ Fairness

-----------------------------------------------------------------------------
(***************************************************************************)
(* Properties                                                              *)
(***************************************************************************)

\* An alias leads to a registered request that asked for it.  Requests of
\* different keys take aliases over from each other and are popped in any
\* order; a stale alias would complete a stranger (ws_client.py:72, :184, :322).
AliasIntegrity ==
    \A a \in Keys : aliases[a] # None =>
        /\ pending[aliases[a]] # None
        /\ a \in AltsOf[pending[aliases[a]]]

\* A request is completed by a response to its own key, decoded as its primary
\* class, or by one of its own aliases, decoded as that alias's class; never by
\* a notification that merely bears its key (ws_client.py:314).
CorrelatedResult ==
    \A r \in Reqs : answer[r] # None =>
        LET p == answer[r] IN
        \/ p.key = KeyOf[r] /\ p.type = "response" /\ p.cls = "primary"
        \/ p.key \in AltsOf[r] /\ p.cls = p.key

\* A call that returned or raised left nothing registered: its key is free for
\* the next call.  Only a cancelled task may leave an entry (ws_client.py:154).
NoLeakedEntry ==
    \A k \in Keys : pending[k] # None => pc[pending[k]] \notin {"done", "failed"}

\* The installed connection has a reader task that will read its answers, unless
\* close() is taking it down.  Readers of older connections may end at any
\* time and may reset the connection under the new one (ws_client.py:105, :310).
LiveConnectionHasReader ==
    conn # 0 =>
        \/ reader[conn] \in {"starting", "reading", "handling"}
        \/ closer # "idle"

\* A future is completed once: dispatch, timeout, cancellation, cancel_pending
\* and flush race for it and the first wins (ws_client.py:236, :332, :352).
FutureCompletesOnce ==
    [][\A r \in Reqs : fut[r] \in {"result", "error", "cancelled"} =>
           fut'[r] = fut[r] /\ answer'[r] = answer[r]]_vars

\* A socket is opened only while the client is not connected: of several calls
\* that found it disconnected, one opens the connection (ws_client.py:105).
OpensOnlyWhenDisconnected ==
    [][(\E g \in Conns : sock[g] = "unused" /\ sock'[g] = "open") => ~Connected]_vars

\* Every call that has been sent returns or raises, whatever the device,
\* close(), other calls and the readers do (ws_client.py:134).
SentCallReturns ==
    \A r \in Reqs : pc[r] \in {"locking", "sending"} ~> pc[r] \in Final
=============================================================================
