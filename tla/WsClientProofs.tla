-------------------------- MODULE WsClientProofs ----------------------------
(***************************************************************************)
(* What holds of WsClient for every set of calls, keys and aliases and any  *)
(* number of connections.  TypeOK is inductive by itself; the correlation   *)
(* table and the connection each have a strengthening of their own, which   *)
(* needs nothing of the other.                                             *)
(***************************************************************************)
EXTENDS WsClient, TLAPS

-----------------------------------------------------------------------------
(***************************************************************************)
(* Types                                                                   *)
(***************************************************************************)

\* The types hold before the first call.
LEMMA InitTypeOK == Init => TypeOK
  <1> SUFFICES ASSUME Init PROVE TypeOK
    OBVIOUS
  <1>1. /\ conn \in 0..MaxConns
        /\ readerTask \in 0..MaxConns
        /\ via \in [Reqs -> 0..MaxConns]
    BY ConstantsAssumption DEF ConstantsAssumption, Init
  <1>2. /\ lock \in Reqs \cup {None, "close"}
        /\ event \in BOOLEAN
        /\ pinging \in BOOLEAN
        /\ closer \in {"idle", "ping", "reader", "socket"}
    BY DEF Init
  <1>3. /\ sock \in [Conns -> {"unused", "open", "closing", "closed"}]
        /\ reader \in [Conns -> {"none", "starting", "reading", "handling",
                                 "cancelled", "ended", "crashed"}]
    BY DEF Init
  <1>4. /\ pending \in [Keys -> Reqs \cup {None}]
        /\ aliases \in [Keys -> Keys \cup {None}]
        /\ answer \in [Reqs -> Answers \cup {None}]
    BY DEF Init
  <1>5. /\ pc \in [Reqs -> {"idle", "locking", "opening", "sending", "waiting",
                            "expired"} \cup Final]
        /\ fut \in [Reqs -> {"none", "pending", "result", "error", "cancelled"}]
    BY DEF Init
  <1> QED BY <1>1, <1>2, <1>3, <1>4, <1>5 DEF TypeOK

\* The helpers keep the table's types.
LEMMA PopType ==
    ASSUME TypeOK, NEW k \in Keys, NEW al \in [Keys -> Keys \cup {None}],
           PopPendingRequest(al, k)
    PROVE  /\ pending' \in [Keys -> Reqs \cup {None}]
           /\ aliases' \in [Keys -> Keys \cup {None}]
  BY DEF TypeOK, PopPendingRequest, AliasesWithout

LEMMA FlushType ==
    ASSUME TypeOK, FlushPending
    PROVE  /\ pending' \in [Keys -> Reqs \cup {None}]
           /\ aliases' \in [Keys -> Keys \cup {None}]
           /\ fut' \in [Reqs -> {"none", "pending", "result", "error", "cancelled"}]
           /\ answer' \in [Reqs -> Answers \cup {None}]
  BY DEF TypeOK, FlushPending

LEMMA RegisterType ==
    ASSUME TypeOK, NEW r \in Reqs, NEW c \in 0..MaxConns, Register(r, c)
    PROVE  /\ pending' \in [Keys -> Reqs \cup {None}]
           /\ aliases' \in [Keys -> Keys \cup {None}]
           /\ fut' \in [Reqs -> {"none", "pending", "result", "error", "cancelled"}]
           /\ answer' \in [Reqs -> Answers \cup {None}]
           /\ pc' \in [Reqs -> {"idle", "locking", "opening", "sending", "waiting",
                                "expired"} \cup Final]
           /\ via' \in [Reqs -> 0..MaxConns]
  BY ConstantsAssumption DEF ConstantsAssumption, TypeOK, Register, tableVars, Final

LEMMA CompleteType ==
    ASSUME TypeOK, NEW key \in Keys, NEW type \in PacketTypes,
           Complete(Consumed(key, type), key, type)
    PROVE  /\ fut' \in [Reqs -> {"none", "pending", "result", "error", "cancelled"}]
           /\ answer' \in [Reqs -> Answers \cup {None}]
  <1>1. Consumed(key, type) \in Reqs \cup {None}
    BY DEF TypeOK, Consumed
  <1>2. ResponseClass(Consumed(key, type), key) \in Classes
    BY DEF ResponseClass, Classes
  <1>3. [key |-> key, type |-> type, cls |-> ResponseClass(Consumed(key, type), key)]
            \in Answers
    BY <1>2 DEF Answers
  <1> QED BY <1>1, <1>3 DEF TypeOK, Complete

\* Every step keeps the types.
LEMMA NextTypeOK == TypeOK /\ [Next]_vars => TypeOK'
  <1> SUFFICES ASSUME TypeOK, [Next]_vars PROVE TypeOK'
    OBVIOUS
  <1> USE DEF ConstantsAssumption, TypeOK, Conns, Final, vars, connVars, tableVars, callVars
  <1>0. 0 \in 0..MaxConns
    BY ConstantsAssumption
  <1>1. ASSUME NEW r \in Reqs, Begin(r) PROVE TypeOK'
    <2>1. CASE Connected
      <3>1. Register(r, conn) /\ UNCHANGED <<connVars, closer>>
        BY <1>1, <2>1 DEF Begin
      <3> QED BY <3>1, RegisterType
    <2>2. CASE ~Connected
      BY <1>1, <2>2 DEF Begin
    <2> QED BY <2>1, <2>2
  <1>2. ASSUME NEW r \in Reqs, TakeLock(r) PROVE TypeOK'
    <2>1. CASE Connected
      <3>1. Register(r, conn)
        BY <1>2, <2>1 DEF TakeLock
      <3> QED BY <1>2, <2>1, <3>1, RegisterType DEF TakeLock
    <2>2. CASE ~Connected
      BY <1>2, <2>2 DEF TakeLock
    <2> QED BY <2>1, <2>2
  <1>3. ASSUME NEW r \in Reqs, OpenOk(r) PROVE TypeOK'
    <2>1. PICK g \in Conns :
             /\ conn' = g
             /\ sock' = [sock EXCEPT ![g] = "open"]
             /\ reader' = [reader EXCEPT ![g] = "starting"]
             /\ readerTask' = g
             /\ Register(r, g)
      BY <1>3 DEF OpenOk
    <2>2. g \in 0..MaxConns
      BY ConstantsAssumption
    <2> QED BY <1>3, <2>1, <2>2, RegisterType DEF OpenOk
  <1>4. ASSUME NEW r \in Reqs, OpenFail(r) PROVE TypeOK'
    BY <1>4 DEF OpenFail
  <1>5. ASSUME NEW r \in Reqs, SendOk(r) \/ Return(r) \/ RaiseCancelled(r) PROVE TypeOK'
    BY <1>5 DEF SendOk, Return, RaiseCancelled
  <1>6. ASSUME NEW r \in Reqs, SendFail(r) \/ Raise(r) PROVE TypeOK'
    <2>1. PopPendingRequest(aliases, KeyOf[r]) /\ KeyOf[r] \in Keys
      BY <1>6, ConstantsAssumption DEF SendFail, Raise
    <2> QED BY <1>6, <2>1, PopType DEF SendFail, Raise
  <1>7. ASSUME NEW r \in Reqs, Expire(r) PROVE TypeOK'
    BY <1>7 DEF Expire
  <1>8. ASSUME NEW r \in Reqs, CancelCaller(r) PROVE TypeOK'
    BY <1>8 DEF CancelCaller
  <1>9. ASSUME NEW k \in Keys, CancelPending(k) PROVE TypeOK'
    <2>1. PopPendingRequest(aliases, k)
      BY <1>9 DEF CancelPending
    <2> QED BY <1>9, <2>1, PopType DEF CancelPending
  <1>10. ASSUME NEW g \in Conns, SocketClosing(g) \/ SocketClosed(g) PROVE TypeOK'
    BY <1>10 DEF SocketClosing, SocketClosed
  <1>11. ASSUME NEW g \in Conns, ReaderStart(g) \/ HandlersDone(g) PROVE TypeOK'
    BY <1>11 DEF ReaderStart, HandlersDone
  <1>12. ASSUME NEW g \in Conns, ReaderEnds(g) PROVE TypeOK'
    <2>1. CASE UNCHANGED tableVars
      BY <1>0, <1>12, <2>1 DEF ReaderEnds, ReaderFinally
    <2>2. CASE FlushPending
      BY <1>0, <1>12, <2>2, FlushType DEF ReaderEnds, ReaderFinally
    <2> QED BY <1>12, <2>1, <2>2 DEF ReaderEnds
  <1>13. ASSUME NEW g \in Conns, ReaderCancelled(g) PROVE TypeOK'
    BY <1>0, <1>13 DEF ReaderCancelled, ReaderFinally
  <1>14. ASSUME NEW g \in Conns, NEW key \in Keys, NEW type \in PacketTypes,
                Dispatch(g, key, type)
         PROVE TypeOK'
    <2>1. /\ fut' \in [Reqs -> {"none", "pending", "result", "error", "cancelled"}]
          /\ answer' \in [Reqs -> Answers \cup {None}]
      BY <1>14, CompleteType DEF Dispatch
    <2>2. /\ pending' \in [Keys -> Reqs \cup {None}]
          /\ aliases' \in [Keys -> Keys \cup {None}]
      <3>1. CASE aliases[key] # None
        <4>1. PopPendingRequest([aliases EXCEPT ![key] = None], aliases[key])
          BY <1>14, <3>1 DEF Dispatch
        <4>2. /\ aliases[key] \in Keys
              /\ [aliases EXCEPT ![key] = None] \in [Keys -> Keys \cup {None}]
          BY <3>1
        <4> QED BY <4>1, <4>2, PopType
      <3>2. CASE aliases[key] = None /\ type = "response"
        BY <1>14, <3>2, PopType DEF Dispatch
      <3>3. CASE aliases[key] = None /\ type # "response"
        BY <1>14, <3>3 DEF Dispatch
      <3> QED BY <3>1, <3>2, <3>3
    <2> QED BY <1>14, <2>1, <2>2 DEF Dispatch
  <1>15. CASE CloseBegin \/ CloseReader \/ CloseSocket
    BY <1>0, <1>15 DEF CloseBegin, CloseReader, CloseSocket
  <1>16. CASE CloseEnd
    BY <1>0, <1>16, FlushType DEF CloseEnd
  <1>17. CASE UNCHANGED vars
    BY <1>17
  <1> QED
    BY <1>1, <1>2, <1>3, <1>4, <1>5, <1>6, <1>7, <1>8, <1>9, <1>10, <1>11, <1>12,
       <1>13, <1>14, <1>15, <1>16, <1>17 DEF Next, Call, Reader, Close

\* Every variable of the client keeps its type in every behaviour.
THEOREM TypeCorrect == Spec => []TypeOK
  <1> QED BY InitTypeOK, NextTypeOK, PTL DEF Spec

-----------------------------------------------------------------------------
(***************************************************************************)
(* The correlation table                                                   *)
(***************************************************************************)

\* An entry belongs to a call of that key which has been sent or is being
\* sent and has not returned; a call that has not reached the table yet has
\* no future; a completed future is not registered any more.
TableInv ==
    /\ \A k \in Keys : pending[k] # None =>
          /\ KeyOf[pending[k]] = k
          /\ pc[pending[k]] \in {"sending", "waiting", "expired", "cancelled"}
          /\ fut[pending[k]] # "result"
    /\ \A r \in Reqs :
          /\ pc[r] \in {"idle", "locking", "opening"} => fut[r] = "none"
          /\ pc[r] = "done" => fut[r] = "result"
          /\ answer[r] # None => fut[r] = "result"
    /\ AliasIntegrity
    /\ CorrelatedResult

\* Both tables are empty before the first call.
LEMMA InitTableInv == Init => TableInv
  BY DEF Init, TableInv, AliasIntegrity, CorrelatedResult

\* Popping an entry, with or without an alias removed first, keeps the
\* entries that remain and the aliases that lead to them.
LEMMA PopTable ==
    ASSUME TypeOK, TableInv, NEW k \in Keys,
           NEW al \in [Keys -> Keys \cup {None}],
           \A a \in Keys : al[a] \in {None, aliases[a]},
           PopPendingRequest(al, k)
    PROVE  /\ pending'[k] = None
           /\ \A j \in Keys : j # k => pending'[j] = pending[j]
           /\ AliasIntegrity'
  <1> USE DEF TypeOK, PopPendingRequest, AliasesWithout
  <1>1. /\ pending'[k] = None
        /\ \A j \in Keys : j # k => pending'[j] = pending[j]
    OBVIOUS
  <1>2. ASSUME NEW a \in Keys, aliases'[a] # None
        PROVE  /\ pending'[aliases'[a]] # None
               /\ a \in AltsOf[pending'[aliases'[a]]]
    <2>1. aliases'[a] = al[a] /\ al[a] = aliases[a]
      BY <1>2
    <2>2. pending[aliases[a]] # None /\ a \in AltsOf[pending[aliases[a]]]
      BY <1>2, <2>1 DEF TableInv, AliasIntegrity
    <2>3. aliases[a] # k
      BY <1>2, <2>1, <2>2
    <2>4. aliases[a] \in Keys
      BY <1>2, <2>1
    <2> QED BY <1>1, <2>1, <2>2, <2>3, <2>4
  <1> QED BY <1>1, <1>2 DEF AliasIntegrity

\* A request that registers finds its key free, so no alias led to it.
LEMMA RegisterTable ==
    ASSUME TypeOK, TableInv, NEW r \in Reqs, NEW c \in 0..MaxConns,
           pc[r] \in {"idle", "locking", "opening"}, Register(r, c)
    PROVE  TableInv'
  <1> DEFINE k == KeyOf[r]
  <1>0. k \in Keys /\ AltsOf[r] \subseteq Keys /\ r # None /\ k # None
    BY ConstantsAssumption DEF ConstantsAssumption
  <1>1. CASE pending[k] # None
    <2>1. pc' = [pc EXCEPT ![r] = "failed"] /\ UNCHANGED tableVars
      BY <1>1 DEF Register
    <2>2. \A j \in Keys : pending[j] # r
      BY ConstantsAssumption DEF TableInv, ConstantsAssumption
    <2> QED BY <2>1, <2>2
        DEF TableInv, TypeOK, AliasIntegrity, CorrelatedResult, tableVars
  <1>2. CASE pending[k] = None
    <2>1. /\ pending' = [pending EXCEPT ![k] = r]
          /\ aliases' = [a \in Keys |-> IF a \in AltsOf[r] THEN k ELSE aliases[a]]
          /\ fut' = [fut EXCEPT ![r] = "pending"]
          /\ pc' = [pc EXCEPT ![r] = "sending"]
          /\ answer' = answer
      BY <1>2 DEF Register
    <2>2. answer[r] = None
      BY DEF TableInv
    <2>3. \A j \in Keys : pending[j] # r
      BY ConstantsAssumption DEF TableInv, ConstantsAssumption
    <2>4. \A j \in Keys : pending'[j] # None =>
              /\ KeyOf[pending'[j]] = j
              /\ pc'[pending'[j]] \in {"sending", "waiting", "expired", "cancelled"}
              /\ fut'[pending'[j]] # "result"
      BY <1>0, <2>1, <2>3 DEF TableInv, TypeOK
    <2>5. \A q \in Reqs :
              /\ pc'[q] \in {"idle", "locking", "opening"} => fut'[q] = "none"
              /\ pc'[q] = "done" => fut'[q] = "result"
              /\ answer'[q] # None => fut'[q] = "result"
      BY <1>0, <2>1, <2>2 DEF TableInv, TypeOK
    <2>6. AliasIntegrity'
      BY <1>0, <1>2, <2>1 DEF TableInv, TypeOK, AliasIntegrity
    <2>7. CorrelatedResult'
      BY <2>1 DEF TableInv, CorrelatedResult
    <2> QED BY <2>4, <2>5, <2>6, <2>7 DEF TableInv
  <1> QED BY <1>1, <1>2

\* A packet completes the request its key or its alias stands for.
LEMMA DispatchTable ==
    ASSUME TypeOK, TableInv, NEW g \in Conns, NEW key \in Keys,
           NEW type \in PacketTypes, Dispatch(g, key, type)
    PROVE  TableInv'
  <1> DEFINE owner == IF aliases[key] # None THEN aliases[key] ELSE key
             hit == aliases[key] # None \/ type = "response"
             r == Consumed(key, type)
  <1>0. owner \in Keys /\ pc' = pc
    BY DEF TypeOK, Dispatch, callVars
  <1>1. CASE ~hit
    <2>1. UNCHANGED <<pending, aliases, fut, answer>>
      BY <1>1 DEF Dispatch, Consumed, Complete
    <2> QED BY <1>0, <2>1 DEF TableInv, AliasIntegrity, CorrelatedResult
  <1>2. CASE hit
    <2>1. r = pending[owner] /\ r \in Reqs \cup {None}
      BY <1>0, <1>2 DEF Consumed, TypeOK
    <2>2. /\ pending'[owner] = None
          /\ \A j \in Keys : j # owner => pending'[j] = pending[j]
          /\ AliasIntegrity'
      <3>1. CASE aliases[key] # None
        <4>1. PopPendingRequest([aliases EXCEPT ![key] = None], owner)
          BY <3>1 DEF Dispatch
        <4>2. /\ [aliases EXCEPT ![key] = None] \in [Keys -> Keys \cup {None}]
              /\ \A a \in Keys : [aliases EXCEPT ![key] = None][a] \in {None, aliases[a]}
          BY DEF TypeOK
        <4> QED BY <1>0, <4>1, <4>2, PopTable
      <3>2. CASE aliases[key] = None
        <4>1. PopPendingRequest(aliases, owner) /\ aliases \in [Keys -> Keys \cup {None}]
          BY <1>2, <3>2 DEF Dispatch, TypeOK
        <4>2. \A a \in Keys : aliases[a] \in {None, aliases[a]}
          OBVIOUS
        <4> QED BY <1>0, <4>1, <4>2, PopTable
      <3> QED BY <3>1, <3>2
    <2>3. CASE r # None /\ fut[r] = "pending"
      <3>1. /\ r \in Reqs
            /\ \/ /\ fut' = [fut EXCEPT ![r] = "result"]
                  /\ answer' = [answer EXCEPT ![r] =
                         [key |-> key, type |-> type, cls |-> ResponseClass(r, key)]]
               \/ fut' = [fut EXCEPT ![r] = "error"] /\ answer' = answer
        BY <2>1, <2>3 DEF Dispatch, Complete
      <3>2. /\ KeyOf[r] = owner
            /\ pc[r] \in {"sending", "waiting", "expired", "cancelled"}
        BY <1>0, <2>1, <2>3 DEF TableInv
      <3>3. \A j \in Keys : pending'[j] # None =>
                /\ pending'[j] = pending[j]
                /\ pending'[j] # r
        BY <1>0, <2>2, <3>2 DEF TableInv
      <3>4. \A j \in Keys : pending'[j] # None =>
                /\ KeyOf[pending'[j]] = j
                /\ pc'[pending'[j]] \in {"sending", "waiting", "expired", "cancelled"}
                /\ fut'[pending'[j]] # "result"
        BY <1>0, <3>1, <3>3 DEF TableInv, TypeOK
      <3>5. \A q \in Reqs :
                /\ pc'[q] \in {"idle", "locking", "opening"} => fut'[q] = "none"
                /\ pc'[q] = "done" => fut'[q] = "result"
                /\ answer'[q] # None => fut'[q] = "result"
        <4> TAKE q \in Reqs
        <4>1. pc[r] \notin {"idle", "locking", "opening", "done"} /\ answer[r] = None
          BY <2>3, <3>1, <3>2 DEF TableInv
        <4>2. CASE q = r
          BY <1>0, <3>1, <4>1, <4>2 DEF TypeOK
        <4>3. CASE q # r
          BY <1>0, <3>1, <4>3 DEF TableInv, TypeOK
        <4> QED BY <4>2, <4>3
      <3>6. \/ key = KeyOf[r] /\ type = "response" /\ ResponseClass(r, key) = "primary"
            \/ key \in AltsOf[r] /\ ResponseClass(r, key) = key
        <4>1. CASE aliases[key] # None
          BY <2>1, <2>3, <4>1 DEF TableInv, AliasIntegrity, ResponseClass
        <4>2. CASE aliases[key] = None
          BY <1>2, <3>2, <4>2 DEF ResponseClass
        <4> QED BY <4>1, <4>2
      <3>7. CorrelatedResult'
        <4> SUFFICES ASSUME NEW q \in Reqs, answer'[q] # None
                     PROVE  \/ /\ answer'[q].key = KeyOf[q]
                               /\ answer'[q].type = "response"
                               /\ answer'[q].cls = "primary"
                            \/ /\ answer'[q].key \in AltsOf[q]
                               /\ answer'[q].cls = answer'[q].key
          BY DEF CorrelatedResult
        <4>1. CASE q = r
          BY <2>3, <3>1, <3>6, <4>1 DEF TypeOK, TableInv
        <4>2. CASE q # r
          BY <3>1, <4>2 DEF TypeOK, TableInv, CorrelatedResult
        <4> QED BY <4>1, <4>2
      <3> QED BY <2>2, <3>4, <3>5, <3>7 DEF TableInv
    <2>4. CASE ~(r # None /\ fut[r] = "pending")
      <3>1. UNCHANGED <<fut, answer>>
        BY <2>4 DEF Dispatch, Complete
      <3> QED BY <1>0, <2>2, <3>1 DEF TableInv, CorrelatedResult
    <2> QED BY <2>3, <2>4
  <1> QED BY <1>1, <1>2

\* Every step keeps what the two tables say of the calls.
LEMMA NextTableInv == TypeOK /\ TableInv /\ [Next]_vars => TableInv'
  <1> SUFFICES ASSUME TypeOK, TableInv, [Next]_vars PROVE TableInv'
    OBVIOUS
  <1>0. ASSUME UNCHANGED tableVars,
               \A r \in Reqs : \/ pc'[r] = pc[r]
                               \/ pc[r] = "idle" /\ pc'[r] = "locking"
                               \/ pc[r] = "locking" /\ pc'[r] = "opening"
                               \/ pc[r] \in {"locking", "opening"} /\ pc'[r] = "failed"
                               \/ pc'[r] \in {"waiting", "cancelled"}
                               \/ pc'[r] = "done" /\ fut[r] = "result"
        PROVE  TableInv'
    <2>1. \A k \in Keys : pending[k] # None =>
              pc'[pending[k]] \in {"sending", "waiting", "expired", "cancelled"}
      BY <1>0 DEF TableInv, TypeOK
    <2>2. \A r \in Reqs :
              /\ pc'[r] \in {"idle", "locking", "opening"} => fut[r] = "none"
              /\ pc'[r] = "done" => fut[r] = "result"
      BY <1>0 DEF TableInv
    <2> QED BY <1>0, <2>1, <2>2 DEF TableInv, AliasIntegrity, CorrelatedResult, tableVars
  <1>1. ASSUME NEW r \in Reqs, Begin(r) \/ TakeLock(r) PROVE TableInv'
    <2>1. CASE Connected
      <3>1. conn \in 0..MaxConns /\ Register(r, conn) /\ pc[r] \in {"idle", "locking"}
        BY <1>1, <2>1 DEF Begin, TakeLock, TypeOK
      <3> QED BY <3>1, RegisterTable
    <2>2. CASE ~Connected
      <3>1. UNCHANGED tableVars
        BY <1>1, <2>2 DEF Begin, TakeLock
      <3>2. \A q \in Reqs : \/ pc'[q] = pc[q]
                            \/ pc[q] = "idle" /\ pc'[q] = "locking"
                            \/ pc[q] = "locking" /\ pc'[q] = "opening"
        BY <1>1, <2>2 DEF Begin, TakeLock, TypeOK
      <3> QED BY <1>0, <3>1, <3>2
    <2> QED BY <2>1, <2>2
  <1>2. ASSUME NEW r \in Reqs, OpenOk(r) PROVE TableInv'
    <2>1. PICK g \in Conns : Register(r, g) /\ pc[r] = "opening"
      BY <1>2 DEF OpenOk
    <2>2. g \in 0..MaxConns
      BY ConstantsAssumption DEF ConstantsAssumption, Conns
    <2> QED BY <2>1, <2>2, RegisterTable
  <1>3. ASSUME NEW r \in Reqs, OpenFail(r) PROVE TableInv'
    <2>1. UNCHANGED tableVars /\ pc[r] = "opening" /\ pc' = [pc EXCEPT ![r] = "failed"]
      BY <1>3 DEF OpenFail
    <2>2. \A q \in Reqs : pc'[q] = pc[q] \/ (pc[q] = "opening" /\ pc'[q] = "failed")
      BY <2>1 DEF TypeOK
    <2> QED BY <1>0, <2>1, <2>2
  <1>4. ASSUME NEW r \in Reqs, SendOk(r) \/ Return(r) \/ RaiseCancelled(r) PROVE TableInv'
    <2>1. UNCHANGED tableVars
      BY <1>4 DEF SendOk, Return, RaiseCancelled
    <2>2. \A q \in Reqs : \/ pc'[q] = pc[q]
                          \/ pc'[q] \in {"waiting", "cancelled"}
                          \/ pc'[q] = "done" /\ fut[q] = "result"
      BY <1>4 DEF SendOk, Return, RaiseCancelled, TypeOK
    <2> QED BY <1>0, <2>1, <2>2
  <1>5. ASSUME NEW r \in Reqs, SendFail(r) \/ Raise(r) PROVE TableInv'
    <2> DEFINE k == KeyOf[r]
    <2>1. /\ k \in Keys
          /\ PopPendingRequest(aliases, k)
          /\ pc' = [pc EXCEPT ![r] = "failed"]
          /\ UNCHANGED <<fut, answer>>
      BY <1>5, ConstantsAssumption DEF SendFail, Raise, ConstantsAssumption
    <2>2. /\ pending'[k] = None
          /\ \A j \in Keys : j # k => pending'[j] = pending[j]
          /\ AliasIntegrity'
      <3>1. aliases \in [Keys -> Keys \cup {None}]
        BY DEF TypeOK
      <3> QED BY <2>1, <3>1, PopTable
    <2>3. \A j \in Keys : pending'[j] # None =>
              /\ pending'[j] # r
              /\ KeyOf[pending'[j]] = j
              /\ pc'[pending'[j]] \in {"sending", "waiting", "expired", "cancelled"}
              /\ fut'[pending'[j]] # "result"
      BY <2>1, <2>2 DEF TableInv, TypeOK
    <2>4. \A q \in Reqs :
              /\ pc'[q] \in {"idle", "locking", "opening"} => fut'[q] = "none"
              /\ pc'[q] = "done" => fut'[q] = "result"
              /\ answer'[q] # None => fut'[q] = "result"
      BY <2>1 DEF TableInv, TypeOK
    <2> QED BY <2>1, <2>2, <2>3, <2>4 DEF TableInv, CorrelatedResult
  <1>6. ASSUME NEW r \in Reqs, Expire(r) PROVE TableInv'
    BY <1>6 DEF Expire, TableInv, TypeOK, AliasIntegrity, CorrelatedResult
  <1>7. ASSUME NEW r \in Reqs, CancelCaller(r) PROVE TableInv'
    BY <1>7 DEF CancelCaller, TableInv, TypeOK, AliasIntegrity, CorrelatedResult
  <1>8. ASSUME NEW k \in Keys, CancelPending(k) PROVE TableInv'
    <2>1. /\ PopPendingRequest(aliases, k)
          /\ aliases \in [Keys -> Keys \cup {None}]
          /\ \A a \in Keys : aliases[a] \in {None, aliases[a]}
      BY <1>8 DEF CancelPending, TypeOK
    <2>2. /\ pending'[k] = None
          /\ \A j \in Keys : j # k => pending'[j] = pending[j]
          /\ AliasIntegrity'
      BY <2>1, PopTable
    <2>3. /\ pc' = pc
          /\ answer' = answer
          /\ \A q \in Reqs : \/ fut'[q] = fut[q]
                             \/ fut[q] = "pending" /\ fut'[q] \in {"error", "cancelled"}
      BY <1>8 DEF CancelPending, TypeOK, callVars
    <2>4. \A j \in Keys : pending'[j] # None =>
              /\ KeyOf[pending'[j]] = j
              /\ pc'[pending'[j]] \in {"sending", "waiting", "expired", "cancelled"}
              /\ fut'[pending'[j]] # "result"
      BY <2>2, <2>3 DEF TableInv, TypeOK
    <2>5. \A q \in Reqs :
              /\ pc'[q] \in {"idle", "locking", "opening"} => fut'[q] = "none"
              /\ pc'[q] = "done" => fut'[q] = "result"
              /\ answer'[q] # None => fut'[q] = "result"
      BY <2>3 DEF TableInv
    <2> QED BY <2>2, <2>3, <2>4, <2>5 DEF TableInv, CorrelatedResult
  <1>9. ASSUME FlushPending, pc' = pc PROVE TableInv'
    <2>1. \A q \in Reqs : \/ fut'[q] = fut[q]
                          \/ fut[q] = "pending" /\ fut'[q] = "error"
      BY <1>9 DEF FlushPending
    <2> QED BY <1>9, <2>1 DEF FlushPending, TableInv, AliasIntegrity, CorrelatedResult
  <1>10. ASSUME NEW g \in Conns, Reader(g) PROVE TableInv'
    <2>1. CASE \E key \in Keys, type \in PacketTypes : Dispatch(g, key, type)
      BY <2>1, DispatchTable
    <2>2. CASE ReaderEnds(g)
      <3>1. pc' = pc /\ (UNCHANGED tableVars \/ FlushPending)
        BY <2>2 DEF ReaderEnds, ReaderFinally, callVars
      <3> QED BY <1>0, <1>9, <3>1
    <2>3. CASE \/ SocketClosing(g) \/ SocketClosed(g) \/ ReaderStart(g)
               \/ ReaderCancelled(g) \/ HandlersDone(g)
      <3>1. pc' = pc /\ UNCHANGED tableVars
        BY <2>3 DEF SocketClosing, SocketClosed, ReaderStart, ReaderCancelled,
                    HandlersDone, ReaderFinally, callVars
      <3> QED BY <1>0, <3>1
    <2> QED BY <1>10, <2>1, <2>2, <2>3 DEF Reader
  <1>11. CASE CloseBegin \/ CloseReader \/ CloseSocket \/ UNCHANGED vars
    <2>1. pc' = pc /\ UNCHANGED tableVars
      BY <1>11 DEF CloseBegin, CloseReader, CloseSocket, vars, callVars
    <2> QED BY <1>0, <2>1
  <1>12. CASE CloseEnd
    BY <1>9, <1>12 DEF CloseEnd, callVars
  <1> QED
    BY <1>1, <1>2, <1>3, <1>4, <1>5, <1>6, <1>7, <1>8, <1>10, <1>11, <1>12
    DEF Next, Call, Close

\* Every behaviour has the invariant of the tables.
LEMMA TableInvariant == Spec => [](TypeOK /\ TableInv)
  <1> QED BY InitTypeOK, NextTypeOK, InitTableInv, NextTableInv, PTL DEF Spec

\* No alias is left behind or leads to a request that did not ask for it,
\* however calls overlap, fail, are cancelled or are flushed.
THEOREM AliasesAreSound == Spec => []AliasIntegrity
  <1>1. TypeOK /\ TableInv => AliasIntegrity
    BY DEF TableInv
  <1> QED BY <1>1, TableInvariant, PTL

\* Whatever packets the device sends, a request is completed by its own
\* response or by an alias it registered, decoded accordingly.
THEOREM ResultsAreCorrelated == Spec => []CorrelatedResult
  <1>1. TypeOK /\ TableInv => CorrelatedResult
    BY DEF TableInv
  <1> QED BY <1>1, TableInvariant, PTL

\* A call that returned or raised leaves its key free.
THEOREM NoEntryLeaks == Spec => []NoLeakedEntry
  <1>1. TypeOK /\ TableInv => NoLeakedEntry
    BY DEF TableInv, NoLeakedEntry
  <1> QED BY <1>1, TableInvariant, PTL

-----------------------------------------------------------------------------
(***************************************************************************)
(* Futures complete once                                                   *)
(***************************************************************************)

Settled(r) == fut[r] \in {"result", "error", "cancelled"}

\* A call registers a future only when it has none; every other step
\* completes a future only if it is pending.
LEMMA StepCompletesOnce ==
    ASSUME TypeOK, TableInv, [Next]_vars, NEW r \in Reqs, Settled(r)
    PROVE  fut'[r] = fut[r] /\ answer'[r] = answer[r]
  <1> USE DEF Settled
  <1>1. ASSUME NEW q \in Reqs, NEW c \in 0..MaxConns, Register(q, c),
               pc[q] \in {"idle", "locking", "opening"}
        PROVE  fut'[r] = fut[r] /\ answer'[r] = answer[r]
    BY <1>1 DEF Register, TableInv, TypeOK, tableVars
  <1>2. ASSUME NEW q \in Reqs, Begin(q) \/ TakeLock(q)
        PROVE  fut'[r] = fut[r] /\ answer'[r] = answer[r]
    <2>1. CASE Connected
      <3>1. /\ Register(q, conn) /\ conn \in 0..MaxConns
            /\ pc[q] \in {"idle", "locking", "opening"}
        BY <1>2, <2>1 DEF Begin, TakeLock, TypeOK
      <3> QED BY <1>1, <3>1
    <2>2. CASE ~Connected
      BY <1>2, <2>2 DEF Begin, TakeLock, tableVars
    <2> QED BY <2>1, <2>2
  <1>3. ASSUME NEW q \in Reqs, OpenOk(q)
        PROVE  fut'[r] = fut[r] /\ answer'[r] = answer[r]
    <2>1. PICK g \in Conns : Register(q, g) /\ pc[q] = "opening"
      BY <1>3 DEF OpenOk
    <2>2. g \in 0..MaxConns
      BY ConstantsAssumption DEF ConstantsAssumption, Conns
    <2> QED BY <1>1, <2>1, <2>2
  <1>4. ASSUME NEW q \in Reqs,
               \/ OpenFail(q) \/ SendOk(q) \/ Return(q) \/ RaiseCancelled(q)
               \/ SendFail(q) \/ Raise(q)
        PROVE  fut'[r] = fut[r] /\ answer'[r] = answer[r]
    BY <1>4 DEF OpenFail, SendOk, Return, RaiseCancelled, SendFail, Raise, tableVars
  <1>5. ASSUME NEW q \in Reqs, Expire(q) \/ CancelCaller(q)
        PROVE  fut'[r] = fut[r] /\ answer'[r] = answer[r]
    BY <1>5 DEF Expire, CancelCaller, TypeOK
  <1>6. ASSUME NEW k \in Keys, CancelPending(k)
        PROVE  fut'[r] = fut[r] /\ answer'[r] = answer[r]
    BY <1>6 DEF CancelPending, TypeOK
  <1>7. ASSUME FlushPending
        PROVE  fut'[r] = fut[r] /\ answer'[r] = answer[r]
    BY <1>7 DEF FlushPending
  <1>8. ASSUME NEW g \in Conns, Reader(g)
        PROVE  fut'[r] = fut[r] /\ answer'[r] = answer[r]
    <2>1. CASE ReaderEnds(g)
      BY <1>7, <2>1 DEF ReaderEnds, tableVars
    <2>2. ASSUME NEW key \in Keys, NEW type \in PacketTypes, Dispatch(g, key, type)
          PROVE  fut'[r] = fut[r] /\ answer'[r] = answer[r]
      BY <2>2 DEF Dispatch, Complete, TypeOK
    <2>3. CASE \/ SocketClosing(g) \/ SocketClosed(g) \/ ReaderStart(g)
               \/ ReaderCancelled(g) \/ HandlersDone(g)
      BY <2>3 DEF SocketClosing, SocketClosed, ReaderStart, ReaderCancelled,
                  HandlersDone, tableVars
    <2> QED BY <1>8, <2>1, <2>2, <2>3 DEF Reader
  <1>9. CASE Close \/ UNCHANGED vars
    BY <1>7, <1>9 DEF Close, CloseBegin, CloseReader, CloseSocket, CloseEnd,
                      vars, tableVars
  <1> QED BY <1>2, <1>3, <1>4, <1>5, <1>6, <1>8, <1>9 DEF Next, Call

\* Dispatch, timeout, cancellation and flush never complete a future twice
\* (asyncio would raise InvalidStateError in the reader).
THEOREM FuturesCompleteOnce == Spec => FutureCompletesOnce
  <1>1. TypeOK /\ TableInv /\ [Next]_vars =>
            [\A r \in Reqs : fut[r] \in {"result", "error", "cancelled"} =>
                 fut'[r] = fut[r] /\ answer'[r] = answer[r]]_vars
    BY StepCompletesOnce DEF Settled
  <1> QED BY <1>1, TableInvariant, PTL DEF Spec, FutureCompletesOnce

-----------------------------------------------------------------------------
(***************************************************************************)
(* The connection                                                          *)
(***************************************************************************)

\* The lock is held by the call that opens a connection or by close(); while
\* a handshake is awaited the client stays disconnected; until close() has
\* cancelled the reader, the installed connection has one.
ConnectionInv ==
    /\ \A r \in Reqs : lock = r <=> pc[r] = "opening"
    /\ lock = "close" <=> closer # "idle"
    /\ \A r \in Reqs : pc[r] = "opening" => ~Connected
    /\ conn # 0 => \/ reader[conn] \in {"starting", "reading", "handling"}
                   \/ closer \in {"reader", "socket"}

\* No socket is open before the first call.
LEMMA InitConnectionInv == Init => ConnectionInv
  BY ConstantsAssumption DEF ConstantsAssumption, Init, ConnectionInv, Connected

\* What Register and the steps of a sent call leave to the connection.
LEMMA OutsideConnection ==
    ASSUME TypeOK, ConnectionInv, UNCHANGED <<connVars, closer>>,
           \A r \in Reqs : pc'[r] = "opening" <=> pc[r] = "opening"
    PROVE  ConnectionInv'
  BY DEF ConnectionInv, Connected, connVars

LEMMA RegisterPc ==
    ASSUME TypeOK, NEW r \in Reqs, NEW c \in 0..MaxConns, Register(r, c)
    PROVE  /\ pc'[r] # "opening"
           /\ \A q \in Reqs : q # r => pc'[q] = pc[q]
  BY DEF TypeOK, Register

\* Every step keeps what a socket says of its reader and the lock.
LEMMA NextConnectionInv == TypeOK /\ ConnectionInv /\ [Next]_vars => ConnectionInv'
  <1> SUFFICES ASSUME TypeOK, ConnectionInv, [Next]_vars PROVE ConnectionInv'
    OBVIOUS
  <1>0. /\ \A r \in Reqs : r # None /\ r # "close"
        /\ None # "close"
    BY ConstantsAssumption DEF ConstantsAssumption
  <1>1. ASSUME NEW r \in Reqs, Begin(r) PROVE ConnectionInv'
    <2>1. \A q \in Reqs : pc'[q] = "opening" <=> pc[q] = "opening"
      <3>1. CASE Connected
        <4>1. Register(r, conn) /\ conn \in 0..MaxConns /\ pc[r] # "opening"
          BY <1>1, <3>1 DEF Begin, TypeOK
        <4> QED BY <4>1, RegisterPc
      <3>2. CASE ~Connected
        BY <1>1, <3>2 DEF Begin, TypeOK
      <3> QED BY <3>1, <3>2
    <2> QED BY <1>1, <2>1, OutsideConnection DEF Begin
  <1>2. ASSUME NEW r \in Reqs, TakeLock(r) PROVE ConnectionInv'
    <2>1. UNCHANGED <<conn, sock, reader, closer>> /\ pc[r] = "locking" /\ lock = None
      BY <1>2 DEF TakeLock
    <2>2. CASE Connected
      <3>1. Register(r, conn) /\ conn \in 0..MaxConns /\ lock' = lock
        BY <1>2, <2>2 DEF TakeLock, TypeOK
      <3>2. \A q \in Reqs : pc'[q] = "opening" <=> pc[q] = "opening"
        BY <2>1, <3>1, RegisterPc
      <3> QED BY <2>1, <3>1, <3>2 DEF ConnectionInv, Connected
    <2>3. CASE ~Connected
      <3>1. lock' = r /\ pc' = [pc EXCEPT ![r] = "opening"]
        BY <1>2, <2>3 DEF TakeLock
      <3> QED BY <1>0, <2>1, <2>3, <3>1 DEF ConnectionInv, Connected, TypeOK
    <2> QED BY <2>2, <2>3
  <1>3. ASSUME NEW r \in Reqs, OpenOk(r) PROVE ConnectionInv'
    <2>1. PICK g \in Conns :
             /\ conn' = g
             /\ reader' = [reader EXCEPT ![g] = "starting"]
             /\ Register(r, g)
      BY <1>3 DEF OpenOk
    <2>2. g \in 0..MaxConns
      BY ConstantsAssumption DEF ConstantsAssumption, Conns
    <2>3. pc[r] = "opening" /\ lock' = None /\ closer' = closer
      BY <1>3 DEF OpenOk
    <2>4. \A q \in Reqs : pc'[q] # "opening"
      BY <2>1, <2>2, <2>3, RegisterPc DEF ConnectionInv
    <2>5. lock = r /\ closer = "idle"
      BY <1>0, <2>3 DEF ConnectionInv
    <2> QED BY <1>0, <2>1, <2>3, <2>4, <2>5 DEF ConnectionInv, TypeOK
  <1>4. ASSUME NEW r \in Reqs, OpenFail(r) PROVE ConnectionInv'
    <2>1. /\ pc[r] = "opening" /\ pc' = [pc EXCEPT ![r] = "failed"]
          /\ lock' = None
          /\ UNCHANGED <<conn, sock, reader, closer>>
      BY <1>4 DEF OpenFail
    <2>2. \A q \in Reqs : pc'[q] # "opening"
      BY <2>1 DEF ConnectionInv, TypeOK
    <2>3. lock = r /\ closer = "idle"
      BY <1>0, <2>1 DEF ConnectionInv
    <2> QED BY <1>0, <2>1, <2>2, <2>3 DEF ConnectionInv
  <1>5. ASSUME NEW r \in Reqs,
               \/ SendOk(r) \/ SendFail(r) \/ Return(r) \/ Expire(r) \/ Raise(r)
               \/ RaiseCancelled(r)
        PROVE  ConnectionInv'
    <2>1. /\ UNCHANGED <<connVars, closer>>
          /\ \A q \in Reqs : pc'[q] = "opening" <=> pc[q] = "opening"
      BY <1>5 DEF SendOk, SendFail, Return, Expire, Raise, RaiseCancelled, TypeOK
    <2> QED BY <2>1, OutsideConnection
  <1>6. ASSUME NEW r \in Reqs, CancelCaller(r) PROVE ConnectionInv'
    <2>1. UNCHANGED <<conn, sock, reader, closer>>
      BY <1>6 DEF CancelCaller
    <2>2. CASE lock = r
      <3>1. pc[r] = "opening" /\ closer = "idle"
        BY <1>0, <2>2 DEF ConnectionInv
      <3>2. pc' = [pc EXCEPT ![r] = "cancelled"] /\ lock' = None
        BY <1>6, <2>2, <3>1 DEF CancelCaller
      <3>3. \A q \in Reqs : pc'[q] # "opening"
        BY <2>2, <3>2 DEF ConnectionInv, TypeOK
      <3> QED BY <1>0, <2>1, <3>1, <3>2, <3>3 DEF ConnectionInv
    <2>3. CASE lock # r
      <3>1. lock' = lock /\ \A q \in Reqs : pc'[q] = "opening" <=> pc[q] = "opening"
        BY <1>6, <2>3 DEF CancelCaller, ConnectionInv, TypeOK
      <3> QED BY <2>1, <3>1 DEF ConnectionInv, Connected
    <2> QED BY <2>2, <2>3
  <1>7. ASSUME NEW k \in Keys, CancelPending(k) PROVE ConnectionInv'
    <2>1. UNCHANGED <<connVars, closer>> /\ pc' = pc
      BY <1>7 DEF CancelPending, callVars
    <2> QED BY <2>1, OutsideConnection
  <1>8. ASSUME NEW g \in Conns, Reader(g) PROVE ConnectionInv'
    <2>0. lock' = lock /\ pc' = pc /\ closer' = closer
      BY <1>8 DEF Reader, SocketClosing, SocketClosed, ReaderStart, ReaderEnds,
                  ReaderCancelled, ReaderFinally, Dispatch, HandlersDone, callVars
    <2>1. CASE SocketClosing(g) \/ SocketClosed(g)
      <3>1. conn' = conn /\ reader' = reader /\ (Connected' => Connected)
        BY <2>1, ConstantsAssumption
        DEF SocketClosing, SocketClosed, Connected, TypeOK, Conns, ConstantsAssumption
      <3> QED BY <2>0, <3>1 DEF ConnectionInv
    <2>2. CASE ReaderEnds(g) \/ ReaderCancelled(g)
      <3>1. conn' = 0
        BY <2>2 DEF ReaderEnds, ReaderCancelled, ReaderFinally
      <3> QED BY <2>0, <3>1 DEF ConnectionInv, Connected
    <2>3. CASE \/ ReaderStart(g) \/ HandlersDone(g)
               \/ \E key \in Keys, type \in PacketTypes : Dispatch(g, key, type)
      <3>1. conn' = conn /\ sock' = sock
        BY <2>3 DEF ReaderStart, HandlersDone, Dispatch
      <3>2. \/ reader' = reader
            \/ reader' = [reader EXCEPT ![g] = "reading"]
            \/ reader' = [reader EXCEPT ![g] = "handling"]
            \/ conn = 0
        BY <2>3 DEF ReaderStart, HandlersDone, Dispatch
      <3>3. conn # 0 => conn \in Conns
        BY ConstantsAssumption DEF ConstantsAssumption, TypeOK, Conns
      <3> QED BY <2>0, <3>1, <3>2, <3>3 DEF ConnectionInv, Connected, TypeOK
    <2> QED BY <1>8, <2>1, <2>2, <2>3 DEF Reader
  <1>9. CASE CloseBegin
    BY <1>0, <1>9 DEF CloseBegin, ConnectionInv, Connected, callVars
  <1>10. CASE CloseReader
    <2>1. pc' = pc /\ UNCHANGED <<conn, sock>> /\ closer = "ping"
      BY <1>10 DEF CloseReader, callVars
    <2>2. CASE closer' = "idle"
      <3>1. lock' = None /\ reader' = reader
        BY <1>10, <2>2 DEF CloseReader
      <3> QED BY <1>0, <2>1, <2>2, <3>1 DEF ConnectionInv, Connected
    <2>3. CASE closer' # "idle"
      <3>1. lock' = lock /\ closer' = "reader"
        BY <1>10, <2>3 DEF CloseReader
      <3> QED BY <2>1, <3>1 DEF ConnectionInv, Connected
    <2> QED BY <2>2, <2>3
  <1>11. CASE CloseSocket
    <2>1. /\ pc' = pc /\ conn' = conn /\ lock' = lock
          /\ closer = "reader" /\ closer' = "socket"
          /\ Connected' => Connected
      BY <1>11 DEF CloseSocket, callVars, Connected, TypeOK, Conns
    <2> QED BY <2>1 DEF ConnectionInv
  <1>12. CASE CloseEnd
    BY <1>0, <1>12 DEF CloseEnd, ConnectionInv, Connected, callVars
  <1>13. CASE UNCHANGED vars
    BY <1>13, OutsideConnection DEF vars, callVars
  <1> QED
    BY <1>1, <1>2, <1>3, <1>4, <1>5, <1>6, <1>7, <1>8, <1>9, <1>10, <1>11, <1>12, <1>13
    DEF Next, Call, Close

\* Every behaviour has the invariant of the connection.
LEMMA ConnectionInvariant == Spec => [](TypeOK /\ ConnectionInv)
  <1> QED BY InitTypeOK, NextTypeOK, InitConnectionInv, NextConnectionInv, PTL DEF Spec

\* The connection the client would send on is being read, so an answer to a
\* request sent on it can arrive, unless close() is under way.
THEOREM ConnectionIsRead == Spec => []LiveConnectionHasReader
  <1>1. TypeOK /\ ConnectionInv => LiveConnectionHasReader
    BY DEF ConnectionInv, LiveConnectionHasReader
  <1> QED BY <1>1, ConnectionInvariant, PTL

\* Only a handshake opens a socket, and while it is awaited under the lock
\* no other call can have connected the client.
LEMMA StepOpensWhenDisconnected ==
    ASSUME TypeOK, ConnectionInv, [Next]_vars,
           NEW g \in Conns, sock[g] = "unused", sock'[g] = "open"
    PROVE  ~Connected
  <1>1. ASSUME sock' = sock PROVE FALSE
    BY <1>1
  <1>2. ASSUME NEW r \in Reqs, OpenOk(r) PROVE ~Connected
    BY <1>2 DEF OpenOk, ConnectionInv
  <1>3. ASSUME NEW r \in Reqs, Call(r), ~OpenOk(r) PROVE FALSE
    BY <1>1, <1>3 DEF Call, Begin, TakeLock, OpenFail, SendOk, SendFail, Return,
                      Expire, Raise, RaiseCancelled, CancelCaller, connVars
  <1>4. ASSUME NEW k \in Keys, CancelPending(k) PROVE FALSE
    BY <1>1, <1>4 DEF CancelPending, connVars
  <1>5. ASSUME NEW h \in Conns, Reader(h) PROVE FALSE
    <2>1. CASE SocketClosing(h) \/ SocketClosed(h)
      BY <2>1 DEF SocketClosing, SocketClosed, TypeOK
    <2>2. CASE ~(SocketClosing(h) \/ SocketClosed(h))
      BY <1>1, <1>5, <2>2 DEF Reader, ReaderStart, ReaderEnds, ReaderCancelled,
                              ReaderFinally, Dispatch, HandlersDone
    <2> QED BY <2>1, <2>2
  <1>6. CASE CloseSocket
    BY <1>6 DEF CloseSocket
  <1>7. CASE CloseBegin \/ CloseReader \/ CloseEnd \/ UNCHANGED vars
    BY <1>1, <1>7 DEF CloseBegin, CloseReader, CloseEnd, vars, connVars
  <1> QED BY <1>2, <1>3, <1>4, <1>5, <1>6, <1>7 DEF Next, Close

\* Of the calls that find the client disconnected, one opens a connection.
THEOREM OneCallOpens == Spec => OpensOnlyWhenDisconnected
  <1>1. TypeOK /\ ConnectionInv /\ [Next]_vars =>
            [(\E g \in Conns : sock[g] = "unused" /\ sock'[g] = "open") => ~Connected]_vars
    BY StepOpensWhenDisconnected
  <1> QED BY <1>1, ConnectionInvariant, PTL DEF Spec, OpensOnlyWhenDisconnected
=============================================================================
