---------------------------- MODULE MountProofs ----------------------------
(***************************************************************************)
(* Theorems about Goto and Motion, for any requests, axes and rates.          *)
(***************************************************************************)
EXTENDS Goto, Motion, FiniteSetTheorems, TLAPS

(***************************************************************************)
(* Sequences                                                               *)
(***************************************************************************)

\* Appending an element keeps the others where they are.
LEMMA Appended ==
    ASSUME NEW S, NEW s \in Seq(S), NEW x \in S
    PROVE  /\ Append(s, x) \in Seq(S)
           /\ Len(Append(s, x)) = Len(s) + 1
           /\ Append(s, x)[Len(s) + 1] = x
           /\ \A i \in 1..Len(s) : Append(s, x)[i] = s[i]
  OBVIOUS

\* Taking the first element away moves the others by one.
LEMMA Popped ==
    ASSUME NEW S, NEW s \in Seq(S), s # <<>>
    PROVE  /\ Tail(s) \in Seq(S)
           /\ Len(s) \in Nat \ {0} /\ Len(Tail(s)) = Len(s) - 1
           /\ Head(s) = s[1] /\ Head(s) \in S
           /\ \A i \in 1..Len(s) - 1 : Tail(s)[i] = s[i + 1]
  OBVIOUS

(***************************************************************************)
(* Goto: types                                                             *)
(***************************************************************************)

FlagTypes ==
    /\ connected \in BOOLEAN /\ slewing \in BOOLEAN /\ rate \in BOOLEAN
    /\ pending \in BOOLEAN /\ oneClick \in BOOLEAN

SlewTypes ==
    /\ task \in Slews \cup {None} /\ position \in Slews \cup {None}
    /\ target \in Slews \cup {None} /\ entry \in Slews \cup {None}
    /\ tpc \in [Slews -> {"none", "waiting", "woken", "ended"}]
    /\ pc \in [Reqs -> Places]
    /\ kind \in [Slews -> {"goto", "oneClick"}]
    /\ retried \subseteq Slews

WordTypes ==
    /\ result \in {"none", "success", "failed"}
    /\ answer \in {"none", "ok", "lost", "timeout", "cancelled"} \cup Codes
    /\ pending => result = "none"

\* A mount that moves moves to the target of a slew, for which every GoTo is.
LinkTypes ==
    /\ device \in [doing : {"rest", "moving", "tracking"}, slew : Slews \cup {None}]
    /\ device.doing = "moving" => device.slew \in Slews
    /\ reached \subseteq Slews
    /\ inbox \in Seq(Commands) /\ wire \in Seq(Messages)
    /\ \A i \in 1..Len(inbox) : inbox[i].what # "stop" => inbox[i].req \in Slews

GotoTypes == FlagTypes /\ SlewTypes /\ WordTypes /\ LinkTypes

\* The parts of the types make up the type invariant that TLC checks.
LEMMA GotoTypesAreTypes == GotoTypes => TypeOK
  BY DEF GotoTypes, FlagTypes, SlewTypes, WordTypes, LinkTypes, TypeOK

\* The parts of the types hold when nothing was asked for yet.
LEMMA GotoTypesInit == Init => GotoTypes
<1> SUFFICES ASSUME Init PROVE GotoTypes
  OBVIOUS
<1>1. FlagTypes /\ WordTypes
  BY DEF Init, FlagTypes, WordTypes
<1>2. SlewTypes
  BY DEF Init, SlewTypes, Places
<1>3. LinkTypes
  BY DEF Init, LinkTypes
<1> QED
  BY <1>1, <1>2, <1>3 DEF GotoTypes

\* Commands and messages.
LEMMA LinkMembers ==
    /\ \A r \in Reqs : \A w \in {"goto", "click", "stop"} : [what |-> w, req |-> r] \in Commands
    /\ \A c \in Commands : c.what \in {"goto", "click", "stop"} /\ c.req \in Reqs
    /\ \A r \in Reqs : \A code \in Codes \cup {"ok"} : Ack(r, code) \in Messages
    /\ \A s \in Slews : \A code \in {"ok", "refused"} : Click(s, code) \in Messages
    /\ \A w \in {"tracking", "envelope"} : Note(w) \in Messages
    /\ \A m \in Messages :
          /\ m.what \in {"ack", "click", "tracking", "envelope"}
          /\ m.what = "ack" => m.req \in Reqs /\ m.code \in Codes \cup {"ok"}
          /\ m.what = "click" => m.req \in Slews /\ m.code \in {"ok", "refused"}
  BY DEF Commands, Messages, Ack, Click, Note

\* Every step keeps the types of the session's and the router's flags.
LEMMA FlagTypesKept == FlagTypes /\ [Next]_vars => FlagTypes'
<1> SUFFICES ASSUME FlagTypes, [Next]_vars PROVE FlagTypes'
  OBVIOUS
<1> USE DEF FlagTypes, routerVars, gotoVars
<1>1. ASSUME NEW s \in Slews, Choose(s) \/ Prepared(s) \/ PrepareFails(s) PROVE FlagTypes'
  BY <1>1 DEF Choose, Prepared, PrepareFails, Reject, Escape
<1>2. ASSUME NEW s \in Slews, SendGoto(s) \/ GotoAccepted(s) \/ FallBack(s) \/ GotoFails(s)
      PROVE  FlagTypes'
  BY <1>2 DEF SendGoto, GotoAccepted, MarkPending, StartTask, FallBack, GotoFails, Reject, Escape
<1>3. ASSUME NEW s \in Slews, BeginOneClick(s) \/ OneClickBegun(s) \/ Retry(s) PROVE FlagTypes'
  BY <1>3 DEF BeginOneClick, OneClickBegun, MarkPending, StartTask, Retry, StopBegin, CancelGoto,
              Resolve, Reject, Escape
<1>4. ASSUME NEW r \in Reqs, StopStep(r) PROVE FlagTypes'
  BY <1>4 DEF StopStep, SendStop, Stopped, StopFails, Expire, LinkLost, TaskCancelled, Reject, Escape
<1>5. ASSUME NEW s \in Slews, TaskStep(s) PROVE FlagTypes'
  BY <1>5 DEF TaskStep, TaskReports, TaskTimesOut, Report
<1>6. CASE Request
  BY <1>6 DEF Request, Slew, Abort, StopBegin, CancelGoto, Resolve, MoveAxis, TaskCancelled,
              PutConnected
<1>7. CASE MonitorTimesOut \/ Receive \/ Drop \/ Device
  BY <1>7 DEF MonitorTimesOut, Receive, Notified, Resolve, Drop, LinkLost, Device, Execute, Arrive,
              GiveUp
<1>8. CASE UNCHANGED vars
  BY <1>8 DEF vars
<1> QED
  BY <1>1, <1>2, <1>3, <1>4, <1>5, <1>6, <1>7, <1>8 DEF Next, SlewStep

\* Every step keeps the types of the requests and of the tasks that report slews.
LEMMA SlewTypesKept == SlewTypes /\ [Next]_vars => SlewTypes'
<1> SUFFICES ASSUME SlewTypes, [Next]_vars PROVE SlewTypes'
  OBVIOUS
<1> USE DEF SlewTypes, routerVars, gotoVars, reqVars
<1>1. ASSUME NEW s \in Slews, Choose(s) \/ Prepared(s) \/ PrepareFails(s) PROVE SlewTypes'
  BY <1>1 DEF Choose, Prepared, PrepareFails, Reject, Escape, Move, Places, Reqs
<1>2. ASSUME NEW s \in Slews, SendGoto(s) \/ GotoAccepted(s) \/ FallBack(s) \/ GotoFails(s)
      PROVE  SlewTypes'
  BY <1>2 DEF SendGoto, GotoAccepted, MarkPending, StartTask, FallBack, GotoFails, Reject, Escape,
              Woken, Move, Places, Reqs
<1>3. ASSUME NEW s \in Slews, BeginOneClick(s) \/ OneClickBegun(s) \/ Retry(s) PROVE SlewTypes'
  BY <1>3 DEF BeginOneClick, OneClickBegun, MarkPending, StartTask, Retry, StopBegin, CancelGoto,
              Resolve, Reject, Escape, Woken, Move, Places, Reqs
<1>4. ASSUME NEW r \in Reqs, StopStep(r) PROVE SlewTypes'
  BY <1>4 DEF StopStep, SendStop, Stopped, StopFails, Expire, LinkLost, TaskCancelled, TaskLive,
              Live, Reject, Escape, Woken, Move, Places
<1>5. ASSUME NEW s \in Slews, TaskStep(s) PROVE SlewTypes'
  BY <1>5 DEF TaskStep, TaskReports, TaskTimesOut, Report
<1>6. CASE Request
  BY <1>6 DEF Request, Slew, Abort, StopBegin, CancelGoto, Resolve, MoveAxis, TaskCancelled,
              TaskLive, Live, PutConnected, Woken, Move, Places, Reqs
<1>7. CASE MonitorTimesOut \/ Receive \/ Drop \/ Device
  BY <1>7 DEF MonitorTimesOut, Receive, Notified, Resolve, Drop, LinkLost, Device, Execute, Arrive,
              GiveUp, Woken
<1>8. CASE UNCHANGED vars
  BY <1>8 DEF vars
<1> QED
  BY <1>1, <1>2, <1>3, <1>4, <1>5, <1>6, <1>7, <1>8 DEF Next, SlewStep

\* What is read is a message.
LEMMA HeadOfWire ==
    ASSUME LinkTypes, Receive
    PROVE  Head(wire) \in Messages /\ Head(wire) = wire[1] /\ wire' \in Seq(Messages)
  BY Popped DEF LinkTypes, Receive

\* Every step keeps the types of the answers and of the GoTo's result; a result is
\* there only when the GoTo is no longer pending.
LEMMA WordTypesKept == WordTypes /\ LinkTypes /\ [Next]_vars => WordTypes'
<1> SUFFICES ASSUME WordTypes, LinkTypes, [Next]_vars PROVE WordTypes'
  OBVIOUS
<1> USE DEF WordTypes, gotoVars
<1>1. ASSUME NEW s \in Slews, Choose(s) \/ Prepared(s) \/ PrepareFails(s) PROVE WordTypes'
  BY <1>1 DEF Choose, Prepared, PrepareFails
<1>2. ASSUME NEW s \in Slews, SendGoto(s) \/ GotoAccepted(s) \/ FallBack(s) \/ GotoFails(s)
      PROVE  WordTypes'
  BY <1>2 DEF SendGoto, GotoAccepted, MarkPending, FallBack, GotoFails, Sends
<1>3. ASSUME NEW s \in Slews, BeginOneClick(s) \/ OneClickBegun(s) \/ Retry(s) PROVE WordTypes'
  BY <1>3 DEF BeginOneClick, OneClickBegun, MarkPending, Retry, StopBegin, CancelGoto, Resolve,
              GotoCancelled, Sends
<1>4. ASSUME NEW r \in Reqs, StopStep(r) PROVE WordTypes'
  BY <1>4 DEF StopStep, SendStop, Stopped, StopFails, Expire, LinkLost, Sends
<1>5. ASSUME NEW s \in Slews, TaskStep(s) PROVE WordTypes'
  BY <1>5 DEF TaskStep, TaskReports, TaskTimesOut
<1>6. CASE Request
  BY <1>6 DEF Request, Slew, Abort, StopBegin, CancelGoto, Resolve, GotoCancelled, MoveAxis,
              PutConnected
<1>7. CASE MonitorTimesOut \/ Drop \/ Device
  BY <1>7 DEF MonitorTimesOut, Resolve, GotoCancelled, Drop, LinkLost, Device, Execute, Arrive,
              GiveUp
<1>8. CASE Receive
  <2> DEFINE m == Head(wire)
  <2>1. m.what = "ack" => m.code \in Codes \cup {"ok"}
    BY <1>8, HeadOfWire, LinkMembers
  <2>2. CASE /\ m.what = "ack" /\ answer' \in {m.code, answer}
             /\ UNCHANGED gotoVars
    BY <2>1, <2>2
  <2>3. CASE \E how \in {"success", "failed"} : Resolve(how) \/ UNCHANGED <<gotoVars, answer>>
    BY <2>3 DEF Resolve, GotoCancelled
  <2> QED
    BY <1>8, <2>2, <2>3 DEF Receive, Notified
<1>9. CASE UNCHANGED vars
  BY <1>9 DEF vars
<1> QED
  BY <1>1, <1>2, <1>3, <1>4, <1>5, <1>6, <1>7, <1>8, <1>9 DEF Next, SlewStep

\* What a step does to the link and to what the mount did.
LEMMA LinkSteps ==
    ASSUME [Next]_vars
    PROVE  \/ UNCHANGED <<deviceVars, linkVars>>
           \/ /\ UNCHANGED deviceVars
              /\ \/ \E s \in Slews : Sends(s, "goto") \/ Sends(s, "click")
                 \/ \E r \in Reqs : Sends(r, "stop")
           \/ UNCHANGED deviceVars /\ inbox' = <<>> /\ wire' = <<>>
           \/ UNCHANGED deviceVars /\ Receive
           \/ Device
<1>1. ASSUME NEW s \in Slews, SlewStep(s)
      PROVE  /\ UNCHANGED deviceVars
             /\ UNCHANGED linkVars \/ Sends(s, "goto") \/ Sends(s, "click")
  BY <1>1 DEF SlewStep, Choose, Prepared, PrepareFails, SendGoto, GotoAccepted, FallBack, GotoFails,
              BeginOneClick, OneClickBegun, Retry
<1>2. ASSUME NEW r \in Reqs, StopStep(r)
      PROVE  /\ UNCHANGED deviceVars
             /\ UNCHANGED linkVars \/ Sends(r, "stop") \/ (inbox' = <<>> /\ wire' = <<>>)
  BY <1>2 DEF StopStep, SendStop, Stopped, StopFails, Expire, LinkLost
<1>3. ASSUME NEW s \in Slews, TaskStep(s) PROVE UNCHANGED <<deviceVars, linkVars>>
  BY <1>3 DEF TaskStep, TaskReports, TaskTimesOut
<1>4. Request \/ MonitorTimesOut => UNCHANGED <<deviceVars, linkVars>>
  BY DEF Request, Slew, Abort, MoveAxis, PutConnected, MonitorTimesOut
<1>5. Receive => UNCHANGED deviceVars
  BY DEF Receive
<1>6. Drop => UNCHANGED deviceVars /\ inbox' = <<>> /\ wire' = <<>>
  BY DEF Drop, LinkLost
<1>7. UNCHANGED vars => UNCHANGED <<deviceVars, linkVars>>
  BY DEF vars
<1> QED
  BY <1>1, <1>2, <1>3, <1>4, <1>5, <1>6, <1>7 DEF Next

\* A command joins those on their way.
LEMMA CommandSent ==
    ASSUME LinkTypes, NEW r \in Reqs, NEW w \in {"goto", "click", "stop"}, Sends(r, w)
    PROVE  /\ inbox' \in Seq(Commands) /\ wire' = wire
           /\ Len(inbox) \in Nat /\ Len(inbox') = Len(inbox) + 1
           /\ inbox'[Len(inbox) + 1].what = w /\ inbox'[Len(inbox) + 1].req = r
           /\ \A i \in 1..Len(inbox) : inbox'[i] = inbox[i]
<1> DEFINE c == [what |-> w, req |-> r]
<1>1. inbox \in Seq(Commands) /\ Len(inbox) \in Nat
  BY DEF LinkTypes
<1>0. c \in Commands
  BY LinkMembers
<1>2. inbox' = Append(inbox, c) /\ wire' = wire
  BY DEF Sends
<1>3. /\ inbox' \in Seq(Commands) /\ Len(inbox') = Len(inbox) + 1
      /\ inbox'[Len(inbox) + 1] = c
      /\ \A i \in 1..Len(inbox) : inbox'[i] = inbox[i]
  BY <1>0, <1>1, <1>2, Appended
<1>4. c.what = w /\ c.req = r
  OBVIOUS
<1> QED
  BY <1>1, <1>2, <1>3, <1>4

\* What the mount says.
LEMMA Said ==
    ASSUME LinkTypes, Device
    PROVE  \/ wire' = wire
           \/ \E m \in Messages : wire' = Append(wire, m)
           \/ \E m, n \in Messages : wire' = Append(Append(wire, m), n)
<1>1. ASSUME Execute PROVE wire' = wire \/ \E m \in Messages : wire' = Append(wire, m)
  <2> DEFINE c == Head(inbox)
  <2>1. c \in Commands /\ c = inbox[1] /\ c.req \in Reqs /\ (c.what # "stop" => c.req \in Slews)
    BY <1>1, Popped, LinkMembers DEF Execute, LinkTypes
  <2> QED
    BY <1>1, <2>1, LinkMembers DEF Execute, Codes
<1>2. device.doing = "moving" => device.slew \in Slews
  BY DEF LinkTypes
<1>3. ASSUME Arrive
      PROVE  \/ \E m \in Messages : wire' = Append(wire, m)
             \/ \E m, n \in Messages : wire' = Append(Append(wire, m), n)
  <2>1. Click(device.slew, "ok") \in Messages
    BY <1>2, <1>3, LinkMembers DEF Arrive
  <2>2. \A m, n \in Messages : wire \o <<m, n>> = Append(Append(wire, m), n)
    BY DEF LinkTypes
  <2>3. \A n \in {"tracking", "envelope"} : Note(n) \in Messages
    BY LinkMembers
  <2> QED
    BY <1>3, <2>1, <2>2, <2>3 DEF Arrive
<1>4. ASSUME GiveUp PROVE wire' = wire \/ \E m \in Messages : wire' = Append(wire, m)
  BY <1>2, <1>4, LinkMembers DEF GiveUp
<1> QED
  BY <1>1, <1>3, <1>4 DEF Device

\* The commands that remain when the mount takes the first.
LEMMA CommandTaken ==
    ASSUME LinkTypes, Execute
    PROVE  /\ inbox' \in Seq(Commands)
           /\ Len(inbox) \in Nat \ {0} /\ Len(inbox') = Len(inbox) - 1
           /\ Head(inbox) = inbox[1] /\ Head(inbox) \in Commands
           /\ Head(inbox).what # "stop" => Head(inbox).req \in Slews
           /\ \A i \in 1..Len(inbox') : inbox'[i] = inbox[i + 1]
<1>1. inbox \in Seq(Commands) /\ inbox # <<>> /\ inbox' = Tail(inbox)
  BY DEF LinkTypes, Execute
<1>2. /\ Tail(inbox) \in Seq(Commands)
      /\ Len(inbox) \in Nat \ {0} /\ Len(Tail(inbox)) = Len(inbox) - 1
      /\ Head(inbox) = inbox[1] /\ Head(inbox) \in Commands
      /\ \A i \in 1..Len(inbox) - 1 : Tail(inbox)[i] = inbox[i + 1]
  BY <1>1, Popped
<1> QED
  BY <1>1, <1>2 DEF LinkTypes

\* Every step keeps the types of the mount and of what is on its way to and from it.
LEMMA LinkTypesKept == LinkTypes /\ [Next]_vars => LinkTypes'
<1> SUFFICES ASSUME LinkTypes, [Next]_vars PROVE LinkTypes'
  OBVIOUS
<1>1. CASE UNCHANGED <<deviceVars, linkVars>>
  BY <1>1 DEF LinkTypes, deviceVars, linkVars
<1>2. ASSUME NEW r \in Reqs, NEW w \in {"goto", "click", "stop"}, Sends(r, w),
             w # "stop" => r \in Slews, UNCHANGED deviceVars
      PROVE  LinkTypes'
  <2>1. \A i \in 1..Len(inbox') : inbox'[i].what # "stop" => inbox'[i].req \in Slews
    <3>1. \A i \in 1..Len(inbox') : i = Len(inbox) + 1 \/ i \in 1..Len(inbox)
      BY <1>2, CommandSent
    <3> QED
      BY <1>2, <3>1, CommandSent DEF LinkTypes
  <2> QED
    BY <1>2, <2>1, CommandSent DEF LinkTypes, deviceVars
<1>3. CASE UNCHANGED deviceVars /\ inbox' = <<>> /\ wire' = <<>>
  BY <1>3 DEF LinkTypes, deviceVars
<1>4. CASE UNCHANGED deviceVars /\ Receive
  <2>1. inbox' = inbox
    BY <1>4 DEF Receive
  <2> QED
    BY <1>4, <2>1, HeadOfWire DEF LinkTypes, deviceVars
<1>5. CASE Device
  <2>1. wire' \in Seq(Messages)
    <3>1. wire \in Seq(Messages)
      BY DEF LinkTypes
    <3>2. ASSUME NEW m \in Messages PROVE Append(wire, m) \in Seq(Messages)
      BY <3>1, Appended
    <3>3. ASSUME NEW m \in Messages, NEW n \in Messages
          PROVE  Append(Append(wire, m), n) \in Seq(Messages)
      BY <3>2, Appended
    <3> QED
      BY <1>5, <3>1, <3>2, <3>3, Said
  <2>2. /\ inbox' \in Seq(Commands)
        /\ \A i \in 1..Len(inbox') : inbox'[i].what # "stop" => inbox'[i].req \in Slews
    <3>1. CASE inbox' = inbox
      BY <3>1 DEF LinkTypes
    <3>2. CASE Execute
      <4>1. \A i \in 1..Len(inbox') : i + 1 \in 1..Len(inbox)
        BY <3>2, CommandTaken
      <4> QED
        BY <3>2, <4>1, CommandTaken DEF LinkTypes
    <3> QED
      BY <1>5, <3>1, <3>2 DEF Device, Arrive, GiveUp
  <2>3. /\ device' \in [doing : {"rest", "moving", "tracking"}, slew : Slews \cup {None}]
        /\ device'.doing = "moving" => device'.slew \in Slews
        /\ reached' \subseteq Slews
    <3>1. CASE Execute
      BY <3>1, CommandTaken DEF Execute, LinkTypes
    <3>2. CASE Arrive
      BY <3>2 DEF Arrive, LinkTypes
    <3>3. CASE GiveUp
      BY <3>3 DEF GiveUp, LinkTypes
    <3> QED
      BY <1>5, <3>1, <3>2, <3>3 DEF Device
  <2> QED
    BY <2>1, <2>2, <2>3 DEF LinkTypes
<1> QED
  BY <1>1, <1>2, <1>3, <1>4, <1>5, LinkSteps DEF Reqs

\* Every step keeps all the types.
LEMMA GotoTypesKept == GotoTypes /\ [Next]_vars => GotoTypes'
  BY FlagTypesKept, SlewTypesKept, WordTypesKept, LinkTypesKept DEF GotoTypes


(***************************************************************************)
(* Goto: Slewing has an owner                                              *)
(***************************************************************************)

\* Who ends Slewing: a slew under way, its task or the motion by hand.
Owned ==
    slewing => \/ rate
               \/ \E s \in Slews : InProgress(s)
               \/ \E r \in Reqs : pc[r] = "escaped"
               \/ TaskLive

\* Every step keeps an owner for a Slewing that reads true.
LEMMA OwnedKept == GotoTypes /\ Owned /\ [Next]_vars => Owned'
<1> SUFFICES ASSUME GotoTypes, Owned, [Next]_vars PROVE Owned'
  OBVIOUS
<1>0. /\ pc \in [Reqs -> Places] /\ tpc \in [Slews -> {"none", "waiting", "woken", "ended"}]
      /\ \A s \in Slews : s \in Reqs /\ s # None
      /\ task \in Slews \cup {None}
  BY GotoAssumption DEF GotoAssumption, GotoTypes, SlewTypes, Reqs
<1> USE DEF Owned, InProgress, Live, TaskLive, Move, routerVars, reqVars, Reqs
<1>1. ASSUME NEW s \in Slews, Slew(s) \/ Choose(s) \/ Prepared(s) \/ PrepareFails(s) PROVE Owned'
  BY <1>0, <1>1 DEF Slew, Choose, Prepared, PrepareFails, Reject, Escape
<1>2. ASSUME NEW s \in Slews, SendGoto(s) \/ FallBack(s) \/ GotoFails(s) \/ BeginOneClick(s)
      PROVE  Owned'
  BY <1>0, <1>2 DEF SendGoto, FallBack, GotoFails, BeginOneClick, Reject, Escape
<1>3. ASSUME NEW s \in Slews, GotoAccepted(s) \/ OneClickBegun(s) PROVE Owned'
  BY <1>0, <1>3 DEF GotoAccepted, OneClickBegun, StartTask, Escape
<1>4. ASSUME NEW s \in Slews, Retry(s) PROVE Owned'
  BY <1>0, <1>4 DEF Retry, StopBegin
<1>5. ASSUME NEW r \in Aborts, Abort(r) PROVE Owned'
  BY <1>0, <1>5 DEF Abort, MayAsk, StopBegin, CancelGoto, Resolve, Woken
<1>6. ASSUME NEW r \in Reqs, SendStop(r) \/ Stopped(r) \/ StopFails(r) PROVE Owned'
  <2>1. CASE r \in Slews
    <3>1. CASE SendStop(r)
      BY <1>0, <2>1, <3>1 DEF SendStop
    <3>2. CASE Stopped(r)
      BY <1>0, <2>1, <3>2, GotoAssumption DEF Stopped, GotoAssumption
    <3>3. CASE StopFails(r)
      <4>1. Reject(r) \/ Escape(r)
        BY <2>1, <3>3, GotoAssumption DEF StopFails, GotoAssumption
      <4>2. Reject(r) => ~slewing'
        BY DEF Reject
      <4>3. Escape(r) => pc'[r] = "escaped"
        BY <1>0 DEF Escape
      <4> QED
        BY <4>1, <4>2, <4>3
    <3> QED
      BY <1>6, <3>1, <3>2, <3>3
  <2>2. ASSUME r \notin Slews PROVE \A s \in Slews : r # s
    BY <2>2
  <2>3. CASE r \notin Slews /\ SendStop(r)
    BY <1>0, <2>2, <2>3 DEF SendStop
  <2>4. CASE r \notin Slews /\ Stopped(r)
    BY <1>0, <2>2, <2>4 DEF Stopped
  <2>5. CASE r \notin Slews /\ StopFails(r)
    <3>1. UNCHANGED <<slewing, rate, task, tpc>> /\ Move(r, "failed") /\ pc[r] # "escaped"
      BY <2>5 DEF StopFails
    <3> QED
      BY <1>0, <2>2, <2>5, <3>1
  <2> QED
    BY <1>6, <2>1, <2>3, <2>4, <2>5
<1>7. ASSUME NEW s \in Slews, TaskStep(s) PROVE Owned'
  BY <1>7 DEF TaskStep, TaskReports, TaskTimesOut, Report
<1>8. ASSUME NEW r \in Others, MoveAxis(r) \/ PutConnected(r) PROVE Owned'
  BY <1>0, <1>8, GotoAssumption DEF MoveAxis, PutConnected, MayAsk, GotoAssumption
<1>9. CASE MonitorTimesOut \/ Receive
  BY <1>0, <1>9 DEF MonitorTimesOut, Receive, Notified, Resolve, Woken
<1>10. ASSUME NEW how, LinkLost(how) PROVE Owned'
  <2>1. UNCHANGED <<slewing, rate, task, pc>> /\ (tpc' = tpc \/ tpc' = Woken)
    BY <1>10 DEF LinkLost
  <2> QED
    BY <1>0, <2>1 DEF Woken
<1>11. CASE Device \/ UNCHANGED vars
  BY <1>11 DEF Device, Execute, Arrive, GiveUp, vars
<1> QED
  BY <1>1, <1>2, <1>3, <1>4, <1>5, <1>6, <1>7, <1>8, <1>9, <1>10, <1>11
  DEF Next, Request, SlewStep, StopStep, Drop, Expire

\* For any requests, however aborts overlap them, every variable keeps its type and
\* Slewing reads true only while a request, a slew task or a motion by hand is
\* there to end it (telescope.py:443): a client that waits for Slewing to read
\* false is not left waiting by a slew that nobody follows.
THEOREM SlewingIsEnded == Spec => []Inv
<1>1. Init => GotoTypes /\ Owned
  BY GotoTypesInit DEF Init, Owned
<1>2. GotoTypes /\ Owned /\ [Next]_vars => (GotoTypes /\ Owned)'
  BY GotoTypesKept, OwnedKept
<1>3. GotoTypes /\ Owned => Inv
  BY GotoTypesAreTypes DEF Inv, Owned, SlewingHasOwner, Reqs
<1> QED
  BY <1>1, <1>2, <1>3, PTL DEF Spec

(***************************************************************************)
(* Goto: what is said is so, if one request is made at a time               *)
(***************************************************************************)

\* One request is under way.  Slewing reads true during a slew, and while a task
\* waits for the mount, which is then that of the last slew.
TurnInv ==
    /\ \A q, r \in Reqs : InProgress(q) /\ InProgress(r) => q = r
    /\ \A s \in Slews : InProgress(s) => slewing
    /\ \A s \in Slews : Live(s) => /\ task = s /\ slewing /\ pc[s] = "done"
                                   /\ \A t \in Slews : ~InProgress(t)

\* Where the commands of a request are, its acknowledgements, and notifications.
Asks(i, r) == i \in 1..Len(inbox) /\ inbox[i].what # "click" /\ inbox[i].req = r
Clicks(i, r) == i \in 1..Len(inbox) /\ inbox[i].what = "click" /\ inbox[i].req = r
Acks(i, r) == i \in 1..Len(wire) /\ wire[i].what = "ack" /\ wire[i].req = r
Grants(i, r) == Acks(i, r) /\ wire[i].code = "ok"
Tells(i) == i \in 1..Len(wire) /\ wire[i].what \in {"tracking", "envelope"}

Waits(r) == pc[r] \in {"sent", "stopSent"}
Silent(r) == \A i \in Int : ~Asks(i, r) /\ ~Acks(i, r)

\* A request that awaits an answer sent the last command; there is nothing of one
\* whose answer has come, of one that has not asked or of one that has returned.
AskInv ==
    \A r \in Reqs :
        /\ ~Waits(r) /\ pc[r] # "escaped" => Silent(r)
        /\ Waits(r) /\ answer \notin {"none", "cancelled"} => inbox = <<>> /\ Silent(r)
        /\ Waits(r) /\ answer = "none" =>
              \A i \in Int :
                 /\ Asks(i, r) => /\ i = Len(inbox) /\ \A j \in Int : ~Acks(j, r)
                                  /\ inbox[i].what = IF pc[r] = "sent" THEN "goto" ELSE "stop"
                 /\ Acks(i, r) => inbox = <<>> /\ \A j \in Int : Acks(j, r) => j = i

\* A good answer tells what the mount does: nothing has been sent since.
Granted(r) == answer = "ok" \/ (answer = "none" /\ \E i \in Int : Grants(i, r))
Does(r) == IF pc[r] = "sent" THEN device.slew = r ELSE device.doing # "moving"
DoesInv == \A r \in Reqs : Waits(r) /\ Granted(r) => Does(r)

\* The one-click commands are of slews of that kind, and a slew is of the other
\* until it has chosen.
KindInv ==
    \A s \in Slews :
        /\ pc[s] \in {"idle", "begun"} => kind[s] = "goto"
        /\ pc[s] = "sending" => kind[s] = "oneClick"
        /\ \A i \in Int : Clicks(i, s) => kind[s] = "oneClick"

\* What the mount tells comes after the acknowledgement of the GoTo that it tells
\* of; before it, there may be word of earlier ones.
TellInv ==
    \A x \in Slews : device.slew = x /\ kind[x] = "goto" =>
        \A i \in Int : Tells(i) => x \in reached \/ \E j \in Int : j > i /\ Acks(j, x)

\* An abort has nothing pending.
AbortInv == \A r \in Aborts : InProgress(r) => ~pending

\* While a task waits for the mount the device is about nothing else.
WaitInv ==
    \A s \in Slews : Live(s) /\ kind[s] = "goto" =>
        /\ device.slew = s
        /\ \A i \in 1..Len(inbox) : inbox[i].what = "stop"
        /\ result = "success" => s \in reached

\* What is recorded or reported is of a slew that has returned.
DoneInv ==
    /\ target # None => pc[target] = "done"
    /\ position # None => pc[position] = "done"

GotoInv ==
    /\ TurnInv /\ AskInv /\ DoesInv /\ KindInv /\ TellInv /\ AbortInv /\ WaitInv /\ DoneInv
    /\ SaysReached

\* A slew, and its task, come of one request.
LEMMA TurnKept == ~Overlap /\ GotoTypes /\ TurnInv /\ [Next]_vars => TurnInv'
<1> SUFFICES ASSUME ~Overlap, GotoTypes, TurnInv, [Next]_vars PROVE TurnInv'
  OBVIOUS
<1>0. /\ pc \in [Reqs -> Places] /\ tpc \in [Slews -> {"none", "waiting", "woken", "ended"}]
      /\ \A s \in Slews : s \in Reqs /\ s # None /\ s \notin Aborts /\ s \notin Others
      /\ \A r \in Aborts : r \in Reqs
      /\ \A r \in Others : r \in Reqs
      /\ task \in Slews \cup {None}
  BY GotoAssumption DEF GotoAssumption, GotoTypes, SlewTypes, Reqs
<1> USE DEF TurnInv, InProgress, Live, Move, routerVars, reqVars
<1>1. ASSUME NEW s \in Slews, Slew(s) PROVE TurnInv'
  BY <1>0, <1>1 DEF Slew, MayAsk
<1>2. ASSUME NEW s \in Slews, Choose(s) \/ Prepared(s) \/ PrepareFails(s) PROVE TurnInv'
  BY <1>0, <1>2 DEF Choose, Prepared, PrepareFails, Reject, Escape
<1>3. ASSUME NEW s \in Slews, SendGoto(s) \/ FallBack(s) \/ GotoFails(s) \/ BeginOneClick(s)
      PROVE  TurnInv'
  BY <1>0, <1>3 DEF SendGoto, FallBack, GotoFails, BeginOneClick, Reject, Escape
<1>4. ASSUME NEW s \in Slews, GotoAccepted(s) \/ OneClickBegun(s) PROVE TurnInv'
  <2>1. InProgress(s) /\ pc[s] \in {"sent", "sending"}
    BY <1>4 DEF GotoAccepted, OneClickBegun
  <2>2. slewing /\ ~TaskLive /\ \A t \in Slews : ~Live(t)
    BY <1>0, <2>1 DEF TaskLive
  <2>3. CASE StartTask(s)
    <3>1. task' = s /\ pc' = [pc EXCEPT ![s] = "done"] /\ slewing'
      BY <2>2, <2>3 DEF StartTask
    <3>2. \A t \in Slews : t # s => ~Live(t)'
      BY <1>0, <2>2, <2>3 DEF StartTask, Woken
    <3>3. \A q \in Reqs : ~InProgress(q)'
      BY <1>0, <2>1, <3>1
    <3> QED
      BY <1>0, <3>1, <3>2, <3>3
  <2>4. CASE Escape(s)
    BY <1>0, <2>1, <2>2, <2>4 DEF Escape
  <2> QED
    BY <1>4, <2>3, <2>4 DEF GotoAccepted, OneClickBegun
<1>5. ASSUME NEW s \in Slews, Retry(s) PROVE TurnInv'
  BY <1>0, <1>5 DEF Retry, StopBegin, CancelGoto, Resolve, Woken
<1>6. ASSUME NEW r \in Aborts, Abort(r) PROVE TurnInv'
  BY <1>0, <1>6 DEF Abort, MayAsk, StopBegin, CancelGoto, Resolve, Woken
<1>7. ASSUME NEW r \in Reqs, SendStop(r) PROVE TurnInv'
  BY <1>0, <1>7 DEF SendStop
<1>8. ASSUME NEW r \in Reqs, Stopped(r) PROVE TurnInv'
  BY <1>0, <1>8 DEF Stopped, TaskCancelled, TaskLive
<1>9. ASSUME NEW r \in Reqs, StopFails(r) PROVE TurnInv'
  BY <1>0, <1>9 DEF StopFails, Reject, Escape
<1>10. ASSUME NEW s \in Slews, TaskStep(s) PROVE TurnInv'
  BY <1>0, <1>10 DEF TaskStep, TaskReports, TaskTimesOut, Report
<1>11. ASSUME NEW r \in Others, MoveAxis(r) \/ PutConnected(r) PROVE TurnInv'
  BY <1>0, <1>11 DEF MoveAxis, PutConnected, MayAsk, TaskCancelled, TaskLive
<1>12. CASE MonitorTimesOut \/ Receive
  BY <1>0, <1>12 DEF MonitorTimesOut, Receive, Notified, Resolve, Woken
<1>13. ASSUME NEW how, LinkLost(how) PROVE TurnInv'
  <2>1. UNCHANGED <<slewing, task, pc>> /\ (tpc' = tpc \/ tpc' = Woken)
    BY <1>13 DEF LinkLost
  <2> QED
    BY <1>0, <2>1 DEF Woken
<1>14. CASE Device \/ UNCHANGED vars
  BY <1>14 DEF Device, Execute, Arrive, GiveUp, vars
<1> QED
  BY <1>1, <1>2, <1>3, <1>4, <1>5, <1>6, <1>7, <1>8, <1>9, <1>10, <1>11, <1>12, <1>13, <1>14
  DEF Next, Request, SlewStep, StopStep, Drop, Expire

\* A request sends its command.
Commanded(r, w) ==
    /\ Sends(r, w)
    /\ pc[r] \in {"ready", "stopping"}
    /\ Move(r, IF w = "goto" THEN "sent" ELSE IF w = "click" THEN "sending" ELSE "stopSent")
    /\ UNCHANGED <<routerVars, gotoVars, kind, deviceVars>>
    /\ w # "stop" => r \in Slews
    /\ w = "click" => kind[r] = "oneClick"

\* A step that leaves the link alone ends the wait of a request, if at all, with
\* the answer that came.
Quiet ==
    /\ UNCHANGED <<linkVars, deviceVars>>
    /\ \A r \in Reqs :
          /\ Waits(r)' => pc'[r] = pc[r] /\ answer' \in {answer, "cancelled"}
          /\ ~Waits(r)' /\ pc'[r] # "escaped" =>
                pc[r] # "escaped" /\ (Waits(r) => answer \notin {"none", "cancelled"})

Lost == \/ LinkLost("timeout")
        \/ LinkLost("lost")
        \/ LinkLost(answer)

\* What a step can do to the link and the requests on it, if requests take turns: one
\* commands the mount, the link is lost, the session reads a message, the mount acts, or
\* neither is touched.
LEMMA GotoSteps ==
    ASSUME ~Overlap, GotoTypes, TurnInv, [Next]_vars
    PROVE  \/ Quiet
           \/ \E r \in Reqs : \E w \in {"goto", "click", "stop"} : Commanded(r, w)
           \/ Lost \/ Receive \/ Device
<1>0. /\ pc \in [Reqs -> Places]
      /\ \A s \in Slews : s \in Reqs /\ s # None /\ s \notin Aborts /\ s \notin Others
      /\ \A r \in Aborts : r \in Reqs
      /\ \A r \in Others : r \in Reqs
      /\ \A q, r \in Reqs : InProgress(q) /\ InProgress(r) => q = r
  BY GotoAssumption DEF GotoAssumption, GotoTypes, SlewTypes, Reqs, TurnInv
<1> USE DEF Quiet, Waits, Move, InProgress, reqVars, linkVars, deviceVars
<1>1. ASSUME NEW s \in Slews, Slew(s) \/ Choose(s) \/ Prepared(s) \/ PrepareFails(s) PROVE Quiet
  BY <1>0, <1>1 DEF Slew, MayAsk, Choose, Prepared, PrepareFails, Reject, Escape
<1>2. ASSUME NEW s \in Slews, FallBack(s) \/ GotoAccepted(s) \/ OneClickBegun(s) PROVE Quiet
  BY <1>0, <1>2 DEF FallBack, GotoAccepted, StartTask, OneClickBegun, Escape
<1>3. ASSUME NEW s \in Slews, GotoFails(s) PROVE Quiet
  BY <1>0, <1>3 DEF GotoFails, Reject, Escape
<1>4. ASSUME NEW s \in Slews, SendGoto(s) PROVE Commanded(s, "goto")
  BY <1>4 DEF SendGoto, Commanded
<1>5. ASSUME NEW s \in Slews, BeginOneClick(s) PROVE Quiet \/ Commanded(s, "click")
  BY <1>0, <1>5 DEF BeginOneClick, Commanded, Escape, gotoVars
<1>6. ASSUME NEW s \in Slews, Retry(s) PROVE Quiet
  BY <1>0, <1>6 DEF Retry, StopBegin, CancelGoto, Resolve, GotoCancelled
<1>7. ASSUME NEW r \in Aborts, Abort(r) PROVE Quiet
  BY <1>0, <1>7 DEF Abort, MayAsk, StopBegin, CancelGoto, Resolve, GotoCancelled
<1>8. ASSUME NEW r \in Reqs, SendStop(r) PROVE Commanded(r, "stop")
  BY <1>8 DEF SendStop, Commanded
<1>9. ASSUME NEW r \in Reqs, Stopped(r) PROVE Quiet
  BY <1>0, <1>9 DEF Stopped
<1>10. ASSUME NEW r \in Reqs, StopFails(r) PROVE Quiet
  BY <1>0, <1>10 DEF StopFails, Reject, Escape
<1>11. ASSUME NEW s \in Slews, TaskStep(s) PROVE Quiet
  BY <1>11 DEF TaskStep, TaskReports, TaskTimesOut
<1>12. ASSUME NEW r \in Others, MoveAxis(r) \/ PutConnected(r) PROVE Quiet
  BY <1>0, <1>12 DEF MoveAxis, PutConnected, MayAsk
<1>13. CASE MonitorTimesOut
  BY <1>13 DEF MonitorTimesOut, Resolve, GotoCancelled
<1>14. Drop \/ (\E r \in Reqs : Expire(r)) => Lost
  BY DEF Drop, Expire, Lost
<1>15. UNCHANGED vars => Quiet
  BY DEF vars
<1> QED
  BY <1>0, <1>1, <1>2, <1>3, <1>4, <1>5, <1>6, <1>7, <1>8, <1>9, <1>10, <1>11, <1>12,
     <1>13, <1>14, <1>15
  DEF Next, Request, SlewStep, StopStep

(***************************************************************************)
(* Goto: where commands and messages are                                    *)
(***************************************************************************)

\* Index facts: the i-th element after one joined, and after the first has gone.
LEMMA CommandJoins ==
    ASSUME LinkTypes, NEW r \in Reqs, NEW w \in {"goto", "click", "stop"}, Sends(r, w),
           NEW i \in Int, NEW q \in Reqs
    PROVE  /\ Asks(i, q)' <=> Asks(i, q) \/ (w # "click" /\ i = Len(inbox) + 1 /\ q = r)
           /\ Clicks(i, q)' <=> Clicks(i, q) \/ (w = "click" /\ i = Len(inbox) + 1 /\ q = r)
           /\ Acks(i, q)' <=> Acks(i, q)
           /\ Grants(i, q)' <=> Grants(i, q)
           /\ Tells(i)' <=> Tells(i)
  BY CommandSent DEF Asks, Clicks, Acks, Grants, Tells

\* Nothing is on its way over a link that was lost.
LEMMA LinkEmpties ==
    ASSUME inbox' = <<>>, wire' = <<>>, NEW i \in Int, NEW q \in Reqs
    PROVE  ~Asks(i, q)' /\ ~Clicks(i, q)' /\ ~Acks(i, q)' /\ ~Grants(i, q)' /\ ~Tells(i)'
  BY DEF Asks, Clicks, Acks, Grants, Tells

\* When the mount takes a command the others move up.
LEMMA CommandLeaves ==
    ASSUME LinkTypes, Execute, NEW i \in Int, NEW q \in Reqs
    PROVE  /\ Asks(i, q)' <=> i >= 1 /\ Asks(i + 1, q)
           /\ Clicks(i, q)' <=> i >= 1 /\ Clicks(i + 1, q)
  BY CommandTaken DEF Asks, Clicks

\* When the session reads a message the others move up.
LEMMA MessageLeaves ==
    ASSUME LinkTypes, Receive, NEW i \in Int, NEW q \in Reqs
    PROVE  /\ Acks(i, q)' <=> i >= 1 /\ Acks(i + 1, q)
           /\ Grants(i, q)' <=> i >= 1 /\ Grants(i + 1, q)
           /\ Tells(i)' <=> i >= 1 /\ Tells(i + 1)
           /\ Asks(i, q)' <=> Asks(i, q)
           /\ Clicks(i, q)' <=> Clicks(i, q)
<1>1. wire \in Seq(Messages) /\ wire # <<>> /\ wire' = Tail(wire) /\ inbox' = inbox
  BY DEF LinkTypes, Receive
<1>2. /\ Len(wire) \in Nat \ {0} /\ Len(wire') = Len(wire) - 1
      /\ \A k \in 1..Len(wire) - 1 : wire'[k] = wire[k + 1]
  BY <1>1, Popped
<1>3. inbox' = inbox
  BY <1>1
<1> QED
  BY <1>2, <1>3 DEF Acks, Grants, Tells, Asks, Clicks

\* What the mount says joins the end of the queue of messages.
LEMMA MessageJoins ==
    ASSUME LinkTypes, NEW m \in Messages, wire' = Append(wire, m), NEW i \in Int, NEW q \in Reqs
    PROVE  /\ Acks(i, q)' <=> \/ Acks(i, q)
                              \/ i = Len(wire) + 1 /\ m.what = "ack" /\ m.req = q
           /\ Grants(i, q)' <=> \/ Grants(i, q)
                                \/ /\ i = Len(wire) + 1 /\ m.what = "ack" /\ m.req = q
                                   /\ m.code = "ok"
           /\ Tells(i)' <=> Tells(i) \/ (i = Len(wire) + 1 /\ m.what \in {"tracking", "envelope"})
<1>1. wire \in Seq(Messages)
  BY DEF LinkTypes
<1>2. /\ Len(wire) \in Nat /\ Len(wire') = Len(wire) + 1
      /\ wire'[Len(wire) + 1] = m
      /\ \A k \in 1..Len(wire) : wire'[k] = wire[k]
  BY <1>1, Appended
<1> QED
  BY <1>2 DEF Acks, Grants, Tells

\* What the mount says by itself acknowledges nothing.
LEMMA NothingAcked ==
    ASSUME LinkTypes, Arrive \/ GiveUp, NEW i \in Int, NEW q \in Reqs
    PROVE  Acks(i, q)' <=> Acks(i, q)
<1>1. ASSUME NEW m \in Messages, m.what # "ack", wire' = Append(wire, m)
      PROVE  Acks(i, q)' <=> Acks(i, q)
  BY <1>1, MessageJoins
<1>2. wire' = wire => (Acks(i, q)' <=> Acks(i, q))
  BY DEF Acks
<1>3. device.slew \in Slews
  BY DEF LinkTypes, Arrive, GiveUp
<1>4. \A n \in {"tracking", "envelope"} : Note(n) \in Messages /\ Note(n).what # "ack"
  BY LinkMembers DEF Note
<1>5. \A code \in {"ok", "refused"} : /\ Click(device.slew, code) \in Messages
                                      /\ Click(device.slew, code).what # "ack"
  BY <1>3, LinkMembers DEF Click
<1>6. ASSUME NEW m \in Messages, NEW n \in Messages, m.what # "ack", n.what # "ack",
             wire' = wire \o <<m, n>>
      PROVE  Acks(i, q)' <=> Acks(i, q)
  <2>1. wire \in Seq(Messages)
    BY DEF LinkTypes
  <2>2. /\ Len(wire) \in Nat /\ Len(wire') = Len(wire) + 2
        /\ wire'[Len(wire) + 1] = m /\ wire'[Len(wire) + 2] = n
        /\ \A k \in 1..Len(wire) : wire'[k] = wire[k]
    BY <1>6, <2>1
  <2> QED
    BY <1>6, <2>2 DEF Acks
<1> QED
  BY <1>1, <1>2, <1>4, <1>5, <1>6 DEF Arrive, GiveUp

\* What a quiet step leaves.
LEMMA LinkStays ==
    ASSUME UNCHANGED linkVars, NEW i \in Int, NEW q \in Reqs
    PROVE  /\ Asks(i, q)' <=> Asks(i, q)
           /\ Clicks(i, q)' <=> Clicks(i, q)
           /\ Acks(i, q)' <=> Acks(i, q)
           /\ Grants(i, q)' <=> Grants(i, q)
           /\ Tells(i)' <=> Tells(i)
  BY DEF linkVars, Asks, Clicks, Acks, Grants, Tells

\* The command that the mount takes, and the answer if it gives one.
LEMMA Executed ==
    ASSUME LinkTypes, Execute
    PROVE  \E r \in Reqs : \E w \in {"goto", "click", "stop"} :
              /\ w # "click" <=> Asks(1, r)
              /\ w = "click" <=> Clicks(1, r)
              /\ inbox[1].what = w /\ inbox[1].req = r
              /\ w # "stop" => r \in Slews
              /\ \A i \in Int, q \in Reqs :
                    /\ Acks(i, q)' <=> Acks(i, q) \/ (i = Len(wire) + 1 /\ w # "click" /\ q = r)
                    /\ Tells(i)' <=> Tells(i)
                    /\ Grants(i, q)' => \/ Grants(i, q)
                                        \/ w = "goto" /\ device' = [doing |-> "moving", slew |-> r]
                                        \/ w = "stop" /\ device'.doing # "moving"
              /\ \/ w # "stop" /\ device' = [doing |-> "moving", slew |-> r]
                 \/ device'.slew = device.slew /\ (device'.doing = "moving" => device.doing = "moving")
<1> DEFINE c == Head(inbox)
           r == c.req
           w == c.what
<1>1. /\ c \in Commands /\ c = inbox[1] /\ r \in Reqs /\ w \in {"goto", "click", "stop"}
      /\ w # "stop" => r \in Slews
      /\ 1 \in 1..Len(inbox)
  BY CommandTaken, LinkMembers
<1>2. (w # "click" <=> Asks(1, r)) /\ (w = "click" <=> Clicks(1, r))
  BY <1>1 DEF Asks, Clicks
<1>3. device \in [doing : {"rest", "moving", "tracking"}, slew : Slews \cup {None}]
      /\ Len(wire) \in Nat
  BY DEF LinkTypes
<1>4. \A i \in Int, q \in Reqs : wire' = wire =>
          (Acks(i, q)' <=> Acks(i, q)) /\ (Tells(i)' <=> Tells(i)) /\ (Grants(i, q)' <=> Grants(i, q))
  BY DEF Acks, Tells, Grants
<1>5. ASSUME NEW code \in Codes \cup {"ok"}, wire' = Append(wire, Ack(r, code)), NEW i \in Int, NEW q \in Reqs
      PROVE  /\ Acks(i, q)' <=> Acks(i, q) \/ (i = Len(wire) + 1 /\ q = r)
             /\ Tells(i)' <=> Tells(i)
             /\ Grants(i, q)' => Grants(i, q) \/ code = "ok"
  <2>1. /\ Ack(r, code) \in Messages /\ Ack(r, code).what = "ack" /\ Ack(r, code).req = r
        /\ Ack(r, code).code = code
    BY <1>1, LinkMembers DEF Ack
  <2> QED
    BY <1>5, <2>1, MessageJoins
<1>6. ASSUME w = "click", wire' = Append(wire, Click(r, "refused")), NEW i \in Int, NEW q \in Reqs
      PROVE  (Acks(i, q)' <=> Acks(i, q)) /\ (Tells(i)' <=> Tells(i)) /\ (Grants(i, q)' => Grants(i, q))
  <2>1. Click(r, "refused") \in Messages /\ Click(r, "refused").what = "click"
    BY <1>1, <1>6, LinkMembers DEF Click
  <2> QED
    BY <1>6, <2>1, MessageJoins
<1>7. CASE w = "click"
  <2>1. \/ device' = [doing |-> "moving", slew |-> r] /\ wire' = wire
        \/ wire' = Append(wire, Click(r, "refused")) /\ UNCHANGED device
    BY <1>7 DEF Execute
  <2>2. \A i \in Int, q \in Reqs :
           (Acks(i, q)' <=> Acks(i, q)) /\ (Tells(i)' <=> Tells(i)) /\ (Grants(i, q)' => Grants(i, q))
    BY <1>4, <1>6, <1>7, <2>1
  <2> QED
    BY <1>1, <1>2, <1>7, <2>1, <2>2
<1>8. CASE w = "goto"
  <2>1. \/ device' = [doing |-> "moving", slew |-> r] /\ wire' = Append(wire, Ack(r, "ok"))
        \/ \E code \in Codes : wire' = Append(wire, Ack(r, code)) /\ UNCHANGED device
    BY <1>8 DEF Execute
  <2>2. "ok" \notin Codes
    BY DEF Codes
  <2>3. PICK code \in Codes \cup {"ok"} :
           /\ wire' = Append(wire, Ack(r, code))
           /\ code = "ok" => device' = [doing |-> "moving", slew |-> r]
           /\ code # "ok" => UNCHANGED device
    BY <2>1, <2>2
  <2>4. \A i \in Int, q \in Reqs :
           /\ Acks(i, q)' <=> Acks(i, q) \/ (i = Len(wire) + 1 /\ q = r)
           /\ Tells(i)' <=> Tells(i)
           /\ Grants(i, q)' => Grants(i, q) \/ code = "ok"
    BY <1>5, <2>3
  <2> QED
    BY <1>1, <1>2, <1>8, <2>3, <2>4
<1>9. CASE w = "stop"
  <2>1. \/ device' = [device EXCEPT !.doing = "rest"] /\ wire' = Append(wire, Ack(r, "ok"))
        \/ wire' = Append(wire, Ack(r, "refused")) /\ UNCHANGED device
    BY <1>9 DEF Execute
  <2>2. "refused" \in Codes
    BY DEF Codes
  <2> QED
    BY <1>1, <1>2, <1>3, <1>5, <1>9, <2>1, <2>2
<1> QED
  BY <1>1, <1>7, <1>8, <1>9

(***************************************************************************)
(* Goto: each part is kept                                                 *)
(***************************************************************************)

\* Every step keeps the order of a request's command and acknowledgement on the link.
LEMMA AskKept == ~Overlap /\ GotoTypes /\ TurnInv /\ AskInv /\ [Next]_vars => AskInv'
<1> SUFFICES ASSUME ~Overlap, GotoTypes, TurnInv, AskInv, [Next]_vars, NEW r \in Reqs
    PROVE  /\ ~Waits(r)' /\ pc'[r] # "escaped" => Silent(r)'
           /\ Waits(r)' /\ answer' \notin {"none", "cancelled"} => inbox' = <<>> /\ Silent(r)'
           /\ Waits(r)' /\ answer' = "none" =>
                 \A i \in Int :
                    /\ Asks(i, r)' => /\ i = Len(inbox') /\ \A j \in Int : ~Acks(j, r)'
                                      /\ inbox'[i].what = IF pc'[r] = "sent" THEN "goto" ELSE "stop"
                    /\ Acks(i, r)' => inbox' = <<>> /\ \A j \in Int : Acks(j, r)' => j = i
  BY DEF AskInv, Waits
<1>0. LinkTypes /\ pc \in [Reqs -> Places]
  BY DEF GotoTypes, SlewTypes
<1>1. CASE Quiet
  <2>1. \A i \in Int : (Asks(i, r)' <=> Asks(i, r)) /\ (Acks(i, r)' <=> Acks(i, r))
    BY <1>1, LinkStays DEF Quiet
  <2>2. inbox' = inbox
    BY <1>1 DEF Quiet, linkVars
  <2>3. Silent(r)' <=> Silent(r)
    BY <2>1 DEF Silent
  <2>4. Waits(r)' => Waits(r) /\ pc'[r] = pc[r] /\ answer' \in {answer, "cancelled"}
    BY <1>1 DEF Quiet, Waits
  <2>5. ~Waits(r)' /\ pc'[r] # "escaped" =>
            pc[r] # "escaped" /\ (Waits(r) => answer \notin {"none", "cancelled"})
    BY <1>1 DEF Quiet
  <2> QED
    BY <2>1, <2>2, <2>3, <2>4, <2>5 DEF AskInv
<1>2. ASSUME NEW q \in Reqs, NEW w \in {"goto", "click", "stop"}, Commanded(q, w), r # q
      PROVE  Silent(r) => Silent(r)'
  BY <1>0, <1>2, CommandJoins DEF Commanded, Silent
<1>3. ASSUME NEW q \in Reqs, NEW w \in {"goto", "click", "stop"}, Commanded(q, w)
      PROVE  /\ r # q => ~Waits(r) /\ pc'[r] = pc[r] /\ ~Waits(r)'
             /\ r = q => /\ ~Waits(r) /\ pc[r] # "escaped" /\ answer' = "none"
                         /\ w = "click" <=> ~Waits(r)'
                         /\ w = "goto" <=> pc'[r] = "sent"
  BY <1>0, <1>3 DEF Commanded, Sends, CommandLockFree, Waits, Move, Places
<1>4. ASSUME NEW w \in {"goto", "click", "stop"}, Commanded(r, w)
      PROVE  /\ w = "click" => Silent(r)'
             /\ \A i \in Int : /\ Asks(i, r)' => i = Len(inbox') /\ inbox'[i].what = w
                               /\ ~Acks(i, r)'
  <2>1. Silent(r) /\ Sends(r, w)
    BY <1>3, <1>4 DEF AskInv, Commanded
  <2>2. /\ Len(inbox') = Len(inbox) + 1
        /\ inbox'[Len(inbox) + 1].what = w
    BY <1>0, <2>1, CommandSent
  <2>3. \A i \in Int : /\ Asks(i, r)' <=> (w # "click" /\ i = Len(inbox) + 1)
                       /\ ~Acks(i, r)'
    BY <1>0, <2>1, CommandJoins DEF Silent
  <2> QED
    BY <2>2, <2>3 DEF Silent
<1>5. CASE Lost
  <2>1. inbox' = <<>> /\ wire' = <<>>
    BY <1>5 DEF Lost, LinkLost
  <2>2. Silent(r)' /\ \A i \in Int : ~Asks(i, r)' /\ ~Acks(i, r)'
    BY <2>1, LinkEmpties DEF Silent
  <2> QED
    BY <2>1, <2>2
<1>6. CASE Receive
  <2>1. \A i \in Int : /\ Asks(i, r)' <=> Asks(i, r)
                       /\ Acks(i, r)' <=> i >= 1 /\ Acks(i + 1, r)
    BY <1>0, <1>6, MessageLeaves
  <2>2. Silent(r) => Silent(r)'
    BY <2>1 DEF Silent
  <2>3. inbox' = inbox /\ pc' = pc
    BY <1>6 DEF Receive, reqVars
  <2> DEFINE m == Head(wire)
  <2>4. m \in Messages /\ m = wire[1] /\ 1 \in 1..Len(wire)
    BY <1>0, <1>6, HeadOfWire DEF LinkTypes, Receive
  <2>5. \/ answer' \in {answer, "cancelled"}
        \/ /\ m.what = "ack" /\ m.req \in Reqs /\ Outstanding(m.req) /\ Acks(1, m.req)
           /\ answer' # "none"
    BY <1>6, <2>4, LinkMembers DEF Receive, Notified, Resolve, GotoCancelled, Acks, Codes
  <2>6. CASE answer' \in {answer, "cancelled"}
    BY <2>1, <2>2, <2>3, <2>6 DEF AskInv, Waits
  <2>7. CASE /\ m.what = "ack" /\ m.req \in Reqs /\ Outstanding(m.req) /\ Acks(1, m.req)
             /\ answer' # "none"
    <3>1. Waits(m.req) /\ answer = "none"
      BY <2>7 DEF Outstanding, AskInv, Waits, Silent
    <3>2. Waits(r) => r = m.req
      BY <2>7, <3>1 DEF TurnInv, InProgress, Waits
    <3>3. Waits(r) => inbox = <<>> /\ \A i \in Int : Acks(i, r) => i = 1
      BY <2>7, <3>1, <3>2 DEF AskInv
    <3>4. Waits(r) => inbox' = <<>> /\ Silent(r)'
      <4>1. inbox = <<>> => \A i \in Int : ~Asks(i, r)
        BY DEF Asks
      <4> QED
        BY <2>1, <2>3, <3>3, <4>1 DEF Silent
    <3> QED
      BY <2>2, <2>3, <2>7, <3>4 DEF AskInv, Waits
  <2> QED
    BY <2>5, <2>6, <2>7
<1>7. CASE Execute
  <2>1. PICK q \in Reqs, w \in {"goto", "click", "stop"} :
           /\ w # "click" <=> Asks(1, q)
           /\ inbox[1].what = w
           /\ \A i \in Int : Acks(i, r)' <=> Acks(i, r) \/ (i = Len(wire) + 1 /\ w # "click" /\ r = q)
    BY <1>0, <1>7, Executed
  <2>2. \A i \in Int : Asks(i, r)' <=> i >= 1 /\ Asks(i + 1, r)
    BY <1>0, <1>7, CommandLeaves
  <2>3. /\ Len(inbox) \in Nat \ {0} /\ Len(inbox') = Len(inbox) - 1 /\ inbox # <<>>
        /\ \A i \in 1..Len(inbox') : inbox'[i] = inbox[i + 1]
        /\ Len(inbox') = 0 => inbox' = <<>>
        /\ pc' = pc /\ answer' = answer
    <3>1. Len(inbox') = 0 => inbox' = <<>>
      BY <1>0, <1>7, CommandTaken
    <3> QED
      BY <1>0, <1>7, <3>1, CommandTaken DEF Execute, reqVars
  <2>4. Silent(r) => Silent(r)'
    BY <2>1, <2>2 DEF Silent
  <2>5. CASE Waits(r) /\ answer = "none"
    <3>1. \A i \in Int : ~Acks(i, r)
      BY <2>3, <2>5 DEF AskInv
    <3>2. \A i \in Int : Asks(i, r)' => i = Len(inbox') /\ inbox'[i].what = IF pc'[r] = "sent" THEN "goto" ELSE "stop"
      <4>1. ASSUME NEW i \in Int, Asks(i, r)'
            PROVE  i >= 1 /\ i + 1 = Len(inbox) /\ inbox[i + 1].what = IF pc[r] = "sent" THEN "goto" ELSE "stop"
        BY <2>2, <2>5, <4>1 DEF AskInv
      <4> QED
        BY <2>3, <4>1
    <3>3. \A i \in Int : Asks(i, r)' => ~Asks(1, r)
      BY <2>2, <2>5 DEF AskInv
    <3>4. \A i \in Int : Acks(i, r)' => Asks(1, r) /\ i = Len(wire) + 1
      BY <2>1, <3>1
    <3>5. Asks(1, r) => inbox' = <<>>
      BY <2>3, <2>5 DEF AskInv
    <3> QED
      BY <2>3, <2>5, <3>2, <3>3, <3>4, <3>5 DEF Waits
  <2> QED
    BY <2>3, <2>4, <2>5 DEF AskInv, Waits
<1>8. CASE Arrive \/ GiveUp
  <2>1. \A i \in Int : (Asks(i, r)' <=> Asks(i, r)) /\ (Acks(i, r)' <=> Acks(i, r))
    BY <1>0, <1>8, NothingAcked DEF Arrive, GiveUp, Asks
  <2>2. inbox' = inbox /\ pc' = pc /\ answer' = answer
    BY <1>8 DEF Arrive, GiveUp, reqVars
  <2>3. Silent(r)' <=> Silent(r)
    BY <2>1 DEF Silent
  <2> QED
    BY <2>1, <2>2, <2>3 DEF AskInv, Waits
<1>9. ASSUME NEW q \in Reqs, NEW w \in {"goto", "click", "stop"}, Commanded(q, w), r # q
      PROVE  ~Waits(r)' /\ (pc'[r] # "escaped" => Silent(r)')
  BY <1>2, <1>3, <1>9 DEF AskInv
<1> QED
  BY <1>1, <1>3, <1>4, <1>5, <1>6, <1>7, <1>8, <1>9, GotoSteps DEF Device

\* Every step keeps what the mount does for a request that it granted.
LEMMA DoesKept ==
    ~Overlap /\ GotoTypes /\ TurnInv /\ AskInv /\ DoesInv /\ [Next]_vars => DoesInv'
<1> SUFFICES ASSUME ~Overlap, GotoTypes, TurnInv, AskInv, DoesInv, [Next]_vars, NEW r \in Reqs,
                    Waits(r)', Granted(r)'
             PROVE  Does(r)'
  BY DEF DoesInv
<1>0. LinkTypes /\ pc \in [Reqs -> Places]
  BY DEF GotoTypes, SlewTypes
\* What a good answer already says is still so if the mount is not told otherwise.
<1>1. ASSUME Waits(r), pc'[r] = pc[r],
             Granted(r),
             \/ device' = device
             \/ device'.slew = device.slew /\ device'.doing # "moving"
      PROVE  Does(r)'
  BY <1>1 DEF DoesInv, Does
<1>2. CASE Quiet
  <2>1. \A i \in Int : Grants(i, r)' <=> Grants(i, r)
    BY <1>2, LinkStays DEF Quiet
  <2>2. Waits(r) /\ pc'[r] = pc[r] /\ answer' \in {answer, "cancelled"} /\ device' = device
    BY <1>2 DEF Quiet, Waits, deviceVars
  <2>3. Granted(r)
    BY <2>1, <2>2 DEF Granted
  <2> QED
    BY <1>1, <2>2, <2>3
<1>3. ASSUME NEW q \in Reqs, NEW w \in {"goto", "click", "stop"}, Commanded(q, w) PROVE FALSE
  <2>1. r = q /\ ~Waits(r) /\ pc[r] # "escaped" /\ answer' = "none"
    BY <1>0, <1>3 DEF Commanded, Sends, CommandLockFree, Waits, Move, Places
  <2>2. \A i \in Int : ~Acks(i, r)'
    BY <1>0, <1>3, <2>1, CommandJoins DEF Commanded, AskInv, Silent
  <2> QED
    BY <2>1, <2>2, <1>3 DEF Grants, Granted
<1>4. CASE Lost
  <2>1. inbox' = <<>> /\ wire' = <<>> /\ answer' \in {"lost", "timeout", answer}
    BY <1>4 DEF Lost, LinkLost
  <2>2. \A i \in Int : ~Grants(i, r)'
    BY <2>1, LinkEmpties
  <2>3. answer = "ok" /\ pc' = pc /\ device' = device
    BY <1>4, <2>1, <2>2 DEF Lost, LinkLost, reqVars, deviceVars, Granted
  <2> QED
    BY <1>1, <2>3 DEF Waits, Granted
<1>5. CASE Receive
  <2> DEFINE m == Head(wire)
  <2>1. m \in Messages /\ m = wire[1] /\ 1 \in 1..Len(wire)
    BY <1>0, <1>5, HeadOfWire DEF LinkTypes, Receive
  <2>2. pc' = pc /\ device' = device
    BY <1>5 DEF Receive, reqVars, deviceVars
  <2>3. \A i \in Int : Grants(i, r)' => Grants(i + 1, r)
    BY <1>0, <1>5, MessageLeaves
  <2>4. \/ answer' \in {answer, "cancelled"}
        \/ /\ m.what = "ack" /\ m.req \in Reqs /\ Outstanding(m.req) /\ Acks(1, m.req)
           /\ answer' = m.code /\ answer' # "none"
    BY <1>5, <2>1, LinkMembers DEF Receive, Notified, Resolve, GotoCancelled, Acks, Codes
  <2>5. CASE answer' \in {answer, "cancelled"}
    <3>1. answer' = "none" => \E i \in Int : Grants(i, r)
      <4>1. ASSUME NEW i \in Int, Grants(i, r)' PROVE \E j \in Int : Grants(j, r)
        BY <2>3, <4>1
      <4> QED
        BY <4>1 DEF Granted
    <3>2. Granted(r) /\ Waits(r)
      BY <2>2, <2>5, <3>1 DEF Granted, Waits
    <3> QED
      BY <1>1, <2>2, <3>2
  <2>6. CASE /\ m.what = "ack" /\ m.req \in Reqs /\ Outstanding(m.req) /\ Acks(1, m.req)
             /\ answer' = m.code /\ answer' # "none"
    <3>1. Waits(m.req) /\ answer = "none"
      BY <2>6 DEF Outstanding, AskInv, Waits, Silent
    <3>2. r = m.req /\ Waits(r)
      BY <2>2, <2>6, <3>1 DEF TurnInv, InProgress, Waits
    <3>4. Granted(r)
      <4>1. m.code = "ok"
        BY <2>6 DEF Granted
      <4> QED
        BY <2>1, <2>6, <3>1, <3>2, <4>1 DEF Grants, Granted
    <3> QED
      BY <1>1, <2>2, <3>2, <3>4
  <2> QED
    BY <2>4, <2>5, <2>6
<1>6. CASE Execute
  <2>1. PICK q \in Reqs, w \in {"goto", "click", "stop"} :
           /\ w # "click" <=> Asks(1, q)
           /\ inbox[1].what = w
           /\ \A i \in Int :
                 /\ Acks(i, r)' <=> Acks(i, r) \/ (i = Len(wire) + 1 /\ w # "click" /\ r = q)
                 /\ Grants(i, r)' => \/ Grants(i, r)
                                     \/ w = "goto" /\ device' = [doing |-> "moving", slew |-> q]
                                     \/ w = "stop" /\ device'.doing # "moving"
    BY <1>0, <1>6, Executed
  <2>2. inbox # <<>> /\ pc' = pc /\ answer' = answer /\ Waits(r)
    BY <1>6 DEF Execute, reqVars, Waits
  <2>3. answer = "none" /\ \E i \in Int : Grants(i, r)'
    BY <2>2 DEF AskInv, Granted
  <2>4. PICK i \in Int : Grants(i, r)'
    BY <2>3
  <2>5. Acks(i, r)' /\ ~Acks(i, r)
    BY <2>2, <2>3, <2>4 DEF AskInv, Grants
  <2>6. w # "click" /\ r = q /\ Asks(1, r) /\ ~Grants(i, r)
    BY <2>1, <2>5 DEF Grants
  <2>7. w = IF pc[r] = "sent" THEN "goto" ELSE "stop"
    BY <2>1, <2>2, <2>3, <2>6 DEF AskInv
  <2> QED
    BY <2>1, <2>2, <2>4, <2>6, <2>7 DEF Does
<1>7. CASE Arrive \/ GiveUp
  <2>1. device'.slew = device.slew /\ device'.doing # "moving" /\ pc' = pc /\ answer' = answer /\ inbox' = inbox
    BY <1>0, <1>7 DEF Arrive, GiveUp, reqVars, LinkTypes
  <2>2. \A i \in Int : Acks(i, r)' <=> Acks(i, r)
    BY <1>0, <1>7, NothingAcked
  <2>3. \A i \in Int : Grants(i, r)' => Grants(i, r)
    <3>1. ASSUME NEW i \in Int, Acks(i, r) PROVE wire'[i] = wire[i]
      <4>1. i \in 1..Len(wire) /\ wire \in Seq(Messages)
        BY <1>0, <3>1 DEF Acks, LinkTypes
      <4>2. ASSUME NEW x, wire' = Append(wire, x) PROVE wire'[i] = wire[i]
        BY <4>1, <4>2
      <4>3. ASSUME NEW x, NEW y, wire' = wire \o <<x, y>> PROVE wire'[i] = wire[i]
        BY <4>1, <4>3
      <4>4. \/ wire' = wire
            \/ \E x : wire' = Append(wire, x)
            \/ \E x, y : wire' = wire \o <<x, y>>
        BY <1>7 DEF Arrive, GiveUp
      <4> QED
        BY <4>2, <4>3, <4>4
    <3> QED
      BY <2>2, <3>1 DEF Grants
  <2>4. Granted(r) /\ Waits(r)
    BY <2>1, <2>3 DEF Waits, Granted
  <2> QED
    BY <1>1, <2>1, <2>4
<1> QED
  BY <1>2, <1>3, <1>4, <1>5, <1>6, <1>7, GotoSteps DEF Device

\* The kind of a slew is settled before its command is sent.
LEMMA KindSteps ==
    ASSUME ~Overlap, GotoTypes, TurnInv, KindInv, [Next]_vars, NEW s \in Slews
    PROVE  /\ kind'[s] = "goto" => kind[s] = "goto"
           /\ kind[s] = "oneClick" => kind'[s] = "oneClick"
           /\ pc[s] \notin {"begun", "sent"} => kind'[s] = kind[s]
           /\ pc'[s] \in {"idle", "begun"} => kind'[s] = "goto"
           /\ pc'[s] = "sending" => kind'[s] = "oneClick"
<1>0. /\ pc \in [Reqs -> Places] /\ kind \in [Slews -> {"goto", "oneClick"}]
      /\ \A t \in Slews : t \in Reqs /\ t \notin Aborts /\ t \notin Others
      /\ \A r \in Aborts : r \in Reqs
      /\ \A r \in Others : r \in Reqs
      /\ pc[s] \in {"idle", "begun"} => kind[s] = "goto"
      /\ pc[s] = "sending" => kind[s] = "oneClick"
  BY GotoAssumption DEF GotoAssumption, GotoTypes, SlewTypes, Reqs, KindInv
<1> USE DEF Move, reqVars
<1> DEFINE Goal == /\ kind'[s] = "goto" => kind[s] = "goto"
                   /\ kind[s] = "oneClick" => kind'[s] = "oneClick"
                   /\ pc[s] \notin {"begun", "sent"} => kind'[s] = kind[s]
                   /\ pc'[s] \in {"idle", "begun"} => kind'[s] = "goto"
                   /\ pc'[s] = "sending" => kind'[s] = "oneClick"
<1>1. ASSUME NEW t \in Slews, Slew(t) \/ Choose(t) \/ Prepared(t) \/ PrepareFails(t) PROVE Goal
  BY <1>0, <1>1 DEF Slew, MayAsk, Choose, Prepared, PrepareFails, Reject, Escape
<1>2. ASSUME NEW t \in Slews, SendGoto(t) \/ FallBack(t) \/ GotoFails(t) \/ BeginOneClick(t) PROVE Goal
  BY <1>0, <1>2 DEF SendGoto, FallBack, GotoFails, BeginOneClick, Reject, Escape
<1>3. ASSUME NEW t \in Slews, GotoAccepted(t) \/ OneClickBegun(t) \/ Retry(t) PROVE Goal
  BY <1>0, <1>3 DEF GotoAccepted, OneClickBegun, StartTask, Escape, Retry, StopBegin
<1>4. ASSUME NEW r \in Aborts, Abort(r) PROVE Goal
  BY <1>0, <1>4 DEF Abort, StopBegin
<1>5. ASSUME NEW r \in Reqs, SendStop(r) \/ Stopped(r) \/ StopFails(r) PROVE Goal
  BY <1>0, <1>5 DEF SendStop, Stopped, StopFails, Reject, Escape
<1>6. ASSUME NEW r \in Others, MoveAxis(r) \/ PutConnected(r) PROVE Goal
  BY <1>0, <1>6 DEF MoveAxis, PutConnected
<1>7. ASSUME UNCHANGED reqVars PROVE Goal
  BY <1>0, <1>7
<1>8. (\E t \in Slews : TaskStep(t)) => UNCHANGED reqVars
  BY DEF TaskStep, TaskReports, TaskTimesOut
<1>9. MonitorTimesOut \/ Receive \/ Drop \/ (\E r \in Reqs : Expire(r)) => UNCHANGED reqVars
  BY DEF MonitorTimesOut, Receive, Drop, Expire, LinkLost
<1>10. Device \/ UNCHANGED vars => UNCHANGED reqVars
  BY DEF Device, Execute, Arrive, GiveUp, vars
<1> QED
  BY <1>1, <1>2, <1>3, <1>4, <1>5, <1>6, <1>7, <1>8, <1>9, <1>10
  DEF Next, Request, SlewStep, StopStep

\* Every step keeps which slews are of the one-click kind.
LEMMA KindKept == ~Overlap /\ GotoTypes /\ TurnInv /\ KindInv /\ [Next]_vars => KindInv'
<1> SUFFICES ASSUME ~Overlap, GotoTypes, TurnInv, KindInv, [Next]_vars, NEW s \in Slews
             PROVE  /\ pc'[s] \in {"idle", "begun"} => kind'[s] = "goto"
                    /\ pc'[s] = "sending" => kind'[s] = "oneClick"
                    /\ \A i \in Int : Clicks(i, s)' => kind'[s] = "oneClick"
  BY DEF KindInv
<1>0. LinkTypes /\ s \in Reqs
  BY DEF GotoTypes, Reqs
<1>1. (\E i \in Int : Clicks(i, s)') => kind[s] = "oneClick"
  <2>1. Quiet => \A i \in Int : Clicks(i, s)' <=> Clicks(i, s)
    BY <1>0, LinkStays DEF Quiet
  <2>2. ASSUME NEW q \in Reqs, NEW w \in {"goto", "click", "stop"}, Commanded(q, w), NEW i \in Int,
               Clicks(i, s)'
        PROVE  Clicks(i, s) \/ kind[s] = "oneClick"
    BY <1>0, <2>2, CommandJoins DEF Commanded
  <2>3. Lost => \A i \in Int : ~Clicks(i, s)'
    BY <1>0, LinkEmpties DEF Lost, LinkLost
  <2>4. Receive \/ Arrive \/ GiveUp => \A i \in Int : Clicks(i, s)' <=> Clicks(i, s)
    BY DEF Receive, Arrive, GiveUp, Clicks
  <2>5. Execute => \A i \in Int : Clicks(i, s)' => Clicks(i + 1, s)
    BY <1>0, CommandLeaves
  <2> QED
    BY <2>1, <2>2, <2>3, <2>4, <2>5, GotoSteps DEF Device, KindInv
<1> QED
  BY <1>1, KindSteps

\* Each notification was of the slew that the mount is about, unless the mount's
\* word that it took this one is still to be read.
LEMMA TellKept ==
    ~Overlap /\ GotoTypes /\ TurnInv /\ KindInv /\ TellInv /\ [Next]_vars => TellInv'
<1> SUFFICES ASSUME ~Overlap, GotoTypes, TurnInv, KindInv, TellInv, [Next]_vars,
                    NEW x \in Slews, device'.slew = x, kind'[x] = "goto",
                    NEW i \in Int, Tells(i)'
             PROVE  x \in reached' \/ \E j \in Int : j > i /\ Acks(j, x)'
  BY DEF TellInv
<1>0. LinkTypes /\ x \in Reqs
  BY DEF GotoTypes, Reqs
<1>1. kind[x] = "goto"
  BY KindSteps
\* The mount is about the same slew.
<1>2. ASSUME device.slew = x, reached' = reached, Tells(i), \A j \in Int : Acks(j, x) => Acks(j, x)'
      PROVE  x \in reached' \/ \E j \in Int : j > i /\ Acks(j, x)'
  BY <1>1, <1>2 DEF TellInv
<1>3. CASE Quiet
  <2>1. device.slew = x /\ reached' = reached
    BY <1>3 DEF Quiet, deviceVars
  <2>2. Tells(i) /\ \A j \in Int : Acks(j, x)' <=> Acks(j, x)
    BY <1>0, <1>3, LinkStays DEF Quiet
  <2> QED
    BY <1>2, <2>1, <2>2
<1>4. ASSUME NEW q \in Reqs, NEW w \in {"goto", "click", "stop"}, Commanded(q, w)
      PROVE  x \in reached' \/ \E j \in Int : j > i /\ Acks(j, x)'
  <2>1. device.slew = x /\ reached' = reached
    BY <1>4 DEF Commanded, deviceVars
  <2>2. Tells(i) /\ \A j \in Int : Acks(j, x)' <=> Acks(j, x)
    BY <1>0, <1>4, CommandJoins DEF Commanded
  <2> QED
    BY <1>2, <2>1, <2>2
<1>5. CASE Lost
  BY <1>0, <1>5, LinkEmpties DEF Lost, LinkLost
<1>6. CASE Receive
  <2>1. device.slew = x /\ reached' = reached
    BY <1>6 DEF Receive, deviceVars
  <2>2. i >= 1 /\ Tells(i + 1)
    BY <1>0, <1>6, MessageLeaves
  <2>3. CASE x \in reached
    BY <2>1, <2>3
  <2>4. ASSUME NEW j \in Int, j > i + 1, Acks(j, x)
        PROVE  \E k \in Int : k > i /\ Acks(k, x)'
    <3> DEFINE k == j - 1
    <3>1. k \in Int /\ k > i /\ k >= 1 /\ k + 1 = j
      BY <2>2, <2>4
    <3>2. Acks(k, x)' <=> k >= 1 /\ Acks(k + 1, x)
      BY <1>0, <1>6, <3>1, MessageLeaves
    <3> QED
      BY <2>4, <3>1, <3>2
  <2>5. x \in reached \/ \E j \in Int : j > i + 1 /\ Acks(j, x)
    BY <1>1, <2>1, <2>2 DEF TellInv
  <2> QED
    BY <2>3, <2>4, <2>5
<1>7. CASE Execute
  <2>1. PICK q \in Reqs, w \in {"goto", "click", "stop"} :
           /\ w = "click" <=> Clicks(1, q)
           /\ w # "stop" => q \in Slews
           /\ \A k \in Int, r \in Reqs :
                 /\ Acks(k, r)' <=> Acks(k, r) \/ (k = Len(wire) + 1 /\ w # "click" /\ r = q)
                 /\ Tells(k)' <=> Tells(k)
           /\ \/ w # "stop" /\ device' = [doing |-> "moving", slew |-> q]
              \/ device'.slew = device.slew
    BY <1>0, <1>7, Executed
  <2>2. reached' = reached
    BY <1>7 DEF Execute
  <2>3. Tells(i) /\ Len(wire) \in Nat /\ i <= Len(wire)
    BY <1>0, <2>1 DEF Tells, LinkTypes
  <2>4. CASE device.slew = x
    BY <1>0, <1>2, <2>1, <2>2, <2>3, <2>4
  <2>5. CASE w # "stop" /\ device' = [doing |-> "moving", slew |-> q]
    <3>1. x = q
      BY <2>5
    <3>2. ~Clicks(1, x)
      BY <1>1 DEF KindInv
    <3>3. w # "click"
      BY <2>1, <3>1, <3>2
    <3>4. \A k \in Int : k = Len(wire) + 1 => Acks(k, x)'
      BY <1>0, <2>1, <3>1, <3>3
    <3>5. Len(wire) + 1 \in Int /\ Len(wire) + 1 > i
      BY <2>3
    <3> QED
      BY <3>4, <3>5
  <2> QED
    BY <2>1, <2>4, <2>5
<1>8. CASE Arrive
  BY <1>0, <1>8 DEF Arrive, LinkTypes
<1>9. CASE GiveUp
  <2>1. device.slew = x /\ reached' = reached
    BY <1>0, <1>9 DEF GiveUp, LinkTypes
  <2>2. Tells(i)
    <3>1. /\ Click(x, "refused") \in Messages
          /\ Click(x, "refused").what \notin {"tracking", "envelope"}
      BY LinkMembers DEF Click
    <3>2. wire' = wire => Tells(i)
      BY DEF Tells
    <3>3. wire' = Append(wire, Click(x, "refused")) => Tells(i)
      BY <1>0, <3>1, MessageJoins
    <3> QED
      BY <1>9, <2>1, <3>2, <3>3 DEF GiveUp
  <2>3. \A j \in Int : Acks(j, x)' <=> Acks(j, x)
    BY <1>0, <1>9, NothingAcked
  <2> QED
    BY <1>2, <2>1, <2>2, <2>3
<1> QED
  BY <1>3, <1>4, <1>5, <1>6, <1>7, <1>8, <1>9, GotoSteps DEF Device

(***************************************************************************)
(* Goto: what is recorded and reported                                      *)
(***************************************************************************)

\* A notification is read.
Told == Receive /\ Head(wire).what \in {"tracking", "envelope"}

\* The record of a GoTo is made when it is pending, and kept by its success, which
\* only a notification brings.
LEMMA RecordSteps ==
    ASSUME GotoTypes, [Next]_vars
    PROVE  /\ target' # None /\ ~pending' => target' = target /\ (~pending \/ Told)
           /\ target' # None => target' = target \/ pc'[target'] = "done"
           /\ result' = "success" => result = "success" \/ Told
           /\ pending' => pending \/ \E s \in Slews : InProgress(s)
<1> DEFINE Goal == /\ target' # None /\ ~pending' => target' = target /\ (~pending \/ Told)
                   /\ target' # None => target' = target \/ pc'[target'] = "done"
                   /\ result' = "success" => result = "success" \/ Told
                   /\ pending' => pending \/ \E s \in Slews : InProgress(s)
<1>0. pc \in [Reqs -> Places] /\ \A s \in Slews : s \in Reqs
  BY DEF GotoTypes, SlewTypes, Reqs
<1>1. ASSUME UNCHANGED <<pending, target, result>> PROVE Goal
  BY <1>1
<1>2. ASSUME NEW s \in Slews, GotoAccepted(s) \/ OneClickBegun(s) PROVE Goal
  <2>1. CASE UNCHANGED <<pending, target, result>>
    BY <1>1, <2>1
  <2>2. CASE MarkPending(s, TRUE) \/ MarkPending(s, FALSE)
    <3>1. InProgress(s)
      BY <1>2 DEF GotoAccepted, OneClickBegun, InProgress
    <3>2. pending' /\ result' = "none" /\ target' \in {None, s}
      BY <2>2 DEF MarkPending
    <3>3. (UNCHANGED <<pending, target, result>>) \/ pc' = [pc EXCEPT ![s] = "done"]
      BY <1>2 DEF GotoAccepted, OneClickBegun, StartTask, Move
    <3> QED
      BY <1>0, <1>1, <3>1, <3>2, <3>3
  <2> QED
    BY <1>2, <2>1, <2>2 DEF GotoAccepted, OneClickBegun
<1>3. ASSUME CancelGoto \/ Resolve("failed") PROVE Goal
  <2>1. \/ UNCHANGED <<pending, target, result>>
        \/ target' = None /\ ~pending' /\ result' = "failed"
        \/ target' = None /\ UNCHANGED <<pending, result>>
    BY <1>3 DEF CancelGoto, Resolve, gotoVars
  <2> QED
    BY <1>1, <2>1
<1>4. ASSUME NEW how, LinkLost(how) PROVE Goal
  BY <1>4 DEF LinkLost, gotoVars
<1>5. CASE Receive
  <2>1. \/ UNCHANGED gotoVars \/ Resolve("failed")
        \/ Told /\ Resolve("success")
    BY <1>5 DEF Receive, Notified, Told
  <2>2. CASE Told /\ Resolve("success")
    BY <2>2 DEF Resolve, gotoVars
  <2> QED
    BY <1>1, <1>3, <2>1, <2>2 DEF gotoVars
<1>6. ASSUME NEW s \in Slews,
             \/ Choose(s) \/ Prepared(s) \/ PrepareFails(s) \/ SendGoto(s) \/ FallBack(s)
             \/ GotoFails(s) \/ BeginOneClick(s) \/ TaskStep(s) \/ Slew(s)
      PROVE  Goal
  BY <1>1, <1>6 DEF Choose, Prepared, PrepareFails, SendGoto, FallBack, GotoFails, BeginOneClick,
                    TaskStep, TaskReports, TaskTimesOut, Slew, gotoVars
<1>7. ASSUME NEW r \in Reqs, SendStop(r) \/ Stopped(r) \/ StopFails(r) PROVE Goal
  BY <1>1, <1>7 DEF SendStop, Stopped, StopFails, gotoVars
<1>8. ASSUME NEW r \in Others, MoveAxis(r) \/ PutConnected(r) PROVE Goal
  BY <1>1, <1>8 DEF MoveAxis, PutConnected, gotoVars
<1>9. CASE Device \/ UNCHANGED vars
  BY <1>1, <1>9 DEF Device, Execute, Arrive, GiveUp, vars, gotoVars
<1>10. CASE MonitorTimesOut
  BY <1>1, <1>3, <1>10 DEF MonitorTimesOut, gotoVars
<1>11. (\E s \in Slews : Retry(s)) \/ (\E r \in Aborts : Abort(r)) => CancelGoto
  BY DEF Retry, Abort, StopBegin
<1> QED
  BY <1>2, <1>3, <1>4, <1>5, <1>6, <1>7, <1>8, <1>9, <1>10, <1>11
  DEF Next, Request, SlewStep, StopStep, Drop, Expire

\* A request that has returned does nothing more; a task begins with an accepted
\* GoTo or a one-click command; a target is reported by its task.
LEMMA TaskSteps ==
    ASSUME ~Overlap, GotoTypes, TurnInv, [Next]_vars
    PROVE  /\ \A r \in Reqs : pc[r] = "done" => pc'[r] = "done"
           /\ \A s \in Slews : Live(s)' =>
                 \/ Live(s)
                 \/ /\ pc[s] = "sending" \/ (pc[s] = "sent" /\ answer = "ok")
                    /\ result' = "none" /\ UNCHANGED <<inbox, device>>
           /\ \/ position' = position
              \/ \E s \in Slews : position' = s /\ Live(s) /\ result = "success"
<1>0. /\ pc \in [Reqs -> Places] /\ tpc \in [Slews -> {"none", "waiting", "woken", "ended"}]
      /\ \A s \in Slews : s \in Reqs /\ s # None
      /\ \A r \in Aborts \cup Others : r \in Reqs
      /\ task \in Slews \cup {None}
  BY GotoAssumption DEF GotoAssumption, GotoTypes, SlewTypes, Reqs
<1> DEFINE Pcs == \A r \in Reqs : pc[r] = "done" => pc'[r] = "done"
           Tasks == \A s \in Slews : Live(s)' =>
                       \/ Live(s)
                       \/ /\ pc[s] = "sending" \/ (pc[s] = "sent" /\ answer = "ok")
                          /\ result' = "none" /\ UNCHANGED <<inbox, device>>
           Reports == \/ position' = position
                      \/ \E s \in Slews : position' = s /\ Live(s) /\ result = "success"
\* The requests.
<1>1. Pcs
  <2> USE <1>0 DEF Move
  <2>1. ASSUME NEW s \in Slews, Slew(s) \/ Choose(s) \/ Prepared(s) \/ PrepareFails(s) PROVE Pcs
    BY <2>1 DEF Slew, MayAsk, Choose, Prepared, PrepareFails, Reject, Escape
  <2>2. ASSUME NEW s \in Slews, SendGoto(s) \/ FallBack(s) \/ GotoFails(s) \/ BeginOneClick(s) PROVE Pcs
    BY <2>2 DEF SendGoto, FallBack, GotoFails, BeginOneClick, Reject, Escape
  <2>3. ASSUME NEW s \in Slews, GotoAccepted(s) \/ OneClickBegun(s) \/ Retry(s) PROVE Pcs
    BY <2>3 DEF GotoAccepted, OneClickBegun, StartTask, Escape, Retry, StopBegin
  <2>4. ASSUME NEW r \in Aborts, Abort(r) PROVE Pcs
    BY <2>4 DEF Abort, MayAsk, StopBegin
  <2>5. ASSUME NEW r \in Reqs, SendStop(r) \/ Stopped(r) \/ StopFails(r) PROVE Pcs
    BY <2>5 DEF SendStop, Stopped, StopFails, Reject, Escape
  <2>6. ASSUME NEW r \in Others, MoveAxis(r) \/ PutConnected(r) PROVE Pcs
    BY <2>6 DEF MoveAxis, PutConnected, MayAsk
  <2>7. ASSUME UNCHANGED pc PROVE Pcs
    BY <2>7
  <2>8. (\E s \in Slews : TaskStep(s)) \/ MonitorTimesOut \/ Receive => UNCHANGED pc
    BY DEF TaskStep, TaskReports, TaskTimesOut, MonitorTimesOut, Receive, reqVars
  <2>9. Drop \/ (\E r \in Reqs : Expire(r)) \/ Device \/ UNCHANGED vars => UNCHANGED pc
    BY DEF Drop, Expire, LinkLost, Device, Execute, Arrive, GiveUp, vars, reqVars
  <2> QED
    BY <2>1, <2>2, <2>3, <2>4, <2>5, <2>6, <2>7, <2>8, <2>9 DEF Next, Request, SlewStep, StopStep
\* The tasks.
<1>2. Tasks /\ Reports
  <2>1. ASSUME tpc' = tpc \/ tpc' = Woken, position' = position PROVE Tasks /\ Reports
    BY <1>0, <2>1 DEF Woken, Live
  <2>2. ASSUME NEW s \in Slews, TaskStep(s) PROVE Tasks /\ Reports
    BY <1>0, <2>2 DEF TaskStep, TaskReports, TaskTimesOut, Report, Live
  <2>3. TaskCancelled => Tasks /\ Reports
    BY <1>0 DEF TaskCancelled, TaskLive, Live
  <2>4. ASSUME NEW s \in Slews, GotoAccepted(s) \/ OneClickBegun(s) PROVE Tasks /\ Reports
    <3>1. CASE UNCHANGED routerVars
      BY <2>1, <3>1 DEF routerVars
    <3>2. CASE StartTask(s) /\ (MarkPending(s, TRUE) \/ MarkPending(s, FALSE))
      <4>1. /\ position' = position /\ result' = "none"
            /\ \A t \in Slews : t # s => ~Live(t)' \/ Live(t)
        BY <1>0, <3>2 DEF StartTask, MarkPending, Woken, Live
      <4>2. /\ pc[s] = "sending" \/ (pc[s] = "sent" /\ answer = "ok")
            /\ UNCHANGED <<inbox, device>>
        BY <2>4 DEF GotoAccepted, OneClickBegun, linkVars, deviceVars
      <4> QED
        BY <4>1, <4>2
    <3> QED
      BY <2>4, <3>1, <3>2 DEF GotoAccepted, OneClickBegun, Escape
  <2>5. ASSUME NEW s \in Slews,
               \/ Slew(s) \/ Choose(s) \/ Prepared(s) \/ PrepareFails(s) \/ SendGoto(s) \/ FallBack(s)
               \/ GotoFails(s) \/ BeginOneClick(s) \/ Retry(s)
        PROVE  Tasks /\ Reports
    <3>1. tpc' = tpc \/ tpc' = Woken
      BY <2>5 DEF Slew, Choose, Prepared, PrepareFails, SendGoto, FallBack, GotoFails, BeginOneClick,
                  Reject, Escape, Retry, StopBegin, CancelGoto, Resolve, routerVars
    <3>2. position' = position
      BY <2>5 DEF Slew, Choose, Prepared, PrepareFails, SendGoto, FallBack, GotoFails, BeginOneClick,
                  Reject, Escape, Retry, routerVars
    <3> QED
      BY <2>1, <3>1, <3>2
  <2>6. ASSUME NEW r \in Aborts, Abort(r) PROVE Tasks /\ Reports
    BY <2>1, <2>6 DEF Abort, StopBegin, CancelGoto, Resolve
  <2>7. ASSUME NEW r \in Reqs, SendStop(r) \/ Stopped(r) \/ StopFails(r) PROVE Tasks /\ Reports
    BY <2>1, <2>3, <2>7 DEF SendStop, Stopped, StopFails, Reject, Escape, routerVars
  <2>8. ASSUME NEW r \in Others, MoveAxis(r) \/ PutConnected(r) PROVE Tasks /\ Reports
    BY <2>1, <2>3, <2>8 DEF MoveAxis, PutConnected
  <2>9. MonitorTimesOut \/ Receive => Tasks /\ Reports
    BY <2>1 DEF MonitorTimesOut, Receive, Notified, Resolve
  <2>10. ASSUME NEW how, LinkLost(how) PROVE Tasks /\ Reports
    BY <2>1, <2>10 DEF LinkLost
  <2>11. Device \/ UNCHANGED vars => Tasks /\ Reports
    BY <2>1 DEF Device, Execute, Arrive, GiveUp, vars, routerVars
  <2> QED
    BY <2>2, <2>4, <2>5, <2>6, <2>7, <2>8, <2>9, <2>10, <2>11
    DEF Next, Request, SlewStep, StopStep, Drop, Expire
<1> QED
  BY <1>1, <1>2

\* The steps of an abort.
LEMMA AbortSteps ==
    ASSUME GotoTypes, [Next]_vars, NEW r \in Aborts, pc'[r] # pc[r]
    PROVE  Abort(r) \/ SendStop(r) \/ Stopped(r) \/ StopFails(r)
<1>0. /\ pc \in [Reqs -> Places] /\ r \in Reqs /\ r \notin Slews /\ r \notin Others
      /\ \A s \in Slews : s \in Reqs
      /\ \A q \in Others : q \in Reqs
  BY GotoAssumption DEF GotoAssumption, GotoTypes, SlewTypes, Reqs
<1> USE <1>0 DEF Move
<1>1. ASSUME NEW s \in Slews, Slew(s) \/ Choose(s) \/ Prepared(s) \/ PrepareFails(s) PROVE FALSE
  BY <1>1 DEF Slew, Choose, Prepared, PrepareFails, Reject, Escape
<1>2. ASSUME NEW s \in Slews, SendGoto(s) \/ FallBack(s) \/ GotoFails(s) \/ BeginOneClick(s)
      PROVE  FALSE
  BY <1>2 DEF SendGoto, FallBack, GotoFails, BeginOneClick, Reject, Escape
<1>3. ASSUME NEW s \in Slews, GotoAccepted(s) \/ OneClickBegun(s) \/ Retry(s) PROVE FALSE
  BY <1>3 DEF GotoAccepted, OneClickBegun, StartTask, Escape, Retry, StopBegin
<1>4. ASSUME NEW q \in Aborts, q # r, Abort(q) PROVE FALSE
  BY <1>4 DEF Abort, StopBegin, Reqs
<1>5. ASSUME NEW q \in Reqs, q # r, SendStop(q) \/ Stopped(q) \/ StopFails(q) PROVE FALSE
  BY <1>5 DEF SendStop, Stopped, StopFails, Reject, Escape
<1>6. ASSUME NEW q \in Others, MoveAxis(q) \/ PutConnected(q) PROVE FALSE
  BY <1>6 DEF MoveAxis, PutConnected
<1>7. (\E s \in Slews : TaskStep(s)) \/ MonitorTimesOut \/ Receive => UNCHANGED pc
  BY DEF TaskStep, TaskReports, TaskTimesOut, MonitorTimesOut, Receive, reqVars
<1>8. Drop \/ (\E q \in Reqs : Expire(q)) \/ Device \/ UNCHANGED vars => UNCHANGED pc
  BY DEF Drop, Expire, LinkLost, Device, Execute, Arrive, GiveUp, vars, reqVars
<1> QED
  BY <1>1, <1>2, <1>3, <1>4, <1>5, <1>6, <1>7, <1>8 DEF Next, Request, SlewStep, StopStep

\* Every step keeps that an abort has nothing pending.
LEMMA AbortKept == ~Overlap /\ GotoTypes /\ TurnInv /\ AbortInv /\ [Next]_vars => AbortInv'
<1> SUFFICES ASSUME ~Overlap, GotoTypes, TurnInv, AbortInv, [Next]_vars,
                    NEW r \in Aborts, InProgress(r)', pending'
             PROVE  FALSE
  BY DEF AbortInv
<1>0. r \in Reqs /\ \A s \in Slews : s \in Reqs /\ s # r
  BY GotoAssumption DEF GotoAssumption, Reqs
<1>1. CASE Abort(r)
  BY <1>1 DEF Abort, StopBegin, CancelGoto, Resolve
<1>2. ASSUME ~Abort(r) PROVE InProgress(r)
  <2>1. CASE pc'[r] = pc[r]
    BY <2>1 DEF InProgress
  <2>2. SendStop(r) \/ Stopped(r) \/ StopFails(r) => InProgress(r)
    BY DEF SendStop, Stopped, StopFails, InProgress
  <2> QED
    BY <1>2, <2>1, <2>2, AbortSteps
<1>3. InProgress(r) => ~pending /\ \A s \in Slews : ~InProgress(s)
  BY <1>0 DEF AbortInv, TurnInv
<1> QED
  BY <1>1, <1>2, <1>3, RecordSteps

\* Every step keeps that what is recorded or reported is of a slew that has returned.
LEMMA DoneKept == ~Overlap /\ GotoTypes /\ TurnInv /\ DoneInv /\ [Next]_vars => DoneInv'
<1> SUFFICES ASSUME ~Overlap, GotoTypes, TurnInv, DoneInv, [Next]_vars PROVE DoneInv'
  OBVIOUS
<1>1. /\ target \in Slews \cup {None} /\ position \in Slews \cup {None}
      /\ \A s \in Slews : s \in Reqs
  BY DEF GotoTypes, SlewTypes, Reqs
<1>2. \A s \in Slews : pc[s] = "done" => pc'[s] = "done"
  BY <1>1, TaskSteps
<1>3. target' # None => pc'[target'] = "done"
  BY <1>1, <1>2, RecordSteps DEF DoneInv
<1>4. \A s \in Slews : Live(s) => pc[s] = "done"
  BY DEF TurnInv
<1>5. position' # None => pc'[position'] = "done"
  BY <1>1, <1>2, <1>4, TaskSteps DEF DoneInv
<1> QED
  BY <1>3, <1>5 DEF DoneInv

\* What the mount tells is of the slew that has returned and that it is about.
LEMMA TruthTold ==
    ASSUME GotoTypes, AskInv, TellInv, Told, NEW s \in Slews, device.slew = s,
           kind[s] = "goto", pc[s] = "done"
    PROVE  s \in reached
<1>1. Tells(1)
  BY HeadOfWire DEF Told, Tells, Receive, GotoTypes, LinkTypes
<1>2. \A j \in Int : ~Acks(j, s)
  BY DEF AskInv, Waits, Silent, Reqs
<1> QED
  BY <1>1, <1>2 DEF TellInv

\* The mount does not turn to a slew that has returned.
LEMMA NotTakenAgain ==
    ASSUME ~Overlap, GotoTypes, AskInv, KindInv, TurnInv, [Next]_vars,
           NEW s \in Slews, pc[s] = "done", kind[s] = "goto", device'.slew = s
    PROVE  device.slew = s
<1>0. LinkTypes /\ s \in Reqs
  BY DEF GotoTypes, Reqs
<1>1. ~Asks(1, s) /\ ~Clicks(1, s)
  BY <1>0 DEF AskInv, Waits, Silent, KindInv
<1>2. Execute => device.slew = s
  <2> SUFFICES ASSUME Execute PROVE device.slew = s
    OBVIOUS
  <2>1. PICK q \in Reqs, w \in {"goto", "click", "stop"} :
           /\ w # "click" <=> Asks(1, q)
           /\ w = "click" <=> Clicks(1, q)
           /\ \/ w # "stop" /\ device' = [doing |-> "moving", slew |-> q]
              \/ device'.slew = device.slew
    BY <1>0, Executed
  <2> QED
    BY <1>1, <2>1
<1>3. Arrive \/ GiveUp => device'.slew = device.slew
  BY <1>0 DEF Arrive, GiveUp, LinkTypes
<1> QED
  BY <1>2, <1>3, GotoSteps DEF Device, Quiet, Commanded, Lost, LinkLost, Receive, deviceVars

\* Every step keeps that a task waits for the slew the mount is about.
LEMMA WaitKept ==
    /\ ~Overlap /\ GotoTypes /\ TurnInv /\ AskInv /\ DoesInv /\ KindInv /\ TellInv /\ WaitInv
    /\ [Next]_vars
    => WaitInv'
<1> SUFFICES ASSUME ~Overlap, GotoTypes, TurnInv, AskInv, DoesInv, KindInv, TellInv, WaitInv,
                    [Next]_vars, NEW s \in Slews, Live(s)', kind'[s] = "goto"
             PROVE  /\ device'.slew = s
                    /\ \A i \in 1..Len(inbox') : inbox'[i].what = "stop"
                    /\ result' = "success" => s \in reached'
  BY DEF WaitInv
<1>0. LinkTypes /\ s \in Reqs /\ (\A t \in Slews : t \in Reqs) /\ kind[s] = "goto"
  BY KindSteps DEF GotoTypes, Reqs
\* A task that begins.
<1>1. CASE ~Live(s)
  <2>1. /\ pc[s] = "sending" \/ (pc[s] = "sent" /\ answer = "ok")
        /\ result' = "none" /\ inbox' = inbox /\ device' = device
    BY <1>1, TaskSteps
  <2>2. pc[s] = "sent" /\ answer = "ok"
    BY <1>0, <2>1 DEF KindInv
  <2>3. device.slew = s /\ inbox = <<>>
    BY <1>0, <2>2 DEF DoesInv, Granted, Does, Waits, AskInv
  <2> QED
    BY <2>1, <2>3
\* One that goes on waiting.
<1>2. CASE Live(s)
  <2>1. /\ device.slew = s /\ \A i \in 1..Len(inbox) : inbox[i].what = "stop"
        /\ result = "success" => s \in reached
        /\ pc[s] = "done" /\ \A t \in Slews : ~InProgress(t)
    BY <1>0, <1>2 DEF WaitInv, TurnInv
  <2>2. reached \subseteq reached'
    BY GotoSteps DEF Quiet, Commanded, Lost, LinkLost, Receive, Device, Execute, Arrive, GiveUp, deviceVars
  <2>3. result' = "success" => s \in reached'
    BY <1>0, <2>1, <2>2, RecordSteps, TruthTold
  <2>4. (\A i \in 1..Len(inbox') : inbox'[i].what = "stop") /\ device'.slew = s
    <3>1. CASE Quiet \/ Receive \/ Arrive \/ GiveUp
      BY <1>0, <2>1, <3>1 DEF Quiet, Receive, Arrive, GiveUp, linkVars, deviceVars, LinkTypes
    <3>2. CASE Lost
      BY <2>1, <3>2 DEF Lost, LinkLost, deviceVars
    <3>3. ASSUME NEW q \in Reqs, NEW w \in {"goto", "click", "stop"}, Commanded(q, w)
          PROVE  (\A i \in 1..Len(inbox') : inbox'[i].what = "stop") /\ device'.slew = s
      <4>1. w = "stop"
        BY <2>1, <3>3 DEF Commanded, InProgress
      <4>2. \A i \in 1..Len(inbox') : i = Len(inbox) + 1 \/ i \in 1..Len(inbox)
        BY <1>0, <3>3, CommandSent DEF Commanded
      <4>3. \A i \in 1..Len(inbox') : inbox'[i].what = "stop"
        BY <1>0, <2>1, <3>3, <4>1, <4>2, CommandSent DEF Commanded
      <4> QED
        BY <2>1, <3>3, <4>3 DEF Commanded, deviceVars
    <3>4. CASE Execute
      <4>1. PICK q \in Reqs, w \in {"goto", "click", "stop"} :
               /\ inbox[1].what = w
               /\ \/ w # "stop" /\ device' = [doing |-> "moving", slew |-> q]
                  \/ device'.slew = device.slew
        BY <1>0, <3>4, Executed
      <4>2. /\ Len(inbox) \in Nat \ {0} /\ Len(inbox') = Len(inbox) - 1
            /\ \A i \in 1..Len(inbox') : inbox'[i] = inbox[i + 1]
        BY <1>0, <3>4, CommandTaken
      <4>3. 1 \in 1..Len(inbox) /\ \A i \in 1..Len(inbox') : i + 1 \in 1..Len(inbox)
        BY <4>2
      <4> QED
        BY <2>1, <4>1, <4>2, <4>3
    <3> QED
      BY <3>1, <3>2, <3>3, <3>4, GotoSteps DEF Device
  <2> QED
    BY <2>3, <2>4
<1> QED
  BY <1>1, <1>2

\* Every step keeps that what is reported as reached was reached: the step that reads
\* a notification finds the slew of the pending GoTo reached (session.py:1880).
LEMMA SaysKept ==
    /\ ~Overlap /\ GotoTypes /\ TurnInv /\ AskInv /\ KindInv /\ TellInv /\ WaitInv /\ DoneInv
    /\ SaysReached /\ [Next]_vars
    => SaysReached'
<1> SUFFICES ASSUME ~Overlap, GotoTypes, TurnInv, AskInv, KindInv, TellInv, WaitInv, DoneInv,
                    SaysReached, [Next]_vars
             PROVE  SaysReached'
  OBVIOUS
<1>0. target \in Slews \cup {None} /\ position \in Slews \cup {None}
  BY DEF GotoTypes, SlewTypes
<1>1. reached \subseteq reached'
  BY GotoSteps DEF Quiet, Commanded, Lost, LinkLost, Receive, Device, Execute, Arrive, GiveUp, deviceVars
<1>2. ASSUME position' # None, kind'[position'] = "goto" PROVE position' \in reached'
  <2>1. CASE position' = position
    BY <1>0, <1>1, <1>2, <2>1, KindSteps DEF SaysReached, ReportedIsReached
  <2>2. ASSUME NEW s \in Slews, position' = s, Live(s), result = "success" PROVE s \in reached'
    BY <1>1, <1>2, <2>2, KindSteps DEF WaitInv
  <2> QED
    BY <2>1, <2>2, TaskSteps
<1>3. ASSUME target' # None, ~pending', kind'[target'] = "goto", device'.slew = target'
      PROVE  target' \in reached'
  <2>1. target' = target /\ target \in Slews /\ (~pending \/ Told)
    BY <1>0, <1>3, RecordSteps
  <2>2. kind[target] = "goto" /\ pc[target] = "done"
    BY <1>3, <2>1, KindSteps DEF DoneInv
  <2>3. device.slew = target
    BY <1>3, <2>1, <2>2, NotTakenAgain
  <2>4. target \in reached
    BY <1>3, <2>1, <2>2, <2>3, TruthTold DEF SaysReached, RecordIsReached
  <2> QED
    BY <1>1, <2>1, <2>4
<1>4. ReportedIsReached'
  BY <1>2 DEF ReportedIsReached
<1>5. RecordIsReached'
  BY <1>3 DEF RecordIsReached
<1> QED
  BY <1>4, <1>5 DEF SaysReached

\* The invariant holds when nothing was asked for yet.
LEMMA GotoInvInit == Init => GotoInv
<1> SUFFICES ASSUME Init PROVE GotoInv
  OBVIOUS
<1>1. inbox = <<>> /\ wire = <<>>
  BY DEF Init
<1>2. \A i \in Int : ~(i \in 1..Len(inbox)) /\ ~(i \in 1..Len(wire))
  BY <1>1
<1>3. /\ \A r \in Reqs : Silent(r)
      /\ \A i \in Int, r \in Reqs : ~Clicks(i, r)
      /\ \A i \in Int : ~Tells(i)
  BY <1>2 DEF Silent, Asks, Acks, Clicks, Tells
<1>4. \A r \in Reqs : pc[r] = "idle" /\ ~InProgress(r) /\ ~Waits(r)
  BY DEF Init, InProgress, Waits
<1>5. \A s \in Slews : s \in Reqs /\ ~Live(s) /\ kind[s] = "goto"
  BY DEF Init, Live, Reqs
<1>6. TurnInv /\ WaitInv /\ AbortInv
  BY <1>4, <1>5 DEF TurnInv, WaitInv, AbortInv, Reqs
<1>7. AskInv /\ DoesInv /\ KindInv /\ TellInv
  BY <1>3, <1>4, <1>5 DEF AskInv, DoesInv, KindInv, TellInv
<1>8. DoneInv /\ SaysReached
  BY DEF Init, DoneInv, SaysReached, ReportedIsReached, RecordIsReached
<1> QED
  BY <1>6, <1>7, <1>8 DEF GotoInv

\* Every step keeps the invariant, each part by those before it.
LEMMA GotoInvKept == ~Overlap /\ GotoTypes /\ GotoInv /\ [Next]_vars => GotoInv'
  BY TurnKept, AskKept, DoesKept, KindKept, TellKept, AbortKept, WaitKept, DoneKept, SaysKept
  DEF GotoInv

\* For any slews, aborts and other requests made one at a time, whatever is lost,
\* refused or late, the position that is reported and the GoTo that is recorded as
\* done are of a target that the mount reached (session.py:1880, :3597), though no
\* notification says which GoTo it ends.
THEOREM ReachedAsSaid ==
    ASSUME ~Overlap PROVE Spec => []SaysReached
<1>1. GotoTypes /\ GotoInv /\ [Next]_vars => GotoInv'
  BY GotoInvKept
<1>2. GotoInv => SaysReached
  BY DEF GotoInv
<1> QED
  BY <1>1, <1>2, GotoInvInit, GotoTypesInit, GotoTypesKept, PTL DEF Spec

\* An AbortSlew that returns without an error leaves the mount at rest, no command
\* on its way to it, no GoTo pending and Slewing false (telescope.py:463).
THEOREM AbortLeavesRest ==
    ASSUME ~Overlap PROVE Spec => AbortStops
<1> DEFINE Stops == \A r \in Aborts : pc[r] # "done" /\ pc'[r] = "done" =>
                       device'.doing # "moving" /\ inbox' = <<>> /\ ~pending' /\ ~slewing'
<1>1. ASSUME GotoTypes, GotoInv, [Next]_vars PROVE Stops
  <2> SUFFICES ASSUME NEW r \in Aborts, pc[r] # "done", pc'[r] = "done"
               PROVE  device'.doing # "moving" /\ inbox' = <<>> /\ ~pending' /\ ~slewing'
    OBVIOUS
  <2>0. pc \in [Reqs -> Places] /\ r \in Reqs /\ r \notin Slews
    BY <1>1, GotoAssumption DEF GotoAssumption, GotoTypes, SlewTypes, Reqs
  <2>1. Stopped(r)
    <3>1. Abort(r) => pc'[r] = "stopping"
      BY <2>0 DEF Abort, StopBegin, Move
    <3>2. SendStop(r) => pc'[r] = "stopSent"
      BY <2>0 DEF SendStop, Move
    <3>3. StopFails(r) => pc'[r] = "failed"
      BY <2>0 DEF StopFails, Move
    <3> QED
      BY <1>1, <3>1, <3>2, <3>3, AbortSteps
  <2>2. pc[r] = "stopSent" /\ answer = "ok"
    BY <2>1 DEF Stopped
  <2>3. device.doing # "moving" /\ inbox = <<>>
    BY <1>1, <2>0, <2>2 DEF GotoInv, DoesInv, Granted, Does, Waits, AskInv
  <2>4. ~pending
    BY <1>1, <2>2 DEF GotoInv, AbortInv, InProgress
  <2>5. ~slewing' /\ pending' = pending /\ device' = device /\ inbox' = inbox
    BY <2>0, <2>1 DEF Stopped, gotoVars, deviceVars, linkVars
  <2> QED
    BY <2>3, <2>4, <2>5
<1>2. GotoTypes /\ GotoInv /\ [Next]_vars => GotoInv'
  BY GotoInvKept
<1>3. Spec => [][Stops]_vars
  BY <1>1, <1>2, GotoInvInit, GotoTypesInit, GotoTypesKept, PTL DEF Spec
<1> QED
  BY <1>3 DEF AbortStops

(***************************************************************************)
(* Motion: both axes                                                       *)
(***************************************************************************)

\* Both axes, in some order.
LEMMA BothAxesType == BothAxes \in Seq(Axes)
<1> DEFINE N == Cardinality(Axes)
<1>1. N \in Nat /\ ExistsBijection(1..N, Axes)
  BY FS_CardinalityType, MotionAssumption DEF MotionAssumption
<1>2. PICK g \in Bijection(1..N, Axes) : TRUE
  BY <1>1 DEF ExistsBijection
<1>3. g \in [1..N -> Axes] /\ IsInjective(g)
  BY <1>2 DEF Bijection, Injection
<1>4. BothAxes \in [1..N -> Axes] /\ IsInjective(BothAxes)
  BY <1>3 DEF BothAxes, SetToSeq
<1>5. BothAxes \in Seq(Axes)
  BY <1>1, <1>4
<1> QED BY <1>5

(***************************************************************************)
(* Motion: types and the command lock                                      *)
(***************************************************************************)

\* r has joined the commands: it waits for the lock, or holds it.
Queued(r) == stage[r] \in {"queued", "sent", "ok", "refused", "lost"}

\* The lock's queue holds who waits, and the first of them has the command that
\* was sent or answered.
LockInv ==
    /\ \A r \in Motions : Queued(r) <=> \E i \in 1..Len(lock) : lock[i] = r
    /\ \A r \in Motions : stage[r] \in {"sent", "ok", "refused", "lost"} => lock # <<>> /\ lock[1] = r

\* Who has a command has the axis it is about.
AxisInv == \A r \in Motions : Queued(r) => call[r].axes # <<>>

MotionCorrect == MotionTypeOK /\ LockInv /\ AxisInv

\* Types and lock are as they should be when nothing was asked for yet.
LEMMA MotionCorrectInit == MotionInit => MotionCorrect
<1> SUFFICES ASSUME MotionInit PROVE MotionCorrect
  OBVIOUS
<1>1. NoCall \in [op : Ops, rate : Rates \cup {0}, axes : Seq(Axes)]
  BY DEF NoCall, Ops
<1>2. IsInjective(lock) /\ lock \in Seq(Motions)
  BY DEF MotionInit, IsInjective
<1>3. MotionTypeOK
  BY <1>1, <1>2 DEF MotionInit, MotionTypeOK, Rest, Vectors, Stages
<1> QED
  BY <1>3 DEF MotionInit, MotionCorrect, LockInv, AxisInv, Queued

\* One who was not in the queue joins it.
LEMMA Joins ==
    ASSUME MotionCorrect, NEW r \in Motions, stage[r] = "next",
           lock' = Append(lock, r), stage' = [stage EXCEPT ![r] = "queued"]
    PROVE  lock' \in Seq(Motions) /\ IsInjective(lock') /\ LockInv'
<1>1. lock \in Seq(Motions) /\ stage \in [Motions -> Stages] /\ Len(lock) \in Nat
  BY DEF MotionCorrect, MotionTypeOK
<1>2. /\ lock' \in Seq(Motions) /\ Len(lock') = Len(lock) + 1
      /\ lock'[Len(lock) + 1] = r
      /\ \A i \in 1..Len(lock) : lock'[i] = lock[i]
  BY <1>1, Appended
<1>3. \A i \in 1..Len(lock) : lock[i] # r
  BY DEF MotionCorrect, LockInv, Queued
<1>4. IsInjective(lock')
  <2>1. DOMAIN lock' = 1..(Len(lock) + 1) /\ DOMAIN lock = 1..Len(lock)
    BY <1>1, <1>2
  <2>2. \A i, j \in 1..Len(lock) : lock[i] = lock[j] => i = j
    BY <2>1 DEF MotionCorrect, MotionTypeOK, IsInjective
  <2>3. SUFFICES ASSUME NEW i \in 1..(Len(lock) + 1), NEW j \in 1..(Len(lock) + 1),
                        lock'[i] = lock'[j]
                 PROVE  i = j
    BY <2>1 DEF IsInjective
  <2> QED
    BY <1>1, <1>2, <1>3, <2>2, <2>3
<1>5. \A q \in Motions : Queued(q)' <=> \E i \in 1..Len(lock') : lock'[i] = q
  <2> SUFFICES ASSUME NEW q \in Motions
               PROVE  Queued(q)' <=> \E i \in 1..(Len(lock) + 1) : lock'[i] = q
    BY <1>2
  <2>1. CASE q = r
    BY <1>1, <1>2, <2>1 DEF Queued
  <2>2. CASE q # r
    <3>1. Queued(q)' <=> Queued(q)
      BY <1>1, <2>2 DEF Queued
    <3>2. Queued(q) <=> \E i \in 1..Len(lock) : lock[i] = q
      BY DEF MotionCorrect, LockInv
    <3>3. \A i \in 1..(Len(lock) + 1) : i \in 1..Len(lock) \/ i = Len(lock) + 1
      BY <1>1
    <3>4. \A i \in 1..Len(lock) : i \in 1..(Len(lock) + 1)
      BY <1>1
    <3> QED
      BY <1>2, <2>2, <3>1, <3>2, <3>3, <3>4
  <2> QED
    BY <2>1, <2>2
<1>6. ASSUME NEW q \in Motions, stage'[q] \in {"sent", "ok", "refused", "lost"}
      PROVE  lock' # <<>> /\ lock'[1] = q
  <2>1. stage[q] = stage'[q]
    BY <1>1, <1>6
  <2>2. lock # <<>> /\ lock[1] = q
    BY <1>6, <2>1 DEF MotionCorrect, LockInv
  <2>3. 1 \in 1..Len(lock)
    BY <1>1, <2>2
  <2> QED
    BY <1>1, <1>2, <2>2, <2>3
<1> QED
  BY <1>2, <1>4, <1>5, <1>6 DEF LockInv

\* The first of the queue leaves it.
LEMMA Leaves ==
    ASSUME MotionCorrect, NEW r \in Motions, stage[r] \in {"ok", "refused", "lost"},
           NEW place \in {"next", "failed"},
           lock' = Tail(lock), stage' = [stage EXCEPT ![r] = place]
    PROVE  /\ lock' \in Seq(Motions) /\ IsInjective(lock') /\ LockInv'
           /\ Len(lock) \in Nat \ {0} /\ lock[1] = r /\ Len(lock') = Len(lock) - 1
           /\ \A i \in 1..Len(lock) - 1 : lock'[i] = lock[i + 1]
<1>1. lock \in Seq(Motions) /\ stage \in [Motions -> Stages]
  BY DEF MotionCorrect, MotionTypeOK
<1>2. lock # <<>> /\ lock[1] = r
  BY DEF MotionCorrect, LockInv
<1>3. /\ lock' \in Seq(Motions) /\ Len(lock') = Len(lock) - 1 /\ Len(lock) \in Nat \ {0}
      /\ \A i \in 1..Len(lock) - 1 : lock'[i] = lock[i + 1]
  BY <1>1, <1>2, Popped
<1>4. \A i, j \in 1..Len(lock) : lock[i] = lock[j] => i = j
  BY <1>1 DEF MotionCorrect, MotionTypeOK, IsInjective
<1>5. IsInjective(lock')
  <2>1. DOMAIN lock' = 1..(Len(lock) - 1)
    BY <1>3
  <2>2. SUFFICES ASSUME NEW i \in 1..(Len(lock) - 1), NEW j \in 1..(Len(lock) - 1),
                        lock'[i] = lock'[j]
                 PROVE  i = j
    BY <2>1 DEF IsInjective
  <2> QED
    BY <1>3, <1>4, <2>2
<1>6. \A q \in Motions : Queued(q)' <=> \E i \in 1..Len(lock') : lock'[i] = q
  <2> SUFFICES ASSUME NEW q \in Motions
               PROVE  Queued(q)' <=> \E i \in 1..(Len(lock) - 1) : lock[i + 1] = q
    BY <1>3
  <2>1. CASE q = r
    BY <1>1, <1>2, <1>3, <1>4, <2>1 DEF Queued
  <2>2. CASE q # r
    <3>1. Queued(q)' <=> Queued(q)
      BY <1>1, <2>2 DEF Queued
    <3>2. Queued(q) <=> \E i \in 1..Len(lock) : lock[i] = q
      BY DEF MotionCorrect, LockInv
    <3>3. ASSUME NEW i \in 1..Len(lock), lock[i] = q
          PROVE  \E j \in 1..(Len(lock) - 1) : lock[j + 1] = q
      <4>1. i - 1 \in 1..(Len(lock) - 1) /\ (i - 1) + 1 = i
        BY <1>2, <1>3, <2>2, <3>3
      <4> QED
        BY <3>3, <4>1
    <3>4. \A j \in 1..(Len(lock) - 1) : j + 1 \in 1..Len(lock)
      BY <1>3
    <3> QED
      BY <3>1, <3>2, <3>3, <3>4
  <2> QED
    BY <2>1, <2>2
<1>7. ASSUME NEW q \in Motions, stage'[q] \in {"sent", "ok", "refused", "lost"}
      PROVE  FALSE
  <2>1. q # r /\ stage[q] = stage'[q]
    BY <1>1, <1>7
  <2> QED
    BY <1>2, <1>7, <2>1 DEF MotionCorrect, LockInv
<1> QED
  BY <1>2, <1>3, <1>5, <1>6, <1>7 DEF LockInv

\* A request outside the queue goes to another place outside.
LEMMA Stays ==
    ASSUME MotionCorrect, NEW r \in Motions, ~Queued(r), NEW place \in {"begun", "next", "done", "failed"},
           UNCHANGED lock, stage' = [stage EXCEPT ![r] = place]
    PROVE  LockInv' /\ stage' \in [Motions -> Stages] /\ \A q \in Motions : Queued(q)' <=> Queued(q)
<1>1. stage \in [Motions -> Stages]
  BY DEF MotionCorrect, MotionTypeOK
<1>2. \A q \in Motions : Queued(q)' <=> Queued(q)
  BY <1>1 DEF Queued
<1> QED
  BY <1>1, <1>2 DEF MotionCorrect, LockInv, Queued, Stages

\* Every step keeps the types and who holds the command lock.
LEMMA MotionCorrectKept == MotionCorrect /\ [MotionNext]_motionVars => MotionCorrect'
<1> SUFFICES ASSUME MotionCorrect, [MotionNext]_motionVars PROVE MotionCorrect'
  OBVIOUS
<1> USE DEF Stages
<1>0. MotionTypeOK /\ LockInv /\ AxisInv
  BY DEF MotionCorrect
<1>1. CASE UNCHANGED motionVars
  BY <1>0, <1>1 DEF motionVars, sessionVars, MotionCorrect, MotionTypeOK, LockInv, AxisInv, Queued
<1>2. ASSUME NEW r \in Motions, NEW op \in Ops, NEW speed \in Rates \cup {0},
             NEW axes \in Seq(Axes), Asked(r, op, speed, axes),
             UNCHANGED <<sessionVars, vector, lock, moving, unsure>>
      PROVE  MotionCorrect'
  <2>1. ~Queued(r) /\ stage' = [stage EXCEPT ![r] = "begun"]
    BY <1>2 DEF Asked, Queued, Enter
  <2>2. LockInv' /\ stage' \in [Motions -> Stages] /\ \A q \in Motions : Queued(q)' <=> Queued(q)
    BY <1>2, <2>1, Stays
  <2>3. call' \in [Motions -> [op : Ops, rate : Rates \cup {0}, axes : Seq(Axes)]]
    BY <1>0, <1>2 DEF Asked, MotionTypeOK
  <2>4. \A q \in Motions : q # r => call'[q] = call[q]
    BY <1>0, <1>2 DEF Asked, MotionTypeOK
  <2>5. AxisInv'
    BY <1>0, <2>1, <2>2, <2>4 DEF AxisInv
  <2>6. MotionTypeOK'
    BY <1>0, <1>2, <2>1, <2>2, <2>3 DEF MotionTypeOK, Asked, sessionVars
  <2> QED
    BY <2>2, <2>5, <2>6 DEF MotionCorrect
<1>3. ASSUME NEW r \in Motions, NEW a \in Axes, NEW speed \in Rates \cup {0}, MoveAxisAt(r, a, speed)
      PROVE  MotionCorrect'
  <2>1. <<a>> \in Seq(Axes)
    OBVIOUS
  <2>2. CASE speed = 0
    BY <1>2, <1>3, <2>1, <2>2 DEF MoveAxisAt, Ops
  <2>3. CASE speed # 0
    BY <1>2, <1>3, <2>1, <2>3 DEF MoveAxisAt, Ops
  <2> QED
    BY <2>2, <2>3
<1>4. ASSUME NEW r \in Motions, NEW op \in {"halt", "disconnect", "abort"}, StopBoth(r, op)
      PROVE  MotionCorrect'
  BY <1>2, <1>4, BothAxesType DEF StopBoth, Ops
\* What a step outside the queue may change.
<1>5. ASSUME NEW r \in Motions, NEW place \in {"begun", "next", "done", "failed"}, ~Queued(r),
             Enter(r, place), UNCHANGED <<sessionVars, vector, lock, moving, unsure>>,
             \/ UNCHANGED call
             \/ call[r].axes # <<>> /\ call' = [call EXCEPT ![r].axes = Tail(@)]
             \/ call' = [call EXCEPT ![r] = NoCall],
             stopped' \subseteq Axes
      PROVE  MotionCorrect'
  <2>1. LockInv' /\ stage' \in [Motions -> Stages] /\ \A q \in Motions : Queued(q)' <=> Queued(q)
    BY <1>5, Stays DEF Enter
  <2>2. /\ call' \in [Motions -> [op : Ops, rate : Rates \cup {0}, axes : Seq(Axes)]]
        /\ \A q \in Motions : q # r => call'[q] = call[q]
    <3>1. CASE UNCHANGED call
      BY <1>0, <3>1 DEF MotionTypeOK
    <3>2. CASE call[r].axes # <<>> /\ call' = [call EXCEPT ![r].axes = Tail(@)]
      <4>1. Tail(call[r].axes) \in Seq(Axes)
        BY <1>0, <3>2, Popped DEF MotionTypeOK
      <4> QED
        BY <1>0, <3>2, <4>1 DEF MotionTypeOK
    <3>3. CASE call' = [call EXCEPT ![r] = NoCall]
      <4>1. NoCall \in [op : Ops, rate : Rates \cup {0}, axes : Seq(Axes)]
        BY DEF NoCall, Ops
      <4> QED
        BY <1>0, <3>3, <4>1 DEF MotionTypeOK
    <3> QED
      BY <1>5, <3>1, <3>2, <3>3
  <2>3. AxisInv'
    BY <1>0, <1>5, <2>1, <2>2 DEF AxisInv
  <2>4. MotionTypeOK'
    BY <1>0, <1>5, <2>1, <2>2 DEF MotionTypeOK, sessionVars, Enter
  <2> QED
    BY <2>1, <2>3, <2>4 DEF MotionCorrect
<1>6. ASSUME NEW r \in Motions, Ensured(r)
      PROVE  MotionCorrect'
  BY <1>0, <1>5, <1>6 DEF Ensured, Queued, MotionTypeOK
<1>7. ASSUME NEW r \in Motions, EnsureFails(r)
      PROVE  MotionCorrect'
  BY <1>0, <1>5, <1>7 DEF EnsureFails, Finish, Queued, MotionTypeOK
<1>8. ASSUME NEW r \in Motions, Return(r)
      PROVE  MotionCorrect'
  BY <1>0, <1>5, <1>8 DEF Return, Finish, Queued, MotionTypeOK
\* The queue is joined with the vector of the recorded rates.
<1>9. ASSUME NEW r \in Motions, stage[r] = "next", call[r].axes # <<>>, rates' \in Vectors,
             SendVector(r), UNCHANGED <<active, moving, unsure, stopped>>
      PROVE  MotionCorrect'
  <2>1. lock' \in Seq(Motions) /\ IsInjective(lock') /\ LockInv'
    BY <1>9, Joins DEF MotionCorrect, SendVector, Enter
  <2>2. AxisInv'
    BY <1>0, <1>9 DEF SendVector, Enter, AxisInv, Queued, MotionTypeOK
  <2>3. MotionTypeOK'
    <3>1. vector' \in [Motions -> Vectors] /\ stage' \in [Motions -> Stages]
      BY <1>0, <1>9 DEF MotionTypeOK, SendVector, Enter
    <3>2. \A q \in Motions : stage'[q] = "sent" => Head(lock') = q
      BY <2>1, Popped DEF LockInv
    <3> QED
      BY <1>0, <1>9, <2>1, <3>1, <3>2 DEF MotionTypeOK, SendVector
  <2> QED
    BY <2>1, <2>2, <2>3 DEF MotionCorrect
<1>10. ASSUME NEW r \in Motions, call[r].axes # <<>>
       PROVE  Axis(r) \in Axes
  BY <1>0, <1>10, Popped DEF MotionTypeOK, Axis
<1>11. ASSUME NEW r \in Motions, StartMotion(r)
       PROVE  MotionCorrect'
  BY <1>0, <1>9, <1>11 DEF StartMotion, MotionTypeOK, Vectors
<1>12. ASSUME NEW r \in Motions, StopAxis(r)
       PROVE  MotionCorrect'
  <2>1. rates' \in Vectors /\ Axis(r) \in Axes
    BY <1>0, <1>10, <1>12 DEF StopAxis, MotionTypeOK, Vectors
  <2>2. CASE SendVector(r) /\ UNCHANGED stopped
    BY <1>9, <1>12, <2>1, <2>2 DEF StopAxis
  <2>3. CASE NothingToStop(r) /\ AxisDone(r) /\ UNCHANGED <<stage, vector, lock>>
    <3>1. call' \in [Motions -> [op : Ops, rate : Rates \cup {0}, axes : Seq(Axes)]]
          /\ \A q \in Motions : q # r => call'[q] = call[q]
      <4>1. Tail(call[r].axes) \in Seq(Axes)
        BY <1>0, <1>12, Popped DEF StopAxis, MotionTypeOK
      <4> QED
        BY <1>0, <2>3, <4>1 DEF AxisDone, MotionTypeOK
    <3>2. LockInv' /\ AxisInv'
      BY <1>0, <1>12, <2>3, <3>1 DEF StopAxis, LockInv, AxisInv, Queued
    <3>3. MotionTypeOK'
      BY <1>0, <1>12, <2>1, <2>3, <3>1 DEF MotionTypeOK, StopAxis, AxisDone
    <3> QED
      BY <3>2, <3>3 DEF MotionCorrect
  <2> QED
    BY <1>12, <2>2, <2>3 DEF StopAxis
<1>13. ASSUME NEW r \in Motions, Send(r)
       PROVE  MotionCorrect'
  <2>1. lock \in Seq(Motions) /\ Queued(r) /\ stage' = [stage EXCEPT ![r] = "sent"]
    BY <1>0, <1>13 DEF MotionTypeOK, Send, Queued, Enter
  <2>2. lock # <<>> /\ lock[1] = r
    BY <1>0, <1>13, <2>1, Popped DEF Send, HoldsLock, LockInv
  <2>3. \A q \in Motions : Queued(q)' <=> Queued(q)
    BY <1>0, <2>1 DEF Queued, MotionTypeOK
  <2>4. LockInv' /\ AxisInv'
    BY <1>0, <1>13, <2>1, <2>2, <2>3 DEF Send, LockInv, AxisInv, MotionTypeOK
  <2>5. MotionTypeOK'
    BY <1>0, <1>13, <2>1 DEF MotionTypeOK, Send, HoldsLock, sessionVars
  <2> QED
    BY <2>4, <2>5 DEF MotionCorrect
<1>14. ASSUME NEW r \in Motions, NEW how \in {"ok", "refused", "lost"}, Answer(r, how)
       PROVE  MotionCorrect'
  <2>1. stage[r] = "sent" /\ stage' = [stage EXCEPT ![r] = how]
    BY <1>14 DEF Answer, Enter
  <2>2. \A q \in Motions : Queued(q)' <=> Queued(q)
    BY <1>0, <2>1 DEF Queued, MotionTypeOK
  <2>3. LockInv' /\ AxisInv'
    BY <1>0, <1>14, <2>1, <2>2 DEF Answer, LockInv, AxisInv, MotionTypeOK
  <2>4. moving' \in Vectors /\ unsure' \in BOOLEAN
    BY <1>0, <1>14 DEF Answer, MotionTypeOK
  <2>5. MotionTypeOK'
    BY <1>0, <1>14, <2>1, <2>4 DEF MotionTypeOK, Answer, sessionVars
  <2> QED
    BY <2>3, <2>5 DEF MotionCorrect
<1>15. ASSUME NEW r \in Motions, Answered(r)
       PROVE  MotionCorrect'
  <2>1. PICK place \in {"next", "failed"} : stage' = [stage EXCEPT ![r] = place]
    BY <1>15 DEF Answered, AxisDone, Failed, Enter, Finish
  <2>2. stage[r] \in {"ok", "refused", "lost"} /\ lock' = Tail(lock) /\ Queued(r)
    BY <1>15 DEF Answered, Unlocked, Queued
  <2>3. lock' \in Seq(Motions) /\ IsInjective(lock') /\ LockInv'
    BY <2>1, <2>2, Leaves
  <2>4. call[r].axes # <<>> /\ Axis(r) \in Axes
    BY <1>0, <1>10, <2>2 DEF AxisInv
  <2>5. /\ call' \in [Motions -> [op : Ops, rate : Rates \cup {0}, axes : Seq(Axes)]]
        /\ \A q \in Motions : q # r => call'[q] = call[q]
    <3>1. CASE call' = [call EXCEPT ![r].axes = Tail(@)]
      <4>1. Tail(call[r].axes) \in Seq(Axes)
        BY <1>0, <2>4, Popped DEF MotionTypeOK
      <4> QED
        BY <1>0, <3>1, <4>1 DEF MotionTypeOK
    <3>2. CASE call' = [call EXCEPT ![r] = NoCall]
      <4>1. NoCall \in [op : Ops, rate : Rates \cup {0}, axes : Seq(Axes)]
        BY DEF NoCall, Ops
      <4> QED
        BY <1>0, <3>2, <4>1 DEF MotionTypeOK
    <3> QED
      BY <1>15, <3>1, <3>2 DEF Answered, AxisDone, Failed, Finish
  <2>6. stopped' \subseteq Axes
    BY <1>0, <1>15, <2>4 DEF Answered, AxisDone, Failed, MotionTypeOK
  <2>7. AxisInv'
    BY <1>0, <2>1, <2>5 DEF AxisInv, Queued, MotionTypeOK
  <2>8. MotionTypeOK'
    <3>1. active' \in BOOLEAN
      BY <1>0, <1>15 DEF Answered, Flag, MotionTypeOK
    <3>2. vector' \in [Motions -> Vectors]
      BY <1>0, <1>15 DEF Answered, MotionTypeOK, Vectors, Rest
    <3>3. stage' \in [Motions -> Stages] /\ \A q \in Motions : stage'[q] = "sent" => Head(lock') = q
      BY <1>0, <2>1, <2>3, Popped DEF MotionTypeOK, LockInv
    <3> QED
      BY <1>0, <1>15, <2>3, <2>5, <2>6, <3>1, <3>2, <3>3 DEF MotionTypeOK, Answered
  <2> QED
    BY <2>3, <2>7, <2>8 DEF MotionCorrect
<1> QED
  BY <1>1, <1>3, <1>4, <1>6, <1>7, <1>8, <1>11, <1>12, <1>13, <1>14, <1>15
     DEF MotionNext, MotionRequest, Step

\* The variables keep their types, and the command lock its order: the
\* command that was sent is that of the first who waits.
THEOREM MotionTypeCorrect == MotionSpec => []MotionTypeOK
<1>1. MotionCorrect => MotionTypeOK
  BY DEF MotionCorrect
<1> QED
  BY MotionCorrectInit, MotionCorrectKept, <1>1, PTL DEF MotionSpec

(***************************************************************************)
(* Motion: a motion is seen                                                *)
(***************************************************************************)

\* The mount does what the command said that was accepted last.
AcceptedInv == \A r \in Motions : stage[r] = "ok" => moving = vector[r]

SeenInv == MotionCorrect /\ AcceptedInv /\ MotionIsSeen

\* Every step keeps what the flag and the recorded rates say of the mount.
LEMMA SeenKept == SeenInv /\ [MotionNext]_motionVars => SeenInv'
<1> SUFFICES ASSUME SeenInv, [MotionNext]_motionVars PROVE SeenInv'
  OBVIOUS
<1>0. MotionCorrect /\ MotionCorrect' /\ AcceptedInv /\ MotionIsSeen /\ stage \in [Motions -> Stages]
  BY MotionCorrectKept DEF SeenInv, MotionCorrect, MotionTypeOK
\* Steps without an answer.
<1>1. ASSUME UNCHANGED <<moving, active, unsure>>,
             \A q \in Motions : stage'[q] = "ok" <=> stage[q] = "ok",
             \A q \in Motions : stage[q] = "ok" => vector'[q] = vector[q]
      PROVE  SeenInv'
  BY <1>0, <1>1 DEF SeenInv, AcceptedInv, MotionIsSeen
<1>2. CASE UNCHANGED motionVars
  BY <1>1, <1>2 DEF motionVars, sessionVars
<1>3. ASSUME NEW r \in Motions, MotionRequest(r)
      PROVE  SeenInv'
  BY <1>0, <1>1, <1>3 DEF MotionRequest, MoveAxisAt, StopBoth, Asked, Enter, sessionVars
<1>4. ASSUME NEW r \in Motions, Ensured(r) \/ EnsureFails(r) \/ Send(r) \/ Return(r)
      PROVE  SeenInv'
  <2>1. UNCHANGED <<moving, active, unsure, vector>>
    BY <1>4 DEF Ensured, EnsureFails, Send, Return, sessionVars
  <2>2. PICK place \in {"next", "done", "failed", "sent"} :
             stage' = [stage EXCEPT ![r] = place] /\ stage[r] # "ok"
    BY <1>4 DEF Ensured, EnsureFails, Send, Return, Finish, Enter
  <2> QED
    BY <1>0, <1>1, <2>1, <2>2
<1>5. ASSUME NEW r \in Motions, StartMotion(r)
      PROVE  SeenInv'
  BY <1>0, <1>1, <1>5 DEF StartMotion, SendVector, Enter, MotionCorrect, MotionTypeOK
<1>6. ASSUME NEW r \in Motions, StopAxis(r)
      PROVE  SeenInv'
  <2>1. CASE SendVector(r)
    BY <1>0, <1>1, <1>6, <2>1 DEF StopAxis, SendVector, Enter, MotionCorrect, MotionTypeOK
  <2>2. CASE UNCHANGED <<stage, vector, lock>>
    BY <1>1, <1>6, <2>2 DEF StopAxis
  <2> QED
    BY <1>6, <2>1, <2>2 DEF StopAxis
<1>7. ASSUME NEW r \in Motions, NEW how \in {"ok", "refused", "lost"}, Answer(r, how)
      PROVE  SeenInv'
  <2>1. /\ stage[r] = "sent" /\ stage' = [stage EXCEPT ![r] = how]
        /\ UNCHANGED <<active, vector>>
    BY <1>7 DEF Answer, Enter, sessionVars
  \* The first in the queue is the only one whose command is out.
  <2>2. \A q \in Motions : q # r => stage[q] # "ok" /\ stage'[q] = stage[q]
    BY <1>0, <2>1 DEF MotionCorrect, LockInv
  <2>3. AcceptedInv'
    BY <1>0, <1>7, <2>1, <2>2 DEF AcceptedInv, Answer
  <2>4. MotionIsSeen'
    <3>1. CASE how = "ok"
      BY <1>0, <2>1, <3>1 DEF MotionIsSeen
    <3>2. CASE how = "lost"
      BY <1>7, <3>2 DEF Answer, MotionIsSeen
    <3>3. CASE how = "refused"
      BY <1>0, <1>7, <2>1, <2>2, <3>3 DEF Answer, MotionIsSeen
    <3> QED
      BY <3>1, <3>2, <3>3
  <2> QED
    BY <1>0, <2>3, <2>4 DEF SeenInv
<1>8. ASSUME NEW r \in Motions, Answered(r)
      PROVE  SeenInv'
  <2>1. PICK place \in {"next", "failed"} : stage' = [stage EXCEPT ![r] = place]
    BY <1>8 DEF Answered, AxisDone, Failed, Enter, Finish
  <2>2. /\ stage[r] \in {"ok", "refused", "lost"} /\ active' = Flag(r)
        /\ vector' = [vector EXCEPT ![r] = Rest]
        /\ UNCHANGED <<moving, unsure>>
    BY <1>8 DEF Answered
  <2>3. \A q \in Motions : stage'[q] # "ok" /\ (q # r => stage[q] # "ok")
    BY <1>0, <2>1, <2>2 DEF MotionCorrect, LockInv
  <2>4. AcceptedInv'
    BY <2>3 DEF AcceptedInv
  <2>5. MotionIsSeen'
    <3>1. CASE stage[r] = "ok"
      BY <1>0, <2>2, <3>1 DEF MotionIsSeen, AcceptedInv, Flag
    <3>2. CASE stage[r] # "ok"
      BY <1>0, <2>2, <2>3, <3>2 DEF MotionIsSeen, Flag
    <3> QED
      BY <3>1, <3>2
  <2> QED
    BY <1>0, <2>4, <2>5 DEF SeenInv
<1> QED
  BY <1>2, <1>3, <1>4, <1>5, <1>6, <1>7, <1>8 DEF MotionNext, Step

\* Flag, rates and mount agree when nothing was asked for yet.
LEMMA SeenInit == MotionInit => SeenInv
  BY MotionCorrectInit DEF MotionInit, SeenInv, AcceptedInv, MotionIsSeen

\* While the mount moves by hand the flag is up, or the answer of a motion was
\* lost or is yet to be read (session.py:2655, :2671, :2706).
THEOREM MotionSeen == MotionSpec => []MotionInv
<1>1. SeenInv => MotionInv
  BY DEF SeenInv, MotionCorrect, MotionInv
<1> QED
  BY SeenInit, SeenKept, <1>1, PTL DEF MotionSpec

(***************************************************************************)
(* Motion: an axis that was stopped stays at rest                          *)
(***************************************************************************)

\* Nobody outside the queue has a vector.
VectorInv == \A r \in Motions : ~Queued(r) => vector[r] = Rest

\* The vector of a stop leaves the axis out.
OwnInv == \A r \in Motions : Queued(r) /\ call[r].op # "move" => vector[r][Axis(r)] = 0

\* A rate that is recorded again while a stop of the axis waits is that of a
\* motion behind it.
RateInv ==
    \A i \in 1..Len(lock) :
        call[lock[i]].op # "move" /\ rates[Axis(lock[i])] # 0 => i < Len(lock)

\* An axis that is being moved does not count as stopped.
AskedInv ==
    \A r \in Motions : UnderWay(r) /\ call[r].op = "move" =>
        \A i \in 1..Len(call[r].axes) : call[r].axes[i] \notin stopped

\* Nothing recorded, or on its way to the mount, moves a stopped axis.
StillInv ==
    \A a \in stopped :
        /\ rates[a] = 0 /\ \A q \in Motions : vector[q][a] = 0
        /\ moving[a] = 0 \/ unsure

StillParts == VectorInv /\ OwnInv /\ RateInv /\ AskedInv /\ StillInv
StillIInv == SeenInv /\ StillParts

\* No axis was stopped yet when nothing was asked for.
LEMMA StillIInvInit == MotionInit => StillIInv
<1> SUFFICES ASSUME MotionInit PROVE StillIInv
  OBVIOUS
<1>1. lock = <<>> /\ stopped = {} /\ vector = [r \in Motions |-> Rest]
      /\ stage = [r \in Motions |-> "idle"]
  BY DEF MotionInit
<1>2. VectorInv /\ OwnInv /\ AskedInv /\ StillInv
  BY <1>1 DEF VectorInv, OwnInv, AskedInv, StillInv, Queued, UnderWay
<1>3. RateInv
  BY <1>1 DEF RateInv
<1> QED
  BY SeenInit, <1>2, <1>3 DEF StillIInv, StillParts

\* Every step keeps that a stopped axis has no rate in any vector to come.
LEMMA StillIInvKept == StillIInv /\ [MotionNext]_motionVars => StillIInv'
<1> SUFFICES ASSUME StillIInv, [MotionNext]_motionVars PROVE StillParts'
  BY SeenKept DEF StillIInv
<1>0. /\ VectorInv /\ OwnInv /\ RateInv /\ AskedInv /\ StillInv
      /\ SeenInv /\ MotionCorrect /\ LockInv /\ AxisInv
      /\ SeenInv' /\ MotionCorrect' /\ LockInv' /\ AxisInv'
  BY SeenKept DEF StillIInv, StillParts, SeenInv, MotionCorrect
<1>t. /\ stage \in [Motions -> Stages] /\ stopped \subseteq Axes /\ rates \in Vectors
      /\ call \in [Motions -> [op : Ops, rate : Rates \cup {0}, axes : Seq(Axes)]]
      /\ vector \in [Motions -> Vectors] /\ moving \in Vectors
      /\ lock \in Seq(Motions) /\ Len(lock) \in Nat
  BY <1>0 DEF MotionCorrect, MotionTypeOK
<1>a. ASSUME NEW r \in Motions, call[r].axes # <<>>
      PROVE  /\ Axis(r) \in Axes /\ Axis(r) = call[r].axes[1]
             /\ Len(call[r].axes) \in Nat \ {0}
  BY <1>t, <1>a, Popped DEF Axis
<1>q. \A i \in 1..Len(lock) : lock[i] \in Motions /\ Queued(lock[i])
  BY <1>0, <1>t DEF LockInv
<1>i. \A i, j \in 1..Len(lock) : lock[i] = lock[j] => i = j
  BY <1>0, <1>t DEF MotionCorrect, MotionTypeOK, IsInjective
\* Steps that only take a request on, outside the queue.
<1>1. ASSUME NEW r \in Motions, ~Queued(r), ~Queued(r)',
             UNCHANGED <<rates, vector, lock, moving, unsure>>,
             stopped' \subseteq stopped,
             \A q \in Motions : q # r => stage'[q] = stage[q] /\ call'[q] = call[q],
             UnderWay(r)' /\ call'[r].op = "move" =>
                 \A i \in 1..Len(call'[r].axes) : call'[r].axes[i] \notin stopped'
      PROVE  StillParts'
  <2>1. VectorInv' /\ OwnInv'
    BY <1>0, <1>1 DEF VectorInv, OwnInv, Queued, Axis
  <2>2. RateInv'
    BY <1>0, <1>1, <1>q DEF RateInv, Axis
  <2>3. AskedInv'
    BY <1>0, <1>1 DEF AskedInv, UnderWay
  <2>4. StillInv'
    BY <1>0, <1>1 DEF StillInv
  <2> QED
    BY <2>1, <2>2, <2>3, <2>4 DEF StillParts
<1>2. CASE UNCHANGED motionVars
  BY <1>0, <1>2 DEF motionVars, sessionVars, StillParts, VectorInv, OwnInv, RateInv, AskedInv,
                    StillInv, Queued, Axis, UnderWay
<1>3. ASSUME NEW r \in Motions, NEW a \in Axes, NEW speed \in Rates \cup {0}, MoveAxisAt(r, a, speed)
      PROVE  StillParts'
  <2>1. call'[r].axes = <<a>> /\ stopped' = stopped \ Range(<<a>>)
    BY <1>t, <1>3 DEF MoveAxisAt, Asked
  <2>2. a \in Range(<<a>>)
    BY DEF Range
  <2>3. \A i \in 1..Len(call'[r].axes) : call'[r].axes[i] \notin stopped'
    BY <2>1, <2>2
  <2>4. ~Queued(r) /\ ~Queued(r)'
    BY <1>t, <1>3 DEF MoveAxisAt, Asked, Enter, Queued
  <2> QED
    BY <1>t, <1>1, <1>3, <2>1, <2>3, <2>4 DEF MoveAxisAt, Asked, Enter, sessionVars
<1>4. ASSUME NEW r \in Motions, NEW op \in {"halt", "disconnect", "abort"}, StopBoth(r, op)
      PROVE  StillParts'
  <2>1. call'[r].op # "move" /\ stopped' \subseteq stopped
    BY <1>t, <1>4 DEF StopBoth, Asked
  <2>2. ~Queued(r) /\ ~Queued(r)'
    BY <1>t, <1>4 DEF StopBoth, Asked, Enter, Queued
  <2> QED
    BY <1>t, <1>1, <1>4, <2>1, <2>2 DEF StopBoth, Asked, Enter, sessionVars
<1>5. ASSUME NEW r \in Motions, Ensured(r)
      PROVE  StillParts'
  <2>1. ~Queued(r) /\ ~Queued(r)' /\ UnderWay(r)
    BY <1>t, <1>5 DEF Ensured, Enter, Queued, UnderWay
  <2> QED
    BY <1>0, <1>t, <1>1, <1>5, <2>1 DEF Ensured, Enter, sessionVars, AskedInv
<1>6. ASSUME NEW r \in Motions, EnsureFails(r)
      PROVE  StillParts'
  <2>1. ~Queued(r) /\ ~Queued(r)'
    BY <1>t, <1>6 DEF EnsureFails, Enter, Finish, Queued
  <2>2. ~UnderWay(r)' \/ call'[r].op # "move"
    <3>1. CASE call[r].op = "disconnect" /\ call' = [call EXCEPT ![r].axes = Tail(@)]
      BY <1>t, <3>1
    <3>2. CASE stage' = [stage EXCEPT ![r] = "failed"]
      BY <1>t, <3>2 DEF UnderWay
    <3> QED
      BY <1>6, <3>1, <3>2 DEF EnsureFails, Finish, Enter
  <2>3. \A q \in Motions : q # r => stage'[q] = stage[q] /\ call'[q] = call[q]
    BY <1>t, <1>6 DEF EnsureFails, Enter, Finish
  <2> QED
    BY <1>1, <1>6, <2>1, <2>2, <2>3 DEF EnsureFails, sessionVars
<1>7. ASSUME NEW r \in Motions, Return(r)
      PROVE  StillParts'
  <2>1. ~Queued(r) /\ ~Queued(r)' /\ ~UnderWay(r)'
    BY <1>t, <1>7 DEF Return, Enter, Finish, Queued, UnderWay
  <2> QED
    BY <1>t, <1>1, <1>7, <2>1 DEF Return, Enter, Finish, sessionVars
\* The vector of the recorded rates joins the queue.
<1>8. ASSUME NEW r \in Motions, stage[r] = "next", call[r].axes # <<>>,
             NEW speed \in Rates \cup {0}, rates' = [rates EXCEPT ![Axis(r)] = speed],
             speed # 0 => call[r].op = "move",
             SendVector(r), UNCHANGED <<active, moving, unsure, stopped>>
      PROVE  StillParts'
  <2>1. /\ vector' = [vector EXCEPT ![r] = rates'] /\ lock' = Append(lock, r)
        /\ stage' = [stage EXCEPT ![r] = "queued"] /\ UNCHANGED call
    BY <1>8 DEF SendVector, Enter
  <2>2. /\ Len(lock') = Len(lock) + 1 /\ lock'[Len(lock) + 1] = r
        /\ \A i \in 1..Len(lock) : lock'[i] = lock[i]
    BY <1>t, <2>1, Appended
  <2>3. Axis(r) \in Axes /\ Axis(r) = call[r].axes[1] /\ 1 \in 1..Len(call[r].axes)
    BY <1>a, <1>8
  <2>4. call[r].op # "move" => speed = 0 /\ rates'[Axis(r)] = 0
    BY <1>t, <1>8, <2>3 DEF Vectors
  <2>5. VectorInv'
    BY <1>0, <1>t, <2>1 DEF VectorInv, Queued
  <2>6. OwnInv'
    BY <1>0, <1>t, <2>1, <2>4 DEF OwnInv, Queued, Axis
  <2>7. RateInv'
    <3> SUFFICES ASSUME NEW i \in 1..(Len(lock) + 1), call[lock'[i]].op # "move",
                        rates'[Axis(lock'[i])] # 0
                 PROVE  i < Len(lock) + 1
      BY <2>1, <2>2 DEF RateInv, Axis
    <3>1. i # Len(lock) + 1
      BY <2>2, <2>4
    <3> QED
      BY <1>t, <3>1
  <2>8. AskedInv'
    BY <1>0, <1>t, <1>8, <2>1 DEF AskedInv, UnderWay
  <2>9. StillInv'
    <3>1. ASSUME NEW a \in stopped PROVE rates'[a] = 0
      <4>1. CASE a = Axis(r)
        <5>1. call[r].op # "move"
          BY <1>0, <1>8, <2>3, <3>1, <4>1 DEF AskedInv, UnderWay
        <5> QED
          BY <2>4, <4>1, <5>1
      <4>2. CASE a # Axis(r)
        BY <1>0, <1>t, <1>8, <3>1, <4>2 DEF StillInv, Vectors
      <4> QED
        BY <4>1, <4>2
    <3> QED
      BY <1>0, <1>t, <1>8, <2>1, <3>1 DEF StillInv
  <2> QED
    BY <2>5, <2>6, <2>7, <2>8, <2>9 DEF StillParts
<1>9. ASSUME NEW r \in Motions, StartMotion(r)
      PROVE  StillParts'
  <2>1. call[r].rate \in Rates \cup {0}
    BY <1>t
  <2> QED
    BY <1>8, <1>9, <2>1 DEF StartMotion
<1>10. ASSUME NEW r \in Motions, NEW a \in Axes, \A q \in Motions \ {r} : ~UnderWay(q)
       PROVE  \A q \in Motions \ {r} : vector[q] = Rest /\ vector[q][a] = 0 /\ stage[q] # "ok"
  BY <1>0, <1>10 DEF VectorInv, Queued, UnderWay, Rest

<1>11. ASSUME NEW r \in Motions, StopAxis(r)
       PROVE  StillParts'
  <2>1. CASE SendVector(r) /\ UNCHANGED stopped
    BY <1>8, <1>11, <2>1 DEF StopAxis
  <2>2. CASE NothingToStop(r) /\ AxisDone(r) /\ UNCHANGED <<stage, vector, lock>>
    <3>1. /\ Axis(r) \in Axes /\ ~Queued(r) /\ stage[r] = "next" /\ call[r].op # "move"
          /\ rates' = [rates EXCEPT ![Axis(r)] = 0] /\ UNCHANGED <<moving, unsure>>
      BY <1>a, <1>11 DEF StopAxis, Queued
    <3>2. /\ \A q \in Motions : q # r => call'[q] = call[q]
          /\ call'[r].op = call[r].op
      BY <1>t, <2>2 DEF AxisDone
    <3>3. VectorInv' /\ OwnInv'
      BY <1>0, <2>2, <3>1, <3>2 DEF VectorInv, OwnInv, Queued, Axis
    <3>4. RateInv'
      <4> SUFFICES ASSUME NEW i \in 1..Len(lock), call'[lock[i]].op # "move",
                          rates'[Head(call'[lock[i]].axes)] # 0
                   PROVE  i < Len(lock)
        BY <2>2 DEF RateInv, Axis
      <4>1. lock[i] # r /\ lock[i] \in Motions /\ Queued(lock[i])
        BY <1>q, <3>1
      <4>2. call'[lock[i]] = call[lock[i]] /\ Axis(lock[i]) \in Axes
        BY <1>0, <1>a, <3>2, <4>1 DEF AxisInv
      <4>3. rates[Axis(lock[i])] # 0
        BY <1>t, <3>1, <4>2 DEF Axis, Vectors
      <4> QED
        BY <1>0, <4>2, <4>3 DEF RateInv
    <3>5. AskedInv'
      <4> SUFFICES ASSUME NEW q \in Motions, UnderWay(q)', call'[q].op = "move",
                          NEW i \in 1..Len(call'[q].axes)
                   PROVE  call'[q].axes[i] \notin stopped'
        BY DEF AskedInv
      <4>1. q # r /\ call'[q] = call[q] /\ UnderWay(q)
        BY <2>2, <3>1, <3>2 DEF UnderWay
      <4>2. stopped' = stopped
        BY <2>2, <4>1 DEF AxisDone
      <4> QED
        BY <1>0, <4>1, <4>2 DEF AskedInv
    <3>6. StillInv'
      <4> SUFFICES ASSUME NEW a \in stopped'
                   PROVE  /\ rates'[a] = 0 /\ \A q \in Motions : vector[q][a] = 0
                          /\ moving[a] = 0 \/ unsure
        BY <2>2, <3>1 DEF StillInv
      <4>1. CASE a \in stopped
        BY <1>0, <1>t, <3>1, <4>1 DEF StillInv, Vectors
      <4>2. CASE a \notin stopped
        <5>1. a = Axis(r) /\ \A q \in Motions \ {r} : ~UnderWay(q)
          BY <2>2, <4>2 DEF AxisDone
        <5>2. \A q \in Motions \ {r} : vector[q][a] = 0 /\ stage[q] # "ok"
          BY <1>10, <3>1, <5>1
        <5>3. vector[r] = Rest
          BY <1>0, <3>1 DEF VectorInv
        <5>4. moving = Rest \/ unsure
          BY <1>0, <2>2, <3>1, <5>2 DEF SeenInv, MotionIsSeen, NothingToStop
        <5> QED
          BY <1>t, <3>1, <5>1, <5>2, <5>3, <5>4 DEF Rest, Vectors
      <4> QED
        BY <4>1, <4>2
    <3> QED
      BY <3>3, <3>4, <3>5, <3>6 DEF StillParts
  <2> QED
    BY <1>11, <2>1, <2>2 DEF StopAxis
<1>12. ASSUME NEW r \in Motions, NEW place \in {"sent", "ok", "refused", "lost"},
              stage[r] \in {"queued", "sent"}, stage' = [stage EXCEPT ![r] = place],
              UNCHANGED <<rates, call, vector, lock, stopped>>
       PROVE  /\ VectorInv' /\ OwnInv' /\ RateInv' /\ AskedInv'
  <2>1. \A q \in Motions : (Queued(q)' <=> Queued(q)) /\ (UnderWay(q)' <=> UnderWay(q))
    BY <1>t, <1>12 DEF Queued, UnderWay
  <2> QED
    BY <1>0, <1>12, <2>1 DEF VectorInv, OwnInv, RateInv, AskedInv, Axis
<1>13. ASSUME NEW r \in Motions, Send(r)
       PROVE  StillParts'
  <2>1. VectorInv' /\ OwnInv' /\ RateInv' /\ AskedInv'
    BY <1>12, <1>13 DEF Send, Enter, sessionVars
  <2>2. StillInv'
    BY <1>0, <1>13 DEF Send, StillInv, sessionVars
  <2> QED
    BY <2>1, <2>2 DEF StillParts
<1>14. ASSUME NEW r \in Motions, NEW how \in {"ok", "refused", "lost"}, Answer(r, how)
       PROVE  StillParts'
  <2>1. VectorInv' /\ OwnInv' /\ RateInv' /\ AskedInv'
    BY <1>12, <1>14 DEF Answer, Enter, sessionVars
  <2>2. /\ UNCHANGED <<rates, vector, stopped>>
        /\ moving' \in {moving, vector[r]}
        /\ unsure' = ((unsure \/ how = "lost") /\ ~(how = "ok" /\ vector[r] = Rest))
        /\ how = "ok" => moving' = vector[r]
        /\ how = "refused" => moving' = moving
    BY <1>14 DEF Answer, sessionVars
  <2>3. ASSUME NEW a \in stopped PROVE moving'[a] = 0 \/ unsure'
    <3>1. vector[r][a] = 0 /\ (moving[a] = 0 \/ unsure)
      BY <1>0, <2>3 DEF StillInv
    <3>2. CASE how = "ok"
      BY <2>2, <3>1, <3>2
    <3>3. CASE how = "lost"
      BY <2>2, <3>3
    <3>4. CASE how = "refused"
      BY <2>2, <3>1, <3>4
    <3> QED
      BY <3>2, <3>3, <3>4
  <2>4. StillInv'
    BY <1>0, <2>2, <2>3 DEF StillInv
  <2> QED
    BY <2>1, <2>4 DEF StillParts
<1>15. ASSUME NEW r \in Motions, Answered(r)
       PROVE  StillParts'
  <2>1. PICK place \in {"next", "failed"} : stage' = [stage EXCEPT ![r] = place]
    BY <1>15 DEF Answered, AxisDone, Failed, Enter, Finish
  <2>2. /\ stage[r] \in {"ok", "refused", "lost"} /\ Queued(r) /\ ~Queued(r)'
        /\ lock' = Tail(lock) /\ vector' = [vector EXCEPT ![r] = Rest]
        /\ UNCHANGED <<rates, moving, unsure>>
    BY <1>t, <1>15, <2>1 DEF Answered, Unlocked, Queued
  <2>3. /\ Len(lock) \in Nat \ {0} /\ lock[1] = r /\ Len(lock') = Len(lock) - 1
        /\ \A i \in 1..Len(lock) - 1 : lock'[i] = lock[i + 1]
    BY <1>0, <2>1, <2>2, Leaves
  <2>4. Axis(r) \in Axes /\ Axis(r) = call[r].axes[1] /\ Len(call[r].axes) \in Nat \ {0}
    BY <1>0, <1>a, <2>2 DEF AxisInv
  <2>5. /\ \A q \in Motions : q # r => call'[q] = call[q] /\ stage'[q] = stage[q] /\ vector'[q] = vector[q]
        /\ vector'[r] = Rest
    BY <1>t, <1>15, <2>1, <2>2 DEF Answered, AxisDone, Failed, Finish
  <2>6. VectorInv' /\ OwnInv'
    BY <1>0, <2>2, <2>5 DEF VectorInv, OwnInv, Queued, Axis
  <2>7. RateInv'
    <3> SUFFICES ASSUME NEW i \in 1..(Len(lock) - 1), call'[lock'[i]].op # "move",
                        rates[Head(call'[lock'[i]].axes)] # 0
                 PROVE  i < Len(lock) - 1
      BY <2>2, <2>3 DEF RateInv, Axis
    <3>1. i + 1 \in 1..Len(lock) /\ lock'[i] = lock[i + 1] /\ i + 1 # 1
      BY <2>3
    <3>2. lock[i + 1] # r /\ lock[i + 1] \in Motions
      BY <1>i, <1>q, <2>3, <3>1
    <3>3. call'[lock'[i]] = call[lock[i + 1]]
      BY <2>5, <3>1, <3>2
    <3>4. i + 1 < Len(lock)
      BY <1>0, <3>1, <3>3 DEF RateInv, Axis
    <3> QED
      BY <2>3, <3>4
  <2>8. \/ stopped' = stopped
        \/ /\ stopped' = stopped \cup {Axis(r)} /\ call[r].op # "move" /\ stage[r] = "ok"
           /\ \A q \in Motions \ {r} : ~UnderWay(q)
    BY <1>15 DEF Answered, AxisDone, Failed
  <2>9. AskedInv'
    <3> SUFFICES ASSUME NEW q \in Motions, UnderWay(q)', call'[q].op = "move",
                        NEW i \in 1..Len(call'[q].axes)
                 PROVE  call'[q].axes[i] \notin stopped'
      BY DEF AskedInv
    <3>1. CASE q # r
      <4>1. call'[q] = call[q] /\ UnderWay(q)
        BY <2>5, <3>1 DEF UnderWay
      <4>2. stopped' = stopped
        BY <2>8, <3>1, <4>1
      <4> QED
        BY <1>0, <4>1, <4>2 DEF AskedInv
    <3>2. CASE q = r
      <4>1. place = "next"
        BY <1>t, <2>1, <3>2 DEF UnderWay
      <4>2. call' = [call EXCEPT ![r].axes = Tail(@)]
        BY <1>t, <1>15, <2>1, <4>1 DEF Answered, AxisDone, Failed, Finish, Enter
      <4>3. call[r].op = "move" /\ call'[r].axes = Tail(call[r].axes)
        BY <1>t, <3>2, <4>2
      <4>4. i \in 1..(Len(call[r].axes) - 1) /\ call'[r].axes[i] = call[r].axes[i + 1]
        <5>1. call[r].axes \in Seq(Axes) /\ call[r].axes # <<>>
          BY <1>0, <1>t, <2>2 DEF AxisInv
        <5> QED
          BY <3>2, <4>3, <5>1, Popped
      <4>5. i + 1 \in 1..Len(call[r].axes)
        BY <2>4, <4>4
      <4>6. call[r].axes[i + 1] \notin stopped
        BY <1>0, <2>2, <4>3, <4>5 DEF AskedInv, UnderWay
      <4> QED
        BY <2>8, <3>2, <4>3, <4>4, <4>6
    <3> QED
      BY <3>1, <3>2
  <2>10. StillInv'
    <3> SUFFICES ASSUME NEW a \in stopped'
                 PROVE  /\ rates[a] = 0 /\ \A q \in Motions : vector'[q][a] = 0
                        /\ moving[a] = 0 \/ unsure
      BY <2>2 DEF StillInv
    <3>0. a \in Axes
      BY <1>t, <2>4, <2>8
    <3>1. CASE a \in stopped
      BY <1>0, <2>5, <3>0, <3>1 DEF StillInv, Rest
    <3>2. CASE a \notin stopped
      <4>1. /\ a = Axis(r) /\ call[r].op # "move" /\ stage[r] = "ok"
            /\ \A q \in Motions \ {r} : ~UnderWay(q)
        BY <2>8, <3>2
      <4>2. \A q \in Motions : vector'[q][a] = 0
        BY <1>10, <2>5, <3>0, <4>1 DEF Rest
      <4>3. moving[a] = 0
        BY <1>0, <2>2, <4>1 DEF SeenInv, AcceptedInv, OwnInv
      \* A motion recorded meanwhile would still be in progress.
      <4>4. rates[a] = 0
        <5>1. SUFFICES ASSUME rates[a] # 0 PROVE FALSE
          OBVIOUS
        <5>2. 1 < Len(lock)
          BY <1>0, <2>3, <4>1, <5>1 DEF RateInv
        <5>3. lock[2] \in Motions /\ Queued(lock[2]) /\ lock[2] # r
          BY <1>i, <1>q, <2>3, <5>2
        <5> QED
          BY <4>1, <5>3 DEF Queued, UnderWay
      <4> QED
        BY <4>2, <4>3, <4>4
    <3> QED
      BY <3>1, <3>2
  <2> QED
    BY <2>6, <2>7, <2>9, <2>10 DEF StillParts
<1> QED
  BY <1>2, <1>3, <1>4, <1>5, <1>6, <1>7, <1>9, <1>11, <1>13, <1>14, <1>15
     DEF MotionNext, MotionRequest, Step

\* An axis that was stopped stays at rest, whatever the other axis is asked to
\* do, unless the answer of a motion was lost (session.py:2646-2739).
THEOREM StopsHold == MotionSpec => []StoppedStays
<1>1. StillIInv => StoppedStays
  BY DEF StillIInv, StillParts, StillInv, StoppedStays
<1> QED
  BY StillIInvInit, StillIInvKept, <1>1, PTL DEF MotionSpec
=============================================================================
