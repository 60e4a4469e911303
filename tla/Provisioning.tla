---------------------------- MODULE Provisioning ----------------------------
(***************************************************************************)
(* Bringing the device onto a Wi-Fi network: the dialogue over Bluetooth      *)
(* (dwarf/ble_provisioner.py), the workflow that keeps its outcome           *)
(* (provisioning/workflow.py) in the file connectivity.json (dwarf/state.py), *)
(* and the window that shows the file and writes to it (gui/app.py).          *)
(*                                                                         *)
(* A network stands for its name, its password and the address the device    *)
(* has on it; Ap is the address of the device's own network.  Provisioning    *)
(* and Wi-Fi scans run in threads of their own: reading and writing the file  *)
(* are steps of their own.  A packet that does not parse is one that never     *)
(* came.  The guide of the command line makes the same jobs one by one.       *)
(***************************************************************************)
EXTENDS Integers, Sequences

CONSTANTS
    Jobs,       \* provisioning runs
    Scans,      \* Wi-Fi scans
    Nets,       \* networks
    Saved,      \* the networks whose passwords are in the file to begin with
    Ap, None,
    MaxGui,     \* bound: writes by the window
    MaxWire     \* bound: packets on their way from the device

All == Jobs \cup Scans

ASSUME ProvisioningAssumption ==
    /\ Jobs \cap Scans = {}
    /\ Saved \subseteq Nets
    /\ Ap \notin Nets /\ None \notin Nets \cup Jobs \cup Scans \cup {Ap}
    /\ MaxGui \in Nat /\ MaxWire \in Nat

Addresses == Nets \cup {Ap, None}
Places == {"idle", "connect", "config", "sta", "list", "load", "save", "record",
           "done", "failed"}
Talking(j) == j \in {"config", "sta", "list"}

\* connectivity.json: the address and the passwords; the site, the last error and
\* the rest of it are left out.  And, as history, which network the job that
\* saved the address was about.
Files == [ip : Nets \cup {None}, of : Nets \cup {None}, creds : SUBSET Nets]
Fresh == [ip |-> None, of |-> None, creds |-> {}]

VARIABLES
    file,      \* connectivity.json
    latest,    \* the window's copy, _latest_state
    writes,    \* the window's writes so far
    pc,        \* where each job is
    net,       \* the network a job is about
    ip,        \* the address it obtained
    copy,      \* what it read from the file
    link,      \* the job that has the Bluetooth connection, or None
    asked,     \* what the device was asked and has not done yet
    wire,      \* packets on their way to the job, response_queue included
    on,        \* the network the device is on: one of Nets, or Ap
    joining,   \* the network it is about to join, or None
    seen       \* the networks it was on since this connection was made

fileVars   == <<file, latest, writes>>
jobVars    == <<net, ip, copy>>
deviceVars == <<asked, wire, on, joining>>
vars == <<fileVars, pc, jobVars, link, deviceVars, seen>>

Packets ==
    [cmd : {"error", "list", "other"}]
    \cup [cmd : {"config"}, ok : BOOLEAN, state : {"up", "down"}, at : Addresses]
    \cup [cmd : {"sta"}, ok : BOOLEAN, at : Addresses]

Requests == [cmd : {"config", "list"}] \cup [cmd : {"sta"}, net : Nets]

TypeOK ==
    /\ file \in Files /\ latest \in Files /\ writes \in 0..MaxGui
    /\ pc \in [All -> Places]
    /\ net \in [Jobs -> Nets \cup {None}]
    /\ ip \in [Jobs -> Nets \cup {None}]
    /\ copy \in [Jobs -> Files]
    /\ link \in All \cup {None}
    /\ asked \subseteq Requests
    /\ wire \in Seq(Packets)
    /\ on \in Nets \cup {Ap} /\ joining \in Nets \cup {None}
    /\ seen \subseteq Nets
    /\ link = None => wire = <<>>

Init ==
    /\ file = [Fresh EXCEPT !.creds = Saved]
    /\ latest = file /\ writes = 0
    /\ pc = [j \in All |-> "idle"]
    /\ net = [j \in Jobs |-> None] /\ ip = [j \in Jobs |-> None]
    /\ copy = [j \in Jobs |-> Fresh]
    /\ link = None /\ asked = {} /\ wire = <<>>
    /\ on \in Nets \cup {Ap} /\ joining = None
    /\ seen = {}

At(j, place) == pc' = [pc EXCEPT ![j] = place]

(***************************************************************************)
(* The dialogue                                                            *)
(***************************************************************************)

Provision(j, n) ==
    /\ pc[j] = "idle"
    /\ At(j, "connect")
    /\ net' = [net EXCEPT ![j] = n]
    /\ UNCHANGED <<fileVars, ip, copy, link, deviceVars, seen>>

Scan(j) ==
    /\ pc[j] = "idle"
    /\ At(j, "connect")
    /\ UNCHANGED <<fileVars, jobVars, link, deviceVars, seen>>

Asks(request) == asked' = asked \cup {request}

Connect(j) ==
    /\ pc[j] = "connect" /\ link = None
    /\ link' = j
    /\ Asks([cmd |-> "config"])
    /\ At(j, "config")
    /\ seen' = {on} \cap Nets
    /\ UNCHANGED <<fileVars, jobVars, wire, on, joining>>

\* The device is not found; or it is and the connection fails, which provision
\* does not catch and nobody records.
ConnectFails(j) ==
    /\ pc[j] = "connect"
    /\ \/ j \in Jobs /\ At(j, "record")
       \/ At(j, "failed")
    /\ UNCHANGED <<fileVars, jobVars, link, deviceVars, seen>>

\* The connection is given up, and with it the packets on their way to the job and
\* the questions.  A network the device was asked to join it may join all the same.
HangUp ==
    /\ link' = None /\ wire' = <<>>
    /\ asked' = {q \in asked : q.cmd = "sta"}
    /\ seen' = {}
    /\ UNCHANGED <<on, joining>>

Fails(j) == At(j, IF j \in Jobs THEN "record" ELSE "failed") /\ HangUp /\ UNCHANGED ip
Obtains(j, at) == At(j, "load") /\ ip' = [ip EXCEPT ![j] = at] /\ HangUp

\* Mutant of GiveUp: the deadline is looked at when a packet arrives.
GiveUpOnPacket(j) ==
    /\ Talking(pc[j]) /\ wire # <<>>
    /\ Fails(j)
    /\ UNCHANGED <<fileVars, net, copy>>

\* Neither an answer in time nor the next write succeeds.
GiveUp(j) ==
    /\ Talking(pc[j])
    /\ Fails(j)
    /\ UNCHANGED <<fileVars, net, copy>>

\* _await_packet: a packet of a kind that is not waited for is dropped.
Expected(j) ==
    CASE pc[j] = "config" -> {"error", "config"}
      [] pc[j] = "sta"    -> {"error", "config", "sta"}
      [] pc[j] = "list"   -> {"error", "list"}

Usable(at) == at \notin {Ap, None}

\* Mutant of Joined: the name is not looked at before the request either.
JoinedAnywhere(m, n) == m.state = "up" /\ Usable(m.at)

\* The configuration says the device is connected to a network.  Whether it is
\* the network asked for is looked at before the request and not after it.
Joined(m, n) == m.state = "up" /\ Usable(m.at) /\ (n # None => m.at = n)

Continue(j, request, place) ==
    /\ Asks(request) /\ At(j, place)
    /\ wire' = Tail(wire)
    /\ UNCHANGED <<ip, link, on, joining, seen>>

Wait == wire' = Tail(wire) /\ UNCHANGED <<pc, ip, link, asked, on, joining, seen>>

\* _write_and_wait_for_config, then _configure_sta, or the list of a scan.
TakeConfig(j, m) ==
    \/ j \in Scans /\ Continue(j, [cmd |-> "list"], "list")
    \/ j \in Jobs /\ ~m.ok /\ Fails(j)
    \/ j \in Jobs /\ m.ok /\ Joined(m, net[j]) /\ Obtains(j, m.at)
    \/ j \in Jobs /\ m.ok /\ ~Joined(m, net[j])
       /\ Continue(j, [cmd |-> "sta", net |-> net[j]], "sta")

\* Its loop: an answer without an address makes it ask for the configuration.
TakeSta(j, m) ==
    \/ ~m.ok /\ Fails(j)
    \/ m.ok /\ Usable(m.at) /\ Obtains(j, m.at)
    \/ m.ok /\ ~Usable(m.at) /\ Continue(j, [cmd |-> "config"], "sta")

TakeFollowUp(j, m) ==
    \/ ~m.ok /\ Fails(j)
    \/ m.ok /\ Joined(m, None) /\ Obtains(j, m.at)
    \/ m.ok /\ ~Joined(m, None) /\ Wait

Take(j) ==
    /\ Talking(pc[j]) /\ link = j /\ wire # <<>>
    /\ LET m == Head(wire) IN
       \/ m.cmd \notin Expected(j) /\ Wait
       \/ /\ m.cmd \in Expected(j)
          /\ \/ m.cmd = "error" /\ Fails(j)
             \/ m.cmd = "config" /\ pc[j] = "config" /\ TakeConfig(j, m)
             \/ m.cmd = "config" /\ pc[j] = "sta" /\ TakeFollowUp(j, m)
             \/ m.cmd = "sta" /\ TakeSta(j, m)
             \/ m.cmd = "list" /\ At(j, "done") /\ HangUp /\ UNCHANGED ip
    /\ UNCHANGED <<fileVars, net, copy>>

(***************************************************************************)
(* The file                                                                *)
(***************************************************************************)

\* What a job had is gone with it.
Ends(j) ==
    /\ net' = [net EXCEPT ![j] = None] /\ ip' = [ip EXCEPT ![j] = None]
    /\ copy' = [copy EXCEPT ![j] = Fresh]

Load(j) ==
    /\ pc[j] = "load"
    /\ copy' = [copy EXCEPT ![j] = file]
    /\ At(j, "save")
    /\ UNCHANGED <<fileVars, net, ip, link, deviceVars, seen>>

\* Mutant of Outcome: the password is not kept with the address.
OutcomeAddress(j) == [copy[j] EXCEPT !.ip = ip[j], !.of = net[j]]

Outcome(j) == [copy[j] EXCEPT !.ip = ip[j], !.of = net[j], !.creds = @ \cup {net[j]}]

Save(j) ==
    /\ pc[j] = "save"
    /\ file' = Outcome(j)
    /\ At(j, "done")
    /\ Ends(j)
    /\ UNCHANGED <<latest, writes, link, deviceVars, seen>>

\* record_error of a store that never loaded the file: it saves a file without
\* address and passwords.
RecordError(j) ==
    /\ pc[j] = "record"
    /\ file' = Fresh
    /\ At(j, "failed")
    /\ Ends(j)
    /\ UNCHANGED <<latest, writes, link, deviceVars, seen>>

(***************************************************************************)
(* The window                                                              *)
(***************************************************************************)

\* _on_device_selected, and the start of the server when site or time zone were
\* changed: the window's copy, but for these, is saved as it is.
GuiWrites ==
    /\ writes < MaxGui
    /\ writes' = writes + 1
    /\ file' = latest
    /\ UNCHANGED <<latest, pc, jobVars, link, deviceVars, seen>>

\* _refresh_state, when a run succeeds or the server stops.
Refresh ==
    /\ latest' = file
    /\ UNCHANGED <<file, writes, pc, jobVars, link, deviceVars, seen>>

(***************************************************************************)
(* The device                                                              *)
(***************************************************************************)

\* While it joins a network it may say so, or that it still is where it was.
Configs ==
    {[cmd |-> "config", ok |-> ok, state |-> "up", at |-> on] : ok \in BOOLEAN}
    \cup IF joining = None THEN {}
         ELSE {[cmd |-> "config", ok |-> ok, state |-> "down", at |-> None] : ok \in BOOLEAN}

\* An answer reaches whoever is connected by now, if anybody is.
Tells(packets) ==
    IF link = None THEN UNCHANGED wire ELSE \E m \in packets : wire' = Append(wire, m)

\* It is asked to join a network: it will, and says what it is on till then;
\* it has; or it does not, and is on its own network or where it was.
DoSta(n) ==
    \/ /\ joining' = n /\ UNCHANGED on
       /\ Tells({[cmd |-> "sta", ok |-> TRUE, at |-> at] : at \in {None, on}})
    \/ /\ joining' = None /\ on' = n
       /\ Tells({[cmd |-> "sta", ok |-> TRUE, at |-> n]})
    \/ /\ joining' = None /\ on' \in {Ap, on}
       /\ Tells({[cmd |-> "sta", ok |-> ok, at |-> on'] : ok \in BOOLEAN})

\* It does what it was asked in an order of its own choosing, for whoever asked
\* it and may be gone, or fails to, or never does it.
Does ==
    /\ Len(wire) < MaxWire
    /\ \E q \in asked :
          /\ asked' = asked \ {q}
          /\ \/ q.cmd = "config" /\ Tells(Configs) /\ UNCHANGED <<on, joining>>
             \/ q.cmd = "sta" /\ DoSta(q.net)
             \/ q.cmd = "list" /\ Tells({[cmd |-> "list"]}) /\ UNCHANGED <<on, joining>>
             \/ Tells([cmd : {"error", "other"}]) /\ UNCHANGED <<on, joining>>
    /\ UNCHANGED <<fileVars, pc, jobVars, link>>
    /\ seen' = IF link = None THEN {} ELSE seen \cup ({on'} \cap Nets)

Joins ==
    /\ joining # None
    /\ on' \in {joining, Ap, on}
    /\ joining' = None
    /\ UNCHANGED <<fileVars, pc, jobVars, link, asked, wire>>
    /\ seen' = IF link = None THEN {} ELSE seen \cup ({on'} \cap Nets)

(***************************************************************************)
(* Specification                                                           *)
(***************************************************************************)

Step(j) == Connect(j) \/ ConnectFails(j) \/ GiveUp(j) \/ Take(j)
JobStep(j) == Step(j) \/ Load(j) \/ Save(j) \/ RecordError(j)

Next ==
    \/ \E j \in Jobs : JobStep(j) \/ \E n \in Nets : Provision(j, n)
    \/ \E j \in Scans : Scan(j) \/ Step(j)
    \/ GuiWrites \/ Refresh
    \/ Does \/ Joins

Spec == Init /\ [][Next]_vars

\* The threads run, and every wait of the dialogue ends at its deadline.
FairSpec ==
    /\ Spec
    /\ \A j \in Jobs : WF_vars(JobStep(j))
    /\ \A j \in Scans : WF_vars(Step(j))

(***************************************************************************)
(* Properties                                                              *)
(***************************************************************************)

\* The address a job obtains is on the network that was asked for, unless it had
\* the device join that network and the device was on another one meanwhile.  It
\* never is an answer to an earlier job, nor the address of the device's own
\* network.  That the name is compared before the request and not after it, when
\* the device may still be where it was, or do what an earlier job asked, is
\* what keeps the code from promising more.
OwnNetwork ==
    [][\A j \in Jobs : ip[j] = None /\ ip'[j] # None =>
          /\ ip'[j] = net[j] \/ pc[j] = "sta"
          /\ ip'[j] \in seen]_vars

\* Whoever wrote the file last and from whichever copy, an address in it, with
\* which the server is started, comes with the password of the network it was
\* obtained for.
AddressHasPassword == file.ip # None => file.of \in file.creds

\* Every variable has its type, and the saved address a saved password.
Inv == TypeOK /\ AddressHasPassword

\* A job ends, whatever the device does, and gives up the connection.
JobsEnd ==
    \A j \in All : pc[j] \notin {"idle", "done", "failed"} ~> (pc[j] \in {"done", "failed"} /\ link # j)
=============================================================================
