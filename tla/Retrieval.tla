------------------------------ MODULE Retrieval ------------------------------
(***************************************************************************)
(* How the FTP client finds the frame of an astronomy exposure                *)
(* (dwarf/ftp_client.py, wait_for_new_photo): it polls the device, walks the  *)
(* newest of its directories, file by file, while the device goes on writing, *)
(* takes the newest file it saw and looks whether that is the new frame.       *)
(*                                                                         *)
(* A directory is known by the time in its name, 0 if there is none, and a     *)
(* file by its directory, the time it was written and whether its name has     *)
(* that time.  One of the three roots exists.  Files appear whole, and the     *)
(* device's and the computer's clocks agree.                                   *)
(***************************************************************************)
EXTENDS Integers, FiniteSets

CONSTANTS
    Start,      \* when the exposure began
    Tolerance,  \* 5 s of the session's and 10 s of the client's
    Deadline,   \* when the retrieval gives up
    MaxDirs,    \* max_astro_directories_per_scan
    MaxFiles,   \* bound: files of this exposure
    OldFiles,   \* the sets of files there may be from before
    Waiting,    \* the result until there is one
    None

Files == [dir : Nat, at : Nat, named : BOOLEAN, raw : BOOLEAN]

ASSUME RetrievalAssumption ==
    /\ Start \in Nat \ {0} /\ Tolerance \in Nat
    /\ Deadline \in Nat /\ Start <= Deadline
    /\ MaxDirs \in Nat \ {0} /\ MaxFiles \in Nat
    /\ \A old \in OldFiles :
          old \subseteq {f \in Files : f.dir <= f.at /\ f.at < Start}
    /\ None \notin [file : Files, stamp : Int] \cup Files
    /\ Waiting \notin Files \cup {None}

VARIABLES
    clock,
    files, honest, baseline, result,    \* as in Delivery
    pc,         \* where the poll is
    dirs,       \* the directories still to walk
    names,      \* the files of one of them still to look at
    entries,    \* the files seen, with the times they were given
    pick,       \* the newest of them
    seen,       \* the files there were when the walk began
    whole       \* nothing was refused on the last walk

world == <<files, honest, baseline>>
walk  == <<dirs, names, entries, pick, seen, whole>>
vars  == <<clock, world, result, pc, walk>>

Entries == [file : Files, stamp : Int]

TypeOK ==
    /\ clock \in Start..Deadline
    /\ files \subseteq Files /\ honest \in BOOLEAN
    /\ baseline \in Entries \cup {None}
    /\ result \in Files \cup {None, Waiting}
    /\ pc \in {"poll", "walk", "download", "sleep", "done"}
    /\ dirs \subseteq Nat /\ names \subseteq files /\ entries \subseteq Entries
    /\ pick \in Entries \cup {None}
    /\ seen \subseteq files /\ whole \in BOOLEAN

\* What the server says of a file: MDTM is the time it was written, or, on some,
\* the time of the question; one that refuses is taken to have said that too.
Stamp(f) == IF honest THEN f.at ELSE clock

Init ==
    /\ clock = Start
    /\ files \in OldFiles /\ honest \in BOOLEAN
    /\ \/ baseline = None
       \/ \E f \in files : f.raw /\ baseline = [file |-> f, stamp |-> Stamp(f)]
    /\ result = Waiting
    /\ pc = "poll"
    /\ dirs = {} /\ names = {} /\ entries = {} /\ pick = None
    /\ seen = {} /\ whole = FALSE

(***************************************************************************)
(* The device                                                              *)
(***************************************************************************)

Tick ==
    /\ clock < Deadline
    /\ clock' = clock + 1
    /\ UNCHANGED <<world, result, pc, walk>>

\* The exposure's directory was made at its start.  A stacked file is not raw.
Write ==
    /\ Cardinality({f \in files : f.dir = Start}) < MaxFiles
    /\ \E named \in BOOLEAN, raw \in BOOLEAN :
          /\ \A f \in files : f.at # clock
          /\ files' = files \cup {[dir |-> Start, at |-> clock, named |-> named, raw |-> raw]}
    /\ UNCHANGED <<clock, honest, baseline, result, pc, walk>>

(***************************************************************************)
(* Which file is the frame                                                 *)
(***************************************************************************)

\* Mutant of Newest: the directories are in the order of their names.
Oldest(ds) == {d \in ds : Cardinality({e \in ds : e < d}) < MaxDirs}

Newest(ds) == {d \in ds : Cardinality({e \in ds : e > d}) < MaxDirs}

PathBefore(f, g) == f.dir < g.dir \/ (f.dir = g.dir /\ f.at < g.at)

\* By time, then by path.
Older(e, g) == e.stamp < g.stamp \/ (e.stamp = g.stamp /\ PathBefore(e.file, g.file))

\* _is_new_entry.
IsNew(e) ==
    \/ baseline = None
    \/ e.stamp > baseline.stamp
    \/ e.file # baseline.file

\* _embedded_capture_timestamp: the later of the times in the path.
Observed(e) ==
    IF e.file.named THEN e.file.at
    ELSE IF e.file.dir # 0 THEN e.file.dir ELSE e.stamp

\* Mutant of IsCurrent: what the server says is believed.
IsCurrentByServer(e) == e.stamp >= Start - Tolerance

\* _is_current_capture.
IsCurrent(e) == Observed(e) >= Start - Tolerance

(***************************************************************************)
(* The client                                                              *)
(***************************************************************************)

BeginWalk ==
    /\ pc = "poll" /\ clock < Deadline
    /\ pc' = "walk"
    /\ dirs' = Newest({f.dir : f \in files})
    /\ names' = {} /\ entries' = {} /\ pick' = None
    /\ seen' = files /\ whole' = TRUE
    /\ UNCHANGED <<clock, world, result>>

\* The newest directory left is listed, or refused.
OpenDir ==
    /\ pc = "walk" /\ names = {} /\ dirs # {}
    /\ LET d == CHOOSE e \in dirs : \A o \in dirs : o <= e IN
       /\ dirs' = dirs \ {d}
       /\ \/ /\ names' = {f \in files : f.dir = d /\ f.raw}
             /\ UNCHANGED whole
          \/ names' = {} /\ whole' = FALSE
    /\ UNCHANGED <<clock, world, result, pc, entries, pick, seen>>

LookAt(f) ==
    /\ pc = "walk" /\ f \in names
    /\ names' = names \ {f}
    /\ entries' = entries \cup {[file |-> f, stamp |-> Stamp(f)]}
    /\ UNCHANGED <<clock, world, result, pc, dirs, pick, seen, whole>>

\* Only the newest file is looked at.
EndWalk ==
    /\ pc = "walk" /\ names = {} /\ dirs = {}
    /\ \/ /\ entries = {}
          /\ pc' = "sleep" /\ UNCHANGED pick
       \/ /\ pick' \in entries
          /\ \A e \in entries : ~Older(pick', e)
          /\ pc' = IF IsNew(pick') /\ IsCurrent(pick') THEN "download" ELSE "sleep"
    /\ UNCHANGED <<clock, world, result, dirs, names, entries, seen, whole>>

\* The connection fails, on the walk or while the file is downloaded.
Fails ==
    /\ pc \in {"walk", "download"}
    /\ pc' = "sleep" /\ whole' = FALSE
    /\ dirs' = {} /\ names' = {} /\ entries' = {} /\ pick' = None
    /\ UNCHANGED <<clock, world, result, seen>>

Download ==
    /\ pc = "download"
    /\ pc' = "done" /\ result' = pick.file
    /\ UNCHANGED <<clock, world, walk>>

Sleep ==
    /\ pc = "sleep"
    /\ pc' = "poll"
    /\ UNCHANGED <<clock, world, result, walk>>

\* Mutant of GiveUp: a poll that found something gives it one more.
GiveUpEmpty ==
    /\ pc = "poll" /\ clock = Deadline /\ pick = None
    /\ pc' = "done" /\ result' = None
    /\ UNCHANGED <<clock, world, walk>>

GiveUp ==
    /\ pc = "poll" /\ clock = Deadline
    /\ pc' = "done" /\ result' = None
    /\ UNCHANGED <<clock, world, walk>>

Client ==
    \/ BeginWalk \/ OpenDir \/ EndWalk \/ Fails \/ Download \/ Sleep \/ GiveUp
    \/ \E f \in names : LookAt(f)

Next == Tick \/ Write \/ Client

Spec == Init /\ [][Next]_vars

\* Time passes, and each request is answered or fails.
FairSpec == Spec /\ WF_vars(Tick) /\ WF_vars(Client)

(***************************************************************************)
(* Properties                                                              *)
(***************************************************************************)

Promise == INSTANCE Delivery WITH files <- files, honest <- honest, baseline <- baseline,
                                  result <- result

\* Whatever the server says of the files' times, and whatever the device writes
\* during the walk, the retrieval ends with a raw frame of this exposure, or none.
Delivers == Promise!Spec

\* A walk on which nothing was refused finds a frame of this exposure that was
\* there when it began, however many directories and files are older, if the
\* server tells when files were written.
NothingMissed ==
    /\ whole /\ honest /\ pc = "sleep"
    => ~\E f \in seen : f.raw /\ f.at >= Start

\* The retrieval ends.
RetrievalEnds == <>(pc = "done")
=============================================================================
