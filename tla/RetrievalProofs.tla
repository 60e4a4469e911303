--------------------------- MODULE RetrievalProofs ---------------------------
(***************************************************************************)
(* Theorems about Retrieval: the types, that it implements Delivery and that  *)
(* an undisturbed walk misses nothing, for any clocks, directories and files. *)
(*                                                                         *)
(* Delivery looks at a frame when it is delivered, and the client when the    *)
(* walk ends, before it downloads: what it has learnt of the files it holds    *)
(* (Known) has to stay true while the device goes on writing.  That nothing is *)
(* missed is a matter of the walk itself (Found): what was there when it began *)
(* is in a directory still to be opened, among the names still to be looked at *)
(* or an entry.                                                               *)
(***************************************************************************)
EXTENDS Retrieval, TLAPS, FiniteSetTheorems

\* What an entry says of its file.
True(e) == e.file \in files /\ (honest => e.stamp = e.file.at)

Known ==
    /\ \A f \in files : f.dir <= f.at
    /\ \A f \in names : f.raw
    /\ \A e \in entries : True(e) /\ e.file.raw
    /\ baseline # None => True(baseline)
    /\ pc = "download" => /\ pick \in Entries /\ True(pick) /\ pick.file.raw
                          /\ IsNew(pick) /\ IsCurrent(pick)
    /\ (result = Waiting) <=> (pc # "done")

IInv == TypeOK /\ Known

\* The files from before the exposure are files, and so is what an entry holds.
LEMMA InitIInv == Init => IInv
  <1> SUFFICES ASSUME Init PROVE IInv
    OBVIOUS
  <1>1. files \subseteq Files /\ \A f \in files : f.dir <= f.at
    BY RetrievalAssumption DEF Init, RetrievalAssumption
  <1>2. clock = Start /\ Start \in Nat /\ Deadline \in Nat /\ Start <= Deadline
    BY RetrievalAssumption DEF Init, RetrievalAssumption
  <1>3. baseline = None \/ (baseline \in Entries /\ True(baseline))
    <2>1. CASE baseline # None
      <3>1. PICK f \in files : baseline = [file |-> f, stamp |-> Stamp(f)]
        BY <2>1 DEF Init
      <3>2. Stamp(f) \in Int /\ (honest => Stamp(f) = f.at)
        BY <1>1, <1>2, <3>1 DEF Stamp, Files
      <3> QED BY <1>1, <3>1, <3>2 DEF Entries, True
    <2> QED BY <2>1
  <1>4. TypeOK
    <2>1. /\ clock \in Start..Deadline /\ files \subseteq Files
          /\ baseline \in Entries \cup {None}
      BY <1>1, <1>2, <1>3
    <2>2. honest \in BOOLEAN
      BY DEF Init
    <2>3. /\ result \in Files \cup {None, Waiting} /\ pick \in Entries \cup {None}
          /\ pc = "poll" /\ whole = FALSE
          /\ dirs = {} /\ names = {} /\ entries = {} /\ seen = {}
      BY DEF Init
    <2> QED BY <2>1, <2>2, <2>3 DEF TypeOK
  <1>5. Known
    BY <1>1, <1>3 DEF Init, Known
  <1> QED BY <1>4, <1>5 DEF IInv

\* A file that is looked at is entered with a time.
LEMMA StampType ==
    ASSUME TypeOK, NEW f \in files
    PROVE  /\ [file |-> f, stamp |-> Stamp(f)] \in Entries
           /\ True([file |-> f, stamp |-> Stamp(f)])
  <1>1. f \in Files /\ f.at \in Int
    BY DEF TypeOK, Files
  <1>2. clock \in Int
    BY RetrievalAssumption DEF TypeOK, RetrievalAssumption
  <1>3. Stamp(f) \in Int /\ (honest => Stamp(f) = f.at)
    BY <1>1, <1>2 DEF Stamp
  <1> QED BY <1>1, <1>3 DEF Entries, True

\* Each step of the client and of the device keeps what is known.
LEMMA IInvStep == IInv /\ [Next]_vars => IInv'
  <1> SUFFICES ASSUME IInv, [Next]_vars PROVE IInv'
    OBVIOUS
  <1> USE DEF IInv
  <1>0. /\ Start \in Nat /\ Deadline \in Nat /\ Start <= Deadline
        /\ Waiting \notin Files \cup {None} /\ None \notin Entries
    BY RetrievalAssumption DEF RetrievalAssumption, Entries
  <1>1. CASE Tick
    <2>1. TypeOK'
      BY <1>0, <1>1 DEF Tick, TypeOK, world, walk
    <2>2. Known'
      BY <1>1 DEF Tick, Known, True, IsNew, IsCurrent, Observed, world, walk
    <2> QED BY <2>1, <2>2
  <1>2. CASE Write
    <2>1. PICK named \in BOOLEAN, raw \in BOOLEAN :
              files' = files \cup {[dir |-> Start, at |-> clock, named |-> named, raw |-> raw]}
      BY <1>2 DEF Write
    <2>2. clock \in Nat /\ Start <= clock
      BY <1>0 DEF TypeOK
    <2>3. files' \subseteq Files /\ files \subseteq files' /\ \A f \in files' : f.dir <= f.at
      BY <1>0, <2>1, <2>2 DEF TypeOK, Known, Files
    <2>4. UNCHANGED <<clock, honest, baseline, result, pc, walk>>
      BY <1>2 DEF Write
    <2>5. TypeOK'
      BY <2>3, <2>4 DEF TypeOK, walk
    <2>6. Known'
      BY <2>3, <2>4 DEF Known, True, IsNew, IsCurrent, Observed, walk
    <2> QED BY <2>5, <2>6
  <1>3. CASE BeginWalk
    <2>1. Newest({f.dir : f \in files}) \subseteq Nat
      BY DEF Newest, TypeOK, Files
    <2>2. TypeOK'
      BY <1>3, <2>1 DEF BeginWalk, TypeOK, world
    <2>3. Known'
      BY <1>3 DEF BeginWalk, Known, True, world
    <2> QED BY <2>2, <2>3
  <1>4. CASE OpenDir
    <2>1. names' \subseteq files /\ (\A f \in names' : f.raw) /\ dirs' \subseteq dirs
      BY <1>4 DEF OpenDir
    <2>2. /\ UNCHANGED <<clock, files, honest, baseline, result, pc, entries, pick, seen>>
          /\ pc = "walk" /\ whole' \in {whole, FALSE}
      BY <1>4 DEF OpenDir, world
    <2>3. TypeOK'
      BY <2>1, <2>2 DEF TypeOK
    <2>4. Known'
      BY <2>1, <2>2 DEF Known, True
    <2> QED BY <2>3, <2>4
  <1>5. ASSUME NEW f \in names, LookAt(f)
        PROVE  IInv'
    <2>1. /\ f \in files /\ f.raw
      BY DEF TypeOK, Known
    <2> DEFINE e == [file |-> f, stamp |-> Stamp(f)]
    <2>2. e \in Entries /\ True(e) /\ e.file = f
      BY <2>1, StampType
    <2>3. /\ names' \subseteq names /\ entries' = entries \cup {e} /\ pc = "walk"
          /\ UNCHANGED <<clock, files, honest, baseline, result, pc, dirs, pick, seen, whole>>
      BY <1>5 DEF LookAt, world
    <2> HIDE DEF e
    <2>4. TypeOK'
      BY <2>2, <2>3 DEF TypeOK
    <2>5. Known'
      BY <2>1, <2>2, <2>3 DEF Known, True
    <2> QED BY <2>4, <2>5
  <1>6. CASE EndWalk
    <2>1. UNCHANGED <<clock, files, honest, baseline, result, dirs, names, entries, seen, whole>>
      BY <1>6 DEF EndWalk, world
    <2>2. CASE pc' = "sleep" /\ UNCHANGED pick
      <3>1. TypeOK'
        BY <2>1, <2>2 DEF TypeOK
      <3>2. Known'
        BY <1>6, <2>1, <2>2 DEF Known, True, EndWalk
      <3> QED BY <3>1, <3>2
    <2>3. CASE /\ pick' \in entries
               /\ pc' = IF IsNew(pick') /\ IsCurrent(pick') THEN "download" ELSE "sleep"
      <3>1. TypeOK'
        BY <2>1, <2>3 DEF TypeOK
      <3>2. pick' \in Entries /\ True(pick') /\ pick'.file.raw
        BY <2>3 DEF TypeOK, Known
      <3>3. pc' = "download" => IsNew(pick') /\ IsCurrent(pick')
        BY <2>3
      <3>4. Known'
        BY <1>6, <2>1, <2>3, <3>2, <3>3
        DEF Known, True, EndWalk, IsNew, IsCurrent, Observed
      <3> QED BY <3>1, <3>4
    <2> QED BY <1>6, <2>2, <2>3 DEF EndWalk
  <1>7. CASE Fails
    <2>1. TypeOK'
      BY <1>7 DEF Fails, TypeOK, world
    <2>2. Known'
      BY <1>7 DEF Fails, Known, True, world
    <2> QED BY <2>1, <2>2
  <1>8. CASE Download
    <2>1. pick.file \in Files
      BY <1>8 DEF Download, Known, Entries
    <2>2. TypeOK'
      BY <1>8, <2>1 DEF Download, TypeOK, world, walk
    <2>3. Known'
      BY <1>0, <1>8, <2>1 DEF Download, Known, True, world, walk
    <2> QED BY <2>2, <2>3
  <1>9. CASE Sleep
    <2>1. TypeOK'
      BY <1>9 DEF Sleep, TypeOK, world, walk
    <2>2. Known'
      BY <1>9 DEF Sleep, Known, True, world, walk
    <2> QED BY <2>1, <2>2
  <1>10. CASE GiveUp
    <2>1. TypeOK'
      BY <1>10 DEF GiveUp, TypeOK, world, walk
    <2>2. Known'
      BY <1>0, <1>10 DEF GiveUp, Known, True, world, walk
    <2> QED BY <2>1, <2>2
  <1>11. CASE UNCHANGED vars
    <2>1. TypeOK'
      BY <1>11 DEF vars, TypeOK, world, walk
    <2>2. Known'
      BY <1>11 DEF vars, Known, True, IsNew, IsCurrent, Observed, world, walk
    <2> QED BY <2>1, <2>2
  <1> QED BY <1>1, <1>2, <1>3, <1>4, <1>5, <1>6, <1>7, <1>8, <1>9, <1>10, <1>11 DEF Next, Client

\* Every value has its type, whatever files there are and however long it takes.
THEOREM TypeCorrect == Spec => []TypeOK
  <1>1. IInv => TypeOK
    BY DEF IInv
  <1> QED BY InitIInv, IInvStep, <1>1, PTL DEF Spec

\* What is known of the file that is downloaded makes it deliverable.
LEMMA PickIsDeliverable ==
    ASSUME IInv, pc = "download"
    PROVE  pick.file \in files /\ Promise!Deliverable(pick.file)
  <1>1. /\ pick \in Entries /\ True(pick) /\ pick.file.raw
        /\ IsNew(pick) /\ IsCurrent(pick)
    BY DEF IInv, Known
  <1>2. /\ pick.file \in Files /\ pick.file \in files
        /\ pick.file.at \in Nat /\ pick.file.dir \in Nat /\ pick.file.dir <= pick.file.at
    BY <1>1 DEF Entries, Files, True, IInv, Known
  <1>3. honest \/ Promise!Dated(pick.file) => pick.file.at >= Start - Tolerance
    <2>1. Start \in Nat /\ Tolerance \in Nat
      BY RetrievalAssumption DEF RetrievalAssumption
    <2>2. Observed(pick) >= Start - Tolerance
      BY <1>1 DEF IsCurrent
    <2>3. Observed(pick) \in Int
      BY <1>1, <1>2 DEF Observed, Entries
    <2>4. honest \/ Promise!Dated(pick.file) => Observed(pick) <= pick.file.at
      <3>1. CASE pick.file.named
        BY <1>2, <3>1 DEF Observed
      <3>2. CASE ~pick.file.named /\ pick.file.dir # 0
        BY <1>2, <3>2 DEF Observed
      <3>3. CASE ~pick.file.named /\ pick.file.dir = 0
        <4>1. ~Promise!Dated(pick.file)
          BY <3>3 DEF Promise!Dated
        <4>2. honest => Observed(pick) = pick.file.at
          BY <1>1, <3>3 DEF Observed, True
        <4> QED BY <1>2, <4>1, <4>2
      <3> QED BY <3>1, <3>2, <3>3
    <2> QED BY <1>2, <2>1, <2>2, <2>3, <2>4
  <1>4. honest /\ baseline # None => pick.file # baseline.file
    <2> SUFFICES ASSUME honest, baseline # None, pick.file = baseline.file PROVE FALSE
      OBVIOUS
    <2>1. True(baseline)
      BY DEF IInv, Known
    <2>2. pick.stamp = baseline.stamp /\ pick.stamp \in Int
      BY <1>1, <2>1 DEF True, Entries
    <2>3. pick.stamp > baseline.stamp
      BY <1>1 DEF IsNew
    <2> QED BY <2>2, <2>3
  <1> QED BY <1>1, <1>2, <1>3, <1>4 DEF Promise!Deliverable

\* A step of the retrieval is a step of the promise, or changes nothing in it.
LEMMA StepDelivers == IInv /\ IInv' /\ [Next]_vars => [Promise!Next]_Promise!vars
  <1> SUFFICES ASSUME IInv, [Next]_vars PROVE [Promise!Next]_Promise!vars
    OBVIOUS
  <1>1. CASE Write
    <2>1. files \subseteq files' /\ UNCHANGED <<honest, baseline, result>>
      BY <1>1 DEF Write
    <2> QED BY <2>1 DEF Promise!Next, Promise!Writes
  <1>2. CASE Download
    <2>1. result = Waiting /\ result' = pick.file /\ UNCHANGED <<files, honest, baseline>>
      BY <1>2 DEF Download, world, IInv, Known
    <2>2. pick.file \in files /\ Promise!Deliverable(pick.file)
      BY <1>2, PickIsDeliverable DEF Download
    <2> QED BY <2>1, <2>2 DEF Promise!Next, Promise!Ends
  <1>3. CASE GiveUp
    <2>1. result = Waiting /\ result' = None /\ UNCHANGED <<files, honest, baseline>>
      BY <1>3 DEF GiveUp, world, IInv, Known
    <2> QED BY <2>1 DEF Promise!Next, Promise!Ends
  <1>4. CASE UNCHANGED <<world, result>>
    BY <1>4 DEF Promise!vars, world
  <1>5. ASSUME \/ Tick \/ BeginWalk \/ OpenDir \/ EndWalk \/ Fails \/ Sleep
               \/ (\E f \in names : LookAt(f)) \/ UNCHANGED vars
        PROVE  UNCHANGED <<world, result>>
    BY <1>5 DEF Tick, BeginWalk, OpenDir, EndWalk, Fails, Sleep, LookAt, vars
  <1> QED BY <1>1, <1>2, <1>3, <1>4, <1>5 DEF Next, Client

\* The retrieval implements its promise: for any clocks, servers and files, it
\* ends with a raw frame of this exposure that was not retrieved before, or none.
THEOREM Implements == Spec => Delivers
  <1>1. Init => Promise!Init
    BY DEF Init, Promise!Init
  <1> QED BY InitIInv, IInvStep, StepDelivers, <1>1, PTL DEF Spec, Delivers, Promise!Spec

(***************************************************************************)
(* Nothing is missed                                                       *)
(***************************************************************************)

\* A frame of this exposure, by when it was written.
Frame(f) == f.raw /\ f.at >= Start

\* The exposure's directory is the newest and holds what was written since it
\* began, of which the baseline is none.
Placed ==
    /\ \A f \in files : f.dir <= Start /\ (f.at >= Start => f.dir = Start)
    /\ baseline # None => baseline.file.at < Start

\* What the walk has still to come to, or has an entry of.
Ahead(f) == f.dir \in dirs \/ f \in names \/ \E e \in entries : e.file = f

Found == whole /\ pc = "walk" => \A f \in seen : Frame(f) => Ahead(f)

MissInv == Placed /\ Found /\ NothingMissed

\* Nothing was walked yet, so nothing was missed.
LEMMA InitMissInv == Init => MissInv
  <1> SUFFICES ASSUME Init PROVE MissInv
    OBVIOUS
  <1>1. Start \in Nat \ {0} /\ \A f \in files : f \in Files /\ f.dir <= f.at /\ f.at < Start
    BY RetrievalAssumption DEF Init, RetrievalAssumption
  <1>2. Placed
    BY <1>1 DEF Init, Placed, Files
  <1> QED
    BY <1>2 DEF Init, MissInv, Found, NothingMissed

\* The newest directories are taken, and the exposure's is the newest.
LEMMA ExposureIsWalked ==
    ASSUME IInv, Placed, NEW f \in files, f.at >= Start
    PROVE  f.dir \in Newest({g.dir : g \in files})
  <1> DEFINE ds == {g.dir : g \in files}
  <1>1. Start \in Nat /\ MaxDirs \in Nat \ {0}
    BY RetrievalAssumption DEF RetrievalAssumption
  <1>2. f.dir = Start
    BY DEF Placed
  <1>3. {e \in ds : e > Start} = {}
    BY <1>1 DEF Placed, IInv, TypeOK, Files
  <1>4. Cardinality({e \in ds : e > f.dir}) = 0
    BY <1>2, <1>3, FS_EmptySet
  <1>5. f.dir \in ds
    OBVIOUS
  <1> HIDE DEF ds
  <1>6. f.dir \in Newest(ds)
    BY <1>1, <1>4, <1>5 DEF Newest
  <1> QED
    BY <1>6 DEF ds

\* The newest entry of an honest server is a frame of this exposure if any is: the
\* rest of what the client asks of it then holds.
LEMMA NewestIsTaken ==
    ASSUME IInv, Placed, honest, NEW p \in entries, NEW e \in entries,
           Frame(e.file), ~Older(p, e)
    PROVE  IsNew(p) /\ IsCurrent(p)
  <1>1. Start \in Nat \ {0} /\ Tolerance \in Nat
    BY RetrievalAssumption DEF RetrievalAssumption
  <1>2. /\ p.file \in files /\ p.file \in Files /\ p.stamp = p.file.at
        /\ e.file \in Files /\ e.stamp = e.file.at
    BY DEF IInv, TypeOK, Known, True
  <1>3. p.file.at \in Nat /\ e.file.at \in Nat /\ p.file.dir \in Nat
    BY <1>2 DEF Files
  <1>4. p.file.at >= Start
    BY <1>1, <1>2, <1>3 DEF Older, Frame
  <1>5. p.file.dir = Start
    BY <1>2, <1>4 DEF Placed
  <1>6. IsNew(p)
    <2>1. CASE baseline # None
      <3>1. /\ baseline.file \in Files /\ baseline.stamp = baseline.file.at
            /\ baseline.file.at < Start
        BY <2>1 DEF IInv, TypeOK, Known, True, Placed
      <3> QED
        BY <1>1, <1>2, <1>3, <1>4, <3>1 DEF IsNew, Files
    <2> QED
      BY <2>1 DEF IsNew
  <1>7. IsCurrent(p)
    BY <1>1, <1>2, <1>3, <1>4, <1>5 DEF IsCurrent, Observed
  <1> QED
    BY <1>6, <1>7

\* Every step keeps that what was there before a walk began is walked or yet to be.
LEMMA MissInvStep == IInv /\ MissInv /\ [Next]_vars => MissInv'
  <1> SUFFICES ASSUME IInv, MissInv, [Next]_vars PROVE MissInv'
    OBVIOUS
  <1> USE DEF MissInv
  <1>1. CASE Write
    <2>1. PICK named \in BOOLEAN, raw \in BOOLEAN :
              files' = files \cup {[dir |-> Start, at |-> clock, named |-> named, raw |-> raw]}
      BY <1>1 DEF Write
    <2>2. Start \in Nat /\ UNCHANGED <<honest, baseline, pc, dirs, names, entries, seen, whole>>
      BY <1>1, RetrievalAssumption DEF Write, walk, RetrievalAssumption
    <2>3. Placed'
      BY <2>1, <2>2 DEF Placed
    <2>4. Found' /\ NothingMissed'
      BY <2>2 DEF Found, Frame, Ahead, NothingMissed
    <2> QED BY <2>3, <2>4
  <1>a. UNCHANGED <<files, baseline>> => Placed'
    BY DEF Placed
  <1>2. CASE BeginWalk
    <2>1. /\ dirs' = Newest({g.dir : g \in files}) /\ seen' = files /\ pc' = "walk"
      BY <1>2 DEF BeginWalk
    <2>2. Found'
      BY <2>1, ExposureIsWalked DEF Found, Frame, Ahead
    <2> QED BY <1>a, <1>2, <2>1, <2>2 DEF BeginWalk, world, NothingMissed
  <1>3. CASE OpenDir
    <2>1. PICK d : /\ dirs' = dirs \ {d}
                   /\ \/ names' = {f \in files : f.dir = d /\ f.raw}
                      \/ whole' = FALSE
      BY <1>3 DEF OpenDir
    <2>2. /\ pc = "walk" /\ pc' = "walk" /\ names = {} /\ UNCHANGED <<entries, seen>>
          /\ whole' \in {whole, FALSE}
      BY <1>3 DEF OpenDir
    <2>3. seen \subseteq files
      BY DEF IInv, TypeOK
    <2>4. Found'
      BY <2>1, <2>2, <2>3 DEF Found, Frame, Ahead
    <2> QED BY <1>a, <1>3, <2>2, <2>4 DEF OpenDir, world, NothingMissed
  <1>4. ASSUME NEW f \in names, LookAt(f) PROVE MissInv'
    <2>1. /\ names' = names \ {f} /\ entries' = entries \cup {[file |-> f, stamp |-> Stamp(f)]}
          /\ pc' = pc /\ pc = "walk" /\ UNCHANGED <<files, baseline, dirs, seen, whole>>
      BY <1>4 DEF LookAt, world
    <2>2. Found'
      <3>1. \A g : Ahead(g) => Ahead(g)'
        <4>1. \E e \in entries' : e.file = f
          <5> DEFINE e == [file |-> f, stamp |-> Stamp(f)]
          <5>1. e.file = f
            OBVIOUS
          <5>2. e \in entries'
            BY <2>1
          <5> HIDE DEF e
          <5> QED BY <5>1, <5>2
        <4>2. entries \subseteq entries' /\ names' = names \ {f} /\ dirs' = dirs
          BY <2>1
        <4>3. ASSUME NEW g, Ahead(g) PROVE Ahead(g)'
          <5>1. CASE g = f
            BY <4>1, <5>1 DEF Ahead
          <5>2. CASE g # f
            BY <4>2, <4>3, <5>2 DEF Ahead
          <5> QED BY <5>1, <5>2
        <4> QED BY <4>3
      <3> QED BY <2>1, <3>1 DEF Found, Frame
    <2> QED BY <1>a, <2>1, <2>2 DEF NothingMissed
  <1>5. CASE EndWalk
    <2>1. /\ pc = "walk" /\ pc' # "walk" /\ names = {} /\ dirs = {}
          /\ UNCHANGED <<honest, entries, seen, whole>>
      BY <1>5 DEF EndWalk, world
    <2>2. NothingMissed'
      <3> SUFFICES ASSUME whole, honest, pc' = "sleep", NEW f \in seen, Frame(f) PROVE FALSE
        BY <2>1 DEF NothingMissed, Frame
      <3>1. PICK e \in entries : e.file = f
        BY <2>1 DEF Found, Ahead
      <3>2. PICK p \in entries :
               /\ \A o \in entries : ~Older(p, o)
               /\ pc' = IF IsNew(p) /\ IsCurrent(p) THEN "download" ELSE "sleep"
        BY <1>5, <3>1 DEF EndWalk, IsNew, IsCurrent, Observed, world
      <3> QED
        BY <3>1, <3>2, NewestIsTaken
    <2> QED BY <1>a, <1>5, <2>1, <2>2 DEF EndWalk, world, Found
  <1>6. CASE Fails \/ Download \/ Sleep \/ GiveUp
    <2>1. UNCHANGED <<files, baseline>> /\ pc' # "walk" /\ (pc' = "sleep" => ~whole')
      BY <1>6 DEF Fails, Download, Sleep, GiveUp, world
    <2> QED BY <1>a, <2>1 DEF Found, NothingMissed
  <1>7. CASE Tick \/ UNCHANGED vars
    <2>1. UNCHANGED <<files, honest, baseline, pc, dirs, names, entries, seen, whole>>
      BY <1>7 DEF Tick, vars, world, walk
    <2> QED BY <2>1 DEF Placed, Found, Frame, Ahead, NothingMissed
  <1> QED BY <1>1, <1>2, <1>3, <1>4, <1>5, <1>6, <1>7 DEF Next, Client

\* A walk on which nothing was refused finds a frame of this exposure that was there
\* when it began, for any number of older directories and files and however few
\* directories a walk may open (ftp_client.py:300-303), if the server is honest.
THEOREM MissesNothing == Spec => []NothingMissed
  <1>1. MissInv => NothingMissed
    BY DEF MissInv
  <1> QED BY InitIInv, IInvStep, InitMissInv, MissInvStep, <1>1, PTL DEF Spec
=============================================================================
