---------------------------- MODULE ShootingProofs ----------------------------
(***************************************************************************)
(* Theorems about what is to be shot, and with which values: the plans of     *)
(* Schedules, for a day of any length and any plan file, and the values and    *)
(* filters of Settings, further down, for any number of captures, requests,    *)
(* filters, ids and devices.                                               *)
(*                                                                         *)
(* PlacedInOrder is not inductive: that a task comes after the last one needs *)
(* that the last one has ended by the next midnight (WithinDay), and that a   *)
(* plan that is sent has tasks needs that it was begun with some (Underway).  *)
(* That an exported plan comes back rests on BackInv, further down.           *)
(***************************************************************************)
EXTENDS Schedules, Settings, SequenceTheorems, TLAPS

Underway ==
    IF pc = "tasks" THEN todo # <<>> /\ (left # <<>> \/ parsed # <<>>)
                    ELSE parsed = <<>>

WithinDay == parsed # <<>> => minStart < maxEnd /\ maxEnd < midnight + Day

IInv == TypeOK /\ Underway /\ WithinDay /\ PlacedInOrder

\* A time of day is a time of day.
LEMMA TimeOfDay ==
    ASSUME NEW time \in Int
    PROVE  time % Day \in 0..(Day - 1)
  BY SchedulesAssumption DEF SchedulesAssumption

\* A midnight is a time.
LEMMA MidnightType ==
    ASSUME NEW time \in Int
    PROVE  Midnight(time) \in Int
  BY TimeOfDay, SchedulesAssumption DEF Midnight, SchedulesAssumption

\* What the wall clock says at a time is an integer.
LEMMA WallType ==
    ASSUME NEW time \in Int
    PROVE  Wall(time) \in Int
  BY SchedulesAssumption DEF Wall, Offset, SchedulesAssumption

\* Spans by the wall clock are as many spans.
LEMMA WallsType ==
    ASSUME NEW tasks \in Seq(Spans)
    PROVE  /\ Walls(tasks) \in Seq(Spans)
           /\ Len(Walls(tasks)) = Len(tasks)
           /\ \A i \in 1..Len(tasks) : Walls(tasks)[i] = [start |-> Wall(tasks[i].start),
                                                         end |-> Wall(tasks[i].end)]
  <1>1. Len(tasks) \in Nat
    BY LenProperties
  <1>2. ASSUME NEW i \in 1..Len(tasks)
        PROVE  Walls(tasks)[i] \in Spans
    <2>1. tasks[i] \in Spans
      BY ElementOfSeq
    <2> QED BY <2>1, WallType DEF Walls, Spans
  <1>3. Walls(tasks) \in [1..Len(tasks) -> Spans]
    BY <1>2 DEF Walls
  <1>4. Walls(tasks) \in Seq(Spans)
    BY <1>1, <1>3, SeqDef
  <1>5. Len(Walls(tasks)) = Len(tasks)
    BY <1>1, <1>3, <1>4, LenProperties
  <1> QED BY <1>4, <1>5 DEF Walls

\* And so are spans as instants.
LEMMA InstantsType ==
    ASSUME NEW tasks \in Seq(Spans), NEW z \in Int
    PROVE  /\ Instants(tasks, z) \in Seq(Spans)
           /\ Len(Instants(tasks, z)) = Len(tasks)
           /\ \A i \in 1..Len(tasks) :
                 Instants(tasks, z)[i] = [start |-> Instant(tasks[i].start, z),
                                          end |-> Instant(tasks[i].end, z)]
  <1>1. Len(tasks) \in Nat
    BY LenProperties
  <1>2. ASSUME NEW i \in 1..Len(tasks)
        PROVE  Instants(tasks, z)[i] \in Spans
    <2>1. tasks[i] \in Spans
      BY ElementOfSeq
    <2> QED BY <2>1 DEF Instants, Instant, Spans
  <1>3. Instants(tasks, z) \in [1..Len(tasks) -> Spans]
    BY <1>2 DEF Instants
  <1>4. Instants(tasks, z) \in Seq(Spans)
    BY <1>1, <1>3, SeqDef
  <1>5. Len(Instants(tasks, z)) = Len(tasks)
    BY <1>1, <1>3, <1>4, LenProperties
  <1> QED BY <1>4, <1>5 DEF Instants

\* Their times of day are times of day.
LEMMA TimesOfDayType ==
    ASSUME NEW tasks \in Seq(Spans)
    PROVE  TimesOfDay(tasks) \in Seq(Times)
  <1>1. Len(tasks) \in Nat
    BY LenProperties
  <1>2. ASSUME NEW i \in 1..Len(tasks)
        PROVE  TimesOfDay(tasks)[i] \in Times
    <2>1. tasks[i] \in Spans
      BY ElementOfSeq
    <2> QED BY <2>1, TimeOfDay DEF TimesOfDay, Times, Spans
  <1>3. TimesOfDay(tasks) = [i \in 1..Len(tasks) |-> TimesOfDay(tasks)[i]]
    BY DEF TimesOfDay
  <1>4. TimesOfDay(tasks) \in [1..Len(tasks) -> Times]
    BY <1>2, <1>3
  <1> QED BY <1>1, <1>4, SeqDef

\* What export_schedules writes is a file.
LEMMA ExportedType ==
    ASSUME NEW plan \in Plans
    PROVE  Exported(plan) \in Entries
  <1>1. plan.tasks \in Seq(Spans) /\ plan.start \in Int /\ plan.name \in Names
    BY DEF Plans
  <1>2. TimesOfDay(Walls(plan.tasks)) \in Seq(Times)
    BY <1>1, WallsType, TimesOfDayType
  <1>3. Midnight(Wall(plan.start)) \in Int
    BY <1>1, WallType, MidnightType
  <1> QED BY <1>1, <1>2, <1>3 DEF Exported, Entries

\* A plan that is injected is a plan.
LEMMA InjectedType ==
    ASSUME NEW plan, NEW id \in Nat, NEW name \in Names, NEW start \in Int, NEW end \in Int,
           NEW tasks \in Seq(Spans), NEW was \in Seq(Spans), NEW z \in Int,
           plan = [id |-> id, name |-> name, done |-> FALSE, start |-> Instant(start, z),
                   end |-> Instant(end, z), tasks |-> Instants(tasks, z), was |-> was,
                   zone |-> z]
    PROVE  plan \in Plans
  <1>1. Instants(tasks, z) \in Seq(Spans)
    BY InstantsType
  <1>2. Instant(start, z) \in Int /\ Instant(end, z) \in Int
    BY DEF Instant
  <1> QED BY <1>1, <1>2 DEF Plans

\* Where a plan is put, the device's list stays one of plans.
LEMMA StoresType ==
    ASSUME TypeOK, NEW plan \in Plans, Stores(plan)
    PROVE  plans' \in Seq(Plans)
  <1>1. PICK k \in 0..Len(plans) :
            plans' = SubSeq(plans, 1, k) \o <<plan>> \o SubSeq(plans, k + 1, Len(plans))
    BY DEF Stores
  <1>2. plans \in Seq(Plans) /\ Len(plans) \in Nat
    BY LenProperties DEF TypeOK
  <1>3. SubSeq(plans, 1, k) \in Seq(Plans)
    BY <1>2, SubSeqProperties
  <1>4. SubSeq(plans, k + 1, Len(plans)) \in Seq(Plans)
    BY <1>2, SubSeqProperties
  <1>5. <<plan>> \in Seq(Plans)
    OBVIOUS
  <1> QED BY <1>1, <1>3, <1>4, <1>5, ConcatProperties

\* One more span leaves a list of spans, which is not empty.
LEMMA Appended ==
    ASSUME NEW s \in Seq(Spans), NEW span \in Spans
    PROVE  Append(s, span) \in Seq(Spans) /\ Append(s, span) # <<>>
  BY AppendProperties

\* The scripts begin with a file and nothing under way.
LEMMA InitIInv == Init => IInv
  <1> SUFFICES ASSUME Init PROVE IInv
    OBVIOUS
  <1>1. PICK name \in Names, date \in Dates, tasks \in Tasks :
            file = <<[name |-> name, date |-> date, tasks |-> tasks, was |-> <<>>]>>
    BY DEF Init
  <1>2. [name |-> name, date |-> date, tasks |-> tasks, was |-> <<>>] \in Entries
    BY SchedulesAssumption DEF SchedulesAssumption, Entries
  <1>3. file \in Seq(Entries)
    BY <1>1, <1>2
  <1>4. TypeOK
    BY <1>3 DEF Init, TypeOK, Places
  <1>5. Underway /\ WithinDay
    BY DEF Init, Underway, WithinDay
  <1>6. PlacedInOrder
    BY DEF Init, PlacedInOrder, Orderly
  <1> QED BY <1>4, <1>5, <1>6 DEF IInv

\* The types are kept: one lemma for the steps that change plans or the file.
LEMMA TypeStep == TypeOK /\ Underway /\ [Next]_vars => TypeOK'
  <1> SUFFICES ASSUME TypeOK, Underway, [Next]_vars PROVE TypeOK'
    OBVIOUS
  <1> USE DEF TypeOK
  <1>1. CASE List
    BY <1>1 DEF List, syncVars
  <1>2. CASE Export
    <2>1. \A i \in 1..Len(plans) : Exported(plans[i]) \in Entries
      BY ExportedType, ElementOfSeq
    <2>2. Len(plans) \in Nat
      BY LenProperties
    <2>3. file' \in [1..Len(plans) -> Entries]
      <3>1. PICK order \in Orders :
                file' = [n \in 1..Len(plans) |-> Exported(plans[order[n]])]
        BY <1>2 DEF Export
      <3> QED BY <2>1, <3>1 DEF Orders
    <2>4. file' \in Seq(Entries)
      BY <2>2, <2>3, SeqDef
    <2> QED BY <1>2, <2>4 DEF Export, syncVars
  <1>3. CASE Find
    BY <1>3 DEF Find, syncVars, Places
  <1>4. CASE Delete
    <2>1. ASSUME NEW i \in 1..Len(plans),
                 plans' = SubSeq(plans, 1, i - 1) \o SubSeq(plans, i + 1, Len(plans))
          PROVE  plans' \in Seq(Plans)
      <3>1. Len(plans) \in Nat
        BY LenProperties
      <3>2. SubSeq(plans, 1, i - 1) \in Seq(Plans)
        BY <3>1, SubSeqProperties, ElementOfSeq
      <3>3. SubSeq(plans, i + 1, Len(plans)) \in Seq(Plans)
        BY <3>1, SubSeqProperties, ElementOfSeq
      <3> QED BY <2>1, <3>2, <3>3, ConcatProperties
    <2>2. plans' \in Seq(Plans)
      BY <1>4, <2>1 DEF Delete
    <2> QED BY <1>4, <2>2 DEF Delete, syncVars, Places
  <1>5. CASE Sync
    BY <1>5, SchedulesAssumption DEF Sync, Places, SchedulesAssumption
  <1>6. CASE BeginPlan
    <2>1. Head(todo) \in Entries /\ Tail(todo) \in Seq(Entries)
      BY <1>6, HeadTailProperties DEF BeginPlan
    <2> QED BY <1>6, <2>1 DEF BeginPlan, Places, Entries
  <1>7. CASE PlaceTask
    <2>1. Head(left) \in Times /\ Tail(left) \in Seq(Times)
      BY <1>7, HeadTailProperties DEF PlaceTask
    <2> DEFINE t == Head(left)
               start == StartDay(t) + t.start
               end == EndDay(t) + t.end
    <2>2. /\ t.start \in Int /\ t.end \in Int
          /\ Day \in Int
      BY <2>1, SchedulesAssumption DEF Times, SchedulesAssumption
    <2>3. /\ StartDay(t) \in Int /\ EndDay(t) \in Int
      BY <2>2 DEF StartDay, EndDay
    <2>4. start \in Int /\ end \in Int
      <3> HIDE DEF TypeOK, t
      <3> QED BY <2>2, <2>3
    <2>5. /\ midnight' = EndDay(t)
          /\ parsed' = Append(parsed, [start |-> start, end |-> end])
          /\ minStart' = Earliest(minStart, start)
          /\ maxEnd' = Latest(maxEnd, end)
      BY <1>7 DEF PlaceTask
    <2> HIDE DEF t, start, end
    <2>6. parsed' \in Seq(Spans) /\ parsed' # <<>>
      <3> DEFINE span == [start |-> start, end |-> end]
      <3>1. span \in Spans
        BY <2>4 DEF Spans
      <3>2. parsed' = Append(parsed, span)
        BY <2>5
      <3> HIDE DEF span
      <3>3. parsed \in Seq(Spans)
        BY DEF TypeOK
      <3> QED BY <3>1, <3>2, <3>3, Appended
    <2>7. /\ minStart' \in Int /\ maxEnd' \in Int
          /\ minStart' # None /\ maxEnd' # None
      BY <2>4, <2>5, SchedulesAssumption DEF Earliest, Latest, SchedulesAssumption
    <2> QED BY <1>7, <2>1, <2>3, <2>5, <2>6, <2>7 DEF PlaceTask
  <1>8. CASE Send
    <2>1. Head(todo) \in Entries /\ Tail(todo) \in Seq(Entries)
      BY <1>8, HeadTailProperties DEF Send, Underway
    <2> DEFINE plan == [id |-> clock, name |-> Head(todo).name, done |-> FALSE,
                        start |-> Instant(minStart, zone), end |-> Instant(maxEnd, zone),
                        tasks |-> Instants(parsed, zone), was |-> Head(todo).was,
                        zone |-> zone]
    <2>2. parsed # <<>>
      BY <1>8 DEF Send, Underway
    <2>3. plan \in Plans
      <3>1. minStart \in Int /\ maxEnd \in Int
        BY <2>2, SchedulesAssumption DEF SchedulesAssumption
      <3>2. Head(todo).name \in Names /\ Head(todo).was \in Seq(Spans)
        BY <2>1 DEF Entries
      <3> QED BY <3>1, <3>2, InjectedType
    <2>4. (Stores(plan) /\ sent' = plan) \/ UNCHANGED <<plans, sent>>
      BY <1>8 DEF Send
    <2>5. plans' \in Seq(Plans) /\ sent' \in Plans \cup {None}
      <3> HIDE DEF plan
      <3> QED BY <2>3, <2>4, StoresType
    <2>6. clock' \in Nat /\ pc' \in Places /\ todo' \in Seq(Entries) /\ zone' \in Int
      BY <1>8, <2>1 DEF Send, Places
    <2>7. UNCHANGED <<file, left>> /\ Clear
      BY <1>8 DEF Send
    <2>8. /\ parsed' \in Seq(Spans) /\ midnight' \in Int
          /\ minStart' = None /\ maxEnd' = None /\ parsed' = <<>>
      BY <2>7, EmptySeq DEF Clear
    <2>9. file' \in Seq(Entries) /\ left' \in Seq(Times)
      BY <2>7
    <2> HIDE DEF plan, TypeOK
    <2> QED BY <2>5, <2>6, <2>8, <2>9 DEF TypeOK
  <1>9. CASE Verify
    <2>1. /\ todo' \in Seq(Entries) /\ pc' \in Places
          /\ zone' \in Int
          /\ UNCHANGED <<plans, file, left, parsed, midnight, minStart, maxEnd, sent, clock>>
      <3>1. CASE pc' = "plan" /\ UNCHANGED <<todo, zone>>
        BY <1>9, <3>1 DEF Verify, Places
      <3>2. CASE pc' = "idle" /\ todo' = <<>> /\ zone' = 0
        BY <1>9, <3>2, EmptySeq DEF Verify, Places
      <3>3. \/ pc' = "plan" /\ UNCHANGED <<todo, zone>>
            \/ pc' = "idle" /\ todo' = <<>> /\ zone' = 0
        BY <1>9, Zenon DEF Verify
      <3> QED BY <3>1, <3>2, <3>3
    <2> QED BY <2>1
  <1>10. CASE Synced
    BY <1>10 DEF Synced, Places
  <1>11. CASE AppAdds
    <2>1. PICK name \in Names, tasks \in AppTasks :
              Stores([id |-> clock, name |-> name, done |-> FALSE, start |-> tasks[1].start,
                      end |-> tasks[Len(tasks)].end, tasks |-> tasks, was |-> <<>>,
                      zone |-> 0])
      BY <1>11 DEF AppAdds
    <2>2. tasks \in Seq(Spans) /\ tasks # <<>>
      BY SchedulesAssumption DEF SchedulesAssumption
    <2>3. tasks[1] \in Spans /\ tasks[Len(tasks)] \in Spans
      BY <2>2, ElementOfSeq, LenProperties, EmptySeq
    <2>4. [id |-> clock, name |-> name, done |-> FALSE, start |-> tasks[1].start,
           end |-> tasks[Len(tasks)].end, tasks |-> tasks, was |-> <<>>, zone |-> 0] \in Plans
      BY <2>2, <2>3 DEF Plans, Spans
    <2>5. plans' \in Seq(Plans)
      BY <2>1, <2>4, StoresType
    <2> QED BY <1>11, <2>5 DEF AppAdds, syncVars
  <1>12. CASE PlanEnds
    <2>1. PICK i \in 1..Len(plans) : plans' = [plans EXCEPT ![i].done = TRUE]
      BY <1>12 DEF PlanEnds
    <2>2. plans[i] \in Plans
      BY ElementOfSeq
    <2>3. [plans[i] EXCEPT !.done = TRUE] \in Plans
      BY <2>2 DEF Plans
    <2>4. plans' \in Seq(Plans)
      BY <2>1, <2>3, ExceptSeq
    <2> QED BY <1>12, <2>4 DEF PlanEnds, syncVars
  <1>13. CASE OneTask
    <2>1. \/ \E name \in Names, today \in Dates, t \in OneTasks :
                LET start == today + t.start
                    end == (IF t.end <= t.start THEN today + Day ELSE today) + t.end IN
                \E z \in {0, Shift} :
                    Stores([id |-> clock, name |-> name, done |-> FALSE,
                            start |-> Instant(start, z), end |-> Instant(end, z),
                            tasks |-> Instants(<<[start |-> start, end |-> end]>>, z),
                            was |-> <<>>, zone |-> z])
          \/ UNCHANGED plans
      BY <1>13 DEF OneTask
    <2>2. ASSUME NEW name \in Names, NEW start \in Int, NEW end \in Int,
                 NEW z \in {0, Shift}
          PROVE  [id |-> clock, name |-> name, done |-> FALSE, start |-> Instant(start, z),
                  end |-> Instant(end, z),
                  tasks |-> Instants(<<[start |-> start, end |-> end]>>, z),
                  was |-> <<>>, zone |-> z] \in Plans
      <3>1. <<[start |-> start, end |-> end]>> \in Seq(Spans) /\ <<>> \in Seq(Spans)
        BY EmptySeq DEF Spans
      <3>2. z \in Int
        BY SchedulesAssumption DEF SchedulesAssumption
      <3> QED BY <3>1, <3>2, InjectedType
    <2>3. ASSUME NEW today \in Dates, NEW t \in OneTasks
          PROVE  /\ today + t.start \in Int
                 /\ (IF t.end <= t.start THEN today + Day ELSE today) + t.end \in Int
      BY SchedulesAssumption DEF SchedulesAssumption, Times
    <2>4. plans' \in Seq(Plans)
      <3>1. CASE UNCHANGED plans
        BY <3>1
      <3> HIDE DEF TypeOK
      <3> QED BY <2>1, <2>2, <2>3, <3>1, StoresType, Zenon
    <2> QED BY <1>13, <2>4 DEF OneTask, syncVars
  <1>14. CASE UNCHANGED vars
    BY <1>14 DEF vars, syncVars
  <1> QED BY <1>1, <1>2, <1>3, <1>4, <1>5, <1>6, <1>7, <1>8, <1>9, <1>10, <1>11, <1>12, <1>13,
             <1>14 DEF Next

\* A script that is placing tasks has the plan they belong to, and only then are
\* there any.
LEMMA UnderwayStep == TypeOK /\ Underway /\ [Next]_vars => Underway'
  <1> SUFFICES ASSUME TypeOK, Underway, [Next]_vars PROVE Underway'
    OBVIOUS
  <1> USE DEF Underway
  <1>1. CASE List \/ Export \/ OneTask \/ AppAdds \/ PlanEnds \/ UNCHANGED vars
    BY <1>1 DEF List, Export, OneTask, AppAdds, PlanEnds, vars, syncVars
  <1>2. CASE Find
    BY <1>2 DEF Find, syncVars
  <1>3. CASE Delete
    BY <1>3 DEF Delete, syncVars
  <1>4. CASE Sync
    BY <1>4 DEF Sync
  <1>5. CASE BeginPlan
    BY <1>5 DEF BeginPlan
  <1>6. CASE PlaceTask
    <2>1. parsed' # <<>>
      <3>1. PICK span \in [start : Int, end : Int] : parsed' = Append(parsed, span)
        <4>1. Head(left) \in Times /\ midnight \in Int /\ Day \in Int
          BY <1>6, HeadTailProperties, SchedulesAssumption DEF PlaceTask, TypeOK, SchedulesAssumption
        <4>2. /\ StartDay(Head(left)) + Head(left).start \in Int
              /\ EndDay(Head(left)) + Head(left).end \in Int
          BY <4>1 DEF StartDay, EndDay, Times
        <4>3. parsed' = Append(parsed, [start |-> StartDay(Head(left)) + Head(left).start,
                                        end |-> EndDay(Head(left)) + Head(left).end])
          BY <1>6, Zenon DEF PlaceTask
        <4> QED BY <4>2, <4>3
      <3> QED BY <3>1, Appended DEF Spans, TypeOK
    <2> QED BY <1>6, <2>1 DEF PlaceTask
  <1>7. CASE Send
    <2>1. pc' \in {"plan", "idle", "verify"}
      BY <1>7 DEF Send
    <2> QED BY <1>7, <2>1 DEF Send, Clear
  <1>8. CASE Verify
    <2>1. pc' = "plan" \/ pc' = "idle"
      BY <1>8, Zenon DEF Verify
    <2>2. pc = "verify" /\ parsed' = parsed
      BY <1>8, Zenon DEF Verify
    <2> QED BY <2>1, <2>2
  <1>9. CASE Synced
    BY <1>9 DEF Synced
  <1> QED BY <1>1, <1>2, <1>3, <1>4, <1>5, <1>6, <1>7, <1>8, <1>9 DEF Next

\* A task is put after the last one, and the next midnight is within a day of
\* its end: the case that the other steps rest on.
LEMMA PlaceTaskStep ==
    ASSUME IInv, PlaceTask
    PROVE  (WithinDay /\ PlacedInOrder)'
  <1> DEFINE t == Head(left)
             start == StartDay(t) + t.start
             end == EndDay(t) + t.end
             span == [start |-> start, end |-> end]
  <1>1. /\ Day \in Int /\ Day > 0
        /\ t.start \in Int /\ 0 <= t.start /\ t.start < Day
        /\ t.end \in Int /\ 0 <= t.end /\ t.end < Day
    <2>1. t \in Times
      BY HeadTailProperties DEF PlaceTask, IInv, TypeOK
    <2> QED BY <2>1, SchedulesAssumption DEF Times, SchedulesAssumption
  <1>2. /\ midnight' = EndDay(t)
        /\ parsed' = Append(parsed, span)
        /\ minStart' = Earliest(minStart, start)
        /\ maxEnd' = Latest(maxEnd, end)
    BY DEF PlaceTask
  <1>3. midnight \in Int /\ parsed \in Seq(Spans) /\ Len(parsed) \in Nat
    BY LenProperties DEF IInv, TypeOK
  <1>4. /\ maxEnd \in Int \cup {None} /\ minStart \in Int \cup {None} /\ None \notin Int
        /\ (minStart = None) <=> (parsed = <<>>)
        /\ (maxEnd = None) <=> (parsed = <<>>)
    BY SchedulesAssumption DEF IInv, TypeOK, SchedulesAssumption
  <1>5. parsed # <<>> => minStart < maxEnd /\ maxEnd < midnight + Day
    BY DEF IInv, WithinDay
  <1> HIDE DEF t
  <1>6. /\ start \in Int /\ end \in Int
        /\ StartDay(t) \in Int /\ EndDay(t) \in Int
        /\ start < end /\ end <= start + Day /\ end < EndDay(t) + Day
    <2>1. StartDay(t) \in Int
      BY <1>1, <1>3 DEF StartDay
    <2>2. EndDay(t) = IF t.end <= t.start THEN StartDay(t) + Day ELSE StartDay(t)
      BY DEF EndDay
    <2>3. CASE t.end <= t.start
      BY <1>1, <2>1, <2>2, <2>3
    <2>4. CASE ~(t.end <= t.start)
      BY <1>1, <2>1, <2>2, <2>4
    <2> QED BY <2>3, <2>4
  <1>7. parsed # <<>> => maxEnd <= start
    BY <1>1, <1>3, <1>4, <1>5 DEF StartDay
  <1> HIDE DEF start, end
  <1>8. maxEnd' = end
    BY <1>2, <1>4, <1>6, <1>7 DEF Latest
  <1>9. minStart' = IF parsed = <<>> THEN start ELSE minStart
    BY <1>2, <1>4, <1>5, <1>6, <1>7 DEF Earliest
  <1>10. WithinDay'
    BY <1>2, <1>4, <1>5, <1>6, <1>7, <1>8, <1>9 DEF WithinDay
  <1>11. /\ Len(parsed') = Len(parsed) + 1
         /\ \A i \in 1..Len(parsed) : parsed'[i] = parsed[i]
         /\ parsed'[Len(parsed) + 1] = span
    <2>1. span \in Spans
      BY <1>6 DEF Spans
    <2> HIDE DEF span
    <2> QED BY <1>2, <1>3, <2>1, AppendProperties
  <1>12. span.start = start /\ span.end = end
    OBVIOUS
  <1> HIDE DEF span
  <1>13. Orderly(parsed) /\ (parsed # <<>> => /\ minStart = parsed[1].start
                                              /\ maxEnd = parsed[Len(parsed)].end)
    BY DEF IInv, PlacedInOrder
  <1>14. parsed = <<>> <=> Len(parsed) = 0
    BY <1>3, EmptySeq
  <1>15. ASSUME NEW i \in 1..Len(parsed')
         PROVE  parsed'[i].start < parsed'[i].end /\ parsed'[i].end <= parsed'[i].start + Day
    <2>1. CASE i \in 1..Len(parsed)
      BY <1>11, <1>13, <2>1 DEF Orderly
    <2>2. CASE i = Len(parsed) + 1
      BY <1>6, <1>11, <1>12, <2>2
    <2> QED BY <1>3, <1>11, <2>1, <2>2
  <1>16. ASSUME NEW i \in 2..Len(parsed')
         PROVE  parsed'[i - 1].end <= parsed'[i].start
    <2>1. CASE i \in 2..Len(parsed)
      <3>1. i \in 1..Len(parsed) /\ i - 1 \in 1..Len(parsed)
        BY <1>3, <2>1
      <3> QED BY <1>11, <1>13, <2>1, <3>1 DEF Orderly
    <2>2. CASE i = Len(parsed) + 1
      <3>1. i - 1 = Len(parsed) /\ Len(parsed) \in 1..Len(parsed)
        BY <1>3, <1>11, <2>2
      <3> QED BY <1>7, <1>11, <1>12, <1>13, <1>14, <2>2, <3>1
    <2> QED BY <1>3, <1>11, <2>1, <2>2
  <1>17. Orderly(parsed')
    BY <1>15, <1>16 DEF Orderly
  <1>18. minStart' = parsed'[1].start
    <2>1. CASE parsed = <<>>
      BY <1>9, <1>11, <1>12, <1>14, <2>1
    <2>2. CASE parsed # <<>>
      <3>1. 1 \in 1..Len(parsed)
        BY <1>3, <1>14, <2>2
      <3> QED BY <1>9, <1>11, <1>13, <2>2, <3>1
    <2> QED BY <2>1, <2>2
  <1>19. maxEnd' = parsed'[Len(parsed')].end
    BY <1>8, <1>11, <1>12
  <1> QED BY <1>10, <1>17, <1>18, <1>19 DEF PlacedInOrder

\* The strengthened invariant is kept by every step.
LEMMA IInvStep == IInv /\ [Next]_vars => IInv'
  <1> SUFFICES ASSUME IInv, [Next]_vars PROVE IInv'
    OBVIOUS
  <1>1. TypeOK' /\ Underway'
    BY TypeStep, UnderwayStep DEF IInv
  <1>2. CASE PlaceTask
    BY <1>1, <1>2, PlaceTaskStep DEF IInv
  <1>3. CASE UNCHANGED <<parsed, minStart, maxEnd, midnight>>
    BY <1>1, <1>3 DEF IInv, WithinDay, PlacedInOrder, Orderly
  <1>4. CASE parsed' = <<>>
    BY <1>1, <1>4 DEF IInv, WithinDay, PlacedInOrder, Orderly
  <1>5. CASE BeginPlan
    BY <1>4, <1>5 DEF BeginPlan, IInv, Underway
  <1>6. CASE Send
    BY <1>4, <1>6 DEF Send, Clear
  <1>7. CASE \/ List \/ Export \/ Find \/ Delete \/ OneTask \/ AppAdds \/ PlanEnds
             \/ UNCHANGED vars
    BY <1>3, <1>7 DEF List, Export, Find, Delete, OneTask, AppAdds, PlanEnds, vars, syncVars
  <1>8. CASE Sync \/ Synced
    BY <1>3, <1>8 DEF Sync, Synced
  <1>9. CASE Verify
    <2>1. UNCHANGED <<parsed, minStart, maxEnd, midnight>>
      BY <1>9, Zenon DEF Verify
    <2> QED BY <1>3, <2>1
  <1> QED BY <1>2, <1>5, <1>6, <1>7, <1>8, <1>9 DEF Next

(***************************************************************************)
(* The times come back                                                       *)
(*                                                                         *)
(* Midnight is a division: the first lemmas find a time again from its time  *)
(* of day and a time before it, which is all that sync_plan has.  The         *)
(* invariant then follows a plan on its way: kept by the device (Kept),       *)
(* written to the file (Faithful) and placed task by task (OnCourse).         *)
(***************************************************************************)

\* A time is whole days and a time of day, which is less than a day.
LEMMA Division ==
    ASSUME NEW time \in Int
    PROVE  \E q \in Int : time = (Day * q) + (time % Day) /\ Midnight(time) = Day * q
  <1>1. Day \in Int /\ Day > 0
    BY SchedulesAssumption DEF SchedulesAssumption
  <1> DEFINE q == time \div Day
             r == time % Day
  <1>2. q \in Int /\ r \in Int /\ time = (Day * q) + r
    BY <1>1
  <1>3. Midnight(time) = time - r
    BY DEF Midnight
  <1>4. Day * q \in Int
    BY <1>1, <1>2
  <1> HIDE DEF q, r
  <1>5. Midnight(time) = Day * q
    BY <1>2, <1>3, <1>4
  <1> QED BY <1>2, <1>5 DEF r

\* Two midnights less than a day apart are the same one.
LEMMA OneMidnight ==
    ASSUME NEW p \in Int, NEW q \in Int, Day * p < (Day * q) + Day, Day * q < (Day * p) + Day
    PROVE  Day * p = Day * q
  <1>1. Day \in Int /\ Day > 0
    BY SchedulesAssumption DEF SchedulesAssumption
  <1>2. ASSUME NEW m \in Int, NEW n \in Int, m < n
        PROVE  (Day * m) + Day <= Day * n
    BY <1>1, <1>2
  <1>3. Day * p \in Int /\ Day * q \in Int
    BY <1>1
  <1>4. ~(p < q) /\ ~(q < p)
    BY <1>1, <1>2, <1>3
  <1> QED BY <1>4

\* A time of day on a midnight's day, or on the next day if that is too early, is the next time
\* that it is.
LEMMA NextTime ==
    ASSUME NEW a \in Int, NEW b \in Int, a <= b, b < a + Day
    PROVE  Midnight(b) = IF Midnight(a) + (b % Day) < a THEN Midnight(a) + Day ELSE Midnight(a)
  <1>1. Day \in Int /\ Day > 0
    BY SchedulesAssumption DEF SchedulesAssumption
  <1>2. PICK p \in Int : a = (Day * p) + (a % Day) /\ Midnight(a) = Day * p
    BY Division
  <1>3. PICK q \in Int : b = (Day * q) + (b % Day) /\ Midnight(b) = Day * q
    BY Division
  <1> DEFINE ma == Day * p
             mb == Day * q
             ra == a % Day
             rb == b % Day
  <1>4. /\ ra \in Int /\ 0 <= ra /\ ra < Day
        /\ rb \in Int /\ 0 <= rb /\ rb < Day
        /\ ma \in Int /\ mb \in Int
        /\ a = ma + ra /\ b = mb + rb
    BY <1>1, <1>2, <1>3
  <1>5. Day * (p + 1) = ma + Day /\ p + 1 \in Int
    BY <1>1
  <1>6. mb < ma + Day => (ma < mb + Day => mb = ma)
    BY OneMidnight
  <1>7. mb < (ma + Day) + Day => (ma + Day < mb + Day => mb = ma + Day)
    BY <1>5, OneMidnight
  <1>8. Midnight(a) = ma /\ Midnight(b) = mb
    BY <1>2, <1>3
  <1> HIDE DEF ma, mb, ra, rb
  <1>9. mb = IF ma + rb < a THEN ma + Day ELSE ma
    BY <1>1, <1>4, <1>6, <1>7
  <1> QED BY <1>8, <1>9 DEF rb

\* The time of day of an end that is at most a day after the start says which day it is on.
LEMMA EndTime ==
    ASSUME NEW s \in Int, NEW e \in Int, s < e, e <= s + Day
    PROVE  Midnight(e) = IF e % Day <= s % Day THEN Midnight(s) + Day ELSE Midnight(s)
  <1>1. Day \in Int /\ Day > 0
    BY SchedulesAssumption DEF SchedulesAssumption
  <1>2. PICK p \in Int : s = (Day * p) + (s % Day) /\ Midnight(s) = Day * p
    BY Division
  <1>3. PICK q \in Int : e = (Day * q) + (e % Day) /\ Midnight(e) = Day * q
    BY Division
  <1> DEFINE ms == Day * p
             me == Day * q
             rs == s % Day
             re == e % Day
  <1>4. /\ rs \in Int /\ 0 <= rs /\ rs < Day
        /\ re \in Int /\ 0 <= re /\ re < Day
        /\ ms \in Int /\ me \in Int
        /\ s = ms + rs /\ e = me + re
    BY <1>1, <1>2, <1>3
  <1>5. Day * (p + 1) = ms + Day /\ p + 1 \in Int
    BY <1>1
  <1>6. me < ms + Day => (ms < me + Day => me = ms)
    BY OneMidnight
  <1>7. me < (ms + Day) + Day => (ms + Day < me + Day => me = ms + Day)
    BY <1>5, OneMidnight
  <1>8. Midnight(s) = ms /\ Midnight(e) = me
    BY <1>2, <1>3
  <1> HIDE DEF ms, me, rs, re
  <1>9. me = IF re <= rs THEN ms + Day ELSE ms
    BY <1>1, <1>4, <1>6, <1>7
  <1> QED BY <1>8, <1>9 DEF rs, re

\* A time is its midnight and its time of day.
LEMMA MidnightAndTime ==
    ASSUME NEW time \in Int
    PROVE  Midnight(time) + (time % Day) = time
  <1>1. time % Day \in Int
    BY TimeOfDay
  <1> QED BY <1>1 DEF Midnight

\* The days that a task is put on are times.
LEMMA StartEndType ==
    ASSUME IInv, NEW t \in Times
    PROVE  StartDay(t) + t.start \in Int /\ EndDay(t) + t.end \in Int
  <1>1. t.start \in Int /\ t.end \in Int /\ Day \in Int /\ midnight \in Int
    BY SchedulesAssumption DEF Times, SchedulesAssumption, IInv, TypeOK
  <1> QED BY <1>1 DEF StartDay, EndDay

\* What TimesComeBack asks of the times of a plan, on the wall clock.
Sound(was) ==
    /\ was # <<>>
    /\ Orderly(was)
    /\ \A k \in 2..Len(was) : was[k].start < was[k - 1].end + Day

TimeOf(span) == [start |-> span.start % Day, end |-> span.end % Day]

\* The device's plans begin with their first task, and have the times that the
\* exported plan had on the wall clock.
KeptPlans ==
    {plan \in Plans : /\ plan.tasks # <<>>
                      /\ plan.start = plan.tasks[1].start
                      /\ Sound(Walls(plan.was)) =>
                            plan.tasks = Instants(Walls(plan.was), plan.zone)}

\* What the file says of an exported plan.
FaithfulEntries ==
    {e \in Entries : e.was # <<>> =>
        /\ e.date = Midnight(Walls(e.was)[1].start)
        /\ e.tasks = TimesOfDay(Walls(e.was))}

\* The tasks placed so far are those of the plan that was exported, the others
\* are still to be placed, and current_day is the day of the last of them.
OnCourse(e) ==
    LET n == Len(parsed)
        wall == Walls(e.was) IN
    e.was # <<>> =>
    /\ n + Len(left) = Len(wall)
    /\ \A i \in 1..Len(left) : left[i] = TimeOf(wall[n + i])
    /\ Sound(wall) => /\ \A i \in 1..n : parsed[i] = wall[i]
                      /\ midnight = Midnight(IF n = 0 THEN wall[1].start
                                                      ELSE wall[n].end)

BackInv ==
    /\ plans \in Seq(KeptPlans)
    /\ file \in Seq(FaithfulEntries) /\ todo \in Seq(FaithfulEntries)
    /\ pc = "tasks" => OnCourse(Head(todo))

\* No tasks are none on the wall clock.
LEMMA NoWalls == Walls(<<>>) = <<>>
  BY WallsType, EmptySeq

\* The first of some spans as instants is the first of them as an instant.
LEMMA FirstInstant ==
    ASSUME NEW tasks \in Seq(Spans), NEW z \in Int, 1 \in 1..Len(tasks)
    PROVE  /\ Instants(tasks, z) # <<>>
           /\ Instants(tasks, z)[1].start = Instant(tasks[1].start, z)
  <1>1. /\ Instants(tasks, z) \in Seq(Spans)
        /\ Len(Instants(tasks, z)) = Len(tasks)
        /\ Instants(tasks, z)[1] = [start |-> Instant(tasks[1].start, z),
                                    end |-> Instant(tasks[1].end, z)]
    BY InstantsType, Zenon
  <1>2. Len(tasks) # 0
    BY LenProperties
  <1> QED BY <1>1, <1>2, EmptySeq

\* A plan put among the others leaves a list of plans that have their times.
LEMMA StoresKept ==
    ASSUME BackInv, NEW plan \in KeptPlans, Stores(plan)
    PROVE  plans' \in Seq(KeptPlans)
  <1>1. PICK k \in 0..Len(plans) :
            plans' = SubSeq(plans, 1, k) \o <<plan>> \o SubSeq(plans, k + 1, Len(plans))
    BY DEF Stores
  <1>2. plans \in Seq(KeptPlans) /\ Len(plans) \in Nat
    BY LenProperties DEF BackInv
  <1>3. SubSeq(plans, 1, k) \in Seq(KeptPlans)
    BY <1>2, SubSeqProperties
  <1>4. SubSeq(plans, k + 1, Len(plans)) \in Seq(KeptPlans)
    BY <1>2, SubSeqProperties
  <1>5. <<plan>> \in Seq(KeptPlans)
    OBVIOUS
  <1> QED BY <1>1, <1>3, <1>4, <1>5, ConcatProperties

\* export_schedules writes the day of the first task and the times of day.
LEMMA ExportedFaithful ==
    ASSUME NEW plan \in KeptPlans
    PROVE  Exported(plan) \in FaithfulEntries
  <1>1. plan \in Plans /\ plan.start = plan.tasks[1].start /\ plan.tasks # <<>>
    BY DEF KeptPlans
  <1>2. Exported(plan) \in Entries
    BY <1>1, ExportedType
  <1>3. plan.tasks \in Seq(Spans) /\ 1 \in 1..Len(plan.tasks)
    BY <1>1, LenProperties, EmptySeq DEF Plans
  <1>4. Walls(plan.tasks)[1].start = Wall(plan.start)
    <2>1. Walls(plan.tasks)[1] = [start |-> Wall(plan.tasks[1].start),
                                  end |-> Wall(plan.tasks[1].end)]
      BY <1>3, WallsType, Zenon
    <2> QED BY <1>1, <2>1
  <1>5. /\ Exported(plan).was = plan.tasks
        /\ Exported(plan).date = Midnight(Wall(plan.start))
        /\ Exported(plan).tasks = TimesOfDay(Walls(plan.tasks))
    BY DEF Exported
  <1> QED BY <1>2, <1>4, <1>5 DEF FaithfulEntries

\* The one date and the times of day give back the next task of the plan that
\* was exported: the case that the others rest on.
LEMMA PlaceTaskBack ==
    ASSUME IInv, BackInv, PlaceTask
    PROVE  OnCourse(Head(todo))'
  <1> DEFINE e == Head(todo)
             was == Walls(e.was)
             n == Len(parsed)
             t == Head(left)
             start == StartDay(t) + t.start
             end == EndDay(t) + t.end
             span == [start |-> start, end |-> end]
  <1>1. /\ pc = "tasks" /\ left # <<>> /\ todo' = todo
        /\ left' = Tail(left) /\ midnight' = EndDay(t)
        /\ parsed' = Append(parsed, span)
    BY DEF PlaceTask
  <1>2. SUFFICES ASSUME e.was # <<>>
                 PROVE  /\ Len(parsed') + Len(left') = Len(was)
                        /\ \A i \in 1..Len(left') : left'[i] = TimeOf(was[Len(parsed') + i])
                        /\ Sound(was) =>
                              /\ \A i \in 1..Len(parsed') : parsed'[i] = was[i]
                              /\ midnight' = Midnight(IF Len(parsed') = 0 THEN was[1].start
                                                      ELSE was[Len(parsed')].end)
    BY <1>1 DEF OnCourse
  <1>3. /\ n + Len(left) = Len(was)
        /\ \A i \in 1..Len(left) : left[i] = TimeOf(was[n + i])
        /\ Sound(was) => /\ \A i \in 1..n : parsed[i] = was[i]
                         /\ midnight = Midnight(IF n = 0 THEN was[1].start ELSE was[n].end)
    BY <1>1, <1>2 DEF BackInv, OnCourse
  <1>4. /\ left \in Seq(Times) /\ parsed \in Seq(Spans) /\ midnight \in Int
        /\ Len(left) \in Nat /\ n \in Nat
    BY LenProperties DEF IInv, TypeOK
  <1>5. was \in Seq(Spans) /\ Len(was) \in Nat
    <2>1. e \in Entries
      BY <1>1, HeadTailProperties DEF IInv, TypeOK, Underway
    <2>2. e.was \in Seq(Spans)
      BY <2>1 DEF Entries
    <2> QED BY <2>2, WallsType, LenProperties
  <1>6. /\ Len(left') = Len(left) - 1 /\ Len(left) > 0 /\ t = left[1]
        /\ \A i \in 1..Len(left') : left'[i] = left[i + 1]
    BY <1>1, <1>4, HeadTailProperties, EmptySeq
  <1>7. t \in Times
    BY <1>1, <1>4, HeadTailProperties
  <1>8. span \in Spans
    BY <1>7, StartEndType DEF Spans
  <1>9. /\ Len(parsed') = n + 1 /\ parsed'[n + 1] = span
        /\ \A i \in 1..n : parsed'[i] = parsed[i]
    <2> HIDE DEF span
    <2> QED BY <1>1, <1>4, <1>8, AppendProperties
  <1>10. t = TimeOf(was[n + 1]) /\ n + 1 \in 1..Len(was)
    BY <1>3, <1>4, <1>6
  <1> HIDE DEF e, was, n, t, start, end, span
  <1>11. Len(parsed') + Len(left') = Len(was)
    <2>1. /\ n + Len(left) = Len(was) /\ n \in Nat /\ Len(left) \in Nat
          /\ Len(left') = Len(left) - 1 /\ Len(parsed') = n + 1
      BY <1>3, <1>4, <1>6, <1>9, Zenon
    <2> QED BY <2>1
  <1>12. ASSUME NEW i \in 1..Len(left')
         PROVE  left'[i] = TimeOf(was[Len(parsed') + i])
    <2>1. i + 1 \in 1..Len(left) /\ n + (i + 1) = Len(parsed') + i
      <3>1. /\ n \in Nat /\ Len(left) \in Nat /\ i \in 1..Len(left')
            /\ Len(left') = Len(left) - 1 /\ Len(parsed') = n + 1
        BY <1>3, <1>4, <1>6, <1>9, Zenon
      <3> QED BY <3>1
    <2> QED BY <1>3, <1>6, <2>1
  <1>13. ASSUME Sound(was)
         PROVE  span = was[n + 1] /\ midnight' = Midnight(was[n + 1].end)
    <2> DEFINE next == was[n + 1]
    <2>1. next \in Spans /\ next.start \in Int /\ next.end \in Int
      <3>1. next \in Spans
        BY <1>5, <1>10, ElementOfSeq, Zenon
      <3> QED BY <3>1 DEF Spans
    <2>2. t.start = next.start % Day /\ t.end = next.end % Day
      BY <1>10 DEF TimeOf
    <2>3. next.start < next.end /\ next.end <= next.start + Day
      BY <1>10, <1>13 DEF Sound, Orderly
    <2>4. StartDay(t) = Midnight(next.start)
      <3>1. CASE n = 0
        <4>1. maxEnd = None
          BY <1>4, <3>1, EmptySeq DEF n, IInv, TypeOK
        <4>2. midnight = Midnight(next.start)
          BY <1>3, <1>13, <3>1
        <4> QED BY <4>1, <4>2 DEF StartDay
      <3>2. CASE n # 0
        <4>1. n \in 1..Len(was) /\ n + 1 \in 2..Len(was) /\ (n + 1) - 1 = n /\ n \in 1..n
          BY <1>4, <1>5, <1>10, <3>2
        <4>2. was[n].end \in Int
          <5>1. was[n] \in Spans
            BY <1>5, <4>1, ElementOfSeq, Zenon
          <5> QED BY <5>1 DEF Spans
        <4>3. was[n].end <= next.start /\ next.start < was[n].end + Day
          BY <1>13, <4>1 DEF Sound, Orderly
        <4>4. parsed # <<>>
          BY <3>2, EmptySeq DEF n
        <4>5. maxEnd = was[n].end
          BY <1>3, <1>13, <4>1, <4>4 DEF n, IInv, PlacedInOrder
        <4>6. maxEnd # None
          BY <4>4 DEF IInv, TypeOK
        <4>7. midnight = Midnight(was[n].end)
          BY <1>3, <1>13, <3>2
        <4>8. Midnight(next.start) = IF midnight + (next.start % Day) < maxEnd
                                     THEN midnight + Day ELSE midnight
          BY <2>1, <4>2, <4>3, <4>5, <4>7, NextTime
        <4> QED BY <2>2, <4>6, <4>8 DEF StartDay
      <3> QED BY <3>1, <3>2
    <2>5. EndDay(t) = Midnight(next.end)
      BY <2>1, <2>2, <2>3, <2>4, EndTime DEF EndDay
    <2>6. start = next.start /\ end = next.end
      BY <2>1, <2>2, <2>4, <2>5, MidnightAndTime DEF start, end
    <2>7. next = [start |-> next.start, end |-> next.end]
      BY <2>1 DEF Spans
    <2> QED BY <1>1, <2>5, <2>6, <2>7 DEF span
  <1>14. ASSUME Sound(was), NEW i \in 1..Len(parsed')
         PROVE  parsed'[i] = was[i]
    <2>1. CASE i \in 1..n
      BY <1>3, <1>9, <1>14, <2>1
    <2>2. CASE i = n + 1
      BY <1>9, <1>13, <1>14, <2>2
    <2> QED BY <1>4, <1>9, <2>1, <2>2
  <1>15. Len(parsed') # 0 /\ Len(parsed') = n + 1
    BY <1>4, <1>9
  <1> QED BY <1>11, <1>12, <1>13, <1>14, <1>15

\* A file written by hand is exported from nothing.
LEMMA InitBackInv == Init => BackInv
  <1> SUFFICES ASSUME Init PROVE BackInv
    OBVIOUS
  <1>1. PICK name \in Names, date \in Dates, tasks \in Tasks :
            file = <<[name |-> name, date |-> date, tasks |-> tasks, was |-> <<>>]>>
    BY DEF Init
  <1>2. [name |-> name, date |-> date, tasks |-> tasks, was |-> <<>>] \in FaithfulEntries
    BY SchedulesAssumption DEF SchedulesAssumption, Entries, FaithfulEntries
  <1>3. file \in Seq(FaithfulEntries)
    BY <1>1, <1>2
  <1> QED BY <1>3, EmptySeq DEF Init, BackInv

\* Every step keeps a plan's times, whoever takes it.
LEMMA BackInvStep == IInv /\ BackInv /\ [Next]_vars => BackInv'
  <1> SUFFICES ASSUME IInv, BackInv, [Next]_vars PROVE BackInv'
    OBVIOUS
  <1>1. CASE UNCHANGED <<plans, file, todo, left, parsed, midnight>> /\ (pc' = "tasks" => pc = "tasks")
    BY <1>1 DEF BackInv, OnCourse
  <1>2. CASE List \/ Find \/ UNCHANGED vars
    BY <1>1, <1>2 DEF List, Find, vars, syncVars
  <1>3. CASE Export
    <2>1. \A i \in 1..Len(plans) : Exported(plans[i]) \in FaithfulEntries
      BY ExportedFaithful, ElementOfSeq DEF BackInv
    <2>2. Len(plans) \in Nat
      BY LenProperties DEF BackInv
    <2>3. file' \in [1..Len(plans) -> FaithfulEntries]
      <3>1. PICK order \in Orders :
                file' = [i \in 1..Len(plans) |-> Exported(plans[order[i]])]
        BY <1>3 DEF Export
      <3> QED BY <2>1, <3>1 DEF Orders
    <2>4. file' \in Seq(FaithfulEntries)
      BY <2>2, <2>3, SeqDef
    <2>5. pc = "idle" /\ UNCHANGED <<plans, pc, todo>>
      BY <1>3 DEF Export, syncVars
    <2> QED BY <2>4, <2>5 DEF BackInv
  <1>4. CASE Delete
    <2>1. ASSUME NEW i \in 1..Len(plans),
                 plans' = SubSeq(plans, 1, i - 1) \o SubSeq(plans, i + 1, Len(plans))
          PROVE  plans' \in Seq(KeptPlans)
      <3>1. Len(plans) \in Nat /\ plans \in Seq(KeptPlans)
        BY LenProperties DEF BackInv
      <3>2. SubSeq(plans, 1, i - 1) \in Seq(KeptPlans)
        BY <3>1, SubSeqProperties, ElementOfSeq
      <3>3. SubSeq(plans, i + 1, Len(plans)) \in Seq(KeptPlans)
        BY <3>1, SubSeqProperties, ElementOfSeq
      <3> QED BY <2>1, <3>2, <3>3, ConcatProperties
    <2>2. plans' \in Seq(KeptPlans)
      BY <1>4, <2>1 DEF Delete, BackInv
    <2>3. pc' = "idle" /\ UNCHANGED <<file, todo>>
      BY <1>4 DEF Delete, syncVars
    <2> QED BY <2>2, <2>3 DEF BackInv
  <1>5. CASE Sync
    BY <1>5 DEF Sync, BackInv
  <1>6. CASE BeginPlan
    <2>1. /\ pc = "plan" /\ todo # <<>> /\ UNCHANGED <<plans, file, parsed>>
          /\ \/ todo' = Tail(todo) /\ pc' = pc
             \/ /\ todo' = todo /\ pc' = "tasks"
                /\ midnight' = Head(todo).date /\ left' = Head(todo).tasks
      BY <1>6 DEF BeginPlan
    <2>2. Head(todo) \in FaithfulEntries /\ Tail(todo) \in Seq(FaithfulEntries)
      BY <2>1, HeadTailProperties DEF BackInv
    <2>3. CASE todo' = Tail(todo) /\ pc' = pc
      BY <2>1, <2>2, <2>3 DEF BackInv
    <2>4. CASE todo' = todo /\ midnight' = Head(todo).date /\ left' = Head(todo).tasks
      <3> DEFINE e == Head(todo)
      <3>1. parsed' = <<>> /\ Len(parsed') = 0
        BY <2>1, EmptySeq DEF IInv, Underway
      <3>2. ASSUME e.was # <<>>
            PROVE  /\ 0 + Len(left') = Len(Walls(e.was))
                   /\ \A i \in 1..Len(left') : left'[i] = TimeOf(Walls(e.was)[0 + i])
                   /\ midnight' = Midnight(Walls(e.was)[1].start)
        <4> DEFINE wall == Walls(e.was)
        <4>1. /\ e.date = Midnight(wall[1].start)
              /\ e.tasks = TimesOfDay(wall)
              /\ e.was \in Seq(Spans) /\ e.tasks \in Seq(Times)
          BY <2>2, <3>2 DEF FaithfulEntries, Entries
        <4>2. wall \in Seq(Spans)
          BY <4>1, WallsType
        <4> HIDE DEF wall
        <4>3. Len(wall) \in Nat /\ Len(e.tasks) \in Nat
          BY <4>1, <4>2, LenProperties
        <4>4. e.tasks = [i \in 1..Len(wall) |-> TimeOf(wall[i])]
          BY <4>1 DEF TimesOfDay, TimeOf
        <4>5. Len(e.tasks) = Len(wall)
          BY <4>1, <4>3, <4>4, LenProperties
        <4>6. \A i \in 1..Len(wall) : e.tasks[i] = TimeOf(wall[0 + i])
          BY <4>3, <4>4
        <4>7. 0 + Len(e.tasks) = Len(wall)
          BY <4>3, <4>5
        <4>8. left' = e.tasks /\ midnight' = Midnight(wall[1].start)
          BY <2>4, <4>1
        <4>9. /\ 0 + Len(left') = Len(wall)
              /\ \A i \in 1..Len(left') : left'[i] = TimeOf(wall[0 + i])
          BY <4>5, <4>6, <4>7, <4>8
        <4> QED BY <4>8, <4>9 DEF wall
      <3>3. OnCourse(e)'
        BY <2>4, <3>1, <3>2 DEF OnCourse
      <3> QED BY <2>1, <2>4, <3>3 DEF BackInv
    <2> QED BY <2>1, <2>3, <2>4
  <1>7. CASE PlaceTask
    BY <1>7, PlaceTaskBack DEF BackInv, PlaceTask
  <1>8. CASE Send
    <2> DEFINE e == Head(todo)
               wall == Walls(e.was)
               plan == [id |-> clock, name |-> e.name, done |-> FALSE,
                        start |-> Instant(minStart, zone), end |-> Instant(maxEnd, zone),
                        tasks |-> Instants(parsed, zone), was |-> e.was, zone |-> zone]
    <2>1. /\ pc = "tasks" /\ left = <<>> /\ pc' # "tasks" /\ file' = file
          /\ Stores(plan) \/ UNCHANGED plans
          /\ todo' = <<>> \/ todo' = Tail(todo)
      BY <1>8 DEF Send
    <2>2. todo # <<>> /\ parsed # <<>>
      BY <2>1 DEF IInv, Underway
    <2>3. e \in FaithfulEntries /\ e \in Entries /\ todo' \in Seq(FaithfulEntries)
      BY <2>1, <2>2, HeadTailProperties, EmptySeq DEF BackInv, FaithfulEntries
    <2>4. plan \in Plans
      <3>1. minStart \in Int /\ maxEnd \in Int /\ parsed \in Seq(Spans) /\ zone \in Int
            /\ clock \in Nat
        BY <2>2, SchedulesAssumption DEF SchedulesAssumption, IInv, TypeOK
      <3>2. e.name \in Names /\ e.was \in Seq(Spans)
        BY <2>3 DEF Entries
      <3> QED BY <3>1, <3>2, InjectedType
    <2>5. /\ Instants(parsed, zone) # <<>>
          /\ Instants(parsed, zone)[1].start = Instant(minStart, zone)
      <3>1. parsed \in Seq(Spans) /\ zone \in Int /\ minStart = parsed[1].start
        BY <2>2 DEF IInv, TypeOK, PlacedInOrder
      <3>2. Len(parsed) \in Nat /\ 1 \in 1..Len(parsed)
        BY <2>2, <3>1, LenProperties, EmptySeq
      <3> QED BY <3>1, <3>2, FirstInstant
    <2>6. ASSUME Sound(wall)
          PROVE  parsed = wall
      <3>1. e.was \in Seq(Spans)
        BY <2>3 DEF Entries
      <3>2. e.was # <<>> /\ OnCourse(e)
        BY <2>1, <2>6, <3>1, WallsType, EmptySeq DEF Sound, BackInv
      <3>3. wall \in Seq(Spans) /\ parsed \in Seq(Spans) /\ Len(parsed) \in Nat
        BY <3>1, WallsType, LenProperties DEF IInv, TypeOK
      <3>4. Len(left) = 0
        BY <2>1, EmptySeq
      <3>5. Len(parsed) = Len(wall) /\ \A i \in 1..Len(parsed) : parsed[i] = wall[i]
        BY <2>6, <3>2, <3>3, <3>4 DEF OnCourse
      <3> QED BY <3>3, <3>5, SeqEqual
    <2>7. /\ plan.tasks = Instants(parsed, zone) /\ plan.start = Instant(minStart, zone)
          /\ plan.was = e.was /\ plan.zone = zone
      OBVIOUS
    <2> HIDE DEF plan
    <2>8. plan \in KeptPlans
      BY <2>4, <2>5, <2>6, <2>7 DEF KeptPlans
    <2>9. plans' \in Seq(KeptPlans)
      BY <2>1, <2>8, StoresKept DEF BackInv
    <2> QED BY <2>1, <2>3, <2>9 DEF BackInv
  <1>9. CASE Verify
    <2>1. /\ pc' # "tasks" /\ UNCHANGED <<plans, file>>
          /\ todo' = todo \/ todo' = <<>>
      <3>1. CASE pc' = "plan" /\ UNCHANGED <<todo, zone>>
        BY <1>9, <3>1 DEF Verify
      <3>2. CASE pc' = "idle" /\ todo' = <<>> /\ zone' = 0
        BY <1>9, <3>2 DEF Verify
      <3>3. \/ pc' = "plan" /\ UNCHANGED <<todo, zone>>
            \/ pc' = "idle" /\ todo' = <<>> /\ zone' = 0
        BY <1>9, Zenon DEF Verify
      <3> QED BY <3>1, <3>2, <3>3
    <2> QED BY <2>1, EmptySeq DEF BackInv
  <1>10. CASE Synced
    BY <1>10 DEF Synced, BackInv
  <1>11. CASE AppAdds
    <2>1. PICK name \in Names, tasks \in AppTasks :
              Stores([id |-> clock, name |-> name, done |-> FALSE, start |-> tasks[1].start,
                      end |-> tasks[Len(tasks)].end, tasks |-> tasks, was |-> <<>>,
                      zone |-> 0])
      BY <1>11 DEF AppAdds
    <2> DEFINE plan == [id |-> clock, name |-> name, done |-> FALSE, start |-> tasks[1].start,
                        end |-> tasks[Len(tasks)].end, tasks |-> tasks, was |-> <<>>,
                        zone |-> 0]
    <2>2. tasks \in Seq(Spans) /\ tasks # <<>>
      BY SchedulesAssumption DEF SchedulesAssumption
    <2>3. tasks[1] \in Spans /\ tasks[Len(tasks)] \in Spans
      BY <2>2, ElementOfSeq, LenProperties, EmptySeq
    <2>4. plan \in Plans
      BY <2>2, <2>3 DEF Plans, Spans, IInv, TypeOK
    <2>5. plan.tasks = tasks /\ plan.start = tasks[1].start /\ plan.was = <<>>
      OBVIOUS
    <2>6. plan \in KeptPlans
      <3> HIDE DEF plan
      <3> QED BY <2>2, <2>4, <2>5, NoWalls DEF KeptPlans, Sound
    <2>7. plans' \in Seq(KeptPlans)
      BY <2>1, <2>6, StoresKept
    <2> QED BY <1>11, <2>7 DEF AppAdds, syncVars, BackInv, OnCourse
  <1>12. CASE PlanEnds
    <2>1. PICK i \in 1..Len(plans) : plans' = [plans EXCEPT ![i].done = TRUE]
      BY <1>12 DEF PlanEnds
    <2> DEFINE plan == [plans[i] EXCEPT !.done = TRUE]
    <2>2. plans[i] \in KeptPlans /\ plans[i] \in Plans
      BY ElementOfSeq DEF BackInv, KeptPlans
    <2>3. plan \in Plans
      BY <2>2 DEF Plans
    <2>4. /\ plan.tasks = plans[i].tasks /\ plan.start = plans[i].start
          /\ plan.was = plans[i].was /\ plan.zone = plans[i].zone
      BY <2>2 DEF Plans
    <2>5. plan \in KeptPlans
      <3> HIDE DEF plan
      <3> QED BY <2>2, <2>3, <2>4 DEF KeptPlans
    <2>6. plans' \in Seq(KeptPlans)
      BY <2>1, <2>5, ExceptSeq DEF BackInv
    <2> QED BY <1>12, <2>6 DEF PlanEnds, syncVars, BackInv, OnCourse
  <1>13. CASE OneTask
    <2>1. \/ \E name \in Names, today \in Dates, t \in OneTasks :
                LET start == today + t.start
                    end == (IF t.end <= t.start THEN today + Day ELSE today) + t.end IN
                \E z \in {0, Shift} :
                    Stores([id |-> clock, name |-> name, done |-> FALSE,
                            start |-> Instant(start, z), end |-> Instant(end, z),
                            tasks |-> Instants(<<[start |-> start, end |-> end]>>, z),
                            was |-> <<>>, zone |-> z])
          \/ UNCHANGED plans
      BY <1>13 DEF OneTask
    <2>2. ASSUME NEW name \in Names, NEW start \in Int, NEW end \in Int,
                 NEW z \in {0, Shift}
          PROVE  [id |-> clock, name |-> name, done |-> FALSE, start |-> Instant(start, z),
                  end |-> Instant(end, z),
                  tasks |-> Instants(<<[start |-> start, end |-> end]>>, z),
                  was |-> <<>>, zone |-> z] \in KeptPlans
      <3> DEFINE ts == <<[start |-> start, end |-> end]>>
                 plan == [id |-> clock, name |-> name, done |-> FALSE,
                          start |-> Instant(start, z), end |-> Instant(end, z),
                          tasks |-> Instants(ts, z), was |-> <<>>, zone |-> z]
      <3>1. ts \in Seq(Spans) /\ Len(ts) = 1 /\ ts[1].start = start /\ <<>> \in Seq(Spans)
        BY EmptySeq DEF Spans
      <3>2. z \in Int /\ clock \in Nat
        BY SchedulesAssumption DEF SchedulesAssumption, IInv, TypeOK
      <3> HIDE DEF ts
      <3>3. plan \in Plans
        BY <3>1, <3>2, InjectedType
      <3>4. Instants(ts, z)[1].start = Instant(start, z) /\ Instants(ts, z) # <<>>
        BY <3>1, <3>2, FirstInstant
      <3>5. plan.tasks = Instants(ts, z) /\ plan.start = Instant(start, z) /\ plan.was = <<>>
        OBVIOUS
      <3>6. plan \in KeptPlans
        <4> HIDE DEF plan
        <4> QED BY <3>3, <3>4, <3>5, NoWalls DEF KeptPlans, Sound
      <3> QED BY <3>6 DEF ts
    <2>3. ASSUME NEW today \in Dates, NEW t \in OneTasks
          PROVE  /\ today + t.start \in Int
                 /\ (IF t.end <= t.start THEN today + Day ELSE today) + t.end \in Int
      BY SchedulesAssumption DEF SchedulesAssumption, Times
    <2>4. plans' \in Seq(KeptPlans)
      <3>1. CASE UNCHANGED plans
        BY <3>1 DEF BackInv
      <3> QED BY <2>1, <2>2, <2>3, <3>1, StoresKept, Zenon
    <2> QED BY <1>13, <2>4 DEF OneTask, syncVars, BackInv, OnCourse
  <1> QED BY <1>2, <1>3, <1>4, <1>5, <1>6, <1>7, <1>8, <1>9, <1>10, <1>11, <1>12, <1>13 DEF Next

\* Every value has its type, whatever the length of a day, the plan file and
\* the answers of the device.
THEOREM TypeCorrect == Spec => []TypeOK
  <1>1. IInv => TypeOK
    BY DEF IInv
  <1> QED BY InitIInv, IInvStep, <1>1, PTL DEF Spec

\* The tasks that sync_plan has placed follow one another and the plan spans
\* them, for a day of any length and any list of times of day.
THEOREM TasksInOrder == Spec => []PlacedInOrder
  <1>1. IInv => PlacedInOrder
    BY DEF IInv
  <1> QED BY InitIInv, IInvStep, <1>1, PTL DEF Spec

\* A plan that is exported and injected again has the times it had on the wall
\* clock, for a day of any length, any plans of the app and any change of the
\* clock, though the file keeps one date and the times of day: each time is
\* moved by how far the clock was ahead then, less how far it was on injection.
THEOREM RoundTrip == Spec => []TimesComeBack
  <1>1. IInv /\ BackInv => TimesComeBack
    <2>0. SUFFICES ASSUME IInv, BackInv, NEW i \in 1..Len(plans), plans[i].was # <<>>,
                          Sound(Walls(plans[i].was))
                   PROVE  plans[i].tasks =
                            [k \in 1..Len(plans[i].was) |->
                               [start |-> plans[i].was[k].start
                                            + (Offset(plans[i].was[k].start) - plans[i].zone),
                                end |-> plans[i].was[k].end
                                            + (Offset(plans[i].was[k].end) - plans[i].zone)]]
      <3>1. ASSUME IInv, NEW i \in 1..Len(plans), plans[i].was # <<>>
            PROVE  Walls(plans[i].was) # <<>>
        <4>1. plans[i] \in Plans
          BY <3>1, ElementOfSeq DEF IInv, TypeOK
        <4>2. plans[i].was \in Seq(Spans)
          BY <4>1 DEF Plans
        <4> QED BY <3>1, <4>2, WallsType, EmptySeq
      <3> QED BY <3>1, Zenon DEF TimesComeBack, Sound
    <2> DEFINE was == plans[i].was
               zone_ == plans[i].zone
    <2>1. plans[i] \in KeptPlans /\ plans[i] \in Plans
      BY <2>0, ElementOfSeq DEF BackInv, KeptPlans
    <2>2. was \in Seq(Spans) /\ zone_ \in Int
      BY <2>1 DEF Plans
    <2>3. plans[i].tasks = Instants(Walls(was), zone_)
      BY <2>0, <2>1 DEF KeptPlans
    <2> HIDE DEF was, zone_
    <2>4. Len(Walls(was)) = Len(was) /\ Len(was) \in Nat
      BY <2>2, WallsType, LenProperties
    <2>5. ASSUME NEW k \in 1..Len(was)
          PROVE  /\ Instant(Walls(was)[k].start, zone_)
                      = was[k].start + (Offset(was[k].start) - zone_)
                 /\ Instant(Walls(was)[k].end, zone_)
                      = was[k].end + (Offset(was[k].end) - zone_)
      <3>1. was[k].start \in Int /\ was[k].end \in Int
        <4>1. was[k] \in Spans
          BY <2>2, ElementOfSeq
        <4> QED BY <4>1 DEF Spans
      <3>2. Offset(was[k].start) \in Int /\ Offset(was[k].end) \in Int
        BY SchedulesAssumption DEF Offset, SchedulesAssumption
      <3>3. Walls(was)[k] = [start |-> Wall(was[k].start), end |-> Wall(was[k].end)]
        BY <2>2, WallsType, Zenon
      <3>4. /\ Walls(was)[k].start = was[k].start + Offset(was[k].start)
            /\ Walls(was)[k].end = was[k].end + Offset(was[k].end)
        BY <3>3 DEF Wall
      <3> DEFINE w == Walls(was)[k]
      <3>5. /\ w.start = was[k].start + Offset(was[k].start)
            /\ w.end = was[k].end + Offset(was[k].end)
        BY <3>4
      <3> HIDE DEF w
      <3>6. /\ Instant(w.start, zone_) = was[k].start + (Offset(was[k].start) - zone_)
            /\ Instant(w.end, zone_) = was[k].end + (Offset(was[k].end) - zone_)
        BY <2>2, <3>1, <3>2, <3>5 DEF Instant
      <3> QED BY <3>6 DEF w
    <2>6. Instants(Walls(was), zone_) =
              [k \in 1..Len(was) |->
                 [start |-> was[k].start + (Offset(was[k].start) - zone_),
                  end |-> was[k].end + (Offset(was[k].end) - zone_)]]
      <3>1. Instants(Walls(was), zone_) =
              [k \in 1..Len(was) |-> [start |-> Instant(Walls(was)[k].start, zone_),
                                      end |-> Instant(Walls(was)[k].end, zone_)]]
        BY <2>4 DEF Instants
      <3> QED BY <2>5, <3>1
    <2> QED BY <2>3, <2>6 DEF was, zone_
  <1> QED BY InitIInv, IInvStep, InitBackInv, BackInvStep, <1>1, PTL DEF Spec

(***************************************************************************)
(* Settings.  The position of the wheel and the values of a capture hold for    *)
(* the same reason: one command is outstanding at a time (LastInv), so that an   *)
(* answer, which names no request, can be told by what else is on its way.      *)
(*   PlaceInv    who has come how far, and what he has there                  *)
(*   FilterInv   the last integer to be answered is the filter's that waits     *)
(*   WheelInv    a filter that was confirmed is the wheel's, and what is on its *)
(*               way does not change it                                      *)
(*   QuickInv    the stored sequence is the capture's, once it was answered     *)
(*   RestInv     no start, nor news of one, is on its way before the capture's   *)
(*   StartInv    the start, its answer, the namespace and the end of the wait   *)
(*               come in this order, once, and all are the capture's            *)
(*   SpaceInv    the namespace that is known is the device's                  *)
(*   StoredInv   a device with stored values only runs with the capture's       *)
(*   AgainInv    a value that was set again is the device's or on its way        *)
(* FilterInv is why a late answer matters, and QuickInv why a lost one does:     *)
(* a timeout of any command but an integer's empties the wire.                *)
(***************************************************************************)

\* A capture's own values, of every parameter.
Both(c) == [p \in Params |-> c]
FilterSteps == {"filter", "default", "spare"}
Early == {"lock", "filter", "default", "spare", "exp", "gain", "quick"}
AfterQuick == {"exp2", "gain2", "frames", "start"}

\* Where an actor may be while the session is in a phase.
PhasePlace ==
    /\ phase # "idle" => cap >= 1
    /\ phase = "busy" => step[cap] \in Early \cup AfterQuick \cup RunSteps
    /\ phase = "exposing" => step[cap] = "done"

\* What a capture, and the task that sets its values again, have at each step: ids to
\* try, the gain it asked for, a namespace.  Captures to come have none.
CapturePlace(c) ==
    /\ c > cap => step[c] = "none" /\ step[Again(c)] = "none"
    /\ c <= cap => goal[c] \in Filters
    /\ c < cap \/ (c = cap /\ phase # "busy") => step[c] \in {"done", "failed"} \cup RunSteps
    /\ step[c] \in FilterSteps => tries[c] # <<>>
    /\ step[c] \in Early \cup AfterQuick => gain[c] = c
    /\ step[c] \in {"exp", "gain", "quick"} \cup AfterQuick => index # Nil
    /\ step[Again(c)] \in {"none", "done"} \cup RunSteps
    /\ step[Again(c)] # "none" => goal[Again(c)] \in Spaces

\* What a filter request has at each step.
MovePlace(m) ==
    /\ step[m] \in {"none", "lock", "filter", "done", "failed"}
    /\ step[m] # "none" => goal[m] \in Filters
    /\ step[m] = "filter" => tries[m] # <<>>

PlaceInv ==
    /\ PhasePlace
    /\ \A c \in Captures : CapturePlace(c)
    /\ \A m \in Moves : MovePlace(m)

Queued == 1..Len(out)
Unread == 1..Len(inn)

\* One command is outstanding at a time: it is the last on its way.
LastInv ==
    busy # Nil =>
        /\ Sendable(busy) /\ step[busy] # "start"
        /\ out # <<>> => out[Len(out)] = Cmd(busy)

\* The answer to a filter's write is the last an integer has, and the wheel obeyed it.
FilterInv ==
    Selecting /\ out = <<>> =>
        \E i \in Unread :
            /\ inn[i].cmd = "int" /\ \A j \in Unread : j > i => inn[j].cmd # "int"
            /\ inn[i].res = "ok" => wheel = goal[busy]

WheelInv ==
    ~mini /\ index # Nil /\ ~doubt /\ ~Selecting =>
        /\ wheel = index
        /\ \A i \in Queued :
              /\ out[i].cmd = "int" => out[i].id \notin IdSet
              /\ out[i].cmd = "start" => out[i].val = index

\* The stored sequence is written once, by the capture that is configured.
QuickSent ==
    \A i \in Queued : out[i].cmd = "quick" => i = Len(out) /\ busy # Nil /\ step[busy] = "quick"

\* When its answer is to be read the device has the capture's values in it.
QuickAnswered ==
    \A i \in Unread : inn[i].cmd = "quick" =>
        /\ busy # Nil /\ step[busy] = "quick" /\ out = <<>>
        /\ dev.quick = Both(cap)
        /\ \A j \in Unread : j > i => inn[j].cmd \notin {"quick", "start", "elapsed", "space"}

\* It has them from there on.
QuickKept ==
    cap >= 1 /\ step[cap] \in AfterQuick \cup RunSteps \cup {"done"} => dev.quick = Both(cap)

QuickInv == QuickSent /\ QuickAnswered /\ QuickKept

\* Before the start, and when the capture is over, no other's is on its way.
RestInv ==
    ~Started =>
        /\ shot = 0
        /\ \A i \in Queued : out[i].cmd = "start" => out[i].of = 0
        /\ phase = "busy" => step[Again(cap)] = "none"
        /\ phase = "busy" /\ step[cap] \in AfterQuick =>
              /\ \A i \in Queued : out[i].cmd # "start"
              /\ \A i \in Unread : inn[i].cmd \notin {"start", "elapsed", "space"}

\* A capture that is started: its start, the answer to it, and what the device says
\* when it loads its presets a second time, are of this capture, in this order, and once.
StartInv ==
    Started =>
        /\ shot \in {0, cap}
        /\ step[Again(cap)] # "none" => shot = cap /\ stage = "loaded"
        /\ \A i \in Queued : out[i].cmd = "start" =>
              /\ out[i].of = cap /\ shot = 0
              /\ \A j \in Queued : out[j].cmd = "start" => j = i
              /\ \A j \in Unread : inn[j].cmd \notin {"start", "elapsed", "space"}
        /\ \A i \in Unread :
              /\ inn[i].cmd = "start" /\ inn[i].res # "ok" =>
                    shot = 0 /\ \A j \in Queued : out[j].cmd # "start"
              /\ inn[i].cmd \in {"elapsed", "space"} =>
                    shot = cap /\ stage = "loaded" /\ step[Again(cap)] = "none"
              /\ inn[i].cmd = "elapsed" =>
                    /\ \A j \in Unread : j > i => inn[j].cmd \notin {"elapsed", "space"}
                    /\ supports => space = own \/ \E j \in Unread : j < i /\ inn[j].cmd = "space"

\* A namespace that is known is the device's.
SpaceInv ==
    /\ space \in {Nil, own}
    /\ \A i \in Unread : inn[i].cmd = "space" => inn[i].res = own

\* A device that takes no values has those of the stored sequence.
StoredInv == ~supports /\ shot # 0 => dev.run = Both(cap)

\* The value of p that the device has or comes to have is the capture's.
Settles(p) ==
    \E k \in 0..Len(out) :
        /\ IF k = 0 THEN dev.run[p] = cap
           ELSE out[k].cmd = p /\ out[k].id = own /\ out[k].val = cap
        /\ \A j \in Queued : j > k /\ out[j].cmd = p /\ out[j].id = own => out[j].val = cap

\* The task that sets the values again: what it has come past is the device's value or
\* is to be.
AgainInv ==
    LET r == Again(cap) IN
    /\ cap >= 1 /\ asked = cap => gain[cap] = cap
    /\ cap >= 1 /\ reached => step[r] = "done"
    /\ supports /\ Started /\ asked = cap /\ ~spoilt /\ step[r] # "none" =>
        /\ goal[r] = own /\ gain[r] = cap
        /\ (step[r] = "runexp" /\ busy = r) \/ step[r] \in {"rungain", "runframes"} \/ reached
              => Settles("exp")
        /\ (step[r] = "rungain" /\ busy = r) \/ step[r] = "runframes" \/ reached
              => Settles("gain")

\* All of it, which is inductive.
SettingsInv ==
    /\ SettingsTypeOK /\ PlaceInv
    /\ LastInv /\ FilterInv /\ WheelInv
    /\ QuickInv /\ RestInv /\ StartInv /\ SpaceInv /\ StoredInv /\ AgainInv

\* The actors are all different.
LEMMA ActorFacts ==
    /\ Nil \notin Actors /\ Actors = Captures \cup Agains \cup Moves
    /\ \A c \in Captures :
          /\ c \in Int /\ c >= 1 /\ c <= NumCaptures /\ c \in Values
          /\ c \in Actors /\ Again(c) \in Actors /\ Again(c) \in Agains
          /\ c \notin Moves /\ Again(c) \notin Moves /\ c \notin Agains /\
                Again(c) \notin Captures
    /\ \A a \in Agains : a \in Int /\ -a \in Captures /\ a = Again(-a) /\ a \notin Captures /\
          a \notin Moves
    /\ \A m \in Moves : m \notin Captures /\ m \notin Agains /\ m # 0
    /\ \A n \in 0..NumCaptures : n \in Int /\ n >= 0 /\ (n # 0 <=> n \in Captures)
    /\ 0 \notin Actors /\ 0 \in Values /\ NumCaptures \in Nat /\ 0 \notin Moves /\ 0 \notin Agains
<1>1. NumCaptures \in Nat /\ \A x \in Moves \cup {Nil} : x \notin (-NumCaptures)..NumCaptures
  BY SettingsAssumption DEF SettingsAssumption
<1>2. Nil \notin Moves
  BY SettingsAssumption DEF SettingsAssumption
<1>3. /\ \A c \in Captures : c \in Int /\ c >= 1 /\ c <= NumCaptures /\ c \in Values
                            /\ -c \in Agains /\ -c \notin Captures /\ c \notin Agains
      /\ \A n \in 0..NumCaptures : n \in Int /\ n >= 0 /\ (n # 0 <=> n \in Captures)
      /\ 0 \in Values /\ 0 \notin Captures /\ 0 \notin Agains
  BY <1>1 DEF Captures, Agains, Again, Values
<1>4. \A a \in Agains : a \in Int /\ -a \in Captures /\ a = -(-a) /\ a \notin Captures
  BY <1>1 DEF Captures, Agains, Again
<1>5. \A a \in Captures \cup Agains \cup {0} : a \in (-NumCaptures)..NumCaptures
  BY <1>1 DEF Captures, Agains, Again
<1>6. Captures \cap Moves = {} /\ Agains \cap Moves = {} /\ 0 \notin Moves /\
         Nil \notin Captures \cup Agains
  BY <1>1, <1>5
<1> QED
  BY <1>1, <1>2, <1>3, <1>4, <1>6 DEF Actors, Again

\* The captures up to now, and those to come.
LEMMA CapFacts ==
    ASSUME SettingsTypeOK
    PROVE  /\ cap \in Int /\ cap >= 0 /\ cap \in Values /\ cap \notin Moves /\ cap \notin Agains
           /\ cap # 0 => cap \in Captures
           /\ cap # 0 <=> cap >= 1
           /\ \A c \in Captures : (c < cap \/ c = cap \/ c > cap) /\ (c > cap <=> ~(c <= cap))
<1>1. cap \in 0..NumCaptures
  BY DEF SettingsTypeOK, SessionTypes, ActorTypes
<1>2. cap \in Int /\ cap >= 0 /\ (cap # 0 <=> cap \in Captures) /\ cap \in Values
  BY <1>1, ActorFacts DEF Values
<1>3. \A c \in Captures : (c < cap \/ c = cap \/ c > cap) /\ (c > cap <=> ~(c <= cap))
  BY <1>2, ActorFacts
<1>4. cap \notin Moves /\ cap \notin Agains
  BY <1>2, ActorFacts
<1>5. cap # 0 <=> cap >= 1
  BY <1>2
<1> QED
  BY <1>2, <1>3, <1>4, <1>5

\* The ids of a filter's parameter are no other parameter's.
LEMMA IdFacts ==
    /\ "live" \notin IdSet /\ "default" \notin IdSet /\ "other" \notin IdSet /\ Nil \notin IdSet
    /\ FilterIds \in Seq(IdSet) /\ FilterIds # <<>>
    /\ Obeyed \subseteq IdSet /\ Default \in Filters /\ Wanted \subseteq Filters /\
          Nil \notin Filters
<1>1. \A i \in 1..Len(FilterIds) : FilterIds[i] \notin {Nil, "live", "default", "other"}
  BY SettingsAssumption DEF SettingsAssumption
<1>2. FilterIds \in Seq(IdSet) /\ FilterIds # <<>> /\ Obeyed \subseteq IdSet
  BY SettingsAssumption DEF SettingsAssumption, IdSet
<1> QED
  BY <1>1, <1>2, SettingsAssumption DEF SettingsAssumption, IdSet

\* There is an id to try.
LEMMA CandidatesFacts ==
    ASSUME SettingsTypeOK PROVE Candidates \in Seq(IdSet) /\ Candidates # <<>>
  BY IdFacts DEF SettingsTypeOK, SessionTypes, Candidates

\* What an actor sends.
LEMMA CmdFacts ==
    ASSUME SettingsTypeOK, PlaceInv, NEW a \in Actors, Sendable(a)
    PROVE  /\ Cmd(a) \in Commands
           /\ step[a] \in FilterSteps =>
                /\ Cmd(a).cmd = "int" /\ Cmd(a).id = Head(tries[a]) /\ Cmd(a).id \in IdSet
                /\ Cmd(a).val = goal[a] /\ goal[a] \in Filters
           /\ step[a] \in {"exp", "exp2", "runexp"} => Cmd(a).cmd = "exp"
           /\ step[a] \in {"gain", "gain2", "rungain"} => Cmd(a).cmd = "gain"
           /\ step[a] \in {"frames", "runframes"} => Cmd(a).cmd = "int" /\ Cmd(a).id \notin IdSet
           /\ step[a] = "quick" => Cmd(a) = [cmd |-> "quick", id |-> "live", val |-> gain[a],
                 of |-> a]
           /\ step[a] = "start" => Cmd(a) = [cmd |-> "start", id |-> "live", val |-> index,
                 of |-> a]
           /\ step[a] = "runexp" => Cmd(a).val = IF a \in Agains THEN -a ELSE a
           /\ step[a] = "rungain" => Cmd(a).val = gain[a]
           /\ step[a] \in RunSteps => Cmd(a).id = IF a \in Agains THEN goal[a] ELSE "default"
           /\ step[a] \in {"exp", "exp2", "gain", "gain2"} => Cmd(a).id = "live"
<1> DEFINE of == IF a \in Agains THEN -a ELSE IF a \in Captures THEN a ELSE 0
<1>1. of \in Values /\ gain[a] \in Values /\ index \in Filters \cup {Nil}
  BY ActorFacts DEF SettingsTypeOK, SessionTypes, ActorTypes, Values
<1>2. step[a] \in FilterSteps => Head(tries[a]) \in IdSet /\ goal[a] \in Filters
  <2> SUFFICES ASSUME step[a] \in FilterSteps
               PROVE  tries[a] \in Seq(IdSet) /\ tries[a] # <<>> /\ goal[a] \in Filters
    BY HeadTailProperties
  <2>1. tries[a] \in Seq(IdSet)
    BY DEF SettingsTypeOK, SessionTypes, ActorTypes
  <2>2. CASE a \in Captures
    <3>2. a <= cap
      BY <2>2, CapFacts DEF PlaceInv, PhasePlace, CapturePlace, MovePlace, FilterSteps
    <3> QED
      BY <2>1, <2>2, <3>2 DEF PlaceInv, PhasePlace, CapturePlace, MovePlace
  <2>3. CASE a \in Moves
    BY <2>1, <2>3 DEF PlaceInv, PhasePlace, CapturePlace, MovePlace, FilterSteps
  <2>4. CASE a \in Agains
    BY <2>4, ActorFacts DEF PlaceInv, PhasePlace, CapturePlace, MovePlace, FilterSteps, RunSteps
  <2> QED
    BY <2>2, <2>3, <2>4, ActorFacts
<1>3. step[a] \in RunSteps => (a \in Agains => goal[a] \in Spaces)
  BY ActorFacts DEF PlaceInv, PhasePlace, CapturePlace, MovePlace, RunSteps
<1>4. step[a] \in Early \cup AfterQuick \cup RunSteps /\ step[a] # "lock"
  BY DEF SettingsTypeOK, ActorTypes, Sendable, Steps, Early, AfterQuick, RunSteps
<1>5. step[a] = "start" => index # Nil /\ a \in Captures
  BY ActorFacts DEF PlaceInv, PhasePlace, CapturePlace, MovePlace, AfterQuick, RunSteps
<1>6. CASE step[a] \in FilterSteps
  BY <1>1, <1>2, <1>6 DEF Cmd, Commands, FilterSteps, RunSteps
<1>7. CASE step[a] \in {"exp", "exp2", "gain", "gain2", "frames"}
  <2>1. CASE step[a] \in {"exp", "exp2"}
    <3>1. Cmd(a) = [cmd |-> "exp", id |-> "live", val |-> of, of |-> of]
      BY <2>1 DEF Cmd
    <3> QED
      BY <1>1, <2>1, <3>1 DEF Commands, FilterSteps, RunSteps
  <2>2. CASE step[a] \in {"gain", "gain2"}
    <3>1. Cmd(a) = [cmd |-> "gain", id |-> "live", val |-> gain[a], of |-> of]
      BY <2>2 DEF Cmd
    <3> QED
      BY <1>1, <2>2, <3>1 DEF Commands, FilterSteps, RunSteps
  <2>3. CASE step[a] = "frames"
    <3>1. Cmd(a) = [cmd |-> "int", id |-> "live", val |-> 0, of |-> of]
      BY <2>3 DEF Cmd
    <3> QED
      BY <1>1, <2>3, <3>1, ActorFacts, IdFacts DEF Commands, FilterSteps, RunSteps
  <2> QED
    BY <1>7, <2>1, <2>2, <2>3
<1>8. CASE step[a] \in {"quick", "start"}
  <2>1. a \in Captures /\ a \notin Agains
    BY <1>8, ActorFacts DEF PlaceInv, PhasePlace, CapturePlace, MovePlace, RunSteps
  <2> QED
    BY <1>1, <1>5, <1>8, <2>1, IdFacts DEF Cmd, Commands, FilterSteps, RunSteps
<1>9. CASE step[a] \in RunSteps
  <2> DEFINE into == IF a \in Agains THEN goal[a] ELSE "default"
  <2>0. into \in Spaces /\ into \notin IdSet
    BY <1>3, <1>9, IdFacts DEF Spaces
  <2>1. CASE step[a] = "runexp"
    <3>1. Cmd(a) = [cmd |-> "exp", id |-> into, val |-> of, of |-> of]
      BY <2>1 DEF Cmd
    <3>2. a \in Moves => FALSE
      BY <2>1 DEF PlaceInv, PhasePlace, CapturePlace, MovePlace
    <3> QED
      BY <1>1, <2>0, <2>1, <3>1, <3>2, ActorFacts DEF Commands, FilterSteps, RunSteps
  <2>2. CASE step[a] = "rungain"
    <3>1. Cmd(a) = [cmd |-> "gain", id |-> into, val |-> gain[a], of |-> of]
      BY <2>2 DEF Cmd
    <3> QED
      BY <1>1, <2>0, <2>2, <3>1 DEF Commands, FilterSteps, RunSteps
  <2>3. CASE step[a] = "runframes"
    <3>1. Cmd(a) = [cmd |-> "int", id |-> into, val |-> 0, of |-> of]
      BY <2>3 DEF Cmd
    <3> QED
      BY <1>1, <2>0, <2>3, <3>1, ActorFacts, IdFacts DEF Commands, FilterSteps, RunSteps
  <2> QED
    BY <1>9, <2>1, <2>2, <2>3 DEF RunSteps
<1> QED
  BY <1>4, <1>6, <1>7, <1>8, <1>9 DEF Early, AfterQuick, FilterSteps, RunSteps

\* A command is the same as long as its actor's share of the state is.
LEMMA CmdSame ==
    ASSUME NEW a \in Actors, step[a] # "start",
           step'[a] = step[a], tries'[a] = tries[a], goal'[a] = goal[a], gain'[a] = gain[a]
    PROVE  Cmd(a)' = Cmd(a)
  BY DEF Cmd

(***************************************************************************)
(* Where an answer, or the lack of one, takes an actor                     *)
(***************************************************************************)

\* What it leaves alone, and what has its type.
Turns(a) ==
    /\ goal' = goal /\ gain' = gain
    /\ step' \in [Actors -> Steps] /\ tries' \in [Actors -> Seq(IdSet)]
    /\ \A b \in Actors : b # a => step'[b] = step[b] /\ tries'[b] = tries[b]
    /\ index' \in Filters \cup {Nil} /\ pos' \in Filters \cup {Nil}
    /\ preferred' \in IdSet \cup {Nil} /\ guard' \in Actors \cup {Nil}
    /\ live' \in {"unknown", "yes", "no"} /\ doubt' \in BOOLEAN /\ reached' \in BOOLEAN
    /\ index # Nil => index' # Nil

\* Where it goes.
Leads(a) ==
    /\ step'[a] \in FilterSteps => tries'[a] # <<>>
    /\ step'[a] \in {"exp", "gain", "quick"} \cup AfterQuick => index' # Nil
    /\ a \in Moves => step'[a] \in {"filter", "done", "failed"} /\ phase' = phase
    /\ a \in Agains => step'[a] \in RunSteps \cup {"done"} /\ phase' = phase
    /\ a \in Captures /\ step[a] \in RunSteps =>
          \/ step'[a] \in RunSteps /\ phase' = phase
          \/ /\ step'[a] = "done"
             /\ phase' = IF a = cap /\ phase = "busy" THEN "exposing" ELSE phase
    /\ a \in Captures /\ step[a] \notin RunSteps =>
          /\ a = cap /\ phase = "busy"
          /\ \/ /\ step'[a] \in Early \cup AfterQuick /\ phase' = phase
                /\ step'[a] \in AfterQuick => step[a] \in AfterQuick \cup {"quick"}
             \/ step'[a] = "failed" /\ phase' = "idle"

\* What it says of the filter and of the values that are set again.
Tells(a, sure) ==
    /\ step[a] \notin FilterSteps => index' = index /\ doubt' = doubt
    /\ step[a] \in FilterSteps => doubt' \/ (sure /\ index' = goal[a])
    /\ reached' # reached => reached' /\ a = Again(cap) /\ step[a] = "runframes" /\
          step'[a] = "done"

\* Who has a command outstanding.
LEMMA BusyFacts ==
    ASSUME SettingsTypeOK, PlaceInv, LastInv, busy # Nil
    PROVE  /\ busy \in Actors /\ Sendable(busy) /\ step[busy] # "start"
           /\ busy \in Moves => step[busy] = "filter"
           /\ busy \in Agains => step[busy] \in RunSteps
           /\ busy \in Captures /\ step[busy] \notin RunSteps =>
                 busy = cap /\ phase = "busy" /\
                    step[busy] \in (Early \cup AfterQuick) \ {"lock", "start"}
           /\ step[busy] \in FilterSteps =>
                 tries[busy] # <<>> /\ goal[busy] \in Filters /\ busy \notin Agains
<1>1. busy \in Actors /\ Sendable(busy) /\ step[busy] # "start"
  BY DEF SettingsTypeOK, WireTypes, LastInv
<1>2. busy \in Moves => step[busy] = "filter"
  BY <1>1 DEF PlaceInv, PhasePlace, CapturePlace, MovePlace, Sendable
<1>3. busy \in Agains => step[busy] \in RunSteps
  BY <1>1, ActorFacts DEF PlaceInv, PhasePlace, CapturePlace, MovePlace, Sendable
<1>4. busy \in Captures /\ step[busy] \notin RunSteps =>
                 busy = cap /\ phase = "busy" /\
                    step[busy] \in (Early \cup AfterQuick) \ {"lock", "start"}
  <2> SUFFICES ASSUME busy \in Captures, step[busy] \notin RunSteps
               PROVE  busy = cap /\ phase = "busy" /\
                         step[busy] \in (Early \cup AfterQuick) \ {"lock", "start"}
    OBVIOUS
  <2>1. ~(busy > cap)
    BY <1>1 DEF PlaceInv, PhasePlace, CapturePlace, MovePlace, Sendable
  <2>2. ~(busy < cap \/ (busy = cap /\ phase # "busy"))
    BY <1>1 DEF PlaceInv, PhasePlace, CapturePlace, MovePlace, Sendable
  <2>3. busy = cap /\ phase = "busy"
    BY <2>1, <2>2, CapFacts
  <2> QED
    BY <1>1, <2>3 DEF PlaceInv, PhasePlace, CapturePlace, MovePlace, Sendable
<1>5. step[busy] \in FilterSteps =>
                 tries[busy] # <<>> /\ goal[busy] \in Filters /\ busy \notin Agains
  <2> SUFFICES ASSUME step[busy] \in FilterSteps
               PROVE  tries[busy] # <<>> /\ goal[busy] \in Filters /\ busy \notin Agains
    OBVIOUS
  <2>1. step[busy] \notin RunSteps /\ step[busy] # "none"
    BY DEF FilterSteps, RunSteps
  <2>2. CASE busy \in Captures
    BY <1>4, <2>1, <2>2, CapFacts, ActorFacts DEF PlaceInv, PhasePlace, CapturePlace, MovePlace
  <2>3. CASE busy \in Moves
    BY <1>2, <2>1, <2>3, ActorFacts DEF PlaceInv, PhasePlace, CapturePlace, MovePlace
  <2> QED
    BY <1>1, <1>3, <2>1, <2>2, <2>3, ActorFacts
<1> QED
  BY <1>1, <1>2, <1>3, <1>4, <1>5

\* Of several there is one left.
LEMMA TailNotEmpty ==
    ASSUME NEW S, NEW s \in Seq(S), Len(s) > 1
    PROVE  Tail(s) # <<>>
<1>1. s # <<>>
  BY EmptySeq
<1>2. Len(Tail(s)) = Len(s) - 1 /\ Len(s) \in Nat
  BY <1>1, HeadTailProperties, LenProperties
<1>3. \A n \in Nat : n > 1 => n - 1 # 0
  OBVIOUS
<1>4. Len(Tail(s)) # 0
  BY <1>2, <1>3, Zenon
<1> QED
  BY <1>4, EmptySeq, Zenon

\* A filter that is selected is a step on.
LEMMA SelectedTurns ==
    ASSUME SettingsTypeOK, PlaceInv, LastInv, busy # Nil, step[busy] \in FilterSteps,
           NEW sure \in BOOLEAN, Selected(busy, sure), UNCHANGED <<gain, reached, live>>
    PROVE  Turns(busy) /\ Leads(busy) /\ Tells(busy, sure)
<1> DEFINE a == busy
<1>1. a \in Actors /\ tries[a] # <<>> /\ tries[a] \in Seq(IdSet) /\ goal[a] \in Filters
      /\ Head(tries[a]) \in IdSet /\ goal[a] # Nil /\ a \notin Agains
      /\ (a \in Moves => step[a] = "filter" /\ a \notin Captures)
      /\ (a \notin Moves => a \in Captures)
  BY BusyFacts, HeadTailProperties, IdFacts, ActorFacts DEF SettingsTypeOK, ActorTypes
<1>2. <<Head(tries[a])>> \in Seq(IdSet) /\ <<Head(tries[a])>> # <<>> /\ <<>> \in Seq(IdSet)
  BY <1>1
<1>3. goal' = goal /\ gain' = gain /\ index' = goal[a] /\ index' # Nil /\ doubt' = ~sure
      /\ reached' = reached /\ live' = live /\ phase' = phase
  BY <1>1 DEF Selected
<1>4. step' = [step EXCEPT ![a] = IF a \in Moves THEN "done" ELSE IF step[a] = "filter" THEN "exp" ELSE "filter"]
  BY DEF Selected, Goes
<1>5. tries' = [tries EXCEPT ![a] = IF a \in Captures /\ step[a] # "filter"
                                     THEN <<Head(tries[a])>> ELSE <<>>]
  BY DEF Selected
<1>6. step' \in [Actors -> Steps] /\ tries' \in [Actors -> Seq(IdSet)]
      /\ \A b \in Actors : b # a => step'[b] = step[b] /\ tries'[b] = tries[b]
  BY <1>1, <1>2, <1>4, <1>5 DEF SettingsTypeOK, ActorTypes, Steps
<1>7. Turns(a)
  BY <1>1, <1>3, <1>6 DEF Turns, Selected, SettingsTypeOK, SessionTypes
<1>8. step'[a] = IF a \in Moves THEN "done" ELSE IF step[a] = "filter" THEN "exp" ELSE "filter"
  BY <1>1, <1>4 DEF SettingsTypeOK, ActorTypes
<1>9. a \notin Moves /\ step[a] # "filter" => tries'[a] # <<>>
  BY <1>1, <1>2, <1>5 DEF SettingsTypeOK, ActorTypes
<1>10. a \in Captures => step[a] \notin RunSteps /\ a = cap /\ phase = "busy"
  BY BusyFacts DEF FilterSteps, RunSteps
<1>11. Leads(a)
  BY <1>1, <1>3, <1>8, <1>9, <1>10 DEF Leads, Early, AfterQuick, FilterSteps
<1>12. Tells(a, sure)
  BY <1>3 DEF Tells
<1> QED
  BY <1>7, <1>11, <1>12

\* So is one that is not confirmed, or it is the end of the request.
LEMMA UnconfirmedTurns ==
    ASSUME SettingsTypeOK, PlaceInv, LastInv, busy # Nil, step[busy] \in FilterSteps,
           Unconfirmed(busy), UNCHANGED <<gain, reached, live>>
    PROVE  Turns(busy) /\ Leads(busy) /\ Tells(busy, FALSE)
<1> DEFINE a == busy
<1>1. a \in Actors /\ tries[a] # <<>> /\ tries[a] \in Seq(IdSet)
      /\ Head(tries[a]) \in IdSet /\ Tail(tries[a]) \in Seq(IdSet) /\
            Len(Tail(tries[a])) = Len(tries[a]) - 1
      /\ a \notin Agains
      /\ (a \in Moves => step[a] = "filter" /\ a \notin Captures /\ a # cap)
      /\ (a \notin Moves => a \in Captures)
  BY BusyFacts, HeadTailProperties, ActorFacts, CapFacts DEF SettingsTypeOK, ActorTypes
<1>2. <<Head(tries[a])>> \in Seq(IdSet) /\ <<Head(tries[a])>> # <<>> /\ <<>> \in Seq(IdSet)
  BY <1>1
<1>3. goal' = goal /\ gain' = gain /\ index' = index /\ doubt' = TRUE
      /\ reached' = reached /\ live' = live /\ pos' = pos
  BY DEF Unconfirmed
<1>4. a \in Captures => step[a] \notin RunSteps /\ a = cap /\ phase = "busy"
  BY BusyFacts DEF FilterSteps, RunSteps
<1>5. step \in [Actors -> Steps] /\ tries \in [Actors -> Seq(IdSet)]
  BY DEF SettingsTypeOK, ActorTypes
<1>6. CASE Len(tries[a]) > 1
  <2>1. tries' = [tries EXCEPT ![a] = Tail(tries[a])] /\ step' = step /\ phase' = phase
        /\ preferred' = preferred /\ guard' = guard
    BY <1>6, <1>1, <1>5 DEF Unconfirmed
  <2>2. Tail(tries[a]) # <<>>
    BY <1>1, <1>6, TailNotEmpty
  <2>3. tries' \in [Actors -> Seq(IdSet)] /\ tries'[a] # <<>>
        /\ \A b \in Actors : b # a => tries'[b] = tries[b]
    BY <1>1, <1>5, <2>1, <2>2
  <2>4. Turns(a)
    BY <1>3, <1>5, <2>1, <2>3 DEF Turns, SettingsTypeOK, SessionTypes
  <2>5. Leads(a)
    BY <1>1, <1>3, <1>4, <1>5, <2>1, <2>3 DEF Leads, Early, AfterQuick, FilterSteps
  <2> QED
    BY <1>3, <2>4, <2>5 DEF Tells
<1>7. CASE ~(Len(tries[a]) > 1) /\ step[a] = "default"
  <2>1. tries' = [tries EXCEPT ![a] = <<Head(tries[a])>>] /\ step' = [step EXCEPT ![a] = "spare"]
        /\ phase' = phase /\ preferred' = Head(tries[a]) /\ guard' \in {guard, Nil}
    BY <1>7 DEF Unconfirmed, Goes
  <2>2. tries' \in [Actors -> Seq(IdSet)] /\ tries'[a] # <<>> /\ step' \in [Actors -> Steps]
        /\ step'[a] = "spare"
        /\ \A b \in Actors : b # a => tries'[b] = tries[b] /\ step'[b] = step[b]
    BY <1>1, <1>2, <1>5, <2>1 DEF Steps
  <2>3. Turns(a)
    BY <1>1, <1>3, <2>1, <2>2 DEF Turns, SettingsTypeOK, SessionTypes
  <2>4. Leads(a)
    BY <1>1, <1>3, <1>4, <1>7, <2>1, <2>2 DEF Leads, Early, AfterQuick, FilterSteps
  <2> QED
    BY <1>3, <2>3, <2>4 DEF Tells
<1>8. CASE ~(Len(tries[a]) > 1) /\ step[a] # "default"
  <2>1. tries' = [tries EXCEPT ![a] = <<>>] /\ step' = [step EXCEPT ![a] = "failed"]
        /\ phase' = (IF a = cap THEN "idle" ELSE phase)
        /\ preferred' = Head(tries[a]) /\ guard' \in {guard, Nil}
    BY <1>8 DEF Unconfirmed, Goes
  <2>2. tries' \in [Actors -> Seq(IdSet)] /\ step' \in [Actors -> Steps]
        /\ step'[a] = "failed"
        /\ \A b \in Actors : b # a => tries'[b] = tries[b] /\ step'[b] = step[b]
    BY <1>1, <1>2, <1>5, <2>1 DEF Steps
  <2>3. Turns(a)
    BY <1>1, <1>3, <2>1, <2>2 DEF Turns, SettingsTypeOK, SessionTypes
  <2>4. Leads(a)
    BY <1>1, <1>3, <1>4, <2>1, <2>2 DEF Leads, Early, AfterQuick, FilterSteps
  <2> QED
    BY <1>3, <2>3, <2>4 DEF Tells
<1> QED
  BY <1>6, <1>7, <1>8

\* The way through the steps.
LEMMA AfterFacts ==
    /\ After("exp") = "gain" /\ After("gain") = "quick" /\ After("exp2") = "gain2"
    /\ After("gain2") = "frames" /\ After("frames") = "start"
    /\ After("runexp") = "rungain" /\ After("rungain") = "runframes"
    /\ \A s \in {"exp", "gain"} : AfterMinus(s) = "quick"
    /\ \A s \in {"exp2", "gain2"} : AfterMinus(s) = "frames"
    /\ AfterMinus("frames") = "start"
  BY DEF After, AfterMinus

\* A confirmation is a step on.
LEMMA OkTurns ==
    ASSUME SettingsTypeOK, PlaceInv, LastInv, busy # Nil, NEW sure \in BOOLEAN, Ok(busy, sure)
    PROVE  Turns(busy) /\ Leads(busy) /\ Tells(busy, sure)
<1> DEFINE a == busy
<1>1. a \in Actors /\ step \in [Actors -> Steps] /\ Sendable(a) /\ step[a] # "start"
      /\ (a \in Captures \/ a \in Agains \/ a \in Moves)
  BY BusyFacts, ActorFacts DEF SettingsTypeOK, ActorTypes
<1>2. CASE step[a] \in FilterSteps
  <2>1. Selected(a, sure) /\ UNCHANGED <<gain, reached, live>>
    BY <1>2 DEF Ok, FilterSteps
  <2> QED
    BY <1>2, <2>1, SelectedTurns
<1>3. CASE step[a] \notin FilterSteps
  <2>1. a \notin Moves /\ a # Nil
    BY <1>1, <1>3, BusyFacts, ActorFacts DEF FilterSteps
  <2>2. PICK s : step' = [step EXCEPT ![a] = s] /\ s \in Steps
           /\ (step[a] = "quick" => s \in {"exp2", "start"})
           /\ (step[a] = "runframes" => s = "done")
           /\ (step[a] \notin {"quick", "runframes"} => s = After(step[a]))
    <3>1. CASE step[a] = "quick"
      BY <1>3, <3>1 DEF Ok, Goes, FilterSteps, Steps
    <3>2. CASE step[a] = "runframes"
      BY <1>3, <3>2 DEF Ok, Goes, Runs, FilterSteps, Steps
    <3>3. CASE step[a] \notin {"quick", "runframes"}
      <4>1. After(step[a]) \in Steps
        BY <1>1, <1>3, <3>3, AfterFacts DEF Steps, Sendable, FilterSteps
      <4> QED
        BY <1>3, <3>3, <4>1 DEF Ok, Goes, FilterSteps
    <3> QED
      BY <3>1, <3>2, <3>3
  <2>3. phase' = IF step[a] = "runframes" /\ a = cap /\ phase = "busy" THEN "exposing" ELSE phase
    BY <1>3 DEF Ok, Runs, FilterSteps
  <2>4. UNCHANGED <<filterVars, goal, tries, gain>> /\ live' \in {live, "yes"}
    BY <1>3 DEF Ok, FilterSteps
  <2>5. reached' = (reached \/ (step[a] = "runframes" /\ a = Again(cap)))
    BY <1>3 DEF Ok, FilterSteps, SettingsTypeOK, SessionTypes
  <2>6. step' \in [Actors -> Steps] /\ step'[a] = step'[a]
        /\ \A b \in Actors : b # a => step'[b] = step[b]
    BY <1>1, <2>2
  <2>7. Turns(a)
    BY <2>4, <2>5, <2>6 DEF Turns, SettingsTypeOK, SessionTypes, ActorTypes, filterVars
  <2>8. /\ step[a] = "quick" => step'[a] \in {"exp2", "start"}
        /\ step[a] = "runframes" => step'[a] = "done"
        /\ step[a] \notin {"quick", "runframes"} => step'[a] = After(step[a])
    BY <1>1, <2>2
  <2>9. /\ step[a] \in RunSteps => step'[a] \in RunSteps \cup {"done"}
        /\ step[a] \in RunSteps /\ step'[a] = "done" => step[a] = "runframes"
        /\ step[a] \in RunSteps /\ step'[a] # "done" => step[a] # "runframes"
        /\ step[a] \in (Early \cup AfterQuick) \ {"lock", "start"} =>
              /\ step'[a] \in {"gain", "quick"} \cup AfterQuick
              /\ step'[a] \in AfterQuick => step[a] \in AfterQuick \cup {"quick"}
              /\ step[a] # "runframes"
    BY <1>3, <2>8, AfterFacts DEF RunSteps, Early, AfterQuick, FilterSteps
  <2>10. step[a] \notin RunSteps => step[a] \in {"exp", "gain", "quick"} \cup AfterQuick /\
            a \in Captures
    BY <1>1, <1>3, <2>1, BusyFacts DEF Early, AfterQuick, FilterSteps
  <2>11. a \in Captures /\ step[a] \in {"exp", "gain", "quick"} \cup AfterQuick => index # Nil
    BY DEF PlaceInv, PhasePlace, CapturePlace, MovePlace
  <2>12. index' = index
    BY <2>4 DEF filterVars
  <2>13. Leads(a)
    <3>1. CASE step[a] \in RunSteps
      <4>1. step'[a] \in RunSteps \cup {"done"}
        BY <2>9, <3>1
      <4>2. a \in Agains => a # cap
        BY CapFacts
      <4>3. step'[a] \in RunSteps => phase' = phase
        BY <2>3, <2>9, <3>1 DEF RunSteps
      <4>4. step'[a] = "done" => phase' = IF a = cap /\ phase = "busy" THEN "exposing" ELSE phase
        BY <2>3, <2>9, <3>1
      <4>5. a \in Agains => phase' = phase
        BY <2>3, <4>2
      <4> QED
        BY <2>1, <3>1, <4>1, <4>3, <4>4, <4>5 DEF Leads, RunSteps, AfterQuick, FilterSteps
    <3>2. CASE step[a] \notin RunSteps
      <4>1. a \in Captures /\ a \notin Agains /\ a \notin Moves /\ index' # Nil
        BY <2>10, <2>11, <2>12, <3>2, ActorFacts
      <4>2. a = cap /\ phase = "busy" /\ step[a] \in (Early \cup AfterQuick) \ {"lock", "start"}
        BY <3>2, <4>1, BusyFacts
      <4>3. phase' = phase
        BY <2>3, <2>9, <4>2
      <4> QED
        BY <2>9, <3>2, <4>1, <4>2, <4>3 DEF Leads, Early, AfterQuick, FilterSteps, RunSteps
    <3> QED
      BY <3>1, <3>2
  <2>14. Tells(a, sure)
    BY <1>3, <2>4, <2>5, <2>8 DEF Tells, filterVars, SettingsTypeOK, SessionTypes
  <2> QED
    BY <2>7, <2>13, <2>14
<1> QED
  BY <1>2, <1>3

\* A refusal is a step on or the end of the capture; of a value that is set again, always
\* the end of the task.
LEMMA BadTurns ==
    ASSUME SettingsTypeOK, PlaceInv, LastInv, busy # Nil, NEW minus \in BOOLEAN, Bad(busy, minus)
    PROVE  /\ Turns(busy) /\ Leads(busy) /\ Tells(busy, FALSE)
           /\ step[busy] = "quick" => step'[busy] = "failed"
           /\ step[busy] = "runexp" \/ step[busy] = "rungain" => step'[busy] = "done"
           /\ step[busy] \in RunSteps => reached' = reached
<1> DEFINE a == busy
<1>1. a \in Actors /\ step \in [Actors -> Steps] /\ Sendable(a) /\ step[a] # "start"
      /\ (a \in Captures \/ a \in Agains \/ a \in Moves)
  BY BusyFacts, ActorFacts DEF SettingsTypeOK, ActorTypes
<1>2. CASE step[a] \in FilterSteps
  <2>1. Unconfirmed(a) /\ UNCHANGED <<gain, reached, live>>
    <3>1. step[a] \in {"filter", "default", "spare"}
      BY <1>2 DEF FilterSteps
    <3> QED
      BY <3>1 DEF Bad, RunSteps
  <2> QED
    BY <1>2, <2>1, UnconfirmedTurns DEF FilterSteps, RunSteps
<1>3. CASE step[a] \in RunSteps
  <2>1. step' = [step EXCEPT ![a] = "done"]
        /\ phase' = (IF a = cap /\ phase = "busy" THEN "exposing" ELSE phase)
        /\ UNCHANGED <<filterVars, goal, tries, gain, reached, live>>
    BY <1>3 DEF Bad, Runs, Goes, FilterSteps, RunSteps
  <2>2. step' \in [Actors -> Steps] /\ step'[a] = "done"
        /\ \A b \in Actors : b # a => step'[b] = step[b]
    BY <1>1, <2>1 DEF Steps
  <2>3. Turns(a)
    BY <2>1, <2>2 DEF Turns, SettingsTypeOK, SessionTypes, ActorTypes, filterVars
  <2>4. a \notin Moves /\ (a \in Agains => a # cap)
    BY <1>3, BusyFacts, CapFacts DEF RunSteps
  <2>5. Leads(a)
    BY <1>3, <2>1, <2>2, <2>4 DEF Leads, AfterQuick, FilterSteps
  <2>6. Tells(a, FALSE)
    BY <1>3, <2>1 DEF Tells, filterVars, RunSteps, FilterSteps
  <2> QED
    BY <1>3, <2>1, <2>2, <2>3, <2>5, <2>6 DEF RunSteps
<1>4. CASE step[a] \notin FilterSteps \cup RunSteps
  <2>1. a \in Captures /\ a \notin Agains /\ a \notin Moves /\ a = cap /\ phase = "busy"
        /\ step[a] \in {"exp", "gain", "quick"} \cup (AfterQuick \ {"start"})
    BY <1>1, <1>4, BusyFacts, ActorFacts DEF FilterSteps, Early, AfterQuick
  <2>2. index # Nil /\ UNCHANGED <<filterVars, goal, tries, gain, reached>>
    BY <1>4, <2>1 DEF PlaceInv, PhasePlace, CapturePlace, MovePlace, Bad, FilterSteps, RunSteps
  <2>3. PICK s : step' = [step EXCEPT ![a] = s]
           /\ \/ s = "failed" /\ phase' = "idle" /\ live' = live
              \/ /\ s = AfterMinus(step[a]) /\ phase' = phase /\ live' \in {live, "no"}
                 /\ step[a] # "quick"
    BY <1>4, <2>1 DEF Bad, Fails, Goes, FilterSteps, RunSteps
  <2>4. s \in {"failed", "quick"} \cup AfterQuick /\ (s \in AfterQuick => step[a] \in AfterQuick)
        /\ (s = "failed" => phase' = "idle") /\ (s # "failed" => phase' = phase)
        /\ (step[a] = "quick" => s = "failed")
    <3>1. step[a] \in {"exp", "gain"} => AfterMinus(step[a]) = "quick"
      BY AfterFacts
    <3>2. step[a] \in {"exp2", "gain2"} => AfterMinus(step[a]) = "frames"
      BY AfterFacts
    <3>3. step[a] = "frames" => AfterMinus(step[a]) = "start"
      BY AfterFacts
    <3> QED
      BY <2>1, <2>3, <3>1, <3>2, <3>3 DEF AfterQuick
  <2>5. step' \in [Actors -> Steps] /\ step'[a] = s
        /\ \A b \in Actors : b # a => step'[b] = step[b]
    BY <1>1, <2>3, <2>4 DEF Steps, AfterQuick
  <2>6. Turns(a)
    BY <2>2, <2>3, <2>5 DEF Turns, SettingsTypeOK, SessionTypes, ActorTypes, filterVars
  <2>7. Leads(a)
    BY <1>4, <2>1, <2>2, <2>4, <2>5 DEF Leads, Early, AfterQuick, FilterSteps, filterVars
  <2>8. Tells(a, FALSE)
    BY <1>4, <2>2 DEF Tells, filterVars
  <2> QED
    BY <1>4, <2>4, <2>5, <2>6, <2>7, <2>8 DEF RunSteps
<1> QED
  BY <1>2, <1>3, <1>4

(***************************************************************************)
(* The types                                                               *)
(***************************************************************************)

Types == SessionTypes /\ ActorTypes /\ WireTypes /\ DeviceTypes

\* What the session does of itself keeps the types.
LEMMA ClientTypes ==
    ASSUME SettingsTypeOK, PlaceInv,
           \/ \E c \in Captures : Start(c) \/ SelectsDefault(c)
           \/ \E m \in Moves : Selects(m) \/ \E f \in Wanted : Move(m, f)
           \/ Refused \/ ConnectWheel \/ GetPosition
           \/ \E a \in Actors : CannotSend(a)
    PROVE  Types'
<1> USE DEF SettingsTypeOK
<1>1. ASSUME NEW c \in Captures, Start(c) PROVE Types'
  <2>1. c \in Actors /\ c \in Values /\ c \in 0..NumCaptures /\ Candidates \in Seq(IdSet) /\
           <<>> \in Seq(IdSet)
    BY <1>1, ActorFacts, CandidatesFacts DEF Captures
  <2>2. Default \in Filters /\ Nil \notin Filters
    BY IdFacts
  <2> DEFINE f == IF index = Nil THEN Default ELSE index
  <2>3. f \in Filters
    BY <2>2 DEF SessionTypes
  <2>4. SessionTypes'
    BY <1>1, <2>1, <2>3 DEF Start, SessionTypes
  <2>5. ActorTypes'
    BY <1>1, <2>1, <2>3 DEF Start, ActorTypes, Goes, Steps
  <2>6. WireTypes' /\ DeviceTypes'
    BY <1>1 DEF Start, WireTypes, DeviceTypes, wireVars, deviceVars
  <2> QED
    BY <2>4, <2>5, <2>6 DEF Types
<1>2. ASSUME NEW c \in Captures, SelectsDefault(c) PROVE Types'
  <2>1. c \in Actors /\ Candidates \in Seq(IdSet) /\ Default \in Filters
    BY <1>2, ActorFacts, CandidatesFacts, IdFacts
  <2>4. SessionTypes'
    BY <1>2, <2>1 DEF SelectsDefault, SessionTypes, sessionVars, epochVars
  <2>5. ActorTypes'
    BY <1>2, <2>1 DEF SelectsDefault, ActorTypes, SessionTypes, Goes, Steps
  <2>6. WireTypes' /\ DeviceTypes'
    BY <1>2 DEF SelectsDefault, WireTypes, DeviceTypes, wireVars, deviceVars
  <2> QED
    BY <2>4, <2>5, <2>6 DEF Types
<1>3. ASSUME NEW m \in Moves, Selects(m) PROVE Types'
  <2>1. m \in Actors /\ Candidates \in Seq(IdSet) /\ goal[m] \in Filters
    BY <1>3, ActorFacts, CandidatesFacts DEF PlaceInv, PhasePlace, CapturePlace, MovePlace,
       Selects
  <2>4. SessionTypes'
    BY <1>3, <2>1 DEF Selects, SessionTypes, sessionVars, epochVars
  <2>5. ActorTypes'
    BY <1>3, <2>1 DEF Selects, ActorTypes, SessionTypes, Goes, Steps
  <2>6. WireTypes' /\ DeviceTypes'
    BY <1>3 DEF Selects, WireTypes, DeviceTypes, wireVars, deviceVars
  <2> QED
    BY <2>4, <2>5, <2>6 DEF Types
<1>4. ASSUME NEW m \in Moves, NEW f \in Wanted, Move(m, f) PROVE Types'
  <2>1. m \in Actors /\ f \in Filters
    BY <1>4, ActorFacts, IdFacts
  <2>4. SessionTypes'
    BY <1>4, <2>1 DEF Move, SessionTypes, sessionVars, filterVars, epochVars
  <2>5. ActorTypes'
    BY <1>4, <2>1 DEF Move, ActorTypes, Goes, Steps
  <2>6. WireTypes' /\ DeviceTypes'
    BY <1>4 DEF Move, WireTypes, DeviceTypes, wireVars, deviceVars
  <2> QED
    BY <2>4, <2>5, <2>6 DEF Types
<1>5. ASSUME Refused \/ ConnectWheel \/ GetPosition PROVE Types'
  <2>1. SessionTypes'
    BY <1>5, ActorFacts DEF Refused, ConnectWheel, GetPosition, SessionTypes, sessionVars,
       filterVars, epochVars
  <2>2. ActorTypes' /\ WireTypes' /\ DeviceTypes'
    BY <1>5 DEF Refused, ConnectWheel, GetPosition, ActorTypes, WireTypes, DeviceTypes,
       actorVars, wireVars, deviceVars
  <2> QED
    BY <2>1, <2>2 DEF Types
<1>6. ASSUME NEW a \in Actors, CannotSend(a) PROVE Types'
  <2>1. SessionTypes'
    BY <1>6 DEF CannotSend, Runs, Fails, SessionTypes, sessionVars, epochVars
  <2>2. ActorTypes'
    <3>1. <<>> \in Seq(IdSet)
      OBVIOUS
    <3>2. step' \in [Actors -> Steps]
      BY <1>6 DEF CannotSend, Runs, Fails, Goes, ActorTypes, Steps
    <3>3. tries' \in [Actors -> Seq(IdSet)]
      BY <1>6, <3>1 DEF CannotSend, ActorTypes
    <3> QED
      BY <1>6, <3>2, <3>3 DEF CannotSend, ActorTypes
  <2>3. WireTypes' /\ DeviceTypes'
    BY <1>6 DEF CannotSend, WireTypes, DeviceTypes, wireVars, deviceVars
  <2> QED
    BY <2>1, <2>2, <2>3 DEF Types
<1> QED
  BY <1>1, <1>2, <1>3, <1>4, <1>5, <1>6

\* So does a command that is sent, and one that is not answered in time.
LEMMA SentTypes ==
    ASSUME SettingsTypeOK, PlaceInv, LastInv,
           \/ \E a \in Actors : SendCommand(a) \/ TimesOut(a)
           \/ \E c \in Captures : SendStart(c)
    PROVE  Types'
<1> USE DEF SettingsTypeOK
<1>1. ASSUME NEW a \in Actors, SendCommand(a) PROVE Types'
  <2>1. Cmd(a) \in Commands
    BY <1>1, CmdFacts DEF SendCommand
  <2>2. SessionTypes' /\ ActorTypes' /\ DeviceTypes'
    BY <1>1 DEF SendCommand, SessionTypes, ActorTypes, DeviceTypes, sessionVars, filterVars,
       actorVars, deviceVars, Spoilt
  <2>3. WireTypes'
    BY <1>1, <2>1 DEF SendCommand, WireTypes
  <2> QED
    BY <2>2, <2>3 DEF Types
<1>2. ASSUME NEW a \in Actors, TimesOut(a) PROVE Types'
  <2>1. busy = a /\ busy # Nil /\ Bad(busy, FALSE)
    BY <1>2, ActorFacts DEF TimesOut
  <2>2. Turns(busy) /\ Leads(busy)
    BY <2>1, BadTurns
  <2>3. phase' \in {"idle", "busy", "exposing"}
    BY <2>1, <2>2, ActorFacts DEF Leads, SessionTypes
  <2>4. SessionTypes' /\ ActorTypes'
    BY <1>2, <2>2, <2>3 DEF TimesOut, Turns, SessionTypes, ActorTypes, Spoilt
  <2>5. WireTypes' /\ DeviceTypes'
    <3>1. <<>> \in Seq(Commands) /\ <<>> \in Seq(Inputs)
      OBVIOUS
    <3>2. out' \in {out, <<>>} /\ inn' \in {inn, <<>>} /\ busy' = Nil
      BY <1>2 DEF TimesOut
    <3> QED
      BY <1>2, <3>1, <3>2 DEF TimesOut, WireTypes, DeviceTypes, deviceVars
  <2> QED
    BY <2>4, <2>5 DEF Types
<1>3. ASSUME NEW c \in Captures, SendStart(c) PROVE Types'
  <2>1. c \in Actors /\ Sendable(c)
    BY <1>3, ActorFacts DEF SendStart, Sendable
  <2>2. Cmd(c) \in Commands
    BY <2>1, CmdFacts
  <2>3. SessionTypes'
    BY <1>3 DEF SendStart, Runs, SessionTypes, sessionVars, filterVars, epochVars
  <2>4. ActorTypes'
    BY <1>3, <2>1 DEF SendStart, Runs, Goes, ActorTypes, SessionTypes, Steps
  <2>5. WireTypes' /\ DeviceTypes'
    BY <1>3, <2>2 DEF SendStart, WireTypes, DeviceTypes, deviceVars
  <2> QED
    BY <2>3, <2>4, <2>5 DEF Types
<1> QED
  BY <1>1, <1>2, <1>3

\* The first of a queue, and the rest.
LEMMA QueueFacts ==
    ASSUME NEW S, NEW s \in Seq(S), s # <<>>
    PROVE  /\ Head(s) = s[1] /\ s[1] \in S /\ 1 \in 1..Len(s) /\ Len(s) \in Nat /\ Len(s) >= 1
           /\ Tail(s) \in Seq(S) /\ Len(Tail(s)) = Len(s) - 1
           /\ \A i \in 1..Len(Tail(s)) : Tail(s)[i] = s[i + 1] /\ i + 1 \in 1..Len(s) /\ i \in Int
<1>1. Len(s) \in Nat /\ Len(s) >= 1
  BY EmptySeq, LenProperties
<1>2. Head(s) = s[1] /\ 1 \in 1..Len(s)
  BY <1>1
<1>3. s[1] \in S
  BY <1>2, LenProperties
<1>4. Tail(s) \in Seq(S) /\ Len(Tail(s)) = Len(s) - 1
      /\ \A i \in 1..Len(Tail(s)) : Tail(s)[i] = s[i + 1]
  BY HeadTailProperties
<1>5. \A n \in Nat : \A i \in 1..(n - 1) : i + 1 \in 1..n /\ i \in Int
  OBVIOUS
<1>6. 1..Len(Tail(s)) = 1..(Len(s) - 1)
  BY <1>4, Zenon
<1>7. \A i \in 1..Len(Tail(s)) : i + 1 \in 1..Len(s) /\ i \in Int
  BY <1>1, <1>5, <1>6, Zenon
<1> QED
  BY <1>1, <1>2, <1>3, <1>4, <1>7

\* What is put at the end of a queue is the last of it.
LEMMA AppendFacts ==
    ASSUME NEW S, NEW s \in Seq(S), NEW e \in S
    PROVE  /\ Append(s, e) \in Seq(S) /\ Len(Append(s, e)) = Len(s) + 1 /\ Len(s) \in Nat
           /\ Append(s, e)[Len(s) + 1] = e /\ Append(s, e) # <<>>
           /\ \A i \in 1..Len(s) : Append(s, e)[i] = s[i] /\ i \in 1..(Len(s) + 1)
           /\ \A i \in 1..(Len(s) + 1) : i \in 1..Len(s) \/ i = Len(s) + 1
<1>1. Len(s) \in Nat
  BY LenProperties
<1>2. Append(s, e) \in Seq(S) /\ Len(Append(s, e)) = Len(s) + 1
      /\ Append(s, e)[Len(s) + 1] = e /\ Append(s, e) # <<>>
      /\ \A i \in 1..Len(s) : Append(s, e)[i] = s[i]
  BY AppendProperties, <1>1
<1>3. \A i \in 1..Len(s) : i \in 1..(Len(s) + 1)
  BY <1>1
<1>4. \A i \in 1..(Len(s) + 1) : i \in 1..Len(s) \/ i = Len(s) + 1
  BY <1>1
<1> QED
  BY <1>1, <1>2, <1>3, <1>4

\* So does what is read.
LEMMA ReadTypes ==
    ASSUME SettingsTypeOK, PlaceInv, LastInv, Answer \/ Other \/ Elapsed
    PROVE  Types'
<1> USE DEF SettingsTypeOK
<1>0. inn # <<>> /\ inn \in Seq(Inputs) /\ inn' = Tail(inn)
  BY DEF Answer, Other, Elapsed, Reads, WireTypes
<1>1. inn' \in Seq(Inputs) /\ Head(inn) \in Inputs
  BY <1>0, QueueFacts
<1>2. Head(inn).cmd = "space" => Head(inn).res \in Spaces
  BY <1>1 DEF Inputs
<1>3. CASE Answer
  <2>1. busy # Nil
    BY <1>3 DEF Answer
  <2>2. PICK sure \in BOOLEAN, minus \in BOOLEAN : Ok(busy, sure) \/ Bad(busy, minus)
    <3>1. (Head(inn).cmd # "space" /\ ~Awaited(Tail(inn))) \in BOOLEAN /\
             (Head(inn).res = "minus") \in BOOLEAN
      OBVIOUS
    <3> QED
      BY <1>3, <3>1 DEF Answer
  <2>3. Turns(busy) /\ Leads(busy)
    BY <2>1, <2>2, OkTurns, BadTurns
  <2>4. phase' \in {"idle", "busy", "exposing"}
    BY <2>1, <2>3, BusyFacts, ActorFacts DEF Leads, SessionTypes
  <2>5. space' \in Spaces \cup {Nil}
    BY <1>2, <1>3 DEF Answer, Detected, SessionTypes
  <2>6. SessionTypes' /\ ActorTypes'
    BY <1>3, <2>3, <2>4, <2>5 DEF Answer, Turns, SessionTypes, ActorTypes, epochVars
  <2>7. WireTypes' /\ DeviceTypes'
    BY <1>1, <1>3 DEF Answer, WireTypes, DeviceTypes, deviceVars
  <2> QED
    BY <2>6, <2>7 DEF Types
<1>4. CASE Other
  <2>1. space' \in Spaces \cup {Nil} /\ phase' \in {"idle", "busy", "exposing"}
    BY <1>2, <1>4 DEF Other, Detected, SessionTypes
  <2>2. SessionTypes' /\ ActorTypes' /\ WireTypes' /\ DeviceTypes'
    BY <1>1, <1>4, <2>1 DEF Other, SessionTypes, ActorTypes, WireTypes, DeviceTypes,
       deviceVars, epochVars, filterVars, actorVars
  <2> QED
    BY <2>2 DEF Types
<1>5. CASE Elapsed
  <2>1. SessionTypes' /\ WireTypes' /\ DeviceTypes'
    BY <1>1, <1>5 DEF Elapsed, SessionTypes, WireTypes, DeviceTypes, deviceVars, epochVars,
       filterVars, sessionVars
  <2>2. ActorTypes'
    <3>1. CASE UNCHANGED <<step, goal, gain>>
      BY <1>5, <3>1 DEF Elapsed, ActorTypes
    <3>2. CASE /\ step' = [step EXCEPT ![Again(cap)] = "runexp"]
               /\ goal' = [goal EXCEPT ![Again(cap)] = IF space = Nil THEN "default" ELSE space]
               /\ gain' = [gain EXCEPT ![Again(cap)] = asked]
      <4>1. (IF space = Nil THEN "default" ELSE space) \in Spaces /\ asked \in Values
        BY DEF SessionTypes, Spaces
      <4> QED
        BY <1>5, <3>2, <4>1 DEF Elapsed, ActorTypes, Steps
    <3> QED
      BY <1>5, <3>1, <3>2 DEF Elapsed, Goes
  <2> QED
    BY <2>1, <2>2 DEF Types
<1> QED
  BY <1>3, <1>4, <1>5

\* So does what the device does, and the end of a capture.
LEMMA OutsideTypes ==
    ASSUME SettingsTypeOK, Ends \/ Restart \/ Obeys \/ Loads
    PROVE  Types'
<1> USE DEF SettingsTypeOK
<1>1. CASE Ends
  <2>1. out' \in Seq(Commands)
    <3>1. out' = [i \in 1..Len(out) |-> IF out[i].cmd = "start" THEN [out[i] EXCEPT !.of = 0] ELSE out[i]]
      BY <1>1 DEF Ends
    <3>2. Len(out) \in Nat /\ \A i \in 1..Len(out) : out[i] \in Commands
      BY LenProperties DEF WireTypes
    <3>3. \A c \in Commands : [c EXCEPT !.of = 0] \in Commands
      BY ActorFacts DEF Commands
    <3>4. out' \in [1..Len(out) -> Commands]
      BY <3>1, <3>2, <3>3
    <3> QED
      BY <3>2, <3>4, SeqDef
  <2>2. SessionTypes' /\ ActorTypes' /\ WireTypes' /\ DeviceTypes'
    BY <1>1, <2>1, ActorFacts DEF Ends, SessionTypes, ActorTypes, WireTypes, DeviceTypes,
       sessionVars, filterVars, actorVars, epochVars
  <2> QED
    BY <2>2 DEF Types
<1>2. CASE Restart
  <2>1. <<>> \in Seq(Commands) /\ <<>> \in Seq(Inputs) /\ 0 \in Values
    BY ActorFacts
  <2>2. restarts' \in 0..MaxRestarts
    BY <1>2, SettingsAssumption DEF Restart, SessionTypes, SettingsAssumption
  <2>3. SessionTypes' /\ ActorTypes' /\ WireTypes' /\ DeviceTypes'
    BY <1>2, <2>1, <2>2 DEF Restart, SessionTypes, ActorTypes, WireTypes, DeviceTypes, actorVars
  <2> QED
    BY <2>3 DEF Types
<1>3. CASE Obeys
  <2> DEFINE c == Head(out)
  <2>1. out # <<>> /\ out \in Seq(Commands) /\ out' = Tail(out) /\ inn \in Seq(Inputs)
    BY <1>3 DEF Obeys, WireTypes
  <2>2. c \in Commands /\ out' \in Seq(Commands)
    BY <2>1, QueueFacts
  <2>3. PICK res \in {"ok", "no", "minus"} : inn' = Append(inn, [cmd |-> c.cmd, res |-> res])
    BY <1>3 DEF Obeys, Answers, Says
  <2>4. [cmd |-> c.cmd, res |-> res] \in Inputs
    BY <2>2 DEF Commands, Inputs
  <2>5. inn' \in Seq(Inputs)
    BY <2>1, <2>3, <2>4, AppendFacts
  <2>6. WireTypes' /\ SessionTypes' /\ ActorTypes'
    BY <1>3, <2>2, <2>5 DEF Obeys, WireTypes, SessionTypes, ActorTypes, sessionVars,
       filterVars, actorVars, epochVars
  <2>0. UNCHANGED <<own, mini, supports>>
    BY <1>3 DEF Obeys
  <2>7. CASE c.cmd \in Params
    <3>1. c.val \in Values
      BY <2>2, <2>7 DEF Commands, Params
    <3>2. dev' \in {dev, [dev EXCEPT !.run[c.cmd] = c.val]} /\ UNCHANGED <<wheel, shot, stage>>
      BY <1>3, <2>7 DEF Obeys, Params
    <3>3. dev' \in [quick : [Params -> Values], run : [Params -> Values]]
      BY <2>7, <3>1, <3>2 DEF DeviceTypes
    <3> QED
      BY <2>0, <2>6, <3>2, <3>3 DEF DeviceTypes, Types
  <2>8. CASE c.cmd = "int"
    <3>1. c.id \in Obeyed => c.val \in Filters
      BY <2>2, <2>8, IdFacts DEF Commands, Spaces
    <3>2. wheel' \in Filters /\ UNCHANGED <<dev, shot, stage>>
      BY <1>3, <2>8, <3>1 DEF Obeys, Params, DeviceTypes
    <3> QED
      BY <2>0, <2>6, <3>2 DEF DeviceTypes, Types
  <2>9. CASE c.cmd = "quick"
    <3>1. c.val \in Values /\ c.of \in Values
      BY <2>2, <2>9 DEF Commands
    <3>2. dev' = [dev EXCEPT !.quick = [exp |-> c.of, gain |-> c.val]] /\ UNCHANGED <<wheel,
             shot, stage>>
      BY <1>3, <2>9 DEF Obeys, Params
    <3>3. dev' \in [quick : [Params -> Values], run : [Params -> Values]]
      BY <3>1, <3>2 DEF DeviceTypes, Params
    <3> QED
      BY <2>0, <2>6, <3>2, <3>3 DEF DeviceTypes, Types
  <2>10. CASE c.cmd = "start"
    <3>1. c.val \in Filters /\ c.of \in Values
      BY <2>2, <2>10 DEF Commands
    <3>2. Stored \subseteq [Params -> Values]
      BY ActorFacts DEF Stored, Preset, DeviceTypes
    <3>3. wheel' \in Filters /\ shot' \in Values /\ stage' \in {"start", "loaded"}
      BY <1>3, <2>10, <3>1 DEF Obeys, Params, DeviceTypes
    <3>4. dev' = dev \/ \E run \in Stored : dev' = [dev EXCEPT !.run = run]
      BY <1>3, <2>10 DEF Obeys, Params
    <3>5. dev' \in [quick : [Params -> Values], run : [Params -> Values]]
      BY <3>2, <3>4 DEF DeviceTypes
    <3> QED
      BY <2>0, <2>6, <3>3, <3>5 DEF DeviceTypes, Types
  <2>11. c.cmd \in Params \cup {"int", "quick", "start"}
    BY <2>2 DEF Commands, Params
  <2> QED
    BY <2>6, <2>7, <2>8, <2>9, <2>10, <2>11 DEF Types
<1>4. CASE Loads
  <2>1. PICK e \in Inputs, f \in Inputs : inn' \in {Append(inn, e) \o <<f>>, inn \o <<f>>}
    <3>1. [cmd |-> "space", res |-> own] \in Inputs /\ [cmd |-> "elapsed", res |-> own] \in Inputs
      BY DEF Inputs, DeviceTypes
    <3> QED
      BY <1>4, <3>1 DEF Loads
  <2>2. inn' \in Seq(Inputs)
    <3>1. inn \in Seq(Inputs)
      BY DEF WireTypes
    <3> QED
      BY <2>1, <3>1
  <2>3. dev' \in [quick : [Params -> Values], run : [Params -> Values]]
    <3>1. Stored \subseteq [Params -> Values]
      BY ActorFacts DEF Stored, Preset, DeviceTypes
    <3>2. PICK run \in Stored : dev' = [dev EXCEPT !.run = run]
      BY <1>4 DEF Loads
    <3> QED
      BY <3>1, <3>2 DEF DeviceTypes
  <2>4. SessionTypes' /\ ActorTypes'
    BY <1>4 DEF Loads, SessionTypes, ActorTypes, sessionVars, filterVars, actorVars, epochVars
  <2>5. WireTypes'
    BY <1>4, <2>2 DEF Loads, WireTypes
  <2>6. DeviceTypes'
    BY <1>4, <2>3 DEF Loads, DeviceTypes
  <2> QED
    BY <2>4, <2>5, <2>6 DEF Types
<1> QED
  BY <1>1, <1>2, <1>3, <1>4

(***************************************************************************)
(* Who is where                                                            *)
(***************************************************************************)

\* One actor takes a step and the phase stays.
LEMMA OneMoves ==
    ASSUME SettingsTypeOK, PlaceInv, NEW a \in Actors,
           cap' = cap, a # cap => phase' = phase, index # Nil => index' # Nil,
           \A b \in Actors : b # a =>
               step'[b] = step[b] /\ tries'[b] = tries[b] /\ goal'[b] = goal[b] /\
                  gain'[b] = gain[b],
           a \in Captures => CapturePlace(a)', a \in Agains => CapturePlace(-a)',
           a \in Moves => MovePlace(a)',
           a = cap => PhasePlace'
    PROVE  PlaceInv'
<1>1. PhasePlace'
  <2>1. CASE a # cap /\ cap # 0
    BY <2>1, CapFacts, ActorFacts DEF PlaceInv, PhasePlace
  <2>2. CASE cap = 0
    BY <2>2, CapFacts DEF PlaceInv, PhasePlace
  <2> QED
    BY <2>1, <2>2
<1>2. ASSUME NEW c \in Captures PROVE CapturePlace(c)'
  <2>1. CASE a = c
    BY <2>1
  <2>2. CASE a = Again(c)
    <3>1. a \in Agains /\ -a = c
      BY <2>2, ActorFacts DEF Again
    <3> QED
      BY <3>1
  <2>3. CASE a # c /\ a # Again(c)
    <3>1. /\ step'[c] = step[c] /\ tries'[c] = tries[c] /\ goal'[c] = goal[c] /\
                gain'[c] = gain[c]
          /\ step'[Again(c)] = step[Again(c)] /\ goal'[Again(c)] = goal[Again(c)]
      BY <2>3, ActorFacts
    <3> QED
      BY <3>1 DEF PlaceInv, CapturePlace, Again
  <2> QED
    BY <2>1, <2>2, <2>3
<1>3. ASSUME NEW m \in Moves PROVE MovePlace(m)'
  <2>1. CASE a # m
    BY <2>1, ActorFacts DEF PlaceInv, MovePlace
  <2> QED
    BY <2>1
<1> QED
  BY <1>1, <1>2, <1>3 DEF PlaceInv

\* An answer, or a time that is out.
LEMMA TurnsPlace ==
    ASSUME SettingsTypeOK, PlaceInv, LastInv, NEW a \in Actors, busy = a, cap' = cap, Turns(a),
              Leads(a)
    PROVE  PlaceInv'
<1>0. busy # Nil
  BY ActorFacts
<1>1. a \in Actors /\ Sendable(a) /\ step[a] # "start" /\ goal' = goal /\ gain' = gain
  BY <1>0, BusyFacts DEF Turns
<1>2. step \in [Actors -> Steps] /\ step' \in [Actors -> Steps] /\ (index # Nil => index' # Nil)
      /\ \A b \in Actors : b # a => step'[b] = step[b] /\ tries'[b] = tries[b]
  BY DEF Turns, SettingsTypeOK, ActorTypes
<1>3. CASE a \in Moves
  <2>1. phase' = phase /\ a # cap /\ a \notin Captures /\ a \notin Agains
    BY <1>3, CapFacts, ActorFacts DEF Leads
  <2>2. MovePlace(a)'
    <3>1. step[a] = "filter" /\ goal[a] \in Filters
      BY <1>0, <1>3, BusyFacts DEF FilterSteps
    <3>2. step'[a] \in {"filter", "done", "failed"} /\ (step'[a] = "filter" => tries'[a] # <<>>)
      BY <1>3 DEF Leads, FilterSteps
    <3> QED
      BY <1>1, <3>1, <3>2 DEF MovePlace
  <2> QED
    BY <1>1, <1>2, <2>1, <2>2, OneMoves
<1>4. CASE a \in Agains
  <2>1. phase' = phase /\ a # cap /\ a \notin Captures /\ a \notin Moves /\
           step'[a] \in RunSteps \cup {"done"}
    BY <1>4, CapFacts, ActorFacts DEF Leads
  <2>2. CapturePlace(-a)'
    <3>1. -a \in Captures /\ a = Again(-a) /\ -a \in Actors /\ -a # a
      BY <1>4, ActorFacts
    <3>2. step[a] \in RunSteps /\ goal[a] \in Spaces
      BY <1>0, <1>4, <3>1, BusyFacts DEF PlaceInv, CapturePlace, RunSteps
    <3>3. ~(-a > cap)
      BY <3>1, <3>2 DEF PlaceInv, CapturePlace, RunSteps
    <3>4. step'[-a] = step[-a] /\ tries'[-a] = tries[-a]
      BY <1>2, <3>1
    <3>5. step'[Again(-a)] \in {"none", "done"} \cup RunSteps /\ goal[Again(-a)] \in Spaces
      BY <2>1, <3>1, <3>2
    <3> QED
      BY <1>1, <1>2, <2>1, <3>1, <3>3, <3>4, <3>5 DEF PlaceInv, CapturePlace, Again
  <2> QED
    BY <1>1, <1>2, <2>1, <2>2, OneMoves
<1>5. CASE a \in Captures
  <2>1. a \notin Moves /\ a \notin Agains /\ Again(a) \in Actors /\ Again(a) # a
    BY <1>5, ActorFacts
  <2>2. ~(a > cap) /\ a <= cap /\ step[Again(a)] = step'[Again(a)]
    BY <1>1, <1>2, <1>5, <2>1, CapFacts DEF PlaceInv, CapturePlace, Sendable
  <2>3. CASE step[a] \in RunSteps
    <3>1. PICK s \in RunSteps \cup {"done"} : step'[a] = s
      BY <1>5, <2>3 DEF Leads
    <3>2. /\ s \in RunSteps => phase' = phase
          /\ s = "done" => phase' = IF a = cap /\ phase = "busy" THEN "exposing" ELSE phase
      BY <1>5, <2>3, <3>1 DEF Leads, RunSteps
    <3>3. CapturePlace(a)'
      BY <1>1, <1>2, <1>5, <2>2, <3>1 DEF PlaceInv, CapturePlace, RunSteps, FilterSteps, Early,
         AfterQuick, Again
    <3>4. a = cap => PhasePlace'
      BY <2>3, <3>1, <3>2 DEF PlaceInv, PhasePlace, RunSteps
    <3>5. a # cap => phase' = phase
      BY <3>1, <3>2
    <3> QED
      BY <1>1, <1>2, <2>1, <3>3, <3>4, <3>5, OneMoves
  <2>4. CASE step[a] \notin RunSteps
    <3>1. a = cap /\ phase = "busy" /\ step[a] \in Early \cup AfterQuick
      BY <1>0, <1>5, <2>4, BusyFacts
    <3>2. PICK s \in Early \cup AfterQuick \cup {"failed"} : step'[a] = s
      BY <1>5, <2>4 DEF Leads
    <3>3. (s = "failed" => phase' = "idle") /\ (s # "failed" => phase' = phase)
          /\ (s \in FilterSteps => tries'[a] # <<>>)
          /\ (s \in {"exp", "gain", "quick"} \cup AfterQuick => index' # Nil)
      BY <1>5, <2>4, <3>2 DEF Leads, Early, AfterQuick
    <3>4. gain[a] = a /\ goal[a] \in Filters
      BY <1>5, <2>2, <3>1 DEF PlaceInv, CapturePlace
    <3>5. CapturePlace(a)'
      BY <1>1, <1>2, <1>5, <2>2, <3>1, <3>2, <3>3, <3>4, CapFacts DEF PlaceInv, CapturePlace,
         FilterSteps, Early, AfterQuick, Again
    <3>6. PhasePlace'
      BY <3>1, <3>2, <3>3 DEF PlaceInv, PhasePlace, Early, AfterQuick
    <3> QED
      BY <1>1, <1>2, <2>1, <3>1, <3>5, <3>6, OneMoves
  <2> QED
    BY <2>3, <2>4
<1> QED
  BY <1>1, <1>3, <1>4, <1>5, ActorFacts

\* Nothing that matters here is changed.
LEMMA PlaceSame ==
    ASSUME SettingsTypeOK, PlaceInv, step' = step, tries' = tries, goal' = goal, gain' = gain,
              cap' = cap,
           index # Nil => index' # Nil,
           \/ phase' = phase
           \/ phase' = "idle" /\ (cap \in Captures => step[cap] \in {"done",
                 "failed"} \cup RunSteps)
    PROVE  PlaceInv'
<1>1. PhasePlace'
  BY DEF PlaceInv, PhasePlace
<1>2. ASSUME NEW c \in Captures PROVE CapturePlace(c)'
  BY <1>2 DEF PlaceInv, CapturePlace
<1>3. ASSUME NEW m \in Moves PROVE MovePlace(m)'
  BY <1>3 DEF PlaceInv, MovePlace
<1> QED
  BY <1>1, <1>2, <1>3 DEF PlaceInv

\* A StartExposure puts its capture at its first step.
LEMMA StartPlace ==
    ASSUME SettingsTypeOK, PlaceInv, NEW c \in Captures, Start(c)
    PROVE  PlaceInv'
<1>1. cap' = c /\ c = cap + 1 /\ phase' = "busy" /\ phase = "idle" /\ c \in Actors /\
         c \in Int /\ c >= 1
      /\ Again(c) \in Actors /\ Again(c) # c /\ c \notin Moves
  BY ActorFacts DEF Start
<1> DEFINE f == IF index = Nil THEN Default ELSE index
<1>2. PICK s \in {"exp", "lock", "filter"} : step' = [step EXCEPT ![c] = s]
         /\ (mini <=> s = "exp") /\ (s = "filter" => index # Nil)
  BY DEF Start, Goes
<1>3. goal' = [goal EXCEPT ![c] = f] /\ gain' = [gain EXCEPT ![c] = c]
      /\ tries' = [tries EXCEPT ![c] = IF mini THEN <<>> ELSE Candidates]
      /\ index' = (IF mini THEN f ELSE index)
  BY DEF Start
<1>4. f \in Filters /\ f # Nil /\ Candidates # <<>>
  BY IdFacts, CandidatesFacts DEF SettingsTypeOK, SessionTypes
<1>5. ActorTypes
  BY DEF SettingsTypeOK
<1>6. /\ step'[c] = s /\ goal'[c] = f /\ gain'[c] = c /\ (s = "filter" => tries'[c] # <<>>)
      /\ (s = "exp" => index' # Nil) /\ (index # Nil => index' # Nil)
      /\ \A b \in Actors : b # c =>
           step'[b] = step[b] /\ tries'[b] = tries[b] /\ goal'[b] = goal[b] /\ gain'[b] = gain[b]
  BY <1>1, <1>2, <1>3, <1>4, <1>5 DEF ActorTypes
<1>7. PhasePlace'
  BY <1>1, <1>6 DEF PhasePlace, Early, FilterSteps
<1>8. ASSUME NEW d \in Captures PROVE CapturePlace(d)'
  <2>1. d \in Int /\ d \in Actors /\ Again(d) \in Actors /\ Again(d) # c /\ cap \in Int
    BY <1>8, ActorFacts, CapFacts
  <2>2. CASE d = c
    <3>1. step[Again(c)] = "none" /\ step'[Again(c)] = "none"
      <4>1. c > cap
        BY <1>1, CapFacts
      <4> QED
        BY <1>1, <1>6, <4>1 DEF PlaceInv, CapturePlace
    <3>2. ~(c > c) /\ ~(c < c)
      BY <1>1
    <3> QED
      BY <1>1, <1>4, <1>6, <2>2, <3>1, <3>2 DEF CapturePlace, Early, AfterQuick, FilterSteps,
         Again
  <2>3. CASE d # c
    <3>1. (d > c => d > cap) /\ (d <= c => d <= cap) /\ (d < c => d < cap \/ d = cap)
      BY <1>1, <2>1, <2>3
    <3>2. step'[d] = step[d] /\ tries'[d] = tries[d] /\ goal'[d] = goal[d] /\ gain'[d] = gain[d]
          /\ step'[Again(d)] = step[Again(d)] /\ goal'[Again(d)] = goal[Again(d)]
      BY <1>6, <2>1, <2>3
    <3> QED
      BY <1>1, <1>6, <1>8, <2>3, <3>1, <3>2 DEF PlaceInv, CapturePlace, Again
  <2> QED
    BY <2>2, <2>3
<1>9. ASSUME NEW m \in Moves PROVE MovePlace(m)'
  BY <1>1, <1>6, <1>9, ActorFacts DEF PlaceInv, MovePlace
<1> QED
  BY <1>7, <1>8, <1>9 DEF PlaceInv

\* What the session does of itself leaves each actor at a place there is.
LEMMA ClientPlace ==
    ASSUME SettingsTypeOK, PlaceInv,
           \/ \E c \in Captures : SelectsDefault(c) \/ SendStart(c)
           \/ \E m \in Moves : Selects(m) \/ \E f \in Wanted : Move(m, f)
           \/ \E a \in Actors : CannotSend(a)
    PROVE  PlaceInv'
<1>0. ActorTypes
  BY DEF SettingsTypeOK
<1>1. ASSUME NEW c \in Captures, SelectsDefault(c) PROVE PlaceInv'
  <2>1. c \in Actors /\ c \notin Moves /\ c \notin Agains /\ Again(c) \in Actors /\ Again(c) # c
    BY ActorFacts
  <2>2. PICK s \in {"default", "filter"} : step' = [step EXCEPT ![c] = s]
    BY <1>1 DEF SelectsDefault, Goes
  <2>3. (IF index = Nil THEN Default ELSE index) \in Filters /\ Candidates # <<>>
    BY IdFacts, CandidatesFacts DEF SettingsTypeOK, SessionTypes
  <2>4. /\ step'[c] = s /\ goal'[c] \in Filters /\ gain' = gain /\ tries'[c] # <<>>
        /\ \A b \in Actors : b # c =>
             step'[b] = step[b] /\ tries'[b] = tries[b] /\ goal'[b] = goal[b] /\
                gain'[b] = gain[b]
        /\ phase' = phase /\ cap' = cap /\ index' = index
    BY <1>0, <1>1, <2>1, <2>2, <2>3 DEF SelectsDefault, ActorTypes, sessionVars
  <2>5. step[c] = "lock"
    BY <1>1 DEF SelectsDefault
  <2>6. c = cap /\ phase = "busy"
    BY <2>5, CapFacts DEF PlaceInv, CapturePlace, RunSteps
  <2>7. CapturePlace(c)'
    <3>1. step'[Again(c)] = step[Again(c)] /\ goal'[Again(c)] = goal[Again(c)] /\ gain[c] = c
          /\ ~(c > cap) /\ ~(c < cap)
      BY <2>1, <2>4, <2>5, <2>6, CapFacts, ActorFacts DEF PlaceInv, CapturePlace, Early
    <3> QED
      BY <2>4, <2>6, <3>1 DEF PlaceInv, CapturePlace, Early, AfterQuick, FilterSteps, Again
  <2>8. PhasePlace'
    BY <2>4, <2>6 DEF PlaceInv, PhasePlace, Early
  <2> QED
    BY <2>1, <2>4, <2>7, <2>8, OneMoves
<1>2. ASSUME NEW c \in Captures, SendStart(c) PROVE PlaceInv'
  <2>1. c \in Actors /\ c \notin Moves /\ c \notin Agains /\ Again(c) \in Actors /\ Again(c) # c
    BY ActorFacts
  <2>2. PICK s \in {"runexp", "done"} : step' = [step EXCEPT ![c] = s]
          /\ (s = "runexp" => phase' = phase)
          /\ (s = "done" => phase' = IF c = cap /\ phase = "busy" THEN "exposing" ELSE phase)
    BY <1>2 DEF SendStart, Runs, Goes
  <2>3. step[c] = "start"
    BY <1>2 DEF SendStart
  <2>4. c = cap /\ phase = "busy" /\ ~(c > cap) /\ ~(c < cap) /\ c <= cap
    BY <2>3, CapFacts DEF PlaceInv, CapturePlace, RunSteps
  <2>5. /\ step'[c] = s /\ goal' = goal /\ tries' = tries
        /\ \A b \in Actors : b # c =>
             step'[b] = step[b] /\ tries'[b] = tries[b] /\ goal'[b] = goal[b] /\
                gain'[b] = gain[b]
        /\ cap' = cap /\ index' = index
    BY <1>0, <1>2, <2>1, <2>2 DEF SendStart, ActorTypes, sessionVars, filterVars
  <2>6. CapturePlace(c)'
    <3>1. step'[Again(c)] = step[Again(c)]
      BY <2>1, <2>5
    <3> QED
      BY <2>2, <2>4, <2>5, <3>1 DEF PlaceInv, CapturePlace, Early, AfterQuick, FilterSteps,
         RunSteps, Again
  <2>7. PhasePlace'
    BY <2>2, <2>4, <2>5 DEF PlaceInv, PhasePlace, RunSteps
  <2> QED
    BY <2>1, <2>4, <2>5, <2>6, <2>7, OneMoves
<1>3. ASSUME NEW m \in Moves, Selects(m) PROVE PlaceInv'
  <2>1. m \in Actors /\ m \notin Captures /\ m \notin Agains /\ m # cap
    BY <1>3, ActorFacts, CapFacts
  <2>2. step[m] = "lock" /\ goal[m] \in Filters /\ goal[m] # Nil /\ Candidates # <<>>
    BY <1>3, IdFacts, CandidatesFacts DEF Selects, PlaceInv, MovePlace
  <2>3. PICK s \in {"done", "filter"} : step' = [step EXCEPT ![m] = s]
          /\ (s = "filter" => tries' = [tries EXCEPT ![m] = Candidates])
          /\ (s = "done" => tries' = tries)
    BY <1>3 DEF Selects, Goes
  <2>4. /\ step'[m] = s /\ goal' = goal /\ gain' = gain /\ (s = "filter" => tries'[m] # <<>>)
        /\ \A b \in Actors : b # m => step'[b] = step[b] /\ tries'[b] = tries[b]
    BY <1>0, <1>3, <2>1, <2>2, <2>3 DEF Selects, ActorTypes
  <2>5. phase' = phase /\ cap' = cap /\ (index # Nil => index' # Nil)
    BY <1>3, <2>2 DEF Selects, sessionVars
  <2>6. MovePlace(m)'
    BY <2>2, <2>4 DEF MovePlace
  <2> QED
    BY <2>1, <2>4, <2>5, <2>6, OneMoves
<1>4. ASSUME NEW m \in Moves, NEW f \in Wanted, Move(m, f) PROVE PlaceInv'
  <2>1. m \in Actors /\ m \notin Captures /\ m \notin Agains /\ m # cap /\ f \in Filters
    BY <1>4, ActorFacts, CapFacts, IdFacts
  <2>2. /\ step'[m] = "lock" /\ goal'[m] = f /\ gain' = gain /\ tries' = tries
        /\ \A b \in Actors : b # m => step'[b] = step[b] /\ goal'[b] = goal[b]
        /\ phase' = phase /\ cap' = cap /\ index' = index
    BY <1>0, <1>4, <2>1 DEF Move, Goes, ActorTypes, sessionVars, filterVars
  <2>3. MovePlace(m)'
    BY <2>1, <2>2 DEF MovePlace
  <2> QED
    BY <2>1, <2>2, <2>3, OneMoves
<1>5. ASSUME NEW a \in Actors, CannotSend(a) PROVE PlaceInv'
  <2>1. Sendable(a) /\ goal' = goal /\ gain' = gain /\ cap' = cap /\ index' = index
    BY <1>5 DEF CannotSend, sessionVars
  <2>2. PICK s \in {"done", "spare", "failed"} : step' = [step EXCEPT ![a] = s]
          /\ (s = "done" <=> step[a] \in RunSteps)
          /\ (s = "spare" <=> step[a] = "default")
          /\ (s = "failed" => phase' = IF a = cap THEN "idle" ELSE phase)
          /\ (s = "spare" => phase' = phase)
          /\ (s = "done" => phase' = IF a = cap /\ phase = "busy" THEN "exposing" ELSE phase)
          /\ (s # "failed" => tries' = tries)
    BY <1>5 DEF CannotSend, Runs, Fails, Goes, RunSteps
  <2>3. /\ step'[a] = s
        /\ \A b \in Actors : b # a => step'[b] = step[b] /\ tries'[b] = tries[b]
    BY <1>0, <1>5, <2>2 DEF CannotSend, ActorTypes
  <2>4. a # cap => phase' = phase
    BY <2>2
  <2>5. CASE a \in Moves
    <3>1. a \notin Captures /\ a \notin Agains /\ a # cap /\ s # "spare" /\ goal[a] \in Filters
      BY <2>1, <2>2, <2>5, ActorFacts, CapFacts DEF PlaceInv, MovePlace, Sendable
    <3>2. MovePlace(a)'
      BY <2>1, <2>3, <3>1 DEF MovePlace
    <3> QED
      BY <2>1, <2>3, <2>4, <3>1, <3>2, OneMoves
  <2>6. CASE a \in Agains
    <3>1. a \notin Captures /\ a \notin Moves /\ a # cap /\ -a \in Captures /\ a = Again(-a) /\
             -a \in Actors
          /\ -a # a
      BY <2>6, ActorFacts, CapFacts
    <3>2. step[a] \in RunSteps /\ goal[a] \in Spaces /\ ~(-a > cap)
      BY <2>1, <3>1 DEF PlaceInv, CapturePlace, Sendable
    <3>3. step'[-a] = step[-a] /\ tries'[-a] = tries[-a] /\ step'[Again(-a)] = "done"
          /\ goal[Again(-a)] \in Spaces
      BY <2>2, <2>3, <3>1, <3>2
    <3>4. CapturePlace(-a)'
      BY <2>1, <2>4, <3>1, <3>2, <3>3 DEF PlaceInv, CapturePlace, Again
    <3> QED
      BY <2>1, <2>3, <2>4, <3>1, <3>4, OneMoves
  <2>7. CASE a \in Captures
    <3>1. a \notin Agains /\ a \notin Moves /\ Again(a) \in Actors /\ Again(a) # a
      BY <2>7, ActorFacts
    <3>2. ~(a > cap) /\ step'[Again(a)] = step[Again(a)]
      BY <2>1, <2>3, <2>7, <3>1 DEF PlaceInv, CapturePlace, Sendable
    <3>3. s # "done" => a = cap /\ phase = "busy" /\ step[a] \in Early \cup AfterQuick /\
             gain[a] = a
      <4>1. s # "done" => step[a] \notin RunSteps \cup {"done", "failed"}
        BY <2>1, <2>2 DEF Sendable
      <4>2. s # "done" => a = cap /\ phase = "busy"
        BY <2>7, <3>2, <4>1, CapFacts DEF PlaceInv, CapturePlace
      <4> QED
        BY <2>7, <4>1, <4>2 DEF PlaceInv, PhasePlace, CapturePlace
    <3>4. s = "spare" => tries'[a] # <<>>
      BY <2>2, <2>7 DEF PlaceInv, CapturePlace, FilterSteps
    <3>5. CapturePlace(a)'
      BY <2>1, <2>2, <2>3, <2>7, <3>2, <3>3, <3>4 DEF PlaceInv, CapturePlace, Early,
         AfterQuick, FilterSteps, RunSteps, Again
    <3>6. a = cap => PhasePlace'
      BY <2>1, <2>2, <2>3, <3>3 DEF PlaceInv, PhasePlace, Early
    <3> QED
      BY <2>1, <2>3, <2>4, <3>1, <3>5, <3>6, OneMoves
  <2> QED
    BY <2>5, <2>6, <2>7, ActorFacts
<1> QED
  BY <1>1, <1>2, <1>3, <1>4, <1>5

\* A capture that has started is past its steps, and one that failed is idle.
LEMMA StartedFacts ==
    ASSUME SettingsTypeOK, PlaceInv, Started
    PROVE  cap \in Captures /\ step[cap] \in {"done"} \cup RunSteps /\ phase # "idle"
<1>1. phase # "idle"
  BY DEF Started
<1>2. cap \in Captures
  BY <1>1, CapFacts DEF PlaceInv, PhasePlace
<1> QED
  BY <1>1, <1>2 DEF Started, PlaceInv, PhasePlace

\* The task that sets the values again begins with a namespace.
LEMMA ElapsedPlace ==
    ASSUME SettingsTypeOK, PlaceInv, Elapsed PROVE PlaceInv'
<1>1. phase' = phase /\ cap' = cap /\ index' = index /\ tries' = tries
  BY DEF Elapsed, sessionVars, filterVars
<1>2. CASE UNCHANGED <<step, goal, gain>>
  BY <1>1, <1>2, PlaceSame
<1>3. CASE ~UNCHANGED <<step, goal, gain>>
  <2>1. /\ Started /\ step[Again(cap)] = "none"
        /\ step' = [step EXCEPT ![Again(cap)] = "runexp"]
        /\ goal' = [goal EXCEPT ![Again(cap)] = IF space = Nil THEN "default" ELSE space]
        /\ gain' = [gain EXCEPT ![Again(cap)] = asked]
    BY <1>3 DEF Elapsed, Goes
  <2>2. cap \in Captures
    BY <2>1, StartedFacts
  <2>3. PICK r \in Agains : r = Again(cap)
    BY <2>2, ActorFacts
  <2>4. r \in Actors /\ r # cap /\ r \notin Captures /\ r \notin Moves /\ -r = cap /\
           cap \in Actors
    BY <2>2, <2>3, ActorFacts DEF Again
  <2>5. /\ step'[r] = "runexp" /\ goal'[r] \in Spaces
        /\ \A b \in Actors : b # r =>
             step'[b] = step[b] /\ tries'[b] = tries[b] /\ goal'[b] = goal[b] /\
                gain'[b] = gain[b]
    BY <1>1, <2>1, <2>3, <2>4 DEF SettingsTypeOK, ActorTypes, SessionTypes, Spaces
  <2>6. CapturePlace(cap)'
    BY <1>1, <2>2, <2>3, <2>4, <2>5, CapFacts DEF PlaceInv, CapturePlace, Again, RunSteps
  <2>7. CapturePlace(-r)'
    <3>1. (-r)' = cap' /\ -r = cap
      BY <1>1, <2>4
    <3> QED
      BY <2>6, <3>1 DEF CapturePlace
  <2> QED
    BY <1>1, <2>3, <2>4, <2>5, <2>7, OneMoves
<1> QED
  BY <1>2, <1>3

\* Every step leaves each actor at a place there is.
LEMMA PlaceStep ==
    ASSUME SettingsTypeOK, PlaceInv, LastInv, SettingsNext
    PROVE  PlaceInv'
<1>1. CASE \E c \in Captures : Start(c) \/ Works(c)
  BY <1>1, StartPlace, ClientPlace DEF Works
<1>2. CASE \E m \in Moves : Selects(m) \/ \E f \in Wanted : Move(m, f)
  BY <1>2, ClientPlace
<1>3. ASSUME NEW a \in Actors, Does(a) \/ CannotSend(a) PROVE PlaceInv'
  <2>1. CASE CannotSend(a)
    BY <2>1, ClientPlace
  <2>2. CASE SendCommand(a)
    BY <2>2, PlaceSame DEF SendCommand, actorVars, sessionVars, filterVars
  <2>3. CASE TimesOut(a)
    <3>1. busy = a /\ busy # Nil /\ cap' = cap /\ Bad(busy, FALSE)
      BY <2>3, ActorFacts DEF TimesOut
    <3>2. Turns(a) /\ Leads(a)
      BY <3>1, BadTurns
    <3> QED
      BY <3>1, <3>2, TurnsPlace
  <2> QED
    BY <1>3, <2>1, <2>2, <2>3 DEF Does
<1>4. CASE Refused \/ ConnectWheel
  BY <1>4, PlaceSame DEF Refused, ConnectWheel, actorVars, filterVars, sessionVars
<1>5. CASE GetPosition
  <2>1. index' = pos /\ index' # Nil
    BY <1>5 DEF GetPosition
  <2> QED
    BY <1>5, <2>1, PlaceSame DEF GetPosition, actorVars, sessionVars
<1>6. CASE Answer
  <2>1. busy # Nil /\ cap' = cap
    BY <1>6 DEF Answer
  <2>2. PICK sure \in BOOLEAN, minus \in BOOLEAN : Ok(busy, sure) \/ Bad(busy, minus)
    <3>1. (Head(inn).cmd # "space" /\ ~Awaited(Tail(inn))) \in BOOLEAN /\
             (Head(inn).res = "minus") \in BOOLEAN
      OBVIOUS
    <3> QED
      BY <1>6, <3>1 DEF Answer
  <2>3. PICK a \in Actors : busy = a
    BY <2>1, BusyFacts
  <2>4. Turns(a) /\ Leads(a)
    BY <2>1, <2>2, <2>3, OkTurns, BadTurns
  <2> QED
    BY <2>1, <2>3, <2>4, TurnsPlace
<1>7. CASE Other
  <2>1. cap \in Captures /\ Started => step[cap] \in {"done"} \cup RunSteps
    BY StartedFacts
  <2>2. phase' = phase \/ (Started /\ phase' = "idle")
    BY <1>7 DEF Other
  <2> QED
    BY <1>7, <2>1, <2>2, PlaceSame DEF Other, actorVars, filterVars
<1>8. CASE Elapsed
  BY <1>8, ElapsedPlace
<1>9. CASE Ends
  <2>1. Started /\ phase' = "idle"
    BY <1>9 DEF Ends, Started
  <2> QED
    BY <1>9, <2>1, StartedFacts, PlaceSame DEF Ends, actorVars, sessionVars, filterVars
<1>10. CASE Restart
  <2>1. /\ step' = step /\ tries' = tries /\ goal' = goal /\ gain' = gain /\ cap' = cap /\
              phase' = phase
        /\ phase = "idle" /\ \A a \in Actors : step[a] \in {"none", "done", "failed"}
    BY <1>10 DEF Restart, actorVars, Idle
  <2>2. ASSUME NEW c \in Captures PROVE CapturePlace(c)'
    <3>1. step[c] \in {"none", "done", "failed"}
      BY <2>1, <2>2, ActorFacts
    <3> QED
      BY <2>1, <2>2, <3>1 DEF PlaceInv, CapturePlace, Early, AfterQuick
  <2>3. ASSUME NEW m \in Moves PROVE MovePlace(m)'
    BY <2>1, <2>3 DEF PlaceInv, MovePlace
  <2> QED
    BY <2>1, <2>2, <2>3 DEF PlaceInv, PhasePlace
<1>11. CASE Obeys \/ Loads
  BY <1>11, PlaceSame DEF Obeys, Loads, actorVars, sessionVars, filterVars
<1> QED
  BY <1>1, <1>2, <1>3, <1>4, <1>5, <1>6, <1>7, <1>8, <1>9, <1>10, <1>11 DEF SettingsNext

\* Every step keeps the types.
LEMMA TypesStep ==
    ASSUME SettingsTypeOK, PlaceInv, LastInv, SettingsNext
    PROVE  SettingsTypeOK'
<1>1. Types'
  BY ClientTypes, SentTypes, ReadTypes, OutsideTypes DEF SettingsNext, Works, Does
<1>2. PlaceInv'
  BY PlaceStep
<1> QED
  BY <1>1, <1>2 DEF Types, SettingsTypeOK, PlaceInv, PhasePlace, Early, AfterQuick, RunSteps

(***************************************************************************)
(* The command that is outstanding                                         *)
(***************************************************************************)

Holds(b) ==
    /\ busy' = busy
    /\ step'[b] = step[b] /\ tries'[b] = tries[b] /\ goal'[b] = goal[b] /\ gain'[b] = gain[b]

\* The actor whose command is outstanding waits for its answer.
LEMMA HolderSame ==
    ASSUME SettingsTypeOK, PlaceInv, LastInv, NEW b \in Actors, busy = b,
           SettingsNext, ~Answer, ~TimesOut(b)
    PROVE  Holds(b)
<1>1. ActorTypes /\ Sendable(b) /\ step[b] \notin {"none", "lock", "start", "done", "failed"} /\
         busy # Nil
  BY ActorFacts DEF SettingsTypeOK, LastInv, Sendable
<1>2. ASSUME NEW c \in Captures, Start(c) PROVE Holds(b)
  <2>1. c # b
    <3>1. c > cap
      BY <1>2, CapFacts DEF Start
    <3>2. step[c] = "none"
      BY <3>1 DEF PlaceInv, CapturePlace
    <3> QED
      BY <1>1, <3>2
  <2> QED
    BY <1>1, <1>2, <2>1, ActorFacts DEF Start, Holds, Goes, ActorTypes, wireVars
<1>3. ASSUME NEW c \in Captures, SelectsDefault(c) \/ SendStart(c) PROVE Holds(b)
  BY <1>1, <1>3, ActorFacts DEF SelectsDefault, SendStart, Holds, Goes, ActorTypes, wireVars
<1>4. ASSUME NEW m \in Moves, Selects(m) \/ \E f \in Wanted : Move(m, f) PROVE Holds(b)
  <2>1. m # b /\ m \in Actors
    BY <1>1, <1>4, ActorFacts DEF Selects, Move
  <2>2. CASE Selects(m)
    <3>1. (\E s \in Steps : step' = [step EXCEPT ![m] = s]) /\ tries' \in {tries,
             [tries EXCEPT ![m] = Candidates]}
          /\ goal' = goal /\ gain' = gain /\ busy' = busy
      BY <2>2 DEF Selects, Goes, Steps, wireVars
    <3> QED
      BY <1>1, <2>1, <3>1 DEF Holds, ActorTypes
  <2>3. CASE \E f \in Wanted : Move(m, f)
    BY <1>1, <2>1, <2>3 DEF Move, Holds, Goes, ActorTypes, wireVars
  <2> QED
    BY <1>4, <2>2, <2>3
<1>5. ASSUME NEW a \in Actors, Does(a) \/ CannotSend(a) PROVE Holds(b)
  <2>1. CASE Does(a)
    BY <1>1, <2>1 DEF Does, SendCommand, TimesOut
  <2>2. CASE CannotSend(a)
    <3>1. a # b /\ busy' = busy /\ goal' = goal /\ gain' = gain
          /\ tries' \in {tries, [tries EXCEPT ![a] = <<>>]}
      BY <2>2 DEF CannotSend, wireVars
    <3>2. \E s \in Steps : step' = [step EXCEPT ![a] = s]
      BY <2>2 DEF CannotSend, Runs, Fails, Goes, Steps
    <3> QED
      BY <1>1, <3>1, <3>2 DEF Holds, ActorTypes
  <2> QED
    BY <1>5, <2>1, <2>2
<1>6. CASE Refused \/ ConnectWheel \/ GetPosition \/ Other \/ Ends \/ Restart \/ Obeys \/ Loads
  BY <1>6 DEF Refused, ConnectWheel, GetPosition, Other, Ends, Restart, Obeys, Loads, Holds,
     actorVars, wireVars
<1>7. CASE Elapsed
  <2>1. CASE UNCHANGED <<step, goal, gain>>
    BY <1>7, <2>1 DEF Elapsed, Holds
  <2>2. CASE ~UNCHANGED <<step, goal, gain>>
    <3>1. /\ Again(cap) # b
          /\ step' = [step EXCEPT ![Again(cap)] = "runexp"]
          /\ goal' = [goal EXCEPT ![Again(cap)] = IF space = Nil THEN "default" ELSE space]
          /\ gain' = [gain EXCEPT ![Again(cap)] = asked]
      BY <1>1, <1>7, <2>2 DEF Elapsed, Goes
    <3> QED
      BY <1>1, <1>7, <3>1 DEF Elapsed, Holds, ActorTypes
  <2> QED
    BY <2>1, <2>2
<1> QED
  BY <1>2, <1>3, <1>4, <1>5, <1>6, <1>7 DEF SettingsNext, Works

\* It is no start, and is a filter's when the actor is at the filter.
LEMMA BusyCmd ==
    ASSUME SettingsTypeOK, PlaceInv, LastInv, NEW a \in Actors, busy = a
    PROVE  /\ Cmd(a) \in Commands /\ Cmd(a).cmd \in {"exp", "gain", "int", "quick"}
           /\ Cmd(a).cmd = "quick" <=> step[a] = "quick"
           /\ Cmd(a).cmd = "int" <=> step[a] \in FilterSteps \cup {"frames", "runframes"}
           /\ Cmd(a).cmd = "int" /\ Cmd(a).id \in IdSet <=> Selecting
<1>1. busy # Nil /\ Sendable(a) /\ step[a] # "start"
  BY ActorFacts, BusyFacts
<1>2. step[a] \in FilterSteps \cup {"exp", "exp2", "runexp", "gain", "gain2", "rungain",
         "frames", "runframes", "quick"}
  BY <1>1 DEF SettingsTypeOK, ActorTypes, Steps, Sendable, FilterSteps
<1>3. Selecting <=> step[a] \in FilterSteps
  BY <1>1 DEF Selecting, FilterSteps
<1>4. /\ Cmd(a) \in Commands
      /\ step[a] \in FilterSteps => Cmd(a).cmd = "int" /\ Cmd(a).id \in IdSet
      /\ step[a] \in {"exp", "exp2", "runexp"} => Cmd(a).cmd = "exp"
      /\ step[a] \in {"gain", "gain2", "rungain"} => Cmd(a).cmd = "gain"
      /\ step[a] \in {"frames", "runframes"} => Cmd(a).cmd = "int" /\ Cmd(a).id \notin IdSet
      /\ step[a] = "quick" => Cmd(a).cmd = "quick"
  BY <1>1, CmdFacts
<1> QED
  BY <1>2, <1>3, <1>4 DEF FilterSteps

\* What the wire becomes while it waits.
LEMMA OutSame ==
    ASSUME SettingsTypeOK, PlaceInv, LastInv, NEW b \in Actors, busy = b,
           SettingsNext, ~Answer, ~TimesOut(b)
    PROVE  \/ out' = out
           \/ Obeys /\ out # <<>> /\ out' = Tail(out)
           \/ Ends /\ out' = [i \in 1..Len(out) |-> IF out[i].cmd = "start" THEN [out[i] EXCEPT !.of = 0]
                                                    ELSE out[i]]
<1>1. busy # Nil /\ Sendable(b)
  BY ActorFacts, BusyFacts
<1>2. ASSUME NEW a \in Actors, Does(a) PROVE FALSE
  BY <1>1, <1>2 DEF Does, SendCommand, TimesOut
<1>3. ASSUME NEW c \in Captures, SendStart(c) PROVE FALSE
  BY <1>1, <1>3 DEF SendStart
<1>4. Restart => FALSE
  BY <1>1 DEF Restart, Idle, Sendable
<1>5. CASE Obeys
  BY <1>5 DEF Obeys
<1>6. CASE Ends
  BY <1>6 DEF Ends
<1>7. CASE ~Obeys /\ ~Ends
  BY <1>2, <1>3, <1>4, <1>7 DEF SettingsNext, Works, Start, SelectsDefault, Selects, Move,
     CannotSend, Refused, ConnectWheel, GetPosition, Other, Elapsed, Loads, wireVars
<1> QED
  BY <1>5, <1>6, <1>7

\* The command sent last stays the last.
LEMMA LastStep ==
    ASSUME SettingsTypeOK, PlaceInv, LastInv, SettingsNext
    PROVE  LastInv'
<1>0. out \in Seq(Commands)
  BY DEF SettingsTypeOK, WireTypes
<1>1. CASE busy # Nil /\ ~Answer /\ ~TimesOut(busy)
  <2>1. PICK b \in Actors : busy = b
    BY <1>1, BusyFacts
  <2>2. Holds(b) /\ ~TimesOut(b)
    BY <1>1, <2>1, HolderSame
  <2>3. Sendable(b) /\ step[b] # "start" /\ (out # <<>> => out[Len(out)] = Cmd(b))
    BY <1>1, <2>1 DEF LastInv
  <2>4. Cmd(b)' = Cmd(b) /\ busy' = b
    BY <2>1, <2>2, <2>3, CmdSame DEF Holds
  <2>5. Sendable(b)' /\ step'[b] # "start"
    BY <2>2, <2>3 DEF Holds, Sendable
  <2>6. out' # <<>> => out'[Len(out')] = Cmd(b)
    <3>1. CASE out' = out
      BY <2>3, <3>1
    <3>2. CASE out # <<>> /\ out' = Tail(out)
      <4>1. out' # <<>> => Len(out') \in 1..Len(out') /\ Len(out') = Len(out) - 1 /\
               Len(out) \in Nat
        BY <1>0, <3>2, QueueFacts
      <4>2. out' # <<>> => out'[Len(out')] = out[Len(out') + 1]
        BY <1>0, <3>2, <4>1, QueueFacts
      <4>3. out' # <<>> => Len(out') + 1 = Len(out)
        BY <4>1
      <4> QED
        BY <2>3, <3>2, <4>2, <4>3
    <3>3. CASE out' = [i \in 1..Len(out) |-> IF out[i].cmd = "start" THEN [out[i] EXCEPT !.of = 0]
                                             ELSE out[i]]
      <4>1. Len(out) \in Nat /\ Len(out') = Len(out)
        BY <1>0, <3>3, LenProperties
      <4>2. CASE out = <<>>
        BY <1>0, <3>3, <4>1, <4>2, EmptySeq
      <4>3. CASE out # <<>>
        <5>1. Len(out) \in 1..Len(out)
          BY <1>0, <4>3, QueueFacts
        <5>2. Cmd(b).cmd # "start"
          BY <2>1, BusyCmd
        <5> QED
          BY <2>3, <3>3, <4>1, <4>3, <5>1, <5>2
      <4> QED
        BY <4>2, <4>3
    <3> QED
      BY <1>1, <2>1, <2>2, <3>1, <3>2, <3>3, OutSame
  <2> QED
    BY <2>4, <2>5, <2>6 DEF LastInv
<1>2. CASE Answer \/ TimesOut(busy)
  BY <1>2 DEF Answer, TimesOut, LastInv
<1>3. CASE busy = Nil /\ \E a \in Actors : SendCommand(a)
  <2>1. PICK a \in Actors : SendCommand(a)
    BY <1>3
  <2>2. Sendable(a) /\ step[a] # "start" /\ busy' = a /\ out' = Append(out, Cmd(a)) /\
           UNCHANGED actorVars
    BY <2>1 DEF SendCommand
  <2>3. Cmd(a) \in Commands /\ Cmd(a)' = Cmd(a)
    BY <2>2, CmdFacts, CmdSame DEF actorVars
  <2>4. out'[Len(out')] = Cmd(a)
    BY <1>0, <2>2, <2>3, AppendFacts
  <2> QED
    BY <2>2, <2>3, <2>4 DEF LastInv, Sendable, actorVars
<1>4. CASE busy = Nil /\ ~Answer /\ ~\E a \in Actors : SendCommand(a)
  <2>1. busy' = Nil
    <3>1. \A a \in Actors : ~TimesOut(a)
      BY <1>4, ActorFacts DEF TimesOut
    <3> QED
      BY <1>4, <3>1 DEF SettingsNext, Works, Does, Start, SelectsDefault, SendStart, Selects,
         Move, CannotSend, Refused, ConnectWheel, GetPosition, Other, Elapsed, Ends, Restart,
         Obeys, Loads, wireVars
  <2> QED
    BY <2>1 DEF LastInv
<1> QED
  BY <1>1, <1>2, <1>3, <1>4

(***************************************************************************)
(* The filter                                                              *)
(***************************************************************************)

\* What the device says when it has loaded its presets a second time.
LEMMA LoadsInn ==
    ASSUME SettingsTypeOK, Loads
    PROVE  /\ Len(inn) \in Nat /\ Len(inn') \in Nat /\ inn' \in Seq(Inputs) /\
                 Len(inn') >= Len(inn)
           /\ \A i \in Unread : inn'[i] = inn[i] /\ i \in 1..Len(inn')
           /\ \A i \in 1..Len(inn') : i \notin Unread =>
                  \/ inn'[i] = [cmd |-> "elapsed", res |-> own] /\ i = Len(inn')
                  \/ /\ inn'[i] = [cmd |-> "space", res |-> own] /\ supports
                     /\ i = Len(inn) + 1 /\ Len(inn') = Len(inn) + 2
           /\ supports => inn'[Len(inn) + 1] = [cmd |-> "space", res |-> own] /\
                 Len(inn') = Len(inn) + 2
           /\ ~supports => Len(inn') = Len(inn) + 1
<1> DEFINE sp == [cmd |-> "space", res |-> own]
           el == [cmd |-> "elapsed", res |-> own]
<1>1. sp \in Inputs /\ el \in Inputs /\ inn \in Seq(Inputs)
  BY DEF SettingsTypeOK, DeviceTypes, WireTypes, Inputs
<1>2. CASE supports
  <2>1. inn' = Append(inn, sp) \o <<el>>
    BY <1>2 DEF Loads
  <2>2. inn' = Append(Append(inn, sp), el)
    BY <1>1, <2>1
  <2>3. Append(inn, sp) \in Seq(Inputs)
    BY <1>1, AppendFacts
  <2> QED
    BY <1>1, <1>2, <2>2, <2>3, AppendFacts DEF Unread
<1>3. CASE ~supports
  <2>1. inn' = inn \o <<el>>
    BY <1>3 DEF Loads
  <2>2. inn' = Append(inn, el)
    BY <1>1, <2>1
  <2> QED
    BY <1>1, <1>3, <2>2, AppendFacts DEF Unread
<1> QED
  BY <1>2, <1>3

\* What the device does with the command it takes.
LEMMA ObeysFacts ==
    ASSUME SettingsTypeOK, Obeys
    PROVE  /\ out # <<>> /\ out[1] \in Commands /\ out' = Tail(out) /\ out' \in Seq(Commands)
           /\ Len(out) \in Nat /\ Len(out) >= 1 /\ Len(out') = Len(out) - 1 /\ 1 \in Queued
           /\ \A i \in 1..Len(out') : out'[i] = out[i + 1] /\ i + 1 \in Queued /\ i \in Int
           /\ \E res \in {"ok", "no", "minus"} :
                /\ inn' = Append(inn, [cmd |-> out[1].cmd, res |-> res])
                /\ out[1].cmd = "int" /\ out[1].id \in IdSet =>
                      (res = "ok" => wheel' = out[1].val)
                /\ out[1].cmd = "start" =>
                      \/ /\ shot' = out[1].of /\ stage' = "start" /\ res = "ok"
                         /\ \E run \in Stored : dev' = [dev EXCEPT !.run = run]
                      \/ res = "no" /\ UNCHANGED <<dev, wheel, shot, stage>>
           /\ Len(inn) \in Nat /\ Len(inn') = Len(inn) + 1 /\ inn' \in Seq(Inputs)
           /\ \A i \in Unread : inn'[i] = inn[i] /\ i \in 1..Len(inn')
           /\ \A i \in 1..Len(inn') : i \in Unread \/ i = Len(inn')
           /\ inn'[Len(inn')].cmd = out[1].cmd
           /\ out[1].cmd # "start" => UNCHANGED <<shot, stage>>
           /\ out[1].cmd \notin Params \cup {"quick", "start"} => dev' = dev
           /\ out[1].cmd \in Params =>
                 dev' = IF supports /\
                    out[1].id = own THEN [dev EXCEPT !.run[out[1].cmd] = out[1].val] ELSE dev
           /\ out[1].cmd = "quick" =>
                 dev' = [dev EXCEPT !.quick = [exp |-> out[1].of, gain |-> out[1].val]]
           /\ wheel' = wheel \/ (out[1].cmd = "int" /\ out[1].id \in IdSet) \/
                 (out[1].cmd = "start" /\ wheel' = out[1].val)
<1> DEFINE c == out[1]
<1>1. out # <<>> /\ out \in Seq(Commands) /\ inn \in Seq(Inputs) /\ out' = Tail(out)
  BY DEF Obeys, SettingsTypeOK, WireTypes
<1>2. Head(out) = c /\ c \in Commands
  BY <1>1, QueueFacts
<1>3. c.cmd \in Params \cup {"int", "quick", "start"}
  BY <1>2 DEF Commands, Params
<1>4. \E res \in {"ok", "no", "minus"} :
                /\ inn' = Append(inn, [cmd |-> c.cmd, res |-> res])
                /\ c.cmd = "int" /\ c.id \in IdSet => (res = "ok" => wheel' = c.val)
                /\ c.cmd = "start" =>
                      \/ /\ shot' = c.of /\ stage' = "start" /\ res = "ok"
                         /\ \E run \in Stored : dev' = [dev EXCEPT !.run = run]
                      \/ res = "no" /\ UNCHANGED <<dev, wheel, shot, stage>>
  <2>1. CASE c.cmd \in Params
    BY <1>2, <2>1 DEF Obeys, Answers, Says, Params
  <2>2. CASE c.cmd = "int"
    BY <1>2, <2>2 DEF Obeys, Answers, Says, Params
  <2>3. CASE c.cmd = "quick"
    BY <1>2, <2>3 DEF Obeys, Answers, Says, Params
  <2>4. CASE c.cmd = "start"
    BY <1>2, <2>4 DEF Obeys, Answers, Says, Params
  <2> QED
    BY <1>3, <2>1, <2>2, <2>3, <2>4
<1>5. PICK res \in {"ok", "no", "minus"} : inn' = Append(inn, [cmd |-> c.cmd, res |-> res])
  BY <1>4
<1>6. [cmd |-> c.cmd, res |-> res] \in Inputs
  BY <1>3 DEF Inputs, Params
<1>7. /\ Len(inn) \in Nat /\ Len(inn') = Len(inn) + 1 /\ inn' \in Seq(Inputs)
      /\ \A i \in Unread : inn'[i] = inn[i] /\ i \in 1..Len(inn')
      /\ \A i \in 1..Len(inn') : i \in Unread \/ i = Len(inn')
      /\ inn'[Len(inn')] = [cmd |-> c.cmd, res |-> res]
  BY <1>1, <1>5, <1>6, AppendFacts DEF Unread
<1>8. /\ c.cmd # "start" => UNCHANGED <<shot, stage>>
      /\ c.cmd \notin Params \cup {"quick", "start"} => dev' = dev
      /\ c.cmd \in Params =>
            dev' = IF supports /\ c.id = own THEN [dev EXCEPT !.run[c.cmd] = c.val] ELSE dev
      /\ c.cmd = "quick" => dev' = [dev EXCEPT !.quick = [exp |-> c.of, gain |-> c.val]]
  BY <1>2, <1>3 DEF Obeys, Params
<1>9. wheel' = wheel \/ (c.cmd = "int" /\ c.id \in IdSet) \/ (c.cmd = "start" /\ wheel' = c.val)
  BY <1>2, <1>3, IdFacts DEF Obeys, Params
<1>10. /\ out' \in Seq(Commands) /\ Len(out) \in Nat /\ Len(out) >= 1 /\
             Len(out') = Len(out) - 1 /\ 1 \in Queued
       /\ \A i \in 1..Len(out') : out'[i] = out[i + 1] /\ i + 1 \in Queued /\ i \in Int
  BY <1>1, QueueFacts DEF Queued
<1> QED
  BY <1>1, <1>2, <1>4, <1>7, <1>8, <1>9, <1>10

\* What the session reads, it takes from the front.
LEMMA ReadFacts ==
    ASSUME SettingsTypeOK, Answer \/ Other \/ Elapsed
    PROVE  /\ inn # <<>> /\ Head(inn) = inn[1] /\ 1 \in Unread /\ inn[1] \in Inputs
           /\ inn' = Tail(inn) /\ Len(inn) \in Nat /\ Len(inn) >= 1 /\ Len(inn') = Len(inn) - 1
           /\ \A i \in 1..Len(inn') : inn'[i] = inn[i + 1] /\ i + 1 \in Unread /\ i \in Int /\
                 i >= 1
           /\ \A i \in Unread : i \in Int /\ i >= 1
                 /\ (i # 1 => i - 1 \in 1..Len(inn') /\ inn'[i - 1] = inn[i])
           /\ out' = out /\ UNCHANGED deviceVars
<1>1. inn # <<>> /\ inn \in Seq(Inputs) /\ inn' = Tail(inn) /\ out' = out /\ UNCHANGED deviceVars
  BY DEF Answer, Other, Elapsed, Reads, SettingsTypeOK, WireTypes
<1>2. /\ Head(inn) = inn[1] /\ inn[1] \in Inputs /\ 1 \in Unread /\ Len(inn) \in Nat /\
            Len(inn) >= 1
      /\ Len(inn') = Len(inn) - 1
      /\ \A i \in 1..Len(inn') : inn'[i] = inn[i + 1] /\ i + 1 \in Unread /\ i \in Int
  BY <1>1, QueueFacts DEF Unread
<1>3. \A i \in Unread : i \in Int /\ i >= 1 /\ (i # 1 => i - 1 \in 1..Len(inn') /\
         (i - 1) + 1 = i)
  BY <1>2 DEF Unread
<1>4. \A i \in 1..Len(inn') : i >= 1
  BY <1>2
<1>5. \A i \in Unread : i # 1 => inn'[i - 1] = inn[i]
  BY <1>2, <1>3
<1> QED
  BY <1>1, <1>2, <1>3, <1>4, <1>5

\* Which steps change the queues.
LEMMA InnSame ==
    ASSUME SettingsNext
    PROVE  \/ inn' = inn \/ Answer \/ Other \/ Elapsed \/ Obeys \/ Loads \/ Restart
           \/ \E a \in Actors : TimesOut(a)
  BY DEF SettingsNext, Works, Does, Start, SelectsDefault, SendStart, SendCommand, Selects,
     Move, CannotSend, Refused, ConnectWheel, GetPosition, Ends, wireVars

\* The device changes when it carries out a command, loads presets or stops.
LEMMA DeviceSame ==
    ASSUME SettingsNext, ~Obeys
    PROVE  /\ wheel' = wheel /\ own' = own /\ mini' = mini /\ supports' = supports
           /\ ~Loads => dev' = dev /\ stage' = stage
           /\ shot' = shot \/ Ends \/ Restart
  BY DEF SettingsNext, Works, Does, Start, SelectsDefault, SendStart, SendCommand, Selects,
     Move, CannotSend, Refused, ConnectWheel, GetPosition, Answer, Other, Elapsed, TimesOut,
     Ends, Restart, Loads, deviceVars

\* Every step keeps a filter's answer the last of the integers'.
LEMMA FilterStep ==
    ASSUME SettingsTypeOK, PlaceInv, LastInv, FilterInv, SettingsNext
    PROVE  FilterInv'
<1> SUFFICES ASSUME Selecting', out' = <<>>
             PROVE  \E i \in Unread' :
                       /\ inn'[i].cmd = "int" /\ \A j \in Unread' : j > i => inn'[j].cmd # "int"
                       /\ inn'[i].res = "ok" => wheel' = goal'[busy']
  BY DEF FilterInv
<1>1. busy' # Nil
  BY DEF Selecting
<1>2. busy # Nil /\ ~Answer /\ ~TimesOut(busy)
  <2>1. ~Answer /\ ~\E a \in Actors : TimesOut(a)
    BY <1>1 DEF Answer, TimesOut
  <2>2. ~\E a \in Actors : SendCommand(a)
    <3> SUFFICES ASSUME NEW a \in Actors, SendCommand(a) PROVE FALSE
      OBVIOUS
    <3>1. out' = Append(out, Cmd(a)) /\ out \in Seq(Commands) /\ Cmd(a) \in Commands
      BY CmdFacts DEF SendCommand, SettingsTypeOK, WireTypes
    <3> QED
      BY <3>1, AppendFacts
  <2>3. busy' = busy
    BY <2>1, <2>2 DEF SettingsNext, Works, Does, Start, SelectsDefault, SendStart, Selects,
       Move, CannotSend, Refused, ConnectWheel, GetPosition, Other, Elapsed, Ends, Restart,
       Obeys, Loads, wireVars
  <2>4. busy \in Actors
    BY <1>1, <2>3 DEF SettingsTypeOK, WireTypes
  <2> QED
    BY <1>1, <2>1, <2>3, <2>4
<1>3. PICK b \in Actors : busy = b
  BY <1>2, BusyFacts
<1>4. Holds(b) /\ Sendable(b)
  BY <1>2, <1>3, HolderSame, BusyFacts
<1>5. Selecting /\ step[b] \in FilterSteps /\ goal'[busy'] = goal[b] /\ busy' = b
  BY <1>2, <1>3, <1>4 DEF Selecting, Holds, FilterSteps
<1>6. Cmd(b).cmd = "int" /\ Cmd(b).id \in IdSet /\ Cmd(b).val = goal[b]
  BY <1>4, <1>5, CmdFacts
<1>7. CASE Obeys
  <2>1. Len(out') = 0 /\ Len(out) = 1
    BY <1>7, ObeysFacts, EmptySeq
  <2>2. out[1] = Cmd(b)
    BY <1>2, <1>3, <1>7, <2>1, ObeysFacts DEF LastInv
  <2>3. PICK res : /\ inn' = Append(inn, [cmd |-> "int", res |-> res])
                   /\ res = "ok" => wheel' = goal[b]
    BY <1>6, <1>7, <2>2, ObeysFacts
  <2>4. Len(inn') \in Unread' /\ inn'[Len(inn')] = [cmd |-> "int", res |-> res]
        /\ \A j \in Unread' : ~(j > Len(inn'))
    <3>1. inn \in Seq(Inputs) /\ Len(inn) \in Nat /\ Len(inn') = Len(inn) + 1
      BY <1>7, ObeysFacts DEF SettingsTypeOK, WireTypes
    <3>2. inn'[Len(inn) + 1] = [cmd |-> "int", res |-> res]
      BY <2>3, <3>1
    <3> QED
      BY <3>1, <3>2 DEF Unread
  <2> QED
    BY <1>5, <2>3, <2>4
<1>8. CASE ~Obeys
  <2>1. out = <<>>
    <3>1. out' = out \/ (Ends /\ out' = [i \in 1..Len(out) |-> IF out[i].cmd = "start"
                                           THEN [out[i] EXCEPT !.of = 0] ELSE out[i]])
      BY <1>2, <1>3, <1>8, OutSame
    <3>2. out \in Seq(Commands) /\ Len(out) \in Nat
      BY LenProperties DEF SettingsTypeOK, WireTypes
    <3>3. Ends /\ out' = [i \in 1..Len(out) |-> IF out[i].cmd = "start"
                                           THEN [out[i] EXCEPT !.of = 0] ELSE out[i]] =>
                                              Len(out') = Len(out)
      BY <3>2
    <3>4. Len(out) = 0
      BY <3>1, <3>3, EmptySeq
    <3> QED
      BY <3>2, <3>4, EmptySeq
  <2>2. PICK i \in Unread : /\ inn[i].cmd = "int" /\ \A j \in Unread : j > i => inn[j].cmd # "int"
                            /\ inn[i].res = "ok" => wheel = goal[b]
    BY <1>3, <1>5, <2>1 DEF FilterInv
  <2>3. wheel' = wheel
    BY <1>8, DeviceSame
  <2>4. CASE inn' = inn
    BY <1>5, <2>2, <2>3, <2>4 DEF Unread
  <2>5. CASE Other \/ Elapsed
    <3>1. i # 1
      <4>1. inn[1].cmd # "int"
        BY <1>2, <1>3, <1>6, <2>5, ReadFacts DEF Other, Elapsed
      <4> QED
        BY <2>2, <4>1
    <3>2. i - 1 \in Unread' /\ inn'[i - 1] = inn[i] /\ i \in Int
      BY <2>5, <3>1, ReadFacts DEF Unread
    <3>3. ASSUME NEW j \in Unread', j > i - 1 PROVE inn'[j].cmd # "int"
      <4>1. j \in 1..Len(inn')
        BY DEF Unread
      <4>2. inn'[j] = inn[j + 1] /\ j + 1 \in Unread /\ j \in Int
        BY <2>5, <4>1, ReadFacts
      <4>3. j + 1 > i
        BY <3>2, <3>3, <4>2
      <4> QED
        BY <2>2, <4>2, <4>3
    <3> QED
      BY <1>5, <2>2, <2>3, <3>2, <3>3
  <2>6. CASE Loads
    <3>1. i \in Unread' /\ inn'[i] = inn[i]
      BY <2>6, LoadsInn DEF Unread
    <3>2. ASSUME NEW j \in Unread', j > i PROVE inn'[j].cmd # "int"
      <4>1. CASE j \in Unread
        BY <2>2, <2>6, <3>2, <4>1, LoadsInn
      <4>2. CASE j \notin Unread
        BY <2>6, <4>2, LoadsInn DEF Unread
      <4> QED
        BY <4>1, <4>2
    <3> QED
      BY <1>5, <2>2, <2>3, <3>1, <3>2
  <2>7. ~Restart /\ ~\E a \in Actors : TimesOut(a)
    BY <1>2, <1>3, <1>4 DEF Restart, Idle, Sendable, TimesOut
  <2> QED
    BY <1>2, <1>8, <2>4, <2>5, <2>6, <2>7, InnSame
<1> QED
  BY <1>7, <1>8

\* An answer that is the device's own for the filter: nothing else is on its way.
LEMMA SureFacts ==
    ASSUME SettingsTypeOK, PlaceInv, LastInv, FilterInv, Selecting, Answer, ~doubt'
    PROVE  out = <<>> /\ index' = goal[busy] /\ wheel = goal[busy]
<1>1. PICK b \in Actors : busy = b
  BY BusyFacts DEF Answer
<1>2. Sendable(b) /\ step[b] \in FilterSteps /\ step[b] \notin RunSteps /\ busy # Nil
  BY <1>1, BusyFacts, ActorFacts DEF Selecting, FilterSteps, RunSteps
<1>3. Cmd(b).cmd = "int"
  BY <1>2, CmdFacts
<1> DEFINE m == Head(inn)
           sure == m.cmd # "space" /\ ~Awaited(Tail(inn))
<1>4. sure \in BOOLEAN
  OBVIOUS
<1>5. m.res \notin {"no", "minus"} /\ Ok(busy, sure)
  <2>1. CASE Bad(busy, m.res = "minus")
    <3>1. (m.res = "minus") \in BOOLEAN
      OBVIOUS
    <3>2. Tells(busy, FALSE)
      BY <1>2, <2>1, <3>1, BadTurns
    <3> QED
      BY <1>1, <1>2, <3>2 DEF Tells
  <2> QED
    BY <2>1 DEF Answer
<1>6. sure /\ index' = goal[busy]
  <2>1. Tells(busy, sure)
    BY <1>2, <1>4, <1>5, OkTurns
  <2> QED
    BY <1>1, <1>2, <2>1 DEF Tells
<1>7. m.cmd = "int"
  BY <1>1, <1>3, <1>6 DEF Answer
<1>8. out = <<>>
  <2> SUFFICES ASSUME out # <<>> PROVE FALSE
    OBVIOUS
  <2>1. out[Len(out)] = Cmd(b)
    BY <1>1, <1>2 DEF LastInv
  <2>2. Len(out) \in 1..Len(out)
    BY QueueFacts DEF SettingsTypeOK, WireTypes
  <2> QED
    BY <1>3, <1>6, <2>1, <2>2 DEF Awaited
<1>9. PICK i \in Unread : /\ inn[i].cmd = "int"
                          /\ inn[i].res = "ok" => wheel = goal[busy]
  BY <1>8 DEF FilterInv
<1>10. i = 1
  <2> SUFFICES ASSUME i # 1 PROVE FALSE
    OBVIOUS
  <2>1. i - 1 \in 1..Len(Tail(inn)) /\ Tail(inn)[i - 1] = inn[i]
    BY ReadFacts
  <2> QED
    BY <1>6, <1>9, <2>1 DEF Awaited
<1>11. m = inn[1] /\ inn[1] \in Inputs
  BY ReadFacts
<1>12. inn[1].res = "ok"
  BY <1>5, <1>7, <1>11 DEF Inputs
<1> QED
  BY <1>6, <1>8, <1>9, <1>10, <1>12

\* What is written of the filter, when the filter is sure.
Written1(c, f) ==
    /\ c.cmd = "int" => c.id \notin IdSet
    /\ c.cmd = "start" => c.val = f

\* Every step keeps the selected filter that of the wheel, when it is confirmed.
LEMMA WheelStep ==
    ASSUME SettingsTypeOK, PlaceInv, LastInv, FilterInv, WheelInv, SettingsNext
    PROVE  WheelInv'
<1> SUFFICES ASSUME ~mini', index' # Nil, ~doubt', ~Selecting'
             PROVE  wheel' = index' /\ \A i \in Queued' : Written1(out'[i], index')
  BY DEF WheelInv, Written1
<1>1. ~mini
  BY DeviceSame DEF Obeys
<1>2. CASE Selecting
  <2>1. PICK b \in Actors : busy = b
    BY <1>2, BusyFacts DEF Selecting
  <2>2. Answer \/ TimesOut(b)
    <3>1. Holds(b) => Selecting'
      BY <1>2, <2>1 DEF Holds, Selecting
    <3> QED
      BY <2>1, <3>1, HolderSame
  <2>3. ~TimesOut(b)
    <3> SUFFICES ASSUME TimesOut(b) PROVE FALSE
      OBVIOUS
    <3>1. Bad(busy, FALSE) /\ busy # Nil
      BY <1>2, <2>1 DEF TimesOut, Selecting
    <3>2. Tells(busy, FALSE)
      BY <3>1, BadTurns
    <3> QED
      BY <1>2, <3>2 DEF Tells, Selecting, FilterSteps
  <2>4. out = <<>> /\ index' = goal[busy] /\ wheel = goal[busy]
    BY <1>2, <2>2, <2>3, SureFacts
  <2>5. wheel' = wheel /\ out' = <<>>
    BY <2>2, <2>3, <2>4, ReadFacts DEF deviceVars
  <2>6. Queued' = {}
    BY <2>5, EmptySeq DEF Queued
  <2> QED
    BY <2>4, <2>5, <2>6
<1>3. CASE ~Selecting
  <2>1. index # Nil /\ ~doubt /\ index' = index
    <3>1. CASE Answer \/ \E a \in Actors : TimesOut(a)
      <4>1. PICK sure \in BOOLEAN : Tells(busy, sure)
        <5>1. CASE Answer
          <6>1. PICK sure \in BOOLEAN, minus \in BOOLEAN : Ok(busy, sure) \/ Bad(busy, minus)
            <7>1. (Head(inn).cmd # "space" /\ ~Awaited(Tail(inn))) \in BOOLEAN /\
                     (Head(inn).res = "minus") \in BOOLEAN
              OBVIOUS
            <7> QED
              BY <5>1, <7>1 DEF Answer
          <6>2. busy # Nil
            BY <5>1 DEF Answer
          <6> QED
            BY <6>1, <6>2, OkTurns, BadTurns
        <5>2. CASE \E a \in Actors : TimesOut(a)
          <6>1. busy # Nil /\ Bad(busy, FALSE)
            BY <5>2, ActorFacts DEF TimesOut
          <6> QED
            BY <6>1, BadTurns
        <5> QED
          BY <3>1, <5>1, <5>2
      <4>2. busy # Nil
        BY <3>1, ActorFacts DEF Answer, TimesOut
      <4> QED
        BY <1>3, <4>1, <4>2 DEF Tells, Selecting, FilterSteps
    <3>2. CASE \E m \in Moves : Selects(m)
      <4>1. PICK m \in Moves : Selects(m)
        BY <3>2
      <4>2. goal[m] # Nil
        BY <4>1, IdFacts DEF Selects, PlaceInv, MovePlace
      <4> QED
        BY <1>1, <4>1, <4>2 DEF Selects
    <3>3. CASE \E c \in Captures : Start(c)
      BY <1>1, <3>3 DEF Start
    <3>4. CASE Restart \/ GetPosition
      BY <3>4 DEF Restart, GetPosition
    <3>5. CASE /\ ~Answer /\ ~\E a \in Actors : TimesOut(a)
               /\ ~\E m \in Moves : Selects(m)
               /\ ~\E c \in Captures : Start(c)
               /\ ~Restart /\ ~GetPosition
      BY <3>5 DEF SettingsNext, Works, Does, SelectsDefault, SendStart, SendCommand, Move,
         CannotSend, Refused, ConnectWheel, Other, Elapsed, Ends, Obeys, Loads, filterVars
    <3> QED
      BY <3>1, <3>2, <3>3, <3>4, <3>5
  <2>2. wheel = index /\ \A i \in Queued : Written1(out[i], index)
    BY <1>1, <1>3, <2>1 DEF WheelInv, Written1
  <2>3. out \in Seq(Commands) /\ Len(out) \in Nat
    BY LenProperties DEF SettingsTypeOK, WireTypes
  <2>4. CASE Obeys
    <3>1. Written1(out[1], index)
      BY <2>2, <2>4, ObeysFacts
    <3>2. wheel' = wheel
      BY <2>2, <2>4, <3>1, ObeysFacts DEF Written1
    <3>3. \A i \in Queued' : out'[i] = out[i + 1] /\ i + 1 \in Queued
      BY <2>4, ObeysFacts DEF Queued
    <3> QED
      BY <2>1, <2>2, <3>2, <3>3
  <2>5. CASE ~Obeys
    <3>1. wheel' = wheel
      BY <2>5, DeviceSame
    <3>2. \A i \in Queued' : Written1(out'[i], index)
      <4>1. CASE out' = out
        BY <2>2, <4>1 DEF Queued
      <4>2. CASE out' = <<>>
        BY <4>2, EmptySeq DEF Queued
      <4>3. CASE \E a \in Actors : SendCommand(a)
        <5>1. PICK a \in Actors : SendCommand(a)
          BY <4>3
        <5>2. Cmd(a) \in Commands /\ out' = Append(out, Cmd(a)) /\ Sendable(a) /\
                 step[a] # "start" /\ busy' = a
              /\ step' = step /\ a # Nil
          BY <5>1, CmdFacts, ActorFacts DEF SendCommand, actorVars
        <5>3. step[a] \notin FilterSteps
          BY <5>2 DEF Selecting, FilterSteps
        <5>4. Written1(Cmd(a), index)
          <6>1. step[a] \in {"exp", "exp2", "runexp", "gain", "gain2", "rungain", "frames",
                   "runframes", "quick"}
            BY <5>2, <5>3 DEF SettingsTypeOK, ActorTypes, Steps, Sendable, FilterSteps
          <6> QED
            BY <5>2, <6>1, CmdFacts DEF Written1
        <5>5. \A i \in Queued' : out'[i] = Cmd(a) \/ (i \in Queued /\ out'[i] = out[i])
          BY <2>3, <5>2, AppendFacts DEF Queued
        <5> QED
          BY <2>2, <5>4, <5>5
      <4>4. CASE \E c \in Captures : SendStart(c)
        <5>1. PICK c \in Captures : SendStart(c)
          BY <4>4
        <5>2. Sendable(c) /\ c \in Actors /\ step[c] = "start" /\ out' = Append(out, Cmd(c))
          BY <5>1, ActorFacts DEF SendStart, Sendable
        <5>3. Cmd(c) \in Commands /\ Written1(Cmd(c), index)
          BY <5>2, CmdFacts DEF Written1
        <5>4. \A i \in Queued' : out'[i] = Cmd(c) \/ (i \in Queued /\ out'[i] = out[i])
          BY <2>3, <5>2, <5>3, AppendFacts DEF Queued
        <5> QED
          BY <2>2, <5>3, <5>4
      <4>5. CASE Ends
        <5>1. out' = [i \in 1..Len(out) |-> IF out[i].cmd = "start" THEN [out[i] EXCEPT !.of = 0] ELSE out[i]]
          BY <4>5 DEF Ends
        <5>2. Len(out') = Len(out)
          BY <2>3, <5>1
        <5>3. ASSUME NEW i \in Queued' PROVE Written1(out'[i], index)
          <6>1. i \in Queued /\ out[i] \in Commands
            BY <2>3, <5>2, LenProperties DEF Queued
          <6>2. out'[i].cmd = out[i].cmd /\ out'[i].id = out[i].id /\ out'[i].val = out[i].val
            BY <5>1, <6>1 DEF Queued, Commands
          <6> QED
            BY <2>2, <6>1, <6>2 DEF Written1
        <5> QED
          BY <5>3
      <4>6. out' = out \/ out' = <<>> \/ Ends \/ (\E a \in Actors : SendCommand(a)) \/
               \E c \in Captures : SendStart(c)
        BY <2>5 DEF SettingsNext, Works, Does, Start, SelectsDefault, Selects, Move,
           CannotSend, Refused, ConnectWheel, GetPosition, Answer, Other, Elapsed, TimesOut,
           Restart, Loads, wireVars
      <4> QED
        BY <4>1, <4>2, <4>3, <4>4, <4>5, <4>6
    <3> QED
      BY <2>1, <2>2, <3>1, <3>2
  <2> QED
    BY <2>4, <2>5
<1> QED
  BY <1>2, <1>3

(***************************************************************************)
(* The stored sequence                                                     *)
(***************************************************************************)

\* The wire after a step.
LEMMA OutCases ==
    ASSUME SettingsTypeOK, PlaceInv, SettingsNext
    PROVE  \/ out' = out
           \/ out' = <<>>
           \/ Obeys
           \/ Ends /\ Len(out') = Len(out) /\ out' \in Seq(Commands)
                   /\ \A i \in Queued : /\ out'[i].cmd = out[i].cmd /\ out'[i].id = out[i].id
                                        /\ out'[i].val = out[i].val
                                        /\ out[i].cmd = "start" => out'[i].of = 0
           \/ \E a \in Actors : /\ SendCommand(a) \/ (SendStart(a) /\ a \in Captures)
                                /\ Cmd(a) \in Commands /\ out' = Append(out, Cmd(a)) /\
                                      out' \in Seq(Commands)
                                /\ Len(out') = Len(out) + 1 /\ Len(out) \in Nat
                                /\ out'[Len(out) + 1] = Cmd(a)
                                /\ \A i \in Queued : out'[i] = out[i] /\ i \in Queued'
                                /\ \A i \in Queued' : i \in Queued \/ i = Len(out) + 1
<1>0. out \in Seq(Commands) /\ Len(out) \in Nat /\ \A i \in Queued : out[i] \in Commands
  BY LenProperties DEF SettingsTypeOK, WireTypes, Queued
<1>1. ASSUME NEW a \in Actors, SendCommand(a) \/ (SendStart(a) /\ a \in Captures)
      PROVE  /\ Cmd(a) \in Commands /\ out' = Append(out, Cmd(a)) /\ out' \in Seq(Commands)
             /\ Len(out') = Len(out) + 1 /\ Len(out) \in Nat
             /\ out'[Len(out) + 1] = Cmd(a)
             /\ \A i \in Queued : out'[i] = out[i] /\ i \in Queued'
             /\ \A i \in Queued' : i \in Queued \/ i = Len(out) + 1
  <2>1. Sendable(a) /\ out' = Append(out, Cmd(a))
    BY <1>1 DEF SendCommand, SendStart, Sendable
  <2>2. Cmd(a) \in Commands
    BY <2>1, CmdFacts
  <2> QED
    BY <1>0, <2>1, <2>2, AppendFacts DEF Queued
<1>2. CASE Ends
  <2>1. out' = [i \in 1..Len(out) |-> IF out[i].cmd = "start" THEN [out[i] EXCEPT !.of = 0] ELSE out[i]]
    BY <1>2 DEF Ends
  <2>2. Len(out') = Len(out)
    BY <1>0, <2>1
  <2>3. out' \in Seq(Commands)
    BY <1>2, OutsideTypes DEF Types, WireTypes
  <2>4. \A i \in Queued : /\ out'[i].cmd = out[i].cmd /\ out'[i].id = out[i].id
                          /\ out'[i].val = out[i].val
                          /\ out[i].cmd = "start" => out'[i].of = 0
    BY <1>0, <2>1 DEF Queued, Commands
  <2> QED
    BY <1>2, <2>2, <2>3, <2>4
<1>3. CASE ~Ends
  <2>1. out' = out \/ out' = <<>> \/ Obeys \/ (\E a \in Actors : SendCommand(a)) \/
           \E c \in Captures : SendStart(c)
    BY <1>3 DEF SettingsNext, Works, Does, Start, SelectsDefault, Selects, Move, CannotSend,
       Refused, ConnectWheel, GetPosition, Answer, Other, Elapsed, TimesOut, Restart, Loads,
       wireVars
  <2>2. \A c \in Captures : c \in Actors
    BY ActorFacts
  <2> QED
    BY <1>1, <2>1, <2>2
<1> QED
  BY <1>2, <1>3

\* Who waits for the stored sequence to be confirmed is the capture that starts.
LEMMA QuickActor ==
    ASSUME SettingsTypeOK, PlaceInv, LastInv, busy # Nil, step[busy] = "quick"
    PROVE  /\ busy = cap /\ cap \in Captures /\ phase = "busy" /\ gain[cap] = cap /\ ~Started
           /\ Cmd(busy) = [cmd |-> "quick", id |-> "live", val |-> cap, of |-> cap]
<1>1. busy \in Captures /\ busy \notin Agains
  BY BusyFacts, ActorFacts DEF FilterSteps, RunSteps
<1>2. busy = cap /\ phase = "busy"
  BY <1>1, BusyFacts DEF RunSteps
<1>3. gain[cap] = cap
  BY <1>1, <1>2 DEF PlaceInv, CapturePlace, Early
<1>4. ~Started
  BY <1>2 DEF Started, RunSteps
<1>5. Cmd(busy) = [cmd |-> "quick", id |-> "live", val |-> gain[busy], of |-> busy]
  BY <1>1, BusyFacts, CmdFacts
<1> QED
  BY <1>1, <1>2, <1>3, <1>4, <1>5

\* Its answer is not taken for another's, nor another's for it.
LEMMA QuickAnswer ==
    ASSUME SettingsTypeOK, PlaceInv, LastInv, Answer, step[busy] = "quick"
    PROVE  inn[1].cmd = "quick"
<1>1. busy # Nil
  BY DEF Answer
<1>2. Cmd(busy).cmd = "quick"
  BY <1>1, QuickActor
<1> QED
  BY <1>2, ReadFacts DEF Answer, Setting

\* Every step keeps the write of the stored sequence the last on its way.
LEMMA QuickSentStep ==
    ASSUME SettingsTypeOK, PlaceInv, LastInv, QuickInv, SettingsNext
    PROVE  QuickSent'
<1> SUFFICES ASSUME NEW i \in Queued', out'[i].cmd = "quick"
             PROVE  i = Len(out') /\ busy' # Nil /\ step'[busy'] = "quick"
  BY DEF QuickSent
<1>1. CASE \E a \in Actors : SendCommand(a)
  <2>1. PICK a \in Actors : SendCommand(a)
    BY <1>1
  <2>2. busy = Nil /\ busy' = a /\ a # Nil /\ step' = step /\ Sendable(a) /\ step[a] # "start"
        /\ out' = Append(out, Cmd(a))
    BY <2>1, ActorFacts DEF SendCommand, actorVars
  <2>3. \A j \in Queued : out[j].cmd # "quick"
    BY <2>2 DEF QuickInv, QuickSent
  <2>4. i = Len(out') /\ out'[i] = Cmd(a)
    <3>1. Cmd(a) \in Commands /\ out \in Seq(Commands)
      BY <2>2, CmdFacts DEF SettingsTypeOK, WireTypes
    <3> QED
      BY <2>2, <2>3, <3>1, AppendFacts DEF Queued
  <2>5. step[a] \in FilterSteps \cup {"exp", "exp2", "runexp", "gain", "gain2", "rungain",
           "frames", "runframes", "quick"}
    BY <2>2 DEF SettingsTypeOK, ActorTypes, Steps, Sendable, FilterSteps
  <2>6. step[a] = "quick"
    BY <2>2, <2>4, <2>5, CmdFacts DEF FilterSteps
  <2> QED
    BY <2>2, <2>4, <2>6
<1>2. CASE ~\E a \in Actors : SendCommand(a)
  <2>1. out' # <<>>
    BY EmptySeq DEF Queued
  <2>2. PICK j \in Queued : out[j].cmd = "quick" /\ (j = Len(out) => i = Len(out'))
    <3>1. CASE out' = out
      BY <3>1 DEF Queued
    <3>2. CASE Obeys
      <4>1. out'[i] = out[i + 1] /\ i + 1 \in Queued /\ i \in Int /\ (i + 1 = Len(out) =>
               i = Len(out'))
        BY <3>2, ObeysFacts DEF Queued
      <4> QED
        BY <4>1
    <3>3. CASE Ends /\ Len(out') = Len(out) /\ \A k \in Queued : out'[k].cmd = out[k].cmd
      BY <3>3 DEF Queued
    <3>4. CASE \E a \in Actors : /\ SendStart(a) /\ a \in Captures
                                 /\ Cmd(a) \in Commands /\ out' = Append(out, Cmd(a))
                                 /\ Len(out') = Len(out) + 1 /\ Len(out) \in Nat
                                 /\ out'[Len(out) + 1] = Cmd(a)
                                 /\ \A k \in Queued : out'[k] = out[k] /\ k \in Queued'
                                 /\ \A k \in Queued' : k \in Queued \/ k = Len(out) + 1
      <4>1. PICK a \in Captures : SendStart(a) /\ a \in Actors /\ out'[Len(out) + 1] = Cmd(a)
        BY <3>4
      <4>2. Sendable(a) /\ step[a] = "start" /\ busy = Nil
        BY <4>1 DEF SendStart, Sendable
      <4>3. Cmd(a).cmd = "start"
        BY <4>1, <4>2, CmdFacts
      <4>4. i \in Queued /\ out'[i] = out[i]
        BY <3>4, <4>1, <4>3
      <4> QED
        BY <4>2, <4>4 DEF QuickInv, QuickSent
    <3> QED
      BY <1>2, <2>1, <3>1, <3>2, <3>3, <3>4, OutCases
  <2>3. j = Len(out) /\ busy # Nil /\ step[busy] = "quick"
    BY <2>2 DEF QuickInv, QuickSent
  <2>4. PICK b \in Actors : busy = b
    BY <2>3, BusyFacts
  <2>5. ~Answer
    <3> SUFFICES ASSUME Answer PROVE FALSE
      OBVIOUS
    <3>1. inn[1].cmd = "quick" /\ 1 \in Unread
      BY <2>3, QuickAnswer, ReadFacts
    <3>2. out = <<>> /\ out' = out
      BY <3>1, ReadFacts DEF QuickInv, QuickAnswered
    <3> QED
      BY <2>1, <3>2
  <2>6. ~TimesOut(b)
    <3>1. Cmd(b).cmd # "int"
      BY <2>3, <2>4, QuickActor
    <3> QED
      BY <2>1, <3>1 DEF TimesOut
  <2>7. Holds(b)
    BY <2>4, <2>5, <2>6, HolderSame
  <2> QED
    BY <2>2, <2>3, <2>4, <2>7 DEF Holds
<1> QED
  BY <1>1, <1>2

(***************************************************************************)
(* Who takes a step                                                        *)
(***************************************************************************)

\* An actor's share of the state.
Stays(a) ==
    step'[a] = step[a] /\ tries'[a] = tries[a] /\ goal'[a] = goal[a] /\ gain'[a] = gain[a]

\* What an actor's next step comes from.
Moved(a) ==
    \/ Stays(a)
    \/ a \in Captures /\ (Start(a) \/ SelectsDefault(a) \/ SendStart(a))
    \/ a \in Moves /\ (Selects(a) \/ \E f \in Wanted : Move(a, f))
    \/ busy = a /\ busy # Nil /\ (Answer \/ TimesOut(a))
    \/ CannotSend(a)
    \/ Elapsed /\ a = Again(cap)

\* Which action moves an actor from a step to the next.
LEMMA WhoMoves ==
    ASSUME SettingsTypeOK, PlaceInv, LastInv, SettingsNext, NEW a \in Actors
    PROVE  Moved(a)
<1>1. ActorTypes /\ a # Nil
  BY ActorFacts DEF SettingsTypeOK
<1>2. ASSUME NEW c \in Captures, Start(c) \/ SelectsDefault(c) \/ SendStart(c) PROVE Moved(a)
  <2>1. CASE c = a
    BY <1>2, <2>1 DEF Moved
  <2>2. CASE c # a
    <3>1. CASE Start(c)
      BY <1>1, <2>2, <3>1 DEF Start, Stays, Moved, Goes, ActorTypes
    <3>2. CASE SelectsDefault(c)
      BY <1>1, <2>2, <3>2 DEF SelectsDefault, Stays, Moved, Goes, ActorTypes
    <3>3. CASE SendStart(c)
      BY <1>1, <2>2, <3>3 DEF SendStart, Runs, Stays, Moved, Goes, ActorTypes
    <3> QED
      BY <1>2, <3>1, <3>2, <3>3
  <2> QED
    BY <2>1, <2>2
<1>3. ASSUME NEW m \in Moves, Selects(m) \/ \E f \in Wanted : Move(m, f) PROVE Moved(a)
  <2>1. CASE m = a
    BY <1>3, <2>1 DEF Moved
  <2>2. CASE m # a
    <3>1. CASE Selects(m)
      <4>1. (\E s \in Steps : step' = [step EXCEPT ![m] = s])
            /\ tries' \in {tries, [tries EXCEPT ![m] = Candidates]} /\ goal' = goal /\
                  gain' = gain
        BY <3>1 DEF Selects, Goes, Steps
      <4> QED
        BY <1>1, <2>2, <4>1 DEF Stays, Moved, ActorTypes
    <3>2. CASE \E f \in Wanted : Move(m, f)
      BY <1>1, <2>2, <3>2 DEF Move, Stays, Moved, Goes, ActorTypes
    <3> QED
      BY <1>3, <3>1, <3>2
  <2> QED
    BY <2>1, <2>2
<1>4. ASSUME NEW b \in Actors, Does(b) \/ CannotSend(b) PROVE Moved(a)
  <2>1. CASE SendCommand(b)
    BY <2>1 DEF SendCommand, Stays, Moved, actorVars
  <2>2. CASE TimesOut(b)
    <3>1. busy = b /\ busy # Nil /\ Turns(busy)
      BY <2>2, ActorFacts, BadTurns DEF TimesOut
    <3> QED
      BY <2>2, <3>1 DEF Turns, Stays, Moved
  <2>3. CASE CannotSend(b) /\ b # a
    <3>1. (\E s \in Steps : step' = [step EXCEPT ![b] = s])
          /\ tries' \in {tries, [tries EXCEPT ![b] = <<>>]} /\ goal' = goal /\ gain' = gain
      BY <2>3 DEF CannotSend, Runs, Fails, Goes, Steps
    <3> QED
      BY <1>1, <2>3, <3>1 DEF Stays, Moved, ActorTypes
  <2>4. CASE CannotSend(b) /\ b = a
    BY <2>4 DEF Moved
  <2> QED
    BY <1>4, <2>1, <2>2, <2>3, <2>4 DEF Does
<1>5. CASE Answer
  <2>1. busy # Nil
    BY <1>5 DEF Answer
  <2>2. PICK sure \in BOOLEAN, minus \in BOOLEAN : Ok(busy, sure) \/ Bad(busy, minus)
    <3>1. (Head(inn).cmd # "space" /\ ~Awaited(Tail(inn))) \in BOOLEAN /\
             (Head(inn).res = "minus") \in BOOLEAN
      OBVIOUS
    <3> QED
      BY <1>5, <3>1 DEF Answer
  <2>3. Turns(busy)
    BY <2>1, <2>2, OkTurns, BadTurns
  <2> QED
    BY <1>5, <2>1, <2>3 DEF Turns, Stays, Moved
<1>6. CASE Refused \/ ConnectWheel \/ GetPosition \/ Other \/ Ends \/ Restart \/ Obeys \/ Loads
  BY <1>6 DEF Refused, ConnectWheel, GetPosition, Other, Ends, Restart, Obeys, Loads, Stays,
     Moved, actorVars
<1>7. CASE Elapsed
  <2>1. CASE UNCHANGED <<step, goal, gain>>
    BY <1>7, <2>1 DEF Elapsed, Stays, Moved
  <2>2. CASE ~UNCHANGED <<step, goal, gain>>
    <3>1. /\ step' = [step EXCEPT ![Again(cap)] = "runexp"]
          /\ goal' = [goal EXCEPT ![Again(cap)] = IF space = Nil THEN "default" ELSE space]
          /\ gain' = [gain EXCEPT ![Again(cap)] = asked]
      BY <1>7, <2>2 DEF Elapsed, Goes
    <3> QED
      BY <1>1, <1>7, <3>1 DEF Elapsed, Stays, Moved, ActorTypes
  <2> QED
    BY <2>1, <2>2
<1> QED
  BY <1>2, <1>3, <1>4, <1>5, <1>6, <1>7 DEF SettingsNext, Works

\* While a capture is under way there is no other's start and no restart.
LEMMA CapSame ==
    ASSUME SettingsNext, phase # "idle"
    PROVE  /\ cap' = cap /\ ~Restart /\ \A c \in Captures : ~Start(c)
  BY DEF SettingsNext, Works, Does, Start, SelectsDefault, SendStart, SendCommand, Selects,
     Move, CannotSend, Refused, ConnectWheel, GetPosition, Answer, Other, Elapsed, TimesOut,
     Ends, Restart, Obeys, Loads, sessionVars

\* A capture is the last until the next begins.
LEMMA CapSteps ==
    ASSUME SettingsNext
    PROVE  cap' = cap \/ \E c \in Captures : Start(c)
  BY DEF SettingsNext, Works, Does, Start, SelectsDefault, SendStart, SendCommand, Selects,
     Move, CannotSend, Refused, ConnectWheel, GetPosition, Answer, Other, Elapsed, TimesOut,
     Ends, Restart, Obeys, Loads, sessionVars

\* What an answer does is what Ok or Bad does.
LEMMA AnswerTurns ==
    ASSUME SettingsTypeOK, PlaceInv, LastInv, NEW b \in Actors, busy = b, Answer \/ TimesOut(b)
    PROVE  /\ busy # Nil /\ Turns(b) /\ Leads(b) /\ Tells(b, TRUE)
           /\ TimesOut(b) /\ step[b] = "quick" => step'[b] = "failed"
           /\ step[b] = "runexp" => step'[b] \in {"rungain", "done"}
           /\ step[b] = "rungain" => step'[b] \in {"runframes", "done"}
           /\ step[b] = "runframes" => step'[b] = "done"
<1>1. busy # Nil
  BY ActorFacts
<1>2. PICK sure \in BOOLEAN, minus \in BOOLEAN : Ok(busy, sure) \/ Bad(busy, minus)
  <2>1. (Head(inn).cmd # "space" /\ ~Awaited(Tail(inn))) \in BOOLEAN /\
           (Head(inn).res = "minus") \in BOOLEAN
    OBVIOUS
  <2> QED
    BY <2>1 DEF Answer, TimesOut
<1>3. Turns(b) /\ Leads(b) /\ Tells(b, TRUE)
  BY <1>1, <1>2, OkTurns, BadTurns DEF Tells
<1>4. TimesOut(b) /\ step[b] = "quick" => step'[b] = "failed"
  BY <1>1, BadTurns DEF TimesOut
<1>5. CASE Ok(busy, sure)
  <2>1. step \in [Actors -> Steps]
    BY DEF SettingsTypeOK, ActorTypes
  <2>2. step[b] \in {"runexp", "rungain"} => step' = [step EXCEPT ![b] = After(step[b])]
    BY <1>5 DEF Ok, Goes
  <2>3. step[b] = "runframes" => step' = [step EXCEPT ![b] = "done"]
    BY <1>5 DEF Ok, Runs, Goes
  <2> QED
    BY <1>1, <1>3, <1>4, <2>1, <2>2, <2>3, AfterFacts
<1>6. CASE Bad(busy, minus)
  <2>1. step \in [Actors -> Steps]
    BY DEF SettingsTypeOK, ActorTypes
  <2>2. step[b] \in RunSteps => step' = [step EXCEPT ![b] = "done"]
    BY <1>6 DEF Bad, Runs, Goes, RunSteps
  <2> QED
    BY <1>1, <1>3, <1>4, <2>1, <2>2 DEF RunSteps
<1> QED
  BY <1>2, <1>5, <1>6

(***************************************************************************)
(* The answer to the stored sequence                                       *)
(***************************************************************************)

\* What the device does with the stored sequence.
LEMMA QuickObeyed ==
    ASSUME SettingsTypeOK, PlaceInv, LastInv, QuickInv, Obeys, out[1].cmd = "quick"
    PROVE  /\ busy # Nil /\ step[busy] = "quick" /\ busy' = busy /\ step' = step /\ cap' = cap
           /\ out' = <<>> /\ dev'.quick = Both(cap)
<1>1. 1 = Len(out) /\ busy # Nil /\ step[busy] = "quick"
  BY ObeysFacts DEF QuickInv, QuickSent
<1>2. Cmd(busy) = [cmd |-> "quick", id |-> "live", val |-> cap, of |-> cap] /\ cap \in Values
  BY <1>1, QuickActor, CapFacts
<1>3. out[1] = Cmd(busy) /\ Head(out) = out[1]
  BY <1>1, ObeysFacts, QueueFacts DEF LastInv, SettingsTypeOK, WireTypes
<1>4. busy' = busy /\ step' = step /\ cap' = cap
  BY DEF Obeys, sessionVars, actorVars
<1>5. out' = <<>>
  <2>1. Len(out') = 0 /\ out' \in Seq(Commands)
    BY <1>1, ObeysFacts
  <2> QED
    BY <2>1, EmptySeq
<1>6. dev' = [dev EXCEPT !.quick = [exp |-> cap, gain |-> cap]]
  BY <1>2, <1>3 DEF Obeys, Params
<1>7. dev'.quick = [exp |-> cap, gain |-> cap]
  BY <1>6 DEF SettingsTypeOK, DeviceTypes
<1> QED
  BY <1>1, <1>4, <1>5, <1>7 DEF Both, Params

\* While its answer is unread nothing else is.
LEMMA QuickUnread ==
    ASSUME SettingsTypeOK, PlaceInv, LastInv, QuickInv, RestInv, SettingsNext,
           NEW k \in Unread, inn[k].cmd = "quick", ~Answer, ~\E a \in Actors : TimesOut(a)
    PROVE  /\ busy' = busy /\ step'[busy] = step[busy] /\ cap' = cap /\ out' = <<>>
           /\ dev' = dev /\ ~Loads /\ ~Obeys
<1>1. busy # Nil /\ step[busy] = "quick" /\ out = <<>>
  BY DEF QuickInv, QuickAnswered
<1>2. PICK b \in Actors : busy = b
  BY <1>1, BusyFacts
<1>3. phase = "busy" /\ ~Started
  BY <1>1, QuickActor
<1>4. shot = 0
  BY <1>3 DEF RestInv
<1>5. ~Loads /\ ~Obeys
  BY <1>1, <1>4 DEF Loads, Obeys
<1>6. Holds(b) /\ cap' = cap /\ ~Restart
  BY <1>2, <1>3, HolderSame, CapSame
<1>7. dev' = dev
  BY <1>5, DeviceSame
<1>8. out' = <<>>
  <2>1. CASE Ends
    BY <1>3, <2>1 DEF Ends
  <2> QED
    BY <1>1, <1>2, <1>5, <2>1, OutSame
<1> QED
  BY <1>2, <1>5, <1>6, <1>7, <1>8 DEF Holds

\* Every step keeps the stored sequence the capture's while its answer is unread.
LEMMA QuickAnsweredStep ==
    ASSUME SettingsTypeOK, PlaceInv, LastInv, QuickInv, RestInv, SettingsNext
    PROVE  QuickAnswered'
<1> DEFINE Alone(j) == inn'[j].cmd \notin {"quick", "start", "elapsed", "space"}
<1> SUFFICES ASSUME NEW i \in Unread', inn'[i].cmd = "quick"
             PROVE  /\ busy' # Nil /\ step'[busy'] = "quick" /\ out' = <<>>
                    /\ dev'.quick = Both(cap')
                    /\ \A j \in Unread' : j > i => Alone(j)
  BY DEF QuickAnswered, Both
<1>1. CASE \E k \in Unread : inn[k].cmd = "quick"
  <2>1. PICK k \in Unread : inn[k].cmd = "quick"
    BY <1>1
  <2>2. busy # Nil /\ step[busy] = "quick" /\ dev.quick = Both(cap)
    BY <2>1 DEF QuickInv, QuickAnswered
  <2>3. PICK b \in Actors : busy = b
    BY <2>2, BusyFacts
  <2>4. ~\E a \in Actors : TimesOut(a)
    <3> SUFFICES ASSUME NEW a \in Actors, TimesOut(a) PROVE FALSE
      OBVIOUS
    <3>1. Cmd(a).cmd # "int"
      <4>1. busy = a
        BY DEF TimesOut
      <4> QED
        BY <2>2, <4>1, QuickActor
    <3>2. inn' = <<>>
      BY <3>1 DEF TimesOut
    <3> QED
      BY <3>2, EmptySeq DEF Unread
  <2>5. ~Answer
    <3> SUFFICES ASSUME Answer PROVE FALSE
      OBVIOUS
    <3>1. inn[1].cmd = "quick" /\ 1 \in Unread
      BY <2>2, QuickAnswer, ReadFacts
    <3>2. inn'[i] = inn[i + 1] /\ i + 1 \in Unread /\ i + 1 > 1
      BY ReadFacts DEF Unread
    <3> QED
      BY <3>1, <3>2 DEF QuickInv, QuickAnswered
  <2>6. /\ busy' = busy /\ step'[busy] = step[busy] /\ cap' = cap /\ out' = <<>>
        /\ dev' = dev /\ ~Loads /\ ~Obeys
    BY <2>1, <2>4, <2>5, QuickUnread
  <2>7. \A j \in Unread' : j > i => Alone(j)
    <3>1. CASE inn' = inn
      BY <3>1 DEF QuickInv, QuickAnswered, Unread
    <3>2. CASE Other \/ Elapsed
      <4>1. inn'[i] = inn[i + 1] /\ i + 1 \in Unread /\ i \in Int
        BY <3>2, ReadFacts DEF Unread
      <4>2. \A j \in Unread' : inn'[j] = inn[j + 1] /\ j + 1 \in Unread /\ j \in Int
        BY <3>2, ReadFacts DEF Unread
      <4>3. \A j \in Unread' : j > i => j + 1 > i + 1
        BY <4>1, <4>2
      <4> QED
        BY <4>1, <4>2, <4>3 DEF QuickInv, QuickAnswered
    <3>3. ~Restart
      BY <2>2, QuickActor, CapSame
    <3> QED
      BY <2>4, <2>5, <2>6, <3>1, <3>2, <3>3, InnSame
  <2> QED
    BY <2>2, <2>6, <2>7
<1>2. CASE ~\E k \in Unread : inn[k].cmd = "quick"
  <2>1. Obeys
    <3>1. inn' # inn
      BY <1>2 DEF Unread
    <3>2. CASE Answer \/ Other \/ Elapsed
      BY <1>2, <3>2, ReadFacts DEF Unread
    <3>3. CASE Loads
      BY <1>2, <3>3, LoadsInn DEF Unread
    <3>4. CASE Restart \/ \E a \in Actors : TimesOut(a)
      <4>1. inn' = <<>>
        BY <3>1, <3>4 DEF Restart, TimesOut
      <4> QED
        BY <4>1, EmptySeq DEF Unread
    <3> QED
      BY <3>1, <3>2, <3>3, <3>4, InnSame
  <2>2. PICK res \in {"ok", "no", "minus"} : inn' = Append(inn, [cmd |-> out[1].cmd, res |-> res])
    BY <2>1, ObeysFacts
  <2>3. /\ [cmd |-> out[1].cmd, res |-> res] \in Inputs
        /\ inn \in Seq(Inputs)
    BY <2>1, ObeysFacts DEF Commands, Inputs, SettingsTypeOK, WireTypes
  <2>4. i \notin Unread
    BY <1>2, <2>1, ObeysFacts
  <2>5. i = Len(inn') /\ out[1].cmd = "quick"
    BY <2>2, <2>3, <2>4, AppendFacts DEF Unread
  <2>6. \A j \in Unread' : ~(j > i)
    BY <2>1, <2>5, ObeysFacts DEF Unread
  <2> QED
    BY <2>1, <2>5, <2>6, QuickObeyed
<1> QED
  BY <1>1, <1>2

\* From here on the stored sequence is the capture's.
LEMMA QuickKeptStep ==
    ASSUME SettingsTypeOK, PlaceInv, LastInv, QuickInv, RestInv, SettingsNext
    PROVE  QuickKept'
<1> DEFINE Past == AfterQuick \cup RunSteps \cup {"done"}
<1> SUFFICES ASSUME cap' >= 1, step'[cap'] \in Past PROVE dev'.quick = Both(cap')
  BY DEF QuickKept, Both
<1>0. ActorTypes /\ cap \in Int /\ (cap >= 1 => cap \in Captures)
  BY CapFacts DEF SettingsTypeOK
<1>1. cap' = cap
  <2> SUFFICES ASSUME NEW c \in Captures, Start(c) PROVE FALSE
    BY CapSteps
  <2>1. cap' = c /\ step'[c] \in Early
    BY <1>0, ActorFacts DEF Start, Goes, Early, ActorTypes
  <2> QED
    BY <2>1 DEF Early, AfterQuick, RunSteps
<1>2. cap \in Captures /\ cap \in Actors /\ cap \notin Agains /\ cap \notin Moves
  BY <1>0, <1>1, CapFacts, ActorFacts
<1>3. CASE step[cap] \in Past
  <2>1. dev.quick = Both(cap)
    BY <1>1, <1>3 DEF QuickInv, QuickKept
  <2>2. ~(busy # Nil /\ step[busy] = "quick")
    BY <1>3, QuickActor DEF AfterQuick, RunSteps
  <2>3. dev'.quick = dev.quick
    <3>1. CASE Obeys
      <4>1. Head(out) = out[1] /\ out[1].cmd # "quick"
        BY <2>2, <3>1, ObeysFacts, QueueFacts, QuickObeyed DEF SettingsTypeOK, WireTypes
      <4>2. dev' = dev \/ (\E r : dev' = [dev EXCEPT !.run = r])
            \/ dev' = [dev EXCEPT !.run[Head(out).cmd] = Head(out).val]
        BY <3>1, <4>1 DEF Obeys
      <4> QED
        BY <4>2 DEF SettingsTypeOK, DeviceTypes
    <3>2. CASE Loads
      BY <3>2 DEF Loads, SettingsTypeOK, DeviceTypes
    <3>3. CASE ~Obeys /\ ~Loads
      BY <3>3, DeviceSame
    <3> QED
      BY <3>1, <3>2, <3>3
  <2> QED
    BY <1>1, <2>1, <2>3
<1>4. CASE step[cap] \notin Past
  <2>1. ~Stays(cap) /\ ~SendStart(cap)
    BY <1>1, <1>4 DEF Stays, SendStart, AfterQuick
  <2>2. ~SelectsDefault(cap)
    <3> SUFFICES ASSUME SelectsDefault(cap) PROVE FALSE
      OBVIOUS
    <3>1. step'[cap] \in {"default", "filter"}
      BY <1>0, <1>2 DEF SelectsDefault, Goes, ActorTypes
    <3> QED
      BY <1>1, <3>1 DEF AfterQuick, RunSteps
  <2>3. ~CannotSend(cap)
    <3> SUFFICES ASSUME CannotSend(cap) PROVE FALSE
      OBVIOUS
    <3>1. step'[cap] \in {"spare", "failed"}
      BY <1>0, <1>2, <1>4 DEF CannotSend, Fails, Goes, ActorTypes
    <3> QED
      BY <1>1, <3>1 DEF AfterQuick, RunSteps
  <2>4. ~Start(cap) /\ cap # Again(cap)
    BY <1>0, <1>2, ActorFacts DEF Start
  <2>5. busy = cap /\ busy # Nil /\ (Answer \/ TimesOut(cap))
    BY <1>2, <2>1, <2>2, <2>3, <2>4, WhoMoves DEF Moved
  <2>6. step[cap] = "quick" /\ ~TimesOut(cap)
    <3>1. Leads(cap) /\ (TimesOut(cap) /\ step[cap] = "quick" => step'[cap] = "failed")
      BY <1>2, <2>5, AnswerTurns
    <3>2. step'[cap] \in AfterQuick /\ step[cap] \in AfterQuick \cup {"quick"}
      BY <1>1, <1>2, <1>4, <3>1 DEF Leads, Early, AfterQuick, RunSteps
    <3> QED
      BY <1>4, <3>1, <3>2 DEF AfterQuick
  <2>7. inn[1].cmd = "quick" /\ 1 \in Unread
    BY <2>5, <2>6, QuickAnswer, ReadFacts
  <2>8. dev.quick = Both(cap)
    BY <2>7 DEF QuickInv, QuickAnswered
  <2>9. dev' = dev
    BY <2>5, <2>6, ReadFacts DEF deviceVars
  <2> QED
    BY <1>1, <2>8, <2>9
<1> QED
  BY <1>3, <1>4

(***************************************************************************)
(* The start                                                               *)
(***************************************************************************)

\* What a command that is not a start leaves alone.
LEMMA ObeysOther ==
    ASSUME SettingsTypeOK, Obeys
    PROVE  /\ out[1].cmd # "start" => shot' = shot /\ stage' = stage
           /\ out[1].cmd # "start" => inn'[Len(inn) + 1].cmd \notin {"start", "elapsed", "space"}
           /\ inn'[Len(inn) + 1].cmd \notin {"elapsed", "space"}
           /\ \A i \in Unread' : i \in Unread \/ i = Len(inn) + 1
<1>1. /\ out # <<>> /\ out[1] \in Commands /\ Head(out) = out[1] /\ inn \in Seq(Inputs)
  BY ObeysFacts, QueueFacts DEF SettingsTypeOK, WireTypes
<1>2. PICK res \in {"ok", "no", "minus"} : inn' = Append(inn, [cmd |-> out[1].cmd, res |-> res])
  BY ObeysFacts
<1>3. [cmd |-> out[1].cmd, res |-> res] \in Inputs /\ out[1].cmd \in {"exp", "gain", "int",
         "quick", "start"}
  BY <1>1 DEF Commands, Inputs
<1>4. inn'[Len(inn) + 1] = [cmd |-> out[1].cmd, res |-> res]
      /\ \A i \in Unread' : i \in Unread \/ i = Len(inn) + 1
  BY <1>1, <1>2, <1>3, AppendFacts DEF Unread
<1>5. out[1].cmd # "start" => shot' = shot /\ stage' = stage
  BY <1>1, <1>3 DEF Obeys, Params
<1> QED
  BY <1>3, <1>4, <1>5

\* Only the capture that configures is started.
LEMMA SendsStart ==
    ASSUME SettingsTypeOK, PlaceInv, NEW c \in Captures, SendStart(c)
    PROVE  /\ c = cap /\ phase = "busy" /\ step[cap] = "start" /\ cap' = cap /\ Started' /\
                 ~Started
           /\ out' = Append(out, Cmd(c)) /\ out' \in Seq(Commands) /\ Len(out) \in Nat
           /\ Cmd(c).cmd = "start" /\ Cmd(c).of = c
           /\ \A i \in Queued : out'[i] = out[i]
           /\ out'[Len(out) + 1] = Cmd(c)
           /\ \A i \in Queued' : i \in Queued \/ i = Len(out) + 1
           /\ inn' = inn /\ UNCHANGED deviceVars /\ space' = space
<1>1. step[c] = "start" /\ c \in Actors /\ Sendable(c)
  BY ActorFacts DEF SendStart, Sendable
<1>2. c = cap /\ phase = "busy"
  <2>1. ~(c > cap) /\ ~(c < cap \/ (c = cap /\ phase # "busy"))
    BY <1>1 DEF PlaceInv, CapturePlace, RunSteps
  <2> QED
    BY <2>1, CapFacts
<1>3. Cmd(c) = [cmd |-> "start", id |-> "live", val |-> index, of |-> c] /\ Cmd(c) \in Commands
  BY <1>1, CmdFacts
<1>8. Cmd(c).cmd = "start" /\ Cmd(c).of = c
  BY <1>3
<1>4. out' = Append(out, Cmd(c)) /\ out \in Seq(Commands) /\ cap' = cap /\ inn' = inn /\
         UNCHANGED deviceVars
      /\ space' = space
  BY DEF SendStart, SettingsTypeOK, WireTypes, sessionVars
<1>5. /\ out' \in Seq(Commands) /\ Len(out) \in Nat
      /\ \A i \in Queued : out'[i] = out[i]
      /\ out'[Len(out) + 1] = Cmd(c)
      /\ \A i \in Queued' : i \in Queued \/ i = Len(out) + 1
  BY <1>3, <1>4, AppendFacts DEF Queued
<1>6. Started'
  <2>1. CASE live = "yes"
    <3>1. step'[cap] = "runexp" /\ phase' = "busy" /\ cap' = cap
      BY <1>1, <1>2, <1>4, <2>1 DEF SendStart, Goes, SettingsTypeOK, ActorTypes
    <3> QED
      BY <3>1 DEF Started, RunSteps
  <2>2. CASE live # "yes"
    BY <1>2, <2>2 DEF SendStart, Runs, Started
  <2> QED
    BY <2>1, <2>2
<1>7. ~Started
  BY <1>1, <1>2 DEF Started, RunSteps
<1> QED
  BY <1>1, <1>2, <1>4, <1>5, <1>6, <1>7, <1>8

\* A capture that has started ends in one of two ways.
LEMMA StartedEnds ==
    ASSUME SettingsTypeOK, PlaceInv, LastInv, SettingsNext, Started, ~Started'
    PROVE  /\ cap' = cap /\ phase' = "idle"
           /\ \/ Ends
              \/ Other /\ inn[1].cmd = "start" /\ inn[1].res # "ok"
<1>1. cap \in Captures /\ phase # "idle" /\ step[cap] \in {"done"} \cup RunSteps
  BY StartedFacts
<1>2. cap' = cap /\ ~Restart /\ \A c \in Captures : ~Start(c)
  BY <1>1, CapSame
<1>3. cap \in Actors /\ cap \notin Moves /\ cap \notin Agains /\ cap # Again(cap) /\
         Again(cap) \in Agains
      /\ step \in [Actors -> Steps]
  BY <1>1, ActorFacts DEF SettingsTypeOK, ActorTypes
<1>4. \A c \in Captures : ~SendStart(c)
  BY SendsStart
<1>5. ASSUME NEW b \in Actors, busy = b, Answer \/ TimesOut(b) PROVE FALSE
  <2>1. Leads(b) /\ Turns(b)
    BY <1>5, AnswerTurns
  <2>2. CASE b = cap
    <3>1. step[cap] \in RunSteps
      BY <1>1, <1>5, <2>2, BusyFacts, AnswerTurns DEF Sendable
    <3>2. \/ step'[cap] \in RunSteps /\ phase' = phase
          \/ step'[cap] = "done" /\ phase' = IF phase = "busy" THEN "exposing" ELSE phase
      BY <1>3, <2>1, <2>2, <3>1, <1>1 DEF Leads
    <3> QED
      BY <1>2, <3>1, <3>2 DEF Started
  <2>3. CASE b # cap
    <3>1. step'[cap] = step[cap]
      BY <1>3, <2>1, <2>3 DEF Turns
    <3>2. phase' = phase
      <4>1. b \in Captures => step[b] \in RunSteps
        BY <1>5, <2>3, BusyFacts, AnswerTurns
      <4> QED
        BY <2>1, <2>3, <4>1, ActorFacts DEF Leads
    <3> QED
      BY <1>2, <3>1, <3>2 DEF Started
  <2> QED
    BY <2>2, <2>3
<1>6. ASSUME NEW a \in Actors, CannotSend(a) PROVE FALSE
  <2>1. CASE a = cap
    <3>1. step[cap] \in RunSteps
      BY <1>1, <1>6, <2>1 DEF CannotSend, Sendable
    <3>2. step'[cap] = "done" /\ phase' = IF phase = "busy" THEN "exposing" ELSE phase
      BY <1>3, <1>6, <2>1, <3>1 DEF CannotSend, Runs, Goes
    <3> QED
      BY <1>2, <3>1, <3>2 DEF Started
  <2>2. CASE a # cap
    <3>1. (\E s \in Steps : step' = [step EXCEPT ![a] = s]) /\ phase' = phase
      BY <1>6, <2>2 DEF CannotSend, Runs, Fails, Goes, Steps
    <3> QED
      BY <1>2, <1>3, <2>2, <3>1 DEF Started
  <2> QED
    BY <2>1, <2>2
<1>7. CASE Elapsed
  <2>1. phase' = phase /\ step'[cap] = step[cap]
    BY <1>3, <1>7 DEF Elapsed, Goes
  <2> QED
    BY <1>2, <2>1 DEF Started
<1>8. ASSUME NEW c \in Captures, SelectsDefault(c) PROVE FALSE
  <2>1. c # cap /\ phase' = phase
    BY <1>1, <1>8 DEF SelectsDefault, RunSteps
  <2>2. step'[cap] = step[cap]
    BY <1>3, <1>8, <2>1 DEF SelectsDefault, Goes
  <2> QED
    BY <1>2, <2>1, <2>2 DEF Started
<1>9. ASSUME NEW m \in Moves, Selects(m) \/ \E f \in Wanted : Move(m, f) PROVE FALSE
  <2>1. m # cap
    BY <1>3
  <2>2. (\E s \in Steps : step' = [step EXCEPT ![m] = s]) /\ phase' = phase
    BY <1>9 DEF Selects, Move, Goes, Steps
  <2> QED
    BY <1>2, <1>3, <2>1, <2>2 DEF Started
<1>10. CASE Other
  <2>1. phase' = "idle" /\ inn[1].cmd = "start" /\ inn[1].res # "ok"
    BY <1>2, <1>10, ReadFacts DEF Other, Started, actorVars
  <2> QED
    BY <1>2, <1>10, <2>1
<1>11. CASE Ends
  BY <1>2, <1>11 DEF Ends
<1>12. CASE Refused \/ ConnectWheel \/ GetPosition \/ Obeys \/ Loads \/
          \E a \in Actors : SendCommand(a)
  BY <1>2, <1>12 DEF Refused, ConnectWheel, GetPosition, Obeys, Loads, SendCommand, Started,
     actorVars
<1>13. CASE Answer
  BY <1>5, <1>13, BusyFacts DEF Answer
<1>14. ASSUME NEW a \in Actors, TimesOut(a) PROVE FALSE
  BY <1>5, <1>14 DEF TimesOut
<1> QED
  BY <1>2, <1>4, <1>6, <1>7, <1>8, <1>9, <1>10, <1>11, <1>12, <1>13, <1>14 DEF SettingsNext,
     Works, Does

\* The commands of a kind, after a step.
LEMMA OutNew ==
    ASSUME SettingsTypeOK, PlaceInv, LastInv, SettingsNext, NEW k \in Queued',
              out'[k].cmd = "start"
    PROVE  \/ \E j \in Queued : out'[k] = out[j] /\ (j = k \/ (Obeys /\ j = k + 1))
           \/ Ends /\ out'[k].of = 0
           \/ (\E c \in Captures : SendStart(c)) /\ k = Len(out) + 1
<1>1. CASE out' = out
  BY <1>1 DEF Queued
<1>2. CASE out' = <<>>
  BY <1>2, EmptySeq DEF Queued
<1>3. CASE Obeys
  <2>1. out'[k] = out[k + 1] /\ k + 1 \in Queued
    BY <1>3, ObeysFacts DEF Queued
  <2> QED
    BY <1>3, <2>1
<1>4. CASE Ends /\ Len(out') = Len(out)
                /\ \A i \in Queued : out'[i].cmd = out[i].cmd /\ (out[i].cmd = "start" =>
                      out'[i].of = 0)
  BY <1>4 DEF Queued
<1>5. ASSUME NEW a \in Actors, SendCommand(a) \/ (SendStart(a) /\ a \in Captures),
             \A i \in Queued : out'[i] = out[i],
             \A i \in Queued' : i \in Queued \/ i = Len(out) + 1,
             out'[Len(out) + 1] = Cmd(a)
      PROVE  \/ \E j \in Queued : out'[k] = out[j] /\ j = k
             \/ SendStart(a) /\ a \in Captures /\ k = Len(out) + 1
  <2>1. CASE k \in Queued
    BY <1>5, <2>1
  <2>2. CASE k = Len(out) + 1 /\ SendCommand(a)
    <3>1. Sendable(a) /\ step[a] # "start" /\ out'[k] = Cmd(a)
      BY <1>5, <2>2 DEF SendCommand
    <3>2. step[a] \in FilterSteps \cup {"exp", "exp2", "runexp", "gain", "gain2", "rungain",
             "frames",
                                        "runframes", "quick"}
      BY <3>1 DEF SettingsTypeOK, ActorTypes, Steps, Sendable, FilterSteps
    <3>3. Cmd(a).cmd # "start"
      BY <3>1, <3>2, CmdFacts DEF FilterSteps
    <3> QED
      BY <3>1, <3>3
  <2> QED
    BY <1>5, <2>1, <2>2
<1> QED
  BY <1>1, <1>2, <1>3, <1>4, <1>5, OutCases

\* What there is to read, after a step.
LEMMA InnNew ==
    ASSUME SettingsTypeOK, SettingsNext, NEW k \in Unread', ~Loads
    PROVE  \/ \E j \in Unread : inn'[k] = inn[j] /\ (j = k \/ ((Answer \/ Other \/ Elapsed) /\
                 j = k + 1 /\ j > 1))
           \/ Obeys /\ k = Len(inn) + 1 /\ k \notin Unread
<1>1. CASE inn' = inn
  BY <1>1 DEF Unread
<1>2. CASE Answer \/ Other \/ Elapsed
  <2>1. inn'[k] = inn[k + 1] /\ k + 1 \in Unread /\ k + 1 > 1
    BY <1>2, ReadFacts DEF Unread
  <2> QED
    BY <1>2, <2>1
<1>3. CASE Obeys
  <2>1. CASE k \in Unread
    BY <1>3, <2>1, ObeysFacts
  <2>2. CASE k \notin Unread
    BY <1>3, <2>2, ObeysOther
  <2> QED
    BY <2>1, <2>2
<1>4. CASE Restart \/ \E a \in Actors : TimesOut(a)
  <2>1. inn' = inn \/ inn' = <<>>
    BY <1>4 DEF Restart, TimesOut
  <2> QED
    BY <1>1, <2>1, EmptySeq DEF Unread
<1> QED
  BY <1>1, <1>2, <1>3, <1>4, InnSame

\* A configuration begins with the capture's, and its later steps with the answer
\* to the stored sequence.
LEMMA ConfiguringSteps ==
    ASSUME SettingsTypeOK, PlaceInv, LastInv, QuickInv, SettingsNext,
           ~Started, ~Started', phase' = "busy"
    PROVE  \/ \E c \in Captures : Start(c) /\ c = cap + 1 /\ cap' = c /\ step'[c] \in Early
                                  /\ step'[Again(c)] = step[Again(c)]
           \/ /\ phase = "busy" /\ cap' = cap /\ cap \in Captures
              /\ step'[cap] \in AfterQuick /\ step[cap] \notin AfterQuick =>
                    /\ Answer /\ out = <<>>
                    /\ \A j \in Unread : j > 1 => inn[j].cmd \notin {"quick", "start",
                          "elapsed", "space"}
<1>1. CASE \E c \in Captures : Start(c)
  <2>1. PICK c \in Captures : Start(c)
    BY <1>1
  <2>2. step'[c] \in Early /\ step'[Again(c)] = step[Again(c)]
    BY <2>1, ActorFacts DEF Start, Goes, Early, SettingsTypeOK, ActorTypes
  <2> QED
    BY <2>1, <2>2 DEF Start
<1>2. CASE ~\E c \in Captures : Start(c)
  <2>1. cap' = cap
    BY <1>2, CapSteps
  <2>2. ASSUME NEW b \in Actors, busy = b, Answer \/ TimesOut(b) PROVE phase = "busy"
    BY <2>2, AnswerTurns, BusyFacts, ActorFacts DEF Leads
  <2>3. phase = "busy"
    <3>1. CASE Answer
      <4>1. busy \in Actors
        BY <3>1, BusyFacts DEF Answer
      <4> QED
        BY <2>2, <3>1, <4>1
    <3>2. CASE \E a \in Actors : TimesOut(a)
      BY <2>2, <3>2 DEF TimesOut
    <3>3. CASE ~Answer /\ ~\E a \in Actors : TimesOut(a)
      BY <1>2, <3>3 DEF SettingsNext, Works, Does, SelectsDefault, SendStart, SendCommand,
         Selects, Move, CannotSend, Runs, Fails, Refused, ConnectWheel, GetPosition, Other,
         Elapsed, Ends, Restart, Obeys, Loads
    <3> QED
      BY <3>1, <3>2, <3>3
  <2>4. cap \in Captures /\ cap \in Actors /\ cap \notin Agains /\ cap \notin Moves /\
           cap # Again(cap)
    BY <2>3, CapFacts, ActorFacts DEF PlaceInv, PhasePlace
  <2>5. ASSUME step'[cap] \in AfterQuick, step[cap] \notin AfterQuick
        PROVE  /\ Answer /\ out = <<>>
               /\ \A j \in Unread : j > 1 => inn[j].cmd \notin {"quick", "start", "elapsed",
                     "space"}
    <3>1. ~Stays(cap) /\ ~Start(cap) /\ ~SendStart(cap)
      BY <1>2, <2>4, <2>5 DEF Stays, SendStart, AfterQuick
    <3>2. step \in [Actors -> Steps]
      BY DEF SettingsTypeOK, ActorTypes
    <3>3. ~SelectsDefault(cap)
      BY <2>4, <2>5, <3>2 DEF SelectsDefault, Goes, AfterQuick
    <3>4. ~CannotSend(cap)
      BY <2>4, <2>5, <3>2 DEF CannotSend, Runs, Fails, Goes, AfterQuick
    <3>5. busy = cap /\ busy # Nil /\ (Answer \/ TimesOut(cap))
      BY <2>4, <3>1, <3>3, <3>4, WhoMoves DEF Moved
    <3>6. Leads(cap) /\ (TimesOut(cap) /\ step[cap] = "quick" => step'[cap] = "failed")
      BY <2>4, <3>5, AnswerTurns
    <3>7. step[cap] = "quick" /\ ~TimesOut(cap)
      <4>1. step[cap] \notin RunSteps
        BY <2>3 DEF Started
      <4> QED
        BY <2>4, <2>5, <3>6, <4>1 DEF Leads, AfterQuick
    <3>8. inn[1].cmd = "quick" /\ 1 \in Unread
      BY <3>5, <3>7, QuickAnswer, ReadFacts
    <3> QED
      BY <3>5, <3>7, <3>8 DEF QuickInv, QuickAnswered
  <2> QED
    BY <2>1, <2>3, <2>4, <2>5
<1> QED
  BY <1>1, <1>2

\* Every step keeps the wire free of starts until the capture sends its own.
LEMMA RestStep ==
    ASSUME SettingsTypeOK, PlaceInv, LastInv, QuickInv, RestInv, StartInv, SettingsNext
    PROVE  RestInv'
<1> DEFINE Apart(m) == m.cmd \notin {"start", "elapsed", "space"}
<1> SUFFICES ASSUME ~Started'
             PROVE  /\ shot' = 0
                    /\ \A i \in Queued' : out'[i].cmd = "start" => out'[i].of = 0
                    /\ phase' = "busy" => step'[Again(cap)'] = "none"
                    /\ phase' = "busy" /\ step'[cap'] \in AfterQuick =>
                          /\ \A i \in Queued' : out'[i].cmd # "start"
                          /\ \A i \in Unread' : Apart(inn'[i])
  BY DEF RestInv, Again
<1>1. CASE Started
  <2>1. /\ cap' = cap /\ phase' = "idle"
        /\ \/ Ends
           \/ Other /\ inn[1].cmd = "start" /\ inn[1].res # "ok"
    BY <1>1, StartedEnds
  <2>2. CASE Ends
    <3>1. out' = [i \in Queued |-> IF out[i].cmd = "start" THEN [out[i] EXCEPT !.of = 0] ELSE out[i]]
      BY <2>2 DEF Ends, Queued
    <3>2. Len(out) \in Nat /\ \A i \in Queued : out[i] \in Commands
      BY LenProperties DEF SettingsTypeOK, WireTypes, Queued
    <3>3. Queued' = Queued
      BY <3>1, <3>2 DEF Queued
    <3>4. \A i \in Queued' : out'[i].cmd = "start" => out'[i].of = 0
      BY <3>1, <3>2, <3>3 DEF Commands
    <3> QED
      BY <2>1, <2>2, <3>4 DEF Ends
  <2>3. CASE Other /\ inn[1].cmd = "start" /\ inn[1].res # "ok"
    <3>1. out' = out /\ shot' = shot /\ 1 \in Unread
      BY <2>3, ReadFacts DEF deviceVars
    <3> QED
      BY <1>1, <2>1, <2>3, <3>1 DEF StartInv, Queued
  <2> QED
    BY <2>1, <2>2, <2>3
<1>2. CASE ~Started
  <2>1. shot = 0 /\ ~Loads /\ ~Ends /\ \A c \in Captures : ~SendStart(c)
    BY <1>2, SendsStart DEF RestInv, Loads, Ends, Started
  <2>2. \A i \in Queued' : out'[i].cmd = "start" =>
            \E j \in Queued : out'[i] = out[j] /\ (j = i \/ (Obeys /\ j = i + 1))
    BY <2>1, OutNew
  <2>3. shot' = 0
    <3>1. CASE Obeys
      <4>1. CASE out[1].cmd = "start"
        <5>1. out[1].of = 0
          BY <1>2, <3>1, <4>1, ObeysFacts DEF RestInv
        <5> QED
          BY <2>1, <3>1, <4>1, <5>1, ObeysFacts
      <4>2. CASE out[1].cmd # "start"
        BY <2>1, <3>1, <4>2, ObeysOther
      <4> QED
        BY <4>1, <4>2
    <3>2. CASE ~Obeys
      BY <2>1, <3>2, DeviceSame DEF Restart
    <3> QED
      BY <3>1, <3>2
  <2>4. \A i \in Queued' : out'[i].cmd = "start" => out'[i].of = 0
    BY <1>2, <2>2 DEF RestInv
  <2>5. ASSUME phase' = "busy"
        PROVE  /\ step'[Again(cap)'] = "none"
               /\ step'[cap'] \in AfterQuick =>
                     /\ \A i \in Queued' : out'[i].cmd # "start"
                     /\ \A i \in Unread' : Apart(inn'[i])
    <3>1. CASE \E c \in Captures : Start(c) /\ c = cap + 1 /\ cap' = c /\ step'[c] \in Early
                                  /\ step'[Again(c)] = step[Again(c)]
      <4>1. PICK c \in Captures : c = cap + 1 /\ cap' = c /\ step'[c] \in Early
                                  /\ step'[Again(c)] = step[Again(c)]
        BY <3>1
      <4>2. step[Again(c)] = "none"
        BY <4>1, CapFacts DEF PlaceInv, CapturePlace
      <4>3. Again(cap)' = Again(c)
        BY <4>1 DEF Again
      <4> QED
        BY <4>1, <4>2, <4>3 DEF Early, AfterQuick
    <3>2. CASE /\ phase = "busy" /\ cap' = cap /\ cap \in Captures
               /\ step'[cap] \in AfterQuick /\ step[cap] \notin AfterQuick =>
                    /\ Answer /\ out = <<>>
                    /\ \A j \in Unread : j > 1 => inn[j].cmd \notin {"quick", "start",
                          "elapsed", "space"}
      <4>1. PICK r \in Agains : r = Again(cap) /\ r = Again(cap)' /\ r \in Actors /\
               r \notin Captures
                                /\ r \notin Moves
        BY <3>2, ActorFacts DEF Again
      <4>2. step[r] = "none"
        BY <1>2, <3>2, <4>1 DEF RestInv
      <4>3. step'[r] = "none"
        <5>1. ~CannotSend(r) /\ ~(busy = r /\ busy # Nil)
          BY <4>2, BusyFacts DEF CannotSend, Sendable
        <5>2. Elapsed => step'[r] = step[r]
          BY <1>2 DEF Elapsed
        <5>3. Stays(r) \/ (Elapsed /\ r = Again(cap))
          BY <4>1, <5>1, WhoMoves DEF Moved
        <5> QED
          BY <4>2, <5>2, <5>3 DEF Stays
      <4>4. ASSUME step'[cap] \in AfterQuick
            PROVE  /\ \A i \in Queued' : out'[i].cmd # "start"
                   /\ \A i \in Unread' : Apart(inn'[i])
        <5>1. CASE step[cap] \in AfterQuick
          <6>1. /\ \A i \in Queued : out[i].cmd # "start"
                /\ \A i \in Unread : Apart(inn[i])
            BY <1>2, <3>2, <5>1 DEF RestInv
          <6>2. \A i \in Queued' : out'[i].cmd # "start"
            BY <2>2, <6>1
          <6>3. ASSUME NEW i \in Unread' PROVE Apart(inn'[i])
            <7>1. CASE Obeys /\ i = Len(inn) + 1
              BY <6>1, <7>1, ObeysOther, ObeysFacts
            <7>2. CASE \E j \in Unread : inn'[i] = inn[j]
              BY <6>1, <7>2
            <7> QED
              BY <2>1, <7>1, <7>2, InnNew
          <6> QED
            BY <6>2, <6>3
        <5>2. CASE step[cap] \notin AfterQuick
          <6>1. /\ Answer /\ out = <<>>
                /\ \A j \in Unread : j > 1 => Apart(inn[j])
            BY <3>2, <4>4, <5>2
          <6>2. out' = <<>>
            BY <6>1, ReadFacts
          <6>3. \A i \in Unread' : inn'[i] = inn[i + 1] /\ i + 1 \in Unread /\ i + 1 > 1
            BY <6>1, ReadFacts DEF Unread
          <6>4. \A i \in Unread' : Apart(inn'[i])
            BY <6>1, <6>3
          <6> QED
            BY <6>2, <6>4, EmptySeq DEF Queued
        <5> QED
          BY <5>1, <5>2
      <4> QED
        BY <3>2, <4>1, <4>3, <4>4
    <3> QED
      BY <1>2, <2>5, <3>1, <3>2, ConfiguringSteps
  <2> QED
    BY <2>3, <2>4, <2>5
<1> QED
  BY <1>1, <1>2

\* Its values are asked for once the capture has been started.
LEMMA AgainMoves ==
    ASSUME SettingsTypeOK, PlaceInv, LastInv, SettingsNext, cap \in Captures,
              step[Again(cap)] = "none"
    PROVE  \/ step'[Again(cap)] = "none"
           \/ Elapsed /\ Started /\ goal'[Again(cap)] = (IF space = Nil THEN "default" ELSE space)
                      /\ gain'[Again(cap)] = asked /\ step'[Again(cap)] = "runexp"
<1>1. PICK r \in Agains : r = Again(cap) /\ r \in Actors /\ r \notin Captures /\ r \notin Moves
  BY ActorFacts
<1>2. ~CannotSend(r) /\ ~(busy = r /\ busy # Nil)
  BY <1>1, BusyFacts DEF CannotSend, Sendable
<1>3. Stays(r) \/ Elapsed
  BY <1>1, <1>2, WhoMoves DEF Moved
<1>4. CASE Elapsed
  BY <1>1, <1>4 DEF Elapsed, Goes, SettingsTypeOK, ActorTypes
<1> QED
  BY <1>1, <1>3, <1>4 DEF Stays

\* It begins once in a capture.
LEMMA AgainStarted ==
    ASSUME SettingsTypeOK, PlaceInv, LastInv, SettingsNext, cap \in Captures,
              step[Again(cap)] # "none"
    PROVE  step'[Again(cap)] # "none"
<1>1. PICK r \in Agains : r = Again(cap) /\ r \in Actors /\ r \notin Captures /\ r \notin Moves
  BY ActorFacts
<1>2. CASE Stays(r)
  BY <1>1, <1>2 DEF Stays
<1>3. CASE CannotSend(r)
  BY <1>1, <1>3 DEF CannotSend, Runs, Fails, Goes, SettingsTypeOK, ActorTypes
<1>4. CASE busy = r /\ (Answer \/ TimesOut(r))
  BY <1>1, <1>4, AnswerTurns DEF Leads, RunSteps
<1>5. CASE Elapsed
  BY <1>1, <1>5 DEF Elapsed, Goes, SettingsTypeOK, ActorTypes
<1> QED
  BY <1>1, <1>2, <1>3, <1>4, <1>5, WhoMoves DEF Moved

\* The session has the device's namespace and no other.
LEMMA SpaceStep ==
    ASSUME SettingsTypeOK, PlaceInv, LastInv, SpaceInv, SettingsNext
    PROVE  /\ SpaceInv' /\ own' = own
           /\ \/ space' = space
              \/ space' = own
              \/ space' = Nil /\ ((\E c \in Captures : Start(c)) \/ Restart)
<1>1. own' = own
  BY DeviceSame DEF Obeys
<1>2. \/ space' = space
      \/ space' = own
      \/ space' = Nil /\ ((\E c \in Captures : Start(c)) \/ Restart)
  <2>1. CASE Answer \/ Other
    <3>1. space' \in {space, Head(inn).res} /\ (Head(inn).cmd # "space" => space' = space)
      BY <2>1 DEF Answer, Other, Detected
    <3> QED
      BY <2>1, <3>1, ReadFacts DEF SpaceInv
  <2>2. CASE (\E c \in Captures : Start(c)) \/ Restart
    BY <2>2 DEF Start, Restart
  <2>3. CASE ~Answer /\ ~Other /\ ~(\E c \in Captures : Start(c)) /\ ~Restart
    BY <2>3 DEF SettingsNext, Works, Does, SelectsDefault, SendStart, SendCommand, Selects,
       Move, CannotSend, Refused, ConnectWheel, GetPosition, Elapsed, TimesOut, Ends, Obeys,
       Loads, sessionVars
  <2> QED
    BY <2>1, <2>2, <2>3
<1>3. ASSUME NEW k \in Unread', inn'[k].cmd = "space" PROVE inn'[k].res = own
  <2>1. CASE Loads
    <3>1. CASE k \in Unread
      BY <1>3, <2>1, <3>1, LoadsInn DEF SpaceInv
    <3>2. CASE k \notin Unread
      BY <1>3, <2>1, <3>2, LoadsInn DEF Unread
    <3> QED
      BY <3>1, <3>2
  <2>2. CASE ~Loads
    <3>1. CASE \E j \in Unread : inn'[k] = inn[j]
      BY <1>3, <3>1 DEF SpaceInv
    <3>2. CASE Obeys /\ k = Len(inn) + 1
      BY <1>3, <3>2, ObeysOther
    <3> QED
      BY <2>2, <3>1, <3>2, InnNew
  <2> QED
    BY <2>1, <2>2
<1> QED
  BY <1>1, <1>2, <1>3 DEF SpaceInv

\* What StartInv says of one command, and of one thing to read.
OneStart(i) ==
    out[i].cmd = "start" =>
        /\ out[i].of = cap /\ shot = 0
        /\ \A j \in Queued : out[j].cmd = "start" => j = i
        /\ \A j \in Unread : inn[j].cmd \notin {"start", "elapsed", "space"}

OneNews(i) ==
    /\ inn[i].cmd = "start" /\ inn[i].res # "ok" => shot = 0 /\
          \A j \in Queued : out[j].cmd # "start"
    /\ inn[i].cmd \in {"elapsed", "space"} => shot = cap /\ stage = "loaded" /\
          step[Again(cap)] = "none"
    /\ inn[i].cmd = "elapsed" =>
          /\ \A j \in Unread : j > i => inn[j].cmd \notin {"elapsed", "space"}
          /\ supports => space = own \/ \E j \in Unread : j < i /\ inn[j].cmd = "space"

StartParts ==
    /\ shot \in {0, cap}
    /\ step[Again(cap)] # "none" => shot = cap /\ stage = "loaded"
    /\ \A i \in Queued : OneStart(i)
    /\ \A i \in Unread : OneNews(i)

\* StartInv, by its parts.
LEMMA StartInvParts == StartInv <=> (Started => StartParts)
  BY DEF StartInv, StartParts, OneStart, OneNews

\* The start is sent.
LEMMA StartSent ==
    ASSUME SettingsTypeOK, PlaceInv, LastInv, RestInv, SettingsNext, NEW c \in Captures,
              SendStart(c)
    PROVE  StartParts'
<1>1. /\ c = cap /\ phase = "busy" /\ step[cap] \in AfterQuick /\ cap' = cap /\ ~Started
      /\ inn' = inn /\ UNCHANGED deviceVars
      /\ Cmd(c).cmd = "start" /\ Cmd(c).of = cap
      /\ \A i \in Queued : out'[i] = out[i]
      /\ out'[Len(out) + 1] = Cmd(c)
      /\ \A i \in Queued' : i \in Queued \/ i = Len(out) + 1
  BY SendsStart DEF AfterQuick
<1>2. /\ shot = 0 /\ step[Again(cap)] = "none"
      /\ \A i \in Queued : out[i].cmd # "start"
      /\ \A i \in Unread : inn[i].cmd \notin {"start", "elapsed", "space"}
  BY <1>1 DEF RestInv
<1>3. step'[Again(cap)'] = "none"
  <2>1. Again(cap)' = Again(cap) /\ ~Elapsed
    BY <1>1 DEF Again, Elapsed, SendStart
  <2> QED
    BY <1>1, <1>2, <2>1, AgainMoves
<1>4. shot' = 0
  BY <1>1, <1>2 DEF deviceVars
<1>5. \A i \in Queued' : out'[i].cmd = "start" => i = Len(out) + 1 /\ out'[i].of = cap
  BY <1>1, <1>2
<1>6. \A i \in Unread' : inn'[i].cmd \notin {"start", "elapsed", "space"}
  BY <1>1, <1>2 DEF Unread
<1>7. \A i \in Queued' : OneStart(i)'
  BY <1>1, <1>4, <1>5, <1>6 DEF OneStart
<1>8. \A i \in Unread' : OneNews(i)'
  BY <1>6 DEF OneNews
<1> QED
  BY <1>3, <1>4, <1>7, <1>8 DEF StartParts

\* The device carries out a start, or anything else.
LEMMA StartObeyed ==
    ASSUME SettingsTypeOK, PlaceInv, LastInv, StartInv, SettingsNext, Started, Obeys
    PROVE  StartParts'
<1>1. cap \in Captures /\ cap' = cap /\ step' = step /\ space' = space /\ own' = own /\
         supports' = supports
      /\ Again(cap)' = Again(cap) /\ cap # 0
  BY StartedFacts, ActorFacts DEF Obeys, sessionVars, actorVars, Again
<1>2. StartParts
  BY StartInvParts
<1>3. /\ 1 \in Queued /\ Len(inn) \in Nat
      /\ \A i \in Queued' : out'[i] = out[i + 1] /\ i + 1 \in Queued /\ i + 1 # 1 /\ i \in Int
      /\ \A i \in Unread : inn'[i] = inn[i] /\ i \in Unread'
      /\ \A i \in Unread' : i \in Unread \/ i = Len(inn) + 1
  BY ObeysFacts, ObeysOther DEF Queued, Unread
<1>4. CASE out[1].cmd = "start"
  <2>1. /\ out[1].of = cap /\ shot = 0
        /\ \A j \in Queued : out[j].cmd = "start" => j = 1
        /\ \A j \in Unread : inn[j].cmd \notin {"start", "elapsed", "space"}
    BY <1>2, <1>3, <1>4 DEF StartParts, OneStart
  <2>2. step[Again(cap)] = "none"
    BY <1>1, <1>2, <2>1 DEF StartParts
  <2>3. \A i \in Queued' : out'[i].cmd # "start"
    BY <1>3, <2>1
  <2>4. PICK res \in {"ok", "no", "minus"} :
           /\ inn' = Append(inn, [cmd |-> out[1].cmd, res |-> res])
           /\ \/ shot' = out[1].of /\ res = "ok"
              \/ res = "no" /\ shot' = shot
    BY <1>4, ObeysFacts
  <2>5. inn'[Len(inn) + 1] = [cmd |-> "start", res |-> res]
    <3>1. inn \in Seq(Inputs) /\ [cmd |-> out[1].cmd, res |-> res] \in Inputs
      BY <1>4 DEF SettingsTypeOK, WireTypes, Inputs
    <3> QED
      BY <1>4, <2>4, <3>1, AppendFacts
  <2>6. \A i \in Unread' : inn'[i].cmd \notin {"elapsed", "space"}
                           /\ (inn'[i].cmd = "start" /\ inn'[i].res # "ok" => shot' = 0)
    <3>1. res # "ok" => shot' = 0
      BY <2>1, <2>4
    <3>2. ASSUME NEW i \in Unread'
          PROVE  /\ inn'[i].cmd \notin {"elapsed", "space"}
                 /\ inn'[i].cmd = "start" /\ inn'[i].res # "ok" => shot' = 0
      <4>1. CASE i \in Unread
        <5>1. inn'[i].cmd \notin {"start", "elapsed", "space"}
          BY <1>3, <2>1, <4>1
        <5> QED
          BY <5>1
      <4>2. CASE i = Len(inn) + 1
        BY <2>5, <3>1, <4>2
      <4> QED
        BY <1>3, <4>1, <4>2
    <3> QED
      BY <3>2
  <2>7. \A i \in Unread' : OneNews(i)'
    BY <2>3, <2>6 DEF OneNews
  <2>8. \A i \in Queued' : OneStart(i)'
    BY <2>3 DEF OneStart
  <2> QED
    BY <1>1, <2>1, <2>2, <2>4, <2>7, <2>8 DEF StartParts
<1>5. CASE out[1].cmd # "start"
  <2>1. shot' = shot /\ stage' = stage /\ inn'[Len(inn) + 1].cmd \notin {"start", "elapsed",
           "space"}
    BY <1>5, ObeysOther
  <2>2. \A i \in Unread' : inn'[i].cmd \in {"start", "elapsed", "space"} => i \in Unread /\
           inn'[i] = inn[i]
    BY <1>3, <2>1
  <2>3. ASSUME NEW i \in Queued' PROVE OneStart(i)'
    <3> SUFFICES ASSUME out'[i].cmd = "start"
                 PROVE  /\ out'[i].of = cap /\ shot' = 0
                        /\ \A j \in Queued' : out'[j].cmd = "start" => j = i
                        /\ \A j \in Unread' : inn'[j].cmd \notin {"start", "elapsed", "space"}
      BY <1>1 DEF OneStart
    <3>1. /\ out[i + 1].of = cap /\ shot = 0
          /\ \A j \in Queued : out[j].cmd = "start" => j = i + 1
          /\ \A j \in Unread : inn[j].cmd \notin {"start", "elapsed", "space"}
      BY <1>2, <1>3 DEF StartParts, OneStart
    <3>2. \A j \in Queued' : out'[j].cmd = "start" => j = i
      <4>1. \A j \in Queued' : out'[j].cmd = "start" => j + 1 = i + 1
        BY <1>3, <3>1
      <4> QED
        BY <1>3, <4>1
    <3> QED
      BY <1>3, <2>1, <2>2, <3>1, <3>2
  <2>4. ASSUME NEW i \in Unread' PROVE OneNews(i)'
    <3>1. CASE inn'[i].cmd \notin {"start", "elapsed", "space"}
      BY <3>1 DEF OneNews
    <3>2. CASE inn'[i].cmd \in {"start", "elapsed", "space"}
      <4>1. i \in Unread /\ inn'[i] = inn[i] /\ OneNews(i)
        BY <1>2, <2>2, <3>2 DEF StartParts
      <4>2. inn'[i].cmd = "start" /\ inn'[i].res # "ok" => shot' = 0 /\
               \A j \in Queued' : out'[j].cmd # "start"
        BY <1>3, <2>1, <4>1 DEF OneNews
      <4>3. inn'[i].cmd \in {"elapsed", "space"} => shot' = cap' /\ stage' = "loaded" /\
               step'[Again(cap)'] = "none"
        BY <1>1, <2>1, <4>1 DEF OneNews
      <4>4. inn'[i].cmd = "elapsed" => \A j \in Unread' : j > i =>
               inn'[j].cmd \notin {"elapsed", "space"}
        BY <2>2, <4>1 DEF OneNews
      <4>5. inn'[i].cmd = "elapsed" /\ supports' => space' = own' \/ \E j \in Unread' : j < i /\
               inn'[j].cmd = "space"
        BY <1>1, <1>3, <4>1 DEF OneNews
      <4> QED
        BY <4>2, <4>3, <4>4, <4>5 DEF OneNews
    <3> QED
      BY <3>1, <3>2
  <2> QED
    BY <1>1, <1>2, <2>1, <2>3, <2>4 DEF StartParts
<1> QED
  BY <1>4, <1>5

\* The device loads its presets: it says so after it has named the namespace.
LEMMA StartLoaded ==
    ASSUME SettingsTypeOK, PlaceInv, LastInv, StartInv, SettingsNext, Started, Loads
    PROVE  StartParts'
<1>1. cap \in Captures /\ cap' = cap /\ step' = step /\ space' = space /\ own' = own /\
         supports' = supports
      /\ Again(cap)' = Again(cap) /\ cap # 0 /\ out' = out
  BY StartedFacts, ActorFacts DEF Loads, sessionVars, actorVars, Again
<1>2. shot # 0 /\ stage = "start" /\ shot' = shot /\ stage' = "loaded"
  BY DEF Loads
<1>3. StartParts
  BY StartInvParts
<1>4. shot = cap /\ step[Again(cap)] = "none"
  BY <1>1, <1>2, <1>3 DEF StartParts
<1>5. \A i \in Queued : out[i].cmd # "start"
  BY <1>2, <1>3 DEF StartParts, OneStart
<1>6. \A i \in Unread : /\ inn[i].cmd \notin {"elapsed", "space"}
                        /\ ~(inn[i].cmd = "start" /\ inn[i].res # "ok")
  BY <1>2, <1>3 DEF StartParts, OneNews
<1>7. \A i \in Queued' : OneStart(i)'
  BY <1>1, <1>5 DEF OneStart, Queued
<1>8. ASSUME NEW i \in Unread' PROVE OneNews(i)'
  <2>1. \/ i \in Unread /\ inn'[i] = inn[i]
        \/ i \notin Unread /\ inn'[i] = [cmd |-> "elapsed", res |-> own] /\ i = Len(inn')
        \/ i \notin Unread /\ inn'[i] = [cmd |-> "space", res |-> own] /\ i # Len(inn')
    <3>1. Len(inn) \in Nat
      BY LoadsInn
    <3> QED
      BY <3>1, LoadsInn DEF Unread
  <2>2. CASE i \in Unread /\ inn'[i] = inn[i]
    BY <1>6, <2>2 DEF OneNews
  <2>3. CASE inn'[i] = [cmd |-> "elapsed", res |-> own] /\ i = Len(inn')
    <3>1. \A j \in Unread' : ~(j > i)
      BY <2>3, LoadsInn DEF Unread
    <3>2. supports' => \E j \in Unread' : j < i /\ inn'[j].cmd = "space"
      <4> SUFFICES ASSUME supports PROVE \E j \in Unread' : j < i /\ inn'[j].cmd = "space"
        BY <1>1
      <4>1. inn'[Len(inn) + 1] = [cmd |-> "space", res |-> own] /\ Len(inn') = Len(inn) + 2 /\
               Len(inn) \in Nat
        BY LoadsInn
      <4>2. Len(inn) + 1 \in Unread' /\ Len(inn) + 1 < i
        BY <2>3, <4>1 DEF Unread
      <4> QED
        BY <4>1, <4>2
    <3> QED
      BY <1>1, <1>2, <1>4, <2>3, <3>1, <3>2 DEF OneNews
  <2>4. CASE inn'[i] = [cmd |-> "space", res |-> own]
    BY <1>1, <1>2, <1>4, <2>4 DEF OneNews
  <2> QED
    BY <2>1, <2>2, <2>3, <2>4
<1> QED
  BY <1>1, <1>2, <1>4, <1>7, <1>8 DEF StartParts

\* The session reads something else than a refused start.
LEMMA StartRead ==
    ASSUME SettingsTypeOK, PlaceInv, LastInv, StartInv, SpaceInv, SettingsNext, Started,
              Answer \/ Other \/ Elapsed
    PROVE  StartParts'
<1>1. cap \in Captures /\ cap' = cap /\ Again(cap)' = Again(cap) /\ cap # 0
  BY StartedFacts, CapSame, ActorFacts DEF Again
<1>2. out' = out /\ own' = own /\ supports' = supports /\ shot' = shot /\ stage' = stage
  BY ReadFacts DEF deviceVars
<1>3. StartParts
  BY StartInvParts
<1>4. /\ 1 \in Unread /\ Head(inn) = inn[1]
      /\ \A i \in Unread' : inn'[i] = inn[i + 1] /\ i + 1 \in Unread /\ i \in Int /\ i >= 1
      /\ \A i \in Unread : i \in Int /\ i >= 1 /\ (i # 1 => i - 1 \in Unread' /\
            inn'[i - 1] = inn[i])
  BY ReadFacts DEF Unread
<1>5. OneNews(1)
  BY <1>3, <1>4 DEF StartParts
<1>6. step'[Again(cap)] # "none" => shot = cap /\ stage = "loaded"
  <2>1. CASE step[Again(cap)] # "none"
    BY <1>3, <2>1 DEF StartParts
  <2>2. CASE step[Again(cap)] = "none" /\ Elapsed
    BY <1>4, <1>5, <2>2 DEF OneNews, Elapsed
  <2>3. CASE step[Again(cap)] = "none" /\ ~Elapsed
    BY <1>1, <2>3, AgainMoves
  <2> QED
    BY <2>1, <2>2, <2>3
<1>7. ASSUME NEW i \in Queued' PROVE OneStart(i)'
  <2>1. OneStart(i) /\ i \in Queued
    BY <1>2, <1>3 DEF StartParts, Queued
  <2>2. \A j \in Queued' : j \in Queued
    BY <1>2 DEF Queued
  <2> QED
    BY <1>1, <1>2, <1>4, <2>1, <2>2 DEF OneStart
<1>8. ASSUME NEW i \in Unread' PROVE OneNews(i)'
  <2>1. OneNews(i + 1) /\ inn'[i] = inn[i + 1]
    BY <1>3, <1>4 DEF StartParts
  <2>2. inn'[i].cmd = "start" /\ inn'[i].res # "ok" => shot' = 0 /\
           \A j \in Queued' : out'[j].cmd # "start"
    BY <1>2, <2>1 DEF OneNews, Queued
  <2>3. inn'[i].cmd \in {"elapsed", "space"} => shot' = cap' /\ stage' = "loaded" /\
           step'[Again(cap)'] = "none"
    <3> SUFFICES ASSUME inn'[i].cmd \in {"elapsed", "space"}
                 PROVE  shot' = cap' /\ stage' = "loaded" /\ step'[Again(cap)'] = "none"
      OBVIOUS
    <3>1. shot = cap /\ stage = "loaded" /\ step[Again(cap)] = "none"
      BY <2>1 DEF OneNews
    <3>2. ~Elapsed
      <4> SUFFICES ASSUME inn[1].cmd = "elapsed" PROVE FALSE
        BY <1>4 DEF Elapsed
      <4>1. i + 1 > 1 /\ i + 1 \in Unread
        BY <1>4
      <4> QED
        BY <1>5, <2>1, <4>1 DEF OneNews
    <3> QED
      BY <1>1, <1>2, <3>1, <3>2, AgainMoves
  <2>4. inn'[i].cmd = "elapsed" => \A j \in Unread' : j > i => inn'[j].cmd \notin {"elapsed",
           "space"}
    <3> SUFFICES ASSUME inn'[i].cmd = "elapsed", NEW j \in Unread', j > i
                 PROVE  inn'[j].cmd \notin {"elapsed", "space"}
      OBVIOUS
    <3>1. j + 1 > i + 1 /\ j + 1 \in Unread /\ inn'[j] = inn[j + 1]
      BY <1>4
    <3> QED
      BY <2>1, <3>1 DEF OneNews
  <2>5. inn'[i].cmd = "elapsed" /\ supports' => space' = own' \/ \E j \in Unread' : j < i /\
           inn'[j].cmd = "space"
    <3> SUFFICES ASSUME inn'[i].cmd = "elapsed", supports
                 PROVE  space' = own \/ \E j \in Unread' : j < i /\ inn'[j].cmd = "space"
      BY <1>2
    <3>1. CASE space = own
      <4>1. ~Restart /\ \A c \in Captures : ~Start(c)
        BY StartedFacts, CapSame
      <4> QED
        BY <3>1, <4>1, SpaceStep
    <3>2. CASE \E j \in Unread : j < i + 1 /\ inn[j].cmd = "space"
      <4>1. PICK j \in Unread : j < i + 1 /\ inn[j].cmd = "space"
        BY <3>2
      <4>2. CASE j = 1
        <5>1. Answer \/ Other
          BY <1>4, <4>1, <4>2 DEF Elapsed
        <5>2. space' = Head(inn).res
          BY <1>4, <4>1, <4>2, <5>1 DEF Answer, Other, Detected
        <5> QED
          BY <1>4, <4>1, <4>2, <5>2 DEF SpaceInv
      <4>3. CASE j # 1
        <5>1. j - 1 \in Unread' /\ inn'[j - 1] = inn[j] /\ j - 1 < i
          BY <1>4, <4>1, <4>3
        <5> QED
          BY <4>1, <5>1
      <4> QED
        BY <4>2, <4>3
    <3> QED
      BY <2>1, <3>1, <3>2 DEF OneNews
  <2> QED
    BY <2>2, <2>3, <2>4, <2>5 DEF OneNews
<1> QED
  BY <1>1, <1>2, <1>3, <1>6, <1>7, <1>8 DEF StartParts

\* Another step, by which at most the connection is lost.
LEMMA StartElse ==
    ASSUME SettingsTypeOK, PlaceInv, LastInv, StartInv, SpaceInv, SettingsNext, Started,
           ~Answer, ~Other, ~Elapsed, ~Obeys, ~Loads, ~Ends
    PROVE  StartParts'
<1>1. cap \in Captures /\ cap' = cap /\ Again(cap)' = Again(cap) /\ ~Restart
      /\ \A c \in Captures : ~Start(c) /\ ~SendStart(c)
  BY StartedFacts, CapSame, SendsStart DEF Again
<1>2. own' = own /\ supports' = supports /\ shot' = shot /\ stage' = stage
  BY <1>1, DeviceSame
<1>3. StartParts
  BY StartInvParts
<1>4. space' = space \/ space' = own
  BY <1>1, SpaceStep
<1>5. step'[Again(cap)] = "none" <=> step[Again(cap)] = "none"
  BY <1>1, AgainMoves, AgainStarted
<1>6. inn' = inn \/ inn' = <<>>
  BY <1>1, InnSame DEF TimesOut
<1>7. \A i \in Queued' : out'[i].cmd = "start" => i \in Queued /\ out'[i] = out[i]
  BY <1>1, OutNew
<1>8. \A i \in Unread' : i \in Unread /\ inn' = inn
  BY <1>6, EmptySeq DEF Unread
<1>9. ASSUME NEW i \in Queued' PROVE OneStart(i)'
  BY <1>1, <1>2, <1>3, <1>7, <1>8 DEF OneStart, StartParts
<1>10. ASSUME NEW i \in Unread' PROVE OneNews(i)'
  <2>1. inn' = inn /\ i \in Unread /\ OneNews(i) /\ Unread' = Unread
    BY <1>3, <1>8 DEF StartParts, Unread
  <2>2. inn'[i].cmd = "start" /\ inn'[i].res # "ok" => shot' = 0 /\
           \A j \in Queued' : out'[j].cmd # "start"
    BY <1>2, <1>7, <2>1 DEF OneNews
  <2>3. inn'[i].cmd \in {"elapsed", "space"} => shot' = cap' /\ stage' = "loaded" /\
           step'[Again(cap)'] = "none"
    BY <1>1, <1>2, <1>5, <2>1 DEF OneNews
  <2>4. inn'[i].cmd = "elapsed" =>
          /\ \A j \in Unread' : j > i => inn'[j].cmd \notin {"elapsed", "space"}
          /\ supports' => space' = own' \/ \E j \in Unread' : j < i /\ inn'[j].cmd = "space"
    BY <1>2, <1>4, <2>1 DEF OneNews
  <2> QED
    BY <2>2, <2>3, <2>4 DEF OneNews
<1> QED
  BY <1>1, <1>2, <1>3, <1>5, <1>9, <1>10 DEF StartParts

\* A capture starts by its start.
LEMMA StartsOnce ==
    ASSUME SettingsTypeOK, PlaceInv, LastInv, SettingsNext, ~Started, Started'
    PROVE  \E c \in Captures : SendStart(c)
<1> SUFFICES ASSUME \A c \in Captures : ~SendStart(c) PROVE FALSE
  OBVIOUS
<1>0. step \in [Actors -> Steps]
  BY DEF SettingsTypeOK, ActorTypes
<1>1. ASSUME NEW b \in Actors, busy = b, Answer \/ TimesOut(b) PROVE FALSE
  <2>1. Leads(b) /\ Turns(b) /\ cap' = cap
    BY <1>1, AnswerTurns DEF Answer, TimesOut
  <2>2. phase # "exposing"
    BY DEF Started
  <2>3. CASE b = cap /\ b \in Captures
    <3>1. step[b] \notin RunSteps \/ phase # "busy"
      BY <2>3 DEF Started
    <3>2. CASE step[b] \in RunSteps
      BY <2>1, <2>2, <2>3, <3>1, <3>2 DEF Leads, Started
    <3>3. CASE step[b] \notin RunSteps
      BY <2>1, <2>2, <2>3, <3>3 DEF Leads, Started, Early, AfterQuick, RunSteps
    <3> QED
      BY <3>2, <3>3
  <2>4. CASE b # cap \/ b \notin Captures
    <3>1. phase' = phase
      <4>1. b \in Captures => step[b] \in RunSteps
        BY <1>1, <2>4, BusyFacts, AnswerTurns
      <4>2. b \in Captures => b # cap
        BY <2>4
      <4> QED
        BY <2>1, <4>1, <4>2, ActorFacts DEF Leads
    <3>2. phase = "busy" /\ step'[cap] \in RunSteps
      BY <2>1, <2>2, <3>1 DEF Started
    <3>3. cap \in Captures /\ cap \in Actors
      BY <3>2, CapFacts, ActorFacts DEF PlaceInv, PhasePlace
    <3>4. step'[cap] = step[cap]
      BY <2>1, <2>4, <3>3 DEF Turns
    <3> QED
      BY <3>2, <3>4 DEF Started
  <2> QED
    BY <2>3, <2>4
<1>2. ~Answer
  <2> SUFFICES ASSUME Answer PROVE FALSE
    OBVIOUS
  <2>1. busy \in Actors
    BY BusyFacts DEF Answer
  <2> QED
    BY <1>1, <2>1
<1>3. ASSUME NEW a \in Actors, TimesOut(a) PROVE FALSE
  BY <1>1, <1>3 DEF TimesOut
<1>4. ASSUME NEW c \in Captures, Start(c) PROVE FALSE
  <2>1. cap' = c /\ step'[c] \in Early /\ phase' = "busy"
    BY <1>0, <1>4, ActorFacts DEF Start, Goes, Early
  <2> QED
    BY <2>1 DEF Started, Early, RunSteps
<1>5. cap' = cap /\ phase # "exposing"
  BY <1>4, CapSteps DEF Started
<1>6. phase' = "exposing" => phase' = phase \/ \E a \in Actors : CannotSend(a) /\
         step[a] \in RunSteps /\ a = cap /\ phase = "busy"
  BY <1>2, <1>3, <1>4 DEF SettingsNext, Works, Does, SelectsDefault, SendCommand, Selects,
     Move, CannotSend, Runs, Fails, Refused, ConnectWheel, GetPosition, Other, Elapsed, Ends,
     Restart, Obeys, Loads
<1>7. phase' = "busy" /\ step'[cap] \in RunSteps
  BY <1>5, <1>6 DEF Started
<1>8. phase = "busy"
  BY <1>2, <1>3, <1>4, <1>7 DEF SettingsNext, Works, Does, SelectsDefault, SendCommand,
     Selects, Move, CannotSend, Runs, Fails, Refused, ConnectWheel, GetPosition, Other,
     Elapsed, Ends, Restart, Obeys, Loads
<1>9. cap \in Captures /\ cap \in Actors /\ cap \notin Moves /\ cap # Again(cap) /\
         step[cap] \notin RunSteps
  BY <1>8, CapFacts, ActorFacts DEF PlaceInv, PhasePlace, Started
<1>10. ~Stays(cap)
  BY <1>7, <1>9 DEF Stays
<1>11. ~SelectsDefault(cap)
  BY <1>0, <1>7, <1>9 DEF SelectsDefault, Goes, RunSteps
<1>12. ~CannotSend(cap)
  BY <1>0, <1>7, <1>9 DEF CannotSend, Fails, Goes, RunSteps
<1>13. ~(busy = cap /\ (Answer \/ TimesOut(cap)))
  BY <1>2, <1>3, <1>9
<1> QED
  BY <1>4, <1>9, <1>10, <1>11, <1>12, <1>13, WhoMoves DEF Moved

\* Every step keeps the start, its answer and its notifications those of one capture.
LEMMA StartStep ==
    ASSUME SettingsTypeOK, PlaceInv, LastInv, RestInv, StartInv, SpaceInv, SettingsNext
    PROVE  StartInv'
<1> SUFFICES ASSUME Started' PROVE StartParts'
  BY DEF StartInv, StartParts, OneStart, OneNews
<1>1. CASE Started
  <2>1. ~Ends
    <3>1. Ends => phase' = "idle"
      BY DEF Ends
    <3> QED
      BY <3>1 DEF Started
  <2> QED
    BY <1>1, <2>1, StartObeyed, StartLoaded, StartRead, StartElse
<1>2. CASE ~Started
  <2>1. \E c \in Captures : SendStart(c)
    BY <1>2, StartsOnce
  <2> QED
    BY <2>1, StartSent
<1> QED
  BY <1>1, <1>2

\* A device that takes no values later runs with the stored sequence.
LEMMA StoredStep ==
    ASSUME SettingsTypeOK, PlaceInv, LastInv, QuickInv, RestInv, StartInv, StoredInv, SettingsNext
    PROVE  StoredInv'
<1> SUFFICES ASSUME ~supports', shot' # 0 PROVE dev'.run = Both(cap')
  BY DEF StoredInv, Both
<1>1. ~supports
  BY DeviceSame DEF Obeys
<1>2. dev \in [quick : [Params -> Values], run : [Params -> Values]]
  BY DEF SettingsTypeOK, DeviceTypes
<1>3. Started
  <2> SUFFICES ASSUME ~Started PROVE FALSE
    OBVIOUS
  <2>1. shot = 0 /\ \A i \in Queued : out[i].cmd = "start" => out[i].of = 0
    BY DEF RestInv
  <2>2. CASE Obeys
    BY <2>1, <2>2, ObeysFacts, ObeysOther
  <2>3. CASE ~Obeys
    BY <2>1, <2>3, DeviceSame DEF Ends, Restart
  <2> QED
    BY <2>2, <2>3
<1>4. cap \in Captures /\ cap' = cap /\ Stored = {Both(cap)} /\ ~Restart
  <2>1. cap \in Captures /\ cap' = cap /\ step[cap] \in {"done"} \cup RunSteps /\ ~Restart
    BY <1>3, StartedFacts, CapSame
  <2>2. dev.quick = Both(cap)
    BY <2>1, CapFacts, ActorFacts DEF QuickInv, QuickKept
  <2> QED
    BY <1>1, <2>1, <2>2 DEF Stored
<1>5. ASSUME shot' = shot, dev'.run = dev.run PROVE dev'.run = Both(cap')
  BY <1>1, <1>4, <1>5 DEF StoredInv
<1>6. CASE Obeys
  <2>1. CASE out[1].cmd = "start"
    <3>1. \/ \E run \in Stored : dev' = [dev EXCEPT !.run = run]
          \/ dev' = dev /\ shot' = shot
      BY <1>6, <2>1, ObeysFacts
    <3>2. CASE dev' = dev /\ shot' = shot
      BY <1>5, <3>2
    <3>3. CASE dev' = [dev EXCEPT !.run = Both(cap)]
      BY <1>2, <1>4, <3>3
    <3> QED
      BY <1>4, <3>1, <3>2, <3>3
  <2>2. CASE out[1].cmd # "start"
    <3>1. Head(out) = out[1] /\ out[1] \in Commands
      BY <1>6, ObeysFacts, QueueFacts DEF SettingsTypeOK, WireTypes
    <3>2. dev' = dev \/ \E q : dev' = [dev EXCEPT !.quick = q]
      BY <1>1, <1>6, <2>2, <3>1 DEF Obeys
    <3>3. dev'.run = dev.run
      BY <1>2, <3>2
    <3> QED
      BY <1>5, <1>6, <2>2, <3>3, ObeysOther
  <2> QED
    BY <2>1, <2>2
<1>7. CASE Loads
  BY <1>2, <1>4, <1>7 DEF Loads
<1>8. CASE ~Obeys /\ ~Loads
  <2>1. dev' = dev /\ shot' = shot
    BY <1>4, <1>8, DeviceSame DEF Ends
  <2> QED
    BY <1>5, <2>1
<1> QED
  BY <1>6, <1>7, <1>8

(***************************************************************************)
(* The values that are set again                                           *)
(***************************************************************************)

\* A write of p in the device's namespace.
Sets(i, p) == out[i].cmd = p /\ out[i].id = own

\* Settles, by its parts.
LEMMA SettlesParts ==
    ASSUME NEW p
    PROVE  Settles(p) <=>
             \E k \in 0..Len(out) :
                /\ IF k = 0 THEN dev.run[p] = cap ELSE Sets(k, p) /\ out[k].val = cap
                /\ \A j \in Queued : j > k /\ Sets(j, p) => out[j].val = cap
  BY DEF Settles, Sets

\* Carrying out the first command leaves the value settled.
LEMMA SettlesObeyed ==
    ASSUME SettingsTypeOK, PlaceInv, LastInv, StartInv, Started, supports,
              step[Again(cap)] # "none",
           Obeys, NEW p \in Params, Settles(p)
    PROVE  Settles(p)'
<1>1. cap \in Captures /\ cap # 0 /\ cap' = cap /\ own' = own
  BY StartedFacts, ActorFacts DEF Obeys, sessionVars
<1>2. PICK k \in 0..Len(out) :
         /\ IF k = 0 THEN dev.run[p] = cap ELSE Sets(k, p) /\ out[k].val = cap
         /\ \A j \in Queued : j > k /\ Sets(j, p) => out[j].val = cap
  BY SettlesParts
<1>3. /\ Head(out) = out[1] /\ out[1] \in Commands /\ 1 \in Queued
      /\ Len(out) \in Nat /\ Len(out') = Len(out) - 1 /\ Len(out) >= 1 /\ k \in Nat
      /\ \A i \in Queued' : out'[i] = out[i + 1] /\ i + 1 \in Queued /\ i \in Int /\ i >= 1
  BY ObeysFacts, QueueFacts DEF SettingsTypeOK, WireTypes, Queued
<1>4. out[1].cmd # "start"
  BY <1>1, <1>3 DEF StartInv
<1>5. dev \in [quick : [Params -> Values], run : [Params -> Values]]
  BY DEF SettingsTypeOK, DeviceTypes
<1>6. IF Sets(1, p) THEN dev'.run[p] = out[1].val ELSE dev'.run[p] = dev.run[p]
  <2>1. CASE out[1].cmd \in Params
    <3>1. dev' = IF out[1].id = own THEN [dev EXCEPT !.run[out[1].cmd] = out[1].val] ELSE dev
      BY <1>3, <2>1 DEF Obeys, Params
    <3> QED
      BY <1>5, <2>1, <3>1 DEF Sets
  <2>2. CASE out[1].cmd \notin Params
    <3>1. dev' = dev \/ \E q : dev' = [dev EXCEPT !.quick = q]
      BY <1>3, <1>4, <2>2 DEF Obeys
    <3> QED
      BY <1>5, <2>2, <3>1 DEF Sets
  <2> QED
    BY <2>1, <2>2
<1>7. \A j \in Queued' : Sets(j, p)' <=> Sets(j + 1, p)
  BY <1>1, <1>3 DEF Sets
<1>8. CASE k <= 1
  <2>1. dev'.run[p] = cap
    <3>1. CASE k = 0
      BY <1>2, <1>3, <1>6, <3>1
    <3>2. CASE k = 1
      BY <1>2, <1>6, <3>2
    <3> QED
      BY <1>3, <1>8, <3>1, <3>2
  <2>2. \A j \in Queued' : j > 0 /\ Sets(j, p)' => out'[j].val = cap
    <3> SUFFICES ASSUME NEW j \in Queued', Sets(j + 1, p) PROVE out'[j].val = cap
      BY <1>7
    <3>1. j + 1 > k /\ j + 1 \in Queued /\ out'[j] = out[j + 1]
      BY <1>3, <1>8
    <3> QED
      BY <1>2, <3>1
  <2>3. 0 \in 0..Len(out')
    BY <1>3
  <2> QED
    BY <1>1, <2>1, <2>2, <2>3 DEF Settles, Sets
<1>9. CASE k > 1
  <2>1. k - 1 \in 0..Len(out') /\ k - 1 # 0 /\ k - 1 \in Queued' /\ (k - 1) + 1 = k
    BY <1>3, <1>9 DEF Queued
  <2>2. Sets(k - 1, p)' /\ out'[k - 1].val = cap
    <3>1. out'[k - 1] = out[k]
      BY <1>3, <2>1
    <3> QED
      BY <1>1, <1>2, <1>9, <3>1, <2>1 DEF Sets
  <2>3. \A j \in Queued' : j > k - 1 /\ Sets(j, p)' => out'[j].val = cap
    <3> SUFFICES ASSUME NEW j \in Queued', j > k - 1, Sets(j + 1, p) PROVE out'[j].val = cap
      BY <1>7
    <3>1. j + 1 > k /\ j + 1 \in Queued /\ out'[j] = out[j + 1]
      BY <1>3
    <3> QED
      BY <1>2, <3>1
  <2> QED
    BY <1>1, <2>1, <2>2, <2>3 DEF Settles, Sets
<1> QED
  BY <1>3, <1>8, <1>9

\* So does another command, unless it sets the parameter to another value.
LEMMA SettlesSent ==
    ASSUME SettingsTypeOK, NEW p \in Params, NEW c \in Commands,
           out' = Append(out, c), cap' = cap, own' = own, dev' = dev,
           c.cmd = p /\ c.id = own => c.val = cap
    PROVE  /\ Settles(p) => Settles(p)'
           /\ c.cmd = p /\ c.id = own => Settles(p)'
<1>1. /\ Len(out) \in Nat /\ Len(out') = Len(out) + 1 /\ out'[Len(out) + 1] = c
      /\ \A i \in Queued : out'[i] = out[i] /\ i \in Queued'
      /\ \A i \in Queued' : i \in Queued \/ i = Len(out) + 1
  BY AppendFacts DEF SettingsTypeOK, WireTypes, Queued
<1>2. ASSUME Settles(p) PROVE Settles(p)'
  <2>1. PICK k \in 0..Len(out) :
         /\ IF k = 0 THEN dev.run[p] = cap ELSE Sets(k, p) /\ out[k].val = cap
         /\ \A j \in Queued : j > k /\ Sets(j, p) => out[j].val = cap
    BY <1>2, SettlesParts
  <2>2. k \in 0..Len(out') /\ (k # 0 => k \in Queued)
    BY <1>1 DEF Queued
  <2>3. IF k = 0 THEN dev'.run[p] = cap' ELSE Sets(k, p)' /\ out'[k].val = cap'
    BY <1>1, <2>1, <2>2 DEF Sets
  <2>4. \A j \in Queued' : j > k /\ Sets(j, p)' => out'[j].val = cap'
    <3> SUFFICES ASSUME NEW j \in Queued', j > k, Sets(j, p)' PROVE out'[j].val = cap
      OBVIOUS
    <3>1. CASE j \in Queued
      BY <1>1, <2>1, <3>1 DEF Sets
    <3>2. CASE j = Len(out) + 1
      BY <1>1, <3>2 DEF Sets
    <3> QED
      BY <1>1, <3>1, <3>2
  <2> QED
    BY <2>2, <2>3, <2>4 DEF Settles, Sets
<1>3. ASSUME c.cmd = p /\ c.id = own PROVE Settles(p)'
  <2>1. Len(out') \in 0..Len(out') /\ Len(out') # 0 /\ out'[Len(out')] = c
    BY <1>1
  <2>2. \A j \in Queued' : ~(j > Len(out'))
    BY <1>1 DEF Queued
  <2> QED
    BY <1>3, <2>1, <2>2 DEF Settles
<1> QED
  BY <1>2, <1>3

\* What is settled stays settled while nobody else sets a value.
LEMMA SettlesStep ==
    ASSUME SettingsTypeOK, PlaceInv, LastInv, StartInv, AgainInv, SettingsNext,
           Started, Started', supports, asked = cap, ~spoilt, ~spoilt', step[Again(cap)] # "none",
           NEW p \in Params, Settles(p)
    PROVE  Settles(p)'
<1>1. cap \in Captures /\ cap # 0 /\ cap' = cap /\ ~Restart
      /\ \A c \in Captures : ~Start(c) /\ ~SendStart(c)
  BY StartedFacts, CapSame, SendsStart, ActorFacts
<1>2. own' = own
  BY DeviceSame DEF Obeys
<1>3. shot = cap /\ stage = "loaded" /\ ~Loads /\ ~Ends
  BY <1>1 DEF StartInv, Loads, Ends, Started
<1>4. CASE Obeys
  BY <1>4, SettlesObeyed
<1>5. ASSUME NEW a \in Actors, SendCommand(a) PROVE Settles(p)'
  <2>1. Sendable(a) /\ step[a] # "start" /\ out' = Append(out, Cmd(a)) /\ UNCHANGED deviceVars
    BY <1>5 DEF SendCommand
  <2>2. Cmd(a) \in Commands
    BY <2>1, CmdFacts
  <2>3. a \in Moves \cup {cap, Again(cap)}
    <3>1. ~(a \notin Moves \cup {cap, Again(cap)} /\ cap > 0 /\ step[Again(cap)] # "none")
      BY <1>5 DEF SendCommand, Spoilt
    <3> QED
      BY <1>1, <3>1, ActorFacts
  <2>4. Cmd(a).cmd = p /\ Cmd(a).id = own => Cmd(a).val = cap
    <3>1. CASE a \in Moves
      <4>1. step[a] = "filter"
        BY <2>1, <3>1 DEF PlaceInv, MovePlace, Sendable
      <4>2. Cmd(a).cmd = "int"
        BY <2>1, <4>1, CmdFacts DEF FilterSteps
      <4> QED
        BY <4>2 DEF Params
    <3>2. CASE a = cap
      <4>1. step[a] \in RunSteps /\ a \notin Agains
        BY <1>1, <2>1, <3>2, StartedFacts, ActorFacts DEF Sendable
      <4>2. gain[a] = cap
        BY <1>1, <3>2, CapFacts DEF AgainInv
      <4>3. /\ step[a] = "runexp" => Cmd(a).val = cap
            /\ step[a] = "rungain" => Cmd(a).val = gain[a]
            /\ step[a] = "runframes" => Cmd(a).cmd = "int"
        BY <2>1, <3>2, <4>1, CmdFacts
      <4> QED
        BY <4>1, <4>2, <4>3 DEF RunSteps, Params
    <3>3. CASE a = Again(cap)
      <4>1. a \in Agains /\ step[a] \in RunSteps /\ -a = cap
        BY <1>1, <2>1, <3>3, ActorFacts DEF PlaceInv, CapturePlace, Sendable, Again
      <4>2. gain[a] = cap
        BY <1>1, <3>3 DEF AgainInv
      <4>3. /\ step[a] = "runexp" => Cmd(a).val = -a
            /\ step[a] = "rungain" => Cmd(a).val = gain[a]
            /\ step[a] = "runframes" => Cmd(a).cmd = "int"
        BY <2>1, <4>1, CmdFacts
      <4> QED
        BY <4>1, <4>2, <4>3 DEF RunSteps, Params
    <3> QED
      BY <2>3, <3>1, <3>2, <3>3
  <2>5. cap' = cap /\ own' = own /\ dev' = dev
    BY <1>1, <1>2, <2>1 DEF deviceVars
  <2> QED
    BY <2>1, <2>2, <2>4, <2>5, SettlesSent
<1>6. ASSUME out' = out, dev' = dev PROVE Settles(p)'
  BY <1>1, <1>2, <1>6 DEF Settles, Queued
<1>7. ASSUME NEW a \in Actors, TimesOut(a) PROVE Settles(p)'
  <2>1. Cmd(a).cmd = "int"
    <3>1. ~(Cmd(a).cmd # "int" /\ cap > 0 /\ step[Again(cap)] # "none")
      BY <1>7 DEF TimesOut, Spoilt
    <3> QED
      BY <1>1, <3>1, ActorFacts
  <2>2. out' = out /\ dev' = dev
    BY <1>7, <2>1 DEF TimesOut, deviceVars
  <2> QED
    BY <1>6, <2>2
<1>8. CASE ~Obeys /\ ~(\E a \in Actors : SendCommand(a)) /\ ~(\E a \in Actors : TimesOut(a))
  <2>1. dev' = dev
    BY <1>3, <1>8, DeviceSame
  <2>2. out' = out
    BY <1>1, <1>3, <1>8 DEF SettingsNext, Works, Does, SelectsDefault, Selects, Move,
       CannotSend, Refused, ConnectWheel, GetPosition, Answer, Other, Elapsed, wireVars
  <2> QED
    BY <1>6, <2>1, <2>2
<1> QED
  BY <1>4, <1>5, <1>7, <1>8

\* What AgainInv says once the values are being set again.
SetAgain ==
    LET r == Again(cap) IN
    /\ goal[r] = own /\ gain[r] = cap
    /\ (step[r] = "runexp" /\ busy = r) \/ step[r] \in {"rungain", "runframes"} \/ reached
          => Settles("exp")
    /\ (step[r] = "rungain" /\ busy = r) \/ step[r] = "runframes" \/ reached
          => Settles("gain")

\* The task that sets them begins.
LEMMA SetAgainBegins ==
    ASSUME SettingsTypeOK, PlaceInv, LastInv, StartInv, SpaceInv, AgainInv, SettingsNext,
           cap \in Captures, step[Again(cap)] = "none", step'[Again(cap)] # "none",
           supports, asked = cap
    PROVE  SetAgain'
<1>1. PICK r \in Agains : r = Again(cap) /\ r \in Actors /\ r # Nil
  BY ActorFacts
<1>2. Elapsed /\ Started /\ goal'[r] = (IF space = Nil THEN "default" ELSE space)
              /\ gain'[r] = cap /\ step'[r] = "runexp"
  BY <1>1, AgainMoves
<1>3. cap' = cap /\ own' = own /\ busy' = busy /\ reached' = reached /\ Again(cap)' = r
  BY <1>1, <1>2 DEF Elapsed, sessionVars, deviceVars, Again
<1>4. inn[1].cmd = "elapsed" /\ 1 \in Unread /\ \A j \in Unread : ~(j < 1)
  BY <1>2, ReadFacts DEF Elapsed
<1>5. space = own
  BY <1>2, <1>4 DEF StartInv
<1>6. space # Nil
  BY <1>5, IdFacts, SettingsAssumption DEF SettingsTypeOK, DeviceTypes, SettingsAssumption,
     Spaces
<1>7. busy # r
  BY <1>1, BusyFacts DEF Sendable
<1>8. ~reached
  BY <1>1, CapFacts, ActorFacts DEF AgainInv
<1> QED
  BY <1>2, <1>3, <1>5, <1>6, <1>7, <1>8 DEF SetAgain

\* It goes on.
LEMMA SetAgainGoes ==
    ASSUME SettingsTypeOK, PlaceInv, LastInv, StartInv, AgainInv, SettingsNext,
           Started, Started', supports, asked = cap, ~spoilt, ~spoilt', step[Again(cap)] # "none"
    PROVE  SetAgain'
<1>1. PICK r \in Agains : r = Again(cap) /\ r \in Actors /\ r # Nil /\ r \notin Captures /\
         r \notin Moves
                          /\ cap \in Captures
  BY StartedFacts, ActorFacts
<1>2. cap' = cap /\ own' = own /\ Again(cap)' = r /\ ~Restart /\ \A c \in Captures : ~Start(c)
  BY <1>1, StartedFacts, CapSame, DeviceSame DEF Again, Obeys
<1>3. SetAgain
  BY DEF AgainInv, SetAgain
<1>4. goal'[r] = goal[r] /\ gain'[r] = gain[r]
  <2>1. CASE Stays(r)
    BY <2>1 DEF Stays
  <2>2. CASE busy = r /\ (Answer \/ TimesOut(r))
    BY <1>1, <2>2, AnswerTurns DEF Turns
  <2>3. CASE CannotSend(r)
    BY <2>3 DEF CannotSend
  <2>4. CASE Elapsed
    BY <1>1, <2>4 DEF Elapsed
  <2> QED
    BY <1>1, <2>1, <2>2, <2>3, <2>4, WhoMoves DEF Moved
<1>5. \A p \in Params : Settles(p) => Settles(p)'
  BY SettlesStep
<1>6. ASSUME NEW p \in Params, SendCommand(r), step[r] = IF p = "exp" THEN "runexp" ELSE "rungain"
      PROVE  Settles(p)'
  <2>1. Sendable(r) /\ out' = Append(out, Cmd(r)) /\ dev' = dev /\ p \in {"exp", "gain"}
    BY <1>6 DEF SendCommand, deviceVars, Params
  <2>2. goal[r] = own /\ gain[r] = cap /\ -r = cap
    BY <1>1, <1>3, ActorFacts DEF SetAgain, Again
  <2>3. Cmd(r) \in Commands /\ Cmd(r).cmd = p /\ Cmd(r).id = own /\ Cmd(r).val = cap
    <3>1. CASE p = "exp"
      BY <1>1, <1>6, <2>1, <2>2, <3>1, CmdFacts DEF RunSteps
    <3>2. CASE p = "gain"
      BY <1>1, <1>6, <2>1, <2>2, <3>2, CmdFacts DEF RunSteps
    <3> QED
      BY <2>1, <3>1, <3>2
  <2> QED
    BY <1>2, <2>1, <2>3, SettlesSent
<1>7. CASE busy = r /\ (Answer \/ TimesOut(r))
  <2>1. busy' # r
    BY <1>1, <1>7 DEF Answer, TimesOut
  <2>2. /\ step[r] \in RunSteps
        /\ step[r] = "runexp" => step'[r] \in {"rungain", "done"}
        /\ step[r] = "rungain" => step'[r] \in {"runframes", "done"}
        /\ step[r] = "runframes" => step'[r] = "done"
        /\ reached' => reached \/ step[r] = "runframes"
    BY <1>1, <1>7, AnswerTurns, BusyFacts DEF Tells
  <2>3. step'[r] \in {"rungain", "runframes"} \/ reached' => Settles("exp")
    BY <1>1, <1>3, <1>7, <2>2 DEF SetAgain, RunSteps
  <2>4. step'[r] = "runframes" \/ reached' => Settles("gain")
    BY <1>1, <1>3, <1>7, <2>2 DEF SetAgain, RunSteps
  <2> QED
    BY <1>1, <1>2, <1>3, <1>4, <1>5, <2>1, <2>3, <2>4 DEF SetAgain, Params
<1>8. CASE ~(busy = r /\ (Answer \/ TimesOut(r)))
  <2>1. step'[r] = step[r] \/ step'[r] = "done"
    <3>1. CASE Stays(r)
      BY <3>1 DEF Stays
    <3>2. CASE CannotSend(r)
      <4>1. step[r] \in RunSteps
        BY <1>1, <3>2 DEF CannotSend, Sendable, PlaceInv, CapturePlace
      <4> QED
        BY <1>1, <3>2, <4>1 DEF CannotSend, Runs, Goes, SettingsTypeOK, ActorTypes
    <3>3. CASE Elapsed
      BY <1>1, <3>3 DEF Elapsed
    <3> QED
      BY <1>1, <1>8, <3>1, <3>2, <3>3, WhoMoves DEF Moved
  <2>2. reached' => reached
    <3>1. CASE \E b \in Actors : busy = b /\ (Answer \/ TimesOut(b))
      BY <1>1, <1>8, <3>1, AnswerTurns DEF Tells
    <3>2. CASE ~\E b \in Actors : busy = b /\ (Answer \/ TimesOut(b))
      <4>1. ~Answer /\ ~\E a \in Actors : TimesOut(a)
        BY <3>2, BusyFacts DEF Answer, TimesOut
      <4> QED
        BY <1>2, <4>1 DEF SettingsNext, Works, Does, SelectsDefault, SendStart, SendCommand,
           Selects, Move, CannotSend, Refused, ConnectWheel, GetPosition, Other, Elapsed, Ends,
           Obeys, Loads, sessionVars
    <3> QED
      BY <3>1, <3>2
  <2>3. busy' = r => busy = r \/ SendCommand(r)
    BY <1>1 DEF SettingsNext, Works, Does, Start, SelectsDefault, SendStart, SendCommand,
       Selects, Move, CannotSend, Refused, ConnectWheel, GetPosition, Answer, Other, Elapsed,
       TimesOut, Ends, Restart, Obeys, Loads, wireVars
  <2>4. SendCommand(r) => step' = step
    BY DEF SendCommand, actorVars
  <2>5. (step'[r] = "runexp" /\ busy' = r) \/ step'[r] \in {"rungain", "runframes"} \/ reached'
          => Settles("exp")'
    BY <1>1, <1>3, <1>5, <1>6, <2>1, <2>2, <2>3, <2>4 DEF SetAgain, Params
  <2>6. (step'[r] = "rungain" /\ busy' = r) \/ step'[r] = "runframes" \/ reached'
          => Settles("gain")'
    BY <1>1, <1>3, <1>5, <1>6, <2>1, <2>2, <2>3, <2>4 DEF SetAgain, Params
  <2> QED
    BY <1>1, <1>2, <1>3, <1>4, <2>5, <2>6 DEF SetAgain
<1> QED
  BY <1>7, <1>8

\* Every step keeps what was set again.
LEMMA AgainStep ==
    ASSUME SettingsTypeOK, PlaceInv, LastInv, RestInv, StartInv, SpaceInv, AgainInv, SettingsNext
    PROVE  AgainInv'
<1>0. step \in [Actors -> Steps] /\ gain \in [Actors -> Values] /\ cap \in Int
  BY CapFacts DEF SettingsTypeOK, ActorTypes
<1>1. CASE \E c \in Captures : Start(c)
  <2>1. PICK c \in Captures : Start(c)
    BY <1>1
  <2>2. cap' = c /\ asked' = c /\ reached' = FALSE /\ phase' = "busy" /\ step'[c] \in Early /\
           gain'[c] = c
    BY <1>0, <2>1, ActorFacts DEF Start, Goes, Early
  <2>3. ~Started'
    BY <2>2 DEF Started, Early, RunSteps
  <2> QED
    BY <2>2, <2>3 DEF AgainInv
<1>2. CASE Restart
  <2>1. asked' = 0 /\ reached' = FALSE /\ phase' = "idle"
    BY <1>2 DEF Restart
  <2>2. ~Started' /\ cap' = cap
    BY <1>2, <2>1 DEF Started, Restart
  <2> QED
    BY <1>0, <2>1, <2>2 DEF AgainInv
<1>3. CASE ~Restart /\ ~\E c \in Captures : Start(c)
  <2>1. cap' = cap
    BY <1>3, CapSteps
  <2>2. CASE ~(cap >= 1)
    <3>1. ~Started'
      <4>1. ~Started
        BY <2>2, StartedFacts, ActorFacts
      <4>2. \A c \in Captures : ~SendStart(c)
        BY <2>2, SendsStart, ActorFacts
      <4> QED
        BY <4>1, <4>2, StartsOnce
    <3> QED
      BY <2>1, <2>2, <3>1 DEF AgainInv
  <2>3. CASE cap >= 1
    <3>1. PICK r \in Agains : /\ r = Again(cap) /\ r \in Actors /\ r # Nil /\ r \notin Captures /\ r \notin Moves
                              /\ cap \in Captures /\ cap \in Actors /\ cap \notin Agains /\
                                    cap \notin Moves
                              /\ r # cap
      BY <2>3, CapFacts, ActorFacts
    <3>2. Again(cap)' = r
      BY <2>1, <3>1 DEF Again
    <3>3. asked' = cap => asked = cap
      <4>1. asked' = asked \/ asked' = 0
        BY <1>3 DEF SettingsNext, Works, Does, SelectsDefault, SendStart, SendCommand, Selects,
           Move, CannotSend, Refused, ConnectWheel, GetPosition, Answer, Other, Elapsed,
           TimesOut, Ends, Obeys, Loads, sessionVars
      <4> QED
        BY <1>0, <2>3, <4>1
    <3>4. ~spoilt' => ~spoilt
      BY <1>3 DEF SettingsNext, Works, Does, SelectsDefault, SendStart, SendCommand, Selects,
         Move, CannotSend, Refused, ConnectWheel, GetPosition, Answer, Other, Elapsed,
         TimesOut, Ends, Obeys, Loads, epochVars, Spoilt
    <3>5. asked' = cap => gain'[cap] = cap
      <4> SUFFICES ASSUME asked = cap PROVE gain'[cap] = cap
        BY <3>3
      <4>1. gain[cap] = cap
        BY <2>3 DEF AgainInv
      <4>2. CASE Stays(cap)
        BY <4>1, <4>2 DEF Stays
      <4>3. CASE SelectsDefault(cap) \/ CannotSend(cap)
        BY <4>1, <4>3 DEF SelectsDefault, CannotSend
      <4>4. CASE SendStart(cap)
        BY <1>0, <3>1, <4>4 DEF SendStart
      <4>5. CASE busy = cap /\ (Answer \/ TimesOut(cap))
        BY <3>1, <4>1, <4>5, AnswerTurns DEF Turns
      <4> QED
        BY <1>3, <3>1, <4>2, <4>3, <4>4, <4>5, WhoMoves DEF Moved
    <3>6. reached' => step'[r] = "done"
      <4>1. CASE reached
        <5>1. step[r] = "done"
          BY <2>3, <3>1, <4>1 DEF AgainInv
        <5>2. ~CannotSend(r) /\ ~(busy = r /\ busy # Nil)
          BY <5>1, BusyFacts DEF CannotSend, Sendable
        <5>3. Elapsed => step'[r] = step[r]
          BY <3>1, <5>1 DEF Elapsed
        <5> QED
          BY <3>1, <5>1, <5>2, <5>3, WhoMoves DEF Moved, Stays
      <4>2. CASE ~reached /\ \E b \in Actors : busy = b /\ (Answer \/ TimesOut(b))
        BY <3>1, <4>2, AnswerTurns DEF Tells
      <4>3. CASE ~reached /\ ~\E b \in Actors : busy = b /\ (Answer \/ TimesOut(b))
        <5>1. ~Answer /\ ~\E a \in Actors : TimesOut(a)
          BY <4>3, BusyFacts DEF Answer, TimesOut
        <5> QED
          BY <1>3, <4>3, <5>1 DEF SettingsNext, Works, Does, SelectsDefault, SendStart,
             SendCommand, Selects, Move, CannotSend, Refused, ConnectWheel, GetPosition, Other,
             Elapsed, Ends, Obeys, Loads, sessionVars
      <4> QED
        BY <4>1, <4>2, <4>3
    <3>7. supports' /\ Started' /\ asked' = cap /\ ~spoilt' /\ step'[r] # "none" => SetAgain'
      <4> SUFFICES ASSUME supports', Started', asked' = cap, ~spoilt', step'[r] # "none"
                   PROVE  SetAgain'
        OBVIOUS
      <4>1. supports /\ asked = cap /\ ~spoilt
        BY <3>3, <3>4, DeviceSame DEF Obeys
      <4>2. CASE step[r] = "none"
        BY <3>1, <4>1, <4>2, SetAgainBegins
      <4>3. CASE step[r] # "none"
        <5>1. Started
          <6> SUFFICES ASSUME ~Started PROVE FALSE
            OBVIOUS
          <6>1. phase = "busy"
            BY StartsOnce, SendsStart
          <6> QED
            BY <3>1, <4>3, <6>1 DEF RestInv
        <5> QED
          BY <3>1, <4>1, <4>3, <5>1, SetAgainGoes
      <4> QED
        BY <4>2, <4>3
    <3> QED
      BY <2>1, <3>2, <3>5, <3>6, <3>7 DEF AgainInv, SetAgain
  <2> QED
    BY <2>2, <2>3
<1> QED
  BY <1>1, <1>2, <1>3

(***************************************************************************)
(* The invariant                                                           *)
(***************************************************************************)

\* It holds to begin with.
LEMMA InitSettingsInv == SettingsInit => SettingsInv
<1> SUFFICES ASSUME SettingsInit PROVE SettingsInv
  OBVIOUS
<1>1. /\ phase = "idle" /\ cap = 0 /\ asked = 0 /\ reached = FALSE
      /\ \A a \in Actors : step[a] = "none"
      /\ index = Nil /\ space = Nil /\ doubt = FALSE /\ busy = Nil /\ out = <<>> /\
            inn = <<>> /\ shot = 0
  BY DEF SettingsInit
<1>2. Queued = {} /\ Unread = {}
  BY <1>1, EmptySeq DEF Queued, Unread
<1>3. SettingsTypeOK
  <2>0. <<>> \in Seq(IdSet) /\ <<>> \in Seq(Commands) /\ <<>> \in Seq(Inputs)
    OBVIOUS
  <2>6. MaxRestarts \in Nat
    BY SettingsAssumption DEF SettingsAssumption
  <2>1. 0 \in Values /\ 0 \in 0..NumCaptures /\ <<>> \in Seq(IdSet) /\ <<>> \in Seq(Commands) /\
           <<>> \in Seq(Inputs)
        /\ MaxRestarts \in Nat
    BY <2>0, <2>6, ActorFacts DEF Values
  <2>2. SessionTypes
    <3>1. 0 \in 0..MaxRestarts
      BY <2>6
    <3>2. /\ preferred = Nil /\ live = "unknown" /\ guard = Nil /\ pos = Nil /\ restarts = 0 /\
                spoilt = FALSE
      BY DEF SettingsInit
    <3> QED
      BY <1>1, <2>1, <3>1, <3>2 DEF SessionTypes
  <2>3. ActorTypes
    BY <2>1 DEF SettingsInit, ActorTypes, Steps
  <2>4. WireTypes
    BY <2>1 DEF SettingsInit, WireTypes
  <2>5. DeviceTypes
    <3>1. own \in {"default", "other"} /\ mini \in BOOLEAN /\ supports \in BOOLEAN
      BY SettingsAssumption DEF SettingsInit, SettingsAssumption
    <3> QED
      BY <2>1, <3>1 DEF SettingsInit, DeviceTypes, Preset, Spaces
  <2> QED
    BY <1>1, <2>2, <2>3, <2>4, <2>5 DEF SettingsTypeOK
<1>4. PlaceInv
  <2>1. PhasePlace
    BY <1>1 DEF PhasePlace
  <2>2. \A c \in Captures : CapturePlace(c)
    <3>1. \A c \in Captures : c \in Actors /\ Again(c) \in Actors /\ c > 0 /\ ~(c <= 0) /\
             ~(c < 0) /\ c # 0
      BY ActorFacts
    <3> QED
      BY <1>1, <3>1 DEF CapturePlace, FilterSteps, Early, AfterQuick
  <2>3. \A m \in Moves : MovePlace(m)
    BY <1>1, ActorFacts DEF MovePlace
  <2> QED
    BY <2>1, <2>2, <2>3 DEF PlaceInv
<1>5. LastInv /\ FilterInv /\ WheelInv
  BY <1>1 DEF LastInv, FilterInv, WheelInv, Selecting
<1>6. QuickInv
  BY <1>1, <1>2 DEF QuickInv, QuickSent, QuickAnswered, QuickKept
<1>7. ~Started
  BY <1>1 DEF Started
<1>8. RestInv /\ StartInv
  BY <1>1, <1>2, <1>7 DEF RestInv, StartInv
<1>9. SpaceInv /\ StoredInv /\ AgainInv
  BY <1>1, <1>2, <1>7 DEF SpaceInv, StoredInv, AgainInv
<1> QED
  BY <1>3, <1>4, <1>5, <1>6, <1>8, <1>9 DEF SettingsInv

\* Every step keeps all of it.
LEMMA SettingsInvStep == SettingsInv /\ [SettingsNext]_settingsVars => SettingsInv'
<1> SUFFICES ASSUME SettingsInv, [SettingsNext]_settingsVars PROVE SettingsInv'
  OBVIOUS
<1> USE DEF SettingsInv
<1>1. CASE SettingsNext
  <2>1. SettingsTypeOK' /\ PlaceInv' /\ LastInv'
    BY <1>1, TypesStep, PlaceStep, LastStep
  <2>2. FilterInv' /\ WheelInv'
    BY <1>1, FilterStep, WheelStep
  <2>3. QuickInv'
    BY <1>1, QuickSentStep, QuickAnsweredStep, QuickKeptStep DEF QuickInv
  <2>4. RestInv' /\ StartInv'
    BY <1>1, RestStep, StartStep
  <2>5. SpaceInv' /\ StoredInv' /\ AgainInv'
    BY <1>1, SpaceStep, StoredStep, AgainStep
  <2> QED
    BY <2>1, <2>2, <2>3, <2>4, <2>5
<1>2. CASE UNCHANGED settingsVars
  <2> USE <1>2 DEF settingsVars, sessionVars, filterVars, actorVars, wireVars, deviceVars,
         epochVars
  <2>1. SettingsTypeOK'
    BY DEF SettingsTypeOK, SessionTypes, ActorTypes, WireTypes, DeviceTypes
  <2>2. PlaceInv'
    BY DEF PlaceInv, PhasePlace, CapturePlace, MovePlace
  <2>3. LastInv'
    BY DEF LastInv, Cmd, Sendable
  <2>4. FilterInv' /\ WheelInv'
    BY DEF FilterInv, WheelInv, Selecting, Queued, Unread
  <2>5. QuickInv'
    BY DEF QuickInv, QuickSent, QuickAnswered, QuickKept, Queued, Unread
  <2>6. Started' <=> Started
    BY DEF Started
  <2>7. RestInv' /\ StartInv'
    BY <2>6 DEF RestInv, StartInv, Queued, Unread
  <2>8. SpaceInv' /\ StoredInv'
    BY DEF SpaceInv, StoredInv, Unread
  <2>9. \A p \in Params : Settles(p)' <=> Settles(p)
    BY DEF Settles, Queued
  <2>10. AgainInv'
    BY <2>6, <2>9 DEF AgainInv, Params, Again
  <2> QED
    BY <2>1, <2>2, <2>3, <2>4, <2>5, <2>7, <2>8, <2>10
<1> QED
  BY <1>1, <1>2

\* So it holds throughout.
LEMMA SettingsInvHolds == SettingsSpec => []SettingsInv
  BY InitSettingsInv, SettingsInvStep, PTL DEF SettingsSpec

\* What the first property needs of it.
LEMMA PositionFollows == SettingsInv => Inv
<1> SUFFICES ASSUME SettingsInv PROVE PositionIsWheel
  BY DEF SettingsInv, Inv
<1> QED
  BY DEF SettingsInv, WheelInv, PositionIsWheel

\* What the second needs of it.
LEMMA ReachedFollows == SettingsInv => SettingsReached
<1> SUFFICES ASSUME SettingsInv, shot # 0, shot = cap, asked = cap, (reached /\ ~spoilt) \/
                       ~supports,
                    Written \cap Params = {}
             PROVE  dev.run = Both(cap)
  BY DEF SettingsReached, Both
<1>0. dev.run \in [Params -> Values]
  BY DEF SettingsInv, SettingsTypeOK, DeviceTypes
<1>1. Started
  BY DEF SettingsInv, RestInv
<1>2. CASE ~supports
  BY <1>2 DEF SettingsInv, StoredInv
<1>3. CASE supports
  <2>1. cap >= 1
    BY <1>1, StartedFacts, ActorFacts DEF SettingsInv
  <2>2. reached /\ ~spoilt /\ step[Again(cap)] = "done"
    BY <1>3, <2>1 DEF SettingsInv, AgainInv
  <2>3. Settles("exp") /\ Settles("gain")
    BY <1>1, <1>3, <2>2 DEF SettingsInv, AgainInv
  <2>4. ASSUME NEW p \in Params PROVE dev.run[p] = cap
    <3>1. PICK k \in 0..Len(out) :
             IF k = 0 THEN dev.run[p] = cap ELSE out[k].cmd = p
      BY <2>3 DEF Settles, Params
    <3>2. k = 0
      <4> SUFFICES ASSUME k # 0 PROVE FALSE
        OBVIOUS
      <4>1. Len(out) \in Nat
        BY LenProperties DEF SettingsInv, SettingsTypeOK, WireTypes
      <4>2. k \in 1..Len(out) /\ out[k].cmd = p
        BY <3>1, <4>1
      <4> QED
        BY <4>2 DEF Written
    <3> QED
      BY <3>1, <3>2
  <2> QED
    BY <1>0, <2>4 DEF Both
<1> QED
  BY <1>2, <1>3

\* Whatever filters are asked for, by clients and captures that overtake one another,
\* and whichever answers are late, refused or missing, the position the wheel reports
\* (filterwheel.py, session.py's set_filter_position and _ensure_default_filter) is the
\* filter before the sensor, unless its write was not confirmed or is on its way.
THEOREM SettingsInvariant == SettingsSpec => []Inv
  BY SettingsInvHolds, PositionFollows, PTL

\* Once _reapply_astro_parameters_after_delay has had a capture's exposure time and gain
\* confirmed, in the namespace the device named, the device has them while the capture
\* runs, whichever presets it loaded before; and on a device that takes no such values
\* it has them from the stored sequence that was written before the start.
THEOREM SettingsAreReached == SettingsSpec => []SettingsReached
  BY SettingsInvHolds, ReachedFollows, PTL
=============================================================================
