------------------------------ MODULE Schedules ------------------------------
(***************************************************************************)
(* Shooting plans, kept by the device and managed by two scripts:             *)
(* scripts/dwarf_schedule.py lists, exports, deletes and injects them, and    *)
(* scripts/schedule_plan.py injects one of a single task.                     *)
(*                                                                         *)
(* Times are minutes.  A plan file says on which day the first task is and    *)
(* gives the others by the time of day; the scripts work out the days.  One    *)
(* script runs at a time, and its requests take turns with the telephone's    *)
(* app, which adds plans, and the device, which ends them.  Of a task only     *)
(* its times are kept: what is photographed, and how, is left out.            *)
(*                                                                         *)
(* The device counts minutes; a file has what a clock on the wall says.  To    *)
(* export, each time is converted by the rules of its own day; to inject, all  *)
(* of them by how far the wall clock is ahead now.                             *)
(***************************************************************************)
EXTENDS Integers, Sequences

CONSTANTS
    Day,        \* the length of a day
    Change,     \* the time at which the wall clock is changed
    Shift,      \* by how much it is put forward (back, if negative)
    Dates,      \* the midnights on which a file's plan can begin
    Names,      \* names of plans
    Tasks,      \* the lists of tasks a file may have
    OneTasks,   \* the tasks schedule_plan.py may be given
    AppTasks,   \* the lists of tasks the app may add
    MaxPlans,   \* bound: plans on the device
    MaxClock,   \* bound: plans made
    None

Times == [start : 0..(Day - 1), end : 0..(Day - 1)]
Spans == [start : Int, end : Int]

ASSUME SchedulesAssumption ==
    /\ Day \in Nat \ {0}
    /\ Change \in Int /\ Shift \in Int
    /\ Dates \subseteq Int
    /\ Tasks \subseteq Seq(Times) /\ OneTasks \subseteq Times
    /\ AppTasks \subseteq Seq(Spans) \ {<<>>}
    /\ MaxPlans \in Nat /\ MaxClock \in Nat
    /\ None \notin Int

VARIABLES
    plans,      \* the plans on the device, in the order it gives them
    file,       \* the plans in the file, of which there is one to begin with
    pc,         \* where the script is
    todo,       \* sync_plan: the plans of the file still to do
    left,       \* the tasks of the plan still to place
    zone,       \* tz, by how much the wall clock was ahead as the script began
    parsed,     \* parsed_tasks, in the wall clock's time until they are sent
    midnight,   \* current_day
    minStart, maxEnd,
    clock,      \* counts the plans made, whose ids are the time
    sent,       \* the plan that is being verified
    matched,    \* the id of the plan that verified it
    shown,      \* the ids of the plans as last listed, or <<>> if they changed
    target,     \* what delete_schedule was given, or None
    victim      \* the id of the plan it has found

syncVars == <<todo, left, zone, parsed, midnight, minStart, maxEnd, sent, matched>>
deleteVars == <<target, victim>>
vars == <<plans, file, pc, syncVars, clock, shown, deleteVars>>

Places == {"idle", "plan", "tasks", "verify", "delete"}

Plans == [id : Nat, name : Names, done : BOOLEAN, start : Int, end : Int,
          tasks : Seq(Spans), was : Seq(Spans), zone : Int]

\* was: the times of the plan that was exported, if the file comes from one;
\* and zone: how far the wall clock was ahead as the plan was injected.
Entries == [name : Names, date : Int, tasks : Seq(Times), was : Seq(Spans)]

TypeOK ==
    /\ plans \in Seq(Plans) /\ file \in Seq(Entries)
    /\ pc \in Places
    /\ todo \in Seq(Entries) /\ left \in Seq(Times) /\ parsed \in Seq(Spans)
    /\ zone \in Int /\ midnight \in Int
    /\ minStart \in Int \cup {None} /\ maxEnd \in Int \cup {None}
    /\ (minStart = None) <=> (parsed = <<>>)
    /\ (maxEnd = None) <=> (parsed = <<>>)
    /\ clock \in Nat /\ sent \in Plans \cup {None}

Init ==
    /\ plans = <<>> /\ pc = "idle"
    /\ \E name \in Names, date \in Dates, tasks \in Tasks :
          file = <<[name |-> name, date |-> date, tasks |-> tasks, was |-> <<>>]>>
    /\ todo = <<>> /\ left = <<>> /\ parsed = <<>>
    /\ zone = 0 /\ midnight = 0 /\ minStart = None /\ maxEnd = None
    /\ clock = 0 /\ sent = None /\ matched = None
    /\ shown = <<>> /\ target = None /\ victim = None

(***************************************************************************)
(* Listing and exporting                                                   *)
(***************************************************************************)

\* The plans' places in a new order.
Orders == [1..Len(plans) -> 1..Len(plans)]

\* The latest first; Python's sort keeps the order of equal ones.
Later(i, j) == \/ plans[i].start > plans[j].start
               \/ plans[i].start = plans[j].start /\ i < j

\* Plans that are not done first.
Before(i, j) == \/ ~plans[i].done /\ plans[j].done
                \/ plans[i].done = plans[j].done /\ Later(i, j)

List ==
    /\ pc = "idle" /\ plans # <<>>
    /\ \E order \in Orders :
          /\ \A i, j \in 1..Len(plans) : i < j => Before(order[i], order[j])
          /\ shown' = [n \in 1..Len(plans) |-> plans[order[n]].id]
    /\ UNCHANGED <<plans, file, pc, syncVars, clock, deleteVars>>

\* How far the wall clock is ahead at a time, what it says then, and what the
\* time is if it is ahead by z.
Offset(time) == IF time < Change THEN 0 ELSE Shift

WallFixed(time) == time     \* Mutant of Wall: as if it were never changed.

Wall(time) == time + Offset(time)

Instant(wall, z) == wall - z

Walls(tasks) ==
    [i \in 1..Len(tasks) |-> [start |-> Wall(tasks[i].start), end |-> Wall(tasks[i].end)]]
Instants(tasks, z) ==
    [i \in 1..Len(tasks) |-> [start |-> Instant(tasks[i].start, z),
                              end |-> Instant(tasks[i].end, z)]]

TimesOfDay(tasks) ==
    [i \in 1..Len(tasks) |-> [start |-> tasks[i].start % Day, end |-> tasks[i].end % Day]]

Midnight(wall) == wall - (wall % Day)

\* A plan as the file has it: its first day and times of day on the wall clock,
\* and was, what it came from.
Exported(plan) ==
    [name |-> plan.name, date |-> Midnight(Wall(plan.start)),
     tasks |-> TimesOfDay(Walls(plan.tasks)), was |-> plan.tasks]

Export ==
    /\ pc = "idle" /\ plans # <<>>
    /\ \E order \in Orders :
          /\ \A i, j \in 1..Len(plans) : i < j => Later(order[i], order[j])
          /\ file' = [n \in 1..Len(plans) |-> Exported(plans[order[n]])]
    /\ UNCHANGED <<plans, pc, syncVars, clock, shown, deleteVars>>

(***************************************************************************)
(* Deleting                                                                *)
(***************************************************************************)

Ids == {plans[i].id : i \in 1..Len(plans)}
Named(name) == {i \in 1..Len(plans) : plans[i].name = name}
First(S) == CHOOSE i \in S : \A j \in S : i <= j

\* By its id, or else by its name, or else by its number.
FindById(id) == target' = [by |-> "id", key |-> id] /\ id \in Ids /\ victim' = id
FindByName(name) == /\ target' = [by |-> "name", key |-> name]
                    /\ Named(name) # {}
                    /\ victim' = plans[First(Named(name))].id
FindByNumber(n) == target' = [by |-> "number", key |-> n] /\ victim' = plans[n].id

Find ==
    /\ pc = "idle"
    /\ \/ \E id \in Ids : FindById(id)
       \/ \E name \in Names : FindByName(name)
       \/ \E n \in 1..Len(plans) : FindByNumber(n)
    /\ pc' = "delete"
    /\ UNCHANGED <<plans, file, syncVars, clock, shown>>

\* The request is refused or never arrives, or the device deletes the plan.
Delete ==
    /\ pc = "delete"
    /\ \/ UNCHANGED <<plans, shown>>
       \/ /\ \E i \in 1..Len(plans) :
                /\ plans[i].id = victim
                /\ plans' = SubSeq(plans, 1, i - 1) \o SubSeq(plans, i + 1, Len(plans))
          /\ shown' = <<>>
    /\ pc' = "idle" /\ target' = None /\ victim' = None
    /\ UNCHANGED <<file, syncVars, clock>>

(***************************************************************************)
(* Injecting                                                               *)
(***************************************************************************)

\* The zone is read once, for all the plans.
Sync ==
    /\ pc = "idle" /\ file # <<>>
    /\ zone' \in {0, Shift}
    /\ todo' = file
    /\ pc' = "plan"
    /\ matched' = None
    /\ UNCHANGED <<plans, file, left, parsed, midnight, minStart, maxEnd, sent, clock, shown,
                   deleteVars>>

\* A plan without tasks is passed over.
BeginPlan ==
    /\ pc = "plan" /\ todo # <<>>
    /\ IF Head(todo).tasks = <<>>
       THEN todo' = Tail(todo) /\ UNCHANGED <<pc, midnight, left>>
       ELSE /\ pc' = "tasks"
            /\ midnight' = Head(todo).date /\ left' = Head(todo).tasks
            /\ UNCHANGED todo
    /\ UNCHANGED <<plans, file, zone, parsed, minStart, maxEnd, sent, matched, clock, shown,
                   deleteVars>>

\* A task that would start before the end of the last one is a day later.
StartDay(t) ==
    IF maxEnd # None /\ midnight + t.start < maxEnd THEN midnight + Day ELSE midnight

\* Mutant of EndDay: a task of a whole day is one of no time.
EndDaySame(t) == IF t.end < t.start THEN StartDay(t) + Day ELSE StartDay(t)

\* One that does not end after it starts ends a day later.
EndDay(t) == IF t.end <= t.start THEN StartDay(t) + Day ELSE StartDay(t)

Earliest(a, b) == IF a = None \/ b < a THEN b ELSE a
Latest(a, b) == IF a = None \/ b > a THEN b ELSE a

PlaceTask ==
    /\ pc = "tasks" /\ left # <<>>
    /\ LET t == Head(left)
           start == StartDay(t) + t.start
           end == EndDay(t) + t.end IN
       /\ midnight' = EndDay(t)
       /\ parsed' = Append(parsed, [start |-> start, end |-> end])
       /\ minStart' = Earliest(minStart, start)
       /\ maxEnd' = Latest(maxEnd, end)
    /\ left' = Tail(left)
    /\ UNCHANGED <<plans, file, pc, todo, zone, sent, matched, clock, shown, deleteVars>>

\* The device puts a plan anywhere in its list.
Stores(plan) ==
    /\ \E k \in 0..Len(plans) :
          plans' = SubSeq(plans, 1, k) \o <<plan>> \o SubSeq(plans, k + 1, Len(plans))
    /\ shown' = <<>>

\* Every plan is worked out by itself.
Clear == parsed' = <<>> /\ minStart' = None /\ maxEnd' = None /\ midnight' = 0

\* The plan is stored; refused; or the request fails, which ends the script.
Send ==
    /\ pc = "tasks" /\ left = <<>>
    /\ clock < MaxClock /\ Len(plans) < MaxPlans
    /\ clock' = clock + 1
    /\ \/ LET plan == [id |-> clock, name |-> Head(todo).name, done |-> FALSE,
                       start |-> Instant(minStart, zone), end |-> Instant(maxEnd, zone),
                       tasks |-> Instants(parsed, zone), was |-> Head(todo).was,
                       zone |-> zone] IN
          Stores(plan) /\ sent' = plan /\ pc' = "verify"
       \/ pc' \in {"plan", "idle"} /\ UNCHANGED <<plans, shown, sent>>
    /\ todo' = IF pc' = "idle" THEN <<>> ELSE Tail(todo)
    /\ zone' = IF pc' = "idle" THEN 0 ELSE zone
    /\ Clear
    /\ UNCHANGED <<file, left, matched, deleteVars>>

\* The first plan of the list that has the id or the name, if there is one; or
\* the request fails.
Verify ==
    /\ pc = "verify"
    /\ \/ LET found == {i \in 1..Len(plans) : \/ plans[i].id = sent.id
                                              \/ plans[i].name = sent.name} IN
          /\ matched' = IF found = {} THEN None ELSE plans[First(found)].id
          /\ pc' = "plan" /\ UNCHANGED <<todo, zone>>
       \/ pc' = "idle" /\ todo' = <<>> /\ zone' = 0 /\ UNCHANGED matched
    /\ UNCHANGED <<plans, file, left, parsed, midnight, minStart, maxEnd, sent, clock,
                   shown, deleteVars>>

Synced ==
    /\ pc = "plan" /\ todo = <<>>
    /\ pc' = "idle" /\ sent' = None /\ matched' = None /\ zone' = 0
    /\ UNCHANGED <<plans, file, todo, left, parsed, midnight, minStart, maxEnd, clock,
                   shown, deleteVars>>

\* schedule_plan.py: a plan of one task, today, which ends tomorrow if it does
\* not end after it starts.  It is stored or not; nothing is verified.
OneTask ==
    /\ pc = "idle"
    /\ clock < MaxClock /\ Len(plans) < MaxPlans
    /\ clock' = clock + 1
    /\ \/ \E name \in Names, today \in Dates, t \in OneTasks :
             LET start == today + t.start
                 end == (IF t.end <= t.start THEN today + Day ELSE today) + t.end IN
             \E z \in {0, Shift} :
                 Stores([id |-> clock, name |-> name, done |-> FALSE,
                         start |-> Instant(start, z), end |-> Instant(end, z),
                         tasks |-> Instants(<<[start |-> start, end |-> end]>>, z),
                         was |-> <<>>, zone |-> z])
       \/ UNCHANGED <<plans, shown>>
    /\ UNCHANGED <<file, pc, syncVars, deleteVars>>

(***************************************************************************)
(* The app and the device                                                  *)
(***************************************************************************)

AppAdds ==
    /\ clock < MaxClock /\ Len(plans) < MaxPlans
    /\ clock' = clock + 1
    /\ \E name \in Names, tasks \in AppTasks :
          Stores([id |-> clock, name |-> name, done |-> FALSE, start |-> tasks[1].start,
                  end |-> tasks[Len(tasks)].end, tasks |-> tasks, was |-> <<>>,
                  zone |-> 0])
    /\ UNCHANGED <<file, pc, syncVars, deleteVars>>

PlanEnds ==
    /\ \E i \in 1..Len(plans) :
          /\ ~plans[i].done
          /\ plans' = [plans EXCEPT ![i].done = TRUE]
    /\ shown' = <<>>
    /\ UNCHANGED <<file, pc, syncVars, clock, deleteVars>>

Next ==
    \/ List \/ Export \/ Find \/ Delete \/ Sync \/ BeginPlan \/ PlaceTask \/ Send
    \/ Verify \/ Synced \/ OneTask \/ AppAdds \/ PlanEnds

Spec == Init /\ [][Next]_vars

(***************************************************************************)
(* Properties                                                              *)
(***************************************************************************)

\* Tasks that follow one another, each of them no longer than a day.
Orderly(tasks) ==
    /\ \A i \in 1..Len(tasks) :
          tasks[i].start < tasks[i].end /\ tasks[i].end <= tasks[i].start + Day
    /\ \A i \in 2..Len(tasks) : tasks[i - 1].end <= tasks[i].start

\* Whatever the times of day in the file, and however often the plan runs past
\* midnight, the tasks that sync_plan has placed follow one another, and the
\* plan begins with the first of them and ends with the last.
PlacedInOrder ==
    /\ Orderly(parsed)
    /\ parsed # <<>> => /\ minStart = parsed[1].start
                        /\ maxEnd = parsed[Len(parsed)].end

\* A plan that is exported and injected again has the times it had, though the
\* file keeps one date and the times of day, if on the wall clock its tasks
\* follow one another with less than a day between them: each time is moved by
\* what the wall clock was ahead then and is not, or was not, ahead on injection,
\* and so is what it was unless the clock has been changed in between.
TimesComeBack ==
    \A i \in 1..Len(plans) :
        LET was == plans[i].was
            wall == Walls(was)
            Moved(time) == time + (Offset(time) - plans[i].zone) IN
        /\ was # <<>>
        /\ Orderly(wall)
        /\ \A k \in 2..Len(wall) : wall[k].start < wall[k - 1].end + Day
        => plans[i].tasks = [k \in 1..Len(was) |-> [start |-> Moved(was[k].start),
                                                     end |-> Moved(was[k].end)]]
=============================================================================
