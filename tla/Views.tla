------------------------------- MODULE Views -------------------------------
(***************************************************************************)
(* What the lists of tasks say: the buckets of tasksRange with the days a  *)
(* recurrence announces, the parents, counts and blockers they are         *)
(* decorated with, the opening brief of a project, and the page "Today"    *)
(* that filters the buckets once more in the browser.                      *)
(*                                                                         *)
(* A list is a function of the rows and of the clock.  The writes that     *)
(* change the rows are single steps here (Entities and Recurrence have     *)
(* them statement by statement), and so is the reading of a list.          *)
(*                                                                         *)
(* Time runs in half days: day d begins at 2d, its noon, where date-only   *)
(* due dates are kept, is 2d + 1.  Tasks are numbered in the order in      *)
(* which they are created.                                                 *)
(***************************************************************************)
EXTENDS Integers, FiniteSets, Sequences

CONSTANTS
  MaxTask,        \* bound: rows 1 .. MaxTask
  StartRows,      \* bound: how many of them are there at the start
  Projects,       \* the projects of the workspace
  Horizon,        \* bound: days 0 .. Horizon
  MaxWrites,      \* bound: writes in a behaviour
  BacklogLimit,   \* rows of a backlog (200)
  BriefLimit,     \* tasks of a brief (20)
  LogPerTask,     \* comments read per task in progress (10)
  None

ASSUME ViewsAssumption ==
  /\ {MaxTask, StartRows, Horizon, MaxWrites} \subseteq Nat /\ StartRows <= MaxTask
  /\ {BacklogLimit, BriefLimit, LogPerTask} \subseteq Nat \ {0}
  /\ None \notin Int /\ None \notin Projects

VARIABLES
  task,      \* the rows of kind task, in the order of creation
  edge,      \* the links, oldest first
  log,       \* the comments, oldest first: the task each is on
  rule,      \* the one recurrence rule
  archived,  \* the projects with status archived
  now,       \* the clock of the daemon and of the browser
  writes     \* number of writes so far

viewsVars == <<task, edge, log, rule, archived, now, writes>>

Tasks == 1 .. Len(task)
Days  == 0 .. Horizon
Times == 0 .. 2 * Horizon + 1

Midnight(x) == x - (x % 2)
Noon(d)     == 2 * d + 1

DueDates == {None} \cup {Noon(d) : d \in Days}

Unfinished == {"open", "in_progress"}
Statuses   == Unfinished \cup {"done", "rejected"}

\* occurrence: the row carries the rule's marker; key: the day the rule made
\* the row for (its idempotency key).
Row(pr, due) ==
  [live |-> TRUE, status |-> "open", due |-> due, completed |-> None,
   updated |-> now, project |-> pr, parent |-> None,
   occurrence |-> FALSE, key |-> None]

NoRule ==
  [enabled |-> FALSE, first |-> 0, next |-> 0, current |-> None, skipped |-> {}]

\* Some open tasks of projects.
ViewsInit ==
  /\ now = 0
  /\ task \in UNION {[1 .. n -> {Row(pr, due) : pr \in Projects,
                                              due \in DueDates}] :
                     n \in 0 .. StartRows}
  /\ edge = <<>> /\ log = <<>>
  /\ rule = NoRule
  /\ archived = {}
  /\ writes = 0

-----------------------------------------------------------------------------
(* The three passes over the rows and the buckets they fill.              *)

\* An answer is asked for with from, to (None: open), projects ({}: all the
\* active ones), and whether done work, the backlog and the days to come are
\* wanted.
InProjects(in, t) ==
  IF in.projects # {} THEN task[t].project \in in.projects
                      ELSE task[t].project \notin archived

Base(in) ==
  {t \in Tasks : /\ task[t].live
                 /\ task[t].status # "rejected"
                 /\ in.done \/ task[t].status # "done"
                 /\ InProjects(in, t)}

InRange(in, x) ==
  (in.from = None \/ x >= in.from) /\ (in.to = None \/ x < in.to)

OverdueCutoff(in) == IF in.from = None THEN now ELSE in.from

\* (a) work that is not started, on its due date.
DueByDue(in) ==
  {t \in Base(in) : /\ task[t].status = "open"
                    /\ task[t].due # None
                    /\ task[t].due >= OverdueCutoff(in)
                    /\ InRange(in, task[t].due)}

\* The day done work is shown on: its completion, or its last change.
EndedAt(t) ==
  IF task[t].completed # None THEN task[t].completed ELSE task[t].updated

\* (b) done work, on the day it ended.
DoneByCompleted(in) ==
  {t \in Base(in) : task[t].status = "done" /\ InRange(in, EndedAt(t))}

\* Mutant: undated work in progress is on today although the backlog has it.
InProgressTodayAlways(in) ==
  {t \in Base(in) : /\ InRange(in, now)
                    /\ task[t].status = "in_progress"
                    /\ task[t].due # None => task[t].due >= OverdueCutoff(in)}

\* (c) work in progress, on today.
InProgressToday(in) ==
  {t \in Base(in) : /\ InRange(in, now)
                    /\ task[t].status = "in_progress"
                    /\ IF task[t].due = None THEN ~in.backlog
                       ELSE task[t].due >= OverdueCutoff(in)}

Scheduled(in) == DueByDue(in) \cup DoneByCompleted(in) \cup InProgressToday(in)

Overdue(in) ==
  {t \in Base(in) : /\ task[t].due # None
                    /\ task[t].due < OverdueCutoff(in)
                    /\ task[t].status # "done"}

Backlog(in) ==
  LET undated == {t \in Base(in) : in.backlog /\ task[t].due = None}
  IN  {t \in undated : Cardinality({u \in undated : u > t}) < BacklogLimit}

\* Mutant: the rows of the occurrences are not looked at.
NoneMaterialized(in) == {}

\* The occurrences the answer shows as rows.
Materialized(in) == {t \in Scheduled(in) : task[t].occurrence}

\* The days a scheduled rule will come to in the window, without those that
\* were skipped and those the same answer shows as rows.
VirtualOccurrences(in) ==
  LET start == IF in.from = None \/ in.from < now THEN now ELSE in.from
      wanted == in.virtual /\ in.to # None /\ rule.enabled
      source == task[rule.current]
      inFilter == in.projects = {} \/ source.project \in in.projects
      real == {task[t].due : t \in Materialized(in)}
  IN  {d \in Days : /\ wanted
                    /\ start < in.to /\ start <= Noon(d) /\ Noon(d) <= in.to
                    /\ inFilter
                    /\ d >= rule.first
                    /\ d \notin rule.skipped
                    /\ Noon(d) \notin real}

-----------------------------------------------------------------------------
(* What the rows of a list carry.                                         *)

\* The links of kind k to t, as their positions: the oldest is the least.
Links(k, t) == {i \in DOMAIN edge : edge[i].kind = k /\ edge[i].to = t}

\* The task a task hangs under: its parentId wins over the oldest edge, and
\* a parent in the trash is not shown.
Parent(t) ==
  LET col == task[t].parent
      via == {i \in Links("parent_of", t) : task[edge[i].from].live}
  IN  IF col # None /\ task[col].live THEN col
      ELSE IF via = {} THEN None
      ELSE edge[CHOOSE i \in via : \A j \in via : i <= j].from

Children(p) ==
  {c \in Tasks : /\ task[c].live
                 /\ \/ task[c].parent = p
                    \/ \E i \in DOMAIN edge :
                         edge[i] = [kind |-> "parent_of", from |-> p, to |-> c]}

Closed(p) == {c \in Children(p) : task[c].status \in {"done", "rejected"}}

BlockersOf(t) ==
  {b \in {edge[i].from : i \in Links("blocks", t)} :
     task[b].live /\ task[b].status \in Unfinished}

-----------------------------------------------------------------------------
(* The opening brief of a project.                                        *)

\* Mutant: the due date comes before the status.
BriefRankByDue(t) ==
  <<IF task[t].due = None THEN 2 * Horizon + 2 ELSE task[t].due,
    IF task[t].status = "in_progress" THEN 0 ELSE 1,
    -t>>

BriefRank(t) ==
  <<IF task[t].status = "in_progress" THEN 0 ELSE 1,
    IF task[t].due = None THEN 2 * Horizon + 2 ELSE task[t].due,
    -t>>

Precedes(a, b) ==
  LET r == BriefRank(a)  s == BriefRank(b)
  IN  \E k \in 1 .. 3 : r[k] < s[k] /\ \A j \in 1 .. k - 1 : r[j] = s[j]

OpenTasks(pr) ==
  LET all == {t \in Tasks : /\ task[t].live
                            /\ task[t].project = pr
                            /\ task[t].status \in Unfinished}
  IN  {t \in all : Cardinality({u \in all : Precedes(u, t)}) < BriefLimit}

StartedInBrief(pr) == {t \in OpenTasks(pr) : task[t].status = "in_progress"}

\* The newest comments on the tasks in progress, LogPerTask for each of them
\* on average; of each task the first that is met.  The answer names the
\* position of the comment in the log.
LatestComments(pr) ==
  LET started == StartedInBrief(pr)
      onThem == {i \in DOMAIN log : log[i] \in started}
      read == {i \in onThem : Cardinality({j \in onThem : j > i})
                                < LogPerTask * Cardinality(started)}
  IN  {i \in read : \A j \in read : log[j] = log[i] => j <= i}

-----------------------------------------------------------------------------
(* The page "Today" (the day view of the calendar filters the same way).  *)

TodayInput ==
  [from |-> Midnight(now), to |-> Midnight(now) + 2, projects |-> {},
   done |-> TRUE, backlog |-> FALSE, virtual |-> FALSE]

IsTaskOverdue(t) ==
  /\ task[t].due # None
  /\ task[t].status \notin {"done", "in_progress", "rejected"}
  /\ task[t].due < Midnight(now)

TodayPage ==
  Scheduled(TodayInput) \cup {t \in Overdue(TodayInput) : IsTaskOverdue(t)}

\* The open tasks and the overdue ones a project's card on the dashboard
\* counts: one answer for the whole workspace, row by row.
DashboardInput ==
  [from |-> None, to |-> None, projects |-> {},
   done |-> FALSE, backlog |-> TRUE, virtual |-> FALSE]

DashboardOpen(pr) ==
  LET rows(b) == Cardinality({t \in b : task[t].project = pr})
  IN  rows(Scheduled(DashboardInput)) + rows(Overdue(DashboardInput))
        + rows(Backlog(DashboardInput))

-----------------------------------------------------------------------------
(* The writes.                                                            *)

Counted ==
  /\ writes < MaxWrites
  /\ writes' = writes + 1
  /\ UNCHANGED now

Write(pr, due) ==
  /\ Counted
  /\ Len(task) < MaxTask
  /\ task' = Append(task, Row(pr, due))
  /\ UNCHANGED <<edge, log, rule, archived>>

\* The row a change of status leaves: the stamp follows done, both ways.
WithStatus(t, s) ==
  [task[t] EXCEPT
     !.status = s, !.updated = now,
     !.completed = IF s = "done" /\ task[t].status # "done" THEN now
                   ELSE IF s # "done" THEN None ELSE @]

\* The rows with the one the rule makes for a day, a copy of the template;
\* when the key is taken the row that has it is used.
WithOccurrence(rows, template, day) ==
  IF \E u \in DOMAIN rows : rows[u].key = day THEN rows
  ELSE Append(rows, [Row(template.project, Noon(day)) EXCEPT
                       !.parent = template.parent,
                       !.occurrence = TRUE, !.key = day])

OccurrenceOf(rows, day) == CHOOSE u \in DOMAIN rows : rows[u].key = day

DayOf(row) == IF row.due = None THEN rule.first ELSE (row.due - 1) \div 2

Later(x, y) == IF x > y THEN x ELSE y

\* The rule goes on from its occurrence t, which has become row, to the first
\* of its days after that one and after now.
Advance(t, row, skip) ==
  LET after == Later(rule.first, (Later(Noon(DayOf(row)), now) + 1) \div 2)
      rows  == WithOccurrence([task EXCEPT ![t] = row], row, after)
  IN  /\ after <= Horizon /\ Len(rows) <= MaxTask
      /\ task' = rows
      /\ rule' = [rule EXCEPT
                    !.current = OccurrenceOf(rows, after), !.next = after,
                    !.skipped = @ \cup (IF skip THEN {DayOf(row)} ELSE {})]

SetStatus(t, s) ==
  /\ Counted
  /\ task[t].live
  /\ s # task[t].status
  /\ IF s = "done" /\ rule.enabled /\ rule.current = t
     THEN Advance(t, WithStatus(t, s), FALSE)
     ELSE task' = [task EXCEPT ![t] = WithStatus(t, s)] /\ UNCHANGED rule
  /\ UNCHANGED <<edge, log, archived>>

SkipOccurrence(t) ==
  /\ Counted
  /\ task[t].live
  /\ rule.enabled /\ rule.current = t
  /\ Advance(t, [task[t] EXCEPT !.status = "rejected", !.updated = now], TRUE)
  /\ UNCHANGED <<edge, log, archived>>

\* Other fields: the due date, the stamp of a done task, which may be set by
\* hand or cleared, and the parent, which is linked as well; the link to a
\* former parent stays.
Update(t, row) ==
  /\ Counted
  /\ task[t].live
  /\ row # task[t]
  /\ task' = [task EXCEPT ![t] = [row EXCEPT !.updated = now]]
  /\ UNCHANGED <<log, rule, archived>>

SetDue(t, due) == Update(t, [task[t] EXCEPT !.due = due]) /\ UNCHANGED edge

SetStamp(t, x) ==
  /\ task[t].status = "done"
  /\ Update(t, [task[t] EXCEPT !.completed = x]) /\ UNCHANGED edge

Linked(k, a, b) ==
  LET e == [kind |-> k, from |-> a, to |-> b]
  IN  IF \E i \in DOMAIN edge : edge[i] = e THEN edge ELSE Append(edge, e)

SetParent(t, p) ==
  /\ p # None => p # t /\ task[p].parent # t
  /\ Update(t, [task[t] EXCEPT !.parent = p])
  /\ edge' = IF p = None THEN edge ELSE Linked("parent_of", p, t)

Trash(t)   == Counted /\ task[t].live
              /\ task' = [task EXCEPT ![t].live = FALSE]
              /\ UNCHANGED <<edge, log, rule, archived>>
Restore(t) == Counted /\ ~task[t].live
              /\ task' = [task EXCEPT ![t].live = TRUE]
              /\ UNCHANGED <<edge, log, rule, archived>>

Link(k, a, b) ==
  /\ Counted
  /\ a # b
  /\ Linked(k, a, b) # edge
  /\ edge' = Linked(k, a, b)
  /\ UNCHANGED <<task, log, rule, archived>>

Comment(t) ==
  /\ Counted
  /\ task[t].live
  /\ log' = Append(log, t)
  /\ UNCHANGED <<task, edge, rule, archived>>

SetArchived(pr, on) ==
  /\ Counted
  /\ on <=> pr \notin archived
  /\ archived' = IF on THEN archived \cup {pr} ELSE archived \ {pr}
  /\ UNCHANGED <<task, edge, log, rule>>

Configure(t) ==
  /\ Counted
  /\ rule = NoRule
  /\ task[t].live /\ task[t].status \in Unfinished /\ task[t].due # None
  /\ task' = [task EXCEPT ![t].occurrence = TRUE]
  /\ LET day == (task[t].due - 1) \div 2
     IN  rule' = [NoRule EXCEPT !.enabled = TRUE, !.current = t,
                                !.first = day, !.next = day + 1]
  /\ UNCHANGED <<edge, log, archived>>

Stop ==
  /\ Counted
  /\ rule.enabled
  /\ rule' = [rule EXCEPT !.enabled = FALSE, !.next = 0]
  /\ UNCHANGED <<task, edge, log, archived>>

\* One step of the materializer: the day it owes up to the end of today.
Materialize ==
  LET rows == WithOccurrence(task, task[rule.current], rule.next)
  IN  /\ rule.enabled
      /\ Noon(rule.next) < Midnight(now) + 2
      /\ Len(rows) <= MaxTask
      /\ task' = rows
      /\ rule' = [rule EXCEPT !.current = OccurrenceOf(rows, rule.next),
                              !.next = @ + 1]
      /\ UNCHANGED <<edge, log, archived, now, writes>>

Tick ==
  /\ now < 2 * Horizon + 1
  /\ now' = now + 1
  /\ UNCHANGED <<task, edge, log, rule, archived, writes>>

ViewsNext ==
  \/ \E pr \in Projects \cup {None}, due \in DueDates : Write(pr, due)
  \/ \E t \in Tasks :
       \/ \E s \in Statuses : SetStatus(t, s)
       \/ SkipOccurrence(t)
       \/ \E due \in DueDates : SetDue(t, due)
       \/ \E x \in {None, 0} : SetStamp(t, x)
       \/ \E p \in Tasks \cup {None} : SetParent(t, p)
       \/ Trash(t) \/ Restore(t)
       \/ \E k \in {"parent_of", "blocks"}, b \in Tasks : Link(k, t, b)
       \/ Comment(t)
       \/ Configure(t)
  \/ \E pr \in Projects, on \in BOOLEAN : SetArchived(pr, on)
  \/ Stop
  \/ Materialize
  \/ Tick

ViewsSpec == ViewsInit /\ [][ViewsNext]_viewsVars

-----------------------------------------------------------------------------
ViewsTypeOK ==
  /\ task \in Seq([live : BOOLEAN, status : Statuses, due : DueDates,
                   completed : Times \cup {None}, updated : Times,
                   project : Projects \cup {None},
                   parent : Tasks \cup {None}, occurrence : BOOLEAN,
                   key : Days \cup {None}])
  /\ Len(task) <= MaxTask
  /\ edge \in Seq([kind : {"parent_of", "blocks"}, from : Tasks, to : Tasks])
  /\ log \in Seq(Tasks)
  /\ rule.enabled \in BOOLEAN
  /\ rule.first \in Days /\ rule.next \in 0 .. Horizon + 1
  /\ rule.current \in Tasks \cup {None} /\ rule.skipped \subseteq Days
  /\ archived \subseteq Projects
  /\ now \in Times /\ writes \in 0 .. MaxWrites

\* How often a task is in an answer.
Buckets(in) == <<Scheduled(in), Overdue(in), Backlog(in)>>
PlacesIn(buckets, t) == Cardinality({b \in DOMAIN buckets : t \in buckets[b]})
Places(in, t) == PlacesIn(Buckets(in), t)

Windows ==
  {w \in [from : {None} \cup {2 * d : d \in Days},
          to : {None} \cup {2 * d + 2 : d \in Days}] :
     w.from = None \/ w.to = None \/ w.from < w.to}

Inputs(done, backlog) ==
  {[from |-> w.from, to |-> w.to, projects |-> p,
    done |-> d, backlog |-> b, virtual |-> TRUE] :
     w \in Windows, p \in {{}} \cup {{pr} : pr \in Projects},
     d \in done, b \in backlog}

ListInputs     == Inputs({TRUE}, BOOLEAN)
CalendarInputs == Inputs(BOOLEAN, {FALSE})

\* The buckets are disjoint for every unfinished task and leave none out:
\* what is due before the end of a window that contains now, what has no due
\* date when the backlog is asked for, and what is in progress today is in
\* exactly one bucket (tasks.ts, 65 to 67, and the test of that name).
ExactlyOneBucket ==
  \A in \in ListInputs :
    LET buckets == Buckets(in)
    IN  \A t \in Tasks :
          (task[t].live /\ task[t].status \in Unfinished /\ InProjects(in, t)) =>
            LET places == PlacesIn(buckets, t)
            IN  /\ places <= 1
                /\ InRange(in, now) /\ (task[t].due # None \/ in.backlog)
                     /\ (task[t].due = None \/ in.to = None \/ task[t].due < in.to)
                     => places = 1
                /\ InRange(in, now) /\ task[t].status = "in_progress" => places = 1

\* Done work is on exactly one day of the calendar, whether its stamp is
\* there or was cleared, and a card of the dashboard counts each unfinished
\* task of its project once.
CountedOnce ==
  /\ \A t \in Tasks :
       (task[t].live /\ task[t].status = "done" /\ task[t].project \notin archived)
         => Cardinality({d \in Days :
              t \in Scheduled([TodayInput EXCEPT !.from = 2 * d,
                                                 !.to = 2 * d + 2])}) = 1
  /\ \A pr \in Projects \ archived :
       DashboardOpen(pr) = Cardinality({t \in Tasks :
         task[t].live /\ task[t].status \in Unfinished /\ task[t].project = pr})

\* What a row points to is there: a task that names a parent is counted
\* among its children, although one query of hierarchyFor prefers the column
\* and the other takes both links; and a task that is said to block another
\* is itself counted as work to be done, unless its project is archived.
LinksLeadSomewhere ==
  \A t \in Tasks :
    /\ task[t].live /\ Parent(t) # None =>
         /\ t \in Children(Parent(t))
         /\ task[t].status \in Unfinished => t \notin Closed(Parent(t))
    /\ \A b \in BlockersOf(t) :
         task[b].project \in archived \/ Places(DashboardInput, b) = 1

\* The lists agree with the rows and with each other.
ListsAgree == ExactlyOneBucket /\ CountedOnce /\ LinksLeadSomewhere

\* The calendar announces no day that is over or was skipped, and none whose
\* open occurrence the same answer already shows.
GhostsAreHonest ==
  \A in \in CalendarInputs : \A d \in VirtualOccurrences(in) :
    /\ Noon(d) >= now /\ d \notin rule.skipped
    /\ \A t \in Tasks :
         (/\ task[t].live /\ task[t].status = "open"
          /\ task[t].occurrence /\ task[t].due = Noon(d))
           => ~InProjects(in, t)

\* A brief with room for the started tasks of a project has them all,
\* whatever is due before them, and as long as no task in progress has more
\* than LogPerTask comments, each has its latest one.
BriefIsComplete ==
  \A pr \in Projects \cup {None} :
    LET started == {t \in Tasks : task[t].live /\ task[t].project = pr
                                  /\ task[t].status = "in_progress"}
        comments(t) == {i \in DOMAIN log : log[i] = t}
    IN  /\ Cardinality(started) <= BriefLimit => started \subseteq OpenTasks(pr)
        /\ (\A t \in started : Cardinality(comments(t)) <= LogPerTask) =>
             \A t \in StartedInBrief(pr) : comments(t) # {} =>
               \E i \in LatestComments(pr) :
                 log[i] = t /\ \A j \in comments(t) : j <= i

\* "in_progress: today, rolling -- surfaces active work even when the due
\* date is in the past or far future" (web/src/components/tasks/utils.ts, 56
\* and 57): work that is started is on the page "Today".
StartedIsOnToday ==
  \A t \in Tasks :
    (/\ task[t].live /\ task[t].status = "in_progress"
     /\ task[t].project \notin archived)
      => t \in TodayPage
=============================================================================
