----------------------------- MODULE ViewsProofs -----------------------------
(***************************************************************************)
(* Proofs about Views: for any number of rows, projects, days and writes,  *)
(* the lists agree with the rows, the calendar announces nothing that is   *)
(* not to come, and the brief of a project has the work that was started.  *)
(*                                                                         *)
(* A list is a function of the rows, so that the invariant is only the     *)
(* shape of the rows, the links and the rule, and that a rule that is on   *)
(* has an occurrence.  The work is in the lists: which bucket each row is  *)
(* in, and how many rows there are before a limit.                         *)
(***************************************************************************)
EXTENDS Views, FiniteSetTheorems, SequenceTheorems, WellFoundedInduction, TLAPS

\* A row among n of them.
RowType(n) ==
  [live : BOOLEAN, status : Statuses, due : DueDates, completed : Times \cup {None},
   updated : Times, project : Projects \cup {None}, parent : (1 .. n) \cup {None},
   occurrence : BOOLEAN, key : Days \cup {None}]

RowsOK(rows) == rows \in Seq(RowType(Len(rows)))

RuleOK(r, n) ==
  /\ r \in [enabled : BOOLEAN, first : Days, next : 0 .. Horizon + 1,
            current : (1 .. n) \cup {None}, skipped : SUBSET Days]
  /\ r.enabled => r.current \in 1 .. n

EdgesOK(links, n) ==
  links \in Seq([kind : {"parent_of", "blocks"}, from : 1 .. n, to : 1 .. n])

ViewsInv ==
  /\ RowsOK(task) /\ Len(task) <= MaxTask
  /\ RuleOK(rule, Len(task))
  /\ EdgesOK(edge, Len(task)) /\ log \in Seq(Tasks)
  /\ archived \subseteq Projects /\ now \in Times /\ writes \in 0 .. MaxWrites

-----------------------------------------------------------------------------
(* Rows, links and the rule keep their shape.                              *)

LEMMA RowsGrow ==
  ASSUME NEW n \in Nat, NEW m \in Nat, n <= m
  PROVE  /\ \A r \in RowType(n) : r \in RowType(m)
         /\ \A r : RuleOK(r, n) => RuleOK(r, m)
         /\ \A links : EdgesOK(links, n) => EdgesOK(links, m)
         /\ \A l : l \in Seq(1 .. n) => l \in Seq(1 .. m)
<1>1. 1 .. n \subseteq 1 .. m
  OBVIOUS
<1>2. RowType(n) \subseteq RowType(m)
  BY <1>1 DEF RowType
<1>3. \A r : RuleOK(r, n) => RuleOK(r, m)
  BY <1>1 DEF RuleOK
<1>4. [kind : {"parent_of", "blocks"}, from : 1 .. n, to : 1 .. n]
        \subseteq [kind : {"parent_of", "blocks"}, from : 1 .. m, to : 1 .. m]
  BY <1>1
<1>5. \A links : EdgesOK(links, n) => EdgesOK(links, m)
  BY <1>4, SeqMonotonic DEF EdgesOK
<1>6. \A l : l \in Seq(1 .. n) => l \in Seq(1 .. m)
  BY <1>1, SeqMonotonic
<1> QED
  BY <1>2, <1>3, <1>5, <1>6

LEMMA ClockFacts ==
  /\ Horizon \in Nat /\ MaxTask \in Nat /\ StartRows \in Nat
  /\ \A d \in Days : d \in Nat /\ d <= Horizon /\ Noon(d) \in DueDates /\ Noon(d) \in Int
  /\ \A due \in DueDates \ {None} : \E d \in Days : due = Noon(d)
  /\ \A x \in Times : x \in Nat
  /\ 0 \in Days
BY ViewsAssumption DEF Days, Noon, DueDates, Times

LEMMA RowIsRow ==
  ASSUME NEW n \in Nat, now \in Times, NEW pr \in Projects \cup {None}, NEW due \in DueDates
  PROVE  /\ Row(pr, due) \in RowType(n)
         /\ \A p \in (1 .. n) \cup {None}, day \in Days :
              [Row(pr, due) EXCEPT !.parent = p, !.occurrence = TRUE, !.key = day]
                \in RowType(n)
BY DEF Row, RowType, Statuses, Unfinished

LEMMA RowsReplaced ==
  ASSUME NEW rows, RowsOK(rows), NEW t \in 1 .. Len(rows), NEW r \in RowType(Len(rows))
  PROVE  /\ RowsOK([rows EXCEPT ![t] = r])
         /\ Len([rows EXCEPT ![t] = r]) = Len(rows)
<1>1. PICK n \in Nat : n = Len(rows)
  BY LenProperties DEF RowsOK
<1>2. [rows EXCEPT ![t] = r] \in Seq(RowType(n)) /\ Len([rows EXCEPT ![t] = r]) = n
  BY <1>1, ExceptSeq DEF RowsOK
<1> QED
  BY <1>1, <1>2 DEF RowsOK

LEMMA RowsAppended ==
  ASSUME NEW rows, RowsOK(rows), NEW r, r \in RowType(Len(rows))
  PROVE  /\ RowsOK(Append(rows, r)) /\ Len(rows) \in Nat
         /\ Len(Append(rows, r)) = Len(rows) + 1
         /\ Append(rows, r)[Len(rows) + 1] = r
<1>1. PICK n \in Nat : n = Len(rows)
  BY LenProperties DEF RowsOK
<1>2. RowType(n) \subseteq RowType(n + 1)
  BY RowsGrow
<1>3. /\ Append(rows, r) \in Seq(RowType(n)) /\ Len(Append(rows, r)) = n + 1
      /\ Append(rows, r)[n + 1] = r
  BY <1>1, AppendProperties DEF RowsOK
<1>4. Append(rows, r) \in Seq(RowType(n + 1))
  BY <1>2, <1>3, SeqMonotonic
<1> QED
  BY <1>1, <1>3, <1>4 DEF RowsOK

LEMMA RowAt ==
  ASSUME ViewsInv, NEW t \in Tasks
  PROVE  task[t] \in RowType(Len(task)) /\ Len(task) \in Nat
BY LenProperties, ElementOfSeq DEF ViewsInv, RowsOK, Tasks

\* The rows with an occurrence have a row for its day.
LEMMA OccurrenceAdded ==
  ASSUME NEW rows, RowsOK(rows), NEW r \in RowType(Len(rows)), NEW day \in Days, now \in Times
  PROVE  LET made == WithOccurrence(rows, r, day)
         IN  /\ RowsOK(made)
             /\ Len(rows) \in Nat /\ Len(made) \in Nat /\ Len(rows) <= Len(made)
             /\ OccurrenceOf(made, day) \in 1 .. Len(made)
<1> DEFINE made == WithOccurrence(rows, r, day)
<1>1. PICK n \in Nat : n = Len(rows) /\ DOMAIN rows = 1 .. n
  BY LenProperties DEF RowsOK
<1>2. CASE \E u \in DOMAIN rows : rows[u].key = day
  <2>1. made = rows
    BY <1>2 DEF WithOccurrence
  <2>2. OccurrenceOf(made, day) \in 1 .. n
    BY <1>1, <1>2, <2>1 DEF OccurrenceOf
  <2> QED
    BY <1>1, <2>1, <2>2
<1>3. CASE ~ \E u \in DOMAIN rows : rows[u].key = day
  <2>1. PICK q : q = [Row(r.project, Noon(day)) EXCEPT !.parent = r.parent,
                        !.occurrence = TRUE, !.key = day]
    OBVIOUS
  <2>2. made = Append(rows, q)
    BY <1>3, <2>1 DEF WithOccurrence
  <2>3. q \in RowType(n) /\ q.key = day
    <3>1. r.project \in Projects \cup {None} /\ r.parent \in (1 .. n) \cup {None}
      BY <1>1 DEF RowType
    <3>2. q \in RowType(n)
      BY <2>1, <3>1, ClockFacts, RowIsRow
    <3>3. q.key = day
      BY <2>1 DEF Row
    <3> QED
      BY <3>2, <3>3
  <2>4. RowsOK(made) /\ Len(made) = n + 1 /\ made[n + 1].key = day
    BY <1>1, <2>2, <2>3, RowsAppended
  <2>5. DOMAIN made = 1 .. (n + 1)
    BY <2>4, LenProperties DEF RowsOK
  <2>6. OccurrenceOf(made, day) \in 1 .. (n + 1)
    BY <2>4, <2>5 DEF OccurrenceOf
  <2> QED
    BY <1>1, <2>4, <2>6
<1> QED
  BY <1>2, <1>3

-----------------------------------------------------------------------------
(* The writes.                                                             *)

LEMMA RowsChange ==
  ASSUME ViewsInv, RowsOK(task'), Len(task) <= Len(task'), Len(task') <= MaxTask,
         rule' = rule \/ RuleOK(rule', Len(task')),
         edge' = edge \/ EdgesOK(edge', Len(task')),
         log' = log \/ log' \in Seq(Tasks'),
         archived' \subseteq Projects, now' \in Times, writes' \in 0 .. MaxWrites
  PROVE  ViewsInv'
<1>1. PICK n \in Nat : n = Len(task)
  BY LenProperties DEF ViewsInv, RowsOK
<1>2. PICK m \in Nat : m = Len(task')
  BY LenProperties DEF RowsOK
<1>3. RuleOK(rule', m) /\ EdgesOK(edge', m) /\ log' \in Seq(1 .. m)
  BY <1>1, <1>2, RowsGrow DEF ViewsInv, Tasks
<1> QED
  BY <1>2, <1>3 DEF ViewsInv, Tasks

LEMMA CountedKeeps ==
  ASSUME ViewsInv, Counted
  PROVE  now' = now /\ now' \in Times /\ writes' \in 0 .. MaxWrites
BY ViewsAssumption DEF ViewsInv, Counted

\* One row becomes another.
LEMMA RowChanges ==
  ASSUME ViewsInv, NEW t \in Tasks, NEW r \in RowType(Len(task)),
         task' = [task EXCEPT ![t] = r], UNCHANGED <<log, archived>>,
         rule' = rule \/ RuleOK(rule', Len(task)),
         edge' = edge \/ EdgesOK(edge', Len(task)),
         now' \in Times, writes' \in 0 .. MaxWrites
  PROVE  ViewsInv'
<1>1. RowsOK(task') /\ Len(task') = Len(task)
  BY RowsReplaced DEF ViewsInv, Tasks
<1>2. Len(task) \in Nat /\ Len(task) <= MaxTask /\ archived' \subseteq Projects
  BY LenProperties DEF ViewsInv, RowsOK
<1> QED
  BY <1>1, <1>2, RowsChange

LEMMA WriteKeeps ==
  ASSUME ViewsInv, NEW pr \in Projects \cup {None}, NEW due \in DueDates, Write(pr, due)
  PROVE  ViewsInv'
<1>1. PICK r : r = Row(pr, due)
  OBVIOUS
<1>2. PICK n \in Nat : n = Len(task)
  BY LenProperties DEF ViewsInv, RowsOK
<1>3. r \in RowType(n)
  BY <1>1, RowIsRow DEF ViewsInv
<1>4. /\ task' = Append(task, r) /\ n < MaxTask /\ Counted
      /\ UNCHANGED <<edge, log, rule, archived>>
  BY <1>1, <1>2 DEF Write
<1>5. RowsOK(task') /\ Len(task') = n + 1
  BY <1>2, <1>3, <1>4, RowsAppended DEF ViewsInv
<1>6. n <= Len(task') /\ Len(task') <= MaxTask
  BY <1>4, <1>5, ClockFacts
<1> QED
  BY <1>2, <1>4, <1>5, <1>6, CountedKeeps, RowsChange DEF ViewsInv

LEMMA StatusIsRow ==
  ASSUME NEW n \in Nat, NEW r \in RowType(n), now \in Times, NEW s \in Statuses,
         NEW c \in {None, now, r.completed}
  PROVE  [r EXCEPT !.status = s, !.updated = now, !.completed = c] \in RowType(n)
BY DEF RowType

\* The rule goes on, and the row of its occurrence becomes r.
LEMMA AdvanceKeeps ==
  ASSUME ViewsInv, NEW t \in Tasks, NEW r \in RowType(Len(task)), NEW skip \in BOOLEAN,
         Advance(t, r, skip), Counted, UNCHANGED <<edge, log, archived>>
  PROVE  ViewsInv'
<1>1. PICK n \in Nat : n = Len(task)
  BY LenProperties DEF ViewsInv, RowsOK
<1>2. DayOf(r) \in Days
  <2>1. r.due \in DueDates
    BY DEF RowType
  <2>2. CASE r.due = None
    BY <2>2 DEF DayOf, ViewsInv, RuleOK
  <2>3. CASE r.due # None
    <3>1. PICK d \in Days : r.due = Noon(d)
      BY <2>1, <2>3 DEF DueDates
    <3>2. d \in Nat
      BY ClockFacts
    <3>3. Noon(d) - 1 = 2 * d /\ (2 * d) \div 2 = d
      BY <3>2 DEF Noon
    <3> QED
      BY <2>3, <3>1, <3>3 DEF DayOf
  <2> QED
    BY <2>2, <2>3
<1>3. PICK after : after = Later(rule.first, (Later(Noon(DayOf(r)), now) + 1) \div 2)
  OBVIOUS
<1>4. PICK changed : changed = [task EXCEPT ![t] = r]
  OBVIOUS
<1>5. PICK made : made = WithOccurrence(changed, r, after)
  OBVIOUS
<1>6. /\ after <= Horizon /\ Len(made) <= MaxTask
      /\ task' = made
      /\ rule' = [rule EXCEPT !.current = OccurrenceOf(made, after), !.next = after,
                    !.skipped = @ \cup (IF skip THEN {DayOf(r)} ELSE {})]
  BY <1>3, <1>4, <1>5 DEF Advance
<1>7. after \in Days
  <2>1. rule.first \in Nat /\ rule.first <= Horizon
    BY ClockFacts DEF ViewsInv, RuleOK
  <2>2. Noon(DayOf(r)) \in Nat /\ now \in Nat
    BY <1>2, ClockFacts DEF Noon, ViewsInv
  <2>3. after \in Nat
    BY <1>3, <2>1, <2>2 DEF Later
  <2> QED
    BY <1>6, <2>3, ClockFacts DEF Days
<1>8. RowsOK(changed) /\ Len(changed) = n
  BY <1>1, <1>4, RowsReplaced DEF ViewsInv, Tasks
<1>9. /\ RowsOK(made) /\ n <= Len(made) /\ Len(made) \in Nat
      /\ OccurrenceOf(made, after) \in 1 .. Len(made)
  BY <1>1, <1>5, <1>7, <1>8, OccurrenceAdded DEF ViewsInv
<1>10. PICK m \in Nat : m = Len(made)
  BY <1>9
<1>11. PICK c \in 1 .. m : c = OccurrenceOf(made, after)
  BY <1>9, <1>10
<1>12. RuleOK(rule, m)
  BY <1>1, <1>9, <1>10, RowsGrow DEF ViewsInv
<1>13. PICK more : more = IF skip THEN {DayOf(r)} ELSE {}
  OBVIOUS
<1>14. more \subseteq Days /\ after \in 0 .. Horizon + 1
  BY <1>2, <1>7, <1>13, ClockFacts DEF Days
<1>15. rule' = [rule EXCEPT !.current = c, !.next = after, !.skipped = @ \cup more]
  BY <1>6, <1>11, <1>13
<1>16. RuleOK(rule', m)
  BY <1>11, <1>12, <1>14, <1>15 DEF RuleOK
<1> QED
  BY <1>1, <1>6, <1>9, <1>10, <1>16, CountedKeeps, RowsChange DEF ViewsInv

LEMMA SetStatusKeeps ==
  ASSUME ViewsInv, NEW t \in Tasks, NEW s \in Statuses, SetStatus(t, s)
  PROVE  ViewsInv'
<1>1. PICK r : r = task[t]
  OBVIOUS
<1>2. PICK q : q = WithStatus(t, s)
  OBVIOUS
<1>3. PICK c \in {None, now, r.completed} :
        q = [r EXCEPT !.status = s, !.updated = now, !.completed = c]
  BY <1>1, <1>2 DEF WithStatus
<1>4. r \in RowType(Len(task)) /\ Len(task) \in Nat
  BY <1>1, RowAt
<1>5. q \in RowType(Len(task))
  BY <1>3, <1>4, StatusIsRow DEF ViewsInv
<1>6. Counted /\ UNCHANGED <<edge, log, archived>>
  BY DEF SetStatus
<1>7. CASE Advance(t, q, FALSE)
  BY <1>5, <1>6, <1>7, AdvanceKeeps
<1>8. CASE task' = [task EXCEPT ![t] = q] /\ UNCHANGED rule
  BY <1>5, <1>6, <1>8, CountedKeeps, RowChanges
<1> QED
  BY <1>2, <1>7, <1>8 DEF SetStatus

LEMMA SkipOccurrenceKeeps ==
  ASSUME ViewsInv, NEW t \in Tasks, SkipOccurrence(t)
  PROVE  ViewsInv'
<1>1. PICK r : r = task[t]
  OBVIOUS
<1>2. PICK q : q = [r EXCEPT !.status = "rejected", !.updated = now]
  OBVIOUS
<1>3. r \in RowType(Len(task)) /\ now \in Times
  BY <1>1, RowAt DEF ViewsInv
<1>4. q \in RowType(Len(task))
  BY <1>2, <1>3 DEF RowType, Statuses
<1> QED
  BY <1>1, <1>2, <1>4, AdvanceKeeps DEF SkipOccurrence

\* A row whose fields are set by hand.
LEMMA UpdateKeeps ==
  ASSUME ViewsInv, NEW t \in Tasks, NEW r \in RowType(Len(task)), Update(t, r),
         edge' = edge \/ EdgesOK(edge', Len(task))
  PROVE  ViewsInv'
<1>1. PICK q : q = [r EXCEPT !.updated = now]
  OBVIOUS
<1>2. now \in Times
  BY DEF ViewsInv
<1>3. q \in RowType(Len(task))
  BY <1>1, <1>2 DEF RowType
<1> QED
  BY <1>1, <1>3, CountedKeeps, RowChanges DEF Update

LEMMA EdgesAdded ==
  ASSUME ViewsInv, NEW k \in {"parent_of", "blocks"}, NEW a \in Tasks, NEW b \in Tasks
  PROVE  EdgesOK(Linked(k, a, b), Len(task))
<1>1. PICK e : e = [kind |-> k, from |-> a, to |-> b]
  OBVIOUS
<1>2. e \in [kind : {"parent_of", "blocks"}, from : 1 .. Len(task), to : 1 .. Len(task)]
  BY <1>1 DEF Tasks
<1>3. Linked(k, a, b) \in {edge, Append(edge, e)}
  BY <1>1 DEF Linked
<1>4. EdgesOK(edge, Len(task))
  BY DEF ViewsInv
<1>5. EdgesOK(Append(edge, e), Len(task))
  BY <1>2, <1>4, AppendProperties DEF EdgesOK
<1> QED
  BY <1>3, <1>4, <1>5

LEMMA FieldsKeep ==
  ASSUME ViewsInv, NEW t \in Tasks,
         \/ \E due \in DueDates : SetDue(t, due)
         \/ \E x \in {None, 0} : SetStamp(t, x)
         \/ \E p \in Tasks \cup {None} : SetParent(t, p)
  PROVE  ViewsInv'
<1>1. PICK r : r = task[t]
  OBVIOUS
<1>2. r \in RowType(Len(task)) /\ 0 \in Times
  BY <1>1, RowAt, ClockFacts DEF Times
<1>3. ASSUME NEW due \in DueDates, SetDue(t, due)
      PROVE  ViewsInv'
  <2>1. PICK q : q = [r EXCEPT !.due = due]
    OBVIOUS
  <2>2. q \in RowType(Len(task))
    BY <1>2, <2>1 DEF RowType
  <2> QED
    BY <1>1, <1>3, <2>1, <2>2, UpdateKeeps DEF SetDue
<1>4. ASSUME NEW x \in {None, 0}, SetStamp(t, x)
      PROVE  ViewsInv'
  <2>1. PICK q : q = [r EXCEPT !.completed = x]
    OBVIOUS
  <2>2. q \in RowType(Len(task))
    BY <1>2, <2>1 DEF RowType
  <2> QED
    BY <1>1, <1>4, <2>1, <2>2, UpdateKeeps DEF SetStamp
<1>5. ASSUME NEW p \in Tasks \cup {None}, SetParent(t, p)
      PROVE  ViewsInv'
  <2>1. PICK q : q = [r EXCEPT !.parent = p]
    OBVIOUS
  <2>2. q \in RowType(Len(task))
    BY <1>2, <2>1 DEF RowType, Tasks
  <2>3. edge' = edge \/ EdgesOK(edge', Len(task))
    BY <1>5, EdgesAdded DEF SetParent
  <2> QED
    BY <1>1, <1>5, <2>1, <2>2, <2>3, UpdateKeeps DEF SetParent
<1> QED
  BY <1>3, <1>4, <1>5

LEMMA TrashKeeps ==
  ASSUME ViewsInv, NEW t \in Tasks, Trash(t) \/ Restore(t)
  PROVE  ViewsInv'
<1>1. PICK r : r = task[t]
  OBVIOUS
<1>2. r \in RowType(Len(task))
  BY <1>1, RowAt
<1>3. PICK alive \in BOOLEAN : task' = [task EXCEPT ![t].live = alive]
  BY DEF Trash, Restore
<1>4. PICK q : q = [r EXCEPT !.live = alive]
  OBVIOUS
<1>5. q \in RowType(Len(task))
  BY <1>2, <1>4 DEF RowType
<1>6. task' = [task EXCEPT ![t] = q]
  BY <1>1, <1>3, <1>4
<1> QED
  BY <1>5, <1>6, CountedKeeps, RowChanges DEF Trash, Restore

LEMMA LinkKeeps ==
  ASSUME ViewsInv, NEW k \in {"parent_of", "blocks"}, NEW a \in Tasks, NEW b \in Tasks,
         Link(k, a, b)
  PROVE  ViewsInv'
<1>1. EdgesOK(edge', Len(task))
  BY EdgesAdded DEF Link
<1>2. Len(task) \in Nat
  BY LenProperties DEF ViewsInv, RowsOK
<1> QED
  BY <1>1, <1>2, CountedKeeps, RowsChange DEF Link, ViewsInv

LEMMA CommentKeeps ==
  ASSUME ViewsInv, NEW t \in Tasks, Comment(t)
  PROVE  ViewsInv'
<1>1. log' \in Seq(Tasks) /\ UNCHANGED <<task, edge, rule, archived>> /\ Counted
  BY AppendProperties DEF Comment, ViewsInv
<1>2. Len(task) \in Nat /\ log' \in Seq(Tasks')
  BY <1>1, LenProperties DEF ViewsInv, RowsOK, Tasks
<1> QED
  BY <1>1, <1>2, CountedKeeps, RowsChange DEF ViewsInv

LEMMA ConfigureKeeps ==
  ASSUME ViewsInv, NEW t \in Tasks, Configure(t)
  PROVE  ViewsInv'
<1>1. PICK r : r = task[t]
  OBVIOUS
<1>2. r \in RowType(Len(task)) /\ t \in 1 .. Len(task)
  BY <1>1, RowAt DEF Tasks
<1>3. PICK q : q = [r EXCEPT !.occurrence = TRUE]
  OBVIOUS
<1>4. q \in RowType(Len(task))
  BY <1>2, <1>3 DEF RowType
<1>5. task' = [task EXCEPT ![t] = q]
  BY <1>1, <1>3 DEF Configure
<1>6. r.due \in DueDates \ {None}
  BY <1>1, <1>2 DEF RowType, Configure
<1>7. PICK d \in Days : r.due = Noon(d)
  BY <1>6, ClockFacts
<1>8. d \in Nat /\ d <= Horizon
  BY ClockFacts
<1>9. (Noon(d) - 1) \div 2 = d
  <2>1. Noon(d) - 1 = 2 * d /\ (2 * d) \div 2 = d
    BY <1>8 DEF Noon
  <2> QED
    BY <2>1
<1>10. rule' = [NoRule EXCEPT !.enabled = TRUE, !.current = t, !.first = d, !.next = d + 1]
  BY <1>1, <1>7, <1>9 DEF Configure
<1>11. d + 1 \in 0 .. Horizon + 1
  BY <1>8, ClockFacts
<1>12. RuleOK(rule', Len(task))
  BY <1>2, <1>10, <1>11 DEF RuleOK, NoRule
<1> QED
  BY <1>4, <1>5, <1>12, CountedKeeps, RowChanges DEF Configure

LEMMA StopKeeps ==
  ASSUME ViewsInv, Stop
  PROVE  ViewsInv'
<1>1. rule' = [rule EXCEPT !.enabled = FALSE, !.next = 0] /\ UNCHANGED <<task, edge, log, archived>>
  BY DEF Stop
<1>2. RuleOK(rule', Len(task))
  <2>1. RuleOK(rule, Len(task)) /\ 0 \in 0 .. Horizon + 1
    BY ClockFacts DEF ViewsInv
  <2> QED
    BY <1>1, <2>1 DEF RuleOK
<1>3. Len(task) \in Nat
  BY LenProperties DEF ViewsInv, RowsOK
<1> QED
  BY <1>1, <1>2, <1>3, CountedKeeps, RowsChange DEF Stop, ViewsInv

LEMMA MaterializeKeeps ==
  ASSUME ViewsInv, Materialize
  PROVE  ViewsInv'
<1>1. PICK n \in Nat : n = Len(task)
  BY LenProperties DEF ViewsInv, RowsOK
<1>2. PICK day : day = rule.next
  OBVIOUS
<1>3. PICK r : r = task[rule.current]
  OBVIOUS
<1>4. PICK made : made = WithOccurrence(task, r, day)
  OBVIOUS
<1>5. /\ rule.enabled /\ Noon(day) < Midnight(now) + 2 /\ Len(made) <= MaxTask
      /\ task' = made
      /\ rule' = [rule EXCEPT !.current = OccurrenceOf(made, day), !.next = day + 1]
      /\ UNCHANGED <<edge, log, archived, now, writes>>
  BY <1>2, <1>3, <1>4 DEF Materialize
<1>6. r \in RowType(n)
  BY <1>1, <1>3, <1>5, RowAt DEF ViewsInv, RuleOK, Tasks
<1>7. day \in Nat /\ day <= Horizon
  <2>1. day \in Nat /\ now \in Nat /\ now <= 2 * Horizon + 1 /\ Horizon \in Nat
    BY <1>2, ClockFacts DEF ViewsInv, RuleOK, Times
  <2>2. PICK h \in Nat : Midnight(now) = 2 * h /\ 2 * h <= now
    <3>1. Midnight(now) = 2 * (now \div 2) /\ now \div 2 \in Nat /\ 2 * (now \div 2) <= now
      BY <2>1 DEF Midnight
    <3> QED
      BY <3>1
  <2> QED
    BY <1>5, <2>1, <2>2 DEF Noon
<1>8. day \in Days
  BY <1>7, ClockFacts DEF Days
<1>9. /\ RowsOK(made) /\ n <= Len(made) /\ Len(made) \in Nat
      /\ OccurrenceOf(made, day) \in 1 .. Len(made)
  BY <1>1, <1>4, <1>6, <1>8, OccurrenceAdded DEF ViewsInv
<1>10. PICK m \in Nat : m = Len(made)
  BY <1>9
<1>11. PICK c \in 1 .. m : c = OccurrenceOf(made, day)
  BY <1>9, <1>10
<1>12. PICK later \in 0 .. Horizon + 1 : later = day + 1
  BY <1>7, ClockFacts
<1>13. RuleOK(rule, m)
  BY <1>1, <1>9, <1>10, RowsGrow DEF ViewsInv
<1>14. rule' = [rule EXCEPT !.current = c, !.next = later]
  BY <1>5, <1>11, <1>12
<1>15. RuleOK(rule', m)
  BY <1>11, <1>13, <1>14 DEF RuleOK
<1> QED
  BY <1>1, <1>5, <1>9, <1>10, <1>15, RowsChange DEF ViewsInv

LEMMA ViewsInvInit == ViewsInit => ViewsInv
<1> SUFFICES ASSUME ViewsInit PROVE ViewsInv
  OBVIOUS
<1>1. PICK n \in 0 .. StartRows :
        task \in [1 .. n -> {Row(pr, due) : pr \in Projects, due \in DueDates}]
  BY DEF ViewsInit
<1>2. now \in Times /\ n \in Nat
  BY ClockFacts DEF ViewsInit, Times
<1>3. \A pr \in Projects, due \in DueDates : Row(pr, due) \in RowType(n)
  BY <1>2, RowIsRow
<1>4. task \in [1 .. n -> RowType(n)]
  BY <1>1, <1>3
<1>5. task \in Seq(RowType(n)) /\ Len(task) = n
  BY <1>2, <1>4, IsASeq, LenProperties
<1>6. n <= MaxTask
  BY <1>2, ViewsAssumption
<1>7. RuleOK(rule, n)
  BY ClockFacts DEF ViewsInit, RuleOK, NoRule
<1>8. EdgesOK(edge, n) /\ log \in Seq(Tasks)
  BY EmptySeq DEF ViewsInit, EdgesOK
<1> QED
  BY <1>2, <1>5, <1>6, <1>7, <1>8, ViewsAssumption DEF ViewsInv, RowsOK, ViewsInit

LEMMA ViewsInvInductive ==
  ASSUME ViewsInv, [ViewsNext]_viewsVars
  PROVE  ViewsInv'
<1>1. CASE UNCHANGED viewsVars
  BY <1>1 DEF viewsVars, ViewsInv, Tasks
<1>2. ASSUME NEW pr \in Projects \cup {None}, NEW due \in DueDates, Write(pr, due)
      PROVE  ViewsInv'
  BY <1>2, WriteKeeps
<1>3. ASSUME NEW t \in Tasks,
             \/ \E s \in Statuses : SetStatus(t, s)
             \/ SkipOccurrence(t)
             \/ \E due \in DueDates : SetDue(t, due)
             \/ \E x \in {None, 0} : SetStamp(t, x)
             \/ \E p \in Tasks \cup {None} : SetParent(t, p)
             \/ Trash(t) \/ Restore(t)
             \/ \E k \in {"parent_of", "blocks"}, b \in Tasks : Link(k, t, b)
             \/ Comment(t)
             \/ Configure(t)
      PROVE  ViewsInv'
  BY <1>3, SetStatusKeeps, SkipOccurrenceKeeps, FieldsKeep, TrashKeeps, LinkKeeps,
     CommentKeeps, ConfigureKeeps
<1>4. CASE \E pr \in Projects, on \in BOOLEAN : SetArchived(pr, on)
  <2>1. archived' \subseteq Projects /\ Counted /\ UNCHANGED <<task, edge, log, rule>>
    BY <1>4 DEF SetArchived, ViewsInv
  <2> QED
    BY <2>1, CountedKeeps DEF ViewsInv, Tasks
<1>5. CASE Tick
  <2>1. now' \in Times /\ UNCHANGED <<task, edge, log, rule, archived, writes>>
    BY <1>5, ClockFacts DEF Tick, ViewsInv, Times
  <2> QED
    BY <2>1 DEF ViewsInv, Tasks
<1> QED
  BY <1>1, <1>2, <1>3, <1>4, <1>5, StopKeeps, MaterializeKeeps DEF ViewsNext

LEMMA ViewsInvAlways == ViewsSpec => []ViewsInv
BY ViewsInvInit, ViewsInvInductive, PTL DEF ViewsSpec

\* The rows, the links, the comments and the rule keep their shape: what the
\* writes and the materializer leave names rows that are there, and dates and
\* days of the calendar.
THEOREM ViewsTypesHold == ViewsSpec => []ViewsTypeOK
<1>1. ViewsInv => ViewsTypeOK
  BY DEF ViewsInv, ViewsTypeOK, RowsOK, RowType, RuleOK, EdgesOK, Tasks
<1> QED
  BY <1>1, ViewsInvAlways, PTL

-----------------------------------------------------------------------------
(* Which bucket a row is in.                                               *)

Ends == {None} \cup {2 * d : d \in Nat}

\* What a list is asked for with: a window between two midnights.
Asked(in) ==
  /\ in.from \in Ends /\ in.to \in Ends
  /\ in.done \in BOOLEAN /\ in.backlog \in BOOLEAN

LEMMA InputsAsked ==
  ASSUME NEW D \in SUBSET BOOLEAN, NEW B \in SUBSET BOOLEAN, NEW in \in Inputs(D, B)
  PROVE  Asked(in) /\ in.done \in D /\ in.backlog \in B
<1>1. PICK w \in Windows, p \in {{}} \cup {{pr} : pr \in Projects}, d \in D, b \in B :
        in = [from |-> w.from, to |-> w.to, projects |-> p, done |-> d, backlog |-> b,
              virtual |-> TRUE]
  BY DEF Inputs
<1>2. w.from \in {None} \cup {2 * x : x \in Days} /\ w.to \in {None} \cup {2 * x + 2 : x \in Days}
  BY DEF Windows
<1>3. \A x \in Days : 2 * x \in Ends /\ 2 * x + 2 \in Ends
  <2> TAKE x \in Days
  <2>1. x \in Nat /\ x + 1 \in Nat /\ 2 * x + 2 = 2 * (x + 1)
    BY ClockFacts
  <2> QED
    BY <2>1 DEF Ends
<1>4. in.from = w.from /\ in.to = w.to /\ in.done = d /\ in.backlog = b
  BY <1>1
<1>5. in.from \in Ends /\ in.to \in Ends
  BY <1>2, <1>3, <1>4 DEF Ends
<1> QED
  BY <1>4, <1>5 DEF Asked

LEMMA DashboardAsked == Asked(DashboardInput)
BY DEF Asked, DashboardInput, Ends

LEMMA EndsAreNumbers ==
  ASSUME NEW x \in Ends, x # None
  PROVE  \E h \in Nat : x = 2 * h
BY DEF Ends

LEMMA ViewsTypes ==
  ASSUME ViewsInv, NEW t \in Tasks
  PROVE  /\ now \in Nat
         /\ task[t].due \in DueDates /\ task[t].status \in Statuses
         /\ task[t].due # None => task[t].due \in Nat
         /\ task[t].completed \in Times \cup {None} /\ task[t].updated \in Times
         /\ task[t].project \in Projects \cup {None}
         /\ task[t].parent \in Tasks \cup {None}
<1>1. task[t] \in RowType(Len(task))
  BY RowAt
<1>2. now \in Nat
  BY ClockFacts DEF ViewsInv
<1>3. \A due \in DueDates \ {None} : due \in Nat
  <2> TAKE due \in DueDates \ {None}
  <2>1. PICK d \in Days : due = 2 * d + 1
    BY ClockFacts DEF Noon
  <2>2. d \in Nat
    BY ClockFacts
  <2> QED
    BY <2>1, <2>2
<1> QED
  BY <1>1, <1>2, <1>3 DEF RowType, Tasks

LEMMA CutoffIsNumber ==
  ASSUME ViewsInv, NEW in, Asked(in)
  PROVE  OverdueCutoff(in) \in Nat
<1>1. now \in Nat
  BY ClockFacts DEF ViewsInv
<1>2. in.from # None => in.from \in Nat
  BY EndsAreNumbers DEF Asked
<1> QED
  BY <1>1, <1>2 DEF OverdueCutoff

\* A row that is not done is in a bucket by its due date alone, but for the
\* work in progress without one.
LEMMA BucketOf ==
  ASSUME ViewsInv, NEW in, Asked(in), NEW t \in Tasks,
         task[t].live, task[t].status \in Unfinished, InProjects(in, t)
  PROVE  LET due == task[t].due
             cut == OverdueCutoff(in)
         IN  /\ t \in Overdue(in) <=> due # None /\ due < cut
             /\ t \in Scheduled(in) =>
                  \/ due # None /\ ~ (due < cut)
                  \/ due = None /\ ~ in.backlog
             /\ due # None /\ ~ (due < cut) /\ task[t].status = "open" /\ InRange(in, due) =>
                  t \in Scheduled(in)
             /\ task[t].status = "in_progress" /\ InRange(in, now)
                  /\ (IF due = None THEN ~ in.backlog ELSE ~ (due < cut)) => t \in Scheduled(in)
             /\ t \in Backlog(in) => due = None /\ in.backlog
<1>1. t \in Base(in) /\ task[t].status # "done"
  BY DEF Base, Unfinished
<1>2. PICK due : due = task[t].due
  OBVIOUS
<1>3. PICK cut \in Nat : cut = OverdueCutoff(in)
  BY CutoffIsNumber
<1>4. due # None => due \in Nat /\ (due >= cut <=> ~ (due < cut))
  BY <1>2, ViewsTypes
<1>5. t \in Overdue(in) <=> due # None /\ due < cut
  BY <1>1, <1>2, <1>3 DEF Overdue
<1>6. t \in DueByDue(in) <=>
        task[t].status = "open" /\ due # None /\ ~ (due < cut) /\ InRange(in, due)
  BY <1>1, <1>2, <1>3, <1>4 DEF DueByDue
<1>7. t \in InProgressToday(in) <=>
        /\ InRange(in, now) /\ task[t].status = "in_progress"
        /\ IF due = None THEN ~ in.backlog ELSE ~ (due < cut)
  BY <1>1, <1>2, <1>3, <1>4 DEF InProgressToday
<1>8. t \notin DoneByCompleted(in)
  BY <1>1 DEF DoneByCompleted
<1>9. t \in Backlog(in) => due = None /\ in.backlog
  BY <1>2 DEF Backlog
<1> QED
  BY <1>2, <1>3, <1>5, <1>6, <1>7, <1>8, <1>9 DEF Scheduled

-----------------------------------------------------------------------------
(* The calendar.                                                           *)

\* The calendar announces no day that is over or was skipped, and none whose
\* open occurrence the same answer shows: a row that is due at the noon of an
\* announced day is in the window, whose ends are midnights (tasks.ts,
\* virtualOccurrences).
THEOREM GhostsHold == ViewsSpec => []GhostsAreHonest
<1>1. ViewsInv => GhostsAreHonest
  <2> SUFFICES ASSUME ViewsInv, NEW in \in CalendarInputs, NEW d \in VirtualOccurrences(in)
               PROVE  /\ Noon(d) >= now /\ d \notin rule.skipped
                      /\ \A t \in Tasks :
                           (/\ task[t].live /\ task[t].status = "open"
                            /\ task[t].occurrence /\ task[t].due = Noon(d))
                             => ~ InProjects(in, t)
    BY DEF GhostsAreHonest
  <2>1. Asked(in)
    BY InputsAsked DEF CalendarInputs
  <2>2. PICK start : start = IF in.from = None \/ in.from < now THEN now ELSE in.from
    OBVIOUS
  <2>3. /\ d \in Days /\ in.to # None /\ start <= Noon(d) /\ Noon(d) <= in.to
        /\ d \notin rule.skipped
        /\ Noon(d) \notin {task[t].due : t \in Materialized(in)}
    BY <2>2 DEF VirtualOccurrences
  <2>4. /\ now \in Nat /\ d \in Nat
        /\ in.from # None => in.from \in Nat
    BY <2>1, <2>3, ClockFacts, EndsAreNumbers DEF Asked, ViewsInv
  <2>5. PICK h \in Nat : in.to = 2 * h
    BY <2>1, <2>3, EndsAreNumbers DEF Asked
  <2>6. PICK noon \in Nat : noon = Noon(d) /\ noon = 2 * d + 1
    BY <2>4 DEF Noon
  <2>7. noon < in.to
    BY <2>3, <2>4, <2>5, <2>6
  <2>8. noon >= now /\ (in.from # None => noon >= in.from)
    BY <2>2, <2>3, <2>4, <2>6
  <2>9. InRange(in, noon) /\ ~ (noon < OverdueCutoff(in))
    BY <2>4, <2>6, <2>7, <2>8 DEF InRange, OverdueCutoff
  <2>10. ASSUME NEW t \in Tasks, task[t].live, task[t].status = "open",
                task[t].occurrence, task[t].due = noon, InProjects(in, t)
         PROVE  FALSE
    <3>1. noon # None
      BY <2>6, ViewsAssumption
    <3>2. t \in Scheduled(in)
      BY <2>1, <2>9, <2>10, <3>1, BucketOf DEF Unfinished
    <3>3. t \in Materialized(in)
      BY <2>10, <3>2 DEF Materialized
    <3> QED
      BY <2>3, <2>6, <2>10, <3>3
  <2> QED
    BY <2>3, <2>6, <2>8, <2>10
<1> QED
  BY <1>1, ViewsInvAlways, PTL

-----------------------------------------------------------------------------
(* One bucket for each row.                                                *)

LEMMA PlacesOnce ==
  ASSUME NEW A, NEW B, NEW C, NEW t,
         ~ (t \in A /\ t \in B), ~ (t \in A /\ t \in C), ~ (t \in B /\ t \in C)
  PROVE  /\ PlacesIn(<<A, B, C>>, t) <= 1
         /\ t \in A \/ t \in B \/ t \in C => PlacesIn(<<A, B, C>>, t) = 1
<1> DEFINE on == {b \in 1 .. 3 : t \in <<A, B, C>>[b]}
<1>1. PlacesIn(<<A, B, C>>, t) = Cardinality(on)
  BY DEF PlacesIn
<1>2. \A b : b \in on <=> \/ b = 1 /\ t \in A
                          \/ b = 2 /\ t \in B
                          \/ b = 3 /\ t \in C
  OBVIOUS
<1>3. CASE t \in A
  <2>1. on = {1}
    BY <1>2, <1>3
  <2>2. PlacesIn(<<A, B, C>>, t) = 1
    BY <1>1, <2>1, FS_Singleton
  <2> HIDE DEF on
  <2> QED
    BY <2>2
<1>4. CASE t \in B
  <2>1. on = {2}
    BY <1>2, <1>4
  <2>2. PlacesIn(<<A, B, C>>, t) = 1
    BY <1>1, <2>1, FS_Singleton
  <2> HIDE DEF on
  <2> QED
    BY <2>2
<1>5. CASE t \in C
  <2>1. on = {3}
    BY <1>2, <1>5
  <2>2. PlacesIn(<<A, B, C>>, t) = 1
    BY <1>1, <2>1, FS_Singleton
  <2> HIDE DEF on
  <2> QED
    BY <2>2
<1>6. CASE ~ (t \in A \/ t \in B \/ t \in C)
  <2>1. on = {}
    BY <1>2, <1>6
  <2> QED
    BY <1>1, <1>6, <2>1, FS_EmptySet
<1> QED
  BY <1>3, <1>4, <1>5, <1>6

\* With no more rows than the backlog of an answer holds, none is left out.
LEMMA BacklogHasRoom ==
  ASSUME ViewsInv, MaxTask <= BacklogLimit, NEW in, NEW t \in Base(in),
         in.backlog, task[t].due = None
  PROVE  t \in Backlog(in)
<1> DEFINE undated == {u \in Base(in) : in.backlog /\ task[u].due = None}
           newer == {u \in undated : u > t}
<1>1. PICK n \in Nat : n = Len(task)
  BY LenProperties DEF ViewsInv, RowsOK
<1>2. t \in 1 .. n /\ Base(in) \subseteq 1 .. n
  BY <1>1 DEF Base, Tasks
<1>3. newer \subseteq (t + 1) .. n
  BY <1>2
<1>4. IsFiniteSet((t + 1) .. n) /\ Cardinality((t + 1) .. n) <= n - t
  <2>1. PICK a \in Int : a = t + 1
    BY <1>2
  <2>2. IsFiniteSet(a .. n) /\ Cardinality(a .. n) = IF a > n THEN 0 ELSE n - a + 1
    BY FS_Interval
  <2>3. t \in Nat /\ t <= n
    BY <1>2
  <2>4. Cardinality(a .. n) <= n - t
    BY <2>1, <2>2, <2>3
  <2> QED
    BY <2>1, <2>2, <2>4
<1>5. IsFiniteSet(newer) /\ Cardinality(newer) <= Cardinality((t + 1) .. n)
  BY <1>3, <1>4, FS_Subset
<1>6. Cardinality(newer) \in Nat /\ Cardinality((t + 1) .. n) \in Nat
  BY <1>4, <1>5, FS_CardinalityType
<1>7. n <= MaxTask /\ MaxTask \in Nat /\ BacklogLimit \in Nat
  BY <1>1, ViewsAssumption DEF ViewsInv
<1>8. Cardinality(newer) < BacklogLimit
  BY <1>2, <1>4, <1>5, <1>6, <1>7
<1>9. t \in undated
  OBVIOUS
<1> QED
  BY <1>8, <1>9 DEF Backlog

\* The bucket of a row whose due date is in the window, or that belongs to
\* today, or to the backlog.
LEMMA OneBucket ==
  ASSUME ViewsInv, MaxTask <= BacklogLimit, NEW in, Asked(in), NEW t \in Tasks,
         task[t].live, task[t].status \in Unfinished, InProjects(in, t)
  PROVE  /\ PlacesIn(Buckets(in), t) <= 1
         /\ InRange(in, now) /\ (task[t].due # None \/ in.backlog)
              /\ (task[t].due = None \/ in.to = None \/ task[t].due < in.to)
              => PlacesIn(Buckets(in), t) = 1
         /\ InRange(in, now) /\ task[t].status = "in_progress" =>
              PlacesIn(Buckets(in), t) = 1
<1>1. PICK due : due = task[t].due
  OBVIOUS
<1>2. PICK cut \in Nat : cut = OverdueCutoff(in)
  BY CutoffIsNumber
<1>3. /\ t \in Overdue(in) <=> due # None /\ due < cut
      /\ t \in Scheduled(in) => \/ due # None /\ ~ (due < cut)
                                \/ due = None /\ ~ in.backlog
      /\ due # None /\ ~ (due < cut) /\ task[t].status = "open" /\ InRange(in, due) =>
           t \in Scheduled(in)
      /\ task[t].status = "in_progress" /\ InRange(in, now)
           /\ (IF due = None THEN ~ in.backlog ELSE ~ (due < cut)) => t \in Scheduled(in)
      /\ t \in Backlog(in) => due = None /\ in.backlog
  BY <1>1, <1>2, BucketOf
<1>4. /\ PlacesIn(Buckets(in), t) <= 1
      /\ t \in Scheduled(in) \/ t \in Overdue(in) \/ t \in Backlog(in) =>
           PlacesIn(Buckets(in), t) = 1
  BY <1>3, PlacesOnce DEF Buckets
<1>5. due = None /\ in.backlog => t \in Backlog(in)
  BY <1>1, BacklogHasRoom DEF Base, Unfinished
<1>6. /\ now \in Nat /\ (due # None => due \in Nat)
      /\ (in.from # None => in.from \in Nat) /\ (in.to # None => in.to \in Nat)
  BY <1>1, ViewsTypes, EndsAreNumbers DEF Asked
<1>7. due # None /\ ~ (due < cut) /\ (in.to = None \/ due < in.to) => InRange(in, due)
  BY <1>2, <1>6 DEF InRange, OverdueCutoff
<1>8. task[t].status = "open" \/ task[t].status = "in_progress"
  BY DEF Unfinished
<1> QED
  BY <1>1, <1>3, <1>4, <1>5, <1>7, <1>8

LEMMA ExactlyOneBucketHolds ==
  ASSUME ViewsInv, MaxTask <= BacklogLimit
  PROVE  ExactlyOneBucket
<1>1. \A in \in ListInputs : Asked(in)
  BY InputsAsked DEF ListInputs
<1> QED
  BY <1>1, OneBucket DEF ExactlyOneBucket

\* Done work is on the one day of the calendar that it ended on.
LEMMA DoneOnOneDay ==
  ASSUME ViewsInv, NEW t \in Tasks,
         task[t].live, task[t].status = "done", task[t].project \notin archived
  PROVE  Cardinality({d \in Days :
           t \in Scheduled([TodayInput EXCEPT !.from = 2 * d, !.to = 2 * d + 2])}) = 1
<1> DEFINE day(d) == [TodayInput EXCEPT !.from = 2 * d, !.to = 2 * d + 2]
           on == {d \in Days : t \in Scheduled(day(d))}
<1>1. PICK x : x = EndedAt(t)
  OBVIOUS
<1>2. x \in Nat /\ x <= 2 * Horizon + 1
  <2>1. x \in Times
    BY <1>1, ViewsTypes DEF EndedAt
  <2> QED
    BY <2>1, ClockFacts DEF Times
<1>3. \A d \in Days : d \in Nat /\ 2 * d # None /\ 2 * d + 2 # None
  BY ClockFacts, ViewsAssumption
<1>4. \A d \in Days : t \in Scheduled(day(d)) <=> x >= 2 * d /\ x < 2 * d + 2
  <2> TAKE d \in Days
  <2>1. PICK in : in = day(d)
    OBVIOUS
  <2>2. /\ in.from = 2 * d /\ in.to = 2 * d + 2
        /\ in.projects = {} /\ in.done = TRUE
    BY <2>1 DEF TodayInput
  <2>3. t \in Base(in)
    BY <2>2 DEF Base, InProjects
  <2>4. t \in DoneByCompleted(in) <=> x >= 2 * d /\ x < 2 * d + 2
    BY <1>1, <1>3, <2>2, <2>3 DEF DoneByCompleted, InRange
  <2>5. t \notin DueByDue(in) /\ t \notin InProgressToday(in)
    BY DEF DueByDue, InProgressToday
  <2> QED
    BY <2>1, <2>4, <2>5 DEF Scheduled
<1>5. PICK e \in Nat : e = x \div 2 /\ x >= 2 * e /\ x < 2 * e + 2
  <2>1. x \div 2 \in Nat /\ x >= 2 * (x \div 2) /\ x < 2 * (x \div 2) + 2
    BY <1>2
  <2> QED
    BY <2>1
<1>6. e \in Days
  <2>1. e <= Horizon /\ Horizon \in Nat
    BY <1>2, <1>5, ClockFacts
  <2> QED
    BY <2>1 DEF Days
<1>7. ASSUME NEW d \in Days, x >= 2 * d, x < 2 * d + 2
      PROVE  d = e
  <2>1. d \in Nat
    BY <1>3
  <2> HIDE DEF day, on
  <2> QED
    BY <1>2, <1>5, <1>7, <2>1
<1>8. on = {e}
  BY <1>4, <1>5, <1>6, <1>7
<1> QED
  BY <1>8, FS_Singleton

LEMMA DisjointUnion ==
  ASSUME NEW S, IsFiniteSet(S), NEW T, IsFiniteSet(T), S \cap T = {}
  PROVE  Cardinality(S \cup T) = Cardinality(S) + Cardinality(T)
<1>1. Cardinality(S \cup T) = Cardinality(S) + Cardinality(T) - Cardinality(S \cap T)
  BY FS_Union
<1>2. Cardinality(S \cap T) = 0
  BY FS_EmptySet
<1>3. Cardinality(S) \in Nat /\ Cardinality(T) \in Nat
  BY FS_CardinalityType
<1> QED
  BY <1>1, <1>2, <1>3

LEMMA TasksAreFinite ==
  ASSUME ViewsInv
  PROVE  IsFiniteSet(Tasks) /\ \A S \in SUBSET Tasks : IsFiniteSet(S) /\ Cardinality(S) \in Nat
<1>1. PICK n \in Nat : n = Len(task)
  BY LenProperties DEF ViewsInv, RowsOK
<1>2. IsFiniteSet(Tasks)
  BY <1>1, FS_Interval DEF Tasks
<1>3. ASSUME NEW S \in SUBSET Tasks
      PROVE  IsFiniteSet(S) /\ Cardinality(S) \in Nat
  BY <1>2, FS_Subset, FS_CardinalityType
<1> QED
  BY <1>2, <1>3

\* A card of the dashboard counts the rows of its project, bucket by bucket.
LEMMA DashboardCounts ==
  ASSUME ViewsInv, MaxTask <= BacklogLimit, NEW pr \in Projects \ archived
  PROVE  DashboardOpen(pr) =
           Cardinality({t \in Tasks :
             task[t].live /\ task[t].status \in Unfinished /\ task[t].project = pr})
<1> DEFINE in == DashboardInput
           of(b) == {t \in b : task[t].project = pr}
           A == of(Scheduled(in))
           B == of(Overdue(in))
           C == of(Backlog(in))
           open == {t \in Tasks :
                      task[t].live /\ task[t].status \in Unfinished /\ task[t].project = pr}
<1>1. DashboardOpen(pr) = Cardinality(A) + Cardinality(B) + Cardinality(C)
  BY DEF DashboardOpen
<1>2. A \subseteq Base(in) /\ B \subseteq Base(in) /\ C \subseteq Base(in)
  BY DEF Scheduled, DueByDue, DoneByCompleted, InProgressToday, Overdue, Backlog
<1>3. \A t \in Base(in) : t \in Tasks /\ task[t].live /\ task[t].status \in Unfinished
                          /\ InProjects(in, t)
  <2> TAKE t \in Base(in)
  <2>1. task[t].status \in Statuses /\ task[t].status # "rejected" /\ task[t].status # "done"
    BY ViewsTypes DEF Base, DashboardInput
  <2> QED
    BY <2>1 DEF Base, Statuses
<1>4. Asked(in) /\ in.backlog /\ in.from = None /\ in.to = None /\ in.projects = {}
  BY DashboardAsked DEF DashboardInput
<1>5. A \cap B = {} /\ A \cap C = {} /\ B \cap C = {}
  <2>1. ASSUME NEW t \in Base(in)
        PROVE  ~ (t \in A /\ t \in B) /\ ~ (t \in A /\ t \in C) /\ ~ (t \in B /\ t \in C)
    BY <1>3, <1>4, BucketOf
  <2> QED
    BY <1>2, <2>1
<1>6. open \subseteq A \cup B \cup C
  <2> SUFFICES ASSUME NEW t \in open
               PROVE  t \in Scheduled(in) \/ t \in Overdue(in) \/ t \in Backlog(in)
    OBVIOUS
  <2>1. InProjects(in, t) /\ InRange(in, now)
    BY <1>4 DEF InProjects, InRange
  <2>2. PICK due : due = task[t].due
    OBVIOUS
  <2>3. CASE due = None
    BY <1>4, <2>1, <2>2, <2>3, BacklogHasRoom DEF Base, Unfinished
  <2>4. CASE due # None /\ due < OverdueCutoff(in)
    BY <1>4, <2>1, <2>2, <2>4, BucketOf
  <2>5. CASE due # None /\ ~ (due < OverdueCutoff(in))
    <3>1. InRange(in, due)
      BY <1>4 DEF InRange
    <3> QED
      BY <1>4, <2>1, <2>2, <2>5, <3>1, BucketOf DEF Unfinished
  <2> QED
    BY <2>3, <2>4, <2>5
<1>7. A \cup B \cup C \subseteq open
  BY <1>2, <1>3
<1>8. /\ A \in SUBSET Tasks /\ B \in SUBSET Tasks /\ C \in SUBSET Tasks
      /\ A \cup B \in SUBSET Tasks
  BY <1>2, <1>3
<1> HIDE DEF A, B, C, open
<1>9. /\ IsFiniteSet(A) /\ IsFiniteSet(B) /\ IsFiniteSet(C) /\ IsFiniteSet(A \cup B)
      /\ Cardinality(A) \in Nat /\ Cardinality(B) \in Nat /\ Cardinality(C) \in Nat
  BY <1>8, TasksAreFinite
<1>10. Cardinality(A \cup B) = Cardinality(A) + Cardinality(B)
  BY <1>5, <1>9, DisjointUnion
<1>11. (A \cup B) \cap C = {}
  BY <1>5
<1>12. Cardinality((A \cup B) \cup C) = Cardinality(A \cup B) + Cardinality(C)
  BY <1>9, <1>11, DisjointUnion
<1>13. open = (A \cup B) \cup C
  BY <1>6, <1>7
<1> QED
  BY <1>1, <1>10, <1>12, <1>13 DEF open

LEMMA CountedOnceHolds ==
  ASSUME ViewsInv, MaxTask <= BacklogLimit
  PROVE  CountedOnce
BY DoneOnOneDay, DashboardCounts DEF CountedOnce

LEMMA LeastExists ==
  ASSUME NEW S, S \subseteq Nat, S # {}
  PROVE  \E x \in S : \A y \in S : x <= y
<1> DEFINE R == {ss \in Nat \X Nat : ss[1] < ss[2]}
<1>1. IsWellFoundedOn(R, Nat)
  BY NatLessThanWellFounded DEF OpToRel
<1>2. PICK x \in S : \A y \in S : ~ (<<y, x>> \in R)
  <2> HIDE DEF R
  <2> QED BY <1>1, WFMin
<1>3. \A y \in S : ~ (y < x)
  BY <1>2
<1> QED
  BY <1>3

\* The parent that is shown has the row among its children, be it from the
\* column or from the oldest of the links.
LEMMA ParentIsParent ==
  ASSUME ViewsInv, NEW t \in Tasks, task[t].live, Parent(t) # None
  PROVE  t \in Children(Parent(t))
<1>1. PICK col : col = task[t].parent
  OBVIOUS
<1>2. PICK via : via = {i \in Links("parent_of", t) : task[edge[i].from].live}
  OBVIOUS
<1>3. Parent(t) = IF col # None /\ task[col].live THEN col
                  ELSE IF via = {} THEN None
                  ELSE edge[CHOOSE i \in via : \A j \in via : i <= j].from
  BY <1>1, <1>2 DEF Parent
<1>4. CASE col # None /\ task[col].live
  BY <1>1, <1>3, <1>4 DEF Children
<1>5. CASE ~ (col # None /\ task[col].live)
  <2>1. via # {}
    BY <1>3, <1>5
  <2>2. DOMAIN edge = 1 .. Len(edge) /\ Len(edge) \in Nat
    BY LenProperties DEF ViewsInv, EdgesOK
  <2>3. via \subseteq Nat
    BY <1>2, <2>2 DEF Links
  <2>4. \E i \in via : \A j \in via : i <= j
    BY <2>1, <2>3, LeastExists
  <2>5. PICK i \in via : Parent(t) = edge[i].from
    BY <1>3, <1>5, <2>1, <2>4
  <2>6. edge[i].kind = "parent_of" /\ edge[i].to = t /\ i \in DOMAIN edge
    BY <1>2 DEF Links
  <2>7. edge[i] \in [kind : {"parent_of", "blocks"}, from : 1 .. Len(task), to : 1 .. Len(task)]
    BY <2>2, <2>6, ElementOfSeq DEF ViewsInv, EdgesOK
  <2>8. edge[i] = [kind |-> "parent_of", from |-> Parent(t), to |-> t]
    BY <2>5, <2>6, <2>7
  <2> QED
    BY <2>6, <2>8 DEF Children
<1> QED
  BY <1>4, <1>5

LEMMA LinksLeadSomewhereHolds ==
  ASSUME ViewsInv, MaxTask <= BacklogLimit
  PROVE  LinksLeadSomewhere
<1> SUFFICES ASSUME NEW t \in Tasks
             PROVE  /\ task[t].live /\ Parent(t) # None =>
                         /\ t \in Children(Parent(t))
                         /\ task[t].status \in Unfinished => t \notin Closed(Parent(t))
                    /\ \A b \in BlockersOf(t) :
                         task[b].project \in archived \/ Places(DashboardInput, b) = 1
  BY DEF LinksLeadSomewhere
<1>1. task[t].live /\ Parent(t) # None => t \in Children(Parent(t))
  BY ParentIsParent
<1>2. task[t].status \in Unfinished => t \notin Closed(Parent(t))
  BY DEF Closed, Unfinished
<1>3. ASSUME NEW b \in BlockersOf(t), task[b].project \notin archived
      PROVE  Places(DashboardInput, b) = 1
  <2>1. PICK i \in Links("blocks", t) : b = edge[i].from
    BY DEF BlockersOf
  <2>2. b \in Tasks
    <3>1. DOMAIN edge = 1 .. Len(edge)
      BY LenProperties DEF ViewsInv, EdgesOK
    <3>2. edge[i] \in [kind : {"parent_of", "blocks"}, from : 1 .. Len(task), to : 1 .. Len(task)]
      BY <3>1, ElementOfSeq DEF ViewsInv, EdgesOK, Links
    <3> QED
      BY <2>1, <3>2 DEF Tasks
  <2>3. task[b].live /\ task[b].status \in Unfinished
    BY DEF BlockersOf
  <2>4. PICK in : in = DashboardInput
    OBVIOUS
  <2>5. Asked(in) /\ in.backlog /\ InProjects(in, b) /\ InRange(in, now) /\ in.to = None
    BY <1>3, <2>4, DashboardAsked DEF DashboardInput, InProjects, InRange
  <2>6. PlacesIn(Buckets(in), b) = 1
    BY <2>2, <2>3, <2>5, OneBucket
  <2> QED
    BY <2>4, <2>6 DEF Places
<1> QED
  BY <1>1, <1>2, <1>3

\* The lists agree with the rows and with each other as long as there are no
\* more rows than the backlog of an answer holds (tasks.ts, 200): every
\* unfinished row is in one bucket, done work on one day, what the dashboard
\* counts is there, and a parent and a blocker that are named can be found
\* (tasks.ts, hierarchy.ts, blockers.ts).
THEOREM ListsHold ==
  ASSUME MaxTask <= BacklogLimit
  PROVE  ViewsSpec => []ListsAgree
<1>1. ViewsInv => ListsAgree
  BY ExactlyOneBucketHolds, CountedOnceHolds, LinksLeadSomewhereHolds DEF ListsAgree
<1> QED
  BY <1>1, ViewsInvAlways, PTL


-----------------------------------------------------------------------------
(* The opening brief.                                                     *)

\* A natural number of places bounds what comes before a started task: only
\* started tasks do.
LEMMA StartedComeFirst ==
  ASSUME ViewsInv, NEW t \in Tasks, task[t].status = "in_progress",
         NEW u \in Tasks, Precedes(u, t)
  PROVE  task[u].status = "in_progress" /\ u # t
<1> DEFINE due(x) == IF task[x].due = None THEN 2 * Horizon + 2 ELSE task[x].due
           rank(x) == IF task[x].status = "in_progress" THEN 0 ELSE 1
<1>1. \A x \in Tasks : due(x) \in Int /\ rank(x) \in Int /\ x \in Int
  <2> TAKE x \in Tasks
  <2>1. due(x) \in Int
    BY ViewsTypes, ViewsAssumption
  <2> QED
    BY <2>1 DEF Tasks
<1>2. BriefRank(u) = <<rank(u), due(u), -u>> /\ BriefRank(t) = <<rank(t), due(t), -t>>
  BY DEF BriefRank
<1>3. \/ rank(u) < rank(t)
      \/ rank(u) = rank(t) /\ due(u) < due(t)
      \/ rank(u) = rank(t) /\ due(u) = due(t) /\ -u < -t
  <2> HIDE DEF due, rank
  <2>1. PICK k \in 1 .. 3 : /\ BriefRank(u)[k] < BriefRank(t)[k]
                            /\ \A j \in 1 .. k - 1 : BriefRank(u)[j] = BriefRank(t)[j]
    BY DEF Precedes
  <2>2. CASE k = 1
    BY <1>2, <2>1, <2>2
  <2>3. CASE k = 2
    <3>1. BriefRank(u)[1] = BriefRank(t)[1]
      BY <2>1, <2>3
    <3> QED
      BY <1>2, <2>1, <2>3, <3>1
  <2>4. CASE k = 3
    <3>1. BriefRank(u)[1] = BriefRank(t)[1] /\ BriefRank(u)[2] = BriefRank(t)[2]
      BY <2>1, <2>4
    <3> QED
      BY <1>2, <2>1, <2>4, <3>1
  <2> QED
    BY <2>2, <2>3, <2>4
<1>4. rank(t) = 0
  OBVIOUS
<1>5. rank(u) = 0
  <2>1. rank(u) \in {0, 1}
    OBVIOUS
  <2> HIDE DEF due, rank
  <2> QED
    BY <1>3, <1>4, <2>1
<1>6. u # t
  <2> HIDE DEF due, rank
  <2> QED
    BY <1>1, <1>3
<1> QED
  BY <1>5, <1>6

\* So a brief that has room for the started tasks has them.
LEMMA StartedHaveRoom ==
  ASSUME ViewsInv, NEW pr \in Projects \cup {None},
         NEW started,
         started = {t \in Tasks : /\ task[t].live /\ task[t].project = pr
                                  /\ task[t].status = "in_progress"},
         Cardinality(started) <= BriefLimit
  PROVE  started \subseteq OpenTasks(pr)
<1> DEFINE all == {t \in Tasks : /\ task[t].live /\ task[t].project = pr
                                 /\ task[t].status \in Unfinished}
           before(t) == {u \in all : Precedes(u, t)}
<1> SUFFICES ASSUME NEW t \in started
             PROVE  t \in all /\ Cardinality(before(t)) < BriefLimit
  BY DEF OpenTasks
<1>1. t \in all
  BY DEF Unfinished
<1>2. before(t) \subseteq started \ {t}
  BY StartedComeFirst
<1>3. IsFiniteSet(started) /\ Cardinality(started) \in Nat
  BY TasksAreFinite
<1>4. IsFiniteSet(started \ {t}) /\ Cardinality(started \ {t}) = Cardinality(started) - 1
  BY <1>3, FS_RemoveElement
<1>5. Cardinality(before(t)) <= Cardinality(started \ {t}) /\ IsFiniteSet(before(t))
  BY <1>2, <1>4, FS_Subset
<1>6. Cardinality(before(t)) \in Nat
  BY <1>5, FS_CardinalityType
<1> QED
  BY <1>1, <1>3, <1>4, <1>5, <1>6, ViewsAssumption

\* Tasks with at most LogPerTask comments each have at most LogPerTask on
\* average: a comment is told by its task and by how many of the task's
\* comments are no newer.
LEMMA CommentsOnAverage ==
  ASSUME ViewsInv, NEW S \in SUBSET Tasks,
         \A t \in S : Cardinality({i \in DOMAIN log : log[i] = t}) <= LogPerTask
  PROVE  /\ IsFiniteSet({i \in DOMAIN log : log[i] \in S})
         /\ Cardinality({i \in DOMAIN log : log[i] \in S}) <= LogPerTask * Cardinality(S)
<1>1. PICK n \in Nat : DOMAIN log = 1 .. n
  BY LenProperties DEF ViewsInv
<1>2. IsFiniteSet(DOMAIN log) /\ DOMAIN log \subseteq Nat
  BY <1>1, FS_Interval
<1> DEFINE onThem == {i \in DOMAIN log : log[i] \in S}
           upTo(i) == {j \in DOMAIN log : log[j] = log[i] /\ j <= i}
           f == [i \in onThem |-> <<log[i], Cardinality(upTo(i))>>]
<1>3. \A i \in onThem : IsFiniteSet(upTo(i)) /\ Cardinality(upTo(i)) \in 1 .. LogPerTask
  <2> SUFFICES ASSUME NEW i \in onThem
               PROVE  IsFiniteSet(upTo(i)) /\ Cardinality(upTo(i)) \in 1 .. LogPerTask
    OBVIOUS
  <2>1. PICK all : all = {j \in DOMAIN log : log[j] = log[i]}
    OBVIOUS
  <2>2. IsFiniteSet(all) /\ Cardinality(all) \in Nat /\ Cardinality(all) <= LogPerTask
    BY <1>2, <2>1, FS_Subset, FS_CardinalityType
  <2>3. upTo(i) \in SUBSET all
    BY <2>1
  <2>4. IsFiniteSet(upTo(i)) /\ Cardinality(upTo(i)) <= Cardinality(all)
    BY <2>2, <2>3, FS_Subset
  <2>5. i \in upTo(i)
    BY <1>2
  <2>6. Cardinality(upTo(i)) \in Nat /\ Cardinality(upTo(i)) # 0
    BY <2>4, <2>5, FS_CardinalityType, FS_EmptySet
  <2> HIDE DEF upTo
  <2> QED
    BY <2>2, <2>4, <2>6, ViewsAssumption
<1>4. f \in [onThem -> S \X (1 .. LogPerTask)]
  BY <1>3
<1>5. \A i, k \in onThem : i < k => f[i] # f[k]
  <2> SUFFICES ASSUME NEW i \in onThem, NEW k \in onThem, i < k, log[i] = log[k],
                      Cardinality(upTo(i)) = Cardinality(upTo(k))
               PROVE  FALSE
    OBVIOUS
  <2>1. i \in Nat /\ k \in Nat
    BY <1>2
  <2>2. k \in upTo(k) /\ k \notin upTo(i)
    BY <2>1
  <2>3. upTo(i) \in SUBSET upTo(k)
    BY <1>2, <2>1
  <2>4. upTo(i) = upTo(k)
    BY <1>3, <2>3, FS_Subset
  <2> QED
    BY <2>2, <2>4
<1>6. \A i, k \in onThem : f[i] = f[k] => i = k
  <2> SUFFICES ASSUME NEW i \in onThem, NEW k \in onThem, f[i] = f[k], i # k
               PROVE  FALSE
    OBVIOUS
  <2>1. i \in Nat /\ k \in Nat
    BY <1>2
  <2>2. i < k \/ k < i
    BY <2>1
  <2> HIDE DEF f, onThem
  <2> QED
    BY <1>5, <2>2
<1>7. f \in Injection(onThem, S \X (1 .. LogPerTask))
  <2> HIDE DEF f, onThem
  <2> QED
    BY <1>4, <1>6 DEF Injection, IsInjective
<1>8. IsFiniteSet(S)
  BY TasksAreFinite
<1>9. IsFiniteSet(1 .. LogPerTask) /\ Cardinality(1 .. LogPerTask) = LogPerTask
  BY FS_Interval, ViewsAssumption
<1>10. /\ IsFiniteSet(S \X (1 .. LogPerTask))
       /\ Cardinality(S \X (1 .. LogPerTask)) = Cardinality(S) * LogPerTask
  BY <1>8, <1>9, FS_Product
<1>11. IsFiniteSet(onThem) /\ Cardinality(onThem) <= Cardinality(S) * LogPerTask
  <2> HIDE DEF f, onThem
  <2> QED
    BY <1>7, <1>10, FS_Injection
<1>12. Cardinality(S) * LogPerTask = LogPerTask * Cardinality(S)
  BY <1>8, FS_CardinalityType, ViewsAssumption
<1> QED
  BY <1>11, <1>12

\* So the latest comment on each of them is among those that are read.
LEMMA LatestIsRead ==
  ASSUME ViewsInv, NEW pr,
         \A u \in StartedInBrief(pr) : Cardinality({i \in DOMAIN log : log[i] = u}) <= LogPerTask,
         NEW t \in StartedInBrief(pr), {i \in DOMAIN log : log[i] = t} # {}
  PROVE  \E i \in LatestComments(pr) :
           log[i] = t /\ \A j \in {k \in DOMAIN log : log[k] = t} : j <= i
<1>1. PICK n \in Nat : DOMAIN log = 1 .. n
  BY LenProperties DEF ViewsInv
<1>2. PICK S : S = StartedInBrief(pr)
  OBVIOUS
<1>3. S \in SUBSET Tasks /\ t \in S
  BY <1>2 DEF StartedInBrief, OpenTasks
<1>4. PICK on : on = {i \in DOMAIN log : log[i] = t}
  OBVIOUS
<1>5. PICK i \in on : \A j \in on : j <= i
  <2> DEFINE ages == {n - j : j \in on}
  <2>1. ages \subseteq Nat /\ ages # {}
    BY <1>1, <1>4
  <2>2. PICK a \in ages : \A b \in ages : a <= b
    BY <2>1, LeastExists
  <2>3. PICK i \in on : a = n - i
    BY <2>2
  <2>4. \A j \in on : n - i <= n - j
    BY <2>2, <2>3
  <2>5. \A j \in on : j <= i
    BY <1>1, <1>4, <2>4
  <2> QED
    BY <2>5
<1>6. PICK onThem : onThem = {j \in DOMAIN log : log[j] \in S}
  OBVIOUS
<1>7. IsFiniteSet(onThem) /\ Cardinality(onThem) <= LogPerTask * Cardinality(S)
  BY <1>2, <1>3, <1>6, CommentsOnAverage
<1>8. i \in onThem /\ log[i] = t /\ i \in Nat
  BY <1>1, <1>3, <1>4, <1>6
<1>9. PICK newer : newer = {j \in onThem : j > i}
  OBVIOUS
<1>10. Cardinality(newer) < LogPerTask * Cardinality(S)
  <2>1. newer \in SUBSET onThem /\ newer # onThem
    BY <1>8, <1>9
  <2>2. /\ IsFiniteSet(newer) /\ Cardinality(newer) <= Cardinality(onThem)
        /\ Cardinality(newer) # Cardinality(onThem)
    BY <1>7, <2>1, FS_Subset
  <2>3. Cardinality(newer) \in Nat /\ Cardinality(onThem) \in Nat /\ Cardinality(S) \in Nat
    BY <1>3, <1>7, <2>2, FS_CardinalityType, TasksAreFinite
  <2>4. PICK most : most = LogPerTask * Cardinality(S)
    OBVIOUS
  <2>5. most \in Int
    BY <2>3, <2>4, ViewsAssumption
  <2> QED
    BY <1>7, <2>2, <2>3, <2>4, <2>5
<1>11. i \in LatestComments(pr)
  <2> DEFINE read == {j \in onThem : Cardinality({k \in onThem : k > j}) < LogPerTask * Cardinality(S)}
  <2>1. LatestComments(pr) = {j \in read : \A k \in read : log[k] = log[j] => k <= j}
    BY <1>2, <1>6 DEF LatestComments
  <2>2. i \in read
    BY <1>8, <1>9, <1>10
  <2>3. \A k \in read : log[k] = log[i] => k <= i
    BY <1>4, <1>5, <1>6, <1>8
  <2> QED
    BY <2>1, <2>2, <2>3
<1> QED
  BY <1>4, <1>5, <1>8, <1>11

\* The opening brief of a project has every started task it has room for,
\* whatever is due before, and the latest comment on each, as long as none
\* has more comments than the brief reads for it (opening_brief.ts).
THEOREM BriefHolds == ViewsSpec => []BriefIsComplete
<1>1. ViewsInv => BriefIsComplete
  <2> SUFFICES ASSUME ViewsInv, NEW pr \in Projects \cup {None}, NEW started,
                      started = {t \in Tasks : /\ task[t].live /\ task[t].project = pr
                                               /\ task[t].status = "in_progress"}
               PROVE  /\ Cardinality(started) <= BriefLimit => started \subseteq OpenTasks(pr)
                      /\ (\A t \in started :
                            Cardinality({i \in DOMAIN log : log[i] = t}) <= LogPerTask) =>
                           \A t \in StartedInBrief(pr) : {i \in DOMAIN log : log[i] = t} # {} =>
                             \E i \in LatestComments(pr) :
                               log[i] = t /\ \A j \in {k \in DOMAIN log : log[k] = t} : j <= i
    BY DEF BriefIsComplete
  <2>1. Cardinality(started) <= BriefLimit => started \subseteq OpenTasks(pr)
    BY StartedHaveRoom
  <2>2. StartedInBrief(pr) \subseteq started
    BY DEF StartedInBrief, OpenTasks
  <2> QED
    BY <2>1, <2>2, LatestIsRead
<1> QED
  BY <1>1, ViewsInvAlways, PTL

=============================================================================
