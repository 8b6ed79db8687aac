------------------------------ MODULE Recurrence ------------------------------
(***************************************************************************)
(* The recurring-task engine of src/service/recurrence.ts: rules, the      *)
(* occurrences they generate, and the requests that advance, stop, split   *)
(* and edit a series while the daily materializer runs beside them.        *)
(*                                                                         *)
(* One action is one database statement or one transaction.  A request     *)
(* (REST, MCP or CLI) is a process that keeps in `req' what it has read    *)
(* since it began, so that a value read by one statement and used by a     *)
(* later one may be stale.  The materializer advances a rule inside one    *)
(* transaction that holds the rule's row lock, hence in one action.        *)
(*                                                                         *)
(* Time is counted in days.  Every occurrence is due at noon of its day    *)
(* (normalizeOccurrenceDueAt); a completion at an instant of day d is kept *)
(* as the pair d and the last day whose noon had passed by then.  An RRULE *)
(* is a step in days with an optional UNTIL and an optional COUNT.         *)
(***************************************************************************)
EXTENDS Integers, FiniteSets

CONSTANTS
  Seeds,        \* tasks made by users, to which a rule may be attached
  Procs,        \* requests that may be in flight at once
  None,         \* SQL NULL, a field left out of an input, an absent row
  MaxRules,     \* bound: rule rows ever inserted
  LastDay,      \* bound: the clock stops here and later occurrences rest
  MaxInterval,  \* bound: longest step of a cadence, in days
  MaxPurges,    \* bound: how often the row under one key is purged
  MaxGen,       \* bound: generatedCount stays there once it has come so far
  Counts,       \* COUNT values a cadence may have; None is "no COUNT"
  Starts,       \* dtstart values an input may have; None is "left out"
  Moves,        \* due days a task may be given
  Anchors,      \* the anchors in use, a subset of AnchorKinds
  Ops,          \* the operations in use
  Overlap       \* FALSE: a request starts only when no other is in flight

AnchorKinds == {"scheduled", "completion"}
RuleIds == 1 .. MaxRules
Dates == 0 .. (LastDay + MaxInterval)
Intervals == 1 .. MaxInterval
OccurrenceKeys == RuleIds \X Dates
TaskIds == Seeds \cup OccurrenceKeys

ASSUME BoundsAssumption ==
  /\ MaxRules \in Nat /\ LastDay \in Nat \ {0} /\ MaxInterval \in Nat \ {0}
  /\ MaxPurges \in Nat /\ MaxGen \in Nat \ {0}
  /\ Counts \subseteq (1 .. MaxGen) \cup {None}
  /\ Starts \subseteq Dates \cup {None}
  /\ Moves \subseteq Dates
  /\ Anchors \subseteq AnchorKinds
  /\ Overlap \in BOOLEAN

ASSUME NoneAssumption ==
  /\ None \notin Int /\ None \notin TaskIds /\ None \notin BOOLEAN
  /\ None \notin AnchorKinds
  /\ Seeds \cap OccurrenceKeys = {}

VARIABLES
  now,        \* today
  tasks,      \* TaskIds -> row of `entities' (an occurrence is named by its
              \* idempotency key, rule and due day)
  rules,      \* RuleIds -> row of `recurrence_rules', None where there is none
  ruleSeq,    \* rule rows inserted so far; the next one gets ruleSeq + 1
  exceptions, \* the `skipped' rows of `recurrence_exceptions'
  req         \* Procs -> the request each process is executing

vars == <<now, tasks, rules, ruleSeq, exceptions, req>>

Rule == [series: Seeds, enabled: BOOLEAN, current: TaskIds \cup {None},
         anchor: AnchorKinds, dtstart: Dates, interval: Intervals,
         until: Dates \cup {None}, count: (1 .. MaxGen) \cup {None},
         gen: 0 .. MaxGen, next: Dates \cup {None}]

ASSUME RowAssumption == None \notin Rule   \* an absent row is no row

\* inc tells a row from a later row inserted under the same key after a purge.
Task == [row: {"none", "live", "trashed"}, inc: Nat,
         status: {"open", "done", "rejected"},
         mark: RuleIds \cup {None}, due: Dates \cup {None}]

\* An input cadence, and the partial input of updateRecurrenceRule.
Cadence == [anchor: Anchors, interval: Intervals, count: Counts,
            start: Starts]
RuleEdit == [enabled: BOOLEAN \cup {None}, anchor: Anchors \cup {None},
             interval: Intervals \cup {None}, start: Starts]

\* The same once its start has been settled, as requests remember them.
Asked == [anchor: Anchors, interval: Intervals, count: Counts, start: Dates]
Edited == [enabled: BOOLEAN \cup {None}, anchor: Anchors \cup {None},
           interval: Intervals \cup {None}, start: Dates]

Steps == {"idle", "markDone", "findRule", "skipFind", "except", "reject",
          "insert", "bump", "findExisting", "writeRule", "writeMarker",
          "writeUpdate", "fork"}

Request == [pc: Steps, task: TaskIds \cup {None}, inc: Nat,
            mark: RuleIds \cup {None}, due: Dates \cup {None},
            rule: RuleIds \cup {None}, snap: Rule \cup {None},
            day: Dates, noon: Dates, next: Dates \cup {None}, nextInc: Nat,
            ask: Asked \cup Edited \cup {None}]

Idle == [pc |-> "idle", task |-> None, inc |-> 0, mark |-> None, due |-> None,
         rule |-> None, snap |-> None, day |-> 0, noon |-> 0,
         next |-> None, nextInc |-> 0, ask |-> None]

NoRow == [row |-> "none", inc |-> 0, status |-> "open", mark |-> None,
          due |-> None]

-----------------------------------------------------------------------------
(* Cadences: the part of the rrule library the engine uses.                *)

\* The dates an RRULE yields when it is anchored at `start'.
Expansion(rule, start) ==
  {d \in Dates : /\ d >= start
                 /\ (d - start) % rule.interval = 0
                 /\ rule.until # None => d <= rule.until
                 /\ rule.count # None => (d - start) \div rule.interval < rule.count}

\* Fault: the cursor's own day counts as later, as with after(cursor, true).
AfterInclusive(dates, cursor) ==
  LET later == {d \in dates : d >= cursor}
  IN  IF later = {} THEN None
      ELSE CHOOSE d \in later : \A e \in later : d <= e

\* rrule.after(cursor, false): strictly later, None when the rule has ended.
After(dates, cursor) ==
  LET later == {d \in dates : d > cursor}
  IN  IF later = {} THEN None
      ELSE CHOOSE d \in later : \A e \in later : d <= e

\* Bound: no COUNT exceeds MaxGen, so no comparison with one notices.
Saturate(gen) == IF gen > MaxGen THEN MaxGen ELSE gen

MaxDate(a, b) == IF a >= b THEN a ELSE b

\* a ?? b
OrElse(a, b) == IF a # None THEN a ELSE b

\* Fault: COUNT is left to the expansion, which a completion rule restarts.
ComputeNextUncounted(rule, due, day, noon) ==
  IF rule.anchor = "completion"
  THEN After(Expansion(rule, day), day)
  ELSE After(Expansion(rule, rule.dtstart), MaxDate(OrElse(due, rule.dtstart), noon))

\* computeNextOccurrenceAt, for an occurrence due on `due' that was completed
\* on `day', when `noon' was the last day whose noon had passed.
ComputeNext(rule, due, day, noon) ==
  IF rule.count # None /\ rule.gen >= rule.count THEN None
  ELSE IF rule.anchor = "completion"
       THEN After(Expansion(rule, day), day)
       ELSE After(Expansion(rule, rule.dtstart),
                  MaxDate(OrElse(due, rule.dtstart), noon))

-----------------------------------------------------------------------------
(* Rows.                                                                   *)

RowIs(t, inc) == tasks[t].row # "none" /\ tasks[t].inc = inc

EnabledIn(s) == {r \in RuleIds : rules[r] # None /\ rules[r].series = s
                                               /\ rules[r].enabled}

\* Fault: the index is dropped and not created again.
NoUniqueIndex(s, r) == TRUE

\* The partial unique index of migration 0022, as the statement that would
\* leave rule r enabled in series s meets it.
UniqueIndexAllows(s, r) == EnabledIn(s) \subseteq {r}

\* findRuleForTask: the marker's rule, else a rule that names the task; the
\* enabled one first, then the youngest.
RuleOf(t, mark, onlyEnabled) ==
  LET found == {r \in RuleIds :
                  /\ rules[r] # None
                  /\ IF mark # None THEN r = mark
                     ELSE t \in {rules[r].current, rules[r].series}
                  /\ onlyEnabled => rules[r].enabled}
      active == {r \in found : rules[r].enabled}
      best == IF active # {} THEN active ELSE found
  IN  IF best = {} THEN None
      ELSE CHOOSE r \in best : \A q \in best : q <= r

\* insertNextOccurrence for the given days: one row per idempotency key, and
\* nothing for a key that has a row already, trashed or not.
InsertOccurrences(r, days) ==
  tasks' = [t \in TaskIds |->
              IF t \in {r} \X days /\ tasks[t].row = "none"
              THEN [row |-> "live", inc |-> tasks[t].inc, status |-> "open",
                    mark |-> r, due |-> t[2]]
              ELSE tasks[t]]

-----------------------------------------------------------------------------
(* Requests.                                                               *)

Calm == Overlap \/ \A p \in Procs : req[p] = Idle

Begin(p, op) == op \in Ops /\ req[p] = Idle /\ Calm

Continue(p, request) == req' = [req EXCEPT ![p] = request]

\* The request ends, with an answer or with an error.
Finish(p) == req' = [req EXCEPT ![p] = Idle]

\* Bound: an occurrence due after LastDay rests.
WithinBound(due) == due # None => due <= LastDay

Init ==
  /\ now = 1
  /\ \E due \in {None, 1} :
       tasks = [t \in TaskIds |->
                  IF t \in Seeds THEN [NoRow EXCEPT !.row = "live", !.due = due]
                  ELSE NoRow]
  /\ rules = [r \in RuleIds |-> None]
  /\ ruleSeq = 0
  /\ exceptions = {}
  /\ req = [p \in Procs |-> Idle]

-----------------------------------------------------------------------------
(* Completing an occurrence: entities.update() writes the status in its own *)
(* transaction, then advanceRecurrenceOnCompletion runs statement by        *)
(* statement outside it.                                                    *)

\* update() reads the prior row and stamps completedAt.
BeginComplete(p, t) ==
  /\ Begin(p, "complete")
  /\ tasks[t].row = "live" /\ tasks[t].status # "done"
  /\ WithinBound(tasks[t].due)
  /\ \E noon \in {now - 1, now} :
       Continue(p, [Idle EXCEPT !.pc = "markDone", !.task = t,
                                !.inc = tasks[t].inc, !.day = now, !.noon = noon])
  /\ UNCHANGED <<now, tasks, rules, ruleSeq, exceptions>>

MarkDone(p) ==
  LET q == req[p]
      t == q.task
  IN  /\ q.pc = "markDone"
      /\ \/ /\ RowIs(t, q.inc)
            /\ tasks' = [tasks EXCEPT ![t].status = "done"]
            /\ Continue(p, [q EXCEPT !.pc = "findRule", !.mark = tasks[t].mark,
                                     !.due = tasks[t].due])
         \/ ~RowIs(t, q.inc) /\ Finish(p) /\ UNCHANGED tasks
      /\ UNCHANGED <<now, rules, ruleSeq, exceptions>>

\* Fault: an occurrence that is no longer the current one advances the rule.
FindRuleOfAny(p, from, to) ==
  LET q == req[p]
      r == RuleOf(q.task, q.mark, TRUE)
  IN  /\ q.pc = from
      /\ IF r # None
         THEN Continue(p, [q EXCEPT !.pc = to, !.rule = r, !.snap = rules[r]])
         ELSE Finish(p)
      /\ UNCHANGED <<now, tasks, rules, ruleSeq, exceptions>>

\* The enabled rule of the occurrence, unless another occurrence is current.
FindRule(p, from, to) ==
  LET q == req[p]
      r == RuleOf(q.task, q.mark, TRUE)
      found == r # None /\ rules[r].current \in {None, q.task}
  IN  /\ q.pc = from
      /\ IF found
         THEN Continue(p, [q EXCEPT !.pc = to, !.rule = r, !.snap = rules[r]])
         ELSE Finish(p)
      /\ UNCHANGED <<now, tasks, rules, ruleSeq, exceptions>>

\* advanceRuleFromOccurrence, when the rule read earlier has an occurrence
\* left: insert it (or find the row its key already has) ...
InsertNext(p) ==
  LET q == req[p]
      n == ComputeNext(q.snap, q.due, q.day, q.noon)
  IN  /\ q.pc = "insert" /\ n # None
      /\ InsertOccurrences(q.rule, {n})
      /\ Continue(p, [q EXCEPT !.pc = "bump", !.next = n,
                               !.nextInc = tasks[<<q.rule, n>>].inc])
      /\ UNCHANGED <<now, rules, ruleSeq, exceptions>>

\* Fault: the row that was read is written back with the changes made to it.
BumpWholeRule(p) ==
  LET q == req[p]
      k == <<q.rule, q.next>>
  IN  /\ q.pc = "bump"
      /\ rules' = IF rules[q.rule] # None /\ RowIs(k, q.nextInc)
                  THEN [rules EXCEPT ![q.rule] = [q.snap EXCEPT !.current = k, !.next = q.next,
                                                                !.gen = Saturate(@ + 1)]]
                  ELSE rules
      /\ Finish(p)
      /\ UNCHANGED <<now, tasks, ruleSeq, exceptions>>

\* ... then move the rule on to it.  The row may be gone, or the occurrence
\* (the foreign key then refuses the update).
BumpRule(p) ==
  LET q == req[p]
      k == <<q.rule, q.next>>
  IN  /\ q.pc = "bump"
      /\ rules' = IF rules[q.rule] # None /\ RowIs(k, q.nextInc)
                  THEN [rules EXCEPT ![q.rule].current = k,
                                     ![q.rule].gen = Saturate(q.snap.gen + 1),
                                     ![q.rule].next = q.next]
                  ELSE rules
      /\ Finish(p)
      /\ UNCHANGED <<now, tasks, ruleSeq, exceptions>>

\* advanceRuleFromOccurrence, when no occurrence is left: the series ends.
EndSeries(p) ==
  LET q == req[p]
  IN  /\ q.pc = "insert" /\ ComputeNext(q.snap, q.due, q.day, q.noon) = None
      /\ rules' = IF rules[q.rule] # None
                  THEN [rules EXCEPT ![q.rule].enabled = FALSE,
                                     ![q.rule].current = None,
                                     ![q.rule].next = None]
                  ELSE rules
      /\ Finish(p)
      /\ UNCHANGED <<now, tasks, ruleSeq, exceptions>>

-----------------------------------------------------------------------------
(* Skipping an occurrence: four statements, none in a transaction.          *)

\* The row is read whatever its status, in the trash or not.
BeginSkip(p, t) ==
  /\ Begin(p, "skip")
  /\ tasks[t].row # "none" /\ WithinBound(tasks[t].due)
  /\ Continue(p, [Idle EXCEPT !.pc = "skipFind", !.task = t, !.inc = tasks[t].inc,
                              !.mark = tasks[t].mark])
  /\ UNCHANGED <<now, tasks, rules, ruleSeq, exceptions>>

InsertSkipException(p) ==
  LET q == req[p]
  IN  /\ q.pc = "except"
      /\ \/ /\ rules[q.rule] # None /\ RowIs(q.task, q.inc)
            /\ exceptions' = exceptions \cup {<<q.rule, q.task>>}
            /\ Continue(p, [q EXCEPT !.pc = "reject"])
         \/ /\ rules[q.rule] = None \/ ~RowIs(q.task, q.inc)
            /\ Finish(p) /\ UNCHANGED exceptions
      /\ UNCHANGED <<now, tasks, rules, ruleSeq>>

\* Fault: a status that the column does not know.
RejectAsSkipped(p) ==
  LET q == req[p]
      t == q.task
  IN  /\ q.pc = "reject"
      /\ tasks' = [tasks EXCEPT ![t].status = "skipped", ![t].mark = q.mark]
      /\ Finish(p)
      /\ UNCHANGED <<now, rules, ruleSeq, exceptions>>

\* The whole metadata is written back, with the marker read at the start.
RejectSkipped(p) ==
  LET q == req[p]
      t == q.task
  IN  /\ q.pc = "reject"
      /\ \/ /\ RowIs(t, q.inc)
            /\ tasks' = [tasks EXCEPT ![t].status = "rejected", ![t].mark = q.mark]
            /\ \E noon \in {now - 1, now} :
                 Continue(p, [q EXCEPT !.pc = "insert", !.due = tasks[t].due,
                                       !.day = now, !.noon = noon])
         \/ ~RowIs(t, q.inc) /\ Finish(p) /\ UNCHANGED tasks
      /\ UNCHANGED <<now, rules, ruleSeq, exceptions>>

-----------------------------------------------------------------------------
(* Attaching a rule to a task.                                             *)

\* dtstart is the input's, else the task's due day; one of them is required.
\* (Ops tells a first rule, "create", from a rule over one the task has.)
BeginCreate(p, t, ask) ==
  LET start == OrElse(ask.start, tasks[t].due)
      first == RuleOf(t, tasks[t].mark, FALSE) = None
  IN  /\ Begin(p, IF first THEN "create" ELSE "recreate")
      /\ first => ruleSeq < MaxRules
      /\ tasks[t].row # "none" /\ tasks[t].status = "open"
      /\ start # None /\ start <= LastDay
      /\ Continue(p, [Idle EXCEPT !.pc = "findExisting", !.task = t,
                                  !.inc = tasks[t].inc, !.mark = tasks[t].mark,
                                  !.due = tasks[t].due,
                                  !.ask = [ask EXCEPT !.start = start]])
      /\ UNCHANGED <<now, tasks, rules, ruleSeq, exceptions>>

FindExisting(p) ==
  LET q == req[p]
      r == RuleOf(q.task, q.mark, FALSE)
  IN  /\ q.pc = "findExisting"
      /\ Continue(p, [q EXCEPT !.pc = "writeRule", !.rule = r,
                               !.snap = IF r = None THEN None ELSE rules[r]])
      /\ UNCHANGED <<now, tasks, rules, ruleSeq, exceptions>>

\* The columns that createRecurrenceRule writes whether the row is old or new.
Attached(q, rule) ==
  LET c == [rule EXCEPT !.interval = q.ask.interval, !.count = q.ask.count,
                        !.until = None, !.dtstart = q.ask.start,
                        !.anchor = q.ask.anchor, !.enabled = TRUE,
                        !.current = q.task]
  IN  [c EXCEPT !.next = After(Expansion(c, c.dtstart), c.dtstart)]

\* A rule found before is rewritten in place, its generatedCount left alone.
RewriteRule(p) ==
  LET q == req[p]
  IN  /\ q.pc = "writeRule" /\ q.rule # None
      /\ rules[q.rule] # None /\ RowIs(q.task, q.inc)
      /\ UniqueIndexAllows(rules[q.rule].series, q.rule)
      /\ rules' = [rules EXCEPT ![q.rule] = Attached(q, rules[q.rule])]
      /\ Continue(p, [q EXCEPT !.pc = "writeMarker"])
      /\ UNCHANGED <<now, tasks, ruleSeq, exceptions>>

\* A marker without its rule names a series root that was purged: the insert
\* would then break the foreign key, so only an unmarked seed gets a rule.
InsertRule(p) ==
  LET q == req[p]
      r == ruleSeq + 1
      blank == [series |-> q.task, enabled |-> TRUE, current |-> None,
                anchor |-> q.ask.anchor, dtstart |-> q.ask.start,
                interval |-> q.ask.interval, until |-> None,
                count |-> q.ask.count, gen |-> 1, next |-> None]
  IN  /\ q.pc = "writeRule" /\ q.rule = None
      /\ q.task \in Seeds /\ q.mark = None /\ RowIs(q.task, q.inc)
      /\ UniqueIndexAllows(q.task, r) /\ r \in RuleIds
      /\ rules' = [rules EXCEPT ![r] = Attached(q, blank)]
      /\ ruleSeq' = r
      /\ Continue(p, [q EXCEPT !.pc = "writeMarker", !.rule = r])
      /\ UNCHANGED <<now, tasks, exceptions>>

\* The statement finds no row, or a foreign key or the index refuses it.
RefuseRule(p) ==
  LET q == req[p]
  IN  /\ q.pc = "writeRule"
      /\ IF q.rule # None
         THEN \/ rules[q.rule] = None \/ ~RowIs(q.task, q.inc)
              \/ ~UniqueIndexAllows(rules[q.rule].series, q.rule)
         ELSE \/ q.task \notin Seeds \/ q.mark # None \/ ~RowIs(q.task, q.inc)
              \/ ~UniqueIndexAllows(q.task, ruleSeq + 1) \/ ruleSeq = MaxRules
      /\ Finish(p)
      /\ UNCHANGED <<now, tasks, rules, ruleSeq, exceptions>>

WriteMarker(p) ==
  LET q == req[p]
      t == q.task
  IN  /\ q.pc = "writeMarker"
      /\ tasks' = IF RowIs(t, q.inc)
                  THEN [tasks EXCEPT ![t].mark = q.rule,
                                     ![t].due = IF q.due = None THEN q.ask.start ELSE @]
                  ELSE tasks
      /\ Finish(p)
      /\ UNCHANGED <<now, rules, ruleSeq, exceptions>>

-----------------------------------------------------------------------------
(* Editing and stopping a rule.                                            *)

\* updateRecurrenceRule reads the rule and then its current occurrence.
BeginUpdateRule(p, r, ask) ==
  /\ Begin(p, "updateRule")
  /\ rules[r] # None
  /\ LET due == IF rules[r].current = None THEN None ELSE tasks[rules[r].current].due
         start == OrElse(ask.start, OrElse(due, rules[r].dtstart))
     IN  /\ start <= LastDay
         /\ Continue(p, [Idle EXCEPT !.pc = "writeUpdate", !.rule = r, !.snap = rules[r],
                                     !.ask = [ask EXCEPT !.start = start]])
  /\ UNCHANGED <<now, tasks, rules, ruleSeq, exceptions>>

\* Every column comes from the input or from the row read earlier.  A new
\* cadence brings its own end, here none.
WriteUpdate(p) ==
  LET q == req[p]
      was == q.snap
      on == OrElse(q.ask.enabled, was.enabled)
      new == q.ask.interval # None
      r == q.rule
      c == [was EXCEPT !.interval = OrElse(q.ask.interval, was.interval),
                       !.until = IF new THEN None ELSE was.until,
                       !.count = IF new THEN None ELSE was.count]
      allowed == rules[r] # None /\ (on => UniqueIndexAllows(rules[r].series, r))
  IN  /\ q.pc = "writeUpdate"
      /\ rules' = IF allowed
                  THEN [rules EXCEPT ![r].enabled = on, ![r].interval = c.interval,
                                     ![r].until = c.until, ![r].count = c.count,
                                     ![r].dtstart = q.ask.start,
                                     ![r].anchor = OrElse(q.ask.anchor, was.anchor),
                                     ![r].next = After(Expansion(c, q.ask.start), q.ask.start)]
                  ELSE rules
      /\ Finish(p)
      /\ UNCHANGED <<now, tasks, ruleSeq, exceptions>>

StopRecurrence(r) ==
  /\ "stop" \in Ops /\ Calm
  /\ rules[r] # None
  /\ rules' = [rules EXCEPT ![r].enabled = FALSE, ![r].next = None]
  /\ UNCHANGED <<now, tasks, ruleSeq, exceptions, req>>

-----------------------------------------------------------------------------
(* Splitting a series: the reads of the transaction take no lock, its       *)
(* writes become visible together.                                          *)

BeginSplit(p, r, ask) ==
  /\ Begin(p, "split") /\ ruleSeq < MaxRules
  /\ rules[r] # None /\ rules[r].enabled /\ rules[r].current # None
  /\ LET t == rules[r].current
         forkAfter == OrElse(tasks[t].due, rules[r].dtstart)
     IN  /\ forkAfter <= LastDay
         /\ Continue(p, [Idle EXCEPT !.pc = "fork", !.task = t, !.inc = tasks[t].inc,
                                     !.rule = r, !.snap = rules[r],
                                     !.ask = [ask EXCEPT !.start = forkAfter]])
  /\ UNCHANGED <<now, tasks, rules, ruleSeq, exceptions>>

\* The rule that takes over after the fork.
ForkedRule(q) ==
  LET rehome == q.ask.anchor = "completion"
      base == [q.snap EXCEPT !.current = q.task, !.enabled = TRUE,
                             !.anchor = q.ask.anchor, !.interval = q.ask.interval,
                             !.count = q.ask.count, !.until = None,
                             !.dtstart = q.ask.start, !.next = None]
      first == After(Expansion(base, q.ask.start), q.ask.start)
  IN  IF rehome THEN base
      ELSE [base EXCEPT !.dtstart = OrElse(first, q.ask.start), !.next = first, !.gen = 0]

\* The old rule is bounded at the fork and disabled before the insert.
ForkRefused(q) ==
  \/ q.ask.anchor # "completion" /\ ForkedRule(q).next = None
  \/ rules[q.rule] = None \/ ~RowIs(q.task, q.inc)
  \/ ~UniqueIndexAllows(q.snap.series, q.rule)
  \/ ruleSeq = MaxRules

Fork(p) ==
  LET q == req[p]
      r == ruleSeq + 1
      rehome == q.ask.anchor = "completion"
  IN  /\ q.pc = "fork" /\ ~ForkRefused(q)
      /\ rules' = [rules EXCEPT
                     ![q.rule].enabled = FALSE, ![q.rule].next = None,
                     ![q.rule].count = None, ![q.rule].until = q.ask.start,
                     ![q.rule].interval = q.snap.interval,
                     ![q.rule].current = IF rehome THEN None ELSE q.snap.current,
                     ![r] = ForkedRule(q)]
      /\ ruleSeq' = r
      /\ tasks' = IF rehome THEN [tasks EXCEPT ![q.task].mark = r] ELSE tasks
      /\ Finish(p)
      /\ UNCHANGED <<now, exceptions>>

RefuseFork(p) ==
  /\ req[p].pc = "fork" /\ ForkRefused(req[p])
  /\ Finish(p)
  /\ UNCHANGED <<now, tasks, rules, ruleSeq, exceptions>>

-----------------------------------------------------------------------------
(* The materializer: every day a scheduled rule owes up to today, while the *)
(* rule's COUNT lasts.                                                      *)

Owed(rule) ==
  LET due == {rule.next} \cup {d \in Expansion(rule, rule.dtstart) :
                                 d > rule.next /\ d <= now}
  IN  {d \in due : rule.count # None =>
                     Cardinality({e \in due : e < d}) < rule.count - rule.gen}

LastOf(days) == CHOOSE d \in days : \A e \in days : e <= d

\* Fault: a rule whose COUNT is used up keeps its cursor.
MaterializeUncleared(r) ==
  LET rule == rules[r]
      days == Owed(rule)
      last == LastOf(days)
  IN  /\ "materialize" \in Ops /\ Calm
      /\ rule # None
      /\ rule.enabled /\ rule.anchor = "scheduled"
      /\ rule.next # None /\ rule.next <= now
      /\ days # {}
      /\ InsertOccurrences(r, days)
      /\ rules' = [rules EXCEPT ![r].current = <<r, last>>,
                                ![r].gen = Saturate(rule.gen + Cardinality(days)),
                                ![r].next = After(Expansion(rule, rule.dtstart), last)]
      /\ UNCHANGED <<now, ruleSeq, exceptions, req>>

MaterializeRule(r) ==
  LET rule == rules[r]
      days == Owed(rule)
      last == LastOf(days)
      gen == Saturate(rule.gen + Cardinality(days))
      more == rule.count # None => gen < rule.count
  IN  /\ "materialize" \in Ops /\ Calm
      /\ rule # None
      /\ rule.enabled /\ rule.anchor = "scheduled"
      /\ rule.next # None /\ rule.next <= now
      /\ InsertOccurrences(r, days)
      /\ rules' = IF days = {} THEN [rules EXCEPT ![r].next = None]
                  ELSE [rules EXCEPT
                          ![r].current = <<r, last>>, ![r].gen = gen,
                          ![r].next = IF more THEN After(Expansion(rule, rule.dtstart), last)
                                      ELSE None]
      /\ UNCHANGED <<now, ruleSeq, exceptions, req>>

-----------------------------------------------------------------------------
(* What else happens to the rows: single-statement edits of a task.         *)

\* A live task is reopened or cancelled, or gets another due day.
SetStatus(t, status) ==
  /\ (IF status = "open" THEN "reopen" ELSE "cancel") \in Ops /\ Calm
  /\ tasks[t].row = "live" /\ tasks[t].status # status
  /\ tasks' = [tasks EXCEPT ![t].status = status]
  /\ UNCHANGED <<now, rules, ruleSeq, exceptions, req>>

Reschedule(t, d) ==
  /\ "reschedule" \in Ops /\ Calm
  /\ tasks[t].row = "live" /\ d <= LastDay
  /\ tasks' = [tasks EXCEPT ![t].due = d]
  /\ UNCHANGED <<now, rules, ruleSeq, exceptions, req>>

\* remove() and restore().
Trash(t) ==
  /\ "trash" \in Ops /\ Calm
  /\ tasks[t].row = "live"
  /\ tasks' = [tasks EXCEPT ![t].row = "trashed"]
  /\ UNCHANGED <<now, rules, ruleSeq, exceptions, req>>

Restore(t) ==
  /\ "trash" \in Ops /\ Calm
  /\ tasks[t].row = "trashed"
  /\ tasks' = [tasks EXCEPT ![t].row = "live"]
  /\ UNCHANGED <<now, rules, ruleSeq, exceptions, req>>

\* Fault: current_occurrence_id without ON DELETE SET NULL.
PurgeKeepingCurrent(t) ==
  LET gone == {r \in RuleIds : rules[r] # None /\ rules[r].series = t}
  IN  /\ "purge" \in Ops /\ Calm
      /\ tasks[t].row = "trashed" /\ tasks[t].inc < MaxPurges
      /\ tasks' = [tasks EXCEPT ![t] = [NoRow EXCEPT !.inc = tasks[t].inc + 1]]
      /\ rules' = [r \in RuleIds |-> IF r \in gone THEN None ELSE rules[r]]
      /\ exceptions' = {e \in exceptions : e[1] \notin gone /\ e[2] # t}
      /\ UNCHANGED <<now, ruleSeq, req>>

\* purge(): the foreign keys of migration 0017 drop the rules of a purged
\* root and clear a purged current occurrence.
Purge(t) ==
  LET gone == {r \in RuleIds : rules[r] # None /\ rules[r].series = t}
  IN  /\ "purge" \in Ops /\ Calm
      /\ tasks[t].row = "trashed" /\ tasks[t].inc < MaxPurges
      /\ tasks' = [tasks EXCEPT ![t] = [NoRow EXCEPT !.inc = tasks[t].inc + 1]]
      /\ rules' = [r \in RuleIds |->
                     IF r \in gone THEN None
                     ELSE IF rules[r] # None /\ rules[r].current = t
                          THEN [rules[r] EXCEPT !.current = None]
                          ELSE rules[r]]
      /\ exceptions' = {e \in exceptions : e[1] \notin gone /\ e[2] # t}
      /\ UNCHANGED <<now, ruleSeq, req>>

-----------------------------------------------------------------------------

Tick ==
  /\ now < LastDay /\ Calm
  /\ now' = now + 1
  /\ UNCHANGED <<tasks, rules, ruleSeq, exceptions, req>>

\* The daemon dies, or a statement fails: the request goes no further.
Crash(p) ==
  /\ "crash" \in Ops
  /\ req[p] # Idle
  /\ Finish(p)
  /\ UNCHANGED <<now, tasks, rules, ruleSeq, exceptions>>

\* What a request that has begun does next.
Proceed(p) ==
  \/ MarkDone(p)
  \/ FindRule(p, "findRule", "insert")
  \/ FindRule(p, "skipFind", "except")
  \/ InsertNext(p) \/ BumpRule(p) \/ EndSeries(p)
  \/ InsertSkipException(p) \/ RejectSkipped(p)
  \/ FindExisting(p) \/ RewriteRule(p) \/ InsertRule(p) \/ RefuseRule(p)
  \/ WriteMarker(p)
  \/ WriteUpdate(p)
  \/ Fork(p) \/ RefuseFork(p)

BeginRequest(p) ==
  \/ \E t \in TaskIds : BeginComplete(p, t) \/ BeginSkip(p, t)
  \/ \E t \in TaskIds, ask \in Cadence : BeginCreate(p, t, ask)
  \/ \E r \in RuleIds, ask \in RuleEdit : BeginUpdateRule(p, r, ask)
  \/ \E r \in RuleIds : \E ask \in Cadence : BeginSplit(p, r, ask)

EditTask(t) ==
  \/ \E status \in {"open", "rejected"} : SetStatus(t, status)
  \/ \E d \in Moves : Reschedule(t, d)
  \/ Trash(t) \/ Restore(t) \/ Purge(t)

Next ==
  \/ \E p \in Procs : BeginRequest(p) \/ Proceed(p) \/ Crash(p)
  \/ \E r \in RuleIds : StopRecurrence(r) \/ MaterializeRule(r)
  \/ \E t \in TaskIds : EditTask(t)
  \/ Tick

Spec == Init /\ [][Next]_vars

\* Days pass, a statement that was sent returns, and the interval timer of the
\* daemon (cli.ts:82-83) runs the materializer again and again.
Fairness ==
  /\ WF_vars(Tick)
  /\ \A p \in Procs : WF_vars(Proceed(p))
  /\ \A r \in RuleIds : WF_vars(MaterializeRule(r))

FairSpec == Spec /\ Fairness

-----------------------------------------------------------------------------
(* Properties.                                                             *)

\* What a request has read by the time it takes its next step.
Remembers(q) ==
  /\ q.pc \notin {"idle", "writeUpdate"} => q.task \in TaskIds
  /\ q.pc \in {"except", "reject", "insert", "bump", "fork", "writeUpdate"}
       => q.rule \in RuleIds /\ q.snap \in Rule
  /\ q.pc = "writeMarker" => q.rule \in RuleIds
  /\ q.pc = "bump" => q.next \in Dates
  /\ q.pc \in {"findExisting", "writeRule", "writeMarker", "fork"} => q.ask \in Asked
  /\ q.pc = "writeUpdate" => q.ask \in Edited

\* The shape of the rows, and of what requests remember of them.
TypeOK ==
  /\ now \in 1 .. LastDay
  /\ tasks \in [TaskIds -> Task]
  /\ rules \in [RuleIds -> Rule \cup {None}]
  /\ ruleSeq \in 0 .. MaxRules
  /\ exceptions \subseteq RuleIds \X TaskIds
  /\ req \in [Procs -> Request]
  /\ \A p \in Procs : Remembers(req[p])

Exists(t) == tasks[t].row # "none"
IsRule(r) == rules[r] # None
Generated(r) == {k \in OccurrenceKeys : k[1] = r /\ Exists(k)}
SeriesOf(t) == IF t \in Seeds THEN t
               ELSE IF IsRule(t[1]) THEN rules[t[1]].series ELSE None
Quiet == \A p \in Procs : req[p] = Idle

\* The day an occurrence was generated for; a seed stands at its rule's start.
DayOf(t, r) == IF t \in Seeds THEN rules[r].dtstart ELSE t[2]

\* A series never has two active rules, however requests that create, edit,
\* re-enable and split its rules interleave (recurrence.ts:855-857).
OneActiveRulePerSeries ==
  \A r, q \in RuleIds :
    IsRule(r) /\ IsRule(q) /\ rules[r].enabled /\ rules[q].enabled
      /\ rules[r].series = rules[q].series => r = q

\* The current occurrence of a rule is a row that exists and that belongs to
\* the rule's own series, and the marker of every occurrence leads to a rule
\* of the series it was generated in, through splits that re-home it, stale
\* markers a skip writes back, and purges.
SeriesClosed ==
  /\ \A r \in RuleIds : IsRule(r) /\ rules[r].current # None =>
        /\ Exists(rules[r].current)
        /\ SeriesOf(rules[r].current) = rules[r].series
  /\ \A t \in TaskIds : Exists(t) /\ tasks[t].mark # None =>
        IF IsRule(tasks[t].mark)
        THEN rules[tasks[t].mark].series = SeriesOf(t)
        ELSE t \notin Seeds => SeriesOf(t) = None

\* The cursor of an active scheduled rule never falls behind its current
\* occurrence: the materializer would generate days the series has passed.
CursorNotBehindCurrent ==
  \A r \in RuleIds :
    IsRule(r) /\ rules[r].enabled /\ rules[r].anchor = "scheduled"
      /\ rules[r].next # None /\ rules[r].current # None
      => rules[r].next >= DayOf(rules[r].current, r)

\* No day is generated twice in one series, whichever scheduled rules generate
\* it (recurrence.ts:849-851).
NoDayTwice ==
  \A j, k \in OccurrenceKeys :
    Exists(j) /\ Exists(k) /\ j[2] = k[2] /\ IsRule(j[1]) /\ IsRule(k[1])
      /\ rules[j[1]].anchor = "scheduled" /\ rules[k[1]].anchor = "scheduled"
      /\ SeriesOf(j) = SeriesOf(k) => j = k

\* The request enables rule r: it attaches r anew, or it is an edit that asks
\* for it, or one that asks for nothing and has read r as enabled.
Enables(q, r) ==
  /\ q.rule = r
  /\ \/ q.pc = "writeRule"
     \/ q.pc = "writeUpdate" /\ OrElse(q.ask.enabled, q.snap.enabled)

\* The request, which has read rule r as enabled, is to insert an occurrence.
Advances(q, r) == q.pc = "insert" /\ q.rule = r /\ q.snap.enabled

\* A stop holds, and so does the end of a series, against whatever is under way
\* (recurrence.ts:635, 399).  A disabled rule is enabled by no advance of it but
\* only by a request to that end, or by an edit that has read it before it was
\* disabled and writes that back; and it gains no occurrence but the one that
\* each completion or skip still inserts that has found it before.
StopHolds ==
  [][\A r \in RuleIds : IsRule(r) /\ ~rules[r].enabled =>
       LET new == Generated(r)' \ Generated(r)
       IN  /\ IsRule(r)' /\ rules'[r].enabled =>
                \E p \in Procs : Enables(req[p], r) /\ req'[p] # req[p]
           /\ new # {} => \E p \in Procs : /\ Advances(req[p], r) /\ req'[p].pc = "bump"
                                           /\ new = {<<r, req'[p].next>>}]_vars

\* The tasks whose marker names rule r: its seed and what it generated.
Members(r) == {t \in TaskIds : Exists(t) /\ tasks[t].mark = r}

\* A rule with COUNT never has more tasks than that: the limit survives the
\* materializer and the completions that both advance the counter it is
\* checked against (recurrence.ts:178-179, 728-735).
CountBoundsMembers ==
  \A r \in RuleIds : IsRule(r) /\ rules[r].count # None =>
    Cardinality(Members(r)) <= rules[r].count

\* generatedCount never claims an occurrence that was not generated: a
\* series with COUNT n would end before its n-th occurrence.
CountedWereGenerated ==
  \A r \in RuleIds : IsRule(r) /\ Quiet => rules[r].gen <= Cardinality(Members(r))

\* The chain of a completion rule has one open occurrence at a time.
OneOpenPerChain ==
  \A r \in RuleIds : IsRule(r) /\ rules[r].anchor = "completion" =>
    Cardinality({t \in Members(r) : tasks[t].status = "open"}) <= 1

\* Rule r is not left standing on an occurrence of its own that is completed.
\* (The live occurrence of a scheduled fork still belongs to the rule before.)
MovedOn(r) ==
  IsRule(r) /\ rules[r].enabled /\ rules[r].current # None
    /\ tasks[rules[r].current].mark = r
    => tasks[rules[r].current].status # "done"

\* Once every request has ended, an active scheduled rule has moved on from a
\* current occurrence that was completed (entities.ts:415-417).
DoneMovesOn ==
  \A r \in RuleIds : Quiet /\ IsRule(r) /\ rules[r].anchor = "scheduled" => MovedOn(r)

\* And so has a completion rule, at whatever hour of whatever day its
\* occurrence was completed (docs/recurring-tasks-design.md:110).
ChainMovesOn ==
  \A r \in RuleIds : Quiet /\ IsRule(r) /\ rules[r].anchor = "completion" => MovedOn(r)

\* Once every request has ended, the current occurrence of an active rule is
\* the last one it generated.
CurrentIsLast ==
  \A r \in RuleIds :
    Quiet /\ IsRule(r) /\ rules[r].enabled /\ rules[r].current # None =>
      \A k \in Generated(r) : k[2] <= DayOf(rules[r].current, r)

\* The days of a series are in order: no rule's cursor falls behind, no day is
\* generated twice, the current occurrence is the last, and a chain has one open
\* occurrence.
SeriesInOrder ==
  CursorNotBehindCurrent /\ NoDayTwice /\ CurrentIsLast /\ OneOpenPerChain

\* An active scheduled rule that owes a day up to today.
Owing(r) ==
  /\ IsRule(r) /\ rules[r].enabled /\ rules[r].anchor = "scheduled"
  /\ rules[r].next # None /\ rules[r].next <= now

\* The materializer catches up with every rule, whatever requests and crashes
\* leave of it: no rule owes days for ever (recurrence.ts:664-666).
CatchesUp == \A r \in RuleIds : Owing(r) ~> ~Owing(r)
=============================================================================
