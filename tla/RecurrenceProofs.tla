--------------------------- MODULE RecurrenceProofs ---------------------------
(***************************************************************************)
(* Theorems about Recurrence, for every value of its constants: the types  *)
(* of its rows and of what requests remember between two statements; that  *)
(* no interleaving of requests gives a series two active rules, none takes *)
(* an occurrence or a marker out of its series, and only what was under    *)
(* way revives or advances a disabled rule; and, when requests come one    *)
(* after another, that COUNT bounds a chain, a rule moves on from what is  *)
(* done, and the days of a series are in order.                            *)
(*                                                                         *)
(* The first two are inductive together with nothing else: TypeOK says for *)
(* every step of a request what it must have read by then (Remembers).     *)
(* The third needs SeriesInv, which also says what is true of the values a *)
(* request read earlier, as long as the row it read them from is there;    *)
(* the fourth also needs that what is advanced was read as enabled.        *)
(* COUNT needs CountInv: how far the counter of a rule is behind its tasks *)
(* at each statement of the one request that is under way.  The last two   *)
(* need OrderInv, what that request knows and which occurrence leads a     *)
(* rule, and DaysInv, how far the days of a whole series go.               *)
(***************************************************************************)
EXTENDS Recurrence, FiniteSetTheorems, TLAPS

-----------------------------------------------------------------------------
(* Least and greatest elements, which the engine's CHOOSEs rely on.         *)

\* A nonempty set of natural numbers has a least element.
LEMMA LeastExists ==
  ASSUME NEW S, S \subseteq Nat, S # {}
  PROVE  \E x \in S : \A y \in S : x <= y
<1>. DEFINE R == {ss \in Nat \X Nat : ss[1] < ss[2]}
<1>1. IsWellFoundedOn(R, Nat)
  BY NatLessThanWellFounded DEF OpToRel
<1>2. PICK x \in S : \A y \in S : ~ (<<y, x>> \in R)
  <2>. HIDE DEF R
  <2>. QED BY <1>1, WFMin
<1>3. \A y \in S : ~(y < x)
  BY <1>2
<1>4. \A y \in S : x <= y
  BY <1>3
<1>. QED BY <1>4

\* A nonempty set of natural numbers that is bounded has a greatest element.
LEMMA GreatestExists ==
  ASSUME NEW n \in Nat, NEW S, S \subseteq 0 .. n, S # {}
  PROVE  \E x \in S : \A y \in S : y <= x
<1>. DEFINE D == {n - y : y \in S}
<1>1. \A y \in S : y \in 0 .. n
  OBVIOUS
<1>2. D # {}
  OBVIOUS
<1>3. D \subseteq Nat
  BY <1>1
<1>4. PICK d \in D : \A e \in D : d <= e
  <2>. HIDE DEF D
  <2>. QED BY <1>2, <1>3, LeastExists
<1>5. PICK x \in S : d = n - x
  OBVIOUS
<1>6. \A y \in S : n - y \in D
  OBVIOUS
<1>7. \A y \in S : n - x <= n - y
  BY <1>4, <1>5, <1>6
<1>. QED BY <1>1, <1>7

-----------------------------------------------------------------------------
(* What the operators of the engine return.                                *)

LEMMA DatesAreNaturals == Dates \subseteq Nat /\ 1 .. LastDay \subseteq Dates
BY BoundsAssumption DEF Dates

LEMMA NoneIsNoValue ==
  /\ None \notin Dates /\ None \notin RuleIds /\ None \notin TaskIds
  /\ None \notin 1 .. MaxGen /\ None \notin Intervals
BY NoneAssumption DEF Dates, RuleIds, Intervals

\* rrule.after returns the least later date, or nothing when there is none.
LEMMA AfterReturns ==
  ASSUME NEW S, S \subseteq Dates, NEW c \in Int
  PROVE  \/ After(S, c) = None /\ \A d \in S : d <= c
         \/ /\ After(S, c) \in S /\ After(S, c) > c
            /\ \A e \in S : e > c => After(S, c) <= e
<1>. DEFINE later == {d \in S : d > c}
<1>1. CASE later = {}
  BY <1>1, DatesAreNaturals DEF After
<1>2. CASE later # {}
  <2>1. \E x \in later : \A y \in later : x <= y
    BY <1>2, DatesAreNaturals, LeastExists
  <2>2. After(S, c) \in later /\ \A y \in later : After(S, c) <= y
    BY <1>2, <2>1 DEF After
  <2>. QED BY <2>2
<1>. QED BY <1>1, <1>2

LEMMA ExpansionType ==
  ASSUME NEW rule, NEW start
  PROVE  Expansion(rule, start) \subseteq Dates
BY DEF Expansion

LEMMA AfterType ==
  ASSUME NEW rule, NEW start, NEW c \in Int
  PROVE  After(Expansion(rule, start), c) \in Dates \cup {None}
BY ExpansionType, AfterReturns

LEMMA MaxDateType ==
  ASSUME NEW a \in Dates, NEW b \in Dates
  PROVE  MaxDate(a, b) \in Dates
BY DEF MaxDate

LEMMA ComputeNextType ==
  ASSUME NEW rule \in Rule, NEW due \in Dates \cup {None},
         NEW day \in Dates, NEW noon \in Dates
  PROVE  ComputeNext(rule, due, day, noon) \in Dates \cup {None}
<1>1. OrElse(due, rule.dtstart) \in Dates
  BY DEF OrElse, Rule
<1>2. MaxDate(OrElse(due, rule.dtstart), noon) \in Dates
  BY <1>1, MaxDateType
<1>3. After(Expansion(rule, rule.dtstart), MaxDate(OrElse(due, rule.dtstart), noon))
        \in Dates \cup {None}
  <2>1. MaxDate(OrElse(due, rule.dtstart), noon) \in Int
    BY <1>2 DEF Dates
  <2>. QED BY <2>1, AfterType
<1>4. After(Expansion(rule, day), day) \in Dates \cup {None}
  BY AfterType, DatesAreNaturals
<1>. QED BY <1>3, <1>4 DEF ComputeNext

LEMMA SaturateType ==
  ASSUME NEW n \in Nat
  PROVE  Saturate(n) \in 0 .. MaxGen
BY BoundsAssumption DEF Saturate

\* The rule of a task is a rule, an active one when only those are sought.
LEMMA RuleOfReturns ==
  ASSUME NEW t, NEW mark, NEW onlyEnabled \in BOOLEAN,
         RuleOf(t, mark, onlyEnabled) # None
  PROVE  /\ RuleOf(t, mark, onlyEnabled) \in RuleIds
         /\ rules[RuleOf(t, mark, onlyEnabled)] # None
         /\ LET r == RuleOf(t, mark, onlyEnabled)
            IN  /\ IF mark # None THEN r = mark ELSE t \in {rules[r].current, rules[r].series}
                /\ onlyEnabled => rules[r].enabled
<1>. DEFINE found == {r \in RuleIds :
                        /\ rules[r] # None
                        /\ IF mark # None THEN r = mark
                           ELSE t \in {rules[r].current, rules[r].series}
                        /\ onlyEnabled => rules[r].enabled}
            active == {r \in found : rules[r].enabled}
            best == IF active # {} THEN active ELSE found
<1>1. best # {} /\ best \subseteq found
  BY DEF RuleOf
<1>2. best \subseteq 0 .. MaxRules
  BY <1>1 DEF RuleIds
<1>3. \E r \in best : \A q \in best : q <= r
  <2>. HIDE DEF best
  <2>. QED BY <1>1, <1>2, GreatestExists, BoundsAssumption
<1>4. RuleOf(t, mark, onlyEnabled) = CHOOSE r \in best : \A q \in best : q <= r
  BY <1>1 DEF RuleOf
<1>5. RuleOf(t, mark, onlyEnabled) \in best
  <2>. HIDE DEF best
  <2>. QED BY <1>3, <1>4
<1>. QED BY <1>1, <1>5

-----------------------------------------------------------------------------
(* Type correctness.                                                       *)

\* No rule is dropped.
RulesLast == \A r \in RuleIds : rules[r] # None => rules'[r] \in Rule

\* What TypeOK says of the requests.
RequestsOK == req \in [Procs -> Request] /\ \A p \in Procs : Remembers(req[p])

LEMMA IdleType == Idle \in Request /\ Remembers(Idle)
BY DatesAreNaturals, BoundsAssumption DEF Idle, Request, Steps, Remembers, Dates

LEMMA ContinueType ==
  ASSUME RequestsOK, NEW p \in Procs, NEW r \in Request, Remembers(r),
         Continue(p, r)
  PROVE  RequestsOK'
BY DEF Continue, RequestsOK

LEMMA FinishType ==
  ASSUME RequestsOK, NEW p \in Procs, Finish(p)
  PROVE  RequestsOK'
BY IdleType DEF Finish, RequestsOK

LEMMA InsertOccurrencesType ==
  ASSUME tasks \in [TaskIds -> Task], NEW r \in RuleIds, NEW days \in SUBSET Dates,
         InsertOccurrences(r, days)
  PROVE  tasks' \in [TaskIds -> Task]
<1>1. \A t \in TaskIds : tasks[t].inc \in Nat
  BY DEF Task
<1>2. \A t \in {r} \X days : t[2] \in Dates
  OBVIOUS
<1>3. \A t \in TaskIds : t \in {r} \X days =>
        [row |-> "live", inc |-> tasks[t].inc, status |-> "open",
         mark |-> r, due |-> t[2]] \in Task
  BY <1>1, <1>2 DEF Task
<1>. QED BY <1>3 DEF InsertOccurrences

LEMMA TypeInit == Init => TypeOK
<1>. SUFFICES ASSUME Init PROVE TypeOK
  OBVIOUS
<1>1. 1 \in Dates /\ 1 \in 1 .. LastDay
  BY BoundsAssumption DEF Dates
<1>2. PICK due \in {None, 1} :
        tasks = [t \in TaskIds |->
                   IF t \in Seeds THEN [NoRow EXCEPT !.row = "live", !.due = due]
                   ELSE NoRow]
  BY DEF Init
<1>3. NoRow \in Task /\ [NoRow EXCEPT !.row = "live", !.due = due] \in Task
  BY <1>1 DEF NoRow, Task
<1>4. tasks \in [TaskIds -> Task]
  BY <1>2, <1>3
<1>5. now \in 1 .. LastDay /\ ruleSeq \in 0 .. MaxRules
       /\ rules \in [RuleIds -> Rule \cup {None}]
       /\ exceptions \subseteq RuleIds \X TaskIds
  BY <1>1, BoundsAssumption DEF Init
<1>. QED BY <1>4, <1>5, IdleType DEF Init, TypeOK

\* The steps of a completion.
LEMMA BeginCompleteType ==
  ASSUME TypeOK, NEW p \in Procs, NEW t \in TaskIds, BeginComplete(p, t)
  PROVE  TypeOK'
<1>1. PICK noon \in {now - 1, now} :
        Continue(p, [Idle EXCEPT !.pc = "markDone", !.task = t,
                                 !.inc = tasks[t].inc, !.day = now, !.noon = noon])
  BY DEF BeginComplete
<1>. DEFINE r == [Idle EXCEPT !.pc = "markDone", !.task = t,
                              !.inc = tasks[t].inc, !.day = now, !.noon = noon]
<1>2. now \in Dates /\ noon \in Dates /\ tasks[t].inc \in Nat
  <2>1. now \in Dates /\ now - 1 \in Dates
    BY BoundsAssumption DEF TypeOK, Dates
  <2>2. tasks[t] \in Task
    BY DEF TypeOK
  <2>. QED BY <2>1, <2>2 DEF Task
<1>3. r \in Request
  BY <1>2, IdleType DEF Request, Steps, Idle
<1>4. Remembers(r)
  BY DEF Remembers, Idle
<1>5. RequestsOK'
  BY <1>1, <1>3, <1>4, ContinueType DEF TypeOK, RequestsOK
<1>. QED BY <1>5 DEF TypeOK, RequestsOK, BeginComplete

LEMMA MarkDoneType ==
  ASSUME TypeOK, NEW p \in Procs, MarkDone(p)
  PROVE  TypeOK'
<1>. DEFINE q == req[p]
            t == q.task
            r == [q EXCEPT !.pc = "findRule", !.mark = tasks[t].mark,
                           !.due = tasks[t].due]
<1>1. q \in Request /\ q.pc = "markDone" /\ t \in TaskIds /\ tasks[t] \in Task
  BY DEF TypeOK, Remembers, MarkDone
<1>2. r \in Request
  BY <1>1 DEF Request, Steps, Task
<1>3. Remembers(r)
  BY <1>1 DEF Remembers, Request
<1>4. RequestsOK'
  BY <1>2, <1>3, ContinueType, FinishType DEF TypeOK, RequestsOK, MarkDone
<1>5. [tasks[t] EXCEPT !.status = "done"] \in Task
  BY <1>1 DEF Task
<1>6. tasks' \in [TaskIds -> Task]
  BY <1>1, <1>5 DEF TypeOK, MarkDone
<1>. QED BY <1>4, <1>6 DEF TypeOK, RequestsOK, MarkDone

LEMMA FindRuleType ==
  ASSUME TypeOK, NEW p \in Procs,
         \/ FindRule(p, "findRule", "insert")
         \/ FindRule(p, "skipFind", "except")
  PROVE  TypeOK'
<1>1. PICK from \in {"findRule", "skipFind"}, to \in {"insert", "except"} :
        FindRule(p, from, to)
  OBVIOUS
<1>. DEFINE q == req[p]
            found == RuleOf(q.task, q.mark, TRUE)
            r == [q EXCEPT !.pc = to, !.rule = found, !.snap = rules[found]]
<1>2. q \in Request /\ Remembers(q) /\ q.pc = from
  BY <1>1 DEF TypeOK, FindRule
<1>3. ASSUME found # None, Continue(p, r)  PROVE RequestsOK'
  <2>1. found \in RuleIds /\ rules[found] \in Rule
    <3>1. found \in RuleIds /\ rules[found] # None
      BY <1>3, RuleOfReturns
    <3>. QED BY <3>1 DEF TypeOK
  <2>2. r \in Request
    BY <1>2, <2>1 DEF Request, Steps
  <2>3. Remembers(r)
    BY <1>2, <2>1 DEF Remembers, Request
  <2>. QED BY <1>3, <2>2, <2>3, ContinueType DEF TypeOK, RequestsOK
<1>4. RequestsOK'
  BY <1>1, <1>3, FinishType DEF TypeOK, RequestsOK, FindRule
<1>. QED BY <1>1, <1>4 DEF TypeOK, RequestsOK, FindRule

LEMMA InsertNextType ==
  ASSUME TypeOK, NEW p \in Procs, InsertNext(p)
  PROVE  TypeOK'
<1>. DEFINE q == req[p]
            n == ComputeNext(q.snap, q.due, q.day, q.noon)
            r == [q EXCEPT !.pc = "bump", !.next = n,
                           !.nextInc = tasks[<<q.rule, n>>].inc]
<1>1. q \in Request /\ Remembers(q) /\ q.pc = "insert" /\ n # None
  BY DEF TypeOK, InsertNext
<1>2. q.rule \in RuleIds /\ q.snap \in Rule /\ q.task \in TaskIds
  BY <1>1 DEF Remembers
<1>3. n \in Dates
  <2>1. q.due \in Dates \cup {None} /\ q.day \in Dates /\ q.noon \in Dates
    BY <1>1 DEF Request
  <2>2. n \in Dates \cup {None}
    BY <1>2, <2>1, ComputeNextType
  <2>. QED BY <1>1, <2>2
<1>4. <<q.rule, n>> \in TaskIds
  BY <1>2, <1>3 DEF TaskIds, OccurrenceKeys
<1>5. r \in Request /\ Remembers(r)
  <2>. HIDE DEF n
  <2>1. tasks[<<q.rule, n>>].inc \in Nat
    BY <1>4 DEF TypeOK, Task
  <2>. QED BY <1>1, <1>2, <1>3, <2>1 DEF Request, Steps, Remembers
<1>6. RequestsOK'
  BY <1>5, ContinueType DEF TypeOK, RequestsOK, InsertNext
<1>7. tasks' \in [TaskIds -> Task]
  BY <1>2, <1>3, InsertOccurrencesType DEF TypeOK, InsertNext
<1>. QED BY <1>6, <1>7 DEF TypeOK, RequestsOK, InsertNext

LEMMA BumpRuleType ==
  ASSUME TypeOK, NEW p \in Procs, BumpRule(p)
  PROVE  TypeOK' /\ RulesLast
<1>. DEFINE q == req[p]
            k == <<q.rule, q.next>>
            moved == [rules[q.rule] EXCEPT !.current = k,
                                           !.gen = Saturate(q.snap.gen + 1),
                                           !.next = q.next]
<1>1. q.rule \in RuleIds /\ q.snap \in Rule /\ q.next \in Dates
  BY DEF TypeOK, BumpRule, Remembers
<1>2. k \in TaskIds
  BY <1>1 DEF TaskIds, OccurrenceKeys
<1>3. Saturate(q.snap.gen + 1) \in 0 .. MaxGen
  <2>1. q.snap.gen + 1 \in Nat
    BY <1>1, BoundsAssumption DEF Rule
  <2>. QED BY <2>1, SaturateType
<1>4. ASSUME rules[q.rule] # None  PROVE moved \in Rule
  <2>1. rules[q.rule] \in Rule
    BY <1>1, <1>4 DEF TypeOK
  <2>. QED BY <1>1, <1>2, <1>3, <2>1 DEF Rule
<1>5. rules' \in [RuleIds -> Rule \cup {None}] /\ RulesLast
  <2>1. CASE rules[q.rule] # None /\ RowIs(k, q.nextInc)
    <3>1. rules' = [rules EXCEPT ![q.rule] = moved]
      BY <2>1 DEF BumpRule
    <3>. QED BY <2>1, <3>1, <1>4 DEF TypeOK, RulesLast
  <2>2. CASE ~(rules[q.rule] # None /\ RowIs(k, q.nextInc))
    BY <2>2 DEF BumpRule, TypeOK, RulesLast
  <2>. QED BY <2>1, <2>2
<1>6. RequestsOK'
  BY FinishType DEF TypeOK, RequestsOK, BumpRule
<1>. QED BY <1>5, <1>6 DEF TypeOK, RequestsOK, BumpRule

LEMMA EndSeriesType ==
  ASSUME TypeOK, NEW p \in Procs, EndSeries(p)
  PROVE  TypeOK' /\ RulesLast
<1>. DEFINE r == req[p].rule
            ended == [rules[r] EXCEPT !.enabled = FALSE, !.current = None,
                                      !.next = None]
<1>1. r \in RuleIds
  BY DEF TypeOK, EndSeries, Remembers
<1>2. rules' \in [RuleIds -> Rule \cup {None}] /\ RulesLast
  <2>1. CASE rules[r] # None
    <3>1. ended \in Rule
      <4>1. rules[r] \in Rule
        BY <1>1, <2>1 DEF TypeOK
      <4>. QED BY <4>1 DEF Rule
    <3>2. rules' = [rules EXCEPT ![r] = ended]
      BY <2>1 DEF EndSeries
    <3>. QED BY <3>1, <3>2 DEF TypeOK, RulesLast
  <2>2. CASE rules[r] = None
    BY <2>2 DEF EndSeries, TypeOK, RulesLast
  <2>. QED BY <2>1, <2>2
<1>3. RequestsOK'
  BY FinishType DEF TypeOK, RequestsOK, EndSeries
<1>. QED BY <1>2, <1>3 DEF TypeOK, RequestsOK, EndSeries

\* The steps of a skip that it does not share with a completion.
LEMMA BeginSkipType ==
  ASSUME TypeOK, NEW p \in Procs, NEW t \in TaskIds, BeginSkip(p, t)
  PROVE  TypeOK'
<1>. DEFINE r == [Idle EXCEPT !.pc = "skipFind", !.task = t, !.inc = tasks[t].inc,
                              !.mark = tasks[t].mark]
<1>1. tasks[t] \in Task
  BY DEF TypeOK
<1>2. r \in Request
  BY <1>1, IdleType DEF Request, Steps, Idle, Task
<1>3. Remembers(r)
  BY DEF Remembers, Idle
<1>4. RequestsOK'
  BY <1>2, <1>3, ContinueType DEF TypeOK, RequestsOK, BeginSkip
<1>. QED BY <1>4 DEF TypeOK, RequestsOK, BeginSkip

LEMMA InsertSkipExceptionType ==
  ASSUME TypeOK, NEW p \in Procs, InsertSkipException(p)
  PROVE  TypeOK'
<1>. DEFINE q == req[p]
            r == [q EXCEPT !.pc = "reject"]
<1>1. q \in Request /\ Remembers(q) /\ q.pc = "except"
  BY DEF TypeOK, InsertSkipException
<1>2. q.rule \in RuleIds /\ q.task \in TaskIds
  BY <1>1 DEF Remembers
<1>3. r \in Request /\ Remembers(r)
  BY <1>1 DEF Request, Steps, Remembers
<1>4. RequestsOK'
  BY <1>3, ContinueType, FinishType DEF TypeOK, RequestsOK, InsertSkipException
<1>5. (exceptions \subseteq RuleIds \X TaskIds)'
  BY <1>2 DEF TypeOK, InsertSkipException
<1>. QED BY <1>4, <1>5 DEF TypeOK, RequestsOK, InsertSkipException

LEMMA RejectSkippedType ==
  ASSUME TypeOK, NEW p \in Procs, RejectSkipped(p)
  PROVE  TypeOK'
<1>. DEFINE q == req[p]
            t == q.task
            r(noon) == [q EXCEPT !.pc = "insert", !.due = tasks[t].due,
                                 !.day = now, !.noon = noon]
<1>1. q \in Request /\ Remembers(q) /\ q.pc = "reject"
  BY DEF TypeOK, RejectSkipped
<1>2. t \in TaskIds /\ tasks[t] \in Task
  BY <1>1 DEF TypeOK, Remembers
<1>3. now \in Dates /\ now - 1 \in Dates
  BY BoundsAssumption DEF TypeOK, Dates
<1>4. \A noon \in {now - 1, now} : r(noon) \in Request /\ Remembers(r(noon))
  BY <1>1, <1>2, <1>3 DEF Request, Steps, Remembers, Task
<1>5. CASE RowIs(t, q.inc)
  <2>1. PICK noon \in {now - 1, now} : Continue(p, r(noon))
    BY <1>5 DEF RejectSkipped
  <2>2. RequestsOK'
    BY <1>4, <2>1, ContinueType DEF TypeOK, RequestsOK
  <2>3. [tasks[t] EXCEPT !.status = "rejected", !.mark = q.mark] \in Task
    BY <1>1, <1>2 DEF Task, Request
  <2>4. tasks' = [tasks EXCEPT ![t] = [tasks[t] EXCEPT !.status = "rejected", !.mark = q.mark]]
    BY <1>5 DEF RejectSkipped
  <2>5. tasks' \in [TaskIds -> Task]
    BY <2>3, <2>4 DEF TypeOK
  <2>. QED BY <2>2, <2>5 DEF TypeOK, RequestsOK, RejectSkipped
<1>6. CASE ~RowIs(t, q.inc)
  <2>1. RequestsOK' /\ UNCHANGED tasks
    BY <1>6, FinishType DEF TypeOK, RequestsOK, RejectSkipped
  <2>. QED BY <2>1 DEF TypeOK, RequestsOK, RejectSkipped
<1>. QED BY <1>5, <1>6

\* The steps that attach a rule.
LEMMA BeginCreateType ==
  ASSUME TypeOK, NEW p \in Procs, NEW t \in TaskIds, NEW ask \in Cadence,
         BeginCreate(p, t, ask)
  PROVE  TypeOK'
<1>. DEFINE start == OrElse(ask.start, tasks[t].due)
            asked == [ask EXCEPT !.start = start]
            r == [Idle EXCEPT !.pc = "findExisting", !.task = t,
                              !.inc = tasks[t].inc, !.mark = tasks[t].mark,
                              !.due = tasks[t].due, !.ask = asked]
<1>1. tasks[t] \in Task
  BY DEF TypeOK
<1>2. start \in Dates
  <2>1. ask.start \in Dates \cup {None} /\ tasks[t].due \in Dates \cup {None}
    BY <1>1, BoundsAssumption DEF Cadence, Task
  <2>. QED BY <2>1 DEF BeginCreate, OrElse
<1>3. asked \in Asked
  <2>. HIDE DEF start
  <2>. QED BY <1>2 DEF Cadence, Asked
<1>4. r \in Request /\ Remembers(r)
  <2>. HIDE DEF asked
  <2>. QED BY ZenonT(40), <1>1, <1>3, IdleType DEF Request, Steps, Idle, Task, Remembers
<1>5. RequestsOK'
  BY <1>4, ContinueType DEF TypeOK, RequestsOK, BeginCreate
<1>. QED BY <1>5 DEF TypeOK, RequestsOK, BeginCreate

LEMMA FindExistingType ==
  ASSUME TypeOK, NEW p \in Procs, FindExisting(p)
  PROVE  TypeOK'
<1>. DEFINE q == req[p]
            found == RuleOf(q.task, q.mark, FALSE)
            r == [q EXCEPT !.pc = "writeRule", !.rule = found,
                           !.snap = IF found = None THEN None ELSE rules[found]]
<1>1. q \in Request /\ Remembers(q) /\ q.pc = "findExisting"
  BY DEF TypeOK, FindExisting
<1>2. found # None => found \in RuleIds /\ rules[found] # None
  BY RuleOfReturns
<1>3. r \in Request /\ Remembers(r)
  <2>. HIDE DEF found
  <2>1. found \in RuleIds \cup {None}
         /\ (IF found = None THEN None ELSE rules[found]) \in Rule \cup {None}
    BY <1>2 DEF TypeOK
  <2>. QED BY ZenonT(40), <1>1, <2>1 DEF Request, Steps, Remembers
<1>4. RequestsOK'
  BY <1>3, ContinueType DEF TypeOK, RequestsOK, FindExisting
<1>. QED BY <1>4 DEF TypeOK, RequestsOK, FindExisting

\* Attaching a rule gives a rule that is enabled, in the series it was in.
LEMMA AttachedType ==
  ASSUME NEW q \in Request, q.ask \in Asked, q.task \in TaskIds, NEW rule \in Rule
  PROVE  /\ Attached(q, rule) \in Rule
         /\ Attached(q, rule).series = rule.series
         /\ Attached(q, rule).enabled = TRUE
         /\ Attached(q, rule).current = q.task
<1>. DEFINE c == [rule EXCEPT !.interval = q.ask.interval, !.count = q.ask.count,
                              !.until = None, !.dtstart = q.ask.start,
                              !.anchor = q.ask.anchor, !.enabled = TRUE,
                              !.current = q.task]
            next == After(Expansion(c, c.dtstart), c.dtstart)
<1>1. /\ c \in Rule /\ c.series = rule.series /\ c.enabled = TRUE
      /\ c.dtstart \in Dates /\ c.current = q.task
  BY BoundsAssumption DEF Asked, Rule
<1>2. Attached(q, rule) = [c EXCEPT !.next = next]
  BY DEF Attached
<1>. HIDE DEF c
<1>3. next \in Dates \cup {None}
  <2>1. c.dtstart \in Int
    BY <1>1 DEF Dates
  <2>. QED BY <2>1, AfterType
<1>. HIDE DEF next
<1>. QED BY <1>1, <1>2, <1>3 DEF Rule

LEMMA RewriteRuleType ==
  ASSUME TypeOK, NEW p \in Procs, RewriteRule(p)
  PROVE  TypeOK' /\ RulesLast
<1>. DEFINE q == req[p]
            r == [q EXCEPT !.pc = "writeMarker"]
<1>1. q \in Request /\ Remembers(q) /\ q.pc = "writeRule" /\ q.rule # None
       /\ rules[q.rule] # None
  BY DEF TypeOK, RewriteRule
<1>2. q.rule \in RuleIds /\ q.ask \in Asked /\ q.task \in TaskIds
  BY <1>1 DEF Request, Remembers
<1>3. r \in Request /\ Remembers(r)
  BY <1>1, <1>2 DEF Request, Steps, Remembers
<1>4. RequestsOK'
  BY <1>3, ContinueType DEF TypeOK, RequestsOK, RewriteRule
<1>5. Attached(q, rules[q.rule]) \in Rule
  <2>1. rules[q.rule] \in Rule
    BY <1>1, <1>2 DEF TypeOK
  <2>. QED BY <1>1, <1>2, <2>1, AttachedType
<1>6. rules' \in [RuleIds -> Rule \cup {None}] /\ RulesLast
  BY <1>5 DEF TypeOK, RewriteRule, RulesLast
<1>. QED BY <1>4, <1>6 DEF TypeOK, RequestsOK, RewriteRule

\* The row that an insert starts from.
LEMMA BlankType ==
  ASSUME NEW q \in Request, q.ask \in Asked, q.task \in Seeds
  PROVE  [series |-> q.task, enabled |-> TRUE, current |-> None,
          anchor |-> q.ask.anchor, dtstart |-> q.ask.start,
          interval |-> q.ask.interval, until |-> None,
          count |-> q.ask.count, gen |-> 1, next |-> None] \in Rule
<1>1. q.ask.anchor \in AnchorKinds /\ q.ask.interval \in Intervals
       /\ q.ask.start \in Dates
  BY BoundsAssumption DEF Asked
<1>2. q.ask.count \in (1 .. MaxGen) \cup {None}
  BY BoundsAssumption DEF Asked
<1>3. 1 \in 0 .. MaxGen
  BY BoundsAssumption
<1>. QED BY <1>1, <1>2, <1>3 DEF Rule

LEMMA InsertRuleType ==
  ASSUME TypeOK, NEW p \in Procs, InsertRule(p)
  PROVE  TypeOK'
<1>. DEFINE q == req[p]
            n == ruleSeq + 1
            r == [q EXCEPT !.pc = "writeMarker", !.rule = n]
            blank == [series |-> q.task, enabled |-> TRUE, current |-> None,
                      anchor |-> q.ask.anchor, dtstart |-> q.ask.start,
                      interval |-> q.ask.interval, until |-> None,
                      count |-> q.ask.count, gen |-> 1, next |-> None]
<1>1. q \in Request /\ Remembers(q) /\ q.pc = "writeRule" /\ q.task \in Seeds
       /\ n \in RuleIds
  BY DEF TypeOK, InsertRule
<1>2. q.ask \in Asked /\ q.task \in TaskIds
  BY <1>1 DEF Remembers
<1>3. r \in Request /\ Remembers(r)
  <2>. HIDE DEF n
  <2>. QED BY <1>1, <1>2 DEF Request, Steps, Remembers
<1>4. RequestsOK'
  BY <1>3, ContinueType DEF TypeOK, RequestsOK, InsertRule
<1>5. Attached(q, blank) \in Rule
  <2>1. blank \in Rule
    BY <1>1, <1>2, BlankType
  <2>. HIDE DEF blank
  <2>. QED BY <1>1, <1>2, <2>1, AttachedType
<1>6. rules' \in [RuleIds -> Rule \cup {None}]
  BY <1>5 DEF TypeOK, InsertRule
<1>7. (ruleSeq \in 0 .. MaxRules)'
  BY <1>1 DEF InsertRule, RuleIds
<1>. QED BY <1>4, <1>6, <1>7 DEF TypeOK, RequestsOK, InsertRule

LEMMA WriteMarkerType ==
  ASSUME TypeOK, NEW p \in Procs, WriteMarker(p)
  PROVE  TypeOK'
<1>. DEFINE q == req[p]
            t == q.task
            due == IF q.due = None THEN q.ask.start ELSE tasks[t].due
            marked == [tasks[t] EXCEPT !.mark = q.rule, !.due = due]
<1>1. q \in Request /\ Remembers(q) /\ q.pc = "writeMarker"
  BY DEF TypeOK, WriteMarker
<1>2. q.rule \in RuleIds /\ q.ask \in Asked /\ t \in TaskIds /\ tasks[t] \in Task
  BY <1>1 DEF TypeOK, Remembers
<1>3. due \in Dates \cup {None}
  BY <1>2 DEF Asked, Task
<1>4. marked \in Task
  <2>. HIDE DEF due
  <2>. QED BY <1>2, <1>3 DEF Task
<1>5. tasks' = tasks \/ tasks' = [tasks EXCEPT ![t] = marked]
  BY DEF WriteMarker
<1>6. tasks' \in [TaskIds -> Task]
  BY <1>4, <1>5 DEF TypeOK
<1>7. RequestsOK'
  BY FinishType DEF TypeOK, RequestsOK, WriteMarker
<1>. QED BY <1>6, <1>7 DEF TypeOK, RequestsOK, WriteMarker

\* The steps of an edit, and a stop.
LEMMA BeginUpdateRuleType ==
  ASSUME TypeOK, NEW p \in Procs, NEW r \in RuleIds, NEW ask \in RuleEdit,
         BeginUpdateRule(p, r, ask)
  PROVE  TypeOK'
<1>. DEFINE due == IF rules[r].current = None THEN None ELSE tasks[rules[r].current].due
            start == OrElse(ask.start, OrElse(due, rules[r].dtstart))
            asked == [ask EXCEPT !.start = start]
            new == [Idle EXCEPT !.pc = "writeUpdate", !.rule = r, !.snap = rules[r],
                                !.ask = asked]
<1>1. rules[r] \in Rule
  BY DEF TypeOK, BeginUpdateRule
<1>2. start \in Dates
  <2>1. due \in Dates \cup {None}
    <3>1. rules[r].current # None => tasks[rules[r].current] \in Task
      BY <1>1 DEF TypeOK, Rule
    <3>. QED BY <3>1 DEF Task
  <2>2. ask.start \in Dates \cup {None} /\ rules[r].dtstart \in Dates
    BY <1>1, BoundsAssumption DEF RuleEdit, Rule
  <2>. HIDE DEF due
  <2>. QED BY <2>1, <2>2 DEF OrElse
<1>3. asked \in Edited
  <2>. HIDE DEF start
  <2>. QED BY <1>2 DEF RuleEdit, Edited
<1>4. new \in Request /\ Remembers(new)
  <2>. HIDE DEF asked
  <2>. QED BY <1>1, <1>3, IdleType DEF Request, Steps, Idle, Remembers
<1>5. RequestsOK'
  BY <1>4, ContinueType DEF TypeOK, RequestsOK, BeginUpdateRule
<1>. QED BY <1>5 DEF TypeOK, RequestsOK, BeginUpdateRule

LEMMA WriteUpdateType ==
  ASSUME TypeOK, NEW p \in Procs, WriteUpdate(p)
  PROVE  TypeOK' /\ RulesLast
<1>. DEFINE q == req[p]
            was == q.snap
            r == q.rule
            on == OrElse(q.ask.enabled, was.enabled)
            interval == OrElse(q.ask.interval, was.interval)
            until == IF q.ask.interval # None THEN None ELSE was.until
            count == IF q.ask.interval # None THEN None ELSE was.count
            c == [was EXCEPT !.interval = interval, !.until = until, !.count = count]
            next == After(Expansion(c, q.ask.start), q.ask.start)
            anchor == OrElse(q.ask.anchor, was.anchor)
            edited == [rules[r] EXCEPT !.enabled = on, !.interval = interval,
                                       !.until = until, !.count = count,
                                       !.dtstart = q.ask.start, !.anchor = anchor,
                                       !.next = next]
<1>1. r \in RuleIds /\ was \in Rule /\ q.ask \in Edited
  BY DEF TypeOK, WriteUpdate, Remembers
<1>2. on \in BOOLEAN /\ interval \in Intervals
  BY <1>1 DEF Rule, Edited, OrElse
<1>3. until \in Dates \cup {None} /\ count \in (1 .. MaxGen) \cup {None}
       /\ anchor \in AnchorKinds
  BY <1>1, BoundsAssumption DEF Rule, Edited, OrElse
<1>4. q.ask.start \in Dates
  BY <1>1 DEF Edited
<1>5. next \in Dates \cup {None}
  <2>1. q.ask.start \in Int
    BY <1>4 DEF Dates
  <2>. HIDE DEF c
  <2>. QED BY <2>1, AfterType
<1>6. \/ rules' = rules
      \/ rules[r] # None /\ rules' = [rules EXCEPT ![r] = edited]
  <2>1. c.interval = interval /\ c.until = until /\ c.count = count
    BY <1>1 DEF Rule
  <2>. QED BY ZenonT(40), <2>1 DEF WriteUpdate
<1>7. rules[r] # None => edited \in Rule
  <2>1. rules[r] # None => rules[r] \in Rule
    BY <1>1 DEF TypeOK
  <2>. HIDE DEF on, interval, until, count, next, anchor
  <2>. QED BY <1>2, <1>3, <1>4, <1>5, <2>1 DEF Rule
<1>8. rules' \in [RuleIds -> Rule \cup {None}] /\ RulesLast
  <2>. HIDE DEF edited
  <2>. QED BY <1>6, <1>7 DEF TypeOK, RulesLast
<1>9. RequestsOK'
  BY FinishType DEF TypeOK, RequestsOK, WriteUpdate
<1>. QED BY <1>8, <1>9 DEF TypeOK, RequestsOK, WriteUpdate

LEMMA StopRecurrenceType ==
  ASSUME TypeOK, NEW r \in RuleIds, StopRecurrence(r)
  PROVE  TypeOK' /\ RulesLast
<1>1. [rules[r] EXCEPT !.enabled = FALSE, !.next = None] \in Rule
  <2>1. rules[r] \in Rule
    BY DEF TypeOK, StopRecurrence
  <2>. QED BY <2>1 DEF Rule
<1>2. rules' = [rules EXCEPT ![r] = [rules[r] EXCEPT !.enabled = FALSE, !.next = None]]
  BY DEF StopRecurrence
<1>3. rules' \in [RuleIds -> Rule \cup {None}] /\ RulesLast
  BY <1>1, <1>2 DEF TypeOK, RulesLast
<1>. QED BY <1>3 DEF TypeOK, StopRecurrence

\* The steps of a split.
LEMMA BeginSplitType ==
  ASSUME TypeOK, NEW p \in Procs, NEW r \in RuleIds, NEW ask \in Cadence,
         BeginSplit(p, r, ask)
  PROVE  TypeOK'
<1>. DEFINE t == rules[r].current
            forkAfter == OrElse(tasks[t].due, rules[r].dtstart)
            asked == [ask EXCEPT !.start = forkAfter]
            new == [Idle EXCEPT !.pc = "fork", !.task = t, !.inc = tasks[t].inc,
                                !.rule = r, !.snap = rules[r], !.ask = asked]
<1>1. rules[r] \in Rule /\ t # None
  BY DEF TypeOK, BeginSplit
<1>2. t \in TaskIds /\ tasks[t] \in Task
  BY <1>1 DEF TypeOK, Rule
<1>3. forkAfter \in Dates
  BY <1>1, <1>2 DEF OrElse, Task, Rule
<1>4. asked \in Asked
  <2>. HIDE DEF forkAfter
  <2>. QED BY <1>3 DEF Cadence, Asked
<1>5. new \in Request /\ Remembers(new)
  <2>. HIDE DEF asked
  <2>1. tasks[t].inc \in Nat
    BY <1>2 DEF Task
  <2>. QED BY <1>1, <1>2, <1>4, <2>1, IdleType DEF Request, Steps, Idle, Remembers
<1>6. RequestsOK'
  BY <1>5, ContinueType DEF TypeOK, RequestsOK, BeginSplit
<1>. QED BY <1>6 DEF TypeOK, RequestsOK, BeginSplit

\* A forked rule is enabled and stays in the series of the rule it continues.
LEMMA ForkedRuleType ==
  ASSUME NEW q \in Request, q.ask \in Asked, q.snap \in Rule, q.task \in TaskIds
  PROVE  /\ ForkedRule(q) \in Rule
         /\ ForkedRule(q).series = q.snap.series
         /\ ForkedRule(q).current = q.task
<1>. DEFINE base == [q.snap EXCEPT !.current = q.task, !.enabled = TRUE,
                             !.anchor = q.ask.anchor, !.interval = q.ask.interval,
                             !.count = q.ask.count, !.until = None,
                             !.dtstart = q.ask.start, !.next = None]
            first == After(Expansion(base, q.ask.start), q.ask.start)
<1>1. base \in Rule /\ base.series = q.snap.series /\ base.current = q.task
  BY BoundsAssumption DEF Asked, Rule
<1>2. q.ask.start \in Dates /\ first \in Dates \cup {None}
  <2>1. q.ask.start \in Dates /\ q.ask.start \in Int
    BY DEF Asked, Dates
  <2>. HIDE DEF base
  <2>. QED BY <2>1, AfterType
<1>3. OrElse(first, q.ask.start) \in Dates
  <2>. HIDE DEF first
  <2>. QED BY <1>2 DEF OrElse
<1>4. 0 \in 0 .. MaxGen
  BY BoundsAssumption
<1>. DEFINE moved == [base EXCEPT !.dtstart = OrElse(first, q.ask.start),
                                  !.next = first, !.gen = 0]
<1>5. ForkedRule(q) = base \/ ForkedRule(q) = moved
  BY DEF ForkedRule
<1>6. moved \in Rule /\ moved.series = base.series /\ moved.current = base.current
  <2>. HIDE DEF base, first
  <2>. QED BY <1>1, <1>2, <1>3, <1>4 DEF Rule
<1>. HIDE DEF base, moved
<1>. QED BY <1>1, <1>5, <1>6

LEMMA ForkType ==
  ASSUME TypeOK, NEW p \in Procs, Fork(p)
  PROVE  TypeOK' /\ RulesLast
<1>. DEFINE q == req[p]
            n == ruleSeq + 1
            current == IF q.ask.anchor = "completion" THEN None ELSE q.snap.current
            old == [rules[q.rule] EXCEPT
                      !.enabled = FALSE, !.next = None, !.count = None,
                      !.until = q.ask.start, !.interval = q.snap.interval,
                      !.current = current]
<1>1. q \in Request /\ Remembers(q) /\ q.pc = "fork" /\ ~ForkRefused(q)
  BY DEF TypeOK, Fork
<1>2. q.rule \in RuleIds /\ q.snap \in Rule /\ q.ask \in Asked /\ q.task \in TaskIds
  BY <1>1 DEF Remembers
<1>3. n \in RuleIds /\ rules[q.rule] \in Rule
  BY <1>1, <1>2, BoundsAssumption DEF ForkRefused, TypeOK, RuleIds
<1>4. old \in Rule
  <2>1. current \in TaskIds \cup {None}
    BY <1>2 DEF Rule
  <2>2. q.ask.start \in Dates /\ q.snap.interval \in Intervals
    BY <1>2 DEF Asked, Rule
  <2>. HIDE DEF current
  <2>. QED BY <1>3, <2>1, <2>2 DEF Rule
<1>5. rules' = [rules EXCEPT ![q.rule] = old, ![n] = ForkedRule(q)]
  BY DEF Fork
<1>6. ForkedRule(q) \in Rule
  BY <1>1, <1>2, ForkedRuleType
<1>7. rules' \in [RuleIds -> Rule \cup {None}] /\ RulesLast
  <2>. HIDE DEF old
  <2>. QED BY <1>4, <1>5, <1>6 DEF TypeOK, RulesLast
<1>8. tasks' \in [TaskIds -> Task]
  <2>1. [tasks[q.task] EXCEPT !.mark = n] \in Task
    <3>1. tasks[q.task] \in Task
      BY <1>2 DEF TypeOK
    <3>. QED BY <1>3, <3>1 DEF Task
  <2>2. tasks' = tasks \/ tasks' = [tasks EXCEPT ![q.task] = [tasks[q.task] EXCEPT !.mark = n]]
    BY DEF Fork
  <2>. QED BY <2>1, <2>2 DEF TypeOK
<1>9. (ruleSeq \in 0 .. MaxRules)'
  <2>1. ruleSeq' = n
    BY DEF Fork
  <2>. HIDE DEF n
  <2>. QED BY <1>3, <2>1 DEF RuleIds
<1>10. RequestsOK'
  BY FinishType DEF TypeOK, RequestsOK, Fork
<1>. QED BY <1>7, <1>8, <1>9, <1>10 DEF TypeOK, RequestsOK, Fork

\* The materializer.
LEMMA OwedType ==
  ASSUME NEW rule \in Rule, rule.next # None
  PROVE  Owed(rule) \subseteq Dates
<1>1. rule.next \in Dates
  BY DEF Rule
<1>. QED BY <1>1, ExpansionType DEF Owed

LEMMA LastOfReturns ==
  ASSUME NEW days, days \subseteq Dates, days # {}
  PROVE  LastOf(days) \in days /\ \A e \in days : e <= LastOf(days)
<1>1. \E d \in days : \A e \in days : e <= d
  <2>1. LastDay + MaxInterval \in Nat
    BY BoundsAssumption
  <2>2. days \subseteq 0 .. (LastDay + MaxInterval)
    BY DEF Dates
  <2>. QED BY <2>1, <2>2, GreatestExists
<1>. QED BY <1>1 DEF LastOf

LEMMA MaterializeRuleType ==
  ASSUME TypeOK, NEW r \in RuleIds, MaterializeRule(r)
  PROVE  TypeOK' /\ RulesLast
<1>. DEFINE rule == rules[r]
            days == Owed(rule)
            last == LastOf(days)
            gen == Saturate(rule.gen + Cardinality(days))
            more == rule.count # None => gen < rule.count
            next == IF more THEN After(Expansion(rule, rule.dtstart), last) ELSE None
            after == [rule EXCEPT !.current = <<r, last>>, !.gen = gen, !.next = next]
            spent == [rule EXCEPT !.next = None]
<1>1. rule \in Rule /\ rule.next # None
  BY DEF TypeOK, MaterializeRule
<1>2. days \subseteq Dates
  BY <1>1, OwedType
<1>3. gen \in 0 .. MaxGen
  <2>1. IsFiniteSet(Dates)
    <3>1. 0 \in Int /\ LastDay + MaxInterval \in Int
      BY BoundsAssumption
    <3>. QED BY <3>1, FS_Interval DEF Dates
  <2>2. Cardinality(days) \in Nat
    BY <1>2, <2>1, FS_Subset, FS_CardinalityType
  <2>3. rule.gen + Cardinality(days) \in Nat
    BY <1>1, <2>2, BoundsAssumption DEF Rule
  <2>. QED BY <2>3, SaturateType
<1>4. spent \in Rule
  BY <1>1 DEF Rule
<1>5. days # {} => after \in Rule
  <2>. SUFFICES ASSUME days # {} PROVE after \in Rule
    OBVIOUS
  <2>1. last \in Dates
    BY <1>2, LastOfReturns
  <2>2. <<r, last>> \in TaskIds
    BY <2>1 DEF TaskIds, OccurrenceKeys
  <2>3. next \in Dates \cup {None}
    <3>1. last \in Int
      BY <2>1 DEF Dates
    <3>. HIDE DEF last, more
    <3>. QED BY <3>1, AfterType
  <2>. HIDE DEF last, gen, next
  <2>. QED BY <1>1, <1>3, <2>2, <2>3 DEF Rule
<1>6. rules' = [rules EXCEPT ![r] = IF days = {} THEN spent ELSE after]
  BY DEF MaterializeRule
<1>7. rules' \in [RuleIds -> Rule \cup {None}] /\ RulesLast
  <2>. HIDE DEF days, spent, after
  <2>. QED BY <1>4, <1>5, <1>6 DEF TypeOK, RulesLast
<1>8. tasks' \in [TaskIds -> Task]
  BY <1>2, InsertOccurrencesType DEF TypeOK, MaterializeRule
<1>. QED BY <1>7, <1>8 DEF TypeOK, MaterializeRule

\* What else happens to a task.
LEMMA EditTaskType ==
  ASSUME TypeOK, NEW t \in TaskIds, EditTask(t)
  PROVE  TypeOK'
<1>. DEFINE emptied == [NoRow EXCEPT !.inc = tasks[t].inc + 1]
<1>1. tasks[t] \in Task
  BY DEF TypeOK
<1>2. ASSUME NEW status \in {"open", "rejected"}, SetStatus(t, status)
      PROVE  TypeOK'
  <2>1. [tasks[t] EXCEPT !.status = status] \in Task
    BY <1>1 DEF Task
  <2>. QED BY <1>2, <2>1 DEF TypeOK, SetStatus
<1>3. ASSUME NEW d \in Moves, Reschedule(t, d)
      PROVE  TypeOK'
  <2>1. [tasks[t] EXCEPT !.due = d] \in Task
    BY <1>1, BoundsAssumption DEF Task
  <2>. QED BY <1>3, <2>1 DEF TypeOK, Reschedule
<1>4. ASSUME Trash(t) \/ Restore(t)
      PROVE  TypeOK'
  <2>1. /\ [tasks[t] EXCEPT !.row = "trashed"] \in Task
        /\ [tasks[t] EXCEPT !.row = "live"] \in Task
    BY <1>1 DEF Task
  <2>. QED BY <1>4, <2>1 DEF TypeOK, Trash, Restore
<1>5. ASSUME Purge(t)
      PROVE  TypeOK'
  <2>1. emptied \in Task
    BY <1>1 DEF NoRow, Task
  <2>2. tasks' \in [TaskIds -> Task]
    BY <1>5, <2>1 DEF TypeOK, Purge
  <2>3. \A r \in RuleIds : rules[r] # None => [rules[r] EXCEPT !.current = None] \in Rule
    BY DEF TypeOK, Rule
  <2>4. rules' \in [RuleIds -> Rule \cup {None}]
    BY <1>5, <2>3 DEF TypeOK, Purge
  <2>5. (exceptions \subseteq RuleIds \X TaskIds)'
    BY <1>5 DEF TypeOK, Purge
  <2>. QED BY <1>5, <2>2, <2>4, <2>5 DEF TypeOK, Purge
<1>. QED BY <1>2, <1>3, <1>4, <1>5 DEF EditTask

LEMMA BeginRequestType ==
  ASSUME TypeOK, NEW p \in Procs, BeginRequest(p)
  PROVE  TypeOK'
BY BeginCompleteType, BeginSkipType, BeginCreateType, BeginUpdateRuleType,
   BeginSplitType DEF BeginRequest

LEMMA ProceedType ==
  ASSUME TypeOK, NEW p \in Procs, Proceed(p)
  PROVE  TypeOK'
<1>1. ASSUME RefuseRule(p) PROVE TypeOK'
  BY <1>1, FinishType DEF TypeOK, RequestsOK, RefuseRule
<1>2. ASSUME RefuseFork(p) PROVE TypeOK'
  BY <1>2, FinishType DEF TypeOK, RequestsOK, RefuseFork
<1>. QED BY <1>1, <1>2, MarkDoneType, FindRuleType, InsertNextType, BumpRuleType,
            EndSeriesType, InsertSkipExceptionType, RejectSkippedType,
            FindExistingType, RewriteRuleType, InsertRuleType, WriteMarkerType,
            WriteUpdateType, ForkType DEF Proceed

LEMMA TypeNext == TypeOK /\ [Next]_vars => TypeOK'
<1>. SUFFICES ASSUME TypeOK, [Next]_vars PROVE TypeOK'
  OBVIOUS
<1>1. ASSUME NEW p \in Procs, BeginRequest(p) PROVE TypeOK'
  BY <1>1, BeginRequestType
<1>2. ASSUME NEW p \in Procs, Proceed(p) PROVE TypeOK'
  BY <1>2, ProceedType
<1>3. ASSUME NEW p \in Procs, Crash(p) PROVE TypeOK'
  BY <1>3, FinishType DEF TypeOK, RequestsOK, Crash
<1>4. ASSUME NEW r \in RuleIds, StopRecurrence(r) PROVE TypeOK'
  BY <1>4, StopRecurrenceType
<1>5. ASSUME NEW r \in RuleIds, MaterializeRule(r) PROVE TypeOK'
  BY <1>5, MaterializeRuleType
<1>6. ASSUME NEW t \in TaskIds, EditTask(t) PROVE TypeOK'
  BY <1>6, EditTaskType
<1>7. CASE Tick
  BY <1>7, BoundsAssumption DEF TypeOK, Tick
<1>8. CASE UNCHANGED vars
  BY <1>8 DEF TypeOK, vars
<1>. QED BY <1>1, <1>2, <1>3, <1>4, <1>5, <1>6, <1>7, <1>8 DEF Next

\* Every row, and every value a request keeps from one statement to the next,
\* has its type: a step never meets a rule it has not read (recurrence.ts).
THEOREM TypeCorrect == Spec => []TypeOK
<1>. QED BY TypeInit, TypeNext, PTL DEF Spec

-----------------------------------------------------------------------------
(* One active rule per series.                                             *)

\* A step that leaves every rule's series alone and enables nothing keeps it.
Enabling(r) == rules'[r] # None /\ rules'[r].enabled

LEMMA NothingEnabled ==
  ASSUME OneActiveRulePerSeries,
         \A r \in RuleIds : Enabling(r) =>
           rules[r] # None /\ rules[r].enabled /\ rules'[r].series = rules[r].series
  PROVE  OneActiveRulePerSeries'
BY DEF OneActiveRulePerSeries, IsRule, Enabling

\* Nor does a step that leaves rule n enabled, when no other one of its series
\* is.
LEMMA OneEnabled ==
  ASSUME OneActiveRulePerSeries, NEW s, NEW n \in RuleIds,
         rules'[n].series = s,
         \A r \in RuleIds \ {n} : Enabling(r) =>
           /\ rules[r] # None /\ rules[r].enabled
           /\ rules'[r].series = rules[r].series /\ rules[r].series # s
  PROVE  OneActiveRulePerSeries'
BY DEF OneActiveRulePerSeries, IsRule, Enabling

LEMMA OneActiveInit == Init => OneActiveRulePerSeries
BY DEF Init, OneActiveRulePerSeries, IsRule

LEMMA RewriteRuleOneActive ==
  ASSUME TypeOK, OneActiveRulePerSeries, NEW p \in Procs, RewriteRule(p)
  PROVE  OneActiveRulePerSeries'
<1>. DEFINE q == req[p]
            n == q.rule
<1>1. q \in Request /\ Remembers(q) /\ q.pc = "writeRule" /\ n # None /\ rules[n] # None
  BY DEF TypeOK, RewriteRule
<1>2. n \in RuleIds /\ rules[n] \in Rule /\ q.ask \in Asked /\ q.task \in TaskIds
  BY <1>1 DEF TypeOK, Request, Remembers
<1>3. rules'[n].series = rules[n].series
  BY <1>1, <1>2, AttachedType DEF TypeOK, RewriteRule
<1>4. \A r \in RuleIds \ {n} : rules'[r] = rules[r]
  BY <1>2 DEF TypeOK, RewriteRule
<1>5. \A r \in RuleIds \ {n} : Enabling(r) => rules[r].series # rules[n].series
  BY <1>4 DEF Enabling, RewriteRule, UniqueIndexAllows, EnabledIn
<1>. QED BY <1>2, <1>3, <1>4, <1>5, OneEnabled DEF Enabling

LEMMA InsertRuleOneActive ==
  ASSUME TypeOK, OneActiveRulePerSeries, NEW p \in Procs, InsertRule(p)
  PROVE  OneActiveRulePerSeries'
<1>. DEFINE q == req[p]
            n == ruleSeq + 1
            blank == [series |-> q.task, enabled |-> TRUE, current |-> None,
                      anchor |-> q.ask.anchor, dtstart |-> q.ask.start,
                      interval |-> q.ask.interval, until |-> None,
                      count |-> q.ask.count, gen |-> 1, next |-> None]
<1>1. q \in Request /\ Remembers(q) /\ q.pc = "writeRule" /\ q.task \in Seeds
       /\ n \in RuleIds
  BY DEF TypeOK, InsertRule
<1>2. q.ask \in Asked /\ q.task \in TaskIds
  BY <1>1 DEF Remembers
<1>3. blank \in Rule /\ blank.series = q.task
  BY <1>1, <1>2, BlankType
<1>4. rules' = [rules EXCEPT ![n] = Attached(q, blank)]
  BY DEF InsertRule
<1>5. rules'[n].series = q.task
  <2>. HIDE DEF blank
  <2>. QED BY <1>1, <1>2, <1>3, <1>4, AttachedType DEF TypeOK
<1>6. \A r \in RuleIds \ {n} : rules'[r] = rules[r]
  BY <1>1, <1>4 DEF TypeOK
<1>7. \A r \in RuleIds \ {n} : Enabling(r) => rules[r].series # q.task
  BY <1>6 DEF Enabling, InsertRule, UniqueIndexAllows, EnabledIn
<1>. QED BY <1>1, <1>5, <1>6, <1>7, OneEnabled DEF Enabling

LEMMA WriteUpdateOneActive ==
  ASSUME TypeOK, OneActiveRulePerSeries, NEW p \in Procs, WriteUpdate(p)
  PROVE  OneActiveRulePerSeries'
<1>. DEFINE q == req[p]
            n == q.rule
            on == OrElse(q.ask.enabled, q.snap.enabled)
<1>1. n \in RuleIds
  BY DEF TypeOK, WriteUpdate, Remembers
<1>2. \A r \in RuleIds \ {n} : rules'[r] = rules[r]
  BY DEF TypeOK, WriteUpdate
<1>3. CASE rules' = rules
  BY <1>3, NothingEnabled DEF Enabling
<1>4. CASE rules' # rules
  <2>1. rules[n] # None /\ (on => UniqueIndexAllows(rules[n].series, n))
    BY <1>4 DEF WriteUpdate
  <2>2. rules[n] \in Rule
    BY <1>1, <2>1 DEF TypeOK
  <2>3. rules'[n].series = rules[n].series /\ rules'[n].enabled = on
    BY <1>1, <1>4, <2>2 DEF TypeOK, WriteUpdate, Rule
  <2>4. CASE on
    <3>1. \A r \in RuleIds \ {n} : Enabling(r) => rules[r].series # rules[n].series
      BY <1>2, <2>1, <2>4 DEF Enabling, UniqueIndexAllows, EnabledIn
    <3>. QED BY <1>1, <1>2, <2>3, <3>1, OneEnabled DEF Enabling
  <2>5. CASE ~on
    BY <1>2, <2>3, <2>5, NothingEnabled DEF Enabling
  <2>. QED BY <2>4, <2>5
<1>. QED BY <1>3, <1>4

LEMMA ForkOneActive ==
  ASSUME TypeOK, OneActiveRulePerSeries, NEW p \in Procs, Fork(p)
  PROVE  OneActiveRulePerSeries'
<1>. DEFINE q == req[p]
            n == ruleSeq + 1
            s == q.snap.series
<1>1. q \in Request /\ Remembers(q) /\ q.pc = "fork" /\ ~ForkRefused(q)
  BY DEF TypeOK, Fork
<1>2. q.rule \in RuleIds /\ q.snap \in Rule /\ q.ask \in Asked /\ q.task \in TaskIds
  BY <1>1 DEF Remembers
<1>3. n \in RuleIds /\ rules[q.rule] \in Rule /\ UniqueIndexAllows(s, q.rule)
  BY <1>1, <1>2, BoundsAssumption DEF ForkRefused, TypeOK, RuleIds
<1>4. rules'[n] = ForkedRule(q)
  BY <1>3 DEF TypeOK, Fork
<1>5. rules'[n].series = s
  BY <1>1, <1>2, <1>4, ForkedRuleType
<1>6. \A r \in RuleIds \ {n, q.rule} : rules'[r] = rules[r]
  BY DEF TypeOK, Fork
<1>7. q.rule # n => ~rules'[q.rule].enabled
  BY <1>2, <1>3 DEF TypeOK, Fork, Rule
<1>8. \A r \in RuleIds \ {n} : Enabling(r) =>
        /\ rules[r] # None /\ rules[r].enabled
        /\ rules'[r].series = rules[r].series /\ rules[r].series # s
  BY <1>3, <1>6, <1>7 DEF Enabling, UniqueIndexAllows, EnabledIn
<1>. QED BY <1>3, <1>5, <1>8, OneEnabled

LEMMA OneActiveNext ==
  ASSUME TypeOK, OneActiveRulePerSeries, [Next]_vars
  PROVE  OneActiveRulePerSeries'
<1>1. ASSUME NEW p \in Procs, BeginRequest(p) \/ Crash(p)
      PROVE  OneActiveRulePerSeries'
  <2>1. rules' = rules
    BY <1>1 DEF BeginRequest, BeginComplete, BeginSkip, BeginCreate, BeginUpdateRule,
                BeginSplit, Crash
  <2>. QED BY <2>1 DEF OneActiveRulePerSeries, IsRule
<1>2. ASSUME NEW p \in Procs, Proceed(p)
      PROVE  OneActiveRulePerSeries'
  <2>1. CASE BumpRule(p)
    BY <2>1, NothingEnabled DEF TypeOK, BumpRule, Enabling, Rule
  <2>2. CASE EndSeries(p)
    BY <2>2, NothingEnabled DEF TypeOK, EndSeries, Enabling, Rule
  <2>3. CASE RewriteRule(p) \/ InsertRule(p) \/ WriteUpdate(p) \/ Fork(p)
    BY <2>3, RewriteRuleOneActive, InsertRuleOneActive, WriteUpdateOneActive, ForkOneActive
  <2>4. CASE rules' = rules
    BY <2>4 DEF OneActiveRulePerSeries, IsRule
  <2>. QED
    BY <1>2, <2>1, <2>2, <2>3, <2>4
       DEF Proceed, MarkDone, FindRule, InsertNext, InsertSkipException, RejectSkipped,
           FindExisting, RefuseRule, WriteMarker, RefuseFork
<1>3. ASSUME NEW r \in RuleIds, StopRecurrence(r) \/ MaterializeRule(r)
      PROVE  OneActiveRulePerSeries'
  <2>1. rules[r] \in Rule
    BY <1>3 DEF TypeOK, StopRecurrence, MaterializeRule
  <2>2. \A q \in RuleIds : Enabling(q) =>
          rules[q] # None /\ rules[q].enabled /\ rules'[q].series = rules[q].series
    <3>1. CASE StopRecurrence(r)
      BY <2>1, <3>1 DEF TypeOK, StopRecurrence, Enabling, Rule
    <3>2. CASE MaterializeRule(r)
      BY <2>1, <3>2 DEF TypeOK, MaterializeRule, Enabling, Rule
    <3>. QED BY <1>3, <3>1, <3>2
  <2>. QED BY <2>2, NothingEnabled
<1>4. ASSUME NEW t \in TaskIds, EditTask(t)
      PROVE  OneActiveRulePerSeries'
  <2>1. CASE Purge(t)
    BY <2>1, NothingEnabled DEF TypeOK, Purge, Enabling, Rule
  <2>2. CASE rules' = rules
    BY <2>2 DEF OneActiveRulePerSeries, IsRule
  <2>. QED BY <1>4, <2>1, <2>2 DEF EditTask, SetStatus, Reschedule, Trash, Restore
<1>5. CASE Tick \/ UNCHANGED vars
  <2>1. rules' = rules
    BY <1>5 DEF Tick, vars
  <2>. QED BY <2>1 DEF OneActiveRulePerSeries, IsRule
<1>. QED BY <1>1, <1>2, <1>3, <1>4, <1>5 DEF Next

\* No interleaving of the requests that create, re-attach, edit, re-enable and
\* split the rules of a series leaves two of them active: the partial unique
\* index of migration 0022 and the order of the statements in splitRecurrence,
\* which disables the old rule before it inserts the new one, suffice.
THEOREM OneActive == Spec => []OneActiveRulePerSeries
<1>. QED BY TypeCorrect, OneActiveInit, OneActiveNext, PTL DEF Spec

-----------------------------------------------------------------------------
(* The rules and the occurrences of a series belong together.               *)
(*                                                                         *)
(* A rule is never given another series, a new rule gets a number that no   *)
(* row knows, and a purge drops all the rules of a series: so a task that   *)
(* belonged to rule m, or had lost it with its series, still does.          *)

Known(t) == t \notin Seeds => t[1] <= ruleSeq

\* Rule m is of the series that t was generated in, or was dropped with it.
Belongs(t, m) ==
  m # None =>
    /\ m <= ruleSeq
    /\ IF IsRule(m) THEN rules[m].series = SeriesOf(t)
       ELSE t \notin Seeds => SeriesOf(t) = None

\* Row inc of t has been seen, so it does not come into being later.
Seen(t, inc) == inc <= tasks[t].inc /\ (inc = tasks[t].inc => Exists(t))

\* What a request has read of a task it may still write to.
Reader(q) ==
  /\ q.task # None =>
       /\ Seen(q.task, q.inc)
       /\ RowIs(q.task, q.inc) => Belongs(q.task, q.mark) /\ Belongs(q.task, q.rule)
  /\ q.rule # None => q.rule <= ruleSeq
  /\ q.pc = "fork" =>
       /\ q.snap.current = q.task
       /\ q.rule # None /\ IsRule(q.rule) => rules[q.rule].series = q.snap.series

RulesKnown == \A r \in RuleIds : IsRule(r) => r <= ruleSeq
TasksBelong == \A t \in TaskIds : Exists(t) => Known(t) /\ Belongs(t, tasks[t].mark)
CurrentBelongs ==
  \A r \in RuleIds : IsRule(r) /\ rules[r].current # None =>
    Exists(rules[r].current) /\ Belongs(rules[r].current, r)

SeriesInv ==
  RulesKnown /\ TasksBelong /\ CurrentBelongs /\ \A p \in Procs : Reader(req[p])

\* What no step does to the rules and to the rows of tasks.
RulesOnward ==
  /\ ruleSeq <= ruleSeq'
  /\ \A r \in RuleIds : IsRule(r)' => r <= ruleSeq'
  /\ \A r \in RuleIds : r <= ruleSeq /\ IsRule(r)' =>
       IsRule(r) /\ rules'[r].series = rules[r].series
  /\ \A r, k \in RuleIds :
       IsRule(r) /\ IsRule(k) /\ rules[r].series = rules[k].series /\ IsRule(r)' => IsRule(k)'

TasksOnward ==
  \A t \in TaskIds : /\ tasks[t].inc <= tasks'[t].inc
                     /\ tasks[t].inc = tasks'[t].inc /\ Exists(t) => Exists(t)'

LEMMA SeriesTypes ==
  ASSUME TypeOK
  PROVE  /\ \A r \in RuleIds : IsRule(r) => rules[r] \in Rule /\ rules[r].series \in Seeds
                                            /\ rules[r].current \in TaskIds \cup {None}
         /\ \A t \in TaskIds : t \notin Seeds => t \in OccurrenceKeys /\ t[1] \in RuleIds
         /\ \A t \in TaskIds : tasks[t].inc \in Nat /\ tasks[t].mark \in RuleIds \cup {None}
         /\ None \notin Seeds /\ ruleSeq \in Nat /\ RuleIds \subseteq Nat
<1>1. \A r \in RuleIds : IsRule(r) => rules[r] \in Rule
  BY DEF TypeOK, IsRule
<1>2. \A t \in TaskIds : t \notin Seeds => t \in OccurrenceKeys /\ t[1] \in RuleIds
  BY DEF TaskIds, OccurrenceKeys
<1>3. \A t \in TaskIds : tasks[t] \in Task
  BY DEF TypeOK
<1>4. None \notin Seeds
  BY NoneAssumption DEF TaskIds
<1>5. ruleSeq \in Nat /\ RuleIds \subseteq Nat
  BY BoundsAssumption DEF TypeOK, RuleIds
<1>. QED BY <1>1, <1>2, <1>3, <1>4, <1>5 DEF Rule, Task

LEMMA BelongsStays ==
  ASSUME TypeOK, TypeOK', RulesOnward, NEW t \in TaskIds, NEW m \in RuleIds \cup {None},
         Known(t), Belongs(t, m)
  PROVE  Belongs(t, m)'
<1>. SUFFICES ASSUME m # None PROVE Belongs(t, m)'
  BY DEF Belongs
<1>1. m \in RuleIds /\ m <= ruleSeq /\ m \in Nat /\ ruleSeq \in Nat /\ ruleSeq' \in Nat
  BY SeriesTypes, BoundsAssumption DEF Belongs, TypeOK
<1>2. m <= ruleSeq'
  BY <1>1 DEF RulesOnward
<1>3. CASE t \in Seeds
  BY <1>1, <1>2, <1>3 DEF Belongs, RulesOnward, SeriesOf
<1>4. CASE t \notin Seeds
  <2>. DEFINE k == t[1]
  <2>1. k \in RuleIds /\ k <= ruleSeq /\ SeriesOf(t) = IF IsRule(k) THEN rules[k].series ELSE None
    BY <1>4, SeriesTypes DEF Known, SeriesOf
  <2>2. SeriesOf(t)' = IF IsRule(k)' THEN rules'[k].series ELSE None
    BY <1>4 DEF SeriesOf, IsRule
  <2>3. IsRule(k) => rules[k].series \in Seeds /\ rules[k].series # None
    BY <2>1, SeriesTypes
  <2>4. IsRule(k)' => IsRule(k) /\ rules'[k].series = rules[k].series
    BY <2>1 DEF RulesOnward
  <2>5. IsRule(m)' => IsRule(m) /\ rules'[m].series = rules[m].series
    BY <1>1 DEF RulesOnward
  <2>. HIDE DEF k
  <2>6. CASE IsRule(m)
    <3>1. IsRule(k) /\ rules[k].series = rules[m].series
      BY <1>1, <2>1, <2>6, SeriesTypes DEF Belongs
    <3>2. IsRule(k)' <=> IsRule(m)'
      BY <1>1, <2>1, <2>6, <3>1 DEF RulesOnward
    <3>. QED BY <1>2, <2>2, <2>4, <2>5, <3>1, <3>2 DEF Belongs
  <2>7. CASE ~IsRule(m)
    <3>1. ~IsRule(k)
      BY <1>4, <2>1, <2>3, <2>7 DEF Belongs
    <3>. QED BY <1>2, <2>2, <2>4, <2>5, <2>7, <3>1 DEF Belongs
  <2>. QED BY <2>6, <2>7
<1>. QED BY <1>3, <1>4

LEMMA SeenStays ==
  ASSUME TypeOK, TypeOK', TasksOnward, NEW t \in TaskIds, NEW inc \in Nat, Seen(t, inc)
  PROVE  Seen(t, inc)' /\ (RowIs(t, inc)' => RowIs(t, inc))
<1>1. tasks[t].inc \in Nat /\ tasks'[t].inc \in Nat
  <2>1. tasks[t] \in Task /\ tasks'[t] \in Task
    BY DEF TypeOK
  <2>. QED BY <2>1 DEF Task
<1>. QED BY <1>1 DEF TasksOnward, Seen, RowIs, Exists

\* What a request has read stays true while others write.
LEMMA ReaderStays ==
  ASSUME TypeOK, TypeOK', RulesOnward, TasksOnward, TasksBelong, NEW q \in Request, Reader(q)
  PROVE  Reader(q)'
<1>1. /\ q.task \in TaskIds \cup {None} /\ q.inc \in Nat
      /\ q.mark \in RuleIds \cup {None} /\ q.rule \in RuleIds \cup {None}
  BY DEF Request
<1>2. ASSUME q.task # None
      PROVE  /\ Seen(q.task, q.inc)'
             /\ RowIs(q.task, q.inc)' => (Belongs(q.task, q.mark) /\ Belongs(q.task, q.rule))'
  <2>1. q.task \in TaskIds
    BY <1>1, <1>2
  <2>2. Seen(q.task, q.inc)
    BY <1>2 DEF Reader
  <2>3. Seen(q.task, q.inc)' /\ (RowIs(q.task, q.inc)' => RowIs(q.task, q.inc))
    BY <1>1, <2>1, <2>2, SeenStays
  <2>4. ASSUME RowIs(q.task, q.inc)
        PROVE  (Belongs(q.task, q.mark) /\ Belongs(q.task, q.rule))'
    <3>1. Known(q.task) /\ Belongs(q.task, q.mark) /\ Belongs(q.task, q.rule)
      BY <1>2, <2>1, <2>4 DEF TasksBelong, RowIs, Exists, Reader
    <3>. QED BY <1>1, <2>1, <3>1, BelongsStays
  <2>. QED BY <2>3, <2>4
<1>3. q.rule # None => q.rule <= ruleSeq /\ q.rule \in RuleIds
  BY <1>1 DEF Reader
<1>4. q.rule # None => q.rule <= ruleSeq'
  <2>1. ruleSeq \in Nat /\ ruleSeq' \in Nat /\ RuleIds \subseteq Nat
    BY BoundsAssumption DEF TypeOK, RuleIds
  <2>2. ruleSeq <= ruleSeq'
    BY DEF RulesOnward
  <2>3. ASSUME q.rule # None PROVE q.rule \in Nat /\ q.rule <= ruleSeq
    BY <1>3, <2>1, <2>3
  <2>. QED BY <2>1, <2>2, <2>3
<1>5. ASSUME q.pc = "fork"
      PROVE  /\ q.snap.current = q.task
             /\ q.rule # None /\ IsRule(q.rule)' => rules'[q.rule].series = q.snap.series
  <2>1. /\ q.snap.current = q.task
        /\ q.rule # None /\ IsRule(q.rule) => rules[q.rule].series = q.snap.series
    BY <1>5 DEF Reader
  <2>2. q.rule # None /\ IsRule(q.rule)' =>
          IsRule(q.rule) /\ rules'[q.rule].series = rules[q.rule].series
    BY <1>3 DEF RulesOnward
  <2>. QED BY <2>1, <2>2
<1>. QED BY <1>2, <1>4, <1>5 DEF Reader


-----------------------------------------------------------------------------
(* What a step leaves behind, and why the invariant follows from it.        *)

\* A row had its marker before, or got it from who knew that it belongs there.
RowsFrom ==
  \A t \in TaskIds : Exists(t)' => \E m \in RuleIds \cup {None} :
    /\ tasks'[t].mark = m
    /\ (Known(t) /\ Belongs(t, m)) \/ (Known(t)' /\ Belongs(t, m)')

CurrentsFrom ==
  \A r \in RuleIds : IsRule(r)' /\ rules'[r].current # None =>
    \E c \in TaskIds : /\ rules'[r].current = c
                       /\ Exists(c)'
                       /\ (Known(c) /\ Belongs(c, r)) \/ Belongs(c, r)'

RequestsFrom ==
  \A p \in Procs : \E q \in Request : req'[p] = q /\ (Reader(q) \/ Reader(q)')

LEMMA KnownStays ==
  ASSUME TypeOK, TypeOK', RulesOnward, NEW t \in TaskIds, Known(t)
  PROVE  Known(t)'
<1>1. ruleSeq \in Nat /\ ruleSeq' \in Nat /\ ruleSeq <= ruleSeq'
  BY BoundsAssumption DEF TypeOK, RulesOnward
<1>2. t \notin Seeds => t[1] \in Nat
  BY SeriesTypes
<1>. QED BY <1>1, <1>2 DEF Known

LEMMA SeriesInvFrom ==
  ASSUME TypeOK, TypeOK', SeriesInv, RulesOnward, TasksOnward,
         RowsFrom, CurrentsFrom, RequestsFrom
  PROVE  SeriesInv'
<1>1. RulesKnown'
  BY DEF RulesKnown, RulesOnward
<1>2. TasksBelong'
  <2>. SUFFICES ASSUME NEW t \in TaskIds, Exists(t)'
                PROVE  (Known(t) /\ Belongs(t, tasks[t].mark))'
    BY DEF TasksBelong
  <2>1. PICK m \in RuleIds \cup {None} :
          /\ tasks'[t].mark = m
          /\ (Known(t) /\ Belongs(t, m)) \/ (Known(t)' /\ Belongs(t, m)')
    BY DEF RowsFrom
  <2>2. (Known(t) /\ Belongs(t, m))'
    BY <2>1, KnownStays, BelongsStays
  <2>. QED BY <2>1, <2>2
<1>3. CurrentBelongs'
  <2>. SUFFICES ASSUME NEW r \in RuleIds, IsRule(r)', rules'[r].current # None
                PROVE  (Exists(rules[r].current) /\ Belongs(rules[r].current, r))'
    BY DEF CurrentBelongs
  <2>1. PICK c \in TaskIds : /\ rules'[r].current = c
                             /\ Exists(c)'
                             /\ (Known(c) /\ Belongs(c, r)) \/ Belongs(c, r)'
    BY DEF CurrentsFrom
  <2>2. Belongs(c, r)'
    BY <2>1, BelongsStays
  <2>. QED BY <2>1, <2>2
<1>4. \A p \in Procs : Reader(req[p])'
  <2>. SUFFICES ASSUME NEW p \in Procs PROVE Reader(req[p])'
    OBVIOUS
  <2>1. PICK q \in Request : req'[p] = q /\ (Reader(q) \/ Reader(q)')
    BY DEF RequestsFrom
  <2>2. Reader(q)'
    BY <2>1, ReaderStays DEF SeriesInv
  <2>. QED BY <2>1, <2>2
<1>. QED BY <1>1, <1>2, <1>3, <1>4 DEF SeriesInv

\* Rules that are only edited keep their series.
LEMMA RulesEdited ==
  ASSUME TypeOK, RulesKnown, ruleSeq' = ruleSeq,
         \A r \in RuleIds : IsRule(r)' => IsRule(r) /\ rules'[r].series = rules[r].series,
         \A r \in RuleIds : IsRule(r) => IsRule(r)'
  PROVE  RulesOnward
<1>1. ruleSeq \in Nat
  BY BoundsAssumption DEF TypeOK
<1>. QED BY <1>1 DEF RulesOnward, RulesKnown

LEMMA RulesUntouched ==
  ASSUME TypeOK, SeriesInv, UNCHANGED <<rules, ruleSeq>>
  PROVE  RulesOnward
<1>1. RulesKnown
  BY DEF SeriesInv
<1>. QED BY <1>1, RulesEdited DEF IsRule

LEMMA TasksUntouched ==
  ASSUME TypeOK, SeriesInv, UNCHANGED tasks
  PROVE  TasksOnward /\ RowsFrom
<1>1. TasksOnward
  BY SeriesTypes DEF TasksOnward, Exists
<1>2. ASSUME NEW t \in TaskIds, Exists(t)'
      PROVE  \E m \in RuleIds \cup {None} :
               /\ tasks'[t].mark = m
               /\ (Known(t) /\ Belongs(t, m)) \/ (Known(t)' /\ Belongs(t, m)')
  <2>1. Known(t) /\ Belongs(t, tasks[t].mark)
    BY <1>2 DEF SeriesInv, TasksBelong, Exists
  <2>2. tasks[t].mark \in RuleIds \cup {None} /\ tasks'[t].mark = tasks[t].mark
    BY SeriesTypes
  <2>. QED BY <2>1, <2>2
<1>. QED BY <1>1, <1>2 DEF RowsFrom

\* A current occurrence that stays, with its row, still belongs to its rule.
LEMMA CurrentStays ==
  ASSUME TypeOK, SeriesInv, NEW r \in RuleIds, IsRule(r), rules[r].current # None,
         rules'[r].current = rules[r].current,
         Exists(rules[r].current) => \A c \in TaskIds : c = rules[r].current => Exists(c)'
  PROVE  \E c \in TaskIds : /\ rules'[r].current = c
                            /\ Exists(c)'
                            /\ (Known(c) /\ Belongs(c, r)) \/ Belongs(c, r)'
<1>1. PICK c \in TaskIds : c = rules[r].current
  BY SeriesTypes
<1>2. Exists(c) /\ Belongs(c, r) /\ Known(c)
  BY <1>1 DEF SeriesInv, CurrentBelongs, TasksBelong
<1>3. Exists(c)'
  BY <1>1, <1>2
<1>. QED BY <1>1, <1>2, <1>3

LEMMA CurrentsUntouched ==
  ASSUME TypeOK, SeriesInv, TasksOnward, UNCHANGED rules,
         \A t \in TaskIds : Exists(t) => Exists(t)'
  PROVE  CurrentsFrom
<1>. SUFFICES ASSUME NEW r \in RuleIds, IsRule(r)', rules'[r].current # None
              PROVE  \E c \in TaskIds : /\ rules'[r].current = c
                                        /\ Exists(c)'
                                        /\ (Known(c) /\ Belongs(c, r)) \/ Belongs(c, r)'
  BY DEF CurrentsFrom
<1>1. IsRule(r) /\ rules[r].current # None /\ rules'[r].current = rules[r].current
  BY DEF IsRule
<1>. QED BY <1>1, CurrentStays

LEMMA RequestContinues ==
  ASSUME TypeOK, SeriesInv, NEW p \in Procs, NEW q \in Request, Continue(p, q),
         Reader(q) \/ Reader(q)'
  PROVE  RequestsFrom
<1>. SUFFICES ASSUME NEW x \in Procs
              PROVE  \E y \in Request : req'[x] = y /\ (Reader(y) \/ Reader(y)')
  BY DEF RequestsFrom
<1>1. CASE x = p
  BY <1>1 DEF Continue, TypeOK
<1>2. CASE x # p
  <2>1. PICK y \in Request : y = req[x]
    BY DEF TypeOK
  <2>2. req'[x] = y
    BY <1>2, <2>1 DEF Continue, TypeOK
  <2>3. Reader(y)
    BY <2>1 DEF SeriesInv
  <2>. QED BY <2>2, <2>3
<1>. QED BY <1>1, <1>2

LEMMA RequestsUntouched ==
  ASSUME TypeOK, SeriesInv, UNCHANGED req
  PROVE  RequestsFrom
<1>. SUFFICES ASSUME NEW x \in Procs
              PROVE  \E y \in Request : req'[x] = y /\ (Reader(y) \/ Reader(y)')
  BY DEF RequestsFrom
<1>1. PICK y \in Request : y = req[x]
  BY DEF TypeOK
<1>2. Reader(y) /\ req'[x] = y
  BY <1>1 DEF SeriesInv
<1>. QED BY <1>2

LEMMA IdleReads == Reader(Idle)
BY DEF Reader, Idle

LEMMA RequestFinishes ==
  ASSUME TypeOK, SeriesInv, NEW p \in Procs, Finish(p)
  PROVE  RequestsFrom
<1>1. Continue(p, Idle)
  BY DEF Finish, Continue
<1>. QED BY <1>1, IdleReads, IdleType, RequestContinues


-----------------------------------------------------------------------------
(* The steps of a request that write nothing but what it remembers.         *)

\* The rule found for a task that a request has read belongs to it.
LEMMA RuleOfBelongs ==
  ASSUME TypeOK, SeriesInv, NEW t \in TaskIds, Exists(t), NEW mark \in RuleIds \cup {None},
         Belongs(t, mark), NEW only \in BOOLEAN, NEW r, r = RuleOf(t, mark, only), r # None
  PROVE  r \in RuleIds /\ IsRule(r) /\ r <= ruleSeq /\ Belongs(t, r)
<1>1. /\ r \in RuleIds /\ IsRule(r)
      /\ IF mark # None THEN r = mark ELSE t \in {rules[r].current, rules[r].series}
  BY RuleOfReturns DEF IsRule
<1>2. r <= ruleSeq
  BY <1>1 DEF SeriesInv, RulesKnown
<1>3. CASE mark # None
  BY <1>1, <1>2, <1>3
<1>4. CASE mark = None /\ t = rules[r].current
  BY <1>1, <1>2, <1>4, NoneIsNoValue DEF SeriesInv, CurrentBelongs
<1>5. CASE mark = None /\ t = rules[r].series
  <2>1. t \in Seeds
    BY <1>1, <1>5, SeriesTypes
  <2>. QED BY <1>1, <1>2, <1>5, <2>1 DEF Belongs, SeriesOf
<1>. QED BY <1>1, <1>2, <1>3, <1>4, <1>5

LEMMA RuleOfKnown ==
  ASSUME TypeOK, SeriesInv, NEW t, NEW mark, NEW only \in BOOLEAN,
         NEW r, r = RuleOf(t, mark, only), r # None
  PROVE  r \in RuleIds /\ r <= ruleSeq
<1>1. r \in RuleIds /\ IsRule(r)
  BY RuleOfReturns DEF IsRule
<1>. QED BY <1>1 DEF SeriesInv, RulesKnown

\* A request that only moves on has read what it had read.
LEMMA MovesOn ==
  ASSUME NEW q, Reader(q), NEW r, r.task = q.task, r.inc = q.inc, r.mark = q.mark,
         r.rule = q.rule, r.pc # "fork"
  PROVE  Reader(r)
BY DEF Reader

\* A request that has read the row of a task.
LEMMA HasRead ==
  ASSUME TypeOK, SeriesInv, NEW q, q.task \in TaskIds, Exists(q.task),
         q.inc = tasks[q.task].inc, q.mark \in {None, tasks[q.task].mark}, q.rule = None,
         q.pc # "fork"
  PROVE  Reader(q)
<1>1. Seen(q.task, q.inc)
  BY SeriesTypes DEF Seen
<1>2. Belongs(q.task, tasks[q.task].mark)
  BY DEF SeriesInv, TasksBelong
<1>3. Belongs(q.task, None)
  BY DEF Belongs
<1>. QED BY <1>1, <1>2, <1>3 DEF Reader

LEMMA RequestTyped ==
  ASSUME TypeOK, TypeOK', NEW p \in Procs, NEW q, Continue(p, q)
  PROVE  q \in Request
BY DEF TypeOK, Continue

\* Nothing but the requests and the clock changes.
LEMMA OnlyRequests ==
  ASSUME TypeOK, TypeOK', SeriesInv, RequestsFrom,
         UNCHANGED <<tasks, rules, ruleSeq>>
  PROVE  SeriesInv'
<1>1. RulesOnward
  BY RulesUntouched
<1>2. TasksOnward /\ RowsFrom
  BY TasksUntouched
<1>3. CurrentsFrom
  BY <1>2, CurrentsUntouched DEF Exists
<1>. QED BY <1>1, <1>2, <1>3, SeriesInvFrom

LEMMA OnlyRequestsFinish ==
  ASSUME TypeOK, TypeOK', SeriesInv, NEW p \in Procs, Finish(p),
         UNCHANGED <<tasks, rules, ruleSeq>>
  PROVE  SeriesInv'
BY RequestFinishes, OnlyRequests

LEMMA OnlyRequestContinues ==
  ASSUME TypeOK, TypeOK', SeriesInv, NEW p \in Procs, NEW q, Reader(q), Continue(p, q),
         UNCHANGED <<tasks, rules, ruleSeq>>
  PROVE  SeriesInv'
BY RequestTyped, RequestContinues, OnlyRequests

LEMMA BeginCompleteSeries ==
  ASSUME TypeOK, TypeOK', SeriesInv, NEW p \in Procs, NEW t \in TaskIds, BeginComplete(p, t)
  PROVE  SeriesInv'
<1>1. PICK noon \in {now - 1, now} :
        Continue(p, [Idle EXCEPT !.pc = "markDone", !.task = t,
                                 !.inc = tasks[t].inc, !.day = now, !.noon = noon])
  BY DEF BeginComplete
<1>2. PICK q : q = [Idle EXCEPT !.pc = "markDone", !.task = t,
                                !.inc = tasks[t].inc, !.day = now, !.noon = noon]
  OBVIOUS
<1>3. Exists(t)
  BY DEF BeginComplete, Exists
<1>4. /\ q.task = t /\ q.inc = tasks[t].inc /\ q.mark = None /\ q.rule = None
      /\ q.pc # "fork"
  BY <1>2 DEF Idle
<1>5. Reader(q)
  BY <1>3, <1>4, HasRead
<1>. QED BY <1>1, <1>2, <1>5, OnlyRequestContinues DEF BeginComplete

LEMMA BeginSkipSeries ==
  ASSUME TypeOK, TypeOK', SeriesInv, NEW p \in Procs, NEW t \in TaskIds, BeginSkip(p, t)
  PROVE  SeriesInv'
<1>1. PICK q : q = [Idle EXCEPT !.pc = "skipFind", !.task = t, !.inc = tasks[t].inc,
                                !.mark = tasks[t].mark]
  OBVIOUS
<1>2. Exists(t)
  BY DEF BeginSkip, Exists
<1>3. /\ q.task = t /\ q.inc = tasks[t].inc /\ q.mark = tasks[t].mark /\ q.rule = None
      /\ q.pc # "fork"
  BY <1>1 DEF Idle
<1>4. Reader(q)
  BY <1>2, <1>3, HasRead
<1>. QED BY <1>1, <1>4, OnlyRequestContinues DEF BeginSkip

LEMMA BeginCreateSeries ==
  ASSUME TypeOK, TypeOK', SeriesInv, NEW p \in Procs, NEW t \in TaskIds, NEW ask \in Cadence,
         BeginCreate(p, t, ask)
  PROVE  SeriesInv'
<1>1. PICK start : start = OrElse(ask.start, tasks[t].due)
  OBVIOUS
<1>2. PICK q : q = [Idle EXCEPT !.pc = "findExisting", !.task = t,
                                !.inc = tasks[t].inc, !.mark = tasks[t].mark,
                                !.due = tasks[t].due,
                                !.ask = [ask EXCEPT !.start = start]]
  OBVIOUS
<1>3. Exists(t)
  BY DEF BeginCreate, Exists
<1>4. /\ q.task = t /\ q.inc = tasks[t].inc /\ q.mark = tasks[t].mark /\ q.rule = None
      /\ q.pc # "fork"
  BY <1>2 DEF Idle
<1>5. Reader(q)
  BY <1>3, <1>4, HasRead
<1>. QED BY <1>1, <1>2, <1>5, OnlyRequestContinues DEF BeginCreate

LEMMA BeginUpdateRuleSeries ==
  ASSUME TypeOK, TypeOK', SeriesInv, NEW p \in Procs, NEW r \in RuleIds, NEW ask \in RuleEdit,
         BeginUpdateRule(p, r, ask)
  PROVE  SeriesInv'
<1>1. PICK start :
        Continue(p, [Idle EXCEPT !.pc = "writeUpdate", !.rule = r, !.snap = rules[r],
                                 !.ask = [ask EXCEPT !.start = start]])
  BY DEF BeginUpdateRule
<1>2. PICK q : q = [Idle EXCEPT !.pc = "writeUpdate", !.rule = r, !.snap = rules[r],
                                !.ask = [ask EXCEPT !.start = start]]
  OBVIOUS
<1>3. q.task = None /\ q.rule = r /\ q.pc # "fork"
  BY <1>2 DEF Idle
<1>4. r <= ruleSeq
  BY DEF BeginUpdateRule, SeriesInv, RulesKnown, IsRule
<1>5. Reader(q)
  BY <1>3, <1>4 DEF Reader
<1>. QED BY <1>1, <1>2, <1>5, OnlyRequestContinues DEF BeginUpdateRule

LEMMA BeginSplitSeries ==
  ASSUME TypeOK, TypeOK', SeriesInv, NEW p \in Procs, NEW r \in RuleIds, NEW ask \in Cadence,
         BeginSplit(p, r, ask)
  PROVE  SeriesInv'
<1>1. PICK t : t = rules[r].current
  OBVIOUS
<1>2. PICK start : start = OrElse(tasks[t].due, rules[r].dtstart)
  OBVIOUS
<1>3. PICK q : q = [Idle EXCEPT !.pc = "fork", !.task = t, !.inc = tasks[t].inc,
                                !.rule = r, !.snap = rules[r],
                                !.ask = [ask EXCEPT !.start = start]]
  OBVIOUS
<1>4. Continue(p, q)
  BY <1>1, <1>2, <1>3 DEF BeginSplit
<1>5. /\ q.task = t /\ q.inc = tasks[t].inc /\ q.mark = None /\ q.rule = r
      /\ q.snap = rules[r]
  BY <1>3 DEF Idle
<1>6. IsRule(r) /\ t # None
  BY <1>1 DEF BeginSplit, IsRule
<1>7. t \in TaskIds /\ Exists(t) /\ Belongs(t, r) /\ r <= ruleSeq
  BY <1>1, <1>6, SeriesTypes DEF SeriesInv, CurrentBelongs, RulesKnown
<1>8. Seen(t, tasks[t].inc) /\ Belongs(t, None)
  BY <1>7, SeriesTypes DEF Seen, Belongs
<1>9. Reader(q)
  BY <1>1, <1>5, <1>7, <1>8 DEF Reader
<1>. QED BY <1>4, <1>9, OnlyRequestContinues DEF BeginSplit

LEMMA FindRuleSeries ==
  ASSUME TypeOK, TypeOK', SeriesInv, NEW p \in Procs, NEW from,
         NEW to \in {"insert", "except"}, FindRule(p, from, to), from \in {"findRule", "skipFind"}
  PROVE  SeriesInv'
<1>1. PICK q : q = req[p]
  OBVIOUS
<1>2. PICK r : r = RuleOf(q.task, q.mark, TRUE)
  OBVIOUS
<1>3. PICK n : n = [q EXCEPT !.pc = to, !.rule = r, !.snap = rules[r]]
  OBVIOUS
<1>4. CASE r # None /\ Continue(p, n)
  <2>1. q \in Request /\ Reader(q) /\ q.task \in TaskIds
    BY <1>1 DEF TypeOK, SeriesInv, Remembers, FindRule
  <2>2. /\ n.task = q.task /\ n.inc = q.inc /\ n.mark = q.mark /\ n.rule = r
        /\ n.pc # "fork"
    BY <1>3, <2>1 DEF Request
  <2>3. Seen(q.task, q.inc) /\ q.mark \in RuleIds \cup {None} /\ r <= ruleSeq
    BY <1>2, <1>4, <2>1, RuleOfKnown, NoneIsNoValue DEF Reader, Request
  <2>4. ASSUME RowIs(q.task, q.inc) PROVE Belongs(q.task, q.mark) /\ Belongs(q.task, r)
    <3>1. Exists(q.task) /\ Belongs(q.task, q.mark)
      BY <2>1, <2>4, NoneIsNoValue DEF Reader, RowIs, Exists
    <3>. QED BY <1>2, <1>4, <2>1, <2>3, <3>1, RuleOfBelongs
  <2>5. Reader(n)
    BY <2>2, <2>3, <2>4 DEF Reader
  <2>. QED BY <1>4, <2>5, OnlyRequestContinues DEF FindRule
<1>5. CASE Finish(p)
  BY <1>5, OnlyRequestsFinish DEF FindRule
<1>. QED BY <1>1, <1>2, <1>3, <1>4, <1>5 DEF FindRule

LEMMA FindExistingSeries ==
  ASSUME TypeOK, TypeOK', SeriesInv, NEW p \in Procs, FindExisting(p)
  PROVE  SeriesInv'
<1>1. PICK q : q = req[p]
  OBVIOUS
<1>2. PICK r : r = RuleOf(q.task, q.mark, FALSE)
  OBVIOUS
<1>3. PICK snap : snap = IF r = None THEN None ELSE rules[r]
  OBVIOUS
<1>4. PICK n : n = [q EXCEPT !.pc = "writeRule", !.rule = r, !.snap = snap]
  OBVIOUS
<1>5. q \in Request /\ Reader(q) /\ q.task \in TaskIds
  BY <1>1 DEF TypeOK, SeriesInv, Remembers, FindExisting
<1>6. /\ n.task = q.task /\ n.inc = q.inc /\ n.mark = q.mark /\ n.rule = r
      /\ n.pc # "fork"
  BY <1>4, <1>5 DEF Request
<1>7. Seen(q.task, q.inc) /\ q.mark \in RuleIds \cup {None}
  BY <1>5, NoneIsNoValue DEF Reader, Request
<1>8. r # None => r <= ruleSeq
  BY <1>2, RuleOfKnown
<1>9. ASSUME RowIs(q.task, q.inc) PROVE Belongs(q.task, q.mark) /\ Belongs(q.task, r)
  <2>1. Exists(q.task) /\ Belongs(q.task, q.mark)
    BY <1>5, <1>9, NoneIsNoValue DEF Reader, RowIs, Exists
  <2>2. CASE r = None
    BY <2>1, <2>2 DEF Belongs
  <2>3. CASE r # None
    BY <1>2, <1>5, <1>7, <2>1, <2>3, RuleOfBelongs
  <2>. QED BY <2>1, <2>2, <2>3
<1>10. Reader(n)
  BY <1>6, <1>7, <1>8, <1>9 DEF Reader
<1>11. Continue(p, n)
  BY <1>1, <1>2, <1>3, <1>4 DEF FindExisting
<1>. QED BY <1>10, <1>11, OnlyRequestContinues DEF FindExisting

LEMMA InsertSkipExceptionSeries ==
  ASSUME TypeOK, TypeOK', SeriesInv, NEW p \in Procs, InsertSkipException(p)
  PROVE  SeriesInv'
<1>1. PICK q \in Request : q = req[p]
  BY DEF TypeOK
<1>2. PICK n : n = [q EXCEPT !.pc = "reject"]
  OBVIOUS
<1>3. n.task = q.task /\ n.inc = q.inc /\ n.mark = q.mark /\ n.rule = q.rule /\ n.pc # "fork"
  BY <1>2 DEF Request
<1>4. Reader(n)
  BY <1>1, <1>3, MovesOn DEF SeriesInv
<1>5. CASE Continue(p, n)
  BY <1>4, <1>5, OnlyRequestContinues DEF InsertSkipException
<1>6. CASE Finish(p)
  BY <1>6, OnlyRequestsFinish DEF InsertSkipException
<1>. QED BY <1>1, <1>2, <1>5, <1>6 DEF InsertSkipException


-----------------------------------------------------------------------------
(* The steps that write a row of a task.                                   *)

\* One row is written: its status, its day or its place in the trash, and
\* perhaps its marker.
LEMMA RowWritten ==
  ASSUME TypeOK, TypeOK', SeriesInv, RequestsFrom, NEW t \in TaskIds, Exists(t),
         \A u \in TaskIds : u # t => tasks'[u] = tasks[u],
         Exists(t)', tasks'[t].inc = tasks[t].inc,
         NEW m, tasks'[t].mark = m, Belongs(t, m),
         UNCHANGED <<rules, ruleSeq>>
  PROVE  SeriesInv'
<1>1. RulesOnward
  BY RulesUntouched
<1>2. \A u \in TaskIds : tasks'[u].inc = tasks[u].inc /\ (Exists(u) => Exists(u)')
                         /\ (Exists(u)' => Exists(u))
  BY DEF Exists
<1>3. TasksOnward
  BY <1>2, SeriesTypes DEF TasksOnward
<1>4. ASSUME NEW u \in TaskIds, Exists(u)'
      PROVE  \E n \in RuleIds \cup {None} :
               /\ tasks'[u].mark = n
               /\ (Known(u) /\ Belongs(u, n)) \/ (Known(u)' /\ Belongs(u, n)')
  <2>1. Known(u) /\ Belongs(u, tasks[u].mark)
    BY <1>2, <1>4 DEF SeriesInv, TasksBelong
  <2>2. CASE u = t
    <3>1. m \in RuleIds \cup {None}
      <4>1. tasks'[t] \in Task
        BY DEF TypeOK
      <4>. QED BY <4>1 DEF Task
    <3>. QED BY <2>1, <2>2, <3>1
  <2>3. CASE u # t
    <3>1. tasks'[u].mark = tasks[u].mark /\ tasks[u].mark \in RuleIds \cup {None}
      BY <2>3, SeriesTypes
    <3>. QED BY <2>1, <3>1
  <2>. QED BY <2>2, <2>3
<1>5. RowsFrom
  BY <1>4 DEF RowsFrom
<1>6. CurrentsFrom
  BY <1>2, <1>3, CurrentsUntouched
<1>. QED BY <1>1, <1>3, <1>5, <1>6, SeriesInvFrom

LEMMA MarkDoneSeries ==
  ASSUME TypeOK, TypeOK', SeriesInv, NEW p \in Procs, MarkDone(p)
  PROVE  SeriesInv'
<1>1. PICK q \in Request : q = req[p]
  BY DEF TypeOK
<1>2. PICK n : n = [q EXCEPT !.pc = "findRule", !.mark = tasks[q.task].mark,
                             !.due = tasks[q.task].due]
  OBVIOUS
<1>3. q.task \in TaskIds /\ tasks[q.task] \in Task /\ Reader(q)
  BY <1>1 DEF TypeOK, Remembers, MarkDone, SeriesInv
<1>4. CASE RowIs(q.task, q.inc) /\ tasks' = [tasks EXCEPT ![q.task].status = "done"]
           /\ Continue(p, n)
  <2>1. Exists(q.task) /\ Belongs(q.task, tasks[q.task].mark)
    BY <1>3, <1>4 DEF RowIs, Exists, SeriesInv, TasksBelong
  <2>2. /\ n.task = q.task /\ n.inc = q.inc /\ n.mark = tasks[q.task].mark
        /\ n.rule = q.rule /\ n.pc # "fork"
    BY <1>2 DEF Request
  <2>3. Reader(n)
    BY <1>3, <2>1, <2>2 DEF Reader
  <2>4. RequestsFrom
    BY <1>4, <2>3, RequestTyped, RequestContinues
  <2>5. /\ \A u \in TaskIds : u # q.task => tasks'[u] = tasks[u]
        /\ Exists(q.task)' /\ tasks'[q.task].inc = tasks[q.task].inc
        /\ tasks'[q.task].mark = tasks[q.task].mark
    BY <1>3, <1>4, <2>1 DEF TypeOK, Exists, Task
  <2>6. PICK m : m = tasks[q.task].mark
    OBVIOUS
  <2>. QED BY <1>3, <2>1, <2>4, <2>5, <2>6, RowWritten DEF MarkDone
<1>5. CASE Finish(p) /\ UNCHANGED tasks
  BY <1>5, OnlyRequestsFinish DEF MarkDone
<1>. QED BY <1>1, <1>2, <1>4, <1>5 DEF MarkDone

LEMMA RejectSkippedSeries ==
  ASSUME TypeOK, TypeOK', SeriesInv, NEW p \in Procs, RejectSkipped(p)
  PROVE  SeriesInv'
<1>1. PICK q \in Request : q = req[p]
  BY DEF TypeOK
<1>2. q.task \in TaskIds /\ tasks[q.task] \in Task /\ Reader(q)
  BY <1>1 DEF TypeOK, Remembers, RejectSkipped, SeriesInv
<1>3. CASE RowIs(q.task, q.inc)
  <2>1. PICK noon, n :
          /\ n = [q EXCEPT !.pc = "insert", !.due = tasks[q.task].due,
                           !.day = now, !.noon = noon]
          /\ Continue(p, n)
    BY <1>1, <1>3 DEF RejectSkipped
  <2>2. tasks' = [tasks EXCEPT ![q.task].status = "rejected", ![q.task].mark = q.mark]
    BY <1>1, <1>3 DEF RejectSkipped
  <2>3. /\ n.task = q.task /\ n.inc = q.inc /\ n.mark = q.mark
        /\ n.rule = q.rule /\ n.pc # "fork"
    BY <2>1 DEF Request
  <2>4. Reader(n)
    BY <1>2, <2>3, MovesOn
  <2>5. RequestsFrom
    BY <2>1, <2>4, RequestTyped, RequestContinues
  <2>6. Exists(q.task) /\ Belongs(q.task, q.mark)
    BY <1>2, <1>3, NoneIsNoValue DEF RowIs, Exists, Reader
  <2>7. /\ \A u \in TaskIds : u # q.task => tasks'[u] = tasks[u]
        /\ Exists(q.task)' /\ tasks'[q.task].inc = tasks[q.task].inc
        /\ tasks'[q.task].mark = q.mark
    BY <1>2, <2>2, <2>6 DEF TypeOK, Exists, Task
  <2>. QED BY <1>2, <2>5, <2>6, <2>7, RowWritten DEF RejectSkipped
<1>4. CASE Finish(p) /\ UNCHANGED tasks
  BY <1>4, OnlyRequestsFinish DEF RejectSkipped
<1>. QED BY <1>1, <1>3, <1>4 DEF RejectSkipped

LEMMA WriteMarkerSeries ==
  ASSUME TypeOK, TypeOK', SeriesInv, NEW p \in Procs, WriteMarker(p)
  PROVE  SeriesInv'
<1>1. PICK q \in Request : q = req[p]
  BY DEF TypeOK
<1>2. q.task \in TaskIds /\ tasks[q.task] \in Task /\ Reader(q)
  BY <1>1 DEF TypeOK, Remembers, WriteMarker, SeriesInv
<1>3. RequestsFrom
  BY RequestFinishes DEF WriteMarker
<1>4. CASE RowIs(q.task, q.inc)
  <2>1. PICK due : tasks' = [tasks EXCEPT ![q.task].mark = q.rule, ![q.task].due = due]
    <3>1. tasks' = [tasks EXCEPT ![q.task].mark = q.rule,
                                 ![q.task].due = IF q.due = None THEN q.ask.start ELSE @]
      BY <1>1, <1>4 DEF WriteMarker
    <3>. QED BY <1>2, <3>1 DEF TypeOK
  <2>2. Exists(q.task) /\ Belongs(q.task, q.rule)
    BY <1>2, <1>4, NoneIsNoValue DEF RowIs, Exists, Reader
  <2>3. /\ \A u \in TaskIds : u # q.task => tasks'[u] = tasks[u]
        /\ Exists(q.task)' /\ tasks'[q.task].inc = tasks[q.task].inc
        /\ tasks'[q.task].mark = q.rule
    BY <1>2, <2>1, <2>2 DEF TypeOK, Exists, Task
  <2>. QED BY <1>2, <1>3, <2>2, <2>3, RowWritten DEF WriteMarker
<1>5. CASE ~RowIs(q.task, q.inc)
  BY <1>1, <1>5, OnlyRequestsFinish DEF WriteMarker
<1>. QED BY <1>4, <1>5

LEMMA EditTaskSeries ==
  ASSUME TypeOK, TypeOK', SeriesInv, NEW t \in TaskIds,
         \/ \E status : SetStatus(t, status)
         \/ \E d : Reschedule(t, d)
         \/ Trash(t) \/ Restore(t)
  PROVE  SeriesInv'
<1>1. RequestsFrom
  BY RequestsUntouched DEF SetStatus, Reschedule, Trash, Restore
<1>2. tasks[t] \in Task
  BY DEF TypeOK
<1>3. /\ \A u \in TaskIds : u # t => tasks'[u] = tasks[u]
      /\ Exists(t) /\ Exists(t)' /\ tasks'[t].inc = tasks[t].inc
      /\ tasks'[t].mark = tasks[t].mark
  BY <1>2 DEF TypeOK, Exists, Task, SetStatus, Reschedule, Trash, Restore
<1>4. Belongs(t, tasks[t].mark)
  BY <1>3 DEF SeriesInv, TasksBelong
<1>5. UNCHANGED <<rules, ruleSeq>>
  BY DEF SetStatus, Reschedule, Trash, Restore
<1>6. PICK m : m = tasks[t].mark
  OBVIOUS
<1>. QED BY <1>1, <1>3, <1>4, <1>5, <1>6, RowWritten

-----------------------------------------------------------------------------
(* The steps that generate occurrences, or only edit rules.                 *)

\* An occurrence belongs to the rule that it is generated for.
LEMMA OwnOccurrence ==
  ASSUME TypeOK, NEW r \in RuleIds, r <= ruleSeq, NEW k \in OccurrenceKeys, k[1] = r
  PROVE  Known(k) /\ Belongs(k, r)
<1>1. k \notin Seeds
  BY NoneAssumption
<1>. QED BY <1>1 DEF Known, Belongs, SeriesOf

LEMMA OccurrencesInserted ==
  ASSUME TypeOK, NEW r \in RuleIds, r <= ruleSeq, SeriesInv,
         NEW days \in SUBSET Dates, InsertOccurrences(r, days)
  PROVE  /\ TasksOnward /\ RowsFrom
         /\ \A t \in TaskIds : Exists(t) => Exists(t)'
<1>1. ASSUME NEW t \in TaskIds, t \in {r} \X days, ~Exists(t)
      PROVE  /\ Exists(t)' /\ tasks'[t].inc = tasks[t].inc /\ tasks'[t].mark = r
             /\ t \in OccurrenceKeys /\ t[1] = r
  <2>1. tasks'[t] = [row |-> "live", inc |-> tasks[t].inc, status |-> "open",
                     mark |-> r, due |-> t[2]]
    BY <1>1 DEF InsertOccurrences, Exists
  <2>2. t \in OccurrenceKeys /\ t[1] = r
    BY <1>1 DEF OccurrenceKeys
  <2>. QED BY <2>1, <2>2 DEF Exists
<1>2. ASSUME NEW t \in TaskIds, ~(t \in {r} \X days /\ ~Exists(t))
      PROVE  tasks'[t] = tasks[t]
  BY <1>2 DEF InsertOccurrences, Exists
<1>3. \A t \in TaskIds : tasks'[t].inc = tasks[t].inc /\ (Exists(t) => Exists(t)')
  BY <1>1, <1>2 DEF Exists
<1>4. TasksOnward
  BY <1>3, SeriesTypes DEF TasksOnward
<1>5. ASSUME NEW t \in TaskIds, Exists(t)'
      PROVE  \E m \in RuleIds \cup {None} :
               /\ tasks'[t].mark = m
               /\ (Known(t) /\ Belongs(t, m)) \/ (Known(t)' /\ Belongs(t, m)')
  <2>1. CASE t \in {r} \X days /\ ~Exists(t)
    BY <1>1, <2>1, OwnOccurrence
  <2>2. CASE ~(t \in {r} \X days /\ ~Exists(t))
    <3>1. tasks'[t] = tasks[t] /\ Exists(t)
      BY <1>2, <1>5, <2>2 DEF Exists
    <3>2. Known(t) /\ Belongs(t, tasks[t].mark) /\ tasks[t].mark \in RuleIds \cup {None}
      BY <3>1, SeriesTypes DEF SeriesInv, TasksBelong
    <3>. QED BY <3>1, <3>2
  <2>. QED BY <2>1, <2>2
<1>. QED BY <1>3, <1>4, <1>5 DEF RowsFrom

LEMMA InsertNextSeries ==
  ASSUME TypeOK, TypeOK', SeriesInv, NEW p \in Procs, InsertNext(p)
  PROVE  SeriesInv'
<1>1. PICK q \in Request : q = req[p]
  BY DEF TypeOK
<1>2. /\ q.rule \in RuleIds /\ q.snap \in Rule /\ Reader(q)
      /\ q.due \in Dates \cup {None} /\ q.day \in Dates /\ q.noon \in Dates
  BY <1>1 DEF TypeOK, Remembers, InsertNext, SeriesInv, Request
<1>3. PICK day : day = ComputeNext(q.snap, q.due, q.day, q.noon)
  OBVIOUS
<1>4. day \in Dates
  BY <1>1, <1>2, <1>3, ComputeNextType DEF InsertNext
<1>5. PICK n : n = [q EXCEPT !.pc = "bump", !.next = day,
                             !.nextInc = tasks[<<q.rule, day>>].inc]
  OBVIOUS
<1>6. InsertOccurrences(q.rule, {day}) /\ Continue(p, n) /\ UNCHANGED <<rules, ruleSeq>>
  BY <1>1, <1>3, <1>5 DEF InsertNext
<1>7. q.rule <= ruleSeq
  BY <1>2, NoneIsNoValue DEF Reader
<1>8. TasksOnward /\ RowsFrom /\ \A t \in TaskIds : Exists(t) => Exists(t)'
  BY <1>2, <1>4, <1>6, <1>7, OccurrencesInserted
<1>9. n.task = q.task /\ n.inc = q.inc /\ n.mark = q.mark /\ n.rule = q.rule /\ n.pc # "fork"
  BY <1>5 DEF Request
<1>10. RequestsFrom
  <2>1. Reader(n)
    BY <1>2, <1>9, MovesOn
  <2>. QED BY <1>6, <2>1, RequestTyped, RequestContinues
<1>11. RulesOnward /\ CurrentsFrom
  BY <1>6, <1>8, RulesUntouched, CurrentsUntouched
<1>. QED BY <1>8, <1>10, <1>11, SeriesInvFrom


\* One rule is edited: it keeps its series, and its current occurrence unless
\* it gets one that exists and belongs to it.
LEMMA RuleEdited ==
  ASSUME TypeOK, TypeOK', SeriesInv, RequestsFrom, TasksOnward, RowsFrom,
         \A t \in TaskIds : Exists(t) => Exists(t)',
         ruleSeq' = ruleSeq, NEW r \in RuleIds,
         \A x \in RuleIds : x # r => rules'[x] = rules[x],
         IsRule(r), IsRule(r)', rules'[r].series = rules[r].series,
         \/ rules'[r].current \in {None, rules[r].current}
         \/ \E c \in TaskIds : /\ rules'[r].current = c
                               /\ Exists(c)' /\ Known(c) /\ Belongs(c, r)
  PROVE  SeriesInv'
<1>1. RulesOnward
  <2>1. RulesKnown
    BY DEF SeriesInv
  <2>2. \A x \in RuleIds : IsRule(x)' => IsRule(x) /\ rules'[x].series = rules[x].series
    BY DEF IsRule
  <2>3. \A x \in RuleIds : IsRule(x) => IsRule(x)'
    BY DEF IsRule
  <2>. QED BY <2>1, <2>2, <2>3, RulesEdited
<1>2. ASSUME NEW x \in RuleIds, IsRule(x)', rules'[x].current # None
      PROVE  \E c \in TaskIds : /\ rules'[x].current = c
                                /\ Exists(c)'
                                /\ (Known(c) /\ Belongs(c, x)) \/ Belongs(c, x)'
  <2>1. CASE rules'[x].current = rules[x].current
    <3>1. IsRule(x)
      BY <1>2 DEF IsRule
    <3>. QED BY <1>2, <2>1, <3>1, CurrentStays
  <2>2. CASE rules'[x].current # rules[x].current
    <3>1. x = r
      BY <2>2
    <3>. QED BY <1>2, <2>2, <3>1
  <2>. QED BY <2>1, <2>2
<1>3. CurrentsFrom
  BY <1>2 DEF CurrentsFrom
<1>. QED BY <1>1, <1>3, SeriesInvFrom

LEMMA TasksStand ==
  ASSUME TypeOK, SeriesInv, UNCHANGED tasks
  PROVE  TasksOnward /\ RowsFrom /\ \A t \in TaskIds : Exists(t) => Exists(t)'
BY TasksUntouched DEF Exists

LEMMA RuleStays ==
  ASSUME RulesLast, NEW r \in RuleIds, IsRule(r)
  PROVE  IsRule(r)'
BY RowAssumption DEF RulesLast, IsRule

LEMMA BumpRuleSeries ==
  ASSUME TypeOK, TypeOK', SeriesInv, NEW p \in Procs, BumpRule(p)
  PROVE  SeriesInv'
<1>1. PICK q \in Request : q = req[p]
  BY DEF TypeOK
<1>2. q.rule \in RuleIds /\ q.next \in Dates /\ Reader(q)
  BY <1>1 DEF TypeOK, Remembers, BumpRule, SeriesInv
<1>3. PICK k \in OccurrenceKeys : k = <<q.rule, q.next>>
  BY <1>2 DEF OccurrenceKeys
<1>4. k \in TaskIds /\ k[1] = q.rule /\ q.rule <= ruleSeq
  BY <1>2, <1>3, NoneIsNoValue DEF TaskIds, Reader
<1>5. Known(k) /\ Belongs(k, q.rule)
  BY <1>2, <1>4, OwnOccurrence
<1>6. RequestsFrom
  BY RequestFinishes DEF BumpRule
<1>7. UNCHANGED <<tasks, ruleSeq>>
  BY DEF BumpRule
<1>8. CASE rules[q.rule] # None /\ RowIs(k, q.nextInc)
  <2>1. rules' = [rules EXCEPT ![q.rule].current = k,
                               ![q.rule].gen = Saturate(q.snap.gen + 1),
                               ![q.rule].next = q.next]
    BY <1>1, <1>3, <1>8 DEF BumpRule
  <2>2. IsRule(q.rule) /\ rules[q.rule] \in Rule
    BY <1>2, <1>8, SeriesTypes DEF IsRule
  <2>3. /\ \A x \in RuleIds : x # q.rule => rules'[x] = rules[x]
        /\ rules'[q.rule].series = rules[q.rule].series
        /\ rules'[q.rule].current = k
    BY <1>2, <2>1, <2>2 DEF TypeOK, Rule
  <2>4. IsRule(q.rule)'
    BY <1>2, <2>2, BumpRuleType, RuleStays
  <2>5. Exists(k)'
    BY <1>7, <1>8 DEF RowIs, Exists
  <2>. QED BY <1>2, <1>4, <1>5, <1>6, <1>7, <2>2, <2>3, <2>4, <2>5, TasksStand, RuleEdited
<1>9. CASE ~(rules[q.rule] # None /\ RowIs(k, q.nextInc))
  <2>1. UNCHANGED rules
    BY <1>1, <1>3, <1>9 DEF BumpRule
  <2>. QED BY <1>6, <1>7, <2>1, OnlyRequests
<1>. QED BY <1>8, <1>9

LEMMA EndSeriesSeries ==
  ASSUME TypeOK, TypeOK', SeriesInv, NEW p \in Procs, EndSeries(p)
  PROVE  SeriesInv'
<1>1. PICK q \in Request : q = req[p]
  BY DEF TypeOK
<1>2. q.rule \in RuleIds
  BY <1>1 DEF TypeOK, Remembers, EndSeries
<1>3. RequestsFrom
  BY RequestFinishes DEF EndSeries
<1>4. UNCHANGED <<tasks, ruleSeq>>
  BY DEF EndSeries
<1>5. CASE IsRule(q.rule)
  <2>1. rules[q.rule] \in Rule
    BY <1>2, <1>5, SeriesTypes
  <2>2. /\ \A x \in RuleIds : x # q.rule => rules'[x] = rules[x]
        /\ rules'[q.rule].series = rules[q.rule].series
        /\ rules'[q.rule].current = None
    BY <1>1, <1>2, <1>5, <2>1 DEF EndSeries, TypeOK, IsRule, Rule
  <2>3. IsRule(q.rule)'
    BY <1>2, <1>5, EndSeriesType, RuleStays
  <2>. QED BY <1>2, <1>3, <1>4, <1>5, <2>2, <2>3, TasksStand, RuleEdited
<1>6. CASE ~IsRule(q.rule)
  <2>1. UNCHANGED rules
    BY <1>1, <1>6 DEF EndSeries, IsRule
  <2>. QED BY <1>3, <1>4, <2>1, OnlyRequests
<1>. QED BY <1>5, <1>6


LEMMA WriteUpdateSeries ==
  ASSUME TypeOK, TypeOK', SeriesInv, NEW p \in Procs, WriteUpdate(p)
  PROVE  SeriesInv'
<1>1. PICK r \in RuleIds : r = req[p].rule
  BY DEF TypeOK, Remembers, WriteUpdate
<1>2. RequestsFrom
  BY RequestFinishes DEF WriteUpdate
<1>3. UNCHANGED <<tasks, ruleSeq>>
  BY DEF WriteUpdate
<1>4. CASE UNCHANGED rules
  BY <1>2, <1>3, <1>4, OnlyRequests
<1>5. CASE ~UNCHANGED rules
  <2>1. IsRule(r) /\ rules[r] \in Rule
    BY <1>1, <1>5, SeriesTypes DEF WriteUpdate, IsRule
  <2>. DEFINE q == req[p]
              was == q.snap
              new == q.ask.interval # None
              c == [was EXCEPT !.interval = OrElse(q.ask.interval, was.interval),
                               !.until = IF new THEN None ELSE was.until,
                               !.count = IF new THEN None ELSE was.count]
              next == After(Expansion(c, q.ask.start), q.ask.start)
              on == OrElse(q.ask.enabled, was.enabled)
              anchor == OrElse(q.ask.anchor, was.anchor)
  <2>2. rules' = [rules EXCEPT ![r].enabled = on, ![r].interval = c.interval,
                               ![r].until = c.until, ![r].count = c.count,
                               ![r].dtstart = q.ask.start, ![r].anchor = anchor,
                               ![r].next = next]
    BY ZenonT(40), <1>1, <1>5 DEF WriteUpdate
  <2>. HIDE DEF c, next, on, anchor, was, q
  <2>3. /\ \A x \in RuleIds : x # r => rules'[x] = rules[x]
        /\ rules'[r].series = rules[r].series
        /\ rules'[r].current = rules[r].current
    BY <2>1, <2>2 DEF TypeOK, Rule
  <2>4. IsRule(r)'
    BY <2>1, WriteUpdateType, RuleStays
  <2>. QED BY <1>2, <1>3, <2>1, <2>3, <2>4, TasksStand, RuleEdited
<1>. QED BY <1>4, <1>5

LEMMA StopRecurrenceSeries ==
  ASSUME TypeOK, TypeOK', SeriesInv, NEW r \in RuleIds, StopRecurrence(r)
  PROVE  SeriesInv'
<1>1. RequestsFrom
  BY RequestsUntouched DEF StopRecurrence
<1>2. UNCHANGED <<tasks, ruleSeq>>
  BY DEF StopRecurrence
<1>3. IsRule(r) /\ rules[r] \in Rule
  BY SeriesTypes DEF StopRecurrence, IsRule
<1>4. /\ \A x \in RuleIds : x # r => rules'[x] = rules[x]
      /\ rules'[r].series = rules[r].series
      /\ rules'[r].current = rules[r].current
  BY <1>3 DEF StopRecurrence, TypeOK, Rule
<1>5. IsRule(r)'
  BY <1>3, StopRecurrenceType, RuleStays
<1>. QED BY <1>1, <1>2, <1>3, <1>4, <1>5, TasksStand, RuleEdited

LEMMA MaterializeRuleSeries ==
  ASSUME TypeOK, TypeOK', SeriesInv, NEW r \in RuleIds, MaterializeRule(r)
  PROVE  SeriesInv'
<1>1. RequestsFrom
  BY RequestsUntouched DEF MaterializeRule
<1>2. PICK days : days = Owed(rules[r])
  OBVIOUS
<1>3. IsRule(r) /\ rules[r] \in Rule /\ r <= ruleSeq
  BY SeriesTypes DEF MaterializeRule, IsRule, SeriesInv, RulesKnown
<1>4. days \subseteq Dates
  BY <1>2, <1>3, OwedType DEF MaterializeRule
<1>5. /\ TasksOnward /\ RowsFrom
      /\ \A t \in TaskIds : Exists(t) => Exists(t)'
  BY <1>2, <1>3, <1>4, OccurrencesInserted DEF MaterializeRule
<1>6. IsRule(r)'
  BY <1>3, MaterializeRuleType, RuleStays
<1>7. CASE days = {}
  <2>1. /\ \A x \in RuleIds : x # r => rules'[x] = rules[x]
        /\ rules'[r].series = rules[r].series
        /\ rules'[r].current = rules[r].current
    BY <1>2, <1>3, <1>7 DEF MaterializeRule, TypeOK, Rule
  <2>2. ruleSeq' = ruleSeq
    BY DEF MaterializeRule
  <2>. QED BY <1>1, <1>3, <1>5, <1>6, <2>1, <2>2, RuleEdited
<1>8. CASE days # {}
  <2>1. PICK k : k = <<r, LastOf(days)>>
    OBVIOUS
  <2>2. k \in {r} \X days /\ k \in OccurrenceKeys /\ k \in TaskIds /\ k[1] = r
    <3>1. LastOf(days) \in days /\ LastOf(days) \in Dates
      BY <1>4, <1>8, LastOfReturns
    <3>. QED BY <2>1, <3>1 DEF OccurrenceKeys, TaskIds
  <2>3. PICK gen, next : rules' = [rules EXCEPT ![r].current = k, ![r].gen = gen,
                                                ![r].next = next]
    BY <1>2, <1>8, <2>1 DEF MaterializeRule
  <2>4. /\ \A x \in RuleIds : x # r => rules'[x] = rules[x]
        /\ rules'[r].series = rules[r].series
        /\ rules'[r].current = k
    BY <1>3, <2>3 DEF TypeOK, Rule
  <2>5. Exists(k)'
    <3>1. InsertOccurrences(r, days)
      BY <1>2 DEF MaterializeRule
    <3>. QED BY <2>2, <3>1 DEF InsertOccurrences, Exists
  <2>6. Known(k) /\ Belongs(k, r)
    BY <1>3, <2>2, OwnOccurrence
  <2>7. ruleSeq' = ruleSeq
    BY DEF MaterializeRule
  <2>. QED BY <1>1, <1>3, <1>5, <1>6, <2>2, <2>4, <2>5, <2>6, <2>7, RuleEdited
<1>. QED BY <1>7, <1>8

LEMMA RewriteRuleSeries ==
  ASSUME TypeOK, TypeOK', SeriesInv, NEW p \in Procs, RewriteRule(p)
  PROVE  SeriesInv'
<1>1. PICK q \in Request : q = req[p]
  BY DEF TypeOK
<1>2. /\ q.rule \in RuleIds /\ q.ask \in Asked /\ q.task \in TaskIds /\ Reader(q)
      /\ IsRule(q.rule) /\ RowIs(q.task, q.inc) /\ rules[q.rule] \in Rule
  BY <1>1 DEF TypeOK, Remembers, RewriteRule, SeriesInv, Request, IsRule
<1>3. PICK n : n = [q EXCEPT !.pc = "writeMarker"]
  OBVIOUS
<1>4. Continue(p, n) /\ UNCHANGED <<tasks, ruleSeq>>
  BY <1>1, <1>3 DEF RewriteRule
<1>5. RequestsFrom
  <2>1. n.task = q.task /\ n.inc = q.inc /\ n.mark = q.mark /\ n.rule = q.rule /\ n.pc # "fork"
    BY <1>3 DEF Request
  <2>2. Reader(n)
    BY <1>2, <2>1, MovesOn
  <2>. QED BY <1>4, <2>2, RequestTyped, RequestContinues
<1>6. /\ \A x \in RuleIds : x # q.rule => rules'[x] = rules[x]
      /\ rules'[q.rule] = Attached(q, rules[q.rule])
  BY <1>1, <1>2 DEF RewriteRule, TypeOK
<1>7. rules'[q.rule].series = rules[q.rule].series /\ rules'[q.rule].current = q.task
  <2>1. /\ Attached(q, rules[q.rule]).series = rules[q.rule].series
        /\ Attached(q, rules[q.rule]).current = q.task
    BY <1>2, AttachedType
  <2>. QED BY <1>6, <2>1
<1>8. IsRule(q.rule)'
  BY <1>2, RewriteRuleType, RuleStays
<1>9. Exists(q.task) /\ Known(q.task) /\ Belongs(q.task, q.rule)
  BY <1>2, NoneIsNoValue DEF RowIs, Exists, Reader, SeriesInv, TasksBelong
<1>10. Exists(q.task)'
  BY <1>4, <1>9 DEF Exists
<1>. QED BY <1>2, <1>4, <1>5, <1>6, <1>7, <1>8, <1>9, <1>10, TasksStand, RuleEdited


-----------------------------------------------------------------------------
(* The steps that make rules, and a purge.                                 *)

\* A new rule changes no other, and no row has its number yet.
OthersKept(n) ==
  \A x \in RuleIds :
    /\ IsRule(x) => IsRule(x)'
    /\ x # n /\ IsRule(x)' => IsRule(x) /\ rules'[x].series = rules[x].series

LEMMA RuleAdded ==
  ASSUME TypeOK, SeriesInv, NEW n \in RuleIds, n = ruleSeq + 1, ruleSeq' = n,
         OthersKept(n)
  PROVE  RulesOnward
<1>1. ruleSeq \in Nat /\ n \in Nat /\ RuleIds \subseteq Nat
  BY BoundsAssumption DEF TypeOK, RuleIds
<1>2. \A r \in RuleIds : IsRule(r)' => r <= n
  <2>. SUFFICES ASSUME NEW r \in RuleIds, IsRule(r)' PROVE r <= n
    OBVIOUS
  <2>1. r = n \/ r <= ruleSeq
    BY DEF SeriesInv, RulesKnown, OthersKept
  <2>2. r \in Nat
    BY <1>1
  <2>3. r <= ruleSeq => r <= ruleSeq + 1
    BY <1>1, <2>2
  <2>4. r = n => r <= n
    BY <1>1
  <2>. QED BY <2>1, <2>3, <2>4
<1>3. \A r \in RuleIds : r <= ruleSeq => r # n
  BY <1>1
<1>4. ruleSeq <= ruleSeq' /\ \A r \in RuleIds : IsRule(r)' => r <= ruleSeq'
  BY <1>1, <1>2
<1>5. \A r \in RuleIds : r <= ruleSeq /\ IsRule(r)' =>
        IsRule(r) /\ rules'[r].series = rules[r].series
  BY <1>3 DEF OthersKept
<1>6. \A r \in RuleIds : IsRule(r) => IsRule(r)'
  BY DEF OthersKept
<1>. QED BY <1>4, <1>5, <1>6 DEF RulesOnward

LEMMA InsertRuleSeries ==
  ASSUME TypeOK, TypeOK', SeriesInv, NEW p \in Procs, InsertRule(p)
  PROVE  SeriesInv'
<1>1. PICK q \in Request : q = req[p]
  BY DEF TypeOK
<1>2. PICK r : r = ruleSeq + 1
  OBVIOUS
<1>3. PICK blank :
        blank = [series |-> q.task, enabled |-> TRUE, current |-> None,
                 anchor |-> q.ask.anchor, dtstart |-> q.ask.start,
                 interval |-> q.ask.interval, until |-> None,
                 count |-> q.ask.count, gen |-> 1, next |-> None]
  OBVIOUS
<1>4. PICK n : n = [q EXCEPT !.pc = "writeMarker", !.rule = r]
  OBVIOUS
<1>5. /\ q.task \in Seeds /\ q.mark = None /\ RowIs(q.task, q.inc) /\ r \in RuleIds
      /\ rules' = [rules EXCEPT ![r] = Attached(q, blank)]
      /\ ruleSeq' = r /\ Continue(p, n) /\ UNCHANGED tasks
  BY <1>1, <1>2, <1>3, <1>4 DEF InsertRule
<1>6. q.ask \in Asked /\ q.task \in TaskIds /\ Reader(q)
  BY <1>1, <1>5 DEF TypeOK, Remembers, SeriesInv, InsertRule
<1>7. blank \in Rule
  BY <1>3, <1>5, <1>6, BlankType
<1>8. /\ \A x \in RuleIds : x # r => rules'[x] = rules[x]
      /\ IsRule(r)' /\ rules'[r].series = q.task /\ rules'[r].current = q.task
  <2>1. /\ Attached(q, blank) \in Rule /\ Attached(q, blank).series = q.task
        /\ Attached(q, blank).current = q.task
    BY <1>3, <1>6, <1>7, AttachedType
  <2>2. /\ \A x \in RuleIds : x # r => rules'[x] = rules[x]
        /\ rules'[r] = Attached(q, blank)
    BY <1>5 DEF TypeOK
  <2>. QED BY <2>1, <2>2, RowAssumption DEF IsRule
<1>9. RulesOnward
  <2>1. \A x \in RuleIds : IsRule(x) => IsRule(x)'
    BY <1>8 DEF IsRule
  <2>2. \A x \in RuleIds : x # r /\ IsRule(x)' =>
           IsRule(x) /\ rules'[x].series = rules[x].series
    BY <1>8 DEF IsRule
  <2>3. OthersKept(r)
    BY <2>1, <2>2 DEF OthersKept
  <2>. QED BY <1>2, <1>5, <2>3, RuleAdded
<1>10. TasksOnward /\ RowsFrom /\ \A t \in TaskIds : Exists(t) => Exists(t)'
  BY <1>5, TasksStand
<1>11. Belongs(q.task, r)' /\ Exists(q.task)'
  <2>1. r <= ruleSeq'
    BY <1>5 DEF TypeOK, RuleIds
  <2>2. SeriesOf(q.task)' = q.task
    BY <1>5 DEF SeriesOf
  <2>. QED BY <1>5, <1>8, <2>1, <2>2 DEF Belongs, RowIs, Exists
<1>12. CurrentsFrom
  <2>1. ASSUME NEW x \in RuleIds, IsRule(x)', rules'[x].current # None
        PROVE  \E c \in TaskIds : /\ rules'[x].current = c
                                  /\ Exists(c)'
                                  /\ (Known(c) /\ Belongs(c, x)) \/ Belongs(c, x)'
    <3>1. CASE x = r
      BY <1>6, <1>8, <1>11, <3>1
    <3>2. CASE x # r
      <4>1. IsRule(x) /\ rules'[x].current = rules[x].current /\ rules[x].current # None
        BY <1>8, <2>1, <3>2 DEF IsRule
      <4>. QED BY <1>10, <4>1, CurrentStays
    <3>. QED BY <3>1, <3>2
  <2>. QED BY <2>1 DEF CurrentsFrom
<1>13. RequestsFrom
  <2>1. n \in Request
    BY <1>5, RequestTyped
  <2>2. n.task = q.task /\ n.inc = q.inc /\ n.mark = None /\ n.rule = r /\ n.pc # "fork"
    BY <1>4, <1>5 DEF Request
  <2>3. Seen(q.task, q.inc)'
    <3>1. Seen(q.task, q.inc) /\ q.inc \in Nat
      BY <1>6, NoneIsNoValue DEF Reader, Request
    <3>. QED BY <1>6, <1>10, <3>1, SeenStays
  <2>4. Belongs(q.task, None)' /\ (r <= ruleSeq)'
    BY <1>5 DEF Belongs, TypeOK, RuleIds
  <2>5. Reader(n)'
    BY <1>11, <2>2, <2>3, <2>4 DEF Reader
  <2>. QED BY <1>5, <2>1, <2>5, RequestContinues
<1>. QED BY <1>9, <1>10, <1>12, <1>13, SeriesInvFrom

LEMMA ForkSeries ==
  ASSUME TypeOK, TypeOK', SeriesInv, NEW p \in Procs, Fork(p)
  PROVE  SeriesInv'
<1>1. PICK q \in Request : q = req[p]
  BY DEF TypeOK
<1>2. PICK r : r = ruleSeq + 1
  OBVIOUS
<1>3. /\ q.rule \in RuleIds /\ q.snap \in Rule /\ q.ask \in Asked /\ q.task \in TaskIds
      /\ Reader(q) /\ q.pc = "fork"
  BY <1>1 DEF TypeOK, Remembers, SeriesInv, Fork
<1>4. /\ IsRule(q.rule) /\ RowIs(q.task, q.inc) /\ r \in RuleIds /\ rules[q.rule] \in Rule
  BY <1>1, <1>2, <1>3, BoundsAssumption DEF Fork, ForkRefused, IsRule, TypeOK, RuleIds
<1>5. /\ Exists(q.task) /\ Known(q.task) /\ Belongs(q.task, q.rule)
      /\ q.snap.current = q.task /\ rules[q.rule].series = q.snap.series
      /\ q.rule <= ruleSeq
  BY <1>3, <1>4, NoneIsNoValue DEF RowIs, Exists, Reader, SeriesInv, TasksBelong
<1>6. q.rule # r
  BY <1>2, <1>5, BoundsAssumption DEF TypeOK
<1>7. PICK rehome : rehome = (q.ask.anchor = "completion")
  OBVIOUS
<1>8. /\ rules' = [rules EXCEPT
                     ![q.rule].enabled = FALSE, ![q.rule].next = None,
                     ![q.rule].count = None, ![q.rule].until = q.ask.start,
                     ![q.rule].interval = q.snap.interval,
                     ![q.rule].current = IF rehome THEN None ELSE q.snap.current,
                     ![r] = ForkedRule(q)]
      /\ ruleSeq' = r /\ Finish(p)
      /\ tasks' = IF rehome THEN [tasks EXCEPT ![q.task].mark = r] ELSE tasks
  BY <1>1, <1>2, <1>7 DEF Fork
<1>9. /\ \A x \in RuleIds : x \notin {q.rule, r} => rules'[x] = rules[x]
      /\ rules'[q.rule].series = rules[q.rule].series
      /\ rules'[q.rule].current \in {None, q.task}
      /\ rules'[r] = ForkedRule(q)
  BY <1>3, <1>4, <1>5, <1>6, <1>8 DEF TypeOK, Rule
<1>10. IsRule(r)' /\ rules'[r].series = rules[q.rule].series /\ rules'[r].current = q.task
  BY <1>3, <1>5, <1>9, ForkedRuleType, RowAssumption DEF IsRule
<1>11. RulesOnward
  <2>1. IsRule(q.rule)'
    BY <1>3, <1>4, ForkType, RuleStays
  <2>2. \A x \in RuleIds : IsRule(x) => IsRule(x)'
    BY <1>9, <1>10, <2>1 DEF IsRule
  <2>3. \A x \in RuleIds : x # r /\ IsRule(x)' =>
           IsRule(x) /\ rules'[x].series = rules[x].series
    BY <1>4, <1>9 DEF IsRule
  <2>4. OthersKept(r)
    BY <2>2, <2>3 DEF OthersKept
  <2>. QED BY <1>2, <1>4, <1>8, <2>4, RuleAdded
<1>12. /\ Belongs(q.task, q.rule)'
       /\ Belongs(q.task, r)'
  <2>1. Belongs(q.task, q.rule)'
    BY <1>3, <1>5, <1>11, BelongsStays
  <2>2. IsRule(q.rule)' /\ q.rule # None
    BY <1>3, <1>4, ForkType, RuleStays, NoneIsNoValue
  <2>3. rules'[q.rule].series = SeriesOf(q.task)'
    BY <2>1, <2>2 DEF Belongs
  <2>4. r <= ruleSeq'
    <3>1. r \in Nat
      BY <1>4 DEF RuleIds
    <3>2. ruleSeq' = r
      BY <1>8
    <3>. QED BY <3>1, <3>2
  <2>. QED BY <1>9, <1>10, <2>1, <2>3, <2>4 DEF Belongs
<1>13. /\ \A u \in TaskIds : u # q.task => tasks'[u] = tasks[u]
       /\ tasks'[q.task].row = tasks[q.task].row /\ tasks'[q.task].inc = tasks[q.task].inc
       /\ tasks'[q.task].mark \in {tasks[q.task].mark, r}
  <2>1. tasks[q.task] \in Task
    BY <1>3 DEF TypeOK
  <2>. QED BY <1>3, <1>8, <2>1 DEF TypeOK, Task
<1>14. \A u \in TaskIds : /\ tasks'[u].inc = tasks[u].inc
                          /\ Exists(u) => Exists(u)'
                          /\ Exists(u)' => Exists(u)
  BY <1>13 DEF Exists
<1>15. TasksOnward
  BY <1>14, SeriesTypes DEF TasksOnward
<1>16. RowsFrom
  <2>1. ASSUME NEW u \in TaskIds, Exists(u)'
        PROVE  \E m \in RuleIds \cup {None} :
                 /\ tasks'[u].mark = m
                 /\ (Known(u) /\ Belongs(u, m)) \/ (Known(u)' /\ Belongs(u, m)')
    <3>1. /\ Known(u) /\ Belongs(u, tasks[u].mark) /\ Known(u)'
          /\ tasks[u].mark \in RuleIds \cup {None}
      BY <1>11, <1>14, <2>1, KnownStays, SeriesTypes DEF SeriesInv, TasksBelong
    <3>2. CASE u = q.task /\ tasks'[u].mark = r
      BY <1>4, <1>12, <3>1, <3>2
    <3>3. CASE tasks'[u].mark = tasks[u].mark
      BY <3>1, <3>3
    <3>. QED BY <1>13, <3>2, <3>3
  <2>. QED BY <2>1 DEF RowsFrom
<1>17. CurrentsFrom
  <2>1. ASSUME NEW x \in RuleIds, IsRule(x)', rules'[x].current # None
        PROVE  \E c \in TaskIds : /\ rules'[x].current = c
                                  /\ Exists(c)'
                                  /\ (Known(c) /\ Belongs(c, x)) \/ Belongs(c, x)'
    <3>1. CASE x \in {q.rule, r}
      BY <1>3, <1>5, <1>9, <1>10, <1>12, <1>14, <2>1, <3>1
    <3>2. CASE x \notin {q.rule, r}
      <4>1. IsRule(x) /\ rules'[x].current = rules[x].current /\ rules[x].current # None
        BY <1>9, <2>1, <3>2 DEF IsRule
      <4>. QED BY <1>14, <4>1, CurrentStays
    <3>. QED BY <3>1, <3>2
  <2>. QED BY <2>1 DEF CurrentsFrom
<1>18. RequestsFrom
  BY <1>8, RequestFinishes
<1>. QED BY <1>11, <1>15, <1>16, <1>17, <1>18, SeriesInvFrom


\* A purge drops the rules of a series together, and the row of one task.
LEMMA PurgeSeries ==
  ASSUME TypeOK, TypeOK', SeriesInv, NEW t \in TaskIds, Purge(t)
  PROVE  SeriesInv'
<1>1. PICK gone : gone = {r \in RuleIds : rules[r] # None /\ rules[r].series = t}
  OBVIOUS
<1>2. RequestsFrom
  BY RequestsUntouched DEF Purge
<1>3. tasks[t] \in Task
  BY DEF TypeOK
<1>4. /\ tasks' = [tasks EXCEPT ![t] = [NoRow EXCEPT !.inc = tasks[t].inc + 1]]
      /\ rules' = [r \in RuleIds |->
                     IF r \in gone THEN None
                     ELSE IF rules[r] # None /\ rules[r].current = t
                          THEN [rules[r] EXCEPT !.current = None]
                          ELSE rules[r]]
      /\ ruleSeq' = ruleSeq
  BY <1>1 DEF Purge
<1>5. /\ \A u \in TaskIds : u # t => tasks'[u] = tasks[u]
      /\ ~Exists(t)' /\ tasks'[t].inc = tasks[t].inc + 1
  BY <1>3, <1>4 DEF TypeOK, Exists, NoRow
<1>6. \A r \in gone : IsRule(r) /\ ~IsRule(r)'
  BY <1>1, <1>4 DEF IsRule
<1>7. ASSUME NEW r \in RuleIds, r \notin gone, IsRule(r)
      PROVE  /\ IsRule(r)' /\ rules'[r].series = rules[r].series
             /\ rules'[r].current # None =>
                  rules'[r].current = rules[r].current /\ rules[r].current # t
  <2>1. rules[r] \in Rule
    BY <1>7, SeriesTypes
  <2>2. CASE rules[r].current = t
    <3>1. rules'[r] = [rules[r] EXCEPT !.current = None]
      BY <1>4, <1>7, <2>2 DEF IsRule
    <3>2. [rules[r] EXCEPT !.current = None] \in Rule
      BY <2>1 DEF Rule
    <3>3. rules'[r].series = rules[r].series /\ rules'[r].current = None
      BY <2>1, <3>1 DEF Rule
    <3>. QED BY <3>1, <3>2, <3>3, RowAssumption DEF IsRule
  <2>3. CASE rules[r].current # t
    BY <1>4, <1>7, <2>3 DEF IsRule
  <2>. QED BY <2>2, <2>3
<1>8. \A r \in RuleIds : r \notin gone /\ IsRule(r)' => IsRule(r)
  BY <1>4 DEF IsRule
<1>9. RulesOnward
  <2>1. ruleSeq \in Nat
    BY BoundsAssumption DEF TypeOK
  <2>2. \A r \in RuleIds : IsRule(r)' => IsRule(r) /\ rules'[r].series = rules[r].series
    BY <1>6, <1>7, <1>8
  <2>3. \A r, k \in RuleIds :
          IsRule(r) /\ IsRule(k) /\ rules[r].series = rules[k].series /\ IsRule(r)' => IsRule(k)'
    <3>. SUFFICES ASSUME NEW r \in RuleIds, NEW k \in RuleIds, IsRule(r), IsRule(k),
                         rules[r].series = rules[k].series, IsRule(r)'
                  PROVE  IsRule(k)'
      OBVIOUS
    <3>1. r \notin gone
      BY <1>6
    <3>2. k \notin gone
      BY <1>1, <3>1 DEF IsRule
    <3>. QED BY <1>7, <3>2
  <2>4. \A r \in RuleIds : IsRule(r)' => r <= ruleSeq'
    BY <1>4, <2>2 DEF SeriesInv, RulesKnown
  <2>. QED BY <1>4, <2>1, <2>2, <2>3, <2>4 DEF RulesOnward
<1>10. TasksOnward
  <2>. SUFFICES ASSUME NEW u \in TaskIds
                PROVE  /\ tasks[u].inc <= tasks'[u].inc
                       /\ tasks[u].inc = tasks'[u].inc /\ Exists(u) => Exists(u)'
    BY DEF TasksOnward
  <2>1. tasks[u].inc \in Nat
    BY SeriesTypes
  <2>2. CASE u = t
    BY <1>5, <2>1, <2>2
  <2>3. CASE u # t
    BY <1>5, <2>1, <2>3 DEF Exists
  <2>. QED BY <2>2, <2>3
<1>11. RowsFrom
  <2>1. ASSUME NEW u \in TaskIds, Exists(u)'
        PROVE  \E m \in RuleIds \cup {None} :
                 /\ tasks'[u].mark = m
                 /\ (Known(u) /\ Belongs(u, m)) \/ (Known(u)' /\ Belongs(u, m)')
    <3>1. tasks'[u] = tasks[u] /\ Exists(u)
      BY <1>5, <2>1 DEF Exists
    <3>2. Known(u) /\ Belongs(u, tasks[u].mark) /\ tasks[u].mark \in RuleIds \cup {None}
      BY <3>1, SeriesTypes DEF SeriesInv, TasksBelong
    <3>. QED BY <3>1, <3>2
  <2>. QED BY <2>1 DEF RowsFrom
<1>12. CurrentsFrom
  <2>1. ASSUME NEW x \in RuleIds, IsRule(x)', rules'[x].current # None
        PROVE  \E c \in TaskIds : /\ rules'[x].current = c
                                  /\ Exists(c)'
                                  /\ (Known(c) /\ Belongs(c, x)) \/ Belongs(c, x)'
    <3>1. x \notin gone /\ IsRule(x)
      BY <1>6, <1>8, <2>1
    <3>2. rules'[x].current = rules[x].current /\ rules[x].current # t
      BY <1>7, <2>1, <3>1
    <3>3. \A c \in TaskIds : c = rules[x].current /\ Exists(c) => Exists(c)'
      BY <1>5, <3>2 DEF Exists
    <3>. QED BY <2>1, <3>1, <3>2, <3>3, CurrentStays
  <2>. QED BY <2>1 DEF CurrentsFrom
<1>. QED BY <1>2, <1>9, <1>10, <1>11, <1>12, SeriesInvFrom

LEMMA SeriesInit == Init => SeriesInv
<1>. SUFFICES ASSUME Init PROVE SeriesInv
  OBVIOUS
<1>1. TypeOK
  BY TypeInit
<1>2. \A r \in RuleIds : ~IsRule(r)
  BY DEF Init, IsRule
<1>3. \A t \in TaskIds : (Exists(t) => t \in Seeds) /\ tasks[t].mark = None
  BY DEF Init, Exists, NoRow
<1>4. \A p \in Procs : req[p] = Idle
  BY DEF Init
<1>. QED BY <1>2, <1>3, <1>4, IdleReads
         DEF SeriesInv, RulesKnown, TasksBelong, CurrentBelongs, Known, Belongs

LEMMA BeginRequestSeries ==
  ASSUME TypeOK, TypeOK', SeriesInv, NEW p \in Procs, BeginRequest(p)
  PROVE  SeriesInv'
BY BeginCompleteSeries, BeginSkipSeries, BeginCreateSeries, BeginUpdateRuleSeries,
   BeginSplitSeries DEF BeginRequest

LEMMA ProceedSeries ==
  ASSUME TypeOK, TypeOK', SeriesInv, NEW p \in Procs, Proceed(p)
  PROVE  SeriesInv'
<1>1. ASSUME RefuseRule(p) PROVE SeriesInv'
  BY <1>1, OnlyRequestsFinish DEF RefuseRule
<1>2. ASSUME RefuseFork(p) PROVE SeriesInv'
  BY <1>2, OnlyRequestsFinish DEF RefuseFork
<1>. QED BY <1>1, <1>2, MarkDoneSeries, FindRuleSeries, InsertNextSeries, BumpRuleSeries,
            EndSeriesSeries, InsertSkipExceptionSeries, RejectSkippedSeries,
            FindExistingSeries, RewriteRuleSeries, InsertRuleSeries, WriteMarkerSeries,
            WriteUpdateSeries, ForkSeries DEF Proceed

LEMMA SeriesNext == TypeOK /\ SeriesInv /\ [Next]_vars => SeriesInv'
<1>. SUFFICES ASSUME TypeOK, SeriesInv, [Next]_vars PROVE SeriesInv'
  OBVIOUS
<1>. TypeOK'
  BY TypeNext
<1>1. ASSUME NEW p \in Procs, BeginRequest(p) PROVE SeriesInv'
  BY <1>1, BeginRequestSeries
<1>2. ASSUME NEW p \in Procs, Proceed(p) PROVE SeriesInv'
  BY <1>2, ProceedSeries
<1>3. ASSUME NEW p \in Procs, Crash(p) PROVE SeriesInv'
  BY <1>3, OnlyRequestsFinish DEF Crash
<1>4. ASSUME NEW r \in RuleIds, StopRecurrence(r) PROVE SeriesInv'
  BY <1>4, StopRecurrenceSeries
<1>5. ASSUME NEW r \in RuleIds, MaterializeRule(r) PROVE SeriesInv'
  BY <1>5, MaterializeRuleSeries
<1>6. ASSUME NEW t \in TaskIds, EditTask(t) PROVE SeriesInv'
  BY <1>6, EditTaskSeries, PurgeSeries DEF EditTask
<1>7. CASE Tick
  BY <1>7, RequestsUntouched, OnlyRequests DEF Tick
<1>8. CASE UNCHANGED vars
  BY <1>8, RequestsUntouched, OnlyRequests DEF vars
<1>. QED BY <1>1, <1>2, <1>3, <1>4, <1>5, <1>6, <1>7, <1>8 DEF Next

LEMMA SeriesInvCloses == TypeOK /\ SeriesInv => SeriesClosed
<1>. SUFFICES ASSUME TypeOK, SeriesInv PROVE SeriesClosed
  OBVIOUS
<1>1. ASSUME NEW r \in RuleIds, IsRule(r), rules[r].current # None
      PROVE  Exists(rules[r].current) /\ SeriesOf(rules[r].current) = rules[r].series
  BY <1>1, NoneIsNoValue DEF SeriesInv, CurrentBelongs, Belongs
<1>2. ASSUME NEW t \in TaskIds, Exists(t), tasks[t].mark # None
      PROVE  IF IsRule(tasks[t].mark)
             THEN rules[tasks[t].mark].series = SeriesOf(t)
             ELSE t \notin Seeds => SeriesOf(t) = None
  BY <1>2 DEF SeriesInv, TasksBelong, Belongs
<1>. QED BY <1>1, <1>2 DEF SeriesClosed

\* The current occurrence of a rule is a row of the rule's own series, and the
\* marker of every occurrence leads to a rule of the series it was generated
\* in, however completions, skips, splits, edits and purges interleave: a
\* marker that a skip writes back late is still one of the series
\* (recurrence.ts:629-663, :799-817, :923-979, entities.ts:548-584).
THEOREM SeriesStaysClosed == Spec => []SeriesClosed
<1>1. Init => TypeOK /\ SeriesInv
  BY TypeInit, SeriesInit
<1>2. TypeOK /\ SeriesInv /\ [Next]_vars => (TypeOK /\ SeriesInv)'
  BY TypeNext, SeriesNext
<1>. QED BY <1>1, <1>2, SeriesInvCloses, PTL DEF Spec

-----------------------------------------------------------------------------
(* A disabled rule is enabled and advanced only by what is under way.      *)

NoRowAdded == \A t \in TaskIds : Exists(t)' => Exists(t)

LEMMA RowsUntouched ==
  ASSUME UNCHANGED tasks
  PROVE  NoRowAdded
BY DEF NoRowAdded, Exists

\* A write to one row that leaves the row where it is adds none.
LEMMA RowRewritten ==
  ASSUME TypeOK, NEW t \in TaskIds, NEW row, row.row = tasks[t].row \/ Exists(t),
         tasks' = [tasks EXCEPT ![t] = row]
  PROVE  NoRowAdded
<1>1. \A u \in TaskIds : tasks'[u] = IF u = t THEN row ELSE tasks[u]
  BY DEF TypeOK
<1>. QED BY <1>1 DEF NoRowAdded, Exists

\* The statements of a request other than the insert of an occurrence.
LEMMA ProceedAddsNoRow ==
  ASSUME TypeOK, NEW p \in Procs, Proceed(p), ~InsertNext(p)
  PROVE  NoRowAdded
<1>. DEFINE q == req[p]
            t == q.task
<1>1. CASE UNCHANGED tasks
  BY <1>1, RowsUntouched
<1>2. CASE MarkDone(p) \/ RejectSkipped(p) \/ WriteMarker(p) \/ Fork(p)
  <2>1. t \in TaskIds /\ tasks[t] \in Task
    BY <1>2 DEF TypeOK, Remembers, MarkDone, RejectSkipped, WriteMarker, Fork
  <2>2. ASSUME MarkDone(p) PROVE NoRowAdded
    <3>1. [tasks[t] EXCEPT !.status = "done"].row = tasks[t].row
      BY <2>1 DEF Task
    <3>2. tasks' = tasks \/ tasks' = [tasks EXCEPT ![t] = [tasks[t] EXCEPT !.status = "done"]]
      BY <2>2 DEF MarkDone
    <3>. QED BY <1>1, <2>1, <3>1, <3>2, RowRewritten
  <2>3. ASSUME RejectSkipped(p) PROVE NoRowAdded
    <3>1. [[tasks[t] EXCEPT !.status = "rejected"] EXCEPT !.mark = q.mark].row = tasks[t].row
      BY <2>1 DEF Task
    <3>2. \/ tasks' = tasks
          \/ tasks' = [tasks EXCEPT ![t] = [[tasks[t] EXCEPT !.status = "rejected"]
                                              EXCEPT !.mark = q.mark]]
      BY <2>1, <2>3 DEF RejectSkipped, TypeOK, Task
    <3>. QED BY <1>1, <2>1, <3>1, <3>2, RowRewritten
  <2>4. ASSUME WriteMarker(p) PROVE NoRowAdded
    <3>. DEFINE due == IF q.due = None THEN q.ask.start ELSE tasks[t].due
    <3>1. [[tasks[t] EXCEPT !.mark = q.rule] EXCEPT !.due = due].row = tasks[t].row
      BY <2>1 DEF Task
    <3>2. \/ tasks' = tasks
          \/ tasks' = [tasks EXCEPT ![t] = [[tasks[t] EXCEPT !.mark = q.rule]
                                              EXCEPT !.due = due]]
      BY <2>1, <2>4 DEF WriteMarker, TypeOK, Task
    <3>. QED BY <1>1, <2>1, <3>1, <3>2, RowRewritten
  <2>5. ASSUME Fork(p) PROVE NoRowAdded
    <3>1. \A r : [tasks[t] EXCEPT !.mark = r].row = tasks[t].row
      BY <2>1 DEF Task
    <3>2. \/ tasks' = tasks
          \/ tasks' = [tasks EXCEPT ![t] = [tasks[t] EXCEPT !.mark = ruleSeq + 1]]
      BY <2>5 DEF Fork
    <3>. QED BY <1>1, <2>1, <3>1, <3>2, RowRewritten
  <2>. QED BY <1>2, <2>2, <2>3, <2>4, <2>5
<1>. QED BY <1>1, <1>2
         DEF Proceed, FindRule, BumpRule, EndSeries, InsertSkipException, FindExisting,
             RewriteRule, InsertRule, RefuseRule, WriteUpdate, RefuseFork

LEMMA EditAddsNoRow ==
  ASSUME TypeOK, NEW t \in TaskIds, EditTask(t)
  PROVE  NoRowAdded
<1>1. tasks[t] \in Task
  BY DEF TypeOK
<1>2. ASSUME NEW status, SetStatus(t, status) PROVE NoRowAdded
  <2>1. [tasks[t] EXCEPT !.status = status].row = tasks[t].row
    BY <1>1 DEF Task
  <2>. QED BY <1>2, <2>1, RowRewritten DEF SetStatus
<1>3. ASSUME NEW d, Reschedule(t, d) PROVE NoRowAdded
  <2>1. [tasks[t] EXCEPT !.due = d].row = tasks[t].row
    BY <1>1 DEF Task
  <2>. QED BY <1>3, <2>1, RowRewritten DEF Reschedule
<1>4. ASSUME Trash(t) \/ Restore(t) PROVE NoRowAdded
  <2>1. Exists(t)
    BY <1>4 DEF Trash, Restore, Exists
  <2>2. \/ tasks' = [tasks EXCEPT ![t] = [tasks[t] EXCEPT !.row = "trashed"]]
        \/ tasks' = [tasks EXCEPT ![t] = [tasks[t] EXCEPT !.row = "live"]]
    BY <1>4 DEF Trash, Restore
  <2>. QED BY <2>1, <2>2, RowRewritten
<1>5. ASSUME Purge(t) PROVE NoRowAdded
  <2>1. Exists(t)
    BY <1>5 DEF Purge, Exists
  <2>. QED BY <1>5, <2>1, RowRewritten DEF Purge
<1>. QED BY <1>2, <1>3, <1>4, <1>5 DEF EditTask

\* The only rows an insert adds are occurrences of its rule.
LEMMA InsertAdds ==
  ASSUME NEW r \in RuleIds, NEW days, InsertOccurrences(r, days),
         NEW t \in TaskIds, Exists(t)'
  PROVE  Exists(t) \/ t \in {r} \X days
<1>1. tasks'[t] = IF t \in {r} \X days /\ tasks[t].row = "none"
                  THEN [row |-> "live", inc |-> tasks[t].inc, status |-> "open",
                        mark |-> r, due |-> t[2]]
                  ELSE tasks[t]
  BY DEF InsertOccurrences
<1>. QED BY <1>1 DEF Exists

\* What a request is about to advance it has read as enabled.
ReadEnabled ==
  \A p \in Procs : req[p].pc \in {"except", "reject", "insert"} => req[p].snap.enabled

LEMMA ReadEnabledStays ==
  ASSUME TypeOK, ReadEnabled, NEW p \in Procs, NEW n, req' = [req EXCEPT ![p] = n],
         n.pc \in {"except", "reject", "insert"} => n.snap.enabled
  PROVE  ReadEnabled'
BY DEF TypeOK, ReadEnabled

LEMMA FinishReadEnabled ==
  ASSUME TypeOK, ReadEnabled, NEW p \in Procs, Finish(p)
  PROVE  ReadEnabled'
BY ReadEnabledStays DEF Finish, Idle

LEMMA ReadEnabledNext == TypeOK /\ ReadEnabled /\ [Next]_vars => ReadEnabled'
<1>. SUFFICES ASSUME TypeOK, ReadEnabled, [Next]_vars PROVE ReadEnabled'
  OBVIOUS
<1>1. \A p \in Procs : req[p] \in Request
  BY DEF TypeOK
<1>2. CASE UNCHANGED req
  BY <1>2 DEF ReadEnabled
<1>3. ASSUME NEW p \in Procs, BeginRequest(p) PROVE ReadEnabled'
  <2>. DEFINE Goes == /\ \A x \in Procs : x # p => req'[x] = req[x]
                      /\ req'[p].pc \notin {"except", "reject", "insert"}
  <2>1. ASSUME NEW t \in TaskIds, BeginComplete(p, t) PROVE Goes
    BY <2>1 DEF BeginComplete, Continue, Idle, TypeOK
  <2>2. ASSUME NEW t \in TaskIds, BeginSkip(p, t) PROVE Goes
    BY <2>2 DEF BeginSkip, Continue, Idle, TypeOK
  <2>3. ASSUME NEW t \in TaskIds, NEW ask \in Cadence, BeginCreate(p, t, ask) PROVE Goes
    BY <2>3 DEF BeginCreate, Continue, Idle, TypeOK
  <2>4. ASSUME NEW r \in RuleIds, NEW ask \in RuleEdit, BeginUpdateRule(p, r, ask) PROVE Goes
    BY <2>4 DEF BeginUpdateRule, Continue, Idle, TypeOK
  <2>5. ASSUME NEW r \in RuleIds, NEW ask \in Cadence, BeginSplit(p, r, ask) PROVE Goes
    BY <2>5 DEF BeginSplit, Continue, Idle, TypeOK
  <2>6. Goes
    BY <1>3, <2>1, <2>2, <2>3, <2>4, <2>5 DEF BeginRequest
  <2>. QED BY <2>6 DEF ReadEnabled
<1>4. ASSUME NEW p \in Procs, NEW from, NEW to, FindRule(p, from, to) PROVE ReadEnabled'
  <2>. DEFINE r == RuleOf(req[p].task, req[p].mark, TRUE)
  <2>1. CASE Finish(p)
    BY <2>1, FinishReadEnabled
  <2>2. CASE r # None /\ Continue(p, [req[p] EXCEPT !.pc = to, !.rule = r, !.snap = rules[r]])
    <3>1. rules[r].enabled
      BY <2>2, RuleOfReturns
    <3>2. [req[p] EXCEPT !.pc = to, !.rule = r, !.snap = rules[r]].snap = rules[r]
      BY <1>1 DEF Request
    <3>. QED BY <2>2, <3>1, <3>2, ReadEnabledStays DEF Continue
  <2>. QED BY <1>4, <2>1, <2>2 DEF FindRule
<1>5. ASSUME NEW p \in Procs, InsertSkipException(p) \/ RejectSkipped(p) PROVE ReadEnabled'
  <2>1. CASE Finish(p)
    BY <2>1, FinishReadEnabled
  <2>2. CASE ~Finish(p)
    <3>1. req'[p].snap = req[p].snap /\ \A x \in Procs : x # p => req'[x] = req[x]
      <4>1. CASE InsertSkipException(p)
        <5>1. Continue(p, [req[p] EXCEPT !.pc = "reject"])
          BY <2>2, <4>1 DEF InsertSkipException
        <5>. QED BY <1>1, <5>1 DEF Continue, Request
      <4>2. CASE RejectSkipped(p)
        <5>1. PICK noon \in {now - 1, now} :
                Continue(p, [req[p] EXCEPT !.pc = "insert",
                                           !.due = tasks[req[p].task].due,
                                           !.day = now, !.noon = noon])
          BY <2>2, <4>2 DEF RejectSkipped
        <5>. QED BY <1>1, <5>1 DEF Continue, Request
      <4>. QED BY <1>5, <4>1, <4>2
    <3>2. req[p].snap.enabled
      BY <1>5 DEF InsertSkipException, RejectSkipped, ReadEnabled
    <3>. QED BY <3>1, <3>2 DEF ReadEnabled
  <2>. QED BY <2>1, <2>2
<1>6. ASSUME NEW p \in Procs,
             MarkDone(p) \/ InsertNext(p) \/ FindExisting(p) \/ RewriteRule(p) \/ InsertRule(p)
      PROVE  ReadEnabled'
  <2>1. CASE Finish(p)
    BY <2>1, FinishReadEnabled
  <2>2. CASE ~Finish(p)
    <3>1. /\ req'[p].pc \in {"findRule", "bump", "writeRule", "writeMarker"}
          /\ \A x \in Procs : x # p => req'[x] = req[x]
      <4>1. CASE MarkDone(p)
        <5>1. PICK mark, due :
                Continue(p, [req[p] EXCEPT !.pc = "findRule", !.mark = mark, !.due = due])
          BY <2>2, <4>1 DEF MarkDone
        <5>. QED BY <1>1, <5>1 DEF Continue, Request, TypeOK
      <4>2. CASE InsertNext(p)
        BY <1>1, <2>2, <4>2 DEF InsertNext, Continue, Request, TypeOK
      <4>3. CASE FindExisting(p)
        BY <1>1, <2>2, <4>3 DEF FindExisting, Continue, Request, TypeOK
      <4>4. CASE RewriteRule(p) \/ InsertRule(p)
        <5>1. PICK rule :
                Continue(p, [req[p] EXCEPT !.pc = "writeMarker", !.rule = rule])
          <6>1. CASE RewriteRule(p)
            <7>1. Continue(p, [req[p] EXCEPT !.pc = "writeMarker"])
              BY <6>1 DEF RewriteRule
            <7>2. Continue(p, [req[p] EXCEPT !.pc = "writeMarker", !.rule = req[p].rule])
              BY <1>1, <7>1 DEF Continue, Request
            <7>. QED BY <7>2
          <6>2. CASE InsertRule(p)
            BY <6>2 DEF InsertRule
          <6>. QED BY <4>4, <6>1, <6>2
        <5>. QED BY <1>1, <5>1 DEF Continue, Request, TypeOK
      <4>. QED BY <1>6, <4>1, <4>2, <4>3, <4>4
    <3>. QED BY <3>1 DEF ReadEnabled
  <2>. QED BY <2>1, <2>2
<1>7. ASSUME NEW p \in Procs, Proceed(p) PROVE ReadEnabled'
  <2>1. CASE Finish(p)
    BY <2>1, FinishReadEnabled
  <2>. QED BY <1>4, <1>5, <1>6, <1>7, <2>1
           DEF Proceed, BumpRule, EndSeries, RefuseRule, WriteMarker, WriteUpdate, Fork, RefuseFork
<1>8. ASSUME NEW p \in Procs, Crash(p) PROVE ReadEnabled'
  BY <1>8, FinishReadEnabled DEF Crash
<1>9. ASSUME NEW r \in RuleIds, StopRecurrence(r) \/ MaterializeRule(r) PROVE ReadEnabled'
  BY <1>2, <1>9 DEF StopRecurrence, MaterializeRule
<1>10. ASSUME NEW t \in TaskIds, EditTask(t) PROVE ReadEnabled'
  BY <1>2, <1>10 DEF EditTask, SetStatus, Reschedule, Trash, Restore, Purge
<1>. QED BY <1>2, <1>3, <1>7, <1>8, <1>9, <1>10 DEF Next, Tick, vars

\* Only an insert adds occurrences, and only a request adds one of a rule that
\* is disabled.
LEMMA LateOccurrence ==
  ASSUME TypeOK, ReadEnabled, [Next]_vars, NEW r \in RuleIds, IsRule(r), ~rules[r].enabled,
         Generated(r)' \ Generated(r) # {}
  PROVE  \E p \in Procs : /\ Advances(req[p], r) /\ req'[p].pc = "bump"
                          /\ Generated(r)' \ Generated(r) = {<<r, req'[p].next>>}
<1>1. PICK k \in OccurrenceKeys : k[1] = r /\ Exists(k)' /\ ~Exists(k) /\ k \in TaskIds
  BY DEF Generated, TaskIds
<1>2. ~NoRowAdded
  BY <1>1 DEF NoRowAdded
<1>3. ASSUME NEW p \in Procs, InsertNext(p)
      PROVE  \E x \in Procs : /\ Advances(req[x], r) /\ req'[x].pc = "bump"
                              /\ Generated(r)' \ Generated(r) = {<<r, req'[x].next>>}
  <2>. DEFINE n == ComputeNext(req[p].snap, req[p].due, req[p].day, req[p].noon)
  <2>1. /\ req[p].pc = "insert" /\ InsertOccurrences(req[p].rule, {n})
        /\ req' = [req EXCEPT ![p] = [req[p] EXCEPT !.pc = "bump", !.next = n,
                                        !.nextInc = tasks[<<req[p].rule, n>>].inc]]
    BY <1>3 DEF InsertNext, Continue
  <2>. HIDE DEF n
  <2>2. req[p] \in Request /\ req[p].rule \in RuleIds /\ req[p].snap.enabled
    BY <2>1 DEF TypeOK, Remembers, ReadEnabled
  <2>3. req'[p].pc = "bump" /\ req'[p].next = n
    BY <2>1, <2>2 DEF TypeOK, Request
  <2>4. ASSUME NEW j \in Generated(r)' \ Generated(r)
        PROVE  j \in {req[p].rule} \X {n} /\ j[1] = r
    <3>1. j \in TaskIds /\ Exists(j)' /\ ~Exists(j) /\ j[1] = r
      BY DEF Generated, TaskIds
    <3>. QED BY <2>1, <2>2, <3>1, InsertAdds
  <2>5. req[p].rule = r
    BY <2>4
  <2>6. Generated(r)' \ Generated(r) = {<<r, n>>}
    BY <2>4, <2>5
  <2>. QED BY <2>1, <2>2, <2>3, <2>5, <2>6 DEF Advances
<1>4. ASSUME NEW x \in RuleIds, MaterializeRule(x) PROVE FALSE
  <2>1. x # r
    BY <1>4 DEF MaterializeRule
  <2>2. InsertOccurrences(x, Owed(rules[x]))
    BY <1>4 DEF MaterializeRule
  <2>. QED BY <1>1, <2>1, <2>2, InsertAdds
<1>5. ASSUME NEW p \in Procs, BeginRequest(p) \/ Crash(p) PROVE FALSE
  BY <1>2, <1>5, RowsUntouched DEF BeginRequest, BeginComplete, BeginSkip, BeginCreate,
     BeginUpdateRule, BeginSplit, Crash
<1>6. ASSUME NEW p \in Procs, Proceed(p) PROVE InsertNext(p)
  BY <1>2, <1>6, ProceedAddsNoRow
<1>7. ASSUME NEW x \in RuleIds, StopRecurrence(x) PROVE FALSE
  BY <1>2, <1>7, RowsUntouched DEF StopRecurrence
<1>8. ASSUME NEW t \in TaskIds, EditTask(t) PROVE FALSE
  BY <1>2, <1>8, EditAddsNoRow
<1>9. CASE Tick \/ UNCHANGED vars
  BY <1>2, <1>9, RowsUntouched DEF Tick, vars
<1>. QED BY <1>3, <1>4, <1>5, <1>6, <1>7, <1>8, <1>9 DEF Next

\* Only an attachment and an edit enable a rule that is disabled.
LEMMA EnabledAgain ==
  ASSUME TypeOK, SeriesInv, [Next]_vars, NEW r \in RuleIds, IsRule(r), ~rules[r].enabled,
         IsRule(r)', rules'[r].enabled
  PROVE  \E p \in Procs : Enables(req[p], r) /\ req'[p] # req[p]
<1>1. rules[r] \in Rule /\ r <= ruleSeq /\ ruleSeq \in Nat /\ r \in Nat
  BY BoundsAssumption DEF TypeOK, IsRule, SeriesInv, RulesKnown, RuleIds
<1>2. rules'[r] # rules[r]
  OBVIOUS
<1>3. ASSUME NEW p \in Procs, RewriteRule(p)
      PROVE  Enables(req[p], r) /\ req'[p] # req[p]
  <2>1. req[p].pc = "writeRule" /\ req[p] \in Request
    BY <1>3 DEF RewriteRule, TypeOK
  <2>2. req[p].rule = r
    BY <1>2, <1>3 DEF RewriteRule, TypeOK
  <2>3. req'[p].pc = "writeMarker"
    BY <1>3, <2>1 DEF RewriteRule, Continue, TypeOK, Request
  <2>. QED BY <2>1, <2>2, <2>3 DEF Enables
<1>4. ASSUME NEW p \in Procs, WriteUpdate(p)
      PROVE  Enables(req[p], r) /\ req'[p] # req[p]
  <2>1. req[p].pc = "writeUpdate" /\ req'[p] = Idle
    BY <1>4 DEF WriteUpdate, Finish, TypeOK
  <2>2. req[p].rule = r
    BY <1>2, <1>4 DEF WriteUpdate, TypeOK
  <2>3. rules'[r].enabled = OrElse(req[p].ask.enabled, req[p].snap.enabled)
    BY <1>1, <1>2, <1>4, <2>2 DEF WriteUpdate, TypeOK, Rule
  <2>4. OrElse(req[p].ask.enabled, req[p].snap.enabled)
    BY <2>3
  <2>. QED BY <2>1, <2>2, <2>4 DEF Enables, Idle
<1>5. ASSUME NEW p \in Procs, InsertRule(p) \/ Fork(p) PROVE FALSE
  <2>1. r # ruleSeq + 1
    BY <1>1
  <2>2. CASE InsertRule(p)
    BY <1>2, <2>1, <2>2 DEF InsertRule, TypeOK
  <2>3. CASE Fork(p)
    <3>1. req[p].rule \in RuleIds
      BY <2>3 DEF Fork, TypeOK, Remembers
    <3>2. rules'[r].enabled = FALSE \/ rules'[r] = rules[r]
      BY <1>1, <2>1, <2>3, <3>1 DEF Fork, TypeOK, Rule
    <3>. QED BY <1>2, <3>2
  <2>. QED BY <1>5, <2>2, <2>3
<1>6. ASSUME NEW p \in Procs, BumpRule(p) \/ EndSeries(p) PROVE FALSE
  <2>1. rules'[r].enabled = rules[r].enabled \/ rules'[r].enabled = FALSE
    BY <1>1, <1>6 DEF BumpRule, EndSeries, TypeOK, Rule
  <2>. QED BY <2>1
<1>7. ASSUME NEW p \in Procs, Proceed(p) PROVE RewriteRule(p) \/ WriteUpdate(p)
  BY <1>2, <1>5, <1>6, <1>7
     DEF Proceed, MarkDone, FindRule, InsertNext, InsertSkipException, RejectSkipped,
         FindExisting, RefuseRule, WriteMarker, RefuseFork
<1>8. ASSUME NEW p \in Procs, BeginRequest(p) \/ Crash(p) PROVE FALSE
  BY <1>2, <1>8 DEF BeginRequest, BeginComplete, BeginSkip, BeginCreate, BeginUpdateRule,
                    BeginSplit, Crash
<1>9. ASSUME NEW x \in RuleIds, StopRecurrence(x) \/ MaterializeRule(x) PROVE FALSE
  <2>1. rules'[r].enabled = rules[r].enabled \/ rules'[r].enabled = FALSE
    <3>1. CASE StopRecurrence(x)
      BY <1>1, <3>1 DEF StopRecurrence, TypeOK, Rule
    <3>2. CASE MaterializeRule(x)
      <4>1. x # r
        BY <3>2 DEF MaterializeRule
      <4>2. rules'[r] = rules[r]
        BY <3>2, <4>1 DEF MaterializeRule, TypeOK
      <4>. QED BY <4>2
    <3>. QED BY <1>9, <3>1, <3>2
  <2>. QED BY <2>1
<1>10. ASSUME NEW t \in TaskIds, EditTask(t) PROVE FALSE
  <2>1. CASE Purge(t)
    <3>1. rules'[r] \in {None, rules[r], [rules[r] EXCEPT !.current = None]}
      BY <2>1 DEF Purge
    <3>2. [rules[r] EXCEPT !.current = None].enabled = rules[r].enabled
      BY <1>1 DEF Rule
    <3>. QED BY <3>1, <3>2 DEF IsRule
  <2>. QED BY <1>2, <1>10, <2>1 DEF EditTask, SetStatus, Reschedule, Trash, Restore
<1>. QED BY <1>2, <1>3, <1>4, <1>7, <1>8, <1>9, <1>10 DEF Next, Tick, vars

\* A stop holds, however many requests and passes of the materializer are under
\* way: what enables a disabled rule is a request to that end or an edit that has
\* read it before, and what still gives it an occurrence, one each, is a request
\* that has read it as enabled (recurrence.ts:229, 399, 635, 667-676).
THEOREM StopsHold == Spec => StopHolds
<1>1. TypeOK /\ SeriesInv /\ ReadEnabled /\ [Next]_vars =>
        [\A r \in RuleIds : IsRule(r) /\ ~rules[r].enabled =>
           LET new == Generated(r)' \ Generated(r)
           IN  /\ IsRule(r)' /\ rules'[r].enabled =>
                    \E p \in Procs : Enables(req[p], r) /\ req'[p] # req[p]
               /\ new # {} => \E p \in Procs : /\ Advances(req[p], r) /\ req'[p].pc = "bump"
                                               /\ new = {<<r, req'[p].next>>}]_vars
  BY LateOccurrence, EnabledAgain
<1>2. Init => TypeOK /\ SeriesInv /\ ReadEnabled
  <2>1. Init => ReadEnabled
    BY DEF Init, ReadEnabled, Idle
  <2>. QED BY <2>1, TypeInit, SeriesInit
<1>3. TypeOK /\ SeriesInv /\ ReadEnabled /\ [Next]_vars => (TypeOK /\ SeriesInv /\ ReadEnabled)'
  BY TypeNext, SeriesNext, ReadEnabledNext
<1>. QED BY <1>1, <1>2, <1>3, PTL DEF Spec, StopHolds

-----------------------------------------------------------------------------
(* One request after another: a rule's COUNT bounds the tasks of its chain. *)

\* Each request runs to its end before another begins, none is cut short, and
\* no rule is attached over one that a task has.
Solo == Overlap = FALSE /\ "crash" \notin Ops /\ "recreate" \notin Ops

\* A rule that is forked into a completion rule has counted an occurrence of its
\* own: it is not the fresh half of another split.
SplitsCounted ==
  \A p \in Procs : req[p].pc = "fork" /\ req[p].ask.anchor = "completion"
    => req[p].snap.gen > 0

Alone == \A p, x \in Procs : req[p] # Idle /\ req[x] # Idle => p = x

\* What a request that runs alone has read still stands.
Stands(q) ==
  /\ q.pc \in {"except", "reject", "insert", "bump", "writeUpdate"} => rules[q.rule] = q.snap
  /\ q.pc \in {"skipFind", "except", "reject"} => tasks[q.task].mark = q.mark
  /\ q.pc = "findExisting" => RuleOf(q.task, q.mark, FALSE) = None
  /\ q.pc = "writeRule" => q.rule = None
  /\ q.pc = "writeMarker" =>
       IsRule(q.rule) /\ rules[q.rule].gen = 1 /\ Members(q.rule) = {}
  /\ q.pc = "bump" => RowIs(<<q.rule, q.next>>, q.nextInc)
  /\ q.pc = "fork" => ruleSeq < MaxRules /\ (q.snap.gen = 0 => q.rule > 1)

\* A request has inserted the next occurrence of r and not yet counted it.
Bumping(r) == \E p \in Procs : req[p].pc = "bump" /\ req[p].rule = r

\* The counter of a rule with COUNT is not behind the tasks it is to bound.
Counted(r) ==
  IsRule(r) /\ rules[r].count # None =>
    /\ IsFiniteSet(Members(r))
    /\ Cardinality(Members(r)) <= rules[r].count
    /\ Cardinality(Members(r)) <= rules[r].gen + IF Bumping(r) THEN 1 ELSE 0

\* Only a fork begins at zero, and no fork is the first rule.
FirstIsCounted == \A r \in RuleIds : IsRule(r) /\ rules[r].gen = 0 => r > 1

CountInv ==
  /\ Alone
  /\ \A p \in Procs : Stands(req[p])
  /\ \A r \in RuleIds : Counted(r)
  /\ FirstIsCounted

LEMMA CountTypes ==
  ASSUME TypeOK
  PROVE  /\ \A p \in Procs : req[p] \in Request /\ Remembers(req[p])
         /\ \A r \in RuleIds : IsRule(r) =>
              /\ rules[r] \in Rule /\ rules[r].gen \in 0 .. MaxGen
              /\ rules[r].count \in (1 .. MaxGen) \cup {None}
         /\ \A t \in TaskIds : tasks[t] \in Task
         /\ MaxGen \in Nat \ {0} /\ None \notin Nat
<1>1. \A r \in RuleIds : IsRule(r) => rules[r] \in Rule
  BY DEF TypeOK, IsRule
<1>. QED BY <1>1, BoundsAssumption, NoneAssumption DEF TypeOK, Rule

LEMMA NextCountTypes ==
  ASSUME TypeOK'
  PROVE  \A r \in RuleIds : IsRule(r)' =>
           /\ rules'[r] \in Rule /\ rules'[r].gen \in 0 .. MaxGen
           /\ rules'[r].count \in (1 .. MaxGen) \cup {None}
<1>1. \A r \in RuleIds : IsRule(r)' => rules'[r] \in Rule
  BY DEF TypeOK, IsRule
<1>. QED BY <1>1 DEF Rule

\* A set with at most one member.
LEMMA AtMostOne ==
  ASSUME NEW S, NEW x, S \subseteq {x}
  PROVE  IsFiniteSet(S) /\ Cardinality(S) \in Nat /\ Cardinality(S) <= 1
<1>1. IsFiniteSet({x}) /\ Cardinality({x}) = 1
  BY FS_Singleton
<1>2. IsFiniteSet(S) /\ Cardinality(S) <= Cardinality({x})
  BY <1>1, FS_Subset
<1>. QED BY <1>1, <1>2, FS_CardinalityType

LEMMA OneMore ==
  ASSUME NEW S, IsFiniteSet(S), NEW x
  PROVE  /\ IsFiniteSet(S \cup {x})
         /\ Cardinality(S) \in Nat /\ Cardinality(S \cup {x}) \in Nat
         /\ Cardinality(S \cup {x}) <= Cardinality(S) + 1
<1>1. IsFiniteSet(S \cup {x})
  BY FS_AddElement
<1>2. Cardinality(S) \in Nat /\ Cardinality(S \cup {x}) \in Nat
  BY <1>1, FS_CardinalityType
<1>3. Cardinality(S \cup {x}) = IF x \in S THEN Cardinality(S) ELSE Cardinality(S) + 1
  BY FS_AddElement
<1>. QED BY <1>1, <1>2, <1>3

LEMMA IdleStands == Stands(Idle)
BY DEF Idle, Stands

LEMMA StandsStill ==
  ASSUME NEW x, Stands(req[x]), UNCHANGED <<tasks, rules, ruleSeq, req>>
  PROVE  Stands(req[x])'
<1>1. PICK q : q = req[x]
  OBVIOUS
<1>2. RuleOf(q.task, q.mark, FALSE)' = RuleOf(q.task, q.mark, FALSE)
  BY DEF RuleOf
<1>3. Members(q.rule)' = Members(q.rule) /\ IsRule(q.rule)' = IsRule(q.rule)
  BY DEF Members, Exists, IsRule
<1>4. RowIs(<<q.rule, q.next>>, q.nextInc)' = RowIs(<<q.rule, q.next>>, q.nextInc)
  BY DEF RowIs
<1>5. Stands(q) => Stands(q)'
  BY <1>2, <1>3, <1>4 DEF Stands
<1>. QED BY <1>1, <1>5

\* When a request runs alone, its step is the only news of the requests.
LEMMA OneInFlight ==
  ASSUME TypeOK, NEW p \in Procs, \A x \in Procs : x # p => req[x] = Idle,
         NEW q, Continue(p, q), Stands(q)'
  PROVE  Alone' /\ \A x \in Procs : Stands(req[x])'
<1>1. \A x \in Procs : req'[x] = IF x = p THEN q ELSE Idle
  BY DEF TypeOK, Continue
<1>2. Stands(Idle)'
  BY DEF Idle, Stands
<1>3. Alone'
  BY <1>1 DEF Alone
<1>4. ASSUME NEW x \in Procs PROVE Stands(req[x])'
  BY <1>1, <1>2
<1>. QED BY <1>3, <1>4

LEMMA OneEnds ==
  ASSUME TypeOK, NEW p \in Procs, \A x \in Procs : x # p => req[x] = Idle, Finish(p)
  PROVE  /\ Alone' /\ \A x \in Procs : Stands(req[x])'
         /\ \A r \in RuleIds : ~Bumping(r)'
<1>1. \A x \in Procs : req'[x] = Idle
  BY DEF TypeOK, Finish
<1>2. Stands(Idle)'
  BY DEF Idle, Stands
<1>3. \A x \in Procs : Stands(req[x])'
  BY <1>1, <1>2
<1>4. \A r \in RuleIds : ~Bumping(r)'
  BY <1>1 DEF Bumping, Idle
<1>. QED BY <1>1, <1>3, <1>4 DEF Alone

\* What is done between requests.
LEMMA NoneInFlight ==
  ASSUME TypeOK, Solo, Calm, UNCHANGED req
  PROVE  /\ Alone' /\ \A x \in Procs : Stands(req[x])'
         /\ \A r \in RuleIds : ~Bumping(r) /\ ~Bumping(r)'
<1>1. \A x \in Procs : req[x] = Idle /\ req'[x] = Idle
  BY DEF Solo, Calm
<1>2. Stands(Idle)'
  BY DEF Idle, Stands
<1>3. \A x \in Procs : Stands(req[x])'
  BY <1>1, <1>2
<1>4. \A r \in RuleIds : ~Bumping(r) /\ ~Bumping(r)'
  BY <1>1 DEF Bumping, Idle
<1>. QED BY <1>1, <1>3, <1>4 DEF Alone

LEMMA OthersIdle ==
  ASSUME TypeOK, Alone, NEW p \in Procs, req[p].pc # "idle"
  PROVE  /\ \A x \in Procs : x # p => req[x] = Idle
         /\ req[p].pc # "bump" => \A r \in RuleIds : ~Bumping(r)
BY DEF Alone, Idle, Bumping

\* A rule that keeps its COUNT and its tasks, or loses some, stays counted.
LEMMA CountedStays ==
  ASSUME TypeOK, TypeOK', NEW r \in RuleIds, Counted(r),
         IsRule(r)' /\ rules'[r].count # None =>
           /\ IsRule(r) /\ rules[r].count = rules'[r].count
           /\ rules[r].gen <= rules'[r].gen
           /\ Members(r)' \subseteq Members(r),
         Bumping(r) => Bumping(r)'
  PROVE  Counted(r)'
<1>. SUFFICES ASSUME IsRule(r)', rules'[r].count # None
              PROVE  /\ IsFiniteSet(Members(r)')
                     /\ Cardinality(Members(r)') <= rules'[r].count
                     /\ Cardinality(Members(r)') <= rules'[r].gen + IF Bumping(r)' THEN 1 ELSE 0
  BY DEF Counted
<1>1. /\ IsFiniteSet(Members(r))
      /\ Cardinality(Members(r)) <= rules[r].count
      /\ Cardinality(Members(r)) <= rules[r].gen + IF Bumping(r) THEN 1 ELSE 0
  BY DEF Counted
<1>2. /\ IsFiniteSet(Members(r)')
      /\ Cardinality(Members(r)') <= Cardinality(Members(r))
      /\ Cardinality(Members(r)') \in Nat /\ Cardinality(Members(r)) \in Nat
  BY <1>1, FS_Subset, FS_CardinalityType
<1>3. rules[r].gen \in Nat /\ rules'[r].gen \in Nat
  <2>1. rules[r].gen \in 0 .. MaxGen
    BY CountTypes
  <2>2. rules'[r].gen \in 0 .. MaxGen
    BY NextCountTypes
  <2>. QED BY <2>1, <2>2, CountTypes
<1>4. rules[r].count \in Nat /\ rules'[r].count = rules[r].count
  BY CountTypes
<1>. QED BY <1>1, <1>2, <1>3, <1>4

\* No rule gains a task.
MembersStay == \A r \in RuleIds : Members(r)' \subseteq Members(r)

LEMMA TasksStay ==
  ASSUME UNCHANGED tasks
  PROVE  MembersStay
BY DEF MembersStay, Members, Exists

LEMMA RowStays ==
  ASSUME TypeOK, NEW t \in TaskIds, NEW row,
         tasks' = [tasks EXCEPT ![t] = row],
         row.row # "none" => Exists(t) /\ row.mark = tasks[t].mark
  PROVE  MembersStay
<1>1. \A u \in TaskIds : tasks'[u] = IF u = t THEN row ELSE tasks[u]
  BY DEF TypeOK
<1>. QED BY <1>1 DEF MembersStay, Members, Exists

\* Rules that are edited in other columns.
CountersStay ==
  \A r \in RuleIds : IsRule(r)' =>
    /\ IsRule(r) /\ rules[r].gen <= rules'[r].gen
    /\ rules'[r].count # None => rules'[r].count = rules[r].count

LEMMA RulesStay ==
  ASSUME TypeOK, UNCHANGED rules
  PROVE  CountersStay
<1>1. \A r \in RuleIds : IsRule(r) => rules[r].gen \in Nat
  BY CountTypes
<1>. QED BY <1>1 DEF CountersStay, IsRule

LEMMA CountStays ==
  ASSUME TypeOK, TypeOK', CountInv, MembersStay, CountersStay,
         Alone', \A x \in Procs : Stands(req[x])',
         \A r \in RuleIds : Bumping(r) => Bumping(r)'
  PROVE  CountInv'
<1>1. \A r \in RuleIds : Counted(r)'
  BY CountedStays DEF CountInv, MembersStay, CountersStay
<1>2. FirstIsCounted'
  <2>1. \A r \in RuleIds : IsRule(r) => rules[r].gen \in Nat
    BY CountTypes
  <2>2. \A r \in RuleIds : IsRule(r)' => rules'[r].gen \in Nat
    <3>1. \A r \in RuleIds : IsRule(r)' => rules'[r].gen \in 0 .. MaxGen
      BY NextCountTypes
    <3>. QED BY <3>1, CountTypes
  <2>. QED BY <2>1, <2>2 DEF CountInv, FirstIsCounted, CountersStay
<1>. QED BY <1>1, <1>2 DEF CountInv

\* A statement that writes to no row of `entities' or `recurrence_rules'.
LEMMA CountContinues ==
  ASSUME TypeOK, TypeOK', CountInv, NEW p \in Procs,
         \A x \in Procs : x # p => req[x] = Idle, req[p].pc # "bump",
         NEW q, Continue(p, q), Stands(q)', MembersStay, CountersStay
  PROVE  CountInv'
<1>1. Alone' /\ \A x \in Procs : Stands(req[x])'
  BY OneInFlight
<1>2. \A r \in RuleIds : ~Bumping(r)
  BY DEF Bumping, Idle
<1>. QED BY <1>1, <1>2, CountStays

LEMMA CountEnds ==
  ASSUME TypeOK, TypeOK', CountInv, NEW p \in Procs,
         \A x \in Procs : x # p => req[x] = Idle, req[p].pc # "bump",
         Finish(p), MembersStay, CountersStay
  PROVE  CountInv'
<1>1. Alone' /\ \A x \in Procs : Stands(req[x])'
  BY OneEnds
<1>2. \A r \in RuleIds : ~Bumping(r)
  BY DEF Bumping, Idle
<1>. QED BY <1>1, <1>2, CountStays

LEMMA CountUndisturbed ==
  ASSUME TypeOK, TypeOK', Solo, CountInv, Calm, UNCHANGED req, MembersStay, CountersStay
  PROVE  CountInv'
BY NoneInFlight, CountStays

\* The requests begin, each with what it reads first.
LEMMA BeginRequestCount ==
  ASSUME TypeOK, TypeOK', Solo, SeriesInv, CountInv, NEW p \in Procs, BeginRequest(p)
  PROVE  CountInv'
<1>1. UNCHANGED <<tasks, rules, ruleSeq>> /\ req[p] = Idle /\ Calm
  BY DEF BeginRequest, BeginComplete, BeginSkip, BeginCreate, BeginUpdateRule, BeginSplit, Begin
<1>2. (\A x \in Procs : x # p => req[x] = Idle) /\ req[p].pc # "bump"
  BY <1>1 DEF Solo, Calm, Idle
<1>3. MembersStay /\ CountersStay
  BY <1>1, TasksStay, RulesStay
<1>4. ASSUME NEW q, Continue(p, q), Stands(q)' PROVE CountInv'
  BY <1>2, <1>3, <1>4, CountContinues
<1>5. ASSUME NEW t \in TaskIds, BeginComplete(p, t) PROVE CountInv'
  <2>1. PICK noon \in {now - 1, now} :
          Continue(p, [Idle EXCEPT !.pc = "markDone", !.task = t,
                                   !.inc = tasks[t].inc, !.day = now, !.noon = noon])
    BY <1>5 DEF BeginComplete
  <2>2. PICK q : q = [Idle EXCEPT !.pc = "markDone", !.task = t,
                                  !.inc = tasks[t].inc, !.day = now, !.noon = noon]
    OBVIOUS
  <2>3. Stands(q)'
    BY <2>2 DEF Stands, Idle
  <2>. QED BY <1>4, <2>1, <2>2, <2>3
<1>6. ASSUME NEW t \in TaskIds, BeginSkip(p, t) PROVE CountInv'
  <2>1. PICK q : q = [Idle EXCEPT !.pc = "skipFind", !.task = t, !.inc = tasks[t].inc,
                                  !.mark = tasks[t].mark]
    OBVIOUS
  <2>2. q.pc = "skipFind" /\ q.task = t /\ q.mark = tasks[t].mark
    BY <2>1 DEF Idle
  <2>3. Stands(q)'
    BY <1>1, <2>2 DEF Stands
  <2>. QED BY <1>4, <1>6, <2>1, <2>3 DEF BeginSkip
<1>7. ASSUME NEW t \in TaskIds, NEW ask \in Cadence, BeginCreate(p, t, ask) PROVE CountInv'
  <2>. DEFINE start == OrElse(ask.start, tasks[t].due)
  <2>1. RuleOf(t, tasks[t].mark, FALSE) = None
    BY <1>7 DEF BeginCreate, Begin, Solo
  <2>2. PICK m : m = tasks[t].mark
    OBVIOUS
  <2>3. RuleOf(t, m, FALSE)' = None
    BY <1>1, <2>1, <2>2 DEF RuleOf
  <2>4. PICK q : q = [Idle EXCEPT !.pc = "findExisting", !.task = t, !.inc = tasks[t].inc,
                                  !.mark = tasks[t].mark, !.due = tasks[t].due,
                                  !.ask = [ask EXCEPT !.start = start]]
    OBVIOUS
  <2>5. q.pc = "findExisting" /\ q.task = t /\ q.mark = m
    BY <2>2, <2>4 DEF Idle
  <2>6. Continue(p, q)
    BY <1>7, <2>4 DEF BeginCreate
  <2>7. RuleOf(q.task, q.mark, FALSE)' = None
    BY <2>3, <2>5
  <2>8. Stands(q)'
    BY <2>5, <2>7 DEF Stands
  <2>. QED BY <1>4, <2>6, <2>8
<1>8. ASSUME NEW r \in RuleIds, NEW ask \in RuleEdit, BeginUpdateRule(p, r, ask)
      PROVE  CountInv'
  <2>1. PICK start : Continue(p, [Idle EXCEPT !.pc = "writeUpdate", !.rule = r,
                                              !.snap = rules[r],
                                              !.ask = [ask EXCEPT !.start = start]])
    BY <1>8 DEF BeginUpdateRule
  <2>2. PICK q : q = [Idle EXCEPT !.pc = "writeUpdate", !.rule = r, !.snap = rules[r],
                                  !.ask = [ask EXCEPT !.start = start]]
    OBVIOUS
  <2>3. q.pc = "writeUpdate" /\ q.rule = r /\ q.snap = rules[r]
    BY <2>2 DEF Idle
  <2>4. Stands(q)'
    BY <1>1, <2>3 DEF Stands
  <2>. QED BY <1>4, <2>1, <2>2, <2>4
<1>9. ASSUME NEW r \in RuleIds, NEW ask \in Cadence, BeginSplit(p, r, ask) PROVE CountInv'
  <2>0. PICK t, start :
          Continue(p, [Idle EXCEPT !.pc = "fork", !.task = t, !.inc = tasks[t].inc,
                                   !.rule = r, !.snap = rules[r],
                                   !.ask = [ask EXCEPT !.start = start]])
    BY <1>9 DEF BeginSplit
  <2>6. PICK q : q = [Idle EXCEPT !.pc = "fork", !.task = t, !.inc = tasks[t].inc,
                                  !.rule = r, !.snap = rules[r],
                                  !.ask = [ask EXCEPT !.start = start]]
    OBVIOUS
  <2>1. q.pc = "fork" /\ q.rule = r /\ q.snap = rules[r]
    BY <2>6 DEF Idle
  <2>2. ruleSeq < MaxRules /\ IsRule(r)
    BY <1>9 DEF BeginSplit, IsRule
  <2>3. rules[r].gen = 0 => r > 1
    BY <2>2 DEF CountInv, FirstIsCounted
  <2>4. Stands(q)'
    BY <1>1, <2>1, <2>2, <2>3 DEF Stands
  <2>. QED BY <1>4, <2>0, <2>4, <2>6
<1>. QED BY <1>5, <1>6, <1>7, <1>8, <1>9 DEF BeginRequest

LEMMA MarkDoneCount ==
  ASSUME TypeOK, TypeOK', CountInv, NEW p \in Procs, MarkDone(p)
  PROVE  CountInv'
<1>. DEFINE q == req[p]
            t == q.task
<1>1. q.pc = "markDone" /\ q \in Request /\ t \in TaskIds /\ tasks[t] \in Task
  BY CountTypes DEF MarkDone, Remembers
<1>2. (\A x \in Procs : x # p => req[x] = Idle) /\ q.pc # "bump"
  BY <1>1, OthersIdle DEF CountInv
<1>3. CountersStay
  BY RulesStay DEF MarkDone
<1>4. CASE Finish(p) /\ UNCHANGED tasks
  BY <1>2, <1>3, <1>4, TasksStay, CountEnds
<1>5. CASE RowIs(t, q.inc) /\ ~UNCHANGED tasks
  <2>1. tasks' = [tasks EXCEPT ![t] = [tasks[t] EXCEPT !.status = "done"]]
    BY <1>5 DEF MarkDone
  <2>2. [tasks[t] EXCEPT !.status = "done"].mark = tasks[t].mark /\ Exists(t)
    BY <1>1, <1>5 DEF Task, RowIs, Exists
  <2>3. MembersStay
    BY <1>1, <2>1, <2>2, RowStays
  <2>4. PICK z : Continue(p, z) /\ z = [q EXCEPT !.pc = "findRule", !.mark = tasks[t].mark,
                                                 !.due = tasks[t].due]
    BY <1>5 DEF MarkDone
  <2>5. z.pc = "findRule"
    BY <1>1, <2>4 DEF Request
  <2>6. Stands(z)'
    BY <2>5 DEF Stands
  <2>. QED BY <1>2, <1>3, <2>3, <2>4, <2>6, CountContinues
<1>6. CASE RowIs(t, q.inc) /\ UNCHANGED tasks
  <2>4. PICK z : Continue(p, z) /\ z = [q EXCEPT !.pc = "findRule", !.mark = tasks[t].mark,
                                                 !.due = tasks[t].due]
    BY <1>6 DEF MarkDone
  <2>5. z.pc = "findRule"
    BY <1>1, <2>4 DEF Request
  <2>6. Stands(z)'
    BY <2>5 DEF Stands
  <2>. QED BY <1>2, <1>3, <1>6, <2>4, <2>6, TasksStay, CountContinues
<1>. QED BY <1>4, <1>5, <1>6 DEF MarkDone

LEMMA FindRuleCount ==
  ASSUME TypeOK, TypeOK', CountInv, NEW p \in Procs,
         \/ FindRule(p, "findRule", "insert")
         \/ FindRule(p, "skipFind", "except")
  PROVE  CountInv'
<1>. DEFINE q == req[p]
<1>1. PICK from \in {"findRule", "skipFind"}, to \in {"insert", "except"} :
        FindRule(p, from, to) /\ (to = "except" => from = "skipFind")
  OBVIOUS
<1>2. q.pc = from /\ UNCHANGED <<tasks, rules, ruleSeq>> /\ q \in Request
  BY <1>1, CountTypes DEF FindRule
<1>3. (\A x \in Procs : x # p => req[x] = Idle) /\ q.pc # "bump"
  BY <1>2, OthersIdle DEF CountInv
<1>4. MembersStay /\ CountersStay
  BY <1>2, TasksStay, RulesStay
<1>5. CASE Finish(p)
  BY <1>3, <1>4, <1>5, CountEnds
<1>6. CASE ~Finish(p)
  <2>1. PICK r : Continue(p, [q EXCEPT !.pc = to, !.rule = r, !.snap = rules[r]])
    BY <1>1, <1>6 DEF FindRule
  <2>2. PICK z : z = [q EXCEPT !.pc = to, !.rule = r, !.snap = rules[r]]
    OBVIOUS
  <2>3. z.pc = to /\ z.rule = r /\ z.snap = rules[r] /\ z.task = q.task /\ z.mark = q.mark
    BY <1>2, <2>2 DEF Request
  <2>4. to = "except" => tasks[q.task].mark = q.mark
    BY <1>1, <1>2 DEF CountInv, Stands
  <2>5. Stands(z)'
    BY <1>2, <2>3, <2>4 DEF Stands
  <2>. QED BY <1>3, <1>4, <2>1, <2>2, <2>5, CountContinues
<1>. QED BY <1>5, <1>6

LEMMA InsertSkipExceptionCount ==
  ASSUME TypeOK, TypeOK', CountInv, NEW p \in Procs, InsertSkipException(p)
  PROVE  CountInv'
<1>. DEFINE q == req[p]
<1>1. q.pc = "except" /\ UNCHANGED <<tasks, rules, ruleSeq>> /\ q \in Request
  BY CountTypes DEF InsertSkipException
<1>2. (\A x \in Procs : x # p => req[x] = Idle) /\ q.pc # "bump"
  BY <1>1, OthersIdle DEF CountInv
<1>3. MembersStay /\ CountersStay
  BY <1>1, TasksStay, RulesStay
<1>4. PICK z : z = [q EXCEPT !.pc = "reject"]
  OBVIOUS
<1>5. z.pc = "reject" /\ z.rule = q.rule /\ z.snap = q.snap /\ z.task = q.task /\ z.mark = q.mark
  BY <1>1, <1>4 DEF Request
<1>6. rules[q.rule] = q.snap /\ tasks[q.task].mark = q.mark
  BY <1>1 DEF CountInv, Stands
<1>9. Stands(z)'
  BY <1>1, <1>5, <1>6 DEF Stands
<1>7. CASE Continue(p, z)
  BY <1>2, <1>3, <1>9, <1>7, CountContinues
<1>8. CASE Finish(p)
  BY <1>2, <1>3, <1>8, CountEnds
<1>. QED BY <1>4, <1>7, <1>8 DEF InsertSkipException

\* The marker that a skip writes back is the one that stands there.
LEMMA RejectSkippedCount ==
  ASSUME TypeOK, TypeOK', CountInv, NEW p \in Procs, RejectSkipped(p)
  PROVE  CountInv'
<1>. DEFINE q == req[p]
            t == q.task
<1>1. q.pc = "reject" /\ q \in Request /\ t \in TaskIds /\ tasks[t] \in Task
      /\ UNCHANGED <<rules, ruleSeq>>
  BY CountTypes DEF RejectSkipped, Remembers
<1>2. (\A x \in Procs : x # p => req[x] = Idle) /\ q.pc # "bump"
  BY <1>1, OthersIdle DEF CountInv
<1>3. CountersStay
  BY <1>1, RulesStay
<1>4. rules[q.rule] = q.snap /\ tasks[t].mark = q.mark
  BY <1>1 DEF CountInv, Stands
<1>5. CASE Finish(p) /\ UNCHANGED tasks
  BY <1>2, <1>3, <1>5, TasksStay, CountEnds
<1>6. CASE ~(Finish(p) /\ UNCHANGED tasks)
  <2>1. RowIs(t, q.inc)
    BY <1>6 DEF RejectSkipped
  <2>2. tasks' = [tasks EXCEPT ![t] = [[tasks[t] EXCEPT !.status = "rejected"]
                                         EXCEPT !.mark = q.mark]]
    BY <1>1, <1>6 DEF RejectSkipped, TypeOK, Task
  <2>3. [[tasks[t] EXCEPT !.status = "rejected"] EXCEPT !.mark = q.mark].mark = tasks[t].mark
    BY <1>1, <1>4 DEF Task
  <2>4. MembersStay
    BY <1>1, <2>1, <2>2, <2>3, RowStays DEF RowIs, Exists
  <2>5. PICK noon : Continue(p, [q EXCEPT !.pc = "insert", !.due = tasks[t].due,
                                          !.day = now, !.noon = noon])
    BY <1>6 DEF RejectSkipped
  <2>6. PICK z : z = [q EXCEPT !.pc = "insert", !.due = tasks[t].due,
                               !.day = now, !.noon = noon]
    OBVIOUS
  <2>7. z.pc = "insert" /\ z.rule = q.rule /\ z.snap = q.snap
    BY <1>1, <2>6 DEF Request
  <2>8. Stands(z)'
    BY <1>1, <1>4, <2>7 DEF Stands
  <2>. QED BY <1>2, <1>3, <2>4, <2>5, <2>6, <2>8, CountContinues
<1>. QED BY <1>5, <1>6

LEMMA FindExistingCount ==
  ASSUME TypeOK, TypeOK', CountInv, NEW p \in Procs, FindExisting(p)
  PROVE  CountInv'
<1>. DEFINE q == req[p]
<1>1. q.pc = "findExisting" /\ UNCHANGED <<tasks, rules, ruleSeq>> /\ q \in Request
  BY CountTypes DEF FindExisting
<1>2. (\A x \in Procs : x # p => req[x] = Idle) /\ q.pc # "bump"
  BY <1>1, OthersIdle DEF CountInv
<1>3. MembersStay /\ CountersStay
  BY <1>1, TasksStay, RulesStay
<1>4. RuleOf(q.task, q.mark, FALSE) = None
  BY <1>1 DEF CountInv, Stands
<1>5. PICK z : Continue(p, z) /\ z = [q EXCEPT !.pc = "writeRule", !.rule = None, !.snap = None]
  BY <1>4 DEF FindExisting
<1>6. z.pc = "writeRule" /\ z.rule = None
  BY <1>1, <1>5 DEF Request
<1>7. Stands(z)'
  BY <1>6 DEF Stands
<1>. QED BY <1>2, <1>3, <1>5, <1>7, CountContinues

\* An insert gives rows to rule r only.
LEMMA MembersInserted ==
  ASSUME TypeOK, NEW r \in RuleIds, NEW days, InsertOccurrences(r, days)
  PROVE  /\ Members(r)' \subseteq Members(r) \cup ({r} \X days)
         /\ \A x \in RuleIds : x # r => Members(x)' \subseteq Members(x)
<1>1. \A t \in TaskIds :
        tasks'[t] = IF t \in {r} \X days /\ tasks[t].row = "none"
                    THEN [row |-> "live", inc |-> tasks[t].inc, status |-> "open",
                          mark |-> r, due |-> t[2]]
                    ELSE tasks[t]
  BY DEF InsertOccurrences
<1>2. ASSUME NEW t \in TaskIds
      PROVE  /\ t \notin {r} \X days => tasks'[t] = tasks[t]
             /\ tasks'[t] = tasks[t] \/ tasks'[t].mark = r
  <2>1. t \notin {r} \X days => tasks'[t] = tasks[t]
    BY <1>1
  <2>2. CASE t \in {r} \X days /\ tasks[t].row = "none"
    <3>1. tasks'[t] = [row |-> "live", inc |-> tasks[t].inc, status |-> "open",
                       mark |-> r, due |-> t[2]]
      BY <1>1, <2>2
    <3>2. tasks'[t].mark = r
      BY <3>1
    <3>. QED BY <2>1, <3>2
  <2>3. CASE ~(t \in {r} \X days /\ tasks[t].row = "none")
    <3>1. tasks'[t] = tasks[t]
      BY <1>1, <2>3
    <3>. QED BY <3>1
  <2>. QED BY <2>2, <2>3
<1>. QED BY <1>2 DEF Members, Exists

\* The next occurrence: one more task, while COUNT leaves room for it.
LEMMA InsertNextCount ==
  ASSUME TypeOK, TypeOK', CountInv, NEW p \in Procs, InsertNext(p)
  PROVE  CountInv'
<1>. DEFINE q == req[p]
<1>1. q.pc = "insert" /\ q \in Request /\ q.rule \in RuleIds /\ q.snap \in Rule
      /\ UNCHANGED <<rules, ruleSeq>>
  BY CountTypes DEF InsertNext, Remembers
<1>2. (\A x \in Procs : x # p => req[x] = Idle) /\ \A x \in RuleIds : ~Bumping(x)
  BY <1>1, OthersIdle DEF CountInv
<1>3. PICK n : /\ n = ComputeNext(q.snap, q.due, q.day, q.noon) /\ n # None
               /\ InsertOccurrences(q.rule, {n})
  BY DEF InsertNext
<1>4. PICK z : z = [q EXCEPT !.pc = "bump", !.next = n,
                             !.nextInc = tasks[<<q.rule, n>>].inc]
  OBVIOUS
<1>5. Continue(p, z)
  BY <1>3, <1>4 DEF InsertNext
<1>6. /\ z.pc = "bump" /\ z.rule = q.rule /\ z.snap = q.snap /\ z.next = n
      /\ z.nextInc = tasks[<<q.rule, n>>].inc
  BY <1>1, <1>4 DEF Request
<1>7. rules[q.rule] = q.snap /\ IsRule(q.rule)
  BY <1>1, RowAssumption DEF CountInv, Stands, IsRule
<1>8. n \in Dates /\ <<q.rule, n>> \in TaskIds
  <2>1. n \in Dates \cup {None}
    BY <1>1, <1>3, ComputeNextType DEF Request
  <2>. QED BY <1>1, <1>3, <2>1 DEF TaskIds, OccurrenceKeys
<1>9. PICK k \in TaskIds : k = <<q.rule, n>>
  BY <1>8
<1>17. PICK inc : inc = tasks[k].inc
  OBVIOUS
<1>18. RowIs(k, inc)'
  <2>1. tasks'[k] = IF k \in {q.rule} \X {n} /\ tasks[k].row = "none"
                    THEN [row |-> "live", inc |-> tasks[k].inc, status |-> "open",
                          mark |-> q.rule, due |-> k[2]]
                    ELSE tasks[k]
    BY <1>1, <1>3 DEF InsertOccurrences
  <2>2. k \in {q.rule} \X {n}
    BY <1>9
  <2>. QED BY <1>17, <2>1, <2>2 DEF RowIs
<1>10. Stands(z)'
  <2>1. RowIs(<<z.rule, z.next>>, z.nextInc)'
    BY <1>6, <1>9, <1>17, <1>18
  <2>2. rules'[z.rule] = z.snap
    BY <1>1, <1>6, <1>7
  <2>. QED BY <1>6, <2>1, <2>2 DEF Stands
<1>11. Alone' /\ \A x \in Procs : Stands(req[x])'
  BY <1>2, <1>5, <1>10, OneInFlight
<1>12. PICK r \in RuleIds : r = q.rule
  BY <1>1
<1>19. Bumping(r)'
  BY <1>5, <1>6, <1>12 DEF Bumping, Continue, TypeOK
<1>13. /\ Members(r)' \subseteq Members(r) \cup {k}
       /\ \A x \in RuleIds : x # r => Members(x)' \subseteq Members(x)
  <2>1. {r} \X {n} = {k}
    BY <1>9, <1>12
  <2>2. InsertOccurrences(r, {n})
    BY <1>3, <1>12
  <2>3. /\ Members(r)' \subseteq Members(r) \cup ({r} \X {n})
        /\ \A x \in RuleIds : x # r => Members(x)' \subseteq Members(x)
    BY <2>2, MembersInserted
  <2>. QED BY <2>1, <2>3
<1>14. ASSUME NEW x \in RuleIds, x # r PROVE Counted(x)'
  <2>1. IsRule(x)' => IsRule(x) /\ rules'[x] = rules[x]
    BY <1>1 DEF IsRule
  <2>2. IsRule(x) => rules[x].gen \in Nat
    BY CountTypes
  <2>. QED BY <1>2, <1>13, <1>14, <2>1, <2>2, CountedStays DEF CountInv
<1>20. IsRule(r) /\ rules[r] = q.snap /\ ~Bumping(r) /\ Counted(r)
  BY <1>2, <1>7, <1>12 DEF CountInv
<1>15. Counted(r)'
  <2>. SUFFICES ASSUME rules[r].count # None
                PROVE  /\ IsFiniteSet(Members(r)')
                       /\ Cardinality(Members(r)') <= rules[r].count
                       /\ Cardinality(Members(r)') <= rules[r].gen + 1
    BY <1>1, <1>19 DEF Counted, IsRule
  <2>1. /\ IsFiniteSet(Members(r))
        /\ Cardinality(Members(r)) <= rules[r].gen
    <3>1. rules[r].gen \in Nat
      BY <1>20, CountTypes
    <3>2. Cardinality(Members(r)) <= rules[r].gen + 0 /\ IsFiniteSet(Members(r))
      BY <1>20 DEF Counted
    <3>. QED BY <3>1, <3>2, FS_CardinalityType
  <2>2. rules[r].gen \in Nat /\ rules[r].count \in Nat
    BY <1>20, CountTypes
  <2>3. rules[r].gen < rules[r].count
    <3>1. ~(rules[r].gen >= rules[r].count)
      BY <1>3, <1>20 DEF ComputeNext
    <3>. QED BY <2>2, <3>1
  <2>4. /\ IsFiniteSet(Members(r)')
        /\ Cardinality(Members(r)') <= Cardinality(Members(r)) + 1
        /\ Cardinality(Members(r)) \in Nat /\ Cardinality(Members(r)') \in Nat
    <3>1. PICK M : M = Members(r)
      OBVIOUS
    <3>2. IsFiniteSet(M) /\ Cardinality(M) \in Nat
      BY <2>1, <3>1, FS_CardinalityType
    <3>3. IsFiniteSet(M \cup {k}) /\ Cardinality(M \cup {k}) <= Cardinality(M) + 1
      BY <3>2, OneMore
    <3>4. Members(r)' \in SUBSET (M \cup {k})
      BY <1>13, <3>1
    <3>5. IsFiniteSet(Members(r)') /\ Cardinality(Members(r)') <= Cardinality(M \cup {k})
      BY <3>3, <3>4, FS_Subset
    <3>6. Cardinality(Members(r)') \in Nat /\ Cardinality(M \cup {k}) \in Nat
      BY <3>3, <3>5, FS_CardinalityType
    <3>. QED BY <3>1, <3>2, <3>3, <3>5, <3>6
  <2>. QED BY <2>1, <2>2, <2>3, <2>4
<1>16. FirstIsCounted'
  BY <1>1 DEF CountInv, FirstIsCounted, IsRule
<1>. QED BY <1>11, <1>14, <1>15, <1>16 DEF CountInv

LEMMA SaturateBounds ==
  ASSUME NEW n \in Nat
  PROVE  /\ Saturate(n) \in Nat
         /\ \A m \in 0 .. MaxGen : m <= n => m <= Saturate(n)
         /\ n > 0 => Saturate(n) > 0
BY BoundsAssumption DEF Saturate

LEMMA BumpRuleCount ==
  ASSUME TypeOK, TypeOK', CountInv, NEW p \in Procs, BumpRule(p)
  PROVE  CountInv'
<1>. DEFINE q == req[p]
<1>1. q.pc = "bump" /\ q \in Request /\ q.rule \in RuleIds /\ q.snap \in Rule
      /\ UNCHANGED <<tasks, ruleSeq>> /\ Finish(p)
  BY CountTypes DEF BumpRule, Remembers
<1>2. \A x \in Procs : x # p => req[x] = Idle
  BY <1>1, OthersIdle DEF CountInv
<1>3. /\ Alone' /\ \A x \in Procs : Stands(req[x])'
      /\ \A r \in RuleIds : ~Bumping(r)'
  BY <1>1, <1>2, OneEnds
<1>4. PICK r \in RuleIds : r = q.rule
  BY <1>1
<1>5. \A x \in RuleIds : x # r => ~Bumping(x)
  BY <1>2, <1>4 DEF Bumping, Idle
<1>6. rules[r] = q.snap /\ IsRule(r) /\ RowIs(<<q.rule, q.next>>, q.nextInc)
  BY <1>1, <1>4, RowAssumption DEF CountInv, Stands, IsRule
<1>7. rules' = [rules EXCEPT ![r].current = <<q.rule, q.next>>,
                             ![r].gen = Saturate(q.snap.gen + 1),
                             ![r].next = q.next]
  BY <1>4, <1>6 DEF BumpRule, IsRule
<1>8. /\ rules'[r].count = rules[r].count
      /\ rules'[r].gen = Saturate(rules[r].gen + 1)
      /\ \A x \in RuleIds : x # r => rules'[x] = rules[x]
  BY <1>1, <1>6, <1>7 DEF TypeOK, Rule
<1>9. \A x \in RuleIds : Members(x)' = Members(x)
  BY <1>1 DEF Members, Exists
<1>10. rules[r].gen \in Nat /\ rules[r].gen + 1 \in Nat
  BY <1>6, CountTypes
<1>11. ASSUME NEW x \in RuleIds, x # r PROVE Counted(x)'
  <2>1. IsRule(x)' => IsRule(x) /\ rules'[x] = rules[x]
    BY <1>8, <1>11 DEF IsRule
  <2>2. IsRule(x) => rules[x].gen \in Nat
    BY CountTypes
  <2>. QED BY <1>5, <1>9, <1>11, <2>1, <2>2, CountedStays DEF CountInv
<1>12. Counted(r)'
  <2>. SUFFICES ASSUME rules[r].count # None
                PROVE  /\ IsFiniteSet(Members(r)')
                       /\ Cardinality(Members(r)') <= rules[r].count
                       /\ Cardinality(Members(r)') <= Saturate(rules[r].gen + 1) + 0
    BY <1>3, <1>8 DEF Counted
  <2>1. Bumping(r)
    BY <1>1, <1>4 DEF Bumping
  <2>2. /\ IsFiniteSet(Members(r))
        /\ Cardinality(Members(r)) <= rules[r].count
        /\ Cardinality(Members(r)) <= rules[r].gen + 1
    <3>1. Counted(r)
      BY DEF CountInv
    <3>. QED BY <1>6, <2>1, <3>1 DEF Counted
  <2>3. rules[r].count \in 1 .. MaxGen /\ Cardinality(Members(r)) \in Nat /\ MaxGen \in Nat
    BY <1>6, <2>2, CountTypes, FS_CardinalityType
  <2>4. Cardinality(Members(r)) \in 0 .. MaxGen
    BY <2>2, <2>3
  <2>5. Cardinality(Members(r)) <= Saturate(rules[r].gen + 1) /\ Saturate(rules[r].gen + 1) \in Nat
    BY <1>10, <2>2, <2>4, SaturateBounds
  <2>. QED BY <1>9, <2>2, <2>3, <2>5
<1>13. FirstIsCounted'
  <2>1. rules'[r].gen > 0
    BY <1>8, <1>10, SaturateBounds
  <2>2. \A x \in RuleIds : x # r /\ IsRule(x)' /\ rules'[x].gen = 0 => x > 1
    BY <1>8 DEF CountInv, FirstIsCounted, IsRule
  <2>. QED BY <2>1, <2>2 DEF FirstIsCounted
<1>. QED BY <1>3, <1>11, <1>12, <1>13 DEF CountInv

LEMMA EndSeriesCount ==
  ASSUME TypeOK, TypeOK', CountInv, NEW p \in Procs, EndSeries(p)
  PROVE  CountInv'
<1>. DEFINE q == req[p]
<1>1. q.pc = "insert" /\ q.rule \in RuleIds /\ UNCHANGED <<tasks, ruleSeq>> /\ Finish(p)
  BY CountTypes DEF EndSeries, Remembers
<1>2. (\A x \in Procs : x # p => req[x] = Idle) /\ q.pc # "bump"
  BY <1>1, OthersIdle DEF CountInv
<1>3. CountersStay
  <2>1. CASE UNCHANGED rules
    BY <2>1, RulesStay
  <2>2. CASE ~UNCHANGED rules
    <3>1. rules[q.rule] # None
          /\ rules' = [rules EXCEPT ![q.rule].enabled = FALSE,
                                    ![q.rule].current = None,
                                    ![q.rule].next = None]
      BY <2>2 DEF EndSeries
    <3>2. rules[q.rule] \in Rule
      BY <1>1, <3>1 DEF TypeOK
    <3>3. \A r \in RuleIds : /\ IsRule(r)' => IsRule(r)
                             /\ IsRule(r) => /\ rules'[r].gen = rules[r].gen
                                             /\ rules'[r].count = rules[r].count
      BY <1>1, <3>1, <3>2 DEF TypeOK, Rule, IsRule
    <3>. QED BY <3>3, CountTypes DEF CountersStay
  <2>. QED BY <2>1, <2>2
<1>. QED BY <1>1, <1>2, <1>3, TasksStay, CountEnds

\* Attaching a rule: it begins at one, and the marker gives it its first task.
LEMMA InsertRuleCount ==
  ASSUME TypeOK, TypeOK', SeriesInv, CountInv, NEW p \in Procs, InsertRule(p)
  PROVE  CountInv'
<1>. DEFINE q == req[p]
<1>1. q.pc = "writeRule" /\ q \in Request /\ q.task \in Seeds /\ q.ask \in Asked
      /\ UNCHANGED tasks
  BY CountTypes DEF InsertRule, Remembers
<1>2. (\A x \in Procs : x # p => req[x] = Idle) /\ \A x \in RuleIds : ~Bumping(x)
  BY <1>1, OthersIdle DEF CountInv
<1>3. PICK r \in RuleIds : r = ruleSeq + 1 /\ ruleSeq' = r
  BY DEF InsertRule
<1>4. PICK blank \in Rule :
        blank = [series |-> q.task, enabled |-> TRUE, current |-> None,
                 anchor |-> q.ask.anchor, dtstart |-> q.ask.start,
                 interval |-> q.ask.interval, until |-> None,
                 count |-> q.ask.count, gen |-> 1, next |-> None]
  BY <1>1, BlankType
<1>5. rules' = [rules EXCEPT ![r] = Attached(q, blank)]
  BY <1>3, <1>4 DEF InsertRule
<1>6. IsRule(r)' /\ rules'[r].gen = 1
  <2>1. rules'[r] = Attached(q, blank)
    BY <1>5 DEF TypeOK
  <2>2. Attached(q, blank) \in Rule
    BY <1>1, <1>4, AttachedType DEF TaskIds
  <2>3. blank.gen = 1
    BY <1>4
  <2>4. Attached(q, blank).gen = 1
    BY <1>4, <2>3 DEF Attached, Rule
  <2>. QED BY <2>1, <2>2, <2>4, RowAssumption DEF IsRule
<1>7. Members(r) = {}
  <2>. SUFFICES ASSUME NEW t \in TaskIds, Exists(t), tasks[t].mark = r PROVE FALSE
    BY DEF Members
  <2>1. r <= ruleSeq
    BY NoneIsNoValue DEF SeriesInv, TasksBelong, Belongs
  <2>2. ruleSeq \in Nat
    BY BoundsAssumption DEF TypeOK
  <2>. QED BY <1>3, <2>1, <2>2
<1>8. \A x \in RuleIds : Members(x)' = Members(x)
  BY <1>1 DEF Members, Exists
<1>9. PICK z : z = [q EXCEPT !.pc = "writeMarker", !.rule = r]
  OBVIOUS
<1>10. z.pc = "writeMarker" /\ z.rule = r
  BY <1>1, <1>9 DEF Request
<1>11. Continue(p, z)
  BY <1>3, <1>9 DEF InsertRule
<1>12. Stands(z)'
  <2>1. IsRule(z.rule)' /\ rules'[z.rule].gen = 1 /\ Members(z.rule)' = {}
    BY <1>6, <1>7, <1>8, <1>10
  <2>. QED BY <1>10, <2>1 DEF Stands
<1>13. Alone' /\ \A x \in Procs : Stands(req[x])'
  BY <1>2, <1>11, <1>12, OneInFlight
<1>14. ASSUME NEW x \in RuleIds, x # r PROVE Counted(x)'
  <2>1. IsRule(x)' => IsRule(x) /\ rules'[x] = rules[x]
    BY <1>5, <1>14 DEF IsRule, TypeOK
  <2>2. IsRule(x) => rules[x].gen \in Nat
    BY CountTypes
  <2>. QED BY <1>2, <1>8, <1>14, <2>1, <2>2, CountedStays DEF CountInv
<1>15. Counted(r)'
  <2>1. Members(r)' = {}
    BY <1>7, <1>8
  <2>2. IsFiniteSet({}) /\ Cardinality({}) = 0
    BY FS_EmptySet
  <2>3. rules'[r].count # None => rules'[r].count \in 1 .. MaxGen
    BY <1>6, NextCountTypes
  <2>4. MaxGen \in Nat
    BY CountTypes
  <2>5. rules'[r].count # None => 0 <= rules'[r].count
    BY <2>3, <2>4
  <2>. QED BY <1>6, <2>1, <2>2, <2>5 DEF Counted
<1>16. FirstIsCounted'
  <2>1. \A x \in RuleIds : x # r /\ IsRule(x)' /\ rules'[x].gen = 0 => x > 1
    BY <1>5 DEF CountInv, FirstIsCounted, IsRule, TypeOK
  <2>. QED BY <1>6, <2>1 DEF FirstIsCounted
<1>. QED BY <1>13, <1>14, <1>15, <1>16 DEF CountInv

LEMMA RewriteRuleCount ==
  ASSUME CountInv, NEW p \in Procs, RewriteRule(p)
  PROVE  FALSE
BY DEF CountInv, Stands, RewriteRule

LEMMA WriteMarkerCount ==
  ASSUME TypeOK, TypeOK', CountInv, NEW p \in Procs, WriteMarker(p)
  PROVE  CountInv'
<1>. DEFINE q == req[p]
            t == q.task
<1>1. q.pc = "writeMarker" /\ q \in Request /\ q.rule \in RuleIds /\ t \in TaskIds
      /\ tasks[t] \in Task /\ UNCHANGED <<rules, ruleSeq>> /\ Finish(p)
  BY CountTypes DEF WriteMarker, Remembers
<1>2. (\A x \in Procs : x # p => req[x] = Idle) /\ \A x \in RuleIds : ~Bumping(x)
  BY <1>1, OthersIdle DEF CountInv
<1>3. /\ Alone' /\ \A x \in Procs : Stands(req[x])'
      /\ \A r \in RuleIds : ~Bumping(r)'
  BY <1>1, <1>2, OneEnds
<1>4. PICK r \in RuleIds : r = q.rule
  BY <1>1
<1>5. IsRule(r) /\ rules[r].gen = 1 /\ Members(r) = {}
  BY <1>1, <1>4 DEF CountInv, Stands
<1>6. \A u \in TaskIds : /\ u # t => tasks'[u] = tasks[u]
                         /\ tasks'[u].mark \in {tasks[u].mark, r}
                         /\ Exists(u)' => Exists(u)
  <2>1. CASE UNCHANGED tasks
    BY <2>1 DEF Exists
  <2>2. CASE ~UNCHANGED tasks
    <3>. DEFINE due == IF q.due = None THEN q.ask.start ELSE tasks[t].due
    <3>1. PICK row : row = [[tasks[t] EXCEPT !.mark = q.rule] EXCEPT !.due = due]
      OBVIOUS
    <3>2. tasks' = [tasks EXCEPT ![t] = row]
      BY <1>1, <2>2, <3>1 DEF WriteMarker, TypeOK, Task
    <3>3. row.mark = r /\ row.row = tasks[t].row
      BY <1>1, <1>4, <3>1 DEF Task
    <3>4. \A u \in TaskIds : tasks'[u] = IF u = t THEN row ELSE tasks[u]
      BY <3>2 DEF TypeOK
    <3>. QED BY <3>3, <3>4 DEF Exists
  <2>. QED BY <2>1, <2>2
<1>7. /\ Members(r)' \subseteq {t}
      /\ \A x \in RuleIds : x # r => Members(x)' \subseteq Members(x)
  BY <1>5, <1>6 DEF Members, Exists
<1>8. ASSUME NEW x \in RuleIds, x # r PROVE Counted(x)'
  <2>1. IsRule(x)' => IsRule(x) /\ rules'[x] = rules[x]
    BY <1>1 DEF IsRule
  <2>2. IsRule(x) => rules[x].gen \in Nat
    BY CountTypes
  <2>. QED BY <1>2, <1>7, <1>8, <2>1, <2>2, CountedStays DEF CountInv
<1>9. Counted(r)'
  <2>1. IsFiniteSet(Members(r)') /\ Cardinality(Members(r)') \in Nat
        /\ Cardinality(Members(r)') <= 1
    BY <1>7, AtMostOne
  <2>2. rules'[r].count # None => rules'[r].count \in 1 .. MaxGen
    BY <1>1, <1>5, CountTypes
  <2>3. rules'[r].count # None => Cardinality(Members(r)') <= rules'[r].count
    BY <2>1, <2>2, CountTypes
  <2>4. Cardinality(Members(r)') <= rules'[r].gen + 0
    BY <1>1, <1>5, <2>1
  <2>. QED BY <1>3, <2>1, <2>3, <2>4 DEF Counted
<1>10. FirstIsCounted'
  BY <1>1 DEF CountInv, FirstIsCounted, IsRule
<1>. QED BY <1>3, <1>8, <1>9, <1>10 DEF CountInv

\* An edit keeps COUNT or takes it away.
LEMMA WriteUpdateCount ==
  ASSUME TypeOK, TypeOK', CountInv, NEW p \in Procs, WriteUpdate(p)
  PROVE  CountInv'
<1>. DEFINE q == req[p]
<1>1. q.pc = "writeUpdate" /\ q.rule \in RuleIds /\ q.snap \in Rule
      /\ UNCHANGED <<tasks, ruleSeq>> /\ Finish(p)
  BY CountTypes DEF WriteUpdate, Remembers
<1>2. (\A x \in Procs : x # p => req[x] = Idle) /\ q.pc # "bump"
  BY <1>1, OthersIdle DEF CountInv
<1>3. PICK r \in RuleIds : r = q.rule
  BY <1>1
<1>4. rules[r] = q.snap /\ IsRule(r)
  BY <1>1, <1>3, RowAssumption DEF CountInv, Stands, IsRule
<1>5. CountersStay
  <2>1. CASE UNCHANGED rules
    BY <2>1, RulesStay
  <2>2. CASE ~UNCHANGED rules
    <3>. DEFINE was == q.snap
                new == q.ask.interval # None
                c == [was EXCEPT !.interval = OrElse(q.ask.interval, was.interval),
                                 !.until = IF new THEN None ELSE was.until,
                                 !.count = IF new THEN None ELSE was.count]
    <3>1. PICK on, anchor, next :
            rules' = [rules EXCEPT ![r].enabled = on, ![r].interval = c.interval,
                                   ![r].until = c.until, ![r].count = c.count,
                                   ![r].dtstart = q.ask.start, ![r].anchor = anchor,
                                   ![r].next = next]
      BY <1>3, <2>2 DEF WriteUpdate
    <3>2. c.count \in {None, rules[r].count}
      BY <1>1, <1>4 DEF Rule
    <3>. HIDE DEF c
    <3>3. /\ rules'[r].count = c.count /\ rules'[r].gen = rules[r].gen
          /\ \A x \in RuleIds : x # r => rules'[x] = rules[x]
      BY <1>1, <1>4, <3>1 DEF TypeOK, Rule
    <3>. QED BY <1>4, <3>2, <3>3, CountTypes DEF CountersStay, IsRule
  <2>. QED BY <2>1, <2>2
<1>. QED BY <1>1, <1>2, <1>5, TasksStay, CountEnds

LEMMA StopRecurrenceCount ==
  ASSUME TypeOK, TypeOK', Solo, CountInv, NEW r \in RuleIds, StopRecurrence(r)
  PROVE  CountInv'
<1>1. rules[r] \in Rule
  BY DEF StopRecurrence, TypeOK
<1>2. \A x \in RuleIds : /\ IsRule(x)' => IsRule(x)
                         /\ IsRule(x) => /\ rules'[x].gen = rules[x].gen
                                         /\ rules'[x].count = rules[x].count
  BY <1>1 DEF StopRecurrence, TypeOK, Rule, IsRule
<1>3. CountersStay
  BY <1>2, CountTypes DEF CountersStay
<1>. QED BY <1>3, TasksStay, CountUndisturbed DEF StopRecurrence

LEMMA EditTaskCount ==
  ASSUME TypeOK, TypeOK', Solo, CountInv, NEW t \in TaskIds, EditTask(t)
  PROVE  CountInv'
<1>1. tasks[t] \in Task
  BY DEF TypeOK
<1>2. ASSUME NEW row, tasks' = [tasks EXCEPT ![t] = row], tasks[t].row # "none",
             row.mark = tasks[t].mark, Calm, UNCHANGED <<rules, req>>
      PROVE  CountInv'
  <2>1. MembersStay
    BY <1>2, RowStays DEF Exists
  <2>. QED BY <1>2, <2>1, RulesStay, CountUndisturbed
<1>3. ASSUME NEW status, SetStatus(t, status) PROVE CountInv'
  <2>1. [tasks[t] EXCEPT !.status = status].mark = tasks[t].mark
    BY <1>1 DEF Task
  <2>. QED BY <1>2, <1>3, <2>1 DEF SetStatus
<1>4. ASSUME NEW d, Reschedule(t, d) PROVE CountInv'
  <2>1. [tasks[t] EXCEPT !.due = d].mark = tasks[t].mark
    BY <1>1 DEF Task
  <2>. QED BY <1>2, <1>4, <2>1 DEF Reschedule
<1>5. ASSUME Trash(t) PROVE CountInv'
  <2>1. [tasks[t] EXCEPT !.row = "trashed"].mark = tasks[t].mark
    BY <1>1 DEF Task
  <2>. QED BY <1>2, <1>5, <2>1 DEF Trash
<1>6. ASSUME Restore(t) PROVE CountInv'
  <2>1. [tasks[t] EXCEPT !.row = "live"].mark = tasks[t].mark
    BY <1>1 DEF Task
  <2>. QED BY <1>2, <1>6, <2>1 DEF Restore
<1>7. ASSUME Purge(t) PROVE CountInv'
  <2>1. MembersStay
    <3>1. [NoRow EXCEPT !.inc = tasks[t].inc + 1].row = "none"
      BY DEF NoRow
    <3>. QED BY <1>7, <3>1, RowStays DEF Purge
  <2>2. CountersStay
    <3>. DEFINE gone == {r \in RuleIds : rules[r] # None /\ rules[r].series = t}
    <3>1. \A r \in RuleIds :
            rules'[r] = IF r \in gone THEN None
                        ELSE IF rules[r] # None /\ rules[r].current = t
                             THEN [rules[r] EXCEPT !.current = None]
                             ELSE rules[r]
      BY <1>7 DEF Purge
    <3>2. ASSUME NEW r \in RuleIds, IsRule(r)'
          PROVE  IsRule(r) /\ rules'[r].gen = rules[r].gen /\ rules'[r].count = rules[r].count
      <4>. HIDE DEF gone
      <4>1. CASE rules[r] # None /\ rules[r].current = t
        <5>1. rules'[r] = [rules[r] EXCEPT !.current = None] /\ rules[r] \in Rule
          BY <3>1, <3>2, <4>1 DEF IsRule, TypeOK
        <5>. QED BY <4>1, <5>1 DEF IsRule, Rule
      <4>2. CASE ~(rules[r] # None /\ rules[r].current = t)
        BY <3>1, <3>2, <4>2 DEF IsRule
      <4>. QED BY <4>1, <4>2
    <3>. QED BY <3>2, CountTypes DEF CountersStay
  <2>. QED BY <1>7, <2>1, <2>2, CountUndisturbed DEF Purge
<1>. QED BY <1>3, <1>4, <1>5, <1>6, <1>7 DEF EditTask

\* The fork bounds the old rule, and gives a new one at most the live occurrence.
LEMMA ForkCount ==
  ASSUME TypeOK, TypeOK', SeriesInv, CountInv, SplitsCounted, NEW p \in Procs, Fork(p)
  PROVE  CountInv'
<1>1. PICK q \in Request : q = req[p]
  BY CountTypes
<1>2. q.pc = "fork" /\ q.rule \in RuleIds /\ q.snap \in Rule /\ q.task \in TaskIds
      /\ q.ask \in Asked /\ Finish(p) /\ ~ForkRefused(q)
  BY <1>1, CountTypes DEF Fork, Remembers
<1>3. (\A x \in Procs : x # p => req[x] = Idle) /\ \A x \in RuleIds : ~Bumping(x)
  BY <1>1, <1>2, OthersIdle DEF CountInv
<1>4. /\ Alone' /\ \A x \in Procs : Stands(req[x])'
      /\ \A x \in RuleIds : ~Bumping(x)'
  BY <1>2, <1>3, OneEnds
<1>5. PICK r \in RuleIds : r = ruleSeq + 1
  BY <1>2, BoundsAssumption DEF ForkRefused, TypeOK, RuleIds
<1>6. PICK old \in RuleIds : old = q.rule
  BY <1>2
<1>7. old <= ruleSeq /\ ruleSeq \in Nat /\ old \in Nat /\ old >= 1
  <2>1. Reader(q)
    BY <1>1 DEF SeriesInv
  <2>2. q.rule # None
    BY <1>2, NoneIsNoValue
  <2>. QED BY <1>6, <2>1, <2>2, BoundsAssumption DEF Reader, TypeOK, RuleIds
<1>8. old # r /\ r > 1
  BY <1>5, <1>7
<1>9. PICK current :
        rules' = [rules EXCEPT
                    ![old].enabled = FALSE, ![old].next = None,
                    ![old].count = None, ![old].until = q.ask.start,
                    ![old].interval = q.snap.interval, ![old].current = current,
                    ![r] = ForkedRule(q)]
  BY <1>1, <1>5, <1>6 DEF Fork
<1>10. rules[old] \in Rule
  BY <1>2, <1>6 DEF ForkRefused, TypeOK
<1>11. /\ rules'[r] = ForkedRule(q)
       /\ rules'[old].count = None /\ rules'[old].gen = rules[old].gen
       /\ \A x \in RuleIds : x # r /\ x # old => rules'[x] = rules[x]
  BY <1>8, <1>9, <1>10 DEF TypeOK, Rule
<1>12. Members(r) = {}
  <2>. SUFFICES ASSUME NEW t \in TaskIds, Exists(t), tasks[t].mark = r PROVE FALSE
    BY DEF Members
  <2>1. r <= ruleSeq
    BY NoneIsNoValue DEF SeriesInv, TasksBelong, Belongs
  <2>. QED BY <1>5, <1>7, <2>1
<1>13. tasks[q.task] \in Task /\ Exists(q.task)
  BY <1>2 DEF TypeOK, ForkRefused, RowIs, Exists
<1>14. \A u \in TaskIds : /\ u # q.task => tasks'[u] = tasks[u]
                          /\ tasks'[u].mark \in {tasks[u].mark, r}
                          /\ Exists(u)' => Exists(u)
  <2>1. CASE tasks' = tasks
    BY <2>1 DEF Exists
  <2>2. CASE tasks' # tasks
    <3>1. PICK row : row = [tasks[q.task] EXCEPT !.mark = r]
      OBVIOUS
    <3>2. tasks' = [tasks EXCEPT ![q.task] = row]
      BY <1>1, <1>5, <2>2, <3>1 DEF Fork
    <3>3. row.mark = r /\ row.row = tasks[q.task].row
      BY <1>13, <3>1 DEF Task
    <3>4. \A u \in TaskIds : tasks'[u] = IF u = q.task THEN row ELSE tasks[u]
      BY <3>2 DEF TypeOK
    <3>. QED BY <3>3, <3>4 DEF Exists
  <2>. QED BY <2>1, <2>2
<1>15. /\ Members(r)' \subseteq {q.task}
       /\ q.ask.anchor # "completion" => Members(r)' = {}
       /\ \A x \in RuleIds : x # r => Members(x)' \subseteq Members(x)
  <2>1. q.ask.anchor # "completion" => tasks' = tasks
    BY <1>1 DEF Fork
  <2>2. q.ask.anchor # "completion" => Members(r)' = {}
    BY <1>12, <2>1 DEF Members, Exists
  <2>3. Members(r)' \subseteq {q.task}
    BY <1>12, <1>14 DEF Members, Exists
  <2>4. \A x \in RuleIds : x # r => Members(x)' \subseteq Members(x)
    BY <1>14 DEF Members, Exists
  <2>. QED BY <2>2, <2>3, <2>4
<1>16. /\ rules'[r].count = q.ask.count
       /\ q.ask.anchor = "completion" => rules'[r].gen = q.snap.gen
       /\ q.ask.anchor # "completion" => rules'[r].gen = 0
  BY <1>2, <1>11 DEF ForkedRule, Rule
<1>17. ASSUME NEW x \in RuleIds, x # r PROVE Counted(x)'
  <2>1. CASE x = old
    BY <1>11, <2>1 DEF Counted
  <2>2. CASE x # old
    <3>1. IsRule(x)' => IsRule(x) /\ rules'[x] = rules[x]
      BY <1>11, <1>17, <2>2 DEF IsRule
    <3>2. IsRule(x) => rules[x].gen \in Nat
      BY CountTypes
    <3>. QED BY <1>3, <1>15, <1>17, <3>1, <3>2, CountedStays DEF CountInv
  <2>. QED BY <2>1, <2>2
<1>18. Counted(r)'
  <2>. SUFFICES ASSUME IsRule(r)', rules'[r].count # None
                PROVE  /\ IsFiniteSet(Members(r)')
                       /\ Cardinality(Members(r)') <= rules'[r].count
                       /\ Cardinality(Members(r)') <= rules'[r].gen + 0
    BY <1>4 DEF Counted
  <2>1. rules'[r].count \in Nat /\ rules'[r].count >= 1 /\ rules'[r].gen \in Nat
    <3>1. rules'[r].count \in 1 .. MaxGen /\ rules'[r].gen \in 0 .. MaxGen
      BY NextCountTypes
    <3>. QED BY <3>1, CountTypes
  <2>2. CASE q.ask.anchor = "completion"
    <3>1. q.snap.gen > 0
      BY <1>1, <1>2, <2>2 DEF SplitsCounted
    <3>2. IsFiniteSet(Members(r)') /\ Cardinality(Members(r)') \in Nat
          /\ Cardinality(Members(r)') <= 1
      BY <1>15, AtMostOne
    <3>3. rules'[r].gen > 0
      BY <1>16, <2>2, <3>1
    <3>. QED BY <2>1, <3>2, <3>3
  <2>3. CASE q.ask.anchor # "completion"
    <3>1. IsFiniteSet(Members(r)') /\ Cardinality(Members(r)') = 0
      BY <1>15, <2>3, FS_EmptySet
    <3>. QED BY <2>1, <3>1
  <2>. QED BY <2>2, <2>3
<1>19. FirstIsCounted'
  <2>. SUFFICES ASSUME NEW x \in RuleIds, IsRule(x)', rules'[x].gen = 0 PROVE x > 1
    BY DEF FirstIsCounted
  <2>1. CASE x = r
    BY <1>8, <2>1
  <2>2. CASE x # r
    <3>1. IsRule(x) /\ rules[x].gen = 0
      <4>1. CASE x = old
        BY <1>10, <1>11, <4>1, RowAssumption DEF IsRule
      <4>2. CASE x # old
        BY <1>11, <2>2, <4>2 DEF IsRule
      <4>. QED BY <4>1, <4>2
    <3>. QED BY <3>1 DEF CountInv, FirstIsCounted
  <2>. QED BY <2>1, <2>2
<1>. QED BY <1>4, <1>17, <1>18, <1>19 DEF CountInv

\* At most n of a set of days have fewer than n days before them.
LEMMA FirstDays ==
  ASSUME NEW days, days \subseteq Dates, NEW n \in Int,
         NEW S, S = {d \in days : Cardinality({e \in days : e < d}) < n}
  PROVE  IsFiniteSet(S) /\ Cardinality(S) \in Nat /\ (S = {} \/ Cardinality(S) <= n)
<1>1. IsFiniteSet(days)
  <2>1. IsFiniteSet(Dates)
    <3>1. 0 \in Int /\ LastDay + MaxInterval \in Int
      BY BoundsAssumption
    <3>. QED BY <3>1, FS_Interval DEF Dates
  <2>. QED BY <2>1, FS_Subset
<1>2. IsFiniteSet(S) /\ Cardinality(S) \in Nat
  <2>1. S \in SUBSET days
    OBVIOUS
  <2>2. IsFiniteSet(S)
    BY <1>1, <2>1, FS_Subset
  <2>. QED BY <2>2, FS_CardinalityType
<1>3. ASSUME S # {} PROVE Cardinality(S) <= n
  <2>1. PICK m \in S : \A e \in S : e <= m
    BY <1>3, LastOfReturns
  <2>2. PICK B : B = {e \in days : e < m}
    OBVIOUS
  <2>3. Cardinality(B) < n
    BY <2>1, <2>2
  <2>4. IsFiniteSet(B)
    <3>1. B \in SUBSET days
      BY <2>2
    <3>. QED BY <1>1, <3>1, FS_Subset
  <2>5. S \in SUBSET (B \cup {m})
    <3>1. \A e \in S : e \in days /\ e \in Nat /\ m \in Nat
      BY <2>1, DatesAreNaturals
    <3>. QED BY <2>1, <2>2, <3>1
  <2>6. /\ IsFiniteSet(B \cup {m})
        /\ Cardinality(B) \in Nat /\ Cardinality(B \cup {m}) \in Nat
        /\ Cardinality(B \cup {m}) <= Cardinality(B) + 1
    BY <2>4, OneMore
  <2>7. Cardinality(S) <= Cardinality(B \cup {m})
    BY <2>5, <2>6, FS_Subset
  <2>. QED BY <1>2, <2>3, <2>6, <2>7
<1>. QED BY <1>2, <1>3

\* The materializer never gives a rule more days than its COUNT has left.
LEMMA OwedBound ==
  ASSUME NEW rule \in Rule, rule.next # None
  PROVE  /\ IsFiniteSet(Owed(rule)) /\ Cardinality(Owed(rule)) \in Nat
         /\ rule.count # None =>
              Owed(rule) = {} \/ Cardinality(Owed(rule)) <= rule.count - rule.gen
<1>. DEFINE due == {rule.next} \cup {d \in Expansion(rule, rule.dtstart) :
                                       d > rule.next /\ d <= now}
<1>1. due \subseteq Dates
  BY ExpansionType DEF Rule
<1>2. IsFiniteSet(Owed(rule)) /\ Cardinality(Owed(rule)) \in Nat
  <2>1. IsFiniteSet(Dates)
    <3>1. 0 \in Int /\ LastDay + MaxInterval \in Int
      BY BoundsAssumption
    <3>. QED BY <3>1, FS_Interval DEF Dates
  <2>2. Owed(rule) \in SUBSET Dates
    BY OwedType
  <2>3. IsFiniteSet(Owed(rule))
    BY <2>1, <2>2, FS_Subset
  <2>. QED BY <2>3, FS_CardinalityType
<1>3. ASSUME rule.count # None
      PROVE  Owed(rule) = {} \/ Cardinality(Owed(rule)) <= rule.count - rule.gen
  <2>1. PICK n \in Int : n = rule.count - rule.gen
    BY <1>3, BoundsAssumption DEF Rule
  <2>2. Owed(rule) = {d \in due : Cardinality({e \in due : e < d}) < n}
    BY <1>3, <2>1 DEF Owed
  <2>. HIDE DEF due
  <2>. QED BY <1>1, <2>1, <2>2, FirstDays
<1>. QED BY <1>2, <1>3

LEMMA MaterializeRuleCount ==
  ASSUME TypeOK, TypeOK', Solo, CountInv, NEW r \in RuleIds, MaterializeRule(r)
  PROVE  CountInv'
<1>1. PICK rule \in Rule : rule = rules[r]
  BY DEF MaterializeRule, TypeOK
<1>2. PICK days : days = Owed(rule)
  OBVIOUS
<1>3. rule.next # None /\ Calm /\ UNCHANGED <<ruleSeq, req>> /\ InsertOccurrences(r, days)
  BY <1>1, <1>2 DEF MaterializeRule
<1>4. /\ Alone' /\ \A x \in Procs : Stands(req[x])'
      /\ \A x \in RuleIds : ~Bumping(x) /\ ~Bumping(x)'
  BY <1>3, NoneInFlight
<1>5. /\ IsFiniteSet(days) /\ Cardinality(days) \in Nat
      /\ rule.count # None => days = {} \/ Cardinality(days) <= rule.count - rule.gen
  BY <1>2, <1>3, OwedBound
<1>6. rule.gen \in Nat
  BY <1>1, BoundsAssumption DEF Rule
<1>7. /\ Members(r)' \subseteq Members(r) \cup ({r} \X days)
      /\ \A x \in RuleIds : x # r => Members(x)' \subseteq Members(x)
  BY <1>3, MembersInserted
<1>8. /\ \A x \in RuleIds : x # r => rules'[x] = rules[x]
      /\ rules'[r].count = rule.count
      /\ rules'[r].gen = IF days = {} THEN rule.gen
                         ELSE Saturate(rule.gen + Cardinality(days))
  <2>1. CASE days = {}
    <3>1. rules' = [rules EXCEPT ![r].next = None]
      BY <1>1, <1>2, <2>1 DEF MaterializeRule
    <3>. QED BY <1>1, <2>1, <3>1 DEF TypeOK, Rule
  <2>2. CASE days # {}
    <3>1. PICK current, next :
            rules' = [rules EXCEPT ![r].current = current,
                                   ![r].gen = Saturate(rule.gen + Cardinality(days)),
                                   ![r].next = next]
      BY <1>1, <1>2, <2>2 DEF MaterializeRule
    <3>. QED BY <1>1, <2>2, <3>1 DEF TypeOK, Rule
  <2>. QED BY <2>1, <2>2
<1>9. ASSUME NEW x \in RuleIds, x # r PROVE Counted(x)'
  <2>1. IsRule(x)' => IsRule(x) /\ rules'[x] = rules[x]
    BY <1>8, <1>9 DEF IsRule
  <2>2. IsRule(x) => rules[x].gen \in Nat
    BY CountTypes
  <2>. QED BY <1>4, <1>7, <1>9, <2>1, <2>2, CountedStays DEF CountInv
<1>10. IsRule(r)
  BY <1>1, RowAssumption DEF IsRule
<1>11. ASSUME rule.count # None
       PROVE  /\ IsFiniteSet(Members(r)) /\ Cardinality(Members(r)) \in Nat
              /\ Cardinality(Members(r)) <= rule.count
              /\ Cardinality(Members(r)) <= rule.gen
  <2>1. /\ IsFiniteSet(Members(r))
        /\ Cardinality(Members(r)) <= rule.count
        /\ Cardinality(Members(r)) <= rule.gen + 0
    BY <1>1, <1>4, <1>10, <1>11 DEF CountInv, Counted
  <2>2. Cardinality(Members(r)) \in Nat
    BY <2>1, FS_CardinalityType
  <2>. QED BY <1>6, <2>1, <2>2
<1>12. Counted(r)'
  <2>. SUFFICES ASSUME rule.count # None
                PROVE  /\ IsFiniteSet(Members(r)')
                       /\ Cardinality(Members(r)') <= rule.count
                       /\ Cardinality(Members(r)') <= rules'[r].gen + 0
    BY <1>4, <1>8 DEF Counted
  <2>1. rule.count \in 1 .. MaxGen /\ rule.count \in Nat /\ MaxGen \in Nat
    BY BoundsAssumption DEF Rule
  <2>2. CASE days = {}
    <3>1. Members(r)' \in SUBSET Members(r)
      BY <1>7, <2>2
    <3>2. IsFiniteSet(Members(r)') /\ Cardinality(Members(r)') <= Cardinality(Members(r))
      BY <1>11, <3>1, FS_Subset
    <3>3. Cardinality(Members(r)') \in Nat
      BY <3>2, FS_CardinalityType
    <3>. QED BY <1>6, <1>8, <1>11, <2>1, <2>2, <3>2, <3>3
  <2>3. CASE days # {}
    <3>1. PICK M : M = Members(r)
      OBVIOUS
    <3>2. PICK D : D = {r} \X days
      OBVIOUS
    <3>3. IsFiniteSet(D) /\ Cardinality(D) = Cardinality(days)
      <4>1. [d \in days |-> <<r, d>>] \in Bijection(days, D)
        <5>. DEFINE f == [d \in days |-> <<r, d>>]
        <5>1. f \in [days -> D]
          BY <3>2
        <5>2. \A a, b \in days : f[a] = f[b] => a = b
          OBVIOUS
        <5>3. \A k \in D : \E d \in days : f[d] = k
          BY <3>2
        <5>. HIDE DEF f
        <5>4. f \in Injection(days, D)
          BY <5>1, <5>2 DEF Injection, IsInjective
        <5>5. f \in Surjection(days, D)
          BY <5>1, <5>3 DEF Surjection
        <5>6. f \in Bijection(days, D)
          BY <5>4, <5>5 DEF Bijection
        <5>. QED BY <5>6 DEF f
      <4>2. ExistsBijection(days, D)
        BY <4>1 DEF ExistsBijection
      <4>. QED BY <1>5, <4>2, FS_Bijection
    <3>4. /\ IsFiniteSet(M \cup D)
          /\ Cardinality(M \cup D) = Cardinality(M) + Cardinality(D) - Cardinality(M \cap D)
      BY <1>11, <3>1, <3>3, FS_Union
    <3>5. Cardinality(M \cap D) \in Nat
      <4>1. M \cap D \in SUBSET D
        OBVIOUS
      <4>2. IsFiniteSet(M \cap D)
        BY <3>3, <4>1, FS_Subset
      <4>. QED BY <4>2, FS_CardinalityType
    <3>6. Cardinality(M \cup D) <= Cardinality(M) + Cardinality(days)
          /\ Cardinality(M) \in Nat /\ Cardinality(M \cup D) \in Nat
      BY <1>5, <1>11, <3>1, <3>3, <3>4, <3>5, FS_CardinalityType
    <3>7. Members(r)' \in SUBSET (M \cup D)
      BY <1>7, <3>1, <3>2
    <3>8. IsFiniteSet(Members(r)') /\ Cardinality(Members(r)') <= Cardinality(M \cup D)
      BY <3>4, <3>7, FS_Subset
    <3>9. Cardinality(Members(r)') \in Nat
      BY <3>8, FS_CardinalityType
    <3>10. /\ Cardinality(Members(r)') <= rule.gen + Cardinality(days)
           /\ rule.gen + Cardinality(days) \in Nat
      BY <1>5, <1>6, <1>11, <3>1, <3>6, <3>8, <3>9
    <3>11. Cardinality(Members(r)') <= rule.count
      BY <1>5, <1>6, <2>1, <2>3, <3>9, <3>10
    <3>12. Cardinality(Members(r)') \in 0 .. MaxGen
      BY <2>1, <3>9, <3>11
    <3>13. /\ Cardinality(Members(r)') <= Saturate(rule.gen + Cardinality(days))
           /\ Saturate(rule.gen + Cardinality(days)) \in Nat
      BY <3>10, <3>12, SaturateBounds
    <3>. QED BY <1>8, <2>3, <3>8, <3>9, <3>11, <3>13
  <2>. QED BY <2>2, <2>3
<1>13. FirstIsCounted'
  <2>1. rules'[r].gen = 0 => rule.gen = 0
    <3>1. rule.gen + Cardinality(days) \in Nat
      BY <1>5, <1>6
    <3>2. rule.gen > 0 => rule.gen + Cardinality(days) > 0
      BY <1>5, <1>6
    <3>3. rule.gen > 0 => Saturate(rule.gen + Cardinality(days)) > 0
      BY <3>1, <3>2, SaturateBounds
    <3>. QED BY <1>6, <1>8, <3>3
  <2>2. \A x \in RuleIds : x # r /\ IsRule(x)' /\ rules'[x].gen = 0 => x > 1
    BY <1>8 DEF CountInv, FirstIsCounted, IsRule
  <2>. QED BY <1>1, <1>10, <2>1, <2>2 DEF CountInv, FirstIsCounted
<1>. QED BY <1>4, <1>9, <1>12, <1>13 DEF CountInv

LEMMA CountInit == Init => CountInv
<1>. SUFFICES ASSUME Init PROVE CountInv
  OBVIOUS
<1>1. \A r \in RuleIds : ~IsRule(r)
  BY DEF Init, IsRule
<1>2. \A p \in Procs : req[p] = Idle
  BY DEF Init
<1>. QED BY <1>1, <1>2, IdleStands DEF CountInv, Alone, Counted, FirstIsCounted

LEMMA CountNext ==
  ASSUME TypeOK, SeriesInv, Solo, CountInv, SplitsCounted, [Next]_vars
  PROVE  CountInv'
<1>. TypeOK'
  BY TypeNext
<1>1. ASSUME NEW p \in Procs, Proceed(p) PROVE CountInv'
  <2>1. ASSUME RefuseRule(p) \/ RefuseFork(p) PROVE CountInv'
    <3>1. req[p].pc \in {"writeRule", "fork"} /\ Finish(p) /\ UNCHANGED <<tasks, rules>>
      BY <2>1 DEF RefuseRule, RefuseFork
    <3>2. \A x \in Procs : x # p => req[x] = Idle
      BY <3>1, OthersIdle DEF CountInv
    <3>. QED BY <3>1, <3>2, TasksStay, RulesStay, CountEnds
  <2>. QED BY <1>1, <2>1, MarkDoneCount, FindRuleCount, InsertNextCount, BumpRuleCount,
              EndSeriesCount, InsertSkipExceptionCount, RejectSkippedCount,
              FindExistingCount, RewriteRuleCount, InsertRuleCount, WriteMarkerCount,
              WriteUpdateCount, ForkCount DEF Proceed
<1>2. ASSUME NEW p \in Procs, Crash(p) PROVE CountInv'
  BY <1>2 DEF Crash, Solo
<1>3. CASE Tick
  BY <1>3, TasksStay, RulesStay, CountUndisturbed DEF Tick
<1>4. CASE UNCHANGED vars
  <2>1. MembersStay /\ CountersStay
    BY <1>4, TasksStay, RulesStay DEF vars
  <2>2. Alone' /\ \A r \in RuleIds : Bumping(r) => Bumping(r)'
    BY <1>4 DEF vars, CountInv, Alone, Bumping
  <2>3. ASSUME NEW x \in Procs PROVE Stands(req[x])'
    <3>1. Stands(req[x]) /\ req'[x] = req[x]
      BY <1>4 DEF vars, CountInv
    <3>2. Stands(req[x])'
      BY <1>4, <3>1, StandsStill DEF vars
    <3>. QED BY <3>2
  <2>. QED BY <2>1, <2>2, <2>3, CountStays
<1>. QED BY <1>1, <1>2, <1>3, <1>4, BeginRequestCount, StopRecurrenceCount,
            MaterializeRuleCount, EditTaskCount DEF Next

LEMMA CountInvBounds == CountInv => CountBoundsMembers
BY DEF CountInv, Counted, CountBoundsMembers

\* With two rules at most, there is one split, and it forks the first rule.
LEMMA OneSplitIsCounted ==
  ASSUME TypeOK, SeriesInv, CountInv, MaxRules <= 2
  PROVE  SplitsCounted
<1>. SUFFICES ASSUME NEW p \in Procs, req[p].pc = "fork" PROVE req[p].snap.gen > 0
  BY DEF SplitsCounted
<1>1. req[p].rule \in RuleIds /\ req[p].snap \in Rule
  BY CountTypes DEF Remembers
<1>2. ruleSeq < MaxRules /\ (req[p].snap.gen = 0 => req[p].rule > 1)
  BY DEF CountInv, Stands
<1>3. req[p].rule <= ruleSeq
  BY <1>1, NoneIsNoValue DEF SeriesInv, Reader
<1>4. ~(req[p].rule > 1)
  BY <1>1, <1>2, <1>3, BoundsAssumption DEF TypeOK, RuleIds
<1>5. req[p].snap.gen \in Nat
  BY <1>1, BoundsAssumption DEF Rule
<1>. QED BY <1>2, <1>4, <1>5

\* While requests run one after another, a rule with COUNT never has more tasks
\* than that, whatever the materializer, completions, skips, edits, splits and
\* purges have done, as long as no split makes a completion rule out of a rule
\* that another split has just made: such a rule starts at zero and takes the
\* live occurrence over uncounted (recurrence.ts:178-179, :728-735, :905-920).
THEOREM CountBounds ==
  ASSUME Solo
  PROVE  Spec /\ []SplitsCounted => []CountBoundsMembers
<1>1. Init => TypeOK /\ SeriesInv /\ CountInv
  BY TypeInit, SeriesInit, CountInit
<1>2. TypeOK /\ SeriesInv /\ CountInv /\ SplitsCounted /\ [Next]_vars
        => (TypeOK /\ SeriesInv /\ CountInv)'
  BY TypeNext, SeriesNext, CountNext
<1>. QED BY <1>1, <1>2, CountInvBounds, PTL DEF Spec

\* The same without that condition where a series is split at most once.
THEOREM CountBoundsOneSplit ==
  ASSUME Solo, MaxRules <= 2
  PROVE  Spec => []CountBoundsMembers
<1>1. Init => TypeOK /\ SeriesInv /\ CountInv
  BY TypeInit, SeriesInit, CountInit
<1>2. TypeOK /\ SeriesInv /\ CountInv /\ [Next]_vars => (TypeOK /\ SeriesInv /\ CountInv)'
  BY TypeNext, SeriesNext, CountNext, OneSplitIsCounted
<1>. QED BY <1>1, <1>2, CountInvBounds, PTL DEF Spec

-----------------------------------------------------------------------------
(* One request after another: the days of a series are in order, and a rule *)
(* is not left standing on an occurrence that is done.                      *)

\* Besides, occurrences are not reopened, rescheduled or purged, and rules are
\* stopped and split but not edited.
Steady == Solo /\ Ops \cap {"reopen", "reschedule", "purge", "updateRule"} = {}

OpenOf(r) == {t \in Members(r) : tasks[t].status = "open"}

\* The occurrence that a request has inserted, before its rule moves on to it.
Inserted(q) == <<q.rule, q.next>>

\* What a request that runs alone knows when it takes its next step.
Firm(q) ==
  /\ q.pc # "writeUpdate"
  /\ q.pc \in {"markDone", "findRule", "insert"} => q.day = now /\ q.noon \in {now - 1, now}
  /\ q.pc \in {"findRule", "insert"} =>
       tasks[q.task].status # "open" /\ q.due = tasks[q.task].due
  /\ q.pc = "findRule" => q.mark = tasks[q.task].mark
  /\ q.pc \in {"findExisting", "writeRule", "writeMarker"} => tasks[q.task].status = "open"
  /\ q.pc \in {"findExisting", "writeRule"} => RuleOf(q.task, q.mark, FALSE) = None
  /\ q.pc = "writeRule" => q.rule = None
  /\ q.pc = "writeMarker" =>
       /\ q.task \in Seeds /\ IsRule(q.rule) /\ rules[q.rule].current = q.task
       /\ Members(q.rule) = {}
  /\ q.pc \in {"except", "reject", "insert", "bump", "fork"} =>
       IsRule(q.rule) /\ rules[q.rule] = q.snap /\ q.snap.enabled
  /\ q.pc \in {"except", "reject", "insert", "fork"} => q.snap.current = q.task
  /\ q.pc = "bump" => RowIs(Inserted(q), q.nextInc)
  /\ q.pc = "fork" =>
       ruleSeq < MaxRules /\ q.ask.start = OrElse(tasks[q.task].due, q.snap.dtstart)

\* If rule r stands on t and t is done, the request that did it is on its way.
Taken(r, t) ==
  tasks[t].status = "done" /\ tasks[t].mark = r =>
    \E p \in Procs : \/ req[p].pc = "findRule" /\ req[p].task = t
                     \/ req[p].pc = "insert" /\ req[p].rule = r

\* Occurrence t is the head of rule r: the last one that r generated.  A chain
\* has not been generated for more than a step from today, and what is open of
\* it is its head.
Leads(r, t) ==
  /\ t # None
  /\ \A k \in Generated(r) : t \in Generated(r) /\ k[2] <= t[2]
  /\ rules[r].anchor = "scheduled" => Taken(r, t)
  /\ rules[r].anchor = "completion" =>
       /\ \A k \in Generated(r) : k[2] <= now + rules[r].interval
       /\ OpenOf(r) \subseteq {t}

\* The cursor is not behind the current occurrence, and is past it where that
\* one is another rule's.
Ahead(r) ==
  rules[r].next # None =>
    /\ rules[r].next >= DayOf(rules[r].current, r)
    /\ rules[r].current \in OccurrenceKeys /\ rules[r].current[1] # r
         => rules[r].next > rules[r].current[2]

InOrder(r) ==
  IsRule(r) =>
    /\ rules[r].enabled /\ ~Bumping(r) => Leads(r, rules[r].current)
    /\ rules[r].enabled /\ rules[r].anchor = "scheduled" => Ahead(r)
    /\ rules[r].anchor = "completion" => \E t \in TaskIds : OpenOf(r) \subseteq {t}

DuesKept == \A k \in OccurrenceKeys : Exists(k) => tasks[k].due = k[2]

OrderInv ==
  /\ Alone
  /\ \A p \in Procs : /\ Firm(req[p])
                      /\ req[p].pc = "bump" => Leads(req[p].rule, Inserted(req[p]))
  /\ \A r \in RuleIds : InOrder(r)
  /\ DuesKept

\* The occurrences that the scheduled rules of a series generated.
DaysOf(series) ==
  {k \in OccurrenceKeys : Exists(k) /\ IsRule(k[1]) /\ rules[k[1]].anchor = "scheduled"
                            /\ rules[k[1]].series = series}

\* Their days go up to that of t.
UpTo(series, t) == \A k \in DaysOf(series) : t \in OccurrenceKeys /\ k[2] <= t[2]

\* An active scheduled rule stands on the last day of its series, or is about to
\* be moved on to it.
DaysInv ==
  /\ \A s \in Seeds : \A j, k \in DaysOf(s) : j[2] = k[2] => j = k
  /\ \A r \in RuleIds :
       IsRule(r) /\ rules[r].enabled /\ rules[r].anchor = "scheduled" /\ ~Bumping(r)
         => UpTo(rules[r].series, rules[r].current)
  /\ \A p \in Procs : req[p].pc = "bump" /\ req[p].snap.anchor = "scheduled"
         => UpTo(req[p].snap.series, Inserted(req[p]))

\* A series that has gone from scheduled to completion is not split back.
NoReturn ==
  \A p \in Procs :
    req[p].pc = "fork" /\ req[p].ask.anchor = "scheduled" /\ req[p].snap.anchor = "completion"
      => \A r \in RuleIds : IsRule(r) /\ rules[r].series = req[p].snap.series
                              => rules[r].anchor = "completion"

LEMMA OrderTypes ==
  ASSUME TypeOK
  PROVE  /\ \A p \in Procs : req[p] \in Request /\ Remembers(req[p])
         /\ \A r \in RuleIds : IsRule(r) => rules[r] \in Rule
         /\ \A t \in TaskIds : tasks[t] \in Task
         /\ now \in Nat /\ now \in Dates /\ now - 1 \in Dates /\ ruleSeq \in Nat
         /\ Dates \subseteq Nat /\ RuleIds \subseteq Nat /\ None \notin Dates
         /\ OccurrenceKeys \subseteq TaskIds /\ Seeds \subseteq TaskIds
         /\ \A k \in OccurrenceKeys : k[1] \in RuleIds /\ k[2] \in Dates /\ k \notin Seeds
         /\ \A r \in RuleIds, d \in Dates : <<r, d>> \in OccurrenceKeys /\ <<r, d>> \in TaskIds
<1>1. now \in Nat /\ now \in Dates /\ now - 1 \in Dates
  BY BoundsAssumption DEF TypeOK, Dates
<1>2. ruleSeq \in Nat /\ RuleIds \subseteq Nat
  BY SeriesTypes
<1>3. \A r \in RuleIds : IsRule(r) => rules[r] \in Rule
  BY DEF TypeOK, IsRule
<1>4. \A t \in TaskIds : tasks[t] \in Task
  BY DEF TypeOK
<1>5. \A k \in OccurrenceKeys : k[1] \in RuleIds /\ k[2] \in Dates /\ k \notin Seeds
  BY NoneAssumption DEF OccurrenceKeys
<1>6. \A p \in Procs : req[p] \in Request /\ Remembers(req[p])
  BY DEF TypeOK
<1>. QED BY <1>1, <1>2, <1>3, <1>4, <1>5, <1>6, DatesAreNaturals, NoneIsNoValue
         DEF TaskIds, OccurrenceKeys

\* A task that has a rule is found to have one.
LEMMA RuleOfFinds ==
  ASSUME NEW t, NEW mark, NEW only \in BOOLEAN, NEW r \in RuleIds, rules[r] # None,
         IF mark # None THEN r = mark ELSE t \in {rules[r].current, rules[r].series},
         only => rules[r].enabled
  PROVE  RuleOf(t, mark, only) # None
<1>. DEFINE found == {x \in RuleIds :
                        /\ rules[x] # None
                        /\ IF mark # None THEN x = mark
                           ELSE t \in {rules[x].current, rules[x].series}
                        /\ only => rules[x].enabled}
            active == {x \in found : rules[x].enabled}
            best == IF active # {} THEN active ELSE found
<1>1. r \in found
  OBVIOUS
<1>2. best # {} /\ best \subseteq RuleIds
  BY <1>1
<1>3. best \subseteq 0 .. MaxRules
  BY <1>2 DEF RuleIds
<1>4. \E x \in best : \A y \in best : y <= x
  <2>. HIDE DEF best
  <2>. QED BY <1>2, <1>3, GreatestExists, BoundsAssumption
<1>5. RuleOf(t, mark, only) = CHOOSE x \in best : \A y \in best : y <= x
  BY <1>2 DEF RuleOf
<1>6. RuleOf(t, mark, only) \in RuleIds
  <2>. HIDE DEF best
  <2>. QED BY <1>2, <1>4, <1>5
<1>. QED BY <1>6, NoneIsNoValue

\* All is as the requests know it, and none has inserted an occurrence that its
\* rule has not moved on to.
Settled == Alone /\ \A p \in Procs : Firm(req[p]) /\ req[p].pc # "bump"

LEMMA OrderHolds ==
  ASSUME Settled', \A r \in RuleIds : InOrder(r)', DuesKept'
  PROVE  OrderInv'
BY DEF Settled, OrderInv

LEMMA IdleIsFirm == Firm(Idle)
BY DEF Idle, Firm

LEMMA FirmContinues ==
  ASSUME TypeOK, NEW p \in Procs, \A x \in Procs : x # p => req[x] = Idle,
         NEW q, Continue(p, q), Firm(q)'
  PROVE  /\ Alone' /\ \A x \in Procs : Firm(req[x])'
         /\ \A x \in Procs : req'[x] = IF x = p THEN q ELSE Idle
         /\ q.pc # "bump" => Settled'
<1>1. \A x \in Procs : req'[x] = IF x = p THEN q ELSE Idle
  BY DEF TypeOK, Continue
<1>2. Firm(Idle)' /\ Idle.pc = "idle"
  BY DEF Idle, Firm
<1>3. Alone'
  BY <1>1 DEF Alone
<1>4. ASSUME NEW x \in Procs PROVE Firm(req[x])'
  BY <1>1, <1>2
<1>. QED BY <1>1, <1>2, <1>3, <1>4 DEF Settled

LEMMA FirmEnds ==
  ASSUME TypeOK, NEW p \in Procs, \A x \in Procs : x # p => req[x] = Idle, Finish(p)
  PROVE  Settled' /\ \A x \in Procs : req'[x] = Idle
<1>1. \A x \in Procs : req'[x] = Idle
  BY DEF TypeOK, Finish
<1>2. Firm(Idle)' /\ Idle.pc = "idle"
  BY DEF Idle, Firm
<1>3. \A x \in Procs : Firm(req[x])'
  BY <1>1, <1>2
<1>. QED BY <1>1, <1>2, <1>3 DEF Settled, Alone

LEMMA FirmUndisturbed ==
  ASSUME Solo, Calm, UNCHANGED req
  PROVE  /\ Settled'
         /\ \A x \in Procs : req[x] = Idle /\ req'[x] = Idle
<1>1. \A x \in Procs : req[x] = Idle /\ req'[x] = Idle
  BY DEF Solo, Calm
<1>2. Firm(Idle)' /\ Idle.pc = "idle"
  BY DEF Idle, Firm
<1>3. \A x \in Procs : Firm(req[x])'
  BY <1>1, <1>2
<1>. QED BY <1>1, <1>2, <1>3 DEF Settled, Alone

\* What a request that is under way knows, and that it is the only one.
LEMMA Unaided ==
  ASSUME TypeOK, OrderInv, NEW p \in Procs, req[p].pc # "idle"
  PROVE  /\ Firm(req[p]) /\ req[p] \in Request /\ Remembers(req[p])
         /\ \A x \in Procs : x # p => req[x] = Idle
         /\ req[p].pc # "bump" => \A r \in RuleIds : ~Bumping(r)
<1>1. \A x \in Procs : x # p => req[x] = Idle
  BY DEF OrderInv, Alone, Idle
<1>2. Idle.pc = "idle"
  BY DEF Idle
<1>. QED BY <1>1, <1>2, OrderTypes DEF OrderInv, Bumping

\* A rule that was not moved stays in order when no row is added and no task
\* is opened.
RuleRests(r) ==
  IsRule(r)' => /\ IsRule(r) /\ rules'[r].anchor = rules[r].anchor
                /\ rules'[r].enabled => rules'[r] = rules[r]

RowsRest(r) == Generated(r)' = Generated(r) /\ OpenOf(r)' \subseteq OpenOf(r)

LEMMA StaysInOrder ==
  ASSUME TypeOK, TypeOK', NEW r \in RuleIds, InOrder(r), ~Bumping(r),
         RuleRests(r), RowsRest(r), now <= now',
         IsRule(r)' /\ rules'[r].enabled /\ rules'[r].anchor = "scheduled"
           => Taken(r, rules[r].current)'
  PROVE  InOrder(r)'
<1>. SUFFICES ASSUME IsRule(r)' PROVE InOrder(r)'
  BY DEF InOrder
<1>1. IsRule(r) /\ rules'[r].anchor = rules[r].anchor
  BY DEF RuleRests
<1>2. rules[r].anchor = "completion" => \E t \in TaskIds : OpenOf(r)' \subseteq {t}
  <2>1. rules[r].anchor = "completion" => \E t \in TaskIds : OpenOf(r) \subseteq {t}
    BY <1>1 DEF InOrder
  <2>. QED BY <2>1 DEF RowsRest
<1>3. ASSUME rules'[r].enabled
      PROVE  /\ Leads(r, rules[r].current)'
             /\ rules[r].anchor = "scheduled" => Ahead(r)'
  <2>1. rules'[r] = rules[r] /\ rules[r].enabled
    BY <1>3 DEF RuleRests
  <2>2. PICK c : c = rules[r].current /\ c = rules'[r].current
    BY <2>1
  <2>3. Leads(r, c)
    BY <1>1, <2>1, <2>2 DEF InOrder
  <2>4. \A k \in Generated(r) : k[2] \in Nat
    BY OrderTypes DEF Generated
  <2>5. rules[r].interval \in Nat /\ now \in Nat /\ now' \in Nat
    <3>1. rules[r] \in Rule /\ now \in Nat
      BY <1>1, OrderTypes
    <3>2. now' \in Nat
      BY BoundsAssumption DEF TypeOK
    <3>3. Intervals \subseteq Nat
      BY BoundsAssumption DEF Intervals
    <3>. QED BY <3>1, <3>2, <3>3 DEF Rule
  <2>6. rules[r].anchor = "completion" =>
          \A k \in Generated(r)' : k[2] <= now' + rules'[r].interval
    <3>. SUFFICES ASSUME rules[r].anchor = "completion", NEW k \in Generated(r)
                  PROVE  k[2] <= now' + rules[r].interval
      BY <2>1 DEF RowsRest
    <3>1. k[2] <= now + rules[r].interval
      BY <2>3 DEF Leads
    <3>. QED BY <2>4, <2>5, <3>1
  <2>7. rules[r].anchor = "scheduled" => Taken(r, c)'
    <3>1. rules[r].anchor = "scheduled" => Taken(r, rules[r].current)'
      BY <1>1, <2>1
    <3>2. Taken(r, rules[r].current)' = Taken(r, c)'
      BY <2>2
    <3>. QED BY <3>1, <3>2
  <2>8. Leads(r, c)'
    BY <2>1, <2>3, <2>6, <2>7 DEF Leads, RowsRest
  <2>9. Leads(r, rules[r].current)'
    BY <2>2, <2>8
  <2>10. rules[r].anchor = "scheduled" => Ahead(r)'
    <3>1. rules[r].anchor = "scheduled" => Ahead(r)
      BY <1>1, <2>1 DEF InOrder
    <3>2. Ahead(r)' = Ahead(r)
      BY <2>1 DEF Ahead, DayOf
    <3>. QED BY <3>1, <3>2
  <2>. QED BY <2>9, <2>10
<1>. QED BY <1>1, <1>2, <1>3 DEF InOrder

\* No completion is under way that would move rule r.
Unwatched(r) ==
  \A p \in Procs : req[p].pc # "findRule" /\ ~(req[p].pc = "insert" /\ req[p].rule = r)

\* A task of rule r is completed by its own request only.
NoneDone(r) ==
  \A t \in TaskIds : tasks'[t].status = "done" /\ tasks'[t].mark = r =>
    tasks[t].status = "done" /\ tasks[t].mark = r

\* An active scheduled rule does not stand on a done occurrence of its own
\* unless the request that is to move it is under way.
LEMMA NotLeft ==
  ASSUME OrderInv, NEW r \in RuleIds, IsRule(r), rules[r].enabled,
         rules[r].anchor = "scheduled", ~Bumping(r)
  PROVE  Taken(r, rules[r].current)
BY DEF OrderInv, InOrder, Leads

\* A rule that a step does not move, and whose tasks it does not complete.
LEMMA RestsInOrder ==
  ASSUME TypeOK, TypeOK', OrderInv, NEW r \in RuleIds, ~Bumping(r), Unwatched(r),
         RuleRests(r), RowsRest(r), NoneDone(r), now <= now'
  PROVE  InOrder(r)'
<1>1. ASSUME IsRule(r)', rules'[r].enabled, rules'[r].anchor = "scheduled"
      PROVE  Taken(r, rules[r].current)'
  <2>1. IsRule(r) /\ rules'[r] = rules[r]
    BY <1>1 DEF RuleRests
  <2>2. PICK c : c = rules[r].current /\ c = rules'[r].current
    BY <2>1
  <2>3. Taken(r, c) /\ c # None
    BY <1>1, <2>1, <2>2, NotLeft DEF OrderInv, InOrder, Leads
  <2>4. c \in TaskIds
    BY <2>1, <2>2, <2>3, SeriesTypes
  <2>5. Taken(r, c)'
    BY <2>3, <2>4 DEF Taken, NoneDone, Unwatched
  <2>. QED BY <2>2, <2>5
<1>2. InOrder(r)
  BY DEF OrderInv
<1>. QED BY <1>1, <1>2, StaysInOrder
\* The rule that is found when an active one is sought is active.
LEMMA RuleOfActive ==
  ASSUME NEW t, NEW mark, NEW r, r = RuleOf(t, mark, TRUE), r # None
  PROVE  r \in RuleIds /\ rules[r] # None /\ rules[r].enabled
<1>. DEFINE found == {x \in RuleIds :
                        /\ rules[x] # None
                        /\ IF mark # None THEN x = mark
                           ELSE t \in {rules[x].current, rules[x].series}
                        /\ rules[x].enabled}
            active == {x \in found : rules[x].enabled}
            best == IF active # {} THEN active ELSE found
<1>1. best # {} /\ best \subseteq found /\ best \subseteq RuleIds
  BY DEF RuleOf
<1>2. best \subseteq 0 .. MaxRules
  BY <1>1 DEF RuleIds
<1>3. \E x \in best : \A y \in best : y <= x
  <2>. HIDE DEF best
  <2>. QED BY <1>1, <1>2, GreatestExists, BoundsAssumption
<1>4. RuleOf(t, mark, TRUE) = CHOOSE x \in best : \A y \in best : y <= x
  BY <1>1 DEF RuleOf
<1>5. RuleOf(t, mark, TRUE) \in best
  <2>. HIDE DEF best
  <2>. QED BY <1>3, <1>4
<1>. QED BY <1>1, <1>5

\* A step that completes nothing, while no completion is under way.
LEMMA KeepsOrder ==
  ASSUME TypeOK, TypeOK', OrderInv, Settled', DuesKept', now <= now',
         \A r \in RuleIds : ~Bumping(r) /\ Unwatched(r) /\ RuleRests(r) /\ RowsRest(r) /\ NoneDone(r)
  PROVE  OrderInv'
BY RestsInOrder, OrderHolds

LEMMA TasksRest ==
  ASSUME UNCHANGED tasks
  PROVE  (\A r \in RuleIds : RowsRest(r) /\ NoneDone(r)) /\ (DuesKept => DuesKept')
BY DEF NoneDone, RowsRest, Generated, OpenOf, Members, Exists, DuesKept

LEMMA RulesRest ==
  ASSUME UNCHANGED rules
  PROVE  \A r \in RuleIds : RuleRests(r)
BY DEF RuleRests, IsRule

\* A write to one task that does not open it.
LEMMA OneTaskWritten ==
  ASSUME TypeOK, DuesKept, NEW t \in TaskIds, NEW row, tasks' = [tasks EXCEPT ![t] = row],
         row.row # "none" <=> Exists(t), row.due = tasks[t].due,
         row.status = "open" => tasks[t].status = "open" /\ row.mark = tasks[t].mark
  PROVE  (\A r \in RuleIds : RowsRest(r)) /\ DuesKept'
<1>1. \A u \in TaskIds : tasks'[u] = IF u = t THEN row ELSE tasks[u]
  BY DEF TypeOK
<1>2. \A u \in TaskIds : Exists(u)' <=> Exists(u)
  BY <1>1 DEF Exists
<1>3. OccurrenceKeys \subseteq TaskIds
  BY DEF TaskIds
<1>4. ASSUME NEW r \in RuleIds PROVE RowsRest(r)
  <2>1. Generated(r)' = Generated(r)
    BY <1>2, <1>3 DEF Generated
  <2>2. OpenOf(r)' \subseteq OpenOf(r)
    BY <1>1, <1>2 DEF OpenOf, Members
  <2>. QED BY <2>1, <2>2 DEF RowsRest
<1>5. DuesKept'
  BY <1>1, <1>2, <1>3 DEF DuesKept
<1>. QED BY <1>4, <1>5

\* Only the requests change.
LEMMA OnlyRequestsOrder ==
  ASSUME TypeOK, TypeOK', OrderInv, Settled', UNCHANGED <<now, tasks, rules>>,
         \A r \in RuleIds : ~Bumping(r) /\ Unwatched(r)
  PROVE  OrderInv'
<1>1. now <= now'
  BY OrderTypes
<1>. QED BY <1>1, TasksRest, RulesRest, KeepsOrder DEF OrderInv

\* What may be done between requests.
LEMMA BetweenRequests ==
  ASSUME Solo, Calm
  PROVE  /\ \A r \in RuleIds : ~Bumping(r) /\ Unwatched(r)
         /\ \A p \in Procs : req[p] = Idle
<1>1. \A p \in Procs : req[p] = Idle
  BY DEF Solo, Calm
<1>. QED BY <1>1 DEF Bumping, Unwatched, Idle

LEMMA BeginRequestOrder ==
  ASSUME TypeOK, TypeOK', Steady, OrderInv, NEW p \in Procs, BeginRequest(p)
  PROVE  OrderInv'
<1>1. UNCHANGED <<now, tasks, rules, ruleSeq>> /\ Calm
  BY DEF BeginRequest, BeginComplete, BeginSkip, BeginCreate, BeginUpdateRule, BeginSplit, Begin
<1>2. /\ \A r \in RuleIds : ~Bumping(r) /\ Unwatched(r)
      /\ \A x \in Procs : req[x] = Idle
  BY <1>1, BetweenRequests DEF Steady
<1>3. ASSUME NEW q, Continue(p, q), Firm(q)', q.pc # "bump" PROVE OrderInv'
  <2>1. Settled'
    BY <1>2, <1>3, FirmContinues
  <2>. QED BY <1>1, <1>2, <2>1, OnlyRequestsOrder
<1>4. ASSUME NEW t \in TaskIds, BeginComplete(p, t) PROVE OrderInv'
  <2>1. PICK noon \in {now - 1, now} :
          Continue(p, [Idle EXCEPT !.pc = "markDone", !.task = t,
                                   !.inc = tasks[t].inc, !.day = now, !.noon = noon])
    BY <1>4 DEF BeginComplete
  <2>2. PICK q : q = [Idle EXCEPT !.pc = "markDone", !.task = t,
                                  !.inc = tasks[t].inc, !.day = now, !.noon = noon]
    OBVIOUS
  <2>3. q.pc = "markDone" /\ q.day = now /\ q.noon = noon
    BY <2>2 DEF Idle
  <2>4. Firm(q)'
    BY <1>1, <2>1, <2>3 DEF Firm
  <2>. QED BY <1>3, <2>1, <2>2, <2>3, <2>4
<1>5. ASSUME NEW t \in TaskIds, BeginSkip(p, t) PROVE OrderInv'
  <2>1. PICK q : q = [Idle EXCEPT !.pc = "skipFind", !.task = t, !.inc = tasks[t].inc,
                                  !.mark = tasks[t].mark]
    OBVIOUS
  <2>2. q.pc = "skipFind"
    BY <2>1 DEF Idle
  <2>3. Firm(q)'
    BY <2>2 DEF Firm
  <2>. QED BY <1>3, <1>5, <2>1, <2>2, <2>3 DEF BeginSkip
<1>6. ASSUME NEW t \in TaskIds, NEW ask \in Cadence, BeginCreate(p, t, ask) PROVE OrderInv'
  <2>. DEFINE start == OrElse(ask.start, tasks[t].due)
  <2>1. RuleOf(t, tasks[t].mark, FALSE) = None /\ tasks[t].status = "open"
    BY <1>6 DEF BeginCreate, Begin, Steady, Solo
  <2>2. PICK m : m = tasks[t].mark
    OBVIOUS
  <2>3. RuleOf(t, m, FALSE)' = None
    BY <1>1, <2>1, <2>2 DEF RuleOf
  <2>4. PICK q : q = [Idle EXCEPT !.pc = "findExisting", !.task = t, !.inc = tasks[t].inc,
                                  !.mark = tasks[t].mark, !.due = tasks[t].due,
                                  !.ask = [ask EXCEPT !.start = start]]
    OBVIOUS
  <2>5. q.pc = "findExisting" /\ q.task = t /\ q.mark = m
    BY <2>2, <2>4 DEF Idle
  <2>6. Continue(p, q)
    BY <1>6, <2>4 DEF BeginCreate
  <2>7. RuleOf(q.task, q.mark, FALSE)' = None /\ tasks'[q.task].status = "open"
    BY <1>1, <2>1, <2>3, <2>5
  <2>8. Firm(q)'
    BY <2>5, <2>7 DEF Firm
  <2>. QED BY <1>3, <2>5, <2>6, <2>8
<1>7. ASSUME NEW r \in RuleIds, NEW ask \in RuleEdit, BeginUpdateRule(p, r, ask) PROVE OrderInv'
  BY <1>7 DEF BeginUpdateRule, Begin, Steady
<1>8. ASSUME NEW r \in RuleIds, NEW ask \in Cadence, BeginSplit(p, r, ask) PROVE OrderInv'
  <2>1. PICK t, start : t = rules[r].current /\ start = OrElse(tasks[t].due, rules[r].dtstart)
    OBVIOUS
  <2>2. PICK q : q = [Idle EXCEPT !.pc = "fork", !.task = t, !.inc = tasks[t].inc,
                                  !.rule = r, !.snap = rules[r],
                                  !.ask = [ask EXCEPT !.start = start]]
    OBVIOUS
  <2>3. Continue(p, q)
    BY <1>8, <2>1, <2>2 DEF BeginSplit
  <2>4. ruleSeq < MaxRules /\ IsRule(r) /\ rules[r].enabled
    BY <1>8 DEF BeginSplit, IsRule
  <2>5. q.pc = "fork" /\ q.rule = r /\ q.snap = rules[r] /\ q.task = t /\ q.ask.start = start
    BY <2>2 DEF Idle, Cadence
  <2>6. IsRule(q.rule)' /\ rules'[q.rule] = q.snap /\ q.snap.enabled /\ q.snap.current = q.task
    BY <1>1, <2>1, <2>4, <2>5 DEF IsRule
  <2>7. ruleSeq' < MaxRules /\ q.ask.start = OrElse(tasks'[q.task].due, q.snap.dtstart)
    BY <1>1, <2>1, <2>4, <2>5
  <2>8. Firm(q)'
    BY <2>5, <2>6, <2>7 DEF Firm
  <2>. QED BY <1>3, <2>3, <2>5, <2>8
<1>. QED BY <1>4, <1>5, <1>6, <1>7, <1>8 DEF BeginRequest

\* The reads of a request, and its ends that write nothing.
LEMMA ReadsOrder ==
  ASSUME TypeOK, TypeOK', OrderInv, NEW p \in Procs,
         \/ FindRule(p, "skipFind", "except") \/ InsertSkipException(p)
         \/ FindExisting(p) \/ RefuseRule(p) \/ RefuseFork(p)
  PROVE  OrderInv'
<1>. DEFINE q == req[p]
<1>1. /\ q.pc \in {"skipFind", "except", "findExisting", "writeRule", "fork"}
      /\ UNCHANGED <<now, tasks, rules, ruleSeq>>
  BY DEF FindRule, InsertSkipException, FindExisting, RefuseRule, RefuseFork
<1>2. /\ Firm(q) /\ q \in Request /\ Remembers(q)
      /\ \A x \in Procs : x # p => req[x] = Idle
      /\ \A r \in RuleIds : ~Bumping(r)
  BY <1>1, Unaided
<1>3. \A r \in RuleIds : Unwatched(r)
  BY <1>1, <1>2 DEF Idle, Unwatched
<1>4. ASSUME NEW z, Continue(p, z), Firm(z)', z.pc # "bump" PROVE OrderInv'
  BY <1>1, <1>2, <1>3, <1>4, FirmContinues, OnlyRequestsOrder
<1>5. ASSUME Finish(p) PROVE OrderInv'
  BY <1>1, <1>2, <1>3, <1>5, FirmEnds, OnlyRequestsOrder
<1>6. ASSUME FindRule(p, "skipFind", "except"), ~Finish(p) PROVE OrderInv'
  <2>1. PICK r : /\ r = RuleOf(q.task, q.mark, TRUE) /\ r # None
                 /\ rules[r].current \in {None, q.task}
                 /\ Continue(p, [q EXCEPT !.pc = "except", !.rule = r, !.snap = rules[r]])
    BY <1>6 DEF FindRule
  <2>2. r \in RuleIds /\ IsRule(r) /\ rules[r].enabled
    BY <2>1, RuleOfActive DEF IsRule
  <2>3. rules[r].current = q.task
    BY <1>2, <2>1, <2>2 DEF OrderInv, InOrder, Leads
  <2>4. PICK z : z = [q EXCEPT !.pc = "except", !.rule = r, !.snap = rules[r]]
    OBVIOUS
  <2>5. z.pc = "except" /\ z.rule = r /\ z.snap = rules[r] /\ z.task = q.task
    BY <1>2, <2>4 DEF Request
  <2>6. IsRule(z.rule)' /\ rules'[z.rule] = z.snap
    BY <1>1, <2>2, <2>5 DEF IsRule
  <2>7. Firm(z)'
    BY <2>2, <2>3, <2>5, <2>6 DEF Firm
  <2>. QED BY <1>4, <2>1, <2>4, <2>5, <2>7
<1>7. ASSUME InsertSkipException(p), ~Finish(p) PROVE OrderInv'
  <2>1. PICK z : z = [q EXCEPT !.pc = "reject"]
    OBVIOUS
  <2>2. Continue(p, z) /\ q.pc = "except"
    BY <1>7, <2>1 DEF InsertSkipException
  <2>3. z.pc = "reject" /\ z.rule = q.rule /\ z.snap = q.snap /\ z.task = q.task
    BY <1>2, <2>1 DEF Request
  <2>4. /\ IsRule(q.rule) /\ rules[q.rule] = q.snap /\ q.snap.enabled
        /\ q.snap.current = q.task
    BY <1>2, <2>2 DEF Firm
  <2>5. IsRule(z.rule)' /\ rules'[z.rule] = z.snap /\ z.snap.enabled /\ z.snap.current = z.task
    BY <1>1, <2>3, <2>4 DEF IsRule
  <2>6. Firm(z)'
    BY <2>3, <2>5 DEF Firm
  <2>. QED BY <1>4, <2>2, <2>3, <2>6
<1>8. ASSUME FindExisting(p) PROVE OrderInv'
  <2>1. q.pc = "findExisting"
    BY <1>8 DEF FindExisting
  <2>2. RuleOf(q.task, q.mark, FALSE) = None /\ tasks[q.task].status = "open"
    BY <1>2, <2>1 DEF Firm
  <2>3. PICK z : Continue(p, z) /\ z = [q EXCEPT !.pc = "writeRule", !.rule = None, !.snap = None]
    BY <1>8, <2>2 DEF FindExisting
  <2>4. z.pc = "writeRule" /\ z.rule = None /\ z.task = q.task /\ z.mark = q.mark
    BY <1>2, <2>3 DEF Request
  <2>5. PICK t, m : t = q.task /\ m = q.mark /\ t = z.task /\ m = z.mark
    BY <2>4
  <2>6. RuleOf(t, m, FALSE)' = None /\ tasks'[t].status = "open"
    BY <1>1, <2>2, <2>5 DEF RuleOf
  <2>7. RuleOf(z.task, z.mark, FALSE)' = None /\ tasks'[z.task].status = "open"
    BY <2>5, <2>6
  <2>8. Firm(z)'
    BY <2>4, <2>7 DEF Firm
  <2>. QED BY <1>4, <2>3, <2>4, <2>8
<1>. QED BY <1>5, <1>6, <1>7, <1>8 DEF RefuseRule, RefuseFork

\* Whoever completes the task on which a rule stands goes on to the rule.
LEMMA MarkDoneOrder ==
  ASSUME TypeOK, TypeOK', OrderInv, NEW p \in Procs, MarkDone(p)
  PROVE  OrderInv'
<1>. DEFINE q == req[p]
            t == q.task
<1>1. q.pc = "markDone" /\ UNCHANGED <<now, rules, ruleSeq>>
  BY DEF MarkDone
<1>2. /\ Firm(q) /\ q \in Request /\ t \in TaskIds /\ tasks[t] \in Task
      /\ \A x \in Procs : x # p => req[x] = Idle
      /\ \A r \in RuleIds : ~Bumping(r)
  BY <1>1, Unaided, OrderTypes DEF Remembers
<1>3. \A r \in RuleIds : Unwatched(r)
  BY <1>1, <1>2 DEF Idle, Unwatched
<1>4. CASE Finish(p) /\ UNCHANGED tasks
  BY <1>1, <1>2, <1>3, <1>4, FirmEnds, OnlyRequestsOrder
<1>5. CASE ~(Finish(p) /\ UNCHANGED tasks)
  <2>1. PICK row : row = [tasks[t] EXCEPT !.status = "done"]
    OBVIOUS
  <2>2. /\ tasks' = [tasks EXCEPT ![t] = row] /\ row.row = tasks[t].row
        /\ row.due = tasks[t].due /\ row.status = "done" /\ row.mark = tasks[t].mark
    BY <1>2, <1>5, <2>1 DEF MarkDone, Task
  <2>3. \A u \in TaskIds : tasks'[u] = IF u = t THEN row ELSE tasks[u]
    BY <2>2 DEF TypeOK
  <2>4. (\A r \in RuleIds : RowsRest(r)) /\ DuesKept'
    BY <1>2, <2>2, OneTaskWritten DEF Exists, OrderInv
  <2>5. PICK z : Continue(p, z) /\ z = [q EXCEPT !.pc = "findRule", !.mark = tasks[t].mark,
                                                 !.due = tasks[t].due]
    BY <1>5 DEF MarkDone
  <2>6. /\ z.pc = "findRule" /\ z.task = t /\ z.mark = tasks[t].mark /\ z.due = tasks[t].due
        /\ z.day = q.day /\ z.noon = q.noon
    BY <1>2, <2>5 DEF Request
  <2>7. /\ tasks'[z.task].status # "open" /\ tasks'[z.task].due = z.due
        /\ tasks'[z.task].mark = z.mark
    BY <1>2, <2>2, <2>3, <2>6
  <2>8. z.day = now' /\ z.noon \in {now' - 1, now'}
    BY <1>1, <1>2, <2>6 DEF Firm
  <2>9. Firm(z)'
    BY <2>6, <2>7, <2>8 DEF Firm
  <2>10. Settled' /\ req'[p] = z
    BY <1>2, <2>5, <2>6, <2>9, FirmContinues
  <2>11. ASSUME NEW r \in RuleIds PROVE InOrder(r)'
    <3>1. ASSUME IsRule(r), rules[r].enabled, rules[r].anchor = "scheduled"
          PROVE  Taken(r, rules[r].current)'
      <4>1. PICK c : c = rules[r].current /\ c = rules'[r].current
        BY <1>1
      <4>2. Taken(r, c) /\ c # None
        BY <1>2, <3>1, <4>1, NotLeft DEF OrderInv, InOrder, Leads
      <4>3. c \in TaskIds
        BY <3>1, <4>1, <4>2, SeriesTypes
      <4>4. ASSUME c = t PROVE Taken(r, c)'
        BY <2>6, <2>10, <4>4 DEF Taken
      <4>5. ASSUME c # t PROVE Taken(r, c)'
        BY <1>3, <2>3, <4>2, <4>3, <4>5 DEF Taken, Unwatched
      <4>6. Taken(r, c)'
        BY <4>4, <4>5
      <4>. QED BY <4>1, <4>6
    <3>2. InOrder(r) /\ RuleRests(r) /\ now <= now'
      BY <1>1, RulesRest, OrderTypes DEF OrderInv
    <3>. QED BY <1>1, <1>2, <2>4, <3>1, <3>2, StaysInOrder DEF IsRule
  <2>. QED BY <2>4, <2>10, <2>11, OrderHolds
<1>. QED BY <1>4, <1>5

\* And the rule that stands on the task is the one that is found.
LEMMA FindRuleOrder ==
  ASSUME TypeOK, TypeOK', OrderInv, NEW p \in Procs, FindRule(p, "findRule", "insert")
  PROVE  OrderInv'
<1>. DEFINE q == req[p]
            t == q.task
<1>1. q.pc = "findRule" /\ UNCHANGED <<now, tasks, rules, ruleSeq>>
  BY DEF FindRule
<1>2. /\ Firm(q) /\ q \in Request /\ t \in TaskIds
      /\ \A x \in Procs : x # p => req[x] = Idle
      /\ \A r \in RuleIds : ~Bumping(r)
  BY <1>1, Unaided DEF Remembers
<1>3. PICK r : r = RuleOf(t, q.mark, TRUE)
  OBVIOUS
<1>4. (\A x \in RuleIds : RowsRest(x) /\ RuleRests(x)) /\ DuesKept' /\ now <= now'
  BY <1>1, TasksRest, RulesRest, OrderTypes DEF OrderInv
<1>5. ASSUME NEW x \in RuleIds, IsRule(x), rules[x].enabled, rules[x].anchor = "scheduled",
             tasks[rules[x].current].status = "done", tasks[rules[x].current].mark = x
      PROVE  r = x /\ rules[x].current = t
  <2>1. rules[x].current = t
    <3>1. Taken(x, rules[x].current)
      BY <1>2, <1>5, NotLeft
    <3>. QED BY <1>1, <1>2, <1>5, <3>1 DEF Taken, Idle
  <2>2. q.mark = x /\ x # None
    BY <1>1, <1>2, <1>5, <2>1, NoneIsNoValue DEF Firm
  <2>3. r # None
    BY <1>3, <1>5, <2>2, RuleOfFinds DEF IsRule
  <2>. QED BY <1>3, <2>1, <2>2, <2>3, RuleOfReturns
<1>6. CASE r # None /\ rules[r].current \in {None, t}
  <2>1. r \in RuleIds /\ IsRule(r) /\ rules[r].enabled
    BY <1>3, <1>6, RuleOfActive DEF IsRule
  <2>2. rules[r].current = t
    BY <1>2, <1>6, <2>1 DEF OrderInv, InOrder, Leads
  <2>3. PICK z : z = [q EXCEPT !.pc = "insert", !.rule = r, !.snap = rules[r]]
    OBVIOUS
  <2>4. Continue(p, z)
    BY <1>3, <1>6, <2>3 DEF FindRule
  <2>5. /\ z.pc = "insert" /\ z.rule = r /\ z.snap = rules[r] /\ z.task = t
        /\ z.day = q.day /\ z.noon = q.noon /\ z.due = q.due
    BY <1>2, <2>3 DEF Request
  <2>6. IsRule(z.rule)' /\ rules'[z.rule] = z.snap /\ z.snap.enabled /\ z.snap.current = z.task
    BY <1>1, <2>1, <2>2, <2>5 DEF IsRule
  <2>7. /\ z.day = now' /\ z.noon \in {now' - 1, now'}
        /\ tasks'[z.task].status # "open" /\ z.due = tasks'[z.task].due
    BY <1>1, <1>2, <2>5 DEF Firm
  <2>8. Firm(z)'
    BY <2>5, <2>6, <2>7 DEF Firm
  <2>9. Settled' /\ req'[p] = z
    BY <1>2, <2>4, <2>5, <2>8, FirmContinues
  <2>10. ASSUME NEW x \in RuleIds PROVE InOrder(x)'
    <3>1. ASSUME IsRule(x), rules[x].enabled, rules[x].anchor = "scheduled"
          PROVE  Taken(x, rules[x].current)'
      BY <1>1, <1>5, <2>5, <2>9, <3>1 DEF Taken
    <3>. QED BY <1>1, <1>2, <1>4, <3>1, StaysInOrder DEF IsRule, OrderInv
  <2>. QED BY <1>4, <2>9, <2>10, OrderHolds
<1>7. CASE ~(r # None /\ rules[r].current \in {None, t})
  <2>1. Finish(p)
    BY <1>3, <1>7 DEF FindRule
  <2>2. Settled'
    BY <1>2, <2>1, FirmEnds
  <2>3. ASSUME NEW x \in RuleIds PROVE InOrder(x)'
    <3>1. ASSUME IsRule(x), rules[x].enabled, rules[x].anchor = "scheduled"
          PROVE  Taken(x, rules[x].current)'
      BY <1>1, <1>5, <1>7, <3>1, NoneIsNoValue DEF Taken
    <3>. QED BY <1>1, <1>2, <1>4, <3>1, StaysInOrder DEF IsRule, OrderInv
  <2>. QED BY <1>4, <2>2, <2>3, OrderHolds
<1>. QED BY <1>6, <1>7

LEMMA RejectSkippedOrder ==
  ASSUME TypeOK, TypeOK', OrderInv, NEW p \in Procs, RejectSkipped(p)
  PROVE  OrderInv'
<1>. DEFINE q == req[p]
            t == q.task
<1>1. q.pc = "reject" /\ UNCHANGED <<now, rules, ruleSeq>>
  BY DEF RejectSkipped
<1>2. /\ Firm(q) /\ q \in Request /\ t \in TaskIds /\ tasks[t] \in Task
      /\ \A x \in Procs : x # p => req[x] = Idle
      /\ \A r \in RuleIds : ~Bumping(r)
  BY <1>1, Unaided, OrderTypes DEF Remembers
<1>3. \A r \in RuleIds : Unwatched(r)
  BY <1>1, <1>2 DEF Idle, Unwatched
<1>4. CASE Finish(p) /\ UNCHANGED tasks
  BY <1>1, <1>2, <1>3, <1>4, FirmEnds, OnlyRequestsOrder
<1>5. CASE ~(Finish(p) /\ UNCHANGED tasks)
  <2>1. PICK row : row = [[tasks[t] EXCEPT !.status = "rejected"] EXCEPT !.mark = q.mark]
    OBVIOUS
  <2>2. tasks' = [tasks EXCEPT ![t] = row]
    BY <1>2, <1>5, <2>1 DEF RejectSkipped, TypeOK, Task
  <2>3. row.row = tasks[t].row /\ row.due = tasks[t].due /\ row.status = "rejected"
    BY <1>2, <2>1 DEF Task
  <2>4. \A u \in TaskIds : tasks'[u] = IF u = t THEN row ELSE tasks[u]
    BY <2>2 DEF TypeOK
  <2>5. (\A r \in RuleIds : RowsRest(r)) /\ DuesKept'
    BY <1>2, <2>2, <2>3, OneTaskWritten DEF Exists, OrderInv
  <2>6. \A r \in RuleIds : NoneDone(r)
    BY <2>3, <2>4 DEF NoneDone
  <2>7. PICK noon \in {now - 1, now} :
          Continue(p, [q EXCEPT !.pc = "insert", !.due = tasks[t].due, !.day = now, !.noon = noon])
    BY <1>5 DEF RejectSkipped
  <2>8. PICK z : z = [q EXCEPT !.pc = "insert", !.due = tasks[t].due, !.day = now, !.noon = noon]
    OBVIOUS
  <2>9. /\ z.pc = "insert" /\ z.rule = q.rule /\ z.snap = q.snap /\ z.task = t
        /\ z.day = now /\ z.noon = noon /\ z.due = tasks[t].due
    BY <1>2, <2>8 DEF Request
  <2>10. /\ IsRule(q.rule) /\ rules[q.rule] = q.snap /\ q.snap.enabled /\ q.snap.current = t
    BY <1>1, <1>2 DEF Firm
  <2>11. IsRule(z.rule)' /\ rules'[z.rule] = z.snap /\ z.snap.enabled /\ z.snap.current = z.task
    BY <1>1, <2>9, <2>10 DEF IsRule
  <2>12. tasks'[z.task].status # "open" /\ z.due = tasks'[z.task].due
    BY <1>2, <2>3, <2>4, <2>9
  <2>13. z.day = now' /\ z.noon \in {now' - 1, now'}
    BY <1>1, <2>7, <2>9
  <2>14. Firm(z)'
    BY <2>9, <2>11, <2>12, <2>13 DEF Firm
  <2>15. Settled'
    BY <1>2, <2>7, <2>8, <2>9, <2>14, FirmContinues
  <2>16. (\A r \in RuleIds : RuleRests(r)) /\ now <= now'
    BY <1>1, RulesRest, OrderTypes
  <2>. QED BY <1>2, <1>3, <2>5, <2>6, <2>15, <2>16, KeepsOrder
<1>. QED BY <1>4, <1>5

LEMMA EndSeriesOrder ==
  ASSUME TypeOK, TypeOK', OrderInv, NEW p \in Procs, EndSeries(p)
  PROVE  OrderInv'
<1>. DEFINE q == req[p]
<1>1. q.pc = "insert" /\ UNCHANGED <<now, tasks, ruleSeq>> /\ Finish(p)
  BY DEF EndSeries
<1>2. /\ Firm(q) /\ q.rule \in RuleIds
      /\ \A x \in Procs : x # p => req[x] = Idle
      /\ \A r \in RuleIds : ~Bumping(r)
  BY <1>1, Unaided DEF Remembers
<1>3. PICK r \in RuleIds : r = q.rule
  BY <1>2
<1>4. IsRule(r) /\ rules[r] \in Rule
  BY <1>1, <1>2, <1>3, OrderTypes DEF Firm
<1>5. PICK rule : rule = [[[rules[r] EXCEPT !.enabled = FALSE] EXCEPT !.current = None]
                                            EXCEPT !.next = None]
  OBVIOUS
<1>6. rules' = [rules EXCEPT ![r] = rule]
  BY <1>3, <1>4, <1>5 DEF EndSeries, TypeOK, IsRule, Rule
<1>7. ~rule.enabled /\ rule.anchor = rules[r].anchor
  BY <1>4, <1>5 DEF Rule
<1>8. \A x \in RuleIds : rules'[x] = IF x = r THEN rule ELSE rules[x]
  BY <1>6 DEF TypeOK
<1>9. \A x \in RuleIds : RuleRests(x)
  BY <1>4, <1>7, <1>8 DEF RuleRests, IsRule
<1>10. (\A x \in RuleIds : RowsRest(x)) /\ DuesKept' /\ now <= now'
  BY <1>1, TasksRest, OrderTypes DEF OrderInv
<1>11. Settled'
  BY <1>1, <1>2, FirmEnds
<1>12. ASSUME NEW x \in RuleIds, x # r PROVE InOrder(x)'
  <2>1. Unwatched(x)
    BY <1>1, <1>2, <1>3, <1>12 DEF Unwatched, Idle
  <2>. QED BY <1>1, <1>2, <1>9, <1>10, <1>12, <2>1, TasksRest, RestsInOrder
<1>13. InOrder(r)'
  <2>1. ~rules'[r].enabled
    BY <1>7, <1>8
  <2>. QED BY <1>2, <1>9, <1>10, <2>1, StaysInOrder DEF OrderInv
<1>. QED BY <1>10, <1>11, <1>12, <1>13, OrderHolds

\* The rule moves on to the occurrence that leads it.
LEMMA BumpRuleOrder ==
  ASSUME TypeOK, TypeOK', OrderInv, NEW p \in Procs, BumpRule(p)
  PROVE  OrderInv'
<1>. DEFINE q == req[p]
<1>1. q.pc = "bump" /\ UNCHANGED <<now, tasks, ruleSeq>> /\ Finish(p)
  BY DEF BumpRule
<1>2. /\ Firm(q) /\ q.rule \in RuleIds /\ q.next \in Dates
      /\ \A x \in Procs : x # p => req[x] = Idle
  BY <1>1, Unaided DEF Remembers
<1>3. PICK r \in RuleIds, k \in OccurrenceKeys : r = q.rule /\ k = Inserted(q)
  BY <1>2, OrderTypes DEF Inserted
<1>4. IsRule(r) /\ rules[r] \in Rule /\ Leads(r, k) /\ k = <<r, q.next>> /\ k[2] = q.next
  BY <1>1, <1>2, <1>3, OrderTypes DEF Firm, OrderInv, Inserted
<1>5. PICK rule : rule = [[[rules[r] EXCEPT !.current = k] EXCEPT !.gen = Saturate(q.snap.gen + 1)]
                                            EXCEPT !.next = q.next]
  OBVIOUS
<1>6. rules' = [rules EXCEPT ![r] = rule]
  <2>1. RowIs(<<q.rule, q.next>>, q.nextInc) /\ rules[q.rule] # None
    BY <1>1, <1>2, <1>3, <1>4 DEF Firm, Inserted, IsRule
  <2>2. rules' = [rules EXCEPT ![q.rule].current = <<q.rule, q.next>>,
                               ![q.rule].gen = Saturate(q.snap.gen + 1),
                               ![q.rule].next = q.next]
    BY <2>1 DEF BumpRule
  <2>. QED BY <1>3, <1>4, <1>5, <2>2 DEF TypeOK, Rule
<1>7. /\ rule.current = k /\ rule.next = k[2] /\ rule.anchor = rules[r].anchor
      /\ rule.interval = rules[r].interval
  BY <1>4, <1>5 DEF Rule
<1>8. \A x \in RuleIds : rules'[x] = IF x = r THEN rule ELSE rules[x]
  BY <1>6 DEF TypeOK
<1>9. (\A x \in RuleIds : RowsRest(x)) /\ DuesKept' /\ now <= now'
  BY <1>1, TasksRest, OrderTypes DEF OrderInv
<1>10. Settled'
  BY <1>1, <1>2, FirmEnds
<1>11. \A x \in RuleIds : Unwatched(x)
  BY <1>1, <1>2 DEF Idle, Unwatched
<1>12. InOrder(r)'
  <2>1. Generated(r)' = Generated(r) /\ OpenOf(r)' = OpenOf(r)
    BY <1>1 DEF Generated, OpenOf, Members, Exists
  <2>2. rule.anchor = "scheduled" => Taken(r, k)'
    BY <1>1, <1>4, <1>7, <1>11 DEF Leads, Taken, Unwatched
  <2>3. Leads(r, k)'
    BY <1>1, <1>4, <1>7, <1>8, <2>1, <2>2 DEF Leads
  <2>4. Ahead(r)'
    <3>1. k \notin Seeds /\ k[2] \in Nat /\ k[1] = r
      BY <1>4, OrderTypes
    <3>. QED BY <1>7, <1>8, <3>1 DEF Ahead, DayOf
  <2>5. rules[r].anchor = "completion" => \E t \in TaskIds : OpenOf(r)' \subseteq {t}
    BY <1>4, <2>1 DEF OrderInv, InOrder
  <2>6. Leads(r, rules[r].current)'
    BY <1>7, <1>8, <2>3
  <2>. QED BY <1>7, <1>8, <2>4, <2>5, <2>6 DEF InOrder
<1>13. ASSUME NEW x \in RuleIds, x # r PROVE InOrder(x)'
  <2>1. ~Bumping(x)
    BY <1>2, <1>3, <1>13 DEF Bumping, Idle
  <2>2. RuleRests(x)
    BY <1>8, <1>13 DEF RuleRests, IsRule
  <2>. QED BY <1>1, <1>9, <1>11, <2>1, <2>2, TasksRest, RestsInOrder
<1>. QED BY <1>9, <1>10, <1>12, <1>13, OrderHolds

\* The seed becomes the first task of its rule.
LEMMA WriteMarkerOrder ==
  ASSUME TypeOK, TypeOK', OrderInv, NEW p \in Procs, WriteMarker(p)
  PROVE  OrderInv'
<1>. DEFINE q == req[p]
            t == q.task
<1>1. q.pc = "writeMarker" /\ UNCHANGED <<now, rules, ruleSeq>> /\ Finish(p)
  BY DEF WriteMarker
<1>2. /\ Firm(q) /\ q.rule \in RuleIds /\ t \in TaskIds /\ tasks[t] \in Task
      /\ \A x \in Procs : x # p => req[x] = Idle
      /\ \A x \in RuleIds : ~Bumping(x)
  BY <1>1, Unaided, OrderTypes DEF Remembers
<1>3. \A r \in RuleIds : Unwatched(r)
  BY <1>1, <1>2 DEF Idle, Unwatched
<1>4. Settled'
  BY <1>1, <1>2, FirmEnds
<1>5. CASE UNCHANGED tasks
  BY <1>1, <1>2, <1>3, <1>4, <1>5, OnlyRequestsOrder
<1>6. CASE ~UNCHANGED tasks
  <2>1. PICK r \in RuleIds : r = q.rule
    BY <1>2
  <2>2. /\ t \in Seeds /\ IsRule(r) /\ rules[r].current = t /\ Members(r) = {}
        /\ tasks[t].status = "open"
    BY <1>1, <1>2, <2>1 DEF Firm
  <2>3. PICK due : tasks' = [tasks EXCEPT ![t].mark = q.rule, ![t].due = due]
    BY <1>6 DEF WriteMarker
  <2>4. PICK row : row = [[tasks[t] EXCEPT !.mark = r] EXCEPT !.due = due]
    OBVIOUS
  <2>5. tasks' = [tasks EXCEPT ![t] = row]
    BY <1>2, <2>1, <2>3, <2>4 DEF TypeOK, Task
  <2>6. row.row = tasks[t].row /\ row.status = "open" /\ row.mark = r
    BY <1>2, <2>2, <2>4 DEF Task
  <2>7. \A u \in TaskIds : tasks'[u] = IF u = t THEN row ELSE tasks[u]
    BY <2>5 DEF TypeOK
  <2>8. \A u \in TaskIds : Exists(u)' <=> Exists(u)
    BY <2>6, <2>7 DEF Exists
  <2>9. \A x \in RuleIds : Generated(x)' = Generated(x)
    BY <2>8, OrderTypes DEF Generated
  <2>10. DuesKept'
    BY <2>2, <2>7, <2>8, OrderTypes DEF DuesKept, OrderInv
  <2>11. OpenOf(r)' \subseteq {t} /\ \A x \in RuleIds : x # r => OpenOf(x)' \subseteq OpenOf(x)
    BY <2>2, <2>6, <2>7, <2>8 DEF OpenOf, Members
  <2>12. \A x \in RuleIds : NoneDone(x)
    BY <2>6, <2>7 DEF NoneDone
  <2>13. (\A x \in RuleIds : RuleRests(x)) /\ now <= now'
    BY <1>1, RulesRest, OrderTypes
  <2>14. ASSUME NEW x \in RuleIds, x # r PROVE InOrder(x)'
    BY <1>2, <1>3, <2>9, <2>11, <2>12, <2>13, <2>14, RestsInOrder DEF RowsRest
  <2>15. InOrder(r)'
    <3>1. InOrder(r) /\ ~Bumping(r) /\ rules'[r] = rules[r]
      BY <1>1, <1>2 DEF OrderInv
    <3>5. PICK c : c = t /\ c = rules[r].current
      BY <2>2
    <3>2. ASSUME rules[r].enabled PROVE Leads(r, c)'
      <4>1. Leads(r, c)
        BY <2>2, <3>1, <3>2, <3>5 DEF InOrder
      <4>2. Taken(r, c)'
        BY <1>2, <2>6, <2>7, <3>5 DEF Taken
      <4>. QED BY <1>1, <2>9, <2>11, <3>5, <4>1, <4>2 DEF Leads
    <3>3. rules[r].enabled => Leads(r, rules[r].current)'
      BY <1>1, <3>2, <3>5
    <3>4. Ahead(r)' = Ahead(r)
      BY <1>1 DEF Ahead, DayOf
    <3>. QED BY <1>2, <2>2, <2>11, <3>1, <3>3, <3>4 DEF InOrder, IsRule
  <2>. QED BY <1>4, <2>10, <2>14, <2>15, OrderHolds
<1>. QED BY <1>5, <1>6

\* A rule that is stopped is moved no more.
LEMMA StopRecurrenceOrder ==
  ASSUME TypeOK, TypeOK', Solo, OrderInv, NEW r \in RuleIds, StopRecurrence(r)
  PROVE  OrderInv'
<1>1. rules[r] \in Rule /\ Calm /\ UNCHANGED <<now, tasks, ruleSeq, req>>
  BY DEF StopRecurrence, TypeOK
<1>2. PICK rule : rule = [[rules[r] EXCEPT !.enabled = FALSE] EXCEPT !.next = None]
  OBVIOUS
<1>3. rules' = [rules EXCEPT ![r] = rule]
  BY <1>1, <1>2 DEF StopRecurrence, TypeOK, Rule
<1>4. ~rule.enabled /\ rule.anchor = rules[r].anchor /\ rules[r] # None
  BY <1>1, <1>2 DEF Rule, StopRecurrence
<1>5. \A x \in RuleIds : rules'[x] = IF x = r THEN rule ELSE rules[x]
  BY <1>3 DEF TypeOK
<1>6. \A x \in RuleIds : RuleRests(x)
  BY <1>4, <1>5 DEF RuleRests, IsRule
<1>7. Settled'
  BY <1>1, FirmUndisturbed
<1>8. now <= now'
  BY <1>1, OrderTypes
<1>. QED BY <1>1, <1>6, <1>7, <1>8, BetweenRequests, TasksRest, KeepsOrder DEF OrderInv

\* A task is cancelled, trashed or restored.
LEMMA EditTaskOrder ==
  ASSUME TypeOK, TypeOK', Steady, OrderInv, NEW t \in TaskIds, EditTask(t)
  PROVE  OrderInv'
<1>1. tasks[t] \in Task
  BY DEF TypeOK
<1>2. ASSUME NEW row, tasks' = [tasks EXCEPT ![t] = row], tasks[t].row # "none",
             row.row # "none", row.due = tasks[t].due, row.mark = tasks[t].mark,
             row.status \in {tasks[t].status, "rejected"},
             Calm, UNCHANGED <<now, rules, ruleSeq, req>>
      PROVE  OrderInv'
  <2>1. (\A x \in RuleIds : RowsRest(x)) /\ DuesKept'
    BY <1>2, OneTaskWritten DEF Exists, OrderInv
  <2>2. \A u \in TaskIds : tasks'[u] = IF u = t THEN row ELSE tasks[u]
    BY <1>2 DEF TypeOK
  <2>3. \A x \in RuleIds : NoneDone(x)
    BY <1>2, <2>2 DEF NoneDone
  <2>4. Settled'
    BY <1>2, FirmUndisturbed DEF Steady
  <2>5. (\A x \in RuleIds : RuleRests(x)) /\ now <= now'
    BY <1>2, RulesRest, OrderTypes
  <2>. QED BY <1>2, <2>1, <2>3, <2>4, <2>5, BetweenRequests, KeepsOrder DEF Steady
<1>3. ASSUME NEW status \in {"open", "rejected"}, SetStatus(t, status) PROVE OrderInv'
  <2>1. status = "rejected"
    BY <1>3 DEF SetStatus, Steady
  <2>2. PICK row : row = [tasks[t] EXCEPT !.status = status]
    OBVIOUS
  <2>3. /\ row.row = tasks[t].row /\ row.due = tasks[t].due /\ row.mark = tasks[t].mark
        /\ row.status = "rejected"
    BY <1>1, <2>1, <2>2 DEF Task
  <2>4. tasks' = [tasks EXCEPT ![t] = row] /\ tasks[t].row = "live"
    BY <1>3, <2>2 DEF SetStatus
  <2>. QED BY <1>2, <1>3, <2>3, <2>4 DEF SetStatus
<1>4. ASSUME NEW d, Reschedule(t, d) PROVE OrderInv'
  BY <1>4 DEF Reschedule, Steady
<1>5. ASSUME NEW state \in {"trashed", "live"}, tasks' = [tasks EXCEPT ![t].row = state],
             tasks[t].row # "none", Calm, UNCHANGED <<now, rules, ruleSeq, req>>
      PROVE  OrderInv'
  <2>1. PICK row : row = [tasks[t] EXCEPT !.row = state]
    OBVIOUS
  <2>2. /\ row.row = state /\ row.due = tasks[t].due /\ row.mark = tasks[t].mark
        /\ row.status = tasks[t].status
    BY <1>1, <2>1 DEF Task
  <2>. QED BY <1>2, <1>5, <2>1, <2>2
<1>6. ASSUME Trash(t) \/ Restore(t) PROVE OrderInv'
  BY <1>5, <1>6 DEF Trash, Restore
<1>7. ASSUME Purge(t) PROVE OrderInv'
  BY <1>7 DEF Purge, Steady
<1>. QED BY <1>3, <1>4, <1>6, <1>7 DEF EditTask

\* A day passes between requests.
LEMMA TickOrder ==
  ASSUME TypeOK, TypeOK', Solo, OrderInv, Tick
  PROVE  OrderInv'
<1>1. Calm /\ UNCHANGED <<tasks, rules, req>> /\ now' = now + 1
  BY DEF Tick
<1>2. Settled'
  BY <1>1, FirmUndisturbed
<1>3. now <= now'
  BY <1>1, OrderTypes
<1>. QED BY <1>1, <1>2, <1>3, BetweenRequests, TasksRest, RulesRest, KeepsOrder DEF OrderInv

\* No rule is edited or rewritten.
LEMMA NoRewriting ==
  ASSUME OrderInv, NEW p \in Procs, RewriteRule(p) \/ WriteUpdate(p)
  PROVE  FALSE
BY DEF OrderInv, Firm, RewriteRule, WriteUpdate

\* A rule that has not been inserted has no tasks.
LEMMA NewRuleIsBare ==
  ASSUME TypeOK, SeriesInv, NEW r \in RuleIds, r = ruleSeq + 1
  PROVE  /\ Generated(r) = {} /\ Members(r) = {} /\ ~IsRule(r)
         /\ \A t \in TaskIds : Exists(t) => tasks[t].mark # r
<1>1. ruleSeq \in Nat /\ ~(r <= ruleSeq) /\ r # None
  BY NoneIsNoValue, OrderTypes
<1>2. \A t \in TaskIds : Exists(t) => tasks[t].mark # r
  BY <1>1 DEF SeriesInv, TasksBelong, Belongs
<1>3. Generated(r) = {}
  BY <1>1, OrderTypes DEF Generated, SeriesInv, TasksBelong, Known
<1>4. Members(r) = {}
  BY <1>2 DEF Members
<1>5. ~IsRule(r)
  BY <1>1 DEF SeriesInv, RulesKnown
<1>. QED BY <1>2, <1>3, <1>4, <1>5

\* The columns of a rule that is attached to a task.
LEMMA AttachedFields ==
  ASSUME NEW q \in Request, q.ask \in Asked, q.task \in TaskIds, NEW rule \in Rule,
         NEW new, new = Attached(q, rule)
  PROVE  /\ new.dtstart \in Dates /\ new.enabled /\ new.current = q.task
         /\ new.next # None => new.next \in Dates /\ new.next > new.dtstart
<1>. DEFINE c == [rule EXCEPT !.interval = q.ask.interval, !.count = q.ask.count,
                              !.until = None, !.dtstart = q.ask.start,
                              !.anchor = q.ask.anchor, !.enabled = TRUE,
                              !.current = q.task]
            next == After(Expansion(c, c.dtstart), c.dtstart)
<1>1. c \in Rule /\ c.dtstart \in Dates /\ c.dtstart = q.ask.start /\ c.enabled /\ c.current = q.task
  BY BoundsAssumption DEF Asked, Rule
<1>2. new = [c EXCEPT !.next = next]
  BY DEF Attached
<1>. HIDE DEF c
<1>3. next # None => next \in Dates /\ next > c.dtstart
  <2>1. c.dtstart \in Int
    BY <1>1 DEF Dates
  <2>. QED BY <2>1, ExpansionType, AfterReturns
<1>. HIDE DEF next
<1>. QED BY <1>1, <1>2, <1>3 DEF Rule

\* A rule is attached to a task that has none.
LEMMA InsertRuleOrder ==
  ASSUME TypeOK, TypeOK', SeriesInv, OrderInv, NEW p \in Procs, InsertRule(p)
  PROVE  OrderInv'
<1>1. PICK q \in Request : q = req[p]
  BY OrderTypes
<1>2. q.pc = "writeRule" /\ q.task \in Seeds /\ UNCHANGED <<now, tasks>>
  BY <1>1 DEF InsertRule
<1>3. /\ Firm(q) /\ q.ask \in Asked /\ q.task \in TaskIds
      /\ \A x \in Procs : x # p => req[x] = Idle
      /\ \A x \in RuleIds : ~Bumping(x)
  BY <1>1, <1>2, Unaided DEF Remembers
<1>4. PICK t \in Seeds, r \in RuleIds : t = q.task /\ r = ruleSeq + 1 /\ ruleSeq' = r
  BY <1>1, <1>2 DEF InsertRule
<1>5. tasks[t].status = "open"
  BY <1>2, <1>3, <1>4 DEF Firm
<1>6. PICK blank \in Rule :
        blank = [series |-> q.task, enabled |-> TRUE, current |-> None,
                 anchor |-> q.ask.anchor, dtstart |-> q.ask.start,
                 interval |-> q.ask.interval, until |-> None,
                 count |-> q.ask.count, gen |-> 1, next |-> None]
  BY <1>2, <1>3, BlankType
<1>7. PICK rule \in Rule : rule = Attached(q, blank)
  BY <1>3, AttachedType
<1>8. rules' = [rules EXCEPT ![r] = rule]
  BY <1>1, <1>4, <1>6, <1>7 DEF InsertRule
<1>9. \A x \in RuleIds : rules'[x] = IF x = r THEN rule ELSE rules[x]
  BY <1>8 DEF TypeOK
<1>10. /\ rule.current = t /\ rule.enabled /\ rule.dtstart \in Dates /\ rule # None
       /\ rule.next # None => rule.next \in Dates /\ rule.next > rule.dtstart
  BY <1>3, <1>4, <1>7, AttachedFields, RowAssumption
<1>11. Generated(r) = {} /\ Members(r) = {}
  BY <1>4, NewRuleIsBare
<1>12. \A x \in RuleIds : /\ Generated(x)' = Generated(x) /\ OpenOf(x)' = OpenOf(x)
                          /\ Members(x)' = Members(x)
  BY <1>2 DEF Generated, OpenOf, Members, Exists
<1>13. PICK z : z = [q EXCEPT !.pc = "writeMarker", !.rule = r]
  OBVIOUS
<1>14. Continue(p, z) /\ z.pc = "writeMarker" /\ z.rule = r /\ z.task = t
  BY <1>1, <1>4, <1>13 DEF InsertRule, Request
<1>15. Firm(z)'
  <2>1. IsRule(z.rule)' /\ rules'[z.rule].current = z.task /\ Members(z.rule)' = {}
    BY <1>9, <1>10, <1>11, <1>12, <1>14 DEF IsRule
  <2>2. tasks'[z.task].status = "open" /\ z.task \in Seeds
    BY <1>2, <1>4, <1>5, <1>14
  <2>. QED BY <1>14, <2>1, <2>2 DEF Firm
<1>16. Settled'
  BY <1>3, <1>14, <1>15, FirmContinues
<1>17. (\A x \in RuleIds : RowsRest(x) /\ NoneDone(x)) /\ DuesKept' /\ now <= now'
  BY <1>2, TasksRest, OrderTypes DEF OrderInv
<1>18. ASSUME NEW x \in RuleIds, x # r PROVE InOrder(x)'
  <2>1. RuleRests(x)
    BY <1>9, <1>18 DEF RuleRests, IsRule
  <2>2. Unwatched(x)
    BY <1>1, <1>2, <1>3 DEF Unwatched, Idle
  <2>. QED BY <1>3, <1>17, <2>1, <2>2, RestsInOrder
<1>19. InOrder(r)'
  <2>1. Leads(r, t)'
    <3>1. Taken(r, t)'
      BY <1>2, <1>5 DEF Taken
    <3>2. t # None
      BY SeriesTypes
    <3>3. OpenOf(r)' = {}
      BY <1>11, <1>12 DEF OpenOf
    <3>. QED BY <1>11, <1>12, <3>1, <3>2, <3>3 DEF Leads
  <2>2. Leads(r, rules[r].current)'
    BY <1>9, <1>10, <2>1
  <2>3. Ahead(r)'
    <3>1. rules'[r] = rule /\ t \notin OccurrenceKeys
      BY <1>9, OrderTypes
    <3>2. rule.next # None => rule.next >= rule.dtstart
      <4>1. rule.dtstart \in Nat /\ (rule.next # None => rule.next \in Nat)
        BY <1>10, DatesAreNaturals
      <4>2. rule.next # None => rule.next > rule.dtstart
        BY <1>10
      <4>. QED BY <4>1, <4>2
    <3>. QED BY <1>10, <3>1, <3>2 DEF Ahead, DayOf
  <2>4. OpenOf(r)' \subseteq {t} /\ t \in TaskIds
    BY <1>11, <1>12, OrderTypes DEF OpenOf
  <2>. QED BY <2>2, <2>3, <2>4 DEF InOrder
<1>. QED BY <1>16, <1>17, <1>18, <1>19, OrderHolds

\* The columns of the rule that takes over after a fork.
LEMMA ForkedFields ==
  ASSUME NEW q \in Request, q.ask \in Asked, q.snap \in Rule, q.task \in TaskIds,
         NEW new, new = ForkedRule(q)
  PROVE  /\ new \in Rule /\ new.enabled /\ new.current = q.task
         /\ new.anchor = q.ask.anchor
         /\ new.anchor # "completion" /\ new.next # None =>
              new.next \in Dates /\ new.next > q.ask.start /\ new.dtstart = new.next
<1>. DEFINE base == [q.snap EXCEPT !.current = q.task, !.enabled = TRUE,
                             !.anchor = q.ask.anchor, !.interval = q.ask.interval,
                             !.count = q.ask.count, !.until = None,
                             !.dtstart = q.ask.start, !.next = None]
            first == After(Expansion(base, q.ask.start), q.ask.start)
            moved == [base EXCEPT !.dtstart = OrElse(first, q.ask.start),
                                  !.next = first, !.gen = 0]
<1>1. base \in Rule /\ base.enabled /\ base.current = q.task /\ base.anchor = q.ask.anchor
  BY BoundsAssumption DEF Asked, Rule
<1>2. first # None => first \in Dates /\ first > q.ask.start
  <2>1. q.ask.start \in Int
    BY DEF Asked, Dates
  <2>. HIDE DEF base
  <2>. QED BY <2>1, ExpansionType, AfterReturns
<1>3. new = IF q.ask.anchor = "completion" THEN base ELSE moved
  BY DEF ForkedRule
<1>4. new \in Rule
  BY ForkedRuleType
<1>. HIDE DEF base, first
<1>5. /\ moved.enabled /\ moved.current = q.task /\ moved.anchor = q.ask.anchor
      /\ moved.next = first
      /\ first # None => moved.dtstart = first
  BY <1>1 DEF Rule, OrElse
<1>. HIDE DEF moved
<1>6. new.enabled /\ new.current = q.task /\ new.anchor = q.ask.anchor
  BY <1>1, <1>3, <1>5
<1>7. q.ask.anchor # "completion" => new = moved
  BY <1>3
<1>8. new.anchor # "completion" /\ new.next # None =>
        new.next \in Dates /\ new.next > q.ask.start /\ new.dtstart = new.next
  BY <1>2, <1>5, <1>6, <1>7
<1>. QED BY <1>4, <1>6, <1>8

\* A fork hands the current occurrence over to a chain, or starts a scheduled
\* rule after it.
LEMMA ForkOrder ==
  ASSUME TypeOK, TypeOK', SeriesInv, OrderInv, NEW p \in Procs, Fork(p)
  PROVE  OrderInv'
<1>1. PICK q \in Request : q = req[p]
  BY OrderTypes
<1>2. /\ q.pc = "fork" /\ q.rule \in RuleIds /\ q.snap \in Rule /\ q.task \in TaskIds
      /\ q.ask \in Asked /\ Finish(p) /\ ~ForkRefused(q) /\ UNCHANGED now
  BY <1>1, OrderTypes DEF Fork, Remembers
<1>3. /\ Firm(q)
      /\ \A x \in Procs : x # p => req[x] = Idle
      /\ \A x \in RuleIds : ~Bumping(x)
  BY <1>1, <1>2, Unaided
<1>4. PICK r \in RuleIds : r = ruleSeq + 1
  BY <1>2, BoundsAssumption DEF ForkRefused, TypeOK, RuleIds
<1>5. PICK old \in RuleIds, t \in TaskIds : old = q.rule /\ t = q.task
  BY <1>2
<1>6. IsRule(old) /\ rules[old] \in Rule /\ rules[old] = q.snap /\ Exists(t) /\ tasks[t] \in Task
  BY <1>2, <1>3, <1>5, OrderTypes DEF Firm, ForkRefused, RowIs, Exists
<1>7. /\ Generated(r) = {} /\ Members(r) = {} /\ ~IsRule(r)
      /\ \A u \in TaskIds : Exists(u) => tasks[u].mark # r
  BY <1>4, NewRuleIsBare
<1>8. PICK new : new = ForkedRule(q)
  OBVIOUS
<1>9. /\ new \in Rule /\ new.enabled /\ new.current = t /\ new.anchor = q.ask.anchor
      /\ new.anchor # "completion" /\ new.next # None =>
           new.next \in Dates /\ new.next > q.ask.start /\ new.dtstart = new.next
  BY <1>2, <1>5, <1>8, ForkedFields
<1>10. PICK current :
         rules' = [rules EXCEPT
                     ![old].enabled = FALSE, ![old].next = None,
                     ![old].count = None, ![old].until = q.ask.start,
                     ![old].interval = q.snap.interval, ![old].current = current,
                     ![r] = new]
  BY <1>1, <1>4, <1>5, <1>8 DEF Fork
<1>11. old # r
  BY <1>6, <1>7
<1>12. /\ rules'[r] = new
       /\ ~rules'[old].enabled /\ rules'[old].anchor = rules[old].anchor
       /\ \A x \in RuleIds : x # r /\ x # old => rules'[x] = rules[x]
  BY <1>6, <1>10, <1>11 DEF TypeOK, Rule
<1>13. PICK row : /\ row \in {tasks[t], [tasks[t] EXCEPT !.mark = r]}
                  /\ q.ask.anchor # "completion" => row = tasks[t]
                  /\ tasks' = [tasks EXCEPT ![t] = row]
  <2>1. tasks' = IF q.ask.anchor = "completion" THEN [tasks EXCEPT ![t].mark = r] ELSE tasks
    BY <1>1, <1>4, <1>5 DEF Fork
  <2>2. tasks = [tasks EXCEPT ![t] = tasks[t]]
    BY DEF TypeOK
  <2>. QED BY <2>1, <2>2
<1>14. /\ row.row = tasks[t].row /\ row.due = tasks[t].due /\ row.status = tasks[t].status
       /\ row.mark \in {tasks[t].mark, r}
       /\ q.ask.anchor # "completion" => row.mark = tasks[t].mark
  BY <1>6, <1>13 DEF Task
<1>15. \A u \in TaskIds : tasks'[u] = IF u = t THEN row ELSE tasks[u]
  BY <1>13 DEF TypeOK
<1>16. \A u \in TaskIds : (Exists(u)' <=> Exists(u)) /\ tasks'[u].due = tasks[u].due
                          /\ tasks'[u].status = tasks[u].status
  BY <1>14, <1>15 DEF Exists
<1>17. DuesKept' /\ \A x \in RuleIds : Generated(x)' = Generated(x)
  BY <1>16, OrderTypes DEF DuesKept, OrderInv, Generated
<1>18. \A x \in RuleIds : x # r => OpenOf(x)' \subseteq OpenOf(x) /\ NoneDone(x)
  BY <1>14, <1>15, <1>16 DEF OpenOf, Members, NoneDone
<1>19. /\ OpenOf(r)' \subseteq {t}
       /\ q.ask.anchor # "completion" => tasks'[t].mark # r
  BY <1>6, <1>7, <1>14, <1>15, <1>16 DEF OpenOf, Members
<1>20. Settled' /\ now <= now'
  BY <1>2, <1>3, FirmEnds, OrderTypes
<1>21. ASSUME NEW x \in RuleIds, x # r PROVE InOrder(x)'
  <2>1. RuleRests(x) /\ RowsRest(x)
    BY <1>6, <1>12, <1>17, <1>18, <1>21 DEF RuleRests, RowsRest, IsRule
  <2>2. Unwatched(x)
    BY <1>1, <1>2, <1>3 DEF Unwatched, Idle
  <2>. QED BY <1>3, <1>18, <1>20, <1>21, <2>1, <2>2, RestsInOrder
<1>22. InOrder(r)'
  <2>1. Generated(r)' = {} /\ t # None
    BY <1>7, <1>17, NoneIsNoValue
  <2>2. new.anchor = "scheduled" => Taken(r, t)'
    BY <1>9, <1>19 DEF Taken
  <2>3. Leads(r, t)'
    BY <1>12, <1>19, <2>1, <2>2 DEF Leads
  <2>4. new.anchor = "scheduled" => Ahead(r)'
    <3>. SUFFICES ASSUME new.anchor = "scheduled", new.next # None
                  PROVE  /\ new.next >= IF t \in Seeds THEN new.dtstart ELSE t[2]
                         /\ t \in OccurrenceKeys => new.next > t[2]
      BY <1>9, <1>12 DEF Ahead, DayOf
    <3>1. new.next \in Nat /\ new.next > q.ask.start /\ new.dtstart = new.next
      BY <1>9, DatesAreNaturals
    <3>2. t \in OccurrenceKeys => q.ask.start = t[2]
      <4>1. q.ask.start = OrElse(tasks[t].due, q.snap.dtstart)
        BY <1>2, <1>3, <1>5 DEF Firm
      <4>2. t \in OccurrenceKeys => tasks[t].due = t[2] /\ t[2] # None
        BY <1>6, OrderTypes DEF OrderInv, DuesKept
      <4>. QED BY <4>1, <4>2 DEF OrElse
    <3>3. t \notin Seeds => t \in OccurrenceKeys /\ t[2] \in Nat
      BY OrderTypes, DatesAreNaturals DEF TaskIds
    <3>4. t \in Seeds => t \notin OccurrenceKeys
      BY OrderTypes
    <3>. QED BY <3>1, <3>2, <3>3, <3>4
  <2>5. Leads(r, rules[r].current)'
    BY <1>9, <1>12, <2>3
  <2>. QED BY <1>12, <1>19, <2>4, <2>5 DEF InOrder
<1>. QED BY <1>17, <1>20, <1>21, <1>22, OrderHolds

\* A whole number of steps is one at least.
LEMMA StepsOf ==
  ASSUME NEW m \in Nat, NEW i \in Nat, i > 0, m > 0, m % i = 0
  PROVE  m >= i /\ m \div i >= 1
<1>1. m = i * (m \div i) + (m % i) /\ m \div i \in Int
  OBVIOUS
<1>2. PICK d \in Int : d = m \div i /\ m = i * d
  BY <1>1
<1>3. d >= 1
  <2>1. d <= 0 => i * d <= 0
    OBVIOUS
  <2>. QED BY <1>2, <2>1
<1>4. i * d >= i
  <2>1. d - 1 >= 0 => i * (d - 1) >= 0
    BY <1>3
  <2>2. i * (d - 1) = i * d - i
    OBVIOUS
  <2>. QED BY <1>3, <2>1, <2>2
<1>. QED BY <1>2, <1>3, <1>4

LEMMA OneStep ==
  ASSUME NEW i \in Nat, i > 0
  PROVE  i % i = 0 /\ i \div i = 1
OBVIOUS

\* The next occurrence of a scheduled rule comes after the one that was done,
\* and that of a completion rule one step after the day it was done.
LEMMA NextIsLater ==
  ASSUME NEW rule \in Rule, NEW due \in Dates \cup {None},
         NEW day \in Dates, NEW noon \in Dates,
         NEW n, n = ComputeNext(rule, due, day, noon), n # None
  PROVE  /\ n \in Dates
         /\ rule.anchor = "scheduled" => n > OrElse(due, rule.dtstart)
         /\ rule.anchor = "completion" => n = day + rule.interval
<1>1. n \in Dates
  BY ComputeNextType
<1>2. ASSUME rule.anchor = "scheduled" PROVE n > OrElse(due, rule.dtstart)
  <2>1. PICK start \in Dates : start = OrElse(due, rule.dtstart)
    BY DEF OrElse, Rule
  <2>2. PICK cursor \in Dates : cursor = MaxDate(start, noon)
    BY MaxDateType
  <2>3. n = After(Expansion(rule, rule.dtstart), cursor)
    BY <1>2, <2>1, <2>2 DEF ComputeNext
  <2>4. n > cursor
    BY <2>3, ExpansionType, AfterReturns, DatesAreNaturals
  <2>5. start <= cursor
    BY <2>2, DatesAreNaturals DEF MaxDate
  <2>. QED BY <1>1, <2>1, <2>4, <2>5, DatesAreNaturals
<1>3. ASSUME rule.anchor = "completion" PROVE n = day + rule.interval
  <2>1. PICK i \in Nat : i = rule.interval /\ i > 0
    BY BoundsAssumption DEF Rule, Intervals
  <2>2. n = After(Expansion(rule, day), day)
    BY <1>3 DEF ComputeNext
  <2>3. /\ n \in Expansion(rule, day) /\ n > day
        /\ \A e \in Expansion(rule, day) : e > day => n <= e
    BY <2>2, ExpansionType, AfterReturns, DatesAreNaturals
  <2>4. PICK m \in Nat : m = n - day /\ m > 0 /\ n \in Nat /\ day \in Nat
    BY <1>1, <2>3, DatesAreNaturals
  <2>5. /\ m % i = 0
        /\ rule.until # None => n <= rule.until
        /\ rule.count # None => m \div i < rule.count
    BY <2>1, <2>3, <2>4 DEF Expansion
  <2>6. m >= i /\ m \div i >= 1 /\ m \div i \in Int
    BY <2>1, <2>4, <2>5, StepsOf
  <2>7. PICK e \in Dates : e = day + i
    BY <1>1, <2>1, <2>4, <2>6, BoundsAssumption DEF Dates
  <2>8. e - day = i /\ i % i = 0 /\ i \div i = 1
    BY <2>1, <2>4, <2>7, OneStep
  <2>9. e \in Expansion(rule, day)
    <3>1. e >= day /\ e <= n
      BY <2>1, <2>4, <2>6, <2>7
    <3>2. rule.until # None => e <= rule.until
      <4>1. rule.until # None => rule.until \in Nat
        BY DatesAreNaturals DEF Rule
      <4>. QED BY <2>4, <2>5, <2>7, <3>1, <4>1, DatesAreNaturals
    <3>3. rule.count # None => 1 < rule.count
      <4>1. rule.count # None => rule.count \in Nat
        BY BoundsAssumption DEF Rule
      <4>. QED BY <2>5, <2>6, <4>1
    <3>. QED BY <2>1, <2>7, <2>8, <3>1, <3>2, <3>3 DEF Expansion
  <2>10. n <= e /\ e <= n
    BY <2>1, <2>3, <2>4, <2>6, <2>7, <2>9
  <2>. QED BY <2>1, <2>4, <2>7, <2>10
<1>. QED BY <1>1, <1>2, <1>3

\* What the insertion of occurrences does to the tasks of the rules.
LEMMA InsertedRows ==
  ASSUME TypeOK, DuesKept, NEW r \in RuleIds, NEW days \in SUBSET Dates,
         InsertOccurrences(r, days)
  PROVE  /\ Generated(r)' = Generated(r) \cup ({r} \X days)
         /\ OpenOf(r)' \subseteq OpenOf(r) \cup ({r} \X days)
         /\ \A t \in TaskIds : Exists(t) => tasks'[t] = tasks[t]
         /\ \A t \in {r} \X days : ~Exists(t) => tasks'[t].status = "open"
         /\ \A x \in RuleIds : NoneDone(x) /\ (x # r => RowsRest(x))
         /\ DuesKept'
<1>1. \A t \in TaskIds : Exists(t) \/ t \notin {r} \X days => tasks'[t] = tasks[t]
  BY DEF InsertOccurrences, Exists
<1>2. {r} \X days \subseteq OccurrenceKeys /\ OccurrenceKeys \subseteq TaskIds
  BY DEF OccurrenceKeys, TaskIds
<1>3. ASSUME NEW t \in {r} \X days, ~Exists(t)
      PROVE  /\ tasks'[t].row = "live" /\ tasks'[t].status = "open"
             /\ tasks'[t].mark = r /\ tasks'[t].due = t[2]
  <2>1. tasks'[t] = [row |-> "live", inc |-> tasks[t].inc, status |-> "open",
                     mark |-> r, due |-> t[2]]
    BY <1>2, <1>3 DEF InsertOccurrences, Exists
  <2>. QED BY <2>1
<1>4. \A t \in TaskIds : Exists(t)' <=> Exists(t) \/ t \in {r} \X days
  BY <1>1, <1>3 DEF Exists
<1>5. \A x \in RuleIds : Generated(x)' = IF x = r THEN Generated(x) \cup ({r} \X days)
                                         ELSE Generated(x)
  BY <1>2, <1>4 DEF Generated
<1>6. \A t \in TaskIds : t \in {r} \X days \/ tasks'[t] = tasks[t]
  BY <1>1
<1>7. OpenOf(r)' \subseteq OpenOf(r) \cup ({r} \X days)
  BY <1>4, <1>6 DEF OpenOf, Members
<1>8. ASSUME NEW x \in RuleIds, x # r PROVE OpenOf(x)' \subseteq OpenOf(x)
  BY <1>1, <1>3, <1>4, <1>8 DEF OpenOf, Members
<1>9. \A x \in RuleIds : NoneDone(x)
  BY <1>1, <1>3 DEF NoneDone
<1>10. DuesKept'
  BY <1>1, <1>2, <1>3, <1>4 DEF DuesKept
<1>. QED BY <1>1, <1>3, <1>5, <1>7, <1>8, <1>9, <1>10 DEF RowsRest

\* The occurrence that a request inserts leads its rule: it is later than the
\* others, and nothing else of a chain is open.
LEMMA InsertNextOrder ==
  ASSUME TypeOK, TypeOK', OrderInv, NEW p \in Procs, InsertNext(p)
  PROVE  OrderInv'
<1>1. PICK q \in Request : q = req[p]
  BY OrderTypes
<1>2. /\ q.pc = "insert" /\ q.rule \in RuleIds /\ q.task \in TaskIds /\ q.snap \in Rule
      /\ UNCHANGED <<now, rules, ruleSeq>>
  BY <1>1, OrderTypes DEF InsertNext, Remembers
<1>3. /\ Firm(q)
      /\ \A x \in Procs : x # p => req[x] = Idle
      /\ \A x \in RuleIds : ~Bumping(x)
  BY <1>1, <1>2, Unaided
<1>4. PICK n : /\ n = ComputeNext(q.snap, q.due, q.day, q.noon) /\ n # None
               /\ InsertOccurrences(q.rule, {n})
  BY <1>1 DEF InsertNext
<1>5. PICK r \in RuleIds, t \in TaskIds : r = q.rule /\ t = q.task
  BY <1>2
<1>6. /\ IsRule(r) /\ rules[r] = q.snap /\ rules[r].enabled /\ rules[r].current = t
      /\ tasks[t].status # "open" /\ q.due = tasks[t].due /\ q.day = now
  BY <1>2, <1>3, <1>5 DEF Firm
<1>7. /\ n \in Dates
      /\ rules[r].anchor = "scheduled" => n > OrElse(q.due, rules[r].dtstart)
      /\ rules[r].anchor = "completion" => n = now + rules[r].interval
  BY <1>2, <1>4, <1>6, NextIsLater DEF Request
<1>8. PICK k \in OccurrenceKeys : k = <<r, n>> /\ k[1] = r /\ k[2] = n
  BY <1>7, OrderTypes
<1>9. k \in TaskIds /\ k \notin Seeds /\ {r} \X {n} = {k} /\ n \in Nat
  BY <1>7, <1>8, OrderTypes, DatesAreNaturals
<1>10. /\ Generated(r)' = Generated(r) \cup {k}
       /\ OpenOf(r)' \subseteq OpenOf(r) \cup {k}
       /\ \A u \in TaskIds : Exists(u) => tasks'[u] = tasks[u]
       /\ ~Exists(k) => tasks'[k].status = "open"
       /\ \A x \in RuleIds : NoneDone(x) /\ (x # r => RowsRest(x))
       /\ DuesKept'
  <2>1. InsertOccurrences(r, {n}) /\ {n} \in SUBSET Dates /\ DuesKept
    BY <1>4, <1>5, <1>7 DEF OrderInv
  <2>. QED BY <1>9, <2>1, InsertedRows
<1>11. Leads(r, t)
  BY <1>3, <1>6 DEF OrderInv, InOrder
<1>12. ASSUME NEW j \in Generated(r)
       PROVE  /\ j[2] \in Nat
              /\ rules[r].anchor = "scheduled" => j[2] < n
              /\ rules[r].anchor = "completion" => j[2] <= n
  <2>1. j \in OccurrenceKeys /\ j[2] \in Nat
    BY OrderTypes DEF Generated
  <2>2. t \in Generated(r) /\ j[2] <= t[2]
    BY <1>11 DEF Leads
  <2>3. t \in OccurrenceKeys /\ Exists(t) /\ t[2] \in Nat /\ t[2] # None
    BY <2>2, OrderTypes DEF Generated
  <2>4. q.due = t[2]
    BY <1>6, <2>3 DEF OrderInv, DuesKept
  <2>5. rules[r].anchor = "scheduled" => j[2] < n
    BY <1>7, <1>9, <2>1, <2>2, <2>3, <2>4 DEF OrElse
  <2>6. rules[r].anchor = "completion" => j[2] <= n
    BY <1>7, <1>11 DEF Leads
  <2>. QED BY <2>1, <2>5, <2>6
<1>13. rules[r].anchor = "scheduled" => ~Exists(k)
  <2>. SUFFICES ASSUME rules[r].anchor = "scheduled", Exists(k) PROVE FALSE
    OBVIOUS
  <2>1. k \in Generated(r)
    BY <1>8 DEF Generated
  <2>. QED BY <1>8, <1>9, <1>12, <2>1
<1>14. rules[r].anchor = "completion" => OpenOf(r)' \subseteq {k}
  <2>1. rules[r].anchor = "completion" => OpenOf(r) = {}
    BY <1>6, <1>11 DEF Leads, OpenOf
  <2>. QED BY <1>10, <2>1
<1>15. Leads(r, k)'
  <2>1. \A j \in Generated(r)' : k \in Generated(r)' /\ j[2] <= k[2]
    <3>1. \A j \in Generated(r) : j[2] <= n
      BY <1>9, <1>12, SeriesTypes, <1>6 DEF Rule, AnchorKinds
    <3>. QED BY <1>8, <1>9, <1>10, <3>1
  <2>2. rules[r].anchor = "scheduled" => Taken(r, k)'
    BY <1>10, <1>13 DEF Taken
  <2>3. rules[r].anchor = "completion" =>
          \A j \in Generated(r)' : j[2] <= now + rules[r].interval
    BY <1>7, <1>8, <2>1
  <2>4. k # None
    BY <1>9, NoneIsNoValue
  <2>. QED BY <1>2, <1>14, <2>1, <2>2, <2>3, <2>4 DEF Leads
<1>16. PICK inc : inc = tasks[k].inc
  OBVIOUS
<1>17. PICK z : z = [q EXCEPT !.pc = "bump", !.next = n, !.nextInc = inc]
  OBVIOUS
<1>18. Continue(p, z)
  BY <1>1, <1>4, <1>5, <1>8, <1>16, <1>17 DEF InsertNext
<1>19. z.pc = "bump" /\ z.rule = r /\ z.snap = q.snap /\ z.next = n /\ z.nextInc = inc
  BY <1>5, <1>17 DEF Request
<1>20. RowIs(k, inc)'
  <2>1. tasks'[k] = IF k \in {r} \X {n} /\ tasks[k].row = "none"
                    THEN [row |-> "live", inc |-> tasks[k].inc, status |-> "open",
                          mark |-> r, due |-> k[2]]
                    ELSE tasks[k]
    BY <1>4, <1>5, <1>9 DEF InsertOccurrences
  <2>. QED BY <1>9, <1>16, <2>1 DEF RowIs
<1>21. Inserted(z) = k
  BY <1>8, <1>19 DEF Inserted
<1>22. Firm(z)'
  <2>1. RowIs(Inserted(z), z.nextInc)'
    BY <1>19, <1>20, <1>21
  <2>2. IsRule(z.rule)' /\ rules'[z.rule] = z.snap /\ z.snap.enabled
    BY <1>2, <1>6, <1>19 DEF IsRule
  <2>. QED BY <1>19, <2>1, <2>2 DEF Firm
<1>23. /\ Alone' /\ \A x \in Procs : Firm(req[x])'
       /\ \A x \in Procs : req'[x] = IF x = p THEN z ELSE Idle
  BY <1>3, <1>18, <1>22, FirmContinues
<1>24. \A x \in Procs : req'[x].pc = "bump" => Leads(req[x].rule, Inserted(req[x]))'
  <2>1. Leads(z.rule, Inserted(z))'
    <3>1. z.rule = r /\ Inserted(z) = k
      BY <1>19, <1>21
    <3>. QED BY <1>15, <3>1
  <2>2. ASSUME NEW x \in Procs, req'[x].pc = "bump"
        PROVE  Leads(req[x].rule, Inserted(req[x]))'
    <3>1. req'[x] = z
      BY <1>23, <2>2 DEF Idle
    <3>. QED BY <2>1, <3>1
  <2>. QED BY <2>2
<1>25. ASSUME NEW x \in RuleIds, x # r PROVE InOrder(x)'
  <2>1. Unwatched(x)
    BY <1>1, <1>2, <1>3, <1>5, <1>25 DEF Unwatched, Idle
  <2>2. RuleRests(x) /\ now <= now'
    BY <1>2, RulesRest, OrderTypes
  <2>. QED BY <1>3, <1>10, <1>25, <2>1, <2>2, RestsInOrder
<1>26. InOrder(r)'
  <2>1. Bumping(r)'
    BY <1>19, <1>23 DEF Bumping
  <2>2. rules[r].enabled /\ rules[r].anchor = "scheduled" => Ahead(r)'
    <3>1. rules[r].enabled /\ rules[r].anchor = "scheduled" => Ahead(r)
      BY <1>6 DEF OrderInv, InOrder
    <3>2. Ahead(r)' = Ahead(r)
      BY <1>2 DEF Ahead, DayOf
    <3>. QED BY <3>1, <3>2
  <2>. QED BY <1>2, <1>9, <1>14, <2>1, <2>2 DEF InOrder
<1>. QED BY <1>10, <1>23, <1>24, <1>25, <1>26 DEF OrderInv

\* The days a rule owes are not before its cursor.
LEMMA OwedIsAhead ==
  ASSUME NEW rule \in Rule, rule.next # None, NEW d \in Owed(rule)
  PROVE  d \in Dates /\ d >= rule.next
<1>1. d = rule.next \/ d > rule.next
  BY DEF Owed
<1>2. d \in Dates /\ rule.next \in Dates
  BY OwedType DEF Rule
<1>3. PICK n \in Nat : n = rule.next /\ d \in Nat
  BY <1>2, DatesAreNaturals
<1>. QED BY <1>1, <1>2, <1>3

\* The last of the days the materializer generates leads the rule.
LEMMA MaterializeRuleOrder ==
  ASSUME TypeOK, TypeOK', Solo, OrderInv, NEW r \in RuleIds, MaterializeRule(r)
  PROVE  OrderInv'
<1>1. PICK rule \in Rule : rule = rules[r] /\ IsRule(r)
  BY DEF MaterializeRule, TypeOK, IsRule
<1>2. PICK days : days = Owed(rule)
  OBVIOUS
<1>3. /\ rule.enabled /\ rule.anchor = "scheduled" /\ rule.next # None
      /\ Calm /\ UNCHANGED <<now, ruleSeq, req>> /\ InsertOccurrences(r, days)
  BY <1>1, <1>2 DEF MaterializeRule
<1>4. /\ \A x \in RuleIds : ~Bumping(x) /\ Unwatched(x)
      /\ Settled'
      /\ \A x \in Procs : req[x] = Idle /\ req'[x] = Idle
  BY <1>3, BetweenRequests, FirmUndisturbed
<1>5. days \in SUBSET Dates /\ \A d \in days : d \in Nat /\ d >= rule.next
  BY <1>2, <1>3, OwedType, OwedIsAhead, DatesAreNaturals
<1>6. /\ Generated(r)' = Generated(r) \cup ({r} \X days)
      /\ \A u \in TaskIds : Exists(u) => tasks'[u] = tasks[u]
      /\ \A u \in {r} \X days : ~Exists(u) => tasks'[u].status = "open"
      /\ \A x \in RuleIds : NoneDone(x) /\ (x # r => RowsRest(x))
      /\ DuesKept'
  BY <1>3, <1>5, InsertedRows DEF OrderInv
<1>7. PICK t \in TaskIds : t = rules[r].current /\ Leads(r, t) /\ Ahead(r)
  BY <1>1, <1>3, <1>4, SeriesTypes DEF OrderInv, InOrder, Leads
<1>8. PICK new : rules' = [rules EXCEPT ![r] = new] /\ new = rules'[r]
  <2>1. rules' \in [RuleIds -> Rule \cup {None}] /\ \A x \in RuleIds : x # r => rules'[x] = rules[x]
    BY DEF TypeOK, MaterializeRule
  <2>2. rules' = [rules EXCEPT ![r] = rules'[r]]
    BY <2>1 DEF TypeOK
  <2>. QED BY <2>2
<1>9. \A x \in RuleIds : x # r => rules'[x] = rules[x]
  BY <1>8 DEF TypeOK
<1>10. ASSUME NEW x \in RuleIds, x # r PROVE InOrder(x)'
  <2>1. RuleRests(x)
    BY <1>9, <1>10 DEF RuleRests, IsRule
  <2>2. now <= now'
    BY <1>3, OrderTypes
  <2>. QED BY <1>4, <1>6, <1>10, <2>1, <2>2, RestsInOrder
<1>11. CASE days = {}
  <2>1. new = [rule EXCEPT !.next = None]
    BY <1>1, <1>2, <1>8, <1>11 DEF MaterializeRule, TypeOK
  <2>2. new.current = t /\ new.next = None /\ new.anchor = "scheduled"
    BY <1>1, <1>3, <1>7, <2>1 DEF Rule
  <2>3. Generated(r)' = Generated(r)
    BY <1>6, <1>11
  <2>4. Taken(r, t)'
    BY <1>1, <1>3, <1>4, <1>6, <1>7 DEF Leads, Taken, Unwatched, NoneDone
  <2>5. Leads(r, t)'
    BY <1>7, <1>8, <2>2, <2>3, <2>4 DEF Leads
  <2>6. Leads(r, rules[r].current)' /\ Ahead(r)'
    BY <1>8, <2>2, <2>5 DEF Ahead
  <2>7. InOrder(r)'
    BY <1>8, <2>2, <2>6 DEF InOrder
  <2>. QED BY <1>4, <1>6, <1>10, <2>7, OrderHolds
<1>12. CASE days # {}
  <2>1. PICK last \in days : last = LastOf(days) /\ \A d \in days : d <= last
    BY <1>5, <1>12, LastOfReturns
  <2>2. PICK next : /\ next # None => next > last /\ next \in Nat
                    /\ \E gen : rules' = [rules EXCEPT ![r].current = <<r, last>>,
                                                       ![r].gen = gen, ![r].next = next]
    <3>1. PICK gen, more :
            rules' = [rules EXCEPT
                        ![r].current = <<r, last>>, ![r].gen = gen,
                        ![r].next = IF more THEN After(Expansion(rule, rule.dtstart), last)
                                    ELSE None]
      BY <1>1, <1>2, <1>12, <2>1 DEF MaterializeRule
    <3>2. PICK next : /\ next = IF more THEN After(Expansion(rule, rule.dtstart), last) ELSE None
                      /\ next # None => next = After(Expansion(rule, rule.dtstart), last)
      OBVIOUS
    <3>3. next # None => next > last /\ next \in Dates
      <4>1. last \in Int
        BY <1>5, <2>1
      <4>. QED BY <3>2, <4>1, ExpansionType, AfterReturns
    <3>. QED BY <3>1, <3>2, <3>3, DatesAreNaturals
  <2>3. new.current = <<r, last>> /\ new.next = next /\ new.anchor = "scheduled"
    BY <1>1, <1>3, <1>8, <2>2 DEF TypeOK, Rule
  <2>4. PICK k \in OccurrenceKeys : k = <<r, last>> /\ k[1] = r /\ k[2] = last
    BY <1>5, <2>1, OrderTypes
  <2>5. k \in TaskIds /\ k \notin Seeds /\ k \in {r} \X days /\ k # None
    BY <2>1, <2>4, OrderTypes, NoneIsNoValue
  <2>6. ASSUME NEW j \in Generated(r)
        PROVE  j[2] \in Nat /\ j[2] <= last /\ (j = k => k = t)
    <3>1. j[2] \in Nat /\ j[1] = r /\ j \in OccurrenceKeys
      BY OrderTypes DEF Generated
    <3>2. t \in Generated(r) /\ j[2] <= t[2]
      BY <1>7 DEF Leads
    <3>3. t \in OccurrenceKeys /\ t[1] = r /\ t \notin Seeds /\ t[2] \in Nat
      BY <3>2, OrderTypes DEF Generated
    <3>4. rule.next >= t[2] /\ rule.next \in Nat
      BY <1>1, <1>3, <1>7, <3>3, DatesAreNaturals DEF Ahead, DayOf, Rule
    <3>5. t[2] <= last
      BY <1>5, <2>1, <3>3, <3>4
    <3>6. j = k => t[2] = last
      BY <1>5, <2>1, <2>4, <3>1, <3>2, <3>3, <3>5
    <3>7. t[2] = last => t = k
      BY <2>4, <3>3 DEF OccurrenceKeys
    <3>. QED BY <1>5, <2>1, <3>1, <3>2, <3>3, <3>5, <3>6, <3>7
  <2>7. Taken(r, k)'
    <3>1. CASE Exists(k)
      <4>1. k = t
        BY <2>4, <2>6, <3>1 DEF Generated
      <4>. QED BY <1>1, <1>3, <1>4, <1>6, <1>7, <2>5, <4>1 DEF Leads, Taken, Unwatched, NoneDone
    <3>2. CASE ~Exists(k)
      BY <1>6, <2>5, <3>2 DEF Taken
    <3>. QED BY <3>1, <3>2
  <2>8. Leads(r, k)'
    <3>1. k \in Generated(r)'
      BY <1>6, <2>5
    <3>2. \A j \in Generated(r)' : j[2] <= last
      BY <1>6, <2>1, <2>6
    <3>. QED BY <1>8, <2>3, <2>4, <2>5, <2>7, <3>1, <3>2 DEF Leads
  <2>9. Leads(r, rules[r].current)'
    BY <1>8, <2>3, <2>4, <2>8
  <2>10. Ahead(r)'
    <3>1. next # None => next >= k[2]
      BY <1>5, <2>1, <2>2, <2>4
    <3>. QED BY <1>8, <2>3, <2>4, <2>5, <3>1 DEF Ahead, DayOf
  <2>11. InOrder(r)'
    BY <1>8, <2>3, <2>9, <2>10 DEF InOrder
  <2>. QED BY <1>4, <1>6, <1>10, <2>11, OrderHolds
<1>. QED BY <1>11, <1>12

LEMMA OrderInit == Init => OrderInv
<1>. SUFFICES ASSUME Init PROVE OrderInv
  OBVIOUS
<1>1. \A p \in Procs : req[p] = Idle /\ Firm(req[p]) /\ req[p].pc # "bump"
  BY IdleIsFirm DEF Init, Idle
<1>2. \A r \in RuleIds : InOrder(r)
  BY DEF Init, InOrder, IsRule
<1>3. \A k \in OccurrenceKeys : ~Exists(k)
  <2>1. \A k \in OccurrenceKeys : tasks[k] = NoRow
    BY NoneAssumption DEF Init, TaskIds
  <2>. QED BY <2>1 DEF Exists, NoRow
<1>. QED BY <1>1, <1>2, <1>3 DEF OrderInv, Alone, DuesKept

LEMMA OrderNext ==
  ASSUME TypeOK, SeriesInv, Steady, OrderInv, [Next]_vars
  PROVE  OrderInv'
<1>. TypeOK' /\ Solo
  BY TypeNext DEF Steady
<1>1. ASSUME NEW p \in Procs, Proceed(p) PROVE OrderInv'
  BY <1>1, MarkDoneOrder, FindRuleOrder, ReadsOrder, InsertNextOrder, BumpRuleOrder,
     EndSeriesOrder, RejectSkippedOrder, NoRewriting, InsertRuleOrder, WriteMarkerOrder,
     ForkOrder DEF Proceed
<1>2. ASSUME NEW p \in Procs, Crash(p) PROVE OrderInv'
  BY <1>2 DEF Crash, Solo
<1>3. CASE UNCHANGED vars
  <2>1. Alone'
    BY <1>3 DEF vars, OrderInv, Alone
  <2>2. \A p \in Procs : Firm(req[p])'
    <3>1. UNCHANGED <<now, tasks, rules, ruleSeq, req>>
      BY <1>3 DEF vars
    <3>2. ASSUME NEW q, Firm(q) PROVE Firm(q)'
      <4>1. \A r : (IsRule(r)' <=> IsRule(r)) /\ Members(r)' = Members(r)
        BY <3>1 DEF IsRule, Members, Exists
      <4>2. RowIs(Inserted(q), q.nextInc)' <=> RowIs(Inserted(q), q.nextInc)
        BY <3>1 DEF RowIs, Inserted
      <4>3. RuleOf(q.task, q.mark, FALSE)' = RuleOf(q.task, q.mark, FALSE)
        BY <3>1 DEF RuleOf
      <4>. QED BY <3>1, <3>2, <4>1, <4>2, <4>3 DEF Firm
    <3>3. ASSUME NEW p \in Procs PROVE Firm(req[p])'
      <4>1. PICK q : q = req[p] /\ q = req'[p]
        BY <3>1
      <4>. QED BY <3>2, <4>1 DEF OrderInv
    <3>. QED BY <3>3
  <2>3. \A p \in Procs : req'[p].pc = "bump" => Leads(req[p].rule, Inserted(req[p]))'
    BY <1>3 DEF vars, OrderInv, Leads, Inserted, Generated, OpenOf, Members, Exists, Taken
  <2>4. \A r \in RuleIds : InOrder(r)'
    BY <1>3 DEF vars, OrderInv, InOrder, IsRule, Bumping, Leads, Ahead, DayOf, Generated,
                OpenOf, Members, Exists, Taken
  <2>5. DuesKept'
    BY <1>3 DEF vars, OrderInv, DuesKept, Exists
  <2>. QED BY <2>1, <2>2, <2>3, <2>4, <2>5 DEF OrderInv
<1>. QED BY <1>1, <1>2, <1>3, BeginRequestOrder, StopRecurrenceOrder, MaterializeRuleOrder,
            EditTaskOrder, TickOrder DEF Next

LEMMA OrderMovesOn == OrderInv => DoneMovesOn
<1>. SUFFICES ASSUME OrderInv, NEW r \in RuleIds, Quiet, IsRule(r),
                     rules[r].anchor = "scheduled", rules[r].enabled,
                     tasks[rules[r].current].mark = r
              PROVE  tasks[rules[r].current].status # "done"
  BY DEF DoneMovesOn, MovedOn
<1>1. \A p \in Procs : req[p].pc = "idle"
  BY DEF Quiet, Idle
<1>2. ~Bumping(r)
  BY <1>1 DEF Bumping
<1>. QED BY <1>1, <1>2, NotLeft DEF Taken

\* While requests run one after another, and no occurrence is reopened or given
\* another day, an active scheduled rule has moved on from every occurrence of
\* its own that was completed (recurrence.ts:660-690, entities.ts:415-417).
THEOREM CompletionMovesOn ==
  ASSUME Steady
  PROVE  Spec => []DoneMovesOn
<1>1. Init => TypeOK /\ SeriesInv /\ OrderInv
  BY TypeInit, SeriesInit, OrderInit
<1>2. TypeOK /\ SeriesInv /\ OrderInv /\ [Next]_vars => (TypeOK /\ SeriesInv /\ OrderInv)'
  BY TypeNext, SeriesNext, OrderNext
<1>. QED BY <1>1, <1>2, OrderMovesOn, PTL DEF Spec

\* A step that generates nothing, and gives no rule with occurrences another
\* series or anchor, adds no day to a series.
LEMMA NoDayAdded ==
  ASSUME TypeOK, NoRowAdded,
         \A r \in RuleIds : IsRule(r)' /\ Generated(r) # {} =>
           IsRule(r) /\ rules'[r].series = rules[r].series /\ rules'[r].anchor = rules[r].anchor
  PROVE  \A s \in Seeds : DaysOf(s)' \subseteq DaysOf(s)
<1>. SUFFICES ASSUME NEW s \in Seeds, NEW k \in OccurrenceKeys, Exists(k)', IsRule(k[1])',
                     rules'[k[1]].anchor = "scheduled", rules'[k[1]].series = s
              PROVE  k \in DaysOf(s)
  BY DEF DaysOf
<1>1. PICK r \in RuleIds : r = k[1]
  BY OrderTypes
<1>2. Exists(k)
  BY OrderTypes DEF NoRowAdded
<1>3. k \in Generated(r)
  BY <1>1, <1>2 DEF Generated
<1>4. IsRule(r)'
  BY <1>1
<1>5. IsRule(r) /\ rules[r].series = s /\ rules[r].anchor = "scheduled"
  BY <1>1, <1>3, <1>4
<1>. QED BY <1>1, <1>2, <1>5 DEF DaysOf

\* It leaves the days in order if a rule that it moves stands on the last one.
LEMMA DaysStay ==
  ASSUME TypeOK', DaysInv, \A s \in Seeds : DaysOf(s)' \subseteq DaysOf(s),
         \A p \in Procs : req'[p].pc # "bump",
         \A r \in RuleIds : IsRule(r)' /\ rules'[r].enabled /\ rules'[r].anchor = "scheduled" =>
           \/ IsRule(r) /\ rules'[r] = rules[r] /\ ~Bumping(r)
           \/ UpTo(rules[r].series, rules[r].current)'
  PROVE  DaysInv'
<1>1. \A s \in Seeds : \A j, k \in DaysOf(s)' : j[2] = k[2] => j = k
  BY DEF DaysInv
<1>2. ASSUME NEW r \in RuleIds, IsRule(r)', rules'[r].enabled, rules'[r].anchor = "scheduled"
      PROVE  UpTo(rules[r].series, rules[r].current)'
  <2>1. CASE IsRule(r) /\ rules'[r] = rules[r] /\ ~Bumping(r)
    <3>1. PICK s, c : s = rules[r].series /\ c = rules[r].current
      OBVIOUS
    <3>2. s = rules'[r].series /\ c = rules'[r].current
      BY <2>1, <3>1
    <3>3. UpTo(s, c)
      BY <1>2, <2>1, <3>1 DEF DaysInv
    <3>4. s \in Seeds
      BY <1>2, <3>2 DEF TypeOK, IsRule, Rule
    <3>5. UpTo(s, c)'
      BY <3>3, <3>4 DEF UpTo
    <3>. QED BY <3>2, <3>5
  <2>. QED BY <1>2, <2>1
<1>. QED BY <1>1, <1>2 DEF DaysInv

\* Only a rule that is disabled changes.
LEMMA DaysRest ==
  ASSUME TypeOK, TypeOK', DaysInv, NoRowAdded, \A p \in Procs : req'[p].pc # "bump",
         \A r \in RuleIds :
           /\ ~Bumping(r)
           /\ IsRule(r)' =>
                /\ IsRule(r) /\ rules'[r].series = rules[r].series
                /\ rules'[r].anchor = rules[r].anchor
                /\ rules'[r].enabled => rules'[r] = rules[r]
  PROVE  DaysInv'
BY NoDayAdded, DaysStay

\* The statements of a request that insert and move nothing.
LEMMA ProceedDays ==
  ASSUME TypeOK, TypeOK', OrderInv, DaysInv, NEW p \in Procs, Proceed(p),
         UNCHANGED rules \/ EndSeries(p), ~InsertNext(p), req[p].pc # "bump"
  PROVE  DaysInv'
<1>1. PICK q \in Request : q = req[p]
  BY OrderTypes
<1>2. req[p].pc # "idle"
  BY DEF Proceed, MarkDone, FindRule, InsertNext, BumpRule, EndSeries, InsertSkipException,
         RejectSkipped, FindExisting, RewriteRule, InsertRule, RefuseRule, WriteMarker,
         WriteUpdate, Fork, RefuseFork
<1>3. (\A x \in Procs : x # p => req[x] = Idle) /\ \A r \in RuleIds : ~Bumping(r)
  BY <1>2, Unaided
<1>4. NoRowAdded
  BY ProceedAddsNoRow
<1>5. req'[p].pc # "bump"
  <2>1. \A z : (Continue(p, z) => req'[p] = z) /\ (Finish(p) => req'[p].pc = "idle")
    BY DEF Finish, Continue, Idle, TypeOK
  <2>2. CASE Finish(p)
    BY <2>1, <2>2
  <2>3. CASE MarkDone(p) /\ ~Finish(p)
    BY <1>1, <2>1, <2>3 DEF MarkDone, Request
  <2>4. CASE (FindRule(p, "findRule", "insert") \/ FindRule(p, "skipFind", "except")) /\ ~Finish(p)
    BY <1>1, <2>1, <2>4 DEF FindRule, Request
  <2>5. CASE (InsertSkipException(p) \/ FindExisting(p)) /\ ~Finish(p)
    BY <1>1, <2>1, <2>5 DEF InsertSkipException, FindExisting, Request
  <2>6. CASE RejectSkipped(p) /\ ~Finish(p)
    BY <1>1, <2>1, <2>6 DEF RejectSkipped, Request
  <2>7. CASE (RewriteRule(p) \/ InsertRule(p)) /\ ~Finish(p)
    BY <1>1, <2>1, <2>7 DEF RewriteRule, InsertRule, Request
  <2>. QED BY <2>2, <2>3, <2>4, <2>5, <2>6, <2>7
           DEF Proceed, BumpRule, EndSeries, RefuseRule, WriteMarker, WriteUpdate, Fork, RefuseFork
<1>6. \A x \in Procs : req'[x].pc # "bump"
  <2>1. \A x \in Procs : x # p => req'[x] = req[x]
    BY DEF Proceed, MarkDone, FindRule, InsertNext, BumpRule, EndSeries, InsertSkipException,
           RejectSkipped, FindExisting, RewriteRule, InsertRule, RefuseRule, WriteMarker,
           WriteUpdate, Fork, RefuseFork, Finish, Continue, TypeOK
  <2>. QED BY <1>3, <1>5, <2>1 DEF Idle
<1>7. CASE UNCHANGED rules
  BY <1>3, <1>4, <1>6, <1>7, DaysRest DEF IsRule
<1>8. CASE EndSeries(p)
  <2>1. \A r \in RuleIds : IsRule(r)' =>
          /\ IsRule(r) /\ rules'[r].series = rules[r].series /\ rules'[r].anchor = rules[r].anchor
          /\ rules'[r].enabled => rules'[r] = rules[r]
    <3>1. CASE UNCHANGED rules
      BY <3>1 DEF IsRule
    <3>2. CASE ~UNCHANGED rules
      <4>1. /\ rules[q.rule] # None /\ q.rule \in RuleIds
            /\ rules' = [rules EXCEPT ![q.rule].enabled = FALSE, ![q.rule].current = None,
                                      ![q.rule].next = None]
        BY <1>1, <1>8, <3>2 DEF EndSeries, TypeOK, Remembers
      <4>2. rules[q.rule] \in Rule
        BY <4>1 DEF TypeOK
      <4>. QED BY <4>1, <4>2 DEF TypeOK, Rule, IsRule
    <3>. QED BY <3>1, <3>2
  <2>. QED BY <1>3, <1>4, <1>6, <2>1, DaysRest
<1>. QED BY <1>7, <1>8

\* The steps between requests, and their beginnings.
LEMMA OutsideDays ==
  ASSUME TypeOK, TypeOK', Steady, DaysInv,
         \/ \E p \in Procs : BeginRequest(p)
         \/ \E r \in RuleIds : StopRecurrence(r)
         \/ \E t \in TaskIds : EditTask(t)
         \/ Tick
  PROVE  DaysInv'
<1>1. Calm /\ \A r \in RuleIds : ~Bumping(r)
  <2>1. Calm
    BY DEF BeginRequest, BeginComplete, BeginSkip, BeginCreate, BeginUpdateRule, BeginSplit,
           Begin, StopRecurrence, EditTask, SetStatus, Reschedule, Trash, Restore, Purge, Tick
  <2>. QED BY <2>1, BetweenRequests DEF Steady
<1>2. \A p \in Procs : req[p] = Idle
  BY <1>1, BetweenRequests DEF Steady
<1>3. CASE \E p \in Procs : BeginRequest(p)
  <2>1. PICK p \in Procs : BeginRequest(p)
    BY <1>3
  <2>2. req'[p].pc # "bump"
    <3>1. \A z : Continue(p, z) => req'[p] = z
      BY DEF Continue, TypeOK
    <3>2. ASSUME NEW t \in TaskIds, BeginComplete(p, t) PROVE req'[p].pc # "bump"
      BY <3>1, <3>2 DEF BeginComplete, Idle
    <3>3. ASSUME NEW t \in TaskIds, BeginSkip(p, t) PROVE req'[p].pc # "bump"
      BY <3>1, <3>3 DEF BeginSkip, Idle
    <3>4. ASSUME NEW t \in TaskIds, NEW ask \in Cadence, BeginCreate(p, t, ask)
          PROVE  req'[p].pc # "bump"
      BY <3>1, <3>4 DEF BeginCreate, Idle
    <3>5. ASSUME NEW r \in RuleIds, NEW ask \in RuleEdit, BeginUpdateRule(p, r, ask)
          PROVE  req'[p].pc # "bump"
      BY <3>5 DEF BeginUpdateRule, Begin, Steady
    <3>6. ASSUME NEW r \in RuleIds, NEW ask \in Cadence, BeginSplit(p, r, ask)
          PROVE  req'[p].pc # "bump"
      <4>1. PICK t, start : t = rules[r].current /\ start = OrElse(tasks[t].due, rules[r].dtstart)
        OBVIOUS
      <4>2. Continue(p, [Idle EXCEPT !.pc = "fork", !.task = t, !.inc = tasks[t].inc,
                                     !.rule = r, !.snap = rules[r],
                                     !.ask = [ask EXCEPT !.start = start]])
        BY <3>6, <4>1 DEF BeginSplit
      <4>. QED BY <3>1, <4>2 DEF Idle
    <3>. QED BY <2>1, <3>2, <3>3, <3>4, <3>5, <3>6 DEF BeginRequest
  <2>3. \A x \in Procs : req'[x].pc # "bump"
    <3>1. \A x \in Procs : x # p => req'[x] = req[x]
      BY <2>1 DEF BeginRequest, BeginComplete, BeginSkip, BeginCreate, BeginUpdateRule,
                  BeginSplit, Continue, TypeOK
    <3>. QED BY <1>2, <2>2, <3>1 DEF Idle
  <2>4. UNCHANGED <<tasks, rules>>
    BY <2>1 DEF BeginRequest, BeginComplete, BeginSkip, BeginCreate, BeginUpdateRule, BeginSplit
  <2>. QED BY <1>1, <2>3, <2>4, RowsUntouched, DaysRest DEF IsRule
<1>4. CASE \E r \in RuleIds : StopRecurrence(r)
  <2>1. PICK r \in RuleIds : StopRecurrence(r)
    BY <1>4
  <2>2. rules[r] \in Rule /\ rules[r] # None
    BY <2>1 DEF StopRecurrence, TypeOK
  <2>3. \A x \in RuleIds : IsRule(x)' =>
          /\ IsRule(x) /\ rules'[x].series = rules[x].series /\ rules'[x].anchor = rules[x].anchor
          /\ rules'[x].enabled => rules'[x] = rules[x]
    BY <2>1, <2>2 DEF StopRecurrence, TypeOK, Rule, IsRule
  <2>4. \A x \in Procs : req'[x].pc # "bump"
    BY <1>2, <2>1 DEF StopRecurrence, Idle
  <2>. QED BY <1>1, <2>1, <2>3, <2>4, RowsUntouched, DaysRest DEF StopRecurrence
<1>5. CASE (\E t \in TaskIds : EditTask(t)) \/ Tick
  <2>1. NoRowAdded
    BY <1>5, EditAddsNoRow, RowsUntouched DEF Tick
  <2>2. UNCHANGED <<rules, req>>
    BY <1>5 DEF EditTask, SetStatus, Reschedule, Trash, Restore, Purge, Tick, Steady
  <2>3. \A x \in Procs : req'[x].pc # "bump"
    BY <1>2, <2>2 DEF Idle
  <2>. QED BY <1>1, <2>1, <2>2, <2>3, DaysRest DEF IsRule
<1>. QED BY <1>3, <1>4, <1>5

LEMMA BumpRuleDays ==
  ASSUME TypeOK, TypeOK', OrderInv, DaysInv, NEW p \in Procs, BumpRule(p)
  PROVE  DaysInv'
<1>1. PICK q \in Request : q = req[p]
  BY OrderTypes
<1>2. q.pc = "bump" /\ UNCHANGED <<tasks, ruleSeq>> /\ Finish(p)
  BY <1>1 DEF BumpRule
<1>3. /\ Firm(q) /\ q.rule \in RuleIds /\ q.next \in Dates
      /\ \A x \in Procs : x # p => req[x] = Idle
  BY <1>1, <1>2, Unaided DEF Remembers
<1>4. PICK r \in RuleIds, k \in OccurrenceKeys : r = q.rule /\ k = Inserted(q)
  BY <1>3, OrderTypes DEF Inserted
<1>5. IsRule(r) /\ rules[r] \in Rule /\ rules[r] = q.snap
  BY <1>2, <1>3, <1>4, OrderTypes DEF Firm
<1>6. /\ \A x \in RuleIds : x # r => rules'[x] = rules[x]
      /\ rules'[r].current = k /\ rules'[r].series = rules[r].series
      /\ rules'[r].anchor = rules[r].anchor
  <2>1. RowIs(<<q.rule, q.next>>, q.nextInc)
    BY <1>2, <1>3 DEF Firm, Inserted
  <2>2. rules' = [rules EXCEPT ![r].current = k, ![r].gen = Saturate(q.snap.gen + 1),
                               ![r].next = q.next]
    BY <1>1, <1>4, <1>5, <2>1 DEF BumpRule, IsRule, Inserted
  <2>. QED BY <1>5, <2>2 DEF TypeOK, Rule
<1>7. \A s \in Seeds : DaysOf(s)' \subseteq DaysOf(s)
  <2>1. \A x \in RuleIds : IsRule(x)' => /\ IsRule(x) /\ rules'[x].series = rules[x].series
                                         /\ rules'[x].anchor = rules[x].anchor
    BY <1>5, <1>6 DEF IsRule
  <2>. QED BY <1>2, <2>1, RowsUntouched, NoDayAdded
<1>8. \A x \in Procs : req'[x].pc # "bump"
  BY <1>2, <1>3 DEF Finish, Idle, TypeOK
<1>9. ASSUME NEW x \in RuleIds, IsRule(x)', rules'[x].enabled, rules'[x].anchor = "scheduled"
      PROVE  \/ IsRule(x) /\ rules'[x] = rules[x] /\ ~Bumping(x)
             \/ UpTo(rules[x].series, rules[x].current)'
  <2>1. CASE x = r
    <3>1. PICK s \in Seeds : s = rules[r].series /\ s = q.snap.series /\ s = rules'[r].series
      BY <1>5, <1>6, SeriesTypes
    <3>2. UpTo(s, k)
      BY <1>1, <1>2, <1>4, <1>5, <1>6, <1>9, <2>1, <3>1 DEF DaysInv
    <3>3. UpTo(s, k)'
      BY <1>7, <3>2 DEF UpTo
    <3>. QED BY <1>6, <2>1, <3>1, <3>3
  <2>2. CASE x # r
    BY <1>1, <1>3, <1>4, <1>6, <1>9, <2>2 DEF Bumping, Idle, IsRule
  <2>. QED BY <2>1, <2>2
<1>. QED BY <1>7, <1>8, <1>9, DaysStay

\* A rule is attached to a seed that has no series yet.
LEMMA InsertRuleDays ==
  ASSUME TypeOK, TypeOK', SeriesInv, OrderInv, DaysInv, NEW p \in Procs, InsertRule(p)
  PROVE  DaysInv'
<1>1. PICK q \in Request : q = req[p]
  BY OrderTypes
<1>2. q.pc = "writeRule" /\ q.task \in Seeds /\ q.mark = None /\ UNCHANGED tasks
  BY <1>1 DEF InsertRule
<1>3. /\ Firm(q) /\ q.ask \in Asked /\ q.task \in TaskIds
      /\ \A x \in Procs : x # p => req[x] = Idle
      /\ \A x \in RuleIds : ~Bumping(x)
  BY <1>1, <1>2, Unaided DEF Remembers
<1>4. PICK t \in Seeds, r \in RuleIds : t = q.task /\ r = ruleSeq + 1
  BY <1>1, <1>2 DEF InsertRule
<1>5. Generated(r) = {} /\ \A x \in RuleIds : IsRule(x) => rules[x].series # t
  <2>1. RuleOf(t, None, FALSE) = None
    BY <1>2, <1>3, <1>4 DEF Firm
  <2>. QED BY <1>4, <2>1, NewRuleIsBare, RuleOfFinds DEF IsRule
<1>6. PICK blank \in Rule :
        blank = [series |-> q.task, enabled |-> TRUE, current |-> None,
                 anchor |-> q.ask.anchor, dtstart |-> q.ask.start,
                 interval |-> q.ask.interval, until |-> None,
                 count |-> q.ask.count, gen |-> 1, next |-> None]
  BY <1>2, <1>3, BlankType
<1>7. rules'[r].series = t /\ \A x \in RuleIds : x # r => rules'[x] = rules[x]
  <2>1. Attached(q, blank).series = blank.series
    BY <1>3, AttachedType
  <2>2. blank.series = t
    BY <1>4, <1>6
  <2>3. rules' = [rules EXCEPT ![r] = Attached(q, blank)]
    BY <1>1, <1>4, <1>6 DEF InsertRule
  <2>. QED BY <2>1, <2>2, <2>3 DEF TypeOK
<1>8. \A s \in Seeds : DaysOf(s)' \subseteq DaysOf(s)
  BY <1>2, <1>5, <1>7, RowsUntouched, NoDayAdded DEF IsRule
<1>9. DaysOf(t)' = {}
  <2>1. DaysOf(t) = {}
    BY <1>5, OrderTypes DEF DaysOf
  <2>. QED BY <1>8, <2>1
<1>10. \A x \in Procs : req'[x].pc # "bump"
  <2>1. PICK z : z = [q EXCEPT !.pc = "writeMarker", !.rule = r] /\ Continue(p, z)
    BY <1>1, <1>4 DEF InsertRule
  <2>. QED BY <1>3, <2>1 DEF Continue, Idle, TypeOK, Request
<1>11. UpTo(rules[r].series, rules[r].current)'
  BY <1>7, <1>9 DEF UpTo
<1>12. ASSUME NEW x \in RuleIds, x # r, IsRule(x)'
       PROVE  IsRule(x) /\ rules'[x] = rules[x] /\ ~Bumping(x)
  BY <1>3, <1>7, <1>12 DEF IsRule
<1>. QED BY <1>8, <1>10, <1>11, <1>12, DaysStay

\* A scheduled rule takes over at the day the series has come to.
LEMMA ForkDays ==
  ASSUME TypeOK, TypeOK', SeriesInv, OrderInv, DaysInv, NoReturn, NEW p \in Procs, Fork(p)
  PROVE  DaysInv'
<1>1. PICK q \in Request : q = req[p]
  BY OrderTypes
<1>2. /\ q.pc = "fork" /\ q.rule \in RuleIds /\ q.snap \in Rule /\ q.task \in TaskIds
      /\ q.ask \in Asked /\ Finish(p) /\ ~ForkRefused(q)
  BY <1>1, OrderTypes DEF Fork, Remembers
<1>3. /\ Firm(q)
      /\ \A x \in Procs : x # p => req[x] = Idle
      /\ \A x \in RuleIds : ~Bumping(x)
  BY <1>1, <1>2, Unaided
<1>4. PICK r \in RuleIds : r = ruleSeq + 1
  BY <1>2, BoundsAssumption DEF ForkRefused, TypeOK, RuleIds
<1>5. PICK old \in RuleIds, t \in TaskIds : old = q.rule /\ t = q.task
  BY <1>2
<1>6. IsRule(old) /\ rules[old] \in Rule /\ rules[old] = q.snap /\ q.snap.enabled
      /\ q.snap.current = t
  BY <1>2, <1>3, <1>5, OrderTypes DEF Firm
<1>7. Generated(r) = {} /\ ~IsRule(r)
  BY <1>4, NewRuleIsBare
<1>8. PICK new : /\ new \in Rule /\ new.current = t /\ new.anchor = q.ask.anchor
                 /\ new.series = q.snap.series
                 /\ new = ForkedRule(q)
  BY <1>2, <1>5, ForkedFields, ForkedRuleType
<1>9. PICK current :
        rules' = [rules EXCEPT
                    ![old].enabled = FALSE, ![old].next = None,
                    ![old].count = None, ![old].until = q.ask.start,
                    ![old].interval = q.snap.interval, ![old].current = current,
                    ![r] = new]
  BY <1>1, <1>4, <1>5, <1>8 DEF Fork
<1>10. /\ rules'[r] = new
       /\ ~rules'[old].enabled /\ rules'[old].anchor = rules[old].anchor
       /\ rules'[old].series = rules[old].series
       /\ \A x \in RuleIds : x # r /\ x # old => rules'[x] = rules[x]
  BY <1>6, <1>7, <1>9 DEF TypeOK, Rule
<1>11. \A s \in Seeds : DaysOf(s)' \subseteq DaysOf(s)
  <2>1. NoRowAdded
    BY ProceedAddsNoRow, <1>2, <1>1 DEF Proceed, InsertNext
  <2>2. \A x \in RuleIds : IsRule(x)' /\ x # r =>
          IsRule(x) /\ rules'[x].series = rules[x].series /\ rules'[x].anchor = rules[x].anchor
    BY <1>6, <1>10 DEF IsRule
  <2>. QED BY <1>7, <2>1, <2>2, NoDayAdded
<1>12. \A x \in Procs : req'[x].pc # "bump"
  BY <1>2, <1>3 DEF Finish, Idle, TypeOK
<1>13. ASSUME new.anchor = "scheduled" PROVE UpTo(rules[r].series, rules[r].current)'
  <2>1. PICK s \in Seeds : s = rules[old].series /\ s = new.series
    BY <1>6, <1>8, SeriesTypes
  <2>2. UpTo(s, t)
    <3>1. CASE rules[old].anchor = "scheduled"
      BY <1>3, <1>6, <2>1, <3>1 DEF DaysInv
    <3>2. CASE rules[old].anchor = "completion"
      <4>1. \A x \in RuleIds : IsRule(x) /\ rules[x].series = s => rules[x].anchor = "completion"
        BY <1>1, <1>2, <1>6, <1>8, <1>13, <2>1, <3>2 DEF NoReturn
      <4>2. DaysOf(s) = {}
        BY <4>1, OrderTypes DEF DaysOf
      <4>. QED BY <4>2 DEF UpTo
    <3>. QED BY <1>6, <3>1, <3>2 DEF Rule, AnchorKinds
  <2>3. UpTo(s, t)'
    BY <1>11, <2>2 DEF UpTo
  <2>. QED BY <1>8, <1>10, <2>1, <2>3
<1>14. ASSUME NEW x \in RuleIds, x # r, IsRule(x)', rules'[x].enabled
       PROVE  IsRule(x) /\ rules'[x] = rules[x] /\ ~Bumping(x)
  BY <1>3, <1>10, <1>14 DEF IsRule
<1>. QED BY <1>10, <1>11, <1>12, <1>13, <1>14, DaysStay

\* A request generates the day after the last one of the series; that of a chain
\* is no day of it.
LEMMA InsertNextDays ==
  ASSUME TypeOK, TypeOK', SeriesInv, OneActiveRulePerSeries, OrderInv, DaysInv,
         NEW p \in Procs, InsertNext(p)
  PROVE  DaysInv'
<1>1. PICK q \in Request : q = req[p]
  BY OrderTypes
<1>2. /\ q.pc = "insert" /\ q.rule \in RuleIds /\ q.task \in TaskIds /\ q.snap \in Rule
      /\ UNCHANGED <<now, rules, ruleSeq>>
  BY <1>1, OrderTypes DEF InsertNext, Remembers
<1>3. /\ Firm(q)
      /\ \A x \in Procs : x # p => req[x] = Idle
      /\ \A x \in RuleIds : ~Bumping(x)
  BY <1>1, <1>2, Unaided
<1>4. PICK n : /\ n = ComputeNext(q.snap, q.due, q.day, q.noon) /\ n # None
               /\ InsertOccurrences(q.rule, {n})
  BY <1>1 DEF InsertNext
<1>5. PICK r \in RuleIds, t \in TaskIds : r = q.rule /\ t = q.task
  BY <1>2
<1>6. /\ IsRule(r) /\ rules[r] = q.snap /\ rules[r].enabled /\ rules[r].current = t
      /\ q.due = tasks[t].due
  BY <1>2, <1>3, <1>5 DEF Firm
<1>7. /\ n \in Dates
      /\ rules[r].anchor = "scheduled" => n > OrElse(q.due, rules[r].dtstart)
  BY <1>2, <1>4, <1>6, NextIsLater DEF Request
<1>8. PICK k \in OccurrenceKeys : k = <<r, n>> /\ k[1] = r /\ k[2] = n
  BY <1>7, OrderTypes
<1>9. k \in TaskIds /\ {r} \X {n} = {k} /\ n \in Nat
  BY <1>7, <1>8, OrderTypes, DatesAreNaturals
<1>10. PICK s \in Seeds : s = rules[r].series
  BY <1>6, SeriesTypes
<1>11. /\ \A u \in OccurrenceKeys : Exists(u)' => Exists(u) \/ u = k
       /\ \A u \in OccurrenceKeys : Exists(u) => Exists(u)'
  BY <1>4, <1>5, <1>9, OrderTypes DEF InsertOccurrences, Exists
<1>12. PICK z : z = [q EXCEPT !.pc = "bump", !.next = n, !.nextInc = tasks[<<q.rule, n>>].inc]
  OBVIOUS
<1>13. /\ z.pc = "bump" /\ z.rule = r /\ z.snap = rules[r] /\ z.next = n
       /\ Continue(p, z)
  BY <1>1, <1>4, <1>5, <1>6, <1>12 DEF InsertNext, Request
<1>14. req'[p] = z /\ \A x \in Procs : x # p => req'[x].pc # "bump"
  BY <1>3, <1>13 DEF Continue, Idle, TypeOK
<1>15. Inserted(z) = k
  BY <1>8, <1>13 DEF Inserted
<1>16. Bumping(r)'
  BY <1>13, <1>14 DEF Bumping
<1>17. CASE rules[r].anchor # "scheduled"
  <2>1. \A c \in Seeds : DaysOf(c)' \subseteq DaysOf(c)
    BY <1>2, <1>8, <1>11, <1>17 DEF DaysOf, IsRule
  <2>2. \A c \in Seeds : \A i, j \in DaysOf(c)' : i[2] = j[2] => i = j
    BY <2>1 DEF DaysInv
  <2>3. ASSUME NEW x \in RuleIds, IsRule(x)', rules'[x].enabled, rules'[x].anchor = "scheduled"
        PROVE  UpTo(rules[x].series, rules[x].current)'
    <3>1. IsRule(x) /\ rules'[x] = rules[x]
      BY <1>2, <2>3 DEF IsRule
    <3>2. PICK c, u : c = rules[x].series /\ u = rules[x].current
      OBVIOUS
    <3>3. UpTo(c, u) /\ c \in Seeds
      BY <1>3, <2>3, <3>1, <3>2, SeriesTypes DEF DaysInv
    <3>4. UpTo(c, u)'
      BY <2>1, <3>3 DEF UpTo
    <3>. QED BY <3>1, <3>2, <3>4
  <2>4. \A x \in Procs : req'[x].pc = "bump" => req'[x].snap.anchor # "scheduled"
    BY <1>13, <1>14, <1>17
  <2>. QED BY <2>2, <2>3, <2>4 DEF DaysInv
<1>18. CASE rules[r].anchor = "scheduled"
  <2>1. UpTo(s, t)
    BY <1>3, <1>6, <1>10, <1>18 DEF DaysInv
  <2>2. ASSUME NEW j \in DaysOf(s) PROVE j[2] \in Nat /\ j[2] < n
    <3>1. t \in OccurrenceKeys /\ j[2] <= t[2] /\ j \in OccurrenceKeys
      BY <2>1 DEF UpTo, DaysOf
    <3>2. t[2] \in Nat /\ j[2] \in Nat /\ t[2] # None
      BY <3>1, OrderTypes
    <3>3. q.due = t[2]
      <4>1. Exists(t)
        BY <1>6, <3>1, NoneIsNoValue DEF SeriesInv, CurrentBelongs
      <4>. QED BY <1>6, <3>1, <4>1 DEF OrderInv, DuesKept
    <3>. QED BY <1>7, <1>9, <1>18, <3>1, <3>2, <3>3 DEF OrElse
  <2>3. \A c \in Seeds : DaysOf(c)' \subseteq DaysOf(c) \cup (IF c = s THEN {k} ELSE {})
    BY <1>2, <1>8, <1>10, <1>11 DEF DaysOf, IsRule
  <2>4. ASSUME NEW c \in Seeds, NEW i \in DaysOf(c)', NEW j \in DaysOf(c)', i[2] = j[2]
        PROVE  i = j
    <3>1. CASE c = s
      <4>1. \A u \in DaysOf(s)' : (u \in DaysOf(s) /\ u[2] < n /\ u[2] \in Nat) \/ u = k
        BY <2>2, <2>3
      <4>. QED BY <1>8, <1>9, <2>4, <3>1, <4>1 DEF DaysInv
    <3>2. CASE c # s
      BY <2>3, <2>4, <3>2 DEF DaysInv
    <3>. QED BY <3>1, <3>2
  <2>5. ASSUME NEW x \in RuleIds, IsRule(x)', rules'[x].enabled, rules'[x].anchor = "scheduled",
               ~Bumping(x)'
        PROVE  UpTo(rules[x].series, rules[x].current)'
    <3>1. IsRule(x) /\ rules'[x] = rules[x] /\ x # r
      BY <1>2, <1>16, <2>5 DEF IsRule
    <3>2. PICK c, u : c = rules[x].series /\ u = rules[x].current
      OBVIOUS
    <3>3. UpTo(c, u) /\ c \in Seeds
      BY <1>3, <2>5, <3>1, <3>2, SeriesTypes DEF DaysInv
    <3>4. c # s
      BY <1>6, <1>10, <2>5, <3>1, <3>2 DEF OneActiveRulePerSeries
    <3>5. UpTo(c, u)'
      BY <2>3, <3>3, <3>4 DEF UpTo
    <3>. QED BY <3>1, <3>2, <3>5
  <2>6. UpTo(s, k)'
    <3>1. \A u \in DaysOf(s)' : u[2] <= k[2]
      BY <1>8, <1>9, <2>2, <2>3
    <3>. QED BY <3>1 DEF UpTo
  <2>7. ASSUME NEW x \in Procs, req'[x].pc = "bump"
        PROVE  UpTo(req[x].snap.series, Inserted(req[x]))'
    <3>1. req'[x] = z /\ z.snap.series = s /\ Inserted(z) = k
      BY <1>10, <1>13, <1>14, <1>15, <2>7
    <3>. QED BY <2>6, <3>1
  <2>. QED BY <2>4, <2>5, <2>7 DEF DaysInv
<1>. QED BY <1>17, <1>18

\* The materializer generates days from the cursor on, which is past every day of
\* the series but its rule's own current occurrence.
LEMMA MaterializeRuleDays ==
  ASSUME TypeOK, TypeOK', Solo, SeriesInv, OneActiveRulePerSeries, OrderInv, DaysInv,
         NEW r \in RuleIds, MaterializeRule(r)
  PROVE  DaysInv'
<1>1. PICK rule \in Rule : rule = rules[r] /\ IsRule(r)
  BY DEF MaterializeRule, TypeOK, IsRule
<1>2. PICK days : days = Owed(rule)
  OBVIOUS
<1>3. /\ rule.enabled /\ rule.anchor = "scheduled" /\ rule.next # None
      /\ Calm /\ UNCHANGED <<now, ruleSeq, req>> /\ InsertOccurrences(r, days)
  BY <1>1, <1>2 DEF MaterializeRule
<1>4. /\ \A x \in RuleIds : ~Bumping(x)
      /\ \A x \in Procs : req'[x].pc # "bump"
  BY <1>3, BetweenRequests DEF Idle
<1>5. days \in SUBSET Dates /\ \A d \in days : d \in Nat /\ d >= rule.next
  BY <1>2, <1>3, OwedType, OwedIsAhead, DatesAreNaturals
<1>6. PICK s \in Seeds, t \in TaskIds : s = rule.series /\ t = rule.current
  BY <1>1, <1>3, <1>4, SeriesTypes DEF OrderInv, InOrder, Leads
<1>7. UpTo(s, t) /\ Exists(t) /\ Ahead(r)
  <2>1. UpTo(s, t)
    BY <1>1, <1>3, <1>4, <1>6 DEF DaysInv
  <2>2. Exists(t)
    BY <1>1, <1>6, NoneIsNoValue DEF SeriesInv, CurrentBelongs
  <2>3. Ahead(r)
    BY <1>1, <1>3 DEF OrderInv, InOrder
  <2>. QED BY <2>1, <2>2, <2>3
<1>8. /\ IsRule(r)' /\ rules'[r].series = s /\ rules'[r].anchor = "scheduled"
      /\ \A x \in RuleIds : x # r => rules'[x] = rules[x]
      /\ days = {} => rules'[r].current = t
      /\ days # {} => rules'[r].current = <<r, LastOf(days)>>
  <2>1. /\ days = {} => rules' = [rules EXCEPT ![r].next = None]
        /\ days # {} => \E gen, next : rules' = [rules EXCEPT ![r].current = <<r, LastOf(days)>>,
                                                             ![r].gen = gen, ![r].next = next]
    BY <1>1, <1>2 DEF MaterializeRule
  <2>2. CASE days = {}
    BY <1>1, <1>3, <1>6, <2>1, <2>2, RowAssumption DEF TypeOK, Rule, IsRule
  <2>3. CASE days # {}
    <3>1. PICK gen, next : rules' = [rules EXCEPT ![r].current = <<r, LastOf(days)>>,
                                                  ![r].gen = gen, ![r].next = next]
      BY <2>1, <2>3
    <3>2. /\ rules'[r].series = s /\ rules'[r].anchor = "scheduled"
          /\ rules'[r].current = <<r, LastOf(days)>>
          /\ \A x \in RuleIds : x # r => rules'[x] = rules[x]
      BY <1>1, <1>3, <1>6, <3>1 DEF TypeOK, Rule
    <3>3. IsRule(r)'
      BY <1>1, MaterializeRuleType, RowAssumption DEF RulesLast, IsRule
    <3>. QED BY <2>3, <3>2, <3>3
  <2>. QED BY <2>2, <2>3
<1>9. ASSUME NEW u \in OccurrenceKeys, Exists(u)' PROVE Exists(u) \/ u \in {r} \X days
  BY <1>3, <1>9, OrderTypes DEF InsertOccurrences, Exists
<1>10. \A c \in Seeds : DaysOf(c)' \subseteq DaysOf(c) \cup (IF c = s THEN {r} \X days ELSE {})
  <2>. SUFFICES ASSUME NEW c \in Seeds, NEW u \in OccurrenceKeys, Exists(u)', IsRule(u[1])',
                       rules'[u[1]].anchor = "scheduled", rules'[u[1]].series = c,
                       u \notin DaysOf(c)
                PROVE  c = s /\ u \in {r} \X days
    BY DEF DaysOf
  <2>1. PICK x \in RuleIds : x = u[1]
    BY OrderTypes
  <2>2. rules'[x].series = rules[x].series /\ rules'[x].anchor = rules[x].anchor /\ IsRule(x)
    BY <1>1, <1>3, <1>6, <1>8, <2>1 DEF IsRule
  <2>3. ~Exists(u)
    BY <2>1, <2>2 DEF DaysOf
  <2>4. u \in {r} \X days
    BY <1>9, <2>3
  <2>. QED BY <1>8, <2>4
<1>11. ASSUME NEW j \in DaysOf(s), NEW d \in days
       PROVE  j[2] \in Nat /\ j[2] <= d /\ (j[2] = d => j = <<r, d>>)
  <2>1. t \in OccurrenceKeys /\ j[2] <= t[2] /\ j \in OccurrenceKeys
    BY <1>7 DEF UpTo, DaysOf
  <2>2. t[2] \in Nat /\ j[2] \in Nat /\ d \in Nat /\ t \notin Seeds
    BY <1>5, <2>1, OrderTypes
  <2>3. PICK next \in Nat : next = rule.next /\ next >= t[2] /\ d >= next
    BY <1>1, <1>3, <1>5, <1>6, <1>7, <2>2, DatesAreNaturals DEF Ahead, DayOf, Rule
  <2>4. ASSUME j[2] = d PROVE j = <<r, d>>
    <3>1. t[2] = d /\ next = d
      BY <2>1, <2>2, <2>3, <2>4
    <3>2. t[1] = r
      BY <1>1, <1>3, <1>6, <1>7, <2>1, <2>3, <3>1 DEF Ahead
    <3>3. t \in DaysOf(s)
      BY <1>1, <1>3, <1>6, <1>7, <2>1, <3>2 DEF DaysOf
    <3>4. j = t
      BY <2>4, <3>1, <3>3 DEF DaysInv
    <3>. QED BY <2>1, <3>1, <3>2, <3>4 DEF OccurrenceKeys
  <2>. QED BY <2>1, <2>2, <2>3, <2>4
<1>12. ASSUME NEW c \in Seeds, NEW i \in DaysOf(c)', NEW j \in DaysOf(c)', i[2] = j[2]
       PROVE  i = j
  <2>1. CASE c = s
    <3>1. i \in DaysOf(s) \/ (i[2] \in days /\ i = <<r, i[2]>>)
      BY <1>10, <2>1
    <3>2. j \in DaysOf(s) \/ (j[2] \in days /\ j = <<r, j[2]>>)
      BY <1>10, <2>1
    <3>. QED BY <1>11, <1>12, <3>1, <3>2 DEF DaysInv
  <2>2. CASE c # s
    BY <1>10, <1>12, <2>2 DEF DaysInv
  <2>. QED BY <2>1, <2>2
<1>13. UpTo(rules[r].series, rules[r].current)'
  <2>1. CASE days = {}
    <3>1. UpTo(s, t)'
      BY <1>7, <1>10, <2>1 DEF UpTo
    <3>. QED BY <1>8, <2>1, <3>1
  <2>2. CASE days # {}
    <3>1. PICK last \in days : last = LastOf(days) /\ \A d \in days : d <= last
      BY <1>5, <2>2, LastOfReturns
    <3>2. PICK k \in OccurrenceKeys : k = <<r, last>> /\ k[2] = last
      BY <1>5, OrderTypes
    <3>3. \A u \in DaysOf(s)' : u[2] <= last
      <4>1. ASSUME NEW u \in DaysOf(s)' PROVE u[2] <= last
        <5>1. u \in DaysOf(s) \/ u[2] \in days
          BY <1>10
        <5>. QED BY <1>11, <3>1, <5>1
      <4>. QED BY <4>1
    <3>4. UpTo(s, k)'
      BY <3>2, <3>3 DEF UpTo
    <3>. QED BY <1>8, <2>2, <3>1, <3>2, <3>4
  <2>. QED BY <2>1, <2>2
<1>14. ASSUME NEW x \in RuleIds, IsRule(x)', rules'[x].enabled, rules'[x].anchor = "scheduled",
              x # r
       PROVE  UpTo(rules[x].series, rules[x].current)'
  <2>1. IsRule(x) /\ rules'[x] = rules[x]
    BY <1>8, <1>14 DEF IsRule
  <2>2. PICK c, u : c = rules[x].series /\ u = rules[x].current
    OBVIOUS
  <2>3. UpTo(c, u) /\ c \in Seeds
    BY <1>4, <1>14, <2>1, <2>2, SeriesTypes DEF DaysInv
  <2>4. c # s
    BY <1>1, <1>3, <1>6, <1>14, <2>1, <2>2 DEF OneActiveRulePerSeries
  <2>5. UpTo(c, u)'
    BY <1>10, <2>3, <2>4 DEF UpTo
  <2>. QED BY <2>1, <2>2, <2>5
<1>. QED BY <1>4, <1>12, <1>13, <1>14 DEF DaysInv

LEMMA DaysInit == Init => DaysInv
<1>. SUFFICES ASSUME Init PROVE DaysInv
  OBVIOUS
<1>1. \A s \in Seeds : DaysOf(s) = {}
  BY DEF Init, DaysOf, IsRule, OccurrenceKeys
<1>2. \A p \in Procs : req[p].pc # "bump"
  BY DEF Init, Idle
<1>. QED BY <1>1, <1>2 DEF DaysInv, Init, IsRule

LEMMA DaysNext ==
  ASSUME TypeOK, SeriesInv, OneActiveRulePerSeries, Steady, OrderInv, NoReturn, DaysInv,
         [Next]_vars
  PROVE  DaysInv'
<1>. TypeOK' /\ Solo
  BY TypeNext DEF Steady
<1>1. ASSUME NEW p \in Procs, Proceed(p) PROVE DaysInv'
  <2>1. CASE InsertNext(p) \/ BumpRule(p) \/ InsertRule(p) \/ Fork(p)
    BY <2>1, InsertNextDays, BumpRuleDays, InsertRuleDays, ForkDays
  <2>2. CASE ~(InsertNext(p) \/ BumpRule(p) \/ InsertRule(p) \/ Fork(p))
    <3>1. ~RewriteRule(p) /\ ~WriteUpdate(p)
      BY NoRewriting
    <3>2. UNCHANGED rules \/ EndSeries(p)
      BY <1>1, <2>2, <3>1 DEF Proceed, MarkDone, FindRule, InsertSkipException, RejectSkipped,
         FindExisting, RefuseRule, WriteMarker, RefuseFork
    <3>3. req[p].pc # "bump"
      BY <1>1, <2>2, <3>1 DEF Proceed, MarkDone, FindRule, InsertSkipException, RejectSkipped,
         FindExisting, RefuseRule, WriteMarker, RefuseFork, EndSeries
    <3>. QED BY <1>1, <2>2, <3>2, <3>3, ProceedDays
  <2>. QED BY <2>1, <2>2
<1>2. ASSUME NEW p \in Procs, Crash(p) PROVE DaysInv'
  BY <1>2 DEF Crash, Solo
<1>3. CASE UNCHANGED vars
  <2>1. \A s \in Seeds : DaysOf(s)' = DaysOf(s)
    BY <1>3 DEF vars, DaysOf, Exists, IsRule
  <2>2. \A s, t : UpTo(s, t) => UpTo(s, t)'
    BY <1>3 DEF vars, UpTo, DaysOf, Exists, IsRule
  <2>3. \A r \in RuleIds : Bumping(r)' <=> Bumping(r)
    BY <1>3 DEF vars, Bumping
  <2>4. UNCHANGED <<rules, req>>
    BY <1>3 DEF vars
  <2>5. ASSUME NEW r \in RuleIds, IsRule(r)', rules'[r].enabled, rules'[r].anchor = "scheduled",
               ~Bumping(r)'
        PROVE  UpTo(rules[r].series, rules[r].current)'
    <3>1. UpTo(rules[r].series, rules[r].current)
      BY <2>3, <2>4, <2>5 DEF DaysInv, IsRule
    <3>. QED BY <1>3, <3>1 DEF vars, UpTo, DaysOf, Exists, IsRule
  <2>6. ASSUME NEW p \in Procs, req'[p].pc = "bump", req'[p].snap.anchor = "scheduled"
        PROVE  UpTo(req[p].snap.series, Inserted(req[p]))'
    <3>1. UpTo(req[p].snap.series, Inserted(req[p]))
      BY <2>4, <2>6 DEF DaysInv
    <3>. QED BY <1>3, <3>1 DEF vars, UpTo, DaysOf, Exists, IsRule, Inserted
  <2>. QED BY <2>1, <2>5, <2>6 DEF DaysInv
<1>. QED BY <1>1, <1>2, <1>3, OutsideDays, MaterializeRuleDays DEF Next

LEMMA DaysInOrder == TypeOK /\ OrderInv /\ DaysInv => SeriesInOrder
<1>. SUFFICES ASSUME TypeOK, OrderInv, DaysInv PROVE SeriesInOrder
  OBVIOUS
<1>1. CursorNotBehindCurrent
  BY DEF CursorNotBehindCurrent, OrderInv, InOrder, Ahead
<1>2. NoDayTwice
  <2>. SUFFICES ASSUME NEW j \in OccurrenceKeys, NEW k \in OccurrenceKeys, Exists(j), Exists(k),
                       j[2] = k[2], IsRule(j[1]), IsRule(k[1]), SeriesOf(j) = SeriesOf(k),
                       rules[j[1]].anchor = "scheduled", rules[k[1]].anchor = "scheduled"
                PROVE  j = k
    BY DEF NoDayTwice
  <2>1. PICK s \in Seeds : s = rules[j[1]].series /\ s = rules[k[1]].series
    BY OrderTypes, SeriesTypes DEF SeriesOf
  <2>2. j \in DaysOf(s) /\ k \in DaysOf(s)
    BY <2>1 DEF DaysOf
  <2>. QED BY <2>2 DEF DaysInv
<1>3. CurrentIsLast
  <2>. SUFFICES ASSUME NEW r \in RuleIds, Quiet, IsRule(r), rules[r].enabled,
                       NEW k \in Generated(r)
                PROVE  k[2] <= DayOf(rules[r].current, r)
    BY DEF CurrentIsLast
  <2>1. ~Bumping(r)
    BY DEF Quiet, Bumping, Idle
  <2>2. rules[r].current \in Generated(r) /\ k[2] <= rules[r].current[2]
    BY <2>1 DEF OrderInv, InOrder, Leads
  <2>. QED BY <2>2, OrderTypes DEF DayOf, Generated
<1>4. OneOpenPerChain
  <2>. SUFFICES ASSUME NEW r \in RuleIds, IsRule(r), rules[r].anchor = "completion"
                PROVE  Cardinality(OpenOf(r)) <= 1
    BY DEF OneOpenPerChain, OpenOf
  <2>1. PICK t \in TaskIds : OpenOf(r) \subseteq {t}
    BY DEF OrderInv, InOrder
  <2>. QED BY <2>1, AtMostOne
<1>. QED BY <1>1, <1>2, <1>3, <1>4 DEF SeriesInOrder

\* A series that is split at most once has no rule to go back to: the one that
\* is split is its first.
LEMMA OneSplitHasNoReturn ==
  ASSUME TypeOK, SeriesInv, OrderInv, MaxRules <= 2
  PROVE  NoReturn
<1>. SUFFICES ASSUME NEW p \in Procs, req[p].pc = "fork", req[p].snap.anchor = "completion",
                     NEW r \in RuleIds, IsRule(r)
              PROVE  rules[r].anchor = "completion"
  BY DEF NoReturn
<1>1. req[p].rule \in RuleIds /\ rules[req[p].rule] = req[p].snap /\ ruleSeq < MaxRules
  BY OrderTypes DEF Remembers, OrderInv, Firm
<1>2. req[p].rule <= ruleSeq /\ r <= ruleSeq
  BY <1>1, NoneIsNoValue DEF SeriesInv, Reader, RulesKnown
<1>3. r = req[p].rule
  BY <1>1, <1>2, BoundsAssumption DEF TypeOK, RuleIds
<1>. QED BY <1>1, <1>3

\* While requests run one after another, no occurrence is reopened or given
\* another day and no rule is edited, the days of a series are in order: the
\* materializer, completions, skips, stops and splits never generate a day
\* twice, leave the cursor behind or a later occurrence aside, or open a second
\* occurrence of a chain (recurrence.ts:660-690, :721-777, :849-920).  That
\* excludes a split back to scheduled of a chain that was split off a scheduled
\* rule: its first day may be one that the earlier rule generated.
THEOREM DaysStayInOrder ==
  ASSUME Steady
  PROVE  Spec /\ []NoReturn => []SeriesInOrder
<1>1. Init => TypeOK /\ SeriesInv /\ OneActiveRulePerSeries /\ OrderInv /\ DaysInv
  BY TypeInit, SeriesInit, OneActiveInit, OrderInit, DaysInit
<1>2. TypeOK /\ SeriesInv /\ OneActiveRulePerSeries /\ OrderInv /\ DaysInv /\ NoReturn /\ [Next]_vars
        => (TypeOK /\ SeriesInv /\ OneActiveRulePerSeries /\ OrderInv /\ DaysInv)'
  BY TypeNext, SeriesNext, OneActiveNext, OrderNext, DaysNext
<1>. QED BY <1>1, <1>2, DaysInOrder, PTL DEF Spec

\* The same without that condition where a series is split at most once.
THEOREM DaysStayInOrderOneSplit ==
  ASSUME Steady, MaxRules <= 2
  PROVE  Spec => []SeriesInOrder
<1>1. Init => TypeOK /\ SeriesInv /\ OneActiveRulePerSeries /\ OrderInv /\ DaysInv
  BY TypeInit, SeriesInit, OneActiveInit, OrderInit, DaysInit
<1>2. TypeOK /\ SeriesInv /\ OneActiveRulePerSeries /\ OrderInv /\ DaysInv /\ [Next]_vars
        => (TypeOK /\ SeriesInv /\ OneActiveRulePerSeries /\ OrderInv /\ DaysInv)'
  BY TypeNext, SeriesNext, OneActiveNext, OrderNext, DaysNext, OneSplitHasNoReturn
<1>. QED BY <1>1, <1>2, DaysInOrder, PTL DEF Spec

=============================================================================
