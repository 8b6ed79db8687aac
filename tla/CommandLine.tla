---------------------------- MODULE CommandLine ----------------------------
(***************************************************************************)
(* The botnote command: a process that makes the calls of one subcommand,  *)
(* one after the other, and ends with an exit code; and the person who     *)
(* runs a command that failed again.                                       *)
(*                                                                         *)
(* The server is reduced to what the commands tell apart: tasks and notes  *)
(* in the order they were made, the series of the recurring ones, a        *)
(* project.  Other clients write between the calls.                        *)
(***************************************************************************)
EXTENDS Naturals, Sequences

CONSTANTS
  MaxAttempts,  \* bound: times the command is run
  MaxLost,      \* bound: calls that fail on the way
  MaxOthers     \* bound: writes of other clients

ASSUME CommandLineAssumption == {MaxAttempts, MaxLost, MaxOthers} \subseteq Nat

VARIABLES
  rows,     \* the tasks and notes
  rules,    \* the series: whether each goes on, and its current occurrence
  archived, \* whether the project is archived
  token,    \* whether the configuration holds a token the server accepts
  command,  \* the subcommand and its option, as the person wants it
  process,  \* the process that runs it
  tally     \* the attempts, the calls lost, the writes of others, and how
            \* often this command moved the series on

serverVars  == <<rows, rules, archived>>
cliVars == <<rows, rules, archived, token, command, process, tally>>

-----------------------------------------------------------------------------
(* The calls of each subcommand, in order, when a project is given by its  *)
(* key and a task by KEY-number.                                           *)

CmdProjects      == <<"list">>
CmdProject       == <<"find", "status">>
CmdToday         == <<"list", "range">>
CmdTasks         == <<"list", "recent">>
CmdTask(o)       == <<"find", "create">>
                      \o (IF o = "plain" THEN <<>> ELSE <<"configure">>)
CmdNote          == <<"find", "create">>
CmdUpdate        == <<"find", "resolve", "rename">>
\* Mutant: the comment is forgotten.
CmdDoneSilent(o) == <<"resolve", "finish">>
CmdDone(o)       == <<"resolve", "finish">>
                      \o (IF o = "comment" THEN <<"comment">> ELSE <<>>)
CmdComment       == <<"resolve", "comment">>
CmdRecurrence    == <<"resolve", "details">>
CmdSkip          == <<"resolve", "skip">>
CmdStopRecurrence == <<"resolve", "details", "stop">>
CmdSearch        == <<"search", "list">>
CmdExport        == <<"export">>
CmdImport        == <<"import">>

Calls(c) ==
  CASE c.name = "projects"   -> CmdProjects
    [] c.name = "project"    -> CmdProject
    [] c.name = "today"      -> CmdToday
    [] c.name = "tasks"      -> CmdTasks
    [] c.name = "task"       -> CmdTask(c.option)
    [] c.name = "note"       -> CmdNote
    [] c.name = "update"     -> CmdUpdate
    [] c.name = "done"       -> CmdDone(c.option)
    [] c.name = "comment"    -> CmdComment
    [] c.name = "recurrence" -> CmdRecurrence
    [] c.name = "skip"       -> CmdSkip
    [] c.name = "stop-recurrence" -> CmdStopRecurrence
    [] c.name = "search"     -> CmdSearch
    [] c.name = "export"     -> CmdExport
    [] c.name = "import"     -> CmdImport

\* The options that change the calls or what the server makes of them: a task
\* may repeat, by a preset the server knows or not.
Commands ==
  [name : {"projects", "today", "tasks", "note", "update", "comment",
           "recurrence", "skip", "stop-recurrence", "search",
           "export", "import"}, option : {"plain"}]
    \cup [name : {"project"}, option : {"archive", "restore"}]
    \cup [name : {"task"}, option : {"plain", "repeat", "typo"}]
    \cup [name : {"done"}, option : {"plain", "comment"}]

\* What is typed names the first task, the current occurrence of a series.
Named == 1

-----------------------------------------------------------------------------
Row(rule) == [status |-> "open", rule |-> rule, title |-> "old",
              comments |-> 0, moved |-> FALSE]

Idle == [calls |-> <<>>, code |-> "none", rule |-> 0, made |-> 0,
         comments |-> 0, others |-> 0]

CommandLineInit ==
  /\ rows = <<Row(1)>> /\ rules = <<[on |-> TRUE, current |-> Named]>>
  /\ archived = FALSE /\ token \in BOOLEAN
  /\ command \in Commands
  /\ process = Idle
  /\ tally = [attempts |-> 0, lost |-> 0, others |-> 0, moves |-> 0]

\* The command is run, for the first time or because it failed.
Main ==
  /\ process.code \in {"none", "1"} /\ process.calls = <<>>
  /\ tally.attempts < MaxAttempts
  /\ process' = [Idle EXCEPT !.calls = Calls(command),
                             !.comments = rows[Named].comments,
                             !.others = tally.others]
  /\ tally' = [tally EXCEPT !.attempts = @ + 1]
  /\ UNCHANGED <<serverVars, token, command>>

-----------------------------------------------------------------------------
(* The server's side of a call.                                           *)

Current(r) == rows[r].rule # 0 /\ rules[rows[r].rule] = [on |-> TRUE, current |-> r]

\* Mutant: a row that is closed already moves its series on again.
CloseRowAgain(r, status) ==
  IF rows[r].rule # 0
  THEN /\ rows' = Append([rows EXCEPT ![r].status = status], Row(rows[r].rule))
       /\ rules' = [rules EXCEPT ![rows[r].rule].current = Len(rows) + 1]
  ELSE /\ rows' = [rows EXCEPT ![r].status = status]
       /\ UNCHANGED rules

\* The row leaves the list of what is open; if it is the current occurrence
\* the next one is made.
CloseRow(r, status) ==
  IF Current(r) /\ rows[r].status = "open"
  THEN /\ rows' = Append([rows EXCEPT ![r].status = status], Row(rows[r].rule))
       /\ rules' = [rules EXCEPT ![rows[r].rule].current = Len(rows) + 1]
  ELSE /\ rows' = [rows EXCEPT ![r].status = status]
       /\ UNCHANGED rules

\* An archived project is found only by the command about projects; a task
\* that went to another project has another name; a preset the server does
\* not know and an occurrence that is not the current one are refused.
Accepts(call) ==
  /\ token
  /\ call = "find" => ~archived \/ command.name = "project"
  /\ call = "resolve" => ~rows[Named].moved
  /\ call = "configure" => command.option = "repeat"
  /\ call = "skip" => Current(Named)

\* What an accepted call changes.
Change(call) ==
  \/ /\ call \in {"create", "configure"}
     /\ LET r == IF call = "create" THEN Len(rows) + 1 ELSE process.made
        IN  IF call = "create"
            THEN rows' = Append(rows, Row(0)) /\ UNCHANGED rules
            ELSE /\ rows' = [rows EXCEPT ![r].rule = Len(rules) + 1]
                 /\ rules' = Append(rules, [on |-> TRUE, current |-> r])
     /\ UNCHANGED archived
  \/ /\ call = "status"
     /\ archived' = (command.option = "archive") /\ UNCHANGED <<rows, rules>>
  \/ /\ call \in {"rename", "comment"}
     /\ rows' = IF call = "rename" THEN [rows EXCEPT ![Named].title = "new", ![Named].moved = TRUE]
                ELSE [rows EXCEPT ![Named].comments = @ + 1]
     /\ UNCHANGED <<rules, archived>>
  \/ call = "finish" /\ CloseRow(Named, "done") /\ UNCHANGED archived
  \/ call = "skip" /\ CloseRow(Named, "rejected") /\ UNCHANGED archived
  \/ /\ call = "stop"
     /\ rules' = [rules EXCEPT ![process.rule].on = FALSE]
     /\ UNCHANGED <<rows, archived>>
  \/ /\ call \in {"list", "find", "range", "recent", "resolve", "details",
                  "search", "export", "import"}
     /\ UNCHANGED serverVars

Moved == IF Len(rows') > Len(rows) /\ Head(process.calls) \in {"finish", "skip"}
         THEN 1 ELSE 0

-----------------------------------------------------------------------------
(* The process's side.                                                    *)

Calling == process.calls # <<>>
Pending == Head(process.calls)
Exit(code) == process' = [process EXCEPT !.calls = <<>>, !.code = code]

\* The call is answered: the next one follows, or the end.  An import that met
\* conflicts ends with another code.
Answered ==
  /\ Calling /\ Accepts(Pending)
  /\ Change(Pending)
  /\ LET after == [process EXCEPT
                     !.calls = Tail(@),
                     !.rule = IF Pending = "details" THEN rows[Named].rule ELSE @,
                     !.made = IF Pending = "create" THEN Len(rows) + 1 ELSE @]
     IN  IF after.calls # <<>> THEN process' = after
         ELSE \E code \in IF Pending = "import" THEN {"0", "3"} ELSE {"0"} :
                process' = [after EXCEPT !.code = code]
  /\ tally' = [tally EXCEPT !.moves = @ + Moved]
  /\ UNCHANGED <<token, command>>

\* Any error ends the process.
Refused ==
  /\ Calling /\ ~Accepts(Pending)
  /\ Exit("1")
  /\ UNCHANGED <<serverVars, token, command, tally>>

\* Fault: the server is not reached, or its answer does not come through.
Lost ==
  /\ Calling
  /\ tally.lost < MaxLost
  /\ \/ Accepts(Pending) /\ Change(Pending)
     \/ UNCHANGED serverVars
  /\ Exit("1")
  /\ tally' = [tally EXCEPT !.lost = @ + 1, !.moves = @ + Moved]
  /\ UNCHANGED <<token, command>>

\* In another terminal.
CmdLogin  == ~token /\ token' = TRUE
             /\ UNCHANGED <<serverVars, command, process, tally>>
CmdLogout == token /\ tally.attempts < MaxAttempts /\ token' = FALSE
             /\ UNCHANGED <<serverVars, command, process, tally>>

\* Another client completes the task, moves it to another project, splits its
\* series, or archives or restores the project.
OtherClientWrites ==
  /\ tally.others < MaxOthers
  /\ \/ CloseRow(Named, "done") /\ UNCHANGED archived
     \/ rows' = [rows EXCEPT ![Named].moved = ~@] /\ UNCHANGED <<rules, archived>>
     \/ /\ Current(Named)
        /\ rules' = Append([rules EXCEPT ![rows[Named].rule].on = FALSE],
                           [on |-> TRUE, current |-> Named])
        /\ rows' = [rows EXCEPT ![Named].rule = Len(rules) + 1]
        /\ UNCHANGED archived
     \/ archived' = ~archived /\ UNCHANGED <<rows, rules>>
  /\ tally' = [tally EXCEPT !.others = @ + 1]
  /\ UNCHANGED <<token, command, process>>

CommandLineNext ==
  \/ Main \/ Answered \/ Refused \/ Lost
  \/ CmdLogin \/ CmdLogout \/ OtherClientWrites

CommandLineSpec == CommandLineInit /\ [][CommandLineNext]_cliVars

-----------------------------------------------------------------------------
CommandLineTypeOK ==
  /\ \A r \in DOMAIN rows : rows[r].rule \in 0..Len(rules)
  /\ \A k \in DOMAIN rules : rules[k].current \in DOMAIN rows
  /\ process.code \in {"none", "0", "1", "3"}
  /\ process.rule \in 0..Len(rules) /\ process.made \in 0..Len(rows)
  /\ Calling => process.code = "none"

\* What the command is for, in full.
Carried ==
  LET row == rows[Named]
  IN  CASE command.name = "project" -> archived <=> command.option = "archive"
        [] command.name \in {"task", "note"} ->
             process.made # 0 /\ (rows[process.made].rule # 0 <=> command.option = "repeat")
        [] command.name = "update"  -> row.title = "new"
        [] command.name = "done"    ->
             /\ row.status = "done"
             /\ command.option = "comment" => row.comments > process.comments
        [] command.name = "comment" -> row.comments > process.comments
        [] command.name = "skip"    -> row.status = "rejected"
        [] command.name = "stop-recurrence" ->
             \A k \in DOMAIN rules : rules[k].on => rules[k].current # Named
        [] OTHER -> TRUE

\* A command that ends with code 0 did all of what it is for, with each of its
\* calls, unless another client wrote since it began (bin.ts:413-592).
SuccessIsComplete ==
  process.code = "0" /\ process.others = tally.others => Carried

\* However often a command is run again after a failure, it moves the series
\* on once: the name that was typed stays that of the occurrence that is closed
\* by then (bin.ts:513-578, recurrence.ts:773, 787).
MovesOnce == tally.moves <= 1
=============================================================================
