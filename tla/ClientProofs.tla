---------------------------- MODULE ClientProofs ----------------------------
(***************************************************************************)
(* Proofs about the clients: the command, and the queries and the drawer   *)
(* of the browser tab.                                                     *)
(*                                                                         *)
(* However often a command is run again, whatever is lost on the way and   *)
(* whatever other clients write, it moves its series on at most once, and  *)
(* when it ends with code 0 it did all that it is for unless another       *)
(* client wrote meanwhile.                                                 *)
(*                                                                         *)
(* A move makes the next occurrence the current one, and nothing makes the *)
(* named one current again: that is the invariant, and the rest of it says *)
(* that the process never takes the task it made for the one that was      *)
(* named.                                                                  *)
(*                                                                         *)
(* For the second, the invariant says what is left of a command at each of *)
(* its calls, and what the calls before did that the last one does not     *)
(* show; and that the series a task is current in is the one its marker    *)
(* names, which is the one stop-recurrence asks the server about.          *)
(*                                                                         *)
(* Of the drawer: what it is about to save was typed, whichever entities   *)
(* it showed before.  The invariant follows the two flags of the component *)
(* and its draft back to what was typed since it was filled.               *)
(*                                                                         *)
(* All three keep their types, of which the least obvious: a list shows a  *)
(* row as deleted only while the server has not refused the deletion; the  *)
(* timer of the drawer runs only while there is something to save; what a  *)
(* command's markers name is there.  Steps of the three together are steps *)
(* of each (WebIsAll).                                                     *)
(***************************************************************************)
EXTENDS MCWeb, SequenceTheorems, TLAPS

Rows == [status : {"open", "done", "rejected"}, rule : Nat, title : {"old", "new"},
         comments : Nat, moved : BOOLEAN]

Rules == [on : BOOLEAN, current : Nat]

Steps == {"list", "find", "status", "range", "recent", "create", "configure", "resolve",
          "rename", "finish", "comment", "details", "skip", "stop", "search", "export",
          "import"}

ServerOK ==
  /\ rows \in Seq(Rows) /\ Named <= Len(rows)
  /\ rules \in Seq(Rules)
  /\ \A r \in 1..Len(rows) : rows[r].rule \in 0..Len(rules)

ProcessOK ==
  /\ process \in [calls : Seq(Steps), code : {"none", "0", "1", "3"}, rule : Nat,
                  made : Nat, comments : Nat, others : Nat]
  /\ process.made # Named
  /\ tally \in [attempts : Nat, lost : Nat, others : Nat, moves : Nat]

\* Once the series moved on, what was named is not its current occurrence.
MovedPast == tally.moves = 0 \/ (tally.moves = 1 /\ ~ Current(Named))

CommandInv == ServerOK /\ ProcessOK /\ MovedPast /\ command \in Commands

-----------------------------------------------------------------------------
(* What an assignment to one element does to a sequence.                   *)

LEMMA AssignSeq ==
  ASSUME NEW S, NEW s \in Seq(S), NEW i \in Nat, NEW e, i \in 1..Len(s) => e \in S
  PROVE  /\ [s EXCEPT ![i] = e] \in Seq(S)
         /\ Len([s EXCEPT ![i] = e]) = Len(s)
         /\ \A j \in 1..Len(s) : [s EXCEPT ![i] = e][j] = IF j = i THEN e ELSE s[j]
<1>1. CASE i \in 1..Len(s)
  BY <1>1, ExceptSeq
<1>2. CASE i \notin 1..Len(s)
  <2>1. [s EXCEPT ![i] = e] = s
    BY <1>2
  <2> QED
    BY <1>2, <2>1
<1> QED
  BY <1>1, <1>2

LEMMA RowIsRow ==
  ASSUME NEW k \in Nat
  PROVE  Row(k) \in Rows /\ Row(k).rule = k
BY DEF Row, Rows

-----------------------------------------------------------------------------
LEMMA CallsAreSteps ==
  ASSUME NEW c \in Commands
  PROVE  Calls(c) \in Seq(Steps)
<1>1. c.name \in {"projects", "project", "today", "tasks", "task", "note", "update", "done",
                  "comment", "recurrence", "skip", "stop-recurrence", "search", "export",
                  "import"}
  BY DEF Commands
<1>2. /\ CmdProjects \in Seq(Steps) /\ CmdProject \in Seq(Steps)
      /\ CmdToday \in Seq(Steps) /\ CmdTasks \in Seq(Steps)
      /\ CmdNote \in Seq(Steps) /\ CmdUpdate \in Seq(Steps)
  BY DEF CmdProjects, CmdProject, CmdToday, CmdTasks, CmdNote, CmdUpdate, Steps
<1>3. /\ CmdComment \in Seq(Steps) /\ CmdRecurrence \in Seq(Steps)
      /\ CmdSkip \in Seq(Steps) /\ CmdStopRecurrence \in Seq(Steps)
      /\ CmdSearch \in Seq(Steps) /\ CmdExport \in Seq(Steps) /\ CmdImport \in Seq(Steps)
  BY DEF CmdComment, CmdRecurrence, CmdSkip, CmdStopRecurrence, CmdSearch, CmdExport,
         CmdImport, Steps
<1>4. CmdTask(c.option) \in Seq(Steps)
  <2>1. <<"find", "create">> \in Seq(Steps) /\ <<"configure">> \in Seq(Steps)
        /\ <<>> \in Seq(Steps)
    BY DEF Steps
  <2> QED
    BY <2>1, ConcatProperties DEF CmdTask
<1>5. CmdDone(c.option) \in Seq(Steps)
  <2>1. <<"resolve", "finish">> \in Seq(Steps) /\ <<"comment">> \in Seq(Steps)
        /\ <<>> \in Seq(Steps)
    BY DEF Steps
  <2> QED
    BY <2>1, ConcatProperties DEF CmdDone
<1> QED
  BY <1>1, <1>2, <1>3, <1>4, <1>5 DEF Calls

\* A series that is not at the named occurrence stays past it, and one that
\* moves was at it: what the server does in one step.
Onward ==
  /\ ServerOK'
  /\ Current(Named)' => Current(Named)
  /\ Len(rows') >= Len(rows)

\* The one step that moves a series.
Moves == Len(rows') > Len(rows) => Current(Named) /\ ~ Current(Named)'

LEMMA CloseRowMoves ==
  ASSUME ServerOK, NEW status \in {"done", "rejected"}, CloseRow(Named, status)
  PROVE  Onward /\ Moves
<1> DEFINE row == [rows[Named] EXCEPT !.status = status]
           closed == [rows EXCEPT ![Named] = row]
<1>0. Named = 1 /\ Named \in 1..Len(rows)
  BY DEF Named, ServerOK
<1>1. row \in Rows /\ row.rule = rows[Named].rule
  <2>1. rows[Named] \in Rows
    BY <1>0 DEF ServerOK
  <2> QED
    BY <2>1 DEF Rows
<1>2. /\ closed \in Seq(Rows) /\ Len(closed) = Len(rows)
      /\ \A r \in 1..Len(rows) : closed[r].rule = rows[r].rule
  <2> HIDE DEF row
  <2> QED
    BY <1>1, AssignSeq DEF ServerOK
<1>3. CASE Current(Named) /\ rows[Named].status = "open"
  <2> DEFINE k == rows[Named].rule
             rule == [rules[k] EXCEPT !.current = Len(rows) + 1]
  <2>1. rows' = Append(closed, Row(k)) /\ rules' = [rules EXCEPT ![k] = rule]
    BY <1>3 DEF CloseRow
  <2>2. k \in 1..Len(rules)
    BY <1>0, <1>3 DEF Current, ServerOK
  <2>3. Row(k) \in Rows /\ Row(k).rule = k
    BY <2>2, RowIsRow
  <2>4. Len(rows) \in Nat /\ rule \in Rules /\ rule.current = Len(rows) + 1
    <3>1. rules[k] \in Rules /\ Len(rows) \in Nat
      BY <2>2 DEF ServerOK
    <3> HIDE DEF k
    <3> QED
      BY <3>1 DEF Rules
  <2>5. rules' \in Seq(Rules) /\ Len(rules') = Len(rules) /\ rules'[k].current = Len(rows) + 1
    <3> HIDE DEF rule, k
    <3> QED
      BY <2>1, <2>2, <2>4, AssignSeq DEF ServerOK
  <2>6. /\ rows' \in Seq(Rows) /\ Len(rows') = Len(rows) + 1
        /\ rows'[Len(rows) + 1].rule = k
        /\ \A r \in 1..Len(rows) : rows'[r].rule = rows[r].rule
    <3> HIDE DEF closed, k
    <3> QED
      BY <1>2, <2>1, <2>3 DEF ServerOK
  <2>7. ServerOK'
    BY <1>0, <2>2, <2>5, <2>6 DEF ServerOK
  <2>8. ~ Current(Named)'
    <3> HIDE DEF rule
    <3>1. rows'[Named].rule = k /\ rules'[k].current # Named
      BY <1>0, <2>4, <2>5, <2>6
    <3> QED
      BY <3>1 DEF Current, Named
  <2> QED
    BY <1>3, <2>4, <2>6, <2>7, <2>8 DEF Onward, Moves
<1>4. CASE ~ (Current(Named) /\ rows[Named].status = "open")
  <2>1. rows' = closed /\ rules' = rules
    BY <1>4 DEF CloseRow
  <2> HIDE DEF closed
  <2> QED
    BY SMTT(40), <1>0, <1>2, <2>1 DEF Onward, Moves, ServerOK, Current
<1> QED
  BY <1>3, <1>4

\* What a call changes, whether or not its answer comes through.
LEMMA ChangeMoves ==
  ASSUME ServerOK, ProcessOK, NEW step, Change(step)
  PROVE  Onward /\ (step \in {"finish", "skip"} => Moves)
<1>0. Named = 1 /\ Named \in 1..Len(rows)
  BY DEF Named, ServerOK
<1>1. CASE step = "create" /\ rows' = Append(rows, Row(0)) /\ UNCHANGED rules
  <2>1. Row(0) \in Rows /\ Row(0).rule = 0
    BY RowIsRow
  <2>2. /\ rows' \in Seq(Rows) /\ Len(rows') = Len(rows) + 1
        /\ rows'[Len(rows) + 1].rule = 0
        /\ \A r \in 1..Len(rows) : rows'[r] = rows[r]
    BY <1>1, <2>1 DEF ServerOK
  <2> QED
    BY <1>0, <1>1, <2>2 DEF Onward, ServerOK, Current
<1>2. CASE /\ step = "configure"
           /\ rows' = [rows EXCEPT ![process.made].rule = Len(rules) + 1]
           /\ rules' = Append(rules, [on |-> TRUE, current |-> process.made])
  <2> DEFINE m == process.made
             row == [rows[m] EXCEPT !.rule = Len(rules) + 1]
  <2>1. m \in Nat /\ m # Named /\ Len(rules) \in Nat
    BY DEF ProcessOK, ServerOK
  <2>2. [on |-> TRUE, current |-> m] \in Rules
    BY <2>1 DEF Rules
  <2>3. /\ rules' \in Seq(Rules) /\ Len(rules') = Len(rules) + 1
        /\ \A k \in 1..Len(rules) : rules'[k] = rules[k]
    BY <1>2, <2>2 DEF ServerOK
  <2>4. m \in 1..Len(rows) => row \in Rows /\ row.rule = Len(rules) + 1
    <3>1. m \in 1..Len(rows) => rows[m] \in Rows
      BY DEF ServerOK
    <3> HIDE DEF m
    <3> QED
      BY <2>1, <3>1 DEF Rows
  <2>5. /\ rows' \in Seq(Rows) /\ Len(rows') = Len(rows)
        /\ \A r \in 1..Len(rows) : rows'[r] = IF r = m THEN row ELSE rows[r]
    <3>1. rows' = [rows EXCEPT ![m] = row]
      BY <1>2
    <3> HIDE DEF row, m
    <3> QED
      BY <2>4, <3>1, AssignSeq DEF ServerOK
  <2> HIDE DEF row
  <2>6. ServerOK'
    BY <2>1, <2>3, <2>4, <2>5 DEF ServerOK
  <2>7. rows'[Named] = rows[Named] /\ rows[Named].rule \in 0..Len(rules)
    BY <1>0, <2>1, <2>5 DEF ServerOK
  <2>8. Current(Named)' => Current(Named)
    BY <2>1, <2>3, <2>7 DEF Current
  <2> QED
    BY <1>2, <2>5, <2>6, <2>8 DEF Onward, Moves, ServerOK
<1>3. CASE /\ step \in {"rename", "comment"} /\ UNCHANGED rules
           /\ rows' = IF step = "rename"
                      THEN [rows EXCEPT ![Named].title = "new", ![Named].moved = TRUE]
                      ELSE [rows EXCEPT ![Named].comments = @ + 1]
  <2> DEFINE row == IF step = "rename"
                    THEN [rows[Named] EXCEPT !.title = "new", !.moved = TRUE]
                    ELSE [rows[Named] EXCEPT !.comments = @ + 1]
  <2>1. rows[Named] \in Rows
    BY <1>0 DEF ServerOK
  <2>2. row \in Rows /\ row.rule = rows[Named].rule
    <3>1. CASE step = "rename"
      BY <2>1, <3>1 DEF Rows
    <3>2. CASE step # "rename"
      BY <2>1, <3>2 DEF Rows
    <3> QED
      BY <3>1, <3>2
  <2>3. rows' = [rows EXCEPT ![Named] = row]
    BY <1>0, <1>3 DEF ServerOK
  <2> HIDE DEF row
  <2>4. /\ rows' \in Seq(Rows) /\ Len(rows') = Len(rows)
        /\ \A r \in 1..Len(rows) : rows'[r].rule = rows[r].rule
    BY <2>2, <2>3, AssignSeq DEF ServerOK
  <2>5. ServerOK'
    BY <1>3, <2>4 DEF ServerOK
  <2>6. rows'[Named].rule = rows[Named].rule /\ rules' = rules
    BY <1>0, <1>3, <2>4
  <2>7. Current(Named)' => Current(Named)
    BY <2>6 DEF Current
  <2>8. Len(rows') = Len(rows) /\ Len(rows) \in Nat
    BY <2>4 DEF ServerOK
  <2> QED
    BY <1>3, <2>5, <2>7, <2>8 DEF Onward, Moves
<1>4. CASE step = "finish" /\ CloseRow(Named, "done")
  <2> QED
    BY <1>4, CloseRowMoves
<1>5. CASE step = "skip" /\ CloseRow(Named, "rejected")
  <2> QED
    BY <1>5, CloseRowMoves
<1>6. CASE /\ step = "stop" /\ UNCHANGED rows
           /\ rules' = [rules EXCEPT ![process.rule].on = FALSE]
  <2> DEFINE k == process.rule
             rule == [rules[k] EXCEPT !.on = FALSE]
  <2>1. k \in 1..Len(rules) => rule \in Rules /\ rule.on = FALSE
    <3>1. k \in 1..Len(rules) => rules[k] \in Rules
      BY DEF ServerOK
    <3> HIDE DEF k
    <3> QED
      BY <3>1 DEF Rules
  <2>2. /\ rules' \in Seq(Rules) /\ Len(rules') = Len(rules)
        /\ \A j \in 1..Len(rules) : rules'[j] = IF j = k THEN rule ELSE rules[j]
    <3>1. rules' = [rules EXCEPT ![k] = rule] /\ k \in Nat
      BY <1>6 DEF ProcessOK
    <3> HIDE DEF rule, k
    <3> QED
      BY <2>1, <3>1, AssignSeq DEF ServerOK
  <2>3. ServerOK'
    BY <1>6, <2>2 DEF ServerOK
  <2>4. rows[Named].rule \in 0..Len(rules)
    BY <1>0 DEF ServerOK
  <2>5. Current(Named)' => Current(Named)
    <3> SUFFICES ASSUME rows[Named].rule # 0,
                        rules'[rows[Named].rule] = [on |-> TRUE, current |-> Named]
                 PROVE  rules[rows[Named].rule] = [on |-> TRUE, current |-> Named]
      BY <1>6 DEF Current
    <3>1. rows[Named].rule \in 1..Len(rules)
      BY <2>4
    <3>2. rules'[rows[Named].rule].on = TRUE
      OBVIOUS
    <3> HIDE DEF rule, k
    <3> QED
      BY <2>1, <2>2, <3>1, <3>2
  <2> QED
    BY <1>6, <2>3, <2>5 DEF Onward, Moves, ServerOK
<1>7. CASE UNCHANGED <<rows, rules>>
  BY <1>7 DEF Onward, Moves, ServerOK, Current
<1> QED
  BY <1>1, <1>2, <1>3, <1>4, <1>5, <1>6, <1>7 DEF Change, serverVars

-----------------------------------------------------------------------------
(* The steps.                                                              *)

\* The process keeps its shape and what is counted goes up as it should.
LEMMA TallyKeeps ==
  ASSUME ProcessOK, ServerOK, MovedPast, Onward,
         NEW m \in {0, 1}, m = 1 => Moves /\ Len(rows') > Len(rows),
         tally'.moves = tally.moves + m
  PROVE  MovedPast'
<1>1. CASE m = 0
  BY <1>1 DEF MovedPast, Onward, ProcessOK
<1>2. CASE m = 1
  BY <1>2 DEF MovedPast, Moves, ProcessOK
<1> QED
  BY <1>1, <1>2

LEMMA InvAfter ==
  ASSUME CommandInv, Onward, ProcessOK', command' = command,
         NEW m \in {0, 1}, m = 1 => Moves /\ Len(rows') > Len(rows),
         tally'.moves = tally.moves + m
  PROVE  CommandInv'
BY TallyKeeps DEF CommandInv, Onward

LEMMA StillServer ==
  ASSUME ServerOK, UNCHANGED <<rows, rules>>
  PROVE  Onward
BY DEF Onward, ServerOK, Current

LEMMA MovedIsMoves ==
  ASSUME ServerOK, ProcessOK, Change(Pending)
  PROVE  Moved \in {0, 1} /\ (Moved = 1 => Moves /\ Len(rows') > Len(rows))
BY ChangeMoves DEF Moved, Pending

LEMMA MainKeeps == ASSUME CommandInv, Main PROVE CommandInv'
<1>1. Onward /\ command' = command
  BY StillServer DEF CommandInv, Main, serverVars
<1>2. Calls(command) \in Seq(Steps)
  BY CallsAreSteps DEF CommandInv
<1>3. rows[Named].comments \in Nat
  <2>1. rows[Named] \in Rows
    BY DEF CommandInv, ServerOK, Named
  <2> QED
    BY <2>1 DEF Rows
<1>4. tally.others \in Nat /\ process' = [Idle EXCEPT !.calls = Calls(command),
                                                     !.comments = rows[Named].comments,
                                                     !.others = tally.others]
  BY DEF CommandInv, ProcessOK, Main
<1>5. /\ process' \in [calls : Seq(Steps), code : {"none", "0", "1", "3"}, rule : Nat,
                       made : Nat, comments : Nat, others : Nat]
      /\ process'.made = 0
  BY <1>2, <1>3, <1>4 DEF Idle
<1>6. tally' = [tally EXCEPT !.attempts = @ + 1] /\ tally \in [attempts : Nat, lost : Nat,
                                                        others : Nat, moves : Nat]
  BY DEF CommandInv, ProcessOK, Main
<1>7. ProcessOK' /\ tally'.moves = tally.moves + 0
  BY <1>5, <1>6 DEF ProcessOK, Named
<1> QED
  BY <1>1, <1>7, InvAfter

LEMMA AnsweredKeeps == ASSUME CommandInv, Answered PROVE CommandInv'
<1>1. ServerOK /\ ProcessOK /\ Change(Pending)
  BY DEF CommandInv, Answered
<1>2. Onward
  BY <1>1, ChangeMoves
<1>3. Moved \in {0, 1} /\ (Moved = 1 => Moves /\ Len(rows') > Len(rows))
  BY <1>1, MovedIsMoves
<1>4. tally'.moves = tally.moves + Moved /\ tally' \in [attempts : Nat, lost : Nat,
                                                        others : Nat, moves : Nat]
  <2>1. tally' = [tally EXCEPT !.moves = @ + Moved]
    BY DEF Answered
  <2>2. tally \in [attempts : Nat, lost : Nat, others : Nat, moves : Nat]
    BY <1>1 DEF ProcessOK
  <2> QED
    BY <1>3, <2>1, <2>2
<1>5. PICK after : after = [process EXCEPT
                     !.calls = Tail(@),
                     !.rule = IF Pending = "details" THEN rows[Named].rule ELSE @,
                     !.made = IF Pending = "create" THEN Len(rows) + 1 ELSE @]
  OBVIOUS
<1>6. process' = after \/ \E code \in {"0", "3"} : process' = [after EXCEPT !.code = code]
  BY <1>5 DEF Answered
<1>7. Len(rows) \in Nat /\ Len(rows) + 1 # Named /\ rows[Named].rule \in Nat
  BY <1>1 DEF ServerOK, Named
<1>8. Tail(process.calls) \in Seq(Steps)
  <2>1. process.calls \in Seq(Steps) /\ process.calls # <<>>
    BY <1>1 DEF ProcessOK, Answered, Calling
  <2> QED
    BY <2>1
<1>9. /\ after \in [calls : Seq(Steps), code : {"none", "0", "1", "3"}, rule : Nat,
                    made : Nat, comments : Nat, others : Nat]
      /\ after.made # Named
  <2>1. PICK calls, rule, made :
          /\ calls = Tail(process.calls)
          /\ rule = IF Pending = "details" THEN rows[Named].rule ELSE process.rule
          /\ made = IF Pending = "create" THEN Len(rows) + 1 ELSE process.made
    OBVIOUS
  <2>2. calls \in Seq(Steps) /\ rule \in Nat /\ made \in Nat /\ made # Named
    BY <1>1, <1>7, <1>8, <2>1 DEF ProcessOK
  <2>3. after = [process EXCEPT !.calls = calls, !.rule = rule, !.made = made]
    BY <1>5, <2>1
  <2> QED
    BY <1>1, <2>2, <2>3 DEF ProcessOK
<1>10. /\ process' \in [calls : Seq(Steps), code : {"none", "0", "1", "3"}, rule : Nat,
                        made : Nat, comments : Nat, others : Nat]
       /\ process'.made # Named
  BY <1>6, <1>9
<1>11. ProcessOK'
  BY <1>4, <1>10 DEF ProcessOK, Named
<1>12. command' = command
  BY DEF Answered
<1> QED
  BY <1>2, <1>3, <1>4, <1>11, <1>12, InvAfter

LEMMA ExitKeeps ==
  ASSUME ProcessOK, Exit("1")
  PROVE  /\ process' \in [calls : Seq(Steps), code : {"none", "0", "1", "3"}, rule : Nat,
                          made : Nat, comments : Nat, others : Nat]
         /\ process'.made # Named
<1>1. <<>> \in Seq(Steps)
  OBVIOUS
<1> QED
  BY <1>1 DEF ProcessOK, Exit

LEMMA RefusedKeeps == ASSUME CommandInv, Refused PROVE CommandInv'
<1>1. Onward /\ command' = command
  BY StillServer DEF CommandInv, Refused, serverVars
<1>2. ProcessOK' /\ tally'.moves = tally.moves + 0
  BY ExitKeeps DEF CommandInv, ProcessOK, Refused, Named
<1> QED
  BY <1>1, <1>2, InvAfter

LEMMA LostKeeps == ASSUME CommandInv, Lost PROVE CommandInv'
<1>1. ServerOK /\ ProcessOK
  BY DEF CommandInv
<1>2. /\ Onward
      /\ Moved \in {0, 1}
      /\ Moved = 1 => Moves /\ Len(rows') > Len(rows)
  <2>1. CASE Change(Pending)
    BY <2>1, <1>1, ChangeMoves, MovedIsMoves
  <2>2. CASE UNCHANGED serverVars
    <3>1. Moved = 0
      BY <2>2, <1>1 DEF Moved, serverVars, ServerOK
    <3> QED
      BY <2>2, <3>1, <1>1, StillServer DEF serverVars
  <2> QED
    BY <2>1, <2>2 DEF Lost
<1>3. /\ tally'.moves = tally.moves + Moved
      /\ tally' \in [attempts : Nat, lost : Nat, others : Nat, moves : Nat]
  <2>1. tally' = [tally EXCEPT !.lost = @ + 1, !.moves = @ + Moved]
    BY DEF Lost
  <2>2. tally \in [attempts : Nat, lost : Nat, others : Nat, moves : Nat]
    BY <1>1 DEF ProcessOK
  <2>3. PICK m \in {0, 1} : m = Moved
    BY <1>2
  <2>4. tally' = [tally EXCEPT !.lost = @ + 1, !.moves = @ + m]
    BY <2>1, <2>3
  <2>5. tally'.moves = tally.moves + m
        /\ tally' \in [attempts : Nat, lost : Nat, others : Nat, moves : Nat]
    <3>1. PICK lost, moves : lost = tally.lost + 1 /\ moves = tally.moves + m
      OBVIOUS
    <3>2. lost \in Nat /\ moves \in Nat
      BY <2>2, <3>1
    <3>3. tally' = [tally EXCEPT !.lost = lost, !.moves = moves]
      BY <2>4, <3>1
    <3>4. tally'.moves = moves
          /\ tally' \in [attempts : Nat, lost : Nat, others : Nat, moves : Nat]
      BY <2>2, <3>2, <3>3
    <3> QED
      BY <3>1, <3>4
  <2> QED
    BY <2>3, <2>5
<1>4. Exit("1") /\ command' = command
  BY DEF Lost
<1>5. ProcessOK'
  BY <1>1, <1>3, <1>4, ExitKeeps DEF ProcessOK, Named
<1> QED
  BY <1>2, <1>3, <1>4, <1>5, InvAfter

LEMMA LoginLogoutKeep == ASSUME CommandInv, CmdLogin \/ CmdLogout PROVE CommandInv'
<1>1. Onward /\ UNCHANGED <<process, tally, command>>
  BY StillServer DEF CommandInv, CmdLogin, CmdLogout, serverVars
<1>2. ProcessOK' /\ tally'.moves = tally.moves + 0
  BY <1>1 DEF CommandInv, ProcessOK, Named
<1> QED
  BY <1>1, <1>2, InvAfter

\* A split makes a new series whose current occurrence is the named one: it is
\* made only of the series that was there.
LEMMA SplitMoves ==
  ASSUME ServerOK, Current(Named),
         rules' = Append([rules EXCEPT ![rows[Named].rule].on = FALSE],
                         [on |-> TRUE, current |-> Named]),
         rows' = [rows EXCEPT ![Named].rule = Len(rules) + 1]
  PROVE  Onward
<1> DEFINE k == rows[Named].rule
           rule == [rules[k] EXCEPT !.on = FALSE]
           row == [rows[Named] EXCEPT !.rule = Len(rules) + 1]
           off == [rules EXCEPT ![k] = rule]
<1>0. Named = 1 /\ Named \in 1..Len(rows) /\ Len(rules) \in Nat
  BY DEF Named, ServerOK
<1>1. k \in 1..Len(rules)
  <2>1. k # 0
    BY DEF Current
  <2>2. k \in 0..Len(rules)
    BY <1>0 DEF ServerOK
  <2> HIDE DEF k
  <2> QED
    BY <1>0, <2>1, <2>2
<1>2. rule \in Rules
  <2>1. rules[k] \in Rules
    BY <1>1 DEF ServerOK
  <2> HIDE DEF k
  <2> QED
    BY <2>1 DEF Rules
<1>3. off \in Seq(Rules) /\ Len(off) = Len(rules)
  <2> HIDE DEF rule, k
  <2> QED
    BY <1>1, <1>2, AssignSeq DEF ServerOK
<1>4. [on |-> TRUE, current |-> Named] \in Rules
  BY <1>0 DEF Rules
<1>5. rules' = Append(off, [on |-> TRUE, current |-> Named])
  OBVIOUS
<1>6. rules' \in Seq(Rules) /\ Len(rules') = Len(rules) + 1
  <2> DEFINE new == [on |-> TRUE, current |-> Named]
  <2> HIDE DEF off, new
  <2>1. Append(off, new) \in Seq(Rules) /\ Len(Append(off, new)) = Len(off) + 1
    BY <1>3, <1>4, AppendProperties DEF new
  <2> QED
    BY <1>3, <1>5, <2>1 DEF new
<1>7. row \in Rows /\ row.rule = Len(rules) + 1
  <2>1. rows[Named] \in Rows
    BY <1>0 DEF ServerOK
  <2> QED
    BY SMTT(40), <2>1, <1>0 DEF Rows
<1>8. rows' = [rows EXCEPT ![Named] = row]
  OBVIOUS
<1> HIDE DEF row
<1>9. /\ rows' \in Seq(Rows) /\ Len(rows') = Len(rows)
      /\ \A r \in 1..Len(rows) : rows'[r] = IF r = Named THEN row ELSE rows[r]
  BY <1>0, <1>7, <1>8, AssignSeq DEF ServerOK
<1>10. ServerOK'
  BY <1>0, <1>6, <1>7, <1>9 DEF ServerOK
<1> QED
  BY <1>0, <1>9, <1>10 DEF Onward

LEMMA OtherIsOnward ==
  ASSUME CommandInv, OtherClientWrites
  PROVE  ServerOK /\ UNCHANGED <<process, command>> /\ Onward
<1>1. ServerOK /\ UNCHANGED <<process, command>>
  BY DEF CommandInv, OtherClientWrites
<1>2. Onward
  <2>1. CASE CloseRow(Named, "done")
    BY <2>1, <1>1, CloseRowMoves
  <2>2. CASE rows' = [rows EXCEPT ![Named].moved = ~@] /\ UNCHANGED rules
    <3> DEFINE row == [rows[Named] EXCEPT !.moved = ~@]
    <3>0. Named \in Nat /\ Named \in 1..Len(rows)
      BY <1>1 DEF Named, ServerOK
    <3>1. row \in Rows /\ row.rule = rows[Named].rule
      <4>1. rows[Named] \in Rows
        BY <1>1, <3>0 DEF ServerOK
      <4> QED
        BY <4>1 DEF Rows
    <3>2. rows' = [rows EXCEPT ![Named] = row]
      BY <2>2
    <3> HIDE DEF row
    <3>3. /\ rows' \in Seq(Rows) /\ Len(rows') = Len(rows)
          /\ \A r \in 1..Len(rows) : rows'[r].rule = rows[r].rule
      BY <1>1, <3>0, <3>1, <3>2, AssignSeq DEF ServerOK
    <3> QED
      BY <1>1, <2>2, <3>0, <3>3 DEF Onward, ServerOK, Current
  <2>3. CASE /\ Current(Named)
             /\ rules' = Append([rules EXCEPT ![rows[Named].rule].on = FALSE],
                                [on |-> TRUE, current |-> Named])
             /\ rows' = [rows EXCEPT ![Named].rule = Len(rules) + 1]
    BY <2>3, <1>1, SplitMoves
  <2>4. CASE UNCHANGED <<rows, rules>>
    BY <2>4, <1>1, StillServer
  <2> QED
    BY <2>1, <2>2, <2>3, <2>4 DEF OtherClientWrites
<1> QED
  BY <1>1, <1>2

LEMMA OtherKeeps == ASSUME CommandInv, OtherClientWrites PROVE CommandInv'
<1>1. ServerOK /\ UNCHANGED <<process, command>> /\ Onward
  BY OtherIsOnward
<1>2. ProcessOK' /\ tally'.moves = tally.moves + 0
  BY <1>1 DEF CommandInv, ProcessOK, OtherClientWrites, Named
<1> QED
  BY <1>1, <1>2, InvAfter

LEMMA StutterKeeps == ASSUME CommandInv, UNCHANGED cliVars PROVE CommandInv'
<1>1. Onward /\ UNCHANGED <<process, tally, command>>
  BY StillServer DEF CommandInv, cliVars
<1>2. ProcessOK' /\ tally'.moves = tally.moves + 0
  BY <1>1 DEF CommandInv, ProcessOK, Named
<1> QED
  BY <1>1, <1>2, InvAfter

LEMMA CommandInvInit == ASSUME CommandLineInit PROVE CommandInv
<1>1. Row(1) \in Rows /\ Row(1).rule = 1
  BY RowIsRow
<1>2. [on |-> TRUE, current |-> Named] \in Rules
  BY DEF Rules, Named
<1>3. ServerOK
  BY <1>1, <1>2 DEF CommandLineInit, ServerOK, Named
<1>4. ProcessOK
  BY DEF CommandLineInit, ProcessOK, Idle, Named
<1>5. MovedPast
  BY DEF CommandLineInit, MovedPast
<1> QED
  BY <1>3, <1>4, <1>5 DEF CommandInv, CommandLineInit

\* However often a command that completes or skips an occurrence is run again,
\* with any number of calls lost before or after the server made them and of
\* writes of other clients in between, its series moves on at most once by it
\* (bin.ts, done and skip; recurrence.ts, advanceRecurrenceOnCompletion).
THEOREM CommandMovesOnce == CommandLineSpec => []MovesOnce
<1>1. CommandLineInit => CommandInv
  BY CommandInvInit
<1>2. CommandInv /\ [CommandLineNext]_cliVars => CommandInv'
  BY MainKeeps, AnsweredKeeps, RefusedKeeps, LostKeeps, LoginLogoutKeep, OtherKeeps,
     StutterKeeps
     DEF CommandLineNext
<1>3. CommandInv => MovesOnce
  BY DEF CommandInv, MovedPast, MovesOnce
<1> QED
  BY <1>1, <1>2, <1>3, PTL DEF CommandLineSpec

-----------------------------------------------------------------------------
(* A command that succeeds did all of what it is for.                      *)

\* A series that goes on and has the named task as its current occurrence is
\* the one that the task's marker names.
OneSeries ==
  \A k \in 1..Len(rules) : rules[k].on /\ rules[k].current = Named => k = rows[Named].rule

\* What is left of a command, and what its calls did before, when no other
\* client wrote since it began.
Underway(c, left) ==
  /\ c.name = "project" => left \in {<<"find", "status">>, <<"status">>}
  /\ c.name \in {"task", "note"} /\ c.option = "plain" =>
       left \in {<<"find", "create">>, <<"create">>}
  /\ c.name \in {"task", "note"} /\ c.option # "plain" =>
       \/ left \in {<<"find", "create", "configure">>, <<"create", "configure">>}
       \/ left = <<"configure">> /\ process.made \in 1..Len(rows)
  /\ c.name = "update" =>
       left \in {<<"find", "resolve", "rename">>, <<"resolve", "rename">>, <<"rename">>}
  /\ c.name = "done" /\ c.option = "plain" => left \in {<<"resolve", "finish">>, <<"finish">>}
  /\ c.name = "done" /\ c.option # "plain" =>
       \/ left \in {<<"resolve", "finish", "comment">>, <<"finish", "comment">>}
       \/ left = <<"comment">> /\ rows[Named].status = "done"
  /\ c.name = "comment" => left \in {<<"resolve", "comment">>, <<"comment">>}
  /\ c.name = "skip" => left \in {<<"resolve", "skip">>, <<"skip">>}
  /\ c.name = "stop-recurrence" =>
       \/ left \in {<<"resolve", "details", "stop">>, <<"details", "stop">>}
       \/ left = <<"stop">> /\ process.rule = rows[Named].rule

SuccessInv ==
  /\ OneSeries
  /\ process.others <= tally.others /\ process.comments <= rows[Named].comments
  /\ process.others = tally.others =>
       /\ Calling => Underway(command, process.calls)
       /\ process.code = "0" => Carried
  /\ Calling => process.code = "none"

-----------------------------------------------------------------------------
(* What the server makes of one call.                                      *)

LEMMA CloseRowDoes ==
  ASSUME ServerOK, OneSeries, NEW status \in {"done", "rejected"}, CloseRow(Named, status)
  PROVE  /\ OneSeries' /\ rows'[Named].comments = rows[Named].comments
         /\ rows'[Named].status = status
<1> DEFINE row == [rows[Named] EXCEPT !.status = status]
           closed == [rows EXCEPT ![Named] = row]
<1>0. Named = 1 /\ Named \in 1..Len(rows) /\ Len(rows) \in Nat
  BY DEF Named, ServerOK
<1>1. /\ row \in Rows /\ row.rule = rows[Named].rule /\ row.status = status
      /\ row.comments = rows[Named].comments
  <2>1. rows[Named] \in Rows
    BY <1>0 DEF ServerOK
  <2> QED
    BY <2>1 DEF Rows
<1>2. closed \in Seq(Rows) /\ Len(closed) = Len(rows) /\ closed[Named] = row
  <2> HIDE DEF row
  <2> QED
    BY <1>0, <1>1, AssignSeq DEF ServerOK
<1>3. CASE Current(Named) /\ rows[Named].status = "open"
  <2> DEFINE k == rows[Named].rule
             rule == [rules[k] EXCEPT !.current = Len(rows) + 1]
  <2>1. rows' = Append(closed, Row(k)) /\ rules' = [rules EXCEPT ![k] = rule]
    BY <1>3 DEF CloseRow
  <2>2. k \in 1..Len(rules)
    BY <1>0, <1>3 DEF Current, ServerOK
  <2>3. Row(k) \in Rows
    BY <2>2, RowIsRow
  <2>4. rows'[Named] = row
    <3> HIDE DEF closed, row, k
    <3> QED
      BY <1>0, <1>2, <2>1, <2>3
  <2>5. rule \in Rules /\ rule.current = Len(rows) + 1
    <3>1. rules[k] \in Rules
      BY <2>2 DEF ServerOK
    <3> HIDE DEF k
    <3> QED
      BY <1>0, <3>1 DEF Rules
  <2>6. /\ Len(rules') = Len(rules)
        /\ \A j \in 1..Len(rules) : rules'[j] = IF j = k THEN rule ELSE rules[j]
    <3> HIDE DEF rule, k
    <3> QED
      BY <2>1, <2>2, <2>5, AssignSeq DEF ServerOK
  <2>7. OneSeries'
    <3> HIDE DEF rule, row, k
    <3>1. row.rule = k
      BY <1>1 DEF k
    <3> QED
      BY <1>0, <2>4, <2>5, <2>6, <3>1 DEF OneSeries, k
  <2> QED
    BY <1>1, <2>4, <2>7
<1>4. CASE ~ (Current(Named) /\ rows[Named].status = "open")
  <2>1. rows' = closed /\ rules' = rules
    BY <1>4 DEF CloseRow
  <2> HIDE DEF closed, row
  <2> QED
    BY <1>1, <1>2, <2>1 DEF OneSeries
<1> QED
  BY <1>3, <1>4

\* What each call does that its command is for, and that no call disturbs what
\* an earlier one did.
Does(step) ==
  /\ step \notin {"finish", "skip"} => rows'[Named].status = rows[Named].status
  /\ step = "create" => /\ Len(rows') = Len(rows) + 1
                        /\ rows'[Len(rows) + 1].rule = 0
  /\ step = "configure" /\ process.made \in 1..Len(rows) => rows'[process.made].rule # 0
  /\ step = "status" => archived' = (command.option = "archive")
  /\ step = "rename" => rows'[Named].title = "new"
  /\ step = "comment" => rows'[Named].comments = rows[Named].comments + 1
  /\ step = "finish" => rows'[Named].status = "done"
  /\ step = "skip" => rows'[Named].status = "rejected"
  /\ step = "stop" => /\ UNCHANGED rows /\ Len(rules') = Len(rules)
                      /\ \A k \in 1..Len(rules) :
                           /\ rules'[k].current = rules[k].current
                           /\ rules'[k].on => rules[k].on /\ k # process.rule
  /\ step \in {"find", "resolve", "details"} => UNCHANGED rows

LEMMA PairThenOne ==
  ASSUME NEW a, NEW b, NEW c
  PROVE  <<a, b>> \o <<c>> = <<a, b, c>>
<1> DEFINE S == {a, b, c}
           s == <<a, b>> \o <<c>>
<1>1. <<a, b>> \in Seq(S) /\ <<c>> \in Seq(S) /\ Len(<<a, b>>) = 2 /\ Len(<<c>>) = 1
  OBVIOUS
<1>2. s \in Seq(S) /\ Len(s) = 3 /\ s[1] = a /\ s[2] = b /\ s[3] = c
  <2> HIDE DEF S
  <2>1. /\ s \in Seq(S) /\ Len(s) = Len(<<a, b>>) + Len(<<c>>)
        /\ \A i \in 1..(Len(<<a, b>>) + Len(<<c>>)) :
             s[i] = IF i <= Len(<<a, b>>) THEN <<a, b>>[i] ELSE <<c>>[i - Len(<<a, b>>)]
    BY <1>1, ConcatProperties
  <2> QED
    BY <1>1, <2>1
<1>3. <<a, b, c>> \in Seq(S) /\ Len(<<a, b, c>>) = 3
  OBVIOUS
<1> QED
  <2> HIDE DEF S, s
  <2>1. \A i \in 1..3 : s[i] = <<a, b, c>>[i]
    BY <1>2
  <2> QED
    BY <1>2, <1>3, <2>1, SeqEqual DEF s

\* One row is written and keeps its marker: no series changes hands.
LEMMA RowKeepsSeries ==
  ASSUME ServerOK, OneSeries, UNCHANGED rules, rows'[Named].rule = rows[Named].rule
  PROVE  OneSeries'
BY DEF OneSeries

LEMMA ChangeDoes ==
  ASSUME ServerOK, ProcessOK, OneSeries, NEW step, Change(step)
  PROVE  OneSeries' /\ rows'[Named].comments >= rows[Named].comments /\ Does(step)
<1>0. /\ Named = 1 /\ Named \in 1..Len(rows) /\ Len(rows) \in Nat /\ Len(rules) \in Nat
      /\ rows[Named] \in Rows
  BY DEF Named, ServerOK
<1>00. rows[Named].comments \in Nat
  BY <1>0 DEF Rows
<1>1. CASE step = "create" /\ rows' = Append(rows, Row(0)) /\ UNCHANGED rules
  <2>1. Row(0) \in Rows /\ Row(0).rule = 0
    BY RowIsRow
  <2>2. /\ Len(rows') = Len(rows) + 1
        /\ rows'[Len(rows) + 1] = Row(0) /\ rows'[Named] = rows[Named]
    BY <1>0, <1>1, <2>1 DEF ServerOK
  <2>3. OneSeries'
    BY <1>1, <2>2, RowKeepsSeries
  <2>4. /\ rows'[Named].status = rows[Named].status
        /\ rows'[Named].comments = rows[Named].comments
        /\ rows'[Len(rows) + 1].rule = 0
    BY <2>1, <2>2
  <2>5. Does(step)
    BY <1>1, <2>2, <2>4 DEF Does
  <2> QED
    BY <1>00, <2>3, <2>4, <2>5
<1>2. CASE /\ step = "configure"
           /\ rows' = [rows EXCEPT ![process.made].rule = Len(rules) + 1]
           /\ rules' = Append(rules, [on |-> TRUE, current |-> process.made])
  <2> DEFINE m == process.made
             row == [rows[m] EXCEPT !.rule = Len(rules) + 1]
  <2>1. m \in Nat /\ m # Named
    BY DEF ProcessOK
  <2>2. [on |-> TRUE, current |-> m] \in Rules
    BY <2>1 DEF Rules
  <2>3. /\ Len(rules') = Len(rules) + 1
        /\ \A k \in 1..Len(rules) : rules'[k] = rules[k]
        /\ rules'[Len(rules) + 1].current = m
    BY <1>2, <2>2 DEF ServerOK
  <2>4. m \in 1..Len(rows) => row \in Rows /\ row.rule = Len(rules) + 1
    <3>1. m \in 1..Len(rows) => rows[m] \in Rows
      BY DEF ServerOK
    <3> HIDE DEF m
    <3> QED
      BY <1>0, <2>1, <3>1 DEF Rows
  <2>5. \A r \in 1..Len(rows) : rows'[r] = IF r = m THEN row ELSE rows[r]
    <3>1. rows' = [rows EXCEPT ![m] = row]
      BY <1>2
    <3> HIDE DEF row, m
    <3> QED
      BY <2>1, <2>4, <3>1, AssignSeq DEF ServerOK
  <2>6. m \in 1..Len(rows) => rows'[m].rule # 0
    <3> HIDE DEF row, m
    <3> QED
      BY <1>0, <2>4, <2>5
  <2> HIDE DEF row, m
  <2>7. rows'[Named] = rows[Named]
    BY <1>0, <2>1, <2>5
  <2>8. OneSeries'
    BY <1>0, <2>1, <2>3, <2>7 DEF OneSeries
  <2> QED
    BY <1>00, <1>2, <2>6, <2>7, <2>8 DEF Does, m
<1>3. CASE /\ step \in {"rename", "comment"} /\ UNCHANGED rules
           /\ rows' = IF step = "rename"
                      THEN [rows EXCEPT ![Named].title = "new", ![Named].moved = TRUE]
                      ELSE [rows EXCEPT ![Named].comments = @ + 1]
  <2>1. CASE step = "rename"
    <3>1. /\ rows'[Named].title = "new" /\ rows'[Named].rule = rows[Named].rule
          /\ rows'[Named].status = rows[Named].status
          /\ rows'[Named].comments = rows[Named].comments
      BY <1>0, <1>3, <2>1 DEF Rows, ServerOK
    <3>2. OneSeries'
      BY <1>3, <3>1, RowKeepsSeries
    <3>3. rows'[Named].comments >= rows[Named].comments
      BY <1>00, <3>1
    <3>4. Does(step)
      BY <2>1, <3>1 DEF Does
    <3> QED
      BY <3>2, <3>3, <3>4
  <2>2. CASE step = "comment"
    <3>1. /\ rows'[Named].comments = rows[Named].comments + 1
          /\ rows'[Named].rule = rows[Named].rule
          /\ rows'[Named].status = rows[Named].status
      BY <1>0, <1>3, <2>2 DEF Rows, ServerOK
    <3> QED
      BY <1>00, <1>3, <2>2, <3>1, RowKeepsSeries DEF Does
  <2> QED
    BY <1>3, <2>1, <2>2
<1>4. CASE step = "finish" /\ CloseRow(Named, "done")
  BY <1>00, <1>4, CloseRowDoes DEF Does
<1>5. CASE step = "skip" /\ CloseRow(Named, "rejected")
  BY <1>00, <1>5, CloseRowDoes DEF Does
<1>6. CASE /\ step = "stop" /\ UNCHANGED rows
           /\ rules' = [rules EXCEPT ![process.rule].on = FALSE]
  <2> DEFINE j == process.rule
             rule == [rules[j] EXCEPT !.on = FALSE]
  <2>1. j \in 1..Len(rules) => rule \in Rules /\ rule.on = FALSE /\ rule.current = rules[j].current
    <3>1. j \in 1..Len(rules) => rules[j] \in Rules
      BY DEF ServerOK
    <3> HIDE DEF j
    <3> QED
      BY <3>1 DEF Rules
  <2>2. /\ Len(rules') = Len(rules)
        /\ \A k \in 1..Len(rules) : rules'[k] = IF k = j THEN rule ELSE rules[k]
    <3>1. rules' = [rules EXCEPT ![j] = rule] /\ j \in Nat
      BY <1>6 DEF ProcessOK
    <3> HIDE DEF rule, j
    <3> QED
      BY <2>1, <3>1, AssignSeq DEF ServerOK
  <2> HIDE DEF rule
  <2>3. \A k \in 1..Len(rules) : /\ rules'[k].current = rules[k].current
                                 /\ rules'[k].on => rules[k].on /\ k # j
    BY <2>1, <2>2
  <2> HIDE DEF j
  <2>4. OneSeries'
    BY <1>6, <2>2, <2>3 DEF OneSeries
  <2> QED
    BY <1>00, <1>6, <2>2, <2>3, <2>4 DEF Does, j
<1>7. CASE step = "status" /\ archived' = (command.option = "archive") /\ UNCHANGED <<rows, rules>>
  BY <1>00, <1>7, RowKeepsSeries DEF Does
<1>8. CASE /\ step \in {"list", "find", "range", "recent", "resolve", "details",
                       "search", "export", "import"}
           /\ UNCHANGED serverVars
  BY <1>00, <1>8, RowKeepsSeries DEF Does, serverVars
<1> QED
  BY <1>1, <1>2, <1>3, <1>4, <1>5, <1>6, <1>7, <1>8 DEF Change

-----------------------------------------------------------------------------
(* The steps.                                                              *)

LEMMA Shorter ==
  /\ \A a : Head(<<a>>) = a /\ Tail(<<a>>) = <<>>
  /\ \A a, b : Head(<<a, b>>) = a /\ Tail(<<a, b>>) = <<b>> /\ <<b>> # <<>>
  /\ \A a, b, c : Head(<<a, b, c>>) = a /\ Tail(<<a, b, c>>) = <<b, c>> /\ <<b, c>> # <<>>
<1>1. ASSUME NEW a PROVE Head(<<a>>) = a /\ Tail(<<a>>) = <<>>
  OBVIOUS
<1>2. ASSUME NEW a, NEW b PROVE Head(<<a, b>>) = a /\ Tail(<<a, b>>) = <<b>> /\ <<b>> # <<>>
  OBVIOUS
<1>3. ASSUME NEW a, NEW b, NEW c
      PROVE  Head(<<a, b, c>>) = a /\ Tail(<<a, b, c>>) = <<b, c>> /\ <<b, c>> # <<>>
  OBVIOUS
<1> QED
  BY Zenon, <1>1, <1>2, <1>3

LEMMA OptionalCalls ==
  ASSUME NEW o
  PROVE  /\ CmdTask(o) = IF o = "plain" THEN <<"find", "create">>
                         ELSE <<"find", "create", "configure">>
         /\ CmdDone(o) = IF o = "comment" THEN <<"resolve", "finish", "comment">>
                         ELSE <<"resolve", "finish">>
<1>1. /\ <<"find", "create">> \o <<"configure">> = <<"find", "create", "configure">>
      /\ <<"resolve", "finish">> \o <<"comment">> = <<"resolve", "finish", "comment">>
  BY PairThenOne
<1>2. /\ <<"find", "create">> \o <<>> = <<"find", "create">>
      /\ <<"resolve", "finish">> \o <<>> = <<"resolve", "finish">>
  OBVIOUS
<1> QED
  BY <1>1, <1>2 DEF CmdTask, CmdDone

LEMMA CallsBegin ==
  ASSUME NEW c \in Commands
  PROVE  Underway(c, Calls(c)) /\ Underway(c, Calls(c))'
<1>1. c.name \in {"projects", "project", "today", "tasks", "task", "note", "update", "done",
                  "comment", "recurrence", "skip", "stop-recurrence", "search", "export",
                  "import"}
  BY DEF Commands
<1>2. CmdTask(c.option) = IF c.option = "plain" THEN <<"find", "create">>
                          ELSE <<"find", "create", "configure">>
  BY OptionalCalls
<1>3. CmdDone(c.option) = IF c.option = "comment" THEN <<"resolve", "finish", "comment">>
                          ELSE <<"resolve", "finish">>
  BY OptionalCalls
<1>4. /\ c.name = "done" => c.option \in {"plain", "comment"}
      /\ c.name = "note" => c.option = "plain"
  BY DEF Commands
<1>5. Underway(c, Calls(c))
  BY <1>1, <1>2, <1>3, <1>4
     DEF Underway, Calls, CmdProject, CmdNote, CmdUpdate, CmdComment, CmdSkip,
         CmdStopRecurrence
<1>6. Underway(c, Calls(c))'
  BY <1>1, <1>2, <1>3, <1>4
     DEF Underway, Calls, CmdProject, CmdNote, CmdUpdate, CmdComment, CmdSkip,
         CmdStopRecurrence
<1> QED
  BY <1>5, <1>6

\* What an answer changes in the process.
Continued ==
  /\ process'.others = process.others /\ process'.comments = process.comments
  /\ process'.calls = Tail(process.calls)
  /\ process'.made = IF Pending = "create" THEN Len(rows) + 1 ELSE process.made
  /\ process'.rule = IF Pending = "details" THEN rows[Named].rule ELSE process.rule
  /\ process'.calls # <<>> => process'.code = "none"

LEMMA AnsweredAnswers ==
  ASSUME CommandInv, SuccessInv, Answered
  PROVE  Continued /\ tally'.others = tally.others /\ command' = command
<1>1. PICK rule, made, calls :
        /\ calls = Tail(process.calls)
        /\ rule = IF Pending = "details" THEN rows[Named].rule ELSE process.rule
        /\ made = IF Pending = "create" THEN Len(rows) + 1 ELSE process.made
  OBVIOUS
<1>2. PICK after : after = [process EXCEPT !.calls = calls, !.rule = rule, !.made = made]
  OBVIOUS
<1>3. after \in [calls : {calls}, code : {"none"}, rule : {rule}, made : {made},
                 comments : {process.comments}, others : {process.others}]
  BY <1>2 DEF CommandInv, ProcessOK, SuccessInv, Answered
<1>4. after = [process EXCEPT
                 !.calls = Tail(@),
                 !.rule = IF Pending = "details" THEN rows[Named].rule ELSE @,
                 !.made = IF Pending = "create" THEN Len(rows) + 1 ELSE @]
  BY <1>1, <1>2
<1>5. IF after.calls # <<>> THEN process' = after
      ELSE \E code \in {"0", "3"} : process' = [after EXCEPT !.code = code]
  BY <1>4 DEF Answered
<1>6. /\ process'.others = after.others /\ process'.comments = after.comments
      /\ process'.calls = after.calls /\ process'.rule = after.rule
      /\ process'.made = after.made
      /\ after.calls # <<>> => process'.code = after.code
  BY <1>3, <1>5
<1>7. tally'.others = tally.others /\ command' = command
  BY DEF Answered, CommandInv, ProcessOK
<1> QED
  BY <1>1, <1>3, <1>6, <1>7 DEF Continued

LEMMA CommentsAreNat ==
  ASSUME CommandInv, SuccessInv
  PROVE  /\ rows[Named].comments \in Nat /\ process.comments \in Nat
         /\ process.comments <= rows[Named].comments
<1>1. rows[Named] \in Rows
  BY DEF CommandInv, ServerOK, Named
<1> QED
  BY <1>1 DEF Rows, CommandInv, ProcessOK, SuccessInv

\* An answered call brings the command on by one call, and the last one
\* completes it.
LEMMA AnsweredProgress ==
  ASSUME CommandInv, SuccessInv, Continued, OneSeries', Does(Pending), Calling,
         process.others = tally.others, command' = command, Accepts(Pending), Change(Pending),
         rows[Named].comments <= rows'[Named].comments
  PROVE  IF process'.calls = <<>> THEN Carried' ELSE Underway(command, process.calls)'
<1>1. PICK left, next, c : left = process.calls /\ next = process'.calls /\ c = command
  OBVIOUS
<1>2. Underway(c, left) /\ Pending = Head(left) /\ next = Tail(left) /\ command' = c
  BY <1>1 DEF SuccessInv, Continued, Pending
<1>3. c \in Commands /\ process.made # Named
  BY <1>1 DEF CommandInv, ProcessOK
<1> SUFFICES IF next = <<>> THEN Carried' ELSE Underway(c, next)'
  BY <1>1
<1>4. CASE c.name = "project"
  <2>1. CASE left = <<"find", "status">>
    BY <1>2, <1>4, <2>1, Shorter DEF Underway
  <2>2. CASE left = <<"status">>
    <3>1. archived' = (c.option = "archive")
      BY <1>1, <1>2, <2>2, Shorter DEF Does
    <3> QED
      BY <1>2, <1>4, <2>2, <3>1, Shorter DEF Carried
  <2> QED
    BY <1>2, <1>4, <2>1, <2>2 DEF Underway
<1>5. CASE c.name \in {"task", "note"}
  <2>1. Len(rows) \in Nat /\ c.option = "plain" => c.option # "repeat"
    BY DEF CommandInv, ServerOK
  <2>2. CASE left \in {<<"find", "create">>, <<"find", "create", "configure">>}
    <3>1. CASE left = <<"find", "create">>
      <4>1. next = <<"create">> /\ next # <<>> /\ c.option = "plain"
        BY <1>2, <1>5, <3>1, Shorter DEF Underway
      <4> QED
        BY <1>5, <4>1 DEF Underway
    <3>2. CASE left = <<"find", "create", "configure">>
      <4>1. next = <<"create", "configure">> /\ next # <<>> /\ c.option # "plain"
        BY <1>2, <1>5, <3>2, Shorter DEF Underway
      <4> QED
        BY <1>5, <4>1 DEF Underway
    <3> QED
      BY <2>2, <3>1, <3>2
  <2>3. CASE left \in {<<"create">>, <<"create", "configure">>}
    <3>1. /\ process'.made = Len(rows) + 1 /\ Len(rows') = Len(rows) + 1
          /\ rows'[process'.made].rule = 0 /\ Len(rows) \in Nat
      BY <1>2, <2>3, Shorter DEF Does, Continued, CommandInv, ServerOK
    <3>2. CASE left = <<"create">>
      <4>1. next = <<>> /\ c.option = "plain"
        BY <1>2, <1>5, <3>2, Shorter DEF Underway
      <4>2. process'.made # 0
        BY <3>1
      <4> QED
        BY <1>2, <1>5, <3>1, <4>1, <4>2 DEF Carried
    <3>3. CASE left = <<"create", "configure">>
      <4>1. next = <<"configure">> /\ next # <<>>
        BY <1>2, <3>3, Shorter
      <4>2. c.option # "plain" /\ process'.made \in 1..Len(rows')
        BY <1>2, <1>5, <3>1, <3>3 DEF Underway
      <4> QED
        BY <1>5, <4>1, <4>2 DEF Underway
    <3> QED
      BY <2>3, <3>2, <3>3
  <2>4. CASE left = <<"configure">>
    <3>1. /\ next = <<>> /\ Pending = "configure" /\ process.made \in 1..Len(rows)
          /\ c.option = "repeat"
      BY <1>1, <1>2, <1>5, <2>4, Shorter DEF Underway, Accepts
    <3>2. process'.made = process.made /\ process.made # 0 /\ rows'[process.made].rule # 0
      BY <3>1 DEF Does, Continued
    <3> QED
      BY <1>2, <1>5, <3>1, <3>2 DEF Carried
  <2> QED
    BY <1>2, <1>5, <2>2, <2>3, <2>4 DEF Underway
<1>6. CASE c.name = "update"
  <2>1. CASE left \in {<<"find", "resolve", "rename">>, <<"resolve", "rename">>}
    <3>1. next \in {<<"resolve", "rename">>, <<"rename">>} /\ next # <<>>
      <4>1. CASE left = <<"find", "resolve", "rename">>
        BY <1>2, <4>1, Shorter
      <4>2. CASE left = <<"resolve", "rename">>
        BY <1>2, <4>2, Shorter
      <4> QED
        BY <2>1, <4>1, <4>2
    <3> QED
      BY <1>6, <3>1 DEF Underway
  <2>2. CASE left = <<"rename">>
    <3>1. rows'[Named].title = "new" /\ next = <<>>
      BY <1>2, <2>2, Shorter DEF Does
    <3> QED
      BY <1>2, <1>6, <3>1 DEF Carried
  <2> QED
    BY <1>2, <1>6, <2>1, <2>2 DEF Underway

<1>7. CASE c.name = "done"
  <2>1. CASE left \in {<<"resolve", "finish">>, <<"resolve", "finish", "comment">>}
    <3>1. CASE left = <<"resolve", "finish">>
      <4>1. next = <<"finish">> /\ next # <<>> /\ c.option = "plain"
        BY <1>2, <1>7, <3>1, Shorter DEF Underway
      <4> QED
        BY <1>7, <4>1 DEF Underway
    <3>2. CASE left = <<"resolve", "finish", "comment">>
      <4>1. next = <<"finish", "comment">> /\ next # <<>> /\ c.option # "plain"
        BY <1>2, <1>7, <3>2, Shorter DEF Underway
      <4> QED
        BY <1>7, <4>1 DEF Underway
    <3> QED
      BY <2>1, <3>1, <3>2
  <2>2. CASE left \in {<<"finish">>, <<"finish", "comment">>}
    <3>1. rows'[Named].status = "done"
      BY <1>2, <2>2, Shorter DEF Does
    <3>2. CASE left = <<"finish">>
      <4>1. next = <<>> /\ c.option # "comment"
        BY <1>2, <1>7, <3>2, Shorter DEF Underway
      <4> QED
        BY <1>2, <1>7, <3>1, <4>1 DEF Carried
    <3>3. CASE left = <<"finish", "comment">>
      <4>1. next = <<"comment">> /\ next # <<>> /\ c.option # "plain"
        BY <1>2, <1>7, <3>3, Shorter DEF Underway
      <4> QED
        BY <1>7, <3>1, <4>1 DEF Underway
    <3> QED
      BY <2>2, <3>2, <3>3
  <2>3. CASE left = <<"comment">>
    <3>1. /\ next = <<>> /\ Pending = "comment"
          /\ rows[Named].status = "done"
      BY <1>2, <1>7, <2>3, Shorter DEF Underway
    <3>2. /\ rows'[Named].comments = rows[Named].comments + 1
          /\ rows'[Named].status = "done"
      BY <3>1 DEF Does
    <3>3. rows'[Named].comments > process'.comments
      BY <3>2, CommentsAreNat DEF Continued
    <3> QED
      BY <1>2, <1>7, <3>1, <3>2, <3>3 DEF Carried
  <2> QED
    BY <1>2, <1>7, <2>1, <2>2, <2>3 DEF Underway
<1>8. CASE c.name = "comment"
  <2>1. CASE left = <<"resolve", "comment">>
    BY <1>2, <1>8, <2>1, Shorter DEF Underway
  <2>2. CASE left = <<"comment">>
    <3>1. next = <<>> /\ rows'[Named].comments = rows[Named].comments + 1
      BY <1>2, <2>2, Shorter DEF Does
    <3>2. rows'[Named].comments > process'.comments
      BY <3>1, CommentsAreNat DEF Continued
    <3> QED
      BY <1>2, <1>8, <3>1, <3>2 DEF Carried
  <2> QED
    BY <1>2, <1>8, <2>1, <2>2 DEF Underway
<1>9. CASE c.name = "skip"
  <2>1. CASE left = <<"resolve", "skip">>
    BY <1>2, <1>9, <2>1, Shorter DEF Underway
  <2>2. CASE left = <<"skip">>
    <3>1. next = <<>> /\ rows'[Named].status = "rejected"
      BY <1>2, <2>2, Shorter DEF Does
    <3> QED
      BY <1>2, <1>9, <3>1 DEF Carried
  <2> QED
    BY <1>2, <1>9, <2>1, <2>2 DEF Underway
<1>10. CASE c.name = "stop-recurrence"
  <2>1. CASE left = <<"resolve", "details", "stop">>
    BY <1>2, <1>10, <2>1, Shorter DEF Underway
  <2>2. CASE left = <<"details", "stop">>
    <3>1. /\ next = <<"stop">> /\ next # <<>> /\ Pending = "details"
      BY <1>2, <2>2, Shorter
    <3>2. process'.rule = rows'[Named].rule
      BY <3>1 DEF Continued, Does
    <3> QED
      BY <1>10, <3>1, <3>2 DEF Underway
  <2>3. CASE left = <<"stop">>
    <3>1. next = <<>> /\ Pending = "stop" /\ process.rule = rows[Named].rule
      BY <1>2, <1>10, <2>3, Shorter DEF Underway
    <3>2. /\ rows' = rows /\ Len(rules') = Len(rules)
          /\ \A k \in 1..Len(rules) : /\ rules'[k].current = rules[k].current
                                      /\ rules'[k].on => rules[k].on /\ k # process.rule
      BY <3>1 DEF Does
    <3>3. \A k \in 1..Len(rules') : rules'[k].on => rules'[k].current # Named
      BY <3>1, <3>2 DEF SuccessInv, OneSeries
    <3>4. DOMAIN rules' = 1..Len(rules')
      <4>1. ServerOK' => DOMAIN rules' = 1..Len(rules')
        BY DEF ServerOK
      <4>2. ServerOK'
        BY ChangeMoves DEF CommandInv, Onward
      <4> QED
        BY <4>1, <4>2
    <3> QED
      BY <1>2, <1>10, <3>1, <3>3, <3>4 DEF Carried
  <2> QED
    BY <1>2, <1>10, <2>1, <2>2, <2>3 DEF Underway
<1>11. CASE c.name \notin {"project", "task", "note", "update", "done", "comment", "skip",
                           "stop-recurrence"}
  BY <1>2, <1>11 DEF Underway, Carried
<1> QED
  BY <1>4, <1>5, <1>6, <1>7, <1>8, <1>9, <1>10, <1>11


LEMMA AnsweredSucceeds == ASSUME CommandInv, SuccessInv, Answered PROVE SuccessInv'
<1>1. /\ Calling /\ Accepts(Pending) /\ Change(Pending)
      /\ ServerOK /\ ProcessOK /\ OneSeries
  BY DEF Answered, CommandInv, SuccessInv
<1>2. Continued /\ tally'.others = tally.others /\ command' = command
  BY AnsweredAnswers
<1>3. OneSeries' /\ rows'[Named].comments >= rows[Named].comments /\ Does(Pending)
  BY <1>1, ChangeDoes
<1>4. /\ rows[Named].comments \in Nat /\ process.comments \in Nat /\ rows'[Named].comments \in Nat
      /\ process.comments <= rows[Named].comments
  <2>1. CommandInv'
    BY AnsweredKeeps
  <2>2. rows'[Named] \in Rows
    BY <2>1 DEF CommandInv, ServerOK, Named
  <2> QED
    BY <2>2, CommentsAreNat DEF Rows
<1>5. /\ process'.others <= tally'.others /\ process'.comments <= rows'[Named].comments
      /\ Calling' => process'.code = "none"
  <2>1. process'.others <= tally'.others
    BY <1>2 DEF Continued, SuccessInv
  <2>2. process'.comments <= rows'[Named].comments
    <3>1. process'.comments = process.comments
      BY <1>2 DEF Continued
    <3> QED
      BY <1>3, <1>4, <3>1
  <2> QED
    BY <1>2, <2>1, <2>2 DEF Continued, Calling
<1>6. ASSUME process'.others = tally'.others
      PROVE  IF process'.calls = <<>> THEN Carried' ELSE Underway(command, process.calls)'
  <2>1. process.others = tally.others /\ rows[Named].comments <= rows'[Named].comments
    BY <1>2, <1>3, <1>4, <1>6 DEF Continued
  <2> QED
    BY <1>1, <1>2, <1>3, <2>1, AnsweredProgress
<1>7. process'.calls # <<>> => process'.code = "none"
  BY <1>2 DEF Continued
<1> QED
  BY <1>3, <1>5, <1>6, <1>7 DEF SuccessInv, Calling

\* An exit ends the command with an error.
LEMMA ExitSucceeds ==
  ASSUME CommandInv, SuccessInv, Exit("1"), tally'.others = tally.others,
         OneSeries', rows'[Named].comments >= rows[Named].comments, rows'[Named].comments \in Nat
  PROVE  SuccessInv'
<1>1. /\ process'.calls = <<>> /\ process'.code = "1"
      /\ process'.others = process.others /\ process'.comments = process.comments
  BY DEF Exit, CommandInv, ProcessOK
<1>2. process'.comments <= rows'[Named].comments
  BY <1>1, CommentsAreNat
<1>3. process'.others <= tally'.others
  BY <1>1 DEF SuccessInv
<1> QED
  BY <1>1, <1>2, <1>3 DEF SuccessInv, Calling

LEMMA CommentsAfter ==
  ASSUME CommandInv'
  PROVE  rows'[Named].comments \in Nat
<1>1. rows'[Named] \in Rows
  BY DEF CommandInv, ServerOK, Named
<1> QED
  BY <1>1 DEF Rows

LEMMA RefusedSucceeds == ASSUME CommandInv, SuccessInv, Refused PROVE SuccessInv'
<1>1. Exit("1") /\ UNCHANGED <<rows, rules, tally>>
  BY DEF Refused, serverVars
<1>2. OneSeries'
  BY <1>1 DEF SuccessInv, OneSeries
<1> QED
  BY <1>1, <1>2, CommentsAreNat, ExitSucceeds

LEMMA LostSucceeds == ASSUME CommandInv, SuccessInv, Lost PROVE SuccessInv'
<1>1. Exit("1") /\ (Change(Pending) \/ UNCHANGED <<rows, rules>>)
  BY DEF Lost, serverVars
<1>2. tally'.others = tally.others
  BY DEF Lost, CommandInv, ProcessOK
<1>3. rows'[Named].comments \in Nat
  BY LostKeeps, CommentsAfter
<1>4. OneSeries' /\ rows'[Named].comments >= rows[Named].comments
  <2>1. CASE Change(Pending)
    BY <2>1, ChangeDoes DEF CommandInv, SuccessInv
  <2>2. CASE UNCHANGED <<rows, rules>>
    BY <2>2, CommentsAreNat DEF SuccessInv, OneSeries
  <2> QED
    BY <1>1, <2>1, <2>2
<1> QED
  BY <1>1, <1>2, <1>3, <1>4, ExitSucceeds

LEMMA MainSucceeds == ASSUME CommandInv, SuccessInv, Main PROVE SuccessInv'
<1>1. PICK calls, comments, others :
        calls = Calls(command) /\ comments = rows[Named].comments /\ others = tally.others
  OBVIOUS
<1>2. /\ process' = [Idle EXCEPT !.calls = calls, !.comments = comments, !.others = others]
      /\ UNCHANGED <<rows, rules, command>>
  BY <1>1 DEF Main, serverVars
<1>3. /\ process'.calls = calls /\ process'.code = "none"
      /\ process'.comments = comments /\ process'.others = others
  BY <1>2 DEF Idle
<1>4. tally'.others = tally.others /\ tally.others \in Nat
  BY DEF Main, CommandInv, ProcessOK
<1>5. OneSeries'
  BY <1>2 DEF SuccessInv, OneSeries
<1>6. Underway(command, process.calls)'
  <2>1. PICK c \in Commands : c = command
    BY DEF CommandInv
  <2>2. Underway(c, Calls(c))'
    BY <2>1, CallsBegin
  <2>3. command' = c /\ process'.calls = Calls(c)
    BY <1>1, <1>2, <1>3, <2>1
  <2> QED
    BY <2>2, <2>3
<1> QED
  BY <1>1, <1>2, <1>3, <1>4, <1>5, <1>6, CommentsAreNat DEF SuccessInv

\* Nothing of the process changes, and of the server neither series nor rows.
LEMMA SameSucceeds ==
  ASSUME CommandInv, SuccessInv,
         UNCHANGED <<rows, rules, archived, process, command, tally>>
  PROVE  SuccessInv'
<1>1. OneSeries'
  BY DEF SuccessInv, OneSeries
<1>2. ASSUME NEW c, NEW left, Underway(c, left) PROVE Underway(c, left)'
  BY <1>2 DEF Underway
<1>3. Carried => Carried'
  BY DEF Carried
<1>4. Calling' = Calling
  BY DEF Calling
<1>5. Underway(command, process.calls) => Underway(command, process.calls)'
  <2>1. PICK c, left : c = command /\ left = process.calls
    OBVIOUS
  <2>2. command' = c /\ process'.calls = left
    BY <2>1
  <2> QED
    BY <1>2, <2>1, <2>2
<1> QED
  BY <1>1, <1>3, <1>4, <1>5 DEF SuccessInv

\* A split leaves the named task the marker of its new series.
LEMMA SplitKeepsSeries ==
  ASSUME ServerOK, OneSeries, Current(Named),
         rules' = Append([rules EXCEPT ![rows[Named].rule].on = FALSE],
                         [on |-> TRUE, current |-> Named]),
         rows' = [rows EXCEPT ![Named].rule = Len(rules) + 1]
  PROVE  OneSeries' /\ rows'[Named].comments = rows[Named].comments
<1> DEFINE k == rows[Named].rule
           rule == [rules[k] EXCEPT !.on = FALSE]
           row == [rows[Named] EXCEPT !.rule = Len(rules) + 1]
           off == [rules EXCEPT ![k] = rule]
<1>0. Named = 1 /\ Named \in 1..Len(rows) /\ Len(rules) \in Nat
  BY DEF Named, ServerOK
<1>1. k \in 1..Len(rules)
  <2>1. k # 0 /\ k \in 0..Len(rules)
    BY <1>0 DEF Current, ServerOK
  <2> HIDE DEF k
  <2> QED
    BY <1>0, <2>1
<1>2. rule \in Rules /\ rule.on = FALSE
  <2>1. rules[k] \in Rules
    BY <1>1 DEF ServerOK
  <2> HIDE DEF k
  <2> QED
    BY <2>1 DEF Rules
<1>3. /\ off \in Seq(Rules) /\ Len(off) = Len(rules)
      /\ \A j \in 1..Len(rules) : off[j] = IF j = k THEN rule ELSE rules[j]
  <2> HIDE DEF rule, k
  <2> QED
    BY <1>1, <1>2, AssignSeq DEF ServerOK
<1>4. /\ Len(rules') = Len(rules) + 1
      /\ \A j \in 1..Len(rules) : rules'[j] = off[j]
  <2> DEFINE new == [on |-> TRUE, current |-> Named]
  <2>1. new \in Rules /\ rules' = Append(off, new)
    BY <1>0 DEF Rules
  <2> HIDE DEF off, new, rule, k
  <2>2. /\ Len(Append(off, new)) = Len(off) + 1
        /\ \A j \in 1..Len(off) : Append(off, new)[j] = off[j]
    BY <1>3, <2>1, AppendProperties
  <2> QED
    BY <1>3, <2>1, <2>2
<1>5. rows'[Named].rule = Len(rules) + 1 /\ rows'[Named].comments = rows[Named].comments
  BY <1>0 DEF ServerOK, Rows
<1>6. \A j \in 1..Len(rules) : rules'[j].on => j # k /\ rules'[j] = rules[j]
  <2> HIDE DEF rule, k, off
  <2> QED
    BY <1>2, <1>3, <1>4
<1>7. \A j \in 1..Len(rules) : ~ (rules'[j].on /\ rules'[j].current = Named)
  BY <1>6 DEF OneSeries
<1> QED
  BY <1>0, <1>4, <1>5, <1>7 DEF OneSeries

LEMMA OtherSucceeds == ASSUME CommandInv, SuccessInv, OtherClientWrites PROVE SuccessInv'
<1>1. UNCHANGED <<process, command>> /\ ServerOK /\ OneSeries /\ rows[Named] \in Rows
  BY DEF OtherClientWrites, CommandInv, SuccessInv, ServerOK, Named
<1>2. process'.others < tally'.others
  BY <1>1 DEF OtherClientWrites, CommandInv, ProcessOK, SuccessInv
<1>3. OneSeries' /\ rows'[Named].comments = rows[Named].comments
  <2>1. CASE CloseRow(Named, "done")
    BY <1>1, <2>1, CloseRowDoes
  <2>2. CASE rows' = [rows EXCEPT ![Named].moved = ~@] /\ UNCHANGED rules
    <3>1. /\ rows'[Named].rule = rows[Named].rule
          /\ rows'[Named].comments = rows[Named].comments
      BY <1>1, <2>2 DEF ServerOK, Named, Rows
    <3> QED
      BY <1>1, <2>2, <3>1, RowKeepsSeries
  <2>3. CASE /\ Current(Named)
             /\ rules' = Append([rules EXCEPT ![rows[Named].rule].on = FALSE],
                                [on |-> TRUE, current |-> Named])
             /\ rows' = [rows EXCEPT ![Named].rule = Len(rules) + 1]
    BY <1>1, <2>3, SplitKeepsSeries
  <2>4. CASE UNCHANGED <<rows, rules>>
    BY <1>1, <2>4 DEF OneSeries
  <2> QED
    BY <2>1, <2>2, <2>3, <2>4 DEF OtherClientWrites
<1>4. process'.comments <= rows'[Named].comments /\ (Calling' => process'.code = "none")
  BY <1>1, <1>3 DEF SuccessInv, Calling
<1>5. process'.others <= tally'.others /\ process'.others # tally'.others
  BY <1>1, <1>2 DEF OtherClientWrites, CommandInv, ProcessOK
<1> QED
  BY <1>3, <1>4, <1>5 DEF SuccessInv

LEMMA SuccessInvInit == ASSUME CommandLineInit PROVE SuccessInv
<1>1. OneSeries /\ rows[Named].comments = 0
  BY DEF CommandLineInit, OneSeries, Named, Row
<1>2. process.others = 0 /\ process.comments = 0 /\ tally.others = 0 /\ process.code = "none"
      /\ ~ Calling
  BY DEF CommandLineInit, Idle, Calling
<1> QED
  BY <1>1, <1>2 DEF SuccessInv

LEMMA CommandInvsKeep ==
  ASSUME CommandInv, SuccessInv, [CommandLineNext]_cliVars
  PROVE  CommandInv' /\ SuccessInv'
<1>1. CASE Main
  BY <1>1, MainKeeps, MainSucceeds
<1>2. CASE Answered
  BY <1>2, AnsweredKeeps, AnsweredSucceeds
<1>3. CASE Refused
  BY <1>3, RefusedKeeps, RefusedSucceeds
<1>4. CASE Lost
  BY <1>4, LostKeeps, LostSucceeds
<1>5. CASE CmdLogin \/ CmdLogout
  BY <1>5, LoginLogoutKeep, SameSucceeds DEF CmdLogin, CmdLogout, serverVars
<1>6. CASE OtherClientWrites
  BY <1>6, OtherKeeps, OtherSucceeds
<1>7. CASE UNCHANGED cliVars
  BY <1>7, StutterKeeps, SameSucceeds DEF cliVars
<1> QED
  BY <1>1, <1>2, <1>3, <1>4, <1>5, <1>6, <1>7 DEF CommandLineNext

\* A command that ends with code 0 did all that it was asked for: whatever was
\* lost and however often it was run before, no call of its last run was left
\* out and none undid what an earlier one did, unless another client wrote
\* meanwhile (bin.ts:413-592).
THEOREM SuccessHolds == CommandLineSpec => []SuccessIsComplete
<1>1. CommandLineInit => CommandInv /\ SuccessInv
  BY CommandInvInit, SuccessInvInit
<1>2. CommandInv /\ SuccessInv /\ [CommandLineNext]_cliVars => CommandInv' /\ SuccessInv'
  BY CommandInvsKeep
<1>3. SuccessInv => SuccessIsComplete
  BY DEF SuccessInv, SuccessIsComplete
<1> QED
  BY <1>1, <1>2, <1>3, PTL DEF CommandLineSpec

-----------------------------------------------------------------------------
(* The drawer.                                                             *)

\* Whatever is shown, drafted or answered has the fields of an entity.
DrawerShape ==
  /\ DOMAIN drawer = DOMAIN Closed /\ drawer.id \in Ids \cup {None}
  /\ DOMAIN used = {"typed", "others", "losses", "visits"} /\ used.typed \in Nat
  /\ DOMAIN draft = Fields /\ DOMAIN typed = Fields
  /\ {DOMAIN server, DOMAIN cache, DOMAIN asked} = {Ids}
  /\ \A i \in Ids :
       /\ DOMAIN server[i] = Fields
       /\ cache[i] # None => DOMAIN cache[i] = Fields
       /\ asked[i].st = "read" => DOMAIN asked[i].data = Fields

\* The flag of the completion time is up exactly while one was typed, also
\* after the editing ended; a field that was typed holds what was typed, and
\* the content of an editing that was not is what the editing found.
Traced ==
  /\ drawer.completedAtDirty => typed.stamp # None
  /\ typed.stamp # None => drawer.completedAtDirty
  /\ \A f \in Fields : typed[f] # None => draft[f] = typed[f]
  /\ drawer.isEditing /\ typed.content = None => draft.content = base.content

DrawerInv == DrawerShape /\ Traced

LEMMA DrawerInvSaves == DrawerInv => SavesWhatWasTyped
<1> SUFFICES ASSUME DrawerInv, Loaded, NEW f \in CurrentDiff
             PROVE  \/ typed[f] # None /\ draft[f] = typed[f]
                    \/ f # "stamp" /\ typed[f] = None /\ cache[drawer.id][f] # base[f]
  BY DEF SavesWhatWasTyped
<1>1. /\ f \in Fields /\ drawer.isEditing
      /\ draft[f] # cache[drawer.id][f]
      /\ f = "stamp" => drawer.completedAtDirty
  BY DEF CurrentDiff, Diff
<1>2. CASE f = "stamp"
  BY <1>1, <1>2 DEF DrawerInv, Traced
<1>3. CASE f = "content"
  BY <1>1, <1>3 DEF DrawerInv, Traced
<1> QED
  BY <1>1, <1>2, <1>3 DEF Fields

\* The flags and the draft, and what they were, are as they were.
LEMMA DrawerStays ==
  ASSUME DrawerInv, DrawerShape',
         UNCHANGED <<draft, typed, base>>,
         drawer'.completedAtDirty = drawer.completedAtDirty,
         drawer'.isEditing => drawer.isEditing
  PROVE  DrawerInv'
BY DEF DrawerInv, Traced

LEMMA UsedKeeps ==
  ASSUME DrawerInv, NEW turn \in {"others", "losses", "visits"}, Takes(turn)
  PROVE  DOMAIN used' = DOMAIN used /\ used'.typed = used.typed
BY DEF DrawerInv, DrawerShape, Takes

\* A new request has no answer yet.
LEMMA AskedKeeps ==
  ASSUME DrawerInv, NEW i, NEW a, a.st # "read", asked' = [asked EXCEPT ![i] = a]
  PROVE  /\ DOMAIN asked' = Ids
         /\ \A j \in Ids : asked'[j].st = "read" => asked'[j] = asked[j]
<1>1. DOMAIN asked = Ids
  BY DEF DrawerInv, DrawerShape
<1> QED
  BY <1>1

\* An entity comes on show, or the one on show anew.
LEMMA ShowKeeps ==
  ASSUME DrawerInv, NEW dr, NEW e, Show(dr, draft, e), Followed,
         DOMAIN dr = DOMAIN Closed,
         dr.initializedFor = drawer.initializedFor,
         dr.isEditing = drawer.isEditing,
         dr.completedAtDirty = drawer.completedAtDirty,
         e # None => DOMAIN e = Fields
  PROVE  /\ DOMAIN drawer' = DOMAIN Closed /\ drawer'.id = dr.id
         /\ DOMAIN draft' = Fields
         /\ DOMAIN typed' = Fields
         /\ Traced'
<1>1. DOMAIN draft = Fields /\ DOMAIN typed = Fields
  BY DEF DrawerInv, DrawerShape
<1>2. DOMAIN typed' = Fields
  BY <1>1 DEF Followed, Untyped
<1>3. CASE e = None
  <2>1. PICK t : drawer' = [dr EXCEPT !.timer = t] /\ draft' = draft
    BY <1>3 DEF Show, Render
  <2>2. /\ DOMAIN drawer' = DOMAIN Closed /\ drawer'.id = dr.id
        /\ drawer'.initializedFor = drawer.initializedFor
        /\ drawer'.isEditing = drawer.isEditing
        /\ drawer'.completedAtDirty = drawer.completedAtDirty
    BY <2>1 DEF Closed
  <2> QED
    BY <1>1, <1>2, <2>1, <2>2 DEF DrawerInv, Traced, Followed
<1>4. CASE e # None /\ dr.initializedFor # dr.id
  <2>1. PICK t : drawer' = [[dr EXCEPT !.initializedFor = dr.id, !.isEditing = FALSE,
                              !.completedAtDirty = FALSE, !.left = FALSE]
                            EXCEPT !.timer = t] /\ draft' = e
    BY <1>4 DEF Show, Render, Hydrated
  <2>2. /\ DOMAIN drawer' = DOMAIN Closed /\ drawer'.id = dr.id
        /\ ~ drawer'.isEditing /\ ~ drawer'.completedAtDirty
        /\ drawer'.initializedFor = dr.id
    BY <2>1 DEF Closed
  <2>3. typed' = Untyped
    BY <1>4, <2>2 DEF Followed
  <2>4. \A f \in Fields : typed'[f] = None
    BY <2>3 DEF Untyped
  <2>5. Traced'
    BY <2>2, <2>4 DEF Traced, Fields
  <2> QED
    BY <1>2, <1>4, <2>1, <2>2, <2>5
<1>5. CASE e # None /\ dr.initializedFor = dr.id
  <2>1. PICK t : drawer' = [dr EXCEPT !.timer = t]
    BY <1>5 DEF Show, Render, Hydrated
  <2>2. draft' = draft \/ (~ dr.completedAtDirty /\ draft' = [draft EXCEPT !.stamp = e.stamp])
    BY <1>5 DEF Show, Render, Hydrated
  <2>3. DOMAIN draft' = Fields /\ draft'.content = draft.content
    BY <1>1, <2>2 DEF Fields
  <2>4. /\ DOMAIN drawer' = DOMAIN Closed /\ drawer'.id = dr.id
        /\ drawer'.initializedFor = drawer.initializedFor
        /\ drawer'.isEditing = drawer.isEditing
        /\ drawer'.completedAtDirty = drawer.completedAtDirty
    BY <2>1 DEF Closed
  <2>5. UNCHANGED <<typed, base>>
    BY <2>4 DEF Followed
  <2>6. typed.stamp # None => draft' = draft
    BY <2>2 DEF DrawerInv, Traced
  <2>7. \A f \in Fields : typed'[f] # None => draft'[f] = typed'[f]
    BY <2>3, <2>5, <2>6 DEF DrawerInv, Traced, Fields
  <2>8. Traced'
    BY <2>3, <2>4, <2>5, <2>7 DEF DrawerInv, Traced
  <2> QED
    BY <1>2, <2>3, <2>4, <2>8
<1> QED
  BY <1>3, <1>4, <1>5


LEMMA OpenDrawerKeeps ==
  ASSUME DrawerInv, NEW i \in Ids, OpenDrawer(i)
  PROVE  DrawerInv'
<1> DEFINE dr == [drawer EXCEPT !.id = i, !.left = TRUE]
<1>1. /\ Show(dr, draft, cache[i]) /\ Followed /\ Takes("visits")
      /\ UNCHANGED <<server, cache>>
      /\ asked' \in {asked, [asked EXCEPT ![i] = Sent]}
  BY DEF OpenDrawer
<1>2. /\ DOMAIN dr = DOMAIN Closed /\ dr.id = i
      /\ dr.initializedFor = drawer.initializedFor
      /\ dr.isEditing = drawer.isEditing
      /\ dr.completedAtDirty = drawer.completedAtDirty
      /\ cache[i] # None => DOMAIN cache[i] = Fields
  BY DEF DrawerInv, DrawerShape, Closed
<1> HIDE DEF dr
<1>3. /\ DOMAIN drawer' = DOMAIN Closed /\ drawer'.id = i
      /\ DOMAIN draft' = Fields /\ DOMAIN typed' = Fields
      /\ Traced'
  BY <1>1, <1>2, ShowKeeps
<1>4. DOMAIN asked' = Ids /\ \A j \in Ids : asked'[j].st = "read" => asked'[j] = asked[j]
  <2>1. CASE UNCHANGED asked
    BY <2>1 DEF DrawerInv, DrawerShape
  <2>2. CASE asked' = [asked EXCEPT ![i] = Sent]
    <3>1. Sent.st # "read"
      BY DEF Sent
    <3> QED
      BY <2>2, <3>1, AskedKeeps
  <2> QED
    BY <1>1, <2>1, <2>2
<1>5. DOMAIN used' = DOMAIN used /\ used'.typed = used.typed
  BY <1>1, UsedKeeps
<1>6. DrawerShape'
  BY <1>1, <1>3, <1>4, <1>5 DEF DrawerInv, DrawerShape
<1> QED
  BY <1>3, <1>6 DEF DrawerInv

LEMMA CloseDrawerKeeps ==
  ASSUME DrawerInv, CloseDrawer
  PROVE  DrawerInv'
<1>1. /\ drawer' = Closed /\ draft' = Blank /\ typed' = Untyped
      /\ UNCHANGED <<server, cache, asked, used>>
  BY DEF CloseDrawer
<1>2. DOMAIN draft' = Fields /\ DOMAIN typed' = Fields /\ drawer'.id = None
  BY <1>1 DEF Blank, Untyped, Fields, Closed
<1>3. DrawerShape'
  BY <1>1, <1>2 DEF DrawerInv, DrawerShape
<1>4. \A f \in Fields : typed'[f] = None
  BY <1>1 DEF Untyped
<1>5. Traced'
  BY <1>1, <1>4 DEF Traced, Closed, Fields
<1> QED
  BY <1>3, <1>5 DEF DrawerInv

LEMMA StartEditingKeeps ==
  ASSUME DrawerInv, StartEditing
  PROVE  DrawerInv'
<1>1. PICK e : e = cache[drawer.id]
  OBVIOUS
<1>2. PICK t : drawer' = [[drawer EXCEPT !.isEditing = TRUE] EXCEPT !.timer = t]
  BY DEF StartEditing, Render
<1>3. /\ draft' = [e EXCEPT !.stamp = draft.stamp]
      /\ typed' = [Untyped EXCEPT !.stamp = typed.stamp]
      /\ base' = [content |-> e.content, typed |-> used.typed]
      /\ Takes("visits") /\ UNCHANGED <<server, cache, asked>> /\ Loaded
  BY <1>1 DEF StartEditing, Render, Found
<1>4. DOMAIN e = Fields
  BY <1>1, <1>3 DEF DrawerInv, DrawerShape, Loaded
<1>5. DOMAIN draft' = Fields /\ draft'.content = base'.content /\ draft'.stamp = draft.stamp
  BY <1>3, <1>4 DEF Fields
<1>6. DOMAIN typed' = Fields /\ typed'.stamp = typed.stamp /\ typed'.content = None
  BY <1>3 DEF Untyped, Fields
<1>7. /\ DOMAIN drawer' = DOMAIN Closed /\ drawer'.id = drawer.id
      /\ drawer'.completedAtDirty = drawer.completedAtDirty
  BY <1>2 DEF DrawerInv, DrawerShape, Closed
<1>8. DrawerShape'
  BY <1>3, <1>5, <1>6, <1>7, UsedKeeps DEF DrawerInv, DrawerShape
<1>9. Traced'
  BY <1>5, <1>6, <1>7 DEF DrawerInv, Traced, Fields
<1> QED
  BY <1>8, <1>9 DEF DrawerInv

LEMMA TypeKeeps ==
  ASSUME DrawerInv, NEW f \in Fields, Type(f)
  PROVE  DrawerInv'
<1>1. PICK v : v = used.typed + 1
  OBVIOUS
<1>2. v \in Nat /\ v # None
  BY <1>1, DrawerAssumption DEF DrawerInv, DrawerShape
<1>3. PICK t : drawer' = [[drawer EXCEPT !.completedAtDirty = @ \/ f = "stamp"] EXCEPT !.timer = t]
  BY DEF Type, Render
<1>4. /\ draft' = [draft EXCEPT ![f] = v] /\ typed' = [typed EXCEPT ![f] = v]
      /\ used' = [used EXCEPT !.typed = @ + 1]
      /\ UNCHANGED <<server, cache, asked, base>>
  BY <1>1 DEF Type, Render
<1>5. used'.typed = v /\ DOMAIN used' = DOMAIN used
  BY <1>1, <1>4 DEF DrawerInv, DrawerShape
<1>6. /\ DOMAIN drawer' = DOMAIN Closed /\ drawer'.id = drawer.id
      /\ drawer'.completedAtDirty = (drawer.completedAtDirty \/ f = "stamp")
      /\ drawer'.isEditing = drawer.isEditing
  BY <1>3 DEF DrawerInv, DrawerShape, Closed
<1>7. DOMAIN draft' = Fields /\ DOMAIN typed' = Fields
  BY <1>4 DEF DrawerInv, DrawerShape
<1>8. DrawerShape'
  BY <1>2, <1>4, <1>5, <1>6, <1>7 DEF DrawerInv, DrawerShape
<1>9. typed'.stamp = (IF f = "stamp" THEN v ELSE typed.stamp)
  BY <1>4 DEF DrawerInv, DrawerShape, Fields
<1>10. f = "stamp" => typed'.content = typed.content /\ draft'.content = draft.content
  BY <1>4 DEF DrawerInv, DrawerShape, Fields
<1>11. f # "stamp" => typed'.content = v
  BY <1>4 DEF DrawerInv, DrawerShape, Fields
<1>12. \A g \in Fields : typed'[g] # None => draft'[g] = typed'[g]
  BY <1>4 DEF DrawerInv, DrawerShape, Traced
<1>13. /\ drawer'.completedAtDirty => typed'.stamp # None
       /\ typed'.stamp # None => drawer'.completedAtDirty
  BY <1>2, <1>6, <1>9 DEF DrawerInv, Traced
<1>14. drawer'.isEditing /\ typed'.content = None => draft'.content = base'.content
  BY <1>2, <1>4, <1>6, <1>10, <1>11 DEF DrawerInv, Traced
<1>15. Traced'
  BY <1>12, <1>13, <1>14 DEF Traced
<1> QED
  BY <1>8, <1>15 DEF DrawerInv

\* Saving leaves the draft alone, and at most ends the editing.
LEMMA SaveKeeps ==
  ASSUME DrawerInv, Autosave \/ FinishEditing
  PROVE  DrawerInv'
<1>1. UNCHANGED <<server, cache, asked, draft, used, typed, base>>
  BY DEF Autosave, FinishEditing
<1>2. drawer' \in {drawer, [drawer EXCEPT !.timer = FALSE],
                   [drawer EXCEPT !.isEditing = FALSE, !.timer = FALSE]}
  BY DEF Autosave, FinishEditing
<1>3. /\ DOMAIN drawer' = DOMAIN Closed /\ drawer'.id = drawer.id
      /\ drawer'.completedAtDirty = drawer.completedAtDirty
      /\ drawer'.isEditing => drawer.isEditing
  BY <1>2 DEF DrawerInv, DrawerShape, Closed
<1>4. DrawerShape'
  BY <1>1, <1>3 DEF DrawerInv, DrawerShape
<1> QED
  BY <1>1, <1>3, <1>4, DrawerStays

LEMMA PatchKeeps ==
  ASSUME DrawerInv, NEW p, PatchLands(p) \/ PatchSucceeds(p) \/ PatchFails(p)
  PROVE  DrawerInv'
<1>1. UNCHANGED <<cache, draft, typed, base>>
  BY DEF PatchLands, PatchSucceeds, PatchFails
<1>2. drawer' \in {drawer, [drawer EXCEPT !.isEditing = FALSE, !.timer = FALSE]}
  BY DEF PatchLands, PatchSucceeds, PatchFails
<1>3. /\ DOMAIN drawer' = DOMAIN Closed /\ drawer'.id = drawer.id
      /\ drawer'.completedAtDirty = drawer.completedAtDirty
      /\ drawer'.isEditing => drawer.isEditing
  BY <1>2 DEF DrawerInv, DrawerShape, Closed
<1>4. DOMAIN used' = DOMAIN used /\ used'.typed = used.typed
  <2>1. UNCHANGED used \/ Takes("losses")
    BY DEF PatchLands, PatchSucceeds, PatchFails
  <2> QED
    BY <2>1, UsedKeeps DEF DrawerInv, DrawerShape
<1>5. DOMAIN server' = Ids /\ \A i \in Ids : DOMAIN server'[i] = Fields
  <2>1. CASE UNCHANGED server
    BY <2>1 DEF DrawerInv, DrawerShape
  <2>2. CASE PatchLands(p)
    <3>1. PICK w : w = Written(server[p.id], p.fields)
      OBVIOUS
    <3>2. DOMAIN w = Fields /\ server' = [server EXCEPT ![p.id] = w]
      BY <2>2, <3>1 DEF PatchLands, Written
    <3> QED
      BY <3>2 DEF DrawerInv, DrawerShape
  <2> QED
    BY <2>1, <2>2 DEF PatchSucceeds, PatchFails
<1>6. DOMAIN asked' = Ids /\ \A i \in Ids : asked'[i].st = "read" => asked'[i] = asked[i]
  <2>1. CASE UNCHANGED asked
    BY <2>1 DEF DrawerInv, DrawerShape
  <2>2. CASE \E a \in {Sent, Due} : asked' = [asked EXCEPT ![p.id] = a]
    <3>1. PICK a \in {Sent, Due} : asked' = [asked EXCEPT ![p.id] = a]
      BY <2>2
    <3>2. a.st # "read"
      BY DEF Sent, Due
    <3>3. PICK i : i = p.id
      OBVIOUS
    <3> QED
      BY <3>1, <3>2, <3>3, AskedKeeps
  <2> QED
    BY <2>1, <2>2 DEF PatchLands, PatchSucceeds, PatchFails
<1>7. DrawerShape'
  BY <1>1, <1>3, <1>4, <1>5, <1>6 DEF DrawerInv, DrawerShape
<1> QED
  BY <1>1, <1>3, <1>7, DrawerStays

LEMMA FocusDrawerKeeps ==
  ASSUME DrawerInv, FocusDrawer
  PROVE  DrawerInv'
<1>1. UNCHANGED <<server, cache, drawer, draft, used, typed, base>>
  BY DEF FocusDrawer
<1>2. DOMAIN asked' = Ids /\ \A j \in Ids : asked'[j].st = "read" => asked'[j] = asked[j]
  <2>1. PICK i : i = drawer.id
    OBVIOUS
  <2>2. PICK a : a = Sent
    OBVIOUS
  <2>3. a.st # "read" /\ asked' = [asked EXCEPT ![i] = a]
    BY <2>1, <2>2 DEF FocusDrawer, Sent
  <2> QED
    BY <2>3, AskedKeeps
<1>3. DrawerShape'
  BY <1>1, <1>2 DEF DrawerInv, DrawerShape
<1> QED
  BY <1>1, <1>3, DrawerStays

LEMMA ReadEntityKeeps ==
  ASSUME DrawerInv, NEW i \in Ids, ReadEntity(i)
  PROVE  DrawerInv'
<1>1. /\ asked' = [asked EXCEPT ![i] = [st |-> "read", data |-> server[i]]]
      /\ UNCHANGED <<server, cache, drawer, draft, used, typed, base>>
  BY DEF ReadEntity
<1>2. DOMAIN asked' = Ids /\ \A j \in Ids \ {i} : asked'[j] = asked[j]
  BY <1>1 DEF DrawerInv, DrawerShape
<1>3. asked'[i].data = server[i]
  BY <1>1 DEF DrawerInv, DrawerShape
<1>4. DrawerShape'
  BY <1>1, <1>2, <1>3 DEF DrawerInv, DrawerShape
<1> QED
  BY <1>1, <1>4, DrawerStays

LEMMA ArriveKeeps ==
  ASSUME DrawerInv, NEW i \in Ids, Arrive(i)
  PROVE  DrawerInv'
<1>1. PICK e : e = asked[i].data
  OBVIOUS
<1>2. /\ asked' = [asked EXCEPT ![i] = NotAsked] /\ cache' = [cache EXCEPT ![i] = e]
      /\ Followed /\ UNCHANGED <<server, used>> /\ DOMAIN e = Fields
  BY <1>1 DEF Arrive, DrawerInv, DrawerShape
<1>3. DOMAIN cache' = Ids /\ \A j \in Ids : cache'[j] # None => DOMAIN cache'[j] = Fields
  BY <1>2 DEF DrawerInv, DrawerShape
<1>4. DOMAIN asked' = Ids /\ \A j \in Ids : asked'[j].st = "read" => asked'[j] = asked[j]
  <2>1. NotAsked.st # "read"
    BY DEF NotAsked
  <2> QED
    BY <1>2, <2>1, AskedKeeps
<1>5. /\ DOMAIN drawer' = DOMAIN Closed /\ drawer'.id = drawer.id
      /\ DOMAIN draft' = Fields /\ DOMAIN typed' = Fields
      /\ Traced'
  <2>1. CASE drawer.id = i
    <3>1. Show(drawer, draft, e)
      BY <1>1, <2>1 DEF Arrive
    <3> QED
      BY <1>2, <3>1, ShowKeeps DEF DrawerInv, DrawerShape
  <2>2. CASE drawer.id # i
    BY <2>2 DEF Arrive, Followed, DrawerInv, DrawerShape, Traced
  <2> QED
    BY <2>1, <2>2
<1>6. DrawerShape'
  BY <1>2, <1>3, <1>4, <1>5 DEF DrawerInv, DrawerShape
<1> QED
  BY <1>5, <1>6 DEF DrawerInv

LEMMA AgentWritesKeeps ==
  ASSUME DrawerInv, AgentWrites
  PROVE  DrawerInv'
<1>1. Takes("others") /\ UNCHANGED <<cache, asked, drawer, draft, typed, base>>
  BY DEF AgentWrites
<1>2. PICK f \in Fields : server' = [server EXCEPT ![drawer.id][f] = MaxTyped + used'.others]
  BY DEF AgentWrites
<1>3. PICK i : i = drawer.id
  OBVIOUS
<1>4. DOMAIN server' = Ids /\ \A j \in Ids : DOMAIN server'[j] = Fields
  BY <1>2, <1>3 DEF DrawerInv, DrawerShape
<1>5. DOMAIN used' = DOMAIN used /\ used'.typed = used.typed
  BY <1>1, UsedKeeps
<1>6. DrawerShape'
  BY <1>1, <1>4, <1>5 DEF DrawerInv, DrawerShape
<1> QED
  BY <1>1, <1>6, DrawerStays

LEMMA DrawerInvInit == DrawerInit => DrawerInv
<1> SUFFICES ASSUME DrawerInit PROVE DrawerInv
  OBVIOUS
<1>1. DrawerShape
  BY DEF DrawerInit, DrawerShape, Closed, Blank, Untyped, Fields, NotAsked
<1>2. typed = Untyped /\ \A f \in Fields : Untyped[f] = None
  BY DEF DrawerInit, Untyped
<1>3. Traced
  BY <1>2 DEF DrawerInit, Traced, Closed, Fields
<1> QED
  BY <1>1, <1>3 DEF DrawerInv

LEMMA DrawerInvInductive ==
  ASSUME DrawerInv, [DrawerNext]_drawerVars
  PROVE  DrawerInv'
<1>1. CASE UNCHANGED drawerVars
  BY <1>1 DEF drawerVars, DrawerInv, DrawerShape, Traced
<1>2. ASSUME NEW i \in Ids, OpenDrawer(i) \/ ReadEntity(i) \/ Arrive(i)
      PROVE  DrawerInv'
  BY <1>2, OpenDrawerKeeps, ReadEntityKeeps, ArriveKeeps
<1>3. ASSUME NEW p \in patches, PatchLands(p) \/ PatchSucceeds(p) \/ PatchFails(p)
      PROVE  DrawerInv'
  BY <1>3, PatchKeeps
<1>4. ASSUME NEW f \in Fields, Type(f)
      PROVE  DrawerInv'
  BY <1>4, TypeKeeps
<1> QED
  BY <1>1, <1>2, <1>3, <1>4, CloseDrawerKeeps, StartEditingKeeps, SaveKeeps,
     FocusDrawerKeeps, AgentWritesKeeps DEF DrawerNext

\* What the drawer is about to save is what was last typed into that field of
\* this entity, a completion time since the drawer came to show it and a content
\* since editing began; a content that was not typed is there because the tab's
\* copy has changed under the edit.  With any number of entities, openings,
\* answers and PATCHes under way (EntityDrawer.tsx:173-260).
THEOREM SavesHold == DrawerSpec => []SavesWhatWasTyped
<1>1. DrawerSpec => []DrawerInv
  BY DrawerInvInit, DrawerInvInductive, PTL DEF DrawerSpec
<1> QED
  BY <1>1, DrawerInvSaves, PTL

-----------------------------------------------------------------------------
(* What the tab shows.                                                     *)

\* What the server ever held, and what it answered.
Truths == [ShownBy[watched] -> 0..MaxValues]
Told == Truths \cup {NoData}

Getting ==
  /\ get \in [st : {"none", "asked", "read"}, data : Told]
  /\ get.st = "read" <=> get.data # NoData

Mutating ==
  call = NoCall \/ call \in [st : {"sent", "landed"}, name : {m.name : m \in Mutations},
                             value : 1..MaxValues, data : Told]

\* The snapshot is what the server answered before the deletion.
Undoing ==
  /\ undo \in [toast : {"none", "open", "closed"}, del : {"none", "sent", "landed", "refused"},
               res : {"none", "sent", "landed", "over"}, value : 0..MaxValues,
               back : 0..MaxValues, snapshot : Told]
  /\ undo.del = "none" => undo.snapshot = NoData

\* A row is shown as deleted that the server still has only while a deletion
\* that took it out of an answer is not refused.
Showing ==
  /\ shown \in Answers
  /\ undo.del = "refused" \/ undo.snapshot = NoData => shown \in Told

CacheFlags ==
  /\ stale \in BOOLEAN /\ old \in BOOLEAN /\ mounted \in BOOLEAN /\ excused \in BOOLEAN

CacheInv ==
  /\ watched \in Queries /\ db \in Truths
  /\ counts \in [values : 0..MaxValues, fails : Nat, visits : Nat]
  /\ CacheFlags /\ Getting /\ Mutating /\ Undoing /\ Showing

LEMMA CacheBounds == MaxValues \in Nat /\ Optimistic = MaxValues + 1
BY QueryCacheAssumption DEF Optimistic

LEMMA NoDataIsNoTruth ==
  ASSUME watched \in Queries
  PROVE  NoData \notin Truths
BY QueryCacheAssumption DEF Truths

LEMMA ToldIsAnswer == Told \subseteq Answers
<1>1. 0..MaxValues \subseteq 0..Optimistic
  BY CacheBounds
<1> QED
  BY <1>1 DEF Told, Truths, Answers

LEMMA SameQuery ==
  ASSUME watched' = watched
  PROVE  Truths' = Truths /\ Told' = Told /\ Answers' = Answers
BY DEF Truths, Told, Answers, Optimistic

LEMMA NewValue ==
  ASSUME CacheInv, CountValue
  PROVE  /\ Value \in 1..MaxValues /\ Value \in 0..MaxValues
         /\ counts' \in [values : 0..MaxValues, fails : Nat, visits : Nat]
<1>1. PICK n : n = counts.values
  OBVIOUS
<1>2. n \in 0..MaxValues /\ n < MaxValues
  BY <1>1 DEF CacheInv, CountValue
<1>3. n + 1 \in 1..MaxValues /\ n + 1 \in 0..MaxValues
  BY <1>2, CacheBounds
<1>4. counts' = [counts EXCEPT !.values = n + 1]
  BY <1>1 DEF CountValue
<1> QED
  BY <1>1, <1>3, <1>4 DEF Value, CacheInv

LEMMA OneMoreFails ==
  ASSUME CacheInv, CountFail
  PROVE  counts' \in [values : 0..MaxValues, fails : Nat, visits : Nat]
<1>1. PICK n : n = counts.fails + 1
  OBVIOUS
<1>2. n \in Nat /\ counts' = [counts EXCEPT !.fails = n]
  BY <1>1 DEF CacheInv, CountFail
<1> QED
  BY <1>2 DEF CacheInv

LEMMA BumpedIsTruth ==
  ASSUME CacheInv, NEW facets, NEW value \in 0..MaxValues
  PROVE  Bumped(facets, value) \in Truths
BY DEF Bumped, CacheInv, Truths

LEMMA AskedIsGetting ==
  ASSUME CacheInv, watched' = watched, get' \in {get, Asked, NoGet}
  PROVE  Getting'
<1>1. Told' = Told /\ NoData \in Told
  BY SameQuery DEF Told
<1>2. CASE get' = get
  BY <1>1, <1>2 DEF CacheInv, Getting
<1>3. CASE get' \in {Asked, NoGet}
  <2>1. PICK g : g = get'
    OBVIOUS
  <2>2. g \in {Asked, NoGet}
    BY <1>3, <2>1
  <2>3. g.st \in {"asked", "none"} /\ g.data = NoData /\ g = [st |-> g.st, data |-> g.data]
    BY <2>2 DEF Asked, NoGet
  <2> QED
    BY <1>1, <2>1, <2>3 DEF Getting
<1> QED
  BY <1>2, <1>3

\* A step that leaves the server, the call and the deletion alone.
LEMMA ViewKeeps ==
  ASSUME CacheInv, UNCHANGED <<watched, db, call, undo>>,
         counts' \in [values : 0..MaxValues, fails : Nat, visits : Nat],
         CacheFlags', Getting', shown' \in Told \cup {shown}
  PROVE  CacheInv'
<1>1. Truths' = Truths /\ Told' = Told /\ Answers' = Answers
  BY SameQuery
<1>2. Showing'
  BY <1>1, ToldIsAnswer DEF CacheInv, Showing
<1>3. Mutating' /\ Undoing'
  BY <1>1 DEF CacheInv, Mutating, Undoing
<1> QED
  BY <1>1, <1>2, <1>3 DEF CacheInv

LEMMA LookingKeeps ==
  ASSUME CacheInv, Mount \/ Unmount \/ Age \/ Focus \/ Poll \/ Read \/ Answer \/ GetFails
  PROVE  CacheInv'
<1>1. UNCHANGED <<watched, db, call, undo>>
  BY DEF Mount, Unmount, Age, Focus, Poll, Read, Answer, GetFails
<1>2. counts' \in [values : 0..MaxValues, fails : Nat, visits : Nat]
  <2>1. CASE Mount
    <3>1. PICK n : n = counts.visits + 1
      OBVIOUS
    <3>2. n \in Nat /\ counts' = [counts EXCEPT !.visits = n]
      BY <2>1, <3>1 DEF Mount, CacheInv
    <3> QED
      BY <3>2 DEF CacheInv
  <2>2. CASE GetFails
    BY <2>2, OneMoreFails DEF GetFails
  <2>3. CASE UNCHANGED counts
    BY <2>3 DEF CacheInv
  <2> QED
    BY <2>1, <2>2, <2>3 DEF Unmount, Age, Focus, Poll, Read, Answer
<1>3. CacheFlags'
  BY DEF CacheInv, CacheFlags, Mount, Unmount, Age, Focus, Poll, Read, Answer, GetFails
<1>4. Getting'
  <2>1. CASE Read
    <3>1. get' = [st |-> "read", data |-> db] /\ db # NoData /\ db \in Told' /\ NoData' = NoData
      BY <2>1, <1>1, NoDataIsNoTruth, SameQuery DEF Read, CacheInv, Told
    <3> QED
      BY <3>1 DEF Getting
  <2>2. CASE get' \in {get, Asked, NoGet}
    BY <1>1, <2>2, AskedIsGetting
  <2> QED
    BY <2>1, <2>2 DEF Mount, Unmount, Age, Focus, Poll, Answer, GetFails
<1>5. shown' \in Told \cup {shown}
  <2>1. CASE Answer
    BY <2>1 DEF Answer, CacheInv, Getting
  <2> QED
    BY <2>1 DEF Mount, Unmount, Age, Focus, Poll, Read, GetFails
<1> QED
  BY <1>1, <1>2, <1>3, <1>4, <1>5, ViewKeeps

\* An invalidation asks again at most.
LEMMA InvalidatedAsks ==
  ASSUME CacheInv, NEW keys, NEW gap \in BOOLEAN, Invalidated(keys, gap),
         UNCHANGED <<watched, mounted>>
  PROVE  CacheFlags' /\ Getting' /\ shown' = shown
<1>1. shown' = shown /\ get' \in {get, Asked, NoGet}
  BY DEF Invalidated
<1>2. stale' \in BOOLEAN /\ old' \in BOOLEAN
  BY DEF Invalidated, CacheInv, CacheFlags
<1>3. excused' \in BOOLEAN
  BY Zenon DEF Invalidated, CacheInv, CacheFlags
<1> QED
  BY <1>1, <1>2, <1>3, AskedIsGetting DEF CacheInv, CacheFlags

-----------------------------------------------------------------------------
(* The mutations of the tab.                                               *)

\* A step that leaves the view's deletion alone, and shows what was told.
LEMMA CallKeeps ==
  ASSUME CacheInv, UNCHANGED <<watched, undo>>, db' \in Truths,
         counts' \in [values : 0..MaxValues, fails : Nat, visits : Nat],
         CacheFlags', Getting', Mutating', shown' \in Told \cup {shown}
  PROVE  CacheInv'
<1>1. Truths' = Truths /\ Told' = Told /\ Answers' = Answers
  BY SameQuery
<1>2. Showing'
  BY <1>1, ToldIsAnswer DEF CacheInv, Showing
<1>3. Undoing'
  BY <1>1 DEF CacheInv, Undoing
<1> QED
  BY <1>1, <1>2, <1>3 DEF CacheInv

LEMMA SendKeeps ==
  ASSUME CacheInv, NEW m \in Mutations, Call(m)
  PROVE  CacheInv'
<1>1. /\ UNCHANGED <<watched, db, shown, stale, old, mounted, get, undo, excused>>
      /\ call' = [NoCall EXCEPT !.st = "sent", !.name = m.name, !.value = Value]
      /\ CountValue
  BY DEF Call
<1>2. PICK n, v : n = m.name /\ v = Value
  OBVIOUS
<1>3. /\ n \in {k.name : k \in Mutations} /\ v \in 1..MaxValues
      /\ counts' \in [values : 0..MaxValues, fails : Nat, visits : Nat]
  BY <1>1, <1>2, NewValue
<1>4. call' = [st |-> "sent", name |-> n, value |-> v, data |-> NoData]
  BY <1>1, <1>2 DEF NoCall
<1>5. NoData \in Told'
  BY DEF Told
<1>6. Mutating'
  BY <1>3, <1>4, <1>5 DEF Mutating
<1>7. Getting' /\ CacheFlags'
  BY <1>1, AskedIsGetting DEF CacheInv, CacheFlags
<1> QED
  BY <1>1, <1>3, <1>6, <1>7, CallKeeps DEF CacheInv

LEMMA LandKeeps == ASSUME CacheInv, Land PROVE CacheInv'
<1>1. /\ UNCHANGED <<watched, shown, stale, old, mounted, get, undo, counts, excused>>
      /\ db' = Bumped(Called.changes, call.value) /\ call.st = "sent"
  BY DEF Land
<1>2. call # NoCall
  BY <1>1 DEF NoCall
<1>3. call \in [st : {"sent", "landed"}, name : {m.name : m \in Mutations},
                value : 1..MaxValues, data : Told]
  BY <1>2 DEF CacheInv, Mutating
<1>4. call.value \in 0..MaxValues
  <2>1. call.value \in 1..MaxValues
    BY <1>3
  <2> QED
    BY <2>1, CacheBounds
<1>5. db' \in Truths
  BY <1>1, <1>4, BumpedIsTruth
<1>6. PICK d : d = IF watched \in Called.sets THEN db' ELSE NoData
  OBVIOUS
<1>7. d \in Told /\ Told' = Told
  BY <1>1, <1>5, <1>6, SameQuery DEF Told
<1>8. call' = [call EXCEPT !.st = "landed", !.data = d]
  BY <1>6 DEF Land
<1>9. Mutating'
  BY <1>3, <1>7, <1>8 DEF Mutating
<1>10. Getting' /\ CacheFlags'
  BY <1>1, AskedIsGetting DEF CacheInv, CacheFlags
<1> QED
  BY <1>1, <1>5, <1>9, <1>10, CallKeeps DEF CacheInv

LEMMA SucceedKeeps == ASSUME CacheInv, Succeed PROVE CacheInv'
<1>1. call.st = "landed" /\ call' = NoCall /\ UNCHANGED <<watched, db, mounted, undo, counts>>
  BY DEF Succeed
<1>2. call # NoCall
  BY <1>1 DEF NoCall
<1>3. call.data \in Told
  BY <1>2 DEF CacheInv, Mutating
<1>4. CASE watched \in Called.sets
  <2>1. /\ shown' \in {shown, call.data} /\ old' = FALSE
        /\ stale' = (watched \in Called.invalidates)
        /\ get' \in {get, Asked, NoGet}
        /\ excused' = (excused \/ (get.st = "read" /\ get' = get))
    BY <1>4 DEF Succeed
  <2>2. stale' \in BOOLEAN
    BY <2>1
  <2>3. excused' \in BOOLEAN
    BY <2>1, Zenon
  <2>4. CacheFlags' /\ Getting'
    BY <1>1, <2>1, <2>2, <2>3, AskedIsGetting DEF CacheInv, CacheFlags
  <2> QED
    BY <1>1, <1>3, <2>1, <2>4, CallKeeps DEF CacheInv, Mutating
<1>5. CASE watched \notin Called.sets
  <2> DEFINE gap == <<call.name, watched>> \in LeftStale
  <2>1. Invalidated(Called.invalidates, gap)
    BY <1>5 DEF Succeed
  <2>2. gap \in BOOLEAN
    OBVIOUS
  <2> HIDE DEF gap
  <2>3. CacheFlags' /\ Getting' /\ shown' = shown
    BY <1>1, <2>1, <2>2, InvalidatedAsks
  <2> QED
    BY <1>1, <2>3, CallKeeps DEF CacheInv, Mutating
<1> QED
  BY <1>4, <1>5

LEMMA CallFailsKeeps == ASSUME CacheInv, CallFails PROVE CacheInv'
<1>1. /\ UNCHANGED <<watched, db, shown, stale, old, mounted, get, undo>>
      /\ call' = NoCall /\ CountFail
      /\ excused' = (excused \/ call.st = "landed")
  BY DEF CallFails
<1>2. excused' \in BOOLEAN
  BY <1>1, Zenon DEF CacheInv, CacheFlags
<1>3. CacheFlags' /\ Getting'
  BY <1>1, <1>2, AskedIsGetting DEF CacheInv, CacheFlags
<1> QED
  BY <1>1, <1>3, OneMoreFails, CallKeeps DEF CacheInv, Mutating

LEMMA OthersWriteKeep ==
  ASSUME CacheInv, NEW f \in DOMAIN db, OthersWrite(f)
  PROVE  CacheInv'
<1>1. /\ UNCHANGED <<watched, shown, stale, old, mounted, get, call, undo>>
      /\ CountValue /\ excused' = TRUE /\ db' = [db EXCEPT ![f] = Value]
  BY DEF OthersWrite
<1>2. PICK v : v = Value
  OBVIOUS
<1>3. v \in 0..MaxValues /\ counts' \in [values : 0..MaxValues, fails : Nat, visits : Nat]
  BY <1>1, <1>2, NewValue
<1>4. db' \in Truths
  BY <1>1, <1>2, <1>3 DEF CacheInv, Truths
<1>5. CacheFlags' /\ Getting' /\ Mutating'
  BY <1>1, AskedIsGetting, SameQuery DEF CacheInv, CacheFlags, Mutating
<1> QED
  BY <1>1, <1>3, <1>4, <1>5, CallKeeps

-----------------------------------------------------------------------------
(* The deletion that can be undone.                                        *)

\* A step of the deletion leaves the query and the other calls alone.
LEMMA UndoKeeps ==
  ASSUME CacheInv, UNCHANGED <<watched, call>>, db' \in Truths,
         counts' \in [values : 0..MaxValues, fails : Nat, visits : Nat],
         CacheFlags', Getting', Undoing', Showing'
  PROVE  CacheInv'
<1>1. Truths' = Truths /\ Told' = Told
  BY SameQuery
<1>2. Mutating'
  BY <1>1 DEF CacheInv, Mutating
<1> QED
  BY <1>1, <1>2 DEF CacheInv

\* Once a deletion was begun, the view changes no more than its snapshot allows.
LEMMA SameShowing ==
  ASSUME CacheInv, UNCHANGED <<watched, shown>>, undo'.snapshot = undo.snapshot,
         undo'.del = "refused" => undo.del = "refused"
  PROVE  Showing'
<1>1. Told' = Told /\ Answers' = Answers
  BY SameQuery
<1> QED
  BY <1>1 DEF CacheInv, Showing

LEMMA StrippedIsAnswer ==
  ASSUME NEW data \in Truths
  PROVE  Stripped(data) \in Answers
<1>1. 0..MaxValues \subseteq 0..Optimistic /\ Optimistic \in 0..Optimistic
  BY CacheBounds
<1>2. DOMAIN data = ShownBy[watched] /\ \A f \in DOMAIN data : data[f] \in 0..MaxValues
  BY DEF Truths
<1>3. Stripped(data) \in [ShownBy[watched] -> 0..Optimistic]
  BY <1>1, <1>2 DEF Stripped
<1> QED
  BY <1>3 DEF Answers

LEMMA DeleteWithUndoKeeps == ASSUME CacheInv, DeleteWithUndo PROVE CacheInv'
<1>1. /\ UNCHANGED <<watched, db, mounted, get, call, excused>> /\ undo = NoUndo
      /\ CountValue
  BY DEF DeleteWithUndo
<1>2. PICK v : v = Value
  OBVIOUS
<1>3. v \in 0..MaxValues /\ counts' \in [values : 0..MaxValues, fails : Nat, visits : Nat]
  BY <1>1, <1>2, NewValue
<1>4. undo' = [toast |-> "open", del |-> "sent", res |-> "none",
               value |-> v, back |-> 0,
               snapshot |-> IF watched \in LIST_KEYS THEN shown ELSE NoData]
  BY <1>2 DEF DeleteWithUndo
<1>5. shown \in Told /\ undo'.snapshot \in Told
  BY <1>1, <1>4 DEF CacheInv, Showing, NoUndo, Told
<1>6. Told' = Told /\ Answers' = Answers
  BY <1>1, SameQuery
<1>7. Undoing'
  <2>1. 0 \in 0..MaxValues
    BY CacheBounds
  <2> QED
    BY <1>3, <1>4, <1>5, <1>6, <2>1 DEF Undoing
<1>8. Showing' /\ CacheFlags'
  <2>1. CASE UNCHANGED <<shown, stale, old>>
    BY <1>1, <1>5, <1>6, <2>1, ToldIsAnswer DEF CacheInv, CacheFlags, Showing
  <2>2. CASE watched \in LIST_KEYS /\ shown # NoData
    <3>1. shown' = Stripped(shown) /\ stale' = FALSE /\ old' = FALSE
      BY <2>2 DEF DeleteWithUndo
    <3>2. shown \in Truths
      BY <1>5, <2>2 DEF Told
    <3>3. shown' \in Answers'
      BY <1>6, <3>1, <3>2, StrippedIsAnswer
    <3>4. undo'.del # "refused" /\ undo'.snapshot # NoData /\ NoData' = NoData
      BY <1>4, <2>2
    <3> QED
      BY <1>1, <3>1, <3>3, <3>4 DEF CacheInv, CacheFlags, Showing
  <2> QED
    BY <2>1, <2>2 DEF DeleteWithUndo
<1>9. Getting'
  BY <1>1, AskedIsGetting
<1> QED
  BY <1>1, <1>3, <1>7, <1>8, <1>9, UndoKeeps DEF CacheInv

\* What the server does to the row.
LEMMA RowLandsKeeps == ASSUME CacheInv, DeleteLands \/ RestoreLands PROVE CacheInv'
<1>1. /\ UNCHANGED <<watched, shown, stale, old, mounted, get, call, counts>>
      /\ undo' \in {[undo EXCEPT !.del = "landed"], [undo EXCEPT !.res = "landed"]}
      /\ db' \in {Bumped({"members", "trash"}, undo.value), Bumped({"members", "trash"}, undo.back)}
  BY DEF DeleteLands, RestoreLands
<1>2. db' \in Truths
  <2>1. undo.value \in 0..MaxValues /\ undo.back \in 0..MaxValues
    BY DEF CacheInv, Undoing
  <2> QED
    BY <1>1, <2>1, BumpedIsTruth
<1>3. excused' \in BOOLEAN
  <2>1. CASE DeleteLands
    <3>1. excused' = (excused \/ ~ToBeLooked)
      BY <2>1 DEF DeleteLands
    <3> QED
      BY <3>1, Zenon
  <2>2. CASE RestoreLands
    <3>1. excused' = (excused \/ watched \notin LIST_KEYS)
      BY <2>2 DEF RestoreLands
    <3> QED
      BY <3>1, Zenon
  <2> QED
    BY <2>1, <2>2
<1>4. undo'.snapshot = undo.snapshot
  BY <1>1 DEF CacheInv, Undoing
<1>5. undo'.del = "none" => undo.del = "none"
  BY <1>1 DEF CacheInv, Undoing
<1>6. undo'.del = "refused" => undo.del = "refused"
  BY <1>1 DEF CacheInv, Undoing
<1>7. Undoing'
  BY <1>1, <1>4, <1>5, SameQuery DEF CacheInv, Undoing
<1>8. CacheFlags' /\ Getting'
  BY <1>1, <1>3, AskedIsGetting DEF CacheInv, CacheFlags
<1> QED
  BY <1>1, <1>2, <1>4, <1>6, <1>7, <1>8, SameShowing, UndoKeeps DEF CacheInv

\* A refused deletion puts the former answer back.
LEMMA DeleteRefusedKeeps == ASSUME CacheInv, DeleteRefused PROVE CacheInv'
<1>1. /\ UNCHANGED <<watched, db, mounted, get, call>> /\ CountFail
      /\ undo' = [undo EXCEPT !.del = "refused"] /\ undo.del = "sent"
      /\ excused' = (excused \/ ~ToBeLooked)
  BY DEF DeleteRefused
<1>2. excused' \in BOOLEAN
  BY <1>1, Zenon
<1>3. Told' = Told /\ Answers' = Answers
  BY <1>1, SameQuery
<1>4. Undoing'
  BY <1>1, <1>3 DEF CacheInv, Undoing
<1>5. shown' \in Told /\ stale' \in BOOLEAN /\ old' \in BOOLEAN
  <2>1. CASE undo.snapshot = NoData
    BY <2>1 DEF DeleteRefused, CacheInv, Showing, CacheFlags
  <2>2. CASE undo.snapshot # NoData
    BY <2>2 DEF DeleteRefused, CacheInv, Undoing
  <2> QED
    BY <2>1, <2>2
<1>6. Showing'
  BY <1>3, <1>5, ToldIsAnswer DEF Showing
<1>7. CacheFlags' /\ Getting'
  BY <1>1, <1>2, <1>5, AskedIsGetting DEF CacheInv, CacheFlags
<1> QED
  BY <1>1, <1>4, <1>6, <1>7, OneMoreFails, UndoKeeps DEF CacheInv

\* Both ends of the toast ask for every list again, or call the restore first.
LEMMA ToastKeeps ==
  ASSUME CacheInv, ToastExpires \/ Undo \/ RestoreAnswered
  PROVE  CacheInv'
<1>1. UNCHANGED <<watched, db, mounted, call>>
  BY DEF ToastExpires, Undo, RestoreAnswered
<1>2. counts' \in [values : 0..MaxValues, fails : Nat, visits : Nat]
  <2>1. CountValue \/ CountFail \/ UNCHANGED counts
    BY DEF ToastExpires, Undo, RestoreAnswered
  <2> QED
    BY <2>1, NewValue, OneMoreFails DEF CacheInv
<1>3. CacheFlags' /\ Getting' /\ shown' = shown
  <2>1. CASE Invalidated(LIST_KEYS, FALSE)
    BY <1>1, <2>1, InvalidatedAsks
  <2>2. CASE UNCHANGED <<shown, stale, old, get, excused>>
    BY <1>1, <2>2, AskedIsGetting DEF CacheInv, CacheFlags
  <2> QED
    BY <2>1, <2>2 DEF ToastExpires, Undo, RestoreAnswered
<1>4. PICK v : v = Value
  OBVIOUS
<1>5. \/ undo' \in {[undo EXCEPT !.toast = "closed"], [undo EXCEPT !.res = "over"]}
      \/ undo' = [undo EXCEPT !.toast = "closed", !.res = "sent", !.back = v] /\ CountValue
  BY <1>4 DEF ToastExpires, Undo, RestoreAnswered
<1>6. CountValue => v \in 0..MaxValues
  BY <1>4, NewValue
<1>7. undo'.snapshot = undo.snapshot /\ undo'.del = undo.del
  BY <1>5 DEF CacheInv, Undoing
<1>8. Undoing'
  BY <1>1, <1>5, <1>6, <1>7, SameQuery DEF CacheInv, Undoing
<1> QED
  BY <1>1, <1>2, <1>3, <1>7, <1>8, SameShowing, UndoKeeps DEF CacheInv

-----------------------------------------------------------------------------
(* All of it.                                                              *)

LEMMA CacheInvInit == CacheInit => CacheInv
<1> SUFFICES ASSUME CacheInit PROVE CacheInv
  OBVIOUS
<1>1. db \in Truths /\ watched \in Queries /\ 0 \in 0..MaxValues
  BY CacheBounds DEF CacheInit, Truths
<1>2. counts \in [values : 0..MaxValues, fails : Nat, visits : Nat]
  BY <1>1 DEF CacheInit
<1>3. NoData \in Told /\ CacheFlags
  BY DEF CacheInit, Told, CacheFlags
<1>4. Getting /\ Mutating
  BY <1>3 DEF CacheInit, Getting, Mutating, NoGet
<1>5. Undoing /\ Showing
  BY <1>1, <1>3, ToldIsAnswer DEF CacheInit, Undoing, Showing, NoUndo
<1> QED
  BY <1>1, <1>2, <1>3, <1>4, <1>5 DEF CacheInv

LEMMA CacheStutters == ASSUME CacheInv, UNCHANGED cacheVars PROVE CacheInv'
<1>1. UNCHANGED <<watched, db, call, undo, counts, get, shown, stale, old, mounted, excused>>
  BY DEF cacheVars
<1>2. CacheFlags' /\ Getting'
  BY <1>1, AskedIsGetting DEF CacheInv, CacheFlags
<1> QED
  BY <1>1, <1>2, ViewKeeps DEF CacheInv

LEMMA CacheInvInductive ==
  ASSUME CacheInv, [CacheNext]_cacheVars
  PROVE  CacheInv'
BY CacheStutters, LookingKeeps, SendKeeps, LandKeeps, SucceedKeeps, CallFailsKeeps,
   OthersWriteKeep, DeleteWithUndoKeeps, RowLandsKeeps, DeleteRefusedKeeps, ToastKeeps
   DEF CacheNext

LEMMA CacheInvTypes == CacheInv => CacheTypeOK
<1> SUFFICES ASSUME CacheInv PROVE CacheTypeOK
  OBVIOUS
<1>1. Told \subseteq Answers
  BY ToldIsAnswer
<1>2. get.st \in {"none", "asked", "read"} /\ get.data \in Answers /\ (get.st = "read" <=> get.data # NoData)
  BY <1>1 DEF CacheInv, Getting
<1>3. call # NoCall => call.st \in {"sent", "landed"} /\ call.value \in 1..MaxValues
  BY DEF CacheInv, Mutating
<1>4. /\ undo.toast \in {"none", "open", "closed"}
      /\ undo.del \in {"none", "sent", "landed", "refused"}
      /\ undo.res \in {"none", "sent", "landed", "over"}
      /\ undo.snapshot \in Answers
  BY <1>1 DEF CacheInv, Undoing
<1>5. ASSUME undo.del \in {"none", "refused"}, shown # NoData, NEW f \in DOMAIN shown
      PROVE  shown[f] # Optimistic
  <2>1. shown \in Truths
    BY <1>5 DEF CacheInv, Showing, Undoing, Told
  <2>2. shown[f] \in 0..MaxValues
    BY <1>5, <2>1 DEF Truths
  <2> QED
    BY <2>2, CacheBounds
<1>6. watched \in Queries /\ db \in [ShownBy[watched] -> 0..MaxValues] /\ shown \in Answers
  BY DEF CacheInv, Truths, Showing
<1>7. {stale, old, mounted, excused} \subseteq BOOLEAN
  BY DEF CacheInv, CacheFlags
<1> QED
  BY <1>2, <1>3, <1>4, <1>5, <1>6, <1>7 DEF CacheTypeOK

\* The tab's cache and its requests keep their shape, and a list shows a row
\* as deleted only while the server has not refused the deletion: with any
\* number of calls, of failures and of visits (queryClient.ts and the hooks).
THEOREM CacheTypesHold == CacheSpec => []CacheTypeOK
<1>1. CacheSpec => []CacheInv
  BY CacheInvInit, CacheInvInductive, PTL DEF CacheSpec
<1> QED
  BY <1>1, CacheInvTypes, PTL

-----------------------------------------------------------------------------
(* What the drawer holds.                                                  *)

Values == 0..(MaxTyped + MaxTurns)

DrawerRecords ==
  [id : Ids \cup {None}, initializedFor : Ids \cup {None}, isEditing : BOOLEAN,
   completedAtDirty : BOOLEAN, timer : BOOLEAN, left : BOOLEAN]

Requests == [st : {"no", "sent", "read", "due"}, data : Entity \cup {None}]

\* The budget of values, which keeps every value that is written in bounds.
UsedOK ==
  /\ used \in [typed : 0..MaxTyped, others : Nat, losses : Nat, visits : Nat]
  /\ used.visits + used.losses + used.others <= MaxTurns

\* Only an entity that the server had is in an answer.
RequestsOK ==
  /\ asked \in [Ids -> Requests]
  /\ \A i \in Ids : asked[i].st = "read" => asked[i].data \in Entity

\* A PATCH changes something, and to what was in a field.
PatchOK(p) ==
  /\ p.id \in Ids /\ DOMAIN p.fields # {}
  /\ \A f \in Fields \cap DOMAIN p.fields : p.fields[f] \in Values

\* Only while an entity is on show is there something to save.
TimerOK ==
  drawer.timer => drawer.id # None /\ CurrentDiff # {}

DrawerKinds ==
  /\ server \in [Ids -> Entity] /\ cache \in [Ids -> Entity \cup {None}]
  /\ RequestsOK /\ UsedOK /\ TimerOK
  /\ drawer \in DrawerRecords /\ draft \in Entity
  /\ \A p \in patches : PatchOK(p)

LEMMA EntityIs == Entity = [Fields -> Values]
BY DEF Entity, Values

LEMMA ValuesHold ==
  /\ MaxTyped \in Nat /\ MaxTurns \in Nat /\ 0 \in Values /\ 1..MaxTyped \subseteq Values
  /\ \A n \in 1..MaxTurns : MaxTyped + n \in Values
BY DrawerAssumption DEF Values

LEMMA NoneIsNoEntity == None \notin Ids
BY DrawerAssumption

LEMMA OneField ==
  ASSUME NEW e \in Entity, NEW f, NEW v \in Values
  PROVE  [e EXCEPT ![f] = v] \in Entity
BY EntityIs

LEMMA TakesOK ==
  ASSUME DrawerKinds, NEW turn \in {"others", "losses", "visits"}, Takes(turn)
  PROVE  UsedOK' /\ (turn = "others" => used'.others \in 1..MaxTurns)
<1>1. PICK o, l, v : o = used.others /\ l = used.losses /\ v = used.visits
  OBVIOUS
<1>2. /\ o \in Nat /\ l \in Nat /\ v \in Nat /\ v + l + o < MaxTurns /\ MaxTurns \in Nat
      /\ used.typed \in 0..MaxTyped
  BY <1>1, ValuesHold DEF DrawerKinds, UsedOK, Takes
<1>3. DOMAIN used = {"typed", "others", "losses", "visits"} /\ used' = [used EXCEPT ![turn] = @ + 1]
  BY DEF DrawerKinds, UsedOK, Takes
<1>4. used' = [typed |-> used.typed,
               others |-> IF turn = "others" THEN o + 1 ELSE o,
               losses |-> IF turn = "losses" THEN l + 1 ELSE l,
               visits |-> IF turn = "visits" THEN v + 1 ELSE v]
  BY <1>1, <1>3 DEF DrawerKinds, UsedOK
<1>5. used' \in [typed : 0..MaxTyped, others : Nat, losses : Nat, visits : Nat]
  BY <1>2, <1>4
<1>6. used'.visits + used'.losses + used'.others <= MaxTurns
  BY <1>2, <1>4
<1>7. turn = "others" => used'.others \in 1..MaxTurns
  BY <1>2, <1>4
<1> QED
  BY <1>5, <1>6, <1>7 DEF UsedOK

\* After a render the timer runs just when there is something to save.
LEMMA RenderTimes ==
  ASSUME NEW dr \in DrawerRecords, NEW d, NEW e, Render(dr, d, e),
         dr.id \in Ids, cache'[dr.id] = e
  PROVE  drawer' \in DrawerRecords /\ drawer'.id = dr.id /\ draft' = d /\ TimerOK'
<1>1. PICK t \in BOOLEAN : t = (Diff(dr, d, e) # {})
  OBVIOUS
<1>2. drawer' = [dr EXCEPT !.timer = t] /\ draft' = d
  BY <1>1 DEF Render
<1>3. /\ drawer' \in DrawerRecords /\ drawer'.timer = t /\ drawer'.id = dr.id
      /\ drawer'.isEditing = dr.isEditing /\ drawer'.initializedFor = dr.initializedFor
      /\ drawer'.completedAtDirty = dr.completedAtDirty
  BY <1>2 DEF DrawerRecords
<1>4. Diff(drawer', d, e) = Diff(dr, d, e)
  BY <1>3 DEF Diff
<1>5. CurrentDiff' = Diff(drawer', draft', cache'[drawer'.id])
  BY DEF CurrentDiff, Diff
<1>6. CurrentDiff' = Diff(dr, d, e)
  BY <1>2, <1>3, <1>4, <1>5
<1>7. drawer'.id # None
  BY <1>3, NoneIsNoEntity
<1> QED
  BY <1>1, <1>2, <1>3, <1>6, <1>7 DEF TimerOK

LEMMA ShowTimes ==
  ASSUME NEW dr \in DrawerRecords, NEW d \in Entity, NEW e \in Entity \cup {None},
         Show(dr, d, e), dr.id \in Ids, cache'[dr.id] = e
  PROVE  drawer' \in DrawerRecords /\ draft' \in Entity /\ TimerOK'
<1>1. CASE e = None
  BY <1>1, RenderTimes DEF Show
<1>2. CASE e # None /\ dr.initializedFor # dr.id
  <2> DEFINE new == [dr EXCEPT !.initializedFor = dr.id, !.isEditing = FALSE,
                               !.completedAtDirty = FALSE, !.left = FALSE]
  <2>1. new \in DrawerRecords /\ new.id = dr.id
    BY DEF DrawerRecords
  <2>2. Render(new, e, e)
    BY <1>2 DEF Show, Hydrated
  <2> HIDE DEF new
  <2> QED
    BY <1>2, <2>1, <2>2, RenderTimes
<1>3. CASE e # None /\ dr.initializedFor = dr.id
  <2>1. PICK new : /\ new = IF dr.completedAtDirty THEN d ELSE [d EXCEPT !.stamp = e.stamp]
                   /\ Render(dr, new, e)
    BY <1>3 DEF Show, Hydrated
  <2>2. e.stamp \in Values
    BY <1>3, EntityIs DEF Fields
  <2>3. new \in Entity
    BY <2>1, <2>2, OneField
  <2> QED
    BY <1>3, <2>1, <2>3, RenderTimes
<1> QED
  BY <1>1, <1>2, <1>3

\* The timer does not run on, with the draft and the tab's copy as they were,
\* unless there still is something to save.
LEMMA TimerStays ==
  ASSUME DrawerKinds, UNCHANGED <<draft, cache>>,
         drawer' = drawer \/ ~ drawer'.timer
  PROVE  TimerOK'
<1>1. CASE ~ drawer'.timer
  BY <1>1 DEF TimerOK
<1>2. CASE drawer' = drawer
  BY <1>2 DEF DrawerKinds, TimerOK, CurrentDiff, Diff
<1> QED
  BY <1>1, <1>2

LEMMA NewRequest ==
  ASSUME DrawerKinds, NEW i, NEW a \in {Sent, Due, NotAsked},
         asked' \in {asked, [asked EXCEPT ![i] = a]}
  PROVE  RequestsOK'
<1>1. a \in Requests /\ a.st # "read"
  BY DEF Requests, Sent, Due, NotAsked
<1> QED
  BY <1>1 DEF DrawerKinds, RequestsOK

\* What is neither written nor read.
LEMMA PlainStep ==
  ASSUME DrawerKinds, UNCHANGED <<server, cache>>, RequestsOK', UsedOK', TimerOK',
         drawer' \in DrawerRecords, draft' \in Entity,
         \A p \in patches' : PatchOK(p)
  PROVE  DrawerKinds'
BY DEF DrawerKinds, PatchOK

LEMMA OpenDrawerHolds ==
  ASSUME DrawerKinds, NEW i \in Ids, OpenDrawer(i)
  PROVE  DrawerKinds'
<1> DEFINE dr == [drawer EXCEPT !.id = i, !.left = TRUE]
<1>1. /\ Show(dr, draft, cache[i]) /\ Takes("visits")
      /\ UNCHANGED <<server, cache, patches>>
      /\ asked' \in {asked, [asked EXCEPT ![i] = Sent]}
  BY DEF OpenDrawer
<1>2. dr \in DrawerRecords /\ dr.id = i
  BY DEF DrawerKinds, DrawerRecords
<1> HIDE DEF dr
<1>3. cache[i] \in Entity \cup {None} /\ draft \in Entity
  BY DEF DrawerKinds
<1>4. drawer' \in DrawerRecords /\ draft' \in Entity /\ TimerOK'
  BY <1>1, <1>2, <1>3, ShowTimes
<1>5. RequestsOK' /\ UsedOK'
  BY <1>1, NewRequest, TakesOK
<1> QED
  BY <1>1, <1>4, <1>5, PlainStep DEF DrawerKinds

LEMMA CloseDrawerHolds == ASSUME DrawerKinds, CloseDrawer PROVE DrawerKinds'
<1>1. /\ drawer' = Closed /\ draft' = Blank
      /\ patches' = {[p EXCEPT !.here = FALSE] : p \in patches}
      /\ UNCHANGED <<server, cache, asked, used>>
  BY DEF CloseDrawer
<1>2. drawer' \in DrawerRecords /\ TimerOK'
  BY <1>1 DEF Closed, DrawerRecords, TimerOK
<1>3. draft' \in Entity
  BY <1>1, ValuesHold, EntityIs DEF Blank, Fields
<1>4. ASSUME NEW q \in patches' PROVE PatchOK(q)
  <2>1. PICK p \in patches : q = [p EXCEPT !.here = FALSE]
    BY <1>1, <1>4
  <2>2. q.id = p.id /\ q.fields = p.fields
    BY <2>1 DEF DrawerKinds, PatchOK
  <2> QED
    BY <2>2 DEF DrawerKinds, PatchOK
<1>5. RequestsOK' /\ UsedOK'
  BY <1>1 DEF DrawerKinds, RequestsOK, UsedOK
<1> QED
  BY <1>1, <1>2, <1>3, <1>4, <1>5, PlainStep

LEMMA StartEditingHolds == ASSUME DrawerKinds, StartEditing PROVE DrawerKinds'
<1>1. PICK e : e = cache[drawer.id]
  OBVIOUS
<1> DEFINE dr == [drawer EXCEPT !.isEditing = TRUE]
           d == [e EXCEPT !.stamp = draft.stamp]
<1>2. /\ Render(dr, d, e) /\ Takes("visits") /\ Loaded
      /\ UNCHANGED <<server, cache, asked, patches>>
  BY <1>1 DEF StartEditing
<1>3. drawer.id \in Ids /\ e \in Entity
  BY <1>1, <1>2 DEF Loaded, DrawerKinds, DrawerRecords
<1>4. dr \in DrawerRecords /\ dr.id = drawer.id
  BY DEF DrawerKinds, DrawerRecords
<1>5. draft.stamp \in Values
  BY EntityIs DEF DrawerKinds, Fields
<1>6. d \in Entity
  BY <1>3, <1>5, OneField
<1> HIDE DEF dr, d
<1>7. drawer' \in DrawerRecords /\ draft' \in Entity /\ TimerOK'
  BY <1>1, <1>2, <1>3, <1>4, <1>6, RenderTimes
<1>8. RequestsOK' /\ UsedOK'
  BY <1>2, TakesOK DEF DrawerKinds, RequestsOK
<1> QED
  BY <1>2, <1>7, <1>8, PlainStep DEF DrawerKinds

LEMMA TypeHoldsKinds ==
  ASSUME DrawerKinds, NEW f \in Fields, Type(f)
  PROVE  DrawerKinds'
<1>1. PICK v, e : v = used.typed + 1 /\ e = cache[drawer.id]
  OBVIOUS
<1> DEFINE dr == [drawer EXCEPT !.completedAtDirty = @ \/ f = "stamp"]
           d == [draft EXCEPT ![f] = v]
<1>2. /\ Render(dr, d, e) /\ Loaded /\ used.typed < MaxTyped
      /\ used' = [used EXCEPT !.typed = v]
      /\ UNCHANGED <<server, cache, asked, patches>>
  BY <1>1 DEF Type
<1>3. v \in 1..MaxTyped /\ v \in 0..MaxTyped
  <2>1. used.typed \in 0..MaxTyped
    BY DEF DrawerKinds, UsedOK
  <2> QED
    BY <1>1, <1>2, <2>1, ValuesHold
<1>4. drawer.id \in Ids
  BY <1>2 DEF Loaded, DrawerKinds, DrawerRecords
<1>5. dr \in DrawerRecords /\ dr.id = drawer.id
  <2>1. PICK b \in BOOLEAN : b = (drawer.completedAtDirty \/ f = "stamp")
    OBVIOUS
  <2>2. dr = [drawer EXCEPT !.completedAtDirty = b]
    BY <2>1
  <2> QED
    BY <2>2 DEF DrawerKinds, DrawerRecords
<1>6. d \in Entity
  BY <1>3, ValuesHold, OneField DEF DrawerKinds
<1> HIDE DEF dr, d
<1>7. drawer' \in DrawerRecords /\ draft' \in Entity /\ TimerOK'
  BY <1>1, <1>2, <1>4, <1>5, <1>6, RenderTimes
<1>8. UsedOK'
  BY <1>2, <1>3 DEF DrawerKinds, UsedOK
<1>9. RequestsOK'
  BY <1>2 DEF DrawerKinds, RequestsOK
<1> QED
  BY <1>2, <1>7, <1>8, <1>9, PlainStep DEF DrawerKinds

\* A PATCH that is sent carries what the draft would change, which is
\* something.
LEMMA SendHolds ==
  ASSUME DrawerKinds, NEW finishing, Send(finishing), drawer.id \in Ids,
         CurrentDiff # {}
  PROVE  \A p \in patches' : PatchOK(p)
<1> SUFFICES ASSUME NEW q \in patches', q \notin patches PROVE PatchOK(q)
  BY DEF DrawerKinds
<1>1. q = [id |-> drawer.id, st |-> "sent", here |-> TRUE, finishing |-> finishing,
           fields |-> [f \in CurrentDiff |-> draft[f]]]
  BY DEF Send
<1>2. q.id = drawer.id /\ DOMAIN q.fields = CurrentDiff
  BY <1>1
<1>3. \A f \in CurrentDiff : q.fields[f] = draft[f]
  BY <1>1
<1>4. \A f \in Fields : draft[f] \in Values
  BY EntityIs DEF DrawerKinds
<1> QED
  BY <1>2, <1>3, <1>4 DEF PatchOK

LEMMA SaveHolds == ASSUME DrawerKinds, Autosave \/ FinishEditing PROVE DrawerKinds'
<1>1. UNCHANGED <<server, cache, asked, draft, used>>
  BY DEF Autosave, FinishEditing
<1>2. drawer' \in {drawer, [drawer EXCEPT !.timer = FALSE],
                   [drawer EXCEPT !.isEditing = FALSE, !.timer = FALSE]}
  BY DEF Autosave, FinishEditing
<1>3. drawer' \in DrawerRecords /\ (drawer' = drawer \/ ~ drawer'.timer)
  BY <1>2 DEF DrawerKinds, DrawerRecords
<1>4. \A p \in patches' : PatchOK(p)
  <2>1. CASE UNCHANGED patches
    BY <2>1 DEF DrawerKinds
  <2>2. ASSUME Autosave, Send(FALSE) PROVE \A p \in patches' : PatchOK(p)
    <3>1. drawer.id \in Ids /\ CurrentDiff # {}
      BY <2>2 DEF Autosave, DrawerKinds, TimerOK, DrawerRecords
    <3> QED
      BY <2>2, <3>1, SendHolds
  <2>3. ASSUME Loaded, Send(TRUE), CurrentDiff # {} PROVE \A p \in patches' : PatchOK(p)
    <3>1. drawer.id \in Ids
      BY <2>3 DEF Loaded, DrawerKinds, DrawerRecords
    <3> QED
      BY <2>3, <3>1, SendHolds
  <2> QED
    BY <2>1, <2>2, <2>3 DEF Autosave, FinishEditing
<1>5. RequestsOK' /\ UsedOK'
  BY <1>1 DEF DrawerKinds, RequestsOK, UsedOK
<1> QED
  BY <1>1, <1>3, <1>4, <1>5, TimerStays, PlainStep DEF DrawerKinds

LEMMA PatchLandsHolds ==
  ASSUME DrawerKinds, NEW p \in patches, PatchLands(p)
  PROVE  DrawerKinds'
<1>1. /\ UNCHANGED <<cache, asked, drawer, draft, used>>
      /\ patches' = (patches \ {p}) \cup {[p EXCEPT !.st = "landed"]}
  BY DEF PatchLands
<1>2. PatchOK(p)
  BY DEF DrawerKinds
<1>3. PICK w : w = Written(server[p.id], p.fields)
  OBVIOUS
<1>4. w \in Entity
  <2>1. \A f \in Fields : server[p.id][f] \in Values
    BY <1>2, EntityIs DEF DrawerKinds, PatchOK
  <2> QED
    BY <1>2, <1>3, <2>1, EntityIs DEF Written, PatchOK
<1>5. server' = [server EXCEPT ![p.id] = w]
  BY <1>3 DEF PatchLands
<1>6. server' \in [Ids -> Entity]
  BY <1>4, <1>5 DEF DrawerKinds
<1>7. ASSUME NEW q \in patches' PROVE PatchOK(q)
  <2>1. CASE q \in patches
    BY <2>1 DEF DrawerKinds
  <2>2. CASE q = [p EXCEPT !.st = "landed"]
    <3>1. q.id = p.id /\ q.fields = p.fields
      BY <2>2
    <3> QED
      BY <1>2, <3>1 DEF PatchOK
  <2> QED
    BY <1>1, <1>7, <2>1, <2>2
<1>8. RequestsOK' /\ UsedOK' /\ TimerOK'
  BY <1>1, TimerStays DEF DrawerKinds, RequestsOK, UsedOK
<1> QED
  BY <1>1, <1>6, <1>7, <1>8 DEF DrawerKinds

LEMMA PatchEndsHolds ==
  ASSUME DrawerKinds, NEW p \in patches, PatchSucceeds(p) \/ PatchFails(p)
  PROVE  DrawerKinds'
<1>1. UNCHANGED <<server, cache, draft>> /\ patches' = patches \ {p}
  BY DEF PatchSucceeds, PatchFails
<1>2. drawer' \in {drawer, [drawer EXCEPT !.isEditing = FALSE, !.timer = FALSE]}
  BY DEF PatchSucceeds, PatchFails
<1>3. drawer' \in DrawerRecords /\ (drawer' = drawer \/ ~ drawer'.timer)
  BY <1>2 DEF DrawerKinds, DrawerRecords
<1>4. PICK i : i = p.id
  OBVIOUS
<1>5. asked' \in {asked, [asked EXCEPT ![i] = Sent], [asked EXCEPT ![i] = Due]}
  BY <1>4 DEF PatchSucceeds, PatchFails
<1>6. RequestsOK'
  BY <1>5, NewRequest
<1>7. UsedOK'
  <2>1. UNCHANGED used \/ Takes("losses")
    BY DEF PatchSucceeds, PatchFails
  <2> QED
    BY <2>1, TakesOK DEF DrawerKinds, UsedOK
<1> QED
  BY <1>1, <1>3, <1>6, <1>7, TimerStays, PlainStep DEF DrawerKinds

LEMMA AskHolds ==
  ASSUME DrawerKinds, NEW i \in Ids, FocusDrawer \/ ReadEntity(i)
  PROVE  DrawerKinds'
<1>1. UNCHANGED <<server, cache, drawer, draft, patches, used>>
  BY DEF FocusDrawer, ReadEntity
<1>2. RequestsOK'
  <2>1. CASE FocusDrawer
    <3>1. PICK j : j = drawer.id
      OBVIOUS
    <3>2. asked' = [asked EXCEPT ![j] = Sent]
      BY <2>1, <3>1 DEF FocusDrawer
    <3> QED
      BY <3>2, NewRequest
  <2>2. CASE ReadEntity(i)
    <3>1. PICK a : a = [st |-> "read", data |-> server[i]]
      OBVIOUS
    <3>2. a \in Requests /\ a.data \in Entity
      BY <3>1 DEF Requests, DrawerKinds
    <3>3. asked' = [asked EXCEPT ![i] = a]
      BY <2>2, <3>1 DEF ReadEntity
    <3> QED
      BY <3>2, <3>3 DEF DrawerKinds, RequestsOK
  <2> QED
    BY <2>1, <2>2
<1>3. UsedOK' /\ TimerOK'
  BY <1>1, TimerStays DEF DrawerKinds, UsedOK
<1> QED
  BY <1>1, <1>2, <1>3, PlainStep DEF DrawerKinds

LEMMA ArriveHolds ==
  ASSUME DrawerKinds, NEW i \in Ids, Arrive(i)
  PROVE  DrawerKinds'
<1>1. PICK e : e = asked[i].data
  OBVIOUS
<1>2. /\ asked[i].st = "read" /\ asked' = [asked EXCEPT ![i] = NotAsked]
      /\ cache' = [cache EXCEPT ![i] = e]
      /\ UNCHANGED <<server, patches, used>>
  BY <1>1 DEF Arrive
<1>3. e \in Entity
  BY <1>1, <1>2 DEF DrawerKinds, RequestsOK
<1>4. /\ cache' \in [Ids -> Entity \cup {None}] /\ cache'[i] = e
      /\ \A j \in Ids \ {i} : cache'[j] = cache[j]
  BY <1>2, <1>3 DEF DrawerKinds
<1>5. drawer' \in DrawerRecords /\ draft' \in Entity /\ TimerOK'
  <2>1. CASE drawer.id = i
    <3>1. Show(drawer, draft, e)
      BY <1>1, <2>1 DEF Arrive
    <3> QED
      BY <1>3, <1>4, <2>1, <3>1, ShowTimes DEF DrawerKinds
  <2>2. CASE drawer.id # i
    <3>1. UNCHANGED <<drawer, draft>>
      BY <2>2 DEF Arrive
    <3>2. CASE ~ drawer.timer
      BY <3>1, <3>2 DEF DrawerKinds, TimerOK
    <3>3. CASE drawer.timer
      <4>1. drawer.id \in Ids \ {i} /\ CurrentDiff # {} /\ drawer.id # None
        BY <2>2, <3>3 DEF DrawerKinds, TimerOK, DrawerRecords
      <4>2. cache'[drawer'.id] = cache[drawer.id]
        BY <1>4, <3>1, <4>1
      <4>3. CurrentDiff' = CurrentDiff
        BY <3>1, <4>2 DEF CurrentDiff, Diff
      <4> QED
        BY <3>1, <4>1, <4>3 DEF DrawerKinds, TimerOK
    <3> QED
      BY <3>2, <3>3
  <2> QED
    BY <2>1, <2>2
<1>6. RequestsOK'
  BY <1>2, NewRequest
<1>7. UsedOK'
  BY <1>2 DEF DrawerKinds, UsedOK
<1> QED
  BY <1>2, <1>4, <1>5, <1>6, <1>7 DEF DrawerKinds, PatchOK

LEMMA AgentWritesHolds == ASSUME DrawerKinds, AgentWrites PROVE DrawerKinds'
<1>1. Takes("others") /\ UNCHANGED <<cache, asked, drawer, draft, patches>>
  BY DEF AgentWrites
<1>0. PICK i, v : i = drawer.id /\ v = MaxTyped + used'.others
  OBVIOUS
<1>2. PICK f \in Fields : server' = [server EXCEPT ![i][f] = v]
  BY <1>0 DEF AgentWrites
<1>3. i \in Ids
  BY <1>0 DEF AgentWrites, Loaded, DrawerKinds, DrawerRecords
<1>4. UsedOK' /\ v \in Values
  BY <1>0, <1>1, TakesOK, ValuesHold
<1>5. server[i] \in Entity
  BY <1>3 DEF DrawerKinds
<1>6. [server[i] EXCEPT ![f] = v] \in Entity
  BY <1>4, <1>5, OneField
<1>7. server' \in [Ids -> Entity]
  BY <1>2, <1>3, <1>6 DEF DrawerKinds
<1>8. RequestsOK' /\ TimerOK'
  BY <1>1, TimerStays DEF DrawerKinds, RequestsOK
<1> QED
  BY <1>1, <1>4, <1>7, <1>8 DEF DrawerKinds, PatchOK

LEMMA DrawerKindsInit == ASSUME DrawerInit PROVE DrawerKinds
<1>1. Blank \in Entity
  BY ValuesHold, EntityIs DEF Blank, Fields
<1>2. RequestsOK
  BY DEF DrawerInit, RequestsOK, Requests, NotAsked
<1>3. UsedOK
  <2>1. 0 \in 0..MaxTyped /\ 0 + 0 + 0 <= MaxTurns
    BY ValuesHold
  <2> QED
    BY <2>1 DEF DrawerInit, UsedOK
<1>4. drawer \in DrawerRecords /\ TimerOK
  BY DEF DrawerInit, Closed, DrawerRecords, TimerOK
<1> QED
  BY <1>1, <1>2, <1>3, <1>4 DEF DrawerInit, DrawerKinds

LEMMA DrawerKindsInductive ==
  ASSUME DrawerKinds, [DrawerNext]_drawerVars
  PROVE  DrawerKinds'
<1>1. CASE UNCHANGED drawerVars
  <2>1. RequestsOK' /\ UsedOK' /\ TimerOK'
    BY <1>1, TimerStays DEF drawerVars, DrawerKinds, RequestsOK, UsedOK
  <2> QED
    BY <1>1, <2>1, PlainStep DEF drawerVars, DrawerKinds
<1>2. ASSUME NEW i \in Ids, OpenDrawer(i) \/ ReadEntity(i) \/ Arrive(i)
      PROVE  DrawerKinds'
  BY <1>2, OpenDrawerHolds, AskHolds, ArriveHolds
<1>3. ASSUME NEW p \in patches, PatchLands(p) \/ PatchSucceeds(p) \/ PatchFails(p)
      PROVE  DrawerKinds'
  BY <1>3, PatchLandsHolds, PatchEndsHolds
<1>4. CASE FocusDrawer
  <2>1. drawer.id \in Ids
    BY <1>4 DEF FocusDrawer, DrawerKinds, DrawerRecords
  <2> QED
    BY <1>4, <2>1, AskHolds
<1>5. ASSUME NEW f \in Fields, Type(f)
      PROVE  DrawerKinds'
  BY <1>5, TypeHoldsKinds
<1> QED
  BY <1>1, <1>2, <1>3, <1>4, <1>5, CloseDrawerHolds, StartEditingHolds, SaveHolds,
     AgentWritesHolds DEF DrawerNext

LEMMA DrawerKindsTypes == DrawerKinds => DrawerTypeOK
BY DEF DrawerKinds, DrawerTypeOK, RequestsOK, Requests, TimerOK, DrawerRecords, PatchOK

\* The drawer keeps its shape, its timer runs only while there is something
\* to save, and every PATCH under way changes something: with any number of
\* entities, openings, answers and PATCHes (EntityDrawer.tsx).
THEOREM DrawerTypesHold == DrawerSpec => []DrawerTypeOK
<1>1. DrawerSpec => []DrawerKinds
  BY DrawerKindsInit, DrawerKindsInductive, PTL DEF DrawerSpec
<1> QED
  BY <1>1, DrawerKindsTypes, PTL

-----------------------------------------------------------------------------
(* What the command refers to.                                             *)

\* Every series has a row as its current occurrence.
CurrentsOK == \A k \in 1..Len(rules) : rules[k].current \in 1..Len(rows)

\* A rule is attached only to a task that the same process made.
MadeFirst(left, made) ==
  \A i \in 1..Len(left) :
    left[i] = "configure" => made # 0 \/ (i > 1 /\ left[i - 1] = "create")

CommandKinds ==
  /\ CommandInv /\ SuccessInv /\ CurrentsOK
  /\ process.rule <= Len(rules) /\ process.made <= Len(rows)
  /\ MadeFirst(process.calls, process.made)

Grows ==
  /\ CurrentsOK' /\ Len(rows') >= Len(rows) /\ Len(rules') >= Len(rules)
  /\ {Len(rows), Len(rows'), Len(rules), Len(rules')} \subseteq Nat

LEMMA CallsMakeFirst ==
  ASSUME NEW c \in Commands, NEW made
  PROVE  MadeFirst(Calls(c), made)
<1> DEFINE Plain(left) == \A i \in 1..Len(left) : left[i] # "configure"
<1>1. c.name \in {"projects", "project", "today", "tasks", "task", "note", "update", "done",
                  "comment", "recurrence", "skip", "stop-recurrence", "search", "export",
                  "import"}
  BY DEF Commands
<1>2. /\ Plain(CmdProjects) /\ Plain(CmdProject) /\ Plain(CmdToday) /\ Plain(CmdTasks)
      /\ Plain(CmdNote) /\ Plain(CmdUpdate)
  BY DEF CmdProjects, CmdProject, CmdToday, CmdTasks, CmdNote, CmdUpdate
<1>3. /\ Plain(CmdComment) /\ Plain(CmdRecurrence) /\ Plain(CmdSkip)
      /\ Plain(CmdStopRecurrence) /\ Plain(CmdSearch) /\ Plain(CmdExport) /\ Plain(CmdImport)
  BY DEF CmdComment, CmdRecurrence, CmdSkip, CmdStopRecurrence, CmdSearch, CmdExport, CmdImport
<1>4. Plain(CmdDone(c.option))
  <2>1. Plain(<<"resolve", "finish", "comment">>) /\ Plain(<<"resolve", "finish">>)
    OBVIOUS
  <2> HIDE DEF Plain
  <2> QED
    BY <2>1, OptionalCalls
<1>5. MadeFirst(CmdTask(c.option), made)
  <2>1. MadeFirst(<<"find", "create">>, made) /\ MadeFirst(<<"find", "create", "configure">>, made)
    BY DEF MadeFirst
  <2> QED
    BY <2>1, OptionalCalls
<1>6. ASSUME NEW left, Plain(left) PROVE MadeFirst(left, made)
  BY <1>6 DEF MadeFirst
<1> HIDE DEF Plain
<1>7. Plain(Calls(c)) \/ Calls(c) = CmdTask(c.option)
  BY <1>1, <1>2, <1>3, <1>4 DEF Calls
<1> QED
  BY <1>5, <1>6, <1>7

-----------------------------------------------------------------------------
(* Rows and series are only added.                                         *)

LEMMA SameRules ==
  ASSUME ServerOK, CurrentsOK, ServerOK', UNCHANGED rules, Len(rows') >= Len(rows)
  PROVE  Grows
BY DEF Grows, CurrentsOK, ServerOK

LEMMA OneRule ==
  ASSUME ServerOK, CurrentsOK, ServerOK', Len(rows') >= Len(rows),
         NEW k \in Nat, NEW rule, rules' = [rules EXCEPT ![k] = rule],
         k \in 1..Len(rules) => rule \in Rules /\ rule.current \in 1..Len(rows')
  PROVE  Grows
<1>1. /\ Len(rules') = Len(rules)
      /\ \A j \in 1..Len(rules) : rules'[j] = IF j = k THEN rule ELSE rules[j]
  BY AssignSeq DEF ServerOK
<1>2. {Len(rows), Len(rows'), Len(rules), Len(rules')} \subseteq Nat
  BY DEF ServerOK
<1>3. \A j \in 1..Len(rules) : rules[j].current \in 1..Len(rows')
  BY <1>2 DEF CurrentsOK
<1>4. CurrentsOK'
  BY <1>1, <1>3 DEF CurrentsOK
<1> QED
  BY <1>1, <1>2, <1>4 DEF Grows

LEMMA NewRule ==
  ASSUME ServerOK, ServerOK', NEW s \in Seq(Rules), Len(s) = Len(rules),
         \A j \in 1..Len(s) : s[j].current \in 1..Len(rows),
         NEW r \in 1..Len(rows), rules' = Append(s, [on |-> TRUE, current |-> r]),
         Len(rows') >= Len(rows)
  PROVE  Grows
<1> DEFINE new == [on |-> TRUE, current |-> r]
<1>1. new \in Rules /\ new.current = r /\ rules' = Append(s, new)
  BY DEF Rules
<1> HIDE DEF new
<1>2. {Len(rows), Len(rows'), Len(rules), Len(rules')} \subseteq Nat
  BY DEF ServerOK
<1>3. /\ Len(rules') = Len(rules) + 1 /\ rules'[Len(rules) + 1] = new
      /\ \A j \in 1..Len(rules) : rules'[j] = s[j]
  BY <1>1, AppendProperties
<1>4. ASSUME NEW j \in 1..Len(rules') PROVE rules'[j].current \in 1..Len(rows')
  <2>1. CASE j \in 1..Len(rules)
    BY <1>2, <1>3, <2>1
  <2>2. CASE j = Len(rules) + 1
    BY <1>1, <1>2, <1>3, <2>2
  <2> QED
    BY <1>2, <1>3, <2>1, <2>2
<1> QED
  BY <1>2, <1>3, <1>4 DEF Grows, CurrentsOK

LEMMA CloseRowGrows ==
  ASSUME ServerOK, CurrentsOK, NEW status \in {"done", "rejected"}, CloseRow(Named, status)
  PROVE  Grows
<1>1. ServerOK' /\ Len(rows') >= Len(rows)
  BY CloseRowMoves DEF Onward
<1>2. Named = 1 /\ Named \in 1..Len(rows) /\ Len(rows) \in Nat
  BY DEF Named, ServerOK
<1>3. CASE Current(Named) /\ rows[Named].status = "open"
  <2> DEFINE k == rows[Named].rule
             rule == [rules[k] EXCEPT !.current = Len(rows) + 1]
             row == [rows[Named] EXCEPT !.status = status]
             closed == [rows EXCEPT ![Named] = row]
  <2>1. rows' = Append(closed, Row(k)) /\ rules' = [rules EXCEPT ![k] = rule]
    BY <1>3 DEF CloseRow
  <2>2. k \in 1..Len(rules)
    BY <1>2, <1>3 DEF Current, ServerOK
  <2>3. rule \in Rules /\ rule.current = Len(rows) + 1
    <3>1. rules[k] \in Rules
      BY <2>2 DEF ServerOK
    <3> HIDE DEF k
    <3> QED
      BY <1>2, <3>1 DEF Rules
  <2>4. row \in Rows
    <3>1. rows[Named] \in Rows
      BY <1>2 DEF ServerOK
    <3> QED
      BY <3>1 DEF Rows
  <2>5. closed \in Seq(Rows) /\ Len(closed) = Len(rows) /\ Row(k) \in Rows
    <3>1. closed \in Seq(Rows) /\ Len(closed) = Len(rows)
      <4> HIDE DEF row
      <4> QED
        BY <1>2, <2>4, AssignSeq DEF ServerOK
    <3> QED
      BY <2>2, <3>1, RowIsRow
  <2>6. Len(rows') = Len(rows) + 1
    <3> HIDE DEF closed, k
    <3> QED
      BY <2>1, <2>5
  <2> HIDE DEF rule, k, closed
  <2>7. k \in Nat /\ rules' = [rules EXCEPT ![k] = rule]
    BY <2>1, <2>2
  <2>8. rule \in Rules /\ rule.current \in 1..Len(rows')
    BY <1>2, <2>3, <2>6
  <2> QED
    BY <1>1, <2>7, <2>8, OneRule
<1>4. CASE ~ (Current(Named) /\ rows[Named].status = "open")
  <2>1. UNCHANGED rules
    BY <1>4 DEF CloseRow
  <2> QED
    BY <1>1, <2>1, SameRules
<1> QED
  BY <1>3, <1>4

LEMMA ChangeGrows ==
  ASSUME ServerOK, ProcessOK, CurrentsOK, NEW step, Change(step),
         step = "configure" => process.made \in 1..Len(rows)
  PROVE  Grows
<1>1. ServerOK' /\ Len(rows') >= Len(rows)
  BY ChangeMoves DEF Onward
<1>2. CASE UNCHANGED rules
  BY <1>1, <1>2, SameRules
<1>3. CASE step = "configure" /\ rules' = Append(rules, [on |-> TRUE, current |-> process.made])
  <2>1. rules \in Seq(Rules) /\ \A j \in 1..Len(rules) : rules[j].current \in 1..Len(rows)
    BY DEF ServerOK, CurrentsOK
  <2> QED
    BY <1>1, <1>3, <2>1, NewRule
<1>4. CASE CloseRow(Named, "done") \/ CloseRow(Named, "rejected")
  BY <1>4, CloseRowGrows
<1>5. CASE UNCHANGED rows /\ rules' = [rules EXCEPT ![process.rule].on = FALSE]
  <2> DEFINE k == process.rule
             rule == [rules[k] EXCEPT !.on = FALSE]
  <2>1. k \in Nat /\ rules' = [rules EXCEPT ![k] = rule] /\ Len(rows') = Len(rows)
    BY <1>5 DEF ProcessOK
  <2>2. k \in 1..Len(rules) => rule \in Rules /\ rule.current \in 1..Len(rows)
    <3>1. k \in 1..Len(rules) => rules[k] \in Rules /\ rules[k].current \in 1..Len(rows)
      BY DEF ServerOK, CurrentsOK
    <3> HIDE DEF k
    <3> QED
      BY <3>1 DEF Rules
  <2> HIDE DEF rule, k
  <2> QED
    BY <1>1, <2>1, <2>2, OneRule
<1> QED
  BY <1>2, <1>3, <1>4, <1>5 DEF Change, serverVars

LEMMA OtherGrows ==
  ASSUME ServerOK, ServerOK', CurrentsOK, OtherClientWrites, Len(rows') >= Len(rows)
  PROVE  Grows
<1>1. CASE CloseRow(Named, "done")
  BY <1>1, CloseRowGrows
<1>2. CASE UNCHANGED rules
  BY <1>2, SameRules
<1>3. CASE /\ Current(Named)
           /\ rules' = Append([rules EXCEPT ![rows[Named].rule].on = FALSE],
                              [on |-> TRUE, current |-> Named])
  <2> DEFINE k == rows[Named].rule
             rule == [rules[k] EXCEPT !.on = FALSE]
             off == [rules EXCEPT ![k] = rule]
  <2>1. Named \in 1..Len(rows) /\ rules' = Append(off, [on |-> TRUE, current |-> Named])
    BY <1>3 DEF Named, ServerOK
  <2>2. k \in 1..Len(rules)
    BY <1>3, <2>1 DEF Current, ServerOK
  <2>3. rule \in Rules /\ rule.current \in 1..Len(rows)
    <3>1. rules[k] \in Rules /\ rules[k].current \in 1..Len(rows)
      BY <2>2 DEF ServerOK, CurrentsOK
    <3> HIDE DEF k
    <3> QED
      BY <3>1 DEF Rules
  <2>4. /\ off \in Seq(Rules) /\ Len(off) = Len(rules)
        /\ \A j \in 1..Len(rules) : off[j] = IF j = k THEN rule ELSE rules[j]
    <3> HIDE DEF rule, k
    <3> QED
      BY <2>2, <2>3, AssignSeq DEF ServerOK
  <2>5. \A j \in 1..Len(off) : off[j].current \in 1..Len(rows)
    <3> HIDE DEF rule, k, off
    <3> QED
      BY <2>3, <2>4 DEF CurrentsOK
  <2> HIDE DEF off
  <2> QED
    BY <2>1, <2>4, <2>5, NewRule
<1> QED
  BY <1>1, <1>2, <1>3 DEF OtherClientWrites

-----------------------------------------------------------------------------
(* The steps.                                                              *)

\* A step that leaves the process alone.
LEMMA ServerStepHolds ==
  ASSUME CommandKinds, CommandInv', SuccessInv', Grows, UNCHANGED process
  PROVE  CommandKinds'
<1>1. process.rule \in Nat /\ process.made \in Nat
  BY DEF CommandKinds, CommandInv, ProcessOK
<1>2. process'.rule <= Len(rules') /\ process'.made <= Len(rows')
  BY <1>1 DEF CommandKinds, Grows
<1>3. MadeFirst(process.calls, process.made)'
  BY DEF CommandKinds, MadeFirst
<1> QED
  BY <1>2, <1>3 DEF CommandKinds, Grows

LEMMA PendingMade ==
  ASSUME CommandKinds, Calling
  PROVE  Pending = "configure" => process.made \in 1..Len(rows)
<1>1. /\ process.calls \in Seq(Steps) /\ process.calls # <<>>
      /\ process.made \in Nat /\ process.made <= Len(rows) /\ Len(rows) \in Nat
  BY DEF CommandKinds, CommandInv, ProcessOK, ServerOK, Calling
<1>2. 1 \in 1..Len(process.calls) /\ Pending = process.calls[1]
  BY <1>1 DEF Pending
<1>3. PICK left, made : left = process.calls /\ made = process.made
  OBVIOUS
<1>4. MadeFirst(left, made)
  BY <1>3 DEF CommandKinds
<1>5. left[1] = "configure" => made # 0 \/ 1 > 1
  BY <1>2, <1>3, <1>4 DEF MadeFirst
<1> QED
  BY <1>1, <1>2, <1>3, <1>5

LEMMA AnsweredHolds ==
  ASSUME CommandKinds, CommandInv', SuccessInv', Answered
  PROVE  CommandKinds'
<1>1. /\ ServerOK /\ ProcessOK /\ Calling /\ Change(Pending)
      /\ CommandInv /\ SuccessInv /\ OneSeries /\ CurrentsOK
  BY DEF CommandKinds, CommandInv, SuccessInv, Answered
<1>2. Grows
  BY <1>1, PendingMade, ChangeGrows
<1>3. Continued
  BY <1>1, AnsweredAnswers
<1>4. Pending = "create" => Len(rows') = Len(rows) + 1
  BY <1>1, ChangeDoes DEF Does
<1>5. /\ process.rule \in Nat /\ process.made \in Nat
      /\ process.rule <= Len(rules) /\ process.made <= Len(rows)
  BY DEF CommandKinds, CommandInv, ProcessOK
<1>6. rows[Named].rule \in 0..Len(rules)
  BY <1>1 DEF ServerOK, Named
<1>7. process'.rule <= Len(rules')
  BY <1>2, <1>3, <1>5, <1>6 DEF Continued, Grows
<1>8. process'.made <= Len(rows')
  BY <1>2, <1>3, <1>4, <1>5 DEF Continued, Grows
<1>9. MadeFirst(process.calls, process.made)'
  <2>1. PICK left, next : left = process.calls /\ next = Tail(process.calls)
    OBVIOUS
  <2>2. left \in Seq(Steps) /\ left # <<>> /\ next = Tail(left) /\ Pending = left[1]
    BY <1>1, <2>1 DEF ProcessOK, Calling, Pending
  <2>3. /\ Len(left) \in Nat /\ Len(left) > 0 /\ Len(next) = Len(left) - 1
        /\ \A i \in 1..Len(next) : next[i] = left[i + 1]
    BY <2>2
  <2>4. ASSUME NEW i \in 1..Len(next), next[i] = "configure", process'.made = 0
        PROVE  i > 1 /\ next[i - 1] = "create"
    <3>1. Pending # "create" /\ process.made = 0
      BY <1>1, <1>3, <2>4 DEF Continued, ServerOK
    <3>2. i + 1 \in 1..Len(left) /\ left[i + 1] = "configure" /\ (i + 1) - 1 = i
      BY <2>3, <2>4
    <3>3. left[i] = "create"
      BY <2>1, <3>1, <3>2 DEF CommandKinds, MadeFirst
    <3>4. i > 1
      BY <2>2, <2>4, <3>1, <3>3
    <3>5. i - 1 \in 1..Len(next) /\ (i - 1) + 1 = i
      BY <2>3, <3>4
    <3> QED
      BY <2>3, <3>3, <3>4, <3>5
  <2>5. process'.calls = next
    BY <1>3, <2>1 DEF Continued
  <2> QED
    BY <2>4, <2>5 DEF MadeFirst
<1> QED
  BY <1>2, <1>7, <1>8, <1>9 DEF CommandKinds, Grows

LEMMA ExitHolds ==
  ASSUME CommandKinds, CommandInv', SuccessInv', Exit("1"), Grows
  PROVE  CommandKinds'
<1>1. /\ process'.calls = <<>> /\ process'.rule = process.rule
      /\ process'.made = process.made
      /\ process.rule \in Nat /\ process.made \in Nat
  BY DEF CommandKinds, CommandInv, ProcessOK, Exit
<1>2. process'.rule <= Len(rules') /\ process'.made <= Len(rows')
  BY <1>1 DEF CommandKinds, Grows
<1>3. MadeFirst(process.calls, process.made)'
  BY <1>1 DEF MadeFirst
<1> QED
  BY <1>2, <1>3 DEF CommandKinds, Grows

LEMMA MainHolds ==
  ASSUME CommandKinds, CommandInv', SuccessInv', Main
  PROVE  CommandKinds'
<1>1. PICK calls, comments, others :
        calls = Calls(command) /\ comments = rows[Named].comments /\ others = tally.others
  OBVIOUS
<1>2. process' = [Idle EXCEPT !.calls = calls, !.comments = comments, !.others = others]
      /\ UNCHANGED <<rows, rules>>
  BY <1>1 DEF Main, serverVars
<1>3. process'.calls = calls /\ process'.rule = 0 /\ process'.made = 0
  BY <1>2 DEF Idle
<1>4. Grows
  BY <1>2, SameRules DEF CommandKinds, CommandInv, ServerOK
<1>5. process'.rule <= Len(rules') /\ process'.made <= Len(rows')
  BY <1>3, <1>4 DEF Grows
<1>6. MadeFirst(calls, 0)
  BY <1>1, CallsMakeFirst DEF CommandKinds, CommandInv
<1>7. MadeFirst(process.calls, process.made)'
  BY <1>3, <1>6 DEF MadeFirst
<1> QED
  BY <1>4, <1>5, <1>7 DEF CommandKinds, Grows

LEMMA LostHolds ==
  ASSUME CommandKinds, CommandInv', SuccessInv', Lost
  PROVE  CommandKinds'
<1>1. Exit("1") /\ Calling /\ (Change(Pending) \/ UNCHANGED serverVars)
  BY DEF Lost
<1>2. ServerOK /\ ServerOK' /\ ProcessOK /\ CurrentsOK
  BY DEF CommandKinds, CommandInv
<1>3. Grows
  <2>1. CASE Change(Pending)
    BY <1>1, <1>2, <2>1, PendingMade, ChangeGrows
  <2>2. CASE UNCHANGED serverVars
    BY <1>2, <2>2, SameRules DEF serverVars, ServerOK
  <2> QED
    BY <1>1, <2>1, <2>2
<1> QED
  BY <1>1, <1>3, ExitHolds

LEMMA RefusedHolds ==
  ASSUME CommandKinds, CommandInv', SuccessInv', Refused
  PROVE  CommandKinds'
<1>1. Exit("1") /\ UNCHANGED <<rows, rules>>
  BY DEF Refused, serverVars
<1>2. Grows
  BY <1>1, SameRules DEF CommandKinds, CommandInv, ServerOK
<1> QED
  BY <1>1, <1>2, ExitHolds

LEMMA OthersHold ==
  ASSUME CommandKinds, CommandInv', SuccessInv',
         CmdLogin \/ CmdLogout \/ OtherClientWrites \/ UNCHANGED cliVars
  PROVE  CommandKinds'
<1>1. ServerOK /\ ServerOK' /\ CurrentsOK /\ UNCHANGED process
  BY DEF CommandKinds, CommandInv, CmdLogin, CmdLogout, OtherClientWrites, cliVars
<1>2. Grows
  <2>1. CASE OtherClientWrites
    <3>1. Len(rows') >= Len(rows)
      BY <2>1, OtherIsOnward DEF CommandKinds, Onward
    <3> QED
      BY <1>1, <2>1, <3>1, OtherGrows
  <2>2. CASE UNCHANGED <<rows, rules>>
    BY <1>1, <2>2, SameRules DEF ServerOK
  <2> QED
    BY <2>1, <2>2 DEF CmdLogin, CmdLogout, serverVars, cliVars
<1> QED
  BY <1>1, <1>2, ServerStepHolds

LEMMA CommandKindsInit == ASSUME CommandLineInit PROVE CommandKinds
<1>1. CommandInv /\ SuccessInv
  BY CommandInvInit, SuccessInvInit
<1>2. CurrentsOK
  BY DEF CommandLineInit, CurrentsOK, Named
<1>3. process.calls = <<>> /\ process.rule = 0 /\ process.made = 0
  BY DEF CommandLineInit, Idle
<1>4. Len(rows) \in Nat /\ Len(rules) \in Nat
  BY <1>1 DEF CommandInv, ServerOK
<1> QED
  BY <1>1, <1>2, <1>3, <1>4 DEF CommandKinds, MadeFirst

LEMMA CommandKindsInductive ==
  ASSUME CommandKinds, [CommandLineNext]_cliVars
  PROVE  CommandKinds'
<1>1. CommandInv' /\ SuccessInv'
  BY CommandInvsKeep DEF CommandKinds
<1> QED
  BY <1>1, MainHolds, AnsweredHolds, RefusedHolds, LostHolds, OthersHold DEF CommandLineNext

LEMMA CommandKindsTypes == CommandKinds => CommandLineTypeOK
<1> SUFFICES ASSUME CommandKinds PROVE CommandLineTypeOK
  OBVIOUS
<1>1. ServerOK /\ ProcessOK
  BY DEF CommandKinds, CommandInv
<1>2. DOMAIN rows = 1..Len(rows) /\ DOMAIN rules = 1..Len(rules)
      /\ Len(rows) \in Nat /\ Len(rules) \in Nat
  BY <1>1 DEF ServerOK
<1>3. process.rule \in 0..Len(rules) /\ process.made \in 0..Len(rows)
  BY <1>1, <1>2 DEF ProcessOK, CommandKinds
<1>4. process.code \in {"none", "0", "1", "3"} /\ (Calling => process.code = "none")
  BY <1>1 DEF ProcessOK, CommandKinds, SuccessInv
<1> QED
  BY <1>1, <1>2, <1>3, <1>4 DEF ServerOK, CommandKinds, CurrentsOK, CommandLineTypeOK

\* What a command refers to is there: a task's marker names a series, a series
\* a task, and the process only rows and series that the server has; however
\* often it is run (bin.ts:413-592).
THEOREM CommandTypesHold == CommandLineSpec => []CommandLineTypeOK
<1>1. CommandLineSpec => []CommandKinds
  BY CommandKindsInit, CommandKindsInductive, PTL DEF CommandLineSpec
<1> QED
  BY <1>1, CommandKindsTypes, PTL

-----------------------------------------------------------------------------
(* The clients together.                                                   *)

\* Each part of a behaviour of the clients is a behaviour of that part.
THEOREM WebIsAll == WebSpec => CacheSpec /\ DrawerSpec /\ CommandLineSpec
<1>1. WebInit => CacheInit /\ DrawerInit /\ CommandLineInit
  BY DEF WebInit
<1>2. [WebNext]_webVars => /\ [CacheNext]_cacheVars /\ [DrawerNext]_drawerVars
                           /\ [CommandLineNext]_cliVars
  BY DEF WebNext, webVars, cacheVars, drawerVars, cliVars
<1> QED
  BY <1>1, <1>2, PTL DEF WebSpec, CacheSpec, DrawerSpec, CommandLineSpec

\* Every part of the clients keeps its shape.
THEOREM WebTypesHold == WebSpec => []WebTypeOK
BY WebIsAll, CacheTypesHold, DrawerTypesHold, CommandTypesHold, PTL DEF WebTypeOK

=============================================================================
