------------------------------ MODULE KeySequence ------------------------------
(***************************************************************************)
(* KEY-SEQ numbers (BOT-44): projects.next_seq, the BEFORE INSERT trigger  *)
(* of migration 0026 that draws from it, and everything that puts an       *)
(* entity into a project: creation, the materializer's transaction, the    *)
(* import of a dump, and moving an entity from one project to another.     *)
(*                                                                         *)
(* A statement that numbers an entity runs inside a database transaction.  *)
(* The trigger's UPDATE takes the project's row lock, which the            *)
(* transaction holds until it commits; until then its counter values and   *)
(* its rows are visible to nobody else.                                    *)
(***************************************************************************)
EXTENDS Integers

CONSTANTS
  Projects,
  Entities,   \* entity ids; a new entity's id is fresh, an import brings its own
  Procs,      \* database connections
  None,       \* SQL NULL, an absent row, a counter not held
  MaxSeq      \* bound: the counters stop here

ASSUME SeqAssumption ==
  /\ MaxSeq \in Nat \ {0}
  /\ None \notin Int /\ None \notin Projects

VARIABLES
  nextSeq,  \* Projects -> projects.next_seq as committed
  rows,     \* Entities -> committed row of `entities'
  tx,       \* Procs -> the open transaction of each connection
  issued    \* history: <<project, number, entity>> of each number drawn from a
            \* counter and committed

vars == <<nextSeq, rows, tx, issued>>

Numbers == 1 .. MaxSeq

\* An entity with a number.  (Comments, and entities inserted outside every
\* project, have none; the trigger and the index pass them by.)
\* `home' is the project whose trigger saw the number, `auto' whether the
\* trigger drew it: neither is a column, both are fixed when the row is inserted.
Row == [project: Projects \cup {None}, seq: Numbers,
        home: Projects, auto: BOOLEAN]

\* next[p] is the uncommitted counter of a project whose row lock is held.
Transaction == [next: [Projects -> (1 .. MaxSeq + 1) \cup {None}],
                added: [Entities -> Row \cup {None}]]

Empty == [next |-> [p \in Projects |-> None], added |-> [e \in Entities |-> None]]

Init ==
  /\ nextSeq = [p \in Projects |-> 1]
  /\ rows = [e \in Entities |-> None]
  /\ tx = [c \in Procs |-> Empty]
  /\ issued = {}

-----------------------------------------------------------------------------

\* Fault: nobody waits, as with a counter read outside the lock.
NoLock(c, p) == TRUE

\* The UPDATE of projects waits while another transaction has done one.
LockFree(c, p) == \A d \in Procs \ {c} : tx[d].next[p] = None

\* projects.next_seq as connection c reads it under the lock.
Counter(c, p) == IF tx[c].next[p] = None THEN nextSeq[p] ELSE tx[c].next[p]

\* Fault: an explicit number leaves the counter alone.
KeptBehind(next, n) == next

\* GREATEST(next_seq, NEW.sequence_id + 1)
Past(next, n) == IF n < next THEN next ELSE n + 1

Has(row, p, n) == row # None /\ row.project = p /\ row.seq = n

\* Fault: no unique index.
NeverTaken(c, p, n) == FALSE

\* entities_project_seq_unique, as connection c meets it.
Taken(c, p, n) ==
  \E e \in Entities : Has(rows[e], p, n) \/ Has(tx[c].added[e], p, n)

Absent(e) == rows[e] = None /\ \A c \in Procs : tx[c].added[e] = None

Fresh(e) == Absent(e) /\ \A i \in issued : i[3] # e

\* Connection c leaves the counter of p at `next' and adds row e, or no row.
Numbered(c, p, next, e, row) ==
  tx' = [tx EXCEPT ![c] = [next |-> [@.next EXCEPT ![p] = next],
                           added |-> [@.added EXCEPT ![e] = row]]]

-----------------------------------------------------------------------------
(* Inserting rows.                                                         *)

\* An INSERT that leaves sequence_id to the trigger: write() on its own, or
\* one occurrence of the many in a materializer transaction.
InsertNumbered(c, e, p) ==
  LET n == Counter(c, p)
  IN  /\ Fresh(e) /\ LockFree(c, p) /\ n <= MaxSeq
      /\ ~Taken(c, p, n)
      /\ Numbered(c, p, n + 1, e,
                  [project |-> p, seq |-> n, home |-> p, auto |-> TRUE])
      /\ UNCHANGED <<nextSeq, rows, issued>>

\* The number is taken.  write() fails, and its transaction with it ...
InsertRefused(c, e, p) ==
  LET n == Counter(c, p)
  IN  /\ Fresh(e) /\ LockFree(c, p) /\ n <= MaxSeq
      /\ Taken(c, p, n)
      /\ tx' = [tx EXCEPT ![c] = Empty]
      /\ UNCHANGED <<nextSeq, rows, issued>>

\* ... but ON CONFLICT DO NOTHING (insertNextOccurrence), which also finds the
\* idempotency key of the occurrence taken, keeps what the trigger has done.
InsertIgnored(c, e, p) ==
  LET n == Counter(c, p)
  IN  /\ Fresh(e) /\ LockFree(c, p) /\ n <= MaxSeq
      /\ Numbered(c, p, n + 1, e, None)
      /\ UNCHANGED <<nextSeq, rows, issued>>

\* Importer.entities(): the row brings its number, and is left out when the
\* number is taken.
Import(c, e, p, n) ==
  /\ Absent(e) /\ LockFree(c, p)
  /\ Numbered(c, p, Past(Counter(c, p), n), e,
              IF Taken(c, p, n) THEN None
              ELSE [project |-> p, seq |-> n, home |-> p, auto |-> FALSE])
  /\ UNCHANGED <<nextSeq, rows, issued>>

Commit(c) ==
  /\ tx[c] # Empty
  /\ nextSeq' = [p \in Projects |-> Counter(c, p)]
  /\ rows' = [e \in Entities |-> IF tx[c].added[e] # None THEN tx[c].added[e] ELSE rows[e]]
  /\ issued' = issued \cup
       {<<tx[c].added[e].home, tx[c].added[e].seq, e>> :
          e \in {f \in Entities : tx[c].added[f] # None /\ tx[c].added[f].auto}}
  /\ tx' = [tx EXCEPT ![c] = Empty]

\* A later statement fails, the daemon dies, or two imports wait for each
\* other's projects and the database breaks the deadlock.
Rollback(c) ==
  /\ tx[c] # Empty
  /\ tx' = [tx EXCEPT ![c] = Empty]
  /\ UNCHANGED <<nextSeq, rows, issued>>

-----------------------------------------------------------------------------
(* The other statements that touch entities.project_id.                    *)

\* update() with a projectId: no trigger, so the number moves along and the
\* target's counter does not hear of it.  The index refuses a number that is
\* taken there, and waits for one that is not committed.
Move(e, p) ==
  /\ rows[e] # None /\ rows[e].project # p
  /\ p # None => \A f \in Entities :
                   /\ ~Has(rows[f], p, rows[e].seq)
                   /\ \A c \in Procs : ~Has(tx[c].added[f], p, rows[e].seq)
  /\ rows' = [rows EXCEPT ![e].project = p]
  /\ UNCHANGED <<nextSeq, tx, issued>>

\* purge()
Purge(e) ==
  /\ rows[e] # None
  /\ rows' = [rows EXCEPT ![e] = None]
  /\ UNCHANGED <<nextSeq, tx, issued>>

Next ==
  \/ \E c \in Procs, e \in Entities, p \in Projects :
       \/ InsertNumbered(c, e, p) \/ InsertRefused(c, e, p) \/ InsertIgnored(c, e, p)
       \/ \E n \in Numbers : Import(c, e, p, n)
  \/ \E c \in Procs : Commit(c) \/ Rollback(c)
  \/ \E e \in Entities : Purge(e) \/ \E p \in Projects \cup {None} : Move(e, p)

Spec == Init /\ [][Next]_vars

-----------------------------------------------------------------------------
(* Properties.                                                             *)

\* The shape of the rows and of the open transactions.
SeqTypeOK ==
  /\ nextSeq \in [Projects -> 1 .. MaxSeq + 1]
  /\ rows \in [Entities -> Row \cup {None}]
  /\ tx \in [Procs -> Transaction]
  /\ issued \subseteq Projects \X Numbers \X Entities

\* A KEY-SEQ names one entity, however inserts, imports and moves interleave
\* (getByKey returns the first row it finds, entities.ts:495-514).
KeyUnique ==
  \A e, f \in Entities : \A p \in Projects, n \in Numbers :
    Has(rows[e], p, n) /\ Has(rows[f], p, n) => e = f

\* A number a counter has given out is never given out again, not even after
\* its entity was purged or moved, or the drawing transaction overlapped others.
NeverReissued ==
  \A i, j \in issued : i[1] = j[1] /\ i[2] = j[2] => i = j

\* The counter of a project is ahead of every number that was inserted into
\* that project, by the trigger or by an import (0026_sequence_counter.sql:48-52).
CounterAhead ==
  \A e \in Entities :
    rows[e] # None => rows[e].seq < nextSeq[rows[e].home]

\* And of every number a row of the project carries, however it came there:
\* the next number the counter gives out would collide, and every insert into
\* the project fails for ever (0026_sequence_counter.sql:48-49).
CounterAheadOfAll ==
  \A e \in Entities :
    rows[e] # None /\ rows[e].project # None
      => rows[e].seq < nextSeq[rows[e].project]
=============================================================================
