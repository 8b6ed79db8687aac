------------------------------- MODULE Entities -------------------------------
(***************************************************************************)
(* Tasks, notes and comments (service/entities.ts), their revision history *)
(* (service/revisions.ts) and the parent links between them, under         *)
(* requests that overlap one another.                                      *)
(*                                                                         *)
(* write() and update() read first and write later, in statements of their *)
(* own; only the revision and the UPDATE share a transaction.  A process   *)
(* keeps in `req' what it has read.  The content columns are one column,   *)
(* `body', whose value is a set of texts: an edit replaces the set, or     *)
(* appends to it; the member BlankLine is what an append of the empty text *)
(* leaves at the end of a body.                                            *)
(***************************************************************************)
EXTENDS Integers, FiniteSets

CONSTANTS
  Ids,        \* entity ids, never used twice
  Procs,      \* requests that may be in flight at once
  None,       \* SQL NULL
  Keep,       \* a field left out of an update
  Statuses,   \* the statuses in use
  Texts,      \* what may be written into a body
  BlankLine,  \* the blank line between a body and what is appended to it
  Keys,       \* idempotency keys
  Writes,     \* the inputs of write() in use, a subset of Write
  Edits,      \* the inputs of update() in use, a subset of Edit
  Retention,  \* REVISION_RETENTION
  MaxEdits    \* bound: updates of one entity

Bodies == SUBSET (Texts \cup {BlankLine})

\* A new entity.
Write == [kind: {"task", "note", "comment"}, status: Statuses,
          parent: Ids \cup {None}, key: Keys \cup {None}]

\* An update, with Keep for what it leaves alone; stamp is completedAt.  The
\* mode "space" is a bodyAppend of the empty text.
Edit == [mode: {"keep", "set", "append", "space"}, text: Texts,
         status: Statuses \cup {Keep}, stamp: BOOLEAN \cup {Keep},
         parent: Ids \cup {None, Keep}]

ASSUME EntitiesAssumption ==
  /\ IsFiniteSet(Procs) /\ Retention \in Nat \ {0} /\ MaxEdits \in Nat
  /\ {"open", "done"} \subseteq Statuses /\ BlankLine \notin Texts
  /\ Writes \subseteq Write /\ Edits \subseteq Edit
  /\ None \notin Ids /\ None \notin Keys /\ None \notin Edit
  /\ Keep \notin Ids \cup {None} /\ Keep \notin Statuses /\ Keep \notin BOOLEAN

VARIABLES
  rows,    \* Ids -> row of `entities'; edits counts its updates (updatedAt)
  revs,    \* Ids -> function from revision numbers to snapshots
  edges,   \* the parent_of rows of `edges', <<parent, child>>
  req,     \* Procs -> the request each process is executing
  tainted  \* history: entities that an update with outdated reads was applied to

vars == <<rows, revs, edges, req, tainted>>

Row == [row: {"none", "live", "trashed", "purged"}, kind: {"task", "note", "comment"},
        body: Bodies, status: Statuses, stamp: BOOLEAN, parent: Ids \cup {None},
        key: Keys \cup {None}, edits: 0 .. MaxEdits]

Content(row) == [body |-> row.body, status |-> row.status]
Contents == [body: Bodies, status: Statuses]

NoRow == [row |-> "none", kind |-> "task", body |-> {}, status |-> "open",
          stamp |-> FALSE, parent |-> None, key |-> None, edits |-> 0]

\* row is what write() is going to insert; rev, snap and stamp are what update()
\* has made of its reads, stale whether they are outdated by now (history).
Request == [pc: {"idle", "insert", "record", "wait", "apply", "edge"},
            id: Ids \cup {None}, row: Row, ask: Edit \cup {None},
            snap: Contents \cup {None}, stamp: BOOLEAN \cup {Keep},
            rev: 0 .. MaxEdits, stale: BOOLEAN]

Idle == [pc |-> "idle", id |-> None, row |-> NoRow, ask |-> None, snap |-> None,
         stamp |-> Keep, rev |-> 0, stale |-> FALSE]

Init ==
  /\ rows = [e \in Ids |-> NoRow]
  /\ revs = [e \in Ids |-> <<>>]
  /\ edges = {}
  /\ req = [p \in Procs |-> Idle]
  /\ tainted = {}

Exists(e) == rows[e].row \in {"live", "trashed"}

Continue(p, request) == req' = [req EXCEPT ![p] = request]

\* The request ends, with an answer or with an error.
Finish(p) == Continue(p, Idle)

\* Process p goes on with `request' after it has changed the row of e: what
\* others have read of that row is outdated.
Touching(e, p, request) ==
  req' = [q \in Procs |->
            IF q = p THEN request
            ELSE IF \/ req[q].id = e
                    \/ req[q].ask # None /\ req[q].ask.parent = e
                 THEN [req[q] EXCEPT !.stale = req[q].pc # "idle"]
                 ELSE req[q]]

-----------------------------------------------------------------------------
(* write() and addComment().                                               *)

\* Whether a comment, or a task or note, may be put under parent.
MayHang(kind, parent) ==
  IF kind = "comment"
  THEN parent # None /\ rows[parent].row = "live" /\ rows[parent].kind # "comment"
  ELSE parent # None => Exists(parent)

KeyTaken(key) == key # None /\ \E e \in Ids : Exists(e) /\ rows[e].key = key

\* With a key that has a row already the request just returns that row.
BeginWrite(p, e, input) ==
  /\ req[p] = Idle
  /\ rows[e].row = "none" /\ \A q \in Procs : req[q].id # e
  /\ ~KeyTaken(input.key)
  /\ input.kind = "comment" => input.status = "open"
  /\ MayHang(input.kind, input.parent)
  /\ Continue(p, [Idle EXCEPT
       !.pc = "insert", !.id = e,
       !.row = [NoRow EXCEPT !.row = "live", !.kind = input.kind, !.status = input.status,
                             !.stamp = input.kind = "task" /\ input.status = "done",
                             !.parent = input.parent, !.key = input.key]])
  /\ UNCHANGED <<rows, revs, edges, tainted>>

\* Fault: entities_ws_idem_unique is dropped.
NoKeyIndex(row) == row.parent # None => Exists(row.parent)

\* The unique index on the key and the foreign key of the parent.
InsertAllowed(row) ==
  /\ ~KeyTaken(row.key)
  /\ row.parent # None => Exists(row.parent)

InsertEntity(p) ==
  LET q == req[p]
  IN  /\ q.pc = "insert"
      /\ IF InsertAllowed(q.row)
         THEN /\ rows' = [rows EXCEPT ![q.id] = q.row]
              /\ IF q.row.parent = None THEN Finish(p)
                 ELSE Continue(p, [q EXCEPT !.pc = "edge"])
         ELSE Finish(p) /\ UNCHANGED rows
      /\ UNCHANGED <<revs, edges, tainted>>

\* The parent_of edge, outside the transaction of the row it belongs to.
InsertEdge(p) ==
  LET q == req[p]
      parent == IF q.ask = None THEN q.row.parent ELSE q.ask.parent
  IN  /\ q.pc = "edge"
      /\ edges' = IF Exists(parent) /\ Exists(q.id) THEN edges \cup {<<parent, q.id>>}
                  ELSE edges
      /\ Finish(p)
      /\ UNCHANGED <<rows, revs, tainted>>

-----------------------------------------------------------------------------
(* update().                                                               *)

\* Fault: only the entity itself is refused as its parent.
ParentNotSelf(e, parent) == parent # e /\ Exists(parent)

\* assertParentAllowed
ParentAllowed(e, parent) ==
  parent # e /\ Exists(parent) /\ rows[parent].parent # e

\* contentChanges: whether an update of a row leaves a revision.  An append of
\* the empty text does not, whatever it does to the body.
ContentChanges(ask, row) ==
  \/ ask.mode = "set" /\ {ask.text} # row.body
  \/ ask.mode = "append"
  \/ ask.status \notin {Keep, row.status}

\* Fault: leaving done does not clear the stamp.
StampAlways(ask, row) ==
  IF ask.stamp # Keep THEN ask.stamp
  ELSE IF ask.status = "done" /\ row.status # "done" /\ row.kind = "task" THEN TRUE
  ELSE Keep

\* What the update writes into completedAt, given the row it has read.
StampFor(ask, row) ==
  IF ask.stamp # Keep THEN ask.stamp
  ELSE IF ask.status = "done" /\ row.status # "done" /\ row.kind = "task" THEN TRUE
  ELSE IF ask.status \notin {Keep, "done"} /\ row.status = "done" THEN FALSE
  ELSE Keep

\* Fault: the trash is not looked at.
EditableInTrash(e) == Exists(e) /\ rows[e].kind # "comment"

Editable(e) == rows[e].row = "live" /\ rows[e].kind # "comment"

\* Bound: updates of one entity, with those under way.
WithinBound(e) ==
  rows[e].edits + Cardinality({q \in Procs : req[q].id = e}) < MaxEdits

\* The reads: of the parent, then of the prior row.
BeginUpdate(p, e, ask) ==
  LET row == rows[e]
      after == IF ask.status = Keep THEN row.status ELSE ask.status
  IN  /\ req[p] = Idle
      /\ WithinBound(e)
      /\ Editable(e)
      /\ ask.parent \in Ids => ParentAllowed(e, ask.parent)
      /\ ask.stamp = TRUE => row.kind = "task" /\ after = "done"
      /\ Continue(p, [Idle EXCEPT !.pc = IF ContentChanges(ask, row) THEN "record" ELSE "apply",
                                  !.id = e, !.ask = ask, !.snap = Content(row),
                                  !.stamp = StampFor(ask, row)])
      /\ UNCHANGED <<rows, revs, edges, tainted>>

Last(revisions) ==
  IF DOMAIN revisions = {} THEN 0
  ELSE CHOOSE n \in DOMAIN revisions : \A m \in DOMAIN revisions : m <= n

\* Revision n of e is written by a transaction that is still open.
Held(e, n) == \E q \in Procs : req[q].pc = "apply" /\ req[q].id = e /\ req[q].rev = n

\* Fault: the snapshot is written before the transaction begins.
RecordOutside(p) ==
  LET q == req[p]
      n == Last(revs[q.id]) + 1
  IN  /\ q.pc = "record"
      /\ revs' = [revs EXCEPT ![q.id] = [m \in DOMAIN @ \cup {n} |-> IF m = n THEN q.snap ELSE @[m]]]
      /\ Continue(p, [q EXCEPT !.pc = "apply"])
      /\ UNCHANGED <<rows, edges, tainted>>

\* recordRevision: MAX(revision) + 1 of what is committed.  While another
\* transaction holds the same number the unique index makes this one wait.
RecordRevision(p) ==
  LET q == req[p]
      n == Last(revs[q.id]) + 1
  IN  /\ q.pc = "record"
      /\ IF Exists(q.id)
         THEN Continue(p, [q EXCEPT !.pc = IF Held(q.id, n) THEN "wait" ELSE "apply", !.rev = n])
         ELSE Finish(p)
      /\ UNCHANGED <<rows, revs, edges, tainted>>

\* The other one has committed, and the index refuses the number; or it has not.
Resume(p) ==
  LET q == req[p]
  IN  /\ q.pc = "wait" /\ ~Held(q.id, q.rev)
      /\ IF Exists(q.id) /\ q.rev \notin DOMAIN revs[q.id]
         THEN Continue(p, [q EXCEPT !.pc = "apply"])
         ELSE Finish(p)
      /\ UNCHANGED <<rows, revs, edges, tainted>>

\* A body is appended to by the statement itself, not by what was read.
NewBody(ask, row) ==
  CASE ask.mode = "set" -> {ask.text}
    [] ask.mode = "append" -> row.body \cup {ask.text}
    [] ask.mode = "space" /\ row.body # {} -> row.body \cup {BlankLine}
    [] OTHER -> row.body

\* Fault: a status that was left out is written all the same.
UpdatedBlindly(row, q) ==
  [row EXCEPT !.body = NewBody(q.ask, row), !.status = q.ask.status, !.edits = @ + 1]

Updated(row, q) ==
  LET ask == q.ask
  IN  [row EXCEPT !.body = NewBody(ask, row),
                  !.status = IF ask.status = Keep THEN @ ELSE ask.status,
                  !.stamp = IF q.stamp = Keep THEN @ ELSE q.stamp,
                  !.parent = IF ask.parent = Keep THEN @ ELSE ask.parent,
                  !.edits = @ + 1]

\* The history with revision n added and trimmed to Retention rows.
Trimmed(revisions, n, snap) ==
  [m \in {i \in DOMAIN revisions \cup {n} : i > n - Retention} |->
     IF m = n THEN snap ELSE revisions[m]]

\* The UPDATE, and the commit of what recordRevision has written.  A row or a
\* new parent that was purged fails it, and the revision goes with it.
ApplyUpdate(p) ==
  LET q == req[p]
      e == q.id
      linked == q.ask.parent \in Ids
      fails == ~Exists(e) \/ (linked /\ ~Exists(q.ask.parent))
  IN  /\ q.pc = "apply"
      /\ \/ fails /\ Finish(p) /\ UNCHANGED <<rows, revs, tainted>>
         \/ /\ ~fails
            /\ rows' = [rows EXCEPT ![e] = Updated(@, q)]
            /\ revs' = IF q.rev = 0 THEN revs
                       ELSE [revs EXCEPT ![e] = Trimmed(@, q.rev, q.snap)]
            /\ tainted' = IF q.stale THEN tainted \cup {e} ELSE tainted
            /\ Touching(e, p, IF linked THEN [q EXCEPT !.pc = "edge"] ELSE Idle)
      /\ UNCHANGED edges

-----------------------------------------------------------------------------
(* remove(), restore(), purge() and link().                                *)

Trash(e) ==
  /\ rows[e].row = "live"
  /\ rows' = [rows EXCEPT ![e].row = "trashed"]
  /\ Touching(e, None, Idle)
  /\ UNCHANGED <<revs, edges, tainted>>

Restore(e) ==
  /\ rows[e].row = "trashed"
  /\ rows' = [rows EXCEPT ![e].row = "live"]
  /\ Touching(e, None, Idle)
  /\ UNCHANGED <<revs, edges, tainted>>

\* The foreign keys take the history and the edges along and leave the
\* children without a parent.  An open revision of e holds the DELETE up.
Purge(e) ==
  /\ rows[e].row = "trashed"
  /\ \A q \in Procs : ~(req[q].pc = "apply" /\ req[q].id = e /\ req[q].rev # 0)
  /\ rows' = [f \in Ids |-> IF f = e THEN [NoRow EXCEPT !.row = "purged"]
                            ELSE IF rows[f].parent = e THEN [rows[f] EXCEPT !.parent = None]
                            ELSE rows[f]]
  /\ revs' = [revs EXCEPT ![e] = <<>>]
  /\ edges' = {l \in edges : e \notin {l[1], l[2]}}
  /\ Touching(e, None, Idle)
  /\ UNCHANGED tainted

\* The request dies, and its open transaction with it.
Crash(p) ==
  /\ req[p] # Idle
  /\ Finish(p)
  /\ UNCHANGED <<rows, revs, edges, tainted>>

Next ==
  \/ \E p \in Procs, e \in Ids :
       \/ \E input \in Writes : BeginWrite(p, e, input)
       \/ \E ask \in Edits : BeginUpdate(p, e, ask)
  \/ \E p \in Procs : \/ InsertEntity(p) \/ InsertEdge(p)
                      \/ RecordRevision(p) \/ Resume(p) \/ ApplyUpdate(p)
                      \/ Crash(p)
  \/ \E e \in Ids : Trash(e) \/ Restore(e) \/ Purge(e)

Spec == Init /\ [][Next]_vars

-----------------------------------------------------------------------------
(* Properties.                                                             *)

\* The shape of the rows, of the history and of what requests remember.
EntitiesTypeOK ==
  /\ rows \in [Ids -> Row]
  /\ DOMAIN revs = Ids
  /\ \A e \in Ids : DOMAIN revs[e] \subseteq 1 .. MaxEdits
                    /\ \A n \in DOMAIN revs[e] : revs[e][n] \in Contents
  /\ edges \subseteq Ids \X Ids
  /\ req \in [Procs -> Request]
  /\ tainted \subseteq Ids

\* The history of an entity is its latest revisions, without a gap, however
\* updates that number them overlap and fail (revisions.ts:25-29).
RevisionsContiguous ==
  \A e \in Ids :
    LET last == Last(revs[e])
    IN  DOMAIN revs[e] = {n \in 1 .. last : n > last - Retention}

\* What e loses, or gains, in a step.
SameEntity(e) == Exists(e) /\ Exists(e)'
Audited(row) == [Content(row) EXCEPT !.body = @ \ {BlankLine}]
ContentLost(e) == Audited(rows[e]) # Audited(rows[e])'
RevisionAdded(e) == Last(revs[e])' # Last(revs[e])
SnapshotAdded(e) == RevisionAdded(e) /\ revs'[e][Last(revs[e])'] = Content(rows[e])

\* Content that is replaced is kept as a revision, in the same step, and no
\* revision appears without an update, unless the update had outdated reads; and
\* the revisions that are kept stay the latest ones.  Only the blank line that
\* an append of the empty text leaves goes unrecorded (entities.ts:353, 371-374).
HistoryIsComplete ==
  [][/\ RevisionsContiguous'
     /\ \A e \in Ids : SameEntity(e) /\ e \notin tainted' =>
          /\ ContentLost(e) => SnapshotAdded(e)
          /\ RevisionAdded(e) => rows'[e].edits = rows[e].edits + 1]_vars

\* A new revision holds the values as they were before the update that added
\* it, also when updates overlap (migration 0031:1-2).
SnapshotIsBefore ==
  [][\A e \in Ids : SameEntity(e) /\ RevisionAdded(e) => SnapshotAdded(e)]_vars

\* completedAt is there only on a task that is done, through every path that
\* sets or clears either, unless an update with outdated reads wrote both.
StampMatchesDone ==
  \A e \in Ids : Exists(e) /\ rows[e].stamp /\ e \notin tainted =>
    rows[e].kind = "task" /\ rows[e].status = "done"

\* No entity is its parent's parent (entities.ts:93-97); two checks that
\* overlap may both pass, and then one of the updates had outdated reads.
NoParentLoop ==
  \A e, f \in Ids : Exists(e) /\ Exists(f) /\ rows[e].parent = f /\ rows[f].parent = e
    => e # f /\ {e, f} \cap tainted # {}

\* listChildren: by the column or by an edge, comments and the trash left out.
Children(p) == {e \in Ids : /\ rows[e].row = "live" /\ rows[e].kind # "comment"
                            /\ rows[e].parent = p \/ <<p, e>> \in edges}

\* No two entities are listed as each other's children: a parent link never
\* points back via the parent's own parent (entities.ts:93-97).
NoChildLoop == \A e, f \in Ids : ~(e \in Children(f) /\ f \in Children(e))

\* One row per idempotency key, also when a request is sent again while the
\* first one is still running.
OnePerKey ==
  \A e, f \in Ids : Exists(e) /\ Exists(f) /\ rows[e].key = rows[f].key /\ rows[e].key # None
    => e = f

\* A trashed entity keeps its content until it is restored, except for an
\* update that had read it before (entities.ts:31-34).
TrashedIsFrozen ==
  [][\A e \in Ids : rows[e].row = "trashed" /\ rows'[e].row = "trashed" /\ e \notin tainted'
       => rows'[e].edits = rows[e].edits]_vars

=============================================================================
