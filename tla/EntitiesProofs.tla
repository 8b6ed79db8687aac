--------------------------- MODULE EntitiesProofs ---------------------------
(***************************************************************************)
(* Proofs about Entities: for any number of entities and of requests that  *)
(* overlap, one row has an idempotency key, completedAt goes with done,    *)
(* two entities are not each other's parents, the trash is frozen and the  *)
(* history is complete, the last four but for updates that had outdated    *)
(* reads.                                                                  *)
(*                                                                         *)
(* What carries them from the reads of a request to its writes is that an  *)
(* update that is not stale still sees what it read (Fresh), and that the  *)
(* id of a row that is about to be inserted belongs to one request.  For   *)
(* the history it is that one transaction at a time holds a revision of an *)
(* entity, and that its number is the next one (Recorded).                 *)
(***************************************************************************)
EXTENDS Entities, FiniteSetTheorems, TLAPS

RowShape ==
  [row : {"none", "live", "trashed", "purged"}, kind : {"task", "note", "comment"},
   body : Bodies, status : Statuses, stamp : BOOLEAN, parent : Ids \cup {None},
   key : Keys \cup {None}, edits : Nat]

RequestShape ==
  [pc : {"idle", "insert", "record", "wait", "apply", "edge"},
   id : Ids \cup {None}, row : RowShape, ask : Edit \cup {None},
   snap : Contents \cup {None}, stamp : BOOLEAN \cup {Keep},
   rev : Nat, stale : BOOLEAN]

HasLast(revisions) ==
  /\ DOMAIN revisions \subseteq Nat
  /\ \/ DOMAIN revisions = {}
     \/ \E n \in DOMAIN revisions : \A m \in DOMAIN revisions : m <= n

Shape ==
  /\ rows \in [Ids -> RowShape]
  /\ req \in [Procs -> RequestShape]
  /\ DOMAIN revs = Ids /\ \A e \in Ids : HasLast(revs[e])

\* The foreign key of the parent, and that no row is its own.
ParentsExist ==
  \A e \in Ids : rows[e].parent \in Ids =>
    Exists(rows[e].parent) /\ rows[e].parent # e

RowsOK == ParentsExist /\ StampMatchesDone /\ NoParentLoop /\ OnePerKey

\* An update sees what it has read.
Fresh(r) ==
  LET row == rows[r.id]
  IN  /\ row.row = "live"
      /\ r.stamp = StampFor(r.ask, row)
      /\ r.ask.stamp = TRUE =>
           row.kind = "task" /\ (IF r.ask.status = Keep THEN row.status ELSE r.ask.status) = "done"
      /\ r.ask.parent \in Ids => ParentAllowed(r.id, r.ask.parent)

Updating(r) == r.pc \in {"record", "wait", "apply"}

RequestOK(r) ==
  /\ r.pc = "insert" =>
       /\ r.id \in Ids /\ rows[r.id].row = "none"
       /\ r.row.row = "live"
       /\ r.row.stamp => r.row.kind = "task" /\ r.row.status = "done"
  /\ Updating(r) =>
       /\ r.id \in Ids /\ r.ask \in Edit /\ r.ask.parent # r.id
       /\ ~ r.stale => Fresh(r)

\* Nobody else has the id that a request is about to insert.
OwnId == \A p, q \in Procs : p # q /\ req[p].pc = "insert" => req[q].id # req[p].id

EntityInv ==
  /\ Shape /\ RowsOK /\ OwnId
  /\ \A p \in Procs, r \in RequestShape : req[p] = r => RequestOK(r)

\* What a step may do to a row that an update has read.
SameRow(e) ==
  /\ rows'[e].row = rows[e].row /\ rows'[e].kind = rows[e].kind
  /\ rows'[e].status = rows[e].status
  /\ rows'[e].parent \in {rows[e].parent, None}

-----------------------------------------------------------------------------
(* Shapes.                                                                 *)

LEMMA NoRowShape == NoRow \in RowShape /\ [NoRow EXCEPT !.row = "purged"] \in RowShape
BY EntitiesAssumption DEF NoRow, RowShape, Bodies

LEMMA IdleShape == Idle \in RequestShape /\ Idle.pc = "idle" /\ Idle.id = None
BY NoRowShape DEF Idle, RequestShape

LEMMA IdleIsOK == RequestOK(Idle)
BY IdleShape DEF RequestOK, Updating

LEMMA LastIsNat ==
  ASSUME NEW revisions, HasLast(revisions)
  PROVE  Last(revisions) \in Nat
BY DEF HasLast, Last

LEMMA StampShape ==
  ASSUME NEW ask \in Edit, NEW row
  PROVE  StampFor(ask, row) \in BOOLEAN \cup {Keep}
BY DEF StampFor, Edit

LEMMA UpdatedShape ==
  ASSUME NEW row \in RowShape, NEW q \in RequestShape, q.ask \in Edit
  PROVE  /\ Updated(row, q) \in RowShape
         /\ Updated(row, q).row = row.row /\ Updated(row, q).kind = row.kind
         /\ Updated(row, q).key = row.key
         /\ Updated(row, q).status = IF q.ask.status = Keep THEN row.status ELSE q.ask.status
         /\ Updated(row, q).stamp = IF q.stamp = Keep THEN row.stamp ELSE q.stamp
         /\ Updated(row, q).parent = IF q.ask.parent = Keep THEN row.parent ELSE q.ask.parent
<1>1. NewBody(q.ask, row) \in Bodies
  BY DEF NewBody, Edit, Bodies, RowShape
<1>2. (IF q.ask.status = Keep THEN row.status ELSE q.ask.status) \in Statuses
  BY DEF Edit, RowShape
<1>3. (IF q.stamp = Keep THEN row.stamp ELSE q.stamp) \in BOOLEAN
  BY DEF RequestShape, RowShape
<1>4. (IF q.ask.parent = Keep THEN row.parent ELSE q.ask.parent) \in Ids \cup {None}
  BY DEF Edit, RowShape
<1>5. row.edits + 1 \in Nat
  BY DEF RowShape
<1> QED
  BY <1>1, <1>2, <1>3, <1>4, <1>5 DEF Updated, RowShape

-----------------------------------------------------------------------------
(* What is known of a request stays known.                                 *)

LEMMA FreshStays ==
  ASSUME Shape, NEW r \in RequestShape, r.id \in Ids, r.ask \in Edit, Fresh(r),
         SameRow(r.id), r.ask.parent \in Ids => SameRow(r.ask.parent)
  PROVE  Fresh(r)'
<1>1. StampFor(r.ask, rows[r.id])' = StampFor(r.ask, rows[r.id])
  BY DEF SameRow, StampFor
<1>2. r.ask.parent \in Ids => ParentAllowed(r.id, r.ask.parent)'
  BY EntitiesAssumption DEF Fresh, SameRow, ParentAllowed, Exists
<1> QED
  BY <1>1, <1>2 DEF Fresh, SameRow

LEMMA RequestStaysOK ==
  ASSUME Shape, NEW r \in RequestShape, RequestOK(r),
         r.pc = "insert" => rows'[r.id].row = rows[r.id].row,
         Updating(r) /\ ~ r.stale =>
           SameRow(r.id) /\ (r.ask.parent \in Ids => SameRow(r.ask.parent))
  PROVE  RequestOK(r)'
<1>1. CASE Updating(r)
  <2>1. ~ r.stale => Fresh(r)'
    BY <1>1, FreshStays DEF RequestOK
  <2> QED
    BY <1>1, <2>1 DEF RequestOK, Updating
<1>2. CASE ~ Updating(r)
  BY <1>2 DEF RequestOK, Updating
<1> QED
  BY <1>1, <1>2

\* A step that leaves the rows alone and takes one request on to n.
LEMMA OneRequestGoesOn ==
  ASSUME EntityInv, UNCHANGED <<rows, tainted>>, NEW p \in Procs, NEW n \in RequestShape,
         req' = [req EXCEPT ![p] = n], RequestOK(n),
         n.id \in {None, req[p].id} \/ \A q \in Procs : req[q].pc = "insert" => req[q].id # n.id,
         n.pc = "insert" => \A q \in Procs : q # p => req[q].id # n.id,
         DOMAIN revs' = Ids, \A e \in Ids : HasLast(revs'[e])
  PROVE  EntityInv'
<1>1. Shape'
  BY DEF EntityInv, Shape
<1>2. RowsOK'
  BY DEF EntityInv, RowsOK, ParentsExist, StampMatchesDone, NoParentLoop, OnePerKey, Exists
<1>3. /\ \A q \in Procs : q # p => req'[q] = req[q]
      /\ req'[p] = n
  BY DEF EntityInv, Shape
<1>4. \A q \in Procs : req[q].pc = "insert" => req[q].id \in Ids
  BY DEF EntityInv, Shape, RequestOK
<1>5. OwnId'
  BY <1>3, <1>4, EntitiesAssumption DEF EntityInv, OwnId
<1>6. ASSUME NEW q \in Procs, NEW r \in RequestShape, req'[q] = r
      PROVE  RequestOK(r)'
  <2>1. RequestOK(r)
    BY <1>3, <1>6 DEF EntityInv
  <2>2. /\ r.pc = "insert" => rows'[r.id].row = rows[r.id].row
        /\ SameRow(r.id) /\ (r.ask.parent \in Ids => SameRow(r.ask.parent))
    BY DEF SameRow
  <2> QED
    BY <2>1, <2>2, RequestStaysOK DEF EntityInv
<1> QED
  BY <1>1, <1>2, <1>5, <1>6 DEF EntityInv

LEMMA FinishKeeps ==
  ASSUME EntityInv, UNCHANGED <<rows, tainted>>, NEW p \in Procs, Finish(p), UNCHANGED revs
  PROVE  EntityInv'
BY IdleShape, IdleIsOK, OneRequestGoesOn DEF EntityInv, Shape, Finish, Continue

-----------------------------------------------------------------------------
(* Steps that leave the rows alone.                                        *)

LEMMA BeginWriteKeeps ==
  ASSUME EntityInv, NEW p \in Procs, NEW e \in Ids, NEW input \in Writes,
         BeginWrite(p, e, input)
  PROVE  EntityInv'
<1> DEFINE row == [NoRow EXCEPT !.row = "live", !.kind = input.kind, !.status = input.status,
                              !.stamp = input.kind = "task" /\ input.status = "done",
                              !.parent = input.parent, !.key = input.key]
           n == [Idle EXCEPT !.pc = "insert", !.id = e, !.row = row]
<1>1. input \in Write
  BY EntitiesAssumption
<1>2. (input.kind = "task" /\ input.status = "done") \in BOOLEAN
  OBVIOUS
<1>3. /\ row \in RowShape /\ row.row = "live"
      /\ row.kind = input.kind /\ row.status = input.status
      /\ row.stamp = (input.kind = "task" /\ input.status = "done")
  BY <1>1, <1>2, NoRowShape DEF Write, RowShape
<1> HIDE DEF row
<1>4. n \in RequestShape /\ n.pc = "insert" /\ n.id = e /\ n.row = row
  BY <1>3, IdleShape DEF RequestShape
<1>5. /\ rows[e].row = "none" /\ \A q \in Procs : req[q].id # e
      /\ UNCHANGED <<rows, revs, tainted>> /\ req' = [req EXCEPT ![p] = n]
  BY DEF BeginWrite, Continue, row
<1>6. RequestOK(n)
  BY <1>3, <1>4, <1>5 DEF RequestOK, Updating
<1> HIDE DEF n
<1> QED
  BY <1>4, <1>5, <1>6, OneRequestGoesOn DEF EntityInv, Shape

LEMMA BeginUpdateKeeps ==
  ASSUME EntityInv, NEW p \in Procs, NEW e \in Ids, NEW ask \in Edits, BeginUpdate(p, e, ask)
  PROVE  EntityInv'
<1> DEFINE row == rows[e]
           pc == IF ContentChanges(ask, row) THEN "record" ELSE "apply"
           n == [Idle EXCEPT !.pc = pc, !.id = e, !.ask = ask, !.snap = Content(row),
                             !.stamp = StampFor(ask, row)]
<1>1. ask \in Edit /\ row \in RowShape /\ pc \in {"record", "apply"}
  BY EntitiesAssumption DEF EntityInv, Shape
<1>2. Content(row) \in Contents
  BY <1>1 DEF Content, Contents, RowShape
<1>3. StampFor(ask, row) \in BOOLEAN \cup {Keep}
  BY <1>1, StampShape
<1>4. /\ req' = [req EXCEPT ![p] = n] /\ UNCHANGED <<rows, revs, tainted>>
      /\ Editable(e) /\ (ask.parent \in Ids => ParentAllowed(e, ask.parent))
      /\ ask.stamp = TRUE =>
           row.kind = "task" /\ (IF ask.status = Keep THEN row.status ELSE ask.status) = "done"
  BY DEF BeginUpdate, Continue
<1> HIDE DEF pc
<1>5. /\ n \in RequestShape /\ n.pc \in {"record", "apply"} /\ n.id = e /\ n.ask = ask
      /\ n.stamp = StampFor(ask, row)
  BY <1>1, <1>2, <1>3, IdleShape DEF RequestShape
<1>6. ask.parent # e
  BY <1>1, <1>4 DEF ParentAllowed
<1>7. row.row = "live"
  BY <1>4 DEF Editable
<1> HIDE DEF n
<1>8. RequestOK(n)
  BY <1>1, <1>4, <1>5, <1>6, <1>7 DEF RequestOK, Updating, Fresh
<1>9. \A q \in Procs : req[q].pc = "insert" => req[q].id # n.id
  BY <1>5, <1>7 DEF EntityInv, Shape, RequestOK
<1> QED
  BY <1>4, <1>5, <1>8, <1>9, OneRequestGoesOn DEF EntityInv, Shape

\* An update goes on with what it knows.
LEMMA UpdateGoesOn ==
  ASSUME EntityInv, UNCHANGED <<rows, revs, tainted>>, NEW p \in Procs, Updating(req[p]),
         NEW pc \in {"record", "wait", "apply"}, NEW rev \in Nat,
         req' = [req EXCEPT ![p] = [req[p] EXCEPT !.pc = pc, !.rev = rev]]
  PROVE  EntityInv'
<1>1. req[p] \in RequestShape /\ RequestOK(req[p])
  BY DEF EntityInv, Shape
<1>2. PICK n : n = [req[p] EXCEPT !.pc = pc, !.rev = rev]
  OBVIOUS
<1>3. /\ n \in RequestShape /\ n.pc = pc /\ n.id = req[p].id /\ n.ask = req[p].ask
      /\ n.stamp = req[p].stamp /\ n.stale = req[p].stale
  BY <1>1, <1>2 DEF RequestShape
<1>4. RequestOK(n)
  BY <1>1, <1>3 DEF RequestOK, Updating, Fresh
<1> QED
  BY <1>2, <1>3, <1>4, OneRequestGoesOn DEF EntityInv, Shape

LEMMA RevisionStepsKeep ==
  ASSUME EntityInv, NEW p \in Procs, RecordRevision(p) \/ Resume(p)
  PROVE  EntityInv'
<1> DEFINE q == req[p]
           last == Last(revs[q.id]) + 1
           pc == IF Held(q.id, last) THEN "wait" ELSE "apply"
<1>1. /\ Updating(q) /\ UNCHANGED <<rows, revs, tainted>>
      /\ q.pc \in {"record", "wait"}
  BY DEF RecordRevision, Resume, Updating
<1>2. q \in RequestShape /\ q.id \in Ids
  BY <1>1 DEF EntityInv, Shape, RequestOK
<1>3. last \in Nat
  BY <1>2, LastIsNat DEF EntityInv, Shape
<1>4. CASE Finish(p)
  BY <1>1, <1>4, FinishKeeps
<1>5. CASE Continue(p, [q EXCEPT !.pc = pc, !.rev = last])
  <2>1. pc \in {"record", "wait", "apply"}
    OBVIOUS
  <2>2. req' = [req EXCEPT ![p] = [req[p] EXCEPT !.pc = pc, !.rev = last]]
    BY <1>5 DEF Continue
  <2> HIDE DEF pc, last
  <2> QED
    BY <1>1, <1>3, <2>1, <2>2, UpdateGoesOn
<1>6. CASE Continue(p, [q EXCEPT !.pc = "apply"])
  <2>1. q.rev \in Nat /\ [q EXCEPT !.pc = "apply"] = [q EXCEPT !.pc = "apply", !.rev = q.rev]
    BY <1>2 DEF RequestShape
  <2>2. req' = [req EXCEPT ![p] = [req[p] EXCEPT !.pc = "apply", !.rev = q.rev]]
    BY <1>6, <2>1 DEF Continue
  <2> QED
    BY <1>1, <2>1, <2>2, UpdateGoesOn
<1> QED
  BY <1>4, <1>5, <1>6 DEF RecordRevision, Resume

-----------------------------------------------------------------------------
(* The INSERT.                                                             *)

LEMMA InsertEntityKeeps ==
  ASSUME EntityInv, NEW p \in Procs, InsertEntity(p)
  PROVE  EntityInv'
<1>1. CASE ~ InsertAllowed(req[p].row)
  BY <1>1, FinishKeeps DEF InsertEntity
<1>2. CASE InsertAllowed(req[p].row)
  <2>1. PICK q \in RequestShape : q = req[p]
    BY DEF EntityInv, Shape
  <2>2. /\ q.id \in Ids /\ rows[q.id].row = "none" /\ q.row.row = "live"
        /\ q.row.stamp => q.row.kind = "task" /\ q.row.status = "done"
        /\ q.pc = "insert" /\ q.row \in RowShape
    BY <2>1 DEF EntityInv, Shape, RequestOK, InsertEntity, RequestShape
  <2>3. /\ rows' = [rows EXCEPT ![q.id] = q.row]
        /\ UNCHANGED <<revs, edges, tainted>>
        /\ \/ req' = [req EXCEPT ![p] = Idle]
           \/ req' = [req EXCEPT ![p] = [q EXCEPT !.pc = "edge"]]
    BY <1>2, <2>1 DEF InsertEntity, Finish, Continue
  <2>4. PICK n \in RequestShape :
          /\ req' = [req EXCEPT ![p] = n]
          /\ n.pc \in {"idle", "edge"} /\ n.id \in {None, q.id}
    <3>1. [q EXCEPT !.pc = "edge"] \in RequestShape
      BY DEF RequestShape
    <3>2. [q EXCEPT !.pc = "edge"].pc = "edge" /\ [q EXCEPT !.pc = "edge"].id = q.id
      BY DEF RequestShape
    <3> QED
      BY <2>3, <3>1, <3>2, IdleShape
  <2>5. /\ rows \in [Ids -> RowShape] /\ req \in [Procs -> RequestShape]
        /\ rows'[q.id] = q.row /\ \A e \in Ids : e # q.id => rows'[e] = rows[e]
        /\ req'[p] = n /\ \A x \in Procs : x # p => req'[x] = req[x]
    BY <2>2, <2>3, <2>4 DEF EntityInv, Shape
  <2>6. Shape'
    BY <2>2, <2>3, <2>4, <2>5 DEF EntityInv, Shape
  <2>7. OwnId'
    BY <2>1, <2>2, <2>4, <2>5, EntitiesAssumption DEF EntityInv, OwnId, RequestOK
  <2>8. /\ q.row.parent # None => Exists(q.row.parent)
        /\ q.row.key # None => \A e \in Ids : Exists(e) => rows[e].key # q.row.key
    BY <1>2, <2>1 DEF InsertAllowed, KeyTaken
  <2>9. ParentsExist'
    BY <2>2, <2>5, <2>8, EntitiesAssumption DEF EntityInv, RowsOK, ParentsExist, Exists
  <2>10. StampMatchesDone'
    BY <2>2, <2>3, <2>5 DEF EntityInv, RowsOK, StampMatchesDone, Exists
  <2>11. NoParentLoop'
    <3> SUFFICES ASSUME NEW e \in Ids, NEW f \in Ids, rows'[e].parent = f, rows'[f].parent = e,
                        Exists(e)', Exists(f)'
                 PROVE  e # f /\ {e, f} \cap tainted # {}
      BY <2>3 DEF NoParentLoop
    <3>1. ~ Exists(q.id)
      BY <2>2 DEF Exists
    <3>2. \A x \in Ids : x # q.id => rows[x].parent # q.id
      BY <2>2, <3>1 DEF EntityInv, RowsOK, ParentsExist
    <3>3. q.row.parent # q.id
      BY <2>2, <2>8, <3>1, EntitiesAssumption
    <3>4. e # q.id /\ f # q.id
      BY <2>5, <3>2, <3>3
    <3> QED
      BY <2>5, <3>4 DEF EntityInv, RowsOK, NoParentLoop, Exists
  <2>12. OnePerKey'
    BY <2>2, <2>5, <2>8 DEF EntityInv, RowsOK, OnePerKey, Exists
  <2>13. ASSUME NEW x \in Procs, NEW r \in RequestShape, req'[x] = r
         PROVE  RequestOK(r)'
    <3>1. CASE x = p
      BY <3>1, <2>4, <2>5, <2>13 DEF RequestOK, Updating
    <3>2. CASE x # p
      <4>1. RequestOK(r) /\ r.id # q.id
        BY <3>2, <2>1, <2>2, <2>5, <2>13 DEF EntityInv, OwnId
      <4>2. r.pc = "insert" => rows'[r.id].row = rows[r.id].row
        BY <4>1, <2>5 DEF RequestOK
      <4>3. ASSUME Updating(r), ~ r.stale
            PROVE  SameRow(r.id) /\ (r.ask.parent \in Ids => SameRow(r.ask.parent))
        <5>1. r.id \in Ids /\ (r.ask.parent \in Ids => Exists(r.ask.parent))
          BY <4>1, <4>3 DEF RequestOK, Fresh, ParentAllowed
        <5>2. r.ask.parent \in Ids => r.ask.parent # q.id
          BY <5>1, <2>2 DEF Exists
        <5> QED
          BY <4>1, <5>1, <5>2, <2>5 DEF SameRow
      <4> QED
        BY <4>1, <4>2, <4>3, RequestStaysOK DEF EntityInv
    <3> QED
      BY <3>1, <3>2
  <2> QED
    BY <2>6, <2>7, <2>9, <2>10, <2>11, <2>12, <2>13 DEF EntityInv, RowsOK
<1> QED
  BY <1>1, <1>2

-----------------------------------------------------------------------------
(* Steps that touch a row.                                                 *)

\* What Touching does to the requests that are not the one it is about.
LEMMA TouchedRequests ==
  ASSUME Shape, NEW e \in Ids, NEW p, NEW n \in RequestShape, Touching(e, p, n)
  PROVE  /\ req' \in [Procs -> RequestShape]
         /\ \A q \in Procs : q = p => req'[q] = n
         /\ \A q \in Procs : q # p =>
              /\ req'[q].pc = req[q].pc /\ req'[q].id = req[q].id
              /\ req'[q].ask = req[q].ask /\ req'[q].row = req[q].row
              /\ req'[q].rev = req[q].rev /\ req'[q].snap = req[q].snap
              /\ Updating(req'[q]) /\ ~ req'[q].stale =>
                   /\ req'[q] = req[q] /\ req[q].id # e
                   /\ req[q].ask \in Edit => req[q].ask.parent # e
<1> DEFINE marked(q) == [req[q] EXCEPT !.stale = req[q].pc # "idle"]
           hit(q) == req[q].id = e \/ (req[q].ask # None /\ req[q].ask.parent = e)
<1>1. ASSUME NEW q \in Procs
      PROVE  /\ req[q] \in RequestShape /\ marked(q) \in RequestShape
             /\ marked(q).pc = req[q].pc /\ marked(q).id = req[q].id
             /\ marked(q).ask = req[q].ask /\ marked(q).row = req[q].row
             /\ marked(q).rev = req[q].rev /\ marked(q).snap = req[q].snap
             /\ Updating(marked(q)) => marked(q).stale
  <2>1. req[q] \in RequestShape
    BY DEF Shape
  <2>2. (req[q].pc # "idle") \in BOOLEAN
    OBVIOUS
  <2>3. /\ marked(q) \in RequestShape
        /\ marked(q).pc = req[q].pc /\ marked(q).id = req[q].id
        /\ marked(q).ask = req[q].ask /\ marked(q).row = req[q].row
        /\ marked(q).rev = req[q].rev /\ marked(q).snap = req[q].snap
        /\ marked(q).stale = (req[q].pc # "idle")
    BY <2>1, <2>2 DEF RequestShape
  <2> QED
    BY <2>1, <2>3 DEF Updating
<1>2. req' = [q \in Procs |-> IF q = p THEN n ELSE IF hit(q) THEN marked(q) ELSE req[q]]
  BY DEF Touching
<1> HIDE DEF marked
<1>3. req' \in [Procs -> RequestShape]
  <2>1. \A q \in Procs : (IF q = p THEN n ELSE IF hit(q) THEN marked(q) ELSE req[q])
                             \in RequestShape
    BY <1>1
  <2> QED
    BY <1>2, <2>1
<1>4. ASSUME NEW q \in Procs, q # p
      PROVE  /\ req'[q].pc = req[q].pc /\ req'[q].id = req[q].id
             /\ req'[q].ask = req[q].ask /\ req'[q].row = req[q].row
             /\ req'[q].rev = req[q].rev /\ req'[q].snap = req[q].snap
             /\ Updating(req'[q]) /\ ~ req'[q].stale =>
                  /\ req'[q] = req[q] /\ req[q].id # e
                  /\ req[q].ask \in Edit => req[q].ask.parent # e
  <2>1. CASE hit(q)
    BY <1>1, <1>2, <1>4, <2>1
  <2>2. CASE ~ hit(q)
    BY <1>1, <1>2, <1>4, <2>2, EntitiesAssumption
  <2> QED
    BY <2>1, <2>2
<1> QED
  BY <1>2, <1>3, <1>4

\* The rest of the invariant follows once the rows are right, whatever the
\* step did to e, as long as others lose at most their parent.
LEMMA TouchKeeps ==
  ASSUME EntityInv, NEW e \in Ids, rows[e].row # "none", NEW p, NEW n \in RequestShape,
         Touching(e, p, n),
         n.pc \in {"idle", "edge"},
         p \in Procs => n.id \in {None, req[p].id},
         \A f \in Ids : f # e => SameRow(f),
         rows' \in [Ids -> RowShape], RowsOK',
         DOMAIN revs' = Ids, \A f \in Ids : HasLast(revs'[f])
  PROVE  EntityInv'
<1>1. /\ req' \in [Procs -> RequestShape]
      /\ \A q \in Procs : q = p => req'[q] = n
      /\ \A q \in Procs : q # p =>
           /\ req'[q].pc = req[q].pc /\ req'[q].id = req[q].id
           /\ req'[q].ask = req[q].ask /\ req'[q].row = req[q].row
           /\ Updating(req'[q]) /\ ~ req'[q].stale =>
                /\ req'[q] = req[q] /\ req[q].id # e
                /\ req[q].ask \in Edit => req[q].ask.parent # e
  BY TouchedRequests DEF EntityInv
<1>2. Shape'
  BY <1>1 DEF Shape
<1>3. OwnId'
  <2> SUFFICES ASSUME NEW x \in Procs, NEW y \in Procs, x # y, req'[x].pc = "insert"
               PROVE  req'[y].id # req'[x].id
    BY DEF OwnId
  <2>1. x # p /\ req[x].pc = "insert" /\ req'[x].id = req[x].id
    BY <1>1
  <2>2. req[x].id \in Ids /\ req[y].id # req[x].id
    BY <2>1 DEF EntityInv, Shape, OwnId, RequestOK
  <2>3. CASE y = p
    BY <1>1, <2>1, <2>2, <2>3, EntitiesAssumption
  <2>4. CASE y # p
    BY <1>1, <2>1, <2>2, <2>4
  <2> QED
    BY <2>3, <2>4
<1>4. ASSUME NEW x \in Procs, NEW r \in RequestShape, req'[x] = r
      PROVE  RequestOK(r)'
  <2>1. CASE x = p
    BY <1>1, <1>4, <2>1 DEF RequestOK, Updating
  <2>2. CASE x # p
    <3>1. PICK o \in RequestShape : o = req[x]
      BY DEF EntityInv, Shape
    <3>2. /\ r.pc = o.pc /\ r.id = o.id /\ r.ask = o.ask /\ r.row = o.row
          /\ RequestOK(o)
      BY <1>1, <1>4, <2>2, <3>1 DEF EntityInv
    <3>3. r.pc = "insert" =>
            /\ r.id \in Ids /\ rows'[r.id].row = "none" /\ r.row.row = "live"
            /\ r.row.stamp => r.row.kind = "task" /\ r.row.status = "done"
      BY <3>2 DEF RequestOK, SameRow
    <3>4. Updating(r) => r.id \in Ids /\ r.ask \in Edit /\ r.ask.parent # r.id
      BY <3>2 DEF RequestOK, Updating
    <3>5. ASSUME Updating(r), ~ r.stale
          PROVE  Fresh(r)'
      <4>1. /\ r = o /\ r.id # e /\ r.ask.parent # e
        BY <1>1, <1>4, <2>2, <3>1, <3>4, <3>5
      <4>2. Fresh(r)
        BY <3>2, <3>5, <4>1 DEF RequestOK
      <4> QED
        BY <3>4, <3>5, <4>1, <4>2, FreshStays DEF EntityInv
    <3> QED
      BY <3>3, <3>4, <3>5 DEF RequestOK, Updating
  <2> QED
    BY <2>1, <2>2
<1> QED
  BY <1>2, <1>3, <1>4 DEF EntityInv

LEMMA TrashRestoreKeep ==
  ASSUME EntityInv, NEW e \in Ids, Trash(e) \/ Restore(e)
  PROVE  EntityInv'
<1>1. PICK state \in {"live", "trashed"} : rows' = [rows EXCEPT ![e].row = state]
  BY DEF Trash, Restore
<1>2. /\ rows[e].row \in {"live", "trashed"} /\ Touching(e, None, Idle)
      /\ UNCHANGED <<revs, tainted>>
  BY DEF Trash, Restore
<1>3. rows[e] \in RowShape /\ rows \in [Ids -> RowShape]
  BY DEF EntityInv, Shape
<1>4. PICK row : row = [rows[e] EXCEPT !.row = state]
  OBVIOUS
<1>5. /\ row \in RowShape /\ row.row = state /\ row.kind = rows[e].kind
      /\ row.status = rows[e].status /\ row.stamp = rows[e].stamp
      /\ row.parent = rows[e].parent /\ row.key = rows[e].key
  BY <1>3, <1>4 DEF RowShape
<1>6. rows' = [rows EXCEPT ![e] = row]
  BY <1>1, <1>4
<1>7. /\ rows' \in [Ids -> RowShape] /\ rows'[e] = row
      /\ \A f \in Ids : f # e => rows'[f] = rows[f]
  BY <1>3, <1>5, <1>6
<1>8. \A f \in Ids : /\ Exists(f)' <=> Exists(f)
                     /\ rows'[f].parent = rows[f].parent /\ rows'[f].key = rows[f].key
                     /\ rows'[f].stamp = rows[f].stamp /\ rows'[f].kind = rows[f].kind
                     /\ rows'[f].status = rows[f].status
  BY <1>2, <1>5, <1>7 DEF Exists
<1>9. ParentsExist'
  BY <1>8 DEF EntityInv, RowsOK, ParentsExist
<1>10. StampMatchesDone' /\ NoParentLoop' /\ OnePerKey'
  BY <1>2, <1>8 DEF EntityInv, RowsOK, StampMatchesDone, NoParentLoop, OnePerKey
<1>11. \A f \in Ids : f # e => SameRow(f)
  BY <1>7 DEF SameRow
<1> QED
  BY <1>2, <1>7, <1>9, <1>10, <1>11, IdleShape, TouchKeeps DEF EntityInv, Shape, RowsOK

LEMMA PurgeKeeps ==
  ASSUME EntityInv, NEW e \in Ids, Purge(e)
  PROVE  EntityInv'
<1> DEFINE gone == [NoRow EXCEPT !.row = "purged"]
           orphan(f) == [rows[f] EXCEPT !.parent = None]
<1>1. /\ rows[e].row = "trashed" /\ Touching(e, None, Idle) /\ UNCHANGED tainted
      /\ rows' = [f \in Ids |-> IF f = e THEN gone
                                ELSE IF rows[f].parent = e THEN orphan(f) ELSE rows[f]]
      /\ revs' = [revs EXCEPT ![e] = <<>>]
  BY DEF Purge
<1>2. /\ gone \in RowShape /\ gone.row = "purged" /\ gone.parent = None /\ gone.key = None
      /\ gone.stamp = FALSE
  BY NoRowShape DEF NoRow
<1>3. ASSUME NEW f \in Ids
      PROVE  /\ rows[f] \in RowShape /\ orphan(f) \in RowShape
             /\ orphan(f).parent = None
             /\ orphan(f).row = rows[f].row /\ orphan(f).kind = rows[f].kind
             /\ orphan(f).status = rows[f].status /\ orphan(f).stamp = rows[f].stamp
             /\ orphan(f).key = rows[f].key
  <2>1. rows[f] \in RowShape
    BY DEF EntityInv, Shape
  <2> QED
    BY <2>1 DEF RowShape
<1> HIDE DEF gone, orphan
<1>4. rows' \in [Ids -> RowShape] /\ rows'[e] = gone
  BY <1>1, <1>2, <1>3
<1>5. \A f \in Ids : f # e =>
        /\ rows'[f].parent = IF rows[f].parent = e THEN None ELSE rows[f].parent
        /\ rows'[f].row = rows[f].row /\ rows'[f].kind = rows[f].kind
        /\ rows'[f].status = rows[f].status /\ rows'[f].stamp = rows[f].stamp
        /\ rows'[f].key = rows[f].key
  BY <1>1, <1>3
<1>6. ~ Exists(e)' /\ \A f \in Ids : f # e => (Exists(f)' <=> Exists(f))
  BY <1>2, <1>4, <1>5 DEF Exists
<1>7. ParentsExist'
  BY <1>2, <1>4, <1>5, <1>6, EntitiesAssumption DEF EntityInv, RowsOK, ParentsExist
<1>8. StampMatchesDone' /\ OnePerKey'
  BY <1>1, <1>5, <1>6 DEF EntityInv, RowsOK, StampMatchesDone, OnePerKey
<1>9. NoParentLoop'
  BY <1>1, <1>5, <1>6, EntitiesAssumption DEF EntityInv, RowsOK, NoParentLoop
<1>10. \A f \in Ids : f # e => SameRow(f)
  BY <1>5 DEF SameRow
<1>11. DOMAIN revs' = Ids /\ \A f \in Ids : HasLast(revs'[f])
  <2>1. HasLast(<<>>)
    BY DEF HasLast
  <2> QED
    BY <1>1, <2>1 DEF EntityInv, Shape
<1> QED
  BY <1>1, <1>4, <1>7, <1>8, <1>9, <1>10, <1>11, IdleShape, TouchKeeps
     DEF RowsOK

-----------------------------------------------------------------------------
(* The UPDATE.                                                             *)

LEMMA TrimmedHasLast ==
  ASSUME NEW revisions, HasLast(revisions), NEW n \in Nat, NEW snap
  PROVE  HasLast(Trimmed(revisions, n, snap))
<1> DEFINE d == {i \in DOMAIN revisions \cup {n} : i > n - Retention}
<1>1. DOMAIN Trimmed(revisions, n, snap) = d
  BY DEF Trimmed
<1>2. Retention \in Nat /\ Retention > 0
  BY EntitiesAssumption
<1>3. DOMAIN revisions \subseteq Nat
  BY DEF HasLast
<1>4. \E last \in d : \A m \in d : m <= last
  <2>1. CASE DOMAIN revisions = {}
    BY <1>2, <2>1
  <2>2. CASE \E last \in DOMAIN revisions : \A m \in DOMAIN revisions : m <= last
    <3>1. PICK last \in DOMAIN revisions : \A m \in DOMAIN revisions : m <= last
      BY <2>2
    <3>2. last \in Nat
      BY <1>3, <3>1
    <3>3. CASE last > n
      <4>1. last \in d
        BY <1>2, <3>1, <3>2, <3>3
      <4>2. \A m \in d : m <= last
        BY <1>2, <3>1, <3>2, <3>3
      <4> QED
        BY <4>1, <4>2
    <3>4. CASE ~ (last > n)
      <4>1. n \in d
        BY <1>2
      <4>2. \A m \in d : m <= n
        BY <1>3, <3>1, <3>2, <3>4
      <4> QED
        BY <4>1, <4>2
    <3> QED
      BY <3>3, <3>4
  <2> QED
    BY <2>1, <2>2 DEF HasLast
<1> QED
  BY <1>1, <1>3, <1>4 DEF HasLast

LEMMA StampGoesWithDone ==
  ASSUME NEW q \in RequestShape, q.ask \in Edit, NEW row \in RowShape,
         row.stamp => row.kind = "task" /\ row.status = "done",
         q.stamp = StampFor(q.ask, row),
         q.ask.stamp = TRUE =>
           row.kind = "task" /\ (IF q.ask.status = Keep THEN row.status ELSE q.ask.status) = "done",
         Updated(row, q).stamp
  PROVE  Updated(row, q).kind = "task" /\ Updated(row, q).status = "done"
<1> DEFINE n == Updated(row, q)
<1>1. /\ n.kind = row.kind
      /\ n.status = IF q.ask.status = Keep THEN row.status ELSE q.ask.status
      /\ n.stamp = IF q.stamp = Keep THEN row.stamp ELSE q.stamp
  BY UpdatedShape
<1>2. CASE q.ask.stamp # Keep
  <2>1. q.stamp = q.ask.stamp
    BY <1>2 DEF StampFor
  <2>2. q.ask.stamp = TRUE
    BY <1>1, <1>2, <2>1
  <2> QED
    BY <1>1, <2>2
<1>3. CASE q.ask.stamp = Keep /\ q.ask.status = "done" /\ row.status # "done" /\ row.kind = "task"
  BY <1>1, <1>3, EntitiesAssumption
<1>4. CASE q.ask.stamp = Keep /\ q.ask.status \notin {Keep, "done"} /\ row.status = "done"
  <2>1. q.stamp = FALSE
    BY <1>4 DEF StampFor
  <2> QED
    BY <1>1, <2>1, EntitiesAssumption
<1>5. CASE /\ q.ask.stamp = Keep
           /\ ~ (q.ask.status = "done" /\ row.status # "done" /\ row.kind = "task")
           /\ ~ (q.ask.status \notin {Keep, "done"} /\ row.status = "done")
  <2>1. q.stamp = Keep
    BY <1>5 DEF StampFor
  <2>2. row.stamp
    BY <1>1, <2>1
  <2> QED
    BY <1>1, <1>5, <2>2
<1> QED
  BY <1>2, <1>3, <1>4, <1>5

LEMMA ApplyUpdateKeeps ==
  ASSUME EntityInv, NEW p \in Procs, ApplyUpdate(p)
  PROVE  EntityInv'
<1>1. CASE Finish(p) /\ UNCHANGED <<rows, revs, tainted>>
  BY <1>1, FinishKeeps
<1>2. CASE ~ (Finish(p) /\ UNCHANGED <<rows, revs, tainted>>)
  <2>1. PICK q \in RequestShape :
           /\ q = req[p] /\ q.pc = "apply" /\ q.id \in Ids /\ q.ask \in Edit
           /\ q.ask.parent # q.id /\ (~ q.stale => Fresh(q))
    <3>1. PICK q \in RequestShape : q = req[p]
      BY DEF EntityInv, Shape
    <3> QED
      BY <3>1 DEF EntityInv, RequestOK, Updating, ApplyUpdate
  <2>2. PICK e \in Ids : e = q.id
    BY <2>1
  <2>3. /\ Exists(e) /\ (q.ask.parent \in Ids => Exists(q.ask.parent))
        /\ rows' = [rows EXCEPT ![e] = Updated(@, q)]
        /\ revs' = IF q.rev = 0 THEN revs ELSE [revs EXCEPT ![e] = Trimmed(@, q.rev, q.snap)]
        /\ tainted' = IF q.stale THEN tainted \cup {e} ELSE tainted
        /\ Touching(e, p, IF q.ask.parent \in Ids THEN [q EXCEPT !.pc = "edge"] ELSE Idle)
    BY <1>2, <2>1, <2>2 DEF ApplyUpdate
  <2>4. PICK row \in RowShape : row = Updated(rows[e], q)
    BY <2>1, UpdatedShape DEF EntityInv, Shape
  <2>5. rows[e] \in RowShape /\ rows \in [Ids -> RowShape]
    BY DEF EntityInv, Shape
  <2>6. /\ row.row = rows[e].row /\ row.kind = rows[e].kind /\ row.key = rows[e].key
        /\ row.parent = IF q.ask.parent = Keep THEN rows[e].parent ELSE q.ask.parent
    BY <2>1, <2>4, <2>5, UpdatedShape
  <2>7. /\ rows' \in [Ids -> RowShape] /\ rows'[e] = row
        /\ \A f \in Ids : f # e => rows'[f] = rows[f]
    BY <2>3, <2>4, <2>5
  <2>8. \A f \in Ids : (Exists(f)' <=> Exists(f)) /\ rows'[f].key = rows[f].key
    BY <2>6, <2>7 DEF Exists
  <2>9. ParentsExist'
    <3> SUFFICES ASSUME NEW f \in Ids, rows'[f].parent \in Ids
                 PROVE  Exists(rows'[f].parent) /\ rows'[f].parent # f
      BY <2>8 DEF ParentsExist
    <3>1. CASE f = e /\ q.ask.parent # Keep
      BY <2>1, <2>2, <2>3, <2>6, <2>7, <3>1
    <3>2. CASE f # e \/ q.ask.parent = Keep
      BY <2>6, <2>7, <3>2 DEF EntityInv, RowsOK, ParentsExist
    <3> QED
      BY <3>1, <3>2
  <2>10. StampMatchesDone'
    <3> SUFFICES ASSUME NEW f \in Ids, Exists(f)', rows'[f].stamp, f \notin tainted'
                 PROVE  rows'[f].kind = "task" /\ rows'[f].status = "done"
      BY DEF StampMatchesDone
    <3>1. Exists(f) /\ f \notin tainted
      BY <2>3, <2>8
    <3>2. rows[f].stamp => rows[f].kind = "task" /\ rows[f].status = "done"
      BY <3>1 DEF EntityInv, RowsOK, StampMatchesDone
    <3>3. CASE f # e
      BY <2>7, <3>2, <3>3
    <3>4. CASE f = e
      <4>1. Fresh(q)
        BY <2>1, <2>3, <3>4
      <4>2. /\ q.stamp = StampFor(q.ask, rows[e])
            /\ q.ask.stamp = TRUE =>
                 /\ rows[e].kind = "task"
                 /\ (IF q.ask.status = Keep THEN rows[e].status ELSE q.ask.status) = "done"
        BY <2>2, <4>1 DEF Fresh
      <4>3. Updated(rows[e], q).stamp
        BY <2>4, <2>7, <3>4
      <4>4. PICK was \in RowShape : was = rows[e]
        BY <2>5
      <4>5. was.stamp => was.kind = "task" /\ was.status = "done"
        BY <3>2, <3>4, <4>4
      <4>6. Updated(was, q).kind = "task" /\ Updated(was, q).status = "done"
        BY <2>1, <4>2, <4>3, <4>4, <4>5, StampGoesWithDone
      <4> QED
        BY <2>4, <2>7, <3>4, <4>4, <4>6
    <3> QED
      BY <3>3, <3>4
  <2>11. NoParentLoop'
    <3>1. ASSUME NEW f \in Ids, Exists(f), rows'[e].parent = f, rows'[f].parent = e
          PROVE  e # f /\ {e, f} \cap tainted' # {}
      <4>1. e # f
        BY <2>7, <2>9, <3>1 DEF ParentsExist
      <4>2. rows[f].parent = e
        BY <2>7, <3>1, <4>1
      <4>3. CASE q.ask.parent = Keep
        BY <2>3, <2>6, <2>7, <3>1, <4>1, <4>2, <4>3 DEF EntityInv, RowsOK, NoParentLoop
      <4>4. CASE q.ask.parent # Keep
        <5>1. q.ask.parent = f
          BY <2>6, <2>7, <3>1, <4>4
        <5>2. q.stale
          BY <2>1, <2>2, <4>2, <5>1 DEF Fresh, ParentAllowed
        <5> QED
          BY <2>3, <4>1, <5>2
      <4> QED
        BY <4>3, <4>4
    <3> SUFFICES ASSUME NEW f \in Ids, NEW g \in Ids, Exists(f)', Exists(g)',
                        rows'[f].parent = g, rows'[g].parent = f
                 PROVE  f # g /\ {f, g} \cap tainted' # {}
      BY DEF NoParentLoop
    <3>2. CASE f = e
      BY <2>8, <3>1, <3>2
    <3>3. CASE g = e
      BY <2>8, <3>1, <3>3
    <3>4. CASE f # e /\ g # e
      BY <2>3, <2>7, <2>8, <3>4 DEF EntityInv, RowsOK, NoParentLoop
    <3> QED
      BY <3>2, <3>3, <3>4
  <2>12. OnePerKey'
    BY <2>8 DEF EntityInv, RowsOK, OnePerKey
  <2>13. \A f \in Ids : f # e => SameRow(f)
    BY <2>7 DEF SameRow
  <2>14. DOMAIN revs' = Ids /\ \A f \in Ids : HasLast(revs'[f])
    <3>1. q.rev \in Nat /\ HasLast(revs[e])
      BY DEF EntityInv, Shape, RequestShape
    <3>2. HasLast(Trimmed(revs[e], q.rev, q.snap))
      BY <3>1, TrimmedHasLast
    <3> QED
      BY <2>3, <3>2 DEF EntityInv, Shape
  <2>15. PICK n \in RequestShape :
            /\ n = IF q.ask.parent \in Ids THEN [q EXCEPT !.pc = "edge"] ELSE Idle
            /\ n.pc \in {"idle", "edge"} /\ n.id \in {None, q.id}
    <3>1. /\ [q EXCEPT !.pc = "edge"] \in RequestShape
          /\ [q EXCEPT !.pc = "edge"].pc = "edge" /\ [q EXCEPT !.pc = "edge"].id = q.id
      BY DEF RequestShape
    <3> QED
      BY <3>1, IdleShape
  <2>16. Touching(e, p, n) /\ rows[e].row # "none" /\ (p \in Procs => n.id \in {None, req[p].id})
    BY <2>1, <2>3, <2>15 DEF Exists
  <2>17. RowsOK'
    BY <2>9, <2>10, <2>11, <2>12 DEF RowsOK
  <2> QED
    BY <2>7, <2>13, <2>14, <2>15, <2>16, <2>17, TouchKeeps
<1> QED
  BY <1>1, <1>2

-----------------------------------------------------------------------------
(* The theorems.                                                           *)

LEMMA EntityInvInit == Init => EntityInv
<1> SUFFICES ASSUME Init PROVE EntityInv
  OBVIOUS
<1>1. Shape
  <2>1. HasLast(<<>>)
    BY DEF HasLast
  <2> QED
    BY <2>1, NoRowShape, IdleShape DEF Init, Shape
<1>2. RowsOK
  BY EntitiesAssumption
     DEF Init, RowsOK, ParentsExist, StampMatchesDone, NoParentLoop, OnePerKey, Exists, NoRow
<1>3. OwnId
  BY IdleShape DEF Init, OwnId
<1>4. \A p \in Procs, r \in RequestShape : req[p] = r => RequestOK(r)
  BY IdleIsOK DEF Init
<1> QED
  BY <1>1, <1>2, <1>3, <1>4 DEF EntityInv

LEMMA EntityInvInductive ==
  ASSUME EntityInv, [Next]_vars
  PROVE  EntityInv'
<1>1. ASSUME NEW p \in Procs, NEW e \in Ids, NEW input \in Writes, BeginWrite(p, e, input)
      PROVE  EntityInv'
  BY <1>1, BeginWriteKeeps
<1>2. ASSUME NEW p \in Procs, NEW e \in Ids, NEW ask \in Edits, BeginUpdate(p, e, ask)
      PROVE  EntityInv'
  BY <1>2, BeginUpdateKeeps
<1>3. ASSUME NEW p \in Procs, InsertEntity(p)
      PROVE  EntityInv'
  BY <1>3, InsertEntityKeeps
<1>4. ASSUME NEW p \in Procs, RecordRevision(p) \/ Resume(p)
      PROVE  EntityInv'
  BY <1>4, RevisionStepsKeep
<1>5. ASSUME NEW p \in Procs, ApplyUpdate(p)
      PROVE  EntityInv'
  BY <1>5, ApplyUpdateKeeps
<1>6. ASSUME NEW p \in Procs, InsertEdge(p) \/ Crash(p)
      PROVE  EntityInv'
  BY <1>6, FinishKeeps DEF InsertEdge, Crash
<1>7. ASSUME NEW e \in Ids, Trash(e) \/ Restore(e)
      PROVE  EntityInv'
  BY <1>7, TrashRestoreKeep
<1>8. ASSUME NEW e \in Ids, Purge(e)
      PROVE  EntityInv'
  BY <1>8, PurgeKeeps
<1>9. CASE UNCHANGED vars
  <2>1. UNCHANGED <<rows, revs, req, tainted>>
    BY <1>9 DEF vars
  <2>2. Shape' /\ RowsOK' /\ OwnId'
    BY <2>1 DEF EntityInv, Shape, RowsOK, OwnId, ParentsExist, StampMatchesDone, NoParentLoop,
                OnePerKey, Exists
  <2>3. ASSUME NEW p \in Procs, NEW r \in RequestShape, req'[p] = r
        PROVE  RequestOK(r)'
    <3>1. RequestOK(r)
      BY <2>1, <2>3 DEF EntityInv
    <3> QED
      BY <2>1, <3>1, RequestStaysOK DEF EntityInv, SameRow
  <2> QED
    BY <2>2, <2>3 DEF EntityInv
<1> QED
  BY <1>1, <1>2, <1>3, <1>4, <1>5, <1>6, <1>7, <1>8, <1>9 DEF Next

LEMMA EntityInvAlways == Spec => []EntityInv
BY EntityInvInit, EntityInvInductive, PTL DEF Spec

\* One row per idempotency key, however the lookups and the inserts of
\* requests with the same key overlap, and through the trash (entities.ts,
\* write; the unique index of the migrations).
THEOREM KeysNameOneRow == Spec => []OnePerKey
<1>1. EntityInv => OnePerKey
  BY DEF EntityInv, RowsOK
<1> QED
  BY <1>1, EntityInvAlways, PTL

\* completedAt is there only on a task that is done, for every combination of
\* the fields an update may set, unless an update with outdated reads wrote
\* both (entities.ts, update).
THEOREM StampGoesWithStatus == Spec => []StampMatchesDone
<1>1. EntityInv => StampMatchesDone
  BY DEF EntityInv, RowsOK
<1> QED
  BY <1>1, EntityInvAlways, PTL

\* No two entities are each other's parents, and none is its own, unless the
\* checks of two updates overlapped (entities.ts, assertParentAllowed).
THEOREM ParentsDoNotLoop == Spec => []NoParentLoop
<1>1. EntityInv => NoParentLoop
  BY DEF EntityInv, RowsOK
<1> QED
  BY <1>1, EntityInvAlways, PTL

LEMMA TrashStep ==
  ASSUME EntityInv, [Next]_vars, NEW e \in Ids,
         rows[e].row = "trashed", rows'[e].row = "trashed", e \notin tainted'
  PROVE  rows'[e].edits = rows[e].edits
<1>1. CASE UNCHANGED rows
  BY <1>1
<1>2. ASSUME NEW p \in Procs, InsertEntity(p), ~ UNCHANGED rows
      PROVE  rows'[e].edits = rows[e].edits
  <2>1. PICK q \in RequestShape : q = req[p]
    BY DEF EntityInv, Shape
  <2>2. q.id \in Ids /\ rows[q.id].row = "none" /\ rows' = [rows EXCEPT ![q.id] = q.row]
    BY <1>2, <2>1 DEF EntityInv, RequestOK, InsertEntity
  <2> QED
    BY <2>2 DEF EntityInv, Shape
<1>3. ASSUME NEW p \in Procs, ApplyUpdate(p), ~ UNCHANGED rows
      PROVE  rows'[e].edits = rows[e].edits
  <2>1. PICK q \in RequestShape : q = req[p]
    BY DEF EntityInv, Shape
  <2>2. /\ q.id \in Ids /\ (~ q.stale => Fresh(q))
        /\ rows' = [rows EXCEPT ![q.id] = Updated(@, q)]
        /\ tainted' = IF q.stale THEN tainted \cup {q.id} ELSE tainted
    BY <1>3, <2>1 DEF EntityInv, RequestOK, Updating, ApplyUpdate
  <2>3. q.id # e
    BY <2>2 DEF Fresh
  <2> QED
    BY <2>2, <2>3 DEF EntityInv, Shape
<1>4. ASSUME NEW f \in Ids, Trash(f) \/ Restore(f)
      PROVE  rows'[e].edits = rows[e].edits
  <2>1. CASE f = e
    BY <1>4, <2>1 DEF Trash, Restore, EntityInv, Shape, RowShape
  <2>2. CASE f # e
    BY <1>4, <2>2 DEF Trash, Restore, EntityInv, Shape
  <2> QED
    BY <2>1, <2>2
<1>5. ASSUME NEW f \in Ids, Purge(f)
      PROVE  rows'[e].edits = rows[e].edits
  <2>1. f # e
    BY <1>5, NoRowShape DEF Purge, NoRow
  <2>2. rows[e] \in RowShape
    BY DEF EntityInv, Shape
  <2> QED
    BY <1>5, <2>1, <2>2 DEF Purge, RowShape
<1> QED
  BY <1>1, <1>2, <1>3, <1>4, <1>5
     DEF Next, vars, BeginWrite, BeginUpdate, InsertEdge, RecordRevision, Resume, Crash

\* A trashed entity keeps its content until it is restored, except for an
\* update that had read it before it went to the trash (entities.ts, update).
THEOREM TrashStaysFrozen == Spec => TrashedIsFrozen
<1>1. EntityInv /\ [Next]_vars =>
        [\A e \in Ids : rows[e].row = "trashed" /\ rows'[e].row = "trashed" /\ e \notin tainted'
           => rows'[e].edits = rows[e].edits]_vars
  BY TrashStep
<1> QED
  BY <1>1, EntityInvAlways, PTL DEF Spec, TrashedIsFrozen

-----------------------------------------------------------------------------
(* The history.                                                            *)

\* A transaction that has written a revision and not committed it.
Holds(r) == r.pc = "apply" /\ r.rev # 0

\* The numbers of a history that is complete up to last.
Latest(last) == {n \in 1 .. last : n > last - Retention}

Contiguous(e) == DOMAIN revs[e] = Latest(Last(revs[e]))

\* What an update has in hand: the content it replaces, unless its reads are
\* outdated, and the number that follows the history or one that is taken.
Recorded(r) ==
  /\ Updating(r) /\ ~ r.stale =>
       /\ r.snap = Content(rows[r.id])
       /\ r.pc = "apply" /\ r.rev = 0 => ~ ContentChanges(r.ask, rows[r.id])
  /\ Holds(r) => r.rev = Last(revs[r.id]) + 1
  /\ r.pc = "wait" /\ Exists(r.id) => r.rev \in 1 .. Last(revs[r.id]) + 1

OneAtATime ==
  \A p, q \in Procs : Holds(req[p]) /\ Holds(req[q]) /\ req[p].id = req[q].id => p = q

HistoryInv ==
  /\ \A e \in Ids : Contiguous(e)
  /\ OneAtATime
  /\ \A p \in Procs, r \in RequestShape : req[p] = r => Recorded(r)

\* No transaction waits at the unique index for so long that the number it
\* waits for is trimmed from the history: the one that holds the number wakes
\* it when it commits, and Retention (50) more updates of the same entity would
\* have to commit before it looks again.
WokenInTime ==
  \A p \in Procs : req[p].pc = "wait" /\ Exists(req[p].id) =>
    Last(revs[req[p].id]) < req[p].rev + Retention

LEMMA LastOfRange ==
  ASSUME NEW revisions, NEW n \in Nat, n > 0,
         DOMAIN revisions = Latest(n)
  PROVE  Last(revisions) = n
<1>1. /\ DOMAIN revisions \subseteq Nat /\ n \in DOMAIN revisions
      /\ \A m \in DOMAIN revisions : m <= n
  BY EntitiesAssumption DEF Latest
<1>2. DOMAIN revisions # {}
  BY <1>1
<1>3. \A i \in DOMAIN revisions : (\A m \in DOMAIN revisions : m <= i) => i = n
  BY <1>1
<1> QED
  BY <1>1, <1>2, <1>3 DEF Last

LEMMA LastOfNone == Last(<<>>) = 0
BY DEF Last

LEMMA TrimmedIsContiguous ==
  ASSUME NEW revisions, NEW last \in Nat, NEW n, n = last + 1, NEW snap,
         DOMAIN revisions = Latest(last),
         NEW after, after = Trimmed(revisions, n, snap)
  PROVE  /\ DOMAIN after = Latest(n)
         /\ Last(after) = n /\ after[n] = snap
<1>1. Retention \in Nat /\ Retention > 0 /\ n \in Nat /\ n > 0
  BY EntitiesAssumption
<1>2. DOMAIN after = {i \in DOMAIN revisions \cup {n} : i > n - Retention}
  BY DEF Trimmed
<1>3. DOMAIN after = Latest(n)
  <2>1. \A i : i \in DOMAIN after <=> i \in DOMAIN revisions \cup {n} /\ i > n - Retention
    BY <1>2
  <2>2. \A i : i \in DOMAIN revisions <=> i \in 1 .. last /\ i > last - Retention
    BY DEF Latest
  <2>3. \A i : i \in 1 .. n <=> i \in 1 .. last \/ i = n
    BY <1>1
  <2>4. \A i \in 1 .. n : i > n - Retention => i > last - Retention
    BY <1>1
  <2>5. \A i : i \in DOMAIN after <=> i \in 1 .. n /\ i > n - Retention
    BY <2>1, <2>2, <2>3, <2>4
  <2> QED
    BY <2>5 DEF Latest
<1>4. n \in DOMAIN after
  BY <1>1, <1>3 DEF Latest
<1>5. after[n] = snap
  BY <1>2, <1>4 DEF Trimmed
<1>6. Last(after) = n
  BY <1>1, <1>3, LastOfRange
<1> QED
  BY <1>3, <1>5, <1>6

LEMMA RecordedStays ==
  ASSUME NEW r, Recorded(r),
         Updating(r) => rows'[r.id] = rows[r.id] /\ revs'[r.id] = revs[r.id]
  PROVE  Recorded(r)'
BY DEF Recorded, Updating, Exists, Holds

\* A step that takes one request on to n, and leaves the rows that others have
\* read and the history alone.
LEMMA HistoryGoesOn ==
  ASSUME Shape, HistoryInv, UNCHANGED revs, NEW p \in Procs, NEW n \in RequestShape,
         req' = [req EXCEPT ![p] = n], Recorded(n)',
         Holds(n) => \A q \in Procs : q # p /\ Holds(req[q]) => req[q].id # n.id,
         \A q \in Procs : q # p /\ Updating(req[q]) => rows'[req[q].id] = rows[req[q].id]
  PROVE  HistoryInv'
<1>1. \A e \in Ids : Contiguous(e)'
  BY DEF HistoryInv, Contiguous
<1>2. /\ \A q \in Procs : q # p => req'[q] = req[q]
      /\ req'[p] = n
  BY DEF Shape
<1>3. OneAtATime'
  BY <1>2 DEF HistoryInv, OneAtATime
<1>4. ASSUME NEW q \in Procs, NEW r \in RequestShape, req'[q] = r
      PROVE  Recorded(r)'
  <2>1. CASE q = p
    BY <1>2, <1>4, <2>1
  <2>2. CASE q # p
    <3>1. Recorded(r) /\ (Updating(r) => rows'[r.id] = rows[r.id])
      BY <1>2, <1>4, <2>2 DEF HistoryInv
    <3> QED
      BY <3>1, RecordedStays
  <2> QED
    BY <2>1, <2>2
<1> QED
  BY <1>1, <1>3, <1>4 DEF HistoryInv

SameContent(e) == rows'[e].body = rows[e].body /\ rows'[e].status = rows[e].status

\* A step that writes the row of e, and its history if nobody else holds a
\* number of it.
LEMMA HistoryTouched ==
  ASSUME EntityInv, HistoryInv, NEW e \in Ids, NEW p, NEW n \in RequestShape,
         Touching(e, p, n), n.pc \in {"idle", "edge"},
         \A f \in Ids : f # e =>
           SameContent(f) /\ rows'[f].row = rows[f].row /\ revs'[f] = revs[f],
         Contiguous(e)',
         Last(revs'[e]) \in Nat,
         \A q \in Procs : q # p /\ Holds(req[q]) /\ req[q].id = e => revs'[e] = revs[e],
         Exists(e)' => Exists(e) /\ Last(revs'[e]) >= Last(revs[e])
  PROVE  HistoryInv'
<1>1. /\ req' \in [Procs -> RequestShape]
      /\ \A q \in Procs : q = p => req'[q] = n
      /\ \A q \in Procs : q # p =>
           /\ req'[q].pc = req[q].pc /\ req'[q].id = req[q].id
           /\ req'[q].ask = req[q].ask /\ req'[q].row = req[q].row
           /\ req'[q].rev = req[q].rev
           /\ Updating(req'[q]) /\ ~ req'[q].stale =>
                /\ req'[q] = req[q] /\ req[q].id # e
                /\ req[q].ask \in Edit => req[q].ask.parent # e
  BY TouchedRequests DEF EntityInv
<1>2. \A f \in Ids : Contiguous(f)'
  BY DEF HistoryInv, Contiguous
<1>3. ~ Holds(n) /\ ~ Updating(n)
  BY DEF Holds, Updating
<1>4. OneAtATime'
  BY <1>1, <1>3 DEF HistoryInv, OneAtATime, Holds
<1>5. ASSUME NEW x \in Procs, NEW r \in RequestShape, req'[x] = r
      PROVE  Recorded(r)'
  <2>1. CASE x = p
    BY <1>1, <1>3, <1>5, <2>1 DEF Recorded, Updating
  <2>2. CASE x # p
    <3>1. PICK o \in RequestShape : o = req[x]
      BY DEF EntityInv, Shape
    <3>2. /\ r.pc = o.pc /\ r.id = o.id /\ r.rev = o.rev
          /\ Recorded(o) /\ (Updating(o) => o.id \in Ids)
          /\ Updating(r) /\ ~ r.stale => r = o /\ r.id # e
      BY <1>1, <1>5, <2>2, <3>1 DEF HistoryInv, EntityInv, RequestOK
    <3>3. ASSUME Updating(r), ~ r.stale
          PROVE  /\ r.snap = Content(rows'[r.id])
                 /\ r.pc = "apply" /\ r.rev = 0 => ~ ContentChanges(r.ask, rows'[r.id])
      <4>1. r = o /\ SameContent(r.id)
        BY <3>2, <3>3
      <4> QED
        BY <3>2, <3>3, <4>1 DEF Recorded, SameContent, Content, ContentChanges
    <3>4. ASSUME Holds(r)
          PROVE  r.rev = Last(revs'[r.id]) + 1
      <4>1. Holds(o) /\ o.id \in Ids
        BY <3>2, <3>4 DEF Holds, Updating
      <4>2. revs'[r.id] = revs[r.id]
        BY <2>2, <3>1, <3>2, <4>1
      <4> QED
        BY <3>2, <4>1, <4>2 DEF Recorded
    <3>5. ASSUME r.pc = "wait", Exists(r.id)'
          PROVE  r.rev \in 1 .. Last(revs'[r.id]) + 1
      <4>1. o.id \in Ids /\ r.id = o.id /\ r.rev = o.rev
        BY <3>2, <3>5 DEF Updating
      <4>2. CASE r.id = e
        <5>1. r.rev \in 1 .. Last(revs[e]) + 1 /\ Last(revs'[e]) >= Last(revs[e])
          BY <3>2, <3>5, <4>1, <4>2 DEF Recorded
        <5>2. Last(revs[e]) \in Nat
          BY LastIsNat DEF EntityInv, Shape
        <5> QED
          BY <4>2, <5>1, <5>2
      <4>3. CASE r.id # e
        BY <3>2, <3>5, <4>1, <4>3 DEF Recorded, Exists
      <4> QED
        BY <4>2, <4>3
    <3> QED
      BY <3>3, <3>4, <3>5 DEF Recorded
  <2> QED
    BY <2>1, <2>2
<1> QED
  BY <1>2, <1>4, <1>5 DEF HistoryInv

LEMMA IdleIsRecorded == Recorded(Idle)' /\ ~ Holds(Idle) /\ ~ Updating(Idle)
BY IdleShape DEF Recorded, Holds, Updating

\* The request ends before it has written anything.
LEMMA FinishRecorded ==
  ASSUME Shape, HistoryInv, NEW p \in Procs, Finish(p), UNCHANGED revs,
         \A q \in Procs : q # p /\ Updating(req[q]) => rows'[req[q].id] = rows[req[q].id]
  PROVE  HistoryInv'
BY IdleShape, IdleIsRecorded, HistoryGoesOn DEF Finish, Continue

LEMMA BeginWriteRecorded ==
  ASSUME EntityInv, HistoryInv, NEW p \in Procs, NEW e \in Ids, NEW input \in Writes,
         BeginWrite(p, e, input)
  PROVE  HistoryInv'
<1>1. PICK n : req' = [req EXCEPT ![p] = n] /\ n = req'[p] /\ n.pc = "insert"
  <2> DEFINE n == [Idle EXCEPT !.pc = "insert", !.id = e,
       !.row = [NoRow EXCEPT !.row = "live", !.kind = input.kind, !.status = input.status,
                             !.stamp = input.kind = "task" /\ input.status = "done",
                             !.parent = input.parent, !.key = input.key]]
  <2>1. req' = [req EXCEPT ![p] = n]
    BY DEF BeginWrite, Continue
  <2>2. n.pc = "insert"
    BY IdleShape DEF RequestShape
  <2> HIDE DEF n
  <2> QED
    BY <2>1, <2>2 DEF EntityInv, Shape
<1>2. n \in RequestShape
  BY <1>1, BeginWriteKeeps DEF EntityInv, Shape
<1>3. Recorded(n)' /\ ~ Holds(n)
  BY <1>1 DEF Recorded, Holds, Updating
<1>4. UNCHANGED <<rows, revs>>
  BY DEF BeginWrite
<1> QED
  BY <1>1, <1>2, <1>3, <1>4, HistoryGoesOn DEF EntityInv

LEMMA BeginUpdateRecorded ==
  ASSUME EntityInv, HistoryInv, NEW p \in Procs, NEW e \in Ids, NEW ask \in Edits,
         BeginUpdate(p, e, ask)
  PROVE  HistoryInv'
<1>1. PICK pc : pc = IF ContentChanges(ask, rows[e]) THEN "record" ELSE "apply"
  OBVIOUS
<1>2. PICK n : n = [Idle EXCEPT !.pc = pc, !.id = e, !.ask = ask, !.snap = Content(rows[e]),
                                !.stamp = StampFor(ask, rows[e])]
  OBVIOUS
<1>3. req' = [req EXCEPT ![p] = n] /\ UNCHANGED <<rows, revs>>
  BY <1>1, <1>2 DEF BeginUpdate, Continue
<1>4. n.pc = pc /\ n.id = e /\ n.ask = ask /\ n.snap = Content(rows[e]) /\ n.rev = 0
  BY <1>2, IdleShape DEF RequestShape, Idle
<1>5. n \in RequestShape
  BY <1>3, BeginUpdateKeeps DEF EntityInv, Shape
<1>6. Recorded(n) /\ ~ Holds(n)
  BY <1>1, <1>4 DEF Recorded, Holds
<1>7. Recorded(n)'
  BY <1>3, <1>6, RecordedStays
<1> QED
  BY <1>3, <1>5, <1>6, <1>7, HistoryGoesOn DEF EntityInv

LEMMA InsertRecorded ==
  ASSUME EntityInv, HistoryInv, NEW p \in Procs, InsertEntity(p)
  PROVE  HistoryInv'
<1>1. CASE ~ InsertAllowed(req[p].row)
  BY <1>1, FinishRecorded DEF InsertEntity, EntityInv
<1>2. CASE InsertAllowed(req[p].row)
  <2>1. PICK q \in RequestShape : q = req[p]
    BY DEF EntityInv, Shape
  <2>2. q.pc = "insert" /\ q.id \in Ids
    BY <2>1 DEF InsertEntity, EntityInv, RequestOK
  <2>3. rows' = [rows EXCEPT ![q.id] = q.row] /\ UNCHANGED revs
    BY <1>2, <2>1 DEF InsertEntity
  <2>4. ASSUME NEW o \in Procs, o # p, Updating(req[o])
        PROVE  rows'[req[o].id] = rows[req[o].id]
    <3>1. req[o].id # q.id
      BY <2>1, <2>2, <2>4 DEF EntityInv, OwnId
    <3>2. req[o].id \in Ids
      BY <2>4 DEF EntityInv, Shape, RequestOK
    <3> QED
      BY <2>3, <3>1, <3>2 DEF EntityInv, Shape
  <2>5. CASE Finish(p)
    BY <2>3, <2>4, <2>5, FinishRecorded DEF EntityInv
  <2>6. CASE Continue(p, [q EXCEPT !.pc = "edge"])
    <3>1. PICK n : n = [q EXCEPT !.pc = "edge"]
      OBVIOUS
    <3>2. n \in RequestShape /\ n.pc = "edge"
      BY <2>1, <3>1 DEF RequestShape
    <3>3. Recorded(n)' /\ ~ Holds(n)
      BY <3>2 DEF Recorded, Holds, Updating
    <3>4. req' = [req EXCEPT ![p] = n]
      BY <2>6, <3>1 DEF Continue
    <3> QED
      BY <2>3, <2>4, <3>2, <3>3, <3>4, HistoryGoesOn DEF EntityInv
  <2> QED
    BY <1>2, <2>1, <2>5, <2>6 DEF InsertEntity
<1> QED
  BY <1>1, <1>2

\* An update goes on to wait, or to write with the number that comes next.
LEMMA UpdateRecorded ==
  ASSUME EntityInv, HistoryInv, NEW p \in Procs, NEW q \in RequestShape, q = req[p],
         Updating(q), q.pc # "apply", UNCHANGED <<rows, revs>>,
         NEW pc \in {"wait", "apply"}, NEW rev \in Nat,
         req' = [req EXCEPT ![p] = [q EXCEPT !.pc = pc, !.rev = rev]],
         rev \in 1 .. Last(revs[q.id]) + 1,
         pc = "apply" => rev = Last(revs[q.id]) + 1 /\ ~ Held(q.id, rev)
  PROVE  HistoryInv'
<1>1. PICK n : n = [q EXCEPT !.pc = pc, !.rev = rev]
  OBVIOUS
<1>2. /\ n \in RequestShape /\ n.pc = pc /\ n.rev = rev /\ n.id = q.id
      /\ n.ask = q.ask /\ n.snap = q.snap /\ n.stale = q.stale
  BY <1>1 DEF RequestShape
<1>3. Recorded(q) /\ q.id \in Ids /\ Last(revs[q.id]) \in Nat
  BY LastIsNat DEF HistoryInv, EntityInv, Shape, RequestOK
<1>4. rev # 0
  BY <1>3
<1>5. Recorded(n)
  BY <1>2, <1>3, <1>4 DEF Recorded, Updating, Holds
<1>6. Recorded(n)'
  BY <1>5, RecordedStays
<1>7. ASSUME Holds(n), NEW o \in Procs, o # p, Holds(req[o])
      PROVE  req[o].id # n.id
  <2>1. PICK r \in RequestShape : r = req[o]
    BY DEF EntityInv, Shape
  <2>2. r.rev = Last(revs[r.id]) + 1 /\ r.pc = "apply"
    BY <1>7, <2>1 DEF HistoryInv, Recorded, Holds
  <2>3. n.pc = "apply" /\ n.rev = Last(revs[n.id]) + 1 /\ ~ Held(n.id, n.rev)
    BY <1>2, <1>7 DEF Holds
  <2> QED
    BY <2>1, <2>2, <2>3 DEF Held
<1>8. req' = [req EXCEPT ![p] = n]
  BY <1>1
<1> QED
  BY <1>2, <1>6, <1>7, <1>8, HistoryGoesOn DEF EntityInv

LEMMA RevisionRecorded ==
  ASSUME EntityInv, HistoryInv, WokenInTime, NEW p \in Procs, RecordRevision(p) \/ Resume(p)
  PROVE  HistoryInv'
<1>1. PICK q \in RequestShape : q = req[p]
  BY DEF EntityInv, Shape
<1>2. /\ Updating(q) /\ q.pc # "apply" /\ UNCHANGED <<rows, revs>>
  BY <1>1 DEF RecordRevision, Resume, Updating
<1>3. q.id \in Ids /\ Last(revs[q.id]) \in Nat /\ Recorded(q) /\ Contiguous(q.id)
  BY <1>1, <1>2, LastIsNat DEF EntityInv, Shape, RequestOK, HistoryInv
<1>4. CASE Finish(p)
  BY <1>2, <1>4, FinishRecorded DEF EntityInv
<1>5. CASE RecordRevision(p) /\ ~ Finish(p)
  <2>1. PICK last \in Nat : last = Last(revs[q.id]) + 1 /\ last > 0
    BY <1>3
  <2>2. PICK pc : pc = IF Held(q.id, last) THEN "wait" ELSE "apply"
    OBVIOUS
  <2>3. req' = [req EXCEPT ![p] = [q EXCEPT !.pc = pc, !.rev = last]]
    BY <1>1, <1>5, <2>1, <2>2 DEF RecordRevision, Continue
  <2>4. last \in 1 .. Last(revs[q.id]) + 1 /\ pc \in {"wait", "apply"}
    BY <1>3, <2>1, <2>2
  <2>5. pc = "apply" => ~ Held(q.id, last)
    BY <2>2
  <2> QED
    BY <1>1, <1>2, <2>1, <2>3, <2>4, <2>5, UpdateRecorded
<1>6. CASE Resume(p) /\ ~ Finish(p)
  <2>1. /\ q.pc = "wait" /\ ~ Held(q.id, q.rev) /\ Exists(q.id)
        /\ q.rev \notin DOMAIN revs[q.id]
        /\ req' = [req EXCEPT ![p] = [q EXCEPT !.pc = "apply"]]
    BY <1>1, <1>6 DEF Resume, Continue
  <2>2. PICK last \in Nat : last = Last(revs[q.id])
    BY <1>3
  <2>3. q.rev \in 1 .. last + 1 /\ last < q.rev + Retention
    BY <1>1, <1>3, <2>1, <2>2 DEF Recorded, WokenInTime
  <2>4. DOMAIN revs[q.id] = {n \in 1 .. last : n > last - Retention}
    BY <1>3, <2>2 DEF Contiguous, Latest
  <2>5. q.rev = last + 1
    <3>1. Retention \in Nat
      BY EntitiesAssumption
    <3> QED
      BY <2>1, <2>3, <2>4, <3>1
  <2>6. [q EXCEPT !.pc = "apply"] = [q EXCEPT !.pc = "apply", !.rev = q.rev]
    BY DEF RequestShape
  <2>7. q.rev \in Nat
    BY DEF RequestShape
  <2>8. /\ q.rev \in 1 .. Last(revs[q.id]) + 1 /\ q.rev = Last(revs[q.id]) + 1
        /\ ~ Held(q.id, q.rev)
    BY <2>1, <2>2, <2>3, <2>5
  <2>9. req' = [req EXCEPT ![p] = [q EXCEPT !.pc = "apply", !.rev = q.rev]]
    BY <2>1, <2>6
  <2> QED
    BY <1>1, <1>2, <2>7, <2>8, <2>9, UpdateRecorded
<1> QED
  BY <1>4, <1>5, <1>6


\* Only the history of e is written, and as HistoryTouched wants it: either it
\* is left alone, or revision rev follows it and nobody else holds one.
LEMMA ApplyRecorded ==
  ASSUME EntityInv, HistoryInv, NEW p \in Procs, ApplyUpdate(p)
  PROVE  HistoryInv'
<1>1. CASE Finish(p) /\ UNCHANGED <<rows, revs, tainted>>
  BY <1>1, FinishRecorded DEF EntityInv
<1>2. CASE ~ (Finish(p) /\ UNCHANGED <<rows, revs, tainted>>)
  <2>1. PICK q \in RequestShape : q = req[p]
    BY DEF EntityInv, Shape
  <2>2. q.pc = "apply" /\ q.id \in Ids /\ q.ask \in Edit /\ Recorded(q)
    BY <2>1 DEF EntityInv, RequestOK, Updating, ApplyUpdate, HistoryInv
  <2>3. PICK e \in Ids : e = q.id
    BY <2>2
  <2>4. /\ Exists(e)
        /\ rows' = [rows EXCEPT ![e] = Updated(@, q)]
        /\ revs' = IF q.rev = 0 THEN revs ELSE [revs EXCEPT ![e] = Trimmed(@, q.rev, q.snap)]
        /\ Touching(e, p, IF q.ask.parent \in Ids THEN [q EXCEPT !.pc = "edge"] ELSE Idle)
    BY <1>2, <2>1, <2>3 DEF ApplyUpdate
  <2>5. PICK n \in RequestShape :
           n.pc \in {"idle", "edge"} /\ Touching(e, p, n)
    <3>1. [q EXCEPT !.pc = "edge"] \in RequestShape /\ [q EXCEPT !.pc = "edge"].pc = "edge"
      BY DEF RequestShape
    <3> QED
      BY <2>4, <3>1, IdleShape
  <2>6. \A f \in Ids : f # e =>
          SameContent(f) /\ rows'[f].row = rows[f].row /\ revs'[f] = revs[f]
    BY <2>4 DEF EntityInv, Shape, SameContent
  <2>7. PICK last \in Nat : last = Last(revs[e])
    BY LastIsNat DEF EntityInv, Shape
  <2>8. DOMAIN revs[e] = Latest(last)
    BY <2>7 DEF HistoryInv, Contiguous
  <2>9. CASE q.rev = 0
    <3>1. revs' = revs
      BY <2>4, <2>9
    <3>2. Contiguous(e)' /\ Last(revs'[e]) = last
      BY <2>7, <3>1 DEF HistoryInv, Contiguous
    <3>3. last >= last
      OBVIOUS
    <3> QED
      BY <2>4, <2>5, <2>6, <2>7, <3>1, <3>2, <3>3, HistoryTouched
  <2>10. CASE q.rev # 0
    <3>1. Holds(req[p]) /\ q.rev = last + 1
      BY <2>1, <2>2, <2>3, <2>7, <2>10 DEF Recorded, Holds
    <3>2. revs'[e] = Trimmed(revs[e], q.rev, q.snap)
      BY <2>4, <2>10 DEF EntityInv, Shape
    <3>3. /\ DOMAIN revs'[e] = Latest(q.rev)
          /\ Last(revs'[e]) = q.rev
      <4>1. PICK before, after, m : before = revs[e] /\ after = revs'[e] /\ m = q.rev
        OBVIOUS
      <4>2. DOMAIN before = Latest(last)
        BY <2>8, <4>1
      <4>3. after = Trimmed(before, m, q.snap) /\ m = last + 1
        BY <3>1, <3>2, <4>1
      <4>4. DOMAIN after = Latest(m) /\ Last(after) = m
        BY <4>2, <4>3, TrimmedIsContiguous
      <4> QED
        BY <4>1, <4>4
    <3>4. Contiguous(e)'
      BY <3>3 DEF Contiguous
    <3>5. q.rev \in Nat /\ q.rev >= last
      BY <3>1
    <3>6. \A o \in Procs : o # p /\ Holds(req[o]) => req[o].id # e
      BY <2>1, <2>3, <3>1 DEF HistoryInv, OneAtATime
    <3> QED
      BY <2>4, <2>5, <2>6, <2>7, <3>3, <3>4, <3>5, <3>6, HistoryTouched
  <2> QED
    BY <2>9, <2>10
<1> QED
  BY <1>1, <1>2

LEMMA TrashRestoreRecorded ==
  ASSUME EntityInv, HistoryInv, NEW e \in Ids, Trash(e) \/ Restore(e)
  PROVE  HistoryInv'
<1>1. PICK state \in {"live", "trashed"} : rows' = [rows EXCEPT ![e].row = state]
  BY DEF Trash, Restore
<1>2. Exists(e) /\ Touching(e, None, Idle) /\ revs' = revs
  BY DEF Trash, Restore, Exists
<1>3. \A f \in Ids : f # e =>
        SameContent(f) /\ rows'[f].row = rows[f].row /\ revs'[f] = revs[f]
  BY <1>1, <1>2 DEF EntityInv, Shape, SameContent
<1>4. PICK last \in Nat : last = Last(revs[e]) /\ last >= last
  BY LastIsNat DEF EntityInv, Shape
<1>5. Contiguous(e)' /\ Last(revs'[e]) = last
  BY <1>2, <1>4 DEF HistoryInv, Contiguous
<1> QED
  BY <1>2, <1>3, <1>4, <1>5, IdleShape, HistoryTouched

\* The history goes with its entity: what nobody holds, nobody follows.
LEMMA PurgeRecorded ==
  ASSUME EntityInv, HistoryInv, NEW e \in Ids, Purge(e)
  PROVE  HistoryInv'
<1> DEFINE gone == [NoRow EXCEPT !.row = "purged"]
           orphan(f) == [rows[f] EXCEPT !.parent = None]
<1>1. /\ Touching(e, None, Idle)
      /\ \A q \in Procs : ~ (Holds(req[q]) /\ req[q].id = e)
      /\ rows' = [f \in Ids |-> IF f = e THEN gone
                                ELSE IF rows[f].parent = e THEN orphan(f) ELSE rows[f]]
      /\ revs' = [revs EXCEPT ![e] = <<>>]
  BY DEF Purge, Holds
<1>2. gone.row = "purged"
  BY NoRowShape DEF NoRow
<1>3. \A f \in Ids : /\ orphan(f).row = rows[f].row /\ orphan(f).body = rows[f].body
                     /\ orphan(f).status = rows[f].status
  BY DEF EntityInv, Shape, RowShape
<1> HIDE DEF gone, orphan
<1>4. ~ Exists(e)'
  BY <1>1, <1>2 DEF Exists
<1>5. \A f \in Ids : f # e =>
        SameContent(f) /\ rows'[f].row = rows[f].row /\ revs'[f] = revs[f]
  BY <1>1, <1>3 DEF EntityInv, Shape, SameContent
<1>6. revs'[e] = <<>>
  BY <1>1 DEF EntityInv, Shape
<1>7. Last(revs'[e]) = 0
  BY <1>6, LastOfNone
<1>8. Contiguous(e)'
  <2>1. DOMAIN revs'[e] = {}
    BY <1>6
  <2>2. Latest(0) = {}
    BY DEF Latest
  <2> QED
    BY <1>7, <2>1, <2>2 DEF Contiguous
<1> QED
  BY <1>1, <1>4, <1>5, <1>7, <1>8, IdleShape, HistoryTouched

LEMMA HistoryInvInit == Init => HistoryInv
<1> SUFFICES ASSUME Init PROVE HistoryInv
  OBVIOUS
<1>1. ASSUME NEW e \in Ids PROVE Contiguous(e)
  <2>1. revs[e] = <<>>
    BY DEF Init
  <2>2. Last(revs[e]) = 0
    BY <2>1, LastOfNone
  <2>3. DOMAIN revs[e] = {}
    BY <2>1
  <2>4. Latest(0) = {}
    BY DEF Latest
  <2> QED
    BY <2>2, <2>3, <2>4 DEF Contiguous
<1>2. \A p \in Procs : req[p] = Idle
  BY DEF Init
<1>3. ~ Holds(Idle) /\ Recorded(Idle)
  BY IdleShape DEF Recorded, Holds, Updating
<1> QED
  BY <1>1, <1>2, <1>3 DEF HistoryInv, OneAtATime

LEMMA HistoryInvInductive ==
  ASSUME EntityInv, HistoryInv, WokenInTime, [Next]_vars
  PROVE  HistoryInv'
<1>1. ASSUME NEW p \in Procs, NEW e \in Ids, NEW input \in Writes, BeginWrite(p, e, input)
      PROVE  HistoryInv'
  BY <1>1, BeginWriteRecorded
<1>2. ASSUME NEW p \in Procs, NEW e \in Ids, NEW ask \in Edits, BeginUpdate(p, e, ask)
      PROVE  HistoryInv'
  BY <1>2, BeginUpdateRecorded
<1>3. ASSUME NEW p \in Procs, InsertEntity(p)
      PROVE  HistoryInv'
  BY <1>3, InsertRecorded
<1>4. ASSUME NEW p \in Procs, RecordRevision(p) \/ Resume(p)
      PROVE  HistoryInv'
  BY <1>4, RevisionRecorded
<1>5. ASSUME NEW p \in Procs, ApplyUpdate(p)
      PROVE  HistoryInv'
  BY <1>5, ApplyRecorded
<1>6. ASSUME NEW p \in Procs, InsertEdge(p) \/ Crash(p)
      PROVE  HistoryInv'
  <2>1. Finish(p) /\ UNCHANGED <<rows, revs>>
    BY <1>6 DEF InsertEdge, Crash
  <2> QED
    BY <2>1, FinishRecorded DEF EntityInv
<1>7. ASSUME NEW e \in Ids, Trash(e) \/ Restore(e)
      PROVE  HistoryInv'
  BY <1>7, TrashRestoreRecorded
<1>8. ASSUME NEW e \in Ids, Purge(e)
      PROVE  HistoryInv'
  BY <1>8, PurgeRecorded
<1>9. CASE UNCHANGED vars
  <2>1. UNCHANGED <<rows, revs, req>>
    BY <1>9 DEF vars
  <2>2. (\A e \in Ids : Contiguous(e))' /\ OneAtATime'
    BY <2>1 DEF HistoryInv, Contiguous, OneAtATime
  <2>3. ASSUME NEW p \in Procs, NEW r \in RequestShape, req'[p] = r
        PROVE  Recorded(r)'
    <3>1. Recorded(r)
      BY <2>1, <2>3 DEF HistoryInv
    <3> QED
      BY <2>1, <3>1, RecordedStays
  <2> QED
    BY <2>2, <2>3 DEF HistoryInv
<1> QED
  BY <1>1, <1>2, <1>3, <1>4, <1>5, <1>6, <1>7, <1>8, <1>9 DEF Next

\* The step that replaces content is the one that commits the revision.
LEMMA HistoryStep ==
  ASSUME EntityInv, HistoryInv, [Next]_vars, NEW e \in Ids, SameEntity(e), e \notin tainted'
  PROVE  /\ ContentLost(e) => SnapshotAdded(e)
         /\ RevisionAdded(e) => rows'[e].edits = rows[e].edits + 1
<1> USE DEF SameEntity
<1>1. CASE UNCHANGED <<rows, revs>>
  BY <1>1 DEF ContentLost, Audited, RevisionAdded, Content
<1>2. ASSUME NEW p \in Procs, InsertEntity(p), ~ UNCHANGED <<rows, revs>>
      PROVE  ~ ContentLost(e) /\ ~ RevisionAdded(e)
  <2>1. PICK q \in RequestShape : q = req[p]
    BY DEF EntityInv, Shape
  <2>2. /\ q.id \in Ids /\ rows[q.id].row = "none" /\ rows' = [rows EXCEPT ![q.id] = q.row]
        /\ revs' = revs
    BY <1>2, <2>1 DEF EntityInv, RequestOK, InsertEntity
  <2>3. q.id # e
    BY <2>2 DEF Exists
  <2>4. rows'[e] = rows[e]
    BY <2>2, <2>3 DEF EntityInv, Shape
  <2> QED
    BY <2>2, <2>4 DEF ContentLost, Audited, RevisionAdded, Content
<1>3. ASSUME NEW p \in Procs, ApplyUpdate(p), ~ UNCHANGED <<rows, revs>>
      PROVE  /\ ContentLost(e) => SnapshotAdded(e)
             /\ RevisionAdded(e) => rows'[e].edits = rows[e].edits + 1
  <2>1. PICK q \in RequestShape : q = req[p]
    BY DEF EntityInv, Shape
  <2>2. q.pc = "apply" /\ q.id \in Ids /\ q.ask \in Edit /\ Recorded(q)
    BY <1>3, <2>1 DEF EntityInv, RequestOK, Updating, ApplyUpdate, HistoryInv
  <2>3. /\ rows' = [rows EXCEPT ![q.id] = Updated(@, q)]
        /\ revs' = IF q.rev = 0 THEN revs
                   ELSE [revs EXCEPT ![q.id] = Trimmed(@, q.rev, q.snap)]
        /\ tainted' = IF q.stale THEN tainted \cup {q.id} ELSE tainted
    BY <1>3, <2>1 DEF ApplyUpdate
  <2>4. CASE q.id # e
    <3>1. rows'[e] = rows[e] /\ revs'[e] = revs[e]
      BY <2>3, <2>4 DEF EntityInv, Shape
    <3> QED
      BY <3>1 DEF ContentLost, Audited, RevisionAdded, Content
  <2>5. CASE q.id = e
    <3>1. /\ q.snap = Content(rows[e])
          /\ q.rev = 0 => ~ ContentChanges(q.ask, rows[e])
          /\ q.rev # 0 => q.rev = Last(revs[e]) + 1
      BY <2>2, <2>3, <2>5 DEF Recorded, Updating, Holds
    <3>2. PICK row \in RowShape : row = rows[e]
      BY DEF EntityInv, Shape
    <3>3. rows'[e] = Updated(row, q)
      BY <2>3, <2>5, <3>2 DEF EntityInv, Shape
    <3>4. Updated(row, q).edits = row.edits + 1
      BY DEF Updated, RowShape
    <3>5. CASE q.rev = 0
      <4>1. /\ Updated(row, q).body = NewBody(q.ask, row)
            /\ Updated(row, q).status = IF q.ask.status = Keep THEN row.status ELSE q.ask.status
        BY DEF Updated, RowShape
      <4>2. NewBody(q.ask, row) \ {BlankLine} = row.body \ {BlankLine}
        BY <3>1, <3>2, <3>5 DEF NewBody, ContentChanges
      <4>3. Updated(row, q).status = row.status
        BY <3>1, <3>2, <3>5, <4>1 DEF ContentChanges
      <4>4. ~ ContentLost(e)
        BY <3>2, <3>3, <4>1, <4>2, <4>3 DEF ContentLost, Audited, Content
      <4>5. ~ RevisionAdded(e)
        BY <2>3, <3>5 DEF RevisionAdded
      <4> QED
        BY <4>4, <4>5
    <3>6. CASE q.rev # 0
      <4>1. PICK last \in Nat : last = Last(revs[e])
        BY LastIsNat DEF EntityInv, Shape
      <4>2. DOMAIN revs[e] = Latest(last)
        BY <4>1 DEF HistoryInv, Contiguous
      <4>3. revs'[e] = Trimmed(revs[e], q.rev, q.snap) /\ q.rev = last + 1
        BY <2>3, <2>5, <3>1, <3>6, <4>1 DEF EntityInv, Shape
      <4>4. Last(revs'[e]) = q.rev /\ revs'[e][q.rev] = q.snap
        <5>1. PICK before, after, n : before = revs[e] /\ after = revs'[e] /\ n = q.rev
          OBVIOUS
        <5>2. DOMAIN before = Latest(last)
          BY <4>2, <5>1
        <5>3. after = Trimmed(before, n, q.snap) /\ n = last + 1
          BY <4>3, <5>1
        <5>4. Last(after) = n /\ after[n] = q.snap
          BY <5>2, <5>3, TrimmedIsContiguous
        <5> QED
          BY <5>1, <5>4
      <4>5. q.rev # last
        BY <4>3
      <4>6. SnapshotAdded(e)
        BY <3>1, <4>1, <4>4, <4>5 DEF SnapshotAdded, RevisionAdded
      <4> QED
        BY <3>2, <3>3, <3>4, <4>6
    <3> QED
      BY <3>5, <3>6
  <2> QED
    BY <2>4, <2>5
<1>4. ASSUME NEW f \in Ids, Trash(f) \/ Restore(f)
      PROVE  ~ ContentLost(e) /\ ~ RevisionAdded(e)
  <2>1. PICK state : rows' = [rows EXCEPT ![f].row = state] /\ revs' = revs
    BY <1>4 DEF Trash, Restore
  <2>2. rows'[e].body = rows[e].body /\ rows'[e].status = rows[e].status
    BY <2>1 DEF EntityInv, Shape, RowShape
  <2> QED
    BY <2>1, <2>2 DEF ContentLost, Audited, RevisionAdded, Content
<1>5. ASSUME NEW f \in Ids, Purge(f)
      PROVE  ~ ContentLost(e) /\ ~ RevisionAdded(e)
  <2>1. f # e
    BY <1>5, NoRowShape DEF Purge, NoRow, Exists
  <2>2. rows[e] \in RowShape
    BY DEF EntityInv, Shape
  <2>3. rows'[e].body = rows[e].body /\ rows'[e].status = rows[e].status
    BY <1>5, <2>1, <2>2 DEF Purge, RowShape
  <2>4. revs'[e] = revs[e]
    BY <1>5, <2>1 DEF Purge, EntityInv, Shape
  <2> QED
    BY <2>3, <2>4 DEF ContentLost, Audited, RevisionAdded, Content
<1> QED
  BY <1>1, <1>2, <1>3, <1>4, <1>5
     DEF Next, vars, BeginWrite, BeginUpdate, InsertEdge, RecordRevision, Resume, Crash

LEMMA HistoryAlways == Spec /\ []WokenInTime => []HistoryInv
BY HistoryInvInit, HistoryInvInductive, EntityInvAlways, PTL DEF Spec

\* Content that an update replaces is kept as a revision in the same commit, a
\* revision comes with an update, and the revisions that are kept are the
\* latest Retention ones without a gap, however updates overlap, fail and die
\* (revisions.ts, recordRevision; entities.ts, update), up to the blank line of
\* an append of the empty text, which leaves no revision.  What it takes of the
\* database is that it wakes a transaction that waits at the unique index
\* before so many others have committed that its number is trimmed.
THEOREM HistoryHolds == Spec /\ []WokenInTime => HistoryIsComplete
<1>1. EntityInv /\ HistoryInv /\ HistoryInv' /\ [Next]_vars =>
        [/\ RevisionsContiguous'
         /\ \A e \in Ids : SameEntity(e) /\ e \notin tainted' =>
              /\ ContentLost(e) => SnapshotAdded(e)
              /\ RevisionAdded(e) => rows'[e].edits = rows[e].edits + 1]_vars
  <2> SUFFICES ASSUME EntityInv, HistoryInv, HistoryInv', [Next]_vars
               PROVE  /\ RevisionsContiguous'
                      /\ \A e \in Ids : SameEntity(e) /\ e \notin tainted' =>
                           /\ ContentLost(e) => SnapshotAdded(e)
                           /\ RevisionAdded(e) => rows'[e].edits = rows[e].edits + 1
    OBVIOUS
  <2>1. RevisionsContiguous'
    BY DEF HistoryInv, Contiguous, Latest, RevisionsContiguous
  <2> QED
    BY <2>1, HistoryStep
<1> QED
  BY <1>1, EntityInvAlways, HistoryAlways, PTL DEF Spec, HistoryIsComplete

-----------------------------------------------------------------------------
(* How far the numbers go: an entity has no revision with a higher number  *)
(* than it has had updates.                                                *)

\* The updates of e that are under way.
Pending(e) == {q \in Procs : Updating(req[q]) /\ req[q].id = e}

\* What a request is going to write.
Bounded(r) ==
  /\ r.row.edits = 0 /\ r.rev <= MaxEdits
  /\ r.pc = "insert" => r.ask = None
  /\ Updating(r) => r.snap \in Contents
  /\ Updating(r) /\ Exists(r.id) => r.rev <= rows[r.id].edits + 1
  /\ r.pc = "edge" =>
       r.id \in Ids /\ (IF r.ask = None THEN r.row.parent ELSE r.ask.parent) \in Ids

\* What there is of an entity.
RevisionsBelow(e) ==
  \A n \in DOMAIN revs[e] : n \in 1 .. rows[e].edits /\ revs[e][n] \in Contents

NumbersInv ==
  /\ \A e \in Ids : /\ rows[e].row = "none" => rows[e].edits = 0
                    /\ rows[e].edits + Cardinality(Pending(e)) <= MaxEdits
                    /\ RevisionsBelow(e)
  /\ \A p \in Procs, r \in RequestShape : req[p] = r => Bounded(r)
  /\ edges \subseteq Ids \X Ids /\ tainted \subseteq Ids

LEMMA PendingIsFinite ==
  ASSUME NEW S \in SUBSET Procs
  PROVE  IsFiniteSet(S) /\ Cardinality(S) \in Nat
BY FS_Subset, FS_CardinalityType, EntitiesAssumption

LEMMA FewerPending ==
  ASSUME NEW S \in SUBSET Procs, NEW T \in SUBSET S
  PROVE  Cardinality(T) <= Cardinality(S)
BY PendingIsFinite, FS_Subset

LEMMA IdleIsBounded ==
  ASSUME Shape
  PROVE  Bounded(Idle) /\ Bounded(Idle)' /\ ~ Updating(Idle)
BY IdleShape, EntitiesAssumption DEF Bounded, Updating, Idle, NoRow

LEMMA BoundedStays ==
  ASSUME NEW r \in RequestShape, Bounded(r), Updating(r) => r.id \in Ids,
         rows \in [Ids -> RowShape], rows' \in [Ids -> RowShape],
         Updating(r) /\ Exists(r.id)' => Exists(r.id) /\ rows'[r.id].edits >= rows[r.id].edits
  PROVE  Bounded(r)'
<1>1. ASSUME Updating(r), Exists(r.id)'
      PROVE  r.rev <= rows'[r.id].edits + 1
  <2>1. r.rev \in Nat /\ rows[r.id].edits \in Nat /\ rows'[r.id].edits \in Nat
    BY <1>1 DEF RequestShape, RowShape
  <2>2. r.rev <= rows[r.id].edits + 1 /\ rows'[r.id].edits >= rows[r.id].edits
    BY <1>1 DEF Bounded
  <2> QED
    BY <2>1, <2>2
<1> QED
  BY <1>1 DEF Bounded, Exists, Updating

\* A step of one request that starts no update and writes no row.
LEMMA NumbersGoOn ==
  ASSUME EntityInv, NumbersInv, UNCHANGED <<rows, revs>>,
         edges' \subseteq Ids \X Ids, tainted' \subseteq Ids,
         NEW p \in Procs, NEW n \in RequestShape, req' = [req EXCEPT ![p] = n],
         Bounded(n),
         Updating(n) => Updating(req[p]) /\ n.id = req[p].id
  PROVE  NumbersInv'
<1>1. /\ \A q \in Procs : q # p => req'[q] = req[q]
      /\ req'[p] = n
  BY DEF EntityInv, Shape
<1>2. ASSUME NEW e \in Ids
      PROVE  /\ rows'[e].row = "none" => rows'[e].edits = 0
             /\ rows'[e].edits + Cardinality(Pending(e)') <= MaxEdits
             /\ RevisionsBelow(e)'
  <2>1. Pending(e) \in SUBSET Procs /\ Pending(e)' \in SUBSET Pending(e)
    BY <1>1 DEF Pending
  <2>2. /\ Cardinality(Pending(e)') <= Cardinality(Pending(e))
        /\ Cardinality(Pending(e)) \in Nat /\ Cardinality(Pending(e)') \in Nat
    BY <2>1, FewerPending, PendingIsFinite
  <2>3. rows[e].edits \in Nat
    BY DEF EntityInv, Shape, RowShape
  <2>4. rows[e].edits + Cardinality(Pending(e)) <= MaxEdits
    BY DEF NumbersInv
  <2>5. rows[e].edits + Cardinality(Pending(e)') <= MaxEdits
    BY <2>2, <2>3, <2>4, EntitiesAssumption
  <2> QED
    BY <2>5 DEF NumbersInv, RevisionsBelow
<1>3. ASSUME NEW q \in Procs, NEW r \in RequestShape, req'[q] = r
      PROVE  Bounded(r)'
  <2>1. Bounded(r)
    BY <1>1, <1>3 DEF NumbersInv
  <2> QED
    BY <2>1 DEF Bounded, Exists, Updating
<1> QED
  BY <1>2, <1>3 DEF NumbersInv

LEMMA FinishNumbers ==
  ASSUME EntityInv, NumbersInv, NEW p \in Procs, Finish(p), UNCHANGED <<rows, revs>>,
         edges' \subseteq Ids \X Ids, tainted' \subseteq Ids
  PROVE  NumbersInv'
BY IdleShape, IdleIsBounded, NumbersGoOn DEF Finish, Continue, EntityInv

LEMMA BeginWriteNumbers ==
  ASSUME EntityInv, NumbersInv, NEW p \in Procs, NEW e \in Ids, NEW input \in Writes,
         BeginWrite(p, e, input)
  PROVE  NumbersInv'
<1>1. PICK row : row = [NoRow EXCEPT !.row = "live", !.kind = input.kind, !.status = input.status,
                             !.stamp = input.kind = "task" /\ input.status = "done",
                             !.parent = input.parent, !.key = input.key]
  OBVIOUS
<1>2. PICK n : n = [Idle EXCEPT !.pc = "insert", !.id = e, !.row = row]
  OBVIOUS
<1>3. req' = [req EXCEPT ![p] = n] /\ UNCHANGED <<rows, revs, edges, tainted>>
  BY <1>1, <1>2 DEF BeginWrite, Continue
<1>4. row.edits = 0
  BY <1>1 DEF NoRow
<1>5. n.pc = "insert" /\ n.row = row /\ n.rev = 0 /\ n.ask = None
  BY <1>2 DEF Idle
<1>6. n \in RequestShape
  BY <1>3, BeginWriteKeeps DEF EntityInv, Shape
<1>7. Bounded(n) /\ ~ Updating(n)
  BY <1>4, <1>5, EntitiesAssumption DEF Bounded, Updating
<1> QED
  BY <1>3, <1>6, <1>7, NumbersGoOn DEF NumbersInv

\* The bound of the model is on the updates with those under way.
LEMMA BeginUpdateNumbers ==
  ASSUME EntityInv, NumbersInv, NEW p \in Procs, NEW e \in Ids, NEW ask \in Edits,
         BeginUpdate(p, e, ask)
  PROVE  NumbersInv'
<1>1. PICK pc : pc = IF ContentChanges(ask, rows[e]) THEN "record" ELSE "apply"
  OBVIOUS
<1>2. PICK n : n = [Idle EXCEPT !.pc = pc, !.id = e, !.ask = ask, !.snap = Content(rows[e]),
                                !.stamp = StampFor(ask, rows[e])]
  OBVIOUS
<1>3. req' = [req EXCEPT ![p] = n] /\ UNCHANGED <<rows, revs, edges, tainted>>
  BY <1>1, <1>2 DEF BeginUpdate, Continue
<1>4. /\ n.pc = pc /\ n.id = e /\ n.snap = Content(rows[e]) /\ n.rev = 0
      /\ n.row = NoRow
  BY <1>2 DEF Idle
<1>5. req[p] = Idle /\ WithinBound(e)
  BY DEF BeginUpdate
<1>6. /\ \A q \in Procs : q # p => req'[q] = req[q]
      /\ req'[p] = n
  BY <1>3 DEF EntityInv, Shape
<1>7. ASSUME NEW f \in Ids
      PROVE  rows[f].edits + Cardinality(Pending(f)') <= MaxEdits
  <2>1. rows[f].edits \in Nat /\ Pending(f) \in SUBSET Procs
    BY DEF EntityInv, Shape, RowShape, Pending
  <2>2. CASE f # e
    <3>1. Pending(f)' = Pending(f)
      <4>1. p \notin Pending(f) /\ p \notin Pending(f)'
        BY <1>4, <1>5, <1>6, <2>2, IdleIsBounded DEF Pending, EntityInv
      <4> QED
        BY <1>6, <4>1 DEF Pending
    <3> QED
      BY <3>1 DEF NumbersInv
  <2>3. CASE f = e
    <3>1. PICK all : all = {q \in Procs : req[q].id = e}
      OBVIOUS
    <3>2. Pending(e)' \subseteq all \cup {p}
      BY <1>6, <3>1 DEF Pending
    <3>3. IsFiniteSet(all) /\ Cardinality(all) \in Nat
      BY <3>1, PendingIsFinite
    <3>4. IsFiniteSet(all \cup {p}) /\ Cardinality(all \cup {p}) <= Cardinality(all) + 1
      BY <3>3, FS_AddElement
    <3>5. Cardinality(Pending(e)') <= Cardinality(all \cup {p})
      BY <3>2, <3>4, FS_Subset
    <3>6. /\ Cardinality(Pending(e)') \in Nat /\ Cardinality(all \cup {p}) \in Nat
      BY <3>3, <3>4, PendingIsFinite, FS_CardinalityType DEF Pending
    <3>7. rows[e].edits + Cardinality(all) < MaxEdits
      BY <1>5, <3>1 DEF WithinBound
    <3> QED
      BY <2>1, <2>3, <3>3, <3>4, <3>5, <3>6, <3>7, EntitiesAssumption
  <2> QED
    BY <2>2, <2>3
<1>8. Bounded(n)
  <2>1. Content(rows[e]) \in Contents
    BY DEF EntityInv, Shape, RowShape, Content, Contents
  <2>2. rows[e].edits \in Nat
    BY DEF EntityInv, Shape, RowShape
  <2>3. n.row.edits = 0 /\ n.pc \notin {"edge", "insert"}
    BY <1>1, <1>4 DEF NoRow
  <2>4. MaxEdits \in Nat /\ 0 <= MaxEdits /\ 0 <= rows[e].edits + 1
    BY <2>2, EntitiesAssumption
  <2> QED
    BY <1>4, <2>1, <2>3, <2>4 DEF Bounded
<1>9. ASSUME NEW q \in Procs, NEW r \in RequestShape, req'[q] = r
      PROVE  Bounded(r)'
  <2>1. Bounded(r)
    BY <1>6, <1>8, <1>9 DEF NumbersInv
  <2> QED
    BY <1>3, <2>1 DEF Bounded, Exists, Updating
<1> QED
  BY <1>3, <1>7, <1>9 DEF NumbersInv, RevisionsBelow

\* Request p goes on with n, and the others keep what they remember.
OthersRemember(p, n) ==
  /\ \A q \in Procs : q = p => req'[q] = n
  /\ \A q \in Procs : q # p =>
       /\ req'[q].pc = req[q].pc /\ req'[q].id = req[q].id
       /\ req'[q].ask = req[q].ask /\ req'[q].row = req[q].row
       /\ req'[q].rev = req[q].rev /\ req'[q].snap = req[q].snap

OtherRowsStay(e) ==
  \A f \in Ids : f # e => /\ rows'[f].row = rows[f].row /\ rows'[f].edits = rows[f].edits
                          /\ revs'[f] = revs[f]

\* An update more only by one that was under way.
UpdatesCounted(e, p) ==
  \/ rows'[e].edits <= rows[e].edits
  \/ /\ rows'[e].edits = rows[e].edits + 1
     /\ \E q \in Procs : q = p /\ q \in Pending(e)

\* A row that updates of others are under way for is the one they have read.
NotBefore(e, p) ==
  Exists(e)' => \/ \A q \in Procs : q # p => req[q].id # e
                \/ Exists(e) /\ rows'[e].edits >= rows[e].edits

\* A step that writes the row of e while others keep what they remember.
LEMMA NumbersTouched ==
  ASSUME EntityInv, NumbersInv, EntityInv', NEW e \in Ids, NEW p, NEW n \in RequestShape,
         edges' \subseteq Ids \X Ids, tainted' \subseteq Ids, OthersRemember(p, n),
         Bounded(n)', ~ Updating(n), OtherRowsStay(e), rows'[e].row # "none",
         RevisionsBelow(e)', UpdatesCounted(e, p), NotBefore(e, p)
  PROVE  NumbersInv'
<1> USE DEF OthersRemember, OtherRowsStay, UpdatesCounted, NotBefore
<1>1. \A f \in Ids : rows[f].edits \in Nat /\ rows'[f].edits \in Nat
  BY DEF EntityInv, Shape, RowShape
<1>2. ASSUME NEW f \in Ids
      PROVE  rows'[f].edits + Cardinality(Pending(f)') <= MaxEdits
  <2>1. Pending(f) \in SUBSET Procs /\ Pending(f)' \in SUBSET (Pending(f) \ {p})
    BY DEF Pending, Updating
  <2>2. PICK before, after : before = Pending(f) /\ after = Pending(f)'
    OBVIOUS
  <2>3. /\ Cardinality(before) \in Nat /\ Cardinality(after) \in Nat
        /\ Cardinality(after) <= Cardinality(before) /\ IsFiniteSet(before)
    BY <2>1, <2>2, FewerPending, PendingIsFinite
  <2>4. rows[f].edits + Cardinality(before) <= MaxEdits
    BY <2>2 DEF NumbersInv
  <2>5. CASE rows'[f].edits <= rows[f].edits
    BY <1>1, <2>2, <2>3, <2>4, <2>5, EntitiesAssumption
  <2>6. CASE ~ (rows'[f].edits <= rows[f].edits)
    <3>1. f = e /\ p \in before /\ rows'[f].edits = rows[f].edits + 1
      BY <1>1, <2>2, <2>6
    <3>2. Cardinality(after) <= Cardinality(before) - 1
      <4>1. /\ IsFiniteSet(before \ {p})
            /\ Cardinality(before \ {p}) = Cardinality(before) - 1
        BY <2>3, <3>1, FS_RemoveElement
      <4>2. after \in SUBSET (before \ {p})
        BY <2>1, <2>2
      <4> QED
        BY <4>1, <4>2, FS_Subset
    <3> QED
      BY <1>1, <2>2, <2>3, <2>4, <3>1, <3>2, EntitiesAssumption
  <2> QED
    BY <2>5, <2>6
<1>3. ASSUME NEW x \in Procs, NEW r \in RequestShape, req'[x] = r
      PROVE  Bounded(r)'
  <2>1. CASE x = p
    BY <1>3, <2>1
  <2>2. CASE x # p
    <3>1. PICK o \in RequestShape : o = req[x]
      BY DEF EntityInv, Shape
    <3>2. /\ r.pc = o.pc /\ r.id = o.id /\ r.ask = o.ask /\ r.row = o.row
          /\ r.rev = o.rev /\ r.snap = o.snap
          /\ Bounded(o) /\ (Updating(o) => o.id \in Ids)
      BY <1>3, <2>2, <3>1 DEF NumbersInv, EntityInv, RequestOK
    <3>3. ASSUME Updating(r), Exists(r.id)'
          PROVE  r.rev <= rows'[r.id].edits + 1
      <4>1. Updating(o) /\ o.id \in Ids
        BY <3>2, <3>3 DEF Updating
      <4>2. Exists(o.id) /\ rows'[o.id].edits >= rows[o.id].edits
        <5>1. CASE o.id = e
          BY <2>2, <3>1, <3>2, <3>3, <5>1
        <5>2. CASE o.id # e
          BY <1>1, <3>2, <3>3, <4>1, <5>2 DEF Exists
        <5> QED
          BY <5>1, <5>2
      <4>3. o.rev <= rows[o.id].edits + 1 /\ o.rev \in Nat
        BY <3>2, <4>1, <4>2 DEF Bounded, RequestShape
      <4> QED
        BY <1>1, <3>2, <4>1, <4>2, <4>3
    <3> QED
      BY <3>2, <3>3 DEF Bounded, Updating
  <2> QED
    BY <2>1, <2>2
<1>4. ASSUME NEW f \in Ids
      PROVE  (rows'[f].row = "none" => rows'[f].edits = 0) /\ RevisionsBelow(f)'
  <2>1. CASE f = e
    BY <2>1
  <2>2. CASE f # e
    BY <2>2 DEF NumbersInv, RevisionsBelow
  <2> QED
    BY <2>1, <2>2
<1> QED
  BY <1>2, <1>3, <1>4 DEF NumbersInv

\* A row begins with no updates and no history.
LEMMA InsertNumbers ==
  ASSUME EntityInv, NumbersInv, NEW p \in Procs, InsertEntity(p)
  PROVE  NumbersInv'
<1>1. CASE ~ InsertAllowed(req[p].row)
  BY <1>1, FinishNumbers DEF InsertEntity, NumbersInv
<1>2. CASE InsertAllowed(req[p].row)
  <2>1. PICK q \in RequestShape : q = req[p]
    BY DEF EntityInv, Shape
  <2>2. PICK e \in Ids : e = q.id /\ rows[e].row = "none" /\ q.pc = "insert"
    BY <2>1 DEF InsertEntity, EntityInv, RequestOK
  <2>3. PICK n \in RequestShape :
          /\ req' = [req EXCEPT ![p] = n] /\ ~ Updating(n) /\ Bounded(n)
    <3>1. CASE q.row.parent = None
      BY <1>2, <2>1, <3>1, IdleShape, IdleIsBounded
         DEF InsertEntity, Finish, Continue, EntityInv
    <3>2. CASE q.row.parent # None
      <4>1. PICK n : n = [q EXCEPT !.pc = "edge"]
        OBVIOUS
      <4>2. req' = [req EXCEPT ![p] = n]
        BY <1>2, <2>1, <3>2, <4>1 DEF InsertEntity, Continue
      <4>3. n \in RequestShape /\ n.pc = "edge" /\ n.id = e /\ n.row = q.row /\ n.rev = q.rev
            /\ n.ask = q.ask
        BY <2>2, <4>1 DEF RequestShape
      <4>4. q.row.parent \in Ids
        BY <3>2 DEF RequestShape, RowShape
      <4>5. Bounded(q)
        BY <2>1 DEF NumbersInv
      <4>6. ~ Updating(n) /\ Bounded(n)
        BY <2>2, <4>3, <4>4, <4>5 DEF Bounded, Updating
      <4> QED
        BY <4>2, <4>3, <4>6
    <3> QED
      BY <3>1, <3>2
  <2>4. /\ rows' = [rows EXCEPT ![e] = q.row] /\ UNCHANGED <<revs, edges, tainted>>
    BY <1>2, <2>1, <2>2 DEF InsertEntity
  <2>5. \A f \in Ids : f # e => rows'[f] = rows[f]
    BY <2>4 DEF EntityInv, Shape
  <2>6. rows'[e] = q.row /\ q.row.edits = 0 /\ q.row.row = "live"
    BY <2>1, <2>2, <2>4 DEF EntityInv, Shape, NumbersInv, Bounded, RequestOK
  <2>7. rows[e].edits = 0
    BY <2>2 DEF NumbersInv
  <2>8. RevisionsBelow(e)'
    BY <2>4, <2>6, <2>7 DEF NumbersInv, RevisionsBelow
  <2>9. \A o \in Procs : o # p => req[o].id # e
    BY <2>1, <2>2 DEF EntityInv, OwnId
  <2>10. /\ \A o \in Procs : o # p => req'[o] = req[o]
         /\ req'[p] = n
    BY <2>3 DEF EntityInv, Shape
  <2>11. Bounded(n)'
    BY <2>3 DEF Bounded, Updating
  <2>12. rows'[e].edits <= rows[e].edits /\ rows'[e].row # "none"
    BY <2>6, <2>7
  <2>13. EntityInv'
    BY InsertEntityKeeps
  <2>14. edges' \subseteq Ids \X Ids /\ tainted' \subseteq Ids
    BY <2>4 DEF NumbersInv
  <2>15. OthersRemember(p, n) /\ OtherRowsStay(e) /\ UpdatesCounted(e, p) /\ NotBefore(e, p)
    BY <2>4, <2>5, <2>9, <2>10, <2>12
       DEF OthersRemember, OtherRowsStay, UpdatesCounted, NotBefore
  <2> QED
    BY <2>3, <2>8, <2>11, <2>12, <2>13, <2>14, <2>15, NumbersTouched
<1> QED
  BY <1>1, <1>2

\* recordRevision numbers the revision after the ones there are.
LEMMA RevisionNumbers ==
  ASSUME EntityInv, NumbersInv, NEW p \in Procs, RecordRevision(p) \/ Resume(p)
  PROVE  NumbersInv'
<1>1. PICK q \in RequestShape : q = req[p]
  BY DEF EntityInv, Shape
<1>2. /\ Updating(q) /\ UNCHANGED <<rows, revs, edges, tainted>>
  BY <1>1 DEF RecordRevision, Resume, Updating
<1>3. CASE Finish(p)
  BY <1>2, <1>3, FinishNumbers DEF NumbersInv
<1>4. CASE ~ Finish(p)
  <2>1. PICK e \in Ids : e = q.id
    BY <1>1, <1>2 DEF EntityInv, RequestOK
  <2>2. PICK last \in Nat : last = Last(revs[e])
    BY LastIsNat DEF EntityInv, Shape
  <2>3. rows[e].edits \in Nat /\ rows[e].edits + 1 <= MaxEdits /\ Bounded(q)
    <3>1. rows[e].edits \in Nat /\ p \in Pending(e) /\ Pending(e) \in SUBSET Procs
      BY <1>1, <1>2, <2>1 DEF EntityInv, Shape, RowShape, Pending
    <3>2. Cardinality(Pending(e)) \in Nat /\ Cardinality(Pending(e)) # 0
      BY <3>1, PendingIsFinite, FS_EmptySet
    <3>3. rows[e].edits + Cardinality(Pending(e)) <= MaxEdits
      BY DEF NumbersInv
    <3> QED
      BY <1>1, <3>1, <3>2, <3>3, EntitiesAssumption DEF NumbersInv
  <2>4. last <= rows[e].edits
    <3>1. CASE DOMAIN revs[e] = {}
      BY <2>2, <2>3, <3>1 DEF Last
    <3>2. CASE DOMAIN revs[e] # {}
      <4>1. \E x \in DOMAIN revs[e] : \A m \in DOMAIN revs[e] : m <= x
        BY <3>2 DEF EntityInv, Shape, HasLast
      <4>2. last \in DOMAIN revs[e]
        BY <2>2, <3>2, <4>1 DEF Last
      <4> QED
        BY <4>2 DEF NumbersInv, RevisionsBelow
    <3> QED
      BY <3>1, <3>2
  <2>5. PICK pc \in {"wait", "apply"}, rev \in Nat :
          /\ req' = [req EXCEPT ![p] = [q EXCEPT !.pc = pc, !.rev = rev]]
          /\ rev <= rows[e].edits + 1
    <3>1. CASE RecordRevision(p)
      <4>1. last + 1 <= rows[e].edits + 1 /\ last + 1 \in Nat
        BY <2>3, <2>4
      <4> QED
        BY <1>1, <1>4, <2>1, <2>2, <3>1, <4>1 DEF RecordRevision, Continue
    <3>2. CASE Resume(p)
      <4>1. Exists(e) /\ req' = [req EXCEPT ![p] = [q EXCEPT !.pc = "apply"]]
        BY <1>1, <1>4, <2>1, <3>2 DEF Resume, Continue
      <4>2. [q EXCEPT !.pc = "apply"] = [q EXCEPT !.pc = "apply", !.rev = q.rev]
        BY DEF RequestShape
      <4>3. q.rev \in Nat /\ q.rev <= rows[e].edits + 1
        BY <1>2, <2>1, <2>3, <4>1 DEF RequestShape, Bounded
      <4> QED
        BY <4>1, <4>2, <4>3
    <3> QED
      BY <3>1, <3>2
  <2>6. PICK n : n = [q EXCEPT !.pc = pc, !.rev = rev]
    OBVIOUS
  <2>7. /\ n \in RequestShape /\ n.pc = pc /\ n.rev = rev /\ n.id = e
        /\ n.row = q.row /\ n.snap = q.snap
    BY <2>1, <2>6 DEF RequestShape
  <2>8. Bounded(n)
    BY <1>2, <2>3, <2>5, <2>7, EntitiesAssumption DEF Bounded, Updating
  <2> QED
    BY <1>1, <1>2, <2>1, <2>5, <2>6, <2>7, <2>8, NumbersGoOn DEF NumbersInv
<1> QED
  BY <1>3, <1>4

\* One more update, and the revision that goes with it.
LEMMA ApplyNumbers ==
  ASSUME EntityInv, NumbersInv, NEW p \in Procs, ApplyUpdate(p)
  PROVE  NumbersInv'
<1>1. CASE Finish(p) /\ UNCHANGED <<rows, revs, tainted>>
  BY <1>1, FinishNumbers DEF ApplyUpdate, NumbersInv
<1>2. CASE ~ (Finish(p) /\ UNCHANGED <<rows, revs, tainted>>)
  <2>1. PICK q \in RequestShape : q = req[p]
    BY DEF EntityInv, Shape
  <2>2. q.pc = "apply" /\ q.id \in Ids /\ q.ask \in Edit /\ Updating(q) /\ Bounded(q)
    BY <2>1 DEF EntityInv, RequestOK, Updating, ApplyUpdate, NumbersInv
  <2>3. PICK e \in Ids : e = q.id
    BY <2>2
  <2>4. /\ Exists(e)
        /\ rows' = [rows EXCEPT ![e] = Updated(@, q)]
        /\ revs' = IF q.rev = 0 THEN revs ELSE [revs EXCEPT ![e] = Trimmed(@, q.rev, q.snap)]
        /\ Touching(e, p, IF q.ask.parent \in Ids THEN [q EXCEPT !.pc = "edge"] ELSE Idle)
    BY <1>2, <2>1, <2>3 DEF ApplyUpdate
  <2>5. edges' \subseteq Ids \X Ids /\ tainted' \subseteq Ids
    BY <1>2, <2>1, <2>3 DEF ApplyUpdate, NumbersInv
  <2>6. PICK n \in RequestShape : Touching(e, p, n) /\ ~ Updating(n) /\ Bounded(n)
    <3>1. CASE q.ask.parent \in Ids
      <4>1. PICK n : n = [q EXCEPT !.pc = "edge"]
        OBVIOUS
      <4>2. /\ n \in RequestShape /\ n.pc = "edge" /\ n.id = q.id /\ n.ask = q.ask
            /\ n.row = q.row /\ n.rev = q.rev
        BY <4>1 DEF RequestShape
      <4>3. ~ Updating(n)
        BY <4>2 DEF Updating
      <4>4. q.ask # None
        BY <2>2, EntitiesAssumption
      <4>5. Bounded(n)
        BY <2>2, <3>1, <4>2, <4>3, <4>4 DEF Bounded
      <4> QED
        BY <2>4, <3>1, <4>1, <4>2, <4>3, <4>5
    <3>2. CASE q.ask.parent \notin Ids
      BY <2>4, <3>2, IdleShape, IdleIsBounded DEF EntityInv
    <3> QED
      BY <3>1, <3>2
  <2>7. /\ \A x \in Procs : x = p => req'[x] = n
        /\ \A x \in Procs : x # p =>
             /\ req'[x].pc = req[x].pc /\ req'[x].id = req[x].id
             /\ req'[x].ask = req[x].ask /\ req'[x].row = req[x].row
             /\ req'[x].rev = req[x].rev /\ req'[x].snap = req[x].snap
    BY <2>6, TouchedRequests DEF EntityInv
  <2>8. \A f \in Ids : f # e => /\ rows'[f].row = rows[f].row /\ rows'[f].edits = rows[f].edits
                                /\ revs'[f] = revs[f]
    BY <2>4 DEF EntityInv, Shape
  <2>9. /\ rows'[e] = Updated(rows[e], q) /\ rows[e] \in RowShape
        /\ rows'[e].row = rows[e].row /\ rows[e].edits \in Nat
    BY <2>2, <2>4, UpdatedShape DEF EntityInv, Shape, RowShape
  <2>10. rows'[e].edits = rows[e].edits + 1
    BY <2>9 DEF Updated, RowShape
  <2>11. RevisionsBelow(e)'
    <3> SUFFICES ASSUME NEW m \in DOMAIN revs'[e]
                 PROVE  m \in 1 .. rows'[e].edits /\ revs'[e][m] \in Contents
      BY DEF RevisionsBelow
    <3>1. \A x \in DOMAIN revs[e] : x \in 1 .. rows[e].edits /\ revs[e][x] \in Contents
      BY DEF NumbersInv, RevisionsBelow
    <3>2. CASE q.rev = 0
      BY <2>4, <2>9, <2>10, <3>1, <3>2
    <3>3. CASE q.rev # 0
      <4>1. revs'[e] = Trimmed(revs[e], q.rev, q.snap)
        BY <2>4, <3>3 DEF EntityInv, Shape
      <4>2. q.rev \in Nat /\ q.rev <= rows[e].edits + 1 /\ q.snap \in Contents
        BY <2>2, <2>3, <2>4 DEF Bounded, RequestShape
      <4>3. m = q.rev \/ m \in DOMAIN revs[e]
        BY <4>1 DEF Trimmed
      <4>4. revs'[e][m] = IF m = q.rev THEN q.snap ELSE revs[e][m]
        BY <4>1 DEF Trimmed
      <4>5. revs'[e][m] \in Contents
        BY <3>1, <4>2, <4>3, <4>4
      <4>6. m \in 1 .. rows[e].edits + 1
        BY <2>9, <3>1, <3>3, <4>2, <4>3
      <4> QED
        BY <2>10, <4>5, <4>6
    <3> QED
      BY <3>2, <3>3
  <2>12. p \in Pending(e)
    BY <2>1, <2>2, <2>3 DEF Pending
  <2>13. Bounded(n)'
    BY <2>6 DEF Bounded, Updating
  <2>14. EntityInv'
    BY ApplyUpdateKeeps
  <2>15. rows'[e].row # "none" /\ rows'[e].edits >= rows[e].edits
    BY <2>4, <2>9, <2>10 DEF Exists
  <2>16. OthersRemember(p, n) /\ OtherRowsStay(e) /\ UpdatesCounted(e, p) /\ NotBefore(e, p)
    BY <2>4, <2>7, <2>8, <2>10, <2>12, <2>15
       DEF OthersRemember, OtherRowsStay, UpdatesCounted, NotBefore
  <2> QED
    BY <2>5, <2>6, <2>11, <2>13, <2>14, <2>15, <2>16, NumbersTouched
<1> QED
  BY <1>1, <1>2

\* The trash keeps the numbers, and what is purged has none.
LEMMA RemovalNumbers ==
  ASSUME EntityInv, NumbersInv, NEW e \in Ids, Trash(e) \/ Restore(e) \/ Purge(e)
  PROVE  NumbersInv'
<1>1. Touching(e, None, Idle) /\ UNCHANGED tainted /\ rows[e].row \in {"live", "trashed"}
  BY DEF Trash, Restore, Purge
<1>2. OthersRemember(None, Idle)
  BY <1>1, IdleShape, TouchedRequests DEF EntityInv, OthersRemember
<1>3. edges' \subseteq Ids \X Ids /\ tainted' \subseteq Ids
  BY <1>1 DEF Trash, Restore, Purge, NumbersInv
<1>4. EntityInv'
  BY TrashRestoreKeep, PurgeKeeps
<1>5. Bounded(Idle)' /\ ~ Updating(Idle) /\ Idle \in RequestShape
  BY IdleShape, IdleIsBounded DEF EntityInv
<1>6. rows[e].edits \in Nat /\ rows'[e].edits \in Nat
  BY <1>4 DEF EntityInv, Shape, RowShape
<1>7. CASE Trash(e) \/ Restore(e)
  <2>1. PICK state \in {"live", "trashed"} : rows' = [rows EXCEPT ![e].row = state]
    BY <1>7 DEF Trash, Restore
  <2>2. UNCHANGED revs
    BY <1>7 DEF Trash, Restore
  <2>3. /\ \A f \in Ids : f # e => rows'[f] = rows[f]
        /\ rows'[e] = [rows[e] EXCEPT !.row = state]
    BY <2>1 DEF EntityInv, Shape
  <2>4. rows'[e].row = state /\ rows'[e].edits = rows[e].edits
    BY <2>3 DEF EntityInv, Shape, RowShape
  <2>5. RevisionsBelow(e)'
    BY <2>2, <2>4 DEF NumbersInv, RevisionsBelow
  <2>6. Exists(e) /\ rows'[e].row # "none" /\ rows'[e].edits <= rows[e].edits
        /\ rows'[e].edits >= rows[e].edits
    BY <1>1, <1>6, <2>4 DEF Exists
  <2>7. OtherRowsStay(e) /\ UpdatesCounted(e, None) /\ NotBefore(e, None)
    BY <2>2, <2>3, <2>6 DEF OtherRowsStay, UpdatesCounted, NotBefore
  <2> QED
    BY <1>2, <1>3, <1>4, <1>5, <2>5, <2>6, <2>7, NumbersTouched
<1>8. CASE Purge(e)
  <2> DEFINE gone == [NoRow EXCEPT !.row = "purged"]
             orphan(f) == [rows[f] EXCEPT !.parent = None]
  <2>1. /\ rows' = [f \in Ids |-> IF f = e THEN gone
                                  ELSE IF rows[f].parent = e THEN orphan(f) ELSE rows[f]]
        /\ revs' = [revs EXCEPT ![e] = <<>>]
    BY <1>8 DEF Purge
  <2>2. gone.row = "purged" /\ gone.edits = 0
    BY DEF NoRow
  <2>3. \A f \in Ids : orphan(f).row = rows[f].row /\ orphan(f).edits = rows[f].edits
    BY DEF EntityInv, Shape, RowShape
  <2> HIDE DEF gone, orphan
  <2>4. \A f \in Ids : f # e => /\ rows'[f].row = rows[f].row /\ rows'[f].edits = rows[f].edits
                                /\ revs'[f] = revs[f]
    BY <2>1, <2>3 DEF EntityInv, Shape
  <2>5. rows'[e].row = "purged" /\ rows'[e].edits = 0 /\ revs'[e] = <<>>
    BY <2>1, <2>2 DEF EntityInv, Shape
  <2>6. RevisionsBelow(e)' /\ ~ Exists(e)'
    BY <2>5 DEF RevisionsBelow, Exists
  <2>7. rows'[e].edits <= rows[e].edits /\ rows'[e].row # "none"
    BY <1>6, <2>5
  <2>8. OtherRowsStay(e) /\ UpdatesCounted(e, None) /\ NotBefore(e, None)
    BY <2>4, <2>6, <2>7 DEF OtherRowsStay, UpdatesCounted, NotBefore
  <2> QED
    BY <1>2, <1>3, <1>4, <1>5, <2>6, <2>7, <2>8, NumbersTouched
<1> QED
  BY <1>7, <1>8

LEMMA NumbersInvInit == Init => NumbersInv
<1> SUFFICES ASSUME Init PROVE NumbersInv
  OBVIOUS
<1>1. Shape
  BY EntityInvInit DEF EntityInv
<1>2. \A p \in Procs : req[p] = Idle
  BY DEF Init
<1>3. ASSUME NEW e \in Ids
      PROVE  /\ rows[e].row = "none" => rows[e].edits = 0
             /\ rows[e].edits + Cardinality(Pending(e)) <= MaxEdits
             /\ RevisionsBelow(e)
  <2>1. Pending(e) = {}
    BY <1>1, <1>2, IdleIsBounded DEF Pending
  <2>2. Cardinality(Pending(e)) = 0
    BY <2>1, FS_EmptySet
  <2>3. rows[e].edits = 0 /\ revs[e] = <<>>
    BY DEF Init, NoRow
  <2> QED
    BY <2>2, <2>3, EntitiesAssumption DEF RevisionsBelow
<1>4. \A p \in Procs, r \in RequestShape : req[p] = r => Bounded(r)
  BY <1>1, <1>2, IdleIsBounded
<1> QED
  BY <1>3, <1>4 DEF NumbersInv, Init

LEMMA NumbersInvInductive ==
  ASSUME EntityInv, NumbersInv, [Next]_vars
  PROVE  NumbersInv'
<1>1. ASSUME NEW p \in Procs, NEW e \in Ids, NEW input \in Writes, BeginWrite(p, e, input)
      PROVE  NumbersInv'
  BY <1>1, BeginWriteNumbers
<1>2. ASSUME NEW p \in Procs, NEW e \in Ids, NEW ask \in Edits, BeginUpdate(p, e, ask)
      PROVE  NumbersInv'
  BY <1>2, BeginUpdateNumbers
<1>3. ASSUME NEW p \in Procs, InsertEntity(p)
      PROVE  NumbersInv'
  BY <1>3, InsertNumbers
<1>4. ASSUME NEW p \in Procs, RecordRevision(p) \/ Resume(p)
      PROVE  NumbersInv'
  BY <1>4, RevisionNumbers
<1>5. ASSUME NEW p \in Procs, ApplyUpdate(p)
      PROVE  NumbersInv'
  BY <1>5, ApplyNumbers
<1>6. ASSUME NEW p \in Procs, InsertEdge(p) \/ Crash(p)
      PROVE  NumbersInv'
  <2>1. Finish(p) /\ UNCHANGED <<rows, revs, tainted>>
    BY <1>6 DEF InsertEdge, Crash
  <2>2. PICK q \in RequestShape : q = req[p] /\ Bounded(q)
    BY DEF EntityInv, Shape, NumbersInv
  <2>3. PICK parent : parent = IF q.ask = None THEN q.row.parent ELSE q.ask.parent
    OBVIOUS
  <2>4. edges' = edges \/ (q.pc = "edge" /\ edges' = edges \cup {<<parent, q.id>>})
    BY <1>6, <2>2, <2>3 DEF InsertEdge, Crash
  <2>5. edges' \subseteq Ids \X Ids /\ tainted' \subseteq Ids
    BY <2>1, <2>2, <2>3, <2>4 DEF NumbersInv, Bounded
  <2> QED
    BY <2>1, <2>5, FinishNumbers
<1>7. ASSUME NEW e \in Ids, Trash(e) \/ Restore(e) \/ Purge(e)
      PROVE  NumbersInv'
  BY <1>7, RemovalNumbers
<1>8. CASE UNCHANGED vars
  BY <1>8 DEF vars, NumbersInv, Bounded, Pending, RevisionsBelow, Exists, Updating
<1> QED
  BY <1>1, <1>2, <1>3, <1>4, <1>5, <1>6, <1>7, <1>8 DEF Next

LEMMA NumbersAlways == Spec => [](EntityInv /\ NumbersInv)
BY EntityInvInit, EntityInvInductive, NumbersInvInit, NumbersInvInductive, PTL DEF Spec

\* Rows, history, edges and requests keep their shape, and no revision has a
\* higher number than its entity has had updates, however updates that number
\* them overlap, fail and are purged (entities.ts, revisions.ts).
THEOREM ShapesHold == Spec => []EntitiesTypeOK
<1>1. ASSUME EntityInv, NumbersInv PROVE EntitiesTypeOK
  <2>1. ASSUME NEW e \in Ids
        PROVE  rows[e] \in Row /\ rows[e].edits \in 0 .. MaxEdits
    <3>1. rows[e] \in RowShape /\ rows[e].edits \in Nat
      BY <1>1 DEF EntityInv, Shape, RowShape
    <3>2. Cardinality(Pending(e)) \in Nat
      BY PendingIsFinite DEF Pending
    <3>3. rows[e].edits + Cardinality(Pending(e)) <= MaxEdits
      BY <1>1 DEF NumbersInv
    <3>4. rows[e].edits \in 0 .. MaxEdits
      BY <3>1, <3>2, <3>3, EntitiesAssumption
    <3> QED
      BY <3>1, <3>4 DEF RowShape, Row
  <2>2. rows \in [Ids -> Row]
    BY <1>1, <2>1 DEF EntityInv, Shape
  <2>3. ASSUME NEW e \in Ids
        PROVE  /\ DOMAIN revs[e] \subseteq 1 .. MaxEdits
               /\ \A n \in DOMAIN revs[e] : revs[e][n] \in Contents
    <3>1. \A n \in DOMAIN revs[e] : n \in 1 .. rows[e].edits /\ revs[e][n] \in Contents
      BY <1>1 DEF NumbersInv, RevisionsBelow
    <3> QED
      BY <2>1, <3>1, EntitiesAssumption
  <2>4. ASSUME NEW p \in Procs
        PROVE  req[p] \in Request
    <3>1. PICK r \in RequestShape : r = req[p] /\ r.row.edits = 0 /\ r.rev <= MaxEdits
      BY <1>1 DEF EntityInv, Shape, NumbersInv, Bounded
    <3>2. r.row \in Row
      <4>1. PICK row \in RowShape : row = r.row
        BY DEF RequestShape
      <4>2. row.edits \in 0 .. MaxEdits
        BY <3>1, <4>1, EntitiesAssumption
      <4> QED
        BY <4>1, <4>2 DEF RowShape, Row
    <3>3. r.rev \in 0 .. MaxEdits
      BY <3>1, EntitiesAssumption DEF RequestShape
    <3> QED
      BY <3>1, <3>2, <3>3 DEF RequestShape, Request
  <2>5. req \in [Procs -> Request]
    BY <1>1, <2>4 DEF EntityInv, Shape
  <2>6. DOMAIN revs = Ids /\ edges \subseteq Ids \X Ids /\ tainted \subseteq Ids
    BY <1>1 DEF EntityInv, Shape, NumbersInv
  <2> QED
    BY <2>2, <2>3, <2>5, <2>6 DEF EntitiesTypeOK
<1> QED
  BY <1>1, NumbersAlways, PTL

=============================================================================
