------------------------------ MODULE Transfer ------------------------------
(***************************************************************************)
(* A workspace written to a file of JSON lines and read back into another  *)
(* one (service/transfer.ts).                                              *)
(*                                                                         *)
(* A row, and the line it becomes, is a record                             *)
(*    [type, id, key, needs, link]                                         *)
(* key is what the table's unique index is about (NoKey where it has none  *)
(* for this row), needs the rows the importer wants in the workspace, link *)
(* a reference that may be empty: the parent of an entity, the current     *)
(* occurrence of a rule, the entity of an exception.  Columns that no step *)
(* looks at are left out, the vector and the token of a row among them.    *)
(* Ids are numbers in the order the pages are read in.                     *)
(*                                                                         *)
(* The export reads page by page while the source goes on changing; the    *)
(* import takes batches, each of them looked up by SELECTs and then        *)
(* inserted by one statement, while others write to the target.  It may be *)
(* cut off anywhere, and is then run again from the first line.            *)
(***************************************************************************)
EXTENDS Integers, FiniteSets, Sequences

CONSTANTS
    Universe,     \* rows the source may come to have
    Sources,      \* what it may have when the export begins
    Targets,      \* what the target database may hold: [here, other]
    Squatters,    \* rows others may insert into the target meanwhile
    Batch,        \* rows per page and per batch (500 in the code)
    MaxChanges,   \* bound on changes by others
    MaxAttempts,  \* bound on runs of the import
    NoKey, NoLink

VARIABLES
    source,    \* rows of the exported workspace
    table,     \* the table being exported: its place in RecordTypes
    after,     \* the cursor of its pages
    dump,      \* the lines written so far
    target,    \* [here, other]: rows of this workspace and of others
    status,    \* of the transfer
    pos,       \* lines the importer has taken
    judged,    \* [insert, skip, conflict] of the batch at hand, or {}
    skipped, conflicts,   \* ids counted so far (the report)
    stamps,    \* importedProjectStamps
    touched,   \* projects whose updated_at a trigger has set to now
    removed,   \* ids others deleted from the target during this run (history)
    changes, attempts   \* bounded counters

transferVars == <<source, table, after, dump, target, status, pos, judged, skipped,
          conflicts, stamps, touched, removed, changes, attempts>>

\* Dependency order: a row's type comes after those of the rows it needs.
RecordTypes == <<"project", "entity", "edge", "recurrence_rule",
                 "recurrence_exception", "entity_revision", "settings">>

\* What a line of each type must carry, and what it may leave out.
Required == [project |-> {0}, entity |-> {0, 1}, edge |-> {1, 2}, recurrence_rule |-> {1},
             recurrence_exception |-> {1}, entity_revision |-> {1}, settings |-> {0}]
LinkedTo == {"entity", "recurrence_rule", "recurrence_exception"}

RecordOK(r) ==
    /\ r = [type |-> r.type, id |-> r.id, key |-> r.key, needs |-> r.needs, link |-> r.link]
    /\ r.type \in DOMAIN Required /\ r.id \in Nat \ {0}
    /\ IsFiniteSet(r.needs) /\ Cardinality(r.needs) \in Required[r.type]
    /\ r.link # NoLink => r.type \in LinkedTo
    /\ r.type = "edge" => r.key = NoKey
    /\ r.type = "project" => r.key # NoKey

\* The table a foreign key that may not be empty leads to.
Needed == [entity |-> "project", edge |-> "entity", recurrence_rule |-> "entity",
           recurrence_exception |-> "recurrence_rule", entity_revision |-> "entity"]

Ids(rows) == {r.id : r \in rows}
OfType(rows, t) == {r \in rows : r.type = t}
References(r) == r.needs \cup (IF r.link = NoLink THEN {} ELSE {r.link})

\* Those that stay in the workspace of the row: all but the parent of an entity.
Scoped(r) == IF r.type = "entity" THEN r.needs ELSE References(r)

\* The rows an export can come upon, and those of all workspaces.
ExportedRows == Universe \cup UNION Sources

AllRows == ExportedRows \cup Squatters \cup UNION {t.here \cup t.other : t \in Targets}

\* An id names a row of one table, and a foreign key leads to one table.
ASSUME RowsAssumption ==
    /\ \A r \in AllRows : RecordOK(r)
    /\ \A q, r \in AllRows :
           /\ q.id = r.id => q.type = r.type
           /\ q.id \in r.needs => r.type \in DOMAIN Needed /\ q.type = Needed[r.type]
           /\ q.id = r.link => q.type = "entity"

\* The indexes and the foreign keys of what is exported hold at the start.
ASSUME SourcesAssumption ==
    \A rows \in Sources : \A q, r \in rows :
        /\ q.id = r.id \/ (q.type = r.type /\ q.key = r.key /\ q.key # NoKey) => q = r
        /\ References(r) \subseteq Ids(rows)

\* A workspace has one row of settings, and shares no row with another.  The
\* indexes of the target hold at the start too.
ASSUME WorkspacesAssumption ==
    /\ \A q, r \in OfType(ExportedRows, "settings") : q.id = r.id
    /\ \A t \in Targets :
           /\ t = [here |-> t.here, other |-> t.other]
           /\ Ids(t.here \cup OfType(ExportedRows, "settings")) \cap Ids(t.other) = {}
           /\ \A r \in t.here : Scoped(r) \subseteq Ids(t.here)
           /\ \A q, r \in t.here \cup t.other : q.id = r.id => q = r
           /\ \A q, r \in t.here : q.type = r.type /\ q.key = r.key /\ q.key # NoKey => q = r

ASSUME BoundsAssumption ==
    Batch \in Nat \ {0} /\ MaxAttempts \in Nat \ {0} /\ MaxChanges \in Nat

Unlinked(r) == [type |-> r.type, id |-> r.id, key |-> r.key, needs |-> r.needs, link |-> NoLink]

\* ON DELETE CASCADE for what a row needs, SET NULL for its link.
Purge(rows, id) ==
    LET direct == {r \in rows : r.id # id /\ id \notin r.needs}
        kept == {r \in direct : r.needs \cap (Ids(rows) \ Ids(direct)) = {}}
    IN  {IF r.link \in Ids(rows) \ Ids(kept) THEN Unlinked(r) ELSE r : r \in kept}

TransferInit ==
    /\ source \in Sources
    /\ table = 1 /\ after = 0 /\ dump = <<>>
    /\ target \in Targets
    /\ status = "exporting" /\ pos = 0 /\ judged = {}
    /\ skipped = {} /\ conflicts = {} /\ stamps = {} /\ touched = {}
    /\ removed = {} /\ changes = 0 /\ attempts = 0

importVars == <<target, pos, judged, skipped, conflicts, stamps, touched, removed, attempts>>
exportVars == <<source, table, after, dump>>

-----------------------------------------------------------------------------
(* Export                                                                  *)

Rest(t, cursor) == {r \in OfType(source, t) : r.id > cursor}

\* The first Batch rows, or as many as there are, in the order of their ids.
FirstRows(rows) ==
    {page \in UNION {[1..n -> rows] : n \in 0..Batch} :
        /\ \A i, j \in DOMAIN page : i < j => page[i].id < page[j].id
        /\ \A r \in rows :
               \/ \E i \in DOMAIN page : page[i] = r
               \/ Len(page) = Batch /\ r.id > page[Batch].id}

\* Mutant: a page that is not full is taken for the end.
PagesFull(t, cursor) ==
    {IF Len(page) < Batch THEN <<>> ELSE page : page \in FirstRows(Rest(t, cursor))}

\* pages: the next Batch rows after the cursor; a short page is the last.
Pages(t, cursor) == FirstRows(Rest(t, cursor))

ExportPage ==
    /\ status = "exporting" /\ table <= Len(RecordTypes)
    /\ \E page \in Pages(RecordTypes[table], after) :
           /\ dump' = dump \o page
           /\ IF Len(page) < Batch
              THEN table' = table + 1 /\ after' = 0
              ELSE table' = table /\ after' = page[Batch].id
    /\ UNCHANGED <<source, status, changes>> /\ UNCHANGED importVars

ExportEnds ==
    /\ status = "exporting" /\ table > Len(RecordTypes)
    /\ status' = "ready"
    /\ UNCHANGED changes /\ UNCHANGED exportVars /\ UNCHANGED importVars

\* Others write to the source, or delete from it, between two pages.
SourceChanges ==
    /\ status = "exporting" /\ changes < MaxChanges
    /\ changes' = changes + 1
    /\ \/ \E r \in Universe : /\ r.id \notin Ids(source)
                              /\ References(r) \subseteq Ids(source)
                              /\ source' = source \cup {r}
       \/ \E r \in OfType(source, "entity") : source' = Purge(source, r.id)
    /\ UNCHANGED <<table, after, dump, status>> /\ UNCHANGED importVars

\* Fault: the file is cut; the line it ends in is not JSON.
Garbage == [type |-> "garbage", id |-> 0, key |-> NoKey, needs |-> {}, link |-> NoLink]

LosesItsEnd ==
    /\ status = "ready" /\ attempts = 0 /\ changes < MaxChanges
    /\ changes' = changes + 1
    /\ \E n \in 0..(Len(dump) - 1) : dump' = Append(SubSeq(dump, 1, n), Garbage)
    /\ UNCHANGED <<source, table, after, status>> /\ UNCHANGED importVars

-----------------------------------------------------------------------------
(* Import: what the SELECTs of a batch decide                              *)

Here(rows) == {r \in rows : r.id \in Ids(target.here)}
Elsewhere(rows) == {r \in rows : r.id \in Ids(target.other)}

Entities == Ids(OfType(target.here, "entity"))

Judge(skip, conflict, insert) == [skip |-> skip, conflict |-> conflict, insert |-> insert]

\* A row of this workspace is skipped, one of another is a conflict; of the
\* rest those that are refused are conflicts too.
PartitionExisting(rows, refused) ==
    LET fresh == rows \ (Here(rows) \cup Elsewhere(rows))
    IN  Judge(Here(rows), Elsewhere(rows) \cup (fresh \cap refused), fresh \ refused)

ClearUnknownLink(r) == IF r.link \in Entities THEN r ELSE Unlinked(r)

JudgeProjects(rows) ==
    LET taken == {q.key : q \in OfType(target.here, "project")}
    IN  PartitionExisting(rows, {r \in rows : r.key \in taken})

\* The project of an entity is looked for, its parent is not.
JudgeEntities(rows) ==
    LET known == Ids(OfType(target.here, "project"))
    IN  PartitionExisting(rows, {r \in rows : ~ r.needs \subseteq known})

\* Edges have no id of their own: what is there already shows at the insert.
JudgeEdges(rows) ==
    LET bad == {r \in rows : ~ r.needs \subseteq Entities}
    IN  Judge({}, bad, rows \ bad)

JudgeRules(rows) ==
    LET j == PartitionExisting(rows, {r \in rows : ~ r.needs \subseteq Entities})
    IN  [j EXCEPT !.insert = {ClearUnknownLink(r) : r \in @}]

\* Exceptions and revisions are looked up without their workspace.
SkipKnown(rows, known) ==
    LET skip == Here(rows) \cup Elsewhere(rows)
        bad == {r \in rows \ skip : ~ r.needs \subseteq known}
    IN  Judge(skip, bad, rows \ (skip \cup bad))

JudgeExceptions(rows) ==
    LET j == SkipKnown(rows, Ids(OfType(target.here, "recurrence_rule")))
    IN  [j EXCEPT !.insert = {ClearUnknownLink(r) : r \in @}]

JudgeRevisions(rows) == SkipKnown(rows, Entities)

JudgeSettings(rows) == Judge({}, {}, rows)

JudgeBatch(rows) ==
    CASE \A r \in rows : r.type = "project" -> JudgeProjects(rows)
      [] \A r \in rows : r.type = "entity" -> JudgeEntities(rows)
      [] \A r \in rows : r.type = "edge" -> JudgeEdges(rows)
      [] \A r \in rows : r.type = "recurrence_rule" -> JudgeRules(rows)
      [] \A r \in rows : r.type = "recurrence_exception" -> JudgeExceptions(rows)
      [] \A r \in rows : r.type = "entity_revision" -> JudgeRevisions(rows)
      [] OTHER -> JudgeSettings(rows)

-----------------------------------------------------------------------------
(* Import: the run                                                         *)

\* A run starts with an empty report and at the first line; the same dump
\* may be imported again.
Begin ==
    /\ status \in {"ready", "crashed", "failed", "rejected", "done"} /\ attempts < MaxAttempts
    /\ attempts' = attempts + 1
    /\ status' = "reading" /\ pos' = 0
    /\ judged' = {} /\ skipped' = {} /\ conflicts' = {} /\ stamps' = {}
    /\ removed' = {}
    /\ UNCHANGED <<target, touched, changes>> /\ UNCHANGED exportVars

\* The lines that are flushed together: of one type, at most Batch of them.
Together(n) ==
    pos + n <= Len(dump) /\ \A i \in 1..n : dump[pos + i].type = dump[pos + 1].type
Most == CHOOSE n \in 1..Batch : Together(n) /\ \A m \in (n + 1)..Batch : ~ Together(m)

Buffer == {dump[pos + i] : i \in 1..Most}

\* The line after a batch is parsed before the batch is flushed.
NextLine == pos + Most + 1

GarbageAhead ==
    \/ dump[pos + 1] = Garbage
    \/ NextLine <= Len(dump) /\ dump[NextLine] = Garbage

LookUp ==
    /\ status = "reading" /\ pos < Len(dump) /\ ~ GarbageAhead
    /\ judged' = JudgeBatch(Buffer)
    /\ pos' = pos + Most
    /\ status' = "holding"
    /\ UNCHANGED <<target, skipped, conflicts, stamps, touched, removed, changes, attempts>>
    /\ UNCHANGED exportVars

\* A line that cannot be read ends the run with a 400: what was flushed
\* stays, and the rows still in the buffer are dropped.
Reject ==
    /\ status = "reading" /\ pos < Len(dump) /\ GarbageAhead
    /\ status' = "rejected"
    /\ UNCHANGED changes /\ UNCHANGED importVars /\ UNCHANGED exportVars

\* Mutant: the unique key is not looked at.
CollidesById(r) == r.id \in Ids(target.here \cup target.other)

\* ON CONFLICT DO NOTHING: a row whose id or unique key is taken is left out.
Collides(r) ==
    \/ r.id \in Ids(target.here \cup target.other)
    \/ r.key # NoKey /\ \E q \in target.here : q.type = r.type /\ q.key = r.key

Inserted(rows) ==
    LET ok == {r \in rows : ~ Collides(r)}
    IN  {r \in ok : r.key = NoKey \/ ~ \E q \in ok : q.id < r.id /\ q.key = r.key}

\* Foreign keys are looked at when the statement ends, in every workspace.
ForeignKeysHold(rows) ==
    \A r \in rows : References(r) \subseteq Ids(target.here \cup target.other \cup rows)

\* Mutant: what the insert left out is not reported.
SettleSilently ==
    LET rows == judged.insert
        new == IF \E r \in rows : r.type = "settings" THEN rows ELSE Inserted(rows)
    IN  /\ ForeignKeysHold(new)
        /\ target' = [target EXCEPT !.here =
               {q \in @ : q.type # "settings" \/ OfType(new, "settings") = {}} \cup new]
        /\ skipped' = skipped \cup Ids(judged.skip)
        /\ conflicts' = conflicts \cup Ids(judged.conflict)
        /\ stamps' = stamps \cup Ids(OfType(new, "project"))
        /\ touched' = touched \cup UNION {r.needs : r \in OfType(new, "entity")}

\* settings is an upsert of the one row; all else is insert, then settle:
\* what the statement did not return is a conflict, or for edges skipped.
Settle ==
    LET rows == judged.insert
        new == IF \E r \in rows : r.type = "settings" THEN rows ELSE Inserted(rows)
        lost == Ids(rows) \ Ids(new)
        edges == OfType(rows, "edge") # {}
    IN  /\ ForeignKeysHold(new)
        /\ target' = [target EXCEPT !.here =
               {q \in @ : q.type # "settings" \/ OfType(new, "settings") = {}} \cup new]
        /\ skipped' = skipped \cup Ids(judged.skip) \cup (IF edges THEN lost ELSE {})
        /\ conflicts' = conflicts \cup Ids(judged.conflict) \cup (IF edges THEN {} ELSE lost)
        /\ stamps' = stamps \cup Ids(OfType(new, "project"))
        \* the trigger that numbers an entity updates its project
        /\ touched' = touched \cup UNION {r.needs : r \in OfType(new, "entity")}

Flush ==
    /\ status = "holding" /\ Settle
    /\ status' = "reading" /\ judged' = {}
    /\ UNCHANGED <<pos, removed, changes, attempts>> /\ UNCHANGED exportVars

\* A foreign key that fails is an error of the statement, and of the run.
FlushFails ==
    /\ status = "holding" /\ ~ ForeignKeysHold(Inserted(judged.insert))
    /\ status' = "failed" /\ judged' = {}
    /\ UNCHANGED <<target, pos, skipped, conflicts, stamps, touched, removed, changes, attempts>>
    /\ UNCHANGED exportVars

\* finish puts the exported timestamps of the projects back.
PutStampsBack == touched' = touched \ stamps

Finish ==
    /\ status = "reading" /\ pos = Len(dump)
    /\ PutStampsBack
    /\ status' = "done"
    /\ UNCHANGED <<target, pos, judged, skipped, conflicts, stamps, removed, changes, attempts>>
    /\ UNCHANGED exportVars

\* Fault: the daemon stops, or the connection is lost, between statements.
Crash ==
    /\ status \in {"reading", "holding"} /\ attempts < MaxAttempts
    /\ status' = "crashed" /\ judged' = {}
    /\ UNCHANGED <<target, pos, skipped, conflicts, stamps, touched, removed, changes, attempts>>
    /\ UNCHANGED exportVars

\* Others insert rows into the target, or purge an entity of it.
TargetChanges ==
    /\ status \in {"reading", "holding", "crashed"} /\ changes < MaxChanges
    /\ changes' = changes + 1
    /\ \/ \E r \in Squatters :
             /\ ~ Collides(r) /\ References(r) \subseteq Ids(target.here)
             /\ target' = [target EXCEPT !.here = @ \cup {r}]
             /\ UNCHANGED removed
       \/ \E r \in OfType(target.here, "entity") :
             /\ target' = [target EXCEPT !.here = Purge(@, r.id)]
             /\ removed' = removed \cup (Ids(target.here) \ Ids(target'.here))
    /\ UNCHANGED <<status, pos, judged, skipped, conflicts, stamps, touched, attempts>>
    /\ UNCHANGED exportVars

TransferNext ==
    \/ ExportPage \/ ExportEnds \/ SourceChanges \/ LosesItsEnd
    \/ Begin \/ LookUp \/ Reject \/ Flush \/ FlushFails \/ Finish \/ Crash
    \/ TargetChanges

TransferSpec == TransferInit /\ [][TransferNext]_transferVars

-----------------------------------------------------------------------------
(* Properties                                                              *)

Stages == {"exporting", "ready", "reading", "holding", "done", "crashed", "failed", "rejected"}

\* Types, and the indexes of the database: no two rows of the target have
\* one id, and no two of one type the same unique key.
TransferTypeOK ==
    /\ status \in Stages /\ pos \in 0..Len(dump)
    /\ \A i \in 1..Len(dump) : dump[i] \in ExportedRows \cup {Garbage} \/ dump[i].link = NoLink
    /\ skipped \cup conflicts \subseteq Ids({dump[i] : i \in 1..Len(dump)})
    /\ \A q, r \in target.here \cup target.other : q.id = r.id => q = r
    /\ \A q, r \in target.here : q.type = r.type /\ q.key = r.key /\ q.key # NoKey => q = r

\* What an edge, a rule, an exception or a revision of the workspace refers
\* to is a row of that workspace, never of another one with which an id of
\* the dump collides, also when rows disappear between a lookup and its
\* insert (entityIdsInScope and its callers).
LinksStayHere == \A r \in target.here : Scoped(r) \subseteq Ids(target.here)

\* A dump that nobody disturbed, read into an empty workspace in one run or
\* in several, makes the source again, links and all
\* (tests/transfer.test.ts:173).
Undisturbed == changes = 0 /\ target.other = {} /\ Ids(target.here) \subseteq Ids(Universe)

RoundTrip ==
    status = "done" =>
        /\ stamps \cap touched = {}
        /\ Undisturbed => target.here = source /\ conflicts = {}

\* What an import leaves is whole, and what the dump held.
ImportIsSound == LinksStayHere /\ RoundTrip

\* The transfer implements Copy: nothing is brought that was not in the
\* dump, nothing that was brought is changed or lost again by the importer,
\* and a report accounts for every line (transfer.ts, importWorkspace).
Lines == {dump[i] : i \in 1..Len(dump)} \ {Garbage}
Abstract == INSTANCE Copy WITH
    offered <- Ids(Lines),
    have <- Ids(Lines) \cap Ids(target.here),
    refused <- conflicts \cup (skipped \cap Ids(target.other)),
    removed <- removed \cap Ids(Lines),
    stage <- IF attempts = 0 THEN "offering" ELSE IF status = "done" THEN "finished" ELSE "running"
IsCopy == Abstract!CopySpec

\* "Rows owned by another workspace ... are reported as conflicts and left
\* out" (transfer.ts:753).
ForeignIsReported == status = "done" => Ids(Lines) \cap Ids(target.other) \subseteq conflicts

\* "Rows ... whose parent row is missing, are reported as conflicts and left
\* out rather than aborting the import" (transfer.ts, importWorkspace).
MissingParentIsReported == status # "failed"
=============================================================================
