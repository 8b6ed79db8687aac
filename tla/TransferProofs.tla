--------------------------- MODULE TransferProofs ---------------------------
(***************************************************************************)
(* Proofs about Transfer: it implements Copy, and what the rows of the     *)
(* workspace refer to stays in the workspace.                              *)
(*                                                                         *)
(* For the first, every line the importer has taken is accounted for at    *)
(* every moment, the lines of the batch it holds among them.  For the      *)
(* second, a batch refers to no row of another workspace from its lookup   *)
(* on: foreign keys are looked at in every workspace, and this is what     *)
(* makes them hold in the one.                                             *)
(*                                                                         *)
(* For the types, that every line is once in the dump and every row once in *)
(* the database: the ids and the keys of the rows that are there before    *)
(* differ, and a batch inserts nothing that is there (LinesOnce, HeldOnce, *)
(* IndexesOK).  Transfer and Views share no state, and steps of the two    *)
(* together are steps of each (WorkspaceIsBoth).                           *)
(***************************************************************************)
EXTENDS MCWorkspace, ViewsProofs

\* Rows as they were written, or without their link.
Known(rows) == rows \cup {Unlinked(r) : r \in rows}

LinesOK == dump \in Seq(Known(ExportedRows) \cup {Garbage})

RowsKnown ==
  /\ source \subseteq Known(ExportedRows) /\ LinesOK
  /\ target = [here |-> target.here, other |-> target.other]
  /\ target.here \subseteq Known(AllRows) /\ target.other \subseteq AllRows

\* Nothing has been imported before the first run, and a run takes lines in
\* order.
RunOK ==
  /\ status \in Stages /\ table \in Nat /\ pos \in 0..Len(dump) /\ attempts \in Nat
  /\ status \in {"exporting", "ready"} => attempts = 0
  /\ attempts = 0 => /\ status \in {"exporting", "ready"} /\ pos = 0
                     /\ skipped = {} /\ conflicts = {} /\ removed = {}

Held == Ids(judged.skip \cup judged.conflict \cup judged.insert)

\* What a lookup decided: rows of one type, about lines of the dump.  A row
\* that was here is here, or was removed since.
BatchOK ==
  /\ judged = Judge(judged.skip, judged.conflict, judged.insert)
  /\ judged.insert \subseteq Known(ExportedRows)
  /\ \A q, r \in judged.insert : q.type = r.type
  /\ Held \subseteq Ids(Lines)
  /\ Ids(judged.skip) \subseteq Ids(target.here) \cup removed \cup Ids(target.other)

\* Lines the importer is done with.
Settled == Ids(target.here) \cup removed \cup conflicts \cup (skipped \cap Ids(target.other))

Accounted ==
  \A i \in 1..pos : dump[i] # Garbage =>
      dump[i].id \in Settled \cup (IF status = "holding" THEN Held ELSE {})

CopyInv ==
  /\ RowsKnown /\ RunOK
  /\ status = "holding" => BatchOK
  /\ conflicts \cup skipped \subseteq Ids(Lines)
  /\ status \in {"reading", "holding"} => Accounted

\* No row is in two workspaces, and what a batch will insert refers to no
\* row of another one.
ScopeInv ==
  /\ Ids(target.here) \cap Ids(target.other) = {}
  /\ Ids(OfType(ExportedRows, "settings")) \cap Ids(target.other) = {}
  /\ LinksStayHere
  /\ status = "holding" => \A r \in judged.insert : Scoped(r) \cap Ids(target.other) = {}
-----------------------------------------------------------------------------
(* Rows.                                                                   *)

LEMMA KnownRow ==
  ASSUME NEW rows, NEW r \in Known(rows)
  PROVE  /\ \E q \in rows : /\ r.type = q.type /\ r.id = q.id /\ r.key = q.key
                            /\ r.needs = q.needs /\ r.link \in {q.link, NoLink}
         /\ Unlinked(r) \in Known(rows)
BY DEF Known, Unlinked

LEMMA ExportedAreKnown == Known(ExportedRows) \subseteq Known(AllRows)
BY DEF Known, AllRows

\* An id names a row of one table, whatever became of its link; edges have no
\* key besides.
LEMMA KnownRowTyped ==
  ASSUME NEW q \in Known(AllRows), NEW r \in Known(AllRows)
  PROVE  /\ r.type \in DOMAIN Required /\ r.id # 0
         /\ r.type = "edge" => r.key = NoKey
         /\ q.id = r.id => q.type = r.type
<1>1. PICK r0 \in AllRows : r.type = r0.type /\ r.id = r0.id /\ r.key = r0.key
  BY KnownRow
<1>2. PICK q0 \in AllRows : q.type = q0.type /\ q.id = q0.id
  BY KnownRow
<1>3. RecordOK(r0) /\ (q0.id = r0.id => q0.type = r0.type)
  BY RowsAssumption
<1> QED
  BY <1>1, <1>2, <1>3 DEF RecordOK

LEMMA GarbageIsNoRow == \A r \in Known(AllRows) : r # Garbage /\ r.type # "garbage"
BY KnownRowTyped DEF Garbage, Required

LEMMA OneRowOfSettings ==
  ASSUME NEW q \in Known(ExportedRows), NEW r \in Known(ExportedRows),
         q.type = "settings", r.type = "settings"
  PROVE  q.id = r.id
<1>1. PICK r0 \in ExportedRows : r.type = r0.type /\ r.id = r0.id
  BY KnownRow
<1>2. PICK q0 \in ExportedRows : q.type = q0.type /\ q.id = q0.id
  BY KnownRow
<1> QED
  BY <1>1, <1>2, WorkspacesAssumption DEF OfType

LEMMA PurgeKeepsRows ==
  ASSUME NEW S, NEW rows, rows \subseteq Known(S), NEW id
  PROVE  Purge(rows, id) \subseteq Known(S) /\ Ids(Purge(rows, id)) \subseteq Ids(rows)
<1>1. ASSUME NEW p \in Purge(rows, id)
      PROVE  \E r \in rows : p \in {r, Unlinked(r)}
  BY DEF Purge
<1>2. \A r : Unlinked(r).id = r.id
  BY DEF Unlinked
<1> QED
  BY <1>1, <1>2, KnownRow DEF Ids

LEMMA LinesAreKnown ==
  ASSUME LinesOK
  PROVE  /\ Lines \subseteq Known(ExportedRows)
         /\ \A i \in 1..Len(dump) : dump[i] # Garbage => dump[i] \in Lines
         /\ \A i \in 1..Len(dump) : dump[i] \in Known(ExportedRows) \cup {Garbage}
BY DEF LinesOK, Lines

-----------------------------------------------------------------------------
(* The batch a lookup takes.                                               *)

\* A buffer has a last line, and it is one of the lines that go together.
LEMMA MostIsDefined ==
  ASSUME RunOK, LinesOK, pos < Len(dump)
  PROVE  Most \in 1..Batch /\ Together(Most)
<1> DEFINE gaps == {Batch - n : n \in {k \in 1..Batch : Together(k)}}
<1>1. Batch \in Nat \ {0} /\ pos \in Nat /\ Len(dump) \in Nat
  BY BoundsAssumption DEF RunOK, LinesOK
<1>2. Together(1)
  BY <1>1 DEF Together
<1>3. gaps \subseteq Nat /\ gaps # {}
  BY <1>1, <1>2
<1>4. PICK g \in gaps : \A h \in gaps : g <= h
  <2> HIDE DEF gaps
  <2> QED BY <1>3, LeastExists
<1>5. PICK n \in 1..Batch : g = Batch - n /\ Together(n)
  OBVIOUS
<1>6. ASSUME NEW m \in (n + 1)..Batch
      PROVE  ~ Together(m)
  <2>1. SUFFICES ASSUME Together(m) PROVE FALSE
    OBVIOUS
  <2>2. m \in 1..Batch /\ Batch - m < g
    BY <1>1, <1>5
  <2>3. Batch - m \in gaps
    BY <2>1, <2>2
  <2>4. g <= Batch - m
    <3> HIDE DEF gaps
    <3> QED BY <1>4, <2>3
  <2> QED
    BY <1>1, <1>5, <2>2, <2>4
<1> QED
  BY <1>5, <1>6 DEF Most

LEMMA BufferIsOfOneType ==
  ASSUME RunOK, LinesOK, pos < Len(dump), ~ GarbageAhead
  PROVE  /\ Buffer \subseteq Lines /\ Buffer # {}
         /\ pos + Most \in pos..Len(dump)
         /\ \A i \in pos + 1..pos + Most : dump[i] \in Buffer
         /\ \A q, r \in Buffer : q.type = r.type
<1>1. Most \in 1..Batch /\ Together(Most)
  BY MostIsDefined
<1>2. Batch \in Nat \ {0} /\ pos \in Nat /\ Len(dump) \in Nat
  BY BoundsAssumption DEF RunOK, LinesOK
<1>3. pos + Most \in pos..Len(dump) /\ Most \in Nat \ {0}
  BY <1>1, <1>2 DEF Together
<1>4. ASSUME NEW i \in 1..Most
      PROVE  dump[pos + i].type = dump[pos + 1].type /\ dump[pos + i] \in Lines
  <2>1. dump[pos + i].type = dump[pos + 1].type
    BY <1>1, <1>2, <1>3 DEF Together
  <2>2. dump[pos + 1] # Garbage
    BY DEF GarbageAhead
  <2>3. dump[pos + 1] \in Known(AllRows)
    BY <1>2, <1>3, <2>2, LinesAreKnown, ExportedAreKnown
  <2>4. dump[pos + i] # Garbage
    BY <2>1, <2>3, GarbageIsNoRow DEF Garbage
  <2> QED
    BY <1>2, <1>3, <2>1, <2>4, LinesAreKnown
<1>5. ASSUME NEW i \in pos + 1..pos + Most
      PROVE  dump[i] \in Buffer
  <2>1. i - pos \in 1..Most /\ i = pos + (i - pos)
    BY <1>2, <1>3
  <2> QED
    BY <2>1 DEF Buffer
<1> QED
  BY <1>3, <1>4, <1>5 DEF Buffer
-----------------------------------------------------------------------------
(* What a lookup decides.                                                  *)

\* Every row is skipped, refused or inserted, with its link or without it,
\* and one that is skipped is in the database.
Sound(j, rows) ==
  /\ j = Judge(j.skip, j.conflict, j.insert)
  /\ \A r \in j.insert : r \in rows \cup {Unlinked(q) : q \in rows}
  /\ Ids(j.skip \cup j.conflict \cup j.insert) = Ids(rows)
  /\ Ids(j.skip) \subseteq Ids(target.here) \cup Ids(target.other)

LEMMA JudgeFields ==
  ASSUME NEW a, NEW b, NEW c
  PROVE  Judge(a, b, c).skip = a /\ Judge(a, b, c).conflict = b /\ Judge(a, b, c).insert = c
BY DEF Judge

LEMMA IdsOfUnion == \A a, b : Ids(a \cup b) = Ids(a) \cup Ids(b)
BY DEF Ids

\* Three parts that make up the rows, the skipped ones of which exist.
LEMMA PartsAreSound ==
  ASSUME NEW a, NEW b, NEW c, NEW rows, a \cup b \cup c = rows,
         a \subseteq Here(rows) \cup Elsewhere(rows)
  PROVE  Sound(Judge(a, b, c), rows)
<1> DEFINE j == Judge(a, b, c)
<1>1. Ids(a) \subseteq Ids(target.here) \cup Ids(target.other)
  BY DEF Here, Elsewhere, Ids
<1>2. j.skip = a /\ j.conflict = b /\ j.insert = c
  BY JudgeFields
<1>3. j = Judge(j.skip, j.conflict, j.insert)
  BY <1>2
<1> HIDE DEF j
<1>4. Sound(j, rows)
  BY <1>1, <1>2, <1>3 DEF Sound
<1> QED
  BY <1>4 DEF j

LEMMA PartitionIsSound ==
  ASSUME NEW rows, NEW refused
  PROVE  Sound(PartitionExisting(rows, refused), rows)
<1> DEFINE fresh == rows \ (Here(rows) \cup Elsewhere(rows))
<1>1. Here(rows) \cup (Elsewhere(rows) \cup (fresh \cap refused)) \cup (fresh \ refused) = rows
  BY DEF Here, Elsewhere
<1> HIDE DEF fresh
<1>2. Sound(Judge(Here(rows), Elsewhere(rows) \cup (fresh \cap refused), fresh \ refused), rows)
  BY <1>1, PartsAreSound
<1> QED
  BY <1>2 DEF PartitionExisting, fresh

LEMMA SkipKnownIsSound ==
  ASSUME NEW rows, NEW known
  PROVE  Sound(SkipKnown(rows, known), rows)
<1> DEFINE skip == Here(rows) \cup Elsewhere(rows)
           bad == {r \in rows \ skip : ~ r.needs \subseteq known}
<1>1. skip \cup bad \cup (rows \ (skip \cup bad)) = rows
  BY DEF Here, Elsewhere
<1> HIDE DEF bad
<1>2. Sound(Judge(skip, bad, rows \ (skip \cup bad)), rows)
  BY <1>1, PartsAreSound
<1> QED
  BY <1>2 DEF SkipKnown, bad

\* A judgement stays sound when links of what it inserts are dropped.
LEMMA ClearingIsSound ==
  ASSUME NEW rows, NEW j, Sound(j, rows), j.insert \subseteq rows
  PROVE  Sound([j EXCEPT !.insert = {ClearUnknownLink(r) : r \in @}], rows)
<1> DEFINE cleared == {ClearUnknownLink(r) : r \in j.insert}
<1>1. [j EXCEPT !.insert = cleared] = Judge(j.skip, j.conflict, cleared)
  BY DEF Sound, Judge
<1>2. Ids(cleared) = Ids(j.insert)
  <2>1. \A r : ClearUnknownLink(r).id = r.id
    BY DEF ClearUnknownLink, Unlinked
  <2> QED
    BY <2>1 DEF Ids
<1>3. \A r \in cleared : r \in rows \cup {Unlinked(q) : q \in rows}
  BY DEF ClearUnknownLink
<1> DEFINE k == Judge(j.skip, j.conflict, cleared)
<1> HIDE DEF cleared
<1>4. k.skip = j.skip /\ k.conflict = j.conflict /\ k.insert = cleared
  BY JudgeFields
<1>5. k = Judge(k.skip, k.conflict, k.insert)
  BY <1>4
<1> HIDE DEF k
<1>6. Ids(k.skip \cup k.conflict \cup k.insert) = Ids(rows)
  <2>1. Ids(j.skip \cup j.conflict \cup cleared) = Ids(j.skip \cup j.conflict) \cup Ids(cleared)
    BY IdsOfUnion
  <2>2. Ids(j.skip \cup j.conflict \cup j.insert) = Ids(j.skip \cup j.conflict) \cup Ids(j.insert)
    BY IdsOfUnion
  <2> QED
    BY <1>2, <1>4, <2>1, <2>2 DEF Sound
<1>7. Sound(k, rows)
  BY <1>3, <1>4, <1>5, <1>6 DEF Sound
<1> QED
  BY <1>1, <1>7 DEF cleared, k

LEMMA InsertsAreRows ==
  ASSUME NEW rows, NEW x
  PROVE  /\ PartitionExisting(rows, x).insert \subseteq rows \ x
         /\ SkipKnown(rows, x).insert \subseteq {r \in rows : r.needs \subseteq x}
BY JudgeFields DEF PartitionExisting, SkipKnown

\* The lookup that a batch of one type gets.
LEMMA JudgedByType ==
  ASSUME NEW rows, NEW q \in rows, \A r \in rows : r.type = q.type
  PROVE  \/ q.type = "project" /\ JudgeBatch(rows) = JudgeProjects(rows)
         \/ q.type = "entity" /\ JudgeBatch(rows) = JudgeEntities(rows)
         \/ q.type = "edge" /\ JudgeBatch(rows) = JudgeEdges(rows)
         \/ q.type = "recurrence_rule" /\ JudgeBatch(rows) = JudgeRules(rows)
         \/ q.type = "recurrence_exception" /\ JudgeBatch(rows) = JudgeExceptions(rows)
         \/ q.type = "entity_revision" /\ JudgeBatch(rows) = JudgeRevisions(rows)
         \/ /\ q.type \notin DOMAIN Required \ {"settings"}
            /\ JudgeBatch(rows) = JudgeSettings(rows)
<1>1. \A t : (\A r \in rows : r.type = t) <=> q.type = t
  OBVIOUS
<1> DEFINE type == q.type
<1> HIDE DEF type
<1>2. JudgeBatch(rows) =
        CASE type = "project" -> JudgeProjects(rows)
          [] type = "entity" -> JudgeEntities(rows)
          [] type = "edge" -> JudgeEdges(rows)
          [] type = "recurrence_rule" -> JudgeRules(rows)
          [] type = "recurrence_exception" -> JudgeExceptions(rows)
          [] type = "entity_revision" -> JudgeRevisions(rows)
          [] OTHER -> JudgeSettings(rows)
  BY <1>1 DEF JudgeBatch, type
<1> QED
  BY <1>2 DEF Required, type

LEMMA LookupIsSound ==
  ASSUME NEW rows, NEW q \in rows, \A r \in rows : r.type = q.type
  PROVE  Sound(JudgeBatch(rows), rows)
<1>1. Sound(JudgeProjects(rows), rows) /\ Sound(JudgeEntities(rows), rows)
  BY PartitionIsSound DEF JudgeProjects, JudgeEntities
<1>2. Sound(JudgeEdges(rows), rows) /\ Sound(JudgeSettings(rows), rows)
  <2> DEFINE bad == {r \in rows : ~ r.needs \subseteq Entities}
  <2>1. {} \cup bad \cup (rows \ bad) = rows
    OBVIOUS
  <2> HIDE DEF bad
  <2>2. Sound(Judge({}, bad, rows \ bad), rows) /\ Sound(Judge({}, {}, rows), rows)
    BY <2>1, PartsAreSound
  <2> QED
    BY <2>2 DEF JudgeEdges, JudgeSettings, bad
<1>3. Sound(JudgeRules(rows), rows)
  <2> DEFINE bad == {r \in rows : ~ r.needs \subseteq Entities}
  <2> HIDE DEF bad
  <2>1. Sound(PartitionExisting(rows, bad), rows)
    BY PartitionIsSound
  <2> QED
    BY <2>1, InsertsAreRows, ClearingIsSound DEF JudgeRules, bad
<1>4. Sound(JudgeExceptions(rows), rows)
  <2> DEFINE known == Ids(OfType(target.here, "recurrence_rule"))
  <2> HIDE DEF known
  <2>1. Sound(SkipKnown(rows, known), rows)
    BY SkipKnownIsSound
  <2> QED
    BY <2>1, InsertsAreRows, ClearingIsSound DEF JudgeExceptions, known
<1>5. Sound(JudgeRevisions(rows), rows)
  BY SkipKnownIsSound DEF JudgeRevisions
<1> QED
  BY <1>1, <1>2, <1>3, <1>4, <1>5, JudgedByType

\* A lookup of a batch leaves what BatchOK says.
LEMMA LookupDecides ==
  ASSUME CopyInv, LookUp
  PROVE  BatchOK' /\ Held' = Ids(Buffer)
<1>1. /\ Buffer \subseteq Lines /\ Buffer # {}
      /\ \A q, r \in Buffer : q.type = r.type
  BY BufferIsOfOneType DEF CopyInv, RowsKnown, LookUp
<1>2. Sound(judged', Buffer)
  BY <1>1, LookupIsSound DEF LookUp
<1>3. Lines \subseteq Known(ExportedRows)
  BY LinesAreKnown DEF CopyInv, RowsKnown
<1>4. ASSUME NEW r \in judged'.insert
      PROVE  r \in Known(ExportedRows) /\ \E q \in Buffer : r.type = q.type
  BY <1>1, <1>2, <1>3, KnownRow DEF Sound, Unlinked
<1>5. UNCHANGED <<dump, target, removed>>
  BY DEF LookUp, exportVars
<1>6. Ids(Buffer) \subseteq Ids(Lines)
  BY <1>1 DEF Ids
<1> QED
  BY <1>1, <1>2, <1>4, <1>5, <1>6 DEF BatchOK, Held, Sound, Lines
-----------------------------------------------------------------------------
(* What an insert leaves.                                                  *)

LEMMA HeldParts == Held = Ids(judged.skip) \cup Ids(judged.conflict) \cup Ids(judged.insert)
BY DEF Held, Ids

\* The rows the statement of a batch brings, and the workspace after it.
Brought ==
  IF \E r \in judged.insert : r.type = "settings" THEN judged.insert ELSE Inserted(judged.insert)

LEMMA SettleBrings ==
  ASSUME CopyInv, status = "holding", Settle
  PROVE  /\ Brought \subseteq judged.insert
         /\ target' = [here |-> target'.here, other |-> target.other]
         /\ Brought \subseteq target'.here /\ target'.here \subseteq target.here \cup Brought
         /\ \A q \in target.here \ target'.here :
                q.type = "settings" /\ \E r \in Brought : r.type = "settings"
<1>1. target = [here |-> target.here, other |-> target.other]
  BY DEF CopyInv, RowsKnown
<1>2. target' = [target EXCEPT !.here =
               {q \in @ : q.type # "settings" \/ OfType(Brought, "settings") = {}} \cup Brought]
  BY DEF Settle, Brought
<1>3. target' = [here |-> {q \in target.here : q.type # "settings"
                                 \/ OfType(Brought, "settings") = {}} \cup Brought,
                 other |-> target.other]
  BY <1>1, <1>2
<1>4. Brought \subseteq judged.insert
  BY DEF Brought, Inserted
<1> QED
  BY <1>3, <1>4 DEF OfType

\* What the dump has and the workspace had, it has: the settings of the dump
\* are one row, and no other row has its id.
LEMMA SettleKeepsLines ==
  ASSUME CopyInv, status = "holding", Settle
  PROVE  Ids(Lines) \cap Ids(target.here) \subseteq Ids(target'.here)
<1> SUFFICES ASSUME NEW l \in Lines, NEW q \in target.here, l.id = q.id, q \notin target'.here
             PROVE  l.id \in Ids(target'.here)
  BY DEF Ids
<1>1. PICK r \in Brought : q.type = "settings" /\ r.type = "settings"
  BY SettleBrings
<1>2. l \in Known(ExportedRows) /\ l \in Known(AllRows) /\ q \in Known(AllRows)
  BY LinesAreKnown, ExportedAreKnown DEF CopyInv, RowsKnown
<1>3. l.type = "settings"
  BY <1>1, <1>2, KnownRowTyped
<1>4. r \in Known(ExportedRows) /\ r \in target'.here
  BY SettleBrings DEF CopyInv, BatchOK
<1>5. r.id = l.id
  BY <1>1, <1>2, <1>3, <1>4, OneRowOfSettings
<1> QED
  BY <1>4, <1>5 DEF Ids

\* Every row of the batch is brought, or reported.
LEMMA SettleSettlesBatch ==
  ASSUME CopyInv, status = "holding", Settle
  PROVE  Held \subseteq Ids(target'.here) \cup removed \cup conflicts'
                          \cup (skipped' \cap Ids(target.other))
<1> DEFINE lost == Ids(judged.insert) \ Ids(Brought)
           edges == OfType(judged.insert, "edge") # {}
           done == Ids(target'.here) \cup removed \cup conflicts'
                          \cup (skipped' \cap Ids(target.other))
<1>1. /\ skipped' = skipped \cup Ids(judged.skip) \cup (IF edges THEN lost ELSE {})
      /\ conflicts' = conflicts \cup Ids(judged.conflict) \cup (IF edges THEN {} ELSE lost)
  BY DEF Settle, Brought
<1>2. Ids(judged.conflict) \subseteq done
  BY <1>1
<1>3. Held \cap Ids(target.here) \subseteq done
  <2>1. Held \subseteq Ids(Lines)
    BY DEF CopyInv, BatchOK
  <2> QED
    BY <2>1, SettleKeepsLines
<1>4. Ids(judged.skip) \subseteq done
  <2>1. Ids(judged.skip) \subseteq Held
    BY DEF Held, Ids
  <2>2. Ids(judged.skip) \subseteq Ids(target.here) \cup removed \cup Ids(target.other)
    BY DEF CopyInv, BatchOK
  <2> QED
    BY <1>1, <1>3, <2>1, <2>2
<1>5. Ids(judged.insert) \subseteq done
  <2> SUFFICES ASSUME NEW r \in judged.insert, r.id \notin Ids(Brought)
               PROVE  r.id \in done
    <3>1. Ids(Brought) \subseteq Ids(target'.here)
      BY SettleBrings DEF Ids
    <3> QED
      BY <3>1 DEF Ids
  <2>1. r.id \in lost
    BY DEF Ids
  <2>2. CASE ~ edges
    BY <1>1, <2>1, <2>2
  <2>3. CASE edges
    <3>1. r.type = "edge" /\ r.key = NoKey
      <4>1. r.type = "edge"
        BY <2>3 DEF OfType, CopyInv, BatchOK
      <4>2. r \in Known(AllRows)
        BY ExportedAreKnown DEF CopyInv, BatchOK
      <4> QED
        BY <4>1, <4>2, KnownRowTyped
    <3>2. Brought = Inserted(judged.insert)
      BY <2>3 DEF Brought, OfType, CopyInv, BatchOK
    <3>3. r \notin Brought
      BY DEF Ids
    <3>4. r.id \in Ids(target.here \cup target.other)
      BY <3>1, <3>2, <3>3 DEF Inserted, Collides
    <3>5. r.id \in Ids(target.here) \/ r.id \in Ids(target.other)
      BY <3>4 DEF Ids
    <3>6. r.id \in Held
      BY DEF Held, Ids
    <3> QED
      BY <1>1, <1>3, <2>1, <2>3, <3>5, <3>6
  <2> QED
    BY <2>2, <2>3
<1> QED
  BY <1>2, <1>4, <1>5, HeldParts

\* The report names lines of the dump only.
LEMMA SettleReportsLines ==
  ASSUME CopyInv, status = "holding", Settle
  PROVE  /\ conflicts \subseteq conflicts' /\ skipped \subseteq skipped'
         /\ conflicts' \cup skipped' \subseteq Ids(Lines)
<1>1. Held \subseteq Ids(Lines) /\ conflicts \cup skipped \subseteq Ids(Lines)
  BY DEF CopyInv, BatchOK
<1> QED
  BY <1>1, HeldParts DEF Settle
-----------------------------------------------------------------------------
(* The invariant.                                                          *)

LEMMA CopyInvHoldsInitially ==
  ASSUME TransferInit
  PROVE  CopyInv
<1>1. source \subseteq ExportedRows /\ target.here \subseteq AllRows /\ target.other \subseteq AllRows
  BY DEF TransferInit, ExportedRows, AllRows
<1>2. dump \in Seq(Known(ExportedRows) \cup {Garbage}) /\ Len(dump) = 0
  BY DEF TransferInit
<1>3. target = [here |-> target.here, other |-> target.other]
  BY WorkspacesAssumption DEF TransferInit
<1>4. RowsKnown
  BY <1>1, <1>2, <1>3 DEF RowsKnown, LinesOK, Known
<1>5. RunOK
  BY <1>2 DEF TransferInit, RunOK, Stages
<1> QED
  BY <1>4, <1>5 DEF CopyInv, TransferInit

LEMMA PageIsOfSource ==
  ASSUME NEW t, NEW cursor, NEW page \in Pages(t, cursor), NEW S, source \subseteq S
  PROVE  page \in Seq(S)
BY BoundsAssumption DEF Pages, FirstRows, Rest, OfType

LEMMA ExportPageKeepsCopyInv ==
  ASSUME CopyInv, ExportPage
  PROVE  CopyInv'
<1> DEFINE S == Known(ExportedRows) \cup {Garbage}
<1>1. PICK page \in Pages(RecordTypes[table], after) :
          /\ dump' = dump \o page
          /\ table' \in {table, table + 1}
  BY DEF ExportPage
<1>2. source \subseteq S /\ dump \in Seq(S)
  BY DEF CopyInv, RowsKnown, LinesOK
<1>3. dump \o page \in Seq(S)
  <2> HIDE DEF S
  <2> QED BY <1>2, PageIsOfSource, ConcatProperties
<1>4. LinesOK'
  BY <1>1, <1>3 DEF LinesOK
<1>5. pos = 0 /\ skipped = {} /\ conflicts = {} /\ status = "exporting"
  BY DEF CopyInv, RunOK, ExportPage
<1>6. pos' \in 0..Len(dump')
  BY <1>4, <1>5 DEF LinesOK, ExportPage, importVars
<1>7. UNCHANGED <<source, target, status, pos, skipped, conflicts, removed, attempts>>
      /\ table' \in Nat
  BY <1>1 DEF ExportPage, importVars, CopyInv, RunOK
<1>8. RowsKnown'
  BY <1>4, <1>7 DEF CopyInv, RowsKnown
<1>9. RunOK'
  BY <1>6, <1>7 DEF CopyInv, RunOK
<1> QED
  BY <1>5, <1>7, <1>8, <1>9 DEF CopyInv

LEMMA LosesItsEndKeepsCopyInv ==
  ASSUME CopyInv, LosesItsEnd
  PROVE  CopyInv' /\ Lines' \subseteq Lines
<1> DEFINE S == Known(ExportedRows) \cup {Garbage}
<1>1. PICK n \in 0..(Len(dump) - 1) : dump' = Append(SubSeq(dump, 1, n), Garbage)
  BY DEF LosesItsEnd
<1>2. dump \in Seq(S)
  BY DEF CopyInv, RowsKnown, LinesOK
<1>3. SubSeq(dump, 1, n) \in Seq(S) /\ Len(SubSeq(dump, 1, n)) = n
      /\ \A i \in 1..n : SubSeq(dump, 1, n)[i] = dump[i]
  BY <1>2
<1>4. dump' \in Seq(S) /\ Len(dump') = n + 1
      /\ \A i \in 1..(n + 1) : dump'[i] = IF i = n + 1 THEN Garbage ELSE dump[i]
  BY <1>1, <1>3
<1>5. Lines' \subseteq Lines
  BY <1>4 DEF Lines
<1>6. /\ status = "ready" /\ pos = 0 /\ skipped = {} /\ conflicts = {}
      /\ UNCHANGED <<source, target, table, pos, status, skipped, conflicts, removed, attempts>>
  BY DEF CopyInv, RunOK, LosesItsEnd, importVars
<1>7. RowsKnown' /\ RunOK'
  BY <1>4, <1>6 DEF CopyInv, RowsKnown, LinesOK, RunOK
<1> QED
  BY <1>5, <1>6, <1>7 DEF CopyInv

LEMMA SourceChangesKeepsCopyInv ==
  ASSUME CopyInv, SourceChanges
  PROVE  CopyInv'
<1>1. source' \subseteq Known(ExportedRows)
  <2>1. CASE \E r \in Universe : source' = source \cup {r}
    BY <2>1 DEF CopyInv, RowsKnown, Known, ExportedRows
  <2>2. CASE \E r \in source : source' = Purge(source, r.id)
    BY <2>2, PurgeKeepsRows DEF CopyInv, RowsKnown
  <2> QED
    BY <2>1, <2>2 DEF SourceChanges, OfType
<1>2. /\ UNCHANGED <<dump, target, table, pos, status, skipped, conflicts, removed, attempts>>
      /\ status = "exporting"
  BY DEF SourceChanges, importVars
<1>3. RowsKnown' /\ RunOK'
  BY <1>1, <1>2 DEF CopyInv, RowsKnown, LinesOK, RunOK
<1> QED
  BY <1>2, <1>3 DEF CopyInv, Lines

LEMMA LookUpKeepsCopyInv ==
  ASSUME CopyInv, LookUp
  PROVE  CopyInv'
<1>1. BatchOK' /\ Held' = Ids(Buffer)
  BY LookupDecides
<1>2. \A i \in (pos + 1)..pos' : dump[i] \in Buffer
  BY BufferIsOfOneType DEF CopyInv, RowsKnown, LookUp
<1>0. pos' \in pos..Len(dump) /\ pos \in Nat /\ Len(dump) \in Nat
  <2>1. pos' \in pos..Len(dump) /\ pos \in 0..Len(dump) /\ dump \in Seq(Known(ExportedRows) \cup {Garbage})
    BY BufferIsOfOneType DEF CopyInv, RowsKnown, RunOK, LinesOK, LookUp
  <2> QED
    BY <2>1
<1>3. /\ status = "reading" /\ status' = "holding"
      /\ UNCHANGED <<source, dump, table, target, skipped, conflicts, removed, attempts>>
  BY DEF LookUp, exportVars
<1>4. Accounted'
  <2> SUFFICES ASSUME NEW i \in 1..pos', dump[i] # Garbage
               PROVE  dump[i].id \in Settled \cup Held'
    BY <1>3 DEF Accounted, Settled
  <2>1. CASE i \in 1..pos
    BY <1>3, <2>1 DEF CopyInv, Accounted
  <2>2. CASE i \in (pos + 1)..pos'
    BY <1>1, <1>2, <2>2 DEF Ids
  <2> QED
    BY <1>0, <2>1, <2>2
<1>5. RowsKnown'
  BY <1>3 DEF CopyInv, RowsKnown, LinesOK
<1>6. RunOK'
  BY <1>0, <1>3 DEF CopyInv, RunOK, Stages
<1> QED
  BY <1>1, <1>3, <1>4, <1>5, <1>6 DEF CopyInv, Lines

LEMMA FlushKeepsCopyInv ==
  ASSUME CopyInv, Flush
  PROVE  CopyInv'
<1> USE DEF Flush
<1>1. /\ target' = [here |-> target'.here, other |-> target.other]
      /\ target'.here \subseteq Known(AllRows) /\ target'.other = target.other
  <2>1. Brought \subseteq Known(AllRows)
    BY SettleBrings, ExportedAreKnown DEF CopyInv, BatchOK
  <2> QED
    BY <2>1, SettleBrings DEF CopyInv, RowsKnown
<1>2. /\ status' = "reading"
      /\ UNCHANGED <<source, dump, table, pos, removed, attempts>>
  BY DEF exportVars
<1>3. /\ conflicts \subseteq conflicts' /\ skipped \subseteq skipped'
      /\ conflicts' \cup skipped' \subseteq Ids(Lines)
  BY SettleReportsLines
<1>4. Held \subseteq Settled'
  BY SettleSettlesBatch, <1>1, <1>2 DEF Settled
<1>5. Settled \cap Ids(Lines) \subseteq Settled'
  BY SettleKeepsLines, <1>1, <1>2, <1>3 DEF Settled
<1>6. Accounted'
  <2> SUFFICES ASSUME NEW i \in 1..pos, dump[i] # Garbage
               PROVE  dump[i].id \in Settled'
    BY <1>2 DEF Accounted
  <2>1. dump[i].id \in Settled \cup Held
    BY DEF CopyInv, Accounted
  <2>2. dump[i].id \in Ids(Lines)
    BY LinesAreKnown DEF CopyInv, RowsKnown, RunOK, LinesOK, Ids
  <2> QED
    BY <1>4, <1>5, <2>1, <2>2
<1>7. RowsKnown'
  BY <1>1, <1>2 DEF CopyInv, RowsKnown, LinesOK
<1>8. RunOK'
  BY <1>2 DEF CopyInv, RunOK, Stages
<1> QED
  BY <1>2, <1>3, <1>6, <1>7, <1>8 DEF CopyInv, Lines

\* What others do to the target between two statements: nothing in it is
\* changed but by removing it, or by what removing another makes of it.
LEMMA TargetChangesRows ==
  ASSUME CopyInv, TargetChanges
  PROVE  /\ target' = [here |-> target'.here, other |-> target.other]
         /\ target'.here \subseteq Known(AllRows)
         /\ \/ Ids(target.here) \subseteq Ids(target'.here) /\ removed' = removed
            \/ /\ Ids(target'.here) \subseteq Ids(target.here)
               /\ removed' = removed \cup (Ids(target.here) \ Ids(target'.here))
<1>1. target = [here |-> target.here, other |-> target.other]
      /\ target.here \subseteq Known(AllRows)
  BY DEF CopyInv, RowsKnown
<1>2. CASE \E r \in Squatters : target' = [target EXCEPT !.here = @ \cup {r}] /\ removed' = removed
  <2>1. PICK r \in Squatters : target' = [here |-> target.here \cup {r}, other |-> target.other]
                               /\ removed' = removed
    BY <1>1, <1>2
  <2>2. r \in Known(AllRows)
    BY DEF AllRows, Known
  <2> QED
    BY <1>1, <2>1, <2>2 DEF Ids
<1>3. CASE \E r \in target.here :
             /\ target' = [target EXCEPT !.here = Purge(@, r.id)]
             /\ removed' = removed \cup (Ids(target.here) \ Ids(target'.here))
  <2>1. PICK r \in target.here :
             /\ target' = [here |-> Purge(target.here, r.id), other |-> target.other]
             /\ removed' = removed \cup (Ids(target.here) \ Ids(target'.here))
    BY <1>1, <1>3
  <2> QED
    BY <1>1, <2>1, PurgeKeepsRows
<1> QED
  BY <1>2, <1>3 DEF TargetChanges, OfType

LEMMA TargetChangesKeepsCopyInv ==
  ASSUME CopyInv, TargetChanges
  PROVE  CopyInv'
<1>1. /\ status \in {"reading", "holding", "crashed"}
      /\ UNCHANGED <<source, dump, table, pos, judged, skipped, conflicts, status, attempts>>
  BY DEF TargetChanges, exportVars
<1>2. Ids(target.here) \cup removed \subseteq Ids(target'.here) \cup removed'
  BY TargetChangesRows
<1>3. target'.other = target.other /\ target' = [here |-> target'.here, other |-> target'.other]
  BY TargetChangesRows
<1>4. status = "holding" => BatchOK'
  BY <1>1, <1>2, <1>3 DEF CopyInv, BatchOK, Held, Lines
<1>5. status \in {"reading", "holding"} => Accounted'
  BY <1>1, <1>2, <1>3 DEF CopyInv, Accounted, Settled, Held
<1>6. RowsKnown'
  BY <1>1, <1>3, TargetChangesRows DEF CopyInv, RowsKnown, LinesOK
<1>7. RunOK'
  BY <1>1 DEF CopyInv, RunOK
<1> QED
  BY <1>1, <1>4, <1>5, <1>6, <1>7 DEF CopyInv, Lines

\* The steps that neither write to the target nor take a line.
LEMMA OtherStepsKeepCopyInv ==
  ASSUME CopyInv,
         \/ ExportEnds \/ Begin \/ Reject \/ FlushFails \/ Finish \/ Crash
         \/ UNCHANGED transferVars
  PROVE  CopyInv'
<1> USE DEF CopyInv, exportVars, importVars
<1>1. UNCHANGED <<source, dump, target, table>>
  BY DEF ExportEnds, Begin, Reject, FlushFails, Finish, Crash, transferVars
<1>2. RowsKnown' /\ Lines' = Lines
  BY <1>1 DEF RowsKnown, LinesOK, Lines
<1>3. CASE ExportEnds
  <2>1. RunOK' /\ status' = "ready" /\ UNCHANGED <<skipped, conflicts>>
    BY <1>1, <1>3 DEF ExportEnds, RunOK, Stages
  <2> QED
    BY <1>2, <2>1
<1>4. CASE Begin
  <2>1. pos' = 0 /\ status' = "reading" /\ skipped' = {} /\ conflicts' = {}
    BY <1>4 DEF Begin
  <2>2. dump \in Seq(Known(ExportedRows) \cup {Garbage})
    BY DEF RowsKnown, LinesOK
  <2>3. RunOK'
    BY <1>1, <1>4, <2>2 DEF Begin, RunOK, Stages
  <2>4. Accounted'
    BY <2>1 DEF Accounted
  <2> QED
    BY <1>2, <2>1, <2>3, <2>4
<1>5. CASE Reject \/ FlushFails \/ Finish \/ Crash
  <2>1. /\ status \in {"reading", "holding"}
        /\ status' \in {"rejected", "failed", "done", "crashed"}
        /\ UNCHANGED <<pos, skipped, conflicts, removed, attempts>>
    BY <1>5 DEF Reject, FlushFails, Finish, Crash
  <2>2. RunOK'
    BY <1>1, <2>1 DEF RunOK, Stages
  <2> QED
    BY <1>2, <2>1, <2>2
<1>6. CASE UNCHANGED transferVars
  <2>1. RunOK' /\ Settled' = Settled /\ Held' = Held /\ BatchOK' = BatchOK
    BY <1>1, <1>6, <1>2 DEF transferVars, RunOK, Settled, Held, BatchOK
  <2> QED
    BY <1>1, <1>2, <1>6, <2>1 DEF transferVars, Accounted
<1> QED
  BY <1>3, <1>4, <1>5, <1>6

LEMMA CopyInvIsInductive ==
  ASSUME CopyInv, [TransferNext]_transferVars
  PROVE  CopyInv'
BY ExportPageKeepsCopyInv, SourceChangesKeepsCopyInv, LosesItsEndKeepsCopyInv,
   LookUpKeepsCopyInv, FlushKeepsCopyInv, TargetChangesKeepsCopyInv, OtherStepsKeepCopyInv
   DEF TransferNext

-----------------------------------------------------------------------------
(* The refinement: what a step of Transfer does to the variables of Copy.  *)

\* The dump is written: what is in the workspace already is offered too.
LEMMA ExportOffers ==
  ASSUME CopyInv, ExportPage
  PROVE  Abstract!Offer
<1>1. CopyInv'
  BY ExportPageKeepsCopyInv
<1>2. PICK page \in Pages(RecordTypes[table], after) : dump' = dump \o page
  BY DEF ExportPage
<1>3. page \in Seq(Known(ExportedRows) \cup {Garbage})
  BY PageIsOfSource DEF CopyInv, RowsKnown
<1>4. Lines \subseteq Lines'
  BY <1>2, <1>3 DEF CopyInv, RowsKnown, LinesOK, Lines
<1>5. Ids(Lines) \subseteq Ids(Lines')
  BY <1>4 DEF Ids
<1>6. UNCHANGED <<target, conflicts, skipped, removed, attempts, status>> /\ attempts = 0
      /\ removed = {}
  BY DEF ExportPage, importVars, CopyInv, RunOK
<1> QED
  BY <1>5, <1>6 DEF Abstract!Offer

LEMMA LosingTheEndCuts ==
  ASSUME CopyInv, LosesItsEnd
  PROVE  Abstract!Cut
<1>1. Ids(Lines') \subseteq Ids(Lines)
  BY LosesItsEndKeepsCopyInv DEF Ids
<1>2. UNCHANGED <<target, conflicts, skipped, removed, attempts, status>> /\ attempts = 0
      /\ removed = {}
  BY DEF LosesItsEnd, importVars, CopyInv, RunOK
<1> QED
  BY <1>1, <1>2 DEF Abstract!Cut

LEMMA BeginBegins ==
  ASSUME CopyInv, Begin
  PROVE  Abstract!Begin
<1>1. /\ UNCHANGED <<target, dump>> /\ attempts' = attempts + 1 /\ status' = "reading"
      /\ conflicts' = {} /\ skipped' = {} /\ removed' = {} /\ attempts \in Nat
  BY DEF Begin, exportVars, CopyInv, RunOK
<1>2. Lines' = Lines
  BY <1>1 DEF Lines
<1> QED
  BY <1>1, <1>2 DEF Abstract!Begin

\* A batch is delivered; what others insert is, too.
LEMMA FlushDelivers ==
  ASSUME CopyInv, Flush
  PROVE  Abstract!Deliver
<1>1. /\ target'.other = target.other /\ status = "holding" /\ status' = "reading"
      /\ UNCHANGED <<dump, removed, attempts>> /\ attempts # 0
  BY SettleBrings DEF Flush, exportVars, CopyInv, RunOK
<1>2. /\ Ids(Lines) \cap Ids(target.here) \subseteq Ids(target'.here)
      /\ conflicts \subseteq conflicts' /\ skipped \subseteq skipped'
      /\ conflicts' \cup skipped' \subseteq Ids(Lines)
  BY SettleKeepsLines, SettleReportsLines DEF Flush
<1>3. Lines' = Lines
  BY <1>1 DEF Lines
<1> QED
  BY <1>1, <1>2, <1>3 DEF Abstract!Deliver

LEMMA OthersDeliverOrDelete ==
  ASSUME CopyInv, TargetChanges
  PROVE  Abstract!Deliver \/ Abstract!Delete
<1>1. /\ status \in {"reading", "holding", "crashed"}
      /\ UNCHANGED <<dump, conflicts, skipped, status, attempts>> /\ attempts # 0
      /\ conflicts \cup skipped \subseteq Ids(Lines)
  BY DEF TargetChanges, exportVars, CopyInv, RunOK
<1>2. /\ target'.other = target.other
      /\ \/ Ids(target.here) \subseteq Ids(target'.here) /\ removed' = removed
         \/ /\ Ids(target'.here) \subseteq Ids(target.here)
            /\ removed' = removed \cup (Ids(target.here) \ Ids(target'.here))
  BY TargetChangesRows
<1>3. Lines' = Lines
  BY <1>1 DEF Lines
<1>4. CASE Ids(target.here) \subseteq Ids(target'.here) /\ removed' = removed
  <2>1. Abstract!Deliver
    BY <1>1, <1>2, <1>3, <1>4 DEF Abstract!Deliver
  <2> QED
    BY <2>1
<1>5. CASE /\ Ids(target'.here) \subseteq Ids(target.here)
           /\ removed' = removed \cup (Ids(target.here) \ Ids(target'.here))
  <2>1. Abstract!Delete
    BY <1>1, <1>2, <1>3, <1>5 DEF Abstract!Delete
  <2> QED
    BY <2>1
<1> QED
  BY <1>2, <1>4, <1>5

\* At the end of the file every line has been taken.
LEMMA FinishFinishes ==
  ASSUME CopyInv, Finish
  PROVE  Abstract!Finish
<1>1. /\ status = "reading" /\ status' = "done" /\ pos = Len(dump)
      /\ UNCHANGED <<dump, target, conflicts, skipped, removed, attempts>> /\ attempts # 0
  BY DEF Finish, exportVars, CopyInv, RunOK
<1>2. ASSUME NEW l \in Lines
      PROVE  l.id \in Settled
  <2>1. PICK i \in 1..pos : dump[i] = l /\ l # Garbage
    BY <1>1 DEF Lines
  <2> QED
    BY <1>1, <2>1 DEF CopyInv, Accounted
<1>3. Ids(Lines) \subseteq Settled
  BY <1>2 DEF Ids
<1>4. Lines' = Lines
  BY <1>1 DEF Lines
<1> QED
  BY <1>1, <1>3, <1>4 DEF Abstract!Finish, Settled

LEMMA OtherStepsStutter ==
  ASSUME CopyInv,
         \/ ExportEnds \/ SourceChanges \/ LookUp \/ Reject \/ FlushFails \/ Crash
         \/ UNCHANGED transferVars
  PROVE  UNCHANGED Abstract!copyVars
<1>1. UNCHANGED <<dump, target, conflicts, skipped, removed, attempts>>
  BY DEF ExportEnds, SourceChanges, LookUp, Reject, FlushFails, Crash, transferVars,
         exportVars, importVars
<1>2. Lines' = Lines
  BY <1>1 DEF Lines
<1>3. status' = status \/ (status # "done" /\ status' # "done")
  <2>1. CASE SourceChanges \/ UNCHANGED transferVars
    BY <2>1 DEF SourceChanges, transferVars
  <2>2. CASE ExportEnds \/ LookUp \/ Reject
    BY <2>2 DEF ExportEnds, LookUp, Reject
  <2>3. CASE FlushFails \/ Crash
    BY <2>3 DEF FlushFails, Crash
  <2> QED
    BY <2>1, <2>2, <2>3
<1> QED
  BY <1>1, <1>2, <1>3 DEF Abstract!copyVars

\* The transfer implements Copy (importWorkspace): nothing is brought but
\* what the dump held, the importer loses nothing that was there, and a run
\* that reports its end has accounted for every line.
THEOREM CopyHolds == TransferSpec => IsCopy
<1>1. ASSUME TransferInit
      PROVE  Abstract!CopyInit
  <2>1. Lines = {} /\ Ids({}) = {}
    BY <1>1 DEF TransferInit, Lines, Ids
  <2> QED
    BY <1>1, <2>1 DEF TransferInit, Abstract!CopyInit
<1>2. ASSUME CopyInv, [TransferNext]_transferVars
      PROVE  [Abstract!CopyNext]_(Abstract!copyVars)
  BY <1>2, ExportOffers, LosingTheEndCuts, BeginBegins, FlushDelivers, OthersDeliverOrDelete,
     FinishFinishes, OtherStepsStutter DEF TransferNext, Abstract!CopyNext
<1>3. TransferSpec => []CopyInv
  BY CopyInvHoldsInitially, CopyInvIsInductive, PTL DEF TransferSpec
<1> QED
  BY <1>1, <1>2, <1>3, PTL DEF TransferSpec, IsCopy, Abstract!CopySpec

-----------------------------------------------------------------------------
(* What the rows of the workspace refer to.                                *)

\* A foreign key that stays in the workspace leads to a row of one table.
LEMMA KnownRowReferences ==
  ASSUME NEW r \in Known(AllRows)
  PROVE  /\ r.type \in {"project", "settings"} => Scoped(r) = {}
         /\ r.type \in {"edge", "entity_revision"} => Scoped(r) = r.needs
         /\ r.type = "entity" => Scoped(r) = r.needs
         /\ Scoped(r) \subseteq r.needs \cup ({r.link} \ {NoLink})
         /\ r.needs \subseteq Scoped(r)
         /\ \A q \in Known(AllRows) :
                /\ q.id \in r.needs => r.type \in DOMAIN Needed /\ q.type = Needed[r.type]
                /\ r.link # NoLink /\ q.id = r.link => q.type = "entity"
<1>1. PICK r0 \in AllRows : /\ r.type = r0.type /\ r.needs = r0.needs
                            /\ r.link \in {r0.link, NoLink}
  BY KnownRow
<1>2. RecordOK(r0)
  BY RowsAssumption
<1>3. r.link # NoLink => r.type \in LinkedTo
  BY <1>1, <1>2 DEF RecordOK
<1>4. r.type \in {"project", "settings"} => r.needs = {}
  <2> SUFFICES ASSUME r.type \in {"project", "settings"} PROVE r0.needs = {}
    BY <1>1
  <2>1. IsFiniteSet(r0.needs) /\ Cardinality(r0.needs) = 0
    BY <1>1, <1>2 DEF RecordOK, Required
  <2> QED
    BY <2>1, FS_EmptySet
<1>5. ASSUME NEW q \in Known(AllRows)
      PROVE  /\ q.id \in r.needs => r.type \in DOMAIN Needed /\ q.type = Needed[r.type]
             /\ r.link # NoLink /\ q.id = r.link => q.type = "entity"
  <2>1. PICK q0 \in AllRows : q.type = q0.type /\ q.id = q0.id
    BY KnownRow
  <2> QED
    BY <1>1, <2>1, RowsAssumption
<1> QED
  BY <1>3, <1>4, <1>5 DEF Scoped, References, LinkedTo

LEMMA ClearedLinkIsKnown ==
  ASSUME NEW q
  PROVE  LET r == ClearUnknownLink(q)
         IN  /\ r.type = q.type /\ r.needs = q.needs
             /\ r.link = NoLink \/ r.link \in Entities
BY DEF ClearUnknownLink, Unlinked

\* What a lookup lets through refers to rows that it found in the workspace.
LEMMA LookupFindsReferences ==
  ASSUME CopyInv, LookUp, NEW r \in judged'.insert
  PROVE  Scoped(r) \subseteq Ids(target.here)
<1>1. /\ Buffer \subseteq Lines /\ Buffer # {}
      /\ \A p, q \in Buffer : p.type = q.type
  BY BufferIsOfOneType DEF CopyInv, RowsKnown, LookUp
<1>2. PICK first \in Buffer : TRUE
  BY <1>1
<1>3. judged' = JudgeBatch(Buffer)
  BY DEF LookUp
<1>4. r \in Known(AllRows)
  BY LookupDecides, ExportedAreKnown DEF BatchOK
<1>5. \A p \in Buffer : p \in Known(AllRows) /\ p.type = first.type
  BY <1>1, <1>2, LinesAreKnown, ExportedAreKnown DEF CopyInv, RowsKnown
<1>6. r.type = first.type
  <2>1. Sound(judged', Buffer)
    BY <1>2, <1>3, <1>5, LookupIsSound
  <2> QED
    BY <1>5, <2>1 DEF Sound, Unlinked
<1>7. Entities \subseteq Ids(target.here) /\ \A t : Ids(OfType(target.here, t)) \subseteq Ids(target.here)
  BY DEF Entities, Ids, OfType
<1>8. \/ r.type = "project"
      \/ r.type = "entity" /\ judged' = JudgeEntities(Buffer)
      \/ r.type = "edge" /\ judged' = JudgeEdges(Buffer)
      \/ r.type = "recurrence_rule" /\ judged' = JudgeRules(Buffer)
      \/ r.type = "recurrence_exception" /\ judged' = JudgeExceptions(Buffer)
      \/ r.type = "entity_revision" /\ judged' = JudgeRevisions(Buffer)
      \/ r.type = "settings"
  <2>1. first \in Buffer /\ \A q \in Buffer : q.type = first.type
    BY <1>1, <1>2
  <2>2. r.type \in DOMAIN Required
    BY <1>4, KnownRowTyped
  <2> QED
    BY <1>3, <1>6, <2>1, <2>2, JudgedByType DEF Required
<1>9. CASE r.type \in {"project", "settings"}
  BY <1>4, <1>9, KnownRowReferences
<1>10. CASE r.type = "entity"
  <2>1. judged' = JudgeEntities(Buffer)
    BY <1>10, <1>8
  <2>2. r.needs \subseteq Ids(OfType(target.here, "project"))
    BY <2>1, InsertsAreRows DEF JudgeEntities
  <2> QED
    BY <1>4, <1>7, <1>10, <2>2, KnownRowReferences
<1>11. CASE r.type = "edge"
  <2>1. judged' = JudgeEdges(Buffer)
    BY <1>11, <1>8
  <2>2. r.needs \subseteq Entities
    BY <2>1, JudgeFields DEF JudgeEdges
  <2> QED
    BY <1>4, <1>7, <1>11, <2>2, KnownRowReferences
<1>12. CASE r.type = "recurrence_rule"
  <2>1. judged' = JudgeRules(Buffer)
    BY <1>12, <1>8
  <2> DEFINE j == PartitionExisting(Buffer, {q \in Buffer : ~ q.needs \subseteq Entities})
  <2>2. judged'.insert = {ClearUnknownLink(q) : q \in j.insert}
    BY <2>1, PartitionIsSound DEF JudgeRules, Sound, Judge
  <2>3. PICK q \in j.insert : r = ClearUnknownLink(q)
    BY <2>2
  <2>4. q.needs \subseteq Entities
    BY <2>3, InsertsAreRows
  <2> QED
    BY <1>4, <1>7, <2>3, <2>4, ClearedLinkIsKnown, KnownRowReferences
<1>13. CASE r.type = "recurrence_exception"
  <2>1. judged' = JudgeExceptions(Buffer)
    BY <1>13, <1>8
  <2> DEFINE known == Ids(OfType(target.here, "recurrence_rule"))
             j == SkipKnown(Buffer, known)
  <2>2. judged'.insert = {ClearUnknownLink(q) : q \in j.insert}
    BY <2>1, SkipKnownIsSound DEF JudgeExceptions, Sound, Judge
  <2>3. PICK q \in j.insert : r = ClearUnknownLink(q)
    BY <2>2
  <2>4. q.needs \subseteq known
    BY <2>3, InsertsAreRows
  <2> QED
    BY <1>4, <1>7, <2>3, <2>4, ClearedLinkIsKnown, KnownRowReferences
<1>14. CASE r.type = "entity_revision"
  <2>1. judged' = JudgeRevisions(Buffer)
    BY <1>14, <1>8
  <2>2. r.needs \subseteq Entities
    BY <2>1, InsertsAreRows DEF JudgeRevisions
  <2> QED
    BY <1>4, <1>7, <1>14, <2>2, KnownRowReferences
<1> QED
  BY <1>9, <1>10, <1>11, <1>12, <1>13, <1>14, <1>8

LEMMA FlushKeepsScope ==
  ASSUME CopyInv, ScopeInv, Flush
  PROVE  ScopeInv'
<1> USE DEF Flush
<1>1. /\ Brought \subseteq judged.insert /\ Brought \subseteq target'.here
      /\ target'.here \subseteq target.here \cup Brought /\ target'.other = target.other
      /\ \A q \in target.here \ target'.here :
             q.type = "settings" /\ \E r \in Brought : r.type = "settings"
  BY SettleBrings
<1>2. /\ judged.insert \subseteq Known(AllRows) /\ judged.insert \subseteq Known(ExportedRows)
      /\ target.here \subseteq Known(AllRows)
  BY ExportedAreKnown DEF CopyInv, BatchOK, RowsKnown
<1>3. Ids(Brought) \cap Ids(target.other) = {}
  <2> SUFFICES ASSUME NEW r \in Brought, r.id \in Ids(target.other) PROVE FALSE
    BY DEF Ids
  <2>1. CASE r.type = "settings"
    <3>1. PICK r0 \in ExportedRows : r.type = r0.type /\ r.id = r0.id
      BY <1>1, <1>2, KnownRow
    <3>2. r.id \in Ids(OfType(ExportedRows, "settings"))
      BY <2>1, <3>1 DEF Ids, OfType
    <3> QED
      BY <3>2 DEF ScopeInv
  <2>2. CASE r.type # "settings"
    <3>1. r \in Inserted(judged.insert)
      BY <1>1, <2>2 DEF Brought, CopyInv, BatchOK
    <3>2. r.id \notin Ids(target.here \cup target.other)
      BY <3>1 DEF Inserted, Collides
    <3> QED
      BY <3>2 DEF Ids
  <2> QED
    BY <2>1, <2>2
<1>4. Ids(target'.here) \cap Ids(target.other) = {}
  BY <1>1, <1>3 DEF ScopeInv, Ids
\* only a row of settings goes, and no foreign key leads to one
<1>5. ASSUME NEW r \in Known(AllRows), NEW n \in Scoped(r), n \in Ids(target.here)
      PROVE  n \in Ids(target'.here)
  <2>1. PICK q \in target.here : q.id = n
    BY <1>5 DEF Ids
  <2>2. q.type # "settings"
    BY <1>2, <2>1, KnownRowReferences, KnownRowTyped DEF Needed
  <2> QED
    BY <1>1, <2>1, <2>2 DEF Ids
<1>6. ASSUME NEW r \in target'.here, NEW n \in Scoped(r)
      PROVE  n \in Ids(target'.here)
  <2>1. CASE r \in target.here
    BY <1>2, <1>5, <2>1 DEF ScopeInv, LinksStayHere
  <2>2. CASE r \in Brought
    <3>1. n \in References(r) /\ n \notin Ids(target.other)
      BY <1>1, <2>2 DEF ScopeInv, Scoped, References
    <3>2. References(r) \subseteq Ids(target.here \cup target.other \cup Brought)
      BY <2>2 DEF Settle, Brought, ForeignKeysHold
    <3>3. n \in Ids(target.here) \/ n \in Ids(Brought)
      BY <3>1, <3>2 DEF Ids
    <3> QED
      BY <1>1, <1>2, <1>5, <2>2, <3>3 DEF Ids
  <2> QED
    BY <1>1, <2>1, <2>2
<1> QED
  BY <1>1, <1>4, <1>6 DEF ScopeInv, LinksStayHere

\* Deleting an entity takes what needs it, and what needs that; what is left
\* needs nothing that went, and its links to what went are empty.
LEMMA PurgeKeepsScope ==
  ASSUME NEW rows, rows \subseteq Known(AllRows),
         \A r \in rows : Scoped(r) \subseteq Ids(rows),
         NEW e \in rows, e.type = "entity"
  PROVE  \A p \in Purge(rows, e.id) : Scoped(p) \subseteq Ids(Purge(rows, e.id))
<1> DEFINE direct == {r \in rows : r.id # e.id /\ e.id \notin r.needs}
           kept == {r \in direct : r.needs \cap (Ids(rows) \ Ids(direct)) = {}}
           left == {IF r.link \in Ids(rows) \ Ids(kept) THEN Unlinked(r) ELSE r : r \in kept}
<1>1. Purge(rows, e.id) = left
  BY DEF Purge
<1>2. ASSUME NEW q \in rows \ direct
      PROVE  q.type \in {"edge", "recurrence_rule", "entity_revision"} \/ q.id = e.id
  <2>1. CASE e.id \in q.needs
    <3>1. q.type \in DOMAIN Needed /\ Needed[q.type] = "entity"
      BY <2>1, KnownRowReferences
    <3> QED
      BY <3>1 DEF Needed
  <2> QED
    BY <1>2, <2>1
<1>3. ASSUME NEW q \in direct \ kept
      PROVE  q.type = "recurrence_exception"
  <2>1. PICK m \in Ids(rows) : m \in q.needs /\ m \notin Ids(direct)
    OBVIOUS
  <2>2. PICK k \in rows \ direct : k.id = m
    BY <2>1 DEF Ids
  <2>3. k.id # e.id
    BY <2>1, <2>2
  <2>4. q.type \in DOMAIN Needed /\ k.type = Needed[q.type]
    BY <2>1, <2>2, KnownRowReferences
  <2>5. k.type \in {"edge", "recurrence_rule", "entity_revision"}
    BY <1>2, <2>2, <2>3
  <2> QED
    BY <2>4, <2>5 DEF Needed
<1>4. ASSUME NEW r \in kept, NEW n \in r.needs
      PROVE  n \in Ids(kept)
  <2>1. n \in Ids(rows)
    BY KnownRowReferences
  <2>2. n \in Ids(direct)
    BY <2>1
  <2>3. PICK q \in direct : q.id = n
    BY <2>2 DEF Ids
  <2>4. r.type \in DOMAIN Needed /\ q.type = Needed[r.type]
    BY <2>3, KnownRowReferences
  <2>5. q.type # "recurrence_exception"
    BY <2>4 DEF Needed
  <2>6. q \in kept
    BY <1>3, <2>5
  <2> HIDE DEF kept
  <2> QED
    BY <2>3, <2>6 DEF Ids
<1>5. Ids(left) = Ids(kept)
  <2>1. \A r : (IF r.link \in Ids(rows) \ Ids(kept) THEN Unlinked(r) ELSE r).id = r.id
    BY DEF Unlinked
  <2> HIDE DEF kept
  <2> QED
    BY <2>1 DEF Ids
<1>6. ASSUME NEW p \in left, NEW n \in Scoped(p)
      PROVE  n \in Ids(kept)
  <2>1. PICK r \in kept : p = IF r.link \in Ids(rows) \ Ids(kept) THEN Unlinked(r) ELSE r
    OBVIOUS
  <2>2. r \in rows /\ r \in Known(AllRows) /\ p.needs = r.needs
    BY <2>1 DEF Unlinked
  <2>3. p \in Known(AllRows)
    BY <2>1, <2>2, KnownRow
  <2>4. CASE n \in p.needs
    BY <1>4, <2>1, <2>2, <2>4
  <2>5. CASE n \notin p.needs
    <3>1. n = p.link /\ p.link # NoLink
      BY <2>3, <2>5, KnownRowReferences
    <3>2. p = r /\ r.link \notin Ids(rows) \ Ids(kept)
      BY <2>1, <3>1 DEF Unlinked
    <3>3. n \in Ids(rows)
      BY <2>2, <3>2
    <3> QED
      BY <3>1, <3>2, <3>3
  <2> QED
    BY <2>4, <2>5
<1> QED
  <2> HIDE DEF left, kept
  <2> QED BY <1>1, <1>5, <1>6

LEMMA TargetChangesKeepsScope ==
  ASSUME CopyInv, ScopeInv, TargetChanges
  PROVE  ScopeInv'
<1>1. target = [here |-> target.here, other |-> target.other]
      /\ target.here \subseteq Known(AllRows)
  BY DEF CopyInv, RowsKnown
<1>2. status' = status /\ judged' = judged
  BY DEF TargetChanges
<1>3. target'.other = target.other
  BY TargetChangesRows
<1>4. Ids(target'.here) \cap Ids(target.other) = {} /\ LinksStayHere'
  <2>1. CASE \E r \in Squatters :
               /\ ~ Collides(r) /\ References(r) \subseteq Ids(target.here)
               /\ target' = [target EXCEPT !.here = @ \cup {r}]
    <3>1. PICK r \in Squatters : /\ ~ Collides(r) /\ References(r) \subseteq Ids(target.here)
                                 /\ target' = [target EXCEPT !.here = @ \cup {r}]
      BY <2>1
    <3>2. target'.here = target.here \cup {r}
      BY <1>1, <3>1
    <3>3. r.id \notin Ids(target.other)
      BY <3>1 DEF Collides, Ids
    <3>4. Scoped(r) \subseteq Ids(target.here)
      BY <3>1 DEF Scoped, References
    <3>5. Ids(target.here) \subseteq Ids(target'.here)
      BY <3>2 DEF Ids
    <3> QED
      BY <3>2, <3>3, <3>4, <3>5 DEF ScopeInv, LinksStayHere, Ids
  <2>2. CASE \E r \in OfType(target.here, "entity") :
               target' = [target EXCEPT !.here = Purge(@, r.id)]
    <3>1. PICK e \in target.here : /\ e.type = "entity"
                                   /\ target' = [target EXCEPT !.here = Purge(@, e.id)]
      BY <2>2 DEF OfType
    <3>2. target'.here = Purge(target.here, e.id)
      BY <1>1, <3>1
    <3>3. Ids(target'.here) \subseteq Ids(target.here)
      BY <1>1, <3>2, PurgeKeepsRows
    <3>4. \A p \in target'.here : Scoped(p) \subseteq Ids(target'.here)
      BY <1>1, <3>1, <3>2, PurgeKeepsScope DEF ScopeInv, LinksStayHere
    <3> QED
      BY <3>3, <3>4 DEF ScopeInv, LinksStayHere
  <2> QED
    BY <2>1, <2>2 DEF TargetChanges
<1> QED
  BY <1>2, <1>3, <1>4 DEF ScopeInv

LEMMA LookUpKeepsScope ==
  ASSUME CopyInv, ScopeInv, LookUp
  PROVE  ScopeInv'
<1>1. target' = target
  BY DEF LookUp
<1>2. \A r \in judged'.insert : Scoped(r) \cap Ids(target.other) = {}
  BY LookupFindsReferences DEF ScopeInv
<1> QED
  BY <1>1, <1>2 DEF ScopeInv, LinksStayHere

LEMMA ScopeInvHoldsInitially ==
  ASSUME TransferInit
  PROVE  ScopeInv
<1>1. target \in Targets /\ status = "exporting"
  BY DEF TransferInit
<1>2. /\ Ids(target.here \cup OfType(ExportedRows, "settings")) \cap Ids(target.other) = {}
      /\ LinksStayHere
  BY <1>1, WorkspacesAssumption DEF LinksStayHere
<1> QED
  BY <1>1, <1>2 DEF ScopeInv, Ids

LEMMA ScopeInvIsInductive ==
  ASSUME CopyInv, ScopeInv, [TransferNext]_transferVars
  PROVE  ScopeInv'
<1>1. CASE ExportPage \/ ExportEnds \/ SourceChanges \/ LosesItsEnd
  <2>1. UNCHANGED target /\ status' # "holding"
    BY <1>1 DEF ExportPage, ExportEnds, SourceChanges, LosesItsEnd, importVars
  <2> QED
    BY <2>1 DEF ScopeInv, LinksStayHere
<1>2. CASE Begin \/ Reject \/ FlushFails \/ Finish \/ Crash
  <2>1. UNCHANGED target /\ status' # "holding"
    BY <1>2 DEF Begin, Reject, FlushFails, Finish, Crash, importVars
  <2> QED
    BY <2>1 DEF ScopeInv, LinksStayHere
<1>3. CASE UNCHANGED transferVars
  BY <1>3 DEF transferVars, ScopeInv, LinksStayHere
<1> QED
  BY <1>1, <1>2, <1>3, LookUpKeepsScope, FlushKeepsScope, TargetChangesKeepsScope
     DEF TransferNext

\* Whatever others write, delete or own, and wherever the import stops, what
\* a row of the workspace refers to is a row of that workspace, the parent
\* of an entity aside (transfer.ts, entityIdsInScope and the Importer).
THEOREM LinksHold == TransferSpec => []LinksStayHere
<1>1. ScopeInv => LinksStayHere
  BY DEF ScopeInv
<1> QED
  BY <1>1, ScopeInvHoldsInitially, ScopeInvIsInductive, CopyInvHoldsInitially,
     CopyInvIsInductive, PTL DEF TransferSpec

-----------------------------------------------------------------------------
(* The round trip: a dump that nobody disturbs.  It holds the source, the  *)
(* tables in their order, and the import has brought the lines it took.    *)

Place == [project |-> 1, entity |-> 2, edge |-> 3, recurrence_rule |-> 4,
          recurrence_exception |-> 5, entity_revision |-> 6, settings |-> 7]

Written(r) == Place[r.type] < table \/ (Place[r.type] = table /\ r.id <= after)

ExportInv ==
  /\ source \in Sources /\ target.other = {} /\ target.here \subseteq source
  /\ table \in 1..8 /\ after \in Nat /\ (status # "exporting" => table = 8)
  /\ \A i \in 1..Len(dump) : dump[i] \in source
  /\ \A r \in source : Written(r) => r \in Lines
  /\ \A i \in 1..Len(dump) : Place[dump[i].type] <= table
  /\ \A i, j \in 1..Len(dump) : i <= j => Place[dump[i].type] <= Place[dump[j].type]

ImportInv ==
  /\ conflicts = {}
  /\ status \in {"reading", "holding", "done"} =>
         \A i \in 1..pos : \/ dump[i] \in target.here
                           \/ status = "holding" /\ dump[i] \in judged.insert
  /\ status = "done" => pos = Len(dump) /\ stamps \cap touched = {}
  /\ status = "holding" =>
         /\ judged.conflict = {} /\ judged.insert \subseteq source
         /\ \A r \in judged.insert : r.type \in {"edge", "settings"} \/ r \notin target.here

RoundInv ==
  /\ changes \in Nat
  /\ changes = 0 => ExportInv /\ ImportInv
  /\ status = "done" => stamps \cap touched = {}

\* The database is empty, or has some of the source already.
TargetsArePartsOfSources ==
  \A t \in Targets : t.other = {} /\ \A rows \in Sources : t.here \subseteq rows

LEMMA PlacesOfTables ==
  /\ Len(RecordTypes) = 7
  /\ \A k \in 1..7 : RecordTypes[k] \in DOMAIN Required /\ Place[RecordTypes[k]] = k
  /\ \A t \in DOMAIN Required : Place[t] \in 1..7 /\ RecordTypes[Place[t]] = t
  /\ \A t \in DOMAIN Needed : Place[Needed[t]] < Place[t]
BY DEF RecordTypes, Required, Place, Needed

LEMMA SourceIsKnown ==
  ASSUME source \in Sources
  PROVE  /\ source \subseteq ExportedRows /\ source \subseteq AllRows
         /\ \A r \in source : /\ r \in Known(AllRows) /\ r \in Known(ExportedRows)
                              /\ r.type \in DOMAIN Required /\ r.id \in Nat \ {0}
         /\ \A q, r \in source :
                q.id = r.id \/ (q.type = r.type /\ q.key = r.key /\ q.key # NoKey) => q = r
         /\ \A r \in source : References(r) \subseteq Ids(source)
<1>1. source \subseteq ExportedRows /\ source \subseteq AllRows
  BY DEF ExportedRows, AllRows
<1>2. \A r \in source : RecordOK(r) /\ r \in Known(AllRows) /\ r \in Known(ExportedRows)
  BY <1>1, RowsAssumption DEF Known
<1>3. \A r \in source : r.type \in DOMAIN Required /\ r.id \in Nat \ {0}
  BY <1>2 DEF RecordOK
<1> QED
  BY <1>1, <1>2, <1>3, SourcesAssumption

LEMMA PageHolds ==
  ASSUME NEW t, NEW cursor, NEW page \in Pages(t, cursor)
  PROVE  /\ Len(page) \in 0..Batch
         /\ \A i \in 1..Len(page) : /\ page[i] \in source /\ page[i].type = t
                                    /\ page[i].id > cursor
         /\ \A i, j \in 1..Len(page) : i < j => page[i].id < page[j].id
         /\ \A r \in Rest(t, cursor) :
                \/ \E i \in 1..Len(page) : page[i] = r
                \/ Len(page) = Batch /\ r.id > page[Batch].id
<1>1. PICK n \in 0..Batch : page \in [1..n -> Rest(t, cursor)]
  BY DEF Pages, FirstRows
<1>2. Len(page) = n /\ DOMAIN page = 1..n
  BY <1>1, BoundsAssumption
<1>3. \A i \in 1..n : page[i] \in Rest(t, cursor)
  BY <1>1
<1> QED
  BY <1>1, <1>2, <1>3 DEF Pages, FirstRows, Rest, OfType

LEMMA ExportPageKeepsOrder ==
  ASSUME CopyInv, ExportInv, ExportPage
  PROVE  ExportInv'
<1>1. PICK page \in Pages(RecordTypes[table], after) :
          /\ dump' = dump \o page
          /\ IF Len(page) < Batch
             THEN table' = table + 1 /\ after' = 0
             ELSE table' = table /\ after' = page[Batch].id
  BY DEF ExportPage
<1> DEFINE n == Len(dump)
           m == Len(page)
<1>2. /\ UNCHANGED <<source, target, status>> /\ table \in 1..7
  BY PlacesOfTables DEF ExportPage, importVars, ExportInv
<1>3. Batch \in Nat \ {0}
  BY BoundsAssumption
<1>4. /\ m \in 0..Batch
      /\ \A i \in 1..m : /\ page[i] \in source /\ Place[page[i].type] = table
                         /\ page[i].id > after
      /\ \A i, j \in 1..m : i < j => page[i].id < page[j].id
  BY SMTT(40), <1>2, PageHolds, PlacesOfTables
<1>5. /\ n \in Nat /\ Len(dump') = n + m
      /\ \A i \in 1..n : dump'[i] = dump[i]
      /\ \A i \in (n + 1)..(n + m) : i - n \in 1..m /\ dump'[i] = page[i - n]
      /\ \A i \in 1..m : dump'[n + i] = page[i]
  <2>1. dump \in Seq(Known(ExportedRows) \cup {Garbage})
        /\ page \in Seq(Known(ExportedRows) \cup {Garbage})
    BY PageIsOfSource DEF CopyInv, RowsKnown, LinesOK
  <2> QED
    BY <1>1, <1>4, <2>1
<1>6. ASSUME NEW i \in 1..(n + m)
      PROVE  /\ dump'[i] \in source /\ Place[dump'[i].type] <= table
             /\ i > n => Place[dump'[i].type] = table
  <2>1. CASE i \in 1..n
    BY <1>4, <1>5, <2>1 DEF ExportInv
  <2>2. CASE i \in (n + 1)..(n + m)
    BY <1>2, <1>4, <1>5, <2>2
  <2> QED
    BY <1>4, <1>5, <2>1, <2>2
<1>7. ASSUME NEW i \in 1..(n + m), NEW j \in 1..(n + m), i <= j
      PROVE  Place[dump'[i].type] <= Place[dump'[j].type]
  <2>1. CASE j \in 1..n
    BY <1>4, <1>5, <1>7, <2>1 DEF ExportInv
  <2>2. CASE j > n
    BY <1>6, <2>2
  <2> QED
    BY <1>4, <1>5, <2>1, <2>2
<1>8. table' \in 1..8 /\ after' \in Nat /\ table <= table'
  <2>1. m = Batch => page[Batch].id \in Nat
    BY <1>3, <1>4, SourceIsKnown DEF ExportInv
  <2> QED
    BY <1>1, <1>2, <1>3, <1>4, <2>1
<1>9. ASSUME NEW r \in source, Written(r)'
      PROVE  \E i \in 1..(n + m) : dump'[i] = r
  <2>1. r.type \in DOMAIN Required /\ r.id \in Nat \ {0} /\ Place[r.type] \in 1..7
    BY SourceIsKnown, PlacesOfTables DEF ExportInv
  <2>2. CASE Written(r)
    <3>1. PICK i \in 1..n : dump[i] = r
      BY <2>2 DEF ExportInv, Lines
    <3> QED
      BY <1>4, <1>5, <3>1
  <2>3. CASE ~ Written(r)
    <3>1. Place[r.type] = table /\ r.id > after
          /\ (m = Batch => r.id <= page[Batch].id)
      BY <1>1, <1>2, <1>3, <1>4, <1>9, <2>1, <2>3 DEF Written, ExportInv
    <3>2. r \in Rest(RecordTypes[table], after)
      BY <2>1, <3>1, PlacesOfTables DEF Rest, OfType
    <3>3. ~ (m = Batch /\ r.id > page[Batch].id)
      <4>1. m = Batch => page[Batch].id \in Nat
        BY <1>3, <1>4, SourceIsKnown DEF ExportInv
      <4> QED
        BY <2>1, <3>1, <4>1
    <3>4. PICK i \in 1..m : page[i] = r
      BY <3>2, <3>3, PageHolds
    <3>5. n + i \in 1..(n + m) /\ dump'[n + i] = r
      BY <1>4, <1>5, <3>4
    <3> QED
      BY <3>5
  <2> QED
    BY <2>2, <2>3
<1>10. \A r \in source : r # Garbage
  BY SourceIsKnown, GarbageIsNoRow DEF ExportInv
<1>11. \A r \in source : Written(r)' => r \in Lines'
  BY <1>5, <1>9, <1>10 DEF Lines
<1>12. /\ source' \in Sources /\ target'.other = {} /\ target'.here \subseteq source'
       /\ (status' # "exporting" => table' = 8)
  BY <1>2 DEF ExportInv, ExportPage
<1>13. \A i \in 1..Len(dump') : dump'[i] \in source' /\ Place[dump'[i].type] <= table'
  <2>1. \A i \in 1..Len(dump') : Place[dump'[i].type] \in 1..7
    BY <1>5, <1>6, SourceIsKnown, PlacesOfTables DEF ExportInv
  <2> QED
    BY SMTT(40), <1>2, <1>5, <1>6, <1>8, <2>1
<1>14. \A i, j \in 1..Len(dump') : i <= j => Place[dump'[i].type] <= Place[dump'[j].type]
  BY <1>5, <1>7
<1> QED
  BY <1>2, <1>8, <1>11, <1>12, <1>13, <1>14 DEF ExportInv, Written

\* What comes before a line of the batch in the order of the tables is here.
LEMMA EarlierRowsAreHere ==
  ASSUME CopyInv, ExportInv, ImportInv, LookUp,
         NEW r \in Buffer, NEW q \in source, Place[q.type] < Place[r.type]
  PROVE  q \in target.here
<1>1. status = "reading" /\ pos < Len(dump) /\ ~ GarbageAhead
  BY DEF LookUp
<1>2. pos \in Nat /\ Len(dump) \in Nat
  <2>1. pos \in 0..Len(dump) /\ dump \in Seq(Known(ExportedRows) \cup {Garbage})
    BY DEF CopyInv, RowsKnown, RunOK, LinesOK
  <2> QED
    BY <2>1
<1>3. dump[pos + 1] \in Buffer /\ r.type = dump[pos + 1].type
  <2>1. pos + 1 \in pos + 1..pos + Most
    BY <1>1, <1>2, MostIsDefined, BoundsAssumption DEF CopyInv, RowsKnown
  <2> QED
    BY <1>1, <2>1, BufferIsOfOneType DEF CopyInv, RowsKnown
<1>4. PICK j \in 1..Len(dump) : dump[j] = q
  <2>1. table = 8 /\ Place[q.type] \in 1..7
    BY <1>1, SourceIsKnown, PlacesOfTables DEF ExportInv
  <2> QED
    BY <2>1 DEF ExportInv, Written, Lines
<1>5. j <= pos
  <2>1. Place[dump[j].type] \in 1..7 /\ Place[dump[pos + 1].type] \in 1..7
    BY <1>1, <1>2, <1>4, SourceIsKnown, PlacesOfTables DEF ExportInv
  <2>2. ASSUME pos + 1 <= j
        PROVE  FALSE
    <3>1. pos + 1 \in 1..Len(dump)
      BY <1>1, <1>2
    <3>2. \A k, l \in 1..Len(dump) : k <= l => Place[dump[k].type] <= Place[dump[l].type]
      BY <1>1 DEF ExportInv
    <3>3. Place[dump[pos + 1].type] <= Place[dump[j].type]
      BY <1>4, <2>2, <3>1, <3>2
    <3>4. Place[dump[j].type] < Place[dump[pos + 1].type]
      BY <1>3, <1>4
    <3> QED
      BY <2>1, <3>3, <3>4
  <2> QED
    BY <1>2, <1>4, <2>2
<1> QED
  BY <1>1, <1>2, <1>4, <1>5 DEF ImportInv

\* What a lookup decides when all that a batch needs is there: every row is
\* here or will be inserted, as it is.
Complete(j, rows) ==
  /\ j.conflict = {} /\ j.insert \subseteq rows /\ rows \subseteq target.here \cup j.insert
  /\ \A r \in j.insert : r.type \in {"edge", "settings"} \/ r \notin target.here

LEMMA HereByIdIsHere ==
  ASSUME ExportInv, NEW rows, rows \subseteq source
  PROVE  Here(rows) = rows \cap target.here /\ Elsewhere(rows) = {}
BY SourceIsKnown DEF ExportInv, Here, Elsewhere, Ids

LEMMA PartitionIsComplete ==
  ASSUME ExportInv, NEW rows, rows \subseteq source,
         NEW refused, refused \cap rows \subseteq target.here
  PROVE  Complete(PartitionExisting(rows, refused), rows)
<1> DEFINE j == PartitionExisting(rows, refused)
<1>1. /\ j.conflict = (rows \ target.here) \cap refused
      /\ j.insert = (rows \ target.here) \ refused
  <2>1. rows \ (Here(rows) \cup Elsewhere(rows)) = rows \ target.here
    BY HereByIdIsHere
  <2> QED
    BY <2>1, HereByIdIsHere, JudgeFields DEF PartitionExisting
<1> HIDE DEF j
<1>2. Complete(j, rows)
  BY <1>1 DEF Complete
<1> QED
  BY <1>2 DEF j

LEMMA SkipKnownIsComplete ==
  ASSUME ExportInv, NEW rows, rows \subseteq source,
         NEW known, \A r \in rows : r.needs \subseteq known
  PROVE  Complete(SkipKnown(rows, known), rows)
<1> DEFINE j == SkipKnown(rows, known)
<1>1. j.conflict = {} /\ j.insert = rows \ target.here
  <2>1. Here(rows) \cup Elsewhere(rows) = rows \cap target.here
    BY HereByIdIsHere
  <2>2. {r \in rows \ (Here(rows) \cup Elsewhere(rows)) : ~ r.needs \subseteq known} = {}
    OBVIOUS
  <2> QED
    BY <2>1, <2>2, JudgeFields DEF SkipKnown
<1> HIDE DEF j
<1>2. Complete(j, rows)
  BY <1>1 DEF Complete
<1> QED
  BY <1>2 DEF j

LEMMA ClearingNothing ==
  ASSUME NEW j, NEW rows, Sound(j, rows), Complete(j, rows),
         \A r \in rows : ClearUnknownLink(r) = r
  PROVE  Complete([j EXCEPT !.insert = {ClearUnknownLink(r) : r \in @}], rows)
<1>1. {ClearUnknownLink(r) : r \in j.insert} = j.insert
  BY DEF Complete
<1>2. [j EXCEPT !.insert = j.insert] = j
  BY DEF Sound, Judge
<1> QED
  BY <1>1, <1>2

\* In an undisturbed dump every lookup finds what the rows of its batch need.
LEMMA LookupIsComplete ==
  ASSUME CopyInv, ExportInv, ImportInv, LookUp
  PROVE  Complete(judged', Buffer)
<1>1. /\ Buffer \subseteq Lines /\ Buffer # {}
      /\ \A p, q \in Buffer : p.type = q.type
  BY BufferIsOfOneType DEF CopyInv, RowsKnown, LookUp
<1>2. PICK first \in Buffer : TRUE
  BY <1>1
<1>3. judged' = JudgeBatch(Buffer)
  BY DEF LookUp
<1>4. Buffer \subseteq source
  BY <1>1 DEF ExportInv, Lines
<1>5. \A r \in source : r \in Known(AllRows) /\ r \in AllRows /\ r.type \in DOMAIN Required
  BY SourceIsKnown DEF ExportInv
<1>6. ASSUME NEW r \in Buffer, NEW n \in r.needs
      PROVE  n \in Ids(OfType(target.here, Needed[r.type]))
  <2>1. PICK q \in source : q.id = n
    BY <1>4, SourceIsKnown DEF ExportInv, References, Ids
  <2>2. r.type \in DOMAIN Needed /\ q.type = Needed[r.type]
    BY <1>4, <1>5, <2>1, KnownRowReferences
  <2>3. q \in target.here
    BY <2>2, PlacesOfTables, EarlierRowsAreHere
  <2> QED
    BY <2>1, <2>2, <2>3 DEF Ids, OfType
<1>7. ASSUME NEW r \in Buffer, r.type \in {"recurrence_rule", "recurrence_exception"}
      PROVE  ClearUnknownLink(r) = r
  <2>1. CASE r.link = NoLink
    <3>1. RecordOK(r)
      BY <1>4, <1>5, RowsAssumption
    <3> QED
      BY <2>1, <3>1 DEF RecordOK, ClearUnknownLink, Unlinked
  <2>2. CASE r.link # NoLink
    <3>1. PICK q \in source : q.id = r.link
      <4>1. r.link \in References(r)
        BY <2>2 DEF References
      <4>2. References(r) \subseteq Ids(source)
        BY <1>4, SourceIsKnown DEF ExportInv
      <4> QED
        BY <4>1, <4>2 DEF Ids
    <3>2. q.type = "entity"
      BY <1>4, <1>5, <2>2, <3>1, KnownRowReferences
    <3>3. q \in target.here
      <4>1. Place[q.type] < Place[r.type]
        BY <1>7, <3>2 DEF Place
      <4> QED
        BY <4>1, EarlierRowsAreHere
    <3>4. r.link \in Entities
      BY <3>1, <3>2, <3>3 DEF Entities, Ids, OfType
    <3> QED
      BY <3>4 DEF ClearUnknownLink
  <2> QED
    BY <2>1, <2>2
<1>8. \/ first.type = "project" /\ judged' = JudgeProjects(Buffer)
      \/ first.type = "entity" /\ judged' = JudgeEntities(Buffer)
      \/ first.type = "edge" /\ judged' = JudgeEdges(Buffer)
      \/ first.type = "recurrence_rule" /\ judged' = JudgeRules(Buffer)
      \/ first.type = "recurrence_exception" /\ judged' = JudgeExceptions(Buffer)
      \/ first.type = "entity_revision" /\ judged' = JudgeRevisions(Buffer)
      \/ first.type = "settings" /\ judged' = JudgeSettings(Buffer)
  <2>1. first \in Buffer /\ \A q \in Buffer : q.type = first.type
    BY <1>1, <1>2
  <2>2. first.type \in DOMAIN Required
    BY <1>2, <1>4, <1>5
  <2> QED
    BY <1>3, <2>1, <2>2, JudgedByType DEF Required
<1>9. \A r \in Buffer : r.type = first.type
  BY <1>1, <1>2
<1>10. CASE first.type = "project" /\ judged' = JudgeProjects(Buffer)
  <2> DEFINE refused == {r \in Buffer : r.key \in {q.key : q \in OfType(target.here, "project")}}
  <2>1. ASSUME NEW r \in refused
        PROVE  r \in target.here
    <3>1. PICK q \in target.here : q.type = "project" /\ q.key = r.key
      BY DEF OfType
    <3>2. r \in source /\ q \in source /\ r.type = "project"
      BY <1>4, <1>9, <1>10 DEF ExportInv
    <3>3. r.key # NoKey
      BY <1>5, <3>2, RowsAssumption DEF RecordOK
    <3> QED
      BY <3>1, <3>2, <3>3, SourceIsKnown DEF ExportInv
  <2> QED
    BY <1>4, <1>10, <2>1, PartitionIsComplete DEF JudgeProjects
<1>11. CASE first.type = "entity" /\ judged' = JudgeEntities(Buffer)
  <2> DEFINE refused == {r \in Buffer : ~ r.needs \subseteq Ids(OfType(target.here, "project"))}
  <2>1. refused = {}
    BY <1>6, <1>9, <1>11 DEF Needed
  <2> HIDE DEF refused
  <2>2. Complete(PartitionExisting(Buffer, refused), Buffer)
    BY <1>4, <2>1, PartitionIsComplete
  <2> QED
    BY <1>11, <2>2 DEF JudgeEntities, refused
<1>12. CASE first.type = "edge" /\ judged' = JudgeEdges(Buffer)
  <2> DEFINE bad == {r \in Buffer : ~ r.needs \subseteq Entities}
  <2>1. bad = {}
    BY <1>6, <1>9, <1>12 DEF Needed, Entities
  <2> HIDE DEF bad
  <2>2. judged' = Judge({}, bad, Buffer \ bad)
    BY <1>12 DEF JudgeEdges, bad
  <2>3. judged'.conflict = {} /\ judged'.insert = Buffer
    BY <2>1, <2>2, JudgeFields
  <2> QED
    BY <1>9, <1>12, <2>3 DEF Complete
<1>13. CASE first.type = "recurrence_rule" /\ judged' = JudgeRules(Buffer)
  <2> DEFINE refused == {r \in Buffer : ~ r.needs \subseteq Entities}
  <2>1. refused = {}
    BY <1>6, <1>9, <1>13 DEF Needed, Entities
  <2> HIDE DEF refused
  <2> DEFINE j == PartitionExisting(Buffer, refused)
  <2>2. Complete(j, Buffer) /\ Sound(j, Buffer)
    BY <1>4, <2>1, PartitionIsComplete, PartitionIsSound
  <2>3. judged' = [j EXCEPT !.insert = {ClearUnknownLink(r) : r \in @}]
    BY <1>13 DEF JudgeRules, refused
  <2>4. \A r \in Buffer : ClearUnknownLink(r) = r
    BY <1>7, <1>9, <1>13
  <2> HIDE DEF j
  <2> QED
    BY <2>2, <2>3, <2>4, ClearingNothing
<1>14. CASE first.type = "recurrence_exception" /\ judged' = JudgeExceptions(Buffer)
  <2> DEFINE known == Ids(OfType(target.here, "recurrence_rule"))
             j == SkipKnown(Buffer, known)
  <2>1. \A r \in Buffer : r.needs \subseteq known
    BY <1>6, <1>9, <1>14 DEF Needed
  <2>2. Complete(j, Buffer) /\ Sound(j, Buffer)
    BY <1>4, <2>1, SkipKnownIsComplete, SkipKnownIsSound
  <2>3. judged' = [j EXCEPT !.insert = {ClearUnknownLink(r) : r \in @}]
    BY <1>14 DEF JudgeExceptions
  <2>4. \A r \in Buffer : ClearUnknownLink(r) = r
    BY <1>7, <1>9, <1>14
  <2> HIDE DEF j
  <2> QED
    BY <2>2, <2>3, <2>4, ClearingNothing
<1>15. CASE first.type = "entity_revision" /\ judged' = JudgeRevisions(Buffer)
  <2>1. \A r \in Buffer : r.needs \subseteq Entities
    BY <1>6, <1>9, <1>15 DEF Needed, Entities
  <2> QED
    BY <1>4, <1>15, <2>1, SkipKnownIsComplete DEF JudgeRevisions
<1>16. CASE first.type = "settings" /\ judged' = JudgeSettings(Buffer)
  <2>1. judged'.conflict = {} /\ judged'.insert = Buffer
    BY <1>16, JudgeFields DEF JudgeSettings
  <2> QED
    BY <1>9, <1>16, <2>1 DEF Complete
<1> QED
  BY <1>8, <1>10, <1>11, <1>12, <1>13, <1>14, <1>15, <1>16

LEMMA LookUpKeepsRound ==
  ASSUME CopyInv, ExportInv, ImportInv, LookUp
  PROVE  ExportInv' /\ ImportInv'
<1>1. /\ status = "reading" /\ status' = "holding" /\ pos < Len(dump)
      /\ UNCHANGED <<source, table, after, dump, target, conflicts>>
  BY DEF LookUp, exportVars
<1>2. Complete(judged', Buffer) /\ Buffer \subseteq source
  <2>1. Buffer \subseteq Lines
    BY BufferIsOfOneType DEF CopyInv, RowsKnown, LookUp
  <2> QED
    BY <2>1, LookupIsComplete DEF ExportInv, Lines
<1>3. ExportInv'
  BY <1>1 DEF ExportInv, Written, Lines
<1>4. pos' = pos + Most /\ pos \in Nat /\ Most \in Nat /\ \A i \in pos + 1..pos' : dump[i] \in Buffer
  BY BufferIsOfOneType, MostIsDefined, BoundsAssumption
     DEF CopyInv, RowsKnown, RunOK, LinesOK, LookUp
<1>5. ASSUME NEW i \in 1..pos'
      PROVE  dump[i] \in target.here \/ dump[i] \in judged'.insert
  <2>1. CASE i \in 1..pos
    BY <1>1, <2>1 DEF ImportInv
  <2>2. CASE i \in pos + 1..pos'
    BY <1>2, <1>4, <2>2 DEF Complete
  <2> QED
    BY <1>4, <2>1, <2>2
<1>6. /\ judged'.conflict = {} /\ judged'.insert \subseteq source
      /\ \A r \in judged'.insert : r.type \in {"edge", "settings"} \/ r \notin target.here
  BY <1>2 DEF Complete
<1> QED
  BY <1>1, <1>3, <1>5, <1>6 DEF ImportInv

\* A batch that collides with nothing but itself is brought as it is.
LEMMA FlushBringsAll ==
  ASSUME CopyInv, ExportInv, ImportInv, Flush
  PROVE  /\ target.here \subseteq target'.here /\ judged.insert \subseteq target'.here
         /\ target'.here \subseteq source /\ target'.other = {}
         /\ conflicts' = {}
<1> USE DEF Flush
<1>1. /\ judged.conflict = {} /\ judged.insert \subseteq source /\ conflicts = {}
      /\ \A r \in judged.insert : r.type \in {"edge", "settings"} \/ r \notin target.here
      /\ \A q, r \in judged.insert : q.type = r.type
      /\ target.here \subseteq source /\ target.other = {}
  BY DEF ImportInv, ExportInv, CopyInv, BatchOK
<1>2. /\ Brought \subseteq judged.insert /\ Brought \subseteq target'.here
      /\ target'.here \subseteq target.here \cup Brought /\ target'.other = target.other
      /\ \A q \in target.here \ target'.here :
             q.type = "settings" /\ \E r \in Brought : r.type = "settings"
  BY SettleBrings
<1>3. target.here \subseteq target'.here
  <2> SUFFICES ASSUME NEW q \in target.here, q \notin target'.here PROVE FALSE
    OBVIOUS
  <2>1. PICK r \in Brought : q.type = "settings" /\ r.type = "settings"
    BY <1>2
  <2>2. q \in source /\ r \in source
    BY <1>1, <1>2
  <2>3. q.id = r.id
    BY <2>1, <2>2, SourceIsKnown, OneRowOfSettings DEF ExportInv
  <2>4. q = r
    BY <2>2, <2>3, SourceIsKnown DEF ExportInv
  <2> QED
    BY <1>2, <2>4
<1>4. ASSUME NEW r \in judged.insert
      PROVE  r \in Brought \/ (r.type = "edge" /\ r \in target.here)
  <2>1. CASE \E q \in judged.insert : q.type = "settings"
    BY <2>1 DEF Brought
  <2>2. CASE ~ \E q \in judged.insert : q.type = "settings"
    <3>1. ASSUME NEW q \in judged.insert, ~ Collides(q)
          PROVE  q \in Brought
      <4>1. ASSUME NEW p \in judged.insert, p.key = q.key, q.key # NoKey
            PROVE  ~ (p.id < q.id)
        <5>1. p \in source /\ q \in source /\ p.type = q.type
          BY <1>1
        <5>2. p = q /\ q.id \in Nat
          BY <4>1, <5>1, SourceIsKnown DEF ExportInv
        <5> QED
          BY <5>2
      <4> QED
        BY <2>2, <3>1, <4>1 DEF Brought, Inserted
    <3>2. Collides(r) => r \in target.here
      <4>1. r.id \in Ids(target.here \cup target.other) => r \in target.here
        BY <1>1, SourceIsKnown DEF ExportInv, Ids
      <4>2. ASSUME r.key # NoKey, NEW q \in target.here, q.type = r.type, q.key = r.key
            PROVE  r \in target.here
        BY <1>1, <4>2, SourceIsKnown DEF ExportInv
      <4> QED
        BY <4>1, <4>2 DEF Collides
    <3> QED
      BY <1>1, <2>2, <3>1, <3>2
  <2> QED
    BY <2>1, <2>2
<1>5. conflicts' = {}
  <2>1. conflicts' = conflicts \cup Ids(judged.conflict)
            \cup (IF OfType(judged.insert, "edge") # {} THEN {}
                  ELSE Ids(judged.insert) \ Ids(Brought))
    BY DEF Settle, Brought
  <2>2. OfType(judged.insert, "edge") = {} => judged.insert \subseteq Brought
    BY <1>4 DEF OfType
  <2> QED
    BY <1>1, <2>1, <2>2 DEF Ids
<1> QED
  BY <1>1, <1>2, <1>3, <1>4, <1>5

LEMMA FlushKeepsRound ==
  ASSUME CopyInv, ExportInv, ImportInv, Flush
  PROVE  ExportInv' /\ ImportInv'
<1>1. /\ status = "holding" /\ status' = "reading"
      /\ UNCHANGED <<source, table, after, dump, pos>>
  BY DEF Flush, exportVars
<1>2. ExportInv'
  BY <1>1, FlushBringsAll DEF ExportInv, Written, Lines
<1>3. \A i \in 1..pos : dump[i] \in target'.here
  BY <1>1, FlushBringsAll DEF ImportInv
<1> QED
  BY <1>1, <1>2, <1>3, FlushBringsAll DEF ImportInv

LEMMA OtherStepsKeepRound ==
  ASSUME CopyInv, ExportInv, ImportInv,
         \/ ExportEnds \/ Begin \/ Reject \/ FlushFails \/ Finish \/ Crash
         \/ UNCHANGED transferVars
  PROVE  ExportInv' /\ ImportInv'
<1>1. UNCHANGED <<source, table, after, dump, target>>
  BY DEF ExportEnds, Begin, Reject, FlushFails, Finish, Crash, transferVars,
         exportVars, importVars
<1>2. status' # "exporting" => table = 8
  <2>1. CASE ExportEnds
    <3>1. table \in 1..8 /\ table > 7
      BY <2>1, PlacesOfTables DEF ExportEnds, ExportInv
    <3> QED
      BY <3>1
  <2>2. CASE UNCHANGED transferVars
    BY <2>2 DEF transferVars, ExportInv
  <2>3. CASE Begin \/ Reject \/ FlushFails \/ Finish \/ Crash
    <3>1. status # "exporting"
      BY <2>3 DEF Begin, Reject, FlushFails, Finish, Crash
    <3> QED
      BY <3>1 DEF ExportInv
  <2> QED
    BY <2>1, <2>2, <2>3
<1>3. ExportInv'
  BY <1>1, <1>2 DEF ExportInv, Written, Lines
<1>4. CASE ExportEnds \/ Reject \/ FlushFails \/ Crash
  <2>1. conflicts' = conflicts /\ status' \notin {"reading", "holding", "done"}
    BY <1>4 DEF ExportEnds, Reject, FlushFails, Crash, importVars
  <2> QED
    BY <1>3, <2>1 DEF ImportInv
<1>5. CASE Begin
  <2>1. conflicts' = {} /\ status' = "reading" /\ pos' = 0
    BY <1>5 DEF Begin
  <2> QED
    BY <1>3, <2>1 DEF ImportInv
<1>6. CASE Finish
  <2>1. /\ conflicts' = conflicts /\ status = "reading" /\ status' = "done"
        /\ pos' = pos /\ pos = Len(dump)
        /\ touched' = touched \ stamps /\ stamps' = stamps
    BY <1>6 DEF Finish, PutStampsBack
  <2> QED
    BY <1>1, <1>3, <2>1 DEF ImportInv
<1>7. CASE UNCHANGED transferVars
  BY <1>3, <1>7 DEF transferVars, ImportInv
<1> QED
  BY <1>4, <1>5, <1>6, <1>7

LEMMA RoundInvIsInductive ==
  ASSUME CopyInv, RoundInv, [TransferNext]_transferVars
  PROVE  RoundInv'
<1>1. changes' \in Nat /\ (changes' = 0 => changes = 0)
      /\ (SourceChanges \/ LosesItsEnd \/ TargetChanges => changes' # 0)
  <2>1. CASE SourceChanges \/ LosesItsEnd \/ TargetChanges
    <3>1. changes' = changes + 1
      BY <2>1 DEF SourceChanges, LosesItsEnd, TargetChanges
    <3> QED
      BY <3>1 DEF RoundInv
  <2>2. CASE ~ (SourceChanges \/ LosesItsEnd \/ TargetChanges)
    <3>1. changes' = changes
      BY <2>2 DEF TransferNext, ExportPage, ExportEnds, Begin, LookUp, Reject, Flush,
                  FlushFails, Finish, Crash, transferVars
    <3> QED
      BY <2>2, <3>1 DEF RoundInv
  <2> QED
    BY <2>1, <2>2
<1>2. ASSUME changes' = 0
      PROVE  ExportInv' /\ ImportInv'
  <2>1. ExportInv /\ ImportInv /\ ~ (SourceChanges \/ LosesItsEnd \/ TargetChanges)
    BY <1>1, <1>2 DEF RoundInv
  <2>2. CASE ExportPage
    <3>1. UNCHANGED <<conflicts, status>> /\ status = "exporting"
      BY <2>2 DEF ExportPage, importVars
    <3> QED
      BY <2>1, <2>2, <3>1, ExportPageKeepsOrder DEF ImportInv
  <2> QED
    BY <2>1, <2>2, LookUpKeepsRound, FlushKeepsRound, OtherStepsKeepRound DEF TransferNext
<1>3. status' = "done" => (stamps \cap touched)' = {}
  <2>1. CASE Finish
    BY <2>1 DEF Finish, PutStampsBack
  <2>2. CASE ~ Finish
    <3>1. status' = "done" => status = "done" /\ UNCHANGED <<stamps, touched>>
      BY <2>2 DEF TransferNext, ExportPage, ExportEnds, SourceChanges, LosesItsEnd, Begin,
                  LookUp, Reject, Flush, FlushFails, Crash, TargetChanges, transferVars
    <3> QED
      BY <3>1 DEF RoundInv
  <2> QED
    BY <2>1, <2>2
<1> QED
  BY <1>1, <1>2, <1>3 DEF RoundInv

\* A dump that nobody disturbs, read into a database that is empty or holds
\* some of its rows, in one run or in several that were cut off, makes the
\* source again, links and all, for every size of the pages and the batches
\* (tests/transfer.test.ts:173); and what it refers to is in the workspace.
THEOREM RoundTripHolds ==
  ASSUME TargetsArePartsOfSources
  PROVE  TransferSpec => []ImportIsSound
<1>1. ASSUME TransferInit
      PROVE  RoundInv
  <2>1. /\ source \in Sources /\ target \in Targets /\ table = 1 /\ after = 0 /\ dump = <<>>
        /\ status = "exporting" /\ conflicts = {} /\ changes = 0
    BY <1>1 DEF TransferInit
  <2>2. target.other = {} /\ target.here \subseteq source
    BY <2>1, TargetsArePartsOfSources DEF TargetsArePartsOfSources
  <2>3. \A r \in source : ~ Written(r)
    <3> SUFFICES ASSUME NEW r \in source, Written(r) PROVE FALSE
      OBVIOUS
    <3>1. Place[r.type] \in 1..7 /\ r.id \in Nat \ {0}
      BY <2>1, SourceIsKnown, PlacesOfTables
    <3> QED
      BY <2>1, <3>1 DEF Written
  <2>4. ExportInv
    BY <2>1, <2>2, <2>3 DEF ExportInv
  <2> QED
    BY <2>1, <2>4 DEF RoundInv, ImportInv
<1>2. CopyInv /\ RoundInv => RoundTrip
  <2> SUFFICES ASSUME CopyInv, RoundInv, status = "done"
               PROVE  /\ stamps \cap touched = {}
                      /\ Undisturbed => target.here = source /\ conflicts = {}
    BY DEF RoundTrip
  <2>1. ASSUME Undisturbed
        PROVE  target.here = source /\ conflicts = {}
    <3>1. ExportInv /\ ImportInv
      BY <2>1 DEF Undisturbed, RoundInv
    <3>2. ASSUME NEW r \in source
          PROVE  r \in target.here
      <4>1. Written(r)
        <5>1. r.type \in DOMAIN Required /\ table = 8
          BY <3>1, SourceIsKnown DEF ExportInv
        <5>2. Place[r.type] \in 1..7
          BY <5>1, PlacesOfTables
        <5> QED
          BY <5>1, <5>2 DEF Written
      <4>2. PICK i \in 1..Len(dump) : dump[i] = r
        BY <3>1, <4>1 DEF ExportInv, Lines
      <4> QED
        BY <3>1, <4>2 DEF ImportInv
    <3> QED
      BY <3>1, <3>2 DEF ExportInv, ImportInv
  <2> QED
    BY <2>1 DEF RoundInv
<1>3. TransferSpec => []RoundTrip
  BY <1>1, <1>2, CopyInvHoldsInitially, CopyInvIsInductive, RoundInvIsInductive, PTL
     DEF TransferSpec
<1> QED
  BY <1>3, LinksHold, PTL DEF ImportIsSound
-----------------------------------------------------------------------------
(* The types, and the indexes of the database.  A row that is inserted     *)
(* takes no id and no key that is taken, and of two rows of one batch the  *)
(* keys differ or one is left out: this needs that their ids differ, which *)
(* they do because no row is exported twice, whatever is deleted and       *)
(* written again behind the cursor of its table.                           *)

IndexesOK ==
  /\ \A q, r \in target.here \cup target.other : q.id = r.id => q = r
  /\ \A q, r \in target.here : q.type = r.type /\ q.key = r.key /\ q.key # NoKey => q = r

LinesOnce ==
  /\ table \in 1..8 /\ after \in Nat
  /\ \A q, r \in Lines : q.id = r.id => q = r
  /\ status = "exporting" => \A r \in Lines : Written(r)

HeldOnce == status = "holding" => \A q, r \in judged.insert : q.id = r.id => q = r

ShapeInv == IndexesOK /\ LinesOnce /\ HeldOnce

\* A row that was written has a place and a number, as it had.
LEMMA KnownRowPlaced ==
  ASSUME NEW q \in Known(AllRows), NEW r \in Known(AllRows)
  PROVE  /\ r.type \in DOMAIN Required /\ r.id \in Nat \ {0} /\ Place[r.type] \in 1..7
         /\ q.id = r.id => Place[q.type] = Place[r.type]
<1>1. PICK r0 \in AllRows : r.type = r0.type /\ r.id = r0.id
  BY KnownRow
<1>2. r.type \in DOMAIN Required /\ r.id \in Nat \ {0}
  BY <1>1, RowsAssumption DEF RecordOK
<1>3. q.id = r.id => q.type = r.type
  BY KnownRowTyped
<1> QED
  BY <1>2, <1>3, PlacesOfTables

\* A page is of rows after the cursor, in the order of their ids.
LEMMA PageIsNew ==
  ASSUME CopyInv, LinesOnce, ExportPage
  PROVE  LinesOnce'
<1>1. PICK page \in Pages(RecordTypes[table], after) :
          /\ dump' = dump \o page
          /\ IF Len(page) < Batch
             THEN table' = table + 1 /\ after' = 0
             ELSE table' = table /\ after' = page[Batch].id
  BY DEF ExportPage
<1>2. /\ status = "exporting" /\ status' = status /\ table \in 1..7 /\ after \in Nat
      /\ Batch \in Nat \ {0}
  BY PlacesOfTables, BoundsAssumption DEF ExportPage, LinesOnce
<1> DEFINE new == {page[i] : i \in 1..Len(page)}
<1>3. Len(page) \in 0..Batch /\ new \subseteq Known(ExportedRows)
  <2>1. page \in Seq(Known(ExportedRows) \cup {Garbage})
    BY PageIsOfSource DEF CopyInv, RowsKnown
  <2>2. \A i \in 1..Len(page) : page[i] \in source
    BY PageHolds
  <2> QED
    BY <2>2, PageHolds DEF CopyInv, RowsKnown
<1>4. ASSUME NEW r \in new
      PROVE  /\ r \in Known(AllRows) /\ r.id \in Nat /\ r.id > after
             /\ Place[r.type] = table
             /\ Len(page) = Batch => r.id <= page[Batch].id /\ page[Batch].id \in Nat
  <2>1. PICK i \in 1..Len(page) : page[i] = r
    OBVIOUS
  <2>2. r.type = RecordTypes[table] /\ r.id > after
    BY <2>1, PageHolds
  <2>3. r \in Known(AllRows)
    BY <1>3, ExportedAreKnown
  <2>4. Place[RecordTypes[table]] = table
    BY <1>2, PlacesOfTables
  <2>5. ASSUME Len(page) = Batch
        PROVE  r.id <= page[Batch].id /\ page[Batch].id \in Nat
    <3>1. page[Batch] \in new /\ (i = Batch \/ i < Batch)
      BY <1>2, <2>1, <2>5
    <3>2. page[Batch].id \in Nat /\ r.id \in Nat
      BY <1>3, <2>3, <3>1, ExportedAreKnown, KnownRowPlaced
    <3>3. i < Batch => page[i].id < page[Batch].id
      BY <1>2, <2>5, PageHolds
    <3> QED
      BY <2>1, <3>1, <3>2, <3>3
  <2> QED
    BY <2>2, <2>3, <2>4, <2>5, KnownRowPlaced
<1>5. \A q, r \in new : q.id = r.id => q = r
  <2> SUFFICES ASSUME NEW i \in 1..Len(page), NEW j \in 1..Len(page), page[i].id = page[j].id
               PROVE  page[i] = page[j]
    OBVIOUS
  <2>1. page[i].id \in Nat /\ page[j].id \in Nat
    BY <1>4
  <2>2. (i < j => page[i].id < page[j].id) /\ (j < i => page[j].id < page[i].id)
    BY PageHolds
  <2>3. i = j
    BY <1>3, <2>1, <2>2
  <2> QED
    BY <2>3
<1>6. Lines' \subseteq Lines \cup new
  <2>1. dump \in Seq(Known(ExportedRows) \cup {Garbage})
        /\ page \in Seq(Known(ExportedRows) \cup {Garbage})
    BY PageIsOfSource DEF CopyInv, RowsKnown, LinesOK
  <2> HIDE DEF new
  <2>2. SUFFICES ASSUME NEW k \in 1..Len(dump \o page)
                 PROVE  \/ \E i \in 1..Len(dump) : (dump \o page)[k] = dump[i]
                        \/ \E i \in 1..Len(page) : (dump \o page)[k] = page[i]
    BY <1>1 DEF Lines, new
  <2>3. CASE k <= Len(dump)
    BY <2>1, <2>3
  <2>4. CASE k > Len(dump)
    <3>1. k - Len(dump) \in 1..Len(page) /\ (dump \o page)[k] = page[k - Len(dump)]
      BY <2>1, <2>4
    <3> QED
      BY <3>1
  <2> QED
    BY <2>1, <2>3, <2>4
<1> HIDE DEF new
<1>7. ASSUME NEW r \in Lines
      PROVE  /\ r \in Known(AllRows) /\ r.id \in Nat /\ Place[r.type] \in 1..7
             /\ Place[r.type] < table \/ (Place[r.type] = table /\ r.id <= after)
  <2>1. r \in Known(AllRows)
    BY LinesAreKnown, ExportedAreKnown DEF CopyInv, RowsKnown
  <2> QED
    BY <1>2, <2>1, KnownRowPlaced DEF LinesOnce, Written
\* a row with the id of a line is of its table, where the cursor has passed it
<1>8. ASSUME NEW q \in Lines, NEW r \in new
      PROVE  q.id # r.id
  <2>1. q.id = r.id => Place[q.type] = Place[r.type]
    BY <1>4, <1>7, KnownRowPlaced
  <2> QED
    BY <1>2, <1>4, <1>7, <2>1
<1>9. \A q, r \in Lines' : q.id = r.id => q = r
  BY <1>5, <1>6, <1>8 DEF LinesOnce
<1>10. table' \in 1..8 /\ after' \in Nat
  <2>1. Len(page) = Batch => page[Batch] \in new
    BY <1>2 DEF new
  <2> QED
    BY <1>1, <1>2, <1>3, <1>4, <2>1
<1>11. ASSUME NEW r \in Lines'
       PROVE  Place[r.type] < table' \/ (Place[r.type] = table' /\ r.id <= after')
  <2>1. CASE r \in Lines
    <3>1. /\ r.id \in Nat /\ Place[r.type] \in 1..7
          /\ Place[r.type] < table \/ (Place[r.type] = table /\ r.id <= after)
      BY <1>7, <2>1
    <3>2. CASE Len(page) < Batch
      <4>1. table' = table + 1
        BY <1>1, <3>2
      <4> QED
        BY <1>2, <3>1, <4>1
    <3>3. CASE Len(page) = Batch
      <4>1. page[Batch] \in new
        BY <1>2, <3>3 DEF new
      <4>2. page[Batch].id \in Nat /\ page[Batch].id > after
        BY <1>4, <4>1
      <4>3. table' = table /\ after' = page[Batch].id
        BY <1>1, <1>2, <3>3
      <4> QED
        BY <1>2, <3>1, <4>2, <4>3
    <3> QED
      BY <1>2, <1>3, <3>2, <3>3
  <2>2. CASE r \in new
    <3>1. Place[r.type] = table /\ r.id \in Nat
          /\ (Len(page) = Batch => r.id <= page[Batch].id)
      BY <1>4, <2>2
    <3>2. CASE Len(page) < Batch
      BY <1>1, <1>2, <3>1, <3>2
    <3>3. CASE Len(page) = Batch
      BY <1>1, <1>2, <3>1, <3>3
    <3> QED
      BY <1>2, <1>3, <3>2, <3>3
  <2> QED
    BY <1>6, <2>1, <2>2
<1> QED
  BY <1>9, <1>10, <1>11 DEF LinesOnce, Written

\* What a lookup keeps for the insert are rows of the batch, or all of them
\* with their links looked at.
LEMMA LookupInserts ==
  ASSUME NEW rows, NEW first \in rows, \A r \in rows : r.type = first.type
  PROVE  \/ JudgeBatch(rows).insert \subseteq rows
         \/ \A r \in JudgeBatch(rows).insert : \E q \in rows : r = ClearUnknownLink(q)
<1>1. ASSUME NEW j, Sound(j, rows), j.insert \subseteq rows
      PROVE  \A r \in [j EXCEPT !.insert = {ClearUnknownLink(q) : q \in @}].insert :
                 \E q \in rows : r = ClearUnknownLink(q)
  <2>1. [j EXCEPT !.insert = {ClearUnknownLink(q) : q \in @}].insert
          = {ClearUnknownLink(q) : q \in j.insert}
    BY <1>1 DEF Sound, Judge
  <2> QED
    BY <1>1, <2>1
<1>2. JudgeProjects(rows).insert \subseteq rows /\ JudgeEntities(rows).insert \subseteq rows
      /\ JudgeRevisions(rows).insert \subseteq rows
  BY InsertsAreRows DEF JudgeProjects, JudgeEntities, JudgeRevisions
<1>3. JudgeEdges(rows).insert \subseteq rows /\ JudgeSettings(rows).insert \subseteq rows
  BY JudgeFields DEF JudgeEdges, JudgeSettings
<1>4. \A r \in JudgeRules(rows).insert : \E q \in rows : r = ClearUnknownLink(q)
  <2> DEFINE bad == {r \in rows : ~ r.needs \subseteq Entities}
  <2> HIDE DEF bad
  <2>1. Sound(PartitionExisting(rows, bad), rows) /\ PartitionExisting(rows, bad).insert \subseteq rows
    BY PartitionIsSound, InsertsAreRows
  <2> QED
    BY <1>1, <2>1 DEF JudgeRules, bad
<1>5. \A r \in JudgeExceptions(rows).insert : \E q \in rows : r = ClearUnknownLink(q)
  <2> DEFINE known == Ids(OfType(target.here, "recurrence_rule"))
  <2> HIDE DEF known
  <2>1. Sound(SkipKnown(rows, known), rows) /\ SkipKnown(rows, known).insert \subseteq rows
    BY SkipKnownIsSound, InsertsAreRows
  <2> QED
    BY <1>1, <2>1 DEF JudgeExceptions, known
<1> QED
  BY <1>2, <1>3, <1>4, <1>5, JudgedByType

LEMMA LookUpHoldsOnce ==
  ASSUME CopyInv, LinesOnce, LookUp
  PROVE  HeldOnce'
<1>1. Buffer \subseteq Lines /\ Buffer # {} /\ \A q, r \in Buffer : q.type = r.type
  BY BufferIsOfOneType DEF CopyInv, RowsKnown, LookUp
<1>2. \A q, r \in Buffer : q.id = r.id => q = r
  BY <1>1 DEF LinesOnce
<1>3. \/ judged'.insert \subseteq Buffer
      \/ \A r \in judged'.insert : \E q \in Buffer : r = ClearUnknownLink(q)
  BY <1>1, LookupInserts DEF LookUp
<1>4. CASE judged'.insert \subseteq Buffer
  BY <1>2, <1>4 DEF HeldOnce
<1>5. CASE \A r \in judged'.insert : \E q \in Buffer : r = ClearUnknownLink(q)
  <2>1. \A r : ClearUnknownLink(r).id = r.id
    BY DEF ClearUnknownLink, Unlinked
  <2>2. \A q, r \in judged'.insert : q.id = r.id => q = r
    BY <1>2, <1>5, <2>1
  <2> QED
    BY <2>2 DEF HeldOnce
<1> QED
  BY <1>3, <1>4, <1>5

\* What a statement brings has ids and keys of its own, among the rows that
\* are left; the one row of settings takes the place of the one before.
LEMMA FlushKeepsIndexes ==
  ASSUME CopyInv, ScopeInv, IndexesOK, HeldOnce, Flush
  PROVE  IndexesOK'
<1> DEFINE stays == {q \in target.here : q.type # "settings" \/ OfType(Brought, "settings") = {}}
<1>1. status = "holding" /\ Settle
  BY DEF Flush
<1>2. target'.here = stays \cup Brought /\ target'.other = target.other
  <2>1. target = [here |-> target.here, other |-> target.other]
    BY DEF CopyInv, RowsKnown
  <2>2. target' = [target EXCEPT !.here =
               {q \in @ : q.type # "settings" \/ OfType(Brought, "settings") = {}} \cup Brought]
    BY <1>1 DEF Settle, Brought
  <2> QED
    BY <2>1, <2>2
<1>3. /\ Brought \subseteq judged.insert /\ Brought \subseteq Known(AllRows)
      /\ Brought \subseteq Known(ExportedRows) /\ target.here \subseteq Known(AllRows)
      /\ \A q, r \in Brought : q.type = r.type /\ (q.id = r.id => q = r)
  <2>1. Brought \subseteq judged.insert
    BY DEF Brought, Inserted
  <2> QED
    BY <1>1, <2>1, ExportedAreKnown DEF CopyInv, BatchOK, RowsKnown, HeldOnce
\* what comes and what stays
<1>4. ASSUME NEW q \in stays, NEW r \in Brought
      PROVE  q.id # r.id /\ ~ (q.type = r.type /\ q.key = r.key /\ q.key # NoKey)
  <2>1. CASE r.type = "settings"
    <3>1. r \in OfType(Brought, "settings")
      BY <2>1 DEF OfType
    <3>2. q.type # "settings"
      BY <3>1
    <3> QED
      BY <1>3, <2>1, <3>2, KnownRowTyped
  <2>2. CASE r.type # "settings"
    <3>1. r \in Inserted(judged.insert)
      BY <1>3, <2>2 DEF Brought
    <3>2. ~ Collides(r)
      BY <3>1 DEF Inserted
    <3> QED
      BY <3>2 DEF Collides, Ids
  <2> QED
    BY <2>1, <2>2
\* what comes together
<1>5. ASSUME NEW q \in Brought, NEW r \in Brought, q.key = r.key, q.key # NoKey
      PROVE  q = r
  <2>1. q.id \in Nat /\ r.id \in Nat
    BY <1>3, KnownRowPlaced
  <2>2. CASE r.type = "settings"
    BY <1>3, <2>2, OneRowOfSettings
  <2>3. CASE r.type # "settings"
    <3>1. q \in Inserted(judged.insert) /\ r \in Inserted(judged.insert)
      BY <1>3, <2>3 DEF Brought
    <3>2. ~ (q.id < r.id) /\ ~ (r.id < q.id)
      BY <1>5, <3>1 DEF Inserted
    <3>3. q.id = r.id
      BY <2>1, <3>2
    <3> QED
      BY <1>3, <3>3
  <2> QED
    BY <2>2, <2>3
<1>6. Ids(Brought) \cap Ids(target.other) = {}
  <2>1. Ids(target'.here) \cap Ids(target'.other) = {}
    BY FlushKeepsScope DEF ScopeInv
  <2> QED
    BY <1>2, <2>1 DEF Ids
<1>7. ASSUME NEW q \in target'.here \cup target'.other, NEW r \in target'.here \cup target'.other,
             q.id = r.id
      PROVE  q = r
  <2>1. CASE q \in Brought /\ r \in Brought
    BY <1>3, <1>7, <2>1
  <2>2. CASE q \notin Brought /\ r \notin Brought
    BY <1>2, <1>7, <2>2 DEF IndexesOK
  <2>3. CASE q \in Brought /\ r \notin Brought
    BY <1>2, <1>4, <1>6, <1>7, <2>3 DEF Ids
  <2>4. CASE q \notin Brought /\ r \in Brought
    BY <1>2, <1>4, <1>6, <1>7, <2>4 DEF Ids
  <2> QED
    BY <2>1, <2>2, <2>3, <2>4
<1>8. ASSUME NEW q \in target'.here, NEW r \in target'.here,
             q.type = r.type, q.key = r.key, q.key # NoKey
      PROVE  q = r
  <2>1. CASE q \in Brought /\ r \in Brought
    BY <1>5, <1>8, <2>1
  <2>2. CASE q \in stays /\ r \in stays
    BY <1>8, <2>2 DEF IndexesOK
  <2>3. CASE (q \in Brought /\ r \in stays) \/ (q \in stays /\ r \in Brought)
    BY <1>4, <1>8, <2>3
  <2> QED
    BY <1>2, <2>1, <2>2, <2>3
<1> QED
  BY <1>7, <1>8 DEF IndexesOK

\* Others insert what collides with nothing; what a purge leaves has the ids
\* and the keys it had.
LEMMA TargetChangesKeepsIndexes ==
  ASSUME CopyInv, ScopeInv, IndexesOK, TargetChanges
  PROVE  IndexesOK'
<1>1. target = [here |-> target.here, other |-> target.other]
  BY DEF CopyInv, RowsKnown
<1>2. target'.other = target.other /\ Ids(target'.here) \cap Ids(target.other) = {}
  BY TargetChangesRows, TargetChangesKeepsScope DEF ScopeInv
<1>3. CASE \E r \in Squatters : ~ Collides(r) /\ target' = [target EXCEPT !.here = @ \cup {r}]
  <2>1. PICK r \in Squatters : ~ Collides(r) /\ target' = [target EXCEPT !.here = @ \cup {r}]
    BY <1>3
  <2>2. target'.here = target.here \cup {r}
    BY <1>1, <2>1
  <2>3. \A q \in target.here \cup target.other : q.id # r.id
    BY <2>1 DEF Collides, Ids
  <2>4. \A q \in target.here : ~ (q.type = r.type /\ q.key = r.key /\ q.key # NoKey)
    BY <2>1 DEF Collides
  <2> QED
    BY <1>2, <2>2, <2>3, <2>4 DEF IndexesOK
<1>4. CASE \E r \in target.here : target' = [target EXCEPT !.here = Purge(@, r.id)]
  <2>1. PICK e \in target.here : target' = [target EXCEPT !.here = Purge(@, e.id)]
    BY <1>4
  <2>2. target'.here = Purge(target.here, e.id)
    BY <1>1, <2>1
  <2> DEFINE direct == {r \in target.here : r.id # e.id /\ e.id \notin r.needs}
             kept == {r \in direct : r.needs \cap (Ids(target.here) \ Ids(direct)) = {}}
             gone == Ids(target.here) \ Ids(kept)
  <2>3. \A p \in target'.here : \E q \in target.here :
            p = IF q.link \in gone THEN Unlinked(q) ELSE q
    BY <2>2 DEF Purge
  <2> HIDE DEF gone
  <2>4. \A q : /\ Unlinked(q).id = q.id /\ Unlinked(q).type = q.type
               /\ Unlinked(q).key = q.key
    BY DEF Unlinked
  <2>5. ASSUME NEW p \in target'.here, NEW r \in target'.here,
               p.id = r.id \/ (p.type = r.type /\ p.key = r.key /\ p.key # NoKey)
        PROVE  p = r
    <3>1. PICK p0 \in target.here : p = IF p0.link \in gone THEN Unlinked(p0) ELSE p0
      BY <2>3
    <3>2. PICK r0 \in target.here : r = IF r0.link \in gone THEN Unlinked(r0) ELSE r0
      BY <2>3
    <3>3. /\ p.id = p0.id /\ p.type = p0.type /\ p.key = p0.key
          /\ r.id = r0.id /\ r.type = r0.type /\ r.key = r0.key
      BY <2>4, <3>1, <3>2
    <3>4. p0 = r0
      BY <2>5, <3>3 DEF IndexesOK
    <3> QED
      BY <3>1, <3>2, <3>4
  <2>6. \A p \in target'.here, q \in target.other : p.id # q.id
    BY <1>2 DEF Ids
  <2> QED
    BY <1>2, <2>5, <2>6 DEF IndexesOK
<1> QED
  BY <1>3, <1>4 DEF TargetChanges, OfType

LEMMA ShapeInvHoldsInitially ==
  ASSUME TransferInit
  PROVE  ShapeInv
<1>1. target \in Targets /\ status = "exporting" /\ table = 1 /\ after = 0 /\ Lines = {}
  BY DEF TransferInit, Lines
<1>2. IndexesOK
  BY <1>1, WorkspacesAssumption DEF IndexesOK
<1> QED
  BY <1>1, <1>2 DEF ShapeInv, LinesOnce, HeldOnce

LEMMA ShapeInvIsInductive ==
  ASSUME CopyInv, ScopeInv, ShapeInv, [TransferNext]_transferVars
  PROVE  ShapeInv'
<1> USE DEF ShapeInv
<1>1. CASE ExportPage
  <2>1. UNCHANGED target /\ status' # "holding"
    BY <1>1 DEF ExportPage, importVars
  <2> QED
    BY <1>1, <2>1, PageIsNew DEF IndexesOK, HeldOnce
<1>2. CASE LosesItsEnd
  <2>1. UNCHANGED <<target, table, after>> /\ status' = "ready" /\ Lines' \subseteq Lines
    BY <1>2, LosesItsEndKeepsCopyInv DEF LosesItsEnd, importVars
  <2> QED
    BY <2>1 DEF IndexesOK, HeldOnce, LinesOnce
<1>3. ASSUME UNCHANGED <<dump, table, after>>, status' = "exporting" => status = "exporting"
      PROVE  LinesOnce'
  <2>1. Lines' = Lines
    BY <1>3 DEF Lines
  <2> QED
    BY <1>3, <2>1 DEF LinesOnce, Written
<1>4. CASE LookUp
  <2>1. UNCHANGED <<target, dump, table, after>> /\ status' # "exporting"
    BY <1>4 DEF LookUp, exportVars
  <2> QED
    BY <1>3, <1>4, <2>1, LookUpHoldsOnce DEF IndexesOK
<1>5. CASE Flush
  <2>1. UNCHANGED <<dump, table, after>> /\ status' = "reading"
    BY <1>5 DEF Flush, exportVars
  <2> QED
    BY <1>3, <1>5, <2>1, FlushKeepsIndexes DEF HeldOnce
<1>6. CASE TargetChanges
  <2>1. UNCHANGED <<dump, table, after, status, judged>>
    BY <1>6 DEF TargetChanges, exportVars
  <2> QED
    BY <1>3, <1>6, <2>1, TargetChangesKeepsIndexes DEF HeldOnce
<1>7. CASE ExportEnds \/ SourceChanges \/ Begin \/ Reject \/ FlushFails \/ Finish \/ Crash
  <2>1. /\ UNCHANGED <<target, dump, table, after>> /\ status' # "holding"
        /\ status' = "exporting" => status = "exporting"
    BY <1>7 DEF ExportEnds, SourceChanges, Begin, Reject, FlushFails, Finish, Crash,
                exportVars, importVars
  <2> QED
    BY <1>3, <2>1 DEF IndexesOK, HeldOnce
<1>8. CASE UNCHANGED transferVars
  <2>1. UNCHANGED <<target, dump, table, after, status, judged>>
    BY <1>8 DEF transferVars
  <2> QED
    BY <1>3, <2>1 DEF IndexesOK, HeldOnce
<1> QED
  BY <1>1, <1>2, <1>4, <1>5, <1>6, <1>7, <1>8 DEF TransferNext

\* The dump holds rows that were exported, with their links or without, the
\* report is about its lines, and the database keeps its indexes: no two
\* rows have one id, in this workspace and the others, and no two rows of a
\* table of this one have the same unique key (transfer.ts, and the indexes
\* that ON CONFLICT DO NOTHING looks at).
THEOREM TransferTypesHold == TransferSpec => []TransferTypeOK
<1>1. ASSUME CopyInv, ShapeInv
      PROVE  TransferTypeOK
  <2>1. \A i \in 1..Len(dump) : dump[i] \in ExportedRows \cup {Garbage} \/ dump[i].link = NoLink
    BY <1>1, LinesAreKnown DEF CopyInv, RowsKnown, Known, Unlinked
  <2>2. skipped \cup conflicts \subseteq Ids({dump[i] : i \in 1..Len(dump)})
    BY <1>1 DEF CopyInv, Lines, Ids
  <2> QED
    BY <1>1, <2>1, <2>2 DEF TransferTypeOK, CopyInv, RunOK, ShapeInv, IndexesOK
<1> QED
  BY <1>1, CopyInvHoldsInitially, CopyInvIsInductive, ScopeInvHoldsInitially,
     ScopeInvIsInductive, ShapeInvHoldsInitially, ShapeInvIsInductive, PTL DEF TransferSpec

\* A behaviour of the workspace that is copied and read is one of the
\* transfer and one of the views.
THEOREM WorkspaceIsBoth == WorkspaceSpec => TransferSpec /\ ViewsSpec
<1>1. WorkspaceInit => TransferInit /\ ViewsInit
  BY DEF WorkspaceInit
<1>2. [WorkspaceNext]_workspaceVars => [TransferNext]_transferVars /\ [ViewsNext]_viewsVars
  BY DEF WorkspaceNext, workspaceVars
<1> QED
  BY <1>1, <1>2, PTL DEF WorkspaceSpec, TransferSpec, ViewsSpec

\* Both parts keep their shape, the indexes of the target among it.
THEOREM WorkspaceTypesHold == WorkspaceSpec => []WorkspaceTypeOK
BY TransferTypesHold, ViewsTypesHold, WorkspaceIsBoth, PTL DEF WorkspaceTypeOK
=============================================================================
