# Botnote in TLA+

Botnote is a store of projects, tasks, notes and comments in PostgreSQL, served
by a daemon over REST and MCP to people and to coding agents that write at the
same time. This directory holds TLA+ models of it, the TLC configurations that
check them, and theorems about them proved with TLAPS.

What makes the program hard is not one algorithm. Most operations are several
SQL statements that are not in one transaction; requests of several agents and
the timers of the daemon run between them; values read by one statement are used
by a later one; clients cache, retry and save behind the user's back. The models
therefore share one grain: **an action is one statement, one transaction, or the
code between two awaits**; a request is a process that remembers what it has
read, and what it remembers may be out of date when it uses it.

- [Inventory](#inventory)
- [Modules](#modules)
- [Runs](#runs)
- [Fairness](#fairness)
- [What the code does otherwise than it says](#what-the-code-does-otherwise-than-it-says)
- [Theorems](#theorems)
- [What is not modelled](#what-is-not-modelled)
- [Plan](#plan)

## Inventory

`PROJECT.json` lists every part with its status, and every hazard with its line
and the properties that watch it. Paths are below `src/`.

| Part | Source | State | Operations | Hard behaviour | What makes it correct | Module |
|---|---|---|---|---|---|---|
| Recurrence engine | `src/service/recurrence.ts`, migrations 0017, 0022 | rules, exceptions, the marker of an occurrence | attach, update, stop, split; complete, skip; the materializer | completion is not transactional; stale rule snapshots; the daily pass beside requests; purges that cascade | one active rule per series; nothing generated twice; no day owed for ever; a stopped series stays quiet; COUNT is kept | `Recurrence` |
| Entity store | `src/service/entities.ts`, `src/db/schema.ts` | `entities`, `edges` | write, update, comment, trash, restore, purge | checks before writes without a lock; edges outside the transaction | stamps follow status; no parent loop; one row per idempotency key; the trash is frozen | `Entities`, `Gateway` |
| Revision history | `src/service/revisions.ts`, migration 0031 | `entity_revisions` | record and trim | two updates that number the same revision | no gap; replaced content is kept | `Entities` |
| Sequence keys (`BOT-44`) | migration 0026 | `projects.next_seq`, `entities.sequence_id` | trigger, import, move, purge | row locks held to the end of a transaction, rollbacks, explicit numbers | a key names one entity for ever | `KeySequence` |
| Embedding worker | `src/service/embedding.ts`, `embedding_settings.ts` | queue, map, set, flag in memory; `body_vec` | enqueue, sweep, batch, retry, back-off, reload | results that come after an edit; partial failure; restart | a vector is that of the latest text; every row gets one | `EmbeddingWorker` |
| Daemon, background jobs | `src/cli.ts`, `src/service/locks.ts`, `src/db/client.ts` | timers, advisory locks, a pool | materializer, purge, prune, sweep | several daemons; pool exhaustion | one pass at a time; a failing job stops nothing else | fairness of the two above |
| Workspace transfer | `src/service/transfer.ts` | none of its own | export in pages, import in batches | pages without a snapshot; conflicts; crashes between batches | a repeated import changes nothing; what is refused is reported; links stay in the workspace | `Transfer`, `Copy` |
| Task ranges, quick lists | `src/service/tasks.ts`, `dates.ts`, `web/src/components/tasks/utils.ts`, two pages | none | `tasksRange`, Today, Dashboard, calendar | four passes with bounds of their own; days announced from a rule | buckets are disjoint and leave nothing out | `Views` |
| Hierarchy, blockers, links | `src/service/hierarchy.ts`, `blockers.ts` | `edges` | trees, blocked-by | two linkage styles | a link that is shown leads somewhere | `Entities`, `Views` |
| Opening brief | `src/service/opening_brief.ts` | none | one read | two shared limits | work in progress is in it | `Views` |
| Sessions, tokens, gate | `src/service/sessions.ts`, `tokens.ts`, `src/rest/auth.ts`, `server.ts` | sessions, tokens, a label cache of 30 s, the limiter | log in, authenticate, revoke, prune | credentials that change between two awaits; a cache filled after an await | let in by what was good on arrival; labels become right | `Access` |
| REST routes | `src/rest/routes.ts`, `attribution.ts`, `src/service/types.ts` | none | parse, one service call | zod drops a field a schema does not name | every argument arrives | `Gateway` |
| MCP server, HTTP client | `src/mcp/server.ts`, `http-client.ts` | a cache of project keys | about forty tools | batches; retries; lookups before calls | what is told is so | `Gateway` |
| Projects, settings, feedback | `src/service/projects.ts`, `workspace_settings.ts`, `feedback.ts` | rows | single statements | - | - | `Gateway`, `CommandLine`, `Views` |
| Command line | `src/bin.ts` | a configuration file | subcommands of one to three calls | other clients between the calls; repetition after a lost answer | exit code 0 means done; a repetition does not complete twice | `CommandLine` |
| Web: queries | `web/src/api/hooks.ts`, `hooks/useUndoableDelete.ts`, `state/toasts.tsx` | the query cache | reads, writes with invalidation, undo | a write while a request is under way; a delayed deletion | an open view shows the truth in the end | `QueryCache` |
| Web: drawer | `web/src/components/EntityDrawer.tsx`, `hooks/useDrawer.ts` | a draft, a timer, PATCHes under way | hydrate, autosave, Done | overlapping PATCHes; polling under an edit | typing arrives; nothing untouched is saved | `Drawer` |
| Web: pages | `web/src/pages/` | forms | views | - | - | lists only, in `Views` |
| Search; migrations | `src/service/search.ts`; `src/db/migrate.ts` | access counters; - | reads; one transaction a file | ranking; - | - | not modelled |

**Interaction.** The MCP server, the web interface and the command line are
clients of the same routes; each route calls one service function behind the gate
of `server.ts`. `entities.update()` calls the recurrence engine when a task becomes
done and `recordRevision` in its transaction; every insert of an entity goes through
the sequence trigger; routes enqueue the text they have written in the embedding
worker; the daemon's timers call the materializer, the purge, the prune and the
sweep. A purge reaches rules, edges, revisions and children by foreign keys.

## Modules

The modules of a component come without values; `MC*.tla` gives values or puts
components together, and the `.cfg` files are the configurations. Definitions
marked *Mutant* in a comment are used by no specification: each is its neighbour
with one plausible mistake, and shows that some property notices it. Actions
marked *Fault* are things the environment does to the code.

Three MC modules compose components that share no state: `MCServer` (`Gateway`,
`Access`), `MCWorkspace` (`Transfer`, `Views`) and `MCWeb` (`QueryCache`, `Drawer`,
`CommandLine`). Their variable `part` says which component a behaviour is about, the
others stay in one initial state; one run thus checks them side by side without
multiplying their states. Every disjunct and property is that of the component.

### `Recurrence`: rules and occurrences

State: `now` (the day), `tasks` (rows of `entities`, an occurrence named by its
idempotency key, i.e. rule and due day), `rules` (rows of `recurrence_rules`),
`exceptions` (the `skipped` rows) and `req`, what each request has read.

| Code | Actions |
|---|---|
| `update()` to done, then `advanceRecurrenceOnCompletion` | `BeginComplete`, `MarkDone`, `FindRule`, `InsertNext` and `BumpRule`, or `EndSeries` |
| `skipOccurrence` | `BeginSkip`, `FindRule`, `InsertSkipException`, `RejectSkipped`, then as above |
| `createRecurrenceRule` | `BeginCreate`, `FindExisting`, `RewriteRule` or `InsertRule` or `RefuseRule`, `WriteMarker` |
| `updateRecurrenceRule` | `BeginUpdateRule`, `WriteUpdate` |
| `stopRecurrence` | `StopRecurrence` |
| `splitRecurrence` | `BeginSplit` (its reads take no lock), `Fork` or `RefuseFork` |
| `materializeRule`, in its transaction | `MaterializeRule` |
| other updates, `remove`, `restore`, `purge` | `SetStatus`, `Reschedule`, `Trash`, `Restore`, `Purge` with the foreign keys |
| a failed statement, the daemon stops | `Crash` |

Abstractions. A day stands for its noon, where `normalizeOccurrenceDueAt` puts
an occurrence; a completion is a day and whether its noon had passed. An RRULE is
a step in days with UNTIL and COUNT: the engine only calls `after()` and reads
`count`. `insertNextOccurrence`, an insert that ignores conflicts and a select by
key, is one step, since the row it finds is the one that made it conflict.
`advanceRuleFromOccurrence` tests `enabled` on the copy `findRuleForTask` has just
returned with `enabled = true`, so the test adds nothing to `FindRule`. A pass of
the materializer takes a rule up to the end of the day: its budget of 500
occurrences is left out. `update()` rechecks its row by key only, so a completion
may find a row that was trashed meanwhile. `generatedCount` saturates at `MaxGen`,
which no COUNT exceeds. `inc` tells a row from a later one under the same key, which
PostgreSQL does by its id. `Ops` chooses the operations of a run, `Overlap` whether
requests may overlap (`Calm`).

`SeriesInOrder` is one property of four parts: no day is generated twice, the
current occurrence is the last one, the cursor is not behind it, and a chain has
one open occurrence. They are the serial contract of the engine; a change to one
mostly shows in another.

### `KeySequence`: the numbers of a project

State: `nextSeq` (committed counters), `rows`, `tx` (the open transaction of each
connection: the counters it has locked and the rows it has added), `issued`
(history). Actions: `InsertNumbered`, `InsertRefused` (the unique index),
`InsertIgnored` (ON CONFLICT DO NOTHING keeps the drawn number), `Import`,
`Commit`, `Rollback`, `Move` (`update()` with a `projectId`) and `Purge`. A
transaction may mix inserts and imports; the code's do one or the other, so the
model allows more.

### `Entities`: rows, history and parent links

State: `rows`, `revs` (history by number), `edges` (the `parent_of` rows), `req`,
and the history variable `tainted`: the entities to which an update was applied
after a row it had read was changed. Actions: `BeginWrite`, `InsertEntity`,
`InsertEdge` for `write` and `addComment`; `BeginUpdate` (the parent check and the
read of the prior row, which the code makes one after the other, taken together),
`RecordRevision`, `Resume` (woken by the unique index), `ApplyUpdate`, `InsertEdge`
for `update`; `Trash`, `Restore`, `Purge`, `Crash`. Title, body, tags and priority
are one column, a set of texts that an edit replaces or adds to; the blank line that
`bodyAppend` puts before what it adds is a member of its own (`BlankLine`), because an
append of the empty text adds it alone, and without a revision (`ContentChanges`).

Several properties exempt `tainted` entities. That is not a way around the
hazard: what overlapping reads break is stated without the exemption in
`SnapshotIsBefore` and TLC shows it broken; the exempted form says that nothing
else breaks it. `HistoryIsComplete` has two halves: what an update replaces is in
the history, and its numbers have no gap. The second is checked for two updates
with one revision kept: were more updates than `Retention` (50) to commit while
another waits at the unique index, the waiting one could store an older number.

### `EmbeddingWorker`: the queue in memory

State: `rows` (the last edit, the last one that left a text, and the vector, each the
number of an edit), `handlers` (requests
that have committed and not enqueued yet), `sweep` (what `enqueueMissing` has
read), `queue`, `pending`, `inFlight` as in the code, `phase` (where `process()`
is), `batch`, `writes` (`setBodyVec` statements under way) and the history variables
`lost` (rows whose latest text was dropped by a restart, a giving up or a refusal,
or was overtaken by an older one) and `gaveUp`. The code runs on one thread, so an
action is what happens between two awaits. `TakeBatch` is separated from the
`tick()` that leads to it without an await; a handler that runs in between could
have run before. Of sweeps, one runs at a time, as the timer's do.
An edit may leave nothing but blanks: `add()` drops it before it looks at the queue, so
an older text keeps waiting and an older vector stays, and a blank row without a vector
is read by every sweep and never queued. `FreshAtRest` and `NullIsEmbedded` are about
texts that are not blank.
A failed write of a batch leaves the others under way (`Promise.all`), where they
may land after a retry.

### `Gateway`: from a tool or a web call to the service

`Calls` is the table of the MCP tools (`McpTools`) and of the web client's calls
(`WebCalls`): what a caller must and may give, which argument names go to which
request, where the path takes an id. `Routes` is the table of the daemon's routes:
parameters, schema (fields with the classes of values they accept, defaults,
strictness) and what the service does. `Accepts` is zod's verdict, `Parsed` what it
lets through: a field a schema does not name is dropped without a word. A value is a
class (`"uuid"`, `"prefix"`, `"keyseq"`; `"empty"`, `"text"`; an enumeration's own
members), since the schemas tell no more apart.

One call runs through these tables, step by step.

| Code | Actions |
|---|---|
| a tool is called, or the next item of `update_entities` | `Invoke`, `NextItem` |
| `resolveEntityRef` and its fellows, one request for each KEY-SEQ | `Resolve` |
| `create_project` looks for the project first | `LookUp` |
| the client builds the request, the route parses it | `Send` |
| the service finds the entity, writes, adds the edge of `supersedes` | `Find`, `Do`, `Mark` |
| the answer is written, with the projects' keys fetched on demand | `Render` |
| the caller makes a failed call again | `Repeat` |
| faults: the answer is lost and the daemon goes on; it stops; it starts | `LoseAnswer`, `FinishLate`, `StopDaemon`, `StartDaemon` |
| other clients trash, restore or purge the target, or create the project | `Others` |

`TablesFitAssumption` compares the tables argument by argument, as far as one
argument's names and values go; `SchemasAgree` is about the requests of a run, with
several arguments, references looked up and defaults filled in. It says that every argument arrives with its value, that the daemon
refuses nothing a client's own schema let through, and that writes carry the
agent's name. `KnownRefusal` names what may be refused all the same (arguments that
exclude each other, and the disagreements listed below); nothing else is exempt. `OneRowPerKey` and `OkIsDone` are about repetition: a call
with an idempotency key makes one row however often it is made; an answer of
success means the service did it all; and after a success a superseding note has its
edge.

### `Access`: the gate, tokens, sessions, the limiter, the labels

State: `env` (the environment variables `auth.ts` reads), `tokens` and `life`
(valid tokens; ticks left of each session) with their histories, `labelCache`,
`hits` (the limiter by address), `tried` (history: passwords compared by TCP peer)
and `req` (each request's phase, address headers, credentials, and `held`, what was
good when it came). `RequestOrigin`, `ClientIp`, `IsTrustedProxy` and `MatchesCidr`
are operators over addresses of `Width` bits. `AtTheHook` is the hook up to its first
await. It tests the URL as it was sent for the prefix `/v1/`, while the router goes by
the decoded path; a request says whether its URL has the prefix as sent (`prefixed`),
and `GateIsRight` is about those that have, which the hook takes for its own.

Actions: `Arrive`, `ResolveBearer`, `ResolveCookie`, `Refuse` (the awaits of the
onRequest hook), `CreateToken`, `RevokeToken`, `InvalidateLabels`,
`ServeCachedLabels`, `SelectLabels`, `StoreLabels` (`tokenLabels` with its await),
`Login` (with the limiter), `Logout`, `PruneExpiredSessions`, `Abandon` (a client
that goes away) and `Tick` (time: sessions age, the cache ages, the window ends).

### `Transfer` and `Copy`: a workspace exported and imported

`Copy` is the abstract specification: rows are offered; each attempt delivers some
of them and never anything else; an attempt that reports its end has accounted for
every row: it is there, it was reported as refused, or somebody removed it.
`Transfer` implements it: `IsCopy` is `INSTANCE Copy WITH` the dump's ids, those of
them in the target, the reported conflicts, what others deleted, and whether the
import has returned.

State: the source and the export's place in it (`ExportPage`, `ExportEnds`, while
`SourceChanges`), the dump (which `LosesItsEnd`), the target as `here` (the
workspace) and `other` (other workspaces of the database), and the importer:
its line, what the batch's SELECTs found, what it skipped and reported, the
projects' timestamps it puts back. `LookUp` and `Flush` are the two halves of a
batch, with others' writes (`TargetChanges`) between them; `Judge*` are the
importer's decisions per table; `FlushFails` is a foreign key; `Reject` a malformed
line; `Crash` leaves the batches done so far; `Begin` starts again from line one.

`LinksStayHere` (a reference of an imported row leads to a row of this workspace,
with colliding ids in another) and `RoundTrip` (an undisturbed dump makes the
source again) are `ImportIsSound`.

### `Views`: what the lists say

State: `task` (rows), `edge`, `log` (comments), `rule` (one series), `archived`,
`now` in half days. Each service function is an operator over it: `Scheduled`,
`Overdue`, `InProgressToday`, `Backlog`, `VirtualOccurrences` (`tasks.ts`), `Parent`,
`Children`, `Closed` (`hierarchy.ts`), `BlockersOf`, `OpenTasks`, `StartedInBrief`,
`LatestComments` (`opening_brief.ts`), `TodayPage`, `DashboardOpen` (web). The writes
(`Write`, `SetStatus`, `SkipOccurrence`, `SetDue`, `SetStamp`, `SetParent`, `Trash`,
`Restore`, `Link`, `Comment`, `Configure`, `SetArchived`, `Stop`, `Materialize`) are
single steps here and statement by statement in `Entities` and `Recurrence`: their
purpose is that TLC reaches every constellation of rows the program can, and no
others.

`ListsAgree` is `ExactlyOneBucket` (an unfinished task is in exactly one bucket of
every window that should have it), `CountedOnce` (done work is on one day; a
dashboard card counts each task once) and `LinksLeadSomewhere` (the two queries that
derive parents and children from column and edge agree; a blocker that is named is
work that is counted).

### `QueryCache`: what a browser tab shows

Queries do not influence each other, so a behaviour follows one, `watched`, chosen
from all query keys. `ShownBy` says which facets of the data it shows; a mutation
(`Mutations`, one per hook) changes facets and names the keys it invalidates or
sets. A search shows comments, and lists over all projects leave out the archived ones.
State: `db` (the server's facets), `shown` (the cache), `stale`, `old`,
`mounted`, `get` (a request under way), `call` (a write under way), `undo` (the toast,
its deletion and its restore) and `excused`. Actions: `Mount`, `Unmount`, `Age`,
`Focus`, `Poll`, `Read`, `Answer`, `GetFails`; `Call`, `Land`, `Succeed`, `CallFails`;
`OthersWrite`; `DeleteWithUndo`, `DeleteLands`, `DeleteRefused`, `ToastExpires`,
`Undo`, `RestoreLands`, `RestoreAnswered`. TanStack Query is external and modelled
from how the hooks use it (cancel, snapshot, set, invalidate, refetch on focus).

`DeleteWithUndo` is followed for every query that shows the row, also for those that are
none of `LIST_KEYS` and are neither stripped nor invalidated.

`excused` is set by what only a later visit repairs: a failed request, a write of
somebody else, a write of this tab that leaves the query stale (`LeftStale`, and the
undoable deletion for a query outside `LIST_KEYS`), and the races listed below, each of
them for the key concerned. Nearly every write that a search shows is among them, so of
searches `ShowsTheTruth` says little. A polled query is never excused.

### `Drawer`: a draft that saves itself

State: `server`, `cache` and `asked` per entity, `drawer` (which entity, which one the
draft was hydrated from, editing, timer), `draft`, `base`, `typed`, `patches` under
way, `used`. Actions: `OpenDrawer`, `CloseDrawer`, `FocusDrawer`, `StartEditing`,
`Type`, `Autosave`, `FinishEditing`, `PatchLands`, `PatchSucceeds`, `PatchFails`,
`ReadEntity`, `Arrive`, `AgentWrites`. `Render` is the component's effects after each
change: `Hydrated` (which fields follow the cache), `Diff` (what would be saved).
Title, body, tags, priority and due date are one field, the completion time
another, since the drawer treats them differently: `StartEditing` fills the first again
and neither the second nor its flag, which are filled when another entity comes on
show. `typed` is therefore what was typed into a field since it was last filled, and
`SavesWhatWasTyped` says that what is saved is that, not that it was typed in this
editing (`Web_stamp.cfg`). `base` is what editing found.

### `CommandLine`: the botnote command

`Calls` gives each subcommand's calls in order; the server is reduced to tasks, their
series and a project. Actions: `Main` (the command is run, first or again), `Answered`,
`Refused`, `Lost` (fault: the call fails before or after the server acted),
`CmdLogin`, `CmdLogout` (the configuration is read anew for every call),
`OtherClientWrites`. `SuccessIsComplete` is about exit code 0, `MovesOnce` about
running a command again whose answer was lost.

### Proof modules

`RecurrenceProofs`, `KeySequenceProofs`, `EntitiesProofs`, `EmbeddingWorkerProofs`
and `ViewsProofs` extend the component they are named after and TLAPS, nothing else of
the project. The other three extend a composition, and prove about its parts first:
`EntryProofs` extends `MCServer` (`Access` and `Gateway`, the way into the daemon),
`ClientProofs` extends `MCWeb` (`CommandLine`, `QueryCache` and `Drawer`, three of its
clients), `TransferProofs` extends `MCWorkspace` (`Transfer` and `Views`) and `ViewsProofs`.

## Runs

Twelve configurations; nine find no error, three find their property violated (next
section). `server_entry` and `workspace_copied_read` take two to four minutes with two workers,
the rest up to two. `CHECK_DEADLOCK FALSE` is set where a bound (last day,
ids, edits, attempts) ends behaviours; `KeySequence_keys.cfg` has no such end and is
checked for deadlock: two connections that wait for each other's counters would show.

| Run | Asks | Bounds and why they suffice |
|---|---|---|
| `recurrence_serial` | Is a series right when requests come one at a time, with the materializer and the clock between them? `SeriesInOrder`, `DoneMovesOn`, `CountBoundsMembers` | three days, two rules (a split), COUNT 3 or none, both anchors: COUNT runs out, a series is split and completed on either side, days are missed. A series is split at most once: what a second split breaks is below |
| `recurrence_overlap` | Do rows stay linked, and is one rule active, when two requests overlap and rows are purged between their statements? `OneActiveRulePerSeries`, `SeriesClosed` | two requests are the races of the code; a row is purged and inserted again once |
| `recurrence_catchup` | Does the materializer catch up whatever requests, stops and crashes leave? Does a stop hold against what is under way? `CatchesUp`, `StopHolds` | one request against the timer, every statement may be the last; days to 2, COUNT 2 or none; edits change enabled and the anchor either way; completions, re-attachments and moves, no skips |
| `key_sequence` | Are keys unique and never reissued? `KeyUnique`, `NeverReissued`, `CounterAhead` | two projects (a move), two transactions, three entities, numbers to 2: a number is drawn, rolled back, imported over and drawn again |
| `entities_overlap` | Do overlapping updates keep history, stamps, links and keys? `HistoryIsComplete`, `StampMatchesDone`, `NoParentLoop`, `OnePerKey`, `TrashedIsFrozen` | two entities (a loop), two requests, two updates each, one revision kept: trimming happens at the second; bodies are set, appended to, and appended to with the empty text |
| `embedding_queue` | Is nothing left stale at rest, every row served? `FreshAtRest`, `NullIsEmbedded` | two rows, one that fails each time, two edits each, either of which may be blank, batches of two, two attempts, two faults |
| `server_entry` | Does every argument of every tool and web call arrive, is what is told so, whatever stops or is repeated? Does the gate let in whom it should? `SchemasAgree`, `OneRowPerKey`, `OkIsDone`, `Answered`; `GateIsRight`, `LoginIsLimited`, `LabelsSettle` | every call with its required arguments and each optional one alone, and those together that exclude or need each other; batches of two; two rounds of a call. Two requests (a local user; a proxied or forging one, or one whose URL the hook does not take for its own), one token, one session, four addresses, three environments: trusted nobody, a proxy network, no authentication |
| `workspace_copied_read` | Does an import do what `Copy` promises, `ImportIsSound`, `IsCopy`? Do the lists agree, `ListsAgree`, `GhostsAreHonest`, `BriefIsComplete`? | one row of each type, pages and batches of two, three foreign changes, three attempts; targets that are empty, hold the project's key, hold an id elsewhere. Three rows, three writes, days 0 and 1: before, in and after a window; limits of one task and one comment in a brief, so that they bite |
| `web_tab` | Does an open view show the truth in the end, does what is typed arrive, does a repeated command do no harm? `ShowsTheTruth`, `SavesWhatWasTyped`, `EditsArrive`, `SuccessIsComplete`, `MovesOnce` | each query key; two writes, one failed request, two visits; two entities, two typed values, two PATCHes under way, three of openings, failures and foreign writes; three runs of a command, two lost calls, two foreign writes |

Each run with a module's configuration also checks its type invariant: `TypeOK`,
`EntitiesTypeOK` (every reference of a row leads to a row), `WorkerTypeOK` (with
queue, map and set in step), `EntryTypeOK`, `WorkspaceTypeOK`, `WebTypeOK`. That of
`KeySequence` is proved (`KeysKeepShape`).

**What the properties leave out.** Some name exceptions, each for a reason that is
stated where it is defined and, where the exception is itself a defect, in the next
section: `tainted` (an update applied on an outdated reading), `KnownRefusal`,
`Undisturbed` (nobody else wrote), `excused` (repaired by a later visit only), the
blank line of an empty append (`HistoryIsComplete`), blank texts (the embedding worker),
URLs the hook does not take for its own (`GateIsRight`), requests that had read a rule
while it was enabled (`StopHolds`),
`EditsArrive` (no failure, no foreign write), `SuccessIsComplete` (no other client
wrote since the command began). None hides an operation: the faults happen in
the same behaviours, and the properties bind again as soon as the exception does not apply.

Further configurations, to be run by hand, each of which finds its one property
violated: `Recurrence_count.cfg`, `Recurrence_early.cfg`, `Recurrence_resplit.cfg` and
`Recurrence_return.cfg` (with `MCRecurrence`), `Entities_snapshot.cfg` and
`Entities_loop.cfg` (`MCEntities`), `Views_started.cfg` (`MCViews`),
`Transfer_foreign.cfg` (`MCTransfer`), `Web_stamp.cfg` (`MCWeb`). For example `tlc -config Views_started.cfg MCViews`.

## Fairness

Nothing is assumed of users, of other clients, of commits or of faults.

- `Recurrence`: days pass; a statement that was sent returns (or the request has
  crashed); the materializer serves each rule again and again, because
  `cli.ts:82-83` runs it at an interval and it orders candidates by their next day.
  That no rule's failure keeps others from being served is assumed here, not shown
  (see moved numbers below).
- `EmbeddingWorker`: the event loop runs what is ready, the provider and the
  database answer (perhaps with an error), and `cli.ts:142-143` repeats the sweep.
- `Gateway`: a handler runs to its end; when the daemon stops, the connection breaks
  and the client gets an error. Starting the daemon is not assumed: a call is
  answered even if it never runs again.
- `Access`: time passes; no request has to get anywhere for the labels to become right.
- `QueryCache`: requests that were sent are answered, timers fire, polling queries
  poll. Nobody need open or focus a view.
- `Drawer`: the autosave timer fires, requests are answered.

`Transfer`, `Views` and `CommandLine` have no liveness: a user decides whether to try again.

## What the code does otherwise than it says

With a run that shows it:

- **`key_moved`.** `update()` moves an entity with its number and the target's
  counter stays behind it (`CounterAheadOfAll`); when the counter comes to the
  number, every insert into that project fails and rolls the counter back.
- **`embedding_given_up`.** The sweep that is to retry rows given up selects rows
  without a vector; an edited row keeps its old one and is never found
  (`GivenUpIsSwept`).
- **`transfer_parents`.** An import reports a record "whose parent row is missing" as
  a conflict, says `transfer.ts:754`; in fact the foreign key of `parent_id` aborts
  the import, also when the parent only sorts into a later batch
  (`MissingParentIsReported`).

With a configuration to be run by hand:

- **`Recurrence_count.cfg`.** A completion inserts the next occurrence and sets
  `nextOccurrenceAt` to that same day. When the day comes, the materializer goes
  over it again: the insert is ignored, `generatedCount` grows all the same. An
  "after n occurrences" series ends early (`CountedWereGenerated`).
- **`Recurrence_early.cfg`.** An occurrence of a completion-anchored series completed a
  whole interval early computes its own day as the next one, finds its own row, and
  the series stays on a done occurrence with nothing open (`ChainMovesOn`).
- **`Recurrence_resplit.cfg`.** A scheduled split starts its rule at `generatedCount` 0
  because "the scheduler materializes its first occurrence (index 1)"
  (`recurrence.ts:916-917`). Split again before that day, into a completion rule, it hands
  the 0 on (`:908`) together with the occurrence that is open, which nothing counted: a
  series of COUNT 2 makes three tasks (`CountBoundsMembers`).
- **`Recurrence_return.cfg`.** A new rule's occurrences "live in a disjoint
  idempotency-key space", so that "no duplicate or orphan occurrence can appear at the
  fork even if a date coincides" (`recurrence.ts:849-851`). A scheduled rule has gone ahead
  to a day, its split into a completion rule goes back before that day when its
  occurrence is completed early, and a third, scheduled rule generates the day again
  under its own key: two tasks of one series on one day (`SeriesInOrder`).
- **`Entities_snapshot.cfg`.** Of two overlapping updates the second stores content from
  before the first as "the values before the update"; what the first wrote is in no
  revision (`SnapshotIsBefore`).
- **`Entities_loop.cfg`.** `parent_of` edges outlive a change of `parentId`, the cycle
  check reads only the column, `listChildren` reads both (`NoChildLoop`).
- **`Transfer_foreign.cfg`.** "Rows owned by another workspace ... are reported as
  conflicts" (`transfer.ts:753-754`). Exceptions and revisions are looked up by id
  in all workspaces: such a row counts as there already and is skipped without a word
  (`ForeignIsReported`).
- **`Web_stamp.cfg`.** The drawer is to "only send completedAt when the user touched the
  field", since "echoing a stale draft back would clear that stamp"
  (`EntityDrawer.tsx:173-175`). The flag that it was touched outlives Done, and
  `startEditing` does not reset it: if the stamp was changed elsewhere meanwhile, the next
  editing of that entity saves the former one with nothing typed
  (`StampIsOfThisEditing`).
- **`Views_started.cfg`.** Work in progress whose due date is past is in no section of
  the page Today, though `tasks/utils.ts:56-57` says it surfaces (`StartedIsOnToday`).

Met while modelling, and modelled as the code has it:

- *Recurrence.* Two requests that overlap can make a split generate a day twice
  (`recurrence_serial` with `Procs = {p1, p2}` and `Overlap = TRUE`), because
  `splitRecurrence` reads the rule without a lock while the materializer advances it.
- *Embedding.* A row edited to nothing but blanks keeps the vector of its former text,
  and an edit to blanks does not replace an older text that waits.
- *Writes.* `bodyAppend: ""` lengthens a body by a blank line without a revision.
  A row is inserted, then the daemon stops before its `parent_of` edge: the
  repetition finds the row by its key and never adds the edge. A note is left
  without the edge when the note it supersedes is purged in between.
- *Clients against routes.* `get_links` accepts kind `supersedes`, its route refuses it
  (`routes.ts:956`). Tools that say "accepts UUID prefix" pass a prefix to routes that
  want the whole id for `parentId`, `fromId`, `toId`, `taskId`. `?purge=false` purges.
  `idempotentHint: true` stands on `create_task`, `remember` and `submit_feedback`, which
  make a second row without a key. `create_project` takes any failure of its lookup
  for "not found". A failure to render an answer is told as a failure of the call, and by `get_entity` and
  `get_entity_by_key`, which name the children, as an entity that was not found.
  The resource `workspace_overview` promises the activity "across the workspace" and
  asks for it with `projectId: null` (`server.ts:1576`), by which `recent` understands
  rows without a project (`entities.ts:593`).
- *Gate.* `whoami` names the credential by the headers that are there, not by the one
  that let the request in. A lookup of labels under way when a token is made or
  revoked stores the old names, which are served until they age
  (`LabelsSettle` is eventual for this reason). A token revoked between the gate and
  the write makes the write fail on its foreign key.
- *Transfer.* A parent in another workspace is accepted; `RoundTrip` is about
  importing into an empty workspace. After an import that was cut off, a repetition
  leaves the projects' `updatedAt` at the time of the first.
- *Lists.* An undated done task is in two buckets when both done and backlog are asked
  for, against "buckets are disjoint" (`tasks.ts:65`). Days announced from a rule ignore
  what became of an occurrence that was completed early, moved or rejected, and the filter
  of archived projects. The four passes read without a common snapshot. The comments
  of a brief are bounded over all its tasks, so one busy task can crowd out the latest
  comment of another. In `search.ts` the access boost outweighs many ranks.
- *Query cache.* `LeftStale` lists the writes that do not invalidate a query they
  change: completing does not invalidate the rule, `setAgentsMd` the project by id,
  deleting the trash, restoring and changes of recurrence the children, any write the
  search (a comment and the archiving of a project too). The undoable deletion
  invalidates `LIST_KEYS`, neither the search nor the opening brief; the latter is polled. Four races are repaired by a later visit only: a write during the first
  request, `setQueryData` during a request, a deletion that outlives its toast, a
  deletion refused after it.
- *Drawer.* Closing within 600 ms loses the last typing; a failed autosave is not
  retried; "Done" while an autosave is due sends the change twice, and the older
  PATCH may arrive last; the state "Saved" follows the last answer, not the last PATCH; an autosave
  may carry another client's former value of a field back.
- *Command line.* `task --repeat` with a preset the server refuses has made the task
  already, and running it again makes another; no command sends an idempotency key;
  `update --project` run again is refused, since the name of the task has changed;
  `stop-recurrence` reads the rule and then stops it, which a split in between survives.

## Theorems

Proved for every value of the constants that satisfies the modules' assumptions. Those
are what the code or the database gives: bounds are natural numbers; the value that
stands for nothing is none of the values it stands beside; network addresses are
addresses; requests are finitely many (`Entities`); the rows of a database have the types and
references its tables have, and its rows distinct ids and, within a workspace and a type,
distinct keys (`Transfer`); the value that stands for no data is none of the answers of
the server (`QueryCache`); what the tables of tools and routes say, of
idempotency keys (`Gateway!TablesAssumption`) and of one argument at a time
(`TablesFitAssumption`): closed facts that TLC evaluates, because
the provers do not open the tables. TLC checks all of them in the runs.

Each invariant below was first checked by TLC. Where the property itself is not
inductive, what had to be added is what the proof is about.

**Recurrence** (`RecurrenceProofs`)

- `TypeCorrect`: `Spec => []TypeOK`. Inductive on its own because it says, for every step
  a request may be at, what the request must have read by then (`Remembers`): a completion
  about to insert holds a copy of a rule, a split holds a settled cadence. The lemmas about
  `After`, `Expansion`, `RuleOf` and `LastOf` rest on least and greatest elements of sets
  of dates.
- `OneActive`: `Spec => []OneActiveRulePerSeries`, with `TypeOK`. Four actions can enable a
  rule; each meets the index on the rows as they are when the statement runs, not as they
  were read.
- `SeriesStaysClosed`: `Spec => []SeriesClosed`, any overlap, crashes and purges included. A
  request writes references to rows it read some statements ago, and these may be gone, or
  there again under the same key. `SeriesInv` says what a reading is still worth: as long as the
  row is the one that was read (`inc`), its series is the one the request goes by.
- `StopsHold`: `Spec => StopHolds`, for any number of requests and passes under way. Two halves:
  what enables a disabled rule is an attachment, or an edit that says so or that has read the
  rule while it was enabled (`EnabledAgain`); what gives it an occurrence is the request that is
  about to insert, and that one has read it while it was enabled (`ReadEnabled`,
  `LateOccurrence`). The advance of the rule must write its cursor and count only: written
  back whole, as in the mutant, a completion under way undoes the stop.
- `CountBounds`, `CountBoundsOneSplit`: `CountBoundsMembers`, where requests do not overlap,
  crash or recreate what was purged (`Solo`). `CountInv` says how many tasks of a chain the
  counter answers for at each statement of the request under way (a completion has inserted
  before it counts: `Bumping`), and that a first occurrence is counted by the rule that
  attached it (`FirstIsCounted`). Without a bound on splits it holds as long as no split
  makes a completion rule of a rule that has counted nothing (`SplitsCounted`), which
  `Recurrence_resplit.cfg` shows to be needed; with one split per series, as in
  `recurrence_serial`, it holds without a condition.
- `CompletionMovesOn`: `DoneMovesOn`, where requests run one after another and occurrences
  are not reopened, rescheduled or purged nor rules edited (`Steady`, as in
  `recurrence_serial`; with any of those four, TLC finds a rule that stands on a done
  occurrence, because `advanceRecurrenceOnCompletion` runs at a completion only). The property
  speaks of rest, so `OrderInv` has to say what is true on the way there: what the request
  under way still knows (`Firm`); that whoever marked the current occurrence done is
  itself on its way to the rule (`Taken`); and which occurrence is the head of a rule
  (`Leads`), because the request finds the rule by its current occurrence.
- `DaysStayInOrder`, `DaysStayInOrderOneSplit`: `SeriesInOrder`, under `Steady`. Within a rule the
  next day is later than its head (`Leads`, `Ahead`, and `DuesKept`: an occurrence is due on
  the day of its key). A day must not come twice in a whole series, where several rules have
  generated: `DaysInv` says that the active scheduled rule stands on the last day of its
  series. A split hands that place on, except for a chain that is split back to scheduled
  after a split off a scheduled rule (`NoReturn`, which `Recurrence_return.cfg` shows to be
  needed). With one split per series, as in `recurrence_serial`, it holds without a condition.

**Keys** (`KeySequenceProofs`)

- `KeysAreUnique`, `NumbersAreNeverReissued`, `CountersStayAhead`. None is inductive.
  `KeyInv` adds that one transaction at a time has a project's counter open
  (`LocksExclusive`), that its counter is not behind the committed one (`OpenAhead`), that
  what it has added was numbered under the lock, between the two counters when the counter
  was drawn from (`AddedUnderLock`), that its rows clash with no row (`AddedDistinct`), and
  that what was issued is behind the committed counter (`IssuedBehind`). A commit then
  publishes numbers nobody else can have drawn; a rollback gives back numbers nobody has seen.

**Entities** (`EntitiesProofs`)

- `KeysNameOneRow`, `StampGoesWithStatus`, `ParentsDoNotLoop`, `TrashStaysFrozen`, all from
  one invariant, `EntityInv`: rows, edges and requests have their shape (`Shape`); parents
  exist, stamps go with status, keys differ (`RowsOK`); a request works on the row it
  names (`OwnId`); and what an update remembers of a row is still so unless the row was
  changed since, in which case the update will taint it (`RequestOK`, `Fresh`). The last
  is what makes the properties inductive: an update decides on what it read, so the invariant
  must say what the reading is worth when it commits. `NoParentLoop` needs the existence
  of parents as well, since a purged id may be taken again by a row of the model.
- `ShapesHold`: `Spec => []EntitiesTypeOK`. No revision has a higher number than its entity has had
  updates, but a revision is numbered before its update counts: `NumbersInv` counts the updates under
  way of each entity, hence the finiteness of requests.
- `HistoryHolds`: `Spec /\ []WokenInTime => HistoryIsComplete`, content being compared up to the
  blank line an empty append leaves. `HistoryInv` says that the revisions
  kept are the latest ones, that one transaction at a time holds a number of an entity
  (`OneAtATime`), and that it is the next one (`Recorded`). The condition cannot be dropped:
  with three requests and one revision kept, one that waits at the unique index while two
  others commit stores a number older than those kept. `Retention` is 50 in the code, so it takes fifty
  commits on one entity between a commit and the waking of the transaction that waits for
  it. In `entities_overlap` two requests do not get there.

**Embedding worker** (`EmbeddingWorkerProofs`)

- `TypeHolds`: `Spec => []WorkerTypeOK`: queue, map and set stay in step, no row has two jobs
  waiting, also after a batch was put back in front of the queue.
- `FreshHolds`: `Spec => []FreshAtRest`. `WorkerInv` says where the latest text of a row is that has
  lost none, blank texts not counted: with a handler that has not enqueued it, in the job that waits, and if none
  waits in the batch, in the statement that writes it, or in the row (`OnItsWay`).

**The way in** (`EntryProofs`)

- `GateHolds`: `AccessSpec => []GateIsRight`, of the requests whose URL the hook takes for its
  own. `GateInv` says that what is live was created
  (`CreatedOnly`) and that each request in flight is vouched for according to its phase
  (`Vouched`): it is past the lookups its phase says, and what it was let in by was good
  when it came. Every step of others only takes credentials away from those that exist
  (`OnlyFade`), so what was bad on arrival stays bad.
- `LoginHolds`: `AccessSpec => []LoginIsLimited`. `LoginInv` relates the history to the
  counter: passwords compared for an address that is not a proxy are no more than its hits,
  because such an address is counted as itself whatever its headers say.
- `OneRowHolds`, `OkHolds`: `GatewaySpec => []OneRowPerKey`, `[]OkIsDone`, for calls with any of their
  arguments together. `GatewayInv` follows what the service was given
  back to what the caller gave, through the client and the parsed body, for the caller that waits
  and for the request the daemon finishes when nobody waits any more (`Arrived`);
  a row that was made is the one its key names (`Kept`), and an answer is told after what it
  tells (`Honest`).
- `SchemasHold`: `GatewaySpec => []SchemasAgree`, for any arguments given together, where the
  run gives each optional one alone and some sets. From what the tables say of one argument
  follows: two arguments that go into one field say the same, so that the field
  holds the value of each (`FieldHolds`); whatever is in the body, an argument, a value filled in or
  null, the route has a field for (`BodyIsTaken`); looking a reference up changes nothing of
  what a refinement asks (`RefinedStays`). `Carried` is the invariant: arguments keep to the schema of
  the tool, nothing is left to look up once a request is sent, and what the service was
  given is what the tables make of it.
- `AccessTypesHold`, `CallTypesHold`, `EntryIsBoth`, `EntryTypesHold`: the types of the gate (rows are of
  what was created, a served name was read from them: `NamesOfCreated`), of a call (items and
  verdicts add up: `Bounded`; a round writes one row: `OneRowPerRound`), and of the two
  together. A step of `EntrySpec` is one of the gate's or none of it and one of the call's or
  none of it, which carries every theorem here over to it.

**Transfer** (`TransferProofs`)

- `CopyHolds`: `TransferSpec => IsCopy`, the refinement of `Copy`: the initial states map to
  its initial states, every step to a step of it or to a stutter. `CopyInv` says that
  every line the importer has taken is accounted for at every moment, those of the batch in
  hand by what the lookup decided about them (`BatchOK`, `Accounted`).
- `LinksHold`: `TransferSpec => []LinksStayHere`. A foreign key is satisfied by a row of any workspace;
  `ScopeInv` says that from its lookup on a batch refers to no row of another one.
- `RoundTripHolds`: `TransferSpec => []ImportIsSound` where the database is empty or holds part of the
  source (`TargetsArePartsOfSources`: to have the source again afterwards, the target must not hold
  anything else). `RoundInv` says for an undisturbed transfer that what the export has passed is
  in the dump, in the order of the tables, and what the import has passed is in the target.
- `TransferTypesHold`: no id twice in the database, no key twice in a type of the workspace. That is
  what the indexes of the database enforce and the importer must live with: `ShapeInv` says
  that every line is once in the dump (`LinesOnce`), that the rows a batch is about to insert differ
  (`HeldOnce`), and that none of them is there. `WorkspaceIsBoth` and `WorkspaceTypesHold` carry this and
  the theorems on the lists over to `WorkspaceSpec`.

**Lists** (`ViewsProofs`)

- `ViewsTypesHold`, `GhostsHold`, `ListsHold`, `BriefHolds`. Lists are functions of the rows, so that the
  invariant (`ViewsInv`) is the shape of the rows and that a rule that is on has an
  occurrence. The work is in the lists, for every window a caller can ask for. `ListsHold` assumes
  `MaxTask <= BacklogLimit`: an answer holds 200 rows of backlog (`tasks.ts`) and leaves the rest
  out. `BriefHolds` counts the comments read for the started tasks by an injection into tasks
  times places.

**Clients** (`ClientProofs`)

- `CommandMovesOnce`: `CommandLineSpec => []MovesOnce`. `CommandInv` says that a series the
  command has moved is past the named occurrence (`MovedPast`), that an occurrence that is
  not current never becomes so again (`Onward`), and what the process may still ask.
- `SuccessHolds`: `CommandLineSpec => []SuccessIsComplete`. `SuccessInv` says what is left of a command at
  each of its calls (`Underway`) and what the calls before did that the last one does
  not show, and that a task is current in the series its marker names (`OneSeries`), which is
  the one `stop-recurrence` asks about.
- `SavesHold`: `DrawerSpec => []SavesWhatWasTyped`. `DrawerInv` follows the draft back to what was
  typed since it was filled (`Traced`), through the flags of the component (`DrawerShape`): the flag
  of the completion time is up exactly while one was typed, also after Done, and a field that
  was typed holds it.
- `CacheTypesHold`, `DrawerTypesHold`, `CommandTypesHold`: the least obvious of what they say is that a list
  shows a row as deleted only while the server has not refused that (`CacheInv` relates the
  toast, the deletion and the restoration to what is shown), that the timer of the drawer runs
  only while there is something to save, and that the markers of tasks and series name what is
  there. `WebIsAll` and `WebTypesHold` carry them over to `WebSpec`.

**Only model-checked.** Every invariant and every action property of the passing runs is
stated by a theorem, some of them under conditions named above. What is left is
liveness, which the proof system does not reach: `CatchesUp`, `NullIsEmbedded`, `Answered`,
`LabelsSettle`, `ShowsTheTruth`, `EditsArrive`. So are the two table assumptions of `Gateway`: they are
about closed terms, and TLC evaluates them on every run of `server_entry`.

## What is not modelled

- *Search*: its substance is SQL ranking and a fusion in floating point; it writes
  only access counters.
- *Migrations*: one transaction per file, before the daemon serves.
- *Several daemons on one database*, their advisory locks and the pool: one daemon is
  the documented deployment. A second one appears only as the row lock of the
  materializer's transaction.
- The `modified` exceptions of a series (which keep its baseline content when one
  occurrence is edited) and the materializer's limit of 500 occurrences in a pass:
  the limit is beyond the calendars TLC can explore together with the rest.
- Re-attaching a rule keeps `generatedCount` (`recurrence.ts:297`): the operation is in
  the run of overlapping requests, but no source says what the count should be then.
- The recurrence editor of the drawer, forms of the settings page, layout.
- Serialisation, the OpenAPI document, the wording of answers and logs.
- Time zones and the RRULE library: days have two halves, a rule is a step with an end.

## Plan

1. *Done*: the models and proofs above.
2. `OccurrenceEdits`: the `modified` exceptions (scope *this* and *future*), edits
   and completions interleaved; abstractly, the content a series hands on is that
   of its last edit for the future.
3. `BackgroundJobs`: advisory locks, several daemons, SKIP LOCKED, the budget of a
   pass and a rule that fails; shown to implement an abstract pass in which each
   due rule is advanced at once, the one `Recurrence` uses.
4. Proofs: *done* are all invariants and action properties that the runs check. Next: the
   invariants of items 2 and 3.
