----------------------------- MODULE QueryCache -----------------------------
(***************************************************************************)
(* What a browser tab shows: the cache of answers behind every view, the   *)
(* hooks that read and write through it, and the deletion that can be      *)
(* undone from a toast.                                                    *)
(*                                                                         *)
(* Queries do not influence one another, so a behaviour follows one query  *)
(* key, picked at the start, and the calls that concern it.  What the      *)
(* server holds is a number for each facet the query shows, a new number   *)
(* with every write; the other facets are left out.                        *)
(***************************************************************************)
EXTENDS Naturals, FiniteSets

CONSTANTS
  MaxValues,   \* bound: writes and typed texts in a behaviour
  MaxFails,    \* bound: requests that fail
  MaxVisits,   \* bound: times the view is opened
  NoData

VARIABLES
  watched,   \* the query key that is followed
  db,        \* the server: the facets of that query
  shown,     \* the cached answer, NoData before the first
  stale,     \* it was invalidated
  old,       \* it is older than staleTime
  mounted,   \* a view shows the query
  get,       \* the request for it that is on its way
  call,      \* the mutation that is on its way
  undo,      \* the deletion, its toast and its undo
  counts,    \* the values, failures and visits so far
  excused    \* something happened that only a poll or a later visit repairs

cacheVars == <<watched, db, shown, stale, old, mounted, get, call, undo,
               counts, excused>>

-----------------------------------------------------------------------------
(* The queries.                                                           *)

ProjectQueries  == {"health", "projects", "project", "project-by-key"}
BriefQueries    == {"opening-brief"}
EntityQueries   == {"entity", "revisions", "children", "comments"}
ActivityQueries == {"recent", "entity-list"}
SearchQueries   == {"search"}
FeedbackQueries == {"feedback"}
TrashQueries    == {"trash"}
EmbeddingQueries == {"embedding-settings"}
WorkspaceQueries == {"workspace-settings"}
TaskQueries     == {"tasks-range"}
RecurrenceQueries == {"recurrence"}
TokenQueries    == {"tokens"}

Queries ==
  UNION {ProjectQueries, BriefQueries, EntityQueries, ActivityQueries,
         SearchQueries, FeedbackQueries, TrashQueries, EmbeddingQueries,
         WorkspaceQueries, TaskQueries, RecurrenceQueries, TokenQueries}

\* The queries that are asked again every POLL_INTERVAL.
Polled == UNION {BriefQueries, ActivityQueries, FeedbackQueries,
                 EmbeddingQueries, TaskQueries}

\* What the answer to a query is made of.  An entity that is deleted has its
\* drawer closed, so its own query does not show that.  A list over all
\* projects leaves out those that are archived, and a search finds comments as
\* well; how the vectors and the access counters rank its hits is left out.
ShownBy ==
  [q \in Queries |->
     CASE q = "health"             -> {"runtime"}
       [] q = "projects"           -> {"projects", "project", "agents"}
       [] q \in {"project", "project-by-key"} -> {"project", "agents"}
       [] q = "opening-brief"      -> {"project", "agents", "content", "members", "log"}
       [] q = "entity"             -> {"content", "stamp"}
       [] q = "revisions"          -> {"history"}
       [] q = "comments"           -> {"log"}
       [] q \in {"recent", "search"} -> {"project", "content", "members", "log"}
       [] q \in {"entity-list", "children", "feedback"} -> {"content", "members"}
       [] q = "trash"              -> {"trash"}
       [] q = "embedding-settings" -> {"runtime", "coverage"}
       [] q = "workspace-settings" -> {"workspace"}
       [] q = "tasks-range"        -> {"project", "content", "stamp", "members", "rule"}
       [] q = "recurrence"         -> {"rule"}
       [] q = "tokens"             -> {"tokens"}]

\* NoData is not the answer to any of them.
ASSUME QueryCacheAssumption ==
  /\ {MaxValues, MaxFails, MaxVisits} \subseteq Nat
  /\ \A q \in Queries : NoData \notin [ShownBy[q] -> Nat]

-----------------------------------------------------------------------------
(* The mutations: what they change on the server, the queries whose cached *)
(* answer onSuccess replaces by the answer of the call, and those it       *)
(* invalidates.                                                            *)

Mutation(name, changes, sets, invalidates) ==
  [name |-> name, changes |-> changes, sets |-> sets,
   invalidates |-> invalidates]

AddComment == Mutation("addComment", {"log"}, {},
                       {"comments", "opening-brief", "recent"})
TRASH_AFFECTED_KEYS == {"trash", "tasks-range", "recent", "entity-list", "feedback"}
RestoreEntity == Mutation("restore", {"members", "trash"}, {}, TRASH_AFFECTED_KEYS)
PurgeEntity   == Mutation("purge", {"trash"}, {}, {"trash"})
UpdateEmbeddingSettings ==
  Mutation("embedding", {"runtime", "coverage"}, {"embedding-settings"}, {"health"})
BackfillEmbeddings ==
  Mutation("backfill", {"coverage"}, {"embedding-settings"}, {})
UpdateWorkspaceSettings ==
  Mutation("workspace", {"workspace"}, {"workspace-settings"}, {})
SeriesKeys == {"recurrence", "tasks-range", "recent", "entity-list"}
ConfigureRecurrence ==
  Mutation("configure", {"rule", "content"}, {}, SeriesKeys \cup {"entity"})
SkipOccurrence ==
  Mutation("skip", {"rule", "content", "members"}, {}, SeriesKeys \cup {"entity"})
StopRecurrence  == Mutation("stop", {"rule"}, {}, SeriesKeys)
SplitRecurrence ==
  Mutation("split", {"rule", "content", "members"}, {}, SeriesKeys \cup {"entity"})
CreateProject == Mutation("createProject", {"projects"}, {}, {"projects"})
UpdateProject ==
  Mutation("updateProject", {"project"}, {"project"},
           {"projects", "project-by-key", "opening-brief"})
WriteEntity ==
  Mutation("write", {"members"}, {},
           {"entity-list", "opening-brief", "recent", "tasks-range", "children"})
\* Mutant: the revisions of the entity are forgotten.
UpdateEntityWithoutRevisions(name, changes) ==
  Mutation(name, changes, {},
           {"entity", "entity-list", "opening-brief", "tasks-range",
            "children", "feedback"})
UpdateEntity(name, changes) ==
  Mutation(name, changes, {},
           {"entity", "entity-list", "opening-brief", "tasks-range",
            "children", "revisions", "feedback"})
DeleteEntity ==
  Mutation("delete", {"members", "trash"}, {},
           {"tasks-range", "recent", "entity-list", "opening-brief", "children"})
SetAgentsMd ==
  Mutation("agents", {"agents"}, {},
           {"project-by-key", "opening-brief", "projects"})
CreateToken == Mutation("createToken", {"tokens"}, {}, {"tokens"})
RevokeToken == Mutation("revokeToken", {"tokens"}, {"tokens"}, {"tokens"})

\* A task that is done is stamped, and if it belongs to a series the server
\* generates the next one.
Completes == {"content", "history", "stamp", "rule", "members"}

Mutations ==
  {AddComment, RestoreEntity, PurgeEntity, UpdateEmbeddingSettings,
   BackfillEmbeddings, UpdateWorkspaceSettings, ConfigureRecurrence,
   SkipOccurrence, StopRecurrence, SplitRecurrence, CreateProject,
   UpdateProject, WriteEntity, UpdateEntity("update", {"content", "history"}),
   UpdateEntity("complete", Completes), DeleteEntity,
   SetAgentsMd, CreateToken, RevokeToken}

\* What no hook refreshes: the query keeps the former answer until it is
\* asked again for another reason.
LeftStale ==
  {<<"complete", "recurrence">>, <<"agents", "project">>, <<"delete", "trash">>}
    \cup ({"restore", "configure", "skip", "split"} \X {"children"})
    \cup ({"write", "update", "complete", "delete", "restore", "configure",
           "skip", "split", "addComment", "updateProject"} \X {"search"})

-----------------------------------------------------------------------------
(* The cache.                                                             *)

NoGet  == [st |-> "none", data |-> NoData]
Asked  == [st |-> "asked", data |-> NoData]
NoCall == [st |-> "none", name |-> "none", value |-> 0, data |-> NoData]
NoUndo == [toast |-> "none", del |-> "none", res |-> "none",
           value |-> 0, back |-> 0, snapshot |-> NoData]

CacheInit ==
  /\ watched \in Queries
  /\ db = [f \in ShownBy[watched] |-> 0]
  /\ shown = NoData /\ stale = FALSE /\ old = FALSE /\ mounted = FALSE
  /\ get = NoGet /\ call = NoCall /\ undo = NoUndo
  /\ counts = [values |-> 0, fails |-> 0, visits |-> 0]
  /\ excused = FALSE

Bumped(facets, value) ==
  [f \in DOMAIN db |-> IF f \in facets THEN value ELSE db[f]]

\* A new value for a write that begins now.
Value == counts.values + 1
CountValue == /\ counts.values < MaxValues
              /\ counts' = [counts EXCEPT !.values = @ + 1]
CountFail  == /\ counts.fails < MaxFails
              /\ counts' = [counts EXCEPT !.fails = @ + 1]

\* A request is cancelled and sent again if a view shows the query and it is
\* not the first request.
Cancellable == mounted /\ (shown # NoData \/ get = NoGet)

\* invalidateQueries, if the keys include the query.  A request that is not
\* cancelled may bring an answer from before, which ends the invalidation.
Invalidated(keys, gap) ==
  IF watched \in keys
  THEN /\ stale' = TRUE
       /\ get' = IF Cancellable THEN Asked ELSE get
       /\ excused' = (excused \/ gap \/ (get.st = "read" /\ ~Cancellable))
       /\ UNCHANGED <<shown, old>>
  ELSE excused' = (excused \/ gap) /\ UNCHANGED <<shown, stale, old, get>>

\* The view is opened: what is missing, invalidated or old is asked for.
Mount ==
  /\ ~mounted
  /\ counts.visits < MaxVisits
  /\ counts' = [counts EXCEPT !.visits = @ + 1]
  /\ mounted' = TRUE
  /\ get' = IF get = NoGet /\ (shown = NoData \/ stale \/ old) THEN Asked ELSE get
  /\ UNCHANGED <<watched, db, shown, stale, old, call, undo, excused>>

Unmount ==
  /\ mounted
  /\ counts.visits < MaxVisits
  /\ mounted' = FALSE
  /\ UNCHANGED <<watched, db, shown, stale, old, get, call, undo, counts, excused>>

Age ==
  /\ shown # NoData /\ ~old
  /\ old' = TRUE
  /\ UNCHANGED <<watched, db, shown, stale, mounted, get, call, undo, counts, excused>>

\* refetchOnWindowFocus.
Focus ==
  /\ mounted /\ get = NoGet
  /\ stale \/ old
  /\ get' = Asked
  /\ UNCHANGED <<watched, db, shown, stale, old, mounted, call, undo, counts, excused>>

Poll ==
  /\ mounted /\ get = NoGet
  /\ watched \in Polled
  /\ get' = Asked
  /\ UNCHANGED <<watched, db, shown, stale, old, mounted, call, undo, counts, excused>>

\* The server answers with what it holds.
Read ==
  /\ get = Asked
  /\ get' = [st |-> "read", data |-> db]
  /\ UNCHANGED <<watched, db, shown, stale, old, mounted, call, undo, counts, excused>>

Answer ==
  /\ get.st = "read"
  /\ shown' = get.data /\ stale' = FALSE /\ old' = FALSE
  /\ get' = NoGet
  /\ UNCHANGED <<watched, db, mounted, call, undo, counts, excused>>

\* Fault: the request fails, the retry as well.
GetFails ==
  /\ get # NoGet
  /\ CountFail
  /\ get' = NoGet
  /\ excused' = TRUE
  /\ UNCHANGED <<watched, db, shown, stale, old, mounted, call, undo>>

-----------------------------------------------------------------------------
(* Mutations.                                                             *)

Concerns(m) ==
  watched \in m.sets \cup m.invalidates \/ m.changes \cap DOMAIN db # {}

Called == CHOOSE m \in Mutations : m.name = call.name

Call(m) ==
  /\ call = NoCall
  /\ Concerns(m)
  /\ CountValue
  /\ call' = [NoCall EXCEPT !.st = "sent", !.name = m.name, !.value = Value]
  /\ UNCHANGED <<watched, db, shown, stale, old, mounted, get, undo, excused>>

Land ==
  /\ call.st = "sent"
  /\ db' = Bumped(Called.changes, call.value)
  /\ call' = [call EXCEPT !.st = "landed",
                          !.data = IF watched \in Called.sets THEN db' ELSE NoData]
  /\ UNCHANGED <<watched, shown, stale, old, mounted, get, undo, counts, excused>>

\* onSuccess: setQueryData does not stop a request that is on its way, whose
\* answer may be the older one.
Succeed ==
  /\ call.st = "landed"
  /\ call' = NoCall
  /\ \/ /\ watched \in Called.sets
        /\ shown' = IF shown = NoData /\ Called = RevokeToken THEN shown
                  ELSE call.data
        /\ old' = FALSE
        /\ stale' = (watched \in Called.invalidates)
        /\ get' = IF stale' /\ Cancellable THEN Asked ELSE get
        /\ excused' = (excused \/ (get.st = "read" /\ get' = get))
     \/ /\ watched \notin Called.sets
        /\ Invalidated(Called.invalidates, <<call.name, watched>> \in LeftStale)
  /\ UNCHANGED <<watched, db, mounted, undo, counts>>

\* Fault: the call is refused, or its answer is lost.
CallFails ==
  /\ call # NoCall
  /\ CountFail
  /\ excused' = (excused \/ call.st = "landed")
  /\ call' = NoCall
  /\ UNCHANGED <<watched, db, shown, stale, old, mounted, get, undo>>

\* Another client, or the daemon, changes something.
OthersWrite(f) ==
  /\ CountValue
  /\ db' = [db EXCEPT ![f] = Value]
  /\ excused' = TRUE
  /\ UNCHANGED <<watched, shown, stale, old, mounted, get, call, undo>>

-----------------------------------------------------------------------------
(* The deletion that can be undone.                                       *)

LIST_KEYS ==
  {"tasks-range", "recent", "entity-list", "feedback", "trash", "children"}

\* A list that the row was taken out of, which no answer of the server is.
Optimistic == MaxValues + 1

Stripped(data) ==
  [f \in DOMAIN data |-> IF f = "members" THEN Optimistic ELSE data[f]]

\* A query whose answer may hold the row; only a list is snapshot and stripped.
DeleteWithUndo ==
  /\ undo = NoUndo
  /\ {"members", "trash"} \cap DOMAIN db # {}
  /\ CountValue
  /\ undo' = [toast |-> "open", del |-> "sent", res |-> "none",
              value |-> Value, back |-> 0,
              snapshot |-> IF watched \in LIST_KEYS THEN shown ELSE NoData]
  /\ \/ /\ watched \in LIST_KEYS /\ shown # NoData
        /\ shown' = Stripped(shown) /\ stale' = FALSE /\ old' = FALSE
     \/ /\ watched \notin LIST_KEYS \/ shown = NoData
        /\ UNCHANGED <<shown, stale, old>>
  /\ UNCHANGED <<watched, db, mounted, get, call, excused>>

\* Whether what the server does now is seen by an invalidation to come.
ToBeLooked ==
  watched \in LIST_KEYS /\ (undo.toast = "open" \/ undo.res \in {"sent", "landed"})

DeleteLands ==
  /\ undo.del = "sent"
  /\ db' = Bumped({"members", "trash"}, undo.value)
  /\ undo' = [undo EXCEPT !.del = "landed"]
  /\ excused' = (excused \/ ~ToBeLooked)
  /\ UNCHANGED <<watched, shown, stale, old, mounted, get, call, counts>>

\* Mutant: the error of the deletion is swallowed.
DeleteRefusedQuietly ==
  /\ undo.del = "sent"
  /\ CountFail
  /\ undo' = [undo EXCEPT !.del = "refused"]
  /\ excused' = TRUE
  /\ UNCHANGED <<watched, db, shown, stale, old, mounted, get, call>>

\* Fault: the server refuses; every list is put back as it was.
DeleteRefused ==
  /\ undo.del = "sent"
  /\ CountFail
  /\ undo' = [undo EXCEPT !.del = "refused"]
  /\ IF undo.snapshot = NoData THEN UNCHANGED <<shown, stale, old>>
     ELSE shown' = undo.snapshot /\ stale' = FALSE /\ old' = FALSE
  /\ excused' = (excused \/ ~ToBeLooked)
  /\ UNCHANGED <<watched, db, mounted, get, call>>

\* The toast closes by itself: every list is asked for again.
ToastExpires ==
  /\ undo.toast = "open"
  /\ undo' = [undo EXCEPT !.toast = "closed"]
  /\ Invalidated(LIST_KEYS, FALSE)
  /\ UNCHANGED <<watched, db, mounted, call, counts>>

Undo ==
  /\ undo.toast = "open"
  /\ CountValue
  /\ undo' = [undo EXCEPT !.toast = "closed", !.res = "sent",
                            !.back = Value]
  /\ UNCHANGED <<watched, db, shown, stale, old, mounted, get, call, excused>>

RestoreLands ==
  /\ undo.res = "sent"
  /\ db' = Bumped({"members", "trash"}, undo.back)
  /\ undo' = [undo EXCEPT !.res = "landed"]
  /\ excused' = (excused \/ watched \notin LIST_KEYS)
  /\ UNCHANGED <<watched, shown, stale, old, mounted, get, call, counts>>

\* then(invalidateAll) and catch(invalidateAll): the restore went well or not.
RestoreAnswered ==
  /\ \/ undo.res = "landed" /\ UNCHANGED counts
     \/ undo.res = "sent" /\ CountFail
  /\ undo' = [undo EXCEPT !.res = "over"]
  /\ Invalidated(LIST_KEYS, FALSE)
  /\ UNCHANGED <<watched, db, mounted, call>>

-----------------------------------------------------------------------------
CacheNext ==
  \/ Mount \/ Unmount \/ Age \/ Focus \/ Poll
  \/ Read \/ Answer \/ GetFails
  \/ \E m \in Mutations : Call(m)
  \/ Land \/ Succeed \/ CallFails
  \/ \E f \in DOMAIN db : OthersWrite(f)
  \/ DeleteWithUndo \/ DeleteLands \/ DeleteRefused
  \/ ToastExpires \/ Undo \/ RestoreLands \/ RestoreAnswered

\* Requests are answered, timers fire; nobody has to open or focus a view.
CacheFairness ==
  /\ WF_cacheVars(Read) /\ WF_cacheVars(Answer) /\ WF_cacheVars(Poll)
  /\ WF_cacheVars(Land) /\ WF_cacheVars(Succeed)
  /\ WF_cacheVars(DeleteLands) /\ WF_cacheVars(ToastExpires)
  /\ WF_cacheVars(RestoreLands) /\ WF_cacheVars(RestoreAnswered)

CacheSpec == CacheInit /\ [][CacheNext]_cacheVars /\ CacheFairness

-----------------------------------------------------------------------------
Answers == [ShownBy[watched] -> 0..Optimistic] \cup {NoData}

\* The tab's cache and its requests keep their shape: an answer and a snapshot
\* are of the query that is followed, and a list shows a row as deleted only
\* while the server has not refused the deletion.
CacheTypeOK ==
  /\ watched \in Queries
  /\ db \in [ShownBy[watched] -> 0..MaxValues]
  /\ shown \in Answers
  /\ {stale, old, mounted, excused} \subseteq BOOLEAN
  /\ get.st \in {"none", "asked", "read"} /\ get.data \in Answers
  /\ get.st = "read" <=> get.data # NoData
  /\ call # NoCall => call.st \in {"sent", "landed"} /\ call.value \in 1..MaxValues
  /\ undo.toast \in {"none", "open", "closed"}
  /\ undo.del \in {"none", "sent", "landed", "refused"}
  /\ undo.res \in {"none", "sent", "landed", "over"}
  /\ undo.snapshot \in Answers
  /\ undo.del \in {"none", "refused"} /\ shown # NoData =>
       \A f \in DOMAIN shown : shown[f] # Optimistic

\* A view that stays open shows what the server holds in the end.  For a
\* query that is polled this is so whatever happens.  For the others it is so
\* if no other client wrote, no request failed, and nothing happened that only
\* a later visit repairs: a write of this tab whose hook does not invalidate
\* the query (LeftStale), which is every write that a search shows, or the
\* undoable deletion for a query that is none of LIST_KEYS; a write during the
\* first request; setQueryData during a request; a deletion that outlives its
\* toast (hooks.ts:93-410, useUndoableDelete.ts:40-84).
ShowsTheTruth ==
  <>[](mounted /\ shown # db => excused /\ watched \notin Polled)
=============================================================================
