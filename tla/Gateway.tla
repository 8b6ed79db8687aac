------------------------------- MODULE Gateway -------------------------------
(***************************************************************************)
(* The way of a call from a client to the service: the tools of the MCP    *)
(* server (src/src/mcp/server.ts), the HTTP client behind them             *)
(* (src/src/mcp/http-client.ts), the web client (src/web/src/api), and the *)
(* routes and schemas of the daemon that answers both                      *)
(* (src/src/rest/routes.ts, src/src/service/types.ts).                     *)
(*                                                                         *)
(* Three tables written by hand must agree: what a client takes, what it   *)
(* sends, what the daemon's schemas let through.  zod drops a field that a *)
(* schema does not name without a word, so a disagreement loses an         *)
(* argument silently.  A call is followed from the arguments to the        *)
(* service, through a daemon that may stop at any point and a caller that  *)
(* repeats a call whose answer it did not get.                             *)
(*                                                                         *)
(* An argument is a function from names to classes of values: "uuid",      *)
(* "prefix" and "keyseq" are the three spellings of an entity, "empty" and *)
(* "text" the strings a length check tells apart, an enumeration is        *)
(* itself.  Lengths, formats and the rendering of results are left out.    *)
(***************************************************************************)
EXTENDS Naturals, Sequences, FiniteSets

CONSTANTS
    Together,       \* optional arguments also given together
    MaxRounds       \* times a caller makes one call

ASSUME GatewayAssumption == MaxRounds \in Nat \ {0}

\* Two tables in one; a name of both means what it does in the first.
Merged(f, g) == [x \in DOMAIN f \cup DOMAIN g |-> IF x \in DOMAIN f THEN f[x] ELSE g[x]]

-----------------------------------------------------------------------------
(* Classes of values.                                                      *)

None    == <<>>
Uuid    == {"uuid"}
Ref     == {"uuid", "prefix", "keyseq"}
Text    == {"empty", "text"}
Filled  == {"text"}
Flag    == {"true", "false"}
Date    == {"date"}
Lists   == {"list"}
Number  == {"number"}
Limits  == {"1", "10", "20", "50", "100"}
Kinds   == {"task", "note", "comment", "feedback"}
Actors  == {"human", "agent", "system"}
Statuses == {"open", "in_progress", "done", "rejected"}
Stages  == {"planned", "active", "watching", "paused", "archived"}
Ranks   == {"urgent", "high", "medium", "low", "none"}
Topics  == {"bug", "feature", "friction", "idea"}
Edges   == {"blocks", "references", "parent_of", "supersedes"}
Ways    == {"outgoing", "incoming", "both"}
Scopes  == {"this", "future"}
OrNull(S) == S \cup {"null"}

Cadence ==
    [rrule |-> Filled, preset |-> {"daily"}, interval |-> Number,
     byWeekday |-> Lists, byMonthDay |-> Lists, bySetPos |-> Number,
     byMonth |-> Lists, until |-> OrNull(Date), count |-> OrNull(Number),
     timezone |-> Filled, allDay |-> Flag, anchor |-> {"scheduled", "completion"}]

-----------------------------------------------------------------------------
(* The tools of the MCP server.  must, may: the arguments a tool requires  *)
(* and those it allows; given: what it fills in for an argument left out;  *)
(* nulls: arguments it sends as null when left out; refs: arguments that   *)
(* name an entity and are resolved first; at: the argument that goes into  *)
(* the path; to: the route.                                                *)

Tool(must, may, given, nulls, refs, at, to) ==
    [must |-> must, may |-> may, given |-> given, nulls |-> nulls,
     refs |-> refs, at |-> at, to |-> to]

BriefTools ==
    [opening_brief |-> Tool(None, [projectId |-> Uuid], [recentLimit |-> "10"],
        {"projectId"}, {}, "", "openingBrief"),
     search |-> Tool([query |-> Filled],
        [projectId |-> Uuid, kind |-> Kinds, limit |-> {"1", "50"}],
        [limit |-> "10"], {"projectId"}, {}, "", "search"),
     recent |-> Tool(None,
        [projectId |-> Uuid, since |-> Date, kinds |-> Lists, limit |-> {"1", "50"}],
        [limit |-> "20"], {"projectId", "since"}, {}, "", "recent")]

ProjectTools ==
    [list_projects |-> Tool(None, [includeArchived |-> Flag],
        [includeArchived |-> "false"], {}, {}, "", "listProjects"),
     get_project |-> Tool([projectId |-> Uuid], None, None,
        {}, {}, "projectId", "getProject"),
     get_project_by_key |-> Tool([key |-> {"key"}], None, None,
        {}, {}, "key", "getProjectByKey"),
     create_project |-> Tool([key |-> {"key"}, name |-> Filled],
        [status |-> Stages, color |-> Filled, icon |-> Filled, agentsMd |-> Text],
        [status |-> "active", color |-> "text", icon |-> "text", agentsMd |-> "empty"],
        {}, {}, "", "createProject"),
     update_project |-> Tool([projectId |-> Uuid],
        [name |-> Filled, status |-> Stages, color |-> Filled, icon |-> Filled,
         agentsMd |-> Text],
        None, {}, {}, "projectId", "updateProject")]

ReadTools ==
    [get_entity |-> Tool([id |-> Ref], None, None, {}, {"id"}, "id", "getEntity"),
     get_entity_by_key |-> Tool([key |-> {"keyseq"}], None, None,
        {}, {}, "key", "getEntityByKey")]

CreateTools ==
    [create_task |-> Tool([title |-> Filled],
        [projectId |-> Uuid, body |-> Text, tags |-> Lists, status |-> Statuses,
         parentId |-> Ref, actorKind |-> Actors, dueAt |-> Date, priority |-> Ranks,
         completedAt |-> Date, idempotencyKey |-> Filled],
        [body |-> "empty", tags |-> "list", status |-> "open",
         actorKind |-> "agent", priority |-> "none"],
        {"projectId", "parentId", "dueAt", "completedAt"}, {"parentId"},
        "", "createTask"),
     remember |-> Tool(None,
        [projectId |-> Uuid, title |-> Text, body |-> Text, tags |-> Lists,
         parentId |-> Ref, actorKind |-> Actors, pinned |-> Flag,
         supersedes |-> Ref, idempotencyKey |-> Filled],
        [body |-> "empty", tags |-> "list", actorKind |-> "agent", pinned |-> "false"],
        {"projectId", "title", "parentId", "supersedes"},
        {"parentId", "supersedes"}, "", "createNote")]

Edit ==
    [projectId |-> OrNull(Uuid), title |-> OrNull(Text), body |-> Text,
     bodyAppend |-> Text, tags |-> Lists, status |-> Statuses,
     parentId |-> OrNull(Ref), dueAt |-> OrNull(Date), priority |-> Ranks,
     pinned |-> Flag, completedAt |-> OrNull(Date), recurrenceScope |-> Scopes]

EditTool ==
    Tool([id |-> Ref], Edit, None, {}, {"id", "parentId"}, "id", "updateEntity")

\* One call of update_entities makes the request of update_entity for each
\* of its items, one after the other.
EditTools == [update_entity |-> EditTool, update_entities |-> EditTool]

CommentTools ==
    [add_comment |-> Tool([id |-> Ref, body |-> Filled],
        [actorKind |-> Actors, idempotencyKey |-> Filled], [actorKind |-> "agent"],
        {}, {"id"}, "id", "addComment"),
     list_comments |-> Tool([id |-> Ref], None, None, {}, {"id"}, "id", "listComments")]

FeedbackTools ==
    [submit_feedback |-> Tool([category |-> Topics, title |-> Filled],
        [body |-> Text, projectId |-> Uuid, tool |-> Text, actorKind |-> Actors,
         idempotencyKey |-> Filled],
        [body |-> "empty", actorKind |-> "agent"],
        {"projectId", "tool"}, {}, "", "submitFeedback"),
     list_feedback |-> Tool(None,
        [category |-> Topics, status |-> Statuses, limit |-> {"1", "100"}],
        [limit |-> "20"], {}, {}, "", "listFeedback")]

RecurrenceTools ==
    [configure_recurrence |-> Tool([taskId |-> Ref], Merged(Cadence, [dtstart |-> Date]),
        None, {}, {"taskId"}, "taskId", "createRecurrence"),
     get_recurrence |-> Tool([taskId |-> Ref], None, None,
        {}, {"taskId"}, "taskId", "getRecurrence"),
     skip_occurrence |-> Tool([taskId |-> Ref], [reason |-> Text],
        [actorKind |-> "agent"], {}, {"taskId"}, "taskId", "skipOccurrence"),
     stop_recurrence |-> Tool([ruleId |-> Uuid], [reason |-> Text],
        None, {}, {}, "ruleId", "stopRecurrence")]

SplitTools == [split_recurrence |-> Tool([ruleId |-> Uuid], Cadence,
        None, {}, {}, "ruleId", "splitRecurrence")]

GraphTools ==
    [related |-> Tool([id |-> Ref], None, None, {}, {"id"}, "id", "related"),
     link |-> Tool([fromId |-> Ref, toId |-> Ref, kind |-> Edges], None, None,
        {}, {"fromId", "toId"}, "fromId", "link")]

ListTools ==
    [list_tasks |-> Tool(None,
        [projectId |-> Uuid, projectIds |-> Lists, from |-> Date, to |-> Date,
         includeBacklog |-> Flag, includeDone |-> Flag,
         includeVirtualRecurrences |-> Flag],
        [includeBacklog |-> "true", includeDone |-> "false",
         includeVirtualRecurrences |-> "false"],
        {"projectIds", "from", "to"}, {}, "", "tasksRange")]

TagTools ==
    [list_tags |-> Tool(None, [projectId |-> Uuid], None, {}, {}, "", "tags"),
     get_links |-> Tool([id |-> Ref], [kind |-> Edges, direction |-> Ways],
        [direction |-> "both"], {}, {"id"}, "id", "getLinks")]

ContextTools ==
    [context |-> Tool(None, None, None, {}, {}, "", "context"),
     \* the resource botnote://workspace asks for the latest rows with this
     workspace_overview |-> Tool(None, None, [limit |-> "20"],
        {"projectId", "since"}, {}, "", "recent")]

McpTools ==
    Merged(BriefTools, Merged(ProjectTools, Merged(ReadTools, Merged(CreateTools,
    Merged(EditTools, Merged(CommentTools, Merged(FeedbackTools,
    Merged(RecurrenceTools, Merged(SplitTools, Merged(GraphTools,
    Merged(ListTools, Merged(TagTools, ContextTools))))))))))))

-----------------------------------------------------------------------------
(* The calls of the web client, with its input types.                      *)

WebNew ==
    [CreateTaskInput |->
        [projectId |-> OrNull(Uuid), body |-> Text, tags |-> Lists,
         status |-> Statuses, parentId |-> OrNull(Uuid), actorKind |-> Actors,
         metadata |-> {"object"}, dueAt |-> OrNull(Date), priority |-> Ranks,
         idempotencyKey |-> OrNull(Filled)],
     CreateNoteInput |->
        [projectId |-> OrNull(Uuid), title |-> OrNull(Text), body |-> Text,
         tags |-> Lists, parentId |-> OrNull(Uuid), actorKind |-> Actors,
         metadata |-> {"object"}, pinned |-> Flag, supersedes |-> OrNull(Uuid),
         idempotencyKey |-> OrNull(Filled)],
     CreateCommentInput |-> [actorKind |-> Actors, idempotencyKey |-> OrNull(Filled)],
     UpdateEntityInput |->
        [title |-> OrNull(Text), body |-> Text, tags |-> Lists,
         status |-> Statuses, metadata |-> {"object"}, parentId |-> OrNull(Uuid),
         dueAt |-> OrNull(Date), priority |-> Ranks, pinned |-> Flag,
         completedAt |-> OrNull(Date), recurrenceScope |-> Scopes],
     UpdateProjectInput |->
        [name |-> Filled, status |-> Stages, color |-> Filled, icon |-> Filled,
         agentsMd |-> Text]]

WebAsk ==
    [RecentInput |->
        [projectId |-> OrNull(Uuid), since |-> OrNull(Date),
         kinds |-> OrNull(Lists), limit |-> Limits],
     ListFeedbackInput |->
        [category |-> OrNull(Topics), status |-> OrNull(Statuses), limit |-> Limits],
     SearchInput |->
        [projectId |-> OrNull(Uuid), kind |-> OrNull(Kinds), limit |-> Limits],
     UpdateWorkspaceSettingsInput |-> [timezone |-> Filled]]

WebRange ==
    [from |-> OrNull(Date), to |-> OrNull(Date), projectIds |-> OrNull(Lists),
     includeBacklog |-> Flag, includeDone |-> Flag,
     includeVirtualRecurrences |-> Flag]

\* until and count of the web form are null for "no end".
WebCadence == Cadence

Web(must, may, given, at, to) == Tool(must, may, given, {}, {}, at, to)

WebProjectCalls ==
    [webListProjects |-> Web(None, [includeArchived |-> Flag], None, "", "listProjects"),
     webGetProject |-> Web([id |-> Uuid], None, None, "id", "getProject"),
     webGetProjectByKey |-> Web([key |-> {"key"}], None, None, "key", "getProjectByKey"),
     webCreateProject |-> Web([key |-> {"key"}, name |-> Filled],
        [status |-> Stages, color |-> Filled, icon |-> Filled, agentsMd |-> Text],
        None, "", "createProject"),
     webUpdateProject |-> Web([id |-> Uuid], WebNew.UpdateProjectInput, None,
        "id", "updateProject"),
     webOpeningBrief |-> Web([id |-> Uuid], [recentLimit |-> {"10", "20"}],
        [recentLimit |-> "10"], "id", "projectBrief")]

WebEntityCalls ==
    [webGetEntity |-> Web([id |-> Uuid], None, None, "id", "getEntity"),
     webRevisions |-> Web([id |-> Uuid], None, None, "id", "revisions"),
     webGetEntityByKey |-> Web([key |-> {"keyseq"}], None, None, "key", "getEntityByKey"),
     webCreateTask |-> Web([title |-> Filled], WebNew.CreateTaskInput, None, "", "createTask"),
     webCreateNote |-> Web(None, WebNew.CreateNoteInput, None, "", "createNote"),
     webUpdateEntity |-> Web([id |-> Uuid], WebNew.UpdateEntityInput, None,
        "id", "updateEntity"),
     webDelete |-> Web([id |-> Uuid], None, None, "id", "deleteEntity"),
     webPurge |-> Web([id |-> Uuid], None, [purge |-> "true"], "id", "deleteEntity"),
     webRestore |-> Web([id |-> Uuid], None, None, "id", "restore"),
     webTrash |-> Web(None, [limit |-> Limits], [limit |-> "100"], "", "trash"),
     webChildren |-> Web([id |-> Uuid], None, None, "id", "children"),
     webComments |-> Web([id |-> Uuid], [limit |-> Limits], [limit |-> "500"],
        "id", "listComments"),
     webAddComment |-> Web([id |-> Uuid, body |-> Filled], WebNew.CreateCommentInput,
        None, "id", "addComment"),
     webRecent |-> Web(None, WebAsk.RecentInput, None, "", "recent"),
     webSearch |-> Web([query |-> Filled], WebAsk.SearchInput, None, "", "search"),
     webFeedback |-> Web(None, WebAsk.ListFeedbackInput, None, "", "listFeedback")]

WebSettingsCalls ==
    [webEmbedding |-> Web(None, None, None, "", "embedding"),
     webUpdateEmbedding |-> Web(None,
        [enabled |-> Flag, provider |-> {"openai"}, model |-> Filled,
         baseUrl |-> {"null", "url"}, apiKey |-> OrNull(Text)],
        None, "", "updateEmbedding"),
     webBackfill |-> Web(None, [limit |-> Limits], None, "", "backfill"),
     webWorkspace |-> Web(None, None, None, "", "workspace"),
     webUpdateWorkspace |-> Web(None, WebAsk.UpdateWorkspaceSettingsInput, None,
        "", "updateWorkspace")]

WebTaskCalls ==
    [webTasksRange |-> Web(None, WebRange, None, "", "tasksRange"),
     webConfigure |-> Web([taskId |-> Uuid], Merged(WebCadence, [dtstart |-> Date]), None,
        "taskId", "createRecurrence"),
     webGetRecurrence |-> Web([taskId |-> Uuid], None, None, "taskId", "getRecurrence"),
     webSkip |-> Web([taskId |-> Uuid], [reason |-> Filled], [actorKind |-> "human"],
        "taskId", "skipOccurrence"),
     webStop |-> Web([ruleId |-> Uuid], [reason |-> Filled], None, "ruleId", "stopRecurrence"),
     webSplit |-> Web([ruleId |-> Uuid], WebCadence, None, "ruleId", "splitRecurrence")]

WebAccessCalls ==
    [webTokens |-> Web(None, None, None, "", "tokens"),
     webCreateToken |-> Web([name |-> Filled], None, None, "", "createToken"),
     webRevokeToken |-> Web([id |-> Uuid], None, None, "id", "revokeToken"),
     webLogin |-> Web([password |-> Filled], None, None, "", "login"),
     webLogout |-> Web(None, None, None, "", "logout"),
     webWhoami |-> Web(None, None, None, "", "whoami")]

WebCalls ==
    Merged(WebProjectCalls, Merged(WebEntityCalls, Merged(WebSettingsCalls,
    Merged(WebTaskCalls, WebAccessCalls))))

Calls == Merged(McpTools, WebCalls)

\* What web/src/api/client.ts and http-client.ts put into a query string: an
\* argument that is false, null or empty is left out there.
QueryCalls == {"listProjects", "listFeedback", "tags", "getLinks"}
Sent(to, body) ==
    IF to \in QueryCalls
    THEN [k \in {n \in DOMAIN body : body[n] \notin {"false", "null", "empty"}} |-> body[k]]
    ELSE body

-----------------------------------------------------------------------------
(* The daemon's schemas: must, may and the defaults.  A name no schema     *)
(* holds is dropped; the schemas of projects refuse it instead.            *)

Schema(must, may, given) ==
    [must |-> must, may |-> may, given |-> given, strict |-> FALSE]
NoBody == Schema(None, None, None)

EntitySchemas ==
    [CreateTaskInput |-> Schema([title |-> Filled],
        [projectId |-> OrNull(Uuid), body |-> Text, tags |-> Lists,
         status |-> Statuses, parentId |-> OrNull(Uuid), actorKind |-> Actors,
         metadata |-> {"object"}, dueAt |-> OrNull(Date), priority |-> Ranks,
         completedAt |-> OrNull(Date), idempotencyKey |-> OrNull(Filled)],
        [body |-> "empty", tags |-> "list", status |-> "open", actorKind |-> "human",
         metadata |-> "object", priority |-> "none"]),
     CreateNoteInput |-> Schema(None,
        [projectId |-> OrNull(Uuid), title |-> OrNull(Text), body |-> Text,
         tags |-> Lists, parentId |-> OrNull(Uuid), actorKind |-> Actors,
         metadata |-> {"object"}, pinned |-> Flag, supersedes |-> OrNull(Ref),
         idempotencyKey |-> OrNull(Filled)],
        [body |-> "empty", tags |-> "list", actorKind |-> "human",
         metadata |-> "object", pinned |-> "false"]),
     CreateCommentInput |-> Schema([body |-> Filled],
        [actorKind |-> Actors, metadata |-> {"object"},
         idempotencyKey |-> OrNull(Filled)],
        [actorKind |-> "human", metadata |-> "object"]),
     CreateFeedbackInput |-> Schema([category |-> Topics, title |-> Filled],
        [body |-> Text, projectId |-> OrNull(Uuid), tool |-> OrNull(Text),
         actorKind |-> Actors, metadata |-> {"object"},
         idempotencyKey |-> OrNull(Filled)],
        [body |-> "empty", actorKind |-> "agent", metadata |-> "object"])]

UpdateInput ==
    Schema(None,
        [projectId |-> OrNull(Uuid), title |-> OrNull(Text), body |-> Text,
         bodyAppend |-> Text, tags |-> Lists, status |-> Statuses,
         metadata |-> {"object"}, parentId |-> OrNull(Uuid),
         dueAt |-> OrNull(Date), priority |-> Ranks, pinned |-> Flag,
         completedAt |-> OrNull(Date), recurrenceScope |-> Scopes], None)

RecurrenceSchemas ==
    [RecurrenceInput |-> Schema(None, Merged(Cadence, [dtstart |-> Date]),
        [interval |-> "number", allDay |-> "true", anchor |-> "scheduled"]),
     SplitRecurrenceInput |-> Schema(None, Cadence, [interval |-> "number"]),
     UpdateRecurrenceInput |-> Schema(None,
        Merged(Cadence, [dtstart |-> Date, enabled |-> Flag]), None),
     StopRecurrenceInput |-> Schema(None, [reason |-> Text], None),
     SkipOccurrenceInput |-> Schema(None, [reason |-> Text, actorKind |-> Actors],
        [actorKind |-> "human"])]

ViewSchemas ==
    [SearchInput |-> Schema([query |-> Filled],
        [projectId |-> OrNull(Uuid), kind |-> OrNull(Kinds), limit |-> Limits],
        [limit |-> "10"]),
     RecentInput |-> Schema(None,
        [projectId |-> OrNull(Uuid), since |-> OrNull(Date), kinds |-> OrNull(Lists),
         limit |-> Limits], [limit |-> "20"]),
     TasksRangeInput |-> Schema(None,
        [from |-> OrNull(Date), to |-> OrNull(Date), projectIds |-> OrNull(Lists),
         includeBacklog |-> Flag, includeDone |-> Flag,
         includeVirtualRecurrences |-> Flag],
        [includeBacklog |-> "true", includeDone |-> "false",
         includeVirtualRecurrences |-> "false"]),
     OpeningBriefInput |-> Schema(None,
        [projectId |-> OrNull(Uuid), recentLimit |-> Limits \ {"100"}],
        [recentLimit |-> "10"])]

ProjectSchemas ==
    [CreateProjectInput |->
        [Schema([key |-> {"key"}, name |-> Filled],
            [status |-> Stages, color |-> Filled, icon |-> Filled, agentsMd |-> Text],
            [status |-> "active", color |-> "text", icon |-> "text",
             agentsMd |-> "empty"]) EXCEPT !.strict = TRUE],
     UpdateProjectInput |->
        [Schema(None,
            [name |-> Filled, status |-> Stages, color |-> Filled, icon |-> Filled,
             agentsMd |-> Text], None) EXCEPT !.strict = TRUE],
     ListProjectsInput |-> Schema(None, [includeArchived |-> Flag],
        [includeArchived |-> "false"])]

SettingsSchemas ==
    [CreateTokenInput |-> Schema([name |-> Filled], None, None),
     UpdateEmbeddingSettingsInput |-> Schema(None,
        [enabled |-> Flag, provider |-> {"openai", "openai_compatible"},
         model |-> Filled, baseUrl |-> {"null", "url"}, apiKey |-> OrNull(Text)], None),
     UpdateWorkspaceSettingsInput |-> Schema(None, [timezone |-> Filled], None),
     EmbeddingBackfillInput |-> Schema(None, [limit |-> Limits], None)]

-----------------------------------------------------------------------------
(* The routes: the class of the id in the path, the schema of the body or  *)
(* the query, and what the handler does.  "row" and "under" create a row   *)
(* (the second below the entity of the path), "edit" changes the entity of *)
(* the path, "at" and "find" want it to exist, "read" changes nothing but  *)
(* the access statistics.                                                  *)

Route(at, schema, does) == [at |-> at, schema |-> schema, does |-> does]

IdParams == {"uuid"}
EntityIdParams == {"uuid", "prefix"}

SettingsRoutes ==
    [embedding |-> Route({}, NoBody, "read"),
     updateEmbedding |-> Route({}, SettingsSchemas.UpdateEmbeddingSettingsInput, "set"),
     backfill |-> Route({}, SettingsSchemas.EmbeddingBackfillInput, "set"),
     workspace |-> Route({}, NoBody, "read"),
     updateWorkspace |-> Route({}, SettingsSchemas.UpdateWorkspaceSettingsInput, "set")]

ProjectRoutes ==
    [context |-> Route({}, NoBody, "read"),
     createProject |-> Route({}, ProjectSchemas.CreateProjectInput, "project"),
     listProjects |-> Route({}, ProjectSchemas.ListProjectsInput, "read"),
     getProject |-> Route(IdParams, NoBody, "read"),
     updateProject |-> Route(IdParams, ProjectSchemas.UpdateProjectInput, "set"),
     getProjectByKey |-> Route({"key"}, NoBody, "read")]

BriefRoutes ==
    [projectBrief |-> Route(IdParams,
        Schema(None, [recentLimit |-> Limits \ {"100"}], [recentLimit |-> "10"]), "read"),
     openingBrief |-> Route({}, ViewSchemas.OpeningBriefInput, "read")]

ReadRoutes ==
    [getEntity |-> Route(EntityIdParams, NoBody, "find"),
     getEntityByKey |-> Route({"keyseq"}, NoBody, "find"),
     revisions |-> Route(EntityIdParams, NoBody, "find"),
     related |-> Route(EntityIdParams, NoBody, "read"),
     children |-> Route(EntityIdParams, NoBody, "read"),
     recent |-> Route({}, ViewSchemas.RecentInput, "read"),
     search |-> Route({}, ViewSchemas.SearchInput, "read"),
     tasksRange |-> Route({}, ViewSchemas.TasksRangeInput, "read")]

RecurrenceRoutes ==
    [createRecurrence |-> Route(IdParams, RecurrenceSchemas.RecurrenceInput, "at"),
     getRecurrence |-> Route(IdParams, NoBody, "find"),
     updateRecurrence |-> Route(IdParams, RecurrenceSchemas.UpdateRecurrenceInput, "set"),
     skipOccurrence |-> Route(IdParams, RecurrenceSchemas.SkipOccurrenceInput, "at"),
     stopRecurrence |-> Route(IdParams, RecurrenceSchemas.StopRecurrenceInput, "set"),
     splitRecurrence |-> Route(IdParams, RecurrenceSchemas.SplitRecurrenceInput, "set")]

WriteRoutes ==
    [createTask |-> Route({}, EntitySchemas.CreateTaskInput, "row"),
     createNote |-> Route({}, EntitySchemas.CreateNoteInput, "row")]

CommentRoutes ==
    [addComment |-> Route(EntityIdParams, EntitySchemas.CreateCommentInput, "under"),
     listComments |-> Route(EntityIdParams,
        Schema(None, [limit |-> Limits \cup {"500"}], [limit |-> "50"]), "read"),
     submitFeedback |-> Route({}, EntitySchemas.CreateFeedbackInput, "row"),
     listFeedback |-> Route({}, Schema(None,
        [category |-> Topics, status |-> Statuses, limit |-> Limits],
        [limit |-> "20"]), "read")]

EntityRoutes ==
    [updateEntity |-> Route(EntityIdParams, UpdateInput, "edit"),
     \* the query's purge is coerced to a Boolean: any text means true
     deleteEntity |-> Route(EntityIdParams,
        Schema(None, [purge |-> Flag], None), "delete"),
     restore |-> Route(EntityIdParams, NoBody, "restore"),
     trash |-> Route({}, Schema(None, [limit |-> Limits], [limit |-> "100"]), "read")]

GraphRoutes ==
    [link |-> Route(IdParams, Schema([toId |-> Uuid, kind |-> Edges], None, None), "set"),
     getLinks |-> Route(IdParams, Schema(None,
        [kind |-> Edges \ {"supersedes"}, direction |-> Ways],
        [direction |-> "both"]), "read"),
     tags |-> Route({}, Schema(None, [projectId |-> Uuid], None), "read")]

AccessRoutes ==
    [login |-> Route({}, Schema([password |-> Filled], None, None), "set"),
     logout |-> Route({}, NoBody, "set"),
     whoami |-> Route({}, NoBody, "read"),
     tokens |-> Route({}, NoBody, "read"),
     createToken |-> Route({}, SettingsSchemas.CreateTokenInput, "set"),
     revokeToken |-> Route(IdParams, NoBody, "set")]

Routes ==
    Merged(SettingsRoutes, Merged(ProjectRoutes, Merged(BriefRoutes, Merged(ReadRoutes,
    Merged(RecurrenceRoutes, Merged(WriteRoutes, Merged(CommentRoutes,
    Merged(EntityRoutes, Merged(GraphRoutes, AccessRoutes)))))))))

-----------------------------------------------------------------------------
(* Arguments, requests and what the schemas make of them.                  *)

\* All the functions that give each name of m a value of its class.
Fillings(m) == {f \in [DOMAIN m -> UNION {m[k] : k \in DOMAIN m}] :
                  \A k \in DOMAIN m : f[k] \in m[k]}

\* What a caller may pass: every required argument and none or one of the
\* optional ones, or some of those that matter together.
Optional(t) ==
    {{}} \cup {{k} : k \in DOMAIN t.may} \cup {s \in Together : s \subseteq DOMAIN t.may}

Shapes(t) ==
    UNION {UNION {{Merged(f, g) : g \in Fillings([k \in opt |-> t.may[k]])} :
                     f \in Fillings(t.must)} : opt \in Optional(t)}

\* The items of update_entities.
Items == Shapes(EditTool)

\* list_tasks folds projectId into projectIds.
Renamed(name, k) == IF name = "list_tasks" /\ k = "projectId" THEN "projectIds" ELSE k
Folded(name, k, v) == IF name = "list_tasks" /\ k = "projectId" THEN "list" ELSE v

\* Mutant: what a tool fills in wins over what the caller said.
BodyFilledIn(name, args) ==
    LET t == Calls[name]
        own == DOMAIN args \ {t.at}
        said == {Renamed(name, k) : k \in own}
    IN  Sent(t.to, [n \in said \cup DOMAIN t.given \cup t.nulls |->
            IF n \in DOMAIN t.given THEN t.given[n]
            ELSE IF n \in said
            THEN LET k == CHOOSE x \in own : Renamed(name, x) = n
                 IN  Folded(name, k, args[k])
            ELSE "null"])

\* The JSON body a tool builds from its arguments.
Body(name, args) ==
    LET t == Calls[name]
        own == DOMAIN args \ {t.at}
        said == {Renamed(name, k) : k \in own}
    IN  Sent(t.to, [n \in said \cup DOMAIN t.given \cup t.nulls |->
            IF n \in said
            THEN LET k == CHOOSE x \in own : Renamed(name, x) = n
                 IN  Folded(name, k, args[k])
            ELSE IF n \in DOMAIN t.given THEN t.given[n] ELSE "null"])

PathOf(name, args) == IF Calls[name].at = "" THEN "none" ELSE args[Calls[name].at]

\* The refinements zod runs after the fields: body excludes bodyAppend, a
\* cadence needs rrule or preset and ends by a date or by a count.
Refined(to, body) ==
    /\ ~ ({"body", "bodyAppend"} \subseteq DOMAIN body)
    /\ to \in {"createRecurrence", "splitRecurrence"} =>
          /\ {"rrule", "preset"} \cap DOMAIN body # {}
          /\ ~ \A k \in {"until", "count"} : k \in DOMAIN body /\ body[k] # "null"

Fields(s) == Merged(s.must, s.may)

Accepts(to, path, body) ==
    LET r == Routes[to]
        fields == Fields(r.schema)
    IN  /\ r.at # {} => path \in r.at
        /\ DOMAIN r.schema.must \subseteq DOMAIN body
        /\ \A k \in DOMAIN body \cap DOMAIN fields : body[k] \in fields[k]
        /\ r.schema.strict => DOMAIN body \subseteq DOMAIN fields
        /\ Refined(to, body)

Parsed(to, body) ==
    LET s == Routes[to].schema
        taken == DOMAIN body \cap DOMAIN Fields(s)
    IN  [k \in taken \cup DOMAIN s.given |-> IF k \in taken THEN body[k] ELSE s.given[k]]

\* The argument k goes into the body of the request, and the route takes it.
Passes(name, k) ==
    LET t == Calls[name]
    IN  t.at # k /\ t.to \notin QueryCalls /\ k \in DOMAIN Fields(Routes[t.to].schema)

Creating == {"row", "under"}

\* What the tables say of the two arguments that make it safe to call again:
\* the key of whatever creates a row, and the note that another supersedes.
ASSUME TablesAssumption ==
    /\ \A name \in DOMAIN Calls : Routes[Calls[name].to].does \in Creating =>
          name # "update_entities" /\ Passes(name, "idempotencyKey")
    /\ \A name \in {"remember", "webCreateNote"} : Passes(name, "supersedes")

\* What the rest of the tables say, argument by argument.  A reference by its
\* key is looked up before it is sent, and what a query string leaves out is
\* as good as not said.
Looked(t, k, v) == IF k \in t.refs /\ v = "keyseq" THEN "uuid" ELSE v
LeftOut(to, v) == to \in QueryCalls /\ v \in {"false", "null", "empty"}

\* The values of an argument that the schema of the route does not take,
\* though the schema of the tool does.
Foreign(name, k) ==
    {"prefix"} \cup IF name = "get_links" /\ k = "kind" THEN {"supersedes"} ELSE {}

\* The argument k is a field of the route, which takes its values; one that a
\* query leaves out is the default of the route, if it has one.
ArgumentFits(name, t, k) ==
    LET s == Routes[t.to].schema
        n == Renamed(name, k)
    IN  /\ n \in DOMAIN Fields(s)
        /\ \A v \in Fields(t)[k] \ Foreign(name, k) :
              LET w == Folded(name, k, Looked(t, k, v))
              IN  w \in Fields(s)[n] \/ LeftOut(t.to, w)
        /\ \A v \in Fields(t)[k] :
              LET w == Folded(name, k, Looked(t, k, v))
              IN  LeftOut(t.to, w) /\ n \in DOMAIN s.given => s.given[n] = w

\* Two arguments that go into one field say the same.
NoClash(name, t, j, k) ==
    Renamed(name, j) = Renamed(name, k) =>
        \/ j = k
        \/ \A u \in Fields(t)[j], v \in Fields(t)[k] :
              Folded(name, j, Looked(t, j, u)) = Folded(name, k, Looked(t, k, v))

\* What a tool fills in, the route takes.
FilledInFits(t) ==
    LET fields == Fields(Routes[t.to].schema)
    IN  /\ \A n \in DOMAIN t.given :
              n \in DOMAIN fields /\ (t.given[n] \in fields[n] \/ LeftOut(t.to, t.given[n]))
        /\ \A n \in t.nulls :
              n \in DOMAIN fields /\ ("null" \in fields[n] \/ LeftOut(t.to, "null"))

\* A required argument goes into the path of a route that has one.
PathFits(t) ==
    LET at == Routes[t.to].at
    IN  IF t.at = "" THEN at = {}
        ELSE /\ t.at \in DOMAIN t.must
             /\ \A v \in t.must[t.at] \ {"prefix"} : Looked(t, t.at, v) \in at

\* What the route requires, the tool requires.
RequiredFits(name, t) ==
    \A n \in DOMAIN Routes[t.to].schema.must :
        t.to \notin QueryCalls /\ n \in DOMAIN t.must \ {t.at} /\ Renamed(name, n) = n

ToolFits(name, t) ==
    /\ \A k \in DOMAIN Fields(t) \ {t.at} :
          /\ ArgumentFits(name, t, k)
          /\ \A j \in DOMAIN Fields(t) \ {t.at} : NoClash(name, t, j, k)
    /\ FilledInFits(t) /\ PathFits(t) /\ RequiredFits(name, t)
    /\ name = "create_project" => t.refs = {}

\* A tool whose route knows who acts says "agent" of its own accord.
AgentFits(t) ==
    LET s == Routes[t.to].schema
    IN  "actorKind" \in DOMAIN Fields(s) \cup DOMAIN s.given =>
            /\ "actorKind" \in DOMAIN t.given /\ t.given.actorKind = "agent"
            /\ "actorKind" \in DOMAIN Fields(s) /\ t.to \notin QueryCalls
            /\ t.at # "actorKind" /\ "actorKind" \notin t.refs

ASSUME TablesFitAssumption ==
    /\ \A name \in DOMAIN Calls : ToolFits(name, Calls[name])
    /\ \A name \in DOMAIN McpTools : AgentFits(Calls[name])

-----------------------------------------------------------------------------
VARIABLES
    call,       \* name of the tool or web call
    args,       \* the arguments of the current item
    ids,        \* those of them that were KEY-SEQ and are looked up
    items,      \* items still to do, the current one counted
    verdicts,   \* what the caller was told, item by item
    stage,      \* how far the current item is
    got,        \* the input the service was given
    did,        \* the service did what the current item asks
    round,      \* how often the call was made
    rows,       \* rows the call created
    edge,       \* a row of the call supersedes the target
    target,     \* the entity the arguments name
    project,    \* a project with the key of create_project exists
    cached,     \* the MCP server has the keys of the projects
    up,         \* the daemon runs
    late        \* what the daemon still does for a caller that has given up

gatewayVars == <<call, args, ids, items, verdicts, stage, got, did, round,
                 rows, edge, target, project, cached, up, late>>
world == <<rows, edge, target, project>>
daemon == <<up, late>>
given == <<call, args, ids>>

Steps == {"idle", "resolve", "lookup", "send", "find", "do", "mark", "render",
          "next", "told"}
InDaemon == {"find", "do", "mark"}
NoLate == [at |-> "", got |-> None]

GatewayInit ==
    /\ call = "" /\ args = None /\ ids = {} /\ items = 0 /\ verdicts = <<>>
    /\ stage = "idle" /\ got = None /\ did = FALSE /\ round = 0
    /\ rows = 0 /\ edge = FALSE /\ late = NoLate
    /\ target = "live" /\ project = FALSE /\ cached \in BOOLEAN /\ up = TRUE

Entry == Calls[call]
Does == Routes[Entry.to].does

\* The first thing the handler of the tool does.
Start(name) == IF name = "create_project" THEN "lookup" ELSE "resolve"

Invoke(name) ==
    /\ stage = "idle"
    /\ call' = name
    /\ args' \in Shapes(Calls[name])
    /\ ids' = {}
    /\ items' \in IF name = "update_entities" THEN {1, 2} ELSE {1}
    /\ stage' = Start(name)
    /\ round' = 1
    /\ UNCHANGED <<verdicts, got, did, cached, daemon, world>>

\* Mutant: the items are not counted.
TellUncounted(v) ==
    /\ verdicts' = Append(verdicts, v)
    /\ args' = (IF items > 1 THEN None ELSE args)
    /\ ids' = (IF items > 1 THEN {} ELSE ids)
    /\ stage' = IF items > 1 THEN "next" ELSE "told"
    /\ items' = items

\* An answer for the current item.  A batch goes on with the next one
\* whatever the answer; any other call ends.
Tell(v) ==
    /\ verdicts' = Append(verdicts, v)
    /\ args' = (IF items > 1 THEN None ELSE args)
    /\ ids' = (IF items > 1 THEN {} ELSE ids)
    /\ stage' = IF items > 1 THEN "next" ELSE "told"
    /\ items' = items - 1

GoOn == UNCHANGED <<args, ids, items, verdicts>>

\* Mutant: a failure ends the batch.
NextItemAfterOk ==
    /\ stage = "next" /\ verdicts[Len(verdicts)] = "ok"
    /\ args' \in Items
    /\ ids' = {}
    /\ stage' = "resolve" /\ did' = FALSE /\ got' = None
    /\ UNCHANGED <<call, items, verdicts, round, cached, daemon, world>>

NextItem ==
    /\ stage = "next"
    /\ args' \in Items
    /\ ids' = {}
    /\ stage' = "resolve" /\ did' = FALSE /\ got' = None
    /\ UNCHANGED <<call, items, verdicts, round, cached, daemon, world>>

\* KEY-SEQ arguments are looked up one after the other; a reference of
\* another form goes through as it is.
Unresolved == {k \in (Entry.refs \cap DOMAIN args) \ ids : args[k] = "keyseq"}
Named == [k \in DOMAIN args |-> IF k \in ids THEN "uuid" ELSE args[k]]

Resolve ==
    /\ stage = "resolve"
    /\ \/ /\ Unresolved = {}
          /\ stage' = "send"
          /\ GoOn
       \/ \E k \in Unresolved :
             \/ /\ up /\ target # "purged"
                /\ ids' = ids \cup {k}
                /\ UNCHANGED <<args, items, verdicts, stage>>
             \/ /\ ~ up \/ target = "purged"
                /\ Tell("failed")
    /\ UNCHANGED <<call, got, did, round, cached, daemon, world>>

\* create_project asks for the key first and takes any failure of that
\* request for "no such project".
LookUp ==
    /\ stage = "lookup"
    /\ IF up /\ project
       THEN Tell("exists")
       ELSE stage' = "send" /\ GoOn
    /\ UNCHANGED <<call, got, did, round, cached, daemon, world>>

Send ==
    /\ stage = "send"
    /\ LET to == Entry.to
           body == Body(call, Named)
       IN  IF up /\ Accepts(to, PathOf(call, Named), body)
           THEN /\ got' = Parsed(to, body)
                /\ stage' = "find"
                /\ GoOn
           ELSE /\ Tell(IF up THEN "refused" ELSE "failed")
                /\ UNCHANGED got
    /\ UNCHANGED <<call, did, round, cached, daemon, world>>

-----------------------------------------------------------------------------
(* The handler in the daemon.                                              *)

Has(f, k) == k \in DOMAIN f /\ f[k] # "null"

\* What the handler looks up before it writes: the entity of the path, the
\* note to supersede, the parent.
Found ==
    /\ Does \in {"under", "edit"} => target = "live"
    /\ Does = "delete" /\ Has(got, "purge") => target = "trashed"
    /\ Does \in {"find", "at", "delete", "restore"} \/ Has(got, "supersedes") =>
          target # "purged"

Find ==
    /\ stage = "find"
    /\ IF Found
       THEN stage' = "do" /\ GoOn
       ELSE Tell("not found")
    /\ UNCHANGED <<call, got, did, round, cached, daemon, world>>

\* write: a row with the same idempotencyKey is returned instead of a second
\* one; the parent must exist.
Creates == Does \in Creating
\* Mutant: the key of an earlier call is not looked up.
AgainNever(in) == FALSE

Again(in) == Has(in, "idempotencyKey") /\ rows > 0
Barred(in) ==
    \/ Does = "row" /\ Has(in, "parentId") /\ target = "purged" /\ ~ Again(in)
    \/ Does = "project" /\ project

Effect(in) ==
    /\ rows' = IF Creates /\ ~ Again(in) THEN rows + 1 ELSE rows
    /\ target' = CASE Does = "delete" -> IF Has(in, "purge") THEN "purged" ELSE "trashed"
                   [] Does = "restore" -> "live"
                   [] OTHER -> target
    /\ project' = (project \/ Does = "project")

\* Mutant: a note that is already there is answered without its edge.
DoOnce ==
    /\ stage = "do"
    /\ IF Barred(got)
       THEN Tell("failed") /\ UNCHANGED <<world, did>>
       ELSE /\ Effect(got)
            /\ did' = (~ Has(got, "supersedes") \/ Again(got))
            /\ stage' = IF Has(got, "supersedes") /\ ~ Again(got) THEN "mark" ELSE "render"
            /\ UNCHANGED edge /\ GoOn
    /\ UNCHANGED <<call, got, round, cached, daemon>>

Do ==
    /\ stage = "do"
    /\ IF Barred(got)
       THEN Tell("failed") /\ UNCHANGED <<world, did>>
       ELSE /\ Effect(got)
            /\ did' = ~ Has(got, "supersedes")
            /\ stage' = IF Has(got, "supersedes") THEN "mark" ELSE "render"
            /\ UNCHANGED edge /\ GoOn
    /\ UNCHANGED <<call, got, round, cached, daemon>>

\* markSuperseded looks the old note up again.
Mark ==
    /\ stage = "mark"
    /\ IF target # "purged"
       THEN /\ edge' = TRUE /\ did' = TRUE
            /\ stage' = "render"
            /\ GoOn
       ELSE Tell("failed") /\ UNCHANGED <<edge, did>>
    /\ UNCHANGED <<call, got, round, rows, target, project, cached, daemon>>

-----------------------------------------------------------------------------
(* The answer.  A tool that names entities in its answer needs the keys of *)
(* the projects: it fetches them when it has none, or meets an entity of a *)
(* project it does not know, and an answer that cannot be written is told  *)
(* as a failure of the call.                                               *)

Summarizing ==
    {"search", "recent", "create_task", "remember", "update_entity",
     "update_entities", "submit_feedback", "skip_occurrence", "related",
     "list_tasks", "get_links", "workspace_overview"}

\* These name the children of the entity, if it has any; their failure is told
\* as an entity that was not found.
SummarizingChildren == {"get_entity", "get_entity_by_key"}

Render ==
    /\ stage = "render"
    /\ \E known, parent \in BOOLEAN :
          LET fetch == /\ call \in Summarizing \/ (call \in SummarizingChildren /\ parent)
                       /\ ~ (cached /\ known)
          IN  /\ Tell(IF fetch /\ ~ up THEN "failed" ELSE "ok")
              /\ cached' = (cached \/ (fetch /\ up))
    /\ UNCHANGED <<call, got, did, round, daemon, world>>

\* The caller makes a call again that it was not told the success of.
Repeat ==
    /\ stage = "told" /\ items = 0
    /\ Len(verdicts) = 1 /\ verdicts[1] = "failed"
    /\ call # "update_entities"
    /\ round < MaxRounds
    /\ round' = round + 1
    /\ items' = 1 /\ verdicts' = <<>> /\ did' = FALSE /\ got' = None
    /\ ids' = {} /\ stage' = Start(call)
    /\ UNCHANGED <<call, args, cached, daemon, world>>

-----------------------------------------------------------------------------
(* Faults and others.                                                      *)

\* Fault: the connection breaks while the daemon works; the caller gets an
\* error, the daemon goes on.
LoseAnswer ==
    /\ stage \in {"do", "mark"} /\ late = NoLate
    /\ late' = [at |-> stage, got |-> got]
    /\ Tell("failed")
    /\ UNCHANGED <<call, got, did, round, cached, up, world>>

\* The daemon finishes what nobody waits for any more.
FinishLate ==
    /\ late # NoLate /\ up
    /\ CASE late.at = "do" /\ ~ Barred(late.got) ->
               /\ Effect(late.got)
               /\ late' = IF Has(late.got, "supersedes")
                          THEN [late EXCEPT !.at = "mark"] ELSE NoLate
               /\ UNCHANGED edge
         [] late.at = "mark" /\ target # "purged" ->
               /\ edge' = TRUE /\ late' = NoLate
               /\ UNCHANGED <<rows, target, project>>
         [] OTHER -> late' = NoLate /\ UNCHANGED world
    /\ UNCHANGED <<given, items, verdicts, stage, got, did, round, cached, up>>

\* Fault: the daemon stops; requests in it break off.
StopDaemon ==
    /\ up
    /\ up' = FALSE /\ late' = NoLate
    /\ IF stage \in InDaemon
       THEN Tell("failed")
       ELSE UNCHANGED stage /\ GoOn
    /\ UNCHANGED <<call, got, did, round, cached, world>>

StartDaemon ==
    /\ ~ up
    /\ up' = TRUE
    /\ UNCHANGED <<given, items, verdicts, stage, got, did, round, cached, late, world>>

\* Another client moves the target, or creates the project.
Others ==
    /\ up /\ stage # "told"
    /\ \/ /\ target = "live" /\ target' = "trashed"
          /\ UNCHANGED project
       \/ /\ target = "trashed" /\ target' \in {"live", "purged"}
          /\ UNCHANGED project
       \/ /\ ~ project /\ call = "create_project" /\ project' = TRUE
          /\ UNCHANGED target
    /\ UNCHANGED <<given, items, verdicts, stage, got, did, round, rows, edge,
                   cached, daemon>>

-----------------------------------------------------------------------------
Step == NextItem \/ Resolve \/ LookUp \/ Send \/ Find \/ Do \/ Mark \/ Render

GatewayNext ==
    \/ \E name \in DOMAIN Calls : Invoke(name)
    \/ Step \/ Repeat
    \/ LoseAnswer \/ FinishLate \/ StopDaemon \/ StartDaemon \/ Others

\* A handler runs on to its end: a request to a daemon that stops is broken
\* off, and the client then gets an error.
GatewayFairness == WF_gatewayVars(Step)

GatewaySpec == GatewayInit /\ [][GatewayNext]_gatewayVars /\ GatewayFairness

-----------------------------------------------------------------------------
(* Properties.                                                             *)

\* Every variable has its type.
GatewayTypeOK ==
    /\ call \in DOMAIN Calls \cup {""}
    /\ ids \subseteq DOMAIN args
    /\ items \in 0 .. 2 /\ Len(verdicts) <= 2
    /\ \A i \in DOMAIN verdicts :
          verdicts[i] \in {"ok", "exists", "refused", "not found", "failed"}
    /\ stage \in Steps
    /\ round \in 0 .. MaxRounds /\ rows \in 0 .. 2 * MaxRounds
    /\ target \in {"live", "trashed", "purged"}
    /\ late = NoLate \/ late.at \in {"do", "mark"}
    /\ \A b \in {did, edge, project, cached, up} : b \in BOOLEAN

\* Every argument a caller gives reaches the service with its value: none is
\* lost between the tool's arguments, the request it builds and the schema
\* of the route, which drops what it does not name.
ArgumentsArrive ==
    stage \in InDaemon =>
        \A k \in DOMAIN args \ {Entry.at} :
            /\ \/ Renamed(call, k) \in DOMAIN got
               \/ Entry.to \in QueryCalls /\ args[k] \in {"false", "null", "empty"}
            /\ Renamed(call, k) \in DOMAIN got =>
                  got[Renamed(call, k)] = Folded(call, k, Named[k])

\* What a caller may be refused for although its own schema let it pass: the
\* two spellings that exclude each other, a cadence without a frequency or
\* with two ends, a prefix where the route wants the whole id, and the links
\* of kind supersedes.
KnownRefusal ==
    \/ ~ Refined(Entry.to, Body(call, args))
    \/ \E k \in DOMAIN args : args[k] = "prefix"
    \/ call = "get_links" /\ "kind" \in DOMAIN args /\ args.kind = "supersedes"

\* A call that keeps to the schema of its tool is not refused by the schema
\* of the route, but for the known reasons: the tables agree on what a value
\* may be (src/src/mcp/server.ts against src/src/service/types.ts).
NotRefused ==
    stage = "told" /\ Len(verdicts) = 1 /\ verdicts[1] = "refused" => KnownRefusal

\* What an agent writes through the MCP server is marked as the agent's
\* unless it says otherwise; the routes alone would mark it as a human's.
AgentIsNamed ==
    stage \in InDaemon /\ call \in DOMAIN McpTools /\ "actorKind" \in DOMAIN got =>
        got.actorKind = IF "actorKind" \in DOMAIN args THEN args.actorKind ELSE "agent"

\* The tables of the tools, of the clients and of the routes agree.
SchemasAgree == ArgumentsArrive /\ NotRefused /\ AgentIsNamed

\* A call with an idempotencyKey leaves at most one row however often it is
\* repeated, whatever was lost and wherever the daemon stopped.
OneRowPerKey ==
    "idempotencyKey" \in DOMAIN args /\ args.idempotencyKey # "null" => rows <= 1

\* A caller that is told "ok" got what it asked, each item of a batch is
\* answered, and a failure of one does not stop those after it.
VerdictsAreHonest ==
    /\ stage \in {"next", "told"} /\ verdicts[Len(verdicts)] = "ok" => did
    /\ stage = "told" => items = 0
    /\ stage = "told" /\ verdicts[Len(verdicts)] = "exists" => project

\* A note that was told to supersede another does so, unless that one is
\* gone: also when the first attempt wrote the note and failed before the
\* edge, and the repeated call found the note by its key.
SupersedeIsDone ==
    /\ call \in {"remember", "webCreateNote"} /\ Has(args, "supersedes")
    /\ stage = "told" /\ verdicts[Len(verdicts)] = "ok"
    => edge \/ target = "purged"

\* Who is told "ok" can rely on it.
OkIsDone == VerdictsAreHonest /\ SupersedeIsDone

\* Every call is answered in the end.
Answered == stage # "idle" ~> stage = "told"
=============================================================================
