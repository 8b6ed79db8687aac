------------------------------- MODULE Drawer -------------------------------
(***************************************************************************)
(* The drawer that shows one entity and saves what is typed into it        *)
(* without being asked: its draft, the debounced autosave, the PATCHes on  *)
(* their way and the answers that come back into the cache.                *)
(*                                                                         *)
(* An entity is a task that is done: it has a content (title, body, tags,  *)
(* priority and due date are one field here) and the time it was           *)
(* completed.  A value is a number, given once.                            *)
(***************************************************************************)
EXTENDS Naturals, FiniteSets

CONSTANTS
  Ids,         \* the entities
  None,
  MaxTyped,    \* bound: values typed
  MaxTurns,    \* bound: times the drawer opens or goes into editing, a PATCH
               \* fails, or somebody else writes
  MaxPatches   \* bound: PATCHes under way

ASSUME DrawerAssumption ==
  /\ {MaxTyped, MaxTurns, MaxPatches} \subseteq Nat
  /\ None \notin Ids /\ None \notin Nat

VARIABLES
  server,   \* the entities as the server has them
  cache,    \* as the tab last got them
  asked,    \* the GET for each, and the answer that is under way
  drawer,   \* the entity on show, the refs and flags of the component, and
            \* whether it left the entity of the draft for another one
  draft,    \* what the fields hold
  patches,  \* the PATCHes under way
  used,     \* how much of each bound is used up
  typed,    \* what was typed into each field since it was last filled
  base      \* the content that editing found, and how much had been typed

drawerVars == <<server, cache, asked, drawer, draft, patches, used, typed, base>>

Fields == {"content", "stamp"}

NotAsked == [st |-> "no", data |-> None]
Sent     == [st |-> "sent", data |-> None]
Due      == [st |-> "due", data |-> None]   \* invalidated, while not on show

Untyped == [f \in Fields |-> None]

Closed == [id |-> None, initializedFor |-> None, isEditing |-> FALSE,
           completedAtDirty |-> FALSE, timer |-> FALSE, left |-> FALSE]
Blank  == [content |-> 0, stamp |-> 0]
NoBase == [content |-> 0, typed |-> 0]

DrawerInit ==
  /\ server = [i \in Ids |-> Blank]
  /\ cache = [i \in Ids |-> None]
  /\ asked = [i \in Ids |-> NotAsked]
  /\ drawer = Closed /\ draft = Blank
  /\ patches = {}
  /\ used = [typed |-> 0, others |-> 0, losses |-> 0, visits |-> 0]
  /\ typed = Untyped /\ base = NoBase

Takes(turn) ==
  /\ used.visits + used.losses + used.others < MaxTurns
  /\ used' = [used EXCEPT ![turn] = @ + 1]

-----------------------------------------------------------------------------
(* The effects that run when the entity on show changes.                  *)

\* Mutant: the draft is filled again with every answer.
HydratedAlways(dr, d, e) ==
  [drawer |-> [dr EXCEPT !.initializedFor = dr.id, !.completedAtDirty = FALSE,
                         !.left = FALSE],
   draft |-> e]

\* Mutant: another entity is shown with the draft of the former one.
HydratedInName(dr, d, e) ==
  [drawer |-> [dr EXCEPT !.initializedFor = dr.id], draft |-> d]

\* The draft is filled when the entity is another one; after that only the
\* completion time follows the server, until it is typed.
Hydrated(dr, d, e) ==
  IF dr.initializedFor # dr.id
  THEN [drawer |-> [dr EXCEPT !.initializedFor = dr.id, !.isEditing = FALSE,
                              !.completedAtDirty = FALSE, !.left = FALSE],
        draft |-> e]
  ELSE [drawer |-> dr,
        draft |-> IF dr.completedAtDirty THEN d ELSE [d EXCEPT !.stamp = e.stamp]]

\* What the draft would change: nothing unless this entity is being edited,
\* and a completion time only if it was typed.
Diff(dr, d, e) ==
  IF ~dr.isEditing \/ e = None \/ dr.initializedFor # dr.id THEN {}
  ELSE {f \in Fields :
          /\ d[f] # e[f]
          /\ f = "stamp" => dr.completedAtDirty}

CurrentDiff == Diff(drawer, draft, cache[drawer.id])

\* A render with this component, draft and entity: if there is something to
\* save the timer starts anew.
Render(dr, d, e) ==
  /\ drawer' = [dr EXCEPT !.timer = Diff(dr, d, e) # {}]
  /\ draft' = d

\* The entity on show is e.
Show(dr, d, e) ==
  LET h == Hydrated(dr, d, e)
  IN  IF e = None THEN Render(dr, d, e) ELSE Render(h.drawer, h.draft, e)

\* What an editing of this entity finds.
Found(e) == [content |-> e.content, typed |-> used.typed]

\* When the draft is filled, what was typed before and what it started from
\* are forgotten.
Followed ==
  IF drawer'.initializedFor # drawer.initializedFor
  THEN typed' = Untyped /\ base' = Found(cache'[drawer'.id])
  ELSE UNCHANGED <<typed, base>>

OpenDrawer(i) ==
  /\ drawer.id # i
  /\ Takes("visits")
  /\ Show([drawer EXCEPT !.id = i, !.left = TRUE], draft, cache[i])
  /\ \/ asked' = [asked EXCEPT ![i] = Sent]
     \/ cache[i] # None /\ asked[i] # Due /\ UNCHANGED asked
  /\ UNCHANGED <<server, cache, patches>>
  /\ Followed

\* The component goes away, because it is closed or the entity removed, and
\* with it the timer and what awaits a PATCH.
CloseDrawer ==
  /\ drawer.id # None
  /\ drawer' = Closed /\ draft' = Blank
  /\ patches' = {[p EXCEPT !.here = FALSE] : p \in patches}
  /\ typed' = Untyped /\ base' = NoBase
  /\ UNCHANGED <<server, cache, asked, used>>

Loaded == drawer.id # None /\ cache[drawer.id] # None

\* Every field is filled again but the completion time: what was typed into
\* that one, and the flag that it was, survive from the editing before.
StartEditing ==
  /\ Loaded /\ ~drawer.isEditing
  /\ Takes("visits")
  /\ LET e == cache[drawer.id]
     IN  Render([drawer EXCEPT !.isEditing = TRUE],
                [e EXCEPT !.stamp = draft.stamp], e)
  /\ typed' = [Untyped EXCEPT !.stamp = typed.stamp]
  /\ base' = Found(cache[drawer.id])
  /\ UNCHANGED <<server, cache, asked, patches>>

\* A value that was not typed before.
Type(f) ==
  /\ Loaded /\ drawer.isEditing
  /\ used.typed < MaxTyped
  /\ used' = [used EXCEPT !.typed = @ + 1]
  /\ LET v == used.typed + 1
     IN  /\ Render([drawer EXCEPT !.completedAtDirty = @ \/ f = "stamp"],
                   [draft EXCEPT ![f] = v], cache[drawer.id])
         /\ typed' = [typed EXCEPT ![f] = v]
  /\ UNCHANGED <<server, cache, asked, patches, base>>

-----------------------------------------------------------------------------
(* Saving.                                                                *)

Send(finishing) ==
  /\ Cardinality(patches) < MaxPatches
  /\ patches' = patches \cup
    {[id |-> drawer.id, st |-> "sent", here |-> TRUE, finishing |-> finishing,
      fields |-> [f \in CurrentDiff |-> draft[f]]]}

\* Debounced auto-save.
Autosave ==
  /\ drawer.timer
  /\ Send(FALSE)
  /\ drawer' = [drawer EXCEPT !.timer = FALSE]
  /\ UNCHANGED <<server, cache, asked, draft, used, typed, base>>

FinishEditing ==
  /\ Loaded /\ drawer.isEditing
  /\ \/ /\ CurrentDiff = {}
        /\ drawer' = [drawer EXCEPT !.isEditing = FALSE, !.timer = FALSE]
        /\ UNCHANGED patches
     \/ /\ CurrentDiff # {}
        /\ Send(TRUE)
        /\ UNCHANGED drawer
  /\ UNCHANGED <<server, cache, asked, draft, used, typed, base>>

Written(e, fields) ==
  [f \in Fields |-> IF f \in DOMAIN fields THEN fields[f] ELSE e[f]]

PatchLands(p) ==
  /\ p.st = "sent"
  /\ server' = [server EXCEPT ![p.id] = Written(@, p.fields)]
  /\ patches' = (patches \ {p}) \cup {[p EXCEPT !.st = "landed"]}
  /\ UNCHANGED <<cache, asked, drawer, draft, used, typed, base>>

\* useUpdateEntity's onSuccess invalidates the entity: it is asked for again
\* at once if it is on show.
PatchSucceeds(p) ==
  /\ p.st = "landed"
  /\ patches' = patches \ {p}
  /\ asked' = IF drawer.id = p.id THEN [asked EXCEPT ![p.id] = Sent]
              ELSE IF asked[p.id] = NotAsked THEN [asked EXCEPT ![p.id] = Due]
              ELSE asked
  /\ drawer' = IF p.here /\ p.finishing
               THEN [drawer EXCEPT !.isEditing = FALSE, !.timer = FALSE]
               ELSE drawer
  /\ UNCHANGED <<server, cache, draft, used, typed, base>>

\* Fault: the PATCH is refused or its answer lost; it is not sent again.
PatchFails(p) ==
  /\ Takes("losses")
  /\ patches' = patches \ {p}
  /\ UNCHANGED <<server, cache, asked, drawer, draft, typed, base>>

-----------------------------------------------------------------------------
(* The query of the entity, and everybody else.                           *)

FocusDrawer ==
  /\ drawer.id # None /\ asked[drawer.id] = NotAsked
  /\ asked' = [asked EXCEPT ![drawer.id] = Sent]
  /\ UNCHANGED <<server, cache, drawer, draft, patches, used, typed, base>>

ReadEntity(i) ==
  /\ asked[i] = Sent
  /\ asked' = [asked EXCEPT ![i] = [st |-> "read", data |-> server[i]]]
  /\ UNCHANGED <<server, cache, drawer, draft, patches, used, typed, base>>

\* Every write moves updatedAt, which is left out here, so an answer counts as
\* another entity even if the fields are the same.
Arrive(i) ==
  /\ asked[i].st = "read"
  /\ asked' = [asked EXCEPT ![i] = NotAsked]
  /\ cache' = [cache EXCEPT ![i] = asked[i].data]
  /\ IF drawer.id = i
     THEN Show(drawer, draft, asked[i].data)
     ELSE UNCHANGED <<drawer, draft>>
  /\ Followed
  /\ UNCHANGED <<server, patches, used>>

\* An agent or another tab writes the entity on show.
AgentWrites ==
  /\ Loaded
  /\ Takes("others")
  /\ \E f \in Fields :
       server' = [server EXCEPT ![drawer.id][f] = MaxTyped + used'.others]
  /\ UNCHANGED <<cache, asked, drawer, draft, patches, typed, base>>

-----------------------------------------------------------------------------
DrawerNext ==
  \/ CloseDrawer \/ StartEditing \/ (\E f \in Fields : Type(f))
  \/ Autosave \/ FinishEditing \/ FocusDrawer \/ AgentWrites
  \/ \E p \in patches : PatchLands(p) \/ PatchSucceeds(p) \/ PatchFails(p)
  \/ \E i \in Ids : OpenDrawer(i) \/ ReadEntity(i) \/ Arrive(i)

\* The timer fires and requests are answered.
DrawerFairness ==
  /\ WF_drawerVars(Autosave)
  /\ WF_drawerVars(\E p \in patches : PatchLands(p) \/ PatchSucceeds(p))
  /\ \A i \in Ids : WF_drawerVars(ReadEntity(i)) /\ WF_drawerVars(Arrive(i))

DrawerSpec == DrawerInit /\ [][DrawerNext]_drawerVars /\ DrawerFairness
-----------------------------------------------------------------------------
Entity == [Fields -> 0..(MaxTyped + MaxTurns)]

\* The drawer's variables keep their shape; the timer runs only while there
\* is something to save.
DrawerTypeOK ==
  /\ server \in [Ids -> Entity]
  /\ cache \in [Ids -> Entity \cup {None}]
  /\ asked \in [Ids -> [st : {"no", "sent", "read", "due"}, data : Entity \cup {None}]]
  /\ {drawer.id, drawer.initializedFor} \subseteq Ids \cup {None}
  /\ draft \in Entity
  /\ drawer.timer => CurrentDiff # {}
  /\ \A p \in patches : p.id \in Ids /\ DOMAIN p.fields # {}

\* What the drawer is about to save is what was last typed into that field of
\* this entity, since the drawer came to show it for a completion time and
\* since editing began for the content; a content that was not typed is only
\* there because the tab's copy has changed under the edit
\* (EntityDrawer.tsx:173-175, 204-233).  A completion time may be one that was
\* typed in an editing before: see StampIsOfThisEditing.
SavesWhatWasTyped ==
  Loaded =>
    \A f \in CurrentDiff :
      \/ typed[f] # None /\ draft[f] = typed[f]
      \/ f # "stamp" /\ typed[f] = None /\ cache[drawer.id][f] # base[f]

\* A completion time is only saved if it was typed since editing began, as
\* EntityDrawer.tsx:173-176 would have it: "Only send completedAt when the user
\* touched the field [...] echoing a stale draft back would clear that stamp".
\* Not so: the flag outlives Done (Web_stamp.cfg).
StampIsOfThisEditing ==
  Loaded /\ "stamp" \in CurrentDiff => typed.stamp > base.typed

\* The server does not have the last text that was typed.
Unsaved ==
  /\ drawer.isEditing /\ ~drawer.left
  /\ typed.content # None
  /\ server[drawer.id].content # typed.content

\* Typing is not lost: while the drawer stays in editing the server gets the
\* last text that was typed, whatever the order the PATCHes arrive in, unless
\* one failed, somebody else wrote, or the drawer went to another entity and
\* came back before that one was loaded (EntityDrawer.tsx:177-178, 244-260).
EditsArrive ==
  <>[](Unsaved => used.losses + used.others > 0)
=============================================================================
