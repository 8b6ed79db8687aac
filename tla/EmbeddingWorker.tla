---------------------------- MODULE EmbeddingWorker ----------------------------
(***************************************************************************)
(* The embedding worker of src/service/embedding.ts: an in-memory queue,   *)
(* one process() at a time, and the handlers and sweeps that feed it.      *)
(*                                                                         *)
(* JavaScript runs one piece of code at a time, so an action is what runs  *)
(* between two awaits.  A text is the number of the edit that wrote it,    *)
(* and an edit may leave nothing but blanks; a vector is the number of the *)
(* text it was computed from, 0 for NULL.                                  *)
(***************************************************************************)
EXTENDS Integers, Sequences, FiniteSets

CONSTANTS
  Rows,         \* bound: tasks and notes, 1 .. Rows, in the order the sweep reads them
  MaxText,      \* bound: edits of one row
  Bad,          \* rows whose texts the provider refuses each time
  MaxAttempts,  \* MAX_ATTEMPTS
  BatchMax,     \* EMBED_BATCH_MAX_TEXTS
  MaxFaults     \* bound: calls and statements that fail for no reason, changes
                \* of the settings and restarts of the daemon, together

Ids == 1 .. Rows
Texts == 1 .. MaxText
Blank == 0    \* a title and a body of nothing but blanks

ASSUME WorkerAssumption ==
  /\ Rows \in Nat /\ MaxText \in Nat /\ Bad \subseteq Ids
  /\ MaxAttempts \in Nat \ {0} /\ BatchMax \in Nat \ {0}
  /\ MaxFaults \in Nat

VARIABLES
  rows,      \* Ids -> as committed, its last edit, the last one that left a
             \* text, and the vector; edit 0 is no row
  handlers,  \* requests that have committed <<row, text>> and not enqueued it yet
  sweep,     \* what enqueueMissing has read, while it awaits no more, or {}
  enabled,   \* embedBatch # null
  queue, pending, inFlight,  \* as in the code; pending is the keys of the map
  phase,     \* where process() is
  batch,     \* the jobs it has taken
  writes,    \* setBodyVec statements sent; awaited ones hold process() up
  lost,      \* history: rows whose latest text was dropped, or overtaken
  gaveUp,    \* history: rows given up since they were last queued
  faults     \* how many of what MaxFaults bounds have happened

vars == <<rows, handlers, sweep, enabled, queue, pending, inFlight, phase,
          batch, writes, lost, gaveUp, faults>>
memory == <<queue, pending, inFlight, phase, batch>>

Job == [id: Ids, text: Texts, attempts: 0 .. MaxAttempts - 1, solo: BOOLEAN]

\* off: not running; scheduled: setImmediate(tick) is; ending: process() has
\* returned, finally() has not run; loop: at the head of the while.
Phases == {"off", "scheduled", "ending", "loop", "call", "write", "backoff"}

Init ==
  /\ rows = [i \in Ids |-> [edit |-> 0, text |-> 0, vec |-> 0]]
  /\ handlers = {} /\ sweep = {} /\ enabled = TRUE
  /\ queue = <<>> /\ pending = {} /\ inFlight = {}
  /\ phase = "off" /\ batch = <<>> /\ writes = {}
  /\ lost = {} /\ gaveUp = {}
  /\ faults = 0

IdsOf(jobs) == {jobs[n].id : n \in 1 .. Len(jobs)}

NewJob(i, text) == [id |-> i, text |-> text, attempts |-> 0, solo |-> FALSE]

\* A set of numbers as a sequence, in their order (the one of a singleton).
InOrder(numbers) ==
  {k \in [1 .. Cardinality(numbers) -> numbers] :
     /\ \A m, n \in DOMAIN k : m < n => k[m] < k[n]
     /\ \A i \in numbers : \E n \in DOMAIN k : k[n] = i}

\* What the row says, and whether a handler has the last text it said.
Says(i) == IF rows[i].text = rows[i].edit THEN rows[i].text ELSE Blank
Carried(i) == rows[i].text # Blank /\ <<i, rows[i].text>> \in handlers

OneMoreFault == faults < MaxFaults /\ faults' = faults + 1

-----------------------------------------------------------------------------
(* Feeding the queue.                                                      *)

\* Fault: a waiting job keeps the text it has.
AddedOnce(jobs, i, text) ==
  IF text = Blank \/ i \in IdsOf(jobs) THEN jobs ELSE Append(jobs, NewJob(i, text))

\* add(): a blank text is dropped, also where an older one waits; a job that
\* waits gets the text, else there is a new job.
Added(jobs, i, text) ==
  IF text = Blank THEN jobs
  ELSE IF i \in pending
  THEN [n \in 1 .. Len(jobs) |-> IF jobs[n].id = i THEN [jobs[n] EXCEPT !.text = text]
                                 ELSE jobs[n]]
  ELSE Append(jobs, NewJob(i, text))

\* tick() does nothing while process() runs.
Ticked(jobs) == IF phase \in {"off", "scheduled"} /\ jobs # <<>> THEN "loop" ELSE phase

\* A statement of write() or update() commits, and leaves a text or blanks.
Commit(i) ==
  /\ rows[i].edit < MaxText
  /\ LET n == rows[i].edit + 1
     IN  \E text \in {n, rows[i].text} :
           rows' = [rows EXCEPT ![i] = [edit |-> n, text |-> text, vec |-> @.vec]]
  /\ handlers' = handlers \cup {<<i, Says(i)'>>}
  /\ UNCHANGED <<sweep, enabled, memory, writes, lost, gaveUp, faults>>

\* Its handler goes on.  It may have been overtaken by a later one.
Enqueue(i, text) ==
  /\ <<i, text>> \in handlers
  /\ handlers' = handlers \ {<<i, text>>}
  /\ LET latest == text = rows[i].text
         overtaken == ~latest /\ ~Carried(i)
     IN  \/ /\ enabled /\ text # Blank
            /\ queue' = Added(queue, i, text)
            /\ pending' = pending \cup {i}
            /\ lost' = IF latest THEN lost \ {i} ELSE IF overtaken THEN lost \cup {i} ELSE lost
            /\ gaveUp' = gaveUp \ {i}
         \/ /\ enabled /\ text = Blank
            /\ queue' = Added(queue, i, text)
            /\ UNCHANGED <<pending, lost, gaveUp>>
         \/ /\ ~enabled
            /\ lost' = IF text = Blank THEN lost ELSE lost \cup {i}
            /\ UNCHANGED <<queue, pending, gaveUp>>
  /\ phase' = Ticked(queue')
  /\ UNCHANGED <<rows, sweep, enabled, inFlight, batch, writes, faults>>

\* Fault: only rows that were never queued are looked for.
SweptNew(i) == rows[i].edit = 1 /\ rows[i].vec = 0

\* The rows enqueueMissing selects, the blank ones with them.
Swept(i) == rows[i].edit > 0 /\ rows[i].vec = 0

\* enqueueMissing, up to the answer of its SELECT ...
SweepRead ==
  /\ enabled /\ sweep = {}
  /\ sweep' = {<<i, Says(i)>> : i \in {j \in Ids : Swept(j)}}
  /\ UNCHANGED <<rows, handlers, enabled, memory, writes, lost, gaveUp, faults>>

\* ... and after it, when rows may have been edited, and embedded.  What was
\* blank is dropped by add().
SweepAdd ==
  LET fresh == {s \in sweep : s[1] \notin pending \cup inFlight /\ s[2] # Blank}
      new == {s[1] : s \in fresh}
      TextOf(i) == (CHOOSE s \in fresh : s[1] = i)[2]
      stale == {i \in new : TextOf(i) # rows[i].text /\ ~Carried(i)}
  IN  /\ sweep # {} /\ sweep' = {}
      /\ IF enabled
         THEN /\ \E k \in InOrder(new) :
                   queue' = queue \o [n \in DOMAIN k |-> NewJob(k[n], TextOf(k[n]))]
              /\ pending' = pending \cup new
              /\ lost' = (lost \ new) \cup stale
              /\ gaveUp' = gaveUp \ new
         ELSE UNCHANGED <<queue, pending, lost, gaveUp>>
      /\ phase' = Ticked(queue')
      /\ UNCHANGED <<rows, handlers, enabled, inFlight, batch, writes, faults>>

-----------------------------------------------------------------------------
(* process().                                                              *)

\* Whether takeBatch may take the first n jobs: a job that goes alone is the
\* only one, and the cap on characters may end a batch anywhere.
MayTake(n) ==
  /\ n \in 1 .. BatchMax /\ n <= Len(queue)
  /\ n > 1 => \A m \in 1 .. n : ~queue[m].solo

\* takeBatch, and the call of the provider.  (The code gets here from tick()
\* without a pause; what a handler could do in between, it could do before.)
TakeBatch(n) ==
  /\ phase = "loop" /\ enabled
  /\ MayTake(n)
  /\ batch' = SubSeq(queue, 1, n)
  /\ queue' = SubSeq(queue, n + 1, Len(queue))
  /\ pending' = pending \ IdsOf(batch')
  /\ inFlight' = inFlight \cup IdsOf(batch')
  /\ phase' = "call"
  /\ UNCHANGED <<rows, handlers, sweep, enabled, writes, lost, gaveUp, faults>>

\* The queue is empty, or the worker was disabled: process() returns ...
Return ==
  /\ phase = "loop" /\ (queue = <<>> \/ ~enabled)
  /\ phase' = "ending"
  /\ UNCHANGED <<rows, handlers, sweep, enabled, queue, pending, inFlight, batch,
                 writes, lost, gaveUp, faults>>

\* ... and finally() looks at the queue once more.
Finally ==
  /\ phase = "ending"
  /\ phase' = IF queue # <<>> THEN "scheduled" ELSE "off"
  /\ UNCHANGED <<rows, handlers, sweep, enabled, queue, pending, inFlight, batch,
                 writes, lost, gaveUp, faults>>

\* setImmediate(tick)
Immediate ==
  /\ phase = "scheduled"
  /\ phase' = IF queue # <<>> THEN "loop" ELSE "off"
  /\ UNCHANGED <<rows, handlers, sweep, enabled, queue, pending, inFlight, batch,
                 writes, lost, gaveUp, faults>>

\* The provider answers: one setBodyVec for each job, all sent at once.
EmbedOk ==
  /\ phase = "call" /\ IdsOf(batch) \cap Bad = {}
  /\ writes' = writes \cup {[id |-> batch[n].id, text |-> batch[n].text, awaited |-> TRUE] :
                              n \in 1 .. Len(batch)}
  /\ phase' = "write"
  /\ UNCHANGED <<rows, handlers, sweep, enabled, queue, pending, inFlight, batch,
                 lost, gaveUp, faults>>

\* Fault: a job goes back to the queue next to the one that waits there.
RequeuedTwice(failed) == failed

\* Of the failed jobs, those that go back: not where a newer one waits.
Requeued(failed) == {n \in failed : batch[n].id \notin pending}

MayRetry(j) == j.attempts + 1 < MaxAttempts
Again(j) == [id |-> j.id, text |-> j.text, attempts |-> j.attempts + 1, solo |-> TRUE]

\* The catch block.
Retried ==
  LET left == {n \in 1 .. Len(batch) : MayRetry(batch[n])}
      over == {batch[n].id : n \in (1 .. Len(batch)) \ left} \ pending
  IN  /\ inFlight' = inFlight \ IdsOf(batch)
      /\ \E k \in InOrder(Requeued(left)) :
            queue' = queue \o [n \in DOMAIN k |-> Again(batch[k[n]])]
      /\ pending' = pending \cup {batch[n].id : n \in left}
      /\ batch' = <<>>
      /\ phase' = IF left # {} THEN "backoff" ELSE "loop"
      /\ lost' = lost \cup over
      /\ gaveUp' = gaveUp \cup over

EmbedFails ==
  /\ phase = "call"
  /\ \/ IdsOf(batch) \cap Bad # {} /\ UNCHANGED faults
     \/ IdsOf(batch) \cap Bad = {} /\ OneMoreFault
  /\ Retried
  /\ UNCHANGED <<rows, handlers, sweep, enabled, writes>>

\* A setBodyVec returns; the last one that is awaited ends the batch.
WriteLands(w) ==
  /\ w \in writes
  /\ writes' = writes \ {w}
  /\ rows' = [rows EXCEPT ![w.id].vec = w.text]
  /\ lost' = IF w.awaited \/ w.text = rows[w.id].text THEN lost ELSE lost \cup {w.id}
  /\ IF w.awaited /\ \A v \in writes' : ~v.awaited
     THEN /\ inFlight' = inFlight \ IdsOf(batch)
          /\ batch' = <<>> /\ phase' = "loop"
     ELSE UNCHANGED <<inFlight, batch, phase>>
  /\ UNCHANGED <<handlers, sweep, enabled, queue, pending, gaveUp, faults>>

\* One of them fails: the others go on, but nobody awaits them any more.
WriteFails(w) ==
  /\ w \in writes /\ w.awaited
  /\ OneMoreFault
  /\ writes' = {[v EXCEPT !.awaited = FALSE] : v \in writes \ {w}}
  /\ Retried
  /\ UNCHANGED <<rows, handlers, sweep, enabled>>

BackoffEnds ==
  /\ phase = "backoff" /\ phase' = "loop"
  /\ UNCHANGED <<rows, handlers, sweep, enabled, queue, pending, inFlight, batch,
                 writes, lost, gaveUp, faults>>

-----------------------------------------------------------------------------

\* reloadConfig() after a change of the settings.
Reload ==
  /\ OneMoreFault
  /\ enabled' = ~enabled
  /\ UNCHANGED <<rows, handlers, sweep, memory, writes, lost, gaveUp>>

\* The daemon starts again: the queue was in memory.
Restart ==
  /\ OneMoreFault
  /\ handlers' = {} /\ sweep' = {} /\ writes' = {}
  /\ queue' = <<>> /\ pending' = {} /\ inFlight' = {} /\ batch' = <<>>
  /\ phase' = "off"
  /\ lost' = lost \cup pending \cup inFlight \cup {h[1] : h \in handlers}
  /\ UNCHANGED <<rows, enabled, gaveUp>>

Process ==
  \/ \E n \in 1 .. BatchMax : TakeBatch(n)
  \/ Return \/ Finally \/ Immediate
  \/ EmbedOk \/ EmbedFails \/ BackoffEnds
  \/ \E w \in writes : WriteLands(w)

Next ==
  \/ \E i \in Ids : Commit(i) \/ \E text \in Texts \cup {Blank} : Enqueue(i, text)
  \/ SweepRead \/ SweepAdd
  \/ Process
  \/ \E w \in writes : WriteFails(w)
  \/ Reload \/ Restart

Spec == Init /\ [][Next]_vars

\* The event loop runs what is ready, the provider and the database answer,
\* and the interval timer of the daemon sweeps again and again (cli.ts:142-143).
Fairness ==
  /\ WF_vars(Process)
  /\ \A i \in Ids, text \in Texts \cup {Blank} : WF_vars(Enqueue(i, text))
  /\ WF_vars(SweepRead) /\ WF_vars(SweepAdd)

FairSpec == Spec /\ Fairness

-----------------------------------------------------------------------------
(* Properties.                                                             *)

\* The map and the set say what the queue and the batch hold, and no row has
\* two jobs waiting: add(), takeBatch and the retries keep the three in step.
QueueIsIndexed ==
  /\ pending = IdsOf(queue)
  /\ \A m, n \in 1 .. Len(queue) : queue[m].id = queue[n].id => m = n
  /\ inFlight = IdsOf(batch)

\* The shape of the queue and of the rows, and of what indexes them.
WorkerTypeOK ==
  /\ rows \in [Ids -> [edit: 0 .. MaxText, text: 0 .. MaxText, vec: 0 .. MaxText]]
  /\ handlers \cup sweep \subseteq Ids \X (Texts \cup {Blank})
  /\ enabled \in BOOLEAN
  /\ queue \in Seq(Job) /\ batch \in Seq(Job)
  /\ QueueIsIndexed
  /\ phase \in Phases
  /\ writes \subseteq [id: Ids, text: Texts, awaited: BOOLEAN]
  /\ lost \subseteq Ids /\ gaveUp \subseteq Ids
  /\ faults \in 0 .. MaxFaults

\* process() is not running, nothing waits for it, and nobody is about to feed it.
Resting == phase = "off" /\ handlers = {} /\ sweep = {} /\ writes = {}

\* A worker at rest has left no job behind, and every row that has lost no text
\* to a restart, a giving up or an overtaking carries the vector of its latest
\* text: an edit during the call is embedded after it, also when it fails.  An
\* edit that leaves nothing but blanks is no text: the row keeps the vector of
\* the text before it (embedding.ts:244).
FreshAtRest ==
  Resting => queue = <<>> /\ \A i \in Ids \ lost : rows[i].vec = rows[i].text

\* A row that says something and has no vector gets one as long as it does and
\* the worker stays enabled, also through a restart, and next to a row the
\* provider refuses each time (embedding.ts:37, 69-70).  A blank row is read by
\* every sweep and never queued.
NullIsEmbedded ==
  \A i \in Ids \ Bad :
    Says(i) # Blank /\ rows[i].vec = 0 /\ enabled
      ~> rows[i].vec > 0 \/ Says(i) = Blank \/ ~enabled

\* A row that was given up is queued again (embedding.ts:284-286).
GivenUpIsSwept == \A i \in Ids : i \in gaveUp ~> i \notin gaveUp

=============================================================================
