------------------------ MODULE EmbeddingWorkerProofs ------------------------
(***************************************************************************)
(* Proofs about EmbeddingWorker: the queue and what indexes it stay in     *)
(* step, and a worker at rest has embedded the latest text of every row    *)
(* that has lost none, a text being what is not blank.                     *)
(*                                                                         *)
(* For the second, the latest text of such a row is always on its way: a   *)
(* handler has it, or the job that waits, or, when no job waits, the batch *)
(* or the statement that writes its vector, or the row itself.  A job that *)
(* waits comes after everything that is under way, and a handler or a job  *)
(* with another text would have made the row one that has lost a text.     *)
(***************************************************************************)
EXTENDS EmbeddingWorker, FiniteSetTheorems, SequenceTheorems, TLAPS

OneEach(jobs) == \A m, n \in 1 .. Len(jobs) : jobs[m].id = jobs[n].id => m = n

Has(jobs, i, text) == \E n \in 1 .. Len(jobs) : jobs[n].id = i /\ jobs[n].text = text

\* A batch exists while process() works on it, has one job for a row, and
\* what is awaited is a statement of it.
BatchOK ==
  /\ OneEach(batch)
  /\ phase \notin {"call", "write"} => batch = <<>>
  /\ \A w \in writes : w.awaited => phase = "write" /\ Has(batch, w.id, w.text)

SweepOK == \A s, t \in sweep : s[1] = t[1] => s = t

\* WorkerTypeOK in three parts.
Typed ==
  /\ rows \in [Ids -> [edit: 0 .. MaxText, text: 0 .. MaxText, vec: 0 .. MaxText]]
  /\ handlers \subseteq Ids \X (Texts \cup {Blank})
  /\ sweep \subseteq Ids \X (Texts \cup {Blank})
  /\ enabled \in BOOLEAN
  /\ phase \in Phases
  /\ writes \subseteq [id: Ids, text: Texts, awaited: BOOLEAN]
  /\ lost \subseteq Ids /\ gaveUp \subseteq Ids
  /\ faults \in 0 .. MaxFaults

Queued == queue \in Seq(Job) /\ OneEach(queue) /\ pending = IdsOf(queue)

Taken == batch \in Seq(Job) /\ inFlight = IdsOf(batch)

TypeInv ==
  /\ Typed /\ Queued /\ Taken /\ BatchOK /\ SweepOK
  /\ phase = "off" => queue = <<>>

\* The one awaited statement of a job of the batch.
Awaited(i) == \E w \in writes : w.awaited /\ w.id = i

OnItsWay(i) ==
  \/ Carried(i)
  \/ Has(queue, i, rows[i].text)
  \/ /\ i \notin pending
     /\ Has(batch, i, rows[i].text)
     /\ phase = "write" => rows[i].vec = rows[i].text \/ Awaited(i)
  \/ i \notin pending \cup inFlight /\ rows[i].vec = rows[i].text

WorkerInv == TypeInv /\ \A i \in Ids \ lost : OnItsWay(i)

-----------------------------------------------------------------------------
(* Sequences of jobs.                                                      *)

\* A function on 1 .. c is a sequence of length c.
LEMMA ArrayIsSeq ==
  ASSUME NEW S, NEW c \in Nat, NEW f \in [1 .. c -> S]
  PROVE  f \in Seq(S) /\ Len(f) = c /\ DOMAIN f = 1 .. c
  OBVIOUS

\* What IdsOf collects.
LEMMA IdsOfJobs ==
  ASSUME NEW jobs \in Seq(Job)
  PROVE  /\ IdsOf(jobs) \subseteq Ids
         /\ \A n \in 1 .. Len(jobs) : jobs[n] \in Job /\ jobs[n].id \in IdsOf(jobs)
         /\ \A i \in IdsOf(jobs) : \E n \in 1 .. Len(jobs) : jobs[n].id = i
         /\ IdsOf(jobs) = {} <=> jobs = <<>>
<1>1. \A n \in 1 .. Len(jobs) : jobs[n] \in Job
  OBVIOUS
<1>2. \A n \in 1 .. Len(jobs) : jobs[n].id \in Ids
  BY <1>1 DEF Job
<1>3. jobs = <<>> => IdsOf(jobs) = {}
  BY DEF IdsOf
<1>4. ASSUME jobs # <<>> PROVE IdsOf(jobs) # {}
  <2>1. Len(jobs) \in Nat /\ Len(jobs) # 0
    BY <1>4
  <2>2. 1 \in 1 .. Len(jobs)
    BY <2>1
  <2> QED
    BY <2>2 DEF IdsOf
<1> QED
  BY <1>1, <1>2, <1>3, <1>4 DEF IdsOf

\* A job that is appended, or a list of them: what the longer queue holds.
LEMMA JoinedJobs ==
  ASSUME NEW s \in Seq(Job), NEW t \in Seq(Job)
  PROVE  /\ s \o t \in Seq(Job)
         /\ IdsOf(s \o t) = IdsOf(s) \cup IdsOf(t)
         /\ \A i, x : Has(s, i, x) \/ Has(t, i, x) => Has(s \o t, i, x)
         /\ OneEach(s) /\ OneEach(t) /\ IdsOf(s) \cap IdsOf(t) = {} => OneEach(s \o t)
<1> DEFINE u == s \o t
<1>1. u \in Seq(Job) /\ Len(u) = Len(s) + Len(t) /\ Len(s) \in Nat /\ Len(t) \in Nat
  OBVIOUS
<1>2. \A n \in 1 .. Len(s) : n \in 1 .. Len(u) /\ u[n] = s[n]
  BY <1>1
<1>3. \A n \in 1 .. Len(t) : Len(s) + n \in 1 .. Len(u) /\ u[Len(s) + n] = t[n]
  BY <1>1
<1>4. \A n \in 1 .. Len(u) :
         \/ n \in 1 .. Len(s) /\ u[n] = s[n]
         \/ n - Len(s) \in 1 .. Len(t) /\ u[n] = t[n - Len(s)]
  BY <1>1
<1> HIDE DEF u
<1>5. IdsOf(u) = IdsOf(s) \cup IdsOf(t)
  <2>1. ASSUME NEW i \in IdsOf(u) PROVE i \in IdsOf(s) \cup IdsOf(t)
    BY <2>1, <1>4 DEF IdsOf
  <2>2. ASSUME NEW i \in IdsOf(s) PROVE i \in IdsOf(u)
    BY <2>2, <1>2 DEF IdsOf
  <2>3. ASSUME NEW i \in IdsOf(t) PROVE i \in IdsOf(u)
    BY <2>3, <1>3 DEF IdsOf
  <2> QED
    BY <2>1, <2>2, <2>3
<1>6. ASSUME NEW i, NEW x, Has(s, i, x) \/ Has(t, i, x) PROVE Has(u, i, x)
  <2>1. CASE Has(s, i, x)
    BY <2>1, <1>2 DEF Has
  <2>2. CASE Has(t, i, x)
    BY <2>2, <1>3 DEF Has
  <2> QED
    BY <1>6, <2>1, <2>2
<1>7. ASSUME OneEach(s), OneEach(t), IdsOf(s) \cap IdsOf(t) = {} PROVE OneEach(u)
  <2>1. \A m \in 1 .. Len(s), n \in 1 .. Len(t) : s[m].id # t[n].id
    BY <1>7 DEF IdsOf
  <2>2. SUFFICES ASSUME NEW m \in 1 .. Len(u), NEW n \in 1 .. Len(u), u[m].id = u[n].id
                 PROVE  m = n
    BY DEF OneEach
  <2>3. CASE m \in 1 .. Len(s) /\ u[m] = s[m] /\ n \in 1 .. Len(s) /\ u[n] = s[n]
    BY <2>2, <2>3, <1>7 DEF OneEach
  <2>4. CASE /\ m - Len(s) \in 1 .. Len(t) /\ u[m] = t[m - Len(s)]
             /\ n - Len(s) \in 1 .. Len(t) /\ u[n] = t[n - Len(s)]
    <3>1. m - Len(s) = n - Len(s)
      BY <2>2, <2>4, <1>7 DEF OneEach
    <3> QED
      BY <3>1, <1>1
  <2> QED
    BY <2>1, <2>2, <2>3, <2>4, <1>4
<1> QED
  BY <1>1, <1>5, <1>6, <1>7 DEF u

\* The two parts of the queue that takeBatch makes.
LEMMA SplitJobs ==
  ASSUME NEW s \in Seq(Job), NEW c \in 0 .. Len(s), OneEach(s)
  PROVE  LET head == SubSeq(s, 1, c)
             tail == SubSeq(s, c + 1, Len(s))
         IN  /\ head \in Seq(Job) /\ tail \in Seq(Job)
             /\ OneEach(head) /\ OneEach(tail)
             /\ IdsOf(tail) = IdsOf(s) \ IdsOf(head)
             /\ IdsOf(head) \subseteq IdsOf(s)
             /\ \A i, x : Has(s, i, x) => Has(head, i, x) \/ Has(tail, i, x)
<1> DEFINE head == SubSeq(s, 1, c)
           tail == SubSeq(s, c + 1, Len(s))
<1>1. head \in Seq(Job) /\ Len(head) = c /\ \A n \in 1 .. c : head[n] = s[n]
  OBVIOUS
<1>2. /\ tail \in Seq(Job) /\ Len(tail) = Len(s) - c
      /\ \A n \in 1 .. Len(s) - c : tail[n] = s[c + n]
  OBVIOUS
<1>3. Len(s) \in Nat /\ c \in Nat /\ c <= Len(s)
  OBVIOUS
<1> HIDE DEF head, tail
<1>4. OneEach(head)
  BY <1>1, <1>3 DEF OneEach
<1>5. OneEach(tail)
  <2>1. SUFFICES ASSUME NEW m \in 1 .. Len(tail), NEW n \in 1 .. Len(tail), tail[m].id = tail[n].id
                 PROVE  m = n
    BY DEF OneEach
  <2>2. c + m \in 1 .. Len(s) /\ c + n \in 1 .. Len(s)
    <3>1. m \in 1 .. Len(s) - c /\ n \in 1 .. Len(s) - c
      BY <2>1, <1>2
    <3> QED
      BY <3>1, <1>3
  <2>3. c + m = c + n
    BY <2>1, <2>2, <1>2 DEF OneEach
  <2> QED
    BY <2>3, <1>3
<1>6. \A n \in 1 .. Len(s) :
         \/ n \in 1 .. c /\ s[n] = head[n]
         \/ n - c \in 1 .. Len(tail) /\ s[n] = tail[n - c]
  <2>1. SUFFICES ASSUME NEW n \in 1 .. Len(s), n \notin 1 .. c
                 PROVE  n - c \in 1 .. Len(tail) /\ s[n] = tail[n - c]
    BY <1>1
  <2>2. n - c \in 1 .. Len(s) - c /\ c + (n - c) = n
    BY <2>1, <1>3
  <2> QED
    BY <2>2, <1>2
<1>7. ASSUME NEW i, NEW x, Has(s, i, x) PROVE Has(head, i, x) \/ Has(tail, i, x)
  BY <1>7, <1>6, <1>1 DEF Has
<1>8. IdsOf(head) \subseteq IdsOf(s)
  BY <1>1, <1>3 DEF IdsOf
<1>9. ASSUME NEW i \in IdsOf(tail) PROVE i \in IdsOf(s) \ IdsOf(head)
  <2>1. PICK n \in 1 .. Len(tail) : tail[n].id = i
    BY <1>9 DEF IdsOf
  <2>2. c + n \in 1 .. Len(s) /\ s[c + n].id = i
    BY <2>1, <1>2, <1>3
  <2>3. ASSUME NEW m \in 1 .. Len(head), head[m].id = i PROVE FALSE
    <3>1. m \in 1 .. Len(s) /\ s[m].id = i
      BY <2>3, <1>1, <1>3
    <3>2. m = c + n
      BY <3>1, <2>2 DEF OneEach
    <3> QED
      BY <3>2, <1>1, <1>3
  <2> QED
    BY <2>2, <2>3 DEF IdsOf
<1>10. ASSUME NEW i \in IdsOf(s) \ IdsOf(head) PROVE i \in IdsOf(tail)
  BY <1>10, <1>1, <1>6 DEF IdsOf
<1>11. IdsOf(tail) = IdsOf(s) \ IdsOf(head)
  BY <1>9, <1>10
<1> QED
  BY <1>1, <1>2, <1>4, <1>5, <1>7, <1>8, <1>11 DEF head, tail

Enumerates(k, c, numbers) ==
  /\ c \in Nat /\ k \in [1 .. c -> numbers]
  /\ \A m, n \in 1 .. c : k[m] = k[n] => m = n
  /\ \A i \in numbers : \E n \in 1 .. c : k[n] = i

\* Rows or positions in their order: each of them once.
LEMMA Ordered ==
  ASSUME NEW N \in Nat, NEW numbers \in SUBSET (1 .. N), NEW k \in InOrder(numbers)
  PROVE  Enumerates(k, Cardinality(numbers), numbers)
<1>1. IsFiniteSet(numbers)
  <2>1. IsFiniteSet(1 .. N)
    BY FS_Interval
  <2> QED
    BY <2>1, FS_Subset
<1>2. Cardinality(numbers) \in Nat
  BY <1>1, FS_CardinalityType
<1>3. /\ k \in [1 .. Cardinality(numbers) -> numbers]
      /\ \A m, n \in 1 .. Cardinality(numbers) : m < n => k[m] < k[n]
      /\ \A i \in numbers : \E n \in 1 .. Cardinality(numbers) : k[n] = i
  BY DEF InOrder
<1>4. ASSUME NEW m \in 1 .. Cardinality(numbers), NEW n \in 1 .. Cardinality(numbers), k[m] = k[n]
      PROVE  m = n
  <2>1. k[m] \in Nat /\ k[n] \in Nat
    <3>1. k[m] \in numbers /\ k[n] \in numbers
      BY <1>3
    <3>2. \A i \in numbers : i \in Nat
      OBVIOUS
    <3> QED
      BY <3>1, <3>2
  <2>2. ~(k[m] < k[n]) /\ ~(k[n] < k[m])
    BY <2>1, <1>4
  <2>3. ~(m < n) /\ ~(n < m)
    BY <2>2, <1>3
  <2> QED
    BY <2>3, <1>2
<1> QED
  BY <1>2, <1>3, <1>4 DEF Enumerates

\* add(): the row's job has the text, the other jobs stay as they are.
LEMMA AddedJobs ==
  ASSUME TypeInv, NEW i \in Ids, NEW text \in Texts
  PROVE  /\ Added(queue, i, text) \in Seq(Job)
         /\ OneEach(Added(queue, i, text))
         /\ IdsOf(Added(queue, i, text)) = pending \cup {i}
         /\ Has(Added(queue, i, text), i, text)
         /\ \A j, x : j # i /\ Has(queue, j, x) => Has(Added(queue, i, text), j, x)
<1> DEFINE new == Added(queue, i, text)
<1>1. queue \in Seq(Job) /\ pending = IdsOf(queue) /\ OneEach(queue) /\ Len(queue) \in Nat
  BY DEF TypeInv, Queued
<1> text # Blank
  BY DEF Texts, Blank
<1>2. CASE i \in pending
  <2>1. new = [n \in 1 .. Len(queue) |-> IF queue[n].id = i THEN [queue[n] EXCEPT !.text = text]
                                         ELSE queue[n]]
    BY <1>2 DEF Added
  <2>2. \A n \in 1 .. Len(queue) : queue[n] \in Job
    BY <1>1
  <2>3. \A n \in 1 .. Len(queue) :
           /\ new[n] \in Job /\ new[n].id = queue[n].id
           /\ queue[n].id = i => new[n].text = text
           /\ queue[n].id # i => new[n] = queue[n]
    BY <2>1, <2>2 DEF Job
  <2>4. new \in [1 .. Len(queue) -> Job]
    BY <2>1, <2>3
  <2>5. new \in Seq(Job) /\ Len(new) = Len(queue)
    BY <2>4, <1>1, ArrayIsSeq
  <2> HIDE DEF new
  <2>6. OneEach(new)
    BY <2>3, <2>5, <1>1 DEF OneEach
  <2>7. IdsOf(new) = IdsOf(queue)
    BY <2>3, <2>5 DEF IdsOf
  <2>8. Has(new, i, text)
    <3>1. PICK n \in 1 .. Len(queue) : queue[n].id = i
      BY <1>2, <1>1 DEF IdsOf
    <3> QED
      BY <3>1, <2>3, <2>5 DEF Has
  <2>9. ASSUME NEW j, NEW x, j # i, Has(queue, j, x) PROVE Has(new, j, x)
    BY <2>9, <2>3, <2>5 DEF Has
  <2> QED
    BY <2>5, <2>6, <2>7, <2>8, <2>9, <1>1, <1>2 DEF new
<1>3. CASE i \notin pending
  <2> DEFINE one == <<NewJob(i, text)>>
  <2>1. NewJob(i, text) \in Job /\ NewJob(i, text).id = i /\ NewJob(i, text).text = text
    BY WorkerAssumption DEF NewJob, Job
  <2>2. new = queue \o one
    BY <1>1, <1>3, <2>1 DEF Added
  <2>3. one \in Seq(Job) /\ Len(one) = 1 /\ one[1] = NewJob(i, text)
    BY <2>1
  <2> HIDE DEF one, new
  <2>4. IdsOf(one) = {i} /\ OneEach(one) /\ Has(one, i, text)
    BY <2>1, <2>3 DEF IdsOf, OneEach, Has
  <2>5. IdsOf(queue) \cap IdsOf(one) = {}
    BY <2>4, <1>1, <1>3
  <2>6. /\ new \in Seq(Job)
        /\ IdsOf(new) = IdsOf(queue) \cup IdsOf(one)
        /\ OneEach(new)
        /\ \A j, x : Has(queue, j, x) \/ Has(one, j, x) => Has(new, j, x)
    BY <2>2, <2>3, <2>4, <2>5, <1>1, JoinedJobs
  <2> QED
    BY <2>6, <2>4, <1>1 DEF new
<1> QED
  BY <1>2, <1>3

LEMMA OrderedRows ==
  ASSUME NEW numbers \in SUBSET Ids, NEW k \in InOrder(numbers)
  PROVE  Enumerates(k, Cardinality(numbers), numbers)
<1>1. Rows \in Nat /\ Ids = 1 .. Rows
  BY WorkerAssumption DEF Ids
<1> QED
  BY <1>1, Ordered

\* What the sweep adds: a job with the text it has read for each row that is
\* neither waiting nor under way.
LEMMA SweptJobs ==
  ASSUME NEW new \in SUBSET Ids, NEW text, NEW k \in InOrder(new), NEW added,
         \A i \in new : text[i] \in Texts,
         added = [n \in DOMAIN k |-> NewJob(k[n], text[k[n]])]
  PROVE  /\ added \in Seq(Job) /\ OneEach(added) /\ IdsOf(added) = new
         /\ \A i \in new : Has(added, i, text[i])
<1> DEFINE c == Cardinality(new)
<1> HIDE DEF c
<1>1. /\ c \in Nat /\ k \in [1 .. c -> new]
      /\ \A m, n \in 1 .. c : k[m] = k[n] => m = n
      /\ \A i \in new : \E n \in 1 .. c : k[n] = i
  <2>1. Enumerates(k, c, new)
    BY OrderedRows DEF c
  <2> QED
    BY <2>1 DEF Enumerates
<1>2. \A n \in 1 .. c : /\ added[n] \in Job /\ added[n].id = k[n] /\ added[n].text = text[k[n]]
  BY <1>1, WorkerAssumption DEF NewJob, Job
<1>3. added \in [1 .. c -> Job]
  BY <1>1, <1>2
<1>4. added \in Seq(Job) /\ Len(added) = c
  BY <1>3, <1>1, ArrayIsSeq
<1>5. OneEach(added)
  BY <1>4, <1>2, <1>1 DEF OneEach
<1>6. IdsOf(added) = new
  <2>1. ASSUME NEW i \in IdsOf(added) PROVE i \in new
    BY <2>1, <1>4, <1>2, <1>1 DEF IdsOf
  <2>2. ASSUME NEW i \in new PROVE i \in IdsOf(added)
    <3>1. PICK n \in 1 .. c : k[n] = i
      BY <1>1
    <3>2. n \in 1 .. Len(added) /\ added[n].id = i
      BY <3>1, <1>4, <1>2
    <3> QED
      BY <3>2 DEF IdsOf
  <2> QED
    BY <2>1, <2>2
<1>7. ASSUME NEW i \in new PROVE Has(added, i, text[i])
  <2>1. PICK n \in 1 .. c : k[n] = i
    BY <1>1, <1>7
  <2>2. n \in 1 .. Len(added) /\ added[n].id = i /\ added[n].text = text[i]
    BY <2>1, <1>4, <1>2
  <2> QED
    BY <2>2 DEF Has
<1> QED
  BY <1>4, <1>5, <1>6, <1>7

\* The next attempt of a job is a job for the same text.
LEMMA RetriedJob ==
  ASSUME NEW j \in Job, MayRetry(j)
  PROVE  Again(j) \in Job /\ Again(j).id = j.id /\ Again(j).text = j.text
<1>1. j.attempts + 1 \in 0 .. MaxAttempts - 1
  BY WorkerAssumption DEF MayRetry, Job
<1> QED
  BY <1>1 DEF Again, Job

\* What goes back to the queue after a failure: the jobs of the batch that may
\* be tried again and for which no newer job waits.
LEMMA RequeuedJobs ==
  ASSUME NEW left \in SUBSET (1 .. Len(batch)), NEW k \in InOrder(left), NEW again,
         batch \in Seq(Job), OneEach(batch), \A n \in left : MayRetry(batch[n]),
         again = [n \in DOMAIN k |-> Again(batch[k[n]])]
  PROVE  /\ again \in Seq(Job) /\ OneEach(again)
         /\ IdsOf(again) = {batch[n].id : n \in left}
         /\ \A n \in left : Has(again, batch[n].id, batch[n].text)
<1> DEFINE c == Cardinality(left)
<1> HIDE DEF c
<1>1. /\ c \in Nat /\ k \in [1 .. c -> left]
      /\ \A m, n \in 1 .. c : k[m] = k[n] => m = n
      /\ \A i \in left : \E n \in 1 .. c : k[n] = i
  <2>1. Len(batch) \in Nat
    OBVIOUS
  <2>2. Enumerates(k, c, left)
    BY Ordered, <2>1 DEF c
  <2> QED
    BY <2>2 DEF Enumerates
<1>2. \A n \in left : n \in 1 .. Len(batch) /\ batch[n] \in Job
  OBVIOUS
<1>3. \A n \in left :
         /\ Again(batch[n]) \in Job
         /\ Again(batch[n]).id = batch[n].id /\ Again(batch[n]).text = batch[n].text
  BY <1>2, RetriedJob
<1>4. \A n \in 1 .. c : /\ again[n] \in Job /\ again[n].id = batch[k[n]].id
                        /\ again[n].text = batch[k[n]].text
  BY <1>1, <1>3
<1>5. again \in Seq(Job) /\ Len(again) = c
  <2>1. again \in [1 .. c -> Job]
    BY <1>1, <1>4
  <2> QED
    BY <2>1, <1>1, ArrayIsSeq
<1>6. OneEach(again)
  <2>1. SUFFICES ASSUME NEW m \in 1 .. c, NEW n \in 1 .. c, again[m].id = again[n].id
                 PROVE  m = n
    BY <1>5 DEF OneEach
  <2>2. k[m] \in 1 .. Len(batch) /\ k[n] \in 1 .. Len(batch) /\ batch[k[m]].id = batch[k[n]].id
    BY <2>1, <1>4, <1>1, <1>2
  <2>3. k[m] = k[n]
    BY <2>2 DEF OneEach
  <2> QED
    BY <2>3, <1>1
<1>7. IdsOf(again) = {batch[n].id : n \in left}
  <2>1. ASSUME NEW i \in IdsOf(again) PROVE i \in {batch[n].id : n \in left}
    <3>1. PICK n \in 1 .. Len(again) : again[n].id = i
      BY <2>1 DEF IdsOf
    <3>2. k[n] \in left /\ batch[k[n]].id = i
      BY <3>1, <1>5, <1>4, <1>1
    <3> QED
      BY <3>2
  <2>2. ASSUME NEW n \in left PROVE batch[n].id \in IdsOf(again)
    BY <2>2, <1>5, <1>4, <1>1 DEF IdsOf
  <2> QED
    BY <2>1, <2>2
<1>8. ASSUME NEW n \in left PROVE Has(again, batch[n].id, batch[n].text)
  BY <1>8, <1>5, <1>4, <1>1 DEF Has
<1> QED
  BY <1>5, <1>6, <1>7, <1>8

-----------------------------------------------------------------------------
(* The queue and what indexes it stay in step, action by action.           *)

LEMMA InitialType == Init => TypeInv
<1> SUFFICES ASSUME Init PROVE TypeInv
  OBVIOUS
<1>1. <<>> \in Seq(Job) /\ OneEach(<<>>) /\ IdsOf(<<>>) = {}
  BY DEF OneEach, IdsOf
<1>2. Typed
  BY WorkerAssumption DEF Init, Typed, Phases
<1> QED
  BY <1>1, <1>2 DEF Init, TypeInv, Queued, Taken, BatchOK, SweepOK

\* What a commit does.
LEMMA Committed ==
  ASSUME TypeInv, NEW i \in Ids, Commit(i)
  PROVE  /\ rows' \in [Ids -> [edit: 0 .. MaxText, text: 0 .. MaxText, vec: 0 .. MaxText]]
         /\ \A j \in Ids : j # i => rows'[j] = rows[j]
         /\ rows'[i].vec = rows[i].vec /\ rows'[i].edit = rows[i].edit + 1
         /\ rows'[i].text = rows[i].text \/ rows'[i].text = rows'[i].edit
         /\ Says(i)' \in Texts \cup {Blank}
         /\ handlers' = handlers \cup {<<i, Says(i)'>>}
         /\ UNCHANGED <<sweep, enabled, memory, writes, lost, gaveUp, faults>>
<1> DEFINE n == rows[i].edit + 1
<1>1. /\ rows[i].edit \in 0 .. MaxText /\ rows[i].edit < MaxText /\ MaxText \in Nat
      /\ rows[i].text \in 0 .. MaxText /\ rows[i].vec \in 0 .. MaxText
      /\ rows \in [Ids -> [edit: 0 .. MaxText, text: 0 .. MaxText, vec: 0 .. MaxText]]
  BY WorkerAssumption DEF TypeInv, Typed, Commit
<1>2. n \in 0 .. MaxText /\ n \in Texts
  BY <1>1 DEF Texts
<1> HIDE DEF n
<1>3. PICK text \in {n, rows[i].text} :
         rows' = [rows EXCEPT ![i] = [edit |-> n, text |-> text, vec |-> @.vec]]
  BY DEF Commit, n
<1>4. rows' \in [Ids -> [edit: 0 .. MaxText, text: 0 .. MaxText, vec: 0 .. MaxText]]
  BY <1>1, <1>2, <1>3
<1>5. rows'[i] = [edit |-> n, text |-> text, vec |-> rows[i].vec]
  BY <1>1, <1>3
<1>6. Says(i)' \in Texts \cup {Blank}
  BY <1>2, <1>5 DEF Says
<1>7. \A j \in Ids : j # i => rows'[j] = rows[j]
  BY <1>1, <1>3
<1>8. /\ rows'[i].vec = rows[i].vec /\ rows'[i].edit = n
      /\ rows'[i].text = rows[i].text \/ rows'[i].text = rows'[i].edit
  BY <1>3, <1>5
<1> QED
  BY <1>4, <1>6, <1>7, <1>8 DEF Commit, n

LEMMA CommitKeepsType ==
  ASSUME TypeInv, NEW i \in Ids, Commit(i)
  PROVE  TypeInv'
<1>1. /\ rows' \in [Ids -> [edit: 0 .. MaxText, text: 0 .. MaxText, vec: 0 .. MaxText]]
      /\ Says(i)' \in Texts \cup {Blank} /\ handlers' = handlers \cup {<<i, Says(i)'>>}
      /\ UNCHANGED <<sweep, enabled, memory, writes, lost, gaveUp, faults>>
  BY Committed
<1>2. handlers' \subseteq Ids \X (Texts \cup {Blank})
  BY <1>1 DEF TypeInv, Typed
<1>3. Typed'
  BY <1>1, <1>2 DEF TypeInv, Typed, memory
<1> QED
  BY <1>1, <1>3 DEF TypeInv, memory, Queued, Taken, BatchOK, SweepOK

\* A tick changes nothing but whether process() runs.
LEMMA TickedPhase ==
  ASSUME TypeInv, phase' = Ticked(queue'), UNCHANGED <<batch, writes>>
  PROVE  /\ phase' \in Phases /\ BatchOK'
         /\ phase' = "off" => queue' = <<>>
         /\ phase' = "write" <=> phase = "write"
<1>1. /\ phase' \in Phases
      /\ phase' # phase => phase \in {"off", "scheduled"} /\ phase' = "loop"
      /\ phase' = "off" => queue' = <<>>
  BY DEF Ticked, Phases, TypeInv, Typed
<1>2. BatchOK'
  BY <1>1 DEF TypeInv, BatchOK, OneEach, Has
<1> QED
  BY <1>1, <1>2

LEMMA EnqueueKeepsType ==
  ASSUME TypeInv, NEW i \in Ids, NEW text \in Texts \cup {Blank}, Enqueue(i, text)
  PROVE  TypeInv'
<1>1. /\ handlers' \subseteq handlers /\ phase' = Ticked(queue')
      /\ UNCHANGED <<rows, sweep, enabled, inFlight, batch, writes, faults>>
  BY DEF Enqueue
<1>2. phase' \in Phases /\ BatchOK' /\ (phase' = "off" => queue' = <<>>)
  BY <1>1, TickedPhase
<1>3. Queued' /\ lost' \subseteq Ids /\ gaveUp' \subseteq Ids
  <2>1. CASE enabled /\ text # Blank
    <3>1. text \in Texts /\ queue' = Added(queue, i, text) /\ pending' = pending \cup {i}
      BY <2>1 DEF Enqueue
    <3>2. Queued'
      BY <3>1, AddedJobs DEF Queued
    <3> QED
      BY <2>1, <3>2 DEF Enqueue, TypeInv, Typed
  <2>2. CASE ~(enabled /\ text # Blank)
    <3>1. UNCHANGED <<queue, pending, gaveUp>> /\ lost' \subseteq lost \cup {i}
      BY <2>2 DEF Enqueue, Added
    <3> QED
      BY <3>1 DEF TypeInv, Typed, Queued
  <2> QED
    BY <2>1, <2>2
<1>4. Typed'
  BY <1>1, <1>2, <1>3 DEF TypeInv, Typed
<1> QED
  BY <1>1, <1>2, <1>3, <1>4 DEF TypeInv, Taken, SweepOK

LEMMA SweepReadKeepsType ==
  ASSUME TypeInv, SweepRead
  PROVE  TypeInv'
<1>1. ASSUME NEW i \in Ids PROVE Says(i) \in Texts \cup {Blank}
  BY WorkerAssumption DEF TypeInv, Typed, Says, Texts, Blank
<1>2. sweep' \subseteq Ids \X (Texts \cup {Blank})
  BY <1>1 DEF SweepRead
<1>3. SweepOK'
  BY DEF SweepRead, SweepOK
<1> QED
  BY <1>2, <1>3 DEF TypeInv, Typed, SweepRead, memory, Queued, Taken, BatchOK

\* What SweepAdd does while the worker is enabled.
LEMMA SweepAdds ==
  ASSUME TypeInv, SweepAdd, enabled
  PROVE  \E new \in SUBSET Ids, text \in [Ids -> Texts \cup {0}] :
           /\ new \cap (pending \cup inFlight) = {}
           /\ Queued'
           /\ pending' = pending \cup new
           /\ \A j, x : Has(queue, j, x) => Has(queue', j, x)
           /\ \A i \in new : Has(queue', i, text[i])
           /\ phase' = Ticked(queue')
           /\ lost' = (lost \ new) \cup
                {i \in new : text[i] # rows[i].text /\ ~Carried(i)}
           /\ gaveUp' = gaveUp \ new
<1> DEFINE fresh == {s \in sweep : s[1] \notin pending \cup inFlight /\ s[2] # Blank}
           new == {s[1] : s \in fresh}
           TextOf(i) == (CHOOSE s \in fresh : s[1] = i)[2]
           text == [i \in Ids |-> IF i \in new THEN TextOf(i) ELSE 0]
<1>1. fresh \subseteq Ids \X Texts
  BY DEF TypeInv, Typed
<1>2. new \in SUBSET Ids /\ new \cap (pending \cup inFlight) = {}
  BY <1>1
<1>3. ASSUME NEW i \in new PROVE TextOf(i) \in Texts
  <2>1. \E s \in fresh : s[1] = i
    OBVIOUS
  <2>2. (CHOOSE s \in fresh : s[1] = i) \in fresh
    BY <2>1
  <2> QED
    BY <2>2, <1>1
<1>4. PICK k \in InOrder(new) :
         queue' = queue \o [n \in DOMAIN k |-> NewJob(k[n], TextOf(k[n]))]
  BY DEF SweepAdd
<1>5. /\ pending' = pending \cup new
      /\ phase' = Ticked(queue')
      /\ lost' = (lost \ new) \cup
           {i \in new : TextOf(i) # rows[i].text /\ ~Carried(i)}
      /\ gaveUp' = gaveUp \ new
  BY DEF SweepAdd
<1> DEFINE added == [n \in DOMAIN k |-> NewJob(k[n], text[k[n]])]
<1>6. DOMAIN k = 1 .. Cardinality(new) /\ \A n \in DOMAIN k : k[n] \in new
  <2> HIDE DEF new
  <2>1. Enumerates(k, Cardinality(new), new)
    BY <1>2, OrderedRows
  <2> QED
    BY <2>1 DEF Enumerates
<1> HIDE DEF fresh, new, TextOf
<1>7. /\ text \in [Ids -> Texts \cup {0}]
      /\ \A i \in new : text[i] \in Texts /\ text[i] = TextOf(i)
  BY <1>2, <1>3
<1>8. queue' = queue \o added
  BY <1>4, <1>6, <1>7
<1>9. lost' = (lost \ new) \cup
        {i \in new : text[i] # rows[i].text /\ ~Carried(i)}
  BY <1>5, <1>7
<1> HIDE DEF text
<1>10. /\ added \in Seq(Job) /\ OneEach(added) /\ IdsOf(added) = new
       /\ \A i \in new : Has(added, i, text[i])
  BY <1>2, <1>7, SweptJobs
<1> HIDE DEF added
<1>11. /\ queue' \in Seq(Job) /\ OneEach(queue')
       /\ IdsOf(queue') = IdsOf(queue) \cup new
       /\ \A i, x : Has(queue, i, x) \/ Has(added, i, x) => Has(queue', i, x)
  <2>1. queue \in Seq(Job) /\ OneEach(queue) /\ IdsOf(queue) \cap IdsOf(added) = {}
    BY <1>2, <1>10 DEF TypeInv, Queued
  <2> QED
    BY <1>8, <1>10, <2>1, JoinedJobs
<1>12. Queued'
  BY <1>5, <1>11 DEF TypeInv, Queued
<1> QED
  BY <1>2, <1>5, <1>7, <1>9, <1>10, <1>11, <1>12

LEMMA SweepAddKeepsType ==
  ASSUME TypeInv, SweepAdd
  PROVE  TypeInv'
<1>1. /\ SweepOK' /\ sweep' = {} /\ phase' = Ticked(queue')
      /\ UNCHANGED <<rows, handlers, enabled, inFlight, batch, writes, faults>>
  BY DEF SweepAdd, SweepOK
<1>2. phase' \in Phases /\ BatchOK' /\ (phase' = "off" => queue' = <<>>)
  BY <1>1, TickedPhase
<1>3. Queued' /\ lost' \subseteq Ids /\ gaveUp' \subseteq Ids
  <2>1. CASE enabled
    BY <2>1, SweepAdds DEF TypeInv, Typed
  <2>2. CASE ~enabled
    <3>1. UNCHANGED <<queue, pending, lost, gaveUp>>
      BY <2>2 DEF SweepAdd
    <3> QED
      BY <3>1 DEF TypeInv, Typed, Queued
  <2> QED
    BY <2>1, <2>2
<1>4. Typed'
  BY <1>1, <1>2, <1>3 DEF TypeInv, Typed
<1> QED
  BY <1>1, <1>2, <1>3, <1>4 DEF TypeInv, Taken

\* What TakeBatch does.
LEMMA BatchTaken ==
  ASSUME TypeInv, NEW n, TakeBatch(n)
  PROVE  /\ Queued' /\ Taken' /\ OneEach(batch') /\ batch = <<>> /\ inFlight = {}
         /\ pending' \cup inFlight' \subseteq pending
         /\ \A j, x : Has(queue, j, x) =>
               Has(queue', j, x) \/ (Has(batch', j, x) /\ j \notin pending')
<1>1. n \in 1 .. Len(queue) /\ n \in 0 .. Len(queue)
  BY DEF TakeBatch, MayTake
<1>2. batch' = SubSeq(queue, 1, n) /\ queue' = SubSeq(queue, n + 1, Len(queue))
  BY DEF TakeBatch
<1>3. queue \in Seq(Job) /\ OneEach(queue) /\ pending = IdsOf(queue)
  BY DEF TypeInv, Queued
<1>4. /\ batch' \in Seq(Job) /\ queue' \in Seq(Job)
      /\ OneEach(batch') /\ OneEach(queue')
      /\ IdsOf(queue') = IdsOf(queue) \ IdsOf(batch') /\ IdsOf(batch') \subseteq IdsOf(queue)
      /\ \A i, x : Has(queue, i, x) => Has(batch', i, x) \/ Has(queue', i, x)
  BY <1>1, <1>2, <1>3, SplitJobs
<1>5. batch = <<>> /\ inFlight = {}
  BY DEF TakeBatch, TypeInv, BatchOK, Taken, IdsOf
<1>6. pending' = IdsOf(queue') /\ inFlight' = IdsOf(batch')
  BY <1>3, <1>4, <1>5 DEF TakeBatch
<1>7. ASSUME NEW j, NEW x, Has(batch', j, x) PROVE j \in IdsOf(batch')
  BY <1>7 DEF Has, IdsOf
<1> QED
  BY <1>3, <1>4, <1>5, <1>6, <1>7 DEF Queued, Taken

LEMMA TakeBatchKeepsType ==
  ASSUME TypeInv, NEW n, TakeBatch(n)
  PROVE  TypeInv'
<1>1. Queued' /\ Taken' /\ OneEach(batch')
  BY BatchTaken
<1>2. phase = "loop" /\ phase' = "call" /\ writes' = writes
  BY DEF TakeBatch
<1>3. BatchOK'
  BY <1>1, <1>2 DEF TypeInv, BatchOK
<1>4. Typed'
  BY <1>2 DEF TypeInv, Typed, TakeBatch, Phases
<1> QED
  BY <1>1, <1>2, <1>3, <1>4 DEF TypeInv, SweepOK, TakeBatch

LEMMA TurnKeepsType ==
  ASSUME TypeInv, Return \/ Finally \/ Immediate \/ BackoffEnds
  PROVE  TypeInv'
<1>1. UNCHANGED <<rows, handlers, sweep, enabled, queue, pending, inFlight, batch,
                  writes, lost, gaveUp, faults>>
  BY DEF Return, Finally, Immediate, BackoffEnds
<1>2. /\ phase \notin {"call", "write"} /\ phase' \in Phases \ {"call", "write"}
      /\ phase' = "off" => queue = <<>>
  BY DEF Return, Finally, Immediate, BackoffEnds, Phases
<1>3. Typed'
  BY <1>1, <1>2 DEF TypeInv, Typed
<1>4. BatchOK'
  BY <1>1, <1>2 DEF TypeInv, BatchOK
<1> QED
  BY <1>1, <1>2, <1>3, <1>4 DEF TypeInv, Queued, Taken, SweepOK

LEMMA EmbedOkKeepsType ==
  ASSUME TypeInv, EmbedOk
  PROVE  TypeInv'
<1> DEFINE Statement(n) == [id |-> batch[n].id, text |-> batch[n].text, awaited |-> TRUE]
<1>1. /\ phase = "call" /\ phase' = "write"
      /\ writes' = writes \cup {Statement(n) : n \in 1 .. Len(batch)}
      /\ UNCHANGED <<rows, handlers, sweep, enabled, queue, pending, inFlight, batch,
                     lost, gaveUp, faults>>
  BY DEF EmbedOk
<1>2. \A n \in 1 .. Len(batch) : batch[n] \in Job
  BY DEF TypeInv, Taken
<1>3. \A n \in 1 .. Len(batch) : Statement(n) \in [id: Ids, text: Texts, awaited: BOOLEAN]
  BY <1>2 DEF Job
<1>4. \A n \in 1 .. Len(batch) : Has(batch, Statement(n).id, Statement(n).text)
  BY DEF Has
<1> HIDE DEF Statement
<1>5. Typed'
  BY <1>1, <1>3 DEF TypeInv, Typed, Phases
<1>6. BatchOK'
  BY <1>1, <1>4 DEF TypeInv, BatchOK
<1> QED
  BY <1>1, <1>5, <1>6 DEF TypeInv, Queued, Taken, SweepOK

\* What the catch block does: a job of the batch goes back to the queue, or a
\* newer one waits for its row, or the row is one that has lost a text.
LEMMA BatchRetried ==
  ASSUME TypeInv, Retried
  PROVE  /\ Queued' /\ Taken' /\ batch' = <<>> /\ phase' \in {"backoff", "loop"}
         /\ lost \subseteq lost' /\ lost' \subseteq Ids /\ gaveUp' \subseteq Ids
         /\ inFlight' = {} /\ pending' \subseteq pending \cup inFlight
         /\ \A j, x : Has(queue, j, x) => Has(queue', j, x)
         /\ \A j, x : j \notin pending /\ Has(batch, j, x) => Has(queue', j, x) \/ j \in lost'
<1> DEFINE left == {n \in 1 .. Len(batch) : MayRetry(batch[n])}
           over == {batch[n].id : n \in (1 .. Len(batch)) \ left} \ pending
<1>1. PICK k \in InOrder(Requeued(left)) :
         queue' = queue \o [n \in DOMAIN k |-> Again(batch[k[n]])]
  BY DEF Retried
<1>2. /\ inFlight' = inFlight \ IdsOf(batch)
      /\ pending' = pending \cup {batch[n].id : n \in left}
      /\ batch' = <<>>
      /\ phase' = IF left # {} THEN "backoff" ELSE "loop"
      /\ lost' = lost \cup over /\ gaveUp' = gaveUp \cup over
  BY DEF Retried
<1>3. /\ queue \in Seq(Job) /\ OneEach(queue) /\ pending = IdsOf(queue)
      /\ batch \in Seq(Job) /\ OneEach(batch) /\ inFlight = IdsOf(batch)
  BY DEF TypeInv, Queued, Taken, BatchOK
<1>4. /\ Requeued(left) \in SUBSET (1 .. Len(batch))
      /\ \A n \in Requeued(left) : MayRetry(batch[n]) /\ batch[n].id \notin pending
      /\ \A n \in left : n \in Requeued(left) \/ batch[n].id \in pending
  BY DEF Requeued
<1>5. over \subseteq Ids
  <2>1. \A n \in 1 .. Len(batch) : batch[n] \in Job
    BY <1>3
  <2> QED
    BY <2>1 DEF Job
<1>6. ASSUME NEW j, NEW x, j \notin pending, Has(batch, j, x)
      PROVE  j \in over \/ \E n \in Requeued(left) : batch[n].id = j /\ batch[n].text = x
  BY <1>6, <1>4 DEF Has
<1> DEFINE again == [n \in DOMAIN k |-> Again(batch[k[n]])]
<1> HIDE DEF left, over
<1>7. queue' = queue \o again
  BY <1>1
<1>8. /\ again \in Seq(Job) /\ OneEach(again)
      /\ IdsOf(again) = {batch[n].id : n \in Requeued(left)}
      /\ \A n \in Requeued(left) : Has(again, batch[n].id, batch[n].text)
  BY <1>3, <1>4, RequeuedJobs
<1> HIDE DEF again
<1>9. IdsOf(queue) \cap IdsOf(again) = {}
  BY <1>3, <1>4, <1>8
<1>10. /\ queue' \in Seq(Job) /\ OneEach(queue')
       /\ IdsOf(queue') = IdsOf(queue) \cup IdsOf(again)
       /\ \A i, x : Has(queue, i, x) \/ Has(again, i, x) => Has(queue', i, x)
  BY <1>3, <1>7, <1>8, <1>9, JoinedJobs
<1>11. pending' = IdsOf(queue')
  <2>1. Requeued(left) \subseteq left
    BY DEF Requeued
  <2>2. ASSUME NEW i \in pending' PROVE i \in IdsOf(queue) \cup IdsOf(again)
    BY <2>2, <1>2, <1>3, <1>4, <1>8
  <2>3. ASSUME NEW i \in IdsOf(queue) \cup IdsOf(again) PROVE i \in pending'
    BY <2>1, <2>3, <1>2, <1>3, <1>8
  <2> QED
    BY <2>2, <2>3, <1>10
<1>12. inFlight' = {} /\ IdsOf(batch') = {} /\ batch' \in Seq(Job)
  BY <1>2, <1>3 DEF IdsOf
<1>13. Queued' /\ Taken'
  BY <1>10, <1>11, <1>12 DEF Queued, Taken
<1>14. lost \subseteq lost' /\ lost' \subseteq Ids /\ gaveUp' \subseteq Ids
  BY <1>2, <1>5 DEF TypeInv, Typed
<1>15. ASSUME NEW j, NEW x, j \notin pending, Has(batch, j, x)
       PROVE  Has(queue', j, x) \/ j \in lost'
  <2>1. CASE j \in over
    BY <2>1, <1>2
  <2>2. CASE \E n \in Requeued(left) : batch[n].id = j /\ batch[n].text = x
    BY <2>2, <1>8, <1>10
  <2> QED
    BY <2>1, <2>2, <1>6, <1>15
<1>16. pending' \subseteq pending \cup inFlight
  <2>1. {batch[n].id : n \in left} \subseteq IdsOf(batch)
    BY DEF IdsOf, left
  <2> QED
    BY <2>1, <1>2, <1>3
<1> QED
  BY <1>2, <1>10, <1>12, <1>13, <1>14, <1>15, <1>16

LEMMA FailureKeepsType ==
  ASSUME TypeInv, EmbedFails \/ \E w \in writes : WriteFails(w)
  PROVE  TypeInv'
<1>1. Retried
  BY DEF EmbedFails, WriteFails
<1>2. /\ Queued' /\ Taken' /\ batch' = <<>> /\ phase' \in {"backoff", "loop"}
      /\ lost' \subseteq Ids /\ gaveUp' \subseteq Ids
  BY <1>1, BatchRetried
<1>3. UNCHANGED <<rows, handlers, sweep, enabled>>
  BY DEF EmbedFails, WriteFails
<1>4. /\ writes' \subseteq [id: Ids, text: Texts, awaited: BOOLEAN]
      /\ \A w \in writes' : ~w.awaited
  <2>1. CASE EmbedFails
    BY <2>1 DEF EmbedFails, TypeInv, Typed, BatchOK
  <2>2. ASSUME NEW w \in writes, WriteFails(w)
        PROVE  /\ writes' \subseteq [id: Ids, text: Texts, awaited: BOOLEAN]
               /\ \A v \in writes' : ~v.awaited
    <3>1. writes' = {[v EXCEPT !.awaited = FALSE] : v \in writes \ {w}}
      BY <2>2 DEF WriteFails
    <3>2. \A v \in writes : v \in [id: Ids, text: Texts, awaited: BOOLEAN]
      BY DEF TypeInv, Typed
    <3> QED
      BY <3>1, <3>2
  <2> QED
    BY <2>1, <2>2
<1>5. faults' \in 0 .. MaxFaults
  BY WorkerAssumption DEF EmbedFails, WriteFails, OneMoreFault, TypeInv, Typed
<1>6. Typed'
  BY <1>2, <1>3, <1>4, <1>5 DEF TypeInv, Typed, Phases
<1>7. BatchOK'
  BY <1>2, <1>4 DEF BatchOK, OneEach
<1> QED
  BY <1>2, <1>3, <1>6, <1>7 DEF TypeInv, SweepOK

LEMMA WriteLandsKeepsType ==
  ASSUME TypeInv, NEW w \in writes, WriteLands(w)
  PROVE  TypeInv'
<1>1. w \in [id: Ids, text: Texts, awaited: BOOLEAN]
  BY DEF TypeInv, Typed
<1>2. rows' \in [Ids -> [edit: 0 .. MaxText, text: 0 .. MaxText, vec: 0 .. MaxText]]
  <2>1. w.id \in Ids /\ w.text \in 0 .. MaxText
    BY <1>1 DEF Texts
  <2> QED
    BY <2>1 DEF TypeInv, Typed, WriteLands
<1>3. writes' \subseteq writes /\ lost' \subseteq Ids /\ phase' \in Phases
  BY <1>1 DEF TypeInv, Typed, WriteLands, Phases
<1>4. Typed'
  BY <1>2, <1>3 DEF TypeInv, Typed, WriteLands
<1>5. CASE w.awaited /\ \A v \in writes' : ~v.awaited
  <2>1. inFlight' = {} /\ batch' = <<>> /\ phase' = "loop"
    BY <1>5 DEF TypeInv, Taken, WriteLands
  <2>2. Taken' /\ BatchOK'
    BY <2>1, <1>5 DEF Taken, BatchOK, IdsOf, OneEach
  <2> QED
    BY <2>1, <2>2, <1>4 DEF TypeInv, Queued, SweepOK, WriteLands
<1>6. CASE ~(w.awaited /\ \A v \in writes' : ~v.awaited)
  <2>1. UNCHANGED <<inFlight, batch, phase>>
    BY <1>6 DEF WriteLands
  <2>2. Taken' /\ BatchOK'
    BY <2>1, <1>3 DEF TypeInv, Taken, BatchOK
  <2> QED
    BY <2>1, <2>2, <1>4 DEF TypeInv, Queued, SweepOK, WriteLands
<1> QED
  BY <1>5, <1>6

LEMMA RestartKeepsType ==
  ASSUME TypeInv, Reload \/ Restart
  PROVE  TypeInv'
<1>1. faults' \in 0 .. MaxFaults
  BY WorkerAssumption DEF Reload, Restart, OneMoreFault, TypeInv, Typed
<1>2. CASE Reload
  <2>1. Typed'
    BY <1>1, <1>2 DEF TypeInv, Typed, Reload, memory
  <2> QED
    BY <1>2, <2>1 DEF TypeInv, Queued, Taken, BatchOK, SweepOK, Reload, memory
<1>3. CASE Restart
  <2>1. pending \subseteq Ids /\ inFlight \subseteq Ids
    BY IdsOfJobs DEF TypeInv, Queued, Taken
  <2>2. {h[1] : h \in handlers} \subseteq Ids
    BY DEF TypeInv, Typed
  <2>3. lost' \subseteq Ids
    BY <1>3, <2>1, <2>2 DEF TypeInv, Typed, Restart
  <2>4. Typed'
    BY <1>1, <1>3, <2>3 DEF TypeInv, Typed, Restart, Phases
  <2>5. /\ queue' = <<>> /\ pending' = {} /\ batch' = <<>> /\ inFlight' = {}
        /\ writes' = {} /\ sweep' = {}
    BY <1>3 DEF Restart
  <2> QED
    BY <2>4, <2>5 DEF TypeInv, Queued, Taken, BatchOK, SweepOK, IdsOf, OneEach
<1> QED
  BY <1>2, <1>3

\* Every step keeps the queue and what indexes it in step.
LEMMA TypeKept ==
  ASSUME TypeInv, [Next]_vars
  PROVE  TypeInv'
<1>1. CASE Next
  BY <1>1, CommitKeepsType, EnqueueKeepsType, SweepReadKeepsType, SweepAddKeepsType,
     TakeBatchKeepsType, TurnKeepsType, EmbedOkKeepsType, FailureKeepsType,
     WriteLandsKeepsType, RestartKeepsType DEF Next, Process
<1>2. CASE UNCHANGED vars
  BY <1>2 DEF vars, TypeInv, Typed, Queued, Taken, BatchOK, SweepOK
<1> QED
  BY <1>1, <1>2

LEMMA TypeInvImplies == TypeInv => WorkerTypeOK
  BY DEF TypeInv, Typed, Queued, Taken, WorkerTypeOK, QueueIsIndexed, BatchOK, OneEach

LEMMA TypeInvHolds == Spec => []TypeInv
  BY InitialType, TypeKept, PTL DEF Spec

\* The map, the set and the queue of embedding.ts stay in step: no row has two
\* jobs that wait, and the sets say what the queue and the batch hold.
THEOREM TypeHolds == Spec => []WorkerTypeOK
  BY TypeInvHolds, TypeInvImplies, PTL

-----------------------------------------------------------------------------
(* The latest text of a row that has lost none is on its way.              *)

LEMMA HasIsListed ==
  ASSUME NEW jobs, NEW i, NEW x, Has(jobs, i, x)
  PROVE  i \in IdsOf(jobs)
  BY DEF Has, IdsOf

LEMMA CommitKeepsWay ==
  ASSUME WorkerInv, NEW i \in Ids, Commit(i), NEW j \in Ids \ lost'
  PROVE  OnItsWay(j)'
<1>1. /\ \A e \in Ids : e # i => rows'[e] = rows[e]
      /\ rows'[i].vec = rows[i].vec /\ rows'[i].edit = rows[i].edit + 1
      /\ rows'[i].text = rows[i].text \/ rows'[i].text = rows'[i].edit
      /\ handlers' = handlers \cup {<<i, Says(i)'>>}
      /\ UNCHANGED <<sweep, enabled, memory, writes, lost, gaveUp, faults>>
  BY Committed DEF WorkerInv
<1>2. OnItsWay(j)
  BY <1>1 DEF WorkerInv
<1>3. CASE j = i /\ rows'[j].text = rows'[j].edit
  <2>1. rows'[j].text # Blank
    <3>1. rows[i].edit \in Nat
      BY DEF WorkerInv, TypeInv, Typed
    <3> QED
      BY <1>1, <1>3, <3>1 DEF Blank
  <2>2. <<j, rows'[j].text>> \in handlers'
    BY <1>1, <1>3 DEF Says
  <2> QED
    BY <2>1, <2>2 DEF OnItsWay, Carried
<1>4. CASE ~(j = i /\ rows'[j].text = rows'[j].edit)
  <2>1. rows'[j].text = rows[j].text /\ rows'[j].vec = rows[j].vec
    BY <1>1, <1>4
  <2> QED
    BY <1>1, <1>2, <2>1 DEF memory, OnItsWay, Carried, Awaited
<1> QED
  BY <1>3, <1>4

LEMMA EnqueueKeepsWay ==
  ASSUME WorkerInv, NEW i \in Ids, NEW text \in Texts \cup {Blank}, Enqueue(i, text),
         NEW j \in Ids \ lost'
  PROVE  OnItsWay(j)'
<1>1. /\ UNCHANGED <<rows, sweep, enabled, inFlight, batch, writes, faults>>
      /\ handlers' = handlers \ {<<i, text>>} /\ phase' = Ticked(queue')
  BY DEF Enqueue
<1>2. TypeInv /\ (j \notin lost => OnItsWay(j))
  BY DEF WorkerInv
<1>3. phase' = "write" => phase = "write"
  BY <1>1, <1>2, TickedPhase
<1>4. CASE enabled /\ text # Blank
  <2>1. text \in Texts /\ queue' = Added(queue, i, text) /\ pending' = pending \cup {i}
    BY <1>4 DEF Enqueue
  <2>2. Has(queue', i, text) /\ \A x : j # i /\ Has(queue, j, x) => Has(queue', j, x)
    BY <1>2, <2>1, AddedJobs
  <2>3. CASE j = i
    <3>1. CASE text = rows[i].text
      BY <1>1, <2>2, <2>3, <3>1 DEF OnItsWay
    <3>2. CASE text # rows[i].text
      <4>1. Carried(i)
        BY <1>4, <2>3, <3>2 DEF Enqueue
      <4> QED
        BY <1>1, <2>3, <3>2, <4>1 DEF OnItsWay, Carried
    <3> QED
      BY <3>1, <3>2
  <2>4. CASE j # i
    <3>1. OnItsWay(j)
      BY <1>2, <1>4, <2>4 DEF Enqueue
    <3> QED
      BY <1>1, <1>3, <2>1, <2>2, <2>4, <3>1 DEF OnItsWay, Carried, Awaited
  <2> QED
    BY <2>3, <2>4
<1>5. CASE ~(enabled /\ text # Blank)
  <2>1. /\ UNCHANGED <<queue, pending>> /\ j \notin lost
        /\ text # Blank => j # i
    BY <1>5 DEF Enqueue, Added
  <2>2. Carried(j) => Carried(j)'
    BY <1>1, <2>1 DEF Carried
  <2> QED
    BY <1>1, <1>2, <1>3, <2>1, <2>2 DEF OnItsWay, Awaited
<1> QED
  BY <1>4, <1>5

LEMMA SweepKeepsWay ==
  ASSUME WorkerInv, SweepRead \/ SweepAdd, NEW j \in Ids \ lost'
  PROVE  OnItsWay(j)'
<1>1. TypeInv /\ (j \notin lost => OnItsWay(j))
  BY DEF WorkerInv
<1>2. UNCHANGED <<rows, handlers, enabled, inFlight, batch, writes, faults>>
  BY DEF SweepRead, SweepAdd, memory
<1>3. CASE SweepAdd /\ enabled
  <2>1. PICK new \in SUBSET Ids, text \in [Ids -> Texts \cup {0}] :
           /\ pending' = pending \cup new
           /\ \A i, x : Has(queue, i, x) => Has(queue', i, x)
           /\ \A i \in new : Has(queue', i, text[i])
           /\ phase' = Ticked(queue')
           /\ lost' = (lost \ new) \cup
                {i \in new : text[i] # rows[i].text /\ ~Carried(i)}
    BY <1>1, <1>3, SweepAdds
  <2>2. phase' = "write" => phase = "write"
    BY <1>1, <1>2, <2>1, TickedPhase
  <2>3. CASE j \in new
    <3>1. text[j] = rows[j].text \/ Carried(j)
      BY <2>1, <2>3
    <3>2. Has(queue', j, text[j])
      BY <2>1, <2>3
    <3> QED
      BY <1>2, <3>1, <3>2 DEF OnItsWay, Carried
  <2>4. CASE j \notin new
    <3>1. OnItsWay(j) /\ (j \in pending' => j \in pending)
      BY <1>1, <2>1, <2>4
    <3> QED
      BY <1>2, <2>1, <2>2, <3>1 DEF OnItsWay, Carried, Awaited
  <2> QED
    BY <2>3, <2>4
<1>4. CASE SweepRead \/ ~enabled
  <2>1. UNCHANGED <<queue, pending, lost>> /\ (phase' = "write" => phase = "write")
    <3>1. CASE SweepRead
      BY <3>1 DEF SweepRead, memory
    <3>2. CASE SweepAdd /\ ~enabled
      BY <1>1, <1>2, <3>2, TickedPhase DEF SweepAdd
    <3> QED
      BY <1>4, <3>1, <3>2
  <2> QED
    BY <1>1, <1>2, <2>1 DEF OnItsWay, Carried, Awaited
<1> QED
  BY <1>3, <1>4

LEMMA TakeBatchKeepsWay ==
  ASSUME WorkerInv, NEW n, TakeBatch(n), NEW j \in Ids \ lost'
  PROVE  OnItsWay(j)'
<1>1. /\ batch = <<>> /\ pending' \cup inFlight' \subseteq pending
      /\ \A x : Has(queue, j, x) => Has(queue', j, x) \/ (Has(batch', j, x) /\ j \notin pending')
  BY BatchTaken DEF WorkerInv
<1>2. phase' = "call" /\ UNCHANGED <<rows, handlers, lost>>
  BY DEF TakeBatch
<1>3. OnItsWay(j) /\ ~Has(batch, j, rows[j].text)
  BY <1>1, <1>2 DEF WorkerInv, Has
<1> QED
  BY <1>1, <1>2, <1>3 DEF OnItsWay, Carried

LEMMA TurnKeepsWay ==
  ASSUME WorkerInv, Return \/ Finally \/ Immediate \/ BackoffEnds, NEW j \in Ids \ lost'
  PROVE  OnItsWay(j)'
<1>1. /\ UNCHANGED <<rows, handlers, queue, pending, inFlight, batch, writes, lost>>
      /\ phase' # "write"
  BY DEF Return, Finally, Immediate, BackoffEnds
<1>2. OnItsWay(j)
  BY <1>1 DEF WorkerInv
<1> QED
  BY <1>1, <1>2 DEF OnItsWay, Carried

LEMMA EmbedOkKeepsWay ==
  ASSUME WorkerInv, EmbedOk, NEW j \in Ids \ lost'
  PROVE  OnItsWay(j)'
<1>1. /\ writes' = writes \cup {[id |-> batch[n].id, text |-> batch[n].text, awaited |-> TRUE] :
                                  n \in 1 .. Len(batch)}
      /\ UNCHANGED <<rows, handlers, queue, pending, inFlight, batch, lost>>
  BY DEF EmbedOk
<1>2. ASSUME NEW x, Has(batch, j, x) PROVE Awaited(j)'
  <2>1. PICK n \in 1 .. Len(batch) : batch[n].id = j
    BY <1>2 DEF Has
  <2> DEFINE w == [id |-> batch[n].id, text |-> batch[n].text, awaited |-> TRUE]
  <2>2. w \in writes'
    BY <1>1
  <2>3. w.awaited /\ w.id = j
    BY <2>1
  <2> QED
    BY <2>2, <2>3 DEF Awaited
<1>3. OnItsWay(j)
  BY <1>1 DEF WorkerInv
<1> QED
  BY <1>1, <1>2, <1>3 DEF OnItsWay, Carried

LEMMA FailureKeepsWay ==
  ASSUME WorkerInv, EmbedFails \/ \E w \in writes : WriteFails(w), NEW j \in Ids \ lost'
  PROVE  OnItsWay(j)'
<1>1. Retried /\ UNCHANGED <<rows, handlers>>
  BY DEF EmbedFails, WriteFails
<1>2. /\ lost \subseteq lost' /\ inFlight' = {} /\ pending' \subseteq pending \cup inFlight
      /\ \A x : Has(queue, j, x) => Has(queue', j, x)
      /\ \A x : j \notin pending /\ Has(batch, j, x) => Has(queue', j, x)
  BY <1>1, BatchRetried DEF WorkerInv
<1>3. OnItsWay(j)
  BY <1>2 DEF WorkerInv
<1> QED
  BY <1>1, <1>2, <1>3 DEF OnItsWay, Carried

LEMMA WriteLandsKeepsWay ==
  ASSUME WorkerInv, NEW w \in writes, WriteLands(w), NEW j \in Ids \ lost'
  PROVE  OnItsWay(j)'
<1>1. w \in [id: Ids, text: Texts, awaited: BOOLEAN]
      /\ rows \in [Ids -> [edit: 0 .. MaxText, text: 0 .. MaxText, vec: 0 .. MaxText]]
  BY DEF WorkerInv, TypeInv, Typed
<1>2. /\ rows'[j].text = rows[j].text
      /\ j # w.id => rows'[j].vec = rows[j].vec
      /\ j = w.id => rows'[j].vec = w.text
  BY <1>1 DEF WriteLands
<1>3. /\ lost \subseteq lost'
      /\ w.awaited \/ w.text = rows[w.id].text \/ w.id \in lost'
      /\ writes' = writes \ {w} /\ UNCHANGED <<handlers, queue, pending>>
  BY DEF WriteLands
<1>4. OnItsWay(j)
  BY <1>3 DEF WorkerInv
<1>5. inFlight = IdsOf(batch) /\ OneEach(batch) /\ (w.awaited => phase = "write" /\ Has(batch, w.id, w.text))
  BY DEF WorkerInv, TypeInv, Taken, BatchOK
\* A statement that lands for a row that is, or is to be, up to date is one of
\* its latest text.
<1>6. ASSUME j = w.id, Has(batch, j, rows[j].text) \/ j \notin inFlight
      PROVE  w.text = rows[j].text
  <2>1. CASE w.awaited
    <3>1. Has(batch, j, w.text) /\ j \in inFlight
      BY <1>5, <1>6, <2>1, HasIsListed
    <3> QED
      BY <3>1, <1>5, <1>6 DEF Has, OneEach
  <2>2. CASE ~w.awaited
    BY <1>3, <1>6, <2>2
  <2> QED
    BY <2>1, <2>2
<1>7. CASE Carried(j) \/ Has(queue, j, rows[j].text)
  BY <1>2, <1>3, <1>7 DEF OnItsWay, Carried
<1>8. CASE /\ j \notin pending /\ Has(batch, j, rows[j].text)
           /\ phase = "write" => rows[j].vec = rows[j].text \/ Awaited(j)
  <2>1. rows'[j].vec = rows'[j].text \/ (phase = "write" => Awaited(j)')
    <3>1. CASE j = w.id
      BY <1>2, <1>6, <1>8, <3>1
    <3>2. CASE j # w.id
      BY <1>2, <1>3, <1>8, <3>2 DEF Awaited
    <3> QED
      BY <3>1, <3>2
  <2>2. CASE w.awaited /\ \A v \in writes' : ~v.awaited
    <3>1. inFlight' = {}
      BY <1>5, <2>2 DEF WriteLands
    <3>2. rows'[j].vec = rows'[j].text
      BY <1>5, <2>1, <2>2 DEF Awaited
    <3> QED
      BY <1>3, <1>8, <3>1, <3>2 DEF OnItsWay, Carried
  <2>3. CASE ~(w.awaited /\ \A v \in writes' : ~v.awaited)
    <3>1. UNCHANGED <<inFlight, batch, phase>>
      BY <2>3 DEF WriteLands
    <3> QED
      BY <1>2, <1>3, <1>8, <2>1, <3>1 DEF OnItsWay, Carried
  <2> QED
    BY <2>2, <2>3
<1>9. CASE j \notin pending \cup inFlight /\ rows[j].vec = rows[j].text
  <2>1. inFlight' \subseteq inFlight
    BY DEF WriteLands
  <2>2. rows'[j].vec = rows'[j].text
    BY <1>2, <1>6, <1>9
  <2> QED
    BY <1>3, <1>9, <2>1, <2>2 DEF OnItsWay, Carried
<1> QED
  BY <1>4, <1>7, <1>8, <1>9 DEF OnItsWay, Carried

LEMMA RestartKeepsWay ==
  ASSUME WorkerInv, Reload \/ Restart, NEW j \in Ids \ lost'
  PROVE  OnItsWay(j)'
<1>1. CASE Reload
  BY <1>1 DEF WorkerInv, Reload, memory, OnItsWay, Carried, Awaited
<1>2. CASE Restart
  <2>1. /\ j \notin lost \cup pending \cup inFlight /\ \A h \in handlers : h[1] # j
        /\ rows' = rows /\ pending' = {} /\ inFlight' = {}
    BY <1>2 DEF Restart
  <2>2. OnItsWay(j) /\ pending = IdsOf(queue) /\ inFlight = IdsOf(batch)
    BY <2>1 DEF WorkerInv, TypeInv, Queued, Taken
  <2>3. ~Has(queue, j, rows[j].text) /\ ~Has(batch, j, rows[j].text)
    BY <2>1, <2>2, HasIsListed
  <2>4. ~Carried(j)
    BY <2>1 DEF Carried
  <2> QED
    BY <2>1, <2>2, <2>3, <2>4 DEF OnItsWay, Carried
<1> QED
  BY <1>1, <1>2

LEMMA InitialWay == Init => WorkerInv
<1>1. ASSUME Init, NEW i \in Ids PROVE OnItsWay(i)
  BY <1>1 DEF Init, OnItsWay, Carried
<1> QED
  BY <1>1, InitialType DEF WorkerInv

LEMMA WayKept ==
  ASSUME WorkerInv, [Next]_vars
  PROVE  WorkerInv'
<1>1. TypeInv'
  BY TypeKept DEF WorkerInv
<1>2. ASSUME NEW j \in Ids \ lost' PROVE OnItsWay(j)'
  <2>1. CASE Next
    BY <2>1, CommitKeepsWay, EnqueueKeepsWay, SweepKeepsWay, TakeBatchKeepsWay, TurnKeepsWay,
       EmbedOkKeepsWay, FailureKeepsWay, WriteLandsKeepsWay, RestartKeepsWay DEF Next, Process
  <2>2. CASE UNCHANGED vars
    BY <2>2 DEF vars, WorkerInv, OnItsWay, Carried, Awaited
  <2> QED
    BY <2>1, <2>2
<1> QED
  BY <1>1, <1>2 DEF WorkerInv

LEMMA WayImplies ==
  ASSUME WorkerInv
  PROVE  FreshAtRest
<1> SUFFICES ASSUME Resting
             PROVE  queue = <<>> /\ \A i \in Ids \ lost : rows[i].vec = rows[i].text
  BY DEF FreshAtRest
<1>1. queue = <<>> /\ batch = <<>> /\ handlers = {}
  BY DEF WorkerInv, TypeInv, BatchOK, Resting
<1>2. ASSUME NEW i \in Ids \ lost PROVE rows[i].vec = rows[i].text
  <2>1. OnItsWay(i)
    BY DEF WorkerInv
  <2>2. \A x : ~Has(queue, i, x) /\ ~Has(batch, i, x)
    BY <1>1 DEF Has
  <2> QED
    BY <1>1, <2>1, <2>2 DEF OnItsWay, Carried
<1> QED
  BY <1>1, <1>2

\* A worker at rest has left no job behind, and each row that has lost no text
\* to a restart, a giving up, a change of the settings or an overtaking has the
\* vector of its latest text, whatever the rows, the batches, the attempts and
\* the failures (embedding.ts:236-386).
THEOREM FreshHolds == Spec => []FreshAtRest
<1>1. Spec => []WorkerInv
  BY InitialWay, WayKept, PTL DEF Spec
<1> QED
  BY <1>1, WayImplies, PTL

=============================================================================
