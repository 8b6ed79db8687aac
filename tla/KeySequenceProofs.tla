---------------------------- MODULE KeySequenceProofs ----------------------------
(***************************************************************************)
(* Proofs about KeySequence: for any number of projects, entities and      *)
(* connections, a KEY-SEQ names one entity, a counter never gives a number *)
(* out twice, and a counter is ahead of the numbers inserted under it.     *)
(*                                                                         *)
(* None of the three is inductive alone.  What carries them through a      *)
(* transaction is the row lock: the numbers a transaction has drawn lie    *)
(* between the committed counter and its own, and nobody else has a        *)
(* counter of that project open.                                           *)
(***************************************************************************)
EXTENDS KeySequence, TLAPS

\* One transaction at a time has a project's counter open.
LocksExclusive ==
  \A c, d \in Procs, p \in Projects :
    tx[c].next[p] # None /\ tx[d].next[p] # None => c = d

\* An open counter is not behind the committed one.
OpenAhead ==
  \A c \in Procs, p \in Projects : tx[c].next[p] # None => nextSeq[p] <= tx[c].next[p]

\* A row that is not committed was numbered under a lock its transaction
\* holds, behind the open counter, and from the counter only if it is new.
AddedUnderLock ==
  \A c \in Procs, e \in Entities : tx[c].added[e] # None =>
    LET row == tx[c].added[e]
    IN  /\ row.project = row.home
        /\ tx[c].next[row.home] # None
        /\ row.seq < tx[c].next[row.home]
        /\ row.auto => nextSeq[row.home] <= row.seq

\* Within a transaction, and against the committed rows, numbers are distinct.
AddedDistinct ==
  /\ \A c \in Procs, e, f \in Entities : \A p \in Projects, n \in Numbers :
       Has(tx[c].added[e], p, n) /\ Has(tx[c].added[f], p, n) => e = f
  /\ \A c \in Procs, e, f \in Entities : \A p \in Projects, n \in Numbers :
       ~(Has(tx[c].added[e], p, n) /\ Has(rows[f], p, n))

\* What was issued is behind the committed counter.
IssuedBehind == \A i \in issued : i[2] < nextSeq[i[1]]

KeyInv ==
  /\ SeqTypeOK /\ LocksExclusive /\ OpenAhead /\ AddedUnderLock /\ AddedDistinct
  /\ IssuedBehind /\ CounterAhead /\ NeverReissued /\ KeyUnique

-----------------------------------------------------------------------------
(* One step of a transaction.                                              *)

\* What Numbered changes: one counter and one row of one transaction.
LEMMA NumberedChanges ==
  ASSUME SeqTypeOK, NEW c \in Procs, NEW e \in Entities, NEW p \in Projects,
         NEW next, NEW row, Numbered(c, p, next, e, row)
  PROVE  /\ \A d \in Procs : d # c => tx'[d] = tx[d]
         /\ \A q \in Projects : tx'[c].next[q] = IF q = p THEN next ELSE tx[c].next[q]
         /\ \A f \in Entities : tx'[c].added[f] = IF f = e THEN row ELSE tx[c].added[f]
         /\ next \in (1 .. MaxSeq + 1) \cup {None} /\ row \in Row \cup {None}
              => tx' \in [Procs -> Transaction]
BY DEF SeqTypeOK, Transaction, Numbered

\* A transaction that holds the lock of p, or takes it, moves its counter of p
\* forward and adds one row with a number behind it.
LEMMA NumberedKeepsInv ==
  ASSUME KeyInv, NEW c \in Procs, NEW e \in Entities, NEW p \in Projects,
         NEW next \in 1 .. MaxSeq + 1, NEW row \in Row \cup {None},
         LockFree(c, p), Counter(c, p) <= next, Absent(e),
         row # None => /\ row.project = p /\ row.home = p /\ row.seq < next
                       /\ row.auto => nextSeq[p] <= row.seq
                       /\ ~Taken(c, p, row.seq),
         Numbered(c, p, next, e, row), UNCHANGED <<nextSeq, rows, issued>>
  PROVE  KeyInv'
<1>. USE DEF KeyInv
<1>1. /\ \A d \in Procs : d # c => tx'[d] = tx[d]
      /\ \A q \in Projects : tx'[c].next[q] = IF q = p THEN next ELSE tx[c].next[q]
      /\ \A f \in Entities : tx'[c].added[f] = IF f = e THEN row ELSE tx[c].added[f]
      /\ tx' \in [Procs -> Transaction]
  BY NumberedChanges
<1>2. SeqTypeOK'
  BY <1>1 DEF SeqTypeOK
<1>3. LocksExclusive'
  BY <1>1 DEF LocksExclusive, LockFree
<1>4. nextSeq[p] <= next /\ (tx[c].next[p] # None => tx[c].next[p] <= next)
  BY SeqAssumption DEF Counter, OpenAhead, SeqTypeOK, Transaction
<1>5. OpenAhead'
  BY <1>1, <1>4 DEF OpenAhead
<1>6. AddedUnderLock'
  <2>. SUFFICES ASSUME NEW d \in Procs, NEW f \in Entities, tx'[d].added[f] # None
                PROVE  LET r == tx'[d].added[f]
                       IN  /\ r.project = r.home
                           /\ tx'[d].next[r.home] # None
                           /\ r.seq < tx'[d].next[r.home]
                           /\ r.auto => nextSeq'[r.home] <= r.seq
    BY DEF AddedUnderLock
  <2>1. CASE d # c
    BY <2>1, <1>1 DEF AddedUnderLock
  <2>2. CASE d = c /\ f = e
    BY <2>2, <1>1, SeqAssumption
  <2>3. CASE d = c /\ f # e
    <3>. DEFINE r == tx[c].added[f]
    <3>1. tx'[d].added[f] = r /\ r # None /\ r \in Row
      BY <2>3, <1>1 DEF SeqTypeOK, Transaction
    <3>2. /\ r.project = r.home /\ tx[c].next[r.home] # None
          /\ r.seq < tx[c].next[r.home]
          /\ r.auto => nextSeq[r.home] <= r.seq
      BY <3>1 DEF AddedUnderLock
    <3>3. r.home \in Projects /\ r.seq \in Numbers
      BY <3>1 DEF Row
    <3>4. CASE r.home = p
      <4>1. tx'[c].next[r.home] = next /\ next # None
        BY <3>4, <1>1, SeqAssumption
      <4>2. r.seq < next
        <5>1. tx[c].next[p] \in 1 .. MaxSeq + 1
          BY <3>2, <3>4 DEF SeqTypeOK, Transaction
        <5>. QED BY <5>1, <3>2, <3>3, <3>4, <1>4, SeqAssumption DEF Numbers
      <4>. QED BY <4>1, <4>2, <3>1, <3>2, <2>3
    <3>5. CASE r.home # p
      BY <3>5, <3>1, <3>2, <3>3, <2>3, <1>1
    <3>. QED BY <3>4, <3>5
  <2>. QED BY <2>1, <2>2, <2>3
<1>7. AddedDistinct'
  <2>1. ASSUME NEW d \in Procs, NEW f \in Entities, NEW g \in Entities,
               NEW q \in Projects, NEW n \in Numbers,
               Has(tx'[d].added[f], q, n), Has(tx'[d].added[g], q, n)
        PROVE  f = g
    <3>1. CASE d # c
      BY <3>1, <2>1, <1>1 DEF AddedDistinct
    <3>2. CASE d = c /\ row = None
      BY <3>2, <2>1, <1>1 DEF AddedDistinct, Has
    <3>3. CASE d = c /\ row # None
      BY <3>3, <2>1, <1>1 DEF AddedDistinct, Has, Taken
    <3>. QED BY <3>1, <3>2, <3>3
  <2>2. ASSUME NEW d \in Procs, NEW f \in Entities, NEW g \in Entities,
               NEW q \in Projects, NEW n \in Numbers,
               Has(tx'[d].added[f], q, n), Has(rows'[g], q, n)
        PROVE  FALSE
    <3>1. CASE d # c \/ f # e
      BY <3>1, <2>2, <1>1 DEF AddedDistinct
    <3>2. CASE d = c /\ f = e
      BY <3>2, <2>2, <1>1 DEF Has, Taken
    <3>. QED BY <3>1, <3>2
  <2>. QED BY <2>1, <2>2 DEF AddedDistinct
<1>8. IssuedBehind' /\ CounterAhead' /\ NeverReissued' /\ KeyUnique'
  BY DEF IssuedBehind, CounterAhead, NeverReissued, KeyUnique
<1>. QED BY <1>2, <1>3, <1>5, <1>6, <1>7, <1>8

\* A transaction that ends without effect.
LEMMA DroppingKeepsInv ==
  ASSUME KeyInv, NEW c \in Procs, tx' = [tx EXCEPT ![c] = Empty],
         UNCHANGED <<nextSeq, rows, issued>>
  PROVE  KeyInv'
<1>1. Empty \in Transaction
  BY DEF Empty, Transaction
<1>2. \A d \in Procs : tx'[d] = IF d = c THEN Empty ELSE tx[d]
  BY DEF KeyInv, SeqTypeOK
<1>3. /\ \A p \in Projects : Empty.next[p] = None
      /\ \A e \in Entities : Empty.added[e] = None
  BY DEF Empty
<1>4. SeqTypeOK'
  BY <1>1 DEF KeyInv, SeqTypeOK
<1>5. LocksExclusive' /\ OpenAhead' /\ AddedUnderLock'
  BY <1>2, <1>3 DEF KeyInv, LocksExclusive, OpenAhead, AddedUnderLock
<1>6. AddedDistinct'
  BY <1>2, <1>3 DEF KeyInv, AddedDistinct, Has
<1>7. IssuedBehind' /\ CounterAhead' /\ NeverReissued' /\ KeyUnique'
  BY DEF KeyInv, IssuedBehind, CounterAhead, NeverReissued, KeyUnique
<1>. QED BY <1>4, <1>5, <1>6, <1>7 DEF KeyInv

\* A transaction that becomes visible: its counters only move forward, and its
\* rows are numbered from the gap between the old counters and the new ones.
LEMMA CommitKeepsInv ==
  ASSUME KeyInv, NEW c \in Procs, Commit(c)
  PROVE  KeyInv'
<1>. USE DEF KeyInv
<1>. DEFINE added == tx[c].added
<1>1. /\ nextSeq' = [p \in Projects |-> Counter(c, p)]
      /\ rows' = [e \in Entities |-> IF added[e] # None THEN added[e] ELSE rows[e]]
      /\ tx' = [tx EXCEPT ![c] = Empty]
      /\ issued' = issued \cup
           {<<added[e].home, added[e].seq, e>> :
              e \in {f \in Entities : added[f] # None /\ added[f].auto}}
  BY DEF Commit
<1>2. \A e \in Entities : added[e] \in Row \cup {None}
  BY DEF SeqTypeOK, Transaction
<1>3. /\ \A p \in Projects : nextSeq'[p] = Counter(c, p) /\ nextSeq[p] <= nextSeq'[p]
      /\ nextSeq' \in [Projects -> 1 .. MaxSeq + 1]
  BY <1>1 DEF Counter, OpenAhead, SeqTypeOK, Transaction
<1>4. /\ \A p \in Projects : Empty.next[p] = None
      /\ \A e \in Entities : Empty.added[e] = None
      /\ Empty \in Transaction
  BY DEF Empty, Transaction
<1>5. \A d \in Procs : tx'[d] = IF d = c THEN Empty ELSE tx[d]
  BY <1>1 DEF SeqTypeOK
<1>6. \A e \in Entities : added[e] # None =>
        /\ added[e] \in Row /\ added[e].home \in Projects /\ added[e].seq \in Numbers
        /\ added[e].project = added[e].home
        /\ added[e].seq < nextSeq'[added[e].home]
        /\ added[e].auto => nextSeq[added[e].home] <= added[e].seq
  BY <1>2, <1>3 DEF AddedUnderLock, Counter, Row
<1>7. SeqTypeOK'
  <2>1. rows' \in [Entities -> Row \cup {None}]
    BY <1>1, <1>2 DEF SeqTypeOK
  <2>2. tx' \in [Procs -> Transaction]
    BY <1>1, <1>4 DEF SeqTypeOK
  <2>3. issued' \subseteq Projects \X Numbers \X Entities
    BY <1>1, <1>6 DEF SeqTypeOK
  <2>. QED BY <1>3, <2>1, <2>2, <2>3 DEF SeqTypeOK
<1>8. LocksExclusive'
  BY <1>4, <1>5 DEF LocksExclusive
<1>9. \A d \in Procs, p \in Projects : d # c /\ tx[d].next[p] # None => nextSeq'[p] = nextSeq[p]
  BY <1>3 DEF LocksExclusive, Counter
<1>10. OpenAhead' /\ AddedUnderLock'
  <2>1. OpenAhead'
    BY <1>4, <1>5, <1>9 DEF OpenAhead
  <2>2. ASSUME NEW d \in Procs, NEW e \in Entities, tx'[d].added[e] # None
        PROVE  LET r == tx'[d].added[e]
               IN  /\ r.project = r.home
                   /\ tx'[d].next[r.home] # None
                   /\ r.seq < tx'[d].next[r.home]
                   /\ r.auto => nextSeq'[r.home] <= r.seq
    <3>1. d # c /\ tx'[d] = tx[d]
      BY <2>2, <1>4, <1>5
    <3>2. tx[d].added[e] \in Row
      BY <2>2, <3>1 DEF SeqTypeOK, Transaction
    <3>3. tx[d].added[e].home \in Projects
      BY <3>2 DEF Row
    <3>. QED BY <2>2, <3>1, <3>3, <1>9 DEF AddedUnderLock
  <2>. QED BY <2>1, <2>2 DEF AddedUnderLock
<1>11. AddedDistinct'
  <2>1. ASSUME NEW d \in Procs, NEW e \in Entities, NEW f \in Entities,
               NEW p \in Projects, NEW n \in Numbers,
               Has(tx'[d].added[e], p, n), Has(rows'[f], p, n)
        PROVE  FALSE
    <3>1. d # c /\ tx'[d] = tx[d]
      BY <2>1, <1>4, <1>5 DEF Has
    <3>2. CASE added[f] = None
      BY <3>1, <3>2, <2>1, <1>1 DEF AddedDistinct
    <3>3. CASE added[f] # None
      <4>1. Has(added[f], p, n) /\ tx[c].next[p] # None
        BY <3>3, <2>1, <1>1 DEF Has, AddedUnderLock
      <4>2. tx[d].next[p] # None
        BY <3>1, <2>1 DEF Has, AddedUnderLock
      <4>. QED BY <3>1, <4>1, <4>2 DEF LocksExclusive
    <3>. QED BY <3>2, <3>3
  <2>2. ASSUME NEW d \in Procs, NEW e \in Entities, NEW f \in Entities,
               NEW p \in Projects, NEW n \in Numbers,
               Has(tx'[d].added[e], p, n), Has(tx'[d].added[f], p, n)
        PROVE  e = f
    BY <2>2, <1>4, <1>5 DEF AddedDistinct, Has
  <2>. QED BY <2>1, <2>2 DEF AddedDistinct
<1>12. IssuedBehind'
  <2>1. ASSUME NEW i \in issued PROVE i[2] < nextSeq'[i[1]]
    <3>1. i[1] \in Projects /\ i[2] \in Numbers /\ i[2] < nextSeq[i[1]]
      BY DEF SeqTypeOK, IssuedBehind
    <3>. QED BY <3>1, <1>3 DEF SeqTypeOK, Numbers
  <2>2. ASSUME NEW e \in Entities, added[e] # None
        PROVE  added[e].seq < nextSeq'[added[e].home]
    BY <2>2, <1>6
  <2>. QED BY <1>1, <2>1, <2>2 DEF IssuedBehind
<1>13. CounterAhead'
  <2>1. ASSUME NEW e \in Entities, rows'[e] # None
        PROVE  rows'[e].seq < nextSeq'[rows'[e].home]
    <3>1. CASE added[e] # None
      BY <3>1, <1>1, <1>6
    <3>2. CASE added[e] = None
      <4>1. rows'[e] = rows[e] /\ rows[e] \in Row
        BY <3>2, <2>1, <1>1 DEF SeqTypeOK
      <4>2. rows[e].home \in Projects /\ rows[e].seq \in Numbers
        BY <4>1 DEF Row
      <4>3. rows[e].seq < nextSeq[rows[e].home]
        BY <4>1, <2>1 DEF CounterAhead
      <4>. QED BY <4>1, <4>2, <4>3, <1>3 DEF SeqTypeOK, Numbers
    <3>. QED BY <3>1, <3>2
  <2>. QED BY <2>1 DEF CounterAhead
<1>14. NeverReissued'
  <2>. DEFINE new == {<<added[e].home, added[e].seq, e>> :
                        e \in {f \in Entities : added[f] # None /\ added[f].auto}}
  <2>1. ASSUME NEW i \in new, NEW j \in issued, i[1] = j[1], i[2] = j[2]
        PROVE  FALSE
    <3>1. PICK e \in Entities : /\ added[e] # None /\ added[e].auto
                                /\ i = <<added[e].home, added[e].seq, e>>
      OBVIOUS
    <3>2. nextSeq[i[1]] <= i[2] /\ i[1] \in Projects /\ i[2] \in Numbers
      BY <3>1, <1>6
    <3>3. j[2] < nextSeq[j[1]]
      BY DEF IssuedBehind
    <3>. QED BY <2>1, <3>2, <3>3 DEF SeqTypeOK, Numbers
  <2>2. ASSUME NEW i \in new, NEW j \in new, i[1] = j[1], i[2] = j[2]
        PROVE  i = j
    <3>1. PICK e \in Entities : /\ added[e] # None /\ added[e].auto
                                /\ i = <<added[e].home, added[e].seq, e>>
      OBVIOUS
    <3>2. PICK f \in Entities : /\ added[f] # None /\ added[f].auto
                                /\ j = <<added[f].home, added[f].seq, f>>
      OBVIOUS
    <3>3. added[e].home \in Projects /\ added[e].seq \in Numbers
      BY <3>1, <1>6
    <3>4. /\ Has(added[e], added[e].home, added[e].seq)
          /\ Has(added[f], added[e].home, added[e].seq)
      BY <2>2, <3>1, <3>2, <1>6 DEF Has
    <3>5. e = f
      BY <3>3, <3>4 DEF AddedDistinct
    <3>. QED BY <3>1, <3>2, <3>5
  <2>3. issued' = issued \cup new
    BY <1>1
  <2>. HIDE DEF new
  <2>. QED BY <2>1, <2>2, <2>3 DEF NeverReissued
<1>15. KeyUnique'
  <2>1. ASSUME NEW e \in Entities, NEW f \in Entities, NEW p \in Projects,
               NEW n \in Numbers, Has(rows'[e], p, n), Has(rows'[f], p, n)
        PROVE  e = f
    <3>1. CASE added[e] = None /\ added[f] = None
      BY <3>1, <2>1, <1>1 DEF KeyUnique
    <3>2. CASE added[e] # None /\ added[f] # None
      BY <3>2, <2>1, <1>1 DEF AddedDistinct
    <3>3. CASE (added[e] = None) # (added[f] = None)
      BY <3>3, <2>1, <1>1 DEF AddedDistinct
    <3>. QED BY <3>1, <3>2, <3>3
  <2>. QED BY <2>1 DEF KeyUnique
<1>. QED BY <1>7, <1>8, <1>10, <1>11, <1>12, <1>13, <1>14, <1>15

-----------------------------------------------------------------------------
(* The actions.                                                            *)

LEMMA InitHasInv == Init => KeyInv
<1>. SUFFICES ASSUME Init PROVE KeyInv
  OBVIOUS
<1>1. \A c \in Procs : /\ \A p \in Projects : tx[c].next[p] = None
                       /\ \A e \in Entities : tx[c].added[e] = None
  BY DEF Init, Empty
<1>2. SeqTypeOK
  BY SeqAssumption DEF Init, SeqTypeOK, Empty, Transaction
<1>3. LocksExclusive /\ OpenAhead /\ AddedUnderLock
  BY <1>1 DEF LocksExclusive, OpenAhead, AddedUnderLock
<1>4. AddedDistinct
  BY <1>1 DEF AddedDistinct, Has
<1>5. IssuedBehind /\ CounterAhead /\ NeverReissued /\ KeyUnique
  BY DEF Init, IssuedBehind, CounterAhead, NeverReissued, KeyUnique, Has
<1>. QED BY <1>2, <1>3, <1>4, <1>5 DEF KeyInv

\* A transaction's view of a counter is a number it may go on from.
LEMMA CounterType ==
  ASSUME SeqTypeOK, NEW c \in Procs, NEW p \in Projects
  PROVE  Counter(c, p) \in 1 .. MaxSeq + 1
BY DEF SeqTypeOK, Transaction, Counter

LEMMA InsertKeepsInv ==
  ASSUME KeyInv, NEW c \in Procs, NEW e \in Entities, NEW p \in Projects,
         InsertNumbered(c, e, p) \/ InsertRefused(c, e, p) \/ InsertIgnored(c, e, p)
  PROVE  KeyInv'
<1>. DEFINE n == Counter(c, p)
            row == [project |-> p, seq |-> n, home |-> p, auto |-> TRUE]
<1>1. n \in 1 .. MaxSeq + 1 /\ nextSeq[p] <= n /\ nextSeq[p] \in 1 .. MaxSeq + 1
  BY CounterType DEF KeyInv, OpenAhead, SeqTypeOK, Counter
<1>2. Absent(e) /\ LockFree(c, p) /\ n <= MaxSeq /\ UNCHANGED <<nextSeq, rows, issued>>
  BY DEF InsertNumbered, InsertRefused, InsertIgnored, Fresh
<1>3. n + 1 \in 1 .. MaxSeq + 1 /\ n \in Numbers /\ n <= n + 1
  BY <1>1, <1>2, SeqAssumption DEF Numbers
<1>4. CASE InsertNumbered(c, e, p)
  <2>1. row \in Row
    BY <1>3 DEF Row
  <2>2. ~Taken(c, p, n) /\ Numbered(c, p, n + 1, e, row)
    BY <1>4 DEF InsertNumbered
  <2>3. /\ row.project = p /\ row.home = p /\ row.seq < n + 1
        /\ nextSeq[p] <= row.seq /\ ~Taken(c, p, row.seq)
    BY <2>2, <1>1, <1>3
  <2>. HIDE DEF row, n
  <2>. QED BY <1>2, <1>3, <2>1, <2>2, <2>3, NumberedKeepsInv DEF n
<1>5. CASE InsertRefused(c, e, p)
  BY <1>5, <1>2, DroppingKeepsInv DEF InsertRefused
<1>6. CASE InsertIgnored(c, e, p)
  <2>1. Numbered(c, p, n + 1, e, None)
    BY <1>6 DEF InsertIgnored
  <2>. QED BY <1>2, <1>3, <2>1, NumberedKeepsInv
<1>. QED BY <1>4, <1>5, <1>6

LEMMA ImportKeepsInv ==
  ASSUME KeyInv, NEW c \in Procs, NEW e \in Entities, NEW p \in Projects,
         NEW n \in Numbers, Import(c, e, p, n)
  PROVE  KeyInv'
<1>. DEFINE next == Past(Counter(c, p), n)
            row == IF Taken(c, p, n) THEN None
                   ELSE [project |-> p, seq |-> n, home |-> p, auto |-> FALSE]
<1>1. Counter(c, p) \in 1 .. MaxSeq + 1
  BY CounterType DEF KeyInv
<1>2. next \in 1 .. MaxSeq + 1 /\ Counter(c, p) <= next /\ n < next
  BY <1>1, SeqAssumption DEF Past, Numbers
<1>3. row \in Row \cup {None}
  BY DEF Row
<1>4. /\ Absent(e) /\ LockFree(c, p) /\ Numbered(c, p, next, e, row)
      /\ UNCHANGED <<nextSeq, rows, issued>>
  BY DEF Import
<1>5. row # None => /\ row.project = p /\ row.home = p /\ row.seq < next
                    /\ row.auto => nextSeq[p] <= row.seq
                    /\ ~Taken(c, p, row.seq)
  <2>. HIDE DEF next
  <2>. QED BY <1>2
<1>. HIDE DEF next, row
<1>. QED BY <1>2, <1>3, <1>4, <1>5, NumberedKeepsInv

\* A move takes a number that is neither committed nor drawn in the target.
LEMMA MoveKeepsInv ==
  ASSUME KeyInv, NEW e \in Entities, NEW p \in Projects \cup {None}, Move(e, p)
  PROVE  KeyInv'
<1>. USE DEF KeyInv
<1>1. rows[e] \in Row
  BY DEF Move, SeqTypeOK
<1>2. \A f \in Entities : rows'[f] = IF f = e THEN [rows[e] EXCEPT !.project = p] ELSE rows[f]
  BY DEF Move, SeqTypeOK
<1>3. /\ rows'[e] \in Row /\ rows'[e].seq = rows[e].seq
      /\ rows'[e].home = rows[e].home /\ rows'[e].project = p
  BY <1>1, <1>2 DEF Row
<1>4. SeqTypeOK'
  BY <1>3 DEF Move, SeqTypeOK
<1>5. LocksExclusive' /\ OpenAhead' /\ AddedUnderLock' /\ IssuedBehind' /\ NeverReissued'
  BY DEF Move, LocksExclusive, OpenAhead, AddedUnderLock, IssuedBehind, NeverReissued
<1>6. CounterAhead'
  <2>1. ASSUME NEW f \in Entities, rows'[f] # None
        PROVE  rows'[f].seq < nextSeq'[rows'[f].home]
    <3>1. CASE f = e
      BY <3>1, <1>3 DEF Move, CounterAhead
    <3>2. CASE f # e
      BY <3>2, <2>1, <1>2 DEF Move, CounterAhead
    <3>. QED BY <3>1, <3>2
  <2>. QED BY <2>1 DEF CounterAhead
<1>7. AddedDistinct'
  <2>1. ASSUME NEW d \in Procs, NEW f \in Entities, NEW g \in Entities,
               NEW q \in Projects, NEW n \in Numbers,
               Has(tx'[d].added[f], q, n), Has(rows'[g], q, n)
        PROVE  FALSE
    <3>1. CASE g # e
      BY <3>1, <2>1, <1>2 DEF Move, AddedDistinct
    <3>2. CASE g = e
      <4>1. q = p /\ n = rows[e].seq
        BY <3>2, <2>1, <1>3 DEF Has
      <4>2. p \in Projects
        BY <4>1
      <4>3. p # None
        BY <4>2, SeqAssumption
      <4>. QED BY <4>1, <4>3, <2>1 DEF Move
    <3>. QED BY <3>1, <3>2
  <2>. QED BY <2>1 DEF Move, AddedDistinct
<1>8. KeyUnique'
  <2>1. ASSUME NEW f \in Entities, NEW q \in Projects, NEW n \in Numbers,
               Has(rows'[e], q, n), Has(rows'[f], q, n), f # e
        PROVE  FALSE
    <3>1. q = p /\ n = rows[e].seq /\ rows'[f] = rows[f]
      BY <2>1, <1>2, <1>3 DEF Has
    <3>2. p # None
      BY <3>1, SeqAssumption
    <3>3. ~Has(rows[f], p, rows[e].seq)
      BY <3>2 DEF Move
    <3>. QED BY <3>1, <3>3, <2>1
  <2>2. ASSUME NEW f \in Entities, NEW g \in Entities, NEW q \in Projects,
               NEW n \in Numbers, Has(rows'[f], q, n), Has(rows'[g], q, n),
               f # e, g # e
        PROVE  f = g
    BY <2>2, <1>2 DEF KeyUnique
  <2>. QED BY <2>1, <2>2 DEF KeyUnique
<1>. QED BY <1>4, <1>5, <1>6, <1>7, <1>8

LEMMA PurgeKeepsInv ==
  ASSUME KeyInv, NEW e \in Entities, Purge(e)
  PROVE  KeyInv'
<1>. USE DEF KeyInv
<1>1. \A f \in Entities : rows'[f] = IF f = e THEN None ELSE rows[f]
  BY DEF Purge, SeqTypeOK
<1>2. SeqTypeOK'
  BY DEF Purge, SeqTypeOK
<1>3. LocksExclusive' /\ OpenAhead' /\ AddedUnderLock' /\ IssuedBehind' /\ NeverReissued'
  BY DEF Purge, LocksExclusive, OpenAhead, AddedUnderLock, IssuedBehind, NeverReissued
<1>4. AddedDistinct' /\ CounterAhead' /\ KeyUnique'
  BY <1>1 DEF Purge, AddedDistinct, CounterAhead, KeyUnique, Has
<1>. QED BY <1>2, <1>3, <1>4

LEMMA NextKeepsInv == KeyInv /\ [Next]_vars => KeyInv'
<1>. SUFFICES ASSUME KeyInv, [Next]_vars PROVE KeyInv'
  OBVIOUS
<1>1. CASE UNCHANGED vars
  BY <1>1 DEF vars, KeyInv, SeqTypeOK, LocksExclusive, OpenAhead, AddedUnderLock,
       AddedDistinct, IssuedBehind, CounterAhead, NeverReissued, KeyUnique
<1>2. ASSUME NEW c \in Procs, NEW e \in Entities, NEW p \in Projects,
             InsertNumbered(c, e, p) \/ InsertRefused(c, e, p) \/ InsertIgnored(c, e, p)
      PROVE  KeyInv'
  BY <1>2, InsertKeepsInv
<1>3. ASSUME NEW c \in Procs, NEW e \in Entities, NEW p \in Projects,
             NEW n \in Numbers, Import(c, e, p, n)
      PROVE  KeyInv'
  BY <1>3, ImportKeepsInv
<1>4. ASSUME NEW c \in Procs, Commit(c) PROVE KeyInv'
  BY <1>4, CommitKeepsInv
<1>5. ASSUME NEW c \in Procs, Rollback(c) PROVE KeyInv'
  BY <1>5, DroppingKeepsInv DEF Rollback
<1>6. ASSUME NEW e \in Entities, Purge(e) PROVE KeyInv'
  BY <1>6, PurgeKeepsInv
<1>7. ASSUME NEW e \in Entities, NEW p \in Projects \cup {None}, Move(e, p) PROVE KeyInv'
  BY <1>7, MoveKeepsInv
<1>. QED BY <1>1, <1>2, <1>3, <1>4, <1>5, <1>6, <1>7 DEF Next

-----------------------------------------------------------------------------
(* The theorems.                                                           *)

LEMMA KeyInvAlways == Spec => []KeyInv
BY InitHasInv, NextKeepsInv, PTL DEF Spec

\* A KEY-SEQ names one entity: with any number of connections inserting,
\* importing and moving, no two committed rows share a project and a number.
THEOREM KeysAreUnique == Spec => []KeyUnique
<1>1. KeyInv => KeyUnique
  BY DEF KeyInv
<1>. QED BY <1>1, KeyInvAlways, PTL

\* A counter gives a number out once, whatever is purged, moved, imported or
\* rolled back in the meantime.
THEOREM NumbersAreNeverReissued == Spec => []NeverReissued
<1>1. KeyInv => NeverReissued
  BY DEF KeyInv
<1>. QED BY <1>1, KeyInvAlways, PTL

\* A counter stays ahead of every number inserted into its project, by the
\* trigger or by an import.
THEOREM CountersStayAhead == Spec => []CounterAhead
<1>1. KeyInv => CounterAhead
  BY DEF KeyInv
<1>. QED BY <1>1, KeyInvAlways, PTL

\* The state keeps its shape: counters within the bound, each row numbered in
\* a project or in none, each transaction's rows its own.
THEOREM KeysKeepShape == Spec => []SeqTypeOK
<1>1. KeyInv => SeqTypeOK
  BY DEF KeyInv
<1>. QED BY <1>1, KeyInvAlways, PTL
=============================================================================
