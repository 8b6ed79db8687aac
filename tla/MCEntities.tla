---------------------------- MODULE MCEntities ----------------------------
EXTENDS Entities, TLC
CONSTANTS t1, Parents, Clear

\* A plain task, and what a new entity may have besides: one thing at a time.
Plain == [kind |-> "task", status |-> "open", parent |-> None, key |-> None]
WritesOfOneField ==
  {Plain, [Plain EXCEPT !.status = "done"]}
    \cup {[Plain EXCEPT !.kind = k, !.parent = e] : k \in {"note", "comment"}, e \in Parents}
    \cup {[Plain EXCEPT !.key = k] : k \in Keys}

\* An update of one field.
Untouched == [mode |-> "keep", text |-> t1, status |-> Keep, stamp |-> Keep, parent |-> Keep]
EditsOfOneField ==
  {[Untouched EXCEPT !.mode = m, !.text = t] : m \in {"set", "append", "space"}, t \in Texts}
    \cup {[Untouched EXCEPT !.status = s] : s \in Statuses}
    \cup {[Untouched EXCEPT !.stamp = b] : b \in BOOLEAN}
    \cup {[Untouched EXCEPT !.parent = e] : e \in Parents \cup Clear}

EntitySymmetry == Permutations(Procs) \cup Permutations(Ids)
=============================================================================
