----------------------------- MODULE MCTransfer -----------------------------
EXTENDS Transfer

MCRow(type, id, key, needs, link) ==
    [type |-> type, id |-> id, key |-> key, needs |-> needs, link |-> link]

\* A project, a task of it that comes before its parent in the order of ids,
\* and one row of each kind that depends on them.
MCSource ==
    {MCRow("project", 1, "KEY", {}, NoLink),
     MCRow("entity", 2, "KEY-1", {1}, 3),
     MCRow("entity", 3, NoKey, {}, NoLink),
     MCRow("edge", 4, NoKey, {2, 3}, NoLink),
     MCRow("recurrence_rule", 5, "of 3", {3}, 2),
     MCRow("recurrence_exception", 6, NoKey, {5}, 2),
     MCRow("entity_revision", 7, "2.1", {2}, NoLink),
     MCRow("settings", 8, NoKey, {}, NoLink)}

\* What else may be written to the source: a task, and a revision of it.
MCUniverse == MCSource \cup {MCRow("entity", 9, NoKey, {1}, 2),
                             MCRow("entity_revision", 10, "9.1", {9}, NoLink)}
MCSources == {MCSource}

Empty == [here |-> {}, other |-> {}]
\* The key of the project is taken here, or a series by another workspace.
Taken == [here |-> {MCRow("project", 11, "KEY", {}, NoLink)}, other |-> {}]
Foreign == [here |-> {}, other |-> {MCRow("entity", 3, NoKey, {}, NoLink),
                                    MCRow("recurrence_rule", 5, "of 3", {3}, NoLink),
                                    MCRow("recurrence_exception", 6, NoKey, {5}, NoLink)}]
MCTargets == {Empty, Taken, Foreign}
JustEmpty == {Empty}

\* A rule for the series, set up here while the import is on its way.
MCSquatters == {MCRow("recurrence_rule", 12, "of 3", {3}, NoLink),
                MCRow("entity_revision", 13, "2.1", {2}, NoLink)}
=============================================================================
