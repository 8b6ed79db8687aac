-------------------------------- MODULE Copy --------------------------------
(***************************************************************************)
(* What an import promises, whatever the tables: rows are offered, each    *)
(* attempt brings some of them over, never anything else, and an attempt   *)
(* that reports its end has accounted for every row that was offered: it   *)
(* is there, or the report names it as left out because another workspace  *)
(* has it or for what it lacks, or somebody removed it meanwhile.          *)
(***************************************************************************)
VARIABLES
    offered,   \* rows of the dump
    have,      \* those of them that are in the workspace
    refused,   \* those this attempt has reported and not brought
    removed,   \* those somebody deleted from the workspace meanwhile
    stage      \* "offering", then "running" or "finished" for each attempt

copyVars == <<offered, have, refused, removed, stage>>

CopyInit ==
    offered = {} /\ have = {} /\ refused = {} /\ removed = {} /\ stage = "offering"

\* The dump is written before the import begins: a row of it may be in the
\* workspace already, and no other row comes to it.
Offer == /\ stage = "offering"
         /\ offered \subseteq offered'
         /\ have' \subseteq offered' /\ have' \cap offered = have
         /\ UNCHANGED <<refused, removed, stage>>

\* Fault: the file loses its end on the way.
Cut == /\ stage = "offering"
       /\ offered' \subseteq offered /\ have' = have \cap offered'
       /\ UNCHANGED <<refused, removed, stage>>

Begin == /\ stage' = "running"
         /\ refused' = {} /\ removed' = {}
         /\ UNCHANGED <<offered, have>>

Deliver == /\ stage = "running"
           /\ have \subseteq have' /\ have' \subseteq offered
           /\ refused \subseteq refused' /\ refused' \subseteq offered
           /\ UNCHANGED <<offered, removed, stage>>

Delete == /\ stage = "running"
          /\ have' \subseteq have
          /\ removed' = removed \cup (have \ have')
          /\ UNCHANGED <<offered, refused, stage>>

Finish == /\ stage = "running" /\ stage' = "finished"
          /\ offered \subseteq have \cup refused \cup removed
          /\ UNCHANGED <<offered, have, refused, removed>>

CopyNext == Offer \/ Cut \/ Begin \/ Deliver \/ Delete \/ Finish

CopySpec == CopyInit /\ [][CopyNext]_copyVars
=============================================================================
