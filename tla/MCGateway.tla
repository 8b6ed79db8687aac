------------------------------ MODULE MCGateway ------------------------------
(* Every call with its required arguments and each of the others, against a *)
(* daemon that may stop and a caller that repeats what failed.  Some         *)
(* arguments matter together: those that exclude each other, the two ends    *)
(* of a cadence, and the key of a call with what it may only do once.        *)
EXTENDS Gateway

MCTogether ==
    {{"body", "bodyAppend"}, {"rrule", "until", "count"}, {"preset", "dtstart"},
     {"supersedes", "idempotencyKey"}, {"parentId", "idempotencyKey"},
     {"projectId", "projectIds"}}
=============================================================================
