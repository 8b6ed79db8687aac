----------------------------- MODULE MCWorkspace -----------------------------
(***************************************************************************)
(* The workspace as it is copied and as it is read, in one run: the two    *)
(* share no state, and a behaviour is about one of them.                   *)
(*                                                                         *)
(* The views are over three rows, one project besides the rows without     *)
(* one, two or three days, and every sequence of a few writes between the  *)
(* ticks.                                                                  *)
(***************************************************************************)
EXTENDS MCTransfer, Views

VARIABLE part

workspaceVars == <<part, transferVars, viewsVars>>

\* The part a behaviour is not about stays in one initial state.
WorkspaceInit ==
    /\ part \in {"copied", "read"} /\ TransferInit /\ ViewsInit
    /\ part = "copied" => task = <<>>
    /\ part = "read" => target = Empty

WorkspaceNext ==
    \/ part = "copied" /\ TransferNext /\ UNCHANGED <<part, viewsVars>>
    \/ part = "read" /\ ViewsNext /\ UNCHANGED <<part, transferVars>>

WorkspaceSpec == WorkspaceInit /\ [][WorkspaceNext]_workspaceVars

\* Both parts keep their shape.
WorkspaceTypeOK == TransferTypeOK /\ ViewsTypeOK
=============================================================================
