------------------------------- MODULE MCWeb --------------------------------
(* The clients in one run: the two parts of the browser tab and the command. *)
(* They share no state here: a behaviour is about a query and the calls that *)
(* concern it, about the drawer, or about a command.                         *)
EXTENDS QueryCache, Drawer, CommandLine

VARIABLE part

webVars == <<part, cacheVars, drawerVars, cliVars>>

\* The parts a behaviour is not about stay in one initial state.
Still == command = [name |-> "projects", option |-> "plain"] /\ token

WebInit ==
  /\ part \in {"cache", "drawer", "command"}
  /\ CacheInit /\ DrawerInit /\ CommandLineInit
  /\ part # "cache" => watched = "entity"
  /\ part # "command" => Still

WebNext ==
  \/ part = "cache" /\ CacheNext /\ UNCHANGED <<part, drawerVars, cliVars>>
  \/ part = "drawer" /\ DrawerNext /\ UNCHANGED <<part, cacheVars, cliVars>>
  \/ /\ part = "command" /\ CommandLineNext
     /\ UNCHANGED <<part, cacheVars, drawerVars>>

WebSpec ==
  WebInit /\ [][WebNext]_webVars /\ CacheFairness /\ DrawerFairness

\* Every part keeps its shape.
WebTypeOK == CacheTypeOK /\ DrawerTypeOK /\ CommandLineTypeOK
=============================================================================
