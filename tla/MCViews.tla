------------------------------ MODULE MCViews ------------------------------
(***************************************************************************)
(* Three rows, one project besides the rows without one, two or three      *)
(* days, and every sequence of a few writes between the ticks.             *)
(***************************************************************************)
EXTENDS Views
=============================================================================
