--------------------------- MODULE MCControlLoop ---------------------------
(***************************************************************************)
(* Instances of ControlLoop for TLC, in two set-ups of three cells and up  *)
(* to two UEs.                                                             *)
(*  - cells: all cells are woken and put to sleep, and lists are lost or   *)
(*    the orchestrator restarted, while one UE is handed over and the      *)
(*    other one stays; rows are written as soon as they are generated.     *)
(*  - ues: both UEs are handed over, between cells 1 and 2, of which one   *)
(*    may sleep, while cell 3 stays as it is; no fault, but anything may   *)
(*    happen between two rows.                                             *)
(***************************************************************************)
EXTENDS ControlLoop

VARIABLE setup

mcVars == <<vars, setup>>

\* Report intervals of the set-up "ues".
UesMaxSim == 3

\* The commands the orchestrator may write in the set-up.
Allowed(a) ==
  IF setup = "cells" THEN a.type = "ho" => a.ue = 1
  ELSE IF a.type = "ho" THEN a.target # 3 ELSE a.cell # 3

MCInit ==
  /\ Init
  /\ setup \in {"cells", "ues"}
  /\ \A u \in Ue : serving[u] = 1 \/ (setup = "ues" /\ u = 2 /\ serving[u] = 2)

MCNext ==
  /\ Next
  /\ UNCHANGED setup
  /\ \A a \in ToSet(toWrite') : Allowed(a)
  /\ setup = "ues" => faults' = 0 /\ sim' <= UesMaxSim
  /\ setup = "cells" /\ due # {} => due' # due

MCSpec == MCInit /\ [][MCNext]_mcVars
=============================================================================
