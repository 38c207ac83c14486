-------------------------- MODULE MCActionPipeline --------------------------
(***************************************************************************)
(* What comes of the proposals of the agents.                              *)
(*  - The command list of one cycle (CommandList), for every small input.  *)
(*  - The offsets of module CioControl over several cycles.                *)
(* A behaviour is about one of the two.                                    *)
(***************************************************************************)
EXTENDS CommandList, CioControl

VARIABLE part  \* what the behaviour is about: "list" or "offsets"

vars == <<part, listVars, cioVars>>

Init == part \in {"list", "offsets"} /\ ListInit /\ CioInit

Next ==
  \/ part = "list" /\ ListNext /\ UNCHANGED <<part, cioVars>>
  \/ part = "offsets" /\ CioNext /\ UNCHANGED <<part, listVars>>

Spec == Init /\ [][Next]_vars
=============================================================================
