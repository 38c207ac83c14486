--------------------------- MODULE MCLmQueryCycle ---------------------------
(***************************************************************************)
(* LmQueryCycle for TLC in four set-ups.  Periodic and Triggers have a     *)
(* wait time and drop late commands, Triggers has query triggers too.  In  *)
(* Restart the RIC has no wait time and is stopped, started again,         *)
(* activated and deactivated.  In Dynamic two LMs are added, removed and   *)
(* replaced as well, with a wait time and late commands kept.              *)
(***************************************************************************)
EXTENDS LmQueryCycle

CONSTANTS lmA, lmB, lmC

Periodic ==
  [lms |-> LM, additional |-> {lmB, lmC}, interval |-> 3, maxWait |-> 2,
   delays |-> {0, 2, 3}, policy |-> "DROP", triggers |-> FALSE, restarts |-> FALSE,
   redeploys |-> FALSE, maxTime |-> 9, maxQueries |-> 3]

Triggers == [Periodic EXCEPT !.triggers = TRUE]

Restart ==
  [Triggers EXCEPT !.additional = {lmB}, !.interval = 2, !.maxWait = 0,
                   !.delays = {1, 2, 3}, !.restarts = TRUE, !.maxTime = 6]

Dynamic ==
  [Restart EXCEPT !.lms = {lmA, lmB}, !.additional = {}, !.interval = 1, !.maxWait = 1,
                  !.delays = {0, 2}, !.policy = "SAVE", !.redeploys = TRUE,
                  !.maxTime = 4, !.maxQueries = 2]

MCSetups == {Periodic, Triggers, Restart, Dynamic}
=============================================================================
