------------------------- MODULE MCHandoverSteering -------------------------
(***************************************************************************)
(* HandoverSteering with the reporter of HoAndDwell, for one or two UEs in *)
(* two or three cells, in these set-ups:                                   *)
(*   Late:     the handover filter and one Logic Module; queries do not    *)
(*             wait for the reports of the last orders;                    *)
(*   Timely:   one Logic Module without a filter, eNBs refuse, the         *)
(*             strongest cell changes, and the reporter watches;           *)
(*   Conflict: two Logic Modules and one command per node;                 *)
(*   Roaming:  periodic reports, late queries, links lost; orders reach    *)
(*             eNBs that cannot execute them;                              *)
(*   Traced:   eNBs hand over on their own, links are lost, and the        *)
(*             reporter watches.                                           *)
(***************************************************************************)
EXTENDS HoAndDwell

Base == [ues |-> {1}, cells |-> {1, 2}, cmm |-> "noop", lms |-> {1},
         trigger |-> "handover", timely |-> TRUE, prompt |-> FALSE, settled |-> TRUE,
         refuses |-> FALSE, loses |-> FALSE, moves |-> FALSE, places |-> 12]

Crowded == [Base EXCEPT !.ues = {1, 2}, !.cells = {1, 2, 3}]
Late == [Crowded EXCEPT !.cmm = "handover", !.timely = FALSE, !.prompt = TRUE]
Timely == [Base EXCEPT !.cells = {1, 2, 3}, !.refuses = TRUE, !.settled = FALSE]
Conflict == [Crowded EXCEPT !.cmm = "single", !.lms = {1, 2}, !.places = 6]
Roaming == [Base EXCEPT !.trigger = "periodic", !.timely = FALSE, !.loses = TRUE, !.places = 4]
Traced == [Base EXCEPT !.loses = TRUE, !.moves = TRUE, !.places = 1]

MCSetups == {Late, Timely, Conflict, Roaming, Traced}
MCWatched == {Timely, Traced}
=============================================================================
