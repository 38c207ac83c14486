-------------------------- MODULE MCE2Registration --------------------------
(***************************************************************************)
(* E2Registration for TLC in three set-ups.  Chaotic: random delays,       *)
(* messages that overtake each other, every node and the RIC stopped and   *)
(* restarted at any time.  Ordered: the same, but the RIC's messages have  *)
(* a constant delay.  Punctual: constant delays, a round trip shorter than *)
(* the registration interval, a RIC that keeps running and a node that is  *)
(* not deactivated.                                                        *)
(***************************************************************************)
EXTENDS E2Registration

CONSTANTS n1, n2

Chaotic ==
  [mayDeactivate |-> Node, ricStops |-> TRUE, txDelays |-> {0, 1}, ricDelays |-> {0, 1},
   regIntervals |-> {2}, checkIntervals |-> {2}, threshold |-> 2, ageCap |-> 3,
   maxId |-> 2, maxEvents |-> 3]

Ordered == [Chaotic EXCEPT !.ricDelays = {1}]

Punctual ==
  [mayDeactivate |-> {n1}, ricStops |-> FALSE, txDelays |-> {1}, ricDelays |-> {1},
   regIntervals |-> {3, 4}, checkIntervals |-> {2}, threshold |-> 4, ageCap |-> 7,
   maxId |-> 3, maxEvents |-> 4]

MCSetups == {Chaotic, Ordered, Punctual}
OnlyPunctual == {Punctual}
=============================================================================
