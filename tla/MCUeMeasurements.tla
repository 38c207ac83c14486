-------------------------- MODULE MCUeMeasurements --------------------------
(***************************************************************************)
(* UeMeasurements for TLC: two serving cells and a neighbour, one           *)
(* measurement id, and the configurations of eNBs that watch one event.    *)
(***************************************************************************)
EXTENDS UeMeasurements, TLC

Level(a, b, c) == 1 :> a @@ 2 :> b @@ 3 :> c

\* The serving cell is the strongest, as strong as its neighbours, or the
\* weakest; one neighbour is heard or none.
SomeReports ==
  {Level(-90, -100, -100), Level(-95, -95, -90), Level(-100, -90, -90),
   Level(-100, -90, -95), 1 :> -95 @@ 3 :> -90, 1 :> -90, 2 :> -95}

Event(id, threshold1, threshold2, timeToTrigger, reportOnLeave) ==
  [id |-> id, threshold1 |-> threshold1, threshold2 |-> threshold2, a3Offset |-> 0,
   hysteresis |-> 2, timeToTrigger |-> timeToTrigger, reportOnLeave |-> reportOnLeave]

\* An eNB sends its whole configuration whenever it sends one.
Whole(e) ==
  [objectsToRemove |-> {}, objectsToAdd |-> {1},
   configsToRemove |-> {}, configsToAdd |-> 1 :> e, quantity |-> TRUE,
   idsToRemove |-> {}, idsToAdd |-> 1 :> [object |-> 1, config |-> 1]]

Immediate == Whole(Event("A3", 0, 0, 0, TRUE))
Waiting == Whole(Event("A3", 0, 0, 3, TRUE))

\* The measurement id is removed.
Removal == [Immediate EXCEPT !.objectsToAdd = {}, !.configsToAdd = Nothing,
  !.quantity = FALSE, !.idsToRemove = {1}, !.idsToAdd = Nothing]

\* Two measurement ids.
Two == [Waiting EXCEPT
  !.configsToAdd = @ @@ 2 :> Event("A1", -95, 0, 1, FALSE),
  !.idsToAdd = @ @@ 2 :> [object |-> 1, config |-> 2]]

SomeMessages ==
  {Two, Immediate, Waiting, Removal, Whole(Event("A1", -95, 0, 1, FALSE)),
   Whole(Event("A2", -95, 0, 2, FALSE)), Whole(Event("A4", -95, 0, 2, FALSE)),
   Whole(Event("A5", -95, -95, 2, FALSE)), Whole(Event("A5", -95, -95, 0, FALSE))}

SomeCios == {<<1, 2, 6>>, <<1, 3, -30>>}

=============================================================================
