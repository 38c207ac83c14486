--------------------------- MODULE UeMeasurements ---------------------------
(***************************************************************************)
(* Measurement configuration and event triggered reporting of the UE       *)
(* (LteUeRrc, ns3/src/lte/model/lte-ue-rrc.cc) with the cell individual    *)
(* offsets of CioStore, which the agents set from outside while triggers   *)
(* are pending.                                                            *)
(*                                                                         *)
(* A measurement id triggers for a cell when the cell fulfils the entering *)
(* condition of its event during the time-to-trigger, and is reported      *)
(* periodically until the cell has fulfilled the leaving condition as      *)
(* long.  Each measurement that starts such a wait appends a PendingTrigger*)
(* with the cells concerned to a queue and schedules an event with a copy  *)
(* of these cells; cancelling a cell changes the queue only.               *)
(*                                                                         *)
(* Time is counted in measurements: the time-to-trigger t of an event is 0 *)
(* or ends after the t-th measurement, counted from the one that starts it,*)
(* and before the next (no value of it is a multiple of the measurement    *)
(* period of the PHY).  Everything is on one carrier.  The PHY reports the *)
(* serving cell in each measurement.  The layer 3 filter yields a value    *)
(* between the stored and the new one; as any level may be measured, that  *)
(* is one of the levels measured here too.                                 *)
(***************************************************************************)
EXTENDS Integers, Sequences, SequencesExt

CONSTANTS
  Cell,       \* the cells
  MeasId,     \* the measurement ids
  Reports,    \* the measurements the PHY may report: cells to levels (dBm)
  Messages,   \* the measurement configurations the eNBs may send
  Cios        \* the set_cio commands: <<source, neighbour, offset>>

MaxTimeToTrigger == 3

\* 0 is no cell: it stands for the UE not being connected.
ASSUME CellAssumption ==
  /\ 0 \notin Cell
  /\ \A f \in Reports : DOMAIN f \subseteq Cell
  /\ \A o \in Cios : o[1] \in Cell /\ o[2] \in Cell /\ o[3] \in Int

\* An eNB that configures measurement ids sends its whole configuration
\* (LteEnbRrc::m_ueMeasConfig): their objects and report configurations, and
\* the quantity configuration.
ASSUME MessageAssumption ==
  \A mc \in Messages :
    /\ DOMAIN mc.idsToAdd \subseteq MeasId
    /\ \A i \in DOMAIN mc.idsToAdd : /\ mc.quantity
                                     /\ mc.idsToAdd[i].object \in mc.objectsToAdd
                                     /\ mc.idsToAdd[i].config \in DOMAIN mc.configsToAdd
    /\ \A c \in DOMAIN mc.configsToAdd :
         mc.configsToAdd[c].timeToTrigger \in 0 .. MaxTimeToTrigger

VARIABLES
  cellId,         \* m_cellId; 0 while the UE is not connected
  measValues,     \* m_storedMeasValues
  measObjects,    \* m_varMeasConfig.measObjectList: its keys
  reportConfigs,  \* m_varMeasConfig.reportConfigList: ids to events
  measIds,        \* m_varMeasConfig.measIdList: ids to object and report config
  report,         \* per measurement id: its entry in m_varMeasReportList, the
                  \* queues of pending triggers and the scheduled events
  cio,            \* g_cio: pairs of cells to offsets
  clock,          \* the number of measurements made modulo 2: time passes also
                  \* when a measurement changes nothing else
  fatal           \* an NS_ASSERT failed

configVars == <<measObjects, reportConfigs, measIds>>
vars == <<cellId, measValues, configVars, report, cio, clock, fatal>>

Nothing == [x \in {} |-> 0]

\* No trigger is pending.
Idle == [queue |-> <<>>, events |-> {}]

\* No entry (no cell has triggered, the report timer is off), no trigger.
Quiet == [triggered |-> {}, timer |-> "off", entering |-> Idle, leaving |-> Idle]

\* A pending trigger of at most n measurements.
TriggerOf(t, n) == t.cells \in (SUBSET Cell) \ {{}} /\ t.left \in 0 .. n

TypeOK ==
  /\ cellId \in Cell \cup {0}
  /\ DOMAIN measValues \subseteq Cell
  /\ \A i \in DOMAIN measIds : measIds[i].object \in measObjects
                               /\ measIds[i].config \in DOMAIN reportConfigs
  /\ DOMAIN report = MeasId
  /\ \A i \in MeasId :
       /\ report[i].triggered \subseteq Cell
       /\ report[i].timer \in {"off", "soon", "interval"}
       /\ \A q \in {report[i].entering, report[i].leaving} :
            /\ \A t \in Range(q.queue) \cup q.events : TriggerOf(t, MaxTimeToTrigger)
            /\ Len(q.queue) <= MaxTimeToTrigger
  /\ \A p \in DOMAIN cio : p \in Cell \X Cell /\ cio[p] \in -24 .. 24
  /\ clock \in {0, 1}
  /\ fatal \in BOOLEAN

Init ==
  /\ cellId = 0
  /\ measValues = Nothing
  /\ measObjects = {}
  /\ reportConfigs = Nothing
  /\ measIds = Nothing
  /\ report = [i \in MeasId |-> Quiet]
  /\ cio = Nothing
  /\ clock = 0
  /\ fatal = FALSE

-----------------------------------------------------------------------------
(***************************************************************************)
(* The queues of pending triggers.                                         *)
(***************************************************************************)

\* The elements of s at the positions in K, in their order.
Kept(s, K) ==
  [n \in 1 .. Cardinality(K) |->
     s[CHOOSE k \in K : Cardinality({j \in K : j < k}) = n - 1]]

\* CancelEnteringTrigger and CancelLeavingTrigger for these cells: they are
\* removed from the triggers; a trigger without cells is removed and its
\* event cancelled.  (The loop steps over the erased element of a list; with
\* libstdc++ it still ends and skips no other cell of the list, where each
\* cell occurs once.)
CancelTrigger(q, cells) ==
  LET rest == [k \in DOMAIN q.queue |-> [q.queue[k] EXCEPT !.cells = @ \ cells]]
      gone == {rest[k].left : k \in {j \in DOMAIN rest : rest[j].cells = {}}}
  IN [queue |-> Kept(rest, {k \in DOMAIN rest : rest[k].cells # {}}),
      events |-> {e \in q.events : e.left \notin gone}]

\* Another trigger, to fire before measurement left + 1 from now.
Schedule(q, cells, left) ==
  LET t == [cells |-> cells, left |-> left]
  IN [queue |-> Append(q.queue, t), events |-> q.events \cup {t}]

\* Mutant of PopFront: later triggers stay.
MutLaterKept(q, cells) == IF q.queue = <<>> THEN q ELSE [q EXCEPT !.queue = Tail(@)]

\* The first trigger fired for these cells: later triggers for them are
\* cancelled.
PopFront(q, cells) ==
  IF q.queue = <<>> THEN q ELSE CancelTrigger([q EXCEPT !.queue = Tail(@)], cells)

\* One more measurement has been made.
Elapsed(q) ==
  [queue |-> [k \in DOMAIN q.queue |-> [q.queue[k] EXCEPT !.left = @ - 1]],
   events |-> {[e EXCEPT !.left = @ - 1] : e \in q.events}]

\* The events that fire before the next measurement.
Due(q) == {e \in q.events : e.left = 0}

-----------------------------------------------------------------------------
(***************************************************************************)
(* The entries of the report list.                                         *)
(***************************************************************************)

\* VarMeasReportListAdd: the first report follows after
\* UE_MEASUREMENT_REPORT_DELAY unless reports are sent already.
VarMeasReportListAdd(r, cells) ==
  [r EXCEPT !.triggered = @ \cup cells,
            !.timer = IF @ = "off" THEN "soon" ELSE @,
            !.entering = PopFront(@, cells)]

\* Mutant of VarMeasReportListErase: an entry without cells keeps its timer.
MutTimerKept(r, cells, reportOnLeave) ==
  [r EXCEPT !.triggered = @ \ cells,
            !.timer = IF reportOnLeave THEN "interval" ELSE @,
            !.leaving = PopFront(@, cells)]

\* VarMeasReportListErase: a report at once if reportOnLeave, which also
\* schedules the next one; an entry without cells is removed with its timer.
VarMeasReportListErase(r, cells, reportOnLeave) ==
  [r EXCEPT !.triggered = @ \ cells,
            !.timer = IF r.triggered \subseteq cells THEN "off"
                      ELSE IF reportOnLeave THEN "interval" ELSE @,
            !.leaving = PopFront(@, cells)]

\* Mutant of VarMeasReportListClear: the queues are emptied, but the events
\* are not cancelled.
MutEventsKept(ids) ==
  [i \in MeasId |->
     IF i \in ids THEN [Quiet EXCEPT !.entering.events = report[i].entering.events,
                                    !.leaving.events = report[i].leaving.events]
     ELSE report[i]]

\* VarMeasReportListClear, for each of these measurement ids.
VarMeasReportListClear(ids) == [i \in MeasId |-> IF i \in ids THEN Quiet ELSE report[i]]

-----------------------------------------------------------------------------
(***************************************************************************)
(* The conditions of the events, with the measurements m.                  *)
(***************************************************************************)

\* The event of a measurement id.
EventOf(i) == reportConfigs[measIds[i].config]

\* CioStore::Get for the serving cell and a neighbour.
Ocn(c) == IF <<cellId, c>> \in DOMAIN cio THEN cio[<<cellId, c>>] ELSE 0

\* The cells an event looks at: the serving cell, or its neighbours.
Concerned(e, m) == IF e.id \in {"A1", "A2"} THEN {cellId} ELSE DOMAIN m \ {cellId}

EntryCond(e, m, c) ==
  CASE e.id = "A1" -> m[c] - e.hysteresis > e.threshold1
    [] e.id = "A2" -> m[c] + e.hysteresis < e.threshold1
    [] e.id = "A3" -> m[c] + Ocn(c) - e.hysteresis > m[cellId] + e.a3Offset
    [] e.id = "A4" -> m[c] + Ocn(c) - e.hysteresis > e.threshold1
    [] e.id = "A5" -> /\ m[cellId] + e.hysteresis < e.threshold1
                      /\ m[c] + Ocn(c) - e.hysteresis > e.threshold2

\* Leaving conditions 1 and 2 of event A5.
ServingLeaves(e, m) == m[cellId] - e.hysteresis > e.threshold1
NeighbourLeaves(e, m, c) == m[c] + Ocn(c) + e.hysteresis < e.threshold2

LeavingCond(e, m, c) ==
  CASE e.id = "A1" -> m[c] + e.hysteresis < e.threshold1
    [] e.id = "A2" -> m[c] - e.hysteresis > e.threshold1
    [] e.id = "A3" -> m[c] + Ocn(c) + e.hysteresis < m[cellId] + e.a3Offset
    [] e.id = "A4" -> m[c] + Ocn(c) + e.hysteresis < e.threshold1
    [] e.id = "A5" -> ServingLeaves(e, m) \/ NeighbourLeaves(e, m, c)

\* Mutant of NotEntering: every measurement starts the wait again.
MutStartedAgain(e, m) == Concerned(e, m)

\* The cells whose waits to enter, and to leave, are cancelled.  Event A5
\* cancels all waits to leave unless the serving cell fulfils condition 1,
\* and otherwise those of the neighbours that do not fulfil condition 2.
NotEntering(e, m) == {c \in Concerned(e, m) : ~EntryCond(e, m, c)}

NotLeaving(e, m, triggered) ==
  IF e.id # "A5" THEN {c \in Concerned(e, m) : ~LeavingCond(e, m, c)}
  ELSE IF triggered = {} THEN {}
  ELSE IF ServingLeaves(e, m) THEN {c \in triggered : ~NeighbourLeaves(e, m, c)}
  ELSE Cell

\* What MeasurementReportTriggering asserts of events A1 and A2: the cell that
\* has triggered is the serving cell.
TriggeredIsServing(e, m, r) ==
  (e.id \in {"A1", "A2"} /\ r.triggered # {}
     /\ (EntryCond(e, m, cellId) \/ LeavingCond(e, m, cellId)))
  => cellId \in r.triggered

\* MeasurementReportTriggering for an event.
MeasurementReportTriggering(r, e, m) ==
  LET entering == {c \in Concerned(e, m) : EntryCond(e, m, c)} \ r.triggered
      leaving == {c \in Concerned(e, m) \cap r.triggered : LeavingCond(e, m, c)}
      reportOnLeave == e.id = "A3" /\ e.reportOnLeave
      added == IF entering = {} THEN r ELSE VarMeasReportListAdd(r, entering)
      in == CancelTrigger(r.entering, NotEntering(e, m))
      out == CancelTrigger(r.leaving, NotLeaving(e, m, r.triggered))
  IN IF e.timeToTrigger = 0
       THEN IF leaving = {} THEN added
            ELSE VarMeasReportListErase(added, leaving, reportOnLeave)
       ELSE [r EXCEPT
              !.entering = IF entering = {} THEN in
                           ELSE Schedule(in, entering, e.timeToTrigger - 1),
              !.leaving = IF leaving = {} THEN out
                          ELSE Schedule(out, leaving, e.timeToTrigger - 1)]

-----------------------------------------------------------------------------
(***************************************************************************)
(* The handlers.                                                           *)
(***************************************************************************)

\* All scheduled events that come before the next measurement have fired.
QuietUntilMeasurement ==
  \A i \in MeasId : /\ report[i].timer # "soon"
                    /\ Due(report[i].entering) \cup Due(report[i].leaving) = {}

\* DoReportUeMeasurements: the measurements are stored, then every
\* measurement id is evaluated.
DoReportUeMeasurements(f) ==
  LET m == [c \in DOMAIN f \cup DOMAIN measValues |->
              IF c \in DOMAIN f THEN f[c] ELSE measValues[c]]
      waited == [i \in MeasId |-> [report[i] EXCEPT !.entering = Elapsed(@),
                                                    !.leaving = Elapsed(@)]]
  IN /\ cellId \in DOMAIN f
     /\ QuietUntilMeasurement
     /\ measValues' = m
     /\ report' = [i \in MeasId |->
          IF i \in DOMAIN measIds
            THEN MeasurementReportTriggering(waited[i], EventOf(i), m)
            ELSE waited[i]]
     /\ fatal' = ~(\A i \in DOMAIN measIds : TriggeredIsServing(EventOf(i), m, report[i]))
     /\ clock' = 1 - clock
     /\ UNCHANGED <<cellId, configVars, cio>>

\* An event that fires is no longer scheduled.
EnteringFired(r, e) == [r EXCEPT !.entering.events = @ \ {e}]
LeavingFired(r, e) == [r EXCEPT !.leaving.events = @ \ {e}]

\* The time-to-trigger of a wait to enter ends: VarMeasReportListAdd with the
\* cells that started the wait.
EnteringTimerExpires(i) ==
  \E e \in Due(report[i].entering) :
    /\ report' = [report EXCEPT ![i] =
         VarMeasReportListAdd(EnteringFired(report[i], e), e.cells)]
    /\ UNCHANGED <<cellId, measValues, configVars, cio, clock, fatal>>

\* The time-to-trigger of a wait to leave ends; it is after a wait to enter
\* that started with the same measurement.
LeavingTimerExpires(i) ==
  \E e \in Due(report[i].leaving) :
    /\ Due(report[i].entering) = {}
    /\ report' = [report EXCEPT ![i] =
         VarMeasReportListErase(LeavingFired(report[i], e), e.cells,
                                EventOf(i).id = "A3" /\ EventOf(i).reportOnLeave)]
    /\ fatal' = (report[i].triggered = {})
    /\ UNCHANGED <<cellId, measValues, configVars, cio, clock>>

\* SendMeasurementReport, called by the timer: it needs an entry, the serving
\* cell's measurement, and those of the cells that have triggered.
SendMeasurementReport(i) ==
  /\ report[i].timer # "off"
  /\ report' = [report EXCEPT ![i].timer =
                  IF report[i].triggered = {} THEN "off" ELSE "interval"]
  /\ fatal' = ~(i \in DOMAIN measIds
                /\ {cellId} \cup report[i].triggered \subseteq DOMAIN measValues)
  /\ UNCHANGED <<cellId, measValues, configVars, cio, clock>>

\* The measurement ids that lose their configuration with message mc.
Removed(mc) ==
  {i \in DOMAIN measIds : \/ measIds[i].object \in mc.objectsToRemove
                          \/ measIds[i].config \in mc.configsToRemove} \cup mc.idsToRemove

\* The measurement ids whose configuration changes with message mc.
Modified(mc) ==
  {i \in DOMAIN measIds : \/ measIds[i].object \in mc.objectsToAdd
                          \/ measIds[i].config \in DOMAIN mc.configsToAdd
                          \/ mc.quantity}

\* Function g overrides function f.
Override(f, g) ==
  [x \in DOMAIN f \cup DOMAIN g |-> IF x \in DOMAIN g THEN g[x] ELSE f[x]]

Without(f, S) == [x \in DOMAIN f \ S |-> f[x]]

\* ApplyMeasConfig.  A measurement id that is added loses its entry and gets
\* empty queues; the events of an earlier one are not cancelled here.
ApplyMeasConfig(mc) ==
  LET cleared == VarMeasReportListClear(Removed(mc) \cup Modified(mc))
      fresh(r) == [Quiet EXCEPT !.entering.events = r.entering.events,
                                !.leaving.events = r.leaving.events]
  IN /\ mc.idsToRemove \subseteq DOMAIN measIds
     /\ measObjects' = (measObjects \ mc.objectsToRemove) \cup mc.objectsToAdd
     /\ reportConfigs' = Override(Without(reportConfigs, mc.configsToRemove), mc.configsToAdd)
     /\ measIds' = Override(Without(measIds, Removed(mc)), mc.idsToAdd)
     /\ report' = [i \in MeasId |->
          IF i \in DOMAIN mc.idsToAdd THEN fresh(cleared[i]) ELSE cleared[i]]

\* DoRecvRrcConnectionReconfiguration with a measurement configuration; the
\* target is another cell in a handover, when the eNB sends a quantity
\* configuration (and everything else), so that all entries are cleared.
Reconfigure(target, mc) ==
  /\ cellId # 0
  /\ target # cellId => mc.quantity
  /\ cellId' = target
  /\ ApplyMeasConfig(mc)
  /\ UNCHANGED <<measValues, cio, clock, fatal>>

\* The UE is connected to cell c, with what it measured while it was idle.
Connect(c, f) ==
  /\ cellId = 0
  /\ c \in DOMAIN f
  /\ cellId' = c
  /\ measValues' = f
  /\ UNCHANGED <<configVars, report, cio, clock, fatal>>

\* Mutant of LeaveConnectedMode: the reports go on.
MutReportsGoOn ==
  /\ cellId # 0
  /\ cellId' = 0
  /\ measValues' = Nothing
  /\ measIds' = Nothing
  /\ UNCHANGED <<measObjects, reportConfigs, report, cio, clock, fatal>>

\* LeaveConnectedMode, for any reason.
LeaveConnectedMode ==
  /\ cellId # 0
  /\ cellId' = 0
  /\ measValues' = Nothing
  /\ report' = VarMeasReportListClear(DOMAIN measIds)
  /\ measIds' = Nothing
  /\ UNCHANGED <<measObjects, reportConfigs, cio, clock, fatal>>

\* Mutant of Clamp: an offset is used as it comes.
MutAsItComes(x) == x

\* The offset is limited to 24 dB, by ApplyCio and again by CioStore::Set.
Clamp(x) == IF x > 24 THEN 24 ELSE IF x < -24 THEN -24 ELSE x

\* ApplyCio of the command bridge: the source keeps one neighbour's offset.
ApplyCio(src, nbr, offset) ==
  /\ cio' = Override(Without(cio, {p \in DOMAIN cio : p[1] = src}),
                     [p \in {<<src, nbr>>} |-> Clamp(offset)])
  /\ UNCHANGED <<cellId, measValues, configVars, report, clock, fatal>>

-----------------------------------------------------------------------------
Configuration ==
  \/ \E c \in Cell, mc \in Messages : Reconfigure(c, mc)
  \/ \E c \in Cell, f \in Reports : Connect(c, f)
  \/ LeaveConnectedMode

Operation ==
  \/ \E f \in Reports : DoReportUeMeasurements(f)
  \/ \E i \in MeasId : EnteringTimerExpires(i)
  \/ \E i \in MeasId : LeavingTimerExpires(i)
  \/ \E i \in MeasId : SendMeasurementReport(i)
  \/ \E o \in Cios : ApplyCio(o[1], o[2], o[3])

Next == ~fatal /\ (Configuration \/ Operation)

\* The PHY keeps measuring, and scheduled events fire.
Fairness ==
  /\ WF_vars(~fatal /\ \E f \in Reports : DoReportUeMeasurements(f))
  /\ \A i \in MeasId :
       /\ WF_vars(~fatal /\ EnteringTimerExpires(i))
       /\ WF_vars(~fatal /\ LeavingTimerExpires(i))
       /\ WF_vars(~fatal /\ SendMeasurementReport(i))

Spec == Init /\ [][Next]_vars
FairSpec == Spec /\ Fairness

-----------------------------------------------------------------------------
(***************************************************************************)
(* Properties.                                                             *)
(***************************************************************************)

\* The assertions about the reporting state hold in every order of
\* measurements, timers, offsets, reconfigurations, handovers and connection
\* losses: an entry exists when cells leave it, the cell that has triggered
\* event A1 or A2 is the serving cell, and a report finds its measurements.
AssertionsHold == ~fatal

\* Reports are sent exactly while a cell has triggered: the timer is never
\* lost (schedule only if none is pending, cancel and reschedule in a report
\* on leaving), and none is left over when an entry is removed.
ReportTimerRuns ==
  \A i \in MeasId : report[i].timer = "off" <=> report[i].triggered = {}

\* Queue and events agree, one to one and in the order of time.
FirstTriggerFires ==
  \A i \in MeasId : \A q \in {report[i].entering, report[i].leaving} :
    /\ \A j, k \in DOMAIN q.queue : j < k => q.queue[j].left < q.queue[k].left
    /\ {t.left : t \in Range(q.queue)} = {e.left : e \in q.events}
    /\ \A t \in Range(q.queue), e \in q.events :
         t.left = e.left => t.cells \subseteq e.cells

\* A cell waits to enter only while it is out, and to leave while it is in.
WaitsMatchEntry ==
  \A i \in MeasId :
    /\ \A t \in Range(report[i].entering.queue) : t.cells \cap report[i].triggered = {}
    /\ \A t \in Range(report[i].leaving.queue) : t.cells \subseteq report[i].triggered

\* What the comments of VarMeasReportListAdd and VarMeasReportListErase assume
\* of their caller: the first trigger of the queue is the one whose event
\* fires, and it concerns cells that have still to enter, or to leave.
PendingTriggersOK == FirstTriggerFires /\ WaitsMatchEntry

\* Cell c fulfils the entering (leaving) condition of measurement id i.
Enters(i, c) ==
  /\ i \in DOMAIN measIds
  /\ cellId \in DOMAIN measValues
  /\ c \in Concerned(EventOf(i), measValues)
  /\ EntryCond(EventOf(i), measValues, c)
Leaves(i, c) ==
  /\ i \in DOMAIN measIds
  /\ cellId \in DOMAIN measValues
  /\ c \in Concerned(EventOf(i), measValues)
  /\ LeavingCond(EventOf(i), measValues, c)

\* From some time on neither the configuration nor the connection changes.
Settled == <>[][~Configuration]_vars

\* A restarted wait ends only if it is shorter than the time between two
\* measurements: a wait to leave event A5 is restarted by every measurement
\* that fulfils just one of its two leaving conditions.
Restarted(i, c) ==
  /\ EventOf(i).id = "A5"
  /\ EventOf(i).timeToTrigger > 1
  /\ ~(ServingLeaves(EventOf(i), measValues) /\ NeighbourLeaves(EventOf(i), measValues, c))

\* A cell that fulfils the entering condition for good is reported for good,
\* and one that fulfils the leaving condition for good is not, whatever the
\* other cells of the same waits do in the meantime.
ReportsFollowConditions ==
  Settled => \A i \in MeasId, c \in Cell :
    /\ <>[]Enters(i, c) => <>[](c \in report[i].triggered)
    /\ <>[](Leaves(i, c) /\ ~Restarted(i, c)) => <>[](c \notin report[i].triggered)
=============================================================================
