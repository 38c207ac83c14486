----------------------------- MODULE HoAndDwell -----------------------------
(***************************************************************************)
(* OranReporterLteHoAndDwell                                               *)
(* (ns3/contrib/oran/model/oran-reporter-lte-ho-and-dwell.cc): handover    *)
(* events and the time each UE has spent in its cell, put together from    *)
(* the traces of all eNBs.  An eNB names a UE by its IMSI, a cell and an   *)
(* RNTI; the reporter needs its E2 node, which it looks up in table        *)
(* lteuecell, where the row may be missing as yet.                         *)
(*                                                                         *)
(* The reporter is composed with HandoverSteering, whose steps fire the    *)
(* traces.  It watches in the set-ups of Watched.  A UE stands for its     *)
(* IMSI and its E2 node; the place of a cell in the UE's trail stands for  *)
(* the cell and the instant at which the UE came to it (currentCell and    *)
(* lastChange of a DwellState, cellId, rnti and t of a PendingAttach).     *)
(***************************************************************************)
EXTENDS HandoverSteering

CONSTANTS
  Watched,       \* the set-ups with this reporter
  MaxSwitches    \* bound: how often the reporter is switched on or off

VARIABLES
  connected,      \* m_connected, and m_active with it
  imsi2ueid,      \* m_imsi2ueid: the UEs whose E2 node is known
  pendingAttach,  \* m_pendingAttach: the place kept for a UE; 0: none
  dwell,          \* m_dwell: the place of each UE; 0: not tracked
  lastHoStart,    \* m_lastHoStart: the place a handover left; 0: none
  pendingEvents,  \* m_pendingEvents
  seen,           \* history: the reporter could follow the last change
  switches        \* how often the reporter was switched

tracedVars == <<connected, imsi2ueid, pendingAttach, dwell, lastHoStart, pendingEvents, seen>>
reporterVars == <<tracedVars, switches>>
vars == <<steeringVars, reporterVars>>

\* An EventRow; place and seen tell which handover it is about and whether
\* the reporter had followed the UE until then.
Rows == [ue: Ue, src: Cell \cup {0}, place: Nat, event: {"Start", "EndOk", "EndError"},
         seen: BOOLEAN]

ReporterTypeOK ==
  /\ connected \in BOOLEAN
  /\ imsi2ueid \subseteq Ue
  /\ pendingAttach \in [Ue -> Nat]
  /\ dwell \in [Ue -> Nat]
  /\ lastHoStart \in [Ue -> Nat]
  /\ pendingEvents \in Seq(Rows)
  /\ seen \in [Ue -> BOOLEAN]
  /\ switches \in Nat

ReporterInit ==
  /\ connected = (setup \in Watched)
  /\ imsi2ueid = {}
  /\ pendingAttach = [u \in Ue |-> 0]
  /\ dwell = [u \in Ue |-> 0]
  /\ lastHoStart = [u \in Ue |-> 0]
  /\ pendingEvents = <<>>
  /\ seen = [u \in Ue |-> TRUE]
  /\ switches = 0

\* MapUe of UE u in the cell at a place of its trail.
MapUe(u, place) == place \in saved[u] \/ u \in imsi2ueid

Known(u) == imsi2ueid' = imsi2ueid \cup {u}

\* The reporter notes that u came to this place.
Tracks(u, place) == dwell' = [dwell EXCEPT ![u] = place]

\* History: whether the reporter follows the change of u.
Follows(u, yes) == seen' = [seen EXCEPT ![u] = yes]

-----------------------------------------------------------------------------
(***************************************************************************)
(* The trace sinks; place is where the UE is after the step.               *)
(***************************************************************************)

\* Mutant of SeedDwell: a UE that is tracked keeps its cell.
MutBaselineKept(u, place) == IF dwell[u] = 0 THEN Tracks(u, place) ELSE UNCHANGED dwell

\* ConnEstCb sets the baseline of a UE it can map.
SeedDwell(u, place) == Tracks(u, place)

\* ConnEstCb: a UE that cannot be mapped yet is kept, unless an earlier
\* attachment is.
ConnEstCb(u, place) ==
  \/ /\ connected /\ MapUe(u, place)
     /\ pendingAttach' = [pendingAttach EXCEPT ![u] = 0]
     /\ Known(u)
     /\ SeedDwell(u, place)
     /\ Follows(u, TRUE)
     /\ UNCHANGED <<connected, lastHoStart, pendingEvents, switches>>
  \/ /\ connected /\ ~MapUe(u, place)
     /\ pendingAttach' = [pendingAttach EXCEPT ![u] = IF @ = 0 THEN place ELSE @]
     /\ Follows(u, pendingAttach[u] = 0)
     /\ UNCHANGED <<connected, imsi2ueid, dwell, lastHoStart, pendingEvents, switches>>
  \/ /\ ~connected
     /\ Follows(u, FALSE)
     /\ UNCHANGED <<connected, imsi2ueid, pendingAttach, dwell, lastHoStart, pendingEvents,
                    switches>>

\* HoStartCb at the cell that is left (from).
HoStartCb(u, from) ==
  \/ /\ connected /\ MapUe(u, from)
     /\ Known(u)
     /\ lastHoStart' = [lastHoStart EXCEPT ![u] = from]
     /\ pendingEvents' = Append(pendingEvents,
          [ue |-> u, src |-> CellAt(u, from), place |-> from + 1, event |-> "Start", seen |-> TRUE])
     /\ UNCHANGED <<connected, pendingAttach, dwell, seen, switches>>
  \/ ~(connected /\ MapUe(u, from)) /\ UNCHANGED reporterVars

\* Mutant of SourceCell: the cached start comes first.
MutCachedFirst(u) ==
  IF lastHoStart[u] # 0 THEN CellAt(u, lastHoStart[u])
  ELSE IF dwell[u] # 0 THEN CellAt(u, dwell[u]) ELSE 0

\* The source of a completed handover: the cell the UE was tracked in, or else
\* the one the last start named; 0 if neither is known.
SourceCell(u) ==
  IF dwell[u] # 0 THEN CellAt(u, dwell[u])
  ELSE IF lastHoStart[u] # 0 THEN CellAt(u, lastHoStart[u]) ELSE 0

\* HoEndOkCb at the cell the UE came to.
HoEndOkCb(u, place) ==
  \/ /\ connected /\ MapUe(u, place)
     /\ Known(u)
     /\ Tracks(u, place)
     /\ pendingEvents' = IF SourceCell(u) = 0 THEN pendingEvents
                         ELSE Append(pendingEvents,
                           [ue |-> u, src |-> SourceCell(u), place |-> place,
                            event |-> "EndOk", seen |-> seen[u]])
     /\ lastHoStart' = [lastHoStart EXCEPT ![u] = 0]
     /\ Follows(u, TRUE)
     /\ UNCHANGED <<connected, pendingAttach, switches>>
  \/ /\ ~(connected /\ MapUe(u, place))
     /\ Follows(u, FALSE)
     /\ UNCHANGED <<connected, imsi2ueid, pendingAttach, dwell, lastHoStart, pendingEvents,
                    switches>>

\* HoFailNoPreamble, HoFailMaxRach, HoFailLeaving and HoFailJoining at a cell
\* where the UE was.
HoFailCb(u, place) ==
  \/ /\ connected /\ MapUe(u, place)
     /\ Known(u)
     /\ pendingEvents' = Append(pendingEvents,
          [ue |-> u, src |-> CellAt(u, place), place |-> place, event |-> "EndError",
           seen |-> TRUE])
     /\ UNCHANGED <<connected, pendingAttach, dwell, lastHoStart, seen, switches>>
  \/ ~(connected /\ MapUe(u, place)) /\ UNCHANGED reporterVars

-----------------------------------------------------------------------------

\* The attachments kept that can be mapped now.
Ready == {u \in Ue : pendingAttach[u] # 0 /\ MapUe(u, pendingAttach[u])}

\* GenerateReports: seeds the UEs that can be mapped now, if not tracked yet,
\* and sends the events and the dwell times.
GenerateReports ==
  /\ connected
  /\ Ready # {} \/ pendingEvents # <<>>
  /\ imsi2ueid' = imsi2ueid \cup Ready
  /\ dwell' = [u \in Ue |-> IF u \in Ready /\ dwell[u] = 0 THEN pendingAttach[u] ELSE dwell[u]]
  /\ pendingAttach' = [u \in Ue |-> IF u \in Ready THEN 0 ELSE pendingAttach[u]]
  /\ pendingEvents' = <<>>
  /\ UNCHANGED <<connected, lastHoStart, seen, switches, steeringVars>>

\* Activate and Deactivate; what was collected stays.
Switch ==
  /\ setup \in Watched
  /\ switches < MaxSwitches /\ switches' = switches + 1
  /\ connected' = ~connected
  /\ UNCHANGED <<imsi2ueid, pendingAttach, dwell, lastHoStart, pendingEvents, seen, steeringVars>>

-----------------------------------------------------------------------------

\* Steps of UE u that no eNB traces.
Unwatched(u) ==
  \/ \E c \in setup.cells : Camp(u, c)
  \/ Connect(u) \/ HandoverEndOk(u) \/ LoseLink(u) \/ PeriodicReport(u)

\* A step of UE u and the trace its eNB fires.
WatchedUeStep(u) ==
  \/ ConnectionEstablished(u) /\ ConnEstCb(u, Rnti(u))
  \/ \E c \in setup.cells : EnbHandover(u, c) /\ HoStartCb(u, Rnti(u))
  \/ CompleteHandover(u) /\ HoEndOkCb(u, Rnti(u))
  \/ HandoverEndError(u) /\ \E place \in {Rnti(u) - 1, Rnti(u)} : HoFailCb(u, place)
  \/ Unwatched(u) /\ UNCHANGED reporterVars

WatchedCommand(c) ==
  \/ AcceptCommand(c) /\ HoStartCb(c.ue, Rnti(c.ue))
  \/ RefuseCommand(c) /\ HoFailCb(c.ue, Rnti(c.ue))
  \/ FailCommand(c) /\ UNCHANGED reporterVars

Measurement == \E l \in setup.lms, u \in setup.ues, c \in setup.cells : Measure(l, u, c)

WatchedNext ==
  /\ ~fatal
  /\ \/ \E u \in setup.ues : WatchedUeStep(u)
     \/ (Measurement \/ RicStep) /\ UNCHANGED reporterVars
     \/ \E c \in sent : WatchedCommand(c)
     \/ GenerateReports
     \/ Switch

\* The UEs connect and report, handovers end, reports and commands arrive, and a run ends
\* before the next query again and again (or it is cancelled for ever).
Fairness ==
  /\ \A u \in Ue : WF_vars(/\ u \in setup.ues
                            /\ \/ Connect(u) \/ HandoverEndOk(u) \/ PeriodicReport(u)
                               \/ \E c \in setup.cells : Camp(u, c)
                            /\ UNCHANGED reporterVars)
  /\ \A u \in Ue : WF_vars(ConnectionEstablished(u) /\ ConnEstCb(u, Rnti(u)))
  /\ \A u \in Ue : WF_vars(CompleteHandover(u) /\ HoEndOkCb(u, Rnti(u)))
  /\ \A u \in Ue : WF_vars(/\ \E r \in reports : r[1] = u /\ SaveLteUeCellInfo(r)
                            /\ UNCHANGED reporterVars)
  /\ WF_vars(QueryLms /\ UNCHANGED reporterVars)
  /\ \A l \in Lm : SF_vars(FinishRun(l) /\ UNCHANGED reporterVars)
  /\ WF_vars(\E c \in sent : AcceptCommand(c) /\ HoStartCb(c.ue, Rnti(c.ue)))

WatchedInit == Init /\ ReporterInit

WatchedSpec == WatchedInit /\ [][WatchedNext]_vars /\ Fairness

-----------------------------------------------------------------------------
(***************************************************************************)
(* Properties.                                                             *)
(***************************************************************************)

\* The dwell time reported for a connected UE is that of the cell it is in,
\* counted from the instant it came there - unless the UE moved while it could
\* not be mapped or the reporter was not connected
\* (oran-reporter-lte-ho-and-dwell.cc:141, :173, :257).
DwellOfServingCell ==
  \A u \in Ue : dwell[u] # 0 /\ seen[u] /\ phase[u] = "connected" => dwell[u] = Rnti(u)

\* A completed handover is reported with the cell it came from, with the same
\* exception (oran-reporter-lte-ho-and-dwell.cc:182).
EndOkNamesTheSource ==
  \A i \in DOMAIN pendingEvents :
    LET e == pendingEvents[i]
    IN e.event = "EndOk" /\ e.seen => e.src = CellAt(e.ue, e.place - 1)
=============================================================================
