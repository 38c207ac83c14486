------------------------------- MODULE UeRrc -------------------------------
(***************************************************************************)
(* The connection state machine of the UE: LteUeRrc                        *)
(* (ns3/src/lte/model/lte-ue-rrc.cc), from cell selection to connection    *)
(* establishment, handover, radio link failure and back to cell selection. *)
(* Measurement configuration and reporting are module UeMeasurements.      *)
(*                                                                         *)
(* Around it, as far as lte-ue-rrc.cc uses them: the NAS, which connects   *)
(* again after a failure and disconnects after a release; the MAC, which   *)
(* runs one random access procedure at a time; the PHY, which decodes the  *)
(* broadcast of the cell it is synchronised with, reports measurements and *)
(* counts in-sync or out-of-sync frames while connected; the eNB.          *)
(*                                                                         *)
(* CONNECTED_PHY_PROBLEM lasts only until the NAS, told of the release,    *)
(* calls DoDisconnect in the same event; IDLE_START likewise when it is    *)
(* entered again.  CONNECTED_REESTABLISHING is never entered by the code.  *)
(***************************************************************************)
EXTENDS Naturals

CONSTANTS
  Cell,         \* the cells, ordered by their identifiers
  ClosedGroup,  \* the cells of a closed subscriber group the UE is not in
  QRxLevMin,    \* the minimum level each cell broadcasts in SIB1
  FailLimit,    \* connEstFailCount, which each cell broadcasts in SIB2
  Reports,      \* the measurement reports the PHY may make: cells to levels
  N310, N311    \* m_n310, m_n311

\* The level a cell must exceed to be reported at all (-140 dBm).
MinRsrp == 0

ASSUME CellAssumption ==
  /\ Cell \subseteq Nat \ {0}
  /\ ClosedGroup \subseteq Cell
  /\ QRxLevMin \in [Cell -> Nat]
  /\ FailLimit \in [Cell -> 1 .. 4]

ASSUME ReportAssumption ==
  \A f \in Reports : DOMAIN f \subseteq Cell /\ \A c \in DOMAIN f : f[c] \in Nat

ASSUME SyncAssumption == N310 \in Nat \ {0} /\ N311 \in Nat \ {0}

VARIABLES
  state,                  \* m_state
  cellId,                 \* m_cellId; 0 means none
  connectionPending,      \* m_connectionPending
  hasReceivedMib,         \* m_hasReceivedMib
  hasReceivedSib2,        \* m_hasReceivedSib2
  leaveConnectedMode,     \* m_leaveConnectedMode
  connEstFailCount,       \* m_connEstFailCount
  connEstFailCountLimit,  \* m_connEstFailCountLimit
  acceptableCell,         \* m_acceptableCell
  storedMeasValues,       \* m_storedMeasValues (RSRP levels)
  noOfSyncIndications,    \* m_noOfSyncIndications
  t300,                   \* the pending ConnectionTimeout events
  t310,                   \* the pending RadioLinkFailureDetected events
  fatal,                  \* NS_FATAL_ERROR, NS_ABORT or NS_ASSERT was reached
  synced,                 \* PHY: the cell whose broadcast is decoded, 0: none
  detectInSync,           \* PHY: counting in-sync frames (after StartInSyncDetection)
  randomAccess,           \* MAC: a random access procedure is in progress
  request,                \* eNB: a connection request is to be answered
  release,                \* eNB: a connection release is under way
  retry                   \* NAS: a Connect is scheduled after a failure

selectionVars == <<cellId, acceptableCell, storedMeasValues, synced>>
linkVars == <<noOfSyncIndications, t310, detectInSync>>
failVars == <<connEstFailCount, connEstFailCountLimit>>
vars == <<state, connectionPending, hasReceivedMib, hasReceivedSib2,
          leaveConnectedMode, selectionVars, linkVars, failVars,
          t300, fatal, randomAccess, request, release, retry>>

Searching == {"IDLE_START", "IDLE_CELL_SEARCH", "IDLE_WAIT_MIB_SIB1",
              "IDLE_WAIT_MIB", "IDLE_WAIT_SIB1"}
Connected == {"CONNECTED_NORMALLY", "CONNECTED_HANDOVER"}
State == Searching \cup Connected \cup
         {"IDLE_CAMPED_NORMALLY", "IDLE_WAIT_SIB2", "IDLE_RANDOM_ACCESS", "IDLE_CONNECTING"}

StateTypes ==
  /\ state \in State
  /\ connectionPending \in BOOLEAN
  /\ hasReceivedMib \in BOOLEAN
  /\ hasReceivedSib2 \in BOOLEAN
  /\ leaveConnectedMode \in BOOLEAN
  /\ fatal \in BOOLEAN
  /\ randomAccess \in BOOLEAN
  /\ request \in BOOLEAN
  /\ release \in BOOLEAN
  /\ retry \in BOOLEAN

SelectionTypes ==
  /\ cellId \in Cell \cup {0}
  /\ synced \in Cell \cup {0}
  /\ acceptableCell \subseteq Cell
  /\ DOMAIN storedMeasValues \subseteq Cell
  /\ \A c \in DOMAIN storedMeasValues : storedMeasValues[c] \in Nat

TimerTypes ==
  /\ t300 \in Nat
  /\ connEstFailCount \in 0 .. 3
  /\ connEstFailCountLimit \in 0 .. 4

LinkTypes ==
  /\ t310 \in Nat
  /\ detectInSync \in BOOLEAN
  /\ noOfSyncIndications \in Nat
  /\ ~detectInSync => noOfSyncIndications < N310
  /\ detectInSync => noOfSyncIndications < N311

\* Every variable has its type; the counter of sync indications stays below
\* the number it is compared with (by ==) for the kind of frames counted.
TypeOK == StateTypes /\ SelectionTypes /\ TimerTypes /\ LinkTypes

Nothing == [c \in {} |-> 0]

Init ==
  /\ state = "IDLE_START"
  /\ cellId = 0
  /\ connectionPending = FALSE
  /\ hasReceivedMib = FALSE
  /\ hasReceivedSib2 = FALSE
  /\ leaveConnectedMode = FALSE
  /\ connEstFailCount = 0
  /\ connEstFailCountLimit = 0
  /\ acceptableCell = {}
  /\ storedMeasValues = Nothing
  /\ noOfSyncIndications = 0
  /\ t300 = 0
  /\ t310 = 0
  /\ fatal = FALSE
  /\ synced = 0
  /\ detectInSync = FALSE
  /\ randomAccess = FALSE
  /\ request = FALSE
  /\ release = FALSE
  /\ retry = FALSE

-----------------------------------------------------------------------------
(***************************************************************************)
(* State changes shared by the handlers.                                   *)
(***************************************************************************)

\* EventId::Cancel of the newest of n pending events.
Cancelled(n) == IF n > 0 THEN n - 1 ELSE 0

\* SwitchToState(IDLE_CAMPED_NORMALLY) with these m_connectionPending,
\* m_hasReceivedMib and m_hasReceivedSib2: a UE that wants to connect waits for
\* SIB2, or starts the random access (StartConnection) if it has SIB2.
Camp(pending, mib, sib2) ==
  /\ state' = IF ~pending THEN "IDLE_CAMPED_NORMALLY"
              ELSE IF ~sib2 THEN "IDLE_WAIT_SIB2" ELSE "IDLE_RANDOM_ACCESS"
  /\ connectionPending' = (pending /\ ~sib2)
  /\ hasReceivedMib' = mib
  /\ hasReceivedSib2' = sib2
  /\ randomAccess' = (pending /\ sib2)
  /\ fatal' = (pending /\ sib2 /\ ~mib)

\* Mutant of ResetRlfParams: the counter is not reset.
MutCounterKept(n) ==
  /\ t310' = Cancelled(n)
  /\ detectInSync' = FALSE
  /\ UNCHANGED noOfSyncIndications

\* ResetRlfParams when n T310 events are pending.
ResetRlfParams(n) ==
  /\ t310' = Cancelled(n)
  /\ noOfSyncIndications' = 0
  /\ detectInSync' = FALSE

\* Mutant of ResetMacs: a random access procedure in progress goes on.
MutMacKept == UNCHANGED randomAccess

\* The MACs are reset.
ResetMacs == randomAccess' = FALSE

\* LeaveConnectedMode with n pending T310 events, and the cell selection it
\* starts.  Whatever the eNB knew of the UE is removed.
LeaveConnectedMode(n) ==
  /\ state' = "IDLE_CELL_SEARCH"
  /\ leaveConnectedMode' = TRUE
  /\ storedMeasValues' = Nothing
  /\ ResetRlfParams(n)
  /\ ResetMacs
  /\ hasReceivedMib' = FALSE
  /\ hasReceivedSib2' = FALSE
  /\ cellId' = 0
  /\ synced' = 0
  /\ request' = FALSE
  /\ UNCHANGED <<connectionPending, acceptableCell, fatal>>

\* The strongest cells of m among those not tried and found acceptable.
Strongest(m, tried) ==
  LET untried == {c \in DOMAIN m : m[c] > MinRsrp /\ c \notin tried}
  IN {c \in untried : \A d \in untried : m[d] < m[c] \/ (m[d] = m[c] /\ c <= d)}

\* SynchronizeToStrongestCell with the measurements m.
SynchronizeToStrongestCell(m, tried) ==
  \/ /\ Strongest(m, tried) = {}
     /\ state' = "IDLE_CELL_SEARCH"
     /\ UNCHANGED synced
  \/ \E c \in Strongest(m, tried) :
       /\ state' = "IDLE_WAIT_MIB_SIB1"
       /\ synced' = c

-----------------------------------------------------------------------------
(***************************************************************************)
(* The NAS and the scenario.                                               *)
(***************************************************************************)

\* DoStartCellSelection of a UE that was just started.
StartCellSelection ==
  /\ state = "IDLE_START"
  /\ state' = "IDLE_CELL_SEARCH"
  /\ UNCHANGED <<connectionPending, hasReceivedMib, hasReceivedSib2,
                 leaveConnectedMode, selectionVars, linkVars, failVars,
                 t300, fatal, randomAccess, request, release, retry>>

\* DoForceCampedOnEnb, which does nothing in later states (or is fatal
\* during a cell selection; callers attach a UE once).
ForceCampedOnEnb(c) ==
  /\ state = "IDLE_START"
  /\ state' = "IDLE_WAIT_MIB"
  /\ cellId' = c
  /\ synced' = c
  /\ UNCHANGED <<connectionPending, hasReceivedMib, hasReceivedSib2,
                 leaveConnectedMode, acceptableCell, storedMeasValues, linkVars,
                 failVars, t300, fatal, randomAccess, request, release, retry>>

\* DoConnect, which does nothing once the UE is connecting or connected.
Connect ==
  /\ \/ /\ state \in Searching
        /\ connectionPending' = TRUE
        /\ UNCHANGED <<state, hasReceivedMib, hasReceivedSib2, randomAccess, fatal>>
     \/ /\ state = "IDLE_CAMPED_NORMALLY"
        /\ Camp(TRUE, hasReceivedMib, hasReceivedSib2)
     \/ /\ state \notin Searching \cup {"IDLE_CAMPED_NORMALLY"}
        /\ UNCHANGED <<state, connectionPending, hasReceivedMib, hasReceivedSib2,
                       randomAccess, fatal>>
  /\ UNCHANGED <<leaveConnectedMode, selectionVars, linkVars, failVars, t300,
                 request, release>>

\* The application asks for a connection.
DoConnect == Connect /\ UNCHANGED retry

\* The NAS was told that the connection failed (NotifyConnectionFailed).
Retry == retry /\ retry' = FALSE /\ Connect

\* DoDisconnect of a connected UE.  It is fatal during connection
\* establishment, which callers avoid.
Disconnect ==
  /\ state \in Connected
  /\ LeaveConnectedMode(t310)
  /\ UNCHANGED <<failVars, t300, release, retry>>

-----------------------------------------------------------------------------
(***************************************************************************)
(* What the PHY decodes and measures.                                      *)
(***************************************************************************)

\* DoRecvMasterInformationBlock of the cell the PHY is synchronised with.
RecvMasterInformationBlock ==
  /\ synced # 0
  /\ \/ state = "IDLE_WAIT_MIB" /\ Camp(connectionPending, TRUE, hasReceivedSib2)
     \/ /\ state = "IDLE_WAIT_MIB_SIB1"
        /\ hasReceivedMib' = TRUE
        /\ state' = "IDLE_WAIT_SIB1"
        /\ UNCHANGED <<connectionPending, hasReceivedSib2, randomAccess, fatal>>
     \/ /\ state \notin {"IDLE_WAIT_MIB", "IDLE_WAIT_MIB_SIB1"}
        /\ hasReceivedMib' = TRUE
        /\ UNCHANGED <<state, connectionPending, hasReceivedSib2, randomAccess, fatal>>
  /\ UNCHANGED <<leaveConnectedMode, selectionVars, linkVars, failVars, t300,
                 request, release, retry>>

\* Strong enough to be acceptable; also suitable if it lets the UE in.
Acceptable(c) == storedMeasValues[c] > QRxLevMin[c]
Suitable(c) == Acceptable(c) /\ c \notin ClosedGroup

\* EvaluateCellForSelection of a suitable cell: the UE connects, whether or
\* not anybody asked for it.
CampOnSuitableCell ==
  /\ Suitable(synced)
  /\ cellId' = synced
  /\ Camp(TRUE, hasReceivedMib, hasReceivedSib2)
  /\ UNCHANGED <<synced, acceptableCell>>

\* Mutant of Refused: a cell that is only acceptable is not remembered.
MutNotRemembered(c) == acceptableCell

\* The cells not to be tried again after c turned out not to be suitable.
Refused(c) == IF Acceptable(c) THEN acceptableCell \cup {c} ELSE acceptableCell

\* EvaluateCellForSelection of any other cell.
TryNextCell ==
  /\ ~Suitable(synced)
  /\ hasReceivedMib' = FALSE
  /\ acceptableCell' = Refused(synced)
  /\ SynchronizeToStrongestCell(storedMeasValues, Refused(synced))
  /\ UNCHANGED <<cellId, connectionPending, hasReceivedSib2, randomAccess, fatal>>

\* DoRecvSystemInformationBlockType1, which matters to a UE that evaluates the
\* cell.  Evaluating a cell that was never measured dereferences end().
RecvSystemInformationBlockType1 ==
  /\ state = "IDLE_WAIT_SIB1"
  /\ \/ /\ synced \in DOMAIN storedMeasValues
        /\ CampOnSuitableCell \/ TryNextCell
     \/ /\ synced \notin DOMAIN storedMeasValues
        /\ fatal' = TRUE
        /\ UNCHANGED <<state, cellId, synced, acceptableCell, hasReceivedMib,
                       connectionPending, hasReceivedSib2, randomAccess>>
  /\ UNCHANGED <<leaveConnectedMode, storedMeasValues, linkVars, failVars, t300,
                 request, release, retry>>

\* DoRecvSystemInformation with SIB2, ignored during cell selection.
RecvSystemInformation ==
  /\ synced # 0
  /\ state \notin Searching
  /\ connEstFailCountLimit' = FailLimit[synced]
  /\ \/ /\ state = "IDLE_WAIT_SIB2"
        /\ state' = "IDLE_RANDOM_ACCESS"
        /\ connectionPending' = FALSE
        /\ hasReceivedSib2' = TRUE
        /\ randomAccess' = TRUE
        /\ fatal' = ~(connectionPending /\ hasReceivedMib)
     \/ /\ state # "IDLE_WAIT_SIB2"
        /\ hasReceivedSib2' = TRUE
        /\ UNCHANGED <<state, connectionPending, randomAccess, fatal>>
  /\ UNCHANGED <<hasReceivedMib, leaveConnectedMode, selectionVars, linkVars,
                 connEstFailCount, t300, request, release, retry>>

\* DoReportUeMeasurements and SaveUeMeasurements.  In connected mode the value
\* stored is filtered; as any report may come, it is one of those here too.
ReportUeMeasurements(f) ==
  LET m == [c \in DOMAIN f \cup DOMAIN storedMeasValues |->
              IF c \in DOMAIN f THEN f[c] ELSE storedMeasValues[c]]
  IN /\ storedMeasValues' = m
     /\ \/ /\ state = "IDLE_CELL_SEARCH"
           /\ SynchronizeToStrongestCell(m, acceptableCell)
        \/ /\ state # "IDLE_CELL_SEARCH"
           /\ UNCHANGED <<state, synced>>
     /\ UNCHANGED <<connectionPending, hasReceivedMib, hasReceivedSib2,
                    leaveConnectedMode, cellId, acceptableCell, linkVars, failVars,
                    t300, fatal, randomAccess, request, release, retry>>

-----------------------------------------------------------------------------
(***************************************************************************)
(* Random access and connection establishment.                             *)
(***************************************************************************)

\* DoNotifyRandomAccessSuccessful: the UE requests a connection and starts
\* T300, or has reached the target cell of a handover.
NotifyRandomAccessSuccessful ==
  /\ randomAccess
  /\ randomAccess' = FALSE
  /\ \/ /\ state = "IDLE_RANDOM_ACCESS"
        /\ state' = "IDLE_CONNECTING"
        /\ request' = TRUE
        /\ t300' = t300 + 1
        /\ UNCHANGED fatal
     \/ /\ state = "CONNECTED_HANDOVER"
        /\ state' = "CONNECTED_NORMALLY"
        /\ UNCHANGED <<request, t300, fatal>>
     \/ /\ state \notin {"IDLE_RANDOM_ACCESS", "CONNECTED_HANDOVER"}
        /\ fatal' = TRUE
        /\ UNCHANGED <<state, request, t300>>
  /\ UNCHANGED <<connectionPending, hasReceivedMib, hasReceivedSib2,
                 leaveConnectedMode, selectionVars, linkVars, failVars, release, retry>>

\* DoNotifyRandomAccessFailed: the NAS connects again, or a failed handover
\* ends the connection.
NotifyRandomAccessFailed ==
  /\ randomAccess
  /\ \/ /\ state = "IDLE_RANDOM_ACCESS"
        /\ Camp(connectionPending, hasReceivedMib, hasReceivedSib2)
        /\ retry' = TRUE
        /\ UNCHANGED <<leaveConnectedMode, selectionVars, linkVars,
                       request, release>>
     \/ /\ state = "CONNECTED_HANDOVER"
        /\ ~leaveConnectedMode
        /\ LeaveConnectedMode(t310)
        /\ UNCHANGED <<release, retry>>
     \/ /\ state \notin {"IDLE_RANDOM_ACCESS", "CONNECTED_HANDOVER"}
        /\ fatal' = TRUE
        /\ randomAccess' = FALSE
        /\ UNCHANGED <<state, connectionPending, hasReceivedMib, hasReceivedSib2,
                       leaveConnectedMode, selectionVars, linkVars, request,
                       release, retry>>
  /\ UNCHANGED <<failVars, t300>>

\* DoRecvRrcConnectionSetup.
RecvRrcConnectionSetup ==
  /\ request
  /\ request' = FALSE
  /\ \/ /\ state = "IDLE_CONNECTING"
        /\ state' = "CONNECTED_NORMALLY"
        /\ connEstFailCount' = 0
        /\ t300' = Cancelled(t300)
        /\ leaveConnectedMode' = FALSE
        /\ fatal' = ~(noOfSyncIndications = 0)
     \/ /\ state # "IDLE_CONNECTING"
        /\ fatal' = TRUE
        /\ UNCHANGED <<state, connEstFailCount, t300, leaveConnectedMode>>
  /\ UNCHANGED <<connectionPending, hasReceivedMib, hasReceivedSib2, selectionVars,
                 linkVars, connEstFailCountLimit, randomAccess, release, retry>>

\* DoRecvRrcConnectionReject: SIB2 is read again before the next attempt.
RecvRrcConnectionReject ==
  /\ request
  /\ request' = FALSE
  /\ t300' = Cancelled(t300)
  /\ Camp(connectionPending, hasReceivedMib, FALSE)
  /\ retry' = TRUE
  /\ UNCHANGED <<leaveConnectedMode, selectionVars, linkVars, failVars, release>>

\* T300 expires: after connEstFailCount failures in a row the UE looks for
\* another cell, before it connects to the same cell again.  The eNB has
\* given up before (a comment of the source), so it answers no more.
ConnectionTimeout ==
  /\ t300 > 0
  /\ t300' = t300 - 1
  /\ \/ /\ connEstFailCount + 1 >= connEstFailCountLimit
        /\ LeaveConnectedMode(t310)
        /\ connEstFailCount' = 0
        /\ UNCHANGED <<release, retry>>
     \/ /\ connEstFailCount + 1 < connEstFailCountLimit
        /\ connEstFailCount' = connEstFailCount + 1
        /\ Camp(connectionPending, hasReceivedMib, FALSE)
        /\ request' = FALSE
        /\ retry' = TRUE
        /\ UNCHANGED <<leaveConnectedMode, selectionVars, linkVars, release>>
  /\ UNCHANGED connEstFailCountLimit

-----------------------------------------------------------------------------
(***************************************************************************)
(* Connected mode.                                                         *)
(***************************************************************************)

\* Mutant of SupervisionAtHandover: the PHY is not told that T310 stopped.
MutTimerOnly ==
  /\ t310' = Cancelled(t310)
  /\ UNCHANGED <<noOfSyncIndications, detectInSync>>

\* A handover stops T310 if it runs, and only then resets the counter.
SupervisionAtHandover ==
  IF t310 > 0 THEN ResetRlfParams(t310) ELSE UNCHANGED linkVars

\* DoRecvRrcConnectionReconfiguration with mobility control information; the
\* eNB sends it to a connected UE (it is fatal in other states).
RecvRrcConnectionReconfiguration(target) ==
  /\ state = "CONNECTED_NORMALLY"
  /\ target # cellId
  /\ state' = "CONNECTED_HANDOVER"
  /\ SupervisionAtHandover
  /\ cellId' = target
  /\ synced' = target
  /\ randomAccess' = TRUE
  /\ UNCHANGED <<connectionPending, hasReceivedMib, hasReceivedSib2,
                 leaveConnectedMode, acceptableCell, storedMeasValues, failVars,
                 t300, fatal, request, release, retry>>

\* The eNB releases the connection; the message may take its time.
SendRrcConnectionRelease ==
  /\ state \in Connected
  /\ release' = TRUE
  /\ UNCHANGED <<state, connectionPending, hasReceivedMib, hasReceivedSib2,
                 leaveConnectedMode, selectionVars, linkVars, failVars, t300,
                 fatal, randomAccess, request, retry>>

\* Mutant of AlreadyLeft: a release is always obeyed.
MutObeyAlways == FALSE

\* The UE has left connected mode since its last connection was set up.
AlreadyLeft == leaveConnectedMode

\* DoRecvRrcConnectionRelease, ignored by a UE that left already.
RecvRrcConnectionRelease ==
  /\ release
  /\ release' = FALSE
  /\ \/ ~AlreadyLeft /\ LeaveConnectedMode(t310)
     \/ /\ AlreadyLeft
        /\ UNCHANGED <<state, connectionPending, hasReceivedMib, hasReceivedSib2,
                       leaveConnectedMode, selectionVars, linkVars, fatal,
                       randomAccess, request>>
  /\ UNCHANGED <<failVars, t300, retry>>

\* DoNotifyOutOfSync: at the N310th indication T310 is started and the PHY
\* looks for in-sync frames instead.
NotifyOutOfSync ==
  /\ state \in Connected
  /\ ~detectInSync
  /\ IF noOfSyncIndications + 1 = N310
       THEN /\ t310' = t310 + 1
            /\ noOfSyncIndications' = 0
            /\ detectInSync' = TRUE
       ELSE /\ noOfSyncIndications' = noOfSyncIndications + 1
            /\ UNCHANGED <<t310, detectInSync>>
  /\ UNCHANGED <<state, connectionPending, hasReceivedMib, hasReceivedSib2,
                 leaveConnectedMode, selectionVars, failVars, t300, fatal,
                 randomAccess, request, release, retry>>

\* DoNotifyInSync: at the N311th indication the radio link has recovered.
NotifyInSync ==
  /\ state \in Connected
  /\ detectInSync
  /\ IF noOfSyncIndications + 1 = N311
       THEN ResetRlfParams(t310)
       ELSE /\ noOfSyncIndications' = noOfSyncIndications + 1
            /\ UNCHANGED <<t310, detectInSync>>
  /\ UNCHANGED <<state, connectionPending, hasReceivedMib, hasReceivedSib2,
                 leaveConnectedMode, selectionVars, failVars, t300, fatal,
                 randomAccess, request, release, retry>>

\* DoResetSyncIndicationCounter: a frame of the other kind came in between.
ResetSyncIndicationCounter ==
  /\ state \in Connected
  /\ noOfSyncIndications' = 0
  /\ UNCHANGED <<state, connectionPending, hasReceivedMib, hasReceivedSib2,
                 leaveConnectedMode, selectionVars, t310, detectInSync, failVars,
                 t300, fatal, randomAccess, request, release, retry>>

\* T310 expires, whatever the state: RadioLinkFailureDetected.
RadioLinkFailureDetected ==
  /\ t310 > 0
  /\ LeaveConnectedMode(t310)
  /\ UNCHANGED <<failVars, t300, release, retry>>

-----------------------------------------------------------------------------
NasNext ==
  \/ StartCellSelection
  \/ \E c \in Cell : ForceCampedOnEnb(c)
  \/ DoConnect
  \/ Retry
  \/ Disconnect

PhyNext ==
  \/ RecvMasterInformationBlock
  \/ RecvSystemInformationBlockType1
  \/ RecvSystemInformation
  \/ \E f \in Reports : ReportUeMeasurements(f)
  \/ NotifyOutOfSync
  \/ NotifyInSync
  \/ ResetSyncIndicationCounter

MacNext ==
  \/ NotifyRandomAccessSuccessful
  \/ NotifyRandomAccessFailed

EnbNext ==
  \/ RecvRrcConnectionSetup
  \/ RecvRrcConnectionReject
  \/ \E c \in Cell : RecvRrcConnectionReconfiguration(c)
  \/ SendRrcConnectionRelease
  \/ RecvRrcConnectionRelease

TimerNext ==
  \/ ConnectionTimeout
  \/ RadioLinkFailureDetected

Next == ~fatal /\ (NasNext \/ PhyNext \/ MacNext \/ EnbNext \/ TimerNext)

\* The scenario attaches the UE and asks for a connection.  The broadcast of
\* the cell is decoded again and again, the PHY keeps measuring, and scheduled
\* events fire.  A random access or a connection request that is made again
\* and again succeeds eventually, and a UE that searches hears every cell
\* again and again.
Fairness ==
  /\ WF_vars(~fatal /\ (StartCellSelection \/ \E c \in Cell : ForceCampedOnEnb(c)))
  /\ WF_vars(~fatal /\ DoConnect)
  /\ WF_vars(~fatal /\ Retry)
  /\ WF_vars(~fatal /\ RecvMasterInformationBlock)
  /\ WF_vars(~fatal /\ RecvSystemInformationBlockType1)
  /\ WF_vars(~fatal /\ RecvSystemInformation)
  /\ \A f \in Reports : DOMAIN f = Cell =>
       SF_vars(~fatal /\ state = "IDLE_CELL_SEARCH" /\ ReportUeMeasurements(f))
  /\ SF_vars(~fatal /\ NotifyRandomAccessSuccessful)
  /\ SF_vars(~fatal /\ RecvRrcConnectionSetup)

Spec == Init /\ [][Next]_vars
FairSpec == Spec /\ Fairness

-----------------------------------------------------------------------------
(***************************************************************************)
(* Properties.                                                             *)
(***************************************************************************)

\* No order of messages, timers, random access results and NAS calls reaches
\* an NS_FATAL_ERROR, NS_ABORT or NS_ASSERT or evaluates a cell that was never
\* measured, also when a release is late: every way out of a state stops what
\* would report to that state later.
NoFatalError == ~fatal

\* T300 runs exactly while a connection request is unanswered: a timer left
\* over from an earlier attempt would throw the UE back to a cell it has left.
ConnectionTimerMatchesState ==
  /\ t300 = (IF state = "IDLE_CONNECTING" THEN 1 ELSE 0)
  /\ request => state = "IDLE_CONNECTING"

\* The PHY looks for in-sync frames exactly while T310 runs, and T310 runs
\* only in connected mode: a timer without the PHY's help would always end in
\* a radio link failure, the PHY without the timer would never report one.
DetectionMatchesTimer ==
  /\ t310 = (IF detectInSync THEN 1 ELSE 0)
  /\ t310 > 0 => state \in Connected

\* The radio link is supervised: detection and T310 go together, and the
\* counter that both directions share is below the number it is compared with
\* (by ==, NotifyOutOfSync and NotifyInSync): a counter that was not reset
\* when the direction changed would never match again.
RadioLinkSupervised ==
  DetectionMatchesTimer /\ noOfSyncIndications < (IF t310 > 0 THEN N311 ELSE N310)

\* Every cell that was measured is strong enough to camp on.
Receivable == \A c \in DOMAIN storedMeasValues : Acceptable(c)

\* Whatever ends a connection (a release, a radio link failure, a failed
\* handover, T300, the NAS), the UE finds an open cell and is connected again,
\* past all closed cells, provided that from some time on it measures no cell
\* below its minimum level.
Reconnects == <>[]Receivable => []<>(state = "CONNECTED_NORMALLY")

\* What the handlers rely on.  A random access is in progress only where its
\* result is expected; a UE that is past the cell selection has the MIB and
\* one that is still in it has no SIB2; a cell to be evaluated was measured;
\* nothing is counted outside connected mode; and a release that is under way
\* finds the UE in connected mode or knows it has left.
HandlersPrepared ==
  /\ randomAccess => state \in {"IDLE_RANDOM_ACCESS", "CONNECTED_HANDOVER"}
  /\ state \in {"IDLE_WAIT_SIB1", "IDLE_CAMPED_NORMALLY", "IDLE_WAIT_SIB2",
                "IDLE_RANDOM_ACCESS", "IDLE_CONNECTING"} => hasReceivedMib
  /\ state = "IDLE_WAIT_SIB2" => connectionPending
  /\ state \in Searching => ~hasReceivedSib2
  /\ state \in {"IDLE_WAIT_MIB_SIB1", "IDLE_WAIT_SIB1"} =>
       synced \in DOMAIN storedMeasValues
  /\ state \notin Connected => noOfSyncIndications = 0
  /\ state \in Connected => ~leaveConnectedMode
  /\ release => state \in Connected \/ leaveConnectedMode

\* The safety properties made inductive.
RrcInv ==
  /\ TypeOK
  /\ NoFatalError
  /\ ConnectionTimerMatchesState
  /\ DetectionMatchesTimer
  /\ HandlersPrepared
=============================================================================
