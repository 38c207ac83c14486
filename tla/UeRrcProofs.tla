--------------------------- MODULE UeRrcProofs ---------------------------
(***************************************************************************)
(* The safety properties of UeRrc, for every set of cells, every signal    *)
(* level and every N310 and N311.  They are one inductive invariant,       *)
(* RrcInv: that a timer or a random access never outlives its state needs  *)
(* all handlers at once, because every handler that leaves a state must    *)
(* stop what would report to it.                                           *)
(***************************************************************************)
EXTENDS UeRrc, TLAPS

USE DEF Searching, Connected, State


\* Every handler keeps the types of the state and of the flags.
LEMMA StateTypesStep == StateTypes /\ [Next]_vars => StateTypes'
<1> SUFFICES ASSUME StateTypes, [Next]_vars PROVE StateTypes'
  OBVIOUS
<1> USE DEF StateTypes
<1>1. CASE StartCellSelection
  BY <1>1 DEF StartCellSelection, selectionVars, linkVars, failVars
<1>2. CASE \E c \in Cell : ForceCampedOnEnb(c)
  BY <1>2 DEF ForceCampedOnEnb, linkVars, failVars
<1>3. CASE DoConnect
  BY <1>3 DEF DoConnect, Connect, Camp, selectionVars, linkVars, failVars
<1>4. CASE Retry
  BY <1>4 DEF Retry, Connect, Camp, selectionVars, linkVars, failVars
<1>5. CASE Disconnect
  BY <1>5 DEF Disconnect, LeaveConnectedMode, ResetRlfParams, ResetMacs, Cancelled,
       Nothing, failVars
<1>6. CASE RecvMasterInformationBlock
  BY <1>6 DEF RecvMasterInformationBlock, Camp, selectionVars, linkVars, failVars
<1>7. CASE RecvSystemInformationBlockType1
  BY <1>7 DEF RecvSystemInformationBlockType1, CampOnSuitableCell, TryNextCell,
       Refused, SynchronizeToStrongestCell, Strongest, Suitable,
       Acceptable, Camp, linkVars, failVars
<1>8. CASE RecvSystemInformation
  BY <1>8 DEF RecvSystemInformation, selectionVars, linkVars
<1>9. CASE \E f \in Reports : ReportUeMeasurements(f)
  BY <1>9 DEF ReportUeMeasurements, SynchronizeToStrongestCell, Strongest, linkVars,
       failVars
<1>10. CASE NotifyOutOfSync
  BY <1>10 DEF NotifyOutOfSync, selectionVars, failVars
<1>11. CASE NotifyInSync
  BY <1>11 DEF NotifyInSync, ResetRlfParams, Cancelled, selectionVars, failVars
<1>12. CASE ResetSyncIndicationCounter
  BY <1>12 DEF ResetSyncIndicationCounter, selectionVars, failVars
<1>13. CASE NotifyRandomAccessSuccessful
  BY <1>13 DEF NotifyRandomAccessSuccessful, selectionVars, linkVars, failVars
<1>14. CASE NotifyRandomAccessFailed
  BY <1>14 DEF NotifyRandomAccessFailed, Camp, LeaveConnectedMode, ResetRlfParams,
       ResetMacs, Cancelled, Nothing, selectionVars, linkVars, failVars
<1>15. CASE RecvRrcConnectionSetup
  BY <1>15 DEF RecvRrcConnectionSetup, Cancelled, selectionVars, linkVars
<1>16. CASE RecvRrcConnectionReject
  BY <1>16 DEF RecvRrcConnectionReject, Camp, Cancelled, selectionVars, linkVars,
       failVars
<1>17. CASE \E c \in Cell : RecvRrcConnectionReconfiguration(c)
  BY <1>17 DEF RecvRrcConnectionReconfiguration, SupervisionAtHandover,
       ResetRlfParams, Cancelled, linkVars, failVars
<1>18. CASE SendRrcConnectionRelease
  BY <1>18 DEF SendRrcConnectionRelease, selectionVars, linkVars, failVars
<1>19. CASE RecvRrcConnectionRelease
  BY <1>19 DEF RecvRrcConnectionRelease, AlreadyLeft, LeaveConnectedMode,
       ResetRlfParams, ResetMacs, Cancelled, Nothing, selectionVars,
       linkVars, failVars
<1>20. CASE ConnectionTimeout
  BY <1>20 DEF ConnectionTimeout, Camp, LeaveConnectedMode, ResetRlfParams, ResetMacs,
       Cancelled, Nothing, selectionVars, linkVars
<1>21. CASE RadioLinkFailureDetected
  BY <1>21 DEF RadioLinkFailureDetected, LeaveConnectedMode, ResetRlfParams,
       ResetMacs, Cancelled, Nothing, failVars
<1>22. CASE UNCHANGED vars
  BY <1>22 DEF vars, selectionVars, linkVars, failVars
<1>23. QED
  BY <1>1, <1>2, <1>3, <1>4, <1>5, <1>6, <1>7, <1>8, <1>9, <1>10, <1>11,
     <1>12, <1>13, <1>14, <1>15, <1>16, <1>17, <1>18, <1>19, <1>20,
     <1>21, <1>22
     DEF Next, NasNext, PhyNext, MacNext, EnbNext, TimerNext

\* Every handler keeps the types of T300 and of the failure counter: the counter
\* is below the limit a cell broadcast, which is at most 4.
LEMMA TimerTypesStep == SelectionTypes /\ TimerTypes /\ [Next]_vars => TimerTypes'
<1> SUFFICES ASSUME SelectionTypes /\ TimerTypes, [Next]_vars PROVE TimerTypes'
  OBVIOUS
<1> USE CellAssumption DEF SelectionTypes, TimerTypes
<1>1. CASE StartCellSelection
  BY <1>1 DEF StartCellSelection, selectionVars, linkVars, failVars
<1>2. CASE \E c \in Cell : ForceCampedOnEnb(c)
  BY <1>2 DEF ForceCampedOnEnb, linkVars, failVars
<1>3. CASE DoConnect
  BY <1>3 DEF DoConnect, Connect, Camp, selectionVars, linkVars, failVars
<1>4. CASE Retry
  BY <1>4 DEF Retry, Connect, Camp, selectionVars, linkVars, failVars
<1>5. CASE Disconnect
  BY <1>5 DEF Disconnect, LeaveConnectedMode, ResetRlfParams, ResetMacs, Cancelled,
       Nothing, failVars
<1>6. CASE RecvMasterInformationBlock
  BY <1>6 DEF RecvMasterInformationBlock, Camp, selectionVars, linkVars, failVars
<1>7. CASE RecvSystemInformationBlockType1
  BY <1>7 DEF RecvSystemInformationBlockType1, CampOnSuitableCell, TryNextCell,
       Refused, SynchronizeToStrongestCell, Strongest, Suitable,
       Acceptable, Camp, linkVars, failVars
<1>8. CASE RecvSystemInformation
  BY <1>8 DEF RecvSystemInformation, selectionVars, linkVars
<1>9. CASE \E f \in Reports : ReportUeMeasurements(f)
  BY <1>9 DEF ReportUeMeasurements, SynchronizeToStrongestCell, Strongest, linkVars,
       failVars
<1>10. CASE NotifyOutOfSync
  BY <1>10 DEF NotifyOutOfSync, selectionVars, failVars
<1>11. CASE NotifyInSync
  BY <1>11 DEF NotifyInSync, ResetRlfParams, Cancelled, selectionVars, failVars
<1>12. CASE ResetSyncIndicationCounter
  BY <1>12 DEF ResetSyncIndicationCounter, selectionVars, failVars
<1>13. CASE NotifyRandomAccessSuccessful
  BY <1>13 DEF NotifyRandomAccessSuccessful, selectionVars, linkVars, failVars
<1>14. CASE NotifyRandomAccessFailed
  BY <1>14 DEF NotifyRandomAccessFailed, Camp, LeaveConnectedMode, ResetRlfParams,
       ResetMacs, Cancelled, Nothing, selectionVars, linkVars, failVars
<1>15. CASE RecvRrcConnectionSetup
  BY <1>15 DEF RecvRrcConnectionSetup, Cancelled, selectionVars, linkVars
<1>16. CASE RecvRrcConnectionReject
  BY <1>16 DEF RecvRrcConnectionReject, Camp, Cancelled, selectionVars, linkVars,
       failVars
<1>17. CASE \E c \in Cell : RecvRrcConnectionReconfiguration(c)
  BY <1>17 DEF RecvRrcConnectionReconfiguration, SupervisionAtHandover,
       ResetRlfParams, Cancelled, linkVars, failVars
<1>18. CASE SendRrcConnectionRelease
  BY <1>18 DEF SendRrcConnectionRelease, selectionVars, linkVars, failVars
<1>19. CASE RecvRrcConnectionRelease
  BY <1>19 DEF RecvRrcConnectionRelease, AlreadyLeft, LeaveConnectedMode,
       ResetRlfParams, ResetMacs, Cancelled, Nothing, selectionVars,
       linkVars, failVars
<1>20. CASE ConnectionTimeout
  BY <1>20 DEF ConnectionTimeout, Camp, LeaveConnectedMode, ResetRlfParams, ResetMacs,
       Cancelled, Nothing, selectionVars, linkVars
<1>21. CASE RadioLinkFailureDetected
  BY <1>21 DEF RadioLinkFailureDetected, LeaveConnectedMode, ResetRlfParams,
       ResetMacs, Cancelled, Nothing, failVars
<1>22. CASE UNCHANGED vars
  BY <1>22 DEF vars, selectionVars, linkVars, failVars
<1>23. QED
  BY <1>1, <1>2, <1>3, <1>4, <1>5, <1>6, <1>7, <1>8, <1>9, <1>10, <1>11,
     <1>12, <1>13, <1>14, <1>15, <1>16, <1>17, <1>18, <1>19, <1>20,
     <1>21, <1>22
     DEF Next, NasNext, PhyNext, MacNext, EnbNext, TimerNext

\* ResetRlfParams resets the counter below both limits.
LEMMA ResetTypes ==
  ASSUME NEW n \in Nat, ResetRlfParams(n) PROVE LinkTypes'
<1>1. Cancelled(n) \in Nat
  BY DEF Cancelled
<1>2. 0 < N310 /\ 0 < N311
  BY SyncAssumption
<1>3. t310' \in Nat /\ detectInSync' = FALSE /\ noOfSyncIndications' = 0
  BY <1>1 DEF ResetRlfParams
<1>. QED
  BY <1>2, <1>3 DEF LinkTypes

\* An out-of-sync indication is counted, or starts T310 at N310.
LEMMA OutOfSyncTypes == LinkTypes /\ NotifyOutOfSync => LinkTypes'
<1> SUFFICES ASSUME LinkTypes, NotifyOutOfSync PROVE LinkTypes'
  OBVIOUS
<1>1. N310 \in Nat /\ N311 \in Nat /\ 0 < N311 /\ 0 < N310
  BY SyncAssumption
<1>2. CASE noOfSyncIndications + 1 = N310
  BY <1>1, <1>2 DEF LinkTypes, NotifyOutOfSync
<1>3. CASE noOfSyncIndications + 1 # N310
  BY <1>1, <1>3 DEF LinkTypes, NotifyOutOfSync
<1>4. QED
  BY <1>2, <1>3

\* An in-sync indication is counted, or ends the supervision at N311.
LEMMA InSyncTypes == LinkTypes /\ NotifyInSync => LinkTypes'
<1> SUFFICES ASSUME LinkTypes, NotifyInSync PROVE LinkTypes'
  OBVIOUS
<1>1. N310 \in Nat /\ N311 \in Nat /\ 0 < N311 /\ 0 < N310
  BY SyncAssumption
<1>2. CASE noOfSyncIndications + 1 = N311
  BY <1>1, <1>2, ResetTypes DEF LinkTypes, NotifyInSync
<1>3. CASE noOfSyncIndications + 1 # N311
  BY <1>1, <1>3 DEF LinkTypes, NotifyInSync
<1>4. QED
  BY <1>2, <1>3

\* Every handler keeps the types of the radio link supervision.
LEMMA LinkTypesStep == LinkTypes /\ [Next]_vars => LinkTypes'
<1> SUFFICES ASSUME LinkTypes, [Next]_vars PROVE LinkTypes'
  OBVIOUS
<1> USE DEF LinkTypes
<1>1. CASE StartCellSelection
  BY <1>1 DEF StartCellSelection, selectionVars, linkVars, failVars
<1>2. CASE \E c \in Cell : ForceCampedOnEnb(c)
  BY <1>2 DEF ForceCampedOnEnb, linkVars, failVars
<1>3. CASE DoConnect
  BY <1>3 DEF DoConnect, Connect, Camp, selectionVars, linkVars, failVars
<1>4. CASE Retry
  BY <1>4 DEF Retry, Connect, Camp, selectionVars, linkVars, failVars
<1>5. CASE Disconnect
  BY <1>5, ResetTypes DEF Disconnect, LeaveConnectedMode, LinkTypes, linkVars
<1>6. CASE RecvMasterInformationBlock
  BY <1>6 DEF RecvMasterInformationBlock, Camp, selectionVars, linkVars, failVars
<1>7. CASE RecvSystemInformationBlockType1
  BY <1>7 DEF RecvSystemInformationBlockType1, CampOnSuitableCell, TryNextCell,
       Refused, SynchronizeToStrongestCell, Strongest, Suitable,
       Acceptable, Camp, linkVars, failVars
<1>8. CASE RecvSystemInformation
  BY <1>8 DEF RecvSystemInformation, selectionVars, linkVars
<1>9. CASE \E f \in Reports : ReportUeMeasurements(f)
  BY <1>9 DEF ReportUeMeasurements, SynchronizeToStrongestCell, Strongest, linkVars,
       failVars
<1>10. CASE NotifyOutOfSync
  BY <1>10, OutOfSyncTypes
<1>11. CASE NotifyInSync
  BY <1>11, InSyncTypes
<1>12. CASE ResetSyncIndicationCounter
  <2>1. N310 \in Nat /\ N311 \in Nat /\ 0 < N310 /\ 0 < N311
    BY SyncAssumption
  <2>2. QED
    BY <1>12, <2>1 DEF ResetSyncIndicationCounter
<1>13. CASE NotifyRandomAccessSuccessful
  BY <1>13 DEF NotifyRandomAccessSuccessful, selectionVars, linkVars, failVars
<1>14. CASE NotifyRandomAccessFailed
  BY <1>14, ResetTypes DEF NotifyRandomAccessFailed, LeaveConnectedMode, LinkTypes, linkVars
<1>15. CASE RecvRrcConnectionSetup
  BY <1>15 DEF RecvRrcConnectionSetup, Cancelled, selectionVars, linkVars
<1>16. CASE RecvRrcConnectionReject
  BY <1>16 DEF RecvRrcConnectionReject, Camp, Cancelled, selectionVars, linkVars,
       failVars
<1>17. CASE \E c \in Cell : RecvRrcConnectionReconfiguration(c)
  BY <1>17, ResetTypes DEF RecvRrcConnectionReconfiguration, SupervisionAtHandover, LinkTypes, linkVars
<1>18. CASE SendRrcConnectionRelease
  BY <1>18 DEF SendRrcConnectionRelease, selectionVars, linkVars, failVars
<1>19. CASE RecvRrcConnectionRelease
  BY <1>19, ResetTypes DEF RecvRrcConnectionRelease, LeaveConnectedMode, LinkTypes, linkVars
<1>20. CASE ConnectionTimeout
  <2>1. CASE LeaveConnectedMode(t310)
    BY <2>1, ResetTypes DEF LeaveConnectedMode, LinkTypes
  <2>2. CASE UNCHANGED linkVars
    BY <2>2 DEF linkVars, LinkTypes
  <2>3. QED
    BY <1>20, <2>1, <2>2 DEF ConnectionTimeout
<1>21. CASE RadioLinkFailureDetected
  BY <1>21, ResetTypes DEF RadioLinkFailureDetected, LeaveConnectedMode, LinkTypes, linkVars
<1>22. CASE UNCHANGED vars
  BY <1>22 DEF vars, selectionVars, linkVars, failVars
<1>23. QED
  BY <1>1, <1>2, <1>3, <1>4, <1>5, <1>6, <1>7, <1>8, <1>9, <1>10, <1>11,
     <1>12, <1>13, <1>14, <1>15, <1>16, <1>17, <1>18, <1>19, <1>20,
     <1>21, <1>22
     DEF Next, NasNext, PhyNext, MacNext, EnbNext, TimerNext

\* Every handler keeps the types of the cell selection: the PHY is synchronised
\* only with cells that were measured, and only measured levels are stored.
LEMMA SelectionTypesStep == SelectionTypes /\ [Next]_vars => SelectionTypes'
<1> SUFFICES ASSUME SelectionTypes, [Next]_vars PROVE SelectionTypes'
  OBVIOUS
<1> USE CellAssumption, ReportAssumption DEF SelectionTypes
<1>1. CASE StartCellSelection
  BY <1>1 DEF StartCellSelection, selectionVars, linkVars, failVars
<1>2. CASE \E c \in Cell : ForceCampedOnEnb(c)
  BY <1>2 DEF ForceCampedOnEnb, linkVars, failVars
<1>3. CASE DoConnect
  BY <1>3 DEF DoConnect, Connect, Camp, selectionVars, linkVars, failVars
<1>4. CASE Retry
  BY <1>4 DEF Retry, Connect, Camp, selectionVars, linkVars, failVars
<1>5. CASE Disconnect
  BY <1>5 DEF Disconnect, LeaveConnectedMode, ResetRlfParams, ResetMacs, Cancelled,
       Nothing, failVars
<1>6. CASE RecvMasterInformationBlock
  BY <1>6 DEF RecvMasterInformationBlock, Camp, selectionVars, linkVars, failVars
<1>7. CASE RecvSystemInformationBlockType1
  BY <1>7 DEF RecvSystemInformationBlockType1, CampOnSuitableCell, TryNextCell,
       Refused, SynchronizeToStrongestCell, Strongest, Suitable,
       Acceptable, Camp, linkVars, failVars
<1>8. CASE RecvSystemInformation
  BY <1>8 DEF RecvSystemInformation, selectionVars, linkVars
<1>9. CASE \E f \in Reports : ReportUeMeasurements(f)
  BY <1>9 DEF ReportUeMeasurements, SynchronizeToStrongestCell, Strongest, linkVars,
       failVars
<1>10. CASE NotifyOutOfSync
  BY <1>10 DEF NotifyOutOfSync, selectionVars, failVars
<1>11. CASE NotifyInSync
  BY <1>11 DEF NotifyInSync, ResetRlfParams, Cancelled, selectionVars, failVars
<1>12. CASE ResetSyncIndicationCounter
  BY <1>12 DEF ResetSyncIndicationCounter, selectionVars, failVars
<1>13. CASE NotifyRandomAccessSuccessful
  BY <1>13 DEF NotifyRandomAccessSuccessful, selectionVars, linkVars, failVars
<1>14. CASE NotifyRandomAccessFailed
  BY <1>14 DEF NotifyRandomAccessFailed, Camp, LeaveConnectedMode, ResetRlfParams,
       ResetMacs, Cancelled, Nothing, selectionVars, linkVars, failVars
<1>15. CASE RecvRrcConnectionSetup
  BY <1>15 DEF RecvRrcConnectionSetup, Cancelled, selectionVars, linkVars
<1>16. CASE RecvRrcConnectionReject
  BY <1>16 DEF RecvRrcConnectionReject, Camp, Cancelled, selectionVars, linkVars,
       failVars
<1>17. CASE \E c \in Cell : RecvRrcConnectionReconfiguration(c)
  BY <1>17 DEF RecvRrcConnectionReconfiguration, SupervisionAtHandover,
       ResetRlfParams, Cancelled, linkVars, failVars
<1>18. CASE SendRrcConnectionRelease
  BY <1>18 DEF SendRrcConnectionRelease, selectionVars, linkVars, failVars
<1>19. CASE RecvRrcConnectionRelease
  BY <1>19 DEF RecvRrcConnectionRelease, AlreadyLeft, LeaveConnectedMode,
       ResetRlfParams, ResetMacs, Cancelled, Nothing, selectionVars,
       linkVars, failVars
<1>20. CASE ConnectionTimeout
  BY <1>20 DEF ConnectionTimeout, Camp, LeaveConnectedMode, ResetRlfParams, ResetMacs,
       Cancelled, Nothing, selectionVars, linkVars
<1>21. CASE RadioLinkFailureDetected
  BY <1>21 DEF RadioLinkFailureDetected, LeaveConnectedMode, ResetRlfParams,
       ResetMacs, Cancelled, Nothing, failVars
<1>22. CASE UNCHANGED vars
  BY <1>22 DEF vars, selectionVars, linkVars, failVars
<1>23. QED
  BY <1>1, <1>2, <1>3, <1>4, <1>5, <1>6, <1>7, <1>8, <1>9, <1>10, <1>11,
     <1>12, <1>13, <1>14, <1>15, <1>16, <1>17, <1>18, <1>19, <1>20,
     <1>21, <1>22
     DEF Next, NasNext, PhyNext, MacNext, EnbNext, TimerNext

\* No handler is fatal: each is called only in the states it expects.
LEMMA FatalStep == RrcInv /\ [Next]_vars => NoFatalError'
<1> SUFFICES ASSUME RrcInv, [Next]_vars PROVE NoFatalError'
  OBVIOUS
<1> USE DEF RrcInv, TypeOK, StateTypes, NoFatalError, ConnectionTimerMatchesState, HandlersPrepared
<1>1. CASE StartCellSelection
  BY <1>1 DEF StartCellSelection, selectionVars, linkVars, failVars
<1>2. CASE \E c \in Cell : ForceCampedOnEnb(c)
  BY <1>2 DEF ForceCampedOnEnb, linkVars, failVars
<1>3. CASE DoConnect
  BY <1>3 DEF DoConnect, Connect, Camp, selectionVars, linkVars, failVars
<1>4. CASE Retry
  BY <1>4 DEF Retry, Connect, Camp, selectionVars, linkVars, failVars
<1>5. CASE Disconnect
  BY <1>5 DEF Disconnect, LeaveConnectedMode, ResetRlfParams, ResetMacs, Cancelled,
       Nothing, failVars
<1>6. CASE RecvMasterInformationBlock
  BY <1>6 DEF RecvMasterInformationBlock, Camp, selectionVars, linkVars, failVars
<1>7. CASE RecvSystemInformationBlockType1
  BY <1>7 DEF RecvSystemInformationBlockType1, CampOnSuitableCell, TryNextCell,
       Refused, SynchronizeToStrongestCell, Strongest, Suitable,
       Acceptable, Camp, linkVars, failVars
<1>8. CASE RecvSystemInformation
  BY <1>8 DEF RecvSystemInformation, selectionVars, linkVars
<1>9. CASE \E f \in Reports : ReportUeMeasurements(f)
  BY <1>9 DEF ReportUeMeasurements, SynchronizeToStrongestCell, Strongest, linkVars,
       failVars
<1>10. CASE NotifyOutOfSync
  BY <1>10 DEF NotifyOutOfSync, selectionVars, failVars
<1>11. CASE NotifyInSync
  BY <1>11 DEF NotifyInSync, ResetRlfParams, Cancelled, selectionVars, failVars
<1>12. CASE ResetSyncIndicationCounter
  BY <1>12 DEF ResetSyncIndicationCounter, selectionVars, failVars
<1>13. CASE NotifyRandomAccessSuccessful
  BY <1>13 DEF NotifyRandomAccessSuccessful, selectionVars, linkVars, failVars
<1>14. CASE NotifyRandomAccessFailed
  BY <1>14 DEF NotifyRandomAccessFailed, Camp, LeaveConnectedMode, ResetRlfParams,
       ResetMacs, Cancelled, Nothing, selectionVars, linkVars, failVars
<1>15. CASE RecvRrcConnectionSetup
  BY <1>15 DEF RecvRrcConnectionSetup, Cancelled, selectionVars, linkVars
<1>16. CASE RecvRrcConnectionReject
  BY <1>16 DEF RecvRrcConnectionReject, Camp, Cancelled, selectionVars, linkVars,
       failVars
<1>17. CASE \E c \in Cell : RecvRrcConnectionReconfiguration(c)
  BY <1>17 DEF RecvRrcConnectionReconfiguration, SupervisionAtHandover,
       ResetRlfParams, Cancelled, linkVars, failVars
<1>18. CASE SendRrcConnectionRelease
  BY <1>18 DEF SendRrcConnectionRelease, selectionVars, linkVars, failVars
<1>19. CASE RecvRrcConnectionRelease
  BY <1>19 DEF RecvRrcConnectionRelease, AlreadyLeft, LeaveConnectedMode,
       ResetRlfParams, ResetMacs, Cancelled, Nothing, selectionVars,
       linkVars, failVars
<1>20. CASE ConnectionTimeout
  BY <1>20 DEF ConnectionTimeout, Camp, LeaveConnectedMode, ResetRlfParams, ResetMacs,
       Cancelled, Nothing, selectionVars, linkVars
<1>21. CASE RadioLinkFailureDetected
  BY <1>21 DEF RadioLinkFailureDetected, LeaveConnectedMode, ResetRlfParams,
       ResetMacs, Cancelled, Nothing, failVars
<1>22. CASE UNCHANGED vars
  BY <1>22 DEF vars, selectionVars, linkVars, failVars
<1>23. QED
  BY <1>1, <1>2, <1>3, <1>4, <1>5, <1>6, <1>7, <1>8, <1>9, <1>10, <1>11,
     <1>12, <1>13, <1>14, <1>15, <1>16, <1>17, <1>18, <1>19, <1>20,
     <1>21, <1>22
     DEF Next, NasNext, PhyNext, MacNext, EnbNext, TimerNext

\* Every handler that enters or leaves IDLE_CONNECTING starts or stops T300.
LEMMA TimerStep == RrcInv /\ [Next]_vars => ConnectionTimerMatchesState'
<1> SUFFICES ASSUME RrcInv, [Next]_vars PROVE ConnectionTimerMatchesState'
  OBVIOUS
<1> USE DEF RrcInv, TypeOK, StateTypes, DetectionMatchesTimer, ConnectionTimerMatchesState, HandlersPrepared
<1>1. CASE StartCellSelection
  BY <1>1 DEF StartCellSelection, selectionVars, linkVars, failVars
<1>2. CASE \E c \in Cell : ForceCampedOnEnb(c)
  BY <1>2 DEF ForceCampedOnEnb, linkVars, failVars
<1>3. CASE DoConnect
  BY <1>3 DEF DoConnect, Connect, Camp, selectionVars, linkVars, failVars
<1>4. CASE Retry
  BY <1>4 DEF Retry, Connect, Camp, selectionVars, linkVars, failVars
<1>5. CASE Disconnect
  BY <1>5 DEF Disconnect, LeaveConnectedMode, ResetRlfParams, ResetMacs, Cancelled,
       Nothing, failVars
<1>6. CASE RecvMasterInformationBlock
  BY <1>6 DEF RecvMasterInformationBlock, Camp, selectionVars, linkVars, failVars
<1>7. CASE RecvSystemInformationBlockType1
  BY <1>7 DEF RecvSystemInformationBlockType1, CampOnSuitableCell, TryNextCell,
       Refused, SynchronizeToStrongestCell, Strongest, Suitable,
       Acceptable, Camp, linkVars, failVars
<1>8. CASE RecvSystemInformation
  BY <1>8 DEF RecvSystemInformation, selectionVars, linkVars
<1>9. CASE \E f \in Reports : ReportUeMeasurements(f)
  BY <1>9 DEF ReportUeMeasurements, SynchronizeToStrongestCell, Strongest, linkVars,
       failVars
<1>10. CASE NotifyOutOfSync
  BY <1>10 DEF NotifyOutOfSync, selectionVars, failVars
<1>11. CASE NotifyInSync
  BY <1>11 DEF NotifyInSync, ResetRlfParams, Cancelled, selectionVars, failVars
<1>12. CASE ResetSyncIndicationCounter
  BY <1>12 DEF ResetSyncIndicationCounter, selectionVars, failVars
<1>13. CASE NotifyRandomAccessSuccessful
  BY <1>13 DEF NotifyRandomAccessSuccessful, selectionVars, linkVars, failVars
<1>14. CASE NotifyRandomAccessFailed
  BY <1>14 DEF NotifyRandomAccessFailed, Camp, LeaveConnectedMode, ResetRlfParams,
       ResetMacs, Cancelled, Nothing, selectionVars, linkVars, failVars
<1>15. CASE RecvRrcConnectionSetup
  BY <1>15 DEF RecvRrcConnectionSetup, Cancelled, selectionVars, linkVars
<1>16. CASE RecvRrcConnectionReject
  BY <1>16 DEF RecvRrcConnectionReject, Camp, Cancelled, selectionVars, linkVars,
       failVars
<1>17. CASE \E c \in Cell : RecvRrcConnectionReconfiguration(c)
  BY <1>17 DEF RecvRrcConnectionReconfiguration, SupervisionAtHandover,
       ResetRlfParams, Cancelled, linkVars, failVars
<1>18. CASE SendRrcConnectionRelease
  BY <1>18 DEF SendRrcConnectionRelease, selectionVars, linkVars, failVars
<1>19. CASE RecvRrcConnectionRelease
  BY <1>19 DEF RecvRrcConnectionRelease, AlreadyLeft, LeaveConnectedMode,
       ResetRlfParams, ResetMacs, Cancelled, Nothing, selectionVars,
       linkVars, failVars
<1>20. CASE ConnectionTimeout
  BY <1>20 DEF ConnectionTimeout, Camp, LeaveConnectedMode, ResetRlfParams, ResetMacs,
       Cancelled, Nothing, selectionVars, linkVars
<1>21. CASE RadioLinkFailureDetected
  BY <1>21 DEF RadioLinkFailureDetected, LeaveConnectedMode, ResetRlfParams,
       ResetMacs, Cancelled, Nothing, failVars
<1>22. CASE UNCHANGED vars
  BY <1>22 DEF vars, selectionVars, linkVars, failVars
<1>23. QED
  BY <1>1, <1>2, <1>3, <1>4, <1>5, <1>6, <1>7, <1>8, <1>9, <1>10, <1>11,
     <1>12, <1>13, <1>14, <1>15, <1>16, <1>17, <1>18, <1>19, <1>20,
     <1>21, <1>22
     DEF Next, NasNext, PhyNext, MacNext, EnbNext, TimerNext

\* Every handler that leaves connected mode, or starts a handover, stops T310
\* and the PHY's detection of in-sync frames together.
LEMMA LinkStep == RrcInv /\ [Next]_vars => DetectionMatchesTimer'
<1> SUFFICES ASSUME RrcInv, [Next]_vars PROVE DetectionMatchesTimer'
  OBVIOUS
<1> USE DEF RrcInv, TypeOK, StateTypes, LinkTypes, ConnectionTimerMatchesState, DetectionMatchesTimer
<1>1. CASE StartCellSelection
  BY <1>1 DEF StartCellSelection, selectionVars, linkVars, failVars
<1>2. CASE \E c \in Cell : ForceCampedOnEnb(c)
  BY <1>2 DEF ForceCampedOnEnb, linkVars, failVars
<1>3. CASE DoConnect
  BY <1>3 DEF DoConnect, Connect, Camp, selectionVars, linkVars, failVars
<1>4. CASE Retry
  BY <1>4 DEF Retry, Connect, Camp, selectionVars, linkVars, failVars
<1>5. CASE Disconnect
  BY <1>5 DEF Disconnect, LeaveConnectedMode, ResetRlfParams, ResetMacs, Cancelled,
       Nothing, failVars
<1>6. CASE RecvMasterInformationBlock
  BY <1>6 DEF RecvMasterInformationBlock, Camp, selectionVars, linkVars, failVars
<1>7. CASE RecvSystemInformationBlockType1
  BY <1>7 DEF RecvSystemInformationBlockType1, CampOnSuitableCell, TryNextCell,
       Refused, SynchronizeToStrongestCell, Strongest, Suitable,
       Acceptable, Camp, linkVars, failVars
<1>8. CASE RecvSystemInformation
  BY <1>8 DEF RecvSystemInformation, selectionVars, linkVars
<1>9. CASE \E f \in Reports : ReportUeMeasurements(f)
  BY <1>9 DEF ReportUeMeasurements, SynchronizeToStrongestCell, Strongest, linkVars,
       failVars
<1>10. CASE NotifyOutOfSync
  BY <1>10 DEF NotifyOutOfSync, selectionVars, failVars
<1>11. CASE NotifyInSync
  <2>1. CASE noOfSyncIndications + 1 = N311
    <3>1. Cancelled(t310) = 0
      BY DEF Cancelled
    <3>2. QED
      BY <1>11, <2>1, <3>1 DEF NotifyInSync, ResetRlfParams
  <2>2. CASE noOfSyncIndications + 1 # N311
    BY <1>11, <2>2 DEF NotifyInSync
  <2>3. QED
    BY <2>1, <2>2
<1>12. CASE ResetSyncIndicationCounter
  BY <1>12 DEF ResetSyncIndicationCounter, selectionVars, failVars
<1>13. CASE NotifyRandomAccessSuccessful
  BY <1>13 DEF NotifyRandomAccessSuccessful, selectionVars, linkVars, failVars
<1>14. CASE NotifyRandomAccessFailed
  BY <1>14 DEF NotifyRandomAccessFailed, Camp, LeaveConnectedMode, ResetRlfParams,
       ResetMacs, Cancelled, Nothing, selectionVars, linkVars, failVars
<1>15. CASE RecvRrcConnectionSetup
  BY <1>15 DEF RecvRrcConnectionSetup, Cancelled, selectionVars, linkVars
<1>16. CASE RecvRrcConnectionReject
  BY <1>16 DEF RecvRrcConnectionReject, Camp, Cancelled, selectionVars, linkVars,
       failVars
<1>17. CASE \E c \in Cell : RecvRrcConnectionReconfiguration(c)
  BY <1>17 DEF RecvRrcConnectionReconfiguration, SupervisionAtHandover,
       ResetRlfParams, Cancelled, linkVars, failVars
<1>18. CASE SendRrcConnectionRelease
  BY <1>18 DEF SendRrcConnectionRelease, selectionVars, linkVars, failVars
<1>19. CASE RecvRrcConnectionRelease
  BY <1>19 DEF RecvRrcConnectionRelease, AlreadyLeft, LeaveConnectedMode,
       ResetRlfParams, ResetMacs, Cancelled, Nothing, selectionVars,
       linkVars, failVars
<1>20. CASE ConnectionTimeout
  BY <1>20 DEF ConnectionTimeout, Camp, LeaveConnectedMode, ResetRlfParams, ResetMacs,
       Cancelled, Nothing, selectionVars, linkVars
<1>21. CASE RadioLinkFailureDetected
  BY <1>21 DEF RadioLinkFailureDetected, LeaveConnectedMode, ResetRlfParams,
       ResetMacs, Cancelled, Nothing, failVars
<1>22. CASE UNCHANGED vars
  BY <1>22 DEF vars, selectionVars, linkVars, failVars
<1>23. QED
  BY <1>1, <1>2, <1>3, <1>4, <1>5, <1>6, <1>7, <1>8, <1>9, <1>10, <1>11,
     <1>12, <1>13, <1>14, <1>15, <1>16, <1>17, <1>18, <1>19, <1>20,
     <1>21, <1>22
     DEF Next, NasNext, PhyNext, MacNext, EnbNext, TimerNext

\* Every handler leaves what the handlers of the next state rely on.
LEMMA PreparedStep == RrcInv /\ [Next]_vars => HandlersPrepared'
<1> SUFFICES ASSUME RrcInv, [Next]_vars PROVE HandlersPrepared'
  OBVIOUS
<1> USE DEF RrcInv, TypeOK, StateTypes, ConnectionTimerMatchesState, HandlersPrepared
<1>1. CASE StartCellSelection
  BY <1>1 DEF StartCellSelection, selectionVars, linkVars, failVars
<1>2. CASE \E c \in Cell : ForceCampedOnEnb(c)
  BY <1>2 DEF ForceCampedOnEnb, linkVars, failVars
<1>3. CASE DoConnect
  BY <1>3 DEF DoConnect, Connect, Camp, selectionVars, linkVars, failVars
<1>4. CASE Retry
  BY <1>4 DEF Retry, Connect, Camp, selectionVars, linkVars, failVars
<1>5. CASE Disconnect
  BY <1>5 DEF Disconnect, LeaveConnectedMode, ResetRlfParams, ResetMacs, Cancelled,
       Nothing, failVars
<1>6. CASE RecvMasterInformationBlock
  BY <1>6 DEF RecvMasterInformationBlock, Camp, selectionVars, linkVars, failVars
<1>7. CASE RecvSystemInformationBlockType1
  <2>1. CASE CampOnSuitableCell
    BY <1>7, <2>1 DEF RecvSystemInformationBlockType1, CampOnSuitableCell, Camp,
       linkVars
  <2>2. CASE TryNextCell
    BY <1>7, <2>2 DEF RecvSystemInformationBlockType1, TryNextCell,
       SynchronizeToStrongestCell, Strongest, linkVars
  <2>3. QED
    BY <1>7, <2>1, <2>2 DEF RecvSystemInformationBlockType1, linkVars
<1>8. CASE RecvSystemInformation
  BY <1>8 DEF RecvSystemInformation, selectionVars, linkVars
<1>9. CASE \E f \in Reports : ReportUeMeasurements(f)
  BY <1>9 DEF ReportUeMeasurements, SynchronizeToStrongestCell, Strongest, linkVars,
       failVars
<1>10. CASE NotifyOutOfSync
  BY <1>10 DEF NotifyOutOfSync, selectionVars, failVars
<1>11. CASE NotifyInSync
  BY <1>11 DEF NotifyInSync, ResetRlfParams, Cancelled, selectionVars, failVars
<1>12. CASE ResetSyncIndicationCounter
  BY <1>12 DEF ResetSyncIndicationCounter, selectionVars, failVars
<1>13. CASE NotifyRandomAccessSuccessful
  BY <1>13 DEF NotifyRandomAccessSuccessful, selectionVars, linkVars, failVars
<1>14. CASE NotifyRandomAccessFailed
  BY <1>14 DEF NotifyRandomAccessFailed, Camp, LeaveConnectedMode, ResetRlfParams,
       ResetMacs, Cancelled, Nothing, selectionVars, linkVars, failVars
<1>15. CASE RecvRrcConnectionSetup
  BY <1>15 DEF RecvRrcConnectionSetup, Cancelled, selectionVars, linkVars
<1>16. CASE RecvRrcConnectionReject
  BY <1>16 DEF RecvRrcConnectionReject, Camp, Cancelled, selectionVars, linkVars,
       failVars
<1>17. CASE \E c \in Cell : RecvRrcConnectionReconfiguration(c)
  BY <1>17 DEF RecvRrcConnectionReconfiguration, SupervisionAtHandover,
       ResetRlfParams, Cancelled, linkVars, failVars
<1>18. CASE SendRrcConnectionRelease
  BY <1>18 DEF SendRrcConnectionRelease, selectionVars, linkVars, failVars
<1>19. CASE RecvRrcConnectionRelease
  BY <1>19 DEF RecvRrcConnectionRelease, AlreadyLeft, LeaveConnectedMode,
       ResetRlfParams, ResetMacs, Cancelled, Nothing, selectionVars,
       linkVars, failVars
<1>20. CASE ConnectionTimeout
  BY <1>20 DEF ConnectionTimeout, Camp, LeaveConnectedMode, ResetRlfParams, ResetMacs,
       Cancelled, Nothing, selectionVars, linkVars
<1>21. CASE RadioLinkFailureDetected
  BY <1>21 DEF RadioLinkFailureDetected, LeaveConnectedMode, ResetRlfParams,
       ResetMacs, Cancelled, Nothing, failVars
<1>22. CASE UNCHANGED vars
  BY <1>22 DEF vars, selectionVars, linkVars, failVars
<1>23. QED
  BY <1>1, <1>2, <1>3, <1>4, <1>5, <1>6, <1>7, <1>8, <1>9, <1>10, <1>11,
     <1>12, <1>13, <1>14, <1>15, <1>16, <1>17, <1>18, <1>19, <1>20,
     <1>21, <1>22
     DEF Next, NasNext, PhyNext, MacNext, EnbNext, TimerNext

\* The inductive invariant holds in every state of every execution.
LEMMA Inductive == Spec => []RrcInv
<1>1. Init => RrcInv
  <2> SUFFICES ASSUME Init PROVE RrcInv
    OBVIOUS
  <2>1. StateTypes
    BY DEF Init, StateTypes
  <2>2. SelectionTypes
    BY DEF Init, SelectionTypes, Nothing
  <2>3. TimerTypes
    BY DEF Init, TimerTypes
  <2>4. LinkTypes
    <3>1. N310 \in Nat /\ 0 < N310
      BY SyncAssumption
    <3>2. QED
      BY <3>1 DEF Init, LinkTypes
  <2>5. NoFatalError /\ ConnectionTimerMatchesState /\ DetectionMatchesTimer
    BY DEF Init, NoFatalError, ConnectionTimerMatchesState, DetectionMatchesTimer
  <2>6. HandlersPrepared
    BY DEF Init, HandlersPrepared
  <2>7. QED
    BY <2>1, <2>2, <2>3, <2>4, <2>5, <2>6 DEF RrcInv, TypeOK
<1>2. RrcInv /\ [Next]_vars => RrcInv'
  BY StateTypesStep, SelectionTypesStep, TimerTypesStep, LinkTypesStep, FatalStep,
     TimerStep, LinkStep, PreparedStep DEF RrcInv, TypeOK
<1>3. QED
  BY <1>1, <1>2, PTL DEF Spec

-----------------------------------------------------------------------------
\* Every variable has its type and the counter of sync indications never
\* passes the value it is compared with, in every order of the events.
THEOREM TypeCorrect == Spec => []TypeOK
<1>1. RrcInv => TypeOK
  BY DEF RrcInv
<1>2. QED
  BY <1>1, Inductive, PTL

\* No interleaving of messages, timers, random access results and NAS calls
\* reaches an NS_FATAL_ERROR, NS_ABORT or NS_ASSERT of the connection handlers.
THEOREM NeverFatal == Spec => []NoFatalError
<1>1. RrcInv => NoFatalError
  BY DEF RrcInv
<1>2. QED
  BY <1>1, Inductive, PTL

\* T300 runs exactly while a connection request is unanswered.
THEOREM ConnectionTimerCorrect == Spec => []ConnectionTimerMatchesState
<1>1. RrcInv => ConnectionTimerMatchesState
  BY DEF RrcInv
<1>2. QED
  BY <1>1, Inductive, PTL

\* T310 runs exactly while the PHY looks for in-sync frames, and only in
\* connected mode; the counter of sync indications never passes the number it
\* is compared with.
THEOREM SupervisionCorrect == Spec => []RadioLinkSupervised
<1>1. RrcInv => RadioLinkSupervised
  BY DEF RrcInv, TypeOK, LinkTypes, DetectionMatchesTimer, RadioLinkSupervised
<1>2. QED
  BY <1>1, Inductive, PTL
=============================================================================
