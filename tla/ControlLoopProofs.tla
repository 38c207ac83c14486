------------------------- MODULE ControlLoopProofs -------------------------
(***************************************************************************)
(* Proofs about the control loop, for any number of cells and UEs, any     *)
(* powers and thresholds and any number of lost lists and restarts: the    *)
(* log tells the power of the cells, a sleeping cell can be woken, what is *)
(* put to sleep was drained, no file is missed, and without faults the cap *)
(* on sleeping cells holds for the cells themselves.                       *)
(***************************************************************************)
EXTENDS ControlLoop, FiniteSetTheorems, TLAPS

\* The commands of ControlLoop.
PowerCmd == {CellSleep(c) : c \in Cell} \cup {CellWake(c) : c \in Cell}
Cmd == Steering \cup PowerCmd

\* There are finitely many commands, so that a sorted list has a length.
LEMMA CmdFinite == IsFiniteSet(Cmd)
<1>1. IsFiniteSet(Cell) /\ IsFiniteSet(Ue)
  BY LoopAssumption
<1>2. IsFiniteSet({CellSleep(c) : c \in Cell})
  <2> DEFINE f == [c \in Cell |-> CellSleep(c)]
  <2>1. f \in Surjection(Cell, {CellSleep(c) : c \in Cell})
    BY DEF Surjection
  <2> QED BY <1>1, <2>1, FS_Surjection
<1>3. IsFiniteSet({CellWake(c) : c \in Cell})
  <2> DEFINE f == [c \in Cell |-> CellWake(c)]
  <2>1. f \in Surjection(Cell, {CellWake(c) : c \in Cell})
    BY DEF Surjection
  <2> QED BY <1>1, <2>1, FS_Surjection
<1>4. IsFiniteSet(Steering)
  <2> DEFINE f == [p \in Ue \X Cell |-> Ho(p[1], p[2])]
  <2>1. f \in Surjection(Ue \X Cell, Steering)
    <3>1. \A p \in Ue \X Cell : f[p] \in Steering
      BY DEF Steering
    <3>2. ASSUME NEW h \in Steering PROVE \E p \in Ue \X Cell : f[p] = h
      <4>1. PICK u \in Ue, c \in Cell : h = Ho(u, c)
        BY DEF Steering
      <4>2. <<u, c>> \in Ue \X Cell /\ f[<<u, c>>] = h
        BY <4>1
      <4> QED BY <4>2
    <3> QED BY <3>1, <3>2 DEF Surjection
  <2>2. IsFiniteSet(Ue \X Cell)
    BY <1>1, FS_Product
  <2> QED BY <2>1, <2>2, FS_Surjection
<1> QED BY <1>2, <1>3, <1>4, FS_Union DEF Cmd, PowerCmd

\* A sorted list of commands consists of these commands.
LEMMA SortedType ==
  ASSUME NEW K \in SUBSET Cmd, NEW s \in Sorted(K)
  PROVE  s \in Seq(Cmd) /\ \A i \in DOMAIN s : s[i] \in K
<1>1. Cardinality(K) \in Nat
  BY CmdFinite, FS_Subset, FS_CardinalityType
<1>2. s \in [1..Cardinality(K) -> K]
  BY DEF Sorted
<1> QED BY <1>1, <1>2

-----------------------------------------------------------------------------
File == [number : Nat, ts : 0..MaxSim, commands : Seq(Cmd)]
Report == [ue : Ue, cell : Cell, time : 1..MaxSim]
Row == {NoRow} \cup [cell : Cell, time : 1..MaxSim]
ServingMap == UNION {[U -> Cell] : U \in SUBSET Ue}
Snapshot == [sim : 0..MaxSim, serving : ServingMap, sleeping : SUBSET Cell]

SimTypes ==
  /\ sim \in 0..MaxSim
  /\ serving \in [Ue -> Cell] /\ due \subseteq Report /\ reported \in [Ue -> Row]
  /\ arrived \in [Ue -> 0..MaxSim]
  /\ inFlight \subseteq Ue \X Cell \X Cell

CellTypes ==
  /\ power \in [Cell -> {FullPower, SleepPower}]
  /\ original \in [Cell -> {{}, {FullPower}}]
  /\ asleep \in [Cell -> BOOLEAN]
  /\ log \in [Cell -> {None, "CELL_SLEEP", "CELL_WAKE", "AUTO_WAKE"}]

BridgeTypes ==
  /\ ns \in {"tick", "poll", "open", "apply"}
  /\ ns = "apply" => todo # <<>>
  /\ todo \in Seq(Cmd) /\ todoTs \in 0..MaxSim
  /\ lastMtime \in Nat /\ statMtime \in Nat /\ read \in Nat

FileTypes == file \subseteq File /\ writes \in Nat /\ faults \in Nat

ChangeTimes == {{}} \cup {{t} : t \in 0..MaxSim}

OrchTypes ==
  /\ pc \in {"idle", "clock", "ues", "snap", "write", "exited"}
  /\ pc = "clock" => snap \in [sim : 0..MaxSim, serving : {<<>>}, sleeping : {{}}]
  /\ pc \in {"ues", "snap", "write"} => snap \in Snapshot
  /\ belief \in [Cell -> {"awake", "asleep"}]
  /\ changed \in [Cell -> ChangeTimes]
  /\ lastSim \in Nat /\ idle \in Nat /\ warm \in 0..2
  /\ toWrite \in Seq(Cmd)

\* The types of all variables; those of TypeOK and of the rest.
Types == SimTypes /\ CellTypes /\ BridgeTypes /\ FileTypes /\ OrchTypes

LEMMA TypesImplyTypeOK == Types => TypeOK
<1> SUFFICES ASSUME Types PROVE TypeOK
  OBVIOUS
<1>1. changed \in [Cell -> {{}} \cup {{t} : t \in 0..MaxSim}]
  BY DEF Types, OrchTypes, ChangeTimes
<1>2. {lastMtime, statMtime, read, writes, faults, idle, lastSim, todoTs} \subseteq Nat
  BY LoopAssumption DEF Types, BridgeTypes, FileTypes, OrchTypes
<1>3. CellTypes /\ SimTypes /\ ns \in {"tick", "poll", "open", "apply"}
      /\ pc \in {"idle", "clock", "ues", "snap", "write", "exited"}
      /\ belief \in [Cell -> {"awake", "asleep"}] /\ warm \in 0..2
  BY DEF Types, BridgeTypes, OrchTypes
<1> HIDE DEF Types
<1> QED BY <1>1, <1>2, <1>3 DEF TypeOK, CellTypes, SimTypes, Report, Row

\* A wake restores the full power.
LEMMA RestoreFull ==
  ASSUME CellTypes, NEW c \in Cell, CanBeWoken
  PROVE  Restore(c) = FullPower
<1>1. CASE original[c] = {}
  BY <1>1, LoopAssumption DEF CellTypes, CanBeWoken, Restore
<1>2. CASE original[c] = {FullPower}
  BY <1>2 DEF Restore
<1> QED BY <1>1, <1>2 DEF CellTypes

\* The serving cells of a snapshot.
LEMMA SnapshotUes ==
  ASSUME NEW S \in Snapshot
  PROVE  DOMAIN S.serving \subseteq Ue /\ \A u \in DOMAIN S.serving : S.serving[u] \in Cell
<1>1. PICK U \in SUBSET Ue : S.serving \in [U -> Cell]
  BY DEF Snapshot, ServingMap
<1> QED BY <1>1

\* Decide leaves a typed, sorted list of the kept actions.
LEMMA DecideList ==
  ASSUME Types, Decide
  PROVE  /\ toWrite' \in Seq(Cmd)
         /\ \A i \in DOMAIN toWrite' : toWrite'[i].type = "cell_sleep" =>
              \A u \in DOMAIN snap.serving : snap.serving[u] # toWrite'[i].cell
<1>1. snap \in Snapshot
  BY DEF Types, OrchTypes, Decide
<1>2. PICK plan \in SleepPlans, wake \in SUBSET (Cell \ BelievedAwake) :
        \E H \in SUBSET (Offloads(plan) \cup Steering) :
          LET sleep == {c \in plan : ~Occupied(c)}
              A == {CellSleep(c) : c \in sleep} \cup {CellWake(c) : c \in wake} \cup H
          IN toWrite' \in Sorted({a \in A : Kept(a, A, snap)})
  BY DEF Decide
<1> DEFINE sleep == {c \in plan : ~Occupied(c)}
           Power == {CellSleep(c) : c \in sleep} \cup {CellWake(c) : c \in wake}
<1>. PICK H \in SUBSET (Offloads(plan) \cup Steering) :
       toWrite' \in Sorted({a \in Power \cup H : Kept(a, Power \cup H, snap)})
  BY <1>2
<1> DEFINE A == Power \cup H
           K == {a \in A : Kept(a, A, snap)}
<1>3. plan \subseteq Cell
  BY DEF SleepPlans, BelievedAwake
<1>4. H \subseteq Steering
  BY <1>1, SnapshotUes DEF Offloads, Steering
<1>5. K \subseteq Cmd
  BY <1>3, <1>4 DEF Cmd, PowerCmd
<1>6. toWrite' \in Seq(Cmd) /\ \A i \in DOMAIN toWrite' : toWrite'[i] \in K
  BY <1>2, <1>5, SortedType
<1>7. ASSUME NEW a \in K, a.type = "cell_sleep", NEW u \in DOMAIN snap.serving
      PROVE  snap.serving[u] # a.cell
  <2>1. Drained(a.cell, snap)
    BY <1>7 DEF Kept
  <2> QED BY <1>1, <2>1 DEF Drained, Snapshot
<1> HIDE DEF K
<1> QED BY <1>6, <1>7

LEMMA TypesInit == Init => Types
<1> SUFFICES ASSUME Init PROVE Types
  OBVIOUS
<1> USE LoopAssumption
<1>1. SimTypes
  BY DEF Init, SimTypes, Row
<1>2. CellTypes
  BY DEF Init, CellTypes
<1>3. BridgeTypes /\ FileTypes
  BY DEF Init, BridgeTypes, FileTypes
<1>4. OrchTypes
  BY DEF Init, OrchTypes, ChangeTimes
<1> QED BY <1>1, <1>2, <1>3, <1>4 DEF Types

\* A group of variables that an action leaves alone keeps its types.
LEMMA KeptTypes ==
  /\ SimTypes /\ UNCHANGED <<sim, nsVars>> => SimTypes'
  /\ CellTypes /\ UNCHANGED cellVars => CellTypes'
  /\ BridgeTypes /\ UNCHANGED <<ns, bridgeVars>> => BridgeTypes'
  /\ FileTypes /\ UNCHANGED <<file, writes, faults>> => FileTypes'
  /\ OrchTypes /\ UNCHANGED orchVars => OrchTypes'
<1>1. SimTypes /\ UNCHANGED <<sim, nsVars>> => SimTypes'
  BY DEF SimTypes, nsVars
<1>2. CellTypes /\ UNCHANGED cellVars => CellTypes'
  BY DEF CellTypes, cellVars
<1>3. BridgeTypes /\ UNCHANGED <<ns, bridgeVars>> => BridgeTypes'
  BY DEF BridgeTypes, bridgeVars
<1>4. FileTypes /\ UNCHANGED <<file, writes, faults>> => FileTypes'
  BY DEF FileTypes
<1>5. OrchTypes /\ UNCHANGED orchVars => OrchTypes'
  BY DEF OrchTypes, orchVars
<1> QED BY <1>1, <1>2, <1>3, <1>4, <1>5

-----------------------------------------------------------------------------
\* Types and the relations between power, record and log are inductive.
PowerInv == Types /\ LogTellsPower /\ CanBeWoken

LEMMA SleepKeepsPower ==
  ASSUME PowerInv, NEW c \in Cell, ApplySleep(c)
  PROVE  CellTypes' /\ LogTellsPower' /\ CanBeWoken'
<1>1. /\ power \in [Cell -> {FullPower, SleepPower}]
      /\ original \in [Cell -> {{}, {FullPower}}]
      /\ asleep \in [Cell -> BOOLEAN]
      /\ log \in [Cell -> {None, "CELL_SLEEP", "CELL_WAKE", "AUTO_WAKE"}]
  BY DEF PowerInv, Types, CellTypes
<1>2. SleepPower < FullPower /\ SleepPower \in Nat /\ FullPower \in Nat
  BY LoopAssumption
<1>3. asleep[c] <=> power[c] = SleepPower
  BY DEF PowerInv, CanBeWoken
<1>4. RememberPower(c) = {FullPower}
  <2>1. CASE original[c] = {}
    BY <1>1, <1>3, <2>1 DEF PowerInv, CanBeWoken, RememberPower
  <2>2. CASE original[c] = {FullPower}
    BY <2>2 DEF RememberPower
  <2> QED BY <1>1, <2>1, <2>2
<1>5. original' = [original EXCEPT ![c] = {FullPower}] /\ asleep' = [asleep EXCEPT ![c] = TRUE]
  BY <1>4 DEF ApplySleep
<1>6. power' \in [Cell -> {FullPower, SleepPower}] /\ power'[c] = SleepPower
      /\ \A d \in Cell \ {c} : power'[d] = power[d]
  BY <1>1, <1>2 DEF ApplySleep
<1>7. log' \in [Cell -> {None, "CELL_SLEEP", "CELL_WAKE", "AUTO_WAKE"}]
      /\ log'[c] = "CELL_SLEEP" /\ \A d \in Cell \ {c} : log'[d] = log[d]
  BY <1>1, <1>2 DEF ApplySleep, PowerInv, LogTellsPower
<1>8. LogTellsPower'
  BY <1>6, <1>7 DEF PowerInv, LogTellsPower
<1>9. CanBeWoken'
  BY <1>1, <1>5, <1>6 DEF PowerInv, CanBeWoken
<1> QED BY <1>1, <1>5, <1>6, <1>7, <1>8, <1>9 DEF CellTypes

LEMMA WakeKeepsPower ==
  ASSUME PowerInv, NEW c \in Cell, NEW kind \in {"CELL_WAKE", "AUTO_WAKE"}, ApplyWake(c, kind)
  PROVE  CellTypes' /\ LogTellsPower' /\ CanBeWoken'
<1>1. Restore(c) = FullPower
  BY RestoreFull DEF PowerInv, Types
<1>2. /\ power \in [Cell -> {FullPower, SleepPower}]
      /\ asleep \in [Cell -> BOOLEAN]
      /\ log \in [Cell -> {None, "CELL_SLEEP", "CELL_WAKE", "AUTO_WAKE"}]
      /\ FullPower # SleepPower
  BY LoopAssumption DEF PowerInv, Types, CellTypes
<1>3. original' = original /\ asleep' = [asleep EXCEPT ![c] = FALSE]
  BY DEF ApplyWake
<1>4. power' \in [Cell -> {FullPower, SleepPower}] /\ power'[c] = FullPower
      /\ \A d \in Cell \ {c} : power'[d] = power[d]
  BY <1>1, <1>2 DEF ApplyWake
<1>5. log' \in [Cell -> {None, "CELL_SLEEP", "CELL_WAKE", "AUTO_WAKE"}]
      /\ log'[c] # "CELL_SLEEP" /\ \A d \in Cell \ {c} : log'[d] = log[d]
  BY <1>1, <1>2 DEF ApplyWake, LogWake, PowerInv, LogTellsPower
<1>6. LogTellsPower'
  BY <1>2, <1>4, <1>5 DEF PowerInv, LogTellsPower
<1>7. CanBeWoken'
  BY <1>2, <1>3, <1>4 DEF PowerInv, CanBeWoken
<1> QED BY <1>2, <1>3, <1>4, <1>5, <1>6, <1>7 DEF PowerInv, Types, CellTypes

-----------------------------------------------------------------------------
\* BridgeApply keeps the invariant, whichever command is next.
LEMMA ApplyKeepsPower ==
  ASSUME PowerInv, BridgeApply
  PROVE  PowerInv'
<1> DEFINE a == Head(todo)
           CellsOk == CellTypes' /\ LogTellsPower' /\ CanBeWoken'
<1>1. todo \in Seq(Cmd) /\ todo # <<>>
  BY DEF PowerInv, Types, BridgeTypes, BridgeApply
<1>2. a \in Cmd /\ todo' \in Seq(Cmd)
  BY <1>1 DEF BridgeApply
<1>3. UNCHANGED cellVars => CellsOk
  BY DEF PowerInv, Types, CellTypes, LogTellsPower, CanBeWoken, cellVars
<1>4. inFlight \subseteq Ue \X Cell \X Cell /\ reported \in [Ue -> Row]
  BY DEF PowerInv, Types, SimTypes
<1>5. CellsOk /\ inFlight' \subseteq Ue \X Cell \X Cell
  <2>1. CASE a.type = "cell_sleep" /\ ApplySleep(a.cell) /\ UNCHANGED inFlight
    <3>1. a.cell \in Cell
      BY <1>2, <2>1 DEF Cmd, PowerCmd, Steering, Ho, CellSleep, CellWake
    <3> QED BY <1>4, <2>1, <3>1, SleepKeepsPower
  <2>2. CASE a.type = "cell_wake" /\ ApplyWake(a.cell, "CELL_WAKE") /\ UNCHANGED inFlight
    <3>1. a.cell \in Cell
      BY <1>2, <2>2 DEF Cmd, PowerCmd, Steering, Ho, CellSleep, CellWake
    <3> QED BY <1>4, <2>2, <3>1, WakeKeepsPower
  <2>3. CASE a.type = "ho" /\ ApplyHo(a.ue, a.target)
    <3>1. a.ue \in Ue /\ a.target \in Cell
      BY <1>2, <2>3 DEF Cmd, PowerCmd, Steering, Ho, CellSleep, CellWake
    <3>2. reported[a.ue].cell = 0 \/ <<a.ue, reported[a.ue].cell, a.target>> \in Ue \X Cell \X Cell
      BY <1>4, <3>1 DEF Row, NoRow
    <3>3. inFlight' \subseteq Ue \X Cell \X Cell
      BY <1>4, <2>3, <3>2 DEF ApplyHo
    <3>4. UNCHANGED cellVars \/ ApplyWake(a.target, "AUTO_WAKE")
      BY <2>3 DEF ApplyHo
    <3> QED BY <1>3, <3>1, <3>3, <3>4, WakeKeepsPower
  <2> QED BY <2>1, <2>2, <2>3 DEF BridgeApply
<1>6. SimTypes'
  BY <1>5 DEF PowerInv, Types, SimTypes, BridgeApply
<1>7. BridgeTypes'
  BY <1>2, LoopAssumption DEF PowerInv, Types, BridgeTypes, BridgeApply
<1>8. FileTypes' /\ OrchTypes'
  BY KeptTypes DEF PowerInv, Types, BridgeApply
<1> QED BY <1>5, <1>6, <1>7, <1>8 DEF PowerInv, Types

\* No other action touches the power of a cell, its record or its log.
LEMMA OthersKeepPower ==
  ASSUME PowerInv, UNCHANGED cellVars
  PROVE  LogTellsPower' /\ CanBeWoken'
BY DEF PowerInv, LogTellsPower, CanBeWoken, cellVars

\* The actions of the simulator and of the bridge before it applies a list.
LEMMA SimulatorKeepsTypes ==
  ASSUME Types, Tick \/ SaveCell \/ HandoverDone \/ BridgeStat \/ BridgeRead
  PROVE  Types' /\ UNCHANGED cellVars
<1> USE LoopAssumption, KeptTypes DEF Types
<1>1. CASE Tick
  <2>1. sim' \in 1..MaxSim
    BY <1>1 DEF Tick, SimTypes
  <2>2. due' \subseteq Report
    BY <1>1, <2>1 DEF Tick, SimTypes, Report
  <2>3. SimTypes' /\ BridgeTypes'
    BY <1>1, <2>1, <2>2 DEF Tick, SimTypes, BridgeTypes, bridgeVars
  <2> QED BY <1>1, <2>3 DEF Tick
<1>2. CASE HandoverDone
  <2>1. PICK h \in inFlight :
          IF serving[h[1]] = h[2]
            THEN /\ serving' = [serving EXCEPT ![h[1]] = h[3]]
                 /\ arrived' = [arrived EXCEPT ![h[1]] = sim]
            ELSE UNCHANGED <<serving, arrived>>
    BY <1>2 DEF HandoverDone
  <2>2. h[1] \in Ue /\ h[3] \in Cell
    BY DEF SimTypes
  <2>3. serving' \in [Ue -> Cell] /\ arrived' \in [Ue -> 0..MaxSim]
    BY <2>1, <2>2 DEF SimTypes
  <2>4. SimTypes'
    BY <1>2, <2>3 DEF HandoverDone, SimTypes
  <2> QED BY <1>2, <2>4 DEF HandoverDone
<1>3. CASE BridgeStat
  <2>1. BridgeTypes'
    BY <1>3 DEF BridgeStat, Mtime, BridgeTypes, FileTypes, File
  <2> QED BY <1>3, <2>1 DEF BridgeStat
<1>4. CASE BridgeRead
  <2>1. BridgeTypes' /\ faults' \in Nat
    <3>1. CASE file = {} /\ ns' = "tick" /\ UNCHANGED <<lastMtime, read, todo, todoTs, faults>>
      BY <1>4, <3>1 DEF BridgeRead, BridgeTypes, FileTypes
    <3>2. CASE file # {}
      <4>1. PICK f \in file :
              /\ lastMtime' = statMtime
              /\ read' = f.number
              /\ todo' = IF TooOld(f) THEN <<>> ELSE f.commands
              /\ todoTs' = IF todo' = <<>> THEN 0 ELSE f.ts
              /\ ns' = IF todo' = <<>> THEN "tick" ELSE "apply"
              /\ Fault(TooOld(f) /\ read # f.number)
        BY <1>4, <3>2 DEF BridgeRead
      <4>2. f.number \in Nat /\ f.commands \in Seq(Cmd) /\ f.ts \in 0..MaxSim
        BY DEF FileTypes, File
      <4>3. todo' \in Seq(Cmd)
        BY <4>1, <4>2
      <4>4. faults' \in Nat
        BY <4>1 DEF Fault, FileTypes
      <4> QED BY <1>4, <4>1, <4>2, <4>3, <4>4 DEF BridgeRead, BridgeTypes
    <3> QED BY <1>4, <3>1, <3>2 DEF BridgeRead
  <2>2. FileTypes'
    BY <1>4, <2>1 DEF BridgeRead, FileTypes
  <2> QED BY <1>4, <2>1, <2>2 DEF BridgeRead
<1>5. CASE SaveCell
  <2>1. PICK r \in due :
          /\ reported' = [reported EXCEPT ![r.ue] = [cell |-> r.cell, time |-> r.time]]
          /\ due' = due \ {r}
    BY <1>5 DEF SaveCell
  <2>2. r \in Report
    BY DEF SimTypes
  <2>3. [cell |-> r.cell, time |-> r.time] \in Row
    BY <2>2 DEF Report, Row
  <2>4. SimTypes'
    BY <1>5, <2>1, <2>3 DEF SaveCell, SimTypes
  <2> QED BY <1>5, <2>4 DEF SaveCell
<1> QED BY <1>1, <1>2, <1>3, <1>4, <1>5

\* The actions of the orchestrator.
LEMMA OrchestratorKeepsTypes ==
  ASSUME Types,
         ReadClock \/ ReadUes \/ ReadLog \/ SkipCycle \/ Decide \/ Write \/ CycleFails \/ Restart
  PROVE  Types' /\ UNCHANGED cellVars
<1> USE LoopAssumption, KeptTypes DEF Types
<1>1. CASE ReadUes
  <2> DEFINE U == {v \in Ue : reported[v] # NoRow}
             m == [u \in U |-> reported[u].cell]
  <2>1. m \in [U -> Cell]
    BY DEF SimTypes, Row
  <2>2. m \in ServingMap
    BY <2>1 DEF ServingMap
  <2>3. snap' = [snap EXCEPT !.serving = m] /\ pc = "clock"
    BY <1>1 DEF ReadUes
  <2>4. snap \in [sim : 0..MaxSim, serving : {<<>>}, sleeping : {{}}]
    BY <2>3 DEF OrchTypes
  <2> HIDE DEF m
  <2>5. snap' \in Snapshot
    BY <2>2, <2>3, <2>4 DEF Snapshot
  <2>6. OrchTypes'
    BY <1>1, <2>5 DEF ReadUes, OrchTypes
  <2> QED BY <1>1, <2>6 DEF ReadUes
<1>2. CASE ReadLog
  <2>1. snap' \in Snapshot
    BY <1>2 DEF ReadLog, OrchTypes, Snapshot
  <2>2. OrchTypes'
    BY <1>2, <2>1 DEF ReadLog, OrchTypes
  <2> QED BY <1>2, <2>2 DEF ReadLog
<1>3. CASE SkipCycle
  <2>1. OrchTypes'
    BY <1>3 DEF SkipCycle, Streak, OrchTypes, Snapshot
  <2> QED BY <1>3, <2>1 DEF SkipCycle
<1>4. CASE Decide
  <2>1. toWrite' \in Seq(Cmd)
    BY <1>4, DecideList
  <2>2. snap \in Snapshot /\ snap.sim \in 0..MaxSim
    BY <1>4 DEF Decide, OrchTypes, Snapshot
  <2>3. belief' \in [Cell -> {"awake", "asleep"}]
    BY <1>4 DEF Decide, OrchTypes
  <2>4. {snap.sim} \in ChangeTimes
    BY <2>2 DEF ChangeTimes
  <2>5. \A c \in Cell : Seen(c) \in ChangeTimes
    BY <2>4 DEF Seen, OrchTypes
  <2>6. changed' \in [Cell -> ChangeTimes]
    BY <1>4, <2>4, <2>5 DEF Decide
  <2>7. pc' = "write" /\ snap' = snap /\ lastSim' \in Nat /\ idle' \in Nat /\ warm' \in 0..2
    BY <1>4, <2>2 DEF Decide
  <2>8. OrchTypes'
    BY <2>1, <2>2, <2>3, <2>6, <2>7 DEF OrchTypes
  <2> QED BY <1>4, <2>8 DEF Decide
<1>5. CASE Write
  <2>1. snap.sim \in 0..MaxSim /\ toWrite \in Seq(Cmd)
    BY <1>5 DEF Write, OrchTypes, Snapshot
  <2>2. FileTypes'
    BY <1>5, <2>1 DEF Write, FileTs, Fault, FileTypes, File
  <2>3. OrchTypes'
    BY <1>5 DEF Write, EndCycle, OrchTypes
  <2> QED BY <1>5, <2>2, <2>3 DEF Write
<1>6. CASE CycleFails
  <2>1. OrchTypes' /\ FileTypes'
    BY <1>6 DEF CycleFails, EndCycle, Fault, OrchTypes, FileTypes
  <2> QED BY <1>6, <2>1 DEF CycleFails
<1>7. CASE Restart
  <2>1. belief' \in [Cell -> {"awake", "asleep"}] /\ changed' \in [Cell -> ChangeTimes]
    BY <1>7 DEF Restart, ChangeTimes
  <2>2. /\ pc' = "idle" /\ toWrite' \in Seq(Cmd)
        /\ lastSim' \in Nat /\ idle' \in Nat /\ warm' \in 0..2
    BY <1>7 DEF Restart, EndCycle
  <2>3. OrchTypes'
    BY <2>1, <2>2 DEF OrchTypes
  <2>4. FileTypes'
    BY <1>7 DEF Restart, Fault, FileTypes
  <2> QED BY <1>7, <2>3, <2>4 DEF Restart
<1>8. CASE ReadClock
  <2>1. PICK u \in Ue : /\ reported[u] # NoRow
                        /\ snap' = [NoSnapshot EXCEPT !.sim = reported[u].time]
    BY <1>8 DEF ReadClock
  <2>2. reported[u].time \in 0..MaxSim
    BY <2>1 DEF SimTypes, Row
  <2>3. snap' \in [sim : 0..MaxSim, serving : {<<>>}, sleeping : {{}}]
    BY <2>1, <2>2 DEF NoSnapshot
  <2>4. OrchTypes'
    BY <1>8, <2>3 DEF ReadClock, OrchTypes
  <2> QED BY <1>8, <2>4 DEF ReadClock
<1> QED BY <1>1, <1>2, <1>3, <1>4, <1>5, <1>6, <1>7, <1>8

LEMMA PowerStep == PowerInv /\ [Next]_vars => PowerInv'
<1> SUFFICES ASSUME PowerInv, [Next]_vars PROVE PowerInv'
  OBVIOUS
<1>1. CASE BridgeApply
  BY <1>1, ApplyKeepsPower
<1>2. CASE Next /\ ~BridgeApply
  <2>1. Types' /\ UNCHANGED cellVars
    BY <1>2, SimulatorKeepsTypes, OrchestratorKeepsTypes DEF PowerInv, Next
  <2> QED BY <2>1, OthersKeepPower DEF PowerInv
<1>3. CASE UNCHANGED vars
  <2>1. Types'
    BY <1>3, KeptTypes DEF PowerInv, Types, vars
  <2>2. UNCHANGED cellVars
    BY <1>3 DEF vars
  <2> QED BY <2>1, <2>2, OthersKeepPower DEF PowerInv
<1> QED BY <1>1, <1>2, <1>3

LEMMA PowerAlways == Spec => []PowerInv
<1>1. Init => PowerInv
  BY TypesInit, LoopAssumption DEF Init, PowerInv, LogTellsPower, CanBeWoken, None
<1> QED BY <1>1, PowerStep, PTL DEF Spec

\* What the orchestrator takes for sleeping (db.py, from lmaction) is what the
\* command bridge has put to sleep; the bridge's record of it is right and the
\* power to go back to is remembered, however often a cell was put to sleep and
\* woken.
THEOREM PowerAlwaysKnown == Spec => []PowerIsKnown
<1>1. PowerInv => PowerIsKnown
  BY DEF PowerInv, PowerIsKnown
<1> QED BY <1>1, PowerAlways, PTL

\* Every variable keeps its type.
THEOREM TypeCorrect == Spec => []TypeOK
<1>1. PowerInv => TypeOK
  BY TypesImplyTypeOK DEF PowerInv
<1> QED BY <1>1, PowerAlways, PTL

-----------------------------------------------------------------------------
\* No file is missed: times of modification known to the bridge belong to
\* files that were read.
KnownInv ==
  /\ lastMtime <= read /\ statMtime <= writes /\ read <= writes
  /\ \A f \in file : f.number = writes

LEMMA KnownStep == Types /\ KnownInv /\ [Next]_vars => KnownInv'
<1> SUFFICES ASSUME Types, KnownInv, [Next]_vars PROVE KnownInv'
  OBVIOUS
<1>1. /\ lastMtime \in Nat /\ statMtime \in Nat /\ read \in Nat /\ writes \in Nat
      /\ \A f \in file : f.number \in Nat
  BY DEF Types, BridgeTypes, FileTypes, File
<1>2. CASE BridgeStat
  BY <1>1, <1>2 DEF BridgeStat, Mtime, KnownInv
<1>3. CASE BridgeRead
  BY <1>1, <1>3 DEF BridgeRead, KnownInv
<1>4. CASE Write
  BY <1>1, <1>4 DEF Write, KnownInv, bridgeVars
<1>5. CASE Restart
  BY <1>1, <1>5 DEF Restart, KnownInv, bridgeVars
<1>6. CASE UNCHANGED <<file, writes, lastMtime, statMtime, read>>
  BY <1>6 DEF KnownInv
<1>7. ASSUME Tick \/ SaveCell \/ HandoverDone \/ BridgeApply \/ ReadClock \/ ReadUes \/ ReadLog
             \/ SkipCycle \/ Decide \/ CycleFails \/ UNCHANGED vars
      PROVE  UNCHANGED <<file, writes, lastMtime, statMtime, read>>
  BY <1>7 DEF Tick, SaveCell, HandoverDone, BridgeApply, ReadClock, ReadUes, ReadLog, SkipCycle,
              Decide, CycleFails, bridgeVars, vars
<1> QED BY <1>2, <1>3, <1>4, <1>5, <1>6, <1>7 DEF Next

\* A file with a known modification time has been read: the order stat, open,
\* remember of ReadJson never skips a list.
THEOREM NoFileMissed == Spec => []KnownMeansRead
<1>1. Init => KnownInv
  BY DEF Init, KnownInv
<1>2. PowerInv => Types
  BY DEF PowerInv
<1>3. Types /\ KnownInv => KnownMeansRead
  BY DEF KnownInv, KnownMeansRead, Mtime, Types, BridgeTypes, FileTypes, File
<1> QED BY <1>1, <1>2, <1>3, KnownStep, PowerAlways, PTL DEF Spec

-----------------------------------------------------------------------------
\* With serving cells sv since times ar, no UE was on a cell that list cmds
\* puts to sleep a report interval before time ts and has stayed.
Drains(cmds, ts, sv, ar) ==
  \A i \in DOMAIN cmds : cmds[i].type = "cell_sleep" =>
    \A u \in Ue : sv[u] = cmds[i].cell => ar[u] + 1 >= ts

\* Handovers at a time s leave this true of the lists of earlier snapshots.
LEMMA DrainsMove ==
  ASSUME NEW cmds, NEW ts \in Nat, NEW s \in Nat, ts <= s, NEW sv, NEW ar, NEW sw, NEW as,
         \A u \in Ue : (sw[u] = sv[u] /\ as[u] = ar[u]) \/ as[u] = s,
         Drains(cmds, ts, sv, ar)
  PROVE  Drains(cmds, ts, sw, as)
<1> SUFFICES ASSUME NEW i \in DOMAIN cmds, cmds[i].type = "cell_sleep",
                    NEW u \in Ue, sw[u] = cmds[i].cell
             PROVE  as[u] + 1 >= ts
  BY DEF Drains
<1>1. CASE sw[u] = sv[u] /\ as[u] = ar[u]
  <2>1. ar[u] + 1 >= ts
    BY <1>1 DEF Drains
  <2> QED BY <1>1, <2>1
<1>2. CASE as[u] = s
  BY <1>2
<1> QED BY <1>1, <1>2

\* A report that is under way is of the current interval, and the row of a UE
\* is at most one interval older, unless it is of the current one.
DueInv ==
  /\ \A r \in due : r.time = sim
  /\ \A u \in Ue : \/ reported[u].time = sim
                   \/ reported[u].time + 1 = sim /\ \E r \in due : r.ue = u

\* A UE that arrived before a report or a row was generated is where it says.
ReportsInv ==
  /\ \A u \in Ue : arrived[u] <= sim
  /\ \A r \in due : arrived[r.ue] < r.time => r.cell = serving[r.ue]
  /\ \A u \in Ue : arrived[u] < reported[u].time => reported[u].cell = serving[u]

\* A UE that arrived more than one interval before the time of the snapshot is
\* in it, where it is; and every list under way drains its cells.
SnapInv ==
  /\ pc \in {"clock", "ues", "snap", "write"} => snap.sim <= sim
  /\ pc \in {"ues", "snap", "write"} =>
       \A u \in Ue : arrived[u] + 1 < snap.sim =>
         u \in DOMAIN snap.serving /\ snap.serving[u] = serving[u]

ListsInv ==
  /\ pc = "write" => Drains(toWrite, snap.sim, serving, arrived)
  /\ \A f \in file : f.ts <= sim /\ Drains(f.commands, f.ts, serving, arrived)
  /\ todoTs <= sim /\ Drains(todo, todoTs, serving, arrived)

DrainInv == DueInv /\ ReportsInv /\ SnapInv /\ ListsInv

\* Types of the numbers that are compared.
LEMMA DrainNumbers ==
  ASSUME Types
  PROVE  /\ sim \in Nat /\ todoTs \in Nat
         /\ \A u \in Ue : arrived[u] \in Nat /\ reported[u].time \in Nat
         /\ \A r \in due : r.ue \in Ue /\ r.time \in Nat
         /\ pc \in {"clock", "ues", "snap", "write"} => snap.sim \in Nat
         /\ \A f \in file : f.ts \in Nat
<1>1. sim \in Nat /\ todoTs \in Nat /\ \A u \in Ue : arrived[u] \in Nat
  BY LoopAssumption DEF Types, SimTypes, BridgeTypes
<1>2. \A u \in Ue : reported[u].time \in Nat
  BY LoopAssumption DEF Types, SimTypes, Row, NoRow
<1>3. \A r \in due : r.ue \in Ue /\ r.time \in Nat
  BY LoopAssumption DEF Types, SimTypes, Report
<1>4. pc \in {"clock", "ues", "snap", "write"} => snap.sim \in Nat
  BY LoopAssumption DEF Types, OrchTypes, Snapshot
<1>5. \A f \in file : f.ts \in Nat
  BY LoopAssumption DEF Types, FileTypes, File
<1> QED BY <1>1, <1>2, <1>3, <1>4, <1>5

LEMMA DrainHandover ==
  ASSUME Types, DrainInv, HandoverDone
  PROVE  DrainInv'
<1>1. PICK h \in inFlight :
        IF serving[h[1]] = h[2]
          THEN /\ serving' = [serving EXCEPT ![h[1]] = h[3]]
               /\ arrived' = [arrived EXCEPT ![h[1]] = sim]
          ELSE UNCHANGED <<serving, arrived>>
  BY DEF HandoverDone
<1>2. \A u \in Ue : (serving'[u] = serving[u] /\ arrived'[u] = arrived[u]) \/ arrived'[u] = sim
  BY <1>1 DEF Types, SimTypes
<1>3. sim \in Nat /\ todoTs \in Nat /\ \A u \in Ue : arrived[u] \in Nat
  BY DrainNumbers
<1>4. UNCHANGED <<sim, due, reported, file, bridgeVars, orchVars>>
  BY DEF HandoverDone
<1>5. pc \in {"clock", "ues", "snap", "write"} => snap.sim \in Nat
  BY DrainNumbers
<1>6. \A f \in file : f.ts \in Nat
  BY DrainNumbers
<1>7. DueInv' /\ ReportsInv'
  <2>1. DueInv'
    BY <1>4 DEF DrainInv, DueInv
  <2>2. \A r \in due : r.ue \in Ue /\ r.time = sim
    BY DrainNumbers DEF DrainInv, DueInv
  <2>3. \A u \in Ue : reported[u].time <= sim /\ reported[u].time \in Nat
    BY <1>3, DrainNumbers DEF DrainInv, DueInv
  <2>4. ReportsInv'
    BY <1>2, <1>3, <1>4, <2>2, <2>3 DEF DrainInv, ReportsInv
  <2> QED BY <2>1, <2>4
<1>8. SnapInv'
  BY <1>2, <1>3, <1>4, <1>5 DEF DrainInv, SnapInv, orchVars
<1>9. ListsInv'
  <2>1. pc = "write" => Drains(toWrite, snap.sim, serving', arrived')
    BY <1>2, <1>3, <1>5, DrainsMove DEF DrainInv, SnapInv, ListsInv
  <2>2. ASSUME NEW f \in file PROVE Drains(f.commands, f.ts, serving', arrived')
    BY <1>2, <1>3, <1>6, DrainsMove DEF DrainInv, ListsInv
  <2>3. Drains(todo, todoTs, serving', arrived')
    BY <1>2, <1>3, DrainsMove DEF DrainInv, ListsInv
  <2> QED BY <1>4, <2>1, <2>2, <2>3 DEF DrainInv, ListsInv, bridgeVars, orchVars
<1> QED BY <1>7, <1>8, <1>9 DEF DrainInv

\* The steps of the simulator's thread.
LEMMA DrainSimulator ==
  ASSUME Types, DrainInv, Tick \/ SaveCell \/ BridgeStat \/ BridgeRead \/ BridgeApply
  PROVE  DrainInv'
<1>1. sim \in Nat /\ todoTs \in Nat /\ \A u \in Ue : arrived[u] \in Nat
  BY DrainNumbers
<1>2. pc \in {"clock", "ues", "snap", "write"} => snap.sim \in Nat
  BY DrainNumbers
<1>3. \A f \in file : f.ts \in Nat
  BY DrainNumbers
<1>4. CASE Tick
  <2>1. UNCHANGED <<serving, arrived, reported, file, bridgeVars, orchVars>> /\ sim' = sim + 1
        /\ due = {} /\ due' = {[ue |-> u, cell |-> serving[u], time |-> sim'] : u \in Ue}
    BY <1>4 DEF Tick
  <2>2. DueInv'
    <3>1. \A u \in Ue : reported'[u].time + 1 = sim'
      BY <2>1 DEF DrainInv, DueInv
    <3>2. ASSUME NEW u \in Ue PROVE \E r \in due' : r.ue = u
      <4>1. [ue |-> u, cell |-> serving[u], time |-> sim'] \in due'
        BY <2>1
      <4> QED BY <4>1
    <3>3. \A r \in due' : r.time = sim'
      BY <2>1
    <3> QED BY <3>1, <3>2, <3>3 DEF DueInv
  <2>3. ReportsInv'
    <3>1. \A r \in due' : r.cell = serving'[r.ue]
      BY <2>1
    <3> QED BY <1>1, <2>1, <3>1 DEF DrainInv, ReportsInv
  <2>4. SnapInv'
    BY <1>1, <1>2, <2>1 DEF DrainInv, SnapInv, orchVars
  <2>5. ListsInv'
    BY <1>1, <1>3, <2>1 DEF DrainInv, ListsInv, Drains, bridgeVars, orchVars
  <2> QED BY <2>2, <2>3, <2>4, <2>5 DEF DrainInv
\* The new row says what the report said.
<1>8. CASE SaveCell
  <2>1. PICK r \in due :
          /\ reported' = [reported EXCEPT ![r.ue] = [cell |-> r.cell, time |-> r.time]]
          /\ due' = due \ {r}
    BY <1>8 DEF SaveCell
  <2>2. UNCHANGED <<sim, serving, arrived, file, bridgeVars, orchVars>>
    BY <1>8 DEF SaveCell
  <2>3. r.ue \in Ue /\ r.time = sim /\ reported \in [Ue -> Row]
    BY DrainNumbers DEF DrainInv, DueInv, Types, SimTypes
  <2>4. /\ reported'[r.ue].cell = r.cell /\ reported'[r.ue].time = r.time
        /\ \A u \in Ue \ {r.ue} : reported'[u] = reported[u]
    BY <2>1, <2>3
  <2>5. DueInv'
    <3>1. \A q \in due' : q.time = sim'
      BY <2>1, <2>2 DEF DrainInv, DueInv
    <3>2. ASSUME NEW u \in Ue, u # r.ue
          PROVE  \/ reported'[u].time = sim'
                 \/ reported'[u].time + 1 = sim' /\ \E q \in due' : q.ue = u
      BY <2>1, <2>2, <2>4, <3>2 DEF DrainInv, DueInv
    <3>3. reported'[r.ue].time = sim'
      BY <2>2, <2>3, <2>4
    <3> QED BY <3>1, <3>2, <3>3 DEF DueInv
  <2>6. ReportsInv'
    <3>1. \A u \in Ue : arrived'[u] <= sim'
      BY <2>2 DEF DrainInv, ReportsInv
    <3>2. \A q \in due' : arrived'[q.ue] < q.time => q.cell = serving'[q.ue]
      BY <2>1, <2>2 DEF DrainInv, ReportsInv
    <3>3. ASSUME NEW u \in Ue, arrived'[u] < reported'[u].time
          PROVE  reported'[u].cell = serving'[u]
      <4>1. CASE u = r.ue
        BY <2>2, <2>4, <3>3, <4>1 DEF DrainInv, ReportsInv
      <4>2. CASE u # r.ue
        BY <2>2, <2>4, <3>3, <4>2 DEF DrainInv, ReportsInv
      <4> QED BY <4>1, <4>2
    <3> QED BY <3>1, <3>2, <3>3 DEF ReportsInv
  <2>7. SnapInv' /\ ListsInv'
    BY <2>2 DEF DrainInv, SnapInv, ListsInv, Drains, bridgeVars, orchVars
  <2> QED BY <2>5, <2>6, <2>7 DEF DrainInv
<1>5. CASE BridgeStat
  BY <1>5 DEF BridgeStat, DrainInv, DueInv, ReportsInv, SnapInv, ListsInv, Drains, nsVars, orchVars
<1>6. CASE BridgeRead
  <2>1. UNCHANGED <<sim, nsVars, file, orchVars>>
    BY <1>6 DEF BridgeRead
  <2>2. todoTs' <= sim /\ Drains(todo', todoTs', serving, arrived)
    BY <1>1, <1>6 DEF BridgeRead, DrainInv, ListsInv, Drains
  <2> QED BY <2>1, <2>2
          DEF DrainInv, DueInv, ReportsInv, SnapInv, ListsInv, Drains, nsVars, orchVars
<1>7. CASE BridgeApply
  <2>1. UNCHANGED <<sim, serving, arrived, due, reported, file, orchVars>>
    BY <1>7 DEF BridgeApply
  <2>2. todo \in Seq(Cmd) /\ todo # <<>> /\ todo' = Tail(todo)
        /\ todoTs' = IF todo' = <<>> THEN 0 ELSE todoTs
    BY <1>7 DEF BridgeApply, Types, BridgeTypes
  <2>3. todoTs' <= sim /\ Drains(todo', todoTs', serving, arrived)
    <3>1. \A i \in DOMAIN todo' : i + 1 \in DOMAIN todo /\ todo'[i] = todo[i + 1]
      BY <2>2
    <3>2. todo' = <<>> \/ todoTs' = todoTs
      BY <2>2
    <3> QED BY <1>1, <2>2, <3>1, <3>2 DEF DrainInv, ListsInv, Drains
  <2> QED BY <2>1, <2>3 DEF DrainInv, DueInv, ReportsInv, SnapInv, ListsInv, Drains, orchVars
<1> QED BY <1>4, <1>5, <1>6, <1>7, <1>8

\* The steps of the orchestrator.
LEMMA DrainOrchestrator ==
  ASSUME Types, DrainInv,
         ReadClock \/ ReadUes \/ ReadLog \/ SkipCycle \/ Decide \/ Write \/ CycleFails \/ Restart
  PROVE  DrainInv'
<1>1. UNCHANGED <<sim, nsVars, bridgeVars>>
  BY DEF ReadClock, ReadUes, ReadLog, SkipCycle, Decide, Write, CycleFails, Restart
<1>2. DueInv' /\ ReportsInv'
  BY <1>1 DEF DrainInv, DueInv, ReportsInv, nsVars
<1>3. todoTs' <= sim' /\ Drains(todo', todoTs', serving', arrived')
  BY <1>1 DEF DrainInv, ListsInv, Drains, nsVars, bridgeVars
<1>4. pc' # "write" /\ UNCHANGED file => ListsInv'
  BY <1>1, <1>3 DEF DrainInv, ListsInv, Drains, nsVars
<1>5. CASE ReadUes
  <2> DEFINE U == {v \in Ue : reported[v] # NoRow}
             m == [u \in U |-> reported[u].cell]
  <2>1. pc = "clock" /\ pc' = "ues" /\ UNCHANGED file /\ snap' = [snap EXCEPT !.serving = m]
    BY <1>5 DEF ReadUes
  <2>2. DOMAIN m = U /\ \A u \in U : m[u] = reported[u].cell
    OBVIOUS
  <2> HIDE DEF m
  <2>3. snap'.sim = snap.sim /\ snap'.serving = m /\ snap.sim \in Nat
    BY <2>1, LoopAssumption DEF Types, OrchTypes
  <2>4. ASSUME NEW u \in Ue, arrived[u] + 1 < snap.sim
        PROVE  u \in U /\ m[u] = serving[u]
    <3>1. arrived[u] \in Nat /\ reported[u].time \in Nat /\ sim \in Nat
      BY DrainNumbers
    <3>2. snap.sim <= sim /\ sim <= reported[u].time + 1
      BY <2>1, <3>1 DEF DrainInv, SnapInv, DueInv
    <3>3. arrived[u] < reported[u].time
      BY <2>3, <2>4, <3>1, <3>2
    <3>4. reported[u] # NoRow /\ reported[u].cell = serving[u]
      BY <3>1, <3>3 DEF NoRow, DrainInv, ReportsInv
    <3> QED BY <2>2, <3>4
  <2>5. SnapInv'
    BY <1>1, <2>1, <2>2, <2>3, <2>4 DEF DrainInv, SnapInv, nsVars
  <2> QED BY <1>2, <1>4, <2>1, <2>5 DEF DrainInv
<1>6. CASE ReadLog
  <2>1. pc = "ues" /\ pc' = "snap" /\ UNCHANGED file
        /\ snap' = [snap EXCEPT !.sleeping = {c \in Cell : log[c] = "CELL_SLEEP"}]
    BY <1>6 DEF ReadLog
  <2>2. snap'.sim = snap.sim /\ snap'.serving = snap.serving
    BY <2>1 DEF Types, OrchTypes, Snapshot
  <2>3. SnapInv'
    BY <1>1, <2>1, <2>2 DEF DrainInv, SnapInv, nsVars
  <2> QED BY <1>2, <1>4, <2>1, <2>3 DEF DrainInv
<1>7. CASE SkipCycle \/ CycleFails
  <2>1. pc' \in {"idle", "exited"} /\ UNCHANGED file
    BY <1>7 DEF SkipCycle, CycleFails, EndCycle
  <2>2. SnapInv'
    BY <2>1 DEF SnapInv
  <2> QED BY <1>2, <1>4, <2>1, <2>2 DEF DrainInv
<1>8. CASE Decide
  <2>1. pc = "snap" /\ UNCHANGED <<file, snap>>
    BY <1>8 DEF Decide
  <2>2. SnapInv'
    BY <1>1, <2>1 DEF DrainInv, SnapInv, nsVars
  <2>3. ASSUME NEW i \in DOMAIN toWrite', toWrite'[i].type = "cell_sleep", NEW u \in Ue,
               serving[u] = toWrite'[i].cell
        PROVE  arrived[u] + 1 >= snap.sim
    <3>1. u \in DOMAIN snap.serving => snap.serving[u] # serving[u]
      BY <1>8, <2>3, DecideList
    <3>2. ~(arrived[u] + 1 < snap.sim)
      BY <2>1, <3>1 DEF DrainInv, SnapInv
    <3>3. arrived[u] \in Nat /\ snap.sim \in Nat
      BY <2>1, DrainNumbers
    <3> QED BY <3>2, <3>3
  <2>4. ListsInv'
    BY <1>1, <1>3, <2>1, <2>3 DEF DrainInv, ListsInv, Drains, nsVars
  <2> QED BY <1>2, <2>2, <2>4 DEF DrainInv
<1>9. CASE Write
  <2>1. pc = "write" /\ pc' = "idle"
        /\ file' = {[number |-> writes + 1, ts |-> snap.sim, commands |-> toWrite]}
    BY <1>9 DEF Write, EndCycle, FileTs
  <2>2. ListsInv'
    BY <1>1, <1>3, <2>1 DEF DrainInv, SnapInv, ListsInv, Drains, nsVars
  <2>3. SnapInv'
    BY <2>1 DEF SnapInv
  <2> QED BY <1>2, <2>2, <2>3 DEF DrainInv
<1>10. CASE Restart
  <2>1. pc' = "idle" /\ file' = {}
    BY <1>10 DEF Restart, EndCycle
  <2> QED BY <1>2, <1>3, <2>1 DEF DrainInv, SnapInv, ListsInv
<1>11. CASE ReadClock
  <2>1. pc' = "clock" /\ UNCHANGED file
    BY <1>11 DEF ReadClock
  <2>2. PICK u \in Ue : snap' = [NoSnapshot EXCEPT !.sim = reported[u].time]
    BY <1>11 DEF ReadClock
  <2>3. reported[u].time <= sim
    BY DrainNumbers DEF DrainInv, DueInv
  <2>4. SnapInv'
    BY <1>1, <2>1, <2>2, <2>3 DEF SnapInv, NoSnapshot
  <2> QED BY <1>2, <1>4, <2>1, <2>4 DEF DrainInv
<1> QED BY <1>5, <1>6, <1>7, <1>8, <1>9, <1>10, <1>11

LEMMA DrainStep == Types /\ DrainInv /\ [Next]_vars => DrainInv'
<1> SUFFICES ASSUME Types, DrainInv, [Next]_vars PROVE DrainInv'
  OBVIOUS
<1>1. CASE Next
  BY <1>1, DrainHandover, DrainSimulator, DrainOrchestrator DEF Next
<1>2. CASE UNCHANGED vars
  BY <1>2 DEF vars, nsVars, bridgeVars, orchVars, DrainInv, DueInv, ReportsInv, SnapInv, ListsInv,
              Drains
<1> QED BY <1>1, <1>2

\* A cell that is put to sleep holds no UE that was on it one report interval
\* before the time of the snapshot, whatever the orchestrator read of the rows
\* of that interval and whatever was lost, repeated or restarted in between.
THEOREM SleepsOnlyDrained == Spec => []DrainedWhenPutToSleep
<1>1. Init => DrainInv
  BY LoopAssumption DEF Init, NoRow, DrainInv, DueInv, ReportsInv, SnapInv, ListsInv, Drains
<1>2. PowerInv => Types
  BY DEF PowerInv
<1>3. Types /\ DrainInv => DrainedWhenPutToSleep
  <2> SUFFICES ASSUME Types, DrainInv, ns = "apply", Head(todo).type = "cell_sleep",
                      NEW u \in Ue, serving[u] = Head(todo).cell
               PROVE  arrived[u] + 1 >= todoTs
    BY DEF DrainedWhenPutToSleep
  <2>1. 1 \in DOMAIN todo /\ Head(todo) = todo[1]
    BY DEF Types, BridgeTypes
  <2> QED BY <2>1 DEF DrainInv, ListsInv, Drains
<1> QED BY <1>1, <1>2, <1>3, DrainStep, PowerAlways, PTL DEF Spec
-----------------------------------------------------------------------------
(***************************************************************************)
(* The cap.  The lists under way - what the bridge still has to apply, the *)
(* file, what the orchestrator is about to write - are followed to their   *)
(* end: what the energy agent believes awake will then be awake.           *)
(***************************************************************************)

\* The cells a command list wakes and puts to sleep, and the cells of a set S
\* that are awake when it has been gone through.
Wakes(cmds) == {cmds[i].cell : i \in {j \in DOMAIN cmds : cmds[j].type = "cell_wake"}}
Sleeps(cmds) == {cmds[i].cell : i \in {j \in DOMAIN cmds : cmds[j].type = "cell_sleep"}}
After(S, cmds) == (S \cup Wakes(cmds)) \ Sleeps(cmds)

\* No cell is both woken and put to sleep, and wakes come first.
WakesFirst(cmds) ==
  /\ Wakes(cmds) \cap Sleeps(cmds) = {}
  /\ \A i, j \in DOMAIN cmds :
       i < j /\ cmds[i].type = "cell_sleep" => cmds[j].type # "cell_wake"

\* The cells awake now, when the bridge has finished its list, and when it has
\* also gone through the file, once more if it has already read it.
Powered == {c \in Cell : power[c] > SleepPower}
AfterTodo == After(Powered, todo)
AfterFile ==
  (AfterTodo \cup UNION {Wakes(f.commands) : f \in file})
    \ UNION {Sleeps(f.commands) : f \in file}

Enough(S) == Cardinality(S) >= MinActive

OrderInv ==
  /\ ns # "apply" => todo = <<>>
  /\ WakesFirst(todo)
  /\ \A f \in file : file = {f} /\ WakesFirst(f.commands)
  /\ pc = "write" => WakesFirst(toWrite)

\* What has been read is done once more without effect.
ReadInv == \A f \in file : f.number = read => Wakes(f.commands) \subseteq AfterTodo

\* Every cell believed awake will be when all lists under way are applied.
BeliefInv == BelievedAwake \subseteq (IF pc = "write" THEN After(AfterFile, toWrite) ELSE AfterFile)

EnoughInv ==
  Enough(BelievedAwake) /\ Enough(Powered) /\ Enough(AfterTodo) /\ Enough(AfterFile)

CapInv == OrderInv /\ (faults = 0 => ReadInv /\ BeliefInv /\ EnoughInv)

LEMMA EnoughGrows ==
  ASSUME NEW S \in SUBSET Cell, NEW T \in SUBSET Cell, S \subseteq T, Enough(S)
  PROVE  Enough(T)
<1>1. IsFiniteSet(S) /\ IsFiniteSet(T)
  BY LoopAssumption, FS_Subset
<1>2. Cardinality(S) <= Cardinality(T)
  BY <1>1, FS_Subset
<1>3. Cardinality(S) \in Nat /\ Cardinality(T) \in Nat /\ MinActive \in Nat
  BY <1>1, FS_CardinalityType, LoopAssumption
<1> QED BY <1>2, <1>3 DEF Enough

\* A plan within the cap leaves enough of the cells believed awake.
LEMMA PlanLeavesEnough ==
  ASSUME NEW S \in SUBSET Cell, NEW plan \in SUBSET S, Enough(S),
         Cardinality(plan) <= MaxSleep(S)
  PROVE  Enough(S \ plan)
<1>1. IsFiniteSet(S) /\ IsFiniteSet(plan)
  BY LoopAssumption, FS_Subset
<1>2. Cardinality(S \ plan) = Cardinality(S) - Cardinality(plan)
  <2>1. S \cap plan = plan
    OBVIOUS
  <2> QED BY <1>1, <2>1, FS_Difference
<1>3. Cardinality(S) \in Nat /\ Cardinality(plan) \in Nat /\ MinActive \in Nat
  BY <1>1, FS_CardinalityType, LoopAssumption
<1> QED BY <1>2, <1>3 DEF Enough, MaxSleep

\* The cells of lists of commands are cells, and applying a list keeps to cells.
LEMMA ListCells ==
  ASSUME NEW cmds \in Seq(Cmd)
  PROVE  Wakes(cmds) \subseteq Cell /\ Sleeps(cmds) \subseteq Cell
<1>1. ASSUME NEW i \in DOMAIN cmds, cmds[i].type \in {"cell_wake", "cell_sleep"}
      PROVE  cmds[i].cell \in Cell
  <2>1. cmds[i] \in Cmd
    OBVIOUS
  <2> QED BY <1>1, <2>1 DEF Cmd, PowerCmd, Steering, Ho, CellSleep, CellWake
<1> QED BY <1>1 DEF Wakes, Sleeps

AwakeCells ==
  /\ Powered \subseteq Cell /\ AfterTodo \subseteq Cell /\ AfterFile \subseteq Cell
  /\ BelievedAwake \subseteq Cell

LEMMA AfterCells == Types => AwakeCells
<1> SUFFICES ASSUME Types PROVE AwakeCells
  OBVIOUS
<1>1. todo \in Seq(Cmd) /\ \A f \in file : f.commands \in Seq(Cmd)
  BY DEF Types, BridgeTypes, FileTypes, File
<1>2. Powered \subseteq Cell /\ BelievedAwake \subseteq Cell
  BY DEF Powered, BelievedAwake
<1>3. Wakes(todo) \subseteq Cell /\ \A f \in file : Wakes(f.commands) \subseteq Cell
  BY <1>1, ListCells
<1> QED BY <1>2, <1>3 DEF AwakeCells, AfterTodo, AfterFile, After

LEMMA AfterCellsNext == PowerInv /\ [Next]_vars => AwakeCells'
<1>1. PowerInv => Types
  BY DEF PowerInv
<1> QED BY <1>1, AfterCells, PowerStep, PTL

\* A sorted list has its wakes first.
LEMMA SortedWakesFirst ==
  ASSUME NEW K, NEW s \in Sorted(K)
  PROVE  \A i, j \in DOMAIN s :
           i < j /\ s[i].type = "cell_sleep" => s[j].type # "cell_wake"
<1>1. \A i, j \in DOMAIN s : i < j => Before(s[i], s[j])
  BY DEF Sorted
<1> QED BY <1>1 DEF Before, Rank

\* Every command of the set is in its sorted list: the order is strict, so no
\* command occurs twice.
LEMMA SortedComplete ==
  ASSUME NEW K \in SUBSET Cmd, NEW s \in Sorted(K), NEW a \in K
  PROVE  \E i \in DOMAIN s : s[i] = a
<1> DEFINE n == Cardinality(K)
<1>1. IsFiniteSet(K) /\ n \in Nat
  BY CmdFinite, FS_Subset, FS_CardinalityType
<1>2. s \in [1..n -> K] /\ \A i, j \in 1..n : i < j => Before(s[i], s[j])
  BY DEF Sorted
<1>3. ASSUME NEW b \in Cmd PROVE ~Before(b, b)
  <2>1. Rank(b) \in Nat
    BY DEF Rank
  <2>2. Subject(b) \in Nat
    BY LoopAssumption DEF Subject, Cmd, PowerCmd, Steering, Ho, CellSleep, CellWake
  <2> QED BY <2>1, <2>2 DEF Before
<1>4. s \in Injection(1..n, K)
  <2> SUFFICES ASSUME NEW i \in 1..n, NEW j \in 1..n, s[i] = s[j], i # j PROVE FALSE
    BY <1>2 DEF Injection, IsInjective
  <2>1. s[i] \in Cmd
    BY <1>2
  <2>2. i < j \/ j < i
    BY <1>1
  <2> QED BY <1>2, <1>3, <2>1, <2>2
<1>5. Cardinality(1..n) = n
  BY <1>1, FS_Interval
<1>6. s \in Surjection(1..n, K)
  BY <1>1, <1>4, <1>5, FS_Injection
<1> QED BY <1>2, <1>6 DEF Surjection

\* What Decide leaves: enough cells believed awake, all of which the list keeps
\* awake or wakes.
LEMMA DecideBelief ==
  ASSUME Types, Decide
  PROVE  /\ WakesFirst(toWrite')
         /\ Enough(BelievedAwake) => Enough(BelievedAwake')
         /\ BelievedAwake' \subseteq (BelievedAwake \ Sleeps(toWrite')) \cup Wakes(toWrite')
         /\ Wakes(toWrite') \cap Sleeps(toWrite') = {}
<1>1. PICK plan \in SleepPlans, wake \in SUBSET (Cell \ BelievedAwake) :
        LET sleep == {c \in plan : ~Occupied(c)} IN
        /\ belief' = [c \in Cell |-> IF c \in sleep THEN "asleep"
                                     ELSE IF c \in wake THEN "awake" ELSE belief[c]]
        /\ \E H \in SUBSET (Offloads(plan) \cup Steering) :
             LET A == {CellSleep(c) : c \in sleep} \cup {CellWake(c) : c \in wake} \cup H
             IN toWrite' \in Sorted({a \in A : Kept(a, A, snap)})
  BY DEF Decide
<1> DEFINE sleep == {c \in plan : ~Occupied(c)}
           Power == {CellSleep(c) : c \in sleep} \cup {CellWake(c) : c \in wake}
<1>. PICK H \in SUBSET (Offloads(plan) \cup Steering) :
       toWrite' \in Sorted({a \in Power \cup H : Kept(a, Power \cup H, snap)})
  BY <1>1
<1> DEFINE A == Power \cup H
           K == {a \in A : Kept(a, A, snap)}
<1>2. plan \subseteq BelievedAwake /\ BelievedAwake \subseteq Cell
      /\ Cardinality(plan) <= MaxSleep(BelievedAwake)
  BY DEF SleepPlans, BelievedAwake
<1>3. H \subseteq Steering
  <2>1. snap \in Snapshot
    BY DEF Types, OrchTypes, Decide
  <2> QED BY <2>1, SnapshotUes DEF Offloads, Steering
<1>4. K \subseteq Cmd
  BY <1>2, <1>3 DEF Cmd, PowerCmd
<1>5. toWrite' \in Sorted(K)
  OBVIOUS
<1>6. BelievedAwake' = (BelievedAwake \ sleep) \cup wake
  BY <1>1, <1>2 DEF BelievedAwake
<1>7. ASSUME NEW a \in K
      PROVE  /\ a.type = "cell_sleep" => a.cell \in sleep
             /\ a.type = "cell_wake" => a.cell \in wake
  BY <1>3 DEF Steering, Ho, CellSleep, CellWake
<1>8. ASSUME NEW c \in wake PROVE CellWake(c) \in K
  BY DEF Kept, CellWake
<1> HIDE DEF K
<1>9. toWrite' \in Seq(Cmd) /\ \A i \in DOMAIN toWrite' : toWrite'[i] \in K
  BY <1>4, <1>5, SortedType
<1>10. Sleeps(toWrite') \subseteq sleep /\ Wakes(toWrite') \subseteq wake
  BY <1>7, <1>9 DEF Sleeps, Wakes
<1>11. ASSUME NEW c \in wake PROVE c \in Wakes(toWrite')
  <2>1. PICK i \in DOMAIN toWrite' : toWrite'[i] = CellWake(c)
    BY <1>4, <1>5, <1>8, SortedComplete
  <2> QED BY <2>1 DEF Wakes, CellWake
<1>12. Wakes(toWrite') \cap Sleeps(toWrite') = {}
  BY <1>2, <1>10
<1>13. WakesFirst(toWrite')
  BY <1>5, <1>12, SortedWakesFirst DEF WakesFirst
<1>14. ASSUME Enough(BelievedAwake) PROVE Enough(BelievedAwake')
  <2>1. Enough(BelievedAwake \ plan)
    BY <1>2, <1>14, PlanLeavesEnough
  <2> QED BY <1>2, <1>6, <2>1, EnoughGrows
<1>15. BelievedAwake' \subseteq (BelievedAwake \ Sleeps(toWrite')) \cup Wakes(toWrite')
  BY <1>6, <1>10, <1>11
<1> QED BY <1>12, <1>13, <1>14, <1>15

\* The rest of a list.
LEMMA ListTail ==
  ASSUME NEW cmds \in Seq(Cmd), cmds # <<>>, WakesFirst(cmds)
  PROVE  /\ WakesFirst(Tail(cmds))
         /\ Head(cmds).type = "cell_wake" =>
              /\ Wakes(cmds) = Wakes(Tail(cmds)) \cup {Head(cmds).cell}
              /\ Sleeps(cmds) = Sleeps(Tail(cmds))
         /\ Head(cmds).type = "cell_sleep" =>
              /\ Wakes(cmds) = {} /\ Wakes(Tail(cmds)) = {}
              /\ Sleeps(cmds) = Sleeps(Tail(cmds)) \cup {Head(cmds).cell}
         /\ Head(cmds).type \notin {"cell_wake", "cell_sleep"} =>
              Wakes(cmds) = Wakes(Tail(cmds)) /\ Sleeps(cmds) = Sleeps(Tail(cmds))
<1> DEFINE t == Tail(cmds)
<1>1. Len(cmds) \in Nat \ {0} /\ DOMAIN cmds = 1..Len(cmds) /\ Head(cmds) = cmds[1]
      /\ DOMAIN t = 1..(Len(cmds) - 1) /\ \A i \in DOMAIN t : t[i] = cmds[i + 1]
  OBVIOUS
<1> HIDE DEF t
<1>2. \A i \in DOMAIN t : i + 1 \in DOMAIN cmds /\ i + 1 > 1
  BY <1>1
<1>3. \A i \in DOMAIN cmds : i = 1 \/ (i - 1 \in DOMAIN t /\ t[i - 1] = cmds[i])
  BY <1>1
<1>4. /\ Wakes(cmds) = Wakes(t) \cup (IF cmds[1].type = "cell_wake" THEN {cmds[1].cell} ELSE {})
      /\ Sleeps(cmds) = Sleeps(t) \cup (IF cmds[1].type = "cell_sleep" THEN {cmds[1].cell} ELSE {})
  BY <1>1, <1>2, <1>3 DEF Wakes, Sleeps
<1>5. WakesFirst(t)
  <2>1. Wakes(t) \cap Sleeps(t) = {}
    BY <1>4 DEF WakesFirst
  <2>2. ASSUME NEW i \in DOMAIN t, NEW j \in DOMAIN t, i < j, t[i].type = "cell_sleep"
        PROVE  t[j].type # "cell_wake"
    <3>1. i + 1 < j + 1
      BY <1>1, <2>2
    <3> QED BY <1>1, <1>2, <2>2, <3>1 DEF WakesFirst
  <2> QED BY <2>1, <2>2 DEF WakesFirst
<1>6. ASSUME cmds[1].type = "cell_sleep" PROVE Wakes(cmds) = {}
  <2>1. \A j \in DOMAIN cmds : j = 1 \/ 1 < j
    BY <1>1
  <2> QED BY <1>1, <1>6, <2>1 DEF WakesFirst, Wakes
<1> QED BY <1>1, <1>4, <1>5, <1>6 DEF t

-----------------------------------------------------------------------------
\* The commands change which cells are awake as their names say; a handover
\* wakes at most its target.
LEMMA ApplyPowered ==
  ASSUME PowerInv, BridgeApply
  PROVE  LET a == Head(todo) IN
         /\ a.type = "cell_sleep" => Powered' = Powered \ {a.cell}
         /\ a.type = "cell_wake" => Powered' = Powered \cup {a.cell}
         /\ a.type = "ho" => Powered \subseteq Powered'
         /\ a.type \in {"cell_sleep", "cell_wake", "ho"}
<1> DEFINE a == Head(todo)
<1>1. todo \in Seq(Cmd) /\ todo # <<>>
  BY DEF PowerInv, Types, BridgeTypes, BridgeApply
<1>2. a \in Cmd
  BY <1>1
<1>3. power \in [Cell -> {FullPower, SleepPower}] /\ SleepPower \in Nat /\ FullPower \in Nat
      /\ SleepPower < FullPower
  BY LoopAssumption DEF PowerInv, Types, CellTypes
<1>4. \A c \in Cell : Restore(c) = FullPower
  BY RestoreFull DEF PowerInv, Types
<1>5. \A c \in Cell, kind \in {"CELL_WAKE", "AUTO_WAKE"} :
        ApplyWake(c, kind) => power' = [power EXCEPT ![c] = FullPower]
  BY <1>3, <1>4 DEF ApplyWake
<1>6. CASE a.type = "cell_sleep"
  <2>1. a.cell \in Cell /\ ApplySleep(a.cell)
    BY <1>2, <1>6 DEF Cmd, PowerCmd, Steering, Ho, CellSleep, CellWake, BridgeApply
  <2>2. power' = [power EXCEPT ![a.cell] = SleepPower]
    BY <1>3, <2>1 DEF ApplySleep
  <2> QED BY <1>3, <1>6, <2>1, <2>2 DEF Powered
<1>7. CASE a.type = "cell_wake"
  <2>1. a.cell \in Cell /\ ApplyWake(a.cell, "CELL_WAKE")
    BY <1>2, <1>7 DEF Cmd, PowerCmd, Steering, Ho, CellSleep, CellWake, BridgeApply
  <2>2. power' = [power EXCEPT ![a.cell] = FullPower]
    BY <1>5, <2>1
  <2> QED BY <1>3, <1>7, <2>1, <2>2 DEF Powered
<1>8. CASE a.type = "ho"
  <2>1. a.target \in Cell /\ ApplyHo(a.ue, a.target)
    BY <1>2, <1>8 DEF Cmd, PowerCmd, Steering, Ho, CellSleep, CellWake, BridgeApply
  <2>2. power' = power \/ power' = [power EXCEPT ![a.target] = FullPower]
    BY <1>5, <2>1 DEF ApplyHo, cellVars
  <2> QED BY <1>3, <1>8, <2>1, <2>2 DEF Powered
<1>9. a.type \in {"cell_sleep", "cell_wake", "ho"}
  BY DEF BridgeApply
<1> QED BY <1>6, <1>7, <1>8, <1>9

\* A command of the bridge takes away no cell that will be awake.
LEMMA ApplyOnlyAdds ==
  ASSUME PowerInv, OrderInv, BridgeApply
  PROVE  /\ AfterTodo \subseteq AfterTodo'
         /\ AfterTodo \subseteq Powered' \/ Powered \subseteq Powered'
<1>1. todo \in Seq(Cmd) /\ todo # <<>> /\ WakesFirst(todo) /\ todo' = Tail(todo)
  BY DEF PowerInv, Types, BridgeTypes, OrderInv, BridgeApply
<1> DEFINE a == Head(todo)
<1>2. CASE a.type = "cell_sleep"
  <2>1. Powered' = Powered \ {a.cell}
    BY <1>2, ApplyPowered
  <2>2. Wakes(todo) = {} /\ Sleeps(todo) = Sleeps(todo') \cup {a.cell} /\ Wakes(todo') = {}
    BY <1>1, <1>2, ListTail
  <2> QED BY <2>1, <2>2 DEF AfterTodo, After
<1>3. CASE a.type = "cell_wake"
  <2>1. Powered' = Powered \cup {a.cell}
    BY <1>3, ApplyPowered
  <2>2. Wakes(todo) = Wakes(todo') \cup {a.cell} /\ Sleeps(todo) = Sleeps(todo')
    BY <1>1, <1>3, ListTail
  <2> QED BY <2>1, <2>2 DEF AfterTodo, After
<1>4. CASE a.type = "ho"
  <2>1. Powered \subseteq Powered'
    BY <1>4, ApplyPowered
  <2>2. Wakes(todo) = Wakes(todo') /\ Sleeps(todo) = Sleeps(todo')
    BY <1>1, <1>4, ListTail
  <2> QED BY <2>1, <2>2 DEF AfterTodo, After
<1> QED BY <1>2, <1>3, <1>4, ApplyPowered

LEMMA CapApply ==
  ASSUME PowerInv, CapInv, BridgeApply
  PROVE  CapInv'
<1>1. UNCHANGED <<file, read, orchVars, faults>>
  BY DEF BridgeApply
<1>2. todo \in Seq(Cmd) /\ todo # <<>> /\ todo' = Tail(todo)
      /\ ns' = IF todo' = <<>> THEN "tick" ELSE "apply"
  BY DEF PowerInv, Types, BridgeTypes, BridgeApply
<1>3. OrderInv'
  BY <1>1, <1>2, ListTail DEF CapInv, OrderInv, orchVars
<1>4. AfterTodo \subseteq AfterTodo' /\ (AfterTodo \subseteq Powered' \/ Powered \subseteq Powered')
  BY ApplyOnlyAdds DEF CapInv
<1>5. AfterFile \subseteq AfterFile'
  BY <1>1, <1>4 DEF AfterFile
<1>6. BelievedAwake' = BelievedAwake
  BY <1>1 DEF BelievedAwake, orchVars
<1> SUFFICES ASSUME faults = 0 PROVE ReadInv' /\ BeliefInv' /\ EnoughInv'
  BY <1>1, <1>3 DEF CapInv
<1>7. ReadInv'
  BY <1>1, <1>4 DEF CapInv, ReadInv
<1>8. BeliefInv'
  BY <1>1, <1>5, <1>6 DEF CapInv, BeliefInv, After, orchVars
<1>9. AwakeCells /\ AwakeCells'
  BY AfterCells, AfterCellsNext DEF PowerInv, Next
<1>10. EnoughInv'
  BY <1>4, <1>5, <1>6, <1>9, EnoughGrows DEF CapInv, EnoughInv, AwakeCells
<1> QED BY <1>7, <1>8, <1>10

\* Reading the file moves its commands into the list.
LEMMA CapRead ==
  ASSUME PowerInv, KnownInv, CapInv, BridgeRead
  PROVE  CapInv'
<1>1. UNCHANGED <<power, file, orchVars>> /\ ns = "open"
  BY DEF BridgeRead, cellVars
<1>2. todo = <<>>
  BY <1>1 DEF CapInv, OrderInv
<1>3. BelievedAwake' = BelievedAwake /\ Powered' = Powered
  BY <1>1 DEF BelievedAwake, Powered, orchVars
<1>4. WakesFirst(<<>>) /\ AfterTodo = Powered
  BY <1>2 DEF WakesFirst, Wakes, Sleeps, AfterTodo, After
<1>5. faults \in Nat
  BY DEF PowerInv, Types, FileTypes
<1>6. CASE file = {} /\ ns' = "tick" /\ UNCHANGED <<read, todo, faults>>
  <2>1. AfterTodo' = AfterTodo /\ AfterFile' = AfterFile
    BY <1>1, <1>3, <1>6 DEF AfterTodo, AfterFile
  <2> QED BY <1>1, <1>2, <1>3, <1>6, <2>1
          DEF CapInv, OrderInv, ReadInv, BeliefInv, EnoughInv, orchVars
<1>7. CASE file # {}
  <2>1. PICK f \in file :
          /\ read' = f.number
          /\ todo' = IF TooOld(f) THEN <<>> ELSE f.commands
          /\ ns' = IF todo' = <<>> THEN "tick" ELSE "apply"
          /\ Fault(TooOld(f) /\ read # f.number)
    BY <1>7 DEF BridgeRead
  <2>2. file = {f} /\ WakesFirst(f.commands)
    BY DEF CapInv, OrderInv
  <2>3. OrderInv'
    BY <1>1, <1>4, <2>1, <2>2 DEF CapInv, OrderInv, orchVars
  <2>4. AfterFile = After(AfterTodo, f.commands) /\ AfterFile' = After(AfterTodo', f.commands)
    BY <1>1, <2>2 DEF AfterFile, After
  <2> SUFFICES ASSUME faults' = 0 PROVE ReadInv' /\ BeliefInv' /\ EnoughInv'
    BY <2>3 DEF CapInv
  <2>5. faults = 0 /\ (TooOld(f) => read = f.number)
    BY <1>5, <2>1 DEF Fault
  <2>6. ReadInv /\ BeliefInv /\ EnoughInv
    BY <2>5 DEF CapInv
  <2>7. CASE TooOld(f)
    <3>1. AfterTodo' = AfterTodo /\ read' = read
      BY <1>2, <1>3, <2>1, <2>5, <2>7 DEF AfterTodo
    <3> QED BY <1>1, <1>3, <2>4, <2>6, <3>1 DEF ReadInv, BeliefInv, EnoughInv, orchVars
  <2>8. CASE ~TooOld(f)
    <3>1. AfterTodo' = AfterFile
      BY <1>3, <1>4, <2>1, <2>4, <2>8 DEF AfterTodo
    <3>2. AfterFile' = AfterFile /\ Wakes(f.commands) \subseteq AfterTodo'
      BY <2>2, <2>4, <3>1 DEF After, WakesFirst
    <3> QED BY <1>1, <1>3, <2>2, <2>6, <3>1, <3>2 DEF ReadInv, BeliefInv, EnoughInv, orchVars
  <2> QED BY <2>7, <2>8
<1> QED BY <1>6, <1>7 DEF BridgeRead

\* A new file takes the place of one that was read.
LEMMA CapWrite ==
  ASSUME PowerInv, KnownInv, CapInv, Write
  PROVE  CapInv'
<1> DEFINE f == [number |-> writes + 1, ts |-> FileTs, commands |-> toWrite]
<1>1. /\ UNCHANGED <<ns, power, bridgeVars, belief>>
      /\ pc = "write" /\ pc' = "idle" /\ file' = {f} /\ Fault(Unread)
  BY DEF Write, EndCycle, cellVars
<1>2. Powered' = Powered /\ AfterTodo' = AfterTodo /\ BelievedAwake' = BelievedAwake
  BY <1>1 DEF Powered, AfterTodo, BelievedAwake, bridgeVars
<1>3. AfterFile' = After(AfterTodo, toWrite)
  BY <1>1, <1>2 DEF AfterFile, After
<1>4. OrderInv'
  BY <1>1 DEF CapInv, OrderInv, bridgeVars
<1>5. faults \in Nat /\ writes \in Nat /\ read \in Nat /\ \A g \in file : g.number \in Nat
  BY DEF PowerInv, Types, BridgeTypes, FileTypes, File
<1> SUFFICES ASSUME faults' = 0 PROVE ReadInv' /\ BeliefInv' /\ EnoughInv'
  BY <1>4 DEF CapInv
<1>6. faults = 0 /\ ~Unread
  BY <1>1, <1>5 DEF Fault
<1>7. ReadInv /\ BeliefInv /\ EnoughInv
  BY <1>6 DEF CapInv
<1>8. AfterFile \subseteq AfterTodo
  <2>1. \A g \in file : g.number = read
    BY <1>5, <1>6 DEF Unread, KnownInv
  <2>2. \A g \in file : Wakes(g.commands) \subseteq AfterTodo
    BY <1>7, <2>1 DEF ReadInv
  <2> QED BY <2>2 DEF AfterFile
<1>9. After(AfterFile, toWrite) \subseteq AfterFile'
  BY <1>3, <1>8 DEF After
<1>10. BeliefInv'
  BY <1>1, <1>2, <1>7, <1>9 DEF BeliefInv
<1>11. ReadInv'
  BY <1>1, <1>5 DEF ReadInv, KnownInv, bridgeVars
<1>12. AwakeCells'
  BY AfterCellsNext DEF Next
<1>13. AfterFile' \subseteq Cell /\ BelievedAwake' \subseteq Cell
       /\ BelievedAwake' \subseteq AfterFile'
  BY <1>1, <1>10, <1>12 DEF AwakeCells, BeliefInv
<1>14. EnoughInv'
  BY <1>2, <1>7, <1>13, EnoughGrows DEF EnoughInv
<1> QED BY <1>10, <1>11, <1>14

\* A decision promises no more awake cells than its list leads to.
LEMMA CapDecide ==
  ASSUME PowerInv, CapInv, Decide
  PROVE  CapInv'
<1>1. UNCHANGED <<ns, power, file, bridgeVars, faults>> /\ pc = "snap" /\ pc' = "write"
  BY DEF Decide, cellVars
<1>2. Powered' = Powered /\ AfterTodo' = AfterTodo /\ AfterFile' = AfterFile
  BY <1>1 DEF Powered, AfterTodo, AfterFile, bridgeVars
<1>3. faults = 0 => Enough(BelievedAwake)
  BY DEF CapInv, EnoughInv
<1>4. WakesFirst(toWrite')
  BY DecideBelief DEF PowerInv
<1>5. OrderInv'
  BY <1>1, <1>4 DEF CapInv, OrderInv, bridgeVars
<1> SUFFICES ASSUME faults = 0 PROVE ReadInv' /\ BeliefInv' /\ EnoughInv'
  BY <1>1, <1>5 DEF CapInv
<1>6. /\ Enough(BelievedAwake')
      /\ BelievedAwake' \subseteq (BelievedAwake \ Sleeps(toWrite')) \cup Wakes(toWrite')
      /\ Wakes(toWrite') \cap Sleeps(toWrite') = {}
  BY <1>3, DecideBelief DEF PowerInv
<1>7. BelievedAwake \subseteq AfterFile
  BY <1>1 DEF CapInv, BeliefInv
<1>8. BeliefInv'
  BY <1>1, <1>2, <1>6, <1>7 DEF BeliefInv, After
<1> QED BY <1>1, <1>2, <1>6, <1>8 DEF CapInv, ReadInv, EnoughInv, bridgeVars

LEMMA CapStep == PowerInv /\ KnownInv /\ CapInv /\ [Next]_vars => CapInv'
<1> SUFFICES ASSUME PowerInv, KnownInv, CapInv, [Next]_vars PROVE CapInv'
  OBVIOUS
<1>1. CASE BridgeApply
  BY <1>1, CapApply
<1>2. CASE BridgeRead
  BY <1>2, CapRead
<1>3. CASE Write
  BY <1>3, CapWrite
<1>4. CASE Decide
  BY <1>4, CapDecide
<1>5. CASE CycleFails \/ Restart
  <2>1. OrderInv'
    BY <1>5 DEF CycleFails, Restart, EndCycle, CapInv, OrderInv, bridgeVars
  <2>2. faults' # 0
    BY <1>5 DEF CycleFails, Restart, Fault, PowerInv, Types, FileTypes
  <2> QED BY <2>1, <2>2 DEF CapInv
<1>6. CASE /\ UNCHANGED <<power, file, read, todo, belief, toWrite, faults>>
           /\ (pc' = "write") = (pc = "write") /\ (ns' # "apply" => ns # "apply")
  <2>1. Powered' = Powered /\ AfterTodo' = AfterTodo /\ AfterFile' = AfterFile
        /\ BelievedAwake' = BelievedAwake
    BY <1>6 DEF Powered, AfterTodo, AfterFile, BelievedAwake
  <2> QED BY <1>6, <2>1 DEF CapInv, OrderInv, ReadInv, BeliefInv, EnoughInv
<1>7. ASSUME Tick \/ SaveCell \/ HandoverDone \/ BridgeStat \/ ReadClock \/ ReadUes \/ ReadLog
             \/ SkipCycle \/ UNCHANGED vars
      PROVE  /\ UNCHANGED <<power, file, read, todo, belief, toWrite, faults>>
             /\ (pc' = "write") = (pc = "write") /\ (ns' # "apply" => ns # "apply")
  BY <1>7 DEF Tick, SaveCell, HandoverDone, BridgeStat, ReadClock, ReadUes, ReadLog, SkipCycle,
              cellVars, bridgeVars, orchVars, vars
<1> QED BY <1>1, <1>2, <1>3, <1>4, <1>5, <1>6, <1>7 DEF Next

\* As long as every list reaches the cells and the orchestrator keeps running,
\* MIN_ACTIVE_CELLS cells are awake, although the agent counts its own belief
\* and decides before the bridge has acted.  There have to be that many.
THEOREM CapKept ==
  ASSUME MinActive <= Cardinality(Cell)
  PROVE  Spec => []CapKeptWithoutFaults
<1>1. Init => CapInv
  <2> SUFFICES ASSUME Init PROVE CapInv
    OBVIOUS
  <2>1. Powered = Cell /\ BelievedAwake = Cell /\ todo = <<>> /\ file = {} /\ pc = "idle"
    BY LoopAssumption DEF Init, Powered, BelievedAwake
  <2>2. AfterTodo = Cell /\ AfterFile = Cell /\ WakesFirst(todo)
    BY <2>1 DEF AfterTodo, AfterFile, After, Wakes, Sleeps, WakesFirst
  <2>3. Enough(Cell)
    BY FS_CardinalityType, LoopAssumption DEF Enough
  <2> QED BY <2>1, <2>2, <2>3 DEF CapInv, OrderInv, ReadInv, BeliefInv, EnoughInv
<1>2. Init => KnownInv
  BY DEF Init, KnownInv
<1>3. PowerInv => Types
  BY DEF PowerInv
<1>4. CapInv => CapKeptWithoutFaults
  BY DEF CapInv, EnoughInv, Enough, Powered, CapKeptWithoutFaults, HardCap
<1> QED BY <1>1, <1>2, <1>3, <1>4, KnownStep, CapStep, PowerAlways, PTL DEF Spec
=============================================================================
