---------------------------- MODULE ControlLoop ----------------------------
(***************************************************************************)
(* The loop between ns-3 and the orchestrator.  ns-3 (one thread) writes   *)
(* the serving cells of the UEs to the database, one row at a time, and    *)
(* polls commands.json through the command bridge                          *)
(* (oran-lm-command-bridge.cc), which changes the power of the cells, logs *)
(* that, and issues handovers.  The orchestrator (another process,         *)
(* a1gent/orchestrator.py) reads clock, UEs and log with separate queries, *)
(* decides, and replaces the file.  The two interleave freely.             *)
(*                                                                         *)
(* One tick of sim is one report interval and one LM query interval: the   *)
(* example polls once between two reports.  A command list can be lost:    *)
(* replaced unread, ignored as too old, or never written by a cycle that   *)
(* failed; and the orchestrator can be restarted.  MaxFaults bounds these. *)
(***************************************************************************)
EXTENDS ActionPipeline

CONSTANTS
  Cell, Ue,
  FullPower, SleepPower,  \* transmission powers (TxPower, SleepTxPower)
  MinActive,              \* MIN_ACTIVE_CELLS
  MinDwell,               \* SLEEP_MIN_DWELL
  WarmUp,                 \* ORCH_WARMUP_S
  MinUes,                 \* ORCH_WARMUP_UE_FRAC of EXPECTED_UES, 0 if not set
  IdleExit,               \* IDLE_CYCLES_BEFORE_EXIT
  MaxAge,                 \* IgnoreOlderThan
  MaxSim, MaxFaults       \* bounds of the model

ASSUME LoopAssumption ==
  /\ Cell \subseteq Nat \ {0} /\ IsFiniteSet(Cell)
  /\ Ue \subseteq Nat /\ IsFiniteSet(Ue)
  /\ FullPower \in Nat /\ SleepPower \in Nat /\ SleepPower < FullPower
  /\ MinActive \in Nat /\ MinDwell \in Nat
  /\ WarmUp \in Nat \ {0} /\ MinUes \in Nat /\ IdleExit \in Nat \ {0} /\ MaxAge \in Nat
  /\ MaxSim \in Nat /\ MaxFaults \in Nat

VARIABLES
  sim,        \* simulated time, that of the newest reports generated
  ns,         \* what the simulator does next: "tick", "poll", "open", "apply"
  serving,    \* serving cell of each UE
  arrived,    \* history: sim when the UE came to its serving cell
  due,        \* reports generated but not yet written, [ue, cell, time]
  reported,   \* newest lteuecell row of each UE, [cell, time]
  inFlight,   \* handover commands under way, <<UE, source, target>>
  power,      \* TxPower of each cell
  original,   \* m_originalTxPower, a set of at most one power per cell
  asleep,     \* m_cellSleeping
  log,        \* kind of the newest power action logged of each cell
  file,       \* commands.json: {}, or the file's number, ts and commands
  lastMtime,  \* m_lastMtime
  statMtime,  \* mt, local to ReadJson
  read,       \* history: number of the newest file the bridge has read
  todo,       \* commands Run has still to go through
  todoTs,     \* ts of these commands
  pc,         \* orchestrator: "idle", "clock", "ues", "snap", "write", "exited"
  snap,       \* snapshot of the cycle: [sim, serving, sleeping]
  belief,     \* _cell_state
  changed,    \* _last_state_change_ns, a set of at most one time per cell
  lastSim,    \* last_sim_ns
  idle,       \* idle_cycles
  warm,       \* _warm_streak, up to 2
  toWrite,    \* command list of the cycle
  writes,     \* history: number of files written
  faults      \* history: lists lost and restarts

nsVars == <<serving, arrived, due, reported, inFlight>>
cellVars == <<power, original, asleep, log>>
bridgeVars == <<lastMtime, statMtime, read, todo, todoTs>>
orchVars == <<pc, snap, belief, changed, lastSim, idle, warm, toWrite>>
vars == <<sim, ns, nsVars, cellVars, file, bridgeVars, orchVars, writes, faults>>

None == "none"

\* A UE has no row yet.
NoRow == [cell |-> 0, time |-> 0]

\* The orchestrator between two cycles has no snapshot.
NoSnapshot == [sim |-> 0, serving |-> <<>>, sleeping |-> {}]

Init ==
  /\ sim = 0 /\ ns = "tick"
  /\ serving \in [Ue -> Cell]
  /\ arrived = [u \in Ue |-> 0]
  /\ due = {}
  /\ reported = [u \in Ue |-> NoRow]
  /\ inFlight = {}
  /\ power = [c \in Cell |-> FullPower]
  /\ original = [c \in Cell |-> {}]
  /\ asleep = [c \in Cell |-> FALSE]
  /\ log = [c \in Cell |-> None]
  /\ file = {}
  /\ lastMtime = 0 /\ statMtime = 0 /\ read = 0
  /\ todo = <<>> /\ todoTs = 0
  /\ pc = "idle"
  /\ snap = NoSnapshot
  /\ belief = [c \in Cell |-> "awake"]
  /\ changed = [c \in Cell |-> {}]
  /\ lastSim = 0 /\ idle = 0 /\ warm = 0
  /\ toWrite = <<>>
  /\ writes = 0 /\ faults = 0

\* A list is lost or the orchestrator restarted.
Fault(happens) ==
  /\ happens => faults < MaxFaults
  /\ faults' = IF happens THEN faults + 1 ELSE faults

-----------------------------------------------------------------------------
(***************************************************************************)
(* The simulator: reports and handovers.                                   *)
(***************************************************************************)

\* Every UE generates a report of its serving cell, once its last one has been
\* written; the next query of the LMs follows.
Tick ==
  /\ ns = "tick" /\ sim < MaxSim /\ due = {}
  /\ sim' = sim + 1
  /\ due' = {[ue |-> u, cell |-> serving[u], time |-> sim'] : u \in Ue}
  /\ ns' = "poll"
  /\ UNCHANGED <<serving, arrived, reported, inFlight, cellVars, file, bridgeVars, orchVars, writes,
                 faults>>

\* The RIC receives one of the reports and inserts its row.  Every insertion
\* is a transaction, and the orchestrator may read before and after it; the
\* query of the LMs may come in between, too.
SaveCell ==
  /\ ns \in {"tick", "poll"}
  /\ \E r \in due :
       /\ reported' = [reported EXCEPT ![r.ue] = [cell |-> r.cell, time |-> r.time]]
       /\ due' = due \ {r}
  /\ UNCHANGED <<sim, ns, serving, arrived, inFlight, cellVars, file, bridgeVars, orchVars, writes,
                 faults>>

\* ReceiveCommand of the source cell and the handover it starts.  A command
\* for a UE that has left the cell has no effect.
HandoverDone ==
  /\ ns \in {"tick", "poll"}
  /\ \E h \in inFlight :
       /\ inFlight' = inFlight \ {h}
       /\ IF serving[h[1]] = h[2]
            THEN /\ serving' = [serving EXCEPT ![h[1]] = h[3]]
                 /\ arrived' = [arrived EXCEPT ![h[1]] = sim]
            ELSE UNCHANGED <<serving, arrived>>
  /\ UNCHANGED <<sim, ns, due, reported, cellVars, file, bridgeVars, orchVars, writes, faults>>

-----------------------------------------------------------------------------
(***************************************************************************)
(* The command bridge.                                                     *)
(***************************************************************************)

\* Mutant of Mtime: two files are written within one second.
MutSameSecond(n) == (n + 1) \div 2

\* Modification time of the n-th file.  Its unit is a second, which files of
\* one orchestrator and of the next are apart as long as CYCLE_S is at least 1.
Mtime(n) == n

\* ReadJson, up to the comparison of the modification times.
BridgeStat ==
  /\ ns = "poll"
  /\ \/ /\ \A f \in file : Mtime(f.number) = lastMtime
        /\ ns' = "tick"
        /\ UNCHANGED statMtime
     \/ \E f \in file :
        /\ Mtime(f.number) # lastMtime
        /\ ns' = "open"
        /\ statMtime' = Mtime(f.number)
  /\ UNCHANGED <<sim, nsVars, cellVars, file, lastMtime, read, todo, todoTs, orchVars, writes, faults>>

\* The simulated time since the snapshot of the file exceeds IgnoreOlderThan.
TooOld(f) == sim - f.ts > MaxAge

\* The rest of ReadJson and Run up to the loop.  The file may have been
\* replaced or removed since its modification time was read, which is the one
\* that is remembered.
BridgeRead ==
  /\ ns = "open"
  /\ statMtime' = 0
  /\ \/ /\ file = {}
        /\ ns' = "tick"
        /\ UNCHANGED <<lastMtime, read, todo, todoTs, faults>>
     \/ \E f \in file :
        /\ lastMtime' = statMtime
        /\ read' = f.number
        /\ todo' = IF TooOld(f) THEN <<>> ELSE f.commands
        /\ todoTs' = IF todo' = <<>> THEN 0 ELSE f.ts
        /\ ns' = IF todo' = <<>> THEN "tick" ELSE "apply"
        /\ Fault(TooOld(f) /\ read # f.number)
  /\ UNCHANGED <<sim, nsVars, cellVars, file, orchVars, writes>>

RememberPower(c) == IF original[c] = {} THEN {power[c]} ELSE original[c]

\* SetCellSleep and the log entry.
ApplySleep(c) ==
  /\ original' = [original EXCEPT ![c] = RememberPower(c)]
  /\ asleep' = [asleep EXCEPT ![c] = TRUE]
  /\ IF power[c] <= SleepPower
       THEN UNCHANGED <<power, log>>
       ELSE /\ power' = [power EXCEPT ![c] = SleepPower]
            /\ log' = [log EXCEPT ![c] = "CELL_SLEEP"]

\* The power SetCellWake restores.
Restore(c) == IF original[c] = {} THEN power[c] ELSE CHOOSE p \in original[c] : TRUE

\* Mutant of LogWake: waking for a handover is not logged.
MutAutoWakeUnlogged(c, kind) ==
  IF kind = "AUTO_WAKE" THEN log ELSE [log EXCEPT ![c] = kind]

LogWake(c, kind) == [log EXCEPT ![c] = kind]

\* SetCellWake and the log entry of the given kind.
ApplyWake(c, kind) ==
  /\ asleep' = [asleep EXCEPT ![c] = FALSE]
  /\ UNCHANGED original
  /\ IF power[c] = Restore(c)
       THEN UNCHANGED <<power, log>>
       ELSE /\ power' = [power EXCEPT ![c] = Restore(c)]
            /\ log' = LogWake(c, kind)

\* ExecuteHo of a UE with a row, which wakes the target first.
ApplyHo(u, target) ==
  LET source == reported[u].cell IN
  IF source \in {0, target}
    THEN UNCHANGED <<inFlight, cellVars>>
    ELSE IF asleep[target]
      THEN /\ ApplyWake(target, "AUTO_WAKE")
           /\ inFlight' = IF power[target] # Restore(target)
                            THEN inFlight \cup {<<u, source, target>>} ELSE inFlight
      ELSE /\ inFlight' = inFlight \cup {<<u, source, target>>}
           /\ UNCHANGED cellVars

\* One round of the loop of Run.  The log is read by another process, so
\* rounds are steps.
BridgeApply ==
  /\ ns = "apply"
  /\ LET a == Head(todo) IN
     \/ a.type = "cell_sleep" /\ ApplySleep(a.cell) /\ UNCHANGED inFlight
     \/ a.type = "cell_wake" /\ ApplyWake(a.cell, "CELL_WAKE") /\ UNCHANGED inFlight
     \/ a.type = "ho" /\ ApplyHo(a.ue, a.target)
  /\ todo' = Tail(todo)
  /\ ns' = IF todo' = <<>> THEN "tick" ELSE "apply"
  /\ todoTs' = IF todo' = <<>> THEN 0 ELSE todoTs
  /\ UNCHANGED <<sim, serving, arrived, due, reported, file, lastMtime, statMtime, read, orchVars,
                 writes, faults>>

-----------------------------------------------------------------------------
(***************************************************************************)
(* The orchestrator.                                                       *)
(***************************************************************************)

\* build_network_snapshot: first latest_sim_time_ns, the time of the newest row
\* of any UE.  Before the first row the snapshot is empty and the cycle does
\* nothing.
ReadClock ==
  /\ pc = "idle"
  /\ \E u \in Ue :
       /\ reported[u] # NoRow
       /\ \A v \in Ue : reported[v].time <= reported[u].time
       /\ snap' = [NoSnapshot EXCEPT !.sim = reported[u].time]
  /\ pc' = "clock"
  /\ UNCHANGED <<sim, ns, nsVars, cellVars, file, bridgeVars, belief, changed, lastSim, idle, warm,
                 toWrite, writes, faults>>

\* Then, with another query, the newest row of each UE that has one.  Rows are
\* never older than the window of the query.
ReadUes ==
  /\ pc = "clock"
  /\ pc' = "ues"
  /\ snap' = [snap EXCEPT !.serving =
                [u \in {v \in Ue : reported[v] # NoRow} |-> reported[u].cell]]
  /\ UNCHANGED <<sim, ns, nsVars, cellVars, file, bridgeVars, belief, changed, lastSim, idle, warm,
                 toWrite, writes, faults>>

\* Last, with a third one, the cells whose newest log entry is a sleep.
ReadLog ==
  /\ pc = "ues"
  /\ pc' = "snap"
  /\ snap' = [snap EXCEPT !.sleeping = {c \in Cell : log[c] = "CELL_SLEEP"}]
  /\ UNCHANGED <<sim, ns, nsVars, cellVars, file, bridgeVars, belief, changed, lastSim, idle, warm,
                 toWrite, writes, faults>>

\* The snapshot is complete enough to start with; that of the cells is left out.
Ready == snap.sim >= WarmUp /\ Cardinality(DOMAIN snap.serving) >= MinUes
Streak == IF Ready THEN IF warm = 2 THEN 2 ELSE warm + 1 ELSE 0
Stale == snap.sim <= lastSim

\* The cycle ends before the agents are asked: still warming up, or no newer
\* data, which ends the orchestrator when it has happened often enough.
SkipCycle ==
  /\ pc = "snap"
  /\ warm' = Streak
  /\ \/ /\ Streak < 2
        /\ pc' = "idle"
        /\ UNCHANGED <<lastSim, idle>>
     \/ /\ Streak = 2 /\ Stale
        /\ idle' = idle + 1
        /\ lastSim' = snap.sim
        /\ pc' = IF idle' >= IdleExit THEN "exited" ELSE "idle"
  /\ snap' = NoSnapshot
  /\ UNCHANGED <<sim, ns, nsVars, cellVars, file, bridgeVars, belief, changed, toWrite, writes, faults>>

BelievedAwake == {c \in Cell : belief[c] = "awake"}

\* When the agent first sees a cell, its dwell time starts.
Seen(c) == IF changed[c] = {} THEN {snap.sim} ELSE changed[c]

\* Mutant of MaxSleep: each cell may sleep as long as it alone keeps the cap.
MutOneAtATime(awake) == IF Cardinality(awake) > MinActive THEN Cardinality(awake) ELSE 0

\* The cap of _apply_decisions on the number of cells put to sleep.
MaxSleep(awake) ==
  IF Cardinality(awake) > MinActive THEN Cardinality(awake) - MinActive ELSE 0

\* Sleep plans that pass the guards, whatever the LLM and the metrics say.
SleepPlans ==
  {plan \in SUBSET {c \in BelievedAwake : \A t \in Seen(c) : snap.sim - t >= MinDwell} :
     Cardinality(plan) <= MaxSleep(BelievedAwake)}

Occupied(c) == \E u \in DOMAIN snap.serving : snap.serving[u] = c

\* Where _offload_ues may hand over the UEs of the cells of the plan.
Offloads(plan) == {Ho(u, c) : u \in {v \in DOMAIN snap.serving : snap.serving[v] \in plan},
                              c \in Cell \ (plan \cup snap.sleeping)}

\* What the other agents may propose.
Steering == {Ho(u, c) : u \in Ue, c \in Cell}

\* At most one handover per UE is left after merging.
OnePerUe(H) == \A g, h \in H : g.ue = h.ue => g = h

\* The agents decide on the snapshot, the energy agent commits its belief, and
\* the proposals are merged, filtered and ordered.
Decide ==
  /\ pc = "snap" /\ Streak = 2 /\ ~Stale
  /\ warm' = 2 /\ idle' = 0 /\ lastSim' = snap.sim
  /\ \E plan \in SleepPlans, wake \in SUBSET (Cell \ BelievedAwake) :
     LET sleep == {c \in plan : ~Occupied(c)} IN
     /\ belief' = [c \in Cell |-> IF c \in sleep THEN "asleep"
                                  ELSE IF c \in wake THEN "awake" ELSE belief[c]]
     /\ changed' = [c \in Cell |-> IF c \in sleep \cup wake THEN {snap.sim} ELSE Seen(c)]
     /\ \E H \in SUBSET (Offloads(plan) \cup Steering) :
        /\ OnePerUe(H)
        /\ LET A == {CellSleep(c) : c \in sleep} \cup {CellWake(c) : c \in wake} \cup H
           IN toWrite' \in Sorted({a \in A : Kept(a, A, snap)})
  /\ pc' = "write"
  /\ UNCHANGED <<sim, ns, nsVars, cellVars, file, bridgeVars, snap, writes, faults>>

Unread == \E f \in file : f.number > read

\* Mutant of FileTs: the file is stamped with the time at which it is written.
MutWriteTime == sim

FileTs == snap.sim

\* The cycle is over and its variables are gone.
EndCycle ==
  /\ pc' = "idle"
  /\ snap' = NoSnapshot
  /\ toWrite' = <<>>

\* write_commands_json: the file is replaced atomically.
Write ==
  /\ pc = "write"
  /\ EndCycle
  /\ file' = {[number |-> writes + 1, ts |-> FileTs, commands |-> toWrite]}
  /\ writes' = writes + 1
  /\ Fault(Unread)
  /\ UNCHANGED <<sim, ns, nsVars, cellVars, bridgeVars, belief, changed, lastSim, idle, warm>>

\* Something raises after the energy agent has committed its belief: the
\* cycle is given up ("orchestrator error").
CycleFails ==
  /\ pc = "write"
  /\ EndCycle
  /\ Fault(TRUE)
  /\ UNCHANGED <<sim, ns, nsVars, cellVars, file, bridgeVars, belief, changed, lastSim, idle, warm,
                 writes>>

\* The orchestrator is started again, also after it has exited: it removes
\* the file and knows nothing.  A start before the first file would change
\* nothing.
Restart ==
  /\ writes > 0 \/ pc = "exited"
  /\ Fault(TRUE)
  /\ EndCycle
  /\ file' = {}
  /\ belief' = [c \in Cell |-> "awake"]
  /\ changed' = [c \in Cell |-> {}]
  /\ lastSim' = 0 /\ idle' = 0 /\ warm' = 0
  /\ UNCHANGED <<sim, ns, nsVars, cellVars, bridgeVars, writes>>

-----------------------------------------------------------------------------
Next ==
  \/ Tick \/ SaveCell \/ HandoverDone
  \/ BridgeStat \/ BridgeRead \/ BridgeApply
  \/ ReadClock \/ ReadUes \/ ReadLog \/ SkipCycle \/ Decide \/ Write \/ CycleFails \/ Restart

Spec == Init /\ [][Next]_vars

-----------------------------------------------------------------------------
\* Every variable has its type.
TypeOK ==
  /\ sim \in 0..MaxSim /\ ns \in {"tick", "poll", "open", "apply"}
  /\ serving \in [Ue -> Cell]
  /\ due \subseteq [ue : Ue, cell : Cell, time : 1..MaxSim]
  /\ reported \in [Ue -> {NoRow} \cup [cell : Cell, time : 1..MaxSim]]
  /\ arrived \in [Ue -> 0..MaxSim]
  /\ inFlight \subseteq Ue \X Cell \X Cell
  /\ power \in [Cell -> {FullPower, SleepPower}]
  /\ original \in [Cell -> {{}, {FullPower}}]
  /\ asleep \in [Cell -> BOOLEAN]
  /\ log \in [Cell -> {None, "CELL_SLEEP", "CELL_WAKE", "AUTO_WAKE"}]
  /\ {lastMtime, statMtime, read, writes, faults, idle, lastSim, todoTs} \subseteq Nat
  /\ pc \in {"idle", "clock", "ues", "snap", "write", "exited"}
  /\ belief \in [Cell -> {"awake", "asleep"}]
  /\ changed \in [Cell -> {{}} \cup {{t} : t \in 0..MaxSim}]
  /\ warm \in 0..2

\* The orchestrator takes a cell for sleeping exactly when the bridge has it
\* at its sleep power, however often cells are put to sleep, woken for a
\* handover or woken on command, and whichever of these had no effect.
LogTellsPower ==
  \A c \in Cell : (log[c] = "CELL_SLEEP") <=> (power[c] = SleepPower)

\* The same of the bridge's own record, by which it wakes handover targets,
\* and a sleeping cell can always be brought back to its full power.
CanBeWoken ==
  \A c \in Cell : /\ asleep[c] <=> power[c] = SleepPower
                  /\ asleep[c] => original[c] = {FullPower}

\* The three records of a cell's power agree with its power and it is never
\* lost: what the orchestrator reads, what the bridge wakes handover targets
\* by, and the power to go back to.
PowerIsKnown == LogTellsPower /\ CanBeWoken

\* What the bridge is about to put to sleep holds no UE that was already
\* there one report interval before the time of the snapshot behind the
\* command.  It may hold one that came in the last interval: the snapshot has
\* the time of the newest row of any UE, and may have been read while the row
\* of that time of the UE in question was still to be written.
DrainedWhenPutToSleep ==
  ns = "apply" /\ Head(todo).type = "cell_sleep" =>
    \A u \in Ue : serving[u] = Head(todo).cell => arrived[u] + 1 >= todoTs

\* A file whose modification time the bridge would take for known has been
\* read: replacing the file between stat and open makes a list be read twice,
\* never not at all.
KnownMeansRead == \A f \in file : Mtime(f.number) = lastMtime => read = f.number

\* energy.py:465, "HARD CAP: never sleep below MIN_ACTIVE_CELLS", said of the
\* cells themselves.
HardCap ==
  Cardinality({c \in Cell : power[c] > SleepPower}) >= MinActive

\* The cap holds as long as every list reaches the cells and the orchestrator
\* keeps running: with both, what it believes is never more awake than the
\* cells are, although it decides before the bridge acts.
CapKeptWithoutFaults == faults = 0 => HardCap
=============================================================================
