# TLA+ models of A1gent-ns3-oran

This directory models the control logic of the repository: an ns-3 O-RAN
module (C++, `ns3/contrib/oran`) in which a Near-RT RIC collects reports from
E2 nodes and lets Logic Modules (LMs) send commands back, the LTE UE whose
handovers these commands order (`ns3/src/lte`), and the A1gent orchestrator
(Python, `a1gent`), a second process that reads the RIC's database and steers
the radio network through a `commands.json` file.

Paths below are relative to the repository root; `oran/` stands for
`ns3/contrib/oran/model/`, `lte/` for `ns3/src/lte/model/`.

## 1. Inventory

### 1.1 The parts, their state and their operations

| Part | State | Operations |
|---|---|---|
| Near-RT RIC (`oran/oran-near-rt-ric.cc`) | active flag, default and additional LMs, current cycle, pending query / deadline / inactivity events, commands collected per LM | `Start` `Stop` `Activate` `Deactivate`, `QueryLms`, `NotifyLmFinished`, `NotifyReportReceived`, `ProcessLmQueryCommands`, `CheckForInactivity`, add / remove / replace LM |
| Logic Module (`oran/oran-lm.cc`) | active flag, pending finish event, cycle of the run, commands of the run | `Run`, `CancelRun`, `FinishRun`, `Activate`, `Deactivate` |
| E2 node terminator (`oran/oran-e2-node-terminator.cc`) | active flag, E2 node ID, next registration, next send, reports waiting to be sent | `Activate` `Deactivate`, `Register`, `Deregister`, receive (de)registration response, store and send reports, receive command |
| RIC E2 terminator (`oran/oran-near-rt-ric-e2terminator.cc`) | map from E2 node ID to terminator | receive (de)registration request, receive report, process commands |
| Data repository (`oran/oran-data-repository-sqlite.cc`) | SQLite tables: nodes, registrations, reports, logs | register, deregister, save, query, log |
| Reporters and report triggers (`oran/oran-reporter*.cc`, `oran/oran-report-trigger*.cc`) | active flag, trigger, pending periodic event | activate, deactivate, notify registration, trigger a report |
| Handover and dwell reporter (`oran/oran-reporter-lte-ho-and-dwell.cc`) | per UE: cell and entry time, attachment that cannot be mapped yet, last handover start; events to be sent | four kinds of trace sink, `MapUe`, `GenerateReports`, activate, deactivate |
| Conflict mitigation (`oran/oran-cmm*.cc`) | handovers ever let through | `Filter` |
| Built-in LMs (`oran/oran-lm-lte-2-lte-*.cc`) | none between runs | `Run`: read rows, choose cells, issue handovers |
| Command bridge (`oran/oran-lm-command-bridge.cc`) | last file time, sleeping cells, original powers | `Run`: read file, execute handover, set CIO, cell sleep, cell wake |
| CIO store (`lte/cio-store.cc`) | offset per (source, neighbour) | set, get, clear |
| LTE UE RRC (`lte/lte-ue-rrc.cc`) | RRC state, T300, T310, sync counters, cells refused; measurement configuration, entries and pending triggers | calls of NAS, MAC and PHY, messages of the eNB, timers; measurement evaluation with CIO |
| Orchestrator (`a1gent/orchestrator.py`) | last simulation time, warm-up streak, idle cycles | main loop: snapshot, propose, merge, mitigate, order, write file, tune |
| Agents (`a1gent/agents/*.py`) | energy: believed cell state; load: believed CIO; qoe: cooldowns | `propose_actions` (with LLM and deterministic guards) |
| Snapshot (`a1gent/common/db.py`) | none | read database, infer sleeping cells from the LM log |
| Tuner (`a1gent/common/apt.py`) | parameter trial, observations, last outcome and direction of each knob | `observe`, `maybe_tune` |
| Ops and examples (`a1gent/ops`, `ns3/contrib/oran/examples`, `scripts`) | none | offline analysis, scenarios |

### 1.2 Interactions

* ns-3 is a discrete-event simulator. All C++ parts run in one thread; they
  interact by calls and by events on one queue (`Simulator::Schedule`). What is
  hard is the *order* of events: random delays, cancelled events, overwritten
  handles, and events that find their object deactivated.
* What an LM reads of a UE is a row that a report put into the repository some
  time ago. Between the report and the command that rests on it the UE may have
  moved; the command names it by an RNTI that is valid in one cell only.
* The orchestrator is a second process. It reads the SQLite file the RIC
  writes and writes `commands.json`, which the command bridge polls. There is no
  acknowledgement and no lock: files are overwritten, read late or twice, and the
  effect of a command is seen only through a later snapshot.
* `set_cio` reaches into the UEs: the bridge writes a process-wide store that
  every UE reads while measurement events are pending.

### 1.3 What makes each part correct

* Query cycle: every cycle is handed over once; commands of one LM keep their
  order; an answer never belongs to a finished cycle; nothing waits for ever.
* Registration: an E2 node ID belongs to one node; the RIC only deregisters
  silent nodes; what a node believes about its registration is eventually right.
* Reporters: an activated node reports again after being deactivated; no report
  is triggered on a reporter that is gone.
* Handover steering: a command reaches the UE it was meant for, in the cell the
  command says; at most one command per UE at a time; a UE ends up where the LM
  wants it.
* Dwell reporter: what it says of a UE is about the cell the UE is in.
* UE RRC: no order of messages and timers ends the simulation; timers run exactly
  in the states that need them; a UE that lost its cell finds one again.
* Measurements: queues, entries and scheduled events agree; reports are sent for
  exactly the cells that fulfil the conditions, with the offsets in force.
* Control loop: a cell with users is not put to sleep; enough cells stay awake;
  a command that was written takes effect or is visibly lost; no handover goes to
  a sleeping cell.
* Tuner: parameters stay in range; a trial that makes things worse, or that was
  cut short, is undone; every parameter gets its turn.

## 2. The modules

| Module | Code | What it is |
|---|---|---|
| `LmQueryCycle` | `oran-near-rt-ric.cc`, `oran-lm.cc` | the query cycle and the runs of the LMs |
| `DocumentedCycle` | `doc/source/oran-architecture.rst` | abstract specification of one cycle, refined by `LmQueryCycle` |
| `EventList` | ns-3's `Simulator` (external) | the event list, exact to the order of the events of one instant |
| `E2Registration` | `oran-e2-node-terminator.cc`, `oran-near-rt-ric-e2terminator.cc`, registration tables of the repository, `CheckForInactivity` | E2 node IDs |
| `ReportFlow` | `oran-e2-node-terminator.cc`, `oran-reporter.cc`, `oran-report-trigger*.cc` | stored reports, send timer, reporters, triggers |
| `HandoverSteering` | `oran-reporter-lte-ue-cell-info.cc`, table `lteuecell`, `oran-lm-lte-2-lte-*.cc`, `oran-cmm-*.cc`, `oran-e2-node-terminator-lte-enb.cc` | from a UE's report to the handover it leads to |
| `HoAndDwell` | `oran-reporter-lte-ho-and-dwell.cc` | the reporter, composed with `HandoverSteering` |
| `UeRrc` | `lte-ue-rrc.cc` | the connection state machine of the UE |
| `UeMeasurements` | `lte-ue-rrc.cc`, `cio-store.cc`, `ApplyCio` of the bridge | measurement events and reports, with offsets set from outside |
| `ActionPipeline` | `a1gent/orchestrator.py` | intent phase, merge, mitigate and order, as operators |
| `CommandList` | `a1gent/orchestrator.py`, `oran-lm-command-bridge.cc` | one cycle's list, from any proposals to the cells; extends `ActionPipeline` |
| `ControlLoop` | `a1gent/orchestrator.py`, `agents/energy.py`, `common/db.py`, `common/commands.py`, `oran-lm-command-bridge.cc` | the orchestrator and the bridge, composed through file, log and power; extends `ActionPipeline` |
| `CioControl` | `agents/load.py`, `oran-lm-command-bridge.cc`, `cio-store.cc` | offsets from the load agent's memory to the store; extends `ActionPipeline` |
| `AptTuner` | `a1gent/common/apt.py` | the online tuner; extends `ActionPipeline` for the intent phase |
| `MC*` | | what TLC needs: set-ups, instances, bounds |
| `*Proofs` | | theorems, one module per component |

Each component module declares the state of the code as variables with the names
of the members they stand for, has one action per handler, and ends with its
properties. Operators whose names start with `Mut` are plausible bugs of the
definition below them; no specification uses them. They show that each
property can fail: with the definition replaced, TLC finds it violated.

Where one component is checked in several environments, a variable `setup` is
chosen once, from the constant `Setups`: a record with the configuration, what the
environment may do and the bounds. The properties name the set-ups they are about
in their antecedents, and the theorems hold for any `Setups` within the module's
assumption. `MCActionPipeline` composes two components with constants of their own
(`CommandList` and `CioControl`) instead, and a variable `part` says which one runs.

### 2.1 Time and events

ns-3 fires the events of one instant in the order in which they were scheduled,
so "the timeout and the answer are due now" has exactly one outcome, which
depends on when each was scheduled. Three models of time are used.

* `LmQueryCycle` keeps the due times the code keeps (`queryEvent`, `deadline`,
  `finish`, and in `orphans` the deadlines whose `EventId` was overwritten) and
  derives the order from the instant of scheduling (`Turn`). Runs scheduled by
  one query that end together may end in any order: LMs are not ordered.
* `EventList` (and `E2Registration`, which has its own copy over its own events)
  keeps every pending event with the time left and its rank among the events of
  its instant. `Without` removes events and closes the gaps.
* `UeRrc`, `HandoverSteering` and `HoAndDwell` keep no times: a pending event
  may fire at any moment, which allows more orders than the code has. Where a
  property needs an order the configuration gives, a set-up names it (`timely` and
  `prompt` in `HandoverSteering`). `UeMeasurements` counts time in
  measurements, `AptTuner` in cycles.

Random variables of the code (transmission delays, intervals, processing
delays) are choices from small sets. `Tick` passes time only when nothing is due.

### 2.2 `LmQueryCycle`

`QueryLms` opens a cycle: it schedules the deadline (overwriting a pending one),
cancels and reruns every active deployed LM and schedules the next query.
`FinishRun` is the end of one run and contains the whole of `NotifyLmFinished`:
the abort on an answer for another cycle, the late policy, replacing the vector
of an LM that answers twice, and the hand-over when the *size* of the map says
that all LMs answered. The commands of one run are one opaque batch, numbered by
the query that asked for it. The no-op conflict mitigation module is assumed:
`sent` is all that was collected (`HandoverSteering` has the others).

A set-up has the LMs, interval, wait time, delays and late policy, and says whether
there are query triggers (`NotifyReportReceived`), stops and restarts, and changes
of the deployed LMs; `MCLmQueryCycle` has one set-up of each kind. `NeverOvertaken`
holds in all of them, the other properties in those their antecedent names. Callers
do not start a RIC whose query is pending (the code aborts).

`DocumentedCycle` is the cycle as the documentation describes it: opened by a query,
answered by LMs, closed once with exactly what was answered. `Documented` maps a
punctual RIC with periodic queries to it (open while a deadline is pending) and any
other RIC to its initial state; `KeepsDocumentedCycle` is the refinement.

### 2.3 `E2Registration`

`Register`, the two request handlers and the two response handlers of nodes and
RIC are actions fired by events; IDs are `AUTOINCREMENT` values, `latest` is the
newest row of table `noderegistration` per ID. Two rows of one ID in one instant
that disagree (`clash`) leave the answer of the SQL query open, and
`CheckForInactivity` is run with every possible answer. A message that finds its
receiver inactive is dropped, a call on a null terminator sets `crashed`.
`MCE2Registration` has the set-ups *Chaotic* (random delays, everything stopped and
restarted), *Ordered* (the same with a constant delay of the RIC's messages) and
*Punctual* (constant delays, timing as the documentation asks).

### 2.4 `ReportFlow`

One terminator with `Reporters` reporters, each with a periodic or a
trace-driven trigger. What matters here is that `m_sendEvent` and
`m_triggerEvent` hold *one* `EventId`: `Overwritten` marks the older event as
out of reach (`member = FALSE`), and `Cancelled` takes only those in reach. So
several send timers and several trigger chains can run at once, survive a
deactivation, and fire in a later activation. `Register` and its responses are
reduced to "requests under way" (`asked`); the IDs they carry are modelled in
`E2Registration`. `{1}` for the IDs is enough: a deregistration response resets
the ID to 0, after which the same ID is a new one to the terminator. A trigger
whose last reference is dropped inside its own `Deactivate`
(`oran-report-trigger.cc:105`) would be freed while it runs; callers are assumed
to hold a reference.

### 2.5 `ActionPipeline`, `CommandList`, `ControlLoop` and `CioControl`

`ActionPipeline` defines `determine_phase`, `parse_priority`, `merge_actions`,
`mitigate_actions` and `order_actions` as operators on small records. They say what
the loops of the code return: a name or an action counts where it first occurs
(`FirstAt`, `Unseen`). `Merge` gives a set, because no two of the actions it keeps
compete for the same thing; `Sorted` turns it into a list again, and there is only one.

`CommandList` is one cycle: `Prioritise` parses a priority string, `Propose` takes any
proposals of the three agents through the operators, and `Apply` is the bridge, one
command at a time, automatic wake included (`ExecuteHo`). A handover is only sent by it:
the UE stays on its cell until the eNB executes the command (`HandOver`), which is after
the list, because `Run` returns its handovers to the RIC, while a power command takes
effect at once. So `NobodyPutToSleep` counts a UE that the list hands away as still
there when the cell is put to sleep, which is why `mitigate_actions` has to drop the
sleep. Handovers that fail or come late are the subject of `ControlLoop` and
`HandoverSteering`.

`ControlLoop` interleaves two processes. ns-3: `Tick` (every UE generates a report of
its serving cell), `SaveCell` (the RIC inserts the row of one of them; each row is a
transaction of its own), `BridgeStat`, `BridgeRead` and `BridgeApply` (one command per
step, because the other process reads the log in between), `HandoverDone`. The
orchestrator: `ReadClock` (the newest time of any row), `ReadUes` (the newest row of
each UE; a UE without one is not in the snapshot) and `ReadLog`, the three queries of
`build_network_snapshot`; then `SkipCycle`, `Decide`, `Write`. Reports are assumed to
arrive before the UEs generate the next ones. `Decide` makes every choice the guards
of the energy agent allow, whatever the LLM or the metrics say, together with any
handovers of the other agents; then `Kept` and `Sorted` of `ActionPipeline` apply.
Faults are a list replaced before it is read, a list ignored as too old,
`CycleFails` after the energy agent has committed its belief, and `Restart`.
`set_cio` does not touch power or serving cells; it is in `CioControl`.

`CioControl` follows offsets on the same way, over several cycles: the load agent
adds each step to the offset it remembers (`ApplyCioDecision`, one
round of the loop of `_apply_cio_decisions`; a new neighbour starts from 0, a value at
its limit is not sent again) and remembers the sum before anybody has seen the
action. `CioCycle` takes every answer of the LLM, puts the actions through the pipeline
together with a power command and any set of sleeping cells, and leaves the list to
`CioWrite` or `CioCycleFails`; `CioBridgeRun` reads a file once or twice and applies or
ignores it. The history variable `newest` follows the newest action for each source
cell: in the list, in the file, in the store, or lost. `BiasIsAsBelieved` says that
once it is in the store, the UEs of the cell are biased as the agent believes, with no
offset left of an earlier neighbour, an earlier list or an earlier orchestrator.

### 2.6 `HandoverSteering` and `HoAndDwell`

The RIC's knowledge of a UE lags behind. An eNB never gives an RNTI twice, so a
place in the history of a UE's cells (`trail`) stands for the cell and the RNTI
the UE has there, and a row or a command that names a place says how old it is.
Reports overtake each other; `SaveLteUeCellInfo` is the moment a row is written;
`Newest` is the query of `GetLteUeCellInfo`. A second report of one place adds
nothing to that query and is left out.

`QueryLms` lets every LM issue a handover for each UE that its data favour
another cell for (`strongest`, an arbitrary cell: geometry, signal strength and
neural networks are left out). Where the LM's look-up finds no eNB, the variable
`oldCellNodeId` is used uninitialised in the code: `wild` is its arbitrary value.
`Filter` is the `Filter` of the three conflict mitigation modules.
`AcceptCommand`, `RefuseCommand` and `FailCommand` are `SendHandoverRequest` and
what the eNB's RRC makes of it: the X2 refusal, and the assertions that end the
simulation (`fatal`). The eNB's RRC itself is external.

A record `setup` says what the run is about: which module filters, whether
queries wait until the last orders are reported (`timely`), whether the eNB is
done with its part of a handover before the UE's report arrives (`prompt`),
whether eNBs refuse, links are lost and eNBs hand over on their own. `places`
bounds the history at which queries are still made.

`HoAndDwell` adds the reporter. Its trace sinks are conjoined with the steps of
`HandoverSteering` that fire the traces (`WatchedUeStep`, `WatchedCommand`), so
`WatchedSpec` is the composition and `HandoverSteering`'s `Spec` is what is left
of it when the reporter is forgotten. The reporter looks a UE up in the same
table `lteuecell`, where the row may not have arrived. `seen` is a history
variable: the reporter was connected and could map the UE at its last change.

### 2.7 `UeRrc`

All handlers of the state machine from cell selection to connection
establishment, handover, radio link failure and back. Around it, as far as
`lte-ue-rrc.cc` uses them: the NAS (connects again after a failure, disconnects
after a release), the MAC (one random access at a time), the PHY (decodes the
broadcast of the cell it is synchronised with, counts in-sync or out-of-sync
frames) and the eNB (setup, reject, handover, release). `Camp` contains the
state that `SwitchToState(IDLE_CAMPED_NORMALLY)` goes on to in the same call.
`NS_FATAL_ERROR`, `NS_ABORT` and the assertions about the modelled state set
`fatal`. T300 and T310 are numbers of pending events, because an `EventId` that is
overwritten would leave one behind. Levels are small numbers with `MinRsrp` = 0.

### 2.8 `UeMeasurements`

Measurement ids with events A1 to A5, time-to-trigger, hysteresis, offsets and
reports on leaving. The code keeps each wait twice, as an element of a queue
(whose cells are cancelled one by one) and as a scheduled event (with a copy of the
cells): `queue` and `events` are both, and `PopFront` and `CancelTrigger` change
them as the code does (`Kept` is what an erasing loop leaves of a list). `ApplyMeasConfig`
clears, replaces and removes; `Connect`, `Reconfigure` (a handover when the target is
another cell) and
`LeaveConnectedMode` are the environment. `ApplyCio` may come at any time with
any offset; which ones come is the subject of `CioControl`. One carrier is modelled.

### 2.9 `AptTuner`

`Cycle` is `observe` and `maybe_tune` in one cycle of the orchestrator; `Skip` is
time that passes without one. Times are ages, capped where the code compares
them. Which score is better and which self-heal condition holds is any choice;
knobs are integers between bounds; the phase comes from `DeterminePhase`. `kept`
is a history variable: the value each knob was configured or accepted with.

## 3. The runs

| Run | Environment and bounds | What holds |
|---|---|---|
| `lm_query_cycle` | *Periodic*, *Triggers*: 3 LMs, interval 3, wait time 2, delays 0, 2, 3, DROP, 3 queries; *Restart*: 2 LMs, no wait time, interval 2, delays 1, 2, 3, stop, restart, activate, deactivate; *Dynamic*: 2 LMs, wait time = interval = 1, delays 0, 2, SAVE, LMs added, removed, replaced, 2 queries | the periodic cycle refines `DocumentedCycle` (`KeepsDocumentedCycle`); nothing collected waits longer than the wait time (`PromptWithWaitTime`); no answer ever belongs to another cycle (`NoAbortIfDeploymentIsFixed`); without a wait time what is handed over holds a batch of every LM (`WholeSets`); commands of one LM are handed over at most once and in order (`NeverOvertaken`) |
| `e2_registration` | *Chaotic*, *Ordered*: 2 nodes, delays 0, 1 (the RIC's in *Ordered*: 1), nodes and RIC stopped and restarted, 2 IDs, 3 operations; *Punctual*: one of the nodes never stopped, constant delays 1, registration every 3 or 4, threshold 4, 3 IDs, 4 operations | `TypeOK`, `OneOwner`, `RegisteredIsReachable`; if the RIC's messages keep their order `BeliefIsCurrent`; if the RIC is not stopped `SilentIsDeregistered`; with adequate timing `StableIdentity` |
| `report_flow` | a periodic and a trace-driven reporter, send interval 2, trigger interval 1 or 2 | `TypeOK`, `OnePlace`, `NoneStaleSent`, `SentInTime`, `KeepsReporting` |
| `handover` | five set-ups (below) of 1 or 2 UEs, 2 or 3 cells, 1 or 2 LMs | `CommandsMeetTheirUe`, `DwellOfServingCell`, `EndOkNamesTheSource`, `EndsUpInStrongestCell` |
| `ue_rrc` | 2 open and 2 closed cells, N310 = 2, N311 = 3 | `NoFatalError`, `ConnectionTimerMatchesState`, `RadioLinkSupervised`, `Reconnects` |
| `ue_measurements` | 3 cells, 1 or 2 measurement ids, time-to-trigger 0 to 3, two offsets | `TypeOK`, `AssertionsHold`, `ReportTimerRuns`, `PendingTriggersOK`, `ReportsFollowConditions` |
| `action_pipeline` | *list*: 2 cells, 1 UE, priority strings of up to 4 names, up to 2 proposals of the energy agent and 1 of each other; *offsets*: 2 cells, one of them hot, offsets of 0 to 2 steps, up to 2 decisions in one answer, cool-down 2, 5 reports | `MostImportantOnly`, `SteeredCellsAwake`, `NobodyPutToSleep`; `BiasIsAsBelieved` |
| `control_loop` | 3 cells, 2 UEs, cap 2; *cells*: one UE handed over, 4 report intervals, one fault; *ues*: both handed over, rows written one by one, 3 intervals, no fault | `PowerIsKnown`, `DrainedWhenPutToSleep`, `KnownMeansRead`, `CapKeptWithoutFaults` |
| `apt_tuner` | 2 knobs, tuning interval 3, evaluation 4, self-heal cool-down 6, three windows | `OnlyAcceptedStays`, `JudgedInPhase`, `RoundRobinGoesOn` |
| `e2_doc_crash`, `report_doc_timer`, `loop_doc_cap` | as above | the violations of section 5 |

The type invariants of the components whose type correctness is proved (section
4) are not checked by the runs again.

Why these bounds are enough to be interesting:

* LM cycle: with a wait time there are delays below, at and beyond it and equal to
  the interval; without one, below, at and beyond the interval. So a run ends
  before, together with and after the deadline and the next query, and a run that
  takes too long is cancelled by it. Three queries let a deadline be overwritten
  twice. In *Dynamic* the deadline and the next query always coincide.
* `E2Registration`: delays of 0 and 1 let every message overtake another one;
  `MaxEvents` bounds only operations of the environment (activate, deactivate,
  start, query), never what a handler schedules. Two nodes compete for the IDs.
  `AgeCap` is above the threshold, and in *Punctual* above threshold plus check
  interval, so ages are exact where they are compared. IDs beyond `MaxId` are not handed out.
* `ReportFlow`: `MaxChains = 2` lets a response start a second send timer, so one
  in reach and one out of reach run at once, also across a deactivation;
  `MaxStored = 1` stops trace-driven reports while one waits, and stops time
  while more than one waits (a node whose registration is not answered stores
  without limit). Two reports are still stored and sent together, when a trigger
  or a response comes before a send in the same instant.
* `handover`: *Late* (two UEs, three cells, the handover filter, queries that do not
  wait for reports) makes commands from rows that are several handovers old;
  *Timely* has refusals and a favourite that changes; *Conflict* two LMs that want
  different cells; *Roaming* lost links, rows without a cell and orders that no eNB can
  execute, so `fatal` is reached where nothing promises the contrary; *Traced*
  handovers of the eNBs' own, failures and lost links under the eyes of the
  reporter, which is switched off and on. `places` is large enough that
  persistent set-ups never meet it (a UE whose target is fixed needs one order;
  each refusal or change of mind one more).
* `ue_rrc`: two closed cells that may be equally strong let the UE refuse one cell
  after the other until none is left; cell 1 lets it fail twice, the others once.
  N310 = 2 and N311 = 3 tell "counter reset" from "counter kept".
* `ue_measurements`: a time-to-trigger of 3 measurements lets three waits overlap in one
  queue, so that the first fires, the second is cancelled and the third is cut
  short; two offsets, one beyond the limit of 24 dB, change the winner of a wait.
* `ControlLoop`: with three cells and a cap of two, one wrong belief is enough to
  break the cap, and one fault is enough to make a belief wrong; a cell is
  slept, woken and slept again within four intervals (*cells*). Two UEs and three
  intervals let a snapshot have the new row of one UE and the old row of the other, for
  the first row of a UE (`MinUes = 1` accepts a snapshot of one UE) and for a later one
  (*ues*). The cells are alike, so UEs start on cell 1, in *ues* the second one also on
  cell 2. `SleepPower = 0` is the default of `SleepTxPower`.
* `action_pipeline`, *offsets*: two decisions for one cell in one answer change
  neighbour and value twice within a cool-down that is checked against the time before
  the answer; a lower limit of 0 makes a change of neighbour that leaves the value at 0
  (the log line "CIO rebinding(clear)"), the upper limit a step that changes nothing.
  Source cells do not share state, so one of them is enough.
* `apt_tuner`: one knob configured outside its bounds, one on which self-heal and
  round-robin compete; the windows put a phase change before, into and after a trial.
  The constants keep the order of the defaults (cool-down 60 s > evaluation 40 s
  plus one cycle).

Deadlock is not checked where a run ends at its bounds of time, queries or
events, or at an assertion that failed; a simulation ends too.

### Fairness

Three kinds of progress are stated.

* *In time.* `PromptWithWaitTime`, `SilentIsDeregistered`, `SentInTime` and
  `KeepsReporting` are bounds: in a discrete-event simulation an event that is due
  fires before time passes, so a deadline is a safety property and says more
  than "eventually". These specifications need no fairness.
* *Weak fairness* of what ns-3 schedules or repeats: scheduled events (timers,
  triggers, messages under way, commands under way), broadcasts (every subframe
  pattern sends MIB and SIBs again), measurements of the PHY (every 200 ms), the
  queries of the RIC (`QueryLms` reschedules itself), and the cycles of the
  orchestrator's loop.
* *Strong fairness* of outcomes that are not ruled out: in `UeRrc` that the random
  access and the setup succeed again and again, and that a measurement report
  with the cells in range is made while the UE searches; in `HoAndDwell` that an LM's run
  ends before the next query again and again (`QueryLms` cancels a run that is
  slower; if all are, nothing is ever commanded).

`Reconnects` assumes that from some time on a cell that may be used is received
well enough, `ReportsFollowConditions` that configuration and connection settle,
`RoundRobinGoesOn` that cycles are not skipped, `EndsUpInStrongestCell` one of the
set-ups called `Persistent`. Each of these is an antecedent in the property.
Nothing in the code bounds the speed of the orchestrator relative to ns-3, so
`ControlLoop` has no progress it could be held to.

## 4. What is proved

TLAPS proves the following for every value of the constants (any number of LMs,
nodes, reporters, cells, UEs, measurement ids or knobs, any delays and intervals).
The assumptions are the `ASSUME`s of the modules, of types and finiteness, and
those in a theorem's own statement.

* `LmQueryCycleProofs`. `TypeCorrect` and `CommandsNeverOvertaken` in every set-up,
  `NeverAborts` if the deployment is fixed, `CollectedHandedOverInTime` for a punctual
  RIC, `HandsOverWholeSets` without a wait time, and the refinement
  `ImplementsDocumentedCycle`.
  `NeverOvertaken` is inductive once held commands belong to their LM and no query
  number exceeds the count (`OvertakeInv`). `NoAbortIfDeploymentIsFixed` needs
  `StaticInv`: deployed LMs are active exactly when the RIC is, hence a query reruns
  all of them, hence every run in progress is of the current cycle. `PromptHandover`
  needs `PromptInv`: the deadline of every collected batch is in the event list, as
  member or as orphan, and none is overdue. `WholeSets` counts: the code compares the
  sizes of two maps, and `CountInv` (answers are kept under keys of deployed LMs, each
  with batches of its LM) makes equal sizes mean equal sets. The refinement rests on
  `CycleInv` (what is collected or in progress is of the current query, whose deadline
  is the only one); each action then maps to a step of `DocumentedCycle` or a stutter.
* `E2RegistrationProofs`. First the event list: a section of lemmas shows that
  scheduling, firing and cancelling keep the ranks of one instant exact, without
  which "the next event" would not be unique. On it rest `TypeCorrect` (`TypeInv`),
  `IdsKeepTheirOwner` and `RegisteredNodesAreReachable` when nodes and RIC are stopped
  and restarted (`OwnershipInv`: a request or response carries an ID that the map
  already assigns to its node, and IDs not handed out are not mapped).
  `SilentNodesAreDeregistered` needs that an active RIC has an inactivity check pending
  whose remaining time plus the age of any row is within the bound (`CheckInv`).
  `BeliefsAreCorrected` needs the order of the messages to each node (`BeliefInv`): a
  response that grants an ID which is not registered any more is followed, by time and
  rank, by the one that takes it away. `IdentitiesAreStable` (`SteadyInv`): a node that
  is never deactivated has one registration timer and at most one request or response
  under way, which arrives before the timer fires, and the row of its ID is renewed by
  that request or the next one before it is older than the threshold; so its ID is
  never found inactive, and no response carries another one.
* `ReportFlowProofs`. `ReportsSentInTime`: in `SendInv`, once a response was
  answered there is always a send event whose remaining time plus the waiting
  time is within the longest interval; overwriting an `EventId` keeps the event,
  cancelling it would not. `PeriodicReportersReport`: the same for the trigger
  events of each periodic reporter (`TriggerInv`). `NoOldReportSent`: what an
  active terminator stores is fresh, because activation clears it (`StaleInv`).
  `ReportsInOnePlace` and `TypeCorrect`: the event list stays exact (`Listed`, from
  lemmas about firing, cancelling, scheduling and overwriting), and what is stored is
  apart from what is under way (`PlaceInv`), also once a deactivation has marked it
  stale, because nothing under way is. A new report has the first free number, which
  exists because finitely many are taken.
* `HandoverSteeringProofs`. `WatchedOrdersMeetTheirUe`: no command misses its UE, in
  every set-up that promises one order per UE and a timely result, or an
  unchanging choice and the handover filter (`SteeringInv`). For the former
  (`InStep`), whatever runs, is collected or sent can be executed now and is the only
  order of its UE, because a query needs the quiet that the last order ends in. For
  the latter (`InMind`), a place that was reported and has been left was left by an
  order that the filter still remembers and that is no longer under way, so the same
  row only leads to orders that the filter excludes. `DwellIsOfServingCell` and
  `EndOkIsFromTheSource` follow from `DwellInv`: what the reporter keeps of a UE it
  could follow is about the place the UE is in, or the one it is leaving. The
  theorems are about the composition; a lemma shows that it implements the
  specification without the reporter, so that the steering lemmas carry over.
* `UeRrcProofs`. `NeverFatal`, `ConnectionTimerCorrect` and `SupervisionCorrect`
  from one invariant, `RrcInv`. Its added part, `HandlersPrepared`, is what the
  handlers take for granted: a random access is in progress only where its result is
  expected, a cell that is evaluated was measured, a release under way finds the UE
  connected or knows that it left.
* `UeMeasurementsProofs`, for a time-to-trigger of up to `MaxTimeToTrigger` (three)
  measurements. `TimerRuns`: for any configurations, offsets and orders of
  events, the report timer runs exactly while a cell has triggered. `TypeCorrect`,
  `NoAssertionFails` and `TriggersMatch` follow from one invariant, `MeasureInv` with
  `EntriesOK`. It says that the queue of a measurement id and its events agree one to
  one, in the order of their times (`Waits`); that what is triggered and what waits fit
  each other (`Orderly`); and that only configured ids of a UE that measures its
  serving cell have entries or waits
  (`EntryOrderly`, `ConfigOK`). The assumption `MessageAssumption` is the eNB's part:
  a measurement configuration names only what it also configures.
* `OrchestratorProofs`, in three parts.
  *The tuner.* `TypeCorrect` and `TrialsAreUndone`: `TunerInv` adds that the
  value to return to is within bounds (`KeptInBounds`), or `_set_knob` would clamp it
  to another one. `ValuesAreJudgedInPhase`, an action property: a value on trial is
  never the one that is kept, so only an evaluation can make it so; what is younger
  than a trial was observed with it and in its phase (`InReach`), and an evaluation
  finds the trial as old as the window it looks at.
  *The list.* A priority string always yields all three agents, each once; merging keeps
  one action per UE, offset and cell; what is left has exactly one order
  (`OneCommandList`). `OnlyTheMostImportant`, `SteeringFindsCellsAwake` and
  `SleepFindsNobody` follow from `ListInv`: at every point of the list (`Promised`) no
  command steers to a cell that another one puts to sleep, applied or not, and a cell
  that sleeps while something is still to be steered there has its wake ahead, hence
  before everything that steers; handovers under way are among the commands applied, so
  executing one later brings no UE to a cell that was put to sleep.
  *The offsets.* `BiasMatchesBelief`. `RoundOK` holds after each round of the load
  agent's loop: it believes of a cell what it sent for it last, or, if it sent nothing,
  what it did before. (The loop is a recursive function; that it has a value in each
  round, and that each round keeps `RoundOK`, is shown by looking at the least round
  that has not.) `OnTheWay` then follows the newest action: while it is in the list or
  in the file it is what the agent believes; once it is in the file or in the store, the
  list has nothing for its cell and the file nothing else.
* `ControlLoopProofs`. `TypeCorrect` and `PowerAlwaysKnown` (one
  invariant, `PowerInv`: the log, the bridge's record and the power change
  together in every branch of sleep and wake), `NoFileMissed` (`KnownInv`: the
  time read by stat is never newer than the file), `SleepsOnlyDrained` (`DrainInv`
  follows a drained cell from the reports through the rows, the snapshot, the list to be
  written, the file and the bridge's list. Its first part, `DueInv`, bounds the age of
  what a snapshot can miss: a row is at most one interval older than the newest one,
  and only while the report that replaces it is under way), and `CapKept`, for
  deployments of at least `MinActive` cells. `CapInv` relates the agent's belief to the
  power through every copy of a list on its way: applying what is in the bridge, then
  what is in the file, then what is still to be written leaves every cell awake that the
  agent believes to be, and enough of them at each stage; lists wake before they put to
  sleep. `NoFileMissed` rests on `Mtime`: two files never have the same time, which
  holds as long as `CYCLE_S` is at least 1, since the time counts whole seconds.

Only model-checked:

* Liveness under fairness: `Reconnects`, `ReportsFollowConditions`,
  `RoundRobinGoesOn`, `EndsUpInStrongestCell`.

## 5. Where the code differs from what it says

Shown by a run:

* `e2_doc_crash`: a node that deregisters while its ID is 0 makes the RIC call
  `ReceiveDeregistrationResponse` on a null terminator
  (`oran-near-rt-ric-e2terminator.cc:191`).
* `report_doc_timer`: every registration response, repeated ones included, starts
  another send timer that never ends (`oran-e2-node-terminator.cc:226`).
  Reports are still sent once and in time (section 3), at the cost of events.
* `loop_doc_cap`: the hard cap on sleeping cells counts the agent's belief; one
  lost list or one restart is enough to exceed it (`a1gent/agents/energy.py:517`).

Visible in the models, without a run of their own.

Near-RT RIC and E2 nodes:

* A late batch kept by the SAVE policy is erased when the same LM answers again
  in time (`oran-near-rt-ric.cc:405`, against `oran-near-rt-ric.h:121`).
* Removing or replacing an LM that is running makes its answer abort the
  simulation if it ends after the next query (`oran-near-rt-ric.cc:449`, against
  `oran-architecture.rst:42`).
* A deadline whose `EventId` was overwritten closes a later cycle early
  (`oran-near-rt-ric.cc:547`). `PromptHandover` holds because of it.
* `OranLm::Deactivate` does not cancel a run, since it clears `m_active` first
  (`oran-lm.cc:107`).
* A node whose round trip is not shorter than its registration interval gets two
  IDs; when the unused one is deregistered, it forgets the other
  (`oran-e2-node-terminator.cc:202`, against `oran-architecture.rst:121`).
* A deregistered terminator stays in the map of active terminators
  (`oran-near-rt-ric-e2terminator.cc:187`, against its header, line 100).
* Two registration rows of one instant leave open which one counts
  (`oran-data-repository-sqlite.cc:1799`).
* Deactivating a terminator takes the triggers from its reporters; activating it
  again leaves them silent, and the next response with a new ID aborts
  (`oran-reporter.cc:84`, against `oran-architecture.rst:165`).
* A trigger event that was overwritten survives the deactivation of its trigger
  and aborts the simulation (`oran-report-trigger.cc:135`).
* A terminator stores reports without limit while the RIC does not answer its
  first registration (`oran-e2-node-terminator.cc:190`).

Handover steering:

* `OranCmmHandover` keeps every order it let through for ever (its header, line 84,
  speaks of "pending" ones). An order that an eNB refused is never given again, and
  a UE whose newest row is old is not steered back (`oran-cmm-handover.cc:107`).
* The LMs use `oldCellNodeId` uninitialised when the row of a UE names no cell (a UE
  that lost its link reports cell 0, `lte-ue-rrc.cc:3211`) or an unknown eNB
  (`oran-lm-lte-2-lte-rsrp-handover.cc:190` and its sibling for distances). A camped
  UE that has not connected reports a cell with RNTI 0.
* A report of a handover may be acted on before the target eNB has completed its
  part; the command then meets an assertion of the eNB. `prompt` excludes it.
* Two LMs with different favourites move a UE back and forth: the modules filter
  within one batch, or exact repetitions.
* The reporter of dwell times keeps the first attachment of a UE that it cannot map
  (`oran-reporter-lte-ho-and-dwell.cc:143`, "Do not overwrite an earlier baseline");
  a UE that moved before its row arrived is then seeded with the cell it left, until
  its next handover. Events that come while it is deactivated are missed likewise.
* `oran-lte-2-lte-ml-handover-example.cc:851` deploys `OranCmmHandover` together with
  the command bridge, whose handovers it then filters as well.

UE:

* Leaving event A5: every measurement that fulfils just one of the two leaving
  conditions cancels the wait and starts it again (`lte-ue-rrc.cc:2561` and `:2592`,
  against the comment in line 2565), so with a time-to-trigger longer than the
  measurement period the cell is reported for ever. `ReportsFollowConditions`
  excepts it (`Restarted`).
* A trigger that was cancelled for some of its cells fires for all of them: the event
  holds a copy. `FirstTriggerFires` states the inclusion that remains.
* A cell below its own `qRxLevMin` is not remembered as tried (only acceptable ones
  are, `lte-ue-rrc.cc:1350`); a UE that measures it strongest tries it for ever.
  `Reconnects` assumes `Receivable`.
* A UE disconnected by the NAS looks for a cell and connects again by itself, whether
  or not anybody asked for it.

Orchestrator:

* The load agent remembers an offset before the merge, the filter or the file may lose
  its action (`a1gent/agents/load.py:473`), as the energy agent does with its belief. A
  later step for the same neighbour repairs that, because offsets are absolute; at
  `CIO_MAX` or `CIO_MIN` no step is sent any more and the store stays behind.
* Two decisions for one cell in one answer both pass the cool-down, which was computed
  before (`load.py:450`); the merge keeps the first action, the agent remembers the
  second. The target of a decision is not compared with that of the pair, and of two
  pairs of one source cell only the last is looked up (`load.py:441`).
* A knob configured outside its bounds is clamped by its first trial and not restored
  by a reject (`a1gent/common/apt.py:173`, against its docstring, line 94);
  `experiments/configs/orchestrator.env.example:91` configures such values.
  `OnlyAcceptedStays` is about knobs configured within their bounds. A knob that was
  accepted up to its bound is never tried in the other direction, and `HOT_MAX` and
  `COOL_MIN`, tuned independently, may cross.
* The base score of a trial may contain observations of the phase before.
* The bridge wakes the target of a handover when it issues the command
  (`oran-lm-command-bridge.cc:292`); one issued towards an awake cell may be executed
  after a later list has put that cell to sleep.
* A snapshot is stamped with the time of the newest row of any UE
  (`a1gent/common/db.py:84`), but the row of another UE of that time may still be
  unwritten (`oran-data-repository-sqlite.cc:313`), and `db.py:99` then takes the older
  one. So a cell that this UE entered within the last report interval counts as
  drained, and is put to sleep although `mitigate_actions` means to prevent it
  (`a1gent/orchestrator.py:133`). `DrainedWhenPutToSleep` states the bound that remains:
  one interval. The same happens to the first row of a UE, as long as the warm-up
  accepts a snapshot without it.
* The inference of sleeping cells scans a limited number of newest rows of the log
  (`a1gent/common/db.py:536`): enough other commands hide the sleep of a cell.

## 6. Not modelled

Query triggers (any report may trigger a query); how the built-in LMs choose a
cell (real-valued geometry, radio measurements and neural networks); what the
measurement reporters put into a report; SQL beyond the registration, cell
information and power-log queries; the QoE agent, which cells and
UEs the load agent selects, and the metrics
of the snapshot; the radio bearers, component carriers and data path of the UE's RRC;
the eNB's RRC, which is external to `HandoverSteering` and `UeRrc`.
`PROJECT.json` lists each with its reason. Scripts, examples, offline analysis, the
LLM client and the vendored JSON parser hold no state of the system.

Half of the repository's lines are the vendored parser (`oran/json.hpp`), and most of
the rest are examples, helpers, analysis, SQL text and getters. The definitions
stand for the code that decides something: of the files with control logic, nearly
every handler.

## 7. What could follow

1. The handovers of the QoE and load agents with their cool-downs, composed with
   `HandoverSteering`, so that their guards are judged against stale rows.
2. The remaining report tables of the repository and the look-ups of the snapshot,
   as far as a stale row changes a decision of an agent.
3. More than one carrier in `UeMeasurements`, and the eNB's side of handovers
   (`lte-enb-rrc.cc`), so that what `HandoverSteering` assumes of it becomes checked.
4. Proofs: `E2Registration` moved onto `EventList`, whose lemmas it would then share
   with `ReportFlow`.
