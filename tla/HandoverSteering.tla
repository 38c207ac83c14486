-------------------------- MODULE HandoverSteering --------------------------
(***************************************************************************)
(* A handover ordered by a Logic Module, from the report it rests on to    *)
(* the UE that moves: cell information reports and table lteuecell of the  *)
(* repository (oran-reporter-lte-ue-cell-info.cc,                          *)
(* oran-data-repository-sqlite.cc), the Logic Modules that compare cells   *)
(* (oran-lm-lte-2-lte-rsrp-handover.cc and its siblings), the conflict     *)
(* mitigation modules (oran-cmm-*.cc), the commands under way              *)
(* (oran-near-rt-ric-e2terminator.cc) and the eNB that executes them       *)
(* (oran-e2-node-terminator-lte-enb.cc).                                   *)
(*                                                                         *)
(* What a Logic Module knows of a UE is the newest row of its table, which *)
(* may be older than the last handover.  The commands it is answered with  *)
(* name the UE by an RNTI of the cell it was in.                           *)
(*                                                                         *)
(* The RRC of the eNBs is outside this code.  An eNB never gives an RNTI a *)
(* second time, so a row is named by its UE and its place in the history   *)
(* of the UE's cells (trail), and so is the RNTI in it.  eNBs are          *)
(* registered and known to the repository throughout.                      *)
(***************************************************************************)
EXTENDS Naturals, Sequences

CONSTANTS
  Ue,           \* the UEs, ordered by their E2 node identifiers
  Cell,         \* the cells, each with the E2 node of its eNB
  Lm,           \* the Logic Modules, ordered by their names
  DefaultLm,    \* the default Logic Module
  Setups,       \* the set-ups considered
  MaxChanges,   \* bound: how often the strongest cell of a UE changes
  MaxFailures,  \* bound: handovers refused or failed, and links lost
  MaxHandovers  \* bound: handovers that an eNB starts on its own

ASSUME UeAssumption == Ue \subseteq Nat \ {0} /\ Cell \subseteq Nat \ {0}
ASSUME LmAssumption == Lm \subseteq Nat /\ DefaultLm \in Lm

(***************************************************************************)
(* A set-up: the UEs and cells that take part, the conflict mitigation     *)
(* module, the Logic Modules deployed, the report trigger of the cell      *)
(* information, and what may happen:                                       *)
(*   timely:  the query interval is longer than it takes to execute a      *)
(*            command and to report the result;                            *)
(*   prompt:  an eNB has done its part of a connection or a handover       *)
(*            before the report of the UE is in the repository;            *)
(*   settled: the strongest cell of a UE never changes;                    *)
(*   refuses: an eNB may refuse a handover (it lacks a preamble, say);     *)
(*   loses:   a connected UE may lose its link;                            *)
(*   moves:   eNBs have a handover algorithm of their own;                 *)
(*   places:  bound: no query once a UE has been in that many places.      *)
(* Only rows with an RNTI are looked up by the filter "single".            *)
(***************************************************************************)
ASSUME SetupAssumption ==
  /\ Setups \subseteq [ues: SUBSET Ue, cells: (SUBSET Cell) \ {{}},
                       cmm: {"noop", "single", "handover"}, lms: (SUBSET Lm) \ {{}},
                       trigger: {"periodic", "handover"},
                       timely: BOOLEAN, prompt: BOOLEAN, settled: BOOLEAN,
                       refuses: BOOLEAN, loses: BOOLEAN, moves: BOOLEAN, places: Nat]
  /\ \A s \in Setups : s.cmm = "single" => s.trigger = "handover"

VARIABLES
  setup,       \* the set-up, chosen once
  trail,       \* the places of the RRC of each UE, newest last
  phase,       \* what the RRC of each UE and its eNB are doing
  strongest,   \* the cell each Logic Module's data favour, for each UE
  reports,     \* cell information reports under way, as <<UE, place in trail>>
  saved,       \* table lteuecell: for each UE the places of its rows
  running,     \* m_commands of the Logic Modules that are running
  collected,   \* m_lmQueryCommands
  pendingCmds, \* m_pendingCmds of OranCmmHandover
  sent,        \* commands on the way to an eNB
  fatal,       \* an eNB was given a command it cannot execute
  spent        \* how much of the three bounds is used

radioVars == <<trail, phase>>
ricVars == <<running, collected, pendingCmds>>
steeringVars == <<setup, radioVars, strongest, reports, saved, ricVars, sent, fatal, spent>>

\* A place: a cell (0: none), and whether the UE has an RNTI there.
Places == [cell: Cell \cup {0}, named: BOOLEAN]

\* A UE is idle, camped on a cell, or known to the eNB; while it is attaching
\* or completing a handover it has done its part and the eNB has not.
Phases == {"idle", "camped", "attaching", "connected", "handover", "completing"}

\* The newest place of UE u, which names its RNTI, and its cell.
Rnti(u) == Len(trail[u])
CellAt(u, place) == trail[u][place].cell
CellOf(u) == CellAt(u, Rnti(u))

Commands == [lm: Lm, ue: Ue, node: Cell \cup {0}, rnti: Nat, to: Cell]

\* Every variable has its type; rows and reports are of places in the trail.
TypeOK ==
  /\ setup \in Setups
  /\ trail \in [Ue -> Seq(Places)]
  /\ \A u \in Ue : trail[u] # <<>>
  /\ phase \in [Ue -> Phases]
  /\ strongest \in [Lm -> [Ue -> Cell]]
  /\ reports \subseteq {r \in Ue \X Nat : r[2] \in DOMAIN trail[r[1]]}
  /\ saved \in [Ue -> SUBSET Nat]
  /\ \A u \in Ue : saved[u] \subseteq DOMAIN trail[u]
  /\ DOMAIN running \subseteq setup.lms /\ DOMAIN collected \subseteq setup.lms
  /\ \A l \in DOMAIN running : running[l] \subseteq Commands
  /\ \A l \in DOMAIN collected : collected[l] \subseteq Commands
  /\ pendingCmds \subseteq Commands
  /\ sent \subseteq Commands
  /\ fatal \in BOOLEAN
  /\ spent \in [changes: Nat, failures: Nat, handovers: Nat]

None == [l \in {} |-> {}]

Init ==
  /\ setup \in Setups
  /\ trail = [u \in Ue |-> <<[cell |-> 0, named |-> FALSE]>>]
  /\ phase = [u \in Ue |-> "idle"]
  /\ strongest \in [Lm -> [Ue -> setup.cells]]
  /\ \A l \in Lm, u \in Ue :
       (l \in setup.lms /\ u \in setup.ues) \/ strongest[l][u] = CHOOSE c \in setup.cells : TRUE
  /\ reports = {}
  /\ saved = [u \in Ue |-> {}]
  /\ running = None
  /\ collected = None
  /\ pendingCmds = {}
  /\ sent = {}
  /\ fatal = FALSE
  /\ spent = [changes |-> 0, failures |-> 0, handovers |-> 0]

Spend(what, bound) == spent[what] < bound /\ spent' = [spent EXCEPT ![what] = @ + 1]

-----------------------------------------------------------------------------
(***************************************************************************)
(* The UEs.                                                                *)
(***************************************************************************)

\* UE u is now in cell c, or in none (0), with an RNTI or without.
Enter(u, c, named) == trail' = [trail EXCEPT ![u] = Append(@, [cell |-> c, named |-> named])]
Becomes(u, p) == phase' = [phase EXCEPT ![u] = p]

\* ConnectionEstablished and HandoverEndOk of the UE: a report is triggered by
\* the handover trigger.
Triggered(u, place) ==
  reports' = IF setup.trigger = "handover" THEN reports \cup {<<u, place>>} ELSE reports

\* An idle UE camps on cell c.
Camp(u, c) ==
  /\ phase[u] = "idle"
  /\ Enter(u, c, FALSE)
  /\ Becomes(u, "camped")
  /\ UNCHANGED <<setup, strongest, reports, saved, ricVars, sent, fatal, spent>>

\* A camped UE connects: it has an RNTI now.
Connect(u) ==
  /\ phase[u] = "camped"
  /\ Enter(u, CellOf(u), TRUE)
  /\ Becomes(u, "attaching")
  /\ Triggered(u, Rnti(u) + 1)
  /\ UNCHANGED <<setup, strongest, saved, ricVars, sent, fatal, spent>>

\* The eNB learns that UE u is connected.
ConnectionEstablished(u) ==
  /\ phase[u] = "attaching"
  /\ Becomes(u, "connected")
  /\ UNCHANGED <<setup, trail, strongest, reports, saved, ricVars, sent, fatal, spent>>

\* A connected UE loses its link.
LoseLink(u) ==
  /\ setup.loses
  /\ phase[u] = "connected"
  /\ Enter(u, 0, FALSE)
  /\ Becomes(u, "idle")
  /\ Spend("failures", MaxFailures)
  /\ UNCHANGED <<setup, strongest, reports, saved, ricVars, sent, fatal>>

\* The UE is told to move to cell c, where it has a new RNTI from then on.
StartHandover(u, c) == Enter(u, c, TRUE) /\ Becomes(u, "handover")

\* The algorithm of the eNB starts a handover.
EnbHandover(u, c) ==
  /\ setup.moves
  /\ phase[u] = "connected" /\ c # CellOf(u)
  /\ StartHandover(u, c)
  /\ Spend("handovers", MaxHandovers)
  /\ UNCHANGED <<setup, strongest, reports, saved, ricVars, sent, fatal>>

\* UE u reaches the cell it was handed over to.
HandoverEndOk(u) ==
  /\ phase[u] = "handover"
  /\ Becomes(u, "completing")
  /\ Triggered(u, Rnti(u))
  /\ UNCHANGED <<setup, trail, strongest, saved, ricVars, sent, fatal, spent>>

\* The eNB of that cell completes the handover.
CompleteHandover(u) ==
  /\ phase[u] = "completing"
  /\ Becomes(u, "connected")
  /\ UNCHANGED <<setup, trail, strongest, reports, saved, ricVars, sent, fatal, spent>>

\* The handover of UE u fails: it is in no cell.
HandoverEndError(u) ==
  /\ phase[u] = "handover"
  /\ Enter(u, 0, FALSE)
  /\ Becomes(u, "idle")
  /\ Spend("failures", MaxFailures)
  /\ UNCHANGED <<setup, strongest, reports, saved, ricVars, sent, fatal>>

\* GenerateReports on a periodic trigger, whatever the UE is doing.  A second
\* report of one place adds nothing.
PeriodicReport(u) ==
  /\ setup.trigger = "periodic"
  /\ <<u, Rnti(u)>> \notin reports /\ Rnti(u) \notin saved[u]
  /\ reports' = reports \cup {<<u, Rnti(u)>>}
  /\ UNCHANGED <<setup, radioVars, strongest, saved, ricVars, sent, fatal, spent>>

\* ReceiveReport and SaveLteUeCellInfo; reports overtake each other.
SaveLteUeCellInfo(r) ==
  /\ r \in reports
  /\ setup.prompt => phase[r[1]] \notin {"attaching", "completing"}
  /\ reports' = reports \ {r}
  /\ saved' = [saved EXCEPT ![r[1]] = @ \cup {r[2]}]
  /\ UNCHANGED <<setup, radioVars, strongest, ricVars, sent, fatal, spent>>

\* The measurements or positions in the repository favour another cell.
Measure(l, u, c) ==
  /\ ~setup.settled
  /\ c # strongest[l][u]
  /\ strongest' = [strongest EXCEPT ![l][u] = c]
  /\ Spend("changes", MaxChanges)
  /\ UNCHANGED <<setup, radioVars, reports, saved, ricVars, sent, fatal>>

-----------------------------------------------------------------------------
(***************************************************************************)
(* The Near-RT RIC: query, hand-over, conflict mitigation.                 *)
(***************************************************************************)

\* Mutant of Newest: the rows are sorted the other way round.
MutOldest(u) == CHOOSE n \in saved[u] : \A m \in saved[u] : n <= m

\* GetLteUeCellInfo: the newest row of UE u, by the time of the report.
Newest(u) == CHOOSE n \in saved[u] : \A m \in saved[u] : m <= n

\* The node a command for UE u is sent to: the eNB of the cell in its row.
\* There is none for a UE that reported to be in no cell; oldCellNodeId is
\* then read uninitialized (wild; 0 stands for a number that names no node).
OldCellNode(u, wild) ==
  LET cell == CellAt(u, Newest(u)) IN IF cell = 0 THEN wild[u] ELSE cell

\* GetHandoverCommands of Logic Module l.
HandoverCommands(l, wild) ==
  {[lm |-> l, ue |-> u, node |-> OldCellNode(u, wild), to |-> strongest[l][u],
    rnti |-> IF trail[u][Newest(u)].named THEN Newest(u) ELSE 0] :
     u \in {v \in setup.ues : saved[v] # {} /\ strongest[l][v] # CellAt(v, Newest(v))}}

\* Nothing is under way and every UE is where its newest row says.
Quiet ==
  /\ reports = {} /\ sent = {}
  /\ \A u \in setup.ues : phase[u] = "connected" /\ saved[u] # {} /\ Newest(u) = Rnti(u)
  /\ DOMAIN running = {} /\ DOMAIN collected = {}

\* QueryLms: every run in progress is cancelled and every module runs again.
QueryLms ==
  /\ setup.timely => Quiet
  /\ \A u \in Ue : Rnti(u) < setup.places
  /\ \E wild \in [Ue -> setup.cells \cup {0}] :
       running' = [l \in setup.lms |-> HandoverCommands(l, wild)]
  /\ UNCHANGED <<setup, radioVars, strongest, reports, saved, collected, pendingCmds,
                 sent, fatal, spent>>

\* The same order to the same eNB.
SameOrder(c, d) ==
  /\ c.node = d.node /\ c.to = d.to /\ c.rnti = d.rnti
  /\ c.rnti # 0 => c.ue = d.ue

\* The order in which Filter meets the commands: by name of the module, then
\* as the module issued them.
Before(c, d) == c.lm < d.lm \/ (c.lm = d.lm /\ c.ue < d.ue)

\* Mutant of Excluded: only the commands of this set are compared.
MutForgetful(c, all) == \E d \in all : Before(d, c) /\ SameOrder(d, c)

\* OranCmmHandover: the same order was let through before.
Excluded(c, all) ==
  \/ \E d \in pendingCmds : SameOrder(c, d)
  \/ \E d \in all : Before(d, c) /\ SameOrder(d, c)

\* Mutant of AffectedNode: the eNB is taken for the node affected.
MutTargetNode(c) == c.to

\* OranCmmSingleCommandPerNode: the UE of a handover, found by cell and RNTI; 0
\* if there is no such row.
AffectedNode(c) == IF c.rnti # 0 /\ CellAt(c.ue, c.rnti) = c.node THEN c.ue ELSE 0

\* Command d is selected instead of c: the default module's comes first, else
\* the one met first.
Precedes(d, c) ==
  \/ d.lm = DefaultLm /\ c.lm # DefaultLm
  \/ (d.lm = DefaultLm <=> c.lm = DefaultLm) /\ Before(d, c)

\* Filter of the conflict mitigation module.
Filter(all) ==
  CASE setup.cmm = "noop" -> all
    [] setup.cmm = "single" ->
         {c \in all : ~\E d \in all : AffectedNode(d) = AffectedNode(c) /\ Precedes(d, c)}
    [] setup.cmm = "handover" -> {c \in all : ~Excluded(c, all)}

\* ProcessLmQueryCommands once every module answered: filter and send.
ProcessLmQueryCommands(batches) ==
  LET passed == Filter(UNION {batches[l] : l \in setup.lms})
  IN /\ sent' = sent \cup passed
     /\ pendingCmds' = IF setup.cmm = "handover" THEN pendingCmds \cup passed ELSE pendingCmds
     /\ collected' = None

\* FinishRun and NotifyLmFinished without a wait time.
FinishRun(l) ==
  /\ l \in DOMAIN running
  /\ running' = [k \in DOMAIN running \ {l} |-> running[k]]
  /\ LET batches == [k \in DOMAIN collected \cup {l} |->
                       IF k = l THEN running[l] ELSE collected[k]]
     IN \/ DOMAIN batches = setup.lms /\ ProcessLmQueryCommands(batches)
        \/ /\ DOMAIN batches # setup.lms
           /\ collected' = batches
           /\ UNCHANGED <<sent, pendingCmds>>
  /\ UNCHANGED <<setup, radioVars, strongest, reports, saved, fatal, spent>>

-----------------------------------------------------------------------------
(***************************************************************************)
(* ReceiveCommand at the eNB: SendHandoverRequest.                         *)
(***************************************************************************)

\* The eNB addressed serves a UE with this RNTI that is not being handed over.
Executable(c) ==
  c.rnti # 0 /\ c.rnti = Rnti(c.ue) /\ c.node = CellOf(c.ue) /\ phase[c.ue] = "connected"

AcceptCommand(c) ==
  /\ c \in sent /\ Executable(c)
  /\ sent' = sent \ {c}
  /\ StartHandover(c.ue, c.to)
  /\ UNCHANGED <<setup, strongest, reports, saved, ricVars, fatal, spent>>

\* The target cell does not admit the UE, which stays.
RefuseCommand(c) ==
  /\ setup.refuses
  /\ c \in sent /\ Executable(c)
  /\ sent' = sent \ {c}
  /\ Spend("failures", MaxFailures)
  /\ UNCHANGED <<setup, radioVars, strongest, reports, saved, ricVars, fatal>>

\* There is no such terminator, no such RNTI, or the UE is not in a state to be
\* handed over: the simulation ends.
FailCommand(c) ==
  /\ c \in sent /\ ~Executable(c)
  /\ sent' = sent \ {c}
  /\ fatal' = TRUE
  /\ UNCHANGED <<setup, radioVars, strongest, reports, saved, ricVars, spent>>

-----------------------------------------------------------------------------

UeStep(u) ==
  \/ Connect(u) \/ ConnectionEstablished(u) \/ LoseLink(u) \/ PeriodicReport(u)
  \/ HandoverEndOk(u) \/ CompleteHandover(u) \/ HandoverEndError(u)
  \/ \E c \in setup.cells : Camp(u, c) \/ EnbHandover(u, c)

RicStep ==
  \/ QueryLms
  \/ \E l \in setup.lms : FinishRun(l)
  \/ \E r \in reports : SaveLteUeCellInfo(r)

CommandArrives(c) == AcceptCommand(c) \/ RefuseCommand(c) \/ FailCommand(c)

SteeringNext ==
  /\ ~fatal
  /\ \/ \E u \in setup.ues : UeStep(u)
     \/ \E l \in setup.lms, u \in setup.ues, c \in setup.cells : Measure(l, u, c)
     \/ RicStep
     \/ \E c \in sent : CommandArrives(c)

Spec == Init /\ [][SteeringNext]_steeringVars

-----------------------------------------------------------------------------
(***************************************************************************)
(* Properties.                                                             *)
(***************************************************************************)

\* Set-ups with a single Logic Module.
OneLm(s) == \E l \in Lm : s.lms = {l}

\* Set-ups in which UEs move by order only.
ByOrderOnly(s) == ~s.loses /\ ~s.moves

\* Set-ups with one Logic Module whose data do not change, and the handover
\* filter: however late reports are, the orders that an old row leads to are
\* those given before.
OneMind(s) ==
  /\ ByOrderOnly(s) /\ OneLm(s) /\ s.settled
  /\ s.cmm = "handover" /\ s.trigger = "handover" /\ s.prompt

\* Set-ups with a query interval that is long enough, and one order at a time
\* for each UE.
OneAtATime(s) == ByOrderOnly(s) /\ s.timely /\ (OneLm(s) \/ s.cmm = "single")

\* No eNB is given a command for a UE that has left it or is being handed over:
\* with one order per UE and time to report the result, or with an unchanging
\* choice and the handover filter even when reports arrive late
\* (oran-cmm-handover.cc:107, oran-cmm-single-command-per-node.cc:85,
\* oran-e2-node-terminator-lte-enb.cc:83).
CommandsMeetTheirUe == OneMind(setup) \/ OneAtATime(setup) => ~fatal

\* A UE that is where all Logic Modules want it.
Placed(u) == phase[u] = "connected" /\ \A l \in setup.lms : strongest[l][u] = CellOf(u)

\* Where each order is given until it succeeds, every UE ends up in its
\* strongest cell and stays: with one Logic Module and no filter as long as
\* queries are timely; with the handover filter as long as no eNB refuses, for
\* a refused order is never repeated (oran-cmm-handover.cc:107).
Persistent(s) ==
  /\ ByOrderOnly(s) /\ OneLm(s)
  /\ \/ s.timely /\ s.cmm # "handover"
     \/ OneMind(s) /\ ~s.refuses
EndsUpInStrongestCell == Persistent(setup) => <>[](\A u \in setup.ues : Placed(u))
=============================================================================
