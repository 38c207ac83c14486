---------------------------- MODULE LmQueryCycle ----------------------------
(***************************************************************************)
(* The Logic Module query cycle of the Near-RT RIC: OranNearRtRic          *)
(* (ns3/contrib/oran/model/oran-near-rt-ric.cc) together with the run life *)
(* cycle of every OranLm (oran-lm.cc).                                     *)
(*                                                                         *)
(* The RIC queries its Logic Modules (LMs) periodically, or when a report  *)
(* matches a query trigger.  Each LM answers after a processing delay; the *)
(* RIC collects the answers and hands them to the conflict mitigation      *)
(* module when all LMs answered or when a maximum wait time is over.       *)
(*                                                                         *)
(* The commands one LM produces in one run are a single opaque batch.      *)
(* Time is ns-3's: a discrete clock; events scheduled for the same instant *)
(* fire in the order in which they were scheduled.  A pending EventId is   *)
(* the set holding its due time, an expired or cancelled one is {}.        *)
(***************************************************************************)
EXTENDS Integers, FiniteSets

CONSTANTS
  LM,           \* the OranLm objects
  FirstDefault, \* the LM deployed as default at start-up
  Setups        \* the set-ups considered

(***************************************************************************)
(* A set-up: the configuration of the RIC, what happens to it, and bounds: *)
(*   lms:        the LMs there are;                                        *)
(*   additional: the additional LMs deployed at start-up;                  *)
(*   interval:   m_lmQueryInterval;                                        *)
(*   maxWait:    m_lmQueryMaxWaitTime; 0 means no limit;                   *)
(*   delays:     the values m_processingDelayRv can yield;                 *)
(*   policy:     m_lmQueryLateCommandPolicy;                               *)
(*   triggers:   reports may match a query trigger;                        *)
(*   restarts:   the RIC may be stopped, started again, activated and      *)
(*               deactivated;                                              *)
(*   redeploys:  LMs may be added, removed and replaced;                   *)
(*   maxTime:    bound: the simulation stops at this instant;              *)
(*   maxQueries: bound: calls of QueryLms.                                 *)
(***************************************************************************)
ASSUME SetupAssumption ==
  /\ IsFiniteSet(LM) /\ FirstDefault \in LM
  /\ Setups \subseteq [lms: SUBSET LM, additional: SUBSET (LM \ {FirstDefault}),
                       interval: Nat \ {0}, maxWait: Nat, delays: SUBSET Nat,
                       policy: {"DROP", "SAVE"}, triggers: BOOLEAN, restarts: BOOLEAN,
                       redeploys: BOOLEAN, maxTime: Nat, maxQueries: Nat]

VARIABLES
  setup,       \* the set-up, chosen once
  now,         \* Simulator::Now()
  aborted,     \* an NS_ABORT_MSG was reached: the process is gone
  active,      \* OranNearRtRic::m_active
  default,     \* m_defaultLm
  additional,  \* m_additionalLms
  queryEvent,  \* m_lmQueryEvent
  cycle,       \* m_lmQueryCycle
  deadline,    \* m_processLmQueryCommandsEvent
  orphans,     \* deadlines whose EventId was overwritten: nobody can cancel them
  reported,    \* the keys of m_lmQueryCommands
  collected,   \* the vectors of m_lmQueryCommands ({} for an absent key)
  lmActive,    \* OranLm::m_active
  finish,      \* OranLm::m_finishRunEvent
  runCycle,    \* OranLm::m_cycle
  held,        \* OranLm::m_commands
  queries,     \* history: how often QueryLms ran
  sent         \* history: the batches given to the CMM and the E2 terminator

ricVars == <<active, default, additional, queryEvent, cycle>>
collectVars == <<deadline, reported, collected, sent>>
lmVars == <<lmActive, finish, runCycle, held>>
vars == <<setup, now, aborted, ricVars, collectVars, orphans, lmVars, queries>>

Interval == setup.interval
MaxWait == setup.maxWait
Delays == setup.delays
LatePolicy == setup.policy

Batch == [lm : LM, query : Nat, cycle : Nat]
Key == LM \X BOOLEAN
Deployed == additional \cup {default}
KeyOf(l) == <<l, l = default>>
NothingCollected == [k \in Key |-> {}]
AllCollected(c) == UNION {c[k] : k \in Key}

\* Every variable has its type, and a vector is only kept under a key that
\* is present (m_lmQueryCommands is one map, split here in two variables).
TypeOK ==
  /\ setup \in Setups
  /\ now \in Nat
  /\ aborted \in BOOLEAN
  /\ active \in BOOLEAN
  /\ default \in LM
  /\ additional \subseteq LM
  /\ queryEvent \subseteq Nat
  /\ cycle \in Nat
  /\ deadline \subseteq Nat
  /\ orphans \subseteq Nat
  /\ reported \subseteq Key
  /\ collected \in [Key -> SUBSET Batch]
  /\ \A k \in Key \ reported : collected[k] = {}
  /\ lmActive \in [LM -> BOOLEAN]
  /\ finish \in [LM -> SUBSET Nat]
  /\ runCycle \in [LM -> Nat]
  /\ held \in [LM -> SUBSET Batch]
  /\ queries \in Nat
  /\ sent \subseteq Batch

Init ==
  /\ setup \in Setups
  /\ now = 0
  /\ aborted = FALSE
  /\ active = FALSE
  /\ default = FirstDefault
  /\ additional = setup.additional
  /\ queryEvent = {}
  /\ cycle = 0
  /\ deadline = {}
  /\ orphans = {}
  /\ reported = {}
  /\ collected = NothingCollected
  /\ lmActive = [l \in LM |-> FALSE]
  /\ finish = [l \in LM |-> {}]
  /\ runCycle = [l \in LM |-> 0]
  /\ held = [l \in LM |-> {}]
  /\ queries = 0
  /\ sent = {}

-----------------------------------------------------------------------------
(***************************************************************************)
(* The event list.  An event due now is the pair of the instant at which   *)
(* it was scheduled and its position among the events of one QueryLms      *)
(* call, which schedules the deadline first, then the runs, then the next  *)
(* query.  Runs scheduled at the same instant may end in any order.        *)
(***************************************************************************)

DeadlineRank == 0
RunRank == 1
QueryRank == 2

Due ==
  {<<now - MaxWait, DeadlineRank>> : t \in {now} \cap (deadline \cup orphans)}
    \cup {<<runCycle[l], RunRank>> : l \in {m \in LM : now \in finish[m]}}
    \cup {<<now - Interval, QueryRank>> : t \in {now} \cap queryEvent}

\* The event scheduled at instant born, with this rank, is the next to fire.
Turn(born, rank) ==
  \A e \in Due : born < e[1] \/ (born = e[1] /\ rank <= e[2])

Tick ==
  /\ Due = {}
  /\ now < setup.maxTime
  /\ now' = now + 1
  /\ UNCHANGED <<aborted, ricVars, collectVars, orphans, lmVars, queries>>

-----------------------------------------------------------------------------
(***************************************************************************)
(* Handing the collected commands over.                                    *)
(***************************************************************************)

\* Mutant of ClearCommands: the vectors are kept.
MutKeysOnlyCleared == reported' = {} /\ UNCHANGED collected

ClearCommands ==
  /\ reported' = {}
  /\ collected' = NothingCollected

\* ProcessLmQueryCommands, entered with the keys r and the vectors c.
ProcessLmQueryCommands(r, c) ==
  IF active
    THEN /\ deadline' = {}
         /\ sent' = sent \cup AllCollected(c)
         /\ ClearCommands
    ELSE /\ reported' = r
         /\ collected' = c
         /\ UNCHANGED <<deadline, sent>>

\* The RIC still accepts commands for the current cycle.
Accepting == deadline # {} \/ MaxWait = 0

\* Mutant of Complete: the default LM is not counted.
MutDefaultNotCounted(r) == Cardinality(r) = Cardinality(additional)

\* Every deployed LM is counted as having answered.
Complete(r) == Cardinality(r) = Cardinality(additional) + 1

\* NotifyLmFinished: a second answer under one key replaces the first one.
NotifyLmFinished(l) ==
  LET kept == Accepting \/ LatePolicy = "SAVE"
      r == IF kept THEN reported \cup {KeyOf(l)} ELSE reported
      c == [collected EXCEPT ![KeyOf(l)] = IF kept THEN held[l] ELSE {}]
  IN \/ /\ runCycle[l] # cycle
        /\ aborted' = TRUE
        /\ UNCHANGED collectVars
     \/ /\ runCycle[l] = cycle
        /\ Accepting /\ Complete(r)
        /\ ProcessLmQueryCommands(r, c)
        /\ UNCHANGED aborted
     \/ /\ runCycle[l] = cycle
        /\ ~(Accepting /\ Complete(r))
        /\ reported' = r
        /\ collected' = c
        /\ UNCHANGED <<aborted, deadline, sent>>

\* OranLm::FinishRun of LM l, fired by the event of its run.
FinishRun(l) ==
  /\ ~aborted
  /\ now \in finish[l]
  /\ Turn(runCycle[l], RunRank)
  /\ finish' = [finish EXCEPT ![l] = {}]
  /\ \/ /\ lmActive[l]
        /\ NotifyLmFinished(l)
        /\ held' = [held EXCEPT ![l] = {}]
     \/ /\ ~lmActive[l]
        /\ UNCHANGED <<aborted, collectVars, held>>
  /\ UNCHANGED <<now, ricVars, orphans, lmActive, runCycle, queries>>

\* The deadline of the current cycle.
DeadlineExpires ==
  /\ ~aborted
  /\ now \in deadline /\ now \notin orphans
  /\ Turn(now - MaxWait, DeadlineRank)
  /\ IF active
       THEN ProcessLmQueryCommands(reported, collected)
       ELSE /\ deadline' = {}
            /\ UNCHANGED <<reported, collected, sent>>
  /\ UNCHANGED <<now, aborted, ricVars, orphans, lmVars, queries>>

\* A deadline of an earlier query that was overwritten, not cancelled.
OrphanDeadlineExpires ==
  /\ ~aborted
  /\ now \in orphans
  /\ Turn(now - MaxWait, DeadlineRank)
  /\ orphans' = orphans \ {now}
  /\ ProcessLmQueryCommands(reported, collected)
  /\ UNCHANGED <<now, aborted, ricVars, lmVars, queries>>

-----------------------------------------------------------------------------
(***************************************************************************)
(* Querying the LMs.                                                       *)
(***************************************************************************)

\* Mutant of Queried: a running LM is left running.
MutRunningLeftAlone == {l \in Deployed : lmActive[l] /\ finish[l] = {}}

\* The deployed LMs that QueryLms cancels (if running) and runs again.  An
\* inactive LM ignores both calls.
Queried == {l \in Deployed : lmActive[l]}

\* Mutant of ScheduleDeadline: the pending deadline is cancelled.
MutDeadlineRestarted ==
  /\ deadline' = {now + MaxWait}
  /\ UNCHANGED orphans

\* The EventId of a pending deadline is overwritten, the deadline itself
\* stays in the event list.
ScheduleDeadline ==
  IF MaxWait > 0
    THEN /\ orphans' = orphans \cup deadline
         /\ deadline' = {now + MaxWait}
    ELSE UNCHANGED <<orphans, deadline>>

\* The body of QueryLms in an active RIC; d is the delay each LM draws.
\* CheckForInactivity, which it also calls, is in module E2Registration.
QueryLms(d) ==
  /\ active
  /\ queries < setup.maxQueries
  /\ queries' = queries + 1
  /\ cycle' = now
  /\ ScheduleDeadline
  /\ finish' = [l \in LM |-> IF l \in Queried THEN {now + d[l]} ELSE finish[l]]
  /\ runCycle' = [l \in LM |-> IF l \in Queried THEN now ELSE runCycle[l]]
  /\ held' = [l \in LM |-> IF l \in Queried
                             THEN {[lm |-> l, query |-> queries + 1, cycle |-> now]}
                             ELSE held[l]]
  /\ queryEvent' = {now + Interval}
  /\ UNCHANGED <<now, aborted, active, default, additional,
                 reported, collected, sent, lmActive>>

\* The periodic query.
QueryTimerFires ==
  /\ ~aborted
  /\ now \in queryEvent
  /\ Turn(now - Interval, QueryRank)
  /\ \/ \E d \in [LM -> Delays] : QueryLms(d)
     \/ /\ ~active
        /\ queryEvent' = {}
        /\ UNCHANGED <<now, aborted, active, default, additional, cycle,
                       collectVars, orphans, lmVars, queries>>

\* NotifyReportReceived for a report that a query trigger matches: the
\* pending periodic query is cancelled (QueryLms schedules the next one).
\* A report no trigger matches changes nothing here.
NotifyReportReceived ==
  /\ ~aborted
  /\ active
  /\ \E d \in [LM -> Delays] : QueryLms(d)

-----------------------------------------------------------------------------
(***************************************************************************)
(* Starting, stopping and reconfiguring the RIC.                           *)
(***************************************************************************)

ActivateComponents ==
  /\ active' = TRUE
  /\ lmActive' = [l \in LM |-> lmActive[l] \/ (~active /\ l \in Deployed)]

\* OranLm::Deactivate clears m_active before it calls CancelRun, which
\* needs m_active: a running LM keeps its event and its commands.
DeactivateComponents ==
  /\ active' = FALSE
  /\ lmActive' = [l \in LM |-> lmActive[l] /\ ~(active /\ l \in Deployed)]

\* Callers start a RIC only when no query is pending (otherwise it aborts).
Start ==
  /\ ~aborted
  /\ queryEvent = {}
  /\ ActivateComponents
  /\ queryEvent' = {now + Interval}
  /\ UNCHANGED <<now, aborted, default, additional, cycle, collectVars, orphans,
                 finish, runCycle, held, queries>>

Stop ==
  /\ ~aborted
  /\ DeactivateComponents
  /\ queryEvent' = {}
  /\ deadline' = {}
  /\ UNCHANGED <<now, aborted, default, additional, cycle, reported, collected,
                 sent, orphans, finish, runCycle, held, queries>>

Activate ==
  /\ ~aborted
  /\ ActivateComponents
  /\ UNCHANGED <<now, aborted, default, additional, queryEvent, cycle,
                 collectVars, orphans, finish, runCycle, held, queries>>

Deactivate ==
  /\ ~aborted
  /\ DeactivateComponents
  /\ UNCHANGED <<now, aborted, default, additional, queryEvent, cycle,
                 collectVars, orphans, finish, runCycle, held, queries>>

\* The RIC does not activate an LM it is given; the caller may have.
MayBeActivated(l) ==
  \E a \in {lmActive[l], TRUE} : lmActive' = [lmActive EXCEPT ![l] = a]

AddLogicModule(l) ==
  /\ ~aborted
  /\ l \notin Deployed
  /\ additional' = additional \cup {l}
  /\ MayBeActivated(l)
  /\ UNCHANGED <<now, aborted, active, default, queryEvent, cycle, collectVars,
                 orphans, finish, runCycle, held, queries>>

\* Neither the run nor the commands of the removed LM are cancelled.
RemoveLogicModule(l) ==
  /\ ~aborted
  /\ l \in additional
  /\ additional' = additional \ {l}
  /\ UNCHANGED <<now, aborted, active, default, queryEvent, cycle, collectVars,
                 orphans, lmVars, queries>>

SetDefaultLogicModule(l) ==
  /\ ~aborted
  /\ l \notin Deployed
  /\ default' = l
  /\ MayBeActivated(l)
  /\ UNCHANGED <<now, aborted, active, additional, queryEvent, cycle,
                 collectVars, orphans, finish, runCycle, held, queries>>

-----------------------------------------------------------------------------
Next ==
  /\ \/ ~aborted /\ Tick
     \/ Start
     \/ QueryTimerFires
     \/ DeadlineExpires
     \/ OrphanDeadlineExpires
     \/ \E l \in LM : FinishRun(l)
     \/ setup.triggers /\ NotifyReportReceived
     \/ setup.restarts /\ (Stop \/ Activate \/ Deactivate)
     \/ /\ setup.redeploys
        /\ \E l \in setup.lms : \/ AddLogicModule(l)
                                \/ RemoveLogicModule(l)
                                \/ SetDefaultLogicModule(l)
  /\ UNCHANGED setup

Spec == Init /\ [][Next]_vars

-----------------------------------------------------------------------------
(***************************************************************************)
(* Properties.                                                             *)
(***************************************************************************)

\* The batch of LM l's run that is still to be reported.
InFlight(l) == IF finish[l] # {} THEN held[l] ELSE {}

\* As long as the deployed LMs stay the same, no interleaving of queries,
\* answers, deadlines, stops and restarts makes an LM answer for another
\* cycle than the current one, which NotifyLmFinished answers with an abort.
NoAbortIfDeploymentIsFixed == ~setup.redeploys => ~aborted

\* This made inductive: a run in progress belongs to a deployed LM and to
\* the current cycle, because a query reruns every deployed LM, which are all
\* active or all inactive with the RIC.
StaticInv ==
  /\ ~aborted
  /\ \A l \in LM : finish[l] # {} => l \in Deployed /\ runCycle[l] = cycle
  /\ \A l \in Deployed : lmActive[l] = active

\* The commands of one LM never overtake each other and are handed over at
\* most once: for each LM, what was sent is older than what is collected,
\* and that is older than what its run in progress will report.
NeverOvertaken ==
  /\ \A b \in sent, c \in AllCollected(collected) :
        b.lm = c.lm => b.query < c.query
  /\ \A l \in LM : \A c \in InFlight(l) :
        \A b \in sent \cup AllCollected(collected) :
           b.lm = c.lm => b.query < c.query

\* NeverOvertaken made inductive: a run produces commands of its own LM only,
\* and nothing carries a later query than the last one.
OvertakeInv ==
  /\ \A l \in LM : \A b \in held[l] : b.lm = l /\ b.query <= queries
  /\ \A b \in sent \cup AllCollected(collected) : b.query <= queries
  /\ NeverOvertaken

\* A RIC that has a wait time, drops late commands and is neither stopped nor
\* reconfigured.
Punctual ==
  MaxWait # 0 /\ LatePolicy = "DROP" /\ ~setup.restarts /\ ~setup.redeploys

PromptHandover ==
  \A b \in AllCollected(collected) : now <= b.cycle + MaxWait

\* In such a RIC no collected command waits longer than the wait time after
\* the query that asked for it, however many queries are triggered meanwhile:
\* overwriting the EventId of the deadline does not lose the deadline.
PromptWithWaitTime == Punctual => PromptHandover

\* PromptHandover made inductive: the deadline of the query that asked for a
\* collected batch is still in the event list, and no deadline is overdue.
PromptInv ==
  /\ StaticInv
  /\ \A l \in LM : \A b \in InFlight(l) : b.cycle = runCycle[l]
  /\ \A b \in AllCollected(collected) : b.cycle + MaxWait \in deadline \cup orphans
  /\ \A t \in deadline \cup orphans : now <= t /\ active
  /\ \A t \in deadline : t = cycle + MaxWait

\* Without a wait time, whatever is handed over holds a batch of every
\* deployed LM: the size test of NotifyLmFinished stands for "all LMs".
WholeSets ==
  [][MaxWait = 0 /\ ~setup.redeploys /\ sent' # sent =>
       \A l \in Deployed : \E b \in sent' \ sent : b.lm = l]_vars

\* A punctual RIC with periodic queries only, further apart than the wait
\* time, is compared with DocumentedCycle; others map to its initial state.
Compared == Punctual /\ ~setup.triggers /\ MaxWait < Interval

\* The cycle is open exactly while its deadline is pending.
Documented == INSTANCE DocumentedCycle WITH
  deployed <- IF Compared THEN Deployed ELSE {},
  open <- Compared /\ deadline # {},
  query <- IF Compared THEN queries ELSE 0,
  answered <- IF Compared THEN {b.lm : b \in AllCollected(collected)} ELSE {},
  sent <- IF Compared THEN {<<b.lm, b.query>> : b \in sent} ELSE {}

\* Such a RIC keeps the promise of DocumentedCycle: every cycle is closed
\* exactly once, before the next query, and closing it hands over exactly the
\* commands collected in it.
KeepsDocumentedCycle == Documented!Spec
=============================================================================
