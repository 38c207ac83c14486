--------------------------- MODULE E2Registration ---------------------------
(***************************************************************************)
(* Registration of E2 nodes with the Near-RT RIC: OranE2NodeTerminator     *)
(* (oran-e2-node-terminator.cc) on the nodes, OranNearRtRicE2Terminator    *)
(* (oran-near-rt-ric-e2terminator.cc) and the registration tables of       *)
(* OranDataRepositorySqlite on the RIC, and the inactivity check of        *)
(* OranNearRtRic.                                                          *)
(*                                                                         *)
(* Requests and responses travel as simulator events with random delays,   *)
(* so they may overtake each other.  The event list is exact: an event     *)
(* carries the time left until it fires and its rank among the events of   *)
(* the same instant, which fire in the order in which they were scheduled. *)
(*                                                                         *)
(* Reporters and the transmission of reports, which the registration       *)
(* response also starts, are not part of this module.                      *)
(***************************************************************************)
EXTENDS Integers, FiniteSets

CONSTANTS
  Node,    \* the OranE2NodeTerminator objects
  Null,    \* a null Ptr<OranE2NodeTerminator>
  Setups   \* the set-ups considered

(***************************************************************************)
(* A set-up: the configuration of the nodes and of the RIC, what happens   *)
(* to them, and bounds:                                                    *)
(*   mayDeactivate:  the nodes the scenario deactivates;                   *)
(*   ricStops:       the RIC may be stopped, and started again;            *)
(*   txDelays:       the values of a node's m_transmissionDelayRv;         *)
(*   ricDelays:      the values of the RIC's m_transmissionDelayRv;        *)
(*   regIntervals:   the values of m_registrationIntervalRv;               *)
(*   checkIntervals: the values of m_e2NodeInactivityIntervalRv;           *)
(*   threshold:      m_e2NodeInactivityThreshold;                          *)
(*   ageCap:         bound: the ages of registrations are not counted      *)
(*                   further;                                              *)
(*   maxId:          bound: the E2 node IDs the repository hands out;      *)
(*   maxEvents:      bound: no activation or stop with more pending events.*)
(***************************************************************************)
ASSUME SetupAssumption ==
  /\ Null \notin Node
  /\ Setups \subseteq [mayDeactivate: SUBSET Node, ricStops: BOOLEAN,
                       txDelays: SUBSET Nat, ricDelays: SUBSET Nat,
                       regIntervals: SUBSET (Nat \ {0}), checkIntervals: SUBSET (Nat \ {0}),
                       threshold: Nat, ageCap: Nat, maxId: Nat, maxEvents: Nat]
  /\ \A s \in Setups : s.ageCap > s.threshold /\ s.ricDelays # {}

VARIABLES
  setup,       \* the set-up, chosen once
  events,      \* the pending simulator events
  crashed,     \* a method was called on a null terminator
  ricActive,   \* the RIC, its E2 terminator and its repository are active
  nextId,      \* the next AUTOINCREMENT value of table node
  latest,      \* the newest row of table noderegistration for each ID
  terminator,  \* m_nodeTerminators; Null for an absent key
  nodeActive,  \* OranE2NodeTerminator::m_active
  nodeId       \* m_e2NodeId; 0 means not registered

ricVars == <<nextId, latest, terminator>>
nodeVars == <<nodeActive, nodeId>>
vars == <<setup, events, crashed, ricActive, ricVars, nodeVars>>

MayDeactivate == setup.mayDeactivate
TxDelays == setup.txDelays
RicDelays == setup.ricDelays
RegIntervals == setup.regIntervals
CheckIntervals == setup.checkIntervals
Threshold == setup.threshold
AgeCap == setup.ageCap
MaxId == setup.maxId
MaxEvents == setup.maxEvents

Id == 0 .. MaxId
Kind == {"Register", "RegistrationRequest", "RegistrationResponse",
         "DeregistrationRequest", "DeregistrationResponse", "CheckForInactivity"}
Event == [kind : Kind, node : Node \cup {Null}, id : Id, left : Nat, rank : Nat]

\* clash: rows of the same instant disagree on "registered".
Row == [registered : BOOLEAN, age : 0 .. AgeCap, clash : BOOLEAN]

\* Every variable has its type; the events of one instant have the ranks
\* 0, 1, 2, ..., each once; only IDs handed out are in use.
TypeOK ==
  /\ setup \in Setups
  /\ events \subseteq Event
  /\ \A e \in events : e.rank < Cardinality({f \in events : f.left = e.left})
  /\ \A e, f \in events : e.left = f.left /\ e.rank = f.rank => e = f
  /\ crashed \in BOOLEAN
  /\ ricActive \in BOOLEAN
  /\ nextId \in 1 .. MaxId + 1
  /\ latest \in [Id -> Row]
  /\ terminator \in [Id -> Node \cup {Null}]
  /\ nodeActive \in [Node -> BOOLEAN]
  /\ nodeId \in [Node -> 0 .. nextId - 1]

Init ==
  /\ setup \in Setups
  /\ events = {}
  /\ crashed = FALSE
  /\ ricActive = FALSE
  /\ nextId = 1
  /\ latest = [i \in Id |-> [registered |-> FALSE, age |-> AgeCap, clash |-> FALSE]]
  /\ terminator = [i \in Id |-> Null]
  /\ nodeActive = [n \in Node |-> FALSE]
  /\ nodeId = [n \in Node |-> 0]

-----------------------------------------------------------------------------
(***************************************************************************)
(* The event list.                                                         *)
(***************************************************************************)

Pending(E, delay) == Cardinality({e \in E : e.left = delay})

\* Simulator::Schedule: the event list E with one more event.
Schedule(E, delay, kind, n, i) ==
  E \cup {[kind |-> kind, node |-> n, id |-> i,
           left |-> delay, rank |-> Pending(E, delay)]}

\* Event e at another place of the event list.
At(e, left, rank) ==
  [kind |-> e.kind, node |-> e.node, id |-> e.id, left |-> left, rank |-> rank]

\* E without the events in C, which were fired or cancelled.
Without(E, C) ==
  {At(e, e.left, e.rank - Cardinality({c \in C : c.left = e.left /\ c.rank < e.rank}))
     : e \in E \ C}

\* The event that fires next: due, and scheduled before the others due.
Fires(e, kind) ==
  /\ ~crashed
  /\ e.kind = kind /\ e.left = 0 /\ e.rank = 0

Older(row) == [row EXCEPT !.age = IF @ < AgeCap THEN @ + 1 ELSE @]

\* Time passes when nothing is due.
Tick ==
  /\ ~crashed
  /\ \A e \in events : e.left > 0
  /\ events' = {At(e, e.left - 1, e.rank) : e \in events}
  /\ latest' = [i \in Id |-> Older(latest[i])]
  /\ UNCHANGED <<setup, crashed, ricActive, nextId, terminator, nodeVars>>

-----------------------------------------------------------------------------
(***************************************************************************)
(* The node.                                                               *)
(***************************************************************************)

Registrations(E, n) == {e \in E : e.kind = "Register" /\ e.node = n}

\* Register of an active node: the next one is cancelled, a request is sent
\* and the next Register is scheduled.
Register(E, n) ==
  \E d \in TxDelays, r \in RegIntervals :
    LET sent == Schedule(Without(E, Registrations(E, n)),
                         d, "RegistrationRequest", n, nodeId[n])
    IN events' = Schedule(sent, r, "Register", n, 0)

RegisterFires ==
  \E e \in events :
    /\ Fires(e, "Register")
    /\ IF nodeActive[e.node]
         THEN Register(Without(events, {e}), e.node)
         ELSE events' = Without(events, {e})
    /\ UNCHANGED <<setup, crashed, ricActive, ricVars, nodeVars>>

Activate(n) ==
  /\ ~crashed
  /\ ~nodeActive[n]
  /\ Cardinality(events) < MaxEvents
  /\ nodeActive' = [nodeActive EXCEPT ![n] = TRUE]
  /\ Register(events, n)
  /\ UNCHANGED <<setup, crashed, ricActive, ricVars, nodeId>>

\* The node keeps its ID until the response arrives.
Deactivate(n) ==
  /\ ~crashed
  /\ nodeActive[n]
  /\ Cardinality(events) < MaxEvents
  /\ nodeActive' = [nodeActive EXCEPT ![n] = FALSE]
  /\ \E d \in TxDelays :
       events' = Schedule(Without(events, Registrations(events, n)),
                          d, "DeregistrationRequest", n, nodeId[n])
  /\ UNCHANGED <<setup, crashed, ricActive, ricVars, nodeId>>

ReceiveRegistrationResponse ==
  \E e \in events :
    /\ Fires(e, "RegistrationResponse")
    /\ events' = Without(events, {e})
    /\ nodeId' = IF nodeActive[e.node] THEN [nodeId EXCEPT ![e.node] = e.id] ELSE nodeId
    /\ UNCHANGED <<setup, crashed, ricActive, ricVars, nodeActive>>

\* Mutant of Forgotten: an inactive node ignores the response.
MutOnlyIfActive(n) == IF nodeActive[n] THEN [nodeId EXCEPT ![n] = 0] ELSE nodeId

\* The response does not tell the node which of its IDs is meant.
Forgotten(n) == [nodeId EXCEPT ![n] = 0]

ReceiveDeregistrationResponse ==
  \E e \in events :
    /\ Fires(e, "DeregistrationResponse")
    /\ events' = Without(events, {e})
    /\ IF e.node = Null
         THEN crashed' = TRUE /\ UNCHANGED nodeId
         ELSE nodeId' = Forgotten(e.node) /\ UNCHANGED crashed
    /\ UNCHANGED <<setup, ricActive, ricVars, nodeActive>>

-----------------------------------------------------------------------------
(***************************************************************************)
(* The RIC.                                                                *)
(***************************************************************************)

\* Mutant of Inserted: every row is inserted as registered.
MutAlwaysRegistered(i, registered) ==
  [registered |-> TRUE, age |-> 0, clash |-> FALSE]

\* The newest row of ID i after inserting one now.
Inserted(i, registered) ==
  LET row == latest[i]
  IN [registered |-> registered,
      age |-> 0,
      clash |-> row.age = 0 /\ (row.clash \/ row.registered # registered)]

\* Mutant of RegisterNode: IDs are taken from the number of registered nodes.
MutCountedId(i) ==
  IF i = 0 THEN Cardinality({k \in Id : latest[k].registered}) + 1 ELSE i

\* Mutant of RegisterNode: a new ID is one too high.
MutOffByOneId(i) == IF i = 0 THEN nextId + 1 ELSE i

\* RegisterNode: the ID the repository registers a node under that asks for i.
RegisterNode(i) == IF i = 0 THEN nextId ELSE i

ReceiveRegistrationRequest ==
  \E e \in events :
    /\ Fires(e, "RegistrationRequest")
    /\ IF ricActive
         THEN LET k == RegisterNode(e.id)
              IN /\ k \in Id
                 /\ nextId' = IF k = nextId THEN nextId + 1 ELSE nextId
                 /\ latest' = [latest EXCEPT ![k] = Inserted(k, TRUE)]
                 /\ terminator' = [terminator EXCEPT ![k] = e.node]
                 /\ \E d \in RicDelays :
                      events' = Schedule(Without(events, {e}), d,
                                         "RegistrationResponse", e.node, k)
         ELSE events' = Without(events, {e}) /\ UNCHANGED ricVars
    /\ UNCHANGED <<setup, crashed, ricActive, nodeVars>>

ReceiveDeregistrationRequest ==
  \E e \in events :
    /\ Fires(e, "DeregistrationRequest")
    /\ IF ricActive
         THEN /\ latest' = [latest EXCEPT ![e.id] = Inserted(e.id, FALSE)]
              /\ \E d \in RicDelays :
                   events' = Schedule(Without(events, {e}), d,
                                      "DeregistrationResponse", terminator[e.id], e.id)
         ELSE events' = Without(events, {e}) /\ UNCHANGED latest
    /\ UNCHANGED <<setup, crashed, ricActive, nextId, terminator, nodeVars>>

\* Mutant of Inactive: the threshold itself counts as inactive.
MutAtThreshold(row) == row.age >= Threshold

Inactive(row) == row.age > Threshold

\* The results GetLastRegistrationRequests may have: SQL leaves open which
\* of several newest rows of one instant decides.
Registered ==
  LET sure == {i \in Id : latest[i].registered /\ ~latest[i].clash}
      open == {i \in Id : latest[i].clash}
  IN {sure \cup S : S \in SUBSET open}

\* Mutant of Rescheduled: the next check is not scheduled.
MutCheckedOnce(E, c) == Without(E, {e \in E : e.kind = "CheckForInactivity"})

\* A pending check is cancelled and the next one scheduled.
Rescheduled(E, c) ==
  Schedule(Without(E, {e \in E : e.kind = "CheckForInactivity"}),
           c, "CheckForInactivity", Null, 0)

\* CheckForInactivity with the event list E: each silent ID is deregistered,
\* in the order of the IDs.
CheckForInactivity(E) ==
  \E R \in Registered, c \in CheckIntervals :
    LET silent == {i \in R : Inactive(latest[i])}
    IN \E d \in [silent -> RicDelays] :
         LET before(i) == Cardinality({j \in silent : j < i /\ d[j] = d[i]})
             responses == {[kind |-> "DeregistrationResponse", node |-> terminator[i],
                            id |-> i, left |-> d[i],
                            rank |-> Pending(E, d[i]) + before(i)] : i \in silent}
         IN /\ latest' = [i \in Id |-> IF i \in silent THEN Inserted(i, FALSE)
                                                     ELSE latest[i]]
            /\ events' = Rescheduled(E \cup responses, c)

CheckFires ==
  \E e \in events :
    /\ Fires(e, "CheckForInactivity")
    /\ CheckForInactivity(Without(events, {e}))
    /\ UNCHANGED <<setup, crashed, ricActive, nextId, terminator, nodeVars>>

\* QueryLms, which checks for inactivity too.
QueryLms ==
  /\ ~crashed
  /\ ricActive
  /\ Cardinality(events) < MaxEvents
  /\ CheckForInactivity(events)
  /\ UNCHANGED <<setup, crashed, ricActive, nextId, terminator, nodeVars>>

StartRic ==
  /\ ~crashed
  /\ ~ricActive
  /\ Cardinality(events) < MaxEvents
  /\ ricActive' = TRUE
  /\ \E c \in CheckIntervals :
       events' = Schedule(events, c, "CheckForInactivity", Null, 0)
  /\ UNCHANGED <<setup, crashed, ricVars, nodeVars>>

StopRic ==
  /\ ~crashed
  /\ setup.ricStops
  /\ ricActive
  /\ ricActive' = FALSE
  /\ events' = Without(events, {e \in events : e.kind = "CheckForInactivity"})
  /\ UNCHANGED <<setup, crashed, ricVars, nodeVars>>
-----------------------------------------------------------------------------
Next ==
  \/ Tick
  \/ RegisterFires
  \/ ReceiveRegistrationRequest
  \/ ReceiveRegistrationResponse
  \/ ReceiveDeregistrationRequest
  \/ ReceiveDeregistrationResponse
  \/ CheckFires
  \/ QueryLms
  \/ StartRic
  \/ StopRic
  \/ \E n \in Node : Activate(n)
  \/ \E n \in MayDeactivate : Deactivate(n)

Spec == Init /\ [][Next]_vars

-----------------------------------------------------------------------------
(***************************************************************************)
(* Properties.                                                             *)
(***************************************************************************)

\* An E2 node ID belongs to the node that uses it: whatever is lost, delayed
\* or overtaken, the RIC's commands for the ID a node believes to have reach
\* that node, so no two nodes ever use the same ID.
OneOwner == \A n \in Node : nodeId[n] # 0 => terminator[nodeId[n]] = n

\* A node the repository reports as registered can be sent commands: its
\* entry in m_nodeTerminators is not null.
RegisteredIsReachable ==
  \A i \in Id : latest[i].registered => terminator[i] # Null

\* Of a RIC that is not stopped: no ID stays registered longer than the
\* threshold and one check interval without a registration request, also the
\* IDs a node was given and does not use any more.  Not if the newest rows of
\* the ID are of one instant and disagree: the check may then skip it.
SilentIsDeregistered ==
  ~setup.ricStops =>
    \A i \in Id : latest[i].registered /\ ~latest[i].clash =>
      \E c \in CheckIntervals : latest[i].age <= Threshold + c

Constant(delays) == \A d, e \in delays : d = e

\* If the RIC's messages do not overtake each other, a node that believes to
\* have an ID is registered under it or is about to be told otherwise.
BeliefIsCurrent ==
  Constant(RicDelays) =>
    \A n \in Node : nodeId[n] # 0 =>
      \/ latest[nodeId[n]].registered
      \/ \E e \in events : e.kind = "DeregistrationResponse" /\ e.node = n

\* Constant delays, a round trip shorter than the registration interval, a
\* threshold of at least that interval, and a RIC that is not stopped.
Timely ==
  /\ ~setup.ricStops
  /\ Constant(TxDelays) /\ Constant(RicDelays)
  /\ \A i \in RegIntervals :
       /\ i <= Threshold
       /\ \A d \in TxDelays, e \in RicDelays : d + e < i

\* A node that is never deactivated keeps the ID it was given, whatever the
\* others do and however often the RIC looks for inactive nodes, if the
\* timing allows it.
StableIdentity ==
  [][Timely => \A n \in Node \ MayDeactivate : nodeId[n] # 0 => nodeId'[n] = nodeId[n]]_vars

(***************************************************************************)
(* What a comment says and the code does not do.                           *)
(***************************************************************************)

\* oran-near-rt-ric-e2terminator.h:140: m_nodeTerminators is the "map with
\* the active Node E2 Terminators"; no response goes to a null terminator.
NoCrash == ~crashed
=============================================================================
