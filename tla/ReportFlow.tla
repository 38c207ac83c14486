----------------------------- MODULE ReportFlow -----------------------------
(***************************************************************************)
(* How reports get from an E2 node to the Near-RT RIC: one                 *)
(* OranE2NodeTerminator (oran-e2-node-terminator.cc), its OranReporters    *)
(* (oran-reporter.cc) and their OranReportTriggers (oran-report-trigger.cc,*)
(* -periodic.cc, -location-change.cc, -lte-ue-handover.cc).                *)
(*                                                                         *)
(* A trigger makes its reporter store a report in the terminator; a timer  *)
(* of the terminator sends what is stored.  The members m_sendEvent and    *)
(* m_triggerEvent remember one pending event each: scheduling another one  *)
(* overwrites the member and leaves the old event pending, out of reach of *)
(* every Cancel.                                                           *)
(*                                                                         *)
(* Registration is module E2Registration; here its responses arrive        *)
(* whenever a request is under way, with the same or another ID.  One      *)
(* report stands for those of one call of GenerateReports.                 *)
(***************************************************************************)
EXTENDS EventList, Sequences, SequencesExt

CONSTANTS
  Reporters,     \* the size of m_reporters; a reporter is its position
  Periodic,      \* the reporters with a periodic trigger, others have a trace
  Initial,       \* the reporters whose trigger has InitialReport set
  TxDelays,      \* the values of m_transmissionDelayRv
  SendIntervals, \* the values of m_sendIntervalRv
  TriggerIntervals, \* the values of the periodic triggers' m_intervalRv
  Ids,           \* the E2 node IDs of registration responses
  MaxAsked,      \* bound: registration requests under way
  MaxChains,     \* bound: events of one kind when one more chain is started
  MaxStored      \* bound: reports waiting when a trace fires or time passes

Reporter == 1 .. Reporters

ASSUME ReporterAssumption ==
  /\ Reporters \in Nat
  /\ Periodic \subseteq Reporter /\ Initial \subseteq Reporter

ASSUME DelayAssumption ==
  /\ TxDelays \subseteq Nat
  /\ SendIntervals \subseteq Nat \ {0} /\ SendIntervals # {}
  /\ TriggerIntervals \subseteq Nat \ {0} /\ TriggerIntervals # {}
  /\ Ids \subseteq Nat \ {0}

ASSUME BoundAssumption == MaxAsked \in Nat

VARIABLES
  events,     \* the pending events
  aborted,    \* an NS_ABORT_MSG was reached: the process is gone
  active,     \* OranE2NodeTerminator::m_active
  nodeId,     \* m_e2NodeId
  asked,      \* registration requests and responses under way
  stored,     \* m_reports
  reporting,  \* OranReporter::m_active, which its trigger's m_active follows
  linked,     \* the reporter's m_trigger is not null
  answered,   \* history: registration was answered since the activation
  waiting,    \* history: how long a stored report waits since then
  silent      \* history: how long each reporter has not reported

terminatorVars == <<active, nodeId, asked, answered>>
reporterVars == <<reporting, linked>>
vars == <<events, aborted, terminatorVars, stored, reporterVars, waiting, silent>>

\* stale: history, the terminator was deactivated since the report was made.
Report == [by : Reporter, no : Nat, stale : BOOLEAN]

\* member: the event is the one its EventId member refers to.
Send(member) == [kind |-> "Send", member |-> member]
Trigger(r, member) == [kind |-> "Trigger", by |-> r, member |-> member]
Delivery(p) == [kind |-> "Delivery", report |-> p]
What == [kind : {"Send"}, member : BOOLEAN]
          \cup [kind : {"Trigger"}, by : Periodic, member : BOOLEAN]
          \cup [kind : {"Delivery"}, report : Report]

OfKind(E, kind) == {e \in E : e.what.kind = kind}
Triggers(E, r) == {e \in OfKind(E, "Trigger") : e.what.by = r}
InFlight(E) == {e.what.report : e \in OfKind(E, "Delivery")}

\* Every variable has its type; an EventId refers to one event at most.
TypeOK ==
  /\ events \subseteq EventOf(What)
  /\ RanksExact(events)
  /\ Cardinality({e \in OfKind(events, "Send") : e.what.member}) <= 1
  /\ \A r \in Reporter : Cardinality({e \in Triggers(events, r) : e.what.member}) <= 1
  /\ aborted \in BOOLEAN
  /\ active \in BOOLEAN
  /\ nodeId \in Ids \cup {0}
  /\ asked \in 0 .. MaxAsked
  /\ stored \in Seq(Report)
  /\ reporting \in [Reporter -> BOOLEAN]
  /\ linked \in [Reporter -> BOOLEAN]
  /\ answered \in BOOLEAN
  /\ waiting \in Nat
  /\ silent \in [Reporter -> Nat]

Init ==
  /\ events = {}
  /\ aborted = FALSE
  /\ active = FALSE /\ nodeId = 0 /\ asked = 0
  /\ stored = <<>>
  /\ reporting = [r \in Reporter |-> FALSE]
  /\ linked = [r \in Reporter |-> TRUE]
  /\ answered = FALSE
  /\ waiting = 0
  /\ silent = [r \in Reporter |-> 0]

-----------------------------------------------------------------------------
Fires(e, kind) ==
  /\ ~aborted
  /\ e.what.kind = kind
  /\ FiresNext(e)

Tick ==
  /\ ~aborted
  /\ NothingDue(events)
  /\ Len(stored) <= MaxStored
  /\ events' = OneInstantOn(events)
  /\ waiting' = IF active /\ answered /\ stored # <<>> THEN waiting + 1 ELSE 0
  /\ silent' = [r \in Reporter |-> IF reporting[r] /\ r \in Periodic THEN silent[r] + 1 ELSE 0]
  /\ UNCHANGED <<aborted, terminatorVars, stored, reporterVars>>

\* Mutant of Overwritten: the member refers to every event it ever held.
MutAllRemembered(E, C) == E

Forgotten(w) == IF w.kind = "Send" THEN Send(FALSE) ELSE Trigger(w.by, FALSE)

\* The events C keep pending, but their EventId member is overwritten.
Overwritten(E, C) ==
  (E \ C) \cup {[what |-> Forgotten(e.what), left |-> e.left, rank |-> e.rank] : e \in C}

-----------------------------------------------------------------------------
(***************************************************************************)
(* The terminator's send timer.                                            *)
(***************************************************************************)

\* Mutant of ScheduleNextSend: a pending send is cancelled first.
MutSendRestarted(E, d) == Schedule(Without(E, OfKind(E, "Send")), d, Send(TRUE))

ScheduleNextSend(E, d) ==
  Schedule(Overwritten(E, OfKind(E, "Send")), d, Send(TRUE))

\* Mutant of Unsent: the reports that were sent are kept.
MutKept == stored

\* m_reports.clear().
Unsent == <<>>

\* Every stored report is sent, with delay tx[i] for the i-th.
Delivered(E, tx) ==
  ScheduleEach(E, DOMAIN stored, tx, LAMBDA i : Delivery(stored[i]))

DoSendReports ==
  \E e \in events :
    /\ Fires(e, "Send")
    /\ IF active
         THEN \E tx \in [DOMAIN stored -> TxDelays], d \in SendIntervals :
                /\ events' = ScheduleNextSend(Delivered(Without(events, {e}), tx), d)
                /\ stored' = Unsent
                /\ waiting' = 0
         ELSE /\ events' = Without(events, {e})
              /\ UNCHANGED <<stored, waiting>>
    /\ UNCHANGED <<aborted, terminatorVars, reporterVars, silent>>

\* ReceiveReport of the RIC's terminator, outside this module.
ReceiveReport ==
  \E e \in events :
    /\ Fires(e, "Delivery")
    /\ events' = Without(events, {e})
    /\ UNCHANGED <<aborted, terminatorVars, stored, reporterVars, waiting, silent>>

-----------------------------------------------------------------------------
(***************************************************************************)
(* Triggers and reporters.                                                 *)
(***************************************************************************)

\* A new report: the first number not in use.
NewReport(r) ==
  LET used == {p.no : p \in {q \in ToSet(stored) \cup InFlight(events) : q.by = r}}
  IN [by |-> r, stale |-> FALSE,
      no |-> CHOOSE k \in 0 .. Cardinality(used) :
               k \notin used /\ \A j \in 0 .. k - 1 : j \in used]

\* The n-th of the numbers in S, in their order.
Nth(S, n) == CHOOSE k \in S : Cardinality({j \in S : j < k}) = n - 1

\* PerformReport and StoreReport of the reporters in S, in their order.
ReportsOf(S) ==
  LET performing == {r \in S : reporting[r] /\ active}
  IN [i \in 1 .. Cardinality(performing) |-> NewReport(Nth(performing, i))]

Stored(S) ==
  /\ stored' = stored \o ReportsOf(S)
  /\ silent' = [r \in Reporter |-> IF r \in S THEN 0 ELSE silent[r]]

\* ScheduleNextTrigger of the periodic triggers S, in their order.
ScheduleTriggers(E, S, d) ==
  ScheduleEach(Overwritten(E, UNION {Triggers(E, r) : r \in S}), S, d,
               LAMBDA r : Trigger(r, TRUE))

\* Mutant of Repeated: the trigger fires once per activation.
MutOneShot(E, r, d) == E

\* The next event of periodic trigger r, which has just fired.
Repeated(E, r, d) == ScheduleTriggers(E, {r}, d)

\* TriggerReport of a periodic trigger.  It aborts if it finds the trigger
\* deactivated: its event was not the one Deactivate could cancel.
TriggerFires ==
  \E e \in events :
    /\ Fires(e, "Trigger")
    /\ LET r == e.what.by
           E == Without(events, {e})
       IN IF reporting[r]
            THEN /\ \E d \in [{r} -> TriggerIntervals] : events' = Repeated(E, r, d)
                 /\ Stored({r})
                 /\ UNCHANGED aborted
            ELSE /\ events' = E
                 /\ aborted' = TRUE
                 /\ UNCHANGED <<stored, silent>>
    /\ UNCHANGED <<terminatorVars, reporterVars, waiting>>

\* CourseChangedSink, HandoverCompleteSink or ConnectionEstablishedSink,
\* which are connected while the trigger is active.
TraceFires(r) ==
  /\ ~aborted
  /\ r \notin Periodic
  /\ reporting[r]
  /\ Len(stored) < MaxStored
  /\ Stored({r})
  /\ UNCHANGED <<events, aborted, terminatorVars, reporterVars, waiting>>

-----------------------------------------------------------------------------
(***************************************************************************)
(* Registration.                                                           *)
(***************************************************************************)

\* Register, sent again and again; a request may be lost.
Register ==
  /\ ~aborted
  /\ active
  /\ asked < MaxAsked
  /\ asked' = asked + 1
  /\ UNCHANGED <<events, aborted, active, nodeId, answered, stored, reporterVars,
                 waiting, silent>>

RequestLost ==
  /\ ~aborted
  /\ asked > 0
  /\ asked' = asked - 1
  /\ UNCHANGED <<events, aborted, active, nodeId, answered, stored, reporterVars,
                 waiting, silent>>

\* Mutant of SendTimerStarts: a response that repeats the ID starts no timer.
MutOnNewIdOnly(i) == i # nodeId

\* The registration response with ID i starts the send timer.
SendTimerStarts(i) == TRUE

Answered(E, i) ==
  IF SendTimerStarts(i)
    THEN \E d \in SendIntervals : events' = ScheduleNextSend(E, d)
    ELSE events' = E

\* ReceiveRegistrationResponse.  With a new ID every reporter is notified
\* first, which needs a trigger.
ReceiveRegistrationResponse(i) ==
  /\ ~aborted
  /\ asked > 0
  /\ asked' = asked - 1
  /\ \/ /\ ~active
        /\ UNCHANGED <<events, aborted, nodeId, answered, stored, silent>>
     \/ /\ active /\ nodeId = i
        /\ Cardinality(OfKind(events, "Send")) < MaxChains
        /\ Answered(events, i)
        /\ answered' = TRUE
        /\ UNCHANGED <<aborted, nodeId, stored, silent>>
     \/ /\ active /\ nodeId # i /\ \A r \in Reporter : linked[r]
        /\ Cardinality(OfKind(events, "Send")) < MaxChains
        /\ Cardinality(OfKind(events, "Trigger")) < MaxChains
        /\ LET notified == {r \in Initial : reporting[r]}
               periodic == notified \cap Periodic
           IN /\ \E d \in [periodic -> TriggerIntervals] :
                   Answered(ScheduleTriggers(events, periodic, d), i)
              /\ Stored(notified)
        /\ nodeId' = i
        /\ answered' = TRUE
        /\ UNCHANGED aborted
     \/ /\ active /\ nodeId # i /\ \E r \in Reporter : ~linked[r]
        /\ aborted' = TRUE
        /\ UNCHANGED <<events, nodeId, answered, stored, silent>>
  /\ UNCHANGED <<active, reporterVars, waiting>>

ReceiveDeregistrationResponse ==
  /\ ~aborted
  /\ nodeId # 0
  /\ nodeId' = 0
  /\ UNCHANGED <<events, aborted, active, asked, answered, stored, reporterVars,
                 waiting, silent>>

-----------------------------------------------------------------------------
(***************************************************************************)
(* Activation.                                                             *)
(***************************************************************************)

\* Mutant of Cleared: what was stored before the deactivation is kept.
MutNotCleared == stored

\* m_reports.clear() in Activate.
Cleared == <<>>

\* Activate of the terminator and of its reporters; a reporter without a
\* trigger stays inactive.
Activate ==
  /\ ~aborted
  /\ ~active
  /\ asked < MaxAsked
  /\ active' = TRUE
  /\ asked' = asked + 1
  /\ answered' = FALSE
  /\ stored' = Cleared
  /\ reporting' = linked
  /\ LET periodic == {r \in Periodic : linked[r]}
     IN \E d \in [periodic -> TriggerIntervals] :
          events' = ScheduleTriggers(events, periodic, d)
  /\ waiting' = 0
  /\ silent' = [r \in Reporter |-> 0]
  /\ UNCHANGED <<aborted, nodeId, linked>>

\* The events Deactivate can cancel: those the EventId members refer to.
Cancelled(E) ==
  {e \in OfKind(E, "Send") : e.what.member}
    \cup {e \in OfKind(E, "Trigger") : e.what.member /\ reporting[e.what.by]}

\* Deactivate of the terminator and of its reporters; deactivating a trigger
\* takes it from its reporter.
Deactivate ==
  /\ ~aborted
  /\ active
  /\ active' = FALSE
  /\ reporting' = [r \in Reporter |-> FALSE]
  /\ linked' = [r \in Reporter |-> linked[r] /\ ~reporting[r]]
  /\ events' = Without(events, Cancelled(events))
  /\ stored' = [i \in DOMAIN stored |-> [stored[i] EXCEPT !.stale = TRUE]]
  /\ waiting' = 0
  /\ silent' = [r \in Reporter |-> 0]
  /\ UNCHANGED <<aborted, nodeId, asked, answered>>

\* The caller sets the attribute Trigger of a reporter again.
SetTrigger(r) ==
  /\ ~aborted
  /\ ~linked[r]
  /\ linked' = [linked EXCEPT ![r] = TRUE]
  /\ UNCHANGED <<events, aborted, terminatorVars, stored, reporting, waiting, silent>>

-----------------------------------------------------------------------------
Next ==
  \/ Tick
  \/ DoSendReports
  \/ ReceiveReport
  \/ TriggerFires
  \/ \E r \in Reporter : TraceFires(r) \/ SetTrigger(r)
  \/ Register
  \/ RequestLost
  \/ \E i \in Ids : ReceiveRegistrationResponse(i)
  \/ ReceiveDeregistrationResponse
  \/ Activate
  \/ Deactivate

Spec == Init /\ [][Next]_vars

-----------------------------------------------------------------------------
(***************************************************************************)
(* Properties.                                                             *)
(***************************************************************************)

\* However many send timers run at once, a report is in one place only: it
\* is stored once or under way once, so the RIC receives it at most once.
OnePlace ==
  /\ \A i, j \in DOMAIN stored : stored[i] = stored[j] => i = j
  /\ \A e, f \in OfKind(events, "Delivery") :
        e.what.report = f.what.report => e = f
  /\ ToSet(stored) \cap InFlight(events) = {}

\* A report stored before a deactivation is never sent after it, also when a
\* send timer of before the deactivation survives it.
NoneStaleSent == \A p \in InFlight(events) : ~p.stale

\* From the first registration response on, no report waits longer than the
\* longest send interval, however often and with whatever IDs the
\* registration is repeated.
SentInTime == \E d \in SendIntervals : waiting <= d

\* An active periodic trigger makes its reporter report at least once in the
\* longest trigger interval, whatever happened to its EventId.
KeepsReporting ==
  \A r \in Periodic : \E d \in TriggerIntervals : silent[r] <= d

(***************************************************************************)
(* What the documentation says and the code does not do.                   *)
(***************************************************************************)

\* oran-architecture.rst:172: in the terminator "a timer will periodically
\* send the collected Reports": there is one timer.
OneSendTimer == Cardinality(OfKind(events, "Send")) <= 1
=============================================================================
