-------------------------- MODULE ReportFlowProofs --------------------------
(***************************************************************************)
(* Proofs about the flow of reports, for any number of reporters, any      *)
(* delays and intervals, and any number of timers running at once: reports *)
(* are sent in time, periodic reporters keep reporting, nothing from       *)
(* before a deactivation is sent after it, and a report is always in one   *)
(* place only.  The types hold with an exact event list.                   *)
(***************************************************************************)
EXTENDS ReportFlow, SequenceTheorems, FiniteSetTheorems, WellFoundedInduction, TLAPS

\* A send, or a trigger of reporter r, fires in the event list E in l.
SendIn(E, l) == \E e \in E : e.what.kind = "Send" /\ e.left = l
TriggerIn(E, r, l) ==
  \E e \in E : e.what.kind = "Trigger" /\ e.what.by = r /\ e.left = l

\* Every event fires after a natural number of instants; a trigger event
\* belongs to a periodic trigger.
Shaped(E) ==
  \A e \in E : /\ e.left \in Nat
               /\ e.what.kind \in {"Send", "Trigger", "Delivery"}
               /\ e.what.kind = "Trigger" => e.what.by \in Periodic

-----------------------------------------------------------------------------
(***************************************************************************)
(* What the operations on the event list keep.                             *)
(***************************************************************************)

\* Firing or cancelling events leaves the others where they are.
LEMMA WithoutKeeps ==
  ASSUME NEW E, NEW C
  PROVE  /\ \A e \in E \ C : \E f \in Without(E, C) : f.what = e.what /\ f.left = e.left
         /\ \A f \in Without(E, C) : \E e \in E \ C : f.what = e.what /\ f.left = e.left
<1>1. ASSUME NEW e \in E \ C
      PROVE  \E f \in Without(E, C) : f.what = e.what /\ f.left = e.left
  <2> DEFINE f == At(e, e.left, e.rank - Cardinality({c \in C : c.left = e.left /\ c.rank < e.rank}))
  <2>1. f \in Without(E, C)
    BY DEF Without
  <2>2. f.what = e.what /\ f.left = e.left
    BY DEF At
  <2> QED BY <2>1, <2>2
<1>2. ASSUME NEW f \in Without(E, C)
      PROVE  \E e \in E \ C : f.what = e.what /\ f.left = e.left
  <2>1. PICK e \in E \ C :
          f = At(e, e.left, e.rank - Cardinality({c \in C : c.left = e.left /\ c.rank < e.rank}))
    BY DEF Without
  <2> QED BY <2>1 DEF At
<1> QED BY <1>1, <1>2

\* Overwriting EventId members of sends or triggers leaves every event in
\* the event list, for the same purpose and time.
LEMMA OverwrittenKeeps ==
  ASSUME NEW E, NEW C \in SUBSET E, Shaped(E),
         \A e \in C : e.what.kind \in {"Send", "Trigger"}
  PROVE  /\ Shaped(Overwritten(E, C))
         /\ \A l : SendIn(E, l) => SendIn(Overwritten(E, C), l)
         /\ \A r, l : TriggerIn(E, r, l) => TriggerIn(Overwritten(E, C), r, l)
<1> DEFINE after(e) == [what |-> Forgotten(e.what), left |-> e.left, rank |-> e.rank]
<1>1. \A e \in C : /\ after(e) \in Overwritten(E, C)
                   /\ after(e).left = e.left
                   /\ after(e).what.kind = e.what.kind
                   /\ e.what.kind = "Trigger" => after(e).what.by = e.what.by
  BY DEF Overwritten, Forgotten, Send, Trigger
<1>2. \A e \in E \ C : e \in Overwritten(E, C)
  BY DEF Overwritten
<1>3. \A f \in Overwritten(E, C) : f \in E \ C \/ \E e \in C : f = after(e)
  BY DEF Overwritten
<1>4. Shaped(Overwritten(E, C))
  BY <1>1, <1>3 DEF Shaped
<1>5. \A l : SendIn(E, l) => SendIn(Overwritten(E, C), l)
  BY <1>1, <1>2 DEF SendIn
<1>6. \A r, l : TriggerIn(E, r, l) => TriggerIn(Overwritten(E, C), r, l)
  BY <1>1, <1>2 DEF TriggerIn
<1> QED BY <1>4, <1>5, <1>6

\* Scheduling the next send keeps every event and adds one.
LEMMA NextSendKeeps ==
  ASSUME NEW E, Shaped(E), NEW d \in SendIntervals
  PROVE  /\ Shaped(ScheduleNextSend(E, d))
         /\ SendIn(ScheduleNextSend(E, d), d)
         /\ \A l : SendIn(E, l) => SendIn(ScheduleNextSend(E, d), l)
         /\ \A r, l : TriggerIn(E, r, l) => TriggerIn(ScheduleNextSend(E, d), r, l)
<1> DEFINE O == Overwritten(E, OfKind(E, "Send"))
           new == [what |-> Send(TRUE), left |-> d, rank |-> Pending(O, d)]
<1>1. /\ Shaped(O)
      /\ \A l : SendIn(E, l) => SendIn(O, l)
      /\ \A r, l : TriggerIn(E, r, l) => TriggerIn(O, r, l)
  BY OverwrittenKeeps DEF OfKind
<1>2. ScheduleNextSend(E, d) = O \cup {new}
  BY DEF ScheduleNextSend, Schedule
<1>3. new.left = d /\ new.what.kind = "Send" /\ d \in Nat
  BY DelayAssumption DEF Send
<1> HIDE DEF O, new
<1>4. Shaped(ScheduleNextSend(E, d))
  BY <1>1, <1>2, <1>3 DEF Shaped
<1>5. SendIn(ScheduleNextSend(E, d), d)
  BY <1>2, <1>3 DEF SendIn
<1>6. \A l : SendIn(E, l) => SendIn(ScheduleNextSend(E, d), l)
  BY <1>1, <1>2 DEF SendIn
<1>7. \A r, l : TriggerIn(E, r, l) => TriggerIn(ScheduleNextSend(E, d), r, l)
  BY <1>1, <1>2 DEF TriggerIn
<1> QED BY <1>4, <1>5, <1>6, <1>7

\* Scheduling the triggers S keeps every event and adds one for each of S.
LEMMA TriggersKeep ==
  ASSUME NEW E, Shaped(E), NEW S \in SUBSET Periodic, NEW d \in [S -> TriggerIntervals]
  PROVE  /\ Shaped(ScheduleTriggers(E, S, d))
         /\ \A r \in S : TriggerIn(ScheduleTriggers(E, S, d), r, d[r])
         /\ \A l : SendIn(E, l) => SendIn(ScheduleTriggers(E, S, d), l)
         /\ \A r, l : TriggerIn(E, r, l) => TriggerIn(ScheduleTriggers(E, S, d), r, l)
<1> DEFINE C == UNION {Triggers(E, r) : r \in S}
           O == Overwritten(E, C)
           rank(r) == Pending(O, d[r]) + Cardinality({j \in S : j < r /\ d[j] = d[r]})
           new(r) == [what |-> Trigger(r, TRUE), left |-> d[r], rank |-> rank(r)]
<1>1. C \in SUBSET E /\ \A e \in C : e.what.kind \in {"Send", "Trigger"}
  BY DEF Triggers, OfKind
<1>2. /\ Shaped(O)
      /\ \A l : SendIn(E, l) => SendIn(O, l)
      /\ \A r, l : TriggerIn(E, r, l) => TriggerIn(O, r, l)
  BY <1>1, OverwrittenKeeps
<1>3. ScheduleTriggers(E, S, d) = O \cup {new(r) : r \in S}
  BY DEF ScheduleTriggers, ScheduleEach
<1>4. \A r \in S : /\ new(r).left = d[r] /\ d[r] \in Nat
                   /\ new(r).what.kind = "Trigger" /\ new(r).what.by = r
  BY DelayAssumption DEF Trigger
<1> HIDE DEF O, new
<1>5. Shaped(ScheduleTriggers(E, S, d))
  BY <1>2, <1>3, <1>4 DEF Shaped
<1>6. \A r \in S : TriggerIn(ScheduleTriggers(E, S, d), r, d[r])
  BY <1>3, <1>4 DEF TriggerIn
<1>7. \A l : SendIn(E, l) => SendIn(ScheduleTriggers(E, S, d), l)
  BY <1>2, <1>3 DEF SendIn
<1>8. \A r, l : TriggerIn(E, r, l) => TriggerIn(ScheduleTriggers(E, S, d), r, l)
  BY <1>2, <1>3 DEF TriggerIn
<1> QED BY <1>5, <1>6, <1>7, <1>8

\* Sending the stored reports keeps every event.
LEMMA DeliveredKeeps ==
  ASSUME NEW E, Shaped(E), NEW tx \in [DOMAIN stored -> TxDelays]
  PROVE  /\ Shaped(Delivered(E, tx))
         /\ \A l : SendIn(E, l) => SendIn(Delivered(E, tx), l)
         /\ \A r, l : TriggerIn(E, r, l) => TriggerIn(Delivered(E, tx), r, l)
<1> DEFINE rank(i) == Pending(E, tx[i]) + Cardinality({j \in DOMAIN stored : j < i /\ tx[j] = tx[i]})
           new(i) == [what |-> Delivery(stored[i]), left |-> tx[i], rank |-> rank(i)]
<1>1. Delivered(E, tx) = E \cup {new(i) : i \in DOMAIN stored}
  BY DEF Delivered, ScheduleEach
<1>2. \A i \in DOMAIN stored : /\ new(i).left = tx[i] /\ tx[i] \in Nat
                               /\ new(i).what.kind = "Delivery"
  BY DelayAssumption DEF Delivery
<1> HIDE DEF new
<1>3. Shaped(Delivered(E, tx))
  BY <1>1, <1>2 DEF Shaped
<1>4. \A l : SendIn(E, l) => SendIn(Delivered(E, tx), l)
  BY <1>1 DEF SendIn
<1>5. \A r, l : TriggerIn(E, r, l) => TriggerIn(Delivered(E, tx), r, l)
  BY <1>1 DEF TriggerIn
<1> QED BY <1>3, <1>4, <1>5

\* Firing event e keeps the sends if e is none, and the triggers of the
\* other reporters.
LEMMA FiredKeeps ==
  ASSUME NEW E, Shaped(E), NEW e \in E
  PROVE  /\ Shaped(Without(E, {e}))
         /\ e.what.kind # "Send" => \A l : SendIn(E, l) => SendIn(Without(E, {e}), l)
         /\ \A r : ~(e.what.kind = "Trigger" /\ e.what.by = r) =>
               \A l : TriggerIn(E, r, l) => TriggerIn(Without(E, {e}), r, l)
<1>1. Shaped(Without(E, {e}))
  BY WithoutKeeps DEF Shaped
<1>2. ASSUME e.what.kind # "Send", NEW l, SendIn(E, l)
      PROVE  SendIn(Without(E, {e}), l)
  <2>1. PICK f \in E : f.what.kind = "Send" /\ f.left = l
    BY <1>2 DEF SendIn
  <2>2. f \in E \ {e}
    BY <1>2, <2>1
  <2> QED BY <2>1, <2>2, WithoutKeeps DEF SendIn
<1>3. ASSUME NEW r, ~(e.what.kind = "Trigger" /\ e.what.by = r), NEW l, TriggerIn(E, r, l)
      PROVE  TriggerIn(Without(E, {e}), r, l)
  <2>1. PICK f \in E : f.what.kind = "Trigger" /\ f.what.by = r /\ f.left = l
    BY <1>3 DEF TriggerIn
  <2>2. f \in E \ {e}
    BY <1>3, <2>1
  <2> QED BY <2>1, <2>2, WithoutKeeps DEF TriggerIn
<1> QED BY <1>1, <1>2, <1>3

\* Passing time keeps the shape of the events.
LEMMA TickShaped ==
  ASSUME Shaped(events), Tick
  PROVE  Shaped(events')
<1> SUFFICES ASSUME NEW f \in events'
             PROVE  /\ f.left \in Nat
                    /\ f.what.kind \in {"Send", "Trigger", "Delivery"}
                    /\ f.what.kind = "Trigger" => f.what.by \in Periodic
  BY DEF Shaped
<1>1. PICK e \in events : f = At(e, e.left - 1, e.rank)
  BY DEF Tick, OneInstantOn
<1>2. f.what = e.what /\ f.left = e.left - 1
  BY <1>1 DEF At
<1>3. e.left > 0
  BY DEF Tick, NothingDue
<1> QED BY <1>2, <1>3 DEF Shaped

-----------------------------------------------------------------------------
(***************************************************************************)
(* Reports are sent in time.                                               *)
(***************************************************************************)

\* SentInTime made inductive: from the first response on, a send is pending
\* that fires before anything stored has waited for too long; until then
\* nothing counts as waiting.
SendInv ==
  /\ Shaped(events)
  /\ waiting \in Nat
  /\ (active /\ answered) \/ waiting = 0
  /\ active /\ answered =>
       \E l \in Nat, d \in SendIntervals : SendIn(events, l) /\ waiting + l <= d

\* One instant passes.
LEMMA TickKeepsSends ==
  ASSUME SendInv, Tick
  PROVE  SendInv'
<1>1. Shaped(events')
  BY TickShaped DEF SendInv
<1>2. waiting' \in Nat
  BY DEF SendInv, Tick
<1>3. (active' /\ answered') \/ waiting' = 0
  BY DEF Tick, terminatorVars
<1>4. ASSUME active' /\ answered'
      PROVE  \E l \in Nat, d \in SendIntervals : SendIn(events', l) /\ waiting' + l <= d
  <2>1. PICK l \in Nat, d \in SendIntervals : SendIn(events, l) /\ waiting + l <= d
    BY <1>4 DEF SendInv, Tick, terminatorVars
  <2>2. PICK e \in events : e.what.kind = "Send" /\ e.left = l
    BY <2>1 DEF SendIn
  <2>3. l > 0
    BY <2>2 DEF Tick, NothingDue
  <2>4. At(e, e.left - 1, e.rank) \in events'
    BY DEF Tick, OneInstantOn
  <2>5. SendIn(events', l - 1)
    BY <2>2, <2>4 DEF SendIn, At
  <2>6. waiting' = waiting + 1 \/ waiting' = 0
    BY DEF Tick
  <2>7. waiting' + (l - 1) <= d /\ l - 1 \in Nat
    BY <2>1, <2>3, <2>6, DelayAssumption DEF SendInv
  <2> QED BY <2>5, <2>7
<1> QED BY <1>1, <1>2, <1>3, <1>4 DEF SendInv

\* A step that keeps the pending sends and what is said about waiting.
LEMMA SendsKept ==
  ASSUME SendInv, Shaped(events'), waiting' = waiting,
         active' = active, answered' = answered,
         \A l : SendIn(events, l) => SendIn(events', l)
  PROVE  SendInv'
BY DEF SendInv, Shaped, SendIn

\* Sending restarts the wait.
LEMMA SendKeepsSends ==
  ASSUME SendInv, DoSendReports
  PROVE  SendInv'
<1>1. PICK e \in events :
        /\ Fires(e, "Send")
        /\ IF active
             THEN \E tx \in [DOMAIN stored -> TxDelays], d \in SendIntervals :
                    /\ events' = ScheduleNextSend(Delivered(Without(events, {e}), tx), d)
                    /\ stored' = Unsent
                    /\ waiting' = 0
             ELSE /\ events' = Without(events, {e})
                  /\ UNCHANGED <<stored, waiting>>
        /\ UNCHANGED <<aborted, terminatorVars, reporterVars, silent>>
  BY DEF DoSendReports
<1>2. Shaped(Without(events, {e}))
  BY FiredKeeps DEF SendInv
<1>3. active' = active /\ answered' = answered
  BY <1>1 DEF terminatorVars
<1>4. CASE active
  <2>1. PICK tx \in [DOMAIN stored -> TxDelays], d \in SendIntervals :
          /\ events' = ScheduleNextSend(Delivered(Without(events, {e}), tx), d)
          /\ waiting' = 0
    BY <1>1, <1>4
  <2>2. Shaped(events') /\ SendIn(events', d)
    BY <1>2, <2>1, DeliveredKeeps, NextSendKeeps
  <2>3. d \in Nat /\ 0 + d <= d
    BY DelayAssumption
  <2> QED BY <2>1, <2>2, <2>3 DEF SendInv
<1>5. CASE ~active
  <2>1. events' = Without(events, {e}) /\ waiting' = waiting
    BY <1>1, <1>5
  <2> QED BY <1>2, <1>3, <1>5, <2>1 DEF SendInv
<1> QED BY <1>4, <1>5

\* A trigger schedules its own next event only.
LEMMA TriggerKeepsSends ==
  ASSUME SendInv, TriggerFires
  PROVE  SendInv'
<1>1. PICK e \in events :
        /\ Fires(e, "Trigger")
        /\ LET r == e.what.by
               E == Without(events, {e})
           IN IF reporting[r]
                THEN /\ \E d \in [{r} -> TriggerIntervals] : events' = Repeated(E, r, d)
                     /\ Stored({r})
                     /\ UNCHANGED aborted
                ELSE /\ events' = E
                     /\ aborted' = TRUE
                     /\ UNCHANGED <<stored, silent>>
        /\ UNCHANGED <<terminatorVars, reporterVars, waiting>>
  BY DEF TriggerFires
<1> DEFINE r == e.what.by
           E == Without(events, {e})
<1>2. Shaped(E) /\ \A l : SendIn(events, l) => SendIn(E, l)
  BY <1>1, FiredKeeps DEF SendInv, Fires
<1>3. r \in Periodic
  BY <1>1 DEF SendInv, Shaped, Fires
<1>4. waiting' = waiting /\ active' = active /\ answered' = answered
  BY <1>1 DEF terminatorVars
<1>5. events' = E \/ \E d \in [{r} -> TriggerIntervals] : events' = ScheduleTriggers(E, {r}, d)
  BY <1>1 DEF Repeated
<1>6. Shaped(events') /\ \A l : SendIn(events, l) => SendIn(events', l)
  <2>1. CASE events' = E
    BY <1>2, <2>1
  <2>2. ASSUME NEW d \in [{r} -> TriggerIntervals], events' = ScheduleTriggers(E, {r}, d)
        PROVE  Shaped(events') /\ \A l : SendIn(events, l) => SendIn(events', l)
    <3>1. {r} \in SUBSET Periodic
      BY <1>3
    <3> HIDE DEF r, E
    <3> QED BY <1>2, <2>2, <3>1, TriggersKeep
  <2> QED BY <1>5, <2>1, <2>2
<1> QED BY <1>4, <1>6, SendsKept

\* A response starts a send timer and leaves those there are.
LEMMA ResponseKeepsSends ==
  ASSUME SendInv, NEW i \in Ids, ReceiveRegistrationResponse(i)
  PROVE  SendInv'
<1> DEFINE notified == {r \in Initial : reporting[r]}
           periodic == notified \cap Periodic
<1>1. active' = active /\ waiting' = waiting
  BY DEF ReceiveRegistrationResponse
<1>2. ASSUME NEW E, Shaped(E), \A l : SendIn(events, l) => SendIn(E, l),
             Answered(E, i), answered' = TRUE, active
      PROVE  SendInv'
  <2>1. PICK d \in SendIntervals : events' = ScheduleNextSend(E, d)
    BY <1>2 DEF Answered, SendTimerStarts
  <2>2. /\ Shaped(events') /\ SendIn(events', d)
        /\ \A l : SendIn(events, l) => SendIn(events', l)
    BY <1>2, <2>1, NextSendKeeps
  <2>3. \E l \in Nat, b \in SendIntervals : SendIn(events', l) /\ waiting' + l <= b
    <3>1. CASE answered
      <4>1. PICK l \in Nat, b \in SendIntervals : SendIn(events, l) /\ waiting + l <= b
        BY <1>2, <3>1 DEF SendInv
      <4> QED BY <1>1, <2>2, <4>1
    <3>2. CASE ~answered
      <4>1. waiting' = 0 /\ d \in Nat /\ 0 + d <= d
        BY <1>1, <3>2, DelayAssumption DEF SendInv
      <4> QED BY <2>2, <4>1
    <3> QED BY <3>1, <3>2
  <2> QED BY <1>1, <1>2, <2>2, <2>3 DEF SendInv
<1>3. CASE active /\ nodeId = i /\ Answered(events, i) /\ answered' = TRUE
  BY <1>2, <1>3 DEF SendInv
<1>4. CASE /\ active /\ answered' = TRUE
           /\ \E d \in [periodic -> TriggerIntervals] :
                Answered(ScheduleTriggers(events, periodic, d), i)
  <2>1. PICK d \in [periodic -> TriggerIntervals] :
          Answered(ScheduleTriggers(events, periodic, d), i)
    BY <1>4
  <2>2. periodic \in SUBSET Periodic
    OBVIOUS
  <2> HIDE DEF periodic
  <2>3. /\ Shaped(ScheduleTriggers(events, periodic, d))
        /\ \A l : SendIn(events, l) => SendIn(ScheduleTriggers(events, periodic, d), l)
    BY <2>2, TriggersKeep DEF SendInv
  <2> QED BY <1>2, <1>4, <2>1, <2>3
<1>5. CASE events' = events /\ answered' = answered
  BY <1>1, <1>5 DEF SendInv
<1> QED BY <1>3, <1>4, <1>5 DEF ReceiveRegistrationResponse

\* Activation starts afresh; deactivation stops all waiting.
LEMMA ActivationKeepsSends ==
  ASSUME SendInv, Activate \/ Deactivate
  PROVE  SendInv'
<1>1. CASE Activate
  <2> DEFINE periodic == {r \in Periodic : linked[r]}
  <2>1. PICK d \in [periodic -> TriggerIntervals] :
          events' = ScheduleTriggers(events, periodic, d)
    BY <1>1 DEF Activate
  <2>2. periodic \in SUBSET Periodic
    OBVIOUS
  <2>3. Shaped(events')
    <3> HIDE DEF periodic
    <3> QED BY <2>1, <2>2, TriggersKeep DEF SendInv
  <2>4. waiting' = 0 /\ ~answered'
    BY <1>1 DEF Activate
  <2> QED BY <2>3, <2>4 DEF SendInv
<1>2. CASE Deactivate
  <2>1. events' = Without(events, Cancelled(events)) /\ waiting' = 0 /\ ~active'
    BY <1>2 DEF Deactivate
  <2>2. Shaped(events')
    BY <2>1, WithoutKeeps DEF SendInv, Shaped
  <2> QED BY <2>1, <2>2 DEF SendInv
<1> QED BY <1>1, <1>2

\* From the first registration response on, no report waits longer than the
\* longest send interval, whatever the delays and however often registration
\* is repeated and the node deactivated.
THEOREM ReportsSentInTime == Spec => []SentInTime
<1>1. Init => SendInv
  BY DEF Init, SendInv, Shaped
<1>2. SendInv /\ [Next]_vars => SendInv'
  <2> SUFFICES ASSUME SendInv, [Next]_vars PROVE SendInv'
    OBVIOUS
  <2>1. CASE Tick
    BY <2>1, TickKeepsSends
  <2>2. CASE DoSendReports
    BY <2>2, SendKeepsSends
  <2>3. CASE ReceiveReport
    <3>1. PICK e \in events : Fires(e, "Delivery") /\ events' = Without(events, {e})
      BY <2>3 DEF ReceiveReport
    <3>2. Shaped(events') /\ \A l : SendIn(events, l) => SendIn(events', l)
      BY <3>1, FiredKeeps DEF SendInv, Fires
    <3>3. waiting' = waiting /\ active' = active /\ answered' = answered
      BY <2>3 DEF ReceiveReport, terminatorVars
    <3> QED BY <3>2, <3>3, SendsKept
  <2>4. CASE TriggerFires
    BY <2>4, TriggerKeepsSends
  <2>5. CASE \E i \in Ids : ReceiveRegistrationResponse(i)
    BY <2>5, ResponseKeepsSends
  <2>6. CASE Activate \/ Deactivate
    BY <2>6, ActivationKeepsSends
  <2>7. CASE \/ \E r \in Reporter : TraceFires(r) \/ SetTrigger(r)
             \/ Register \/ RequestLost \/ ReceiveDeregistrationResponse
             \/ UNCHANGED vars
    <3>1. events' = events /\ waiting' = waiting /\ active' = active /\ answered' = answered
      BY <2>7 DEF TraceFires, SetTrigger, Register, RequestLost,
                  ReceiveDeregistrationResponse, vars, terminatorVars
    <3> QED BY <3>1 DEF SendInv
  <2> QED BY <2>1, <2>2, <2>3, <2>4, <2>5, <2>6, <2>7 DEF Next
<1>3. SendInv => SentInTime
  <2> SUFFICES ASSUME SendInv PROVE \E d \in SendIntervals : waiting <= d
    BY DEF SentInTime
  <2>1. CASE active /\ answered
    BY <2>1, DelayAssumption DEF SendInv
  <2>2. CASE ~(active /\ answered)
    <3>1. PICK d \in SendIntervals : d \in Nat
      BY DelayAssumption
    <3> QED BY <2>2, <3>1 DEF SendInv
  <2> QED BY <2>1, <2>2
<1> QED BY <1>1, <1>2, <1>3, PTL DEF Spec

-----------------------------------------------------------------------------
(***************************************************************************)
(* Periodic reporters keep reporting.                                      *)
(***************************************************************************)

\* Reporter r, if active, is triggered before it has been silent for too long.
Triggered(r) ==
  /\ reporting[r] =>
       \E l \in Nat, d \in TriggerIntervals :
          TriggerIn(events, r, l) /\ silent[r] + l <= d
  /\ ~reporting[r] => silent[r] = 0

\* KeepsReporting made inductive.
TriggerInv ==
  /\ Shaped(events)
  /\ silent \in [Reporter -> Nat]
  /\ \A r \in Periodic : Triggered(r)

\* A reporter nothing happened to stays triggered.
LEMMA TriggeredKept ==
  ASSUME NEW r \in Periodic, Triggered(r),
         reporting'[r] = reporting[r], silent'[r] = silent[r],
         \A l : TriggerIn(events, r, l) => TriggerIn(events', r, l)
  PROVE  Triggered(r)'
BY DEF Triggered, TriggerIn

\* A reporter that has just reported, or was just activated, and whose next
\* trigger is scheduled, is triggered in time.
LEMMA TriggeredAnew ==
  ASSUME NEW r \in Periodic, NEW d \in TriggerIntervals,
         TriggerIn(events', r, d), silent'[r] = 0, reporting'[r]
  PROVE  Triggered(r)'
<1>1. d \in Nat /\ silent'[r] + d <= d
  BY DelayAssumption
<1> QED BY <1>1 DEF Triggered, TriggerIn

\* One instant passes.
LEMMA TickKeepsTriggers ==
  ASSUME TriggerInv, Tick
  PROVE  TriggerInv'
<1>1. Shaped(events')
  BY TickShaped DEF TriggerInv
<1>2. silent' \in [Reporter -> Nat]
  BY DEF TriggerInv, Tick
<1>3. ASSUME NEW r \in Periodic
      PROVE  Triggered(r)'
  <2>1. r \in Reporter /\ reporting'[r] = reporting[r]
    BY ReporterAssumption DEF Tick, reporterVars
  <2>2. CASE ~reporting[r]
    BY <2>1, <2>2 DEF Triggered, Tick
  <2>3. CASE reporting[r]
    <3>1. silent'[r] = silent[r] + 1
      BY <2>1, <2>3 DEF Tick
    <3>2. PICK l \in Nat, d \in TriggerIntervals :
            TriggerIn(events, r, l) /\ silent[r] + l <= d
      BY <2>3 DEF TriggerInv, Triggered
    <3>3. PICK e \in events : e.what.kind = "Trigger" /\ e.what.by = r /\ e.left = l
      BY <3>2 DEF TriggerIn
    <3>4. l > 0
      BY <3>3 DEF Tick, NothingDue
    <3>5. At(e, e.left - 1, e.rank) \in events'
      BY DEF Tick, OneInstantOn
    <3>6. TriggerIn(events', r, l - 1)
      BY <3>3, <3>5 DEF TriggerIn, At
    <3>7. silent'[r] + (l - 1) <= d /\ l - 1 \in Nat
      BY <2>1, <3>1, <3>2, <3>4, DelayAssumption DEF TriggerInv
    <3> QED BY <2>1, <2>3, <3>6, <3>7 DEF Triggered
  <2> QED BY <2>2, <2>3
<1> QED BY <1>1, <1>2, <1>3 DEF TriggerInv

\* A trigger that fires schedules its next event and leaves the others.
LEMMA TriggerKeepsTriggers ==
  ASSUME TriggerInv, TriggerFires
  PROVE  TriggerInv'
<1>1. PICK e \in events :
        /\ Fires(e, "Trigger")
        /\ LET r == e.what.by
               E == Without(events, {e})
           IN IF reporting[r]
                THEN /\ \E d \in [{r} -> TriggerIntervals] : events' = Repeated(E, r, d)
                     /\ Stored({r})
                     /\ UNCHANGED aborted
                ELSE /\ events' = E
                     /\ aborted' = TRUE
                     /\ UNCHANGED <<stored, silent>>
        /\ UNCHANGED <<terminatorVars, reporterVars, waiting>>
  BY DEF TriggerFires
<1> DEFINE r == e.what.by
           E == Without(events, {e})
<1>2. /\ Shaped(E)
      /\ \A q : q # r => \A l : TriggerIn(events, q, l) => TriggerIn(E, q, l)
  BY <1>1, FiredKeeps DEF TriggerInv
<1>3. r \in Periodic /\ {r} \in SUBSET Periodic /\ r \in Reporter
  BY <1>1, ReporterAssumption DEF TriggerInv, Shaped, Fires
<1>4. reporting' = reporting
  BY <1>1 DEF reporterVars
<1> HIDE DEF r, E
<1>5. CASE reporting[r]
  <2>1. PICK d \in [{r} -> TriggerIntervals] : events' = ScheduleTriggers(E, {r}, d)
    BY <1>1, <1>5 DEF Repeated, r, E
  <2>2. silent' = [q \in Reporter |-> IF q \in {r} THEN 0 ELSE silent[q]]
    BY <1>1, <1>5 DEF Stored, r
  <2>3. /\ Shaped(events') /\ TriggerIn(events', r, d[r])
        /\ \A q, l : TriggerIn(E, q, l) => TriggerIn(events', q, l)
    BY <1>2, <1>3, <2>1, TriggersKeep
  <2>4. silent' \in [Reporter -> Nat]
    BY <2>2 DEF TriggerInv
  <2>5. ASSUME NEW q \in Periodic
        PROVE  Triggered(q)'
    <3>1. q \in Reporter
      BY ReporterAssumption
    <3>2. CASE q = r
      BY <1>4, <1>5, <2>2, <2>3, <3>1, <3>2, TriggeredAnew
    <3>3. CASE q # r
      BY <1>2, <1>4, <2>2, <2>3, <3>1, <3>3, TriggeredKept DEF TriggerInv
    <3> QED BY <3>2, <3>3
  <2> QED BY <2>3, <2>4, <2>5 DEF TriggerInv
<1>6. CASE ~reporting[r]
  <2>1. events' = E /\ silent' = silent
    BY <1>1, <1>6 DEF r, E
  <2>2. ASSUME NEW q \in Periodic
        PROVE  Triggered(q)'
    <3>1. CASE q = r
      BY <1>4, <1>6, <2>1, <3>1 DEF TriggerInv, Triggered
    <3>2. CASE q # r
      BY <1>2, <1>4, <2>1, <3>2, TriggeredKept DEF TriggerInv
    <3> QED BY <3>1, <3>2
  <2> QED BY <1>2, <2>1, <2>2 DEF TriggerInv
<1> QED BY <1>5, <1>6

\* Sending disturbs no trigger.
LEMMA SendKeepsTriggers ==
  ASSUME TriggerInv, DoSendReports
  PROVE  TriggerInv'
<1>1. PICK e \in events :
        /\ Fires(e, "Send")
        /\ IF active
             THEN \E tx \in [DOMAIN stored -> TxDelays], d \in SendIntervals :
                    /\ events' = ScheduleNextSend(Delivered(Without(events, {e}), tx), d)
                    /\ stored' = Unsent
                    /\ waiting' = 0
             ELSE /\ events' = Without(events, {e})
                  /\ UNCHANGED <<stored, waiting>>
        /\ UNCHANGED <<aborted, terminatorVars, reporterVars, silent>>
  BY DEF DoSendReports
<1> DEFINE E == Without(events, {e})
<1>2. Shaped(E) /\ \A r, l : TriggerIn(events, r, l) => TriggerIn(E, r, l)
  BY <1>1, FiredKeeps DEF TriggerInv, Fires
<1>3. Shaped(events') /\ \A r, l : TriggerIn(events, r, l) => TriggerIn(events', r, l)
  <2> HIDE DEF E
  <2>1. CASE active
    <3>1. PICK tx \in [DOMAIN stored -> TxDelays], d \in SendIntervals :
            events' = ScheduleNextSend(Delivered(E, tx), d)
      BY <1>1, <2>1 DEF E
    <3>2. /\ Shaped(Delivered(E, tx))
          /\ \A r, l : TriggerIn(E, r, l) => TriggerIn(Delivered(E, tx), r, l)
      BY <1>2, DeliveredKeeps
    <3> QED BY <1>2, <3>1, <3>2, NextSendKeeps
  <2>2. CASE ~active
    BY <1>1, <1>2, <2>2 DEF E
  <2> QED BY <2>1, <2>2
<1>4. reporting' = reporting /\ silent' = silent
  BY <1>1 DEF reporterVars
<1>5. \A r \in Periodic : Triggered(r)'
  BY <1>3, <1>4, TriggeredKept DEF TriggerInv
<1> QED BY <1>3, <1>4, <1>5 DEF TriggerInv

\* A response triggers the notified reporters and leaves the others.
LEMMA ResponseKeepsTriggers ==
  ASSUME TriggerInv, NEW i \in Ids, ReceiveRegistrationResponse(i)
  PROVE  TriggerInv'
<1> DEFINE notified == {r \in Initial : reporting[r]}
           periodic == notified \cap Periodic
<1>1. reporting' = reporting
  BY DEF ReceiveRegistrationResponse, reporterVars
<1>2. ASSUME NEW E, Shaped(E), Answered(E, i)
      PROVE  /\ Shaped(events')
             /\ \A r, l : TriggerIn(E, r, l) => TriggerIn(events', r, l)
  BY <1>2, NextSendKeeps DEF Answered, SendTimerStarts
<1>3. CASE Answered(events, i) /\ silent' = silent
  <2>1. /\ Shaped(events')
        /\ \A r, l : TriggerIn(events, r, l) => TriggerIn(events', r, l)
    BY <1>2, <1>3 DEF TriggerInv
  <2>2. \A r \in Periodic : Triggered(r)'
    BY <1>1, <1>3, <2>1, TriggeredKept DEF TriggerInv
  <2> QED BY <1>3, <2>1, <2>2 DEF TriggerInv
<1>4. CASE /\ \E d \in [periodic -> TriggerIntervals] :
                Answered(ScheduleTriggers(events, periodic, d), i)
           /\ Stored(notified)
  <2>1. PICK d \in [periodic -> TriggerIntervals] :
          Answered(ScheduleTriggers(events, periodic, d), i)
    BY <1>4
  <2>2. /\ periodic \in SUBSET Periodic
        /\ \A r \in Periodic : r \in periodic <=> r \in notified
        /\ \A r \in periodic : reporting[r]
    OBVIOUS
  <2>3. silent' = [r \in Reporter |-> IF r \in notified THEN 0 ELSE silent[r]]
    BY <1>4 DEF Stored
  <2> HIDE DEF notified, periodic
  <2>4. /\ Shaped(ScheduleTriggers(events, periodic, d))
        /\ \A r \in periodic : TriggerIn(ScheduleTriggers(events, periodic, d), r, d[r])
        /\ \A r, l : TriggerIn(events, r, l)
                       => TriggerIn(ScheduleTriggers(events, periodic, d), r, l)
    BY <2>2, TriggersKeep DEF TriggerInv
  <2>5. /\ Shaped(events')
        /\ \A r \in periodic : TriggerIn(events', r, d[r])
        /\ \A r, l : TriggerIn(events, r, l) => TriggerIn(events', r, l)
    BY <1>2, <2>1, <2>4
  <2>6. silent' \in [Reporter -> Nat]
    BY <2>3 DEF TriggerInv
  <2>7. ASSUME NEW r \in Periodic
        PROVE  Triggered(r)'
    <3>1. r \in Reporter
      BY ReporterAssumption
    <3>2. CASE r \in periodic
      BY <1>1, <2>2, <2>3, <2>5, <3>1, <3>2, TriggeredAnew
    <3>3. CASE r \notin periodic
      BY <1>1, <2>2, <2>3, <2>5, <3>1, <3>3, TriggeredKept DEF TriggerInv
    <3> QED BY <3>2, <3>3
  <2> QED BY <2>5, <2>6, <2>7 DEF TriggerInv
<1>5. CASE events' = events /\ silent' = silent
  <2>1. \A r \in Periodic : Triggered(r)'
    BY <1>1, <1>5, TriggeredKept DEF TriggerInv
  <2> QED BY <1>5, <2>1 DEF TriggerInv
<1> QED BY <1>3, <1>4, <1>5 DEF ReceiveRegistrationResponse

\* Activation schedules a trigger for every periodic reporter it activates;
\* deactivation ends the reporting.
LEMMA ActivationKeepsTriggers ==
  ASSUME TriggerInv, Activate \/ Deactivate
  PROVE  TriggerInv'
<1>1. silent' = [r \in Reporter |-> 0]
  BY DEF Activate, Deactivate
<1>2. silent' \in [Reporter -> Nat]
  BY <1>1
<1>3. \A r \in Periodic : r \in Reporter /\ silent'[r] = 0
  BY <1>1, ReporterAssumption
<1>4. CASE Activate
  <2> DEFINE periodic == {r \in Periodic : linked[r]}
  <2>1. PICK d \in [periodic -> TriggerIntervals] :
          events' = ScheduleTriggers(events, periodic, d)
    BY <1>4 DEF Activate
  <2>2. /\ periodic \in SUBSET Periodic
        /\ \A r \in Periodic : reporting'[r] = linked[r] /\ (linked[r] <=> r \in periodic)
    BY <1>4 DEF Activate
  <2> HIDE DEF periodic
  <2>3. Shaped(events') /\ \A r \in periodic : TriggerIn(events', r, d[r])
    BY <2>1, <2>2, TriggersKeep DEF TriggerInv
  <2>4. ASSUME NEW r \in Periodic
        PROVE  Triggered(r)'
    <3>1. CASE r \in periodic
      BY <1>3, <2>2, <2>3, <3>1, TriggeredAnew
    <3>2. CASE r \notin periodic
      BY <1>3, <2>2, <3>2 DEF Triggered
    <3> QED BY <3>1, <3>2
  <2> QED BY <1>2, <2>3, <2>4 DEF TriggerInv
<1>5. CASE Deactivate
  <2>1. events' = Without(events, Cancelled(events))
    BY <1>5 DEF Deactivate
  <2>2. Shaped(events')
    BY <2>1, WithoutKeeps DEF TriggerInv, Shaped
  <2>3. \A r \in Periodic : ~reporting'[r]
    BY <1>3, <1>5 DEF Deactivate
  <2>4. \A r \in Periodic : Triggered(r)'
    BY <1>3, <2>3 DEF Triggered
  <2> QED BY <1>2, <2>2, <2>4 DEF TriggerInv
<1> QED BY <1>4, <1>5

\* An active periodic trigger makes its reporter report at least once in the
\* longest trigger interval, whatever happened to its EventId.
THEOREM PeriodicReportersReport == Spec => []KeepsReporting
<1>1. Init => TriggerInv
  BY ReporterAssumption DEF Init, TriggerInv, Triggered, Shaped
<1>2. TriggerInv /\ [Next]_vars => TriggerInv'
  <2> SUFFICES ASSUME TriggerInv, [Next]_vars PROVE TriggerInv'
    OBVIOUS
  <2>1. CASE Tick
    BY <2>1, TickKeepsTriggers
  <2>2. CASE DoSendReports
    BY <2>2, SendKeepsTriggers
  <2>3. CASE TriggerFires
    BY <2>3, TriggerKeepsTriggers
  <2>4. CASE \E i \in Ids : ReceiveRegistrationResponse(i)
    BY <2>4, ResponseKeepsTriggers
  <2>5. CASE Activate \/ Deactivate
    BY <2>5, ActivationKeepsTriggers
  <2>6. CASE ReceiveReport
    <3>1. PICK e \in events : Fires(e, "Delivery") /\ events' = Without(events, {e})
      BY <2>6 DEF ReceiveReport
    <3>2. Shaped(events') /\ \A r, l : TriggerIn(events, r, l) => TriggerIn(events', r, l)
      BY <3>1, FiredKeeps DEF TriggerInv, Fires
    <3>3. reporting' = reporting /\ silent' = silent
      BY <2>6 DEF ReceiveReport, reporterVars
    <3>4. \A r \in Periodic : Triggered(r)'
      BY <3>2, <3>3, TriggeredKept DEF TriggerInv
    <3> QED BY <3>2, <3>3, <3>4 DEF TriggerInv
  <2>7. CASE \E r \in Reporter : TraceFires(r)
    <3>1. PICK q \in Reporter : TraceFires(q)
      BY <2>7
    <3>2. /\ events' = events /\ reporting' = reporting /\ q \notin Periodic
          /\ silent' = [r \in Reporter |-> IF r \in {q} THEN 0 ELSE silent[r]]
      BY <3>1 DEF TraceFires, Stored, reporterVars
    <3>3. \A r \in Periodic : silent'[r] = silent[r]
      BY <3>2, ReporterAssumption
    <3>4. \A r \in Periodic : Triggered(r)'
      BY <3>2, <3>3, TriggeredKept DEF TriggerInv
    <3> QED BY <3>2, <3>4 DEF TriggerInv
  <2>8. CASE \/ \E r \in Reporter : SetTrigger(r)
             \/ Register \/ RequestLost \/ ReceiveDeregistrationResponse
             \/ UNCHANGED vars
    <3>1. events' = events /\ reporting' = reporting /\ silent' = silent
      BY <2>8 DEF SetTrigger, Register, RequestLost,
                  ReceiveDeregistrationResponse, vars, reporterVars
    <3>2. \A r \in Periodic : Triggered(r)'
      BY <3>1, TriggeredKept DEF TriggerInv
    <3> QED BY <3>1, <3>2 DEF TriggerInv
  <2> QED BY <2>1, <2>2, <2>3, <2>4, <2>5, <2>6, <2>7, <2>8 DEF Next
<1>3. TriggerInv => KeepsReporting
  <2> SUFFICES ASSUME TriggerInv, NEW r \in Periodic
               PROVE  \E d \in TriggerIntervals : silent[r] <= d
    BY DEF KeepsReporting
  <2>1. r \in Reporter /\ silent[r] \in Nat
    BY ReporterAssumption DEF TriggerInv
  <2>2. CASE reporting[r]
    BY <2>1, <2>2, DelayAssumption DEF TriggerInv, Triggered
  <2>3. CASE ~reporting[r]
    <3>1. PICK d \in TriggerIntervals : d \in Nat
      BY DelayAssumption
    <3> QED BY <2>3, <3>1 DEF TriggerInv, Triggered
  <2> QED BY <2>2, <2>3
<1> QED BY <1>1, <1>2, <1>3, PTL DEF Spec

-----------------------------------------------------------------------------
(***************************************************************************)
(* Nothing from before a deactivation is sent after it.                    *)
(***************************************************************************)

\* No report under way is stale.
Fresh(E) == \A e \in E : e.what.kind = "Delivery" => ~e.what.report.stale

ElementsOf(s) == {s[i] : i \in DOMAIN s}

\* NoneStaleSent made inductive: what an active terminator has stored was
\* made since it was activated.
StaleInv ==
  /\ Fresh(events)
  /\ stored \in Seq(ElementsOf(stored))
  /\ active => \A p \in ElementsOf(stored) : ~p.stale

\* Timers, and events fired or cancelled, put no report under way.
LEMMA TimersAreFresh ==
  ASSUME NEW E, Fresh(E)
  PROVE  /\ \A C : Fresh(Without(E, C))
         /\ \A d : Fresh(ScheduleNextSend(E, d))
         /\ \A S, d : Fresh(ScheduleTriggers(E, S, d))
<1>1. ASSUME NEW C PROVE Fresh(Without(E, C))
  BY WithoutKeeps DEF Fresh
<1>2. ASSUME NEW C PROVE Fresh(Overwritten(E, C))
  BY DEF Fresh, Overwritten, Forgotten, Send, Trigger
<1>3. ASSUME NEW d PROVE Fresh(ScheduleNextSend(E, d))
  <2> DEFINE O == Overwritten(E, OfKind(E, "Send"))
  <2>1. Fresh(O)
    BY <1>2
  <2>2. ScheduleNextSend(E, d)
          = O \cup {[what |-> Send(TRUE), left |-> d, rank |-> Pending(O, d)]}
    BY DEF ScheduleNextSend, Schedule
  <2> HIDE DEF O
  <2> QED BY <2>1, <2>2 DEF Fresh, Send
<1>4. ASSUME NEW S, NEW d PROVE Fresh(ScheduleTriggers(E, S, d))
  <2> DEFINE O == Overwritten(E, UNION {Triggers(E, r) : r \in S})
             rank(r) == Pending(O, d[r]) + Cardinality({j \in S : j < r /\ d[j] = d[r]})
  <2>1. Fresh(O)
    BY <1>2
  <2>2. ScheduleTriggers(E, S, d)
          = O \cup {[what |-> Trigger(r, TRUE), left |-> d[r], rank |-> rank(r)] : r \in S}
    BY DEF ScheduleTriggers, ScheduleEach
  <2> HIDE DEF O, rank
  <2> QED BY <2>1, <2>2 DEF Fresh, Trigger
<1> QED BY <1>1, <1>3, <1>4

\* Storing new reports adds nothing stale.
LEMMA StoredFresh ==
  ASSUME StaleInv, NEW S, IsFiniteSet(S), Stored(S), active' = active
  PROVE  /\ stored' \in Seq(ElementsOf(stored'))
         /\ active' => \A p \in ElementsOf(stored') : ~p.stale
<1> DEFINE R == ReportsOf(S)
           performing == {r \in S : reporting[r] /\ active}
           n == Cardinality(performing)
           X == ElementsOf(stored) \cup ElementsOf(R)
<1>1. n \in Nat
  <2>1. performing \in SUBSET S
    OBVIOUS
  <2> QED BY <2>1, FS_Subset, FS_CardinalityType
<1>2. R = [i \in 1 .. n |-> NewReport(Nth(performing, i))]
  BY DEF ReportsOf
<1> HIDE DEF n, performing, R
<1>3. DOMAIN R = 1 .. n /\ \A i \in 1 .. n : ~R[i].stale
  BY <1>2 DEF NewReport
<1>4. R \in Seq(X)
  <2>1. R \in [1 .. n -> X]
    BY <1>2, <1>3 DEF ElementsOf
  <2> QED BY <1>1, <2>1, SeqDef
<1>5. stored \in Seq(X)
  BY DEF StaleInv
<1>6. stored' = stored \o R
  BY DEF Stored, R
<1> HIDE DEF X
<1>7. /\ stored' \in Seq(X)
      /\ \A i \in DOMAIN stored' : \/ \E j \in DOMAIN stored : stored'[i] = stored[j]
                                   \/ \E j \in DOMAIN R : stored'[i] = R[j]
  BY <1>4, <1>5, <1>6
<1>8. stored' \in Seq(ElementsOf(stored'))
  BY <1>7 DEF ElementsOf
<1>9. active' => \A p \in ElementsOf(stored') : ~p.stale
  BY <1>3, <1>7 DEF ElementsOf, StaleInv
<1> QED BY <1>8, <1>9

\* A report stored before a deactivation is never sent after it, whatever
\* timers survive the deactivation.
THEOREM NoOldReportSent == Spec => []NoneStaleSent
<1>1. Init => StaleInv
  BY DEF Init, StaleInv, Fresh, ElementsOf
<1>2. StaleInv /\ [Next]_vars => StaleInv'
  <2> SUFFICES ASSUME StaleInv, [Next]_vars PROVE StaleInv'
    OBVIOUS
  <2>1. CASE Tick
    <3>1. Fresh(events')
      BY <2>1 DEF Tick, OneInstantOn, At, Fresh, StaleInv
    <3>2. stored' = stored /\ active' = active
      BY <2>1 DEF Tick, terminatorVars
    <3> QED BY <3>1, <3>2 DEF StaleInv
  <2>2. CASE DoSendReports
    <3>1. PICK e \in events :
            IF active
              THEN \E tx \in [DOMAIN stored -> TxDelays], d \in SendIntervals :
                     /\ events' = ScheduleNextSend(Delivered(Without(events, {e}), tx), d)
                     /\ stored' = Unsent
              ELSE events' = Without(events, {e}) /\ stored' = stored
      BY <2>2 DEF DoSendReports
    <3>2. active' = active
      BY <2>2 DEF DoSendReports, terminatorVars
    <3> DEFINE E == Without(events, {e})
    <3>3. Fresh(E)
      BY TimersAreFresh DEF StaleInv
    <3>4. CASE active
      <4>1. PICK tx \in [DOMAIN stored -> TxDelays], d \in SendIntervals :
              events' = ScheduleNextSend(Delivered(E, tx), d) /\ stored' = Unsent
        BY <3>1, <3>4
      <4> HIDE DEF E
      <4> DEFINE rank(i) == Pending(E, tx[i])
                              + Cardinality({j \in DOMAIN stored : j < i /\ tx[j] = tx[i]})
      <4>2. Delivered(E, tx)
              = E \cup {[what |-> Delivery(stored[i]), left |-> tx[i], rank |-> rank(i)]
                          : i \in DOMAIN stored}
        BY DEF Delivered, ScheduleEach
      <4> HIDE DEF rank
      <4>3. Fresh(Delivered(E, tx))
        BY <3>3, <3>4, <4>2 DEF Fresh, StaleInv, ElementsOf, Delivery
      <4>4. Fresh(events')
        BY <4>1, <4>3, TimersAreFresh
      <4> QED BY <4>1, <4>4 DEF StaleInv, Unsent, ElementsOf
    <3>5. CASE ~active
      BY <3>1, <3>2, <3>3, <3>5 DEF StaleInv
    <3> QED BY <3>4, <3>5
  <2>3. CASE ReceiveReport
    <3>1. Fresh(events')
      BY <2>3, TimersAreFresh DEF ReceiveReport, StaleInv
    <3>2. stored' = stored /\ active' = active
      BY <2>3 DEF ReceiveReport, terminatorVars
    <3> QED BY <3>1, <3>2 DEF StaleInv
  <2>4. CASE TriggerFires
    <3>1. PICK e \in events :
            /\ Fires(e, "Trigger")
            /\ \/ /\ \E d : events' = ScheduleTriggers(Without(events, {e}), {e.what.by}, d)
                  /\ reporting[e.what.by]
                  /\ Stored({e.what.by})
               \/ events' = Without(events, {e}) /\ stored' = stored
      BY <2>4 DEF TriggerFires, Repeated
    <3>2. active' = active
      BY <2>4 DEF TriggerFires, terminatorVars
    <3>3. Fresh(events')
      BY <3>1, TimersAreFresh DEF StaleInv
    <3>4. IsFiniteSet({e.what.by})
      BY FS_Singleton
    <3> QED BY <3>1, <3>2, <3>3, <3>4, StoredFresh DEF StaleInv
  <2>5. CASE \E r \in Reporter : TraceFires(r)
    <3>1. PICK r \in Reporter : TraceFires(r)
      BY <2>5
    <3>2. events' = events /\ active' = active /\ Stored({r}) /\ IsFiniteSet({r})
      BY <3>1, FS_Singleton DEF TraceFires, terminatorVars
    <3> QED BY <3>2, StoredFresh DEF StaleInv
  <2>6. CASE \E i \in Ids : ReceiveRegistrationResponse(i)
    <3>1. PICK i \in Ids : ReceiveRegistrationResponse(i)
      BY <2>6
    <3> DEFINE notified == {r \in Initial : reporting[r]}
    <3>2. active' = active
      BY <3>1 DEF ReceiveRegistrationResponse
    <3>3. ASSUME NEW E, Fresh(E), Answered(E, i)
          PROVE  Fresh(events')
      BY <3>3, TimersAreFresh DEF Answered, SendTimerStarts
    <3>4. Fresh(events')
      BY <3>1, <3>3, TimersAreFresh DEF ReceiveRegistrationResponse, StaleInv
    <3>5. stored' = stored \/ Stored(notified)
      BY <3>1 DEF ReceiveRegistrationResponse
    <3>6. IsFiniteSet(notified)
      <4>1. IsFiniteSet(Reporter)
        BY ReporterAssumption, FS_Interval DEF Reporter
      <4>2. notified \in SUBSET Reporter
        BY ReporterAssumption
      <4> QED BY <4>1, <4>2, FS_Subset
    <3> HIDE DEF notified
    <3> QED BY <3>2, <3>4, <3>5, <3>6, StoredFresh DEF StaleInv
  <2>7. CASE Activate
    <3>1. stored' = <<>> /\ Fresh(events')
      BY <2>7, TimersAreFresh DEF Activate, Cleared, StaleInv
    <3> QED BY <3>1 DEF StaleInv, ElementsOf
  <2>8. CASE Deactivate
    <3>1. Fresh(events') /\ ~active'
      BY <2>8, TimersAreFresh DEF Deactivate, StaleInv
    <3>2. stored' = [i \in DOMAIN stored |-> [stored[i] EXCEPT !.stale = TRUE]]
      BY <2>8 DEF Deactivate
    <3>3. stored' \in Seq(ElementsOf(stored'))
      <4>1. DOMAIN stored = 1 .. Len(stored) /\ Len(stored) \in Nat
        BY DEF StaleInv
      <4>2. stored' \in [1 .. Len(stored) -> ElementsOf(stored')]
        BY <3>2, <4>1 DEF ElementsOf
      <4> QED BY <4>1, <4>2, SeqDef
    <3> QED BY <3>1, <3>3 DEF StaleInv
  <2>9. CASE \/ \E r \in Reporter : SetTrigger(r)
             \/ Register \/ RequestLost \/ ReceiveDeregistrationResponse
             \/ UNCHANGED vars
    <3>1. events' = events /\ stored' = stored /\ active' = active
      BY <2>9 DEF SetTrigger, Register, RequestLost,
                  ReceiveDeregistrationResponse, vars, terminatorVars
    <3> QED BY <3>1 DEF StaleInv
  <2> QED BY <2>1, <2>2, <2>3, <2>4, <2>5, <2>6, <2>7, <2>8, <2>9 DEF Next
<1>3. StaleInv => NoneStaleSent
  BY DEF StaleInv, NoneStaleSent, Fresh, InFlight, OfKind
<1> QED BY <1>1, <1>2, <1>3, PTL DEF Spec

-----------------------------------------------------------------------------
(***************************************************************************)
(* The ranks of the event list.                                            *)
(***************************************************************************)

Instant(E, t) == {e \in E : e.left = t}

\* The events of an instant have the ranks 0, 1, 2, ..., each once.
Ranked(E) ==
  /\ IsFiniteSet(E)
  /\ \A e \in E : /\ e.left \in Nat /\ e.rank \in Nat
                  /\ e.rank < Cardinality(Instant(E, e.left))
  /\ \A e, f \in E : e.left = f.left /\ e.rank = f.rank => e = f

\* The rank of event e when the events in C are gone.
Rank(C, e) == e.rank - Cardinality({c \in C : c.left = e.left /\ c.rank < e.rank})

\* There are at most b - a events with the ranks from a to b - 1.
LEMMA Span ==
  ASSUME NEW E, Ranked(E), NEW X \in SUBSET E, NEW t, NEW a \in Nat, NEW b \in Nat, a <= b,
         \A e \in X : e.left = t /\ a <= e.rank /\ e.rank < b
  PROVE  IsFiniteSet(X) /\ Cardinality(X) \in Nat /\ Cardinality(X) <= b - a
<1> DEFINE f == [e \in X |-> e.rank]
<1>1. f \in Injection(X, a .. b - 1)
  BY DEF Ranked, Injection, IsInjective
<1>2. IsFiniteSet(a .. b - 1) /\ Cardinality(a .. b - 1) = b - a
  <2>1. a \in Int /\ b - 1 \in Int
    OBVIOUS
  <2>2. Cardinality(a .. b - 1) = IF a > b - 1 THEN 0 ELSE b - 1 - a + 1
    BY <2>1, FS_Interval
  <2>3. IsFiniteSet(a .. b - 1)
    BY <2>1, FS_Interval
  <2> QED
    BY <2>2, <2>3
<1>3. IsFiniteSet(X) /\ Cardinality(X) <= Cardinality(a .. b - 1)
  BY <1>1, <1>2, FS_Injection
<1> QED
  BY <1>2, <1>3, FS_CardinalityType

\* Two finite sets have together at most the elements of both.
LEMMA UnionBound ==
  ASSUME NEW A, NEW B, IsFiniteSet(A), IsFiniteSet(B)
  PROVE  /\ IsFiniteSet(A \cup B) /\ Cardinality(A \cup B) \in Nat
         /\ Cardinality(A \cup B) <= Cardinality(A) + Cardinality(B)
<1>1. IsFiniteSet(A \cap B) /\ Cardinality(A \cap B) \in Nat
  BY FS_Subset, FS_CardinalityType
<1>2. Cardinality(A) \in Nat /\ Cardinality(B) \in Nat
  BY FS_CardinalityType
<1>3. IsFiniteSet(A \cup B) /\ Cardinality(A \cup B) \in Nat
  BY FS_Union, FS_CardinalityType
<1>4. Cardinality(A \cup B) = Cardinality(A) + Cardinality(B) - Cardinality(A \cap B)
  BY FS_Union
<1> QED
  BY <1>1, <1>2, <1>3, <1>4

\* Removing events moves the others up, in their order and without gaps.
LEMMA RankMoves ==
  ASSUME NEW E, Ranked(E), NEW C \in SUBSET E, NEW e \in E \ C
  PROVE  /\ Rank(C, e) \in Nat
         /\ \A f \in E \ C : f.left = e.left /\ e.rank < f.rank => Rank(C, e) < Rank(C, f)
         /\ IsFiniteSet(Instant(E \ C, e.left))
         /\ Rank(C, e) < Cardinality(Instant(E \ C, e.left))
<1> DEFINE below == {c \in C : c.left = e.left /\ c.rank < e.rank}
<1>1. e.rank \in Nat /\ e.rank < Cardinality(Instant(E, e.left))
  BY DEF Ranked
<1>2. IsFiniteSet(below) /\ Cardinality(below) \in Nat /\ Cardinality(below) <= e.rank
  <2>1. below \in SUBSET E /\ \A c \in below : c.left = e.left /\ 0 <= c.rank /\ c.rank < e.rank
    BY DEF Ranked
  <2> HIDE DEF below
  <2>2. 0 \in Nat /\ 0 <= e.rank /\ e.rank - 0 = e.rank
    BY <1>1
  <2> QED
    BY <1>1, <2>1, <2>2, Span
<1>3. Rank(C, e) \in Nat
  BY <1>1, <1>2 DEF Rank
<1>4. ASSUME NEW f \in E \ C, f.left = e.left, e.rank < f.rank
      PROVE  Rank(C, e) < Rank(C, f)
  <2> DEFINE between == {c \in C : c.left = e.left /\ e.rank < c.rank /\ c.rank < f.rank}
             lower == {c \in C : c.left = f.left /\ c.rank < f.rank}
  <2>1. f.rank \in Nat
    BY DEF Ranked
  <2>2. /\ between \in SUBSET E
        /\ \A c \in between : c.left = e.left /\ e.rank + 1 <= c.rank /\ c.rank < f.rank
    BY <1>1 DEF Ranked
  <2>3. lower = below \cup between
    BY <1>1, <1>4 DEF Ranked
  <2> HIDE DEF between, below, lower
  <2>4. /\ IsFiniteSet(between) /\ Cardinality(between) \in Nat
        /\ Cardinality(between) <= f.rank - (e.rank + 1)
    <3>1. e.rank + 1 \in Nat /\ e.rank + 1 <= f.rank
      BY <1>1, <1>4, <2>1
    <3> QED
      BY <2>1, <2>2, <3>1, Span
  <2>5. Cardinality(lower) <= Cardinality(below) + Cardinality(between) /\ Cardinality(lower) \in Nat
    BY <1>2, <2>3, <2>4, UnionBound
  <2>6. Rank(C, f) = f.rank - Cardinality(lower) /\ Rank(C, e) = e.rank - Cardinality(below)
    BY DEF Rank, lower, below
  <2> QED
    BY <1>1, <1>2, <2>1, <2>4, <2>5, <2>6
<1>5. /\ IsFiniteSet(Instant(E \ C, e.left))
      /\ Rank(C, e) < Cardinality(Instant(E \ C, e.left))
  <2> DEFINE all == Instant(E, e.left)
             gone == {c \in C : c.left = e.left}
             above == {c \in C : c.left = e.left /\ e.rank < c.rank}
  <2>1. IsFiniteSet(all) /\ Cardinality(all) \in Nat
    BY FS_Subset, FS_CardinalityType DEF Ranked, Instant
  <2>2. /\ above \in SUBSET E
        /\ \A c \in above : c.left = e.left /\ e.rank + 1 <= c.rank /\ c.rank < Cardinality(all)
    BY <1>1 DEF Ranked
  <2>3. gone = below \cup above /\ gone \in SUBSET all /\ Instant(E \ C, e.left) = all \ gone
    BY <1>1 DEF Ranked, Instant
  <2> HIDE DEF all, gone, above, below
  <2>4. /\ IsFiniteSet(above) /\ Cardinality(above) \in Nat
        /\ Cardinality(above) <= Cardinality(all) - (e.rank + 1)
    <3>1. e.rank + 1 \in Nat /\ e.rank + 1 <= Cardinality(all)
      BY <1>1, <2>1 DEF all
    <3> QED
      BY <2>1, <2>2, <3>1, Span
  <2>5. /\ IsFiniteSet(gone) /\ Cardinality(gone) \in Nat
        /\ Cardinality(gone) <= Cardinality(below) + Cardinality(above)
    BY <1>2, <2>3, <2>4, UnionBound
  <2>6. /\ IsFiniteSet(all \ gone)
        /\ Cardinality(all \ gone) = Cardinality(all) - Cardinality(gone)
    <3>1. all \cap gone = gone
      BY <2>3
    <3> QED
      BY <2>1, <3>1, FS_Difference
  <2>7. Rank(C, e) = e.rank - Cardinality(below)
    BY DEF Rank, below
  <2>8. e.rank < Cardinality(all)
    BY <1>1 DEF all
  <2>9. Rank(C, e) < Cardinality(all \ gone)
    BY <1>1, <1>2, <2>1, <2>4, <2>5, <2>6, <2>7, <2>8
  <2> QED
    BY <2>3, <2>6, <2>9
<1> QED
  BY <1>3, <1>4, <1>5

\* Event e at another place carries what it carried.
LEMMA AtFields ==
  ASSUME NEW e, NEW left, NEW rank
  PROVE  /\ At(e, left, rank).left = left /\ At(e, left, rank).rank = rank
         /\ At(e, left, rank).what = e.what
BY DEF At

\* An event list in which an event stands for each event of another, with
\* the events of each instant in the same order.
LEMMA MovedRanked ==
  ASSUME NEW E, IsFiniteSet(E), NEW F, NEW g \in [E -> F], F = {g[e] : e \in E},
         \A e \in E : /\ g[e].left \in Nat /\ g[e].rank \in Nat
                      /\ g[e].rank < Cardinality({f \in E : g[f].left = g[e].left}),
         \A e, f \in E : g[e].left = g[f].left /\ g[e].rank = g[f].rank => e = f
  PROVE  Ranked(F)
<1>1. g \in Surjection(E, F)
  BY DEF Surjection
<1>2. IsFiniteSet(F)
  BY <1>1, FS_Surjection
<1>3. ASSUME NEW e \in E
      PROVE  g[e].rank < Cardinality(Instant(F, g[e].left))
  <2> DEFINE S == {f \in E : g[f].left = g[e].left}
             T == Instant(F, g[e].left)
             h == [f \in S |-> g[f]]
  <2>1. h \in Injection(S, T)
    BY DEF Injection, IsInjective, Instant
  <2>2. IsFiniteSet(T)
    BY <1>2, FS_Subset DEF Instant
  <2>3. IsFiniteSet(S) /\ Cardinality(S) <= Cardinality(T)
    BY <2>1, <2>2, FS_Injection
  <2>4. Cardinality(S) \in Nat /\ Cardinality(T) \in Nat
    BY <2>2, <2>3, FS_CardinalityType
  <2>5. g[e].rank \in Nat /\ g[e].rank < Cardinality(S)
    OBVIOUS
  <2> HIDE DEF S, T
  <2> QED
    BY <2>3, <2>4, <2>5 DEF T
<1> DEFINE fits(e) == /\ g[e].left \in Nat /\ g[e].rank \in Nat
                      /\ g[e].rank < Cardinality(Instant(F, g[e].left))
<1>4. \A e \in E : fits(e)
  BY <1>3
<1> HIDE DEF fits
<1>5. \A x \in F : \E e \in E : x = g[e] /\ fits(e)
  BY <1>4
<1> QED
  BY <1>2, <1>5 DEF Ranked, fits

LEMMA WithoutRanked ==
  ASSUME NEW E, Ranked(E), NEW C \in SUBSET E
  PROVE  Ranked(Without(E, C))
<1> DEFINE F == Without(E, C)
           g == [e \in E \ C |-> At(e, e.left, Rank(C, e))]
<1>1. F = {g[e] : e \in E \ C} /\ g \in [E \ C -> F]
  BY DEF Without, Rank
<1>2. \A e \in E \ C : g[e].left = e.left /\ g[e].rank = Rank(C, e)
  BY AtFields
<1>3. IsFiniteSet(E \ C)
  BY FS_Difference DEF Ranked
<1> HIDE DEF F, g
<1>4. ASSUME NEW e \in E \ C
      PROVE  /\ g[e].left \in Nat /\ g[e].rank \in Nat
             /\ g[e].rank < Cardinality({f \in E \ C : g[f].left = g[e].left})
  <2>1. {f \in E \ C : g[f].left = g[e].left} = Instant(E \ C, e.left)
    BY <1>2 DEF Instant
  <2>2. Rank(C, e) \in Nat /\ Rank(C, e) < Cardinality(Instant(E \ C, e.left))
    BY RankMoves
  <2> QED
    BY <1>2, <2>1, <2>2 DEF Ranked
<1>5. ASSUME NEW e \in E \ C, NEW f \in E \ C, g[e].left = g[f].left, g[e].rank = g[f].rank
      PROVE  e = f
  <2>1. e.left = f.left /\ Rank(C, e) = Rank(C, f)
    BY <1>2, <1>5
  <2>2. Rank(C, e) \in Nat /\ Rank(C, f) \in Nat
    BY RankMoves
  <2>3. \A x, y \in E \ C : x.left = y.left /\ x.rank < y.rank => Rank(C, x) < Rank(C, y)
    BY RankMoves
  <2>4. ~(e.rank < f.rank) /\ ~(f.rank < e.rank)
    BY <2>1, <2>2, <2>3
  <2> QED
    BY <2>1, <2>4 DEF Ranked
<1>6. Ranked(F)
  BY <1>1, <1>3, <1>4, <1>5, MovedRanked
<1> QED
  BY <1>6 DEF F

\* New events after the others of their instants.
LEMMA UnionRanked ==
  ASSUME NEW E, Ranked(E), NEW B, IsFiniteSet(B),
         \A b \in B : /\ b.left \in Nat /\ b.rank \in Nat
                      /\ Cardinality(Instant(E, b.left)) <= b.rank
                      /\ b.rank < Cardinality(Instant(E, b.left))
                                    + Cardinality(Instant(B, b.left)),
         \A b, c \in B : b.left = c.left /\ b.rank = c.rank => b = c
  PROVE  Ranked(E \cup B)
<1>1. IsFiniteSet(E \cup B)
  BY FS_Union DEF Ranked
<1>2. \A e \in E, b \in B : e.left = b.left => e.rank < b.rank
  <2> SUFFICES ASSUME NEW e \in E, NEW b \in B, e.left = b.left
               PROVE  e.rank < b.rank
    OBVIOUS
  <2>1. Cardinality(Instant(E, b.left)) \in Nat
    BY FS_Subset, FS_CardinalityType DEF Ranked, Instant
  <2> QED
    BY <2>1 DEF Ranked
<1>3. \A t : /\ Cardinality(Instant(E \cup B, t))
                  = Cardinality(Instant(E, t)) + Cardinality(Instant(B, t))
             /\ Cardinality(Instant(E, t)) \in Nat /\ Cardinality(Instant(B, t)) \in Nat
  <2> SUFFICES ASSUME NEW t
               PROVE  /\ Cardinality(Instant(E \cup B, t))
                           = Cardinality(Instant(E, t)) + Cardinality(Instant(B, t))
                      /\ Cardinality(Instant(E, t)) \in Nat
                      /\ Cardinality(Instant(B, t)) \in Nat
    OBVIOUS
  <2>1. IsFiniteSet(Instant(E, t)) /\ IsFiniteSet(Instant(B, t))
    BY FS_Subset DEF Ranked, Instant
  <2>2. Instant(E \cup B, t) = Instant(E, t) \cup Instant(B, t)
    BY DEF Instant
  <2>3. Instant(E, t) \cap Instant(B, t) = {}
    <3> SUFFICES ASSUME NEW x \in Instant(E, t) \cap Instant(B, t)
                 PROVE  FALSE
      OBVIOUS
    <3>1. x.rank < x.rank /\ x.rank \in Nat
      BY <1>2 DEF Instant, Ranked
    <3> QED
      BY <3>1
  <2>4. Cardinality(Instant(E, t)) \in Nat /\ Cardinality(Instant(B, t)) \in Nat
    BY <2>1, FS_CardinalityType
  <2>5. Cardinality(Instant(E, t) \cup Instant(B, t))
          = Cardinality(Instant(E, t)) + Cardinality(Instant(B, t)) - Cardinality({})
    BY <2>1, <2>3, FS_Union
  <2>6. Cardinality({}) = 0
    BY FS_EmptySet
  <2>7. Cardinality(Instant(E, t) \cup Instant(B, t))
          = Cardinality(Instant(E, t)) + Cardinality(Instant(B, t))
    BY <2>4, <2>5, <2>6
  <2> QED
    BY <2>2, <2>4, <2>7
<1>4. \A e \in E : e.rank < Cardinality(Instant(E \cup B, e.left))
  BY <1>3 DEF Ranked
<1>5. \A b \in B : b.rank < Cardinality(Instant(E \cup B, b.left))
  BY <1>3
<1>6. \A e, f \in E \cup B : e.left = f.left /\ e.rank = f.rank => e = f
  BY <1>2 DEF Ranked
<1> QED
  BY <1>1, <1>4, <1>5, <1>6 DEF Ranked

\* A scheduled event.
Scheduled(E, delay, what) == [what |-> what, left |-> delay, rank |-> Pending(E, delay)]

LEMMA ScheduleRanked ==
  ASSUME NEW E, Ranked(E), NEW delay \in Nat, NEW what
  PROVE  Ranked(Schedule(E, delay, what))
<1> DEFINE e == Scheduled(E, delay, what)
<1>1. e.left = delay /\ e.rank = Cardinality(Instant(E, delay))
  BY DEF Scheduled, Pending, Instant
<1>2. Schedule(E, delay, what) = E \cup {e}
  BY DEF Schedule, Scheduled
<1> HIDE DEF e
<1>3. IsFiniteSet({e}) /\ Cardinality({e}) = 1
  BY FS_Singleton
<1>4. Instant({e}, e.left) = {e}
  BY DEF Instant
<1>5. Cardinality(Instant(E, delay)) \in Nat
  BY FS_Subset, FS_CardinalityType DEF Ranked, Instant
<1>6. /\ e.left \in Nat /\ e.rank \in Nat
      /\ Cardinality(Instant(E, e.left)) <= e.rank
      /\ e.rank < Cardinality(Instant(E, e.left)) + Cardinality(Instant({e}, e.left))
  BY <1>1, <1>3, <1>4, <1>5
<1> QED
  BY <1>2, <1>3, <1>6, UnionRanked

\* Time passes: the events of an instant stay together.
LEMMA TickRanked ==
  ASSUME NEW E, Ranked(E), \A e \in E : e.left > 0
  PROVE  Ranked(OneInstantOn(E))
<1> DEFINE F == OneInstantOn(E)
           g == [e \in E |-> At(e, e.left - 1, e.rank)]
<1>1. F = {g[e] : e \in E} /\ g \in [E -> F]
  BY DEF OneInstantOn
<1>2. \A e \in E : g[e].left = e.left - 1 /\ g[e].rank = e.rank
  BY AtFields
<1> HIDE DEF F, g
<1>3. ASSUME NEW e \in E
      PROVE  /\ g[e].left \in Nat /\ g[e].rank \in Nat
             /\ g[e].rank < Cardinality({f \in E : g[f].left = g[e].left})
  <2>1. {f \in E : g[f].left = g[e].left} = Instant(E, e.left)
    <3>1. \A f \in E : g[f].left = g[e].left <=> f.left = e.left
      BY <1>2 DEF Ranked
    <3> QED
      BY <3>1 DEF Instant
  <2>2. /\ e.left \in Nat /\ e.left > 0 /\ e.rank \in Nat
        /\ e.rank < Cardinality(Instant(E, e.left))
    BY DEF Ranked
  <2> QED
    BY <1>2, <2>1, <2>2
<1>4. \A e, f \in E : g[e].left = g[f].left /\ g[e].rank = g[f].rank => e = f
  BY <1>2 DEF Ranked
<1>5. IsFiniteSet(E)
  BY DEF Ranked
<1>6. Ranked(F)
  BY <1>1, <1>3, <1>4, <1>5, MovedRanked
<1> QED
  BY <1>6 DEF F

\* Several events scheduled one after the other, in the order of S.
Before(S, d, i) == Cardinality({j \in S : j < i /\ d[j] = d[i]})
One(E, S, d, w, i) ==
  [what |-> w[i], left |-> d[i], rank |-> Pending(E, d[i]) + Before(S, d, i)]
Ones(E, S, d, w) == {One(E, S, d, w, i) : i \in S}

LEMMA BeforeOrder ==
  ASSUME NEW S \in SUBSET Nat, IsFiniteSet(S), NEW d, NEW i \in S
  PROVE  /\ Before(S, d, i) \in Nat
         /\ Before(S, d, i) < Cardinality({j \in S : d[j] = d[i]})
         /\ \A k \in S : d[k] = d[i] /\ i < k => Before(S, d, i) < Before(S, d, k)
<1> DEFINE lower(k) == {j \in S : j < k /\ d[j] = d[k]}
           all == {j \in S : d[j] = d[i]}
<1>1. \A k \in S : IsFiniteSet(lower(k)) /\ Cardinality(lower(k)) \in Nat
  BY FS_Subset, FS_CardinalityType
<1>2. IsFiniteSet(all) /\ Cardinality(all) \in Nat
  BY FS_Subset, FS_CardinalityType
<1>3. Cardinality(lower(i)) < Cardinality(all)
  <2>1. lower(i) \in SUBSET all /\ lower(i) # all
    OBVIOUS
  <2> HIDE DEF lower, all
  <2> QED
    BY <1>1, <1>2, <2>1, FS_Subset
<1>4. ASSUME NEW k \in S, d[k] = d[i], i < k
      PROVE  Cardinality(lower(i)) < Cardinality(lower(k))
  <2>1. lower(i) \in SUBSET lower(k) /\ lower(i) # lower(k)
    <3>1. i \in lower(k) /\ i \notin lower(i)
      BY <1>4
    <3>2. \A j \in S : j < i /\ d[j] = d[i] => j < k /\ d[j] = d[k]
      BY <1>4
    <3> QED
      BY <3>1, <3>2
  <2> HIDE DEF lower
  <2> QED
    BY <1>1, <2>1, FS_Subset
<1> QED
  BY <1>1, <1>3, <1>4 DEF Before

LEMMA OnesRanked ==
  ASSUME NEW E, Ranked(E), NEW S \in SUBSET Nat, IsFiniteSet(S), NEW d \in [S -> Nat], NEW w
  PROVE  Ranked(E \cup Ones(E, S, d, w))
<1> DEFINE B == Ones(E, S, d, w)
           r == [i \in S |-> One(E, S, d, w, i)]
<1>1. \A i \in S : /\ r[i].left = d[i]
                   /\ r[i].rank = Cardinality(Instant(E, d[i])) + Before(S, d, i)
  BY DEF One, Pending, Instant
<1>2. B = {r[i] : i \in S} /\ r \in Surjection(S, B)
  BY DEF Ones, Surjection
<1> HIDE DEF B, r
<1>3. IsFiniteSet(B)
  BY <1>2, FS_Surjection
<1>4. \A t : Cardinality(Instant(E, t)) \in Nat
  BY FS_Subset, FS_CardinalityType DEF Ranked, Instant
<1>5. \A i, k \in S : r[i].left = r[k].left /\ r[i].rank = r[k].rank => i = k
  <2> SUFFICES ASSUME NEW i \in S, NEW k \in S, r[i].left = r[k].left, r[i].rank = r[k].rank
               PROVE  i = k
    OBVIOUS
  <2>1. d[i] = d[k] /\ Cardinality(Instant(E, d[i])) \in Nat
    BY <1>1, <1>4
  <2>2. Before(S, d, i) \in Nat /\ Before(S, d, k) \in Nat
    BY BeforeOrder
  <2>3. Before(S, d, i) = Before(S, d, k)
    BY <1>1, <2>1, <2>2
  <2>4. \A x, y \in S : d[y] = d[x] /\ x < y => Before(S, d, x) < Before(S, d, y)
    BY BeforeOrder
  <2> QED
    BY <2>1, <2>2, <2>3, <2>4
<1>6. ASSUME NEW i \in S
      PROVE  Before(S, d, i) < Cardinality(Instant(B, d[i])) /\ Cardinality(Instant(B, d[i])) \in Nat
  <2> DEFINE all == {j \in S : d[j] = d[i]}
             here == Instant(B, d[i])
             f == [j \in all |-> r[j]]
  <2>1. f \in Injection(all, here)
    BY <1>1, <1>2, <1>5 DEF Injection, IsInjective, Instant
  <2>2. IsFiniteSet(here)
    BY <1>3, FS_Subset DEF Instant
  <2>3. IsFiniteSet(all) /\ Cardinality(all) <= Cardinality(here)
    BY <2>1, <2>2, FS_Injection
  <2>4. Cardinality(all) \in Nat /\ Cardinality(here) \in Nat
    BY <2>2, <2>3, FS_CardinalityType
  <2>5. Before(S, d, i) \in Nat /\ Before(S, d, i) < Cardinality(all)
    BY BeforeOrder
  <2> HIDE DEF all
  <2> QED
    BY <2>3, <2>4, <2>5
<1> DEFINE fits(b) == /\ b.left \in Nat /\ b.rank \in Nat
                      /\ Cardinality(Instant(E, b.left)) <= b.rank
                      /\ b.rank < Cardinality(Instant(E, b.left))
                                    + Cardinality(Instant(B, b.left))
<1>7. \A i \in S : fits(r[i])
  <2> SUFFICES ASSUME NEW i \in S
               PROVE  fits(r[i])
    OBVIOUS
  <2>1. Before(S, d, i) \in Nat
    BY BeforeOrder
  <2> QED
    BY <1>1, <1>4, <1>6, <2>1
<1>8. \A b \in B : fits(b)
  BY <1>2, <1>7
<1>9. \A b, c \in B : b.left = c.left /\ b.rank = c.rank => b = c
  BY <1>2, <1>5
<1> HIDE DEF fits
<1>10. Ranked(E \cup B)
  BY <1>3, <1>8, <1>9, UnionRanked DEF fits
<1> QED
  BY <1>10 DEF B

\* Overwriting EventId members moves no event.
LEMMA OverwrittenRanked ==
  ASSUME NEW E, Ranked(E), NEW C \in SUBSET E
  PROVE  Ranked(Overwritten(E, C))
<1> DEFINE F == Overwritten(E, C)
           after(e) == [what |-> Forgotten(e.what), left |-> e.left, rank |-> e.rank]
           g == [e \in E |-> IF e \in C THEN after(e) ELSE e]
<1>1. F = {g[e] : e \in E} /\ g \in [E -> F]
  BY DEF Overwritten
<1>2. \A e \in E : g[e].left = e.left /\ g[e].rank = e.rank
  OBVIOUS
<1> HIDE DEF F, g
<1>3. ASSUME NEW e \in E
      PROVE  /\ g[e].left \in Nat /\ g[e].rank \in Nat
             /\ g[e].rank < Cardinality({f \in E : g[f].left = g[e].left})
  <2>1. {f \in E : g[f].left = g[e].left} = Instant(E, e.left)
    BY <1>2 DEF Instant
  <2> QED
    BY <1>2, <2>1 DEF Ranked
<1>4. \A e, f \in E : g[e].left = g[f].left /\ g[e].rank = g[f].rank => e = f
  BY <1>2 DEF Ranked
<1>5. IsFiniteSet(E)
  BY DEF Ranked
<1>6. Ranked(F)
  BY <1>1, <1>3, <1>4, <1>5, MovedRanked
<1> QED
  BY <1>6 DEF F

-----------------------------------------------------------------------------
(***************************************************************************)
(* Types, and what an event list holds once only.                          *)
(***************************************************************************)

\* What an event list must not hold twice: the event of an EventId member,
\* and the delivery of a report.
Clash(v, w) ==
  /\ v.kind = w.kind
  /\ \/ v.kind = "Send" /\ v.member /\ w.member
     \/ v.kind = "Trigger" /\ v.by = w.by /\ v.member /\ w.member
     \/ v.kind = "Delivery" /\ v.report = w.report

Unique(E) == \A e, f \in E : Clash(e.what, f.what) => e = f

Listed(E) == E \subseteq EventOf(What) /\ Ranked(E) /\ Unique(E)

\* The kinds of events.
LEMMA WhatKinds ==
  ASSUME NEW w \in What
  PROVE  \/ w = Send(w.member) /\ w.member \in BOOLEAN
         \/ w = Trigger(w.by, w.member) /\ w.member \in BOOLEAN /\ w.by \in Periodic
         \/ w = Delivery(w.report) /\ w.report \in Report
BY DEF What, Send, Trigger, Delivery

LEMMA KindsAreWhat ==
  /\ \A m \in BOOLEAN : Send(m) \in What
  /\ \A r \in Periodic, m \in BOOLEAN : Trigger(r, m) \in What
  /\ \A p \in Report : Delivery(p) \in What
BY DEF What, Send, Trigger, Delivery

LEMMA InFlightDef ==
  ASSUME NEW E, NEW p
  PROVE  p \in InFlight(E) <=> \E e \in E : e.what.kind = "Delivery" /\ e.what.report = p
BY DEF InFlight, OfKind

\* Events that moved within the list.
LEMMA MovedUnique ==
  ASSUME NEW E, E \subseteq EventOf(What), Unique(E), NEW F, Ranked(F),
         NEW g \in [E -> F], F = {g[e] : e \in E}, \A e \in E : g[e].what = e.what,
         \A e \in E : g[e] = [what |-> g[e].what, left |-> g[e].left, rank |-> g[e].rank]
  PROVE  Listed(F) /\ InFlight(F) = InFlight(E)
<1>1. \A x \in F : \E e \in E : x = g[e]
  OBVIOUS
<1>2. Unique(F)
  BY <1>1 DEF Unique
<1>3. \A p : p \in InFlight(F) <=> p \in InFlight(E)
  BY <1>1, InFlightDef
<1>4. ASSUME NEW e \in E PROVE g[e] \in EventOf(What)
  <2>1. g[e].what \in What /\ g[e].left \in Nat /\ g[e].rank \in Nat
    BY DEF EventOf, Ranked
  <2>2. [what |-> g[e].what, left |-> g[e].left, rank |-> g[e].rank] \in EventOf(What)
    BY <2>1 DEF EventOf
  <2> QED
    BY <2>2
<1> QED
  BY <1>1, <1>2, <1>3, <1>4 DEF Listed

LEMMA TickListed ==
  ASSUME NEW E, Listed(E), NothingDue(E)
  PROVE  Listed(OneInstantOn(E)) /\ InFlight(OneInstantOn(E)) = InFlight(E)
<1> DEFINE F == OneInstantOn(E)
           g == [e \in E |-> At(e, e.left - 1, e.rank)]
<1>1. F = {g[e] : e \in E} /\ g \in [E -> F]
  BY DEF OneInstantOn
<1>2. \A e \in E : /\ g[e].what = e.what
                   /\ g[e] = [what |-> g[e].what, left |-> g[e].left, rank |-> g[e].rank]
  BY DEF At
<1>3. Ranked(F)
  BY TickRanked DEF Listed, NothingDue
<1> HIDE DEF F, g
<1> QED
  BY <1>1, <1>2, <1>3, MovedUnique DEF Listed, F

\* Fewer events have less to clash.
LEMMA SubsetUnique ==
  ASSUME NEW E, Listed(E), NEW F \in SUBSET E
  PROVE  F \subseteq EventOf(What) /\ Unique(F) /\ InFlight(F) \subseteq InFlight(E)
BY InFlightDef DEF Listed, Unique

LEMMA WithoutListed ==
  ASSUME NEW E, Listed(E), NEW C \in SUBSET E
  PROVE  Listed(Without(E, C)) /\ InFlight(Without(E, C)) = InFlight(E \ C)
<1> DEFINE F == Without(E, C)
           D == E \ C
           g == [e \in D |-> At(e, e.left, Rank(C, e))]
<1>1. F = {g[e] : e \in D} /\ g \in [D -> F]
  BY DEF Without, Rank
<1>2. \A e \in D : /\ g[e].what = e.what
                   /\ g[e] = [what |-> g[e].what, left |-> g[e].left, rank |-> g[e].rank]
  BY DEF At
<1>3. Ranked(F)
  BY WithoutRanked DEF Listed
<1>4. D \subseteq EventOf(What) /\ Unique(D)
  BY SubsetUnique
<1> HIDE DEF F, g, D
<1>5. Listed(F) /\ InFlight(F) = InFlight(D)
  BY <1>1, <1>2, <1>3, <1>4, MovedUnique
<1> QED
  BY <1>5 DEF F, D

\* Overwriting EventId members of sends or triggers leaves none that refers
\* to an event overwritten.
LEMMA OverwrittenListed ==
  ASSUME NEW E, Listed(E), NEW C \in SUBSET E,
         \A e \in C : e.what.kind \in {"Send", "Trigger"}
  PROVE  /\ Listed(Overwritten(E, C)) /\ InFlight(Overwritten(E, C)) = InFlight(E)
         /\ \A x \in Overwritten(E, C) : x \in E \ C \/ (x.what.kind # "Delivery" /\ ~x.what.member)
<1> DEFINE F == Overwritten(E, C)
           after(e) == [what |-> Forgotten(e.what), left |-> e.left, rank |-> e.rank]
<1>1. \A x \in F : x \in E \ C \/ \E e \in C : x = after(e)
  BY DEF Overwritten
<1>2. E \ C \subseteq F
  BY DEF Overwritten
<1>3. ASSUME NEW e \in C
      PROVE  /\ after(e).what \in What /\ ~after(e).what.member
             /\ after(e).what.kind \in {"Send", "Trigger"}
             /\ after(e) \in EventOf(What)
  <2>1. e.what \in What /\ e.left \in Nat /\ e.rank \in Nat
    BY DEF Listed, EventOf
  <2>2. Forgotten(e.what) = Send(FALSE)
          \/ (Forgotten(e.what) = Trigger(e.what.by, FALSE) /\ e.what.by \in Periodic)
    <3>1. CASE e.what.kind = "Send"
      BY <3>1 DEF Forgotten
    <3>2. CASE e.what.kind = "Trigger"
      <4>1. e.what.by \in Periodic
        BY <2>1, <3>2 DEF What
      <4> QED
        BY <3>2, <4>1 DEF Forgotten
    <3> QED
      BY <3>1, <3>2
  <2>3. /\ Forgotten(e.what) \in What /\ ~Forgotten(e.what).member
        /\ Forgotten(e.what).kind \in {"Send", "Trigger"}
    <3>1. CASE Forgotten(e.what) = Send(FALSE)
      <4>1. Send(FALSE) \in What
        BY KindsAreWhat
      <4>2. ~Send(FALSE).member /\ Send(FALSE).kind = "Send"
        BY DEF Send
      <4> QED
        BY <3>1, <4>1, <4>2
    <3>2. CASE Forgotten(e.what) = Trigger(e.what.by, FALSE) /\ e.what.by \in Periodic
      <4>1. Trigger(e.what.by, FALSE) \in What
        BY <3>2, KindsAreWhat
      <4>2. ~Trigger(e.what.by, FALSE).member /\ Trigger(e.what.by, FALSE).kind = "Trigger"
        BY DEF Trigger
      <4> QED
        BY <3>2, <4>1, <4>2
    <3> QED
      BY <2>2, <3>1, <3>2
  <2> QED
    BY <2>1, <2>3 DEF EventOf
<1>4. Ranked(F)
  BY OverwrittenRanked DEF Listed
<1> HIDE DEF F, after
<1>5. F \subseteq EventOf(What)
  BY <1>1, <1>3 DEF Listed
<1>6. \A x \in F : x \in E \ C \/ (x.what.kind \in {"Send", "Trigger"} /\ ~x.what.member)
  BY <1>1, <1>3
<1>7. Unique(F)
  BY <1>6 DEF Unique, Clash, Listed
<1>8. \A p : p \in InFlight(F) <=> p \in InFlight(E)
  BY <1>2, <1>6, InFlightDef
<1> QED
  BY <1>4, <1>5, <1>6, <1>7, <1>8 DEF Listed, F

\* A new event that clashes with none.
LEMMA AddedUnique ==
  ASSUME NEW E, Unique(E), NEW B, Unique(B),
         \A e \in E, b \in B : ~Clash(e.what, b.what) /\ ~Clash(b.what, e.what)
  PROVE  Unique(E \cup B)
BY DEF Unique

LEMMA NextSendListed ==
  ASSUME NEW E, Listed(E), NEW d \in SendIntervals
  PROVE  Listed(ScheduleNextSend(E, d)) /\ InFlight(ScheduleNextSend(E, d)) = InFlight(E)
<1> DEFINE C == OfKind(E, "Send")
           O == Overwritten(E, C)
           new == [what |-> Send(TRUE), left |-> d, rank |-> Pending(O, d)]
           F == ScheduleNextSend(E, d)
<1>1. /\ Listed(O) /\ InFlight(O) = InFlight(E)
      /\ \A x \in O : x \in E \ C \/ (x.what.kind # "Delivery" /\ ~x.what.member)
  BY OverwrittenListed DEF OfKind
<1>2. F = O \cup {new} /\ F = Schedule(O, d, Send(TRUE))
  BY DEF ScheduleNextSend, Schedule
<1>3. new.what = Send(TRUE) /\ new.left = d /\ d \in Nat
  BY DelayAssumption
<1>4. new = [what |-> new.what, left |-> new.left, rank |-> new.rank]
  OBVIOUS
<1>5. \A x \in E \ C : x.what.kind # "Send"
  BY DEF OfKind
<1> HIDE DEF C, O, new, F
<1>6. Ranked(F)
  BY <1>1, <1>2, <1>3, ScheduleRanked DEF Listed
<1>7. F \subseteq EventOf(What)
  <2>1. new.what \in What
    BY <1>3, KindsAreWhat
  <2>2. new.rank \in Nat
    BY <1>2, <1>6 DEF Ranked
  <2>3. new \in EventOf(What)
    BY <1>3, <1>4, <2>1, <2>2 DEF EventOf
  <2> QED
    BY <1>1, <1>2, <2>3 DEF Listed
<1>8. Unique(F)
  <2>1. Unique({new})
    BY DEF Unique
  <2>2. \A x \in O : ~(x.what.kind = "Send" /\ x.what.member)
    BY <1>1, <1>5
  <2>3. \A x \in O : ~Clash(x.what, new.what) /\ ~Clash(new.what, x.what)
    BY <1>3, <2>2 DEF Clash, Send
  <2> QED
    BY <1>1, <1>2, <2>1, <2>3, AddedUnique DEF Listed
<1>9. \A p : p \in InFlight(F) <=> p \in InFlight(O)
  BY <1>2, <1>3, InFlightDef DEF Send
<1> QED
  BY <1>1, <1>6, <1>7, <1>8, <1>9 DEF Listed, F

LEMMA TriggersListed ==
  ASSUME NEW E, Listed(E), NEW S \in SUBSET Periodic, NEW d \in [S -> TriggerIntervals]
  PROVE  Listed(ScheduleTriggers(E, S, d)) /\ InFlight(ScheduleTriggers(E, S, d)) = InFlight(E)
<1> DEFINE C == UNION {Triggers(E, r) : r \in S}
           O == Overwritten(E, C)
           w == [r \in S |-> Trigger(r, TRUE)]
           B == Ones(O, S, d, w)
           F == ScheduleTriggers(E, S, d)
<1>1. /\ Listed(O) /\ InFlight(O) = InFlight(E)
      /\ \A x \in O : x \in E \ C \/ (x.what.kind # "Delivery" /\ ~x.what.member)
  <2>1. C \in SUBSET E /\ \A e \in C : e.what.kind \in {"Send", "Trigger"}
    BY DEF Triggers, OfKind
  <2> QED
    BY <2>1, OverwrittenListed
<1>2. F = O \cup B
  BY DEF ScheduleTriggers, ScheduleEach, Ones, One, Before
<1>3. \A x \in B : \E r \in S : x = One(O, S, d, w, r)
  BY DEF Ones
<1>4. \A r \in S : /\ One(O, S, d, w, r).what = Trigger(r, TRUE)
                   /\ One(O, S, d, w, r).left = d[r]
                   /\ One(O, S, d, w, r) = [what |-> One(O, S, d, w, r).what,
                                            left |-> One(O, S, d, w, r).left,
                                            rank |-> One(O, S, d, w, r).rank]
  BY DEF One
<1>5. \A x \in E \ C : x.what.kind = "Trigger" => x.what.by \notin S
  BY DEF Triggers, OfKind
<1>6. d \in [S -> Nat] /\ S \in SUBSET Nat /\ IsFiniteSet(S)
  <2>1. IsFiniteSet(Reporter) /\ Reporter \subseteq Nat
    BY ReporterAssumption, FS_Interval DEF Reporter
  <2>2. S \in SUBSET Reporter
    BY ReporterAssumption
  <2> QED
    BY <2>1, <2>2, FS_Subset, DelayAssumption
<1> HIDE DEF C, O, w, B, F
<1>7. Ranked(F)
  BY <1>1, <1>2, <1>6, OnesRanked DEF Listed, B
<1>8. F \subseteq EventOf(What)
  <2> SUFFICES ASSUME NEW x \in B PROVE x \in EventOf(What)
    BY <1>1, <1>2 DEF Listed
  <2>1. PICK r \in S : x = One(O, S, d, w, r)
    BY <1>3
  <2>2. x.what = Trigger(r, TRUE) /\ x = [what |-> x.what, left |-> x.left, rank |-> x.rank]
    BY <1>4, <2>1
  <2>3. x.what \in What
    BY <2>2, KindsAreWhat
  <2>4. x.left \in Nat /\ x.rank \in Nat
    BY <1>2, <1>7 DEF Ranked
  <2> QED
    BY <2>2, <2>3, <2>4 DEF EventOf
<1>9. Unique(F)
  <2>1. \A x \in B : \E r \in S : x = One(O, S, d, w, r) /\ x.what = Trigger(r, TRUE)
    BY <1>3, <1>4
  <2>2. Unique(B)
    <3> SUFFICES ASSUME NEW x \in B, NEW y \in B, Clash(x.what, y.what) PROVE x = y
      BY DEF Unique
    <3>1. PICK r \in S : x = One(O, S, d, w, r) /\ x.what = Trigger(r, TRUE)
      BY <2>1
    <3>2. PICK q \in S : y = One(O, S, d, w, q) /\ y.what = Trigger(q, TRUE)
      BY <2>1
    <3>3. r = q
      BY <3>1, <3>2 DEF Clash, Trigger
    <3> QED
      BY <3>1, <3>2, <3>3
  <2>3. \A x \in O : ~(x.what.kind = "Trigger" /\ x.what.by \in S /\ x.what.member)
    BY <1>1, <1>5
  <2>4. ASSUME NEW x \in O, NEW b \in B
        PROVE  ~Clash(x.what, b.what) /\ ~Clash(b.what, x.what)
    <3>1. PICK r \in S : b.what = Trigger(r, TRUE)
      BY <2>1
    <3>2. ~(x.what.kind = "Trigger" /\ x.what.by = r /\ x.what.member)
      BY <2>3
    <3> QED
      BY <3>1, <3>2 DEF Clash, Trigger
  <2> QED
    BY <1>1, <1>2, <2>2, <2>4, AddedUnique DEF Listed
<1>10. \A p : p \in InFlight(F) <=> p \in InFlight(O)
  <2>1. ASSUME NEW x \in B PROVE x.what.kind = "Trigger"
    <3>1. PICK r \in S : x = One(O, S, d, w, r)
      BY <1>3
    <3>2. x.what = Trigger(r, TRUE)
      BY <1>4, <3>1
    <3> QED
      BY <3>2 DEF Trigger
  <2>2. \A x \in F : x.what.kind = "Delivery" => x \in O
    BY <1>2, <2>1
  <2>3. O \subseteq F
    BY <1>2
  <2> QED
    BY <2>2, <2>3, InFlightDef
<1> QED
  BY <1>1, <1>7, <1>8, <1>9, <1>10 DEF Listed, F

\* No report is stored twice.
Distinct(s) == \A i, j \in DOMAIN s : s[i] = s[j] => i = j

\* Sending what is stored, each report once and none that is under way.
LEMMA DeliveredListed ==
  ASSUME NEW E, Listed(E), stored \in Seq(Report), Distinct(stored),
         \A i \in DOMAIN stored : stored[i] \notin InFlight(E),
         NEW tx \in [DOMAIN stored -> TxDelays]
  PROVE  /\ Listed(Delivered(E, tx))
         /\ \A p \in InFlight(Delivered(E, tx)) :
              p \in InFlight(E) \/ \E i \in DOMAIN stored : p = stored[i]
<1> DEFINE S == DOMAIN stored
           w == [i \in S |-> Delivery(stored[i])]
           B == Ones(E, S, tx, w)
           F == Delivered(E, tx)
<1>1. F = E \cup B
  BY DEF Delivered, ScheduleEach, Ones, One, Before
<1>2. \A x \in B : \E i \in S : x = One(E, S, tx, w, i)
  BY DEF Ones
<1>3. \A i \in S : /\ One(E, S, tx, w, i).what = Delivery(stored[i])
                   /\ One(E, S, tx, w, i).left = tx[i]
                   /\ One(E, S, tx, w, i) = [what |-> One(E, S, tx, w, i).what,
                                             left |-> One(E, S, tx, w, i).left,
                                             rank |-> One(E, S, tx, w, i).rank]
  BY DEF One
<1>4. tx \in [S -> Nat] /\ S \in SUBSET Nat /\ IsFiniteSet(S)
  <2>1. S = 1 .. Len(stored) /\ Len(stored) \in Nat
    OBVIOUS
  <2>2. tx \in [S -> Nat]
    BY DelayAssumption
  <2> HIDE DEF S
  <2>3. S \in SUBSET Nat /\ IsFiniteSet(S)
    BY <2>1, FS_Interval
  <2> QED
    BY <2>2, <2>3
<1> HIDE DEF w, B, F
<1>5. Ranked(F)
  <2> HIDE DEF S
  <2> QED
    BY <1>1, <1>4, OnesRanked DEF Listed, B
<1>6. \A x \in B : \E i \in S : /\ x.what = Delivery(stored[i])
                                /\ x = One(E, S, tx, w, i)
                                /\ x = [what |-> x.what, left |-> x.left, rank |-> x.rank]
  BY <1>2, <1>3
<1>7. F \subseteq EventOf(What)
  <2> SUFFICES ASSUME NEW x \in B PROVE x \in EventOf(What)
    BY <1>1 DEF Listed
  <2>1. PICK i \in S : x.what = Delivery(stored[i])
                       /\ x = [what |-> x.what, left |-> x.left, rank |-> x.rank]
    BY <1>6
  <2>2. stored[i] \in Report
    OBVIOUS
  <2>3. x.what \in What
    BY <2>1, <2>2, KindsAreWhat
  <2>4. x.left \in Nat /\ x.rank \in Nat
    BY <1>1, <1>5 DEF Ranked
  <2> QED
    BY <2>1, <2>3, <2>4 DEF EventOf
<1>8. Unique(F)
  <2>1. Unique(B)
    <3> SUFFICES ASSUME NEW x \in B, NEW y \in B, Clash(x.what, y.what) PROVE x = y
      BY DEF Unique
    <3>1. PICK i \in S : x.what = Delivery(stored[i]) /\ x = One(E, S, tx, w, i)
      BY <1>6
    <3>2. PICK j \in S : y.what = Delivery(stored[j]) /\ y = One(E, S, tx, w, j)
      BY <1>6
    <3>3. stored[i] = stored[j]
      BY <3>1, <3>2 DEF Clash, Delivery
    <3> QED
      BY <3>1, <3>2, <3>3 DEF Distinct
  <2>2. ASSUME NEW e \in E, NEW b \in B
        PROVE  ~Clash(e.what, b.what) /\ ~Clash(b.what, e.what)
    <3>1. PICK i \in S : b.what = Delivery(stored[i])
      BY <1>6
    <3>2. ~(e.what.kind = "Delivery" /\ e.what.report = stored[i])
      BY InFlightDef
    <3> QED
      BY <3>1, <3>2 DEF Clash, Delivery
  <2> QED
    BY <1>1, <2>1, <2>2, AddedUnique DEF Listed
<1>9. ASSUME NEW p \in InFlight(F)
      PROVE  p \in InFlight(E) \/ \E i \in DOMAIN stored : p = stored[i]
  <2>1. PICK x \in F : x.what.kind = "Delivery" /\ x.what.report = p
    BY InFlightDef
  <2>2. CASE x \in E
    BY <2>1, <2>2, InFlightDef
  <2>3. CASE x \in B
    <3>1. PICK i \in S : x.what = Delivery(stored[i])
      BY <1>6, <2>3
    <3> QED
      BY <2>1, <3>1 DEF Delivery
  <2> QED
    BY <1>1, <2>2, <2>3
<1> QED
  BY <1>5, <1>7, <1>8, <1>9 DEF Listed, F

-----------------------------------------------------------------------------
(***************************************************************************)
(* New reports.                                                            *)
(***************************************************************************)

LEMMA ImageFinite ==
  ASSUME NEW S, IsFiniteSet(S), NEW f
  PROVE  IsFiniteSet({f[x] : x \in S})
<1> DEFINE T == {f[x] : x \in S}
           g == [x \in S |-> f[x]]
<1>1. g \in Surjection(S, T)
  BY DEF Surjection
<1> HIDE DEF T, g
<1>2. IsFiniteSet(T)
  BY <1>1, FS_Surjection
<1> QED
  BY <1>2 DEF T

\* A finite set of numbers leaves a first number free.
LEMMA FirstFree ==
  ASSUME NEW U \in SUBSET Nat, IsFiniteSet(U)
  PROVE  \E k \in 0 .. Cardinality(U) : k \notin U /\ \A j \in 0 .. k - 1 : j \in U
<1> DEFINE size == Cardinality(U)
           free == {k \in Nat : k <= size /\ k \notin U}
<1>1. size \in Nat
  BY FS_CardinalityType
<1>2. free # {}
  <2> SUFFICES ASSUME free = {} PROVE FALSE
    OBVIOUS
  <2> HIDE DEF size
  <2>1. 0 .. size \in SUBSET U
    BY <1>1
  <2>2. Cardinality(0 .. size) <= size
    BY <2>1, FS_Subset DEF size
  <2>3. Cardinality(0 .. size) = IF 0 > size THEN 0 ELSE size - 0 + 1
    <3>1. 0 \in Int /\ size \in Int
      BY <1>1
    <3> QED
      BY <3>1, FS_Interval
  <2> QED
    BY <1>1, <2>2, <2>3
<1>3. free \subseteq Nat
  OBVIOUS
<1>4. PICK k \in free : \A j \in free : ~(<<j, k>> \in OpToRel(<, Nat))
  <2> HIDE DEF free
  <2> QED
    BY <1>2, <1>3, NatLessThanWellFounded, WFMin, Zenon
<1>5. \A j \in free : ~(j < k)
  BY <1>3, <1>4 DEF OpToRel
<1>6. k \in 0 .. size /\ k \notin U
  BY <1>1
<1>7. \A j \in 0 .. k - 1 : j \in U
  <2> SUFFICES ASSUME NEW j \in 0 .. k - 1, j \notin U PROVE FALSE
    OBVIOUS
  <2>1. j \in Nat /\ j < k /\ j <= size
    BY <1>1, <1>6
  <2> QED
    BY <1>5, <2>1
<1> QED
  BY <1>6, <1>7

\* A new report differs from all that are stored or under way.
LEMMA NewReportIsNew ==
  ASSUME Listed(events), stored \in Seq(Report), NEW r \in Reporter
  PROVE  /\ NewReport(r) \in Report /\ NewReport(r).by = r /\ ~NewReport(r).stale
         /\ NewReport(r) \notin InFlight(events)
         /\ \A i \in DOMAIN stored : stored[i] # NewReport(r)
<1> DEFINE all == {q \in ToSet(stored) \cup InFlight(events) : q.by = r}
           used == {p.no : p \in all}
           free(k) == k \notin used /\ \A j \in 0 .. k - 1 : j \in used
           no == CHOOSE k \in 0 .. Cardinality(used) : free(k)
<1>1. ToSet(stored) \subseteq Report /\ IsFiniteSet(ToSet(stored))
  <2>1. ToSet(stored) = {stored[i] : i \in DOMAIN stored}
    BY DEF ToSet
  <2>2. DOMAIN stored = 1 .. Len(stored) /\ Len(stored) \in Nat
    OBVIOUS
  <2>3. IsFiniteSet(DOMAIN stored)
    BY <2>2, FS_Interval
  <2> QED
    BY <2>1, <2>3, ImageFinite
<1>2. InFlight(events) \subseteq Report /\ IsFiniteSet(InFlight(events))
  <2> DEFINE D == OfKind(events, "Delivery")
             f == [e \in D |-> e.what.report]
  <2>1. D \in SUBSET events /\ \A e \in D : e.what.kind = "Delivery" /\ e.what \in What
    BY DEF OfKind, Listed, EventOf
  <2>2. IsFiniteSet(D)
    BY <2>1, FS_Subset DEF Listed, Ranked
  <2>3. \A e \in D : f[e] \in Report
    BY <2>1 DEF What
  <2>4. InFlight(events) = {f[e] : e \in D}
    BY DEF InFlight
  <2> HIDE DEF D, f
  <2> QED
    BY <2>2, <2>3, <2>4, ImageFinite
<1>3. all \subseteq Report /\ IsFiniteSet(all)
  <2>1. IsFiniteSet(ToSet(stored) \cup InFlight(events))
    BY <1>1, <1>2, FS_Union
  <2> QED
    BY <1>1, <1>2, <2>1, FS_Subset
<1> HIDE DEF all
<1>4. used \in SUBSET Nat /\ IsFiniteSet(used)
  <2> DEFINE f == [p \in all |-> p.no]
  <2>1. used = {f[p] : p \in all}
    OBVIOUS
  <2>2. used \subseteq Nat
    BY <1>3 DEF Report
  <2> HIDE DEF f, used
  <2> QED
    BY <1>3, <2>1, <2>2, ImageFinite
<1>5. no \in 0 .. Cardinality(used) /\ free(no)
  <2>1. \E k \in 0 .. Cardinality(used) : free(k)
    <3> HIDE DEF used
    <3> QED
      BY <1>4, FirstFree
  <2> HIDE DEF free
  <2> QED
    BY <2>1
<1>6. no \in Nat /\ no \notin used
  <2>1. no \notin used
    BY <1>5
  <2> HIDE DEF no, used, free
  <2>2. Cardinality(used) \in Nat
    BY <1>4, FS_CardinalityType
  <2> QED
    BY <1>5, <2>1, <2>2
<1>7. NewReport(r) = [by |-> r, stale |-> FALSE, no |-> no]
  BY DEF NewReport, all
<1> HIDE DEF no, free
<1>8. NewReport(r) \in Report /\ NewReport(r).by = r /\ ~NewReport(r).stale
      /\ NewReport(r).no = no
  BY <1>6, <1>7 DEF Report
<1>9. NewReport(r) \notin ToSet(stored) \cup InFlight(events)
  <2> SUFFICES ASSUME NewReport(r) \in ToSet(stored) \cup InFlight(events) PROVE FALSE
    OBVIOUS
  <2>1. NewReport(r) \in all
    BY <1>8 DEF all
  <2>2. NewReport(r).no \in used
    BY <2>1
  <2> HIDE DEF used
  <2> QED
    BY <1>6, <1>8, <2>2
<1>10. \A i \in DOMAIN stored : stored[i] \in ToSet(stored)
  BY DEF ToSet
<1> QED
  BY <1>8, <1>9, <1>10

\* The n-th of a finite set of numbers, for each n.
LEMMA NthOrder ==
  ASSUME NEW K \in SUBSET Nat, IsFiniteSet(K)
  PROVE  /\ \A n \in 1 .. Cardinality(K) : Nth(K, n) \in K
         /\ \A m, n \in 1 .. Cardinality(K) : Nth(K, m) = Nth(K, n) => m = n
<1> DEFINE size == Cardinality(K)
           below(k) == {j \in K : j < k}
<1>1. size \in Nat
  BY FS_CardinalityType
<1> HIDE DEF size
<1> DEFINE pos == [k \in K |-> Cardinality(below(k))]
<1>2. \A k \in K : pos[k] = Cardinality({j \in K : j < k})
  OBVIOUS
<1>3. ASSUME NEW k \in K
      PROVE  /\ IsFiniteSet(below(k)) /\ Cardinality(below(k)) \in Nat
             /\ IsFiniteSet(below(k) \cup {k})
             /\ Cardinality(below(k) \cup {k}) = Cardinality(below(k)) + 1
  <2>1. below(k) \in SUBSET K /\ k \notin below(k)
    OBVIOUS
  <2> HIDE DEF below
  <2> QED
    BY <2>1, FS_Subset, FS_CardinalityType, FS_AddElement
<1>4. ASSUME NEW k \in K
      PROVE  pos[k] \in Nat /\ pos[k] < size
  <2>1. below(k) \cup {k} \in SUBSET K
    OBVIOUS
  <2>2. pos[k] = Cardinality(below(k))
    OBVIOUS
  <2> HIDE DEF below, pos
  <2>3. Cardinality(below(k) \cup {k}) <= size
    BY <2>1, FS_Subset DEF size
  <2> QED
    BY <1>1, <1>3, <2>2, <2>3
<1>5. ASSUME NEW j \in K, NEW k \in K, j < k
      PROVE  pos[j] < pos[k]
  <2>1. below(j) \cup {j} \in SUBSET below(k)
    <3> SUFFICES ASSUME NEW i \in K, i < j \/ i = j
                 PROVE  i < k
      OBVIOUS
    <3>1. i \in Nat /\ j \in Nat /\ k \in Nat
      OBVIOUS
    <3> QED
      BY <1>5, <3>1
  <2>2. pos[j] = Cardinality(below(j)) /\ pos[k] = Cardinality(below(k))
    OBVIOUS
  <2> HIDE DEF below, pos
  <2>3. Cardinality(below(j) \cup {j}) <= Cardinality(below(k))
    BY <1>3, <2>1, FS_Subset
  <2>4. /\ Cardinality(below(j) \cup {j}) = Cardinality(below(j)) + 1
        /\ Cardinality(below(j)) \in Nat /\ Cardinality(below(k)) \in Nat
    BY <1>3
  <2> QED
    BY <2>2, <2>3, <2>4
<1> HIDE DEF pos
<1>6. pos \in Injection(K, 0 .. size - 1)
  <2>1. pos \in [K -> 0 .. size - 1]
    BY <1>1, <1>4 DEF pos
  <2>2. \A j, k \in K : pos[j] = pos[k] => j = k
    BY <1>4, <1>5
  <2> QED
    BY <2>1, <2>2 DEF Injection, IsInjective
<1>7. pos \in Surjection(K, 0 .. size - 1)
  <2>1. 0 \in Int /\ size - 1 \in Int
    BY <1>1
  <2>2. /\ IsFiniteSet(0 .. size - 1)
        /\ Cardinality(0 .. size - 1) = IF 0 > size - 1 THEN 0 ELSE size - 1 - 0 + 1
    BY <2>1, FS_Interval
  <2>3. Cardinality(0 .. size - 1) = size
    BY <1>1, <2>2
  <2> QED
    BY <1>6, <2>2, <2>3, FS_Injection DEF size
<1>8. ASSUME NEW n \in 1 .. size
      PROVE  Nth(K, n) \in K /\ pos[Nth(K, n)] = n - 1
  <2>1. n - 1 \in 0 .. size - 1
    BY <1>1
  <2>2. \E k \in K : pos[k] = n - 1
    BY <1>7, <2>1 DEF Surjection
  <2> QED
    BY <1>2, <2>2 DEF Nth
<1>9. ASSUME NEW m \in 1 .. size, NEW n \in 1 .. size, Nth(K, m) = Nth(K, n)
      PROVE  m = n
  <2>1. pos[Nth(K, m)] = m - 1 /\ pos[Nth(K, n)] = n - 1
    BY <1>8
  <2>2. m - 1 = n - 1
    BY <1>9, <2>1
  <2> QED
    BY <1>1, <2>2
<1> QED
  BY <1>8, <1>9 DEF size

\* What is stored: no report twice, and none that is under way.
Apart(s, inFlight) ==
  /\ s \in Seq(Report)
  /\ Distinct(s)
  /\ \A i \in DOMAIN s : s[i] \notin inFlight

\* Storing new reports keeps it so.
LEMMA StoredApart ==
  ASSUME Listed(events), Apart(stored, InFlight(events)),
         active => \A i \in DOMAIN stored : ~stored[i].stale,
         NEW S \in SUBSET Reporter, Stored(S), InFlight(events') \subseteq InFlight(events)
  PROVE  /\ Apart(stored', InFlight(events'))
         /\ active => \A i \in DOMAIN stored' : ~stored'[i].stale
         /\ ~active => stored' = stored
<1> DEFINE P == {r \in S : reporting[r] /\ active}
           n == Cardinality(P)
           R == ReportsOf(S)
<1>1. P \in SUBSET Nat /\ IsFiniteSet(P) /\ P \in SUBSET Reporter /\ n \in Nat
      /\ (~active => n = 0)
  <2>1. IsFiniteSet(Reporter) /\ Reporter \subseteq Nat
    BY ReporterAssumption, FS_Interval DEF Reporter
  <2>2. P \in SUBSET Reporter
    OBVIOUS
  <2>3. ~active => P = {}
    OBVIOUS
  <2> HIDE DEF P
  <2> QED
    BY <2>1, <2>2, <2>3, FS_Subset, FS_CardinalityType, FS_EmptySet
<1>2. R = [i \in 1 .. n |-> NewReport(Nth(P, i))]
  BY DEF ReportsOf
<1>3. stored' = stored \o R
  BY DEF Stored
<1> HIDE DEF R
<1>4. \A i \in 1 .. n : Nth(P, i) \in Reporter
  <2> HIDE DEF P
  <2> QED
    BY <1>1, NthOrder DEF n
<1>5. \A i, j \in 1 .. n : Nth(P, i) = Nth(P, j) => i = j
  <2> HIDE DEF P
  <2> QED
    BY <1>1, NthOrder DEF n
<1> HIDE DEF P, n
<1>6. stored \in Seq(Report)
  BY DEF Apart
<1>7. ASSUME NEW i \in 1 .. n
      PROVE  /\ R[i] \in Report /\ R[i].by = Nth(P, i) /\ ~R[i].stale
             /\ R[i] \notin InFlight(events)
             /\ \A j \in DOMAIN stored : stored[j] # R[i]
  BY <1>2, <1>4, <1>6, NewReportIsNew
<1>8. R \in Seq(Report) /\ Len(R) = n
  <2>1. R \in [1 .. n -> Report]
    BY <1>2, <1>7
  <2> QED
    BY <1>1, <2>1, SeqDef, LenProperties
<1>9. Distinct(R)
  BY <1>2, <1>5, <1>7 DEF Distinct
<1>10. /\ stored' \in Seq(Report)
       /\ Len(stored') = Len(stored) + n
       /\ DOMAIN stored' = 1 .. Len(stored) + n
       /\ \A k \in DOMAIN stored' :
            stored'[k] = IF k <= Len(stored) THEN stored[k] ELSE R[k - Len(stored)]
  BY <1>3, <1>6, <1>8, ConcatProperties
<1>11. Len(stored) \in Nat /\ DOMAIN stored = 1 .. Len(stored)
  BY <1>6
<1>12. ASSUME NEW k \in DOMAIN stored'
       PROVE  \/ k \in DOMAIN stored /\ stored'[k] = stored[k]
              \/ k - Len(stored) \in 1 .. n /\ stored'[k] = R[k - Len(stored)]
  BY <1>1, <1>10, <1>11
<1>13. Distinct(stored')
  <2> SUFFICES ASSUME NEW k \in DOMAIN stored', NEW m \in DOMAIN stored', stored'[k] = stored'[m]
               PROVE  k = m
    BY DEF Distinct
  <2>1. CASE k \in DOMAIN stored /\ stored'[k] = stored[k]
    <3>1. m \in DOMAIN stored /\ stored'[m] = stored[m]
      BY <1>7, <1>12, <2>1
    <3>2. Distinct(stored)
      BY DEF Apart
    <3> QED
      BY <2>1, <3>1, <3>2 DEF Distinct
  <2>2. CASE k - Len(stored) \in 1 .. n /\ stored'[k] = R[k - Len(stored)]
    <3>1. m - Len(stored) \in 1 .. n /\ stored'[m] = R[m - Len(stored)]
      BY <1>7, <1>12, <2>2
    <3>2. k - Len(stored) = m - Len(stored)
      BY <1>2, <1>9, <2>2, <3>1 DEF Distinct
    <3>3. k \in Int /\ m \in Int
      BY <1>1, <1>10, <1>11
    <3> QED
      BY <1>11, <3>2, <3>3
  <2> QED
    BY <1>12, <2>1, <2>2
<1>14. \A k \in DOMAIN stored' : stored'[k] \notin InFlight(events')
  BY <1>7, <1>12 DEF Apart
<1>15. active => \A k \in DOMAIN stored' : ~stored'[k].stale
  BY <1>7, <1>12
<1>16. ~active => stored' = stored
  <2> SUFFICES ASSUME ~active PROVE stored' = stored
    OBVIOUS
  <2>1. R = << >>
    <3>1. R \in Seq(Report) /\ Len(R) = 0
      BY <1>1, <1>8
    <3> QED
      BY <3>1, EmptySeq
  <2> QED
    BY <1>3, <1>6, <2>1
<1> QED
  BY <1>10, <1>13, <1>14, <1>15, <1>16 DEF Apart

-----------------------------------------------------------------------------
(***************************************************************************)
(* Every report in one place.                                              *)
(***************************************************************************)

\* The inductive invariant of OnePlace and of the types: the event list is
\* exact; what is stored is apart from what is under way, and can be told
\* from it when a deactivation makes it stale.
PlaceInv ==
  /\ Listed(events)
  /\ Apart(stored, InFlight(events))
  /\ active => \A i \in DOMAIN stored : ~stored[i].stale
  /\ \A p \in InFlight(events) : ~p.stale

\* Fewer reports under way are apart as well.
LEMMA FewerApart ==
  ASSUME NEW s, NEW A, Apart(s, A), NEW B, B \subseteq A
  PROVE  Apart(s, B)
BY DEF Apart

LEMMA NothingApart ==
  ASSUME NEW A
  PROVE  Apart(<<>>, A)
BY DEF Apart, Distinct

\* A step that stores nothing and puts no report under way.
LEMMA PlaceKept ==
  ASSUME PlaceInv, Listed(events'), InFlight(events') \subseteq InFlight(events),
         UNCHANGED <<stored, active>>
  PROVE  PlaceInv'
BY FewerApart DEF PlaceInv

\* A step that stores new reports and puts none under way.
LEMMA PlaceStored ==
  ASSUME PlaceInv, Listed(events'), InFlight(events') \subseteq InFlight(events),
         NEW S \in SUBSET Reporter, Stored(S), active' = active
  PROVE  PlaceInv'
<1>1. /\ Apart(stored', InFlight(events'))
      /\ active => \A i \in DOMAIN stored' : ~stored'[i].stale
  BY StoredApart DEF PlaceInv
<1> QED
  BY <1>1 DEF PlaceInv

LEMMA FiredListed ==
  ASSUME PlaceInv, NEW e \in events
  PROVE  /\ Listed(Without(events, {e}))
         /\ InFlight(Without(events, {e})) \subseteq InFlight(events)
<1>1. {e} \in SUBSET events /\ events \ {e} \in SUBSET events
  OBVIOUS
<1>2. Listed(Without(events, {e}))
      /\ InFlight(Without(events, {e})) = InFlight(events \ {e})
  BY <1>1, WithoutListed DEF PlaceInv
<1>3. InFlight(events \ {e}) \subseteq InFlight(events)
  BY <1>1, SubsetUnique DEF PlaceInv
<1> QED
  BY <1>2, <1>3

LEMMA PlaceSend ==
  ASSUME PlaceInv, DoSendReports
  PROVE  PlaceInv'
<1>1. PICK e \in events :
        IF active
          THEN \E tx \in [DOMAIN stored -> TxDelays], d \in SendIntervals :
                 /\ events' = ScheduleNextSend(Delivered(Without(events, {e}), tx), d)
                 /\ stored' = Unsent
          ELSE events' = Without(events, {e}) /\ stored' = stored
  BY DEF DoSendReports
<1>2. active' = active
  BY DEF DoSendReports, terminatorVars
<1> DEFINE E == Without(events, {e})
<1>3. Listed(E) /\ InFlight(E) \subseteq InFlight(events)
  BY FiredListed
<1> HIDE DEF E
<1>4. CASE active
  <2>1. PICK tx \in [DOMAIN stored -> TxDelays], d \in SendIntervals :
          events' = ScheduleNextSend(Delivered(E, tx), d) /\ stored' = <<>>
    BY <1>1, <1>4 DEF Unsent, E
  <2> DEFINE D == Delivered(E, tx)
  <2>2. Apart(stored, InFlight(E))
    BY <1>3, FewerApart DEF PlaceInv
  <2>3. /\ Listed(D)
        /\ \A p \in InFlight(D) : p \in InFlight(E) \/ \E i \in DOMAIN stored : p = stored[i]
    BY <1>3, <2>2, DeliveredListed DEF Apart
  <2> HIDE DEF D
  <2>4. Listed(events') /\ InFlight(events') = InFlight(D)
    BY <2>1, <2>3, NextSendListed DEF D
  <2>5. \A p \in InFlight(events') : ~p.stale
    BY <1>3, <1>4, <2>3, <2>4 DEF PlaceInv
  <2>6. Apart(stored', InFlight(events')) /\ DOMAIN stored' = {}
    BY <2>1, NothingApart
  <2> QED
    BY <2>4, <2>5, <2>6 DEF PlaceInv
<1>5. CASE ~active
  BY <1>1, <1>2, <1>3, <1>5, PlaceKept DEF E
<1> QED
  BY <1>4, <1>5

LEMMA PlaceTrigger ==
  ASSUME PlaceInv, TriggerFires
  PROVE  PlaceInv'
<1>1. PICK e \in events :
        /\ Fires(e, "Trigger")
        /\ \/ /\ \E d \in [{e.what.by} -> TriggerIntervals] :
                    events' = ScheduleTriggers(Without(events, {e}), {e.what.by}, d)
              /\ Stored({e.what.by})
           \/ events' = Without(events, {e}) /\ stored' = stored
  BY DEF TriggerFires, Repeated
<1>2. active' = active
  BY DEF TriggerFires, terminatorVars
<1> DEFINE E == Without(events, {e})
           S == {e.what.by}
<1>3. Listed(E) /\ InFlight(E) \subseteq InFlight(events)
  BY FiredListed
<1>4. S \in SUBSET Periodic /\ S \in SUBSET Reporter
  <2>1. e.what \in What /\ e.what.kind = "Trigger"
    BY <1>1 DEF Fires, PlaceInv, Listed, EventOf
  <2>2. e.what.by \in Periodic
    BY <2>1 DEF What
  <2> QED
    BY <2>2, ReporterAssumption
<1> HIDE DEF E, S
<1>5. ASSUME NEW d \in [S -> TriggerIntervals], events' = ScheduleTriggers(E, S, d), Stored(S)
      PROVE  PlaceInv'
  <2>1. Listed(events') /\ InFlight(events') = InFlight(E)
    BY <1>3, <1>4, <1>5, TriggersListed
  <2> QED
    BY <1>2, <1>3, <1>4, <1>5, <2>1, PlaceStored
<1>6. CASE events' = E /\ stored' = stored
  BY <1>2, <1>3, <1>6, PlaceKept
<1> QED
  BY <1>1, <1>5, <1>6 DEF E, S

LEMMA PlaceResponse ==
  ASSUME PlaceInv, NEW i \in Ids, ReceiveRegistrationResponse(i)
  PROVE  PlaceInv'
<1> DEFINE notified == {r \in Initial : reporting[r]}
           periodic == notified \cap Periodic
<1>1. active' = active
  BY DEF ReceiveRegistrationResponse
<1>2. ASSUME NEW E, Listed(E), InFlight(E) = InFlight(events), Answered(E, i)
      PROVE  Listed(events') /\ InFlight(events') \subseteq InFlight(events)
  <2>1. PICK d \in SendIntervals : events' = ScheduleNextSend(E, d)
    BY <1>2 DEF Answered, SendTimerStarts
  <2> QED
    BY <1>2, <2>1, NextSendListed
<1>3. notified \in SUBSET Reporter /\ periodic \in SUBSET Periodic
  BY ReporterAssumption
<1>4. \/ UNCHANGED <<events, stored>>
      \/ Answered(events, i) /\ stored' = stored
      \/ /\ \E d \in [periodic -> TriggerIntervals] :
              Answered(ScheduleTriggers(events, periodic, d), i)
         /\ Stored(notified)
  BY DEF ReceiveRegistrationResponse
<1> HIDE DEF notified, periodic
<1>5. CASE UNCHANGED <<events, stored>>
  BY <1>1, <1>5 DEF PlaceInv
<1>6. CASE Answered(events, i) /\ stored' = stored
  BY <1>1, <1>2, <1>6, PlaceKept DEF PlaceInv
<1>7. ASSUME NEW d \in [periodic -> TriggerIntervals],
             Answered(ScheduleTriggers(events, periodic, d), i), Stored(notified)
      PROVE  PlaceInv'
  <2>1. /\ Listed(ScheduleTriggers(events, periodic, d))
        /\ InFlight(ScheduleTriggers(events, periodic, d)) = InFlight(events)
    BY <1>3, TriggersListed DEF PlaceInv
  <2>2. Listed(events') /\ InFlight(events') \subseteq InFlight(events)
    BY <1>2, <1>7, <2>1
  <2> QED
    BY <1>1, <1>3, <1>7, <2>2, PlaceStored
<1> QED
  BY <1>4, <1>5, <1>6, <1>7

\* Deactivation makes stale what is stored, all of which was fresh.
LEMMA PlaceDeactivate ==
  ASSUME PlaceInv, Deactivate
  PROVE  PlaceInv'
<1>1. /\ active /\ ~active'
      /\ events' = Without(events, Cancelled(events))
      /\ stored' = [i \in DOMAIN stored |-> [stored[i] EXCEPT !.stale = TRUE]]
  BY DEF Deactivate
<1>2. Listed(events') /\ InFlight(events') \subseteq InFlight(events)
  <2> DEFINE C == Cancelled(events)
  <2>1. C \in SUBSET events /\ events \ C \in SUBSET events
    BY DEF Cancelled, OfKind
  <2> HIDE DEF C
  <2>2. Listed(events') /\ InFlight(events') = InFlight(events \ C)
    BY <1>1, <2>1, WithoutListed DEF PlaceInv, C
  <2>3. InFlight(events \ C) \subseteq InFlight(events)
    BY <2>1, SubsetUnique DEF PlaceInv
  <2> QED
    BY <2>2, <2>3
<1>3. /\ stored \in Seq(Report) /\ Distinct(stored)
      /\ \A i \in DOMAIN stored : stored[i] \in Report /\ stored[i].stale = FALSE
  <2>1. stored \in Seq(Report) /\ Distinct(stored)
    BY DEF PlaceInv, Apart
  <2>2. \A i \in DOMAIN stored : stored[i] \in Report
    BY <2>1
  <2>3. \A i \in DOMAIN stored : ~stored[i].stale
    BY <1>1 DEF PlaceInv
  <2> QED
    BY <2>1, <2>2, <2>3 DEF Report
<1>4. \A p \in Report : [p EXCEPT !.stale = TRUE] \in Report
  BY DEF Report
<1>5. stored' \in Seq(Report)
  <2>1. DOMAIN stored = 1 .. Len(stored) /\ Len(stored) \in Nat
    BY <1>3
  <2>2. stored' \in [1 .. Len(stored) -> Report]
    BY <1>1, <1>3, <1>4, <2>1
  <2> QED
    BY <2>1, <2>2, SeqDef
<1>6. ASSUME NEW p \in Report, NEW q \in Report, p.stale = q.stale,
             [p EXCEPT !.stale = TRUE] = [q EXCEPT !.stale = TRUE]
      PROVE  p = q
  <2>1. /\ [p EXCEPT !.stale = TRUE].by = p.by /\ [q EXCEPT !.stale = TRUE].by = q.by
        /\ [p EXCEPT !.stale = TRUE].no = p.no /\ [q EXCEPT !.stale = TRUE].no = q.no
    BY DEF Report
  <2>2. p.by = q.by /\ p.no = q.no
    BY <1>6, <2>1
  <2> QED
    BY <1>6, <2>2 DEF Report
<1>7. Distinct(stored')
  <2> SUFFICES ASSUME NEW i \in DOMAIN stored', NEW j \in DOMAIN stored', stored'[i] = stored'[j]
               PROVE  i = j
    BY DEF Distinct
  <2>1. /\ i \in DOMAIN stored /\ stored'[i] = [stored[i] EXCEPT !.stale = TRUE]
        /\ j \in DOMAIN stored /\ stored'[j] = [stored[j] EXCEPT !.stale = TRUE]
    BY <1>1
  <2> DEFINE p == stored[i]
             q == stored[j]
  <2>2. p \in Report /\ q \in Report /\ p.stale = q.stale
    BY <1>3, <2>1
  <2>3. [p EXCEPT !.stale = TRUE] = [q EXCEPT !.stale = TRUE]
    BY <2>1
  <2> HIDE DEF p, q
  <2>4. p = q
    BY <1>6, <2>2, <2>3
  <2> QED
    BY <1>3, <2>1, <2>4 DEF Distinct, p, q
<1>8. \A i \in DOMAIN stored' : stored'[i] \notin InFlight(events')
  <2>1. \A i \in DOMAIN stored' : stored'[i].stale
    BY <1>1, <1>3 DEF Report
  <2>2. \A p \in InFlight(events') : ~p.stale
    BY <1>2 DEF PlaceInv
  <2> QED
    BY <2>1, <2>2
<1> QED
  BY <1>1, <1>2, <1>5, <1>7, <1>8 DEF PlaceInv, Apart

LEMMA PlaceStep ==
  ASSUME PlaceInv, [Next]_vars
  PROVE  PlaceInv'
<1>1. CASE Tick
  <2>1. Listed(events') /\ InFlight(events') = InFlight(events)
    BY <1>1, TickListed DEF Tick, PlaceInv
  <2>2. UNCHANGED <<stored, active>>
    BY <1>1 DEF Tick, terminatorVars
  <2> QED
    BY <2>1, <2>2, PlaceKept
<1>2. CASE DoSendReports
  BY <1>2, PlaceSend
<1>3. CASE ReceiveReport
  <2>1. PICK e \in events : events' = Without(events, {e})
    BY <1>3 DEF ReceiveReport
  <2>2. UNCHANGED <<stored, active>>
    BY <1>3 DEF ReceiveReport, terminatorVars
  <2> QED
    BY <2>1, <2>2, FiredListed, PlaceKept
<1>4. CASE TriggerFires
  BY <1>4, PlaceTrigger
<1>5. CASE \E r \in Reporter : TraceFires(r)
  <2>1. PICK r \in Reporter : TraceFires(r)
    BY <1>5
  <2>2. events' = events /\ active' = active /\ Stored({r}) /\ {r} \in SUBSET Reporter
    BY <2>1 DEF TraceFires, terminatorVars
  <2>3. Listed(events') /\ InFlight(events') \subseteq InFlight(events)
    BY <2>2 DEF PlaceInv
  <2> QED
    BY <2>2, <2>3, PlaceStored
<1>6. CASE \E i \in Ids : ReceiveRegistrationResponse(i)
  BY <1>6, PlaceResponse
<1>7. CASE Activate
  <2> DEFINE periodic == {r \in Periodic : linked[r]}
  <2>1. PICK d \in [periodic -> TriggerIntervals] :
          events' = ScheduleTriggers(events, periodic, d)
    BY <1>7 DEF Activate
  <2>2. periodic \in SUBSET Periodic /\ stored' = <<>>
    BY <1>7 DEF Activate, Cleared
  <2> HIDE DEF periodic
  <2>3. Listed(events') /\ InFlight(events') = InFlight(events)
    BY <2>1, <2>2, TriggersListed DEF PlaceInv
  <2>4. Apart(stored', InFlight(events')) /\ DOMAIN stored' = {}
    BY <2>2, NothingApart
  <2> QED
    BY <2>3, <2>4 DEF PlaceInv
<1>8. CASE Deactivate
  BY <1>8, PlaceDeactivate
<1>9. CASE \/ \E r \in Reporter : SetTrigger(r)
           \/ Register \/ RequestLost \/ ReceiveDeregistrationResponse
           \/ UNCHANGED vars
  <2>1. UNCHANGED <<events, stored, active>>
    BY <1>9 DEF SetTrigger, Register, RequestLost,
                ReceiveDeregistrationResponse, vars, terminatorVars
  <2> QED
    BY <2>1 DEF PlaceInv
<1> QED
  BY <1>1, <1>2, <1>3, <1>4, <1>5, <1>6, <1>7, <1>8, <1>9 DEF Next

LEMMA PlaceAlways == Spec => []PlaceInv
<1>1. Init => PlaceInv
  <2> SUFFICES ASSUME Init PROVE PlaceInv
    OBVIOUS
  <2>1. events = {} /\ stored = <<>> /\ active = FALSE
    BY DEF Init
  <2>2. Listed({}) /\ InFlight({}) = {}
    BY FS_EmptySet DEF Listed, Ranked, Unique, InFlight, OfKind
  <2> QED
    BY <2>1, <2>2, NothingApart DEF PlaceInv
<1> QED
  BY <1>1, PlaceStep, PTL DEF Spec

\* However many send timers run at once, a report is in one place only: it
\* is stored once or under way once, so the RIC receives it at most once.
THEOREM ReportsInOnePlace == Spec => []OnePlace
<1>1. PlaceInv => OnePlace
  <2> SUFFICES ASSUME PlaceInv PROVE OnePlace
    OBVIOUS
  <2>1. \A i, j \in DOMAIN stored : stored[i] = stored[j] => i = j
    BY DEF PlaceInv, Apart, Distinct
  <2>2. \A e, f \in OfKind(events, "Delivery") : e.what.report = f.what.report => e = f
    BY DEF PlaceInv, Listed, Unique, Clash, OfKind
  <2>3. ToSet(stored) \cap InFlight(events) = {}
    BY DEF PlaceInv, Apart, ToSet
  <2> QED
    BY <2>1, <2>2, <2>3 DEF OnePlace
<1> QED
  BY <1>1, PlaceAlways, PTL

-----------------------------------------------------------------------------
(***************************************************************************)
(* Type correctness.                                                       *)
(***************************************************************************)

PlainTypes ==
  /\ aborted \in BOOLEAN /\ active \in BOOLEAN /\ answered \in BOOLEAN
  /\ nodeId \in Ids \cup {0}
  /\ asked \in 0 .. MaxAsked
  /\ reporting \in [Reporter -> BOOLEAN]
  /\ linked \in [Reporter -> BOOLEAN]
  /\ waiting \in Nat
  /\ silent \in [Reporter -> Nat]

LEMMA PlainStep ==
  ASSUME PlainTypes, [Next]_vars
  PROVE  PlainTypes'
<1>1. MaxAsked \in Nat /\ asked \in 0 .. MaxAsked
  BY BoundAssumption DEF PlainTypes
<1>2. CASE Tick
  <2>1. UNCHANGED <<aborted, active, nodeId, asked, answered, reporting, linked>>
    BY <1>2 DEF Tick, terminatorVars, reporterVars
  <2>2. waiting' \in Nat
    BY <1>2 DEF Tick, PlainTypes
  <2>3. silent' \in [Reporter -> Nat]
    BY <1>2 DEF Tick, PlainTypes
  <2> QED
    BY <2>1, <2>2, <2>3 DEF PlainTypes
<1>3. ASSUME NEW S, Stored(S)
      PROVE  silent' \in [Reporter -> Nat]
  BY <1>3 DEF Stored, PlainTypes
<1>4. CASE DoSendReports
  <2>1. /\ UNCHANGED <<aborted, active, nodeId, asked, answered, reporting, linked, silent>>
        /\ waiting' = 0 \/ waiting' = waiting
    BY <1>4 DEF DoSendReports, terminatorVars, reporterVars
  <2> QED
    BY <2>1 DEF PlainTypes
<1>5. CASE TriggerFires
  <2>1. /\ UNCHANGED <<active, nodeId, asked, answered, reporting, linked, waiting>>
        /\ aborted' = aborted \/ aborted' = TRUE
        /\ silent' = silent \/ \E S : Stored(S)
    BY <1>5 DEF TriggerFires, terminatorVars, reporterVars
  <2> QED
    BY <1>3, <2>1 DEF PlainTypes
<1>6. CASE \E r \in Reporter : TraceFires(r)
  <2>1. /\ UNCHANGED <<aborted, active, nodeId, asked, answered, reporting, linked, waiting>>
        /\ \E S : Stored(S)
    BY <1>6 DEF TraceFires, terminatorVars, reporterVars
  <2> QED
    BY <1>3, <2>1 DEF PlainTypes
<1>7. CASE \E i \in Ids : ReceiveRegistrationResponse(i)
  <2>1. PICK i \in Ids : ReceiveRegistrationResponse(i)
    BY <1>7
  <2>2. /\ UNCHANGED <<active, reporting, linked, waiting>>
        /\ asked > 0 /\ asked' = asked - 1
    BY <2>1 DEF ReceiveRegistrationResponse, reporterVars
  <2>3. /\ aborted' = aborted \/ aborted' = TRUE
        /\ nodeId' = nodeId \/ nodeId' = i
        /\ answered' = answered \/ answered' = TRUE
        /\ silent' = silent \/ \E S : Stored(S)
    BY <2>1 DEF ReceiveRegistrationResponse
  <2>4. asked' \in 0 .. MaxAsked
    BY <1>1, <2>2
  <2>5. silent' \in [Reporter -> Nat]
    BY <1>3, <2>3 DEF PlainTypes
  <2> QED
    BY <2>2, <2>3, <2>4, <2>5 DEF PlainTypes
<1>8. CASE Register \/ RequestLost \/ ReceiveDeregistrationResponse
  <2>1. UNCHANGED <<aborted, active, answered, reporting, linked, waiting, silent>>
    BY <1>8 DEF Register, RequestLost, ReceiveDeregistrationResponse, reporterVars
  <2>2. nodeId' = nodeId \/ nodeId' = 0
    BY <1>8 DEF Register, RequestLost, ReceiveDeregistrationResponse
  <2>3. \/ asked < MaxAsked /\ asked' = asked + 1
        \/ asked > 0 /\ asked' = asked - 1
        \/ asked' = asked
    BY <1>8 DEF Register, RequestLost, ReceiveDeregistrationResponse
  <2>4. asked' \in 0 .. MaxAsked
    BY <1>1, <2>3
  <2> QED
    BY <2>1, <2>2, <2>4 DEF PlainTypes
<1>9. CASE Activate
  <2>1. /\ UNCHANGED <<aborted, nodeId, linked>>
        /\ active' = TRUE /\ answered' = FALSE /\ reporting' = linked /\ waiting' = 0
        /\ asked < MaxAsked /\ asked' = asked + 1
        /\ silent' = [r \in Reporter |-> 0]
    BY <1>9 DEF Activate
  <2>2. asked' \in 0 .. MaxAsked /\ silent' \in [Reporter -> Nat]
    BY <1>1, <2>1
  <2> QED
    BY <2>1, <2>2 DEF PlainTypes
<1>10. CASE Deactivate
  <2>1. /\ UNCHANGED <<aborted, nodeId, asked, answered>>
        /\ active' = FALSE /\ waiting' = 0
        /\ reporting' = [r \in Reporter |-> FALSE]
        /\ linked' = [r \in Reporter |-> linked[r] /\ ~reporting[r]]
        /\ silent' = [r \in Reporter |-> 0]
    BY <1>10 DEF Deactivate
  <2>2. /\ reporting' \in [Reporter -> BOOLEAN] /\ linked' \in [Reporter -> BOOLEAN]
        /\ silent' \in [Reporter -> Nat]
    BY <2>1
  <2> QED
    BY <2>1, <2>2 DEF PlainTypes
<1>11. CASE \E r \in Reporter : SetTrigger(r)
  <2>1. PICK r \in Reporter : SetTrigger(r)
    BY <1>11
  <2>2. /\ UNCHANGED <<aborted, active, nodeId, asked, answered, reporting, waiting, silent>>
        /\ linked' = [linked EXCEPT ![r] = TRUE]
    BY <2>1 DEF SetTrigger, terminatorVars
  <2>3. linked' \in [Reporter -> BOOLEAN]
    BY <2>2 DEF PlainTypes
  <2> QED
    BY <2>2, <2>3 DEF PlainTypes
<1>12. CASE ReceiveReport \/ UNCHANGED vars
  <2>1. UNCHANGED <<aborted, active, nodeId, asked, answered, reporting, linked, waiting, silent>>
    BY <1>12 DEF ReceiveReport, vars, terminatorVars, reporterVars
  <2> QED
    BY <2>1 DEF PlainTypes
<1> QED
  BY <1>2, <1>4, <1>5, <1>6, <1>7, <1>8, <1>9, <1>10, <1>11, <1>12 DEF Next

LEMMA OneAtMost ==
  ASSUME NEW S, \A x, y \in S : x = y
  PROVE  Cardinality(S) <= 1
<1>1. CASE S = {}
  BY <1>1, FS_EmptySet
<1>2. ASSUME NEW x \in S PROVE Cardinality(S) <= 1
  <2>1. S = {x}
    OBVIOUS
  <2> QED
    BY <2>1, FS_Singleton
<1> QED
  BY <1>1, <1>2

\* Every variable has its type, the ranks of the events are exact, and an
\* EventId refers to one event at most.
THEOREM TypeCorrect == Spec => []TypeOK
<1>1. Init => PlainTypes
  <2> SUFFICES ASSUME Init PROVE PlainTypes
    OBVIOUS
  <2>1. 0 \in 0 .. MaxAsked
    BY BoundAssumption
  <2> QED
    BY <2>1 DEF Init, PlainTypes
<1>2. PlainTypes /\ PlaceInv => TypeOK
  <2> SUFFICES ASSUME PlainTypes, PlaceInv PROVE TypeOK
    OBVIOUS
  <2>1. events \subseteq EventOf(What) /\ stored \in Seq(Report)
    BY DEF PlaceInv, Listed, Apart
  <2>2. RanksExact(events)
    BY DEF PlaceInv, Listed, Ranked, Instant, RanksExact
  <2>3. Cardinality({e \in OfKind(events, "Send") : e.what.member}) <= 1
    <3> DEFINE S == {e \in OfKind(events, "Send") : e.what.member}
    <3>1. \A x, y \in S : x = y
      BY DEF PlaceInv, Listed, Unique, Clash, OfKind
    <3> HIDE DEF S
    <3>2. Cardinality(S) <= 1
      BY <3>1, OneAtMost
    <3> QED
      BY <3>2 DEF S
  <2>4. ASSUME NEW r \in Reporter
        PROVE  Cardinality({e \in Triggers(events, r) : e.what.member}) <= 1
    <3> DEFINE S == {e \in Triggers(events, r) : e.what.member}
    <3>1. \A x, y \in S : x = y
      BY DEF PlaceInv, Listed, Unique, Clash, Triggers, OfKind
    <3> HIDE DEF S
    <3>2. Cardinality(S) <= 1
      BY <3>1, OneAtMost
    <3> QED
      BY <3>2 DEF S
  <2> QED
    BY <2>1, <2>2, <2>3, <2>4 DEF TypeOK, PlainTypes
<1> QED
  BY <1>1, <1>2, PlainStep, PlaceAlways, PTL DEF Spec
=============================================================================
