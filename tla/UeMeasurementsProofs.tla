------------------------ MODULE UeMeasurementsProofs ------------------------
(***************************************************************************)
(* The invariants of UeMeasurements, for every set of cells and of         *)
(* measurement ids, every measurement, configuration and offset.           *)
(*                                                                         *)
(* ReportTimerRuns is inductive once the scheduled events are known to be  *)
(* for at least one cell (EntriesOK): an event without cells would start   *)
(* the timer of an entry that has triggered for no cell.                   *)
(*                                                                         *)
(* The others need that queues and scheduled events agree one to one, in   *)
(* the order of time and within the time-to-trigger of the event (Waits),  *)
(* that the waits of an entry fit the cells that have triggered (Orderly), *)
(* and that only configured measurement ids of a UE that measures its      *)
(* serving cell have an entry or waits, for cells their event looks at     *)
(* (MeasureInv).                                                           *)
(***************************************************************************)
EXTENDS UeMeasurements, FiniteSetTheorems, TLAPS

QueueFields == {"queue", "events"}
EventFields == {"cells", "left"}
EntryFields == {"triggered", "timer", "entering", "leaving"}

\* A queue of pending triggers whose events are for at least one cell.
QueueOK(q) ==
  /\ q = [f \in QueueFields |-> q[f]]
  /\ \A e \in q.events : e = [f \in EventFields |-> e[f]] /\ e.cells # {}

\* An entry whose timer runs exactly while a cell has triggered.
EntryOK(r) ==
  /\ r = [f \in EntryFields |-> r[f]]
  /\ QueueOK(r.entering)
  /\ QueueOK(r.leaving)
  /\ r.timer = "off" <=> r.triggered = {}

\* The inductive invariant.
EntriesOK ==
  /\ report = [i \in MeasId |-> report[i]]
  /\ \A i \in MeasId : EntryOK(report[i])

\* Cancelling removes events and adds none.
LEMMA CancelOK ==
  ASSUME NEW q, NEW cells, QueueOK(q)
  PROVE  QueueOK(CancelTrigger(q, cells))
<1> DEFINE c == CancelTrigger(q, cells)
<1>1. c = [f \in QueueFields |-> c[f]]
  BY DEF CancelTrigger, QueueFields
<1>2. c.events \subseteq q.events
  BY DEF CancelTrigger
<1>3. QED
  BY <1>1, <1>2 DEF QueueOK

\* A trigger for at least one cell may be added.
LEMMA ScheduleOK ==
  ASSUME NEW q, NEW cells, NEW left, QueueOK(q), cells # {}
  PROVE  QueueOK(Schedule(q, cells, left))
<1> DEFINE t == [cells |-> cells, left |-> left]
           s == Schedule(q, cells, left)
<1>1. t = [f \in EventFields |-> t[f]] /\ t.cells # {}
  BY DEF EventFields
<1>2. s = [f \in QueueFields |-> s[f]] /\ s.events = q.events \cup {t}
  BY DEF Schedule, QueueFields
<1>3. QED
  BY <1>1, <1>2 DEF QueueOK

\* The first trigger leaves the queue; its event is not touched.
LEMMA PopFrontOK ==
  ASSUME NEW q, NEW cells, QueueOK(q)
  PROVE  QueueOK(PopFront(q, cells))
<1>1. QueueOK([q EXCEPT !.queue = Tail(@)])
  BY DEF QueueOK, QueueFields
<1>2. QED
  BY <1>1, CancelOK DEF PopFront

\* An event that fires is gone.
LEMMA FiredOK ==
  ASSUME NEW q, NEW e, QueueOK(q)
  PROVE  QueueOK([q EXCEPT !.events = @ \ {e}])
BY DEF QueueOK, QueueFields

\* An entry without one of its scheduled events is still in order.
LEMMA FiredEntryOK ==
  ASSUME NEW r, NEW s, NEW e, EntryOK(r),
         s \in {EnteringFired(r, e), LeavingFired(r, e)}
  PROVE  EntryOK(s)
<1> DEFINE p == [r.entering EXCEPT !.events = @ \ {e}]
           q == [r.leaving EXCEPT !.events = @ \ {e}]
<1>1. QueueOK(p) /\ QueueOK(q) /\ QueueOK(r.entering) /\ QueueOK(r.leaving)
  BY FiredOK DEF EntryOK
<1> HIDE DEF p, q
<1>2. CASE s = EnteringFired(r, e)
  <2>1. s = [r EXCEPT !.entering = p]
    BY <1>2 DEF EnteringFired, p
  <2>2. /\ s = [f \in EntryFields |-> s[f]]
        /\ s.triggered = r.triggered /\ s.timer = r.timer
        /\ s.entering = p /\ s.leaving = r.leaving
    BY <2>1 DEF EntryOK, EntryFields
  <2>3. QED
    BY <1>1, <2>2 DEF EntryOK
<1>3. CASE s = LeavingFired(r, e)
  <2>1. s = [r EXCEPT !.leaving = q]
    BY <1>3 DEF LeavingFired, q
  <2>2. /\ s = [f \in EntryFields |-> s[f]]
        /\ s.triggered = r.triggered /\ s.timer = r.timer
        /\ s.leaving = q /\ s.entering = r.entering
    BY <2>1 DEF EntryOK, EntryFields
  <2>3. QED
    BY <1>1, <2>2 DEF EntryOK
<1>4. QED
  BY <1>2, <1>3

\* Time does not change the cells of an event.
LEMMA ElapsedOK ==
  ASSUME NEW q, QueueOK(q)
  PROVE  QueueOK(Elapsed(q))
BY DEF QueueOK, Elapsed, QueueFields, EventFields

\* Adding a cell to an entry starts the timer unless it runs.
LEMMA AddOK ==
  ASSUME NEW r, NEW cells, EntryOK(r), cells # {}
  PROVE  EntryOK(VarMeasReportListAdd(r, cells))
<1> DEFINE s == VarMeasReportListAdd(r, cells)
<1>1. /\ s = [f \in EntryFields |-> s[f]]
      /\ s.triggered = r.triggered \cup cells
      /\ s.timer = IF r.timer = "off" THEN "soon" ELSE r.timer
      /\ s.entering = PopFront(r.entering, cells)
      /\ s.leaving = r.leaving
  BY DEF VarMeasReportListAdd, EntryOK, EntryFields
<1>2. QueueOK(s.entering) /\ QueueOK(s.leaving)
  BY <1>1, PopFrontOK DEF EntryOK
<1>3. QED
  BY <1>1, <1>2 DEF EntryOK

\* Erasing the last cell of an entry stops the timer.
LEMMA EraseOK ==
  ASSUME NEW r, NEW cells, NEW reportOnLeave, EntryOK(r)
  PROVE  EntryOK(VarMeasReportListErase(r, cells, reportOnLeave))
<1> DEFINE s == VarMeasReportListErase(r, cells, reportOnLeave)
<1>1. /\ s = [f \in EntryFields |-> s[f]]
      /\ s.triggered = r.triggered \ cells
      /\ s.timer = IF r.triggered \subseteq cells THEN "off"
                   ELSE IF reportOnLeave THEN "interval" ELSE r.timer
      /\ s.entering = r.entering
      /\ s.leaving = PopFront(r.leaving, cells)
  BY DEF VarMeasReportListErase, EntryOK, EntryFields
<1>2. QueueOK(s.entering) /\ QueueOK(s.leaving)
  BY <1>1, PopFrontOK DEF EntryOK
<1>3. QED
  BY <1>1, <1>2 DEF EntryOK

\* Evaluating an event starts a wait, or triggers at once, only for cells
\* that enter or leave.
LEMMA TriggeringOK ==
  ASSUME NEW r, NEW e, NEW m, EntryOK(r)
  PROVE  EntryOK(MeasurementReportTriggering(r, e, m))
<1> DEFINE entering == {c \in Concerned(e, m) : EntryCond(e, m, c)} \ r.triggered
           leaving == {c \in Concerned(e, m) \cap r.triggered : LeavingCond(e, m, c)}
           reportOnLeave == e.id = "A3" /\ e.reportOnLeave
           added == IF entering = {} THEN r ELSE VarMeasReportListAdd(r, entering)
           in == CancelTrigger(r.entering, NotEntering(e, m))
           out == CancelTrigger(r.leaving, NotLeaving(e, m, r.triggered))
           s == MeasurementReportTriggering(r, e, m)
<1>1. CASE e.timeToTrigger = 0
  <2>1. EntryOK(added)
    BY AddOK
  <2>2. EntryOK(VarMeasReportListErase(added, leaving, reportOnLeave))
    BY <2>1, EraseOK
  <2>3. s = IF leaving = {} THEN added
            ELSE VarMeasReportListErase(added, leaving, reportOnLeave)
    BY <1>1 DEF MeasurementReportTriggering
  <2>4. QED
    BY <2>1, <2>2, <2>3
<1>2. CASE e.timeToTrigger # 0
  <2>1. QueueOK(in) /\ QueueOK(out)
    BY CancelOK DEF EntryOK
  <2> DEFINE a == IF entering = {} THEN in ELSE Schedule(in, entering, e.timeToTrigger - 1)
             b == IF leaving = {} THEN out ELSE Schedule(out, leaving, e.timeToTrigger - 1)
  <2>2. QueueOK(a) /\ QueueOK(b)
    BY <2>1, ScheduleOK
  <2>3. s = [r EXCEPT !.entering = a, !.leaving = b]
    BY <1>2 DEF MeasurementReportTriggering
  <2> HIDE DEF a, b, s
  <2>4. /\ s = [f \in EntryFields |-> s[f]]
        /\ s.triggered = r.triggered
        /\ s.timer = r.timer
        /\ s.entering = a
        /\ s.leaving = b
    BY <2>3 DEF EntryOK, EntryFields
  <2>5. QED
    BY <2>2, <2>4 DEF EntryOK, s
<1>3. QED
  BY <1>1, <1>2

\* Every step keeps all entries in order.
LEMMA EntriesStep == EntriesOK /\ [Next]_vars => EntriesOK'
<1> SUFFICES ASSUME EntriesOK, [Next]_vars PROVE EntriesOK'
  OBVIOUS
<1> USE DEF EntriesOK
<1>1. EntryOK(Quiet)
  BY DEF EntryOK, QueueOK, Quiet, Idle, EntryFields, QueueFields
<1>2. ASSUME NEW ids, NEW i \in MeasId
      PROVE  EntryOK(VarMeasReportListClear(ids)[i])
  BY <1>1 DEF VarMeasReportListClear
<1>3. CASE \E c \in Cell, mc \in Messages : Reconfigure(c, mc)
  <2>1. PICK mc \in Messages : ApplyMeasConfig(mc)
    BY <1>3 DEF Reconfigure
  <2> DEFINE cleared == VarMeasReportListClear(Removed(mc) \cup Modified(mc))
             fresh(r) == [Quiet EXCEPT !.entering.events = r.entering.events,
                                       !.leaving.events = r.leaving.events]
  <2>2. report' = [i \in MeasId |->
          IF i \in DOMAIN mc.idsToAdd THEN fresh(cleared[i]) ELSE cleared[i]]
    BY <2>1 DEF ApplyMeasConfig
  <2>3. ASSUME NEW i \in MeasId
        PROVE  EntryOK(cleared[i])
    BY <1>2
  <2>4. ASSUME NEW r, EntryOK(r)
        PROVE  EntryOK(fresh(r))
    <3> DEFINE s == fresh(r)
    <3>1. /\ s = [f \in EntryFields |-> s[f]]
          /\ s.triggered = {} /\ s.timer = "off"
      BY DEF Quiet, EntryFields
    <3>2. /\ s.entering = [f \in QueueFields |-> s.entering[f]]
          /\ s.entering.events = r.entering.events
      BY DEF Quiet, Idle, QueueFields
    <3>3. /\ s.leaving = [f \in QueueFields |-> s.leaving[f]]
          /\ s.leaving.events = r.leaving.events
      BY DEF Quiet, Idle, QueueFields
    <3>4. QED
      BY <2>4, <3>1, <3>2, <3>3 DEF EntryOK, QueueOK
  <2>5. QED
    BY <2>2, <2>3, <2>4
<1>4. CASE \E c \in Cell, f \in Reports : Connect(c, f)
  BY <1>4 DEF Connect
<1>5. CASE LeaveConnectedMode
  <2>1. report' = VarMeasReportListClear(DOMAIN measIds)
    BY <1>5 DEF LeaveConnectedMode
  <2>2. QED
    BY <1>2, <2>1 DEF VarMeasReportListClear
<1>6. CASE \E f \in Reports : DoReportUeMeasurements(f)
  <2>1. PICK f \in Reports : DoReportUeMeasurements(f)
    BY <1>6
  <2> DEFINE m == [c \in DOMAIN f \cup DOMAIN measValues |->
                     IF c \in DOMAIN f THEN f[c] ELSE measValues[c]]
             waited == [i \in MeasId |-> [report[i] EXCEPT !.entering = Elapsed(@),
                                                           !.leaving = Elapsed(@)]]
  <2>2. report' = [i \in MeasId |->
          IF i \in DOMAIN measIds
            THEN MeasurementReportTriggering(waited[i], EventOf(i), m)
            ELSE waited[i]]
    BY <2>1 DEF DoReportUeMeasurements
  <2>3. ASSUME NEW i \in MeasId
        PROVE  EntryOK(waited[i])
    <3> DEFINE r == report[i]
               s == waited[i]
    <3>1. EntryOK(r)
      OBVIOUS
    <3>2. /\ s = [g \in EntryFields |-> s[g]]
          /\ s.triggered = r.triggered
          /\ s.timer = r.timer
          /\ s.entering = Elapsed(r.entering)
          /\ s.leaving = Elapsed(r.leaving)
      BY <3>1 DEF EntryOK, EntryFields
    <3>3. QED
      BY <3>1, <3>2, ElapsedOK DEF EntryOK
  <2>4. QED
    BY <2>2, <2>3, TriggeringOK
<1>7. CASE \E i \in MeasId : EnteringTimerExpires(i)
  <2>1. PICK i \in MeasId : EnteringTimerExpires(i)
    BY <1>7
  <2>2. PICK e \in Due(report[i].entering) :
          report' = [report EXCEPT ![i] =
            VarMeasReportListAdd(EnteringFired(report[i], e), e.cells)]
    BY <2>1 DEF EnteringTimerExpires
  <2> DEFINE r == report[i]
             s == EnteringFired(r, e)
  <2>3. EntryOK(r) /\ e.cells # {}
    BY DEF Due, EntryOK, QueueOK
  <2>4. s \in {EnteringFired(r, e), LeavingFired(r, e)}
    OBVIOUS
  <2> HIDE DEF s
  <2>5. EntryOK(s)
    BY <2>3, <2>4, FiredEntryOK
  <2> USE DEF s
  <2> DEFINE x == VarMeasReportListAdd(s, e.cells)
  <2>6. EntryOK(x)
    BY <2>3, <2>5, AddOK
  <2>7. report' = [report EXCEPT ![i] = x]
    BY <2>2
  <2> HIDE DEF x
  <2>8. QED
    BY <2>6, <2>7
<1>8. CASE \E i \in MeasId : LeavingTimerExpires(i)
  <2>1. PICK i \in MeasId : LeavingTimerExpires(i)
    BY <1>8
  <2> DEFINE b == EventOf(i).id = "A3" /\ EventOf(i).reportOnLeave
  <2>2. PICK e \in Due(report[i].leaving) :
          report' = [report EXCEPT ![i] =
            VarMeasReportListErase(LeavingFired(report[i], e), e.cells, b)]
    BY <2>1 DEF LeavingTimerExpires
  <2> DEFINE r == report[i]
             s == LeavingFired(r, e)
  <2>3. EntryOK(r)
    OBVIOUS
  <2>4. s \in {EnteringFired(r, e), LeavingFired(r, e)}
    OBVIOUS
  <2> HIDE DEF s
  <2>5. EntryOK(s)
    BY <2>3, <2>4, FiredEntryOK
  <2> USE DEF s
  <2> DEFINE x == VarMeasReportListErase(s, e.cells, b)
  <2>6. EntryOK(x)
    BY <2>5, EraseOK
  <2>7. report' = [report EXCEPT ![i] = x]
    BY <2>2
  <2> HIDE DEF x
  <2>8. QED
    BY <2>6, <2>7
<1>9. CASE \E i \in MeasId : SendMeasurementReport(i)
  <2>1. PICK i \in MeasId : SendMeasurementReport(i)
    BY <1>9
  <2> DEFINE r == report[i]
             s == [r EXCEPT !.timer = IF r.triggered = {} THEN "off" ELSE "interval"]
  <2>2. report' = [report EXCEPT ![i] = s]
    BY <2>1 DEF SendMeasurementReport
  <2>3. EntryOK(s)
    BY DEF EntryOK, EntryFields
  <2>4. QED
    BY <2>2, <2>3
<1>10. CASE \E o \in Cios : ApplyCio(o[1], o[2], o[3])
  BY <1>10 DEF ApplyCio
<1>11. CASE UNCHANGED vars
  BY <1>11 DEF vars
<1>12. QED
  BY <1>3, <1>4, <1>5, <1>6, <1>7, <1>8, <1>9, <1>10, <1>11
     DEF Next, Configuration, Operation

-----------------------------------------------------------------------------
\* The report timer runs exactly while a cell has triggered, in every order of
\* measurements, triggers, reports, reconfigurations and connection losses.
THEOREM TimerRuns == Spec => []ReportTimerRuns
<1>1. Init => EntriesOK
  BY DEF Init, EntriesOK, EntryOK, QueueOK, Quiet, Idle, EntryFields, QueueFields
<1>2. EntriesOK => ReportTimerRuns
  BY DEF EntriesOK, EntryOK, ReportTimerRuns
<1>3. QED
  BY <1>1, <1>2, EntriesStep, PTL DEF Spec

-----------------------------------------------------------------------------
(***************************************************************************)
(* The queues: Kept picks the elements of a sequence at the positions in   *)
(* K, in their order.                                                      *)
(***************************************************************************)

Below(K, k) == {j \in K : j < k}

\* The positions, in the order in which they are picked.
Order(K, p) ==
  /\ p \in [1 .. Cardinality(K) -> K]
  /\ \A m, n \in 1 .. Cardinality(K) : m < n => p[m] < p[n]
  /\ \A k \in K : \E n \in 1 .. Cardinality(K) : p[n] = k

LEMMA KeptOrder ==
  ASSUME NEW s, NEW K \in SUBSET Nat, IsFiniteSet(K)
  PROVE  \E p : Order(K, p) /\ Kept(s, K) = [n \in 1 .. Cardinality(K) |-> s[p[n]]]
<1> DEFINE size == Cardinality(K)
<1>1. size \in Nat
  BY FS_CardinalityType
<1> HIDE DEF size
<1> DEFINE pos == [k \in K |-> Cardinality(Below(K, k))]
<1>0. \A k \in K : pos[k] = Cardinality(Below(K, k))
  OBVIOUS
<1> HIDE DEF pos
<1>2. ASSUME NEW k \in K
      PROVE  /\ pos[k] \in Nat /\ pos[k] < size
             /\ \A j \in K : j < k => pos[j] < pos[k]
  <2>1. ASSUME NEW j \in K
        PROVE  /\ IsFiniteSet(Below(K, j)) /\ Cardinality(Below(K, j)) \in Nat
               /\ IsFiniteSet(Below(K, j) \cup {j})
               /\ Cardinality(Below(K, j) \cup {j}) = Cardinality(Below(K, j)) + 1
    <3>1. Below(K, j) \in SUBSET K /\ j \notin Below(K, j)
      BY DEF Below
    <3> QED
      BY <3>1, FS_Subset, FS_CardinalityType, FS_AddElement
  <2>2. Below(K, k) \cup {k} \in SUBSET K
    BY DEF Below
  <2>3. Cardinality(Below(K, k) \cup {k}) <= size
    BY <2>2, FS_Subset DEF size
  <2>4. ASSUME NEW j \in K, j < k
        PROVE  pos[j] < pos[k]
    <3>1. Below(K, j) \cup {j} \in SUBSET Below(K, k)
      <4> SUFFICES ASSUME NEW i \in K, i < j \/ i = j
                   PROVE  i < k
        BY DEF Below
      <4>1. i \in Nat /\ j \in Nat /\ k \in Nat
        OBVIOUS
      <4> QED
        BY <2>4, <4>1
    <3>2. Cardinality(Below(K, j) \cup {j}) <= Cardinality(Below(K, k))
      BY <2>1, <3>1, FS_Subset
    <3> QED
      <4>1. /\ Cardinality(Below(K, j) \cup {j}) = Cardinality(Below(K, j)) + 1
            /\ Cardinality(Below(K, j)) \in Nat /\ Cardinality(Below(K, k)) \in Nat
        BY <2>1
      <4> QED
        BY <1>0, <3>2, <4>1
  <2> QED
    BY <1>0, <1>1, <2>1, <2>3, <2>4
<1>3. pos \in Injection(K, 0 .. size - 1)
  <2>1. pos \in [K -> 0 .. size - 1]
    BY <1>1, <1>2 DEF pos
  <2>2. \A j, k \in K : pos[j] = pos[k] => j = k
    BY <1>2
  <2> QED
    BY <2>1, <2>2 DEF Injection, IsInjective
<1>4. pos \in Surjection(K, 0 .. size - 1)
  <2>1. 0 \in Int /\ size - 1 \in Int
    BY <1>1
  <2>2. /\ IsFiniteSet(0 .. size - 1)
        /\ Cardinality(0 .. size - 1) = IF 0 > size - 1 THEN 0 ELSE size - 1 - 0 + 1
    BY <2>1, FS_Interval
  <2>3. Cardinality(0 .. size - 1) = size
    BY <1>1, <2>2
  <2> QED
    BY <1>3, <2>2, <2>3, FS_Injection DEF size
<1> DEFINE p == [n \in 1 .. size |-> CHOOSE k \in K : Cardinality({j \in K : j < k}) = n - 1]
<1>5. ASSUME NEW n \in 1 .. size
      PROVE  p[n] \in K /\ pos[p[n]] = n - 1
  <2>1. n - 1 \in 0 .. size - 1
    BY <1>1
  <2>2. \E k \in K : pos[k] = n - 1
    BY <1>4, <2>1 DEF Surjection
  <2>3. \A k \in K : pos[k] = Cardinality({j \in K : j < k})
    BY <1>0 DEF Below
  <2> QED
    BY <2>2, <2>3
<1>6. Kept(s, K) = [n \in 1 .. size |-> s[p[n]]]
  BY DEF Kept, size
<1> HIDE DEF p
<1>7. p \in [1 .. size -> K]
  <2>1. p = [n \in 1 .. size |-> p[n]]
    BY DEF p
  <2> QED
    BY <1>5, <2>1
<1>8. ASSUME NEW m \in 1 .. size, NEW n \in 1 .. size, m < n
      PROVE  p[m] < p[n]
  <2>1. /\ p[m] \in K /\ pos[p[m]] = m - 1 /\ p[n] \in K /\ pos[p[n]] = n - 1
        /\ m - 1 < n - 1
    BY <1>1, <1>5, <1>8
  <2>2. ~(p[n] < p[m]) /\ p[n] # p[m]
    <3>1. p[n] < p[m] => pos[p[n]] < pos[p[m]]
      BY <1>2, <2>1
    <3> QED
      BY <1>1, <2>1, <3>1
  <2>3. p[m] \in Nat /\ p[n] \in Nat
    BY <2>1
  <2> QED
    BY <2>2, <2>3
<1>9. ASSUME NEW k \in K
      PROVE  \E n \in 1 .. size : p[n] = k
  <2>1. pos[k] + 1 \in 1 .. size
    BY <1>1, <1>2
  <2>2. p[pos[k] + 1] \in K /\ pos[p[pos[k] + 1]] = pos[k]
    BY <1>2, <1>5, <2>1
  <2>3. p[pos[k] + 1] = k
    BY <1>3, <2>2 DEF Injection, IsInjective
  <2> QED
    BY <2>1, <2>3
<1> QED
  BY <1>6, <1>7, <1>8, <1>9 DEF Order, size

-----------------------------------------------------------------------------
(***************************************************************************)
(* Queues and scheduled events agree.                                      *)
(***************************************************************************)

\* A trigger for cells in C that fires before the n-th measurement from now.
Trig(n, C) == [cells : (SUBSET C) \ {{}}, left : 0 .. n - 1]

\* The queue is in the order of time, and there is one event for each
\* trigger, for its cells and maybe others.
Waits(q, n, C) ==
  /\ q \in [queue : Seq(Trig(n, C)), events : SUBSET Trig(n, C)]
  /\ \A j, k \in 1 .. Len(q.queue) : j < k => q.queue[j].left < q.queue[k].left
  /\ \A e \in q.events : \E k \in 1 .. Len(q.queue) :
       q.queue[k].left = e.left /\ q.queue[k].cells \subseteq e.cells
  /\ \A k \in 1 .. Len(q.queue) : \E e \in q.events : e.left = q.queue[k].left
  /\ \A e, f \in q.events : e.left = f.left => e = f

\* q has no cells in its triggers but those that s has, and none of these.
Fewer(q, s, cells) ==
  \A k \in 1 .. Len(q.queue) : \E j \in 1 .. Len(s.queue) :
    q.queue[k].cells = s.queue[j].cells \ cells

LEMMA TrigIs ==
  ASSUME NEW n \in Int, NEW C
  PROVE  /\ \A t \in Trig(n, C) : /\ t = [cells |-> t.cells, left |-> t.left]
                                  /\ t.cells \subseteq C /\ t.cells # {}
                                  /\ t.left \in Int /\ 0 <= t.left /\ t.left < n
         /\ \A cells, left : /\ cells \subseteq C /\ cells # {}
                             /\ left \in Int /\ 0 <= left /\ left < n
              => [cells |-> cells, left |-> left] \in Trig(n, C)
<1>1. \A left : left \in 0 .. n - 1 <=> left \in Int /\ 0 <= left /\ left < n
  OBVIOUS
<1>2. ASSUME NEW cells
      PROVE  cells \in (SUBSET C) \ {{}} <=> cells \subseteq C /\ cells # {}
  OBVIOUS
<1> QED
  BY <1>1, <1>2 DEF Trig

\* A trigger has one place in the queue.
LEMMA OnePosition ==
  ASSUME NEW q, NEW n \in Nat, NEW C, Waits(q, n, C),
         NEW j \in 1 .. Len(q.queue), NEW k \in 1 .. Len(q.queue),
         q.queue[j].left = q.queue[k].left
  PROVE  j = k
<1>1. q.queue \in Seq(Trig(n, C))
  BY DEF Waits
<1>2. \A i \in 1 .. Len(q.queue) : q.queue[i].left \in Int
  BY <1>1, TrigIs
<1>3. ~(j < k) /\ ~(k < j)
  BY <1>2 DEF Waits
<1> QED
  BY <1>1, <1>3

\* More time, more cells.
LEMMA WaitsWiden ==
  ASSUME NEW q, NEW n \in Int, NEW C, Waits(q, n, C), NEW m \in Int, n <= m,
         NEW D, C \subseteq D
  PROVE  Waits(q, m, D)
<1>1. Trig(n, C) \subseteq Trig(m, D)
  BY DEF Trig
<1>2. q \in [queue : Seq(Trig(m, D)), events : SUBSET Trig(m, D)]
  BY <1>1 DEF Waits
<1> QED
  BY <1>2 DEF Waits

\* Cancelling leaves the rest in order.
LEMMA CancelWaits ==
  ASSUME NEW q, NEW n \in Nat, NEW C, Waits(q, n, C), NEW cells
  PROVE  Waits(CancelTrigger(q, cells), n, C) /\ Fewer(CancelTrigger(q, cells), q, cells)
<1> DEFINE rest == [k \in DOMAIN q.queue |-> [q.queue[k] EXCEPT !.cells = @ \ cells]]
           gone == {rest[k].left : k \in {j \in DOMAIN rest : rest[j].cells = {}}}
           K == {k \in DOMAIN rest : rest[k].cells # {}}
           new == CancelTrigger(q, cells)
<1>1. /\ q.queue \in Seq(Trig(n, C)) /\ q.events \in SUBSET Trig(n, C)
      /\ DOMAIN q.queue = 1 .. Len(q.queue) /\ Len(q.queue) \in Nat
  BY DEF Waits
<1>2. \A k \in 1 .. Len(q.queue) :
        /\ q.queue[k] \in Trig(n, C)
        /\ rest[k].left = q.queue[k].left /\ rest[k].cells = q.queue[k].cells \ cells
        /\ rest[k] = [cells |-> rest[k].cells, left |-> rest[k].left]
        /\ rest[k].cells \subseteq C
        /\ rest[k].left \in Int /\ 0 <= rest[k].left /\ rest[k].left < n
  <2> SUFFICES ASSUME NEW k \in 1 .. Len(q.queue)
               PROVE  /\ q.queue[k] \in Trig(n, C)
                      /\ rest[k].left = q.queue[k].left
                      /\ rest[k].cells = q.queue[k].cells \ cells
                      /\ rest[k] = [cells |-> rest[k].cells, left |-> rest[k].left]
                      /\ rest[k].cells \subseteq C
                      /\ rest[k].left \in Int /\ 0 <= rest[k].left /\ rest[k].left < n
    OBVIOUS
  <2> DEFINE t == q.queue[k]
  <2>1. /\ t \in Trig(n, C) /\ t = [cells |-> t.cells, left |-> t.left]
        /\ t.cells \subseteq C /\ t.left \in Int /\ 0 <= t.left /\ t.left < n
    BY <1>1, TrigIs
  <2>2. rest[k] = [t EXCEPT !.cells = @ \ cells]
    BY <1>1
  <2> HIDE DEF t, rest
  <2>3. rest[k] = [cells |-> t.cells \ cells, left |-> t.left]
    BY <2>1, <2>2
  <2> QED
    BY <2>1, <2>3 DEF t
<1>3. DOMAIN rest = 1 .. Len(q.queue)
  BY <1>1
<1>4. /\ new.queue = Kept(rest, K)
      /\ new.events = {e \in q.events : e.left \notin gone}
      /\ new = [queue |-> new.queue, events |-> new.events]
  BY DEF CancelTrigger
<1> HIDE DEF rest, new
<1>5. K \in SUBSET Nat /\ IsFiniteSet(K)
  <2>1. IsFiniteSet(1 .. Len(q.queue))
    BY <1>1, FS_Interval
  <2>2. K \in SUBSET (1 .. Len(q.queue))
    BY <1>3
  <2> HIDE DEF K
  <2>3. IsFiniteSet(K)
    BY <2>1, <2>2, FS_Subset
  <2> QED
    BY <1>1, <2>2, <2>3
<1>6. PICK p : Order(K, p) /\ Kept(rest, K) = [i \in 1 .. Cardinality(K) |-> rest[p[i]]]
  <2> HIDE DEF K
  <2> QED
    BY <1>5, KeptOrder
<1> DEFINE size == Cardinality(K)
<1>7. size \in Nat
  <2> HIDE DEF K
  <2> QED
    BY <1>5, FS_CardinalityType
<1>8. \A i \in 1 .. size : p[i] \in 1 .. Len(q.queue) /\ rest[p[i]].cells # {}
  BY <1>3, <1>6 DEF Order
<1>9. /\ \A i, j \in 1 .. size : i < j => p[i] < p[j]
      /\ \A k \in 1 .. Len(q.queue) : rest[k].cells # {} => \E i \in 1 .. size : p[i] = k
  BY <1>3, <1>6 DEF Order
<1> HIDE DEF size
<1>10. new.queue = [i \in 1 .. size |-> rest[p[i]]]
  BY <1>4, <1>6 DEF size
<1>11. \A x : x \in gone <=> \E k \in 1 .. Len(q.queue) : rest[k].cells = {} /\ rest[k].left = x
  BY <1>3
<1> HIDE DEF gone, K
<1>12. new.queue \in Seq(Trig(n, C)) /\ Len(new.queue) = size
  <2>1. \A i \in 1 .. size : rest[p[i]] \in Trig(n, C)
    <3> SUFFICES ASSUME NEW i \in 1 .. size
                 PROVE  rest[p[i]] \in Trig(n, C)
      OBVIOUS
    <3> DEFINE t == rest[p[i]]
    <3>1. /\ t = [cells |-> t.cells, left |-> t.left] /\ t.cells \subseteq C /\ t.cells # {}
          /\ t.left \in Int /\ 0 <= t.left /\ t.left < n
      BY <1>2, <1>8
    <3> HIDE DEF t
    <3>2. [cells |-> t.cells, left |-> t.left] \in Trig(n, C)
      BY <3>1, TrigIs
    <3> QED
      BY <3>1, <3>2 DEF t
  <2> QED
    BY <1>7, <1>10, <2>1
<1>13. \A i \in 1 .. size :
         /\ new.queue[i].left = q.queue[p[i]].left
         /\ new.queue[i].cells = q.queue[p[i]].cells \ cells
  BY <1>2, <1>8, <1>10
<1>14. new \in [queue : Seq(Trig(n, C)), events : SUBSET Trig(n, C)]
  BY <1>1, <1>4, <1>12
<1>15. \A i, j \in 1 .. size : i < j => new.queue[i].left < new.queue[j].left
  <2>1. \A j, k \in 1 .. Len(q.queue) : j < k => q.queue[j].left < q.queue[k].left
    BY DEF Waits
  <2> QED
    BY <1>8, <1>9, <1>13, <2>1
<1>16. ASSUME NEW e \in new.events
       PROVE  \E i \in 1 .. size : /\ new.queue[i].left = e.left
                                   /\ new.queue[i].cells \subseteq e.cells
  <2>1. e \in q.events /\ e.left \notin gone
    BY <1>4
  <2>2. PICK k \in 1 .. Len(q.queue) :
          q.queue[k].left = e.left /\ q.queue[k].cells \subseteq e.cells
    BY <2>1 DEF Waits
  <2>3. rest[k].cells # {}
    BY <1>2, <1>11, <2>1, <2>2
  <2>4. PICK i \in 1 .. size : p[i] = k
    BY <1>9, <2>3
  <2> QED
    BY <1>13, <2>2, <2>4
<1>17. ASSUME NEW i \in 1 .. size
       PROVE  \E e \in new.events : e.left = new.queue[i].left
  <2>1. PICK e \in q.events : e.left = q.queue[p[i]].left
    BY <1>8 DEF Waits
  <2>2. e.left \notin gone
    <3> SUFFICES ASSUME NEW k \in 1 .. Len(q.queue), rest[k].cells = {}, rest[k].left = e.left
                 PROVE  FALSE
      BY <1>11
    <3>1. k = p[i]
      BY <1>2, <1>8, <2>1, OnePosition
    <3> QED
      BY <1>8, <3>1
  <2> QED
    BY <1>4, <1>13, <2>1, <2>2
<1>18. \A e, f \in new.events : e.left = f.left => e = f
  BY <1>4 DEF Waits
<1>19. Waits(new, n, C)
  BY <1>12, <1>14, <1>15, <1>16, <1>17, <1>18 DEF Waits
<1>20. Fewer(new, q, cells)
  BY <1>8, <1>12, <1>13 DEF Fewer
<1> QED
  BY <1>19, <1>20 DEF new

\* A wait for these cells that ends after all others.
LEMMA ScheduleWaits ==
  ASSUME NEW q, NEW n \in Nat, NEW C, Waits(q, n - 1, C), n > 0,
         NEW cells \in SUBSET C, cells # {}
  PROVE  Waits(Schedule(q, cells, n - 1), n, C)
<1> DEFINE t == [cells |-> cells, left |-> n - 1]
           new == Schedule(q, cells, n - 1)
           len == Len(q.queue)
<1>1. /\ q.queue \in Seq(Trig(n - 1, C)) /\ q.events \in SUBSET Trig(n - 1, C)
      /\ len \in Nat
  BY DEF Waits
<1>2. t \in Trig(n, C) /\ Trig(n - 1, C) \subseteq Trig(n, C)
  <2>1. t \in Trig(n, C)
    BY TrigIs
  <2>2. 0 .. (n - 1) - 1 \subseteq 0 .. n - 1
    OBVIOUS
  <2> QED
    BY <2>1, <2>2 DEF Trig
<1>3. /\ new.queue = Append(q.queue, t) /\ new.events = q.events \cup {t}
      /\ new = [queue |-> new.queue, events |-> new.events]
  BY DEF Schedule
<1>4. t.cells = cells /\ t.left = n - 1
  OBVIOUS
<1> HIDE DEF new, t
<1>5. /\ Len(new.queue) = len + 1 /\ new.queue \in Seq(Trig(n, C))
      /\ \A k \in 1 .. len : new.queue[k] = q.queue[k]
      /\ new.queue[len + 1] = t
  BY <1>1, <1>2, <1>3
<1>6. /\ \A k \in 1 .. len : q.queue[k].left \in Int /\ q.queue[k].left < n - 1
      /\ \A e \in q.events : e.left \in Int /\ e.left < n - 1
  <2>1. n - 1 \in Int
    OBVIOUS
  <2>2. \A x \in Trig(n - 1, C) : x.left \in Int /\ x.left < n - 1
    BY <2>1, TrigIs
  <2>3. \A k \in 1 .. len : q.queue[k] \in Trig(n - 1, C)
    BY <1>1
  <2> QED
    BY <1>1, <2>2, <2>3
<1> HIDE DEF len
<1>7. \A k \in 1 .. len + 1 : k \in 1 .. len \/ k = len + 1
  BY <1>1 DEF len
<1>8. new \in [queue : Seq(Trig(n, C)), events : SUBSET Trig(n, C)]
  BY <1>1, <1>2, <1>3, <1>5
<1>9. \A j, k \in 1 .. len + 1 : j < k => new.queue[j].left < new.queue[k].left
  <2> SUFFICES ASSUME NEW j \in 1 .. len + 1, NEW k \in 1 .. len + 1, j < k
               PROVE  new.queue[j].left < new.queue[k].left
    OBVIOUS
  <2>1. j \in 1 .. len
    BY <1>1 DEF len
  <2>2. CASE k \in 1 .. len
    BY <1>5, <2>1, <2>2 DEF Waits, len
  <2>3. CASE k = len + 1
    BY <1>4, <1>5, <1>6, <2>1, <2>3
  <2> QED
    BY <1>7, <2>2, <2>3
<1>10. \A e \in new.events : \E k \in 1 .. len + 1 :
         new.queue[k].left = e.left /\ new.queue[k].cells \subseteq e.cells
  <2> SUFFICES ASSUME NEW e \in new.events
               PROVE  \E k \in 1 .. len + 1 :
                        new.queue[k].left = e.left /\ new.queue[k].cells \subseteq e.cells
    OBVIOUS
  <2>1. CASE e \in q.events
    <3>1. PICK k \in 1 .. len : q.queue[k].left = e.left /\ q.queue[k].cells \subseteq e.cells
      BY <2>1 DEF Waits, len
    <3>2. k \in 1 .. len + 1
      BY <1>1 DEF len
    <3> QED
      BY <1>5, <3>1, <3>2
  <2>2. CASE e = t
    <3>1. len + 1 \in 1 .. len + 1
      BY <1>1 DEF len
    <3> QED
      BY <1>5, <2>2, <3>1
  <2> QED
    BY <1>3, <2>1, <2>2
<1>11. \A k \in 1 .. len + 1 : \E e \in new.events : e.left = new.queue[k].left
  <2> SUFFICES ASSUME NEW k \in 1 .. len + 1
               PROVE  \E e \in new.events : e.left = new.queue[k].left
    OBVIOUS
  <2>1. CASE k \in 1 .. len
    BY <1>3, <1>5, <2>1 DEF Waits, len
  <2>2. CASE k = len + 1
    BY <1>3, <1>5, <2>2
  <2> QED
    BY <1>7, <2>1, <2>2
<1>12. \A e, f \in new.events : e.left = f.left => e = f
  <2>1. \A e, f \in q.events : e.left = f.left => e = f
    BY DEF Waits
  <2>2. \A e \in q.events : e.left # t.left
    BY <1>4, <1>6
  <2> QED
    BY <1>3, <2>1, <2>2
<1> QED
  BY <1>5, <1>8, <1>9, <1>10, <1>11, <1>12 DEF Waits, new, len

\* Event e is due and fires: f is q without it, new is f without its first
\* trigger.
Fires(q, e, f, new) ==
  /\ e \in q.events /\ e.left = 0
  /\ f = [q EXCEPT !.events = @ \ {e}]
  /\ new = [f EXCEPT !.queue = Tail(@)]

\* An event that is due is the one of the first trigger; without both the
\* rest is in order.
LEMMA FireWaits ==
  ASSUME NEW q, NEW n \in Nat, NEW C, Waits(q, n, C),
         NEW e, NEW f, NEW new, Fires(q, e, f, new)
  PROVE  /\ f.queue # <<>> /\ e.cells \subseteq C /\ e.cells # {}
         /\ Waits(new, n, C)
         /\ Fewer(new, q, {})
<1> DEFINE len == Len(q.queue)
<1>1. /\ q = [queue |-> q.queue, events |-> q.events]
      /\ q.queue \in Seq(Trig(n, C)) /\ q.events \in SUBSET Trig(n, C) /\ len \in Nat
  BY DEF Waits
<1>2. /\ f.queue = q.queue /\ new.queue = Tail(q.queue) /\ new.events = q.events \ {e}
      /\ new = [queue |-> new.queue, events |-> new.events]
  <2>1. f = [queue |-> q.queue, events |-> q.events \ {e}]
    BY <1>1 DEF Fires
  <2> DEFINE later == Tail(f.queue)
  <2>2. new = [f EXCEPT !.queue = later]
    BY DEF Fires
  <2> HIDE DEF later
  <2>3. new = [queue |-> later, events |-> q.events \ {e}]
    BY <2>1, <2>2
  <2>4. f.queue = q.queue
    BY <2>1
  <2> QED
    BY <2>3, <2>4 DEF later
<1>0. e \in q.events /\ e.left = 0
  BY DEF Fires
<1>3. PICK i \in 1 .. len : q.queue[i].left = 0
  BY <1>0 DEF Waits
<1>4. i = 1
  <2>1. CASE 1 < i
    <3>1. 1 \in 1 .. len /\ q.queue[1] \in Trig(n, C)
      BY <1>1, <1>3
    <3>2. q.queue[1].left < 0
      BY <1>3, <2>1, <3>1 DEF Waits
    <3>3. q.queue[1].left \in Int /\ 0 <= q.queue[1].left
      BY <3>1, TrigIs
    <3> QED
      BY <3>2, <3>3
  <2> QED
    BY <1>1, <1>3, <2>1
<1>5. q.queue # <<>> /\ q.queue[1].left = 0 /\ 1 \in 1 .. len
  BY <1>1, <1>3, <1>4
<1> HIDE DEF len
<1>6. /\ Len(new.queue) = len - 1 /\ len - 1 \in Nat /\ new.queue \in Seq(Trig(n, C))
      /\ \A k \in 1 .. len - 1 : k + 1 \in 1 .. len /\ new.queue[k] = q.queue[k + 1]
  BY <1>1, <1>2, <1>5 DEF len
<1>7. \A j, k \in 1 .. len - 1 : j < k => new.queue[j].left < new.queue[k].left
  <2> SUFFICES ASSUME NEW j \in 1 .. len - 1, NEW k \in 1 .. len - 1, j < k
               PROVE  new.queue[j].left < new.queue[k].left
    OBVIOUS
  <2>1. \A a, b \in 1 .. len : a < b => q.queue[a].left < q.queue[b].left
    BY DEF Waits, len
  <2>2. j + 1 \in 1 .. len /\ k + 1 \in 1 .. len /\ j + 1 < k + 1
    BY <1>6
  <2>3. q.queue[j + 1].left < q.queue[k + 1].left
    BY <2>1, <2>2
  <2> QED
    BY <1>6, <2>3
<1>8. ASSUME NEW g \in new.events
      PROVE  \E k \in 1 .. len - 1 : /\ new.queue[k].left = g.left
                                     /\ new.queue[k].cells \subseteq g.cells
  <2>1. g \in q.events /\ g.left # 0
    BY <1>0, <1>2 DEF Waits
  <2>2. PICK k \in 1 .. len : q.queue[k].left = g.left /\ q.queue[k].cells \subseteq g.cells
    BY <2>1 DEF Waits, len
  <2>3. k # 1
    BY <1>5, <2>1, <2>2
  <2>4. k - 1 \in 1 .. len - 1 /\ (k - 1) + 1 = k
    BY <1>1, <2>3 DEF len
  <2>5. new.queue[k - 1] = q.queue[k]
    BY <1>6, <2>4
  <2> QED
    BY <2>2, <2>4, <2>5
<1>9. ASSUME NEW k \in 1 .. len - 1
      PROVE  \E g \in new.events : g.left = new.queue[k].left
  <2>1. k + 1 \in 1 .. len /\ new.queue[k] = q.queue[k + 1] /\ 1 < k + 1
    BY <1>6
  <2>2. PICK g \in q.events : g.left = q.queue[k + 1].left
    BY <2>1 DEF Waits, len
  <2>3. q.queue[1].left < q.queue[k + 1].left
    BY <1>5, <2>1 DEF Waits, len
  <2>4. g # e
    BY <1>0, <1>5, <2>2, <2>3
  <2> QED
    BY <1>2, <2>1, <2>2, <2>4
<1>10. \A g, h \in new.events : g.left = h.left => g = h
  BY <1>2 DEF Waits
<1>11. new \in [queue : Seq(Trig(n, C)), events : SUBSET Trig(n, C)]
  BY <1>1, <1>2, <1>6
<1>12. Waits(new, n, C)
  <2>1. Len(new.queue) = len - 1
    BY <1>6
  <2>2. \A g \in new.events : \E k \in 1 .. Len(new.queue) :
          new.queue[k].left = g.left /\ new.queue[k].cells \subseteq g.cells
    BY <1>8, <2>1
  <2>3. \A k \in 1 .. Len(new.queue) : \E g \in new.events : g.left = new.queue[k].left
    BY <1>9, <2>1
  <2>4. \A j, k \in 1 .. Len(new.queue) : j < k => new.queue[j].left < new.queue[k].left
    BY <1>7, <2>1
  <2> QED
    BY <1>10, <1>11, <2>2, <2>3, <2>4, Zenon DEF Waits
<1>13. Fewer(new, q, {})
  BY <1>6 DEF Fewer, len
<1>14. e.cells \subseteq C /\ e.cells # {}
  BY <1>0, <1>1, TrigIs
<1> QED
  BY <1>2, <1>5, <1>12, <1>13, <1>14

\* The event fires and cancels its cells in all other triggers.
LEMMA PopWaits ==
  ASSUME NEW q, NEW n \in Nat, NEW C, Waits(q, n, C),
         NEW e, NEW f, NEW rest, Fires(q, e, f, rest)
  PROVE  /\ e.cells \subseteq C /\ e.cells # {}
         /\ Waits(PopFront(f, e.cells), n, C)
         /\ Fewer(PopFront(f, e.cells), q, e.cells)
<1>1. /\ f.queue # <<>> /\ e.cells \subseteq C /\ e.cells # {}
      /\ Waits(rest, n, C) /\ Fewer(rest, q, {})
  BY FireWaits
<1> DEFINE new == CancelTrigger(rest, e.cells)
<1>2. PopFront(f, e.cells) = new
  BY <1>1 DEF PopFront, Fires
<1>3. Waits(new, n, C) /\ Fewer(new, rest, e.cells)
  BY <1>1, CancelWaits
<1> HIDE DEF new
<1>4. Fewer(new, q, e.cells)
  <2> SUFFICES ASSUME NEW k \in 1 .. Len(new.queue)
               PROVE  \E j \in 1 .. Len(q.queue) : new.queue[k].cells = q.queue[j].cells \ e.cells
    BY DEF Fewer
  <2>1. PICK i \in 1 .. Len(rest.queue) : new.queue[k].cells = rest.queue[i].cells \ e.cells
    BY <1>3 DEF Fewer
  <2>2. PICK j \in 1 .. Len(q.queue) : rest.queue[i].cells = q.queue[j].cells \ {}
    BY <1>1 DEF Fewer
  <2> QED
    BY <2>1, <2>2
<1> QED
  BY <1>1, <1>2, <1>3, <1>4

\* Time passes when nothing is due.
LEMMA ElapsedWaits ==
  ASSUME NEW q, NEW n \in Nat, NEW C, Waits(q, n, C), Due(q) = {}
  PROVE  Waits(Elapsed(q), n - 1, C) /\ Fewer(Elapsed(q), q, {})
<1> DEFINE new == Elapsed(q)
           len == Len(q.queue)
<1>1. /\ q.queue \in Seq(Trig(n, C)) /\ q.events \in SUBSET Trig(n, C) /\ len \in Nat
      /\ DOMAIN q.queue = 1 .. len
  BY DEF Waits
<1>2. \A t \in Trig(n, C) : /\ [t EXCEPT !.left = @ - 1].cells = t.cells
                            /\ [t EXCEPT !.left = @ - 1].left = t.left - 1
                            /\ t.left \in Int /\ 0 <= t.left
                            /\ t.left # 0 => [t EXCEPT !.left = @ - 1] \in Trig(n - 1, C)
  <2> SUFFICES ASSUME NEW t \in Trig(n, C)
               PROVE  /\ [t EXCEPT !.left = @ - 1].cells = t.cells
                      /\ [t EXCEPT !.left = @ - 1].left = t.left - 1
                      /\ t.left \in Int /\ 0 <= t.left
                      /\ t.left # 0 => [t EXCEPT !.left = @ - 1] \in Trig(n - 1, C)
    OBVIOUS
  <2>1. /\ t = [cells |-> t.cells, left |-> t.left] /\ t.cells \subseteq C /\ t.cells # {}
        /\ t.left \in Int /\ 0 <= t.left /\ t.left < n
    BY TrigIs
  <2>2. [t EXCEPT !.left = @ - 1] = [cells |-> t.cells, left |-> t.left - 1]
    BY <2>1
  <2>3. t.left # 0 => [cells |-> t.cells, left |-> t.left - 1] \in Trig(n - 1, C)
    <3>1. n - 1 \in Int /\ t.left - 1 \in Int /\ t.left - 1 < n - 1
      BY <2>1
    <3>2. t.left # 0 => 0 <= t.left - 1
      BY <2>1
    <3> QED
      BY <2>1, <3>1, <3>2, TrigIs
  <2> QED
    BY <2>1, <2>2, <2>3
<1>3. /\ new.queue = [k \in 1 .. len |-> [q.queue[k] EXCEPT !.left = @ - 1]]
      /\ new.events = {[e EXCEPT !.left = @ - 1] : e \in q.events}
      /\ new = [queue |-> new.queue, events |-> new.events]
  BY <1>1 DEF Elapsed
<1> HIDE DEF new, len
<1>4. \A e \in q.events : e.left # 0
  BY DEF Due
<1>5. \A k \in 1 .. len : q.queue[k].left # 0
  BY <1>4 DEF Waits, len
<1>6. \A k \in 1 .. len :
        /\ new.queue[k].cells = q.queue[k].cells /\ new.queue[k].left = q.queue[k].left - 1
        /\ new.queue[k] \in Trig(n - 1, C) /\ q.queue[k].left \in Int
  BY <1>1, <1>2, <1>3, <1>5 DEF len
<1>7. /\ \A e \in q.events : \E g \in new.events : g.cells = e.cells /\ g.left = e.left - 1
      /\ \A g \in new.events : \E e \in q.events :
           /\ g = [e EXCEPT !.left = @ - 1] /\ g.cells = e.cells /\ g.left = e.left - 1
           /\ e.left \in Int /\ g \in Trig(n - 1, C)
  <2>1. ASSUME NEW e \in q.events
        PROVE  \E g \in new.events : g.cells = e.cells /\ g.left = e.left - 1
    <3>1. [e EXCEPT !.left = @ - 1] \in new.events /\ e \in Trig(n, C)
      BY <1>1, <1>3
    <3> QED
      BY <1>2, <3>1
  <2>2. ASSUME NEW g \in new.events
        PROVE  \E e \in q.events :
                 /\ g = [e EXCEPT !.left = @ - 1] /\ g.cells = e.cells /\ g.left = e.left - 1
                 /\ e.left \in Int /\ g \in Trig(n - 1, C)
    <3>1. PICK e \in q.events : g = [e EXCEPT !.left = @ - 1]
      BY <1>3
    <3>2. e \in Trig(n, C) /\ e.left # 0
      BY <1>1, <1>4
    <3> QED
      BY <1>2, <3>1, <3>2
  <2> QED
    BY <2>1, <2>2
<1>8. Len(new.queue) = len /\ new.queue \in Seq(Trig(n - 1, C))
  <2>1. new.queue \in [1 .. len -> Trig(n - 1, C)]
    BY <1>3, <1>6
  <2> QED
    BY <1>1, <2>1
<1>9. new \in [queue : Seq(Trig(n - 1, C)), events : SUBSET Trig(n - 1, C)]
  BY <1>3, <1>7, <1>8
<1>10. \A j, k \in 1 .. len : j < k => new.queue[j].left < new.queue[k].left
  <2> SUFFICES ASSUME NEW j \in 1 .. len, NEW k \in 1 .. len, j < k
               PROVE  new.queue[j].left < new.queue[k].left
    OBVIOUS
  <2>1. q.queue[j].left < q.queue[k].left
    BY DEF Waits, len
  <2> QED
    BY <1>6, <2>1
<1>11. ASSUME NEW g \in new.events
       PROVE  \E k \in 1 .. len : /\ new.queue[k].left = g.left
                                  /\ new.queue[k].cells \subseteq g.cells
  <2>1. PICK e \in q.events : g.cells = e.cells /\ g.left = e.left - 1
    BY <1>7
  <2>2. PICK k \in 1 .. len : q.queue[k].left = e.left /\ q.queue[k].cells \subseteq e.cells
    BY DEF Waits, len
  <2> QED
    BY <1>6, <2>1, <2>2
<1>12. ASSUME NEW k \in 1 .. len
       PROVE  \E g \in new.events : g.left = new.queue[k].left
  <2>1. PICK e \in q.events : e.left = q.queue[k].left
    BY DEF Waits, len
  <2>2. PICK g \in new.events : g.left = e.left - 1
    BY <1>7
  <2> QED
    BY <1>6, <2>1, <2>2
<1>13. \A g, h \in new.events : g.left = h.left => g = h
  <2> SUFFICES ASSUME NEW g \in new.events, NEW h \in new.events, g.left = h.left
               PROVE  g = h
    OBVIOUS
  <2>1. PICK e \in q.events : /\ g = [e EXCEPT !.left = @ - 1] /\ g.left = e.left - 1
                              /\ e.left \in Int
    BY <1>7
  <2>2. PICK f \in q.events : /\ h = [f EXCEPT !.left = @ - 1] /\ h.left = f.left - 1
                              /\ f.left \in Int
    BY <1>7
  <2>3. e.left = f.left
    BY <2>1, <2>2
  <2>4. e = f
    BY <2>3 DEF Waits
  <2> QED
    BY <2>1, <2>2, <2>4
<1>14. Waits(new, n - 1, C)
  BY <1>8, <1>9, <1>10, <1>11, <1>12, <1>13 DEF Waits
<1>15. Fewer(new, q, {})
  BY <1>6, <1>8 DEF Fewer, len
<1> QED
  BY <1>14, <1>15 DEF new

\* Without a time-to-trigger there is no wait.
LEMMA NoWait ==
  ASSUME NEW q, NEW n \in Int, n <= 0, NEW C, Waits(q, n, C)
  PROVE  q = Idle
<1>1. Trig(n, C) = {}
  BY DEF Trig
<1>2. q.queue = <<>> /\ q.events = {} /\ q = [queue |-> q.queue, events |-> q.events]
  BY <1>1 DEF Waits
<1> QED
  BY <1>2 DEF Idle

LEMMA IdleWaits ==
  ASSUME NEW n, NEW C
  PROVE  Waits(Idle, n, C)
<1>1. Idle.queue = <<>> /\ Idle.events = {} /\ Len(Idle.queue) = 0
  BY DEF Idle
<1>2. Idle \in [queue : Seq(Trig(n, C)), events : SUBSET Trig(n, C)]
  BY DEF Idle
<1> QED
  BY <1>1, <1>2 DEF Waits

-----------------------------------------------------------------------------
(***************************************************************************)
(* Entries: the waits are for cells in C, to enter for cells that are out  *)
(* and to leave for cells that are in.                                     *)
(***************************************************************************)

Orderly(r, n, C) ==
  /\ r.triggered \subseteq C
  /\ r.timer \in {"off", "soon", "interval"}
  /\ Waits(r.entering, n, C)
  /\ Waits(r.leaving, n, C)
  /\ \A k \in 1 .. Len(r.entering.queue) : r.entering.queue[k].cells \cap r.triggered = {}
  /\ \A k \in 1 .. Len(r.leaving.queue) : r.leaving.queue[k].cells \subseteq r.triggered

LEMMA QuietOrderly ==
  ASSUME NEW n, NEW C
  PROVE  Orderly(Quiet, n, C)
<1>1. /\ Quiet.triggered = {} /\ Quiet.timer = "off"
      /\ Quiet.entering = Idle /\ Quiet.leaving = Idle
  BY DEF Quiet
<1>2. Len(Idle.queue) = 0
  BY DEF Idle
<1> QED
  BY <1>1, <1>2, IdleWaits DEF Orderly

LEMMA OrderlyWiden ==
  ASSUME NEW r, NEW n \in Int, NEW C, Orderly(r, n, C), NEW D, C \subseteq D
  PROVE  Orderly(r, n, D)
<1>1. Waits(r.entering, n, D) /\ Waits(r.leaving, n, D)
  BY WaitsWiden DEF Orderly
<1> QED
  BY <1>1 DEF Orderly

\* A wait to enter that is over makes its cells trigger.
LEMMA OrderlyEntering ==
  ASSUME NEW r, EntryOK(r), NEW n \in Nat, NEW C, Orderly(r, n, C), NEW e \in Due(r.entering)
  PROVE  Orderly(VarMeasReportListAdd(EnteringFired(r, e), e.cells), n, C)
<1> DEFINE q == r.entering
           f == [q EXCEPT !.events = @ \ {e}]
           rest == [f EXCEPT !.queue = Tail(@)]
           new == PopFront(f, e.cells)
           s == VarMeasReportListAdd(EnteringFired(r, e), e.cells)
<1>1. Fires(q, e, f, rest)
  BY DEF Fires, Due
<1>2. /\ s.triggered = r.triggered \cup e.cells
      /\ s.timer = IF r.timer = "off" THEN "soon" ELSE r.timer
      /\ s.entering = new
      /\ s.leaving = r.leaving
  <2> HIDE DEF f
  <2>1. EnteringFired(r, e) = [r EXCEPT !.entering = f]
    BY DEF EnteringFired, f
  <2>2. /\ EnteringFired(r, e) = [x \in EntryFields |-> EnteringFired(r, e)[x]]
        /\ EnteringFired(r, e).triggered = r.triggered /\ EnteringFired(r, e).timer = r.timer
        /\ EnteringFired(r, e).entering = f /\ EnteringFired(r, e).leaving = r.leaving
    BY <2>1 DEF EntryOK, EntryFields
  <2> QED
    BY <2>2 DEF VarMeasReportListAdd, EntryFields
<1>3. Waits(q, n, C)
  BY DEF Orderly
<1> HIDE DEF q, f, rest
<1>4. /\ e.cells \subseteq C /\ e.cells # {}
      /\ Waits(new, n, C) /\ Fewer(new, q, e.cells)
  BY <1>1, <1>3, PopWaits
<1> HIDE DEF new, s
<1>5. ASSUME NEW k \in 1 .. Len(new.queue)
      PROVE  new.queue[k].cells \cap (r.triggered \cup e.cells) = {}
  <2>1. PICK j \in 1 .. Len(q.queue) : new.queue[k].cells = q.queue[j].cells \ e.cells
    BY <1>4 DEF Fewer
  <2>2. q.queue[j].cells \cap r.triggered = {}
    BY DEF Orderly, q
  <2> QED
    BY <2>1, <2>2
<1>6. Orderly(s, n, C)
  BY <1>2, <1>4, <1>5 DEF Orderly
<1> QED
  BY <1>6 DEF s

\* A wait to leave that is over: its cells had triggered, and do no longer.
LEMMA OrderlyLeaving ==
  ASSUME NEW r, EntryOK(r), NEW n \in Nat, NEW C, Orderly(r, n, C), NEW e \in Due(r.leaving),
         NEW b
  PROVE  /\ r.triggered # {}
         /\ Orderly(VarMeasReportListErase(LeavingFired(r, e), e.cells, b), n, C)
<1> DEFINE q == r.leaving
           f == [q EXCEPT !.events = @ \ {e}]
           rest == [f EXCEPT !.queue = Tail(@)]
           new == PopFront(f, e.cells)
           s == VarMeasReportListErase(LeavingFired(r, e), e.cells, b)
<1>1. Fires(q, e, f, rest)
  BY DEF Fires, Due
<1>2. /\ s.triggered = r.triggered \ e.cells
      /\ s.timer = IF r.triggered \subseteq e.cells THEN "off"
                   ELSE IF b THEN "interval" ELSE r.timer
      /\ s.leaving = new
      /\ s.entering = r.entering
  <2> HIDE DEF f
  <2>1. LeavingFired(r, e) = [r EXCEPT !.leaving = f]
    BY DEF LeavingFired, f
  <2>2. /\ LeavingFired(r, e) = [x \in EntryFields |-> LeavingFired(r, e)[x]]
        /\ LeavingFired(r, e).triggered = r.triggered /\ LeavingFired(r, e).timer = r.timer
        /\ LeavingFired(r, e).leaving = f /\ LeavingFired(r, e).entering = r.entering
    BY <2>1 DEF EntryOK, EntryFields
  <2> QED
    BY <2>2 DEF VarMeasReportListErase, EntryFields
<1>3. Waits(q, n, C)
  BY DEF Orderly
<1> HIDE DEF q, f, rest
<1>4. Waits(new, n, C) /\ Fewer(new, q, e.cells)
  BY <1>1, <1>3, PopWaits
<1> HIDE DEF new, s
<1>5. ASSUME NEW k \in 1 .. Len(new.queue)
      PROVE  new.queue[k].cells \subseteq r.triggered \ e.cells
  <2>1. PICK j \in 1 .. Len(q.queue) : new.queue[k].cells = q.queue[j].cells \ e.cells
    BY <1>4 DEF Fewer
  <2>2. q.queue[j].cells \subseteq r.triggered
    BY DEF Orderly, q
  <2> QED
    BY <2>1, <2>2
<1>6. Orderly(s, n, C)
  BY <1>2, <1>4, <1>5 DEF Orderly
<1>7. r.triggered # {}
  <2>1. PICK k \in 1 .. Len(q.queue) : q.queue[k].left = e.left
    BY <1>1, <1>3 DEF Waits, Fires
  <2>2. q.queue[k] \in Trig(n, C)
    BY <1>3 DEF Waits
  <2>3. q.queue[k].cells # {} /\ q.queue[k].cells \subseteq r.triggered
    BY <2>2, TrigIs DEF Orderly, q
  <2> QED
    BY <2>3
<1> QED
  BY <1>6, <1>7 DEF s

\* Without a time-to-trigger cells trigger at once, and no wait exists.
LEMMA OrderlyAtOnce ==
  ASSUME NEW r, EntryOK(r), NEW C, Orderly(r, 0, C),
         NEW cells \in SUBSET C, NEW b
  PROVE  /\ EntryOK(VarMeasReportListErase(r, cells, b))
         /\ Orderly(VarMeasReportListErase(r, cells, b), 0, C)
         /\ cells # {} => /\ EntryOK(VarMeasReportListAdd(r, cells))
                          /\ Orderly(VarMeasReportListAdd(r, cells), 0, C)
<1>1. r.entering = Idle /\ r.leaving = Idle
  BY NoWait DEF Orderly
<1>2. Idle.queue = <<>> /\ Len(Idle.queue) = 0
  BY DEF Idle
<1>3. PopFront(Idle, cells) = Idle
  BY <1>2 DEF PopFront
<1>4. Waits(Idle, 0, C)
  BY IdleWaits
<1>5. Orderly(VarMeasReportListErase(r, cells, b), 0, C)
  <2> DEFINE s == VarMeasReportListErase(r, cells, b)
  <2>1. /\ s.triggered = r.triggered \ cells
        /\ s.timer = IF r.triggered \subseteq cells THEN "off"
                     ELSE IF b THEN "interval" ELSE r.timer
        /\ s.entering = Idle /\ s.leaving = Idle
    BY <1>1, <1>3 DEF VarMeasReportListErase, EntryOK, EntryFields
  <2> HIDE DEF s
  <2>2. Orderly(s, 0, C)
    BY <1>2, <1>4, <2>1 DEF Orderly
  <2> QED
    BY <2>2 DEF s
<1>6. Orderly(VarMeasReportListAdd(r, cells), 0, C)
  <2> DEFINE s == VarMeasReportListAdd(r, cells)
  <2>1. /\ s.triggered = r.triggered \cup cells
        /\ s.timer = IF r.timer = "off" THEN "soon" ELSE r.timer
        /\ s.entering = Idle /\ s.leaving = Idle
    BY <1>1, <1>3 DEF VarMeasReportListAdd, EntryOK, EntryFields
  <2> HIDE DEF s
  <2>2. Orderly(s, 0, C)
    BY <1>2, <1>4, <2>1 DEF Orderly
  <2> QED
    BY <2>2 DEF s
<1> QED
  BY <1>5, <1>6, EraseOK, AddOK

\* An entry for which a measurement passes and its event is evaluated.
Waited(r) == [r EXCEPT !.entering = Elapsed(@), !.leaving = Elapsed(@)]

LEMMA WaitedIs ==
  ASSUME NEW r, EntryOK(r)
  PROVE  /\ EntryOK(Waited(r))
         /\ Waited(r).triggered = r.triggered /\ Waited(r).timer = r.timer
         /\ Waited(r).entering = Elapsed(r.entering)
         /\ Waited(r).leaving = Elapsed(r.leaving)
<1>1. /\ Waited(r) = [g \in EntryFields |-> Waited(r)[g]]
      /\ Waited(r).triggered = r.triggered /\ Waited(r).timer = r.timer
      /\ Waited(r).entering = Elapsed(r.entering)
      /\ Waited(r).leaving = Elapsed(r.leaving)
  BY DEF EntryOK, EntryFields, Waited
<1> QED
  BY <1>1, ElapsedOK DEF EntryOK

\* Time has passed: all waits are one measurement shorter.
LEMMA OrderlyWaited ==
  ASSUME NEW r, EntryOK(r), NEW n \in Nat, NEW C, Orderly(r, n, C),
         Due(r.entering) = {}, Due(r.leaving) = {}
  PROVE  Orderly(Waited(r), n - 1, C)
<1>1. /\ Waits(Elapsed(r.entering), n - 1, C) /\ Fewer(Elapsed(r.entering), r.entering, {})
      /\ Waits(Elapsed(r.leaving), n - 1, C) /\ Fewer(Elapsed(r.leaving), r.leaving, {})
  BY ElapsedWaits DEF Orderly
<1> DEFINE p == Elapsed(r.entering)
           q == Elapsed(r.leaving)
<1> HIDE DEF p, q
<1>2. ASSUME NEW k \in 1 .. Len(p.queue)
      PROVE  p.queue[k].cells \cap r.triggered = {}
  <2>1. PICK j \in 1 .. Len(r.entering.queue) : p.queue[k].cells = r.entering.queue[j].cells \ {}
    BY <1>1 DEF Fewer, p
  <2> QED
    BY <2>1 DEF Orderly
<1>3. ASSUME NEW k \in 1 .. Len(q.queue)
      PROVE  q.queue[k].cells \subseteq r.triggered
  <2>1. PICK j \in 1 .. Len(r.leaving.queue) : q.queue[k].cells = r.leaving.queue[j].cells \ {}
    BY <1>1 DEF Fewer, q
  <2> QED
    BY <2>1 DEF Orderly
<1> QED
  BY <1>1, <1>2, <1>3, WaitedIs DEF Orderly, p, q

\* Cancelling and starting waits, with a time-to-trigger: the new ones end
\* last.
LEMMA OrderlyScheduled ==
  ASSUME NEW r, EntryOK(r), NEW n \in Nat, n > 0, NEW C, Orderly(r, n - 1, C),
         NEW entering \in SUBSET (C \ r.triggered), NEW leaving \in SUBSET r.triggered,
         NEW x, NEW y, NEW a, NEW b, NEW s,
         a = IF entering = {} THEN CancelTrigger(r.entering, x)
             ELSE Schedule(CancelTrigger(r.entering, x), entering, n - 1),
         b = IF leaving = {} THEN CancelTrigger(r.leaving, y)
             ELSE Schedule(CancelTrigger(r.leaving, y), leaving, n - 1),
         s = [r EXCEPT !.entering = a, !.leaving = b]
  PROVE  Orderly(s, n, C)
<1> DEFINE in == CancelTrigger(r.entering, x)
           out == CancelTrigger(r.leaving, y)
<1> HIDE DEF in, out
<1>1. n - 1 \in Nat /\ n - 1 <= n
  OBVIOUS
<1>2. /\ Waits(in, n - 1, C) /\ Fewer(in, r.entering, x)
      /\ Waits(out, n - 1, C) /\ Fewer(out, r.leaving, y)
  BY <1>1, CancelWaits DEF Orderly, in, out
<1>3. s.triggered = r.triggered /\ s.timer = r.timer /\ s.entering = a /\ s.leaving = b
  BY DEF EntryOK, EntryFields
<1>4. Waits(a, n, C) /\ Waits(b, n, C)
  <2>1. Waits(in, n, C) /\ Waits(out, n, C)
    BY <1>1, <1>2, WaitsWiden
  <2>2. entering # {} => Waits(Schedule(in, entering, n - 1), n, C)
    <3>1. entering \in SUBSET C
      OBVIOUS
    <3> QED
      BY <1>2, <3>1, ScheduleWaits
  <2>3. leaving # {} => Waits(Schedule(out, leaving, n - 1), n, C)
    <3>1. leaving \in SUBSET C
      BY DEF Orderly
    <3> QED
      BY <1>2, <3>1, ScheduleWaits
  <2> QED
    BY <2>1, <2>2, <2>3 DEF in, out
<1>5. ASSUME NEW k \in 1 .. Len(a.queue)
      PROVE  a.queue[k].cells \cap r.triggered = {}
  <2>1. ASSUME NEW j \in 1 .. Len(in.queue)
        PROVE  in.queue[j].cells \cap r.triggered = {}
    <3>1. PICK i \in 1 .. Len(r.entering.queue) : in.queue[j].cells = r.entering.queue[i].cells \ x
      BY <1>2 DEF Fewer
    <3> QED
      BY <3>1 DEF Orderly
  <2>2. CASE entering = {}
    BY <2>1, <2>2 DEF in
  <2>3. CASE entering # {}
    <3>1. in.queue \in Seq(Trig(n - 1, C))
      BY <1>2 DEF Waits
    <3>2. a.queue = Append(in.queue, [cells |-> entering, left |-> n - 1])
      BY <2>3 DEF Schedule, in
    <3>3. \/ k \in 1 .. Len(in.queue) /\ a.queue[k] = in.queue[k]
          \/ a.queue[k].cells = entering
      BY <3>1, <3>2
    <3> QED
      BY <2>1, <3>3
  <2> QED
    BY <2>2, <2>3
<1>6. ASSUME NEW k \in 1 .. Len(b.queue)
      PROVE  b.queue[k].cells \subseteq r.triggered
  <2>1. ASSUME NEW j \in 1 .. Len(out.queue)
        PROVE  out.queue[j].cells \subseteq r.triggered
    <3>1. PICK i \in 1 .. Len(r.leaving.queue) : out.queue[j].cells = r.leaving.queue[i].cells \ y
      BY <1>2 DEF Fewer
    <3> QED
      BY <3>1 DEF Orderly
  <2>2. CASE leaving = {}
    BY <2>1, <2>2 DEF out
  <2>3. CASE leaving # {}
    <3>1. out.queue \in Seq(Trig(n - 1, C))
      BY <1>2 DEF Waits
    <3>2. b.queue = Append(out.queue, [cells |-> leaving, left |-> n - 1])
      BY <2>3 DEF Schedule, out
    <3>3. \/ k \in 1 .. Len(out.queue) /\ b.queue[k] = out.queue[k]
          \/ b.queue[k].cells = leaving
      BY <3>1, <3>2
    <3> QED
      BY <2>1, <3>3
  <2> QED
    BY <2>2, <2>3
<1> QED
  BY <1>3, <1>4, <1>5, <1>6 DEF Orderly

\* MeasurementReportTriggering for an entry for which a measurement passes;
\* the event looks at the cells it looked at before, and maybe others.
LEMMA OrderlyTriggering ==
  ASSUME NEW r, EntryOK(r), NEW e, NEW m, NEW C, C \subseteq Concerned(e, m),
         e.timeToTrigger \in Nat, Orderly(r, e.timeToTrigger, C),
         Due(r.entering) = {}, Due(r.leaving) = {}
  PROVE  Orderly(MeasurementReportTriggering(Waited(r), e, m), e.timeToTrigger, Concerned(e, m))
<1> DEFINE n == e.timeToTrigger
           D == Concerned(e, m)
           w == Waited(r)
           entering == {c \in D : EntryCond(e, m, c)} \ w.triggered
           leaving == {c \in D \cap w.triggered : LeavingCond(e, m, c)}
           reportOnLeave == e.id = "A3" /\ e.reportOnLeave
           s == MeasurementReportTriggering(w, e, m)
<1>1. n \in Nat /\ n - 1 \in Int
  OBVIOUS
<1>2. EntryOK(w) /\ Orderly(w, n - 1, C)
  BY WaitedIs, OrderlyWaited
<1>3. /\ entering \in SUBSET (D \ w.triggered)
      /\ leaving \in SUBSET w.triggered /\ leaving \in SUBSET D
  OBVIOUS
<1>4. C \subseteq D
  OBVIOUS
<1>5. CASE n = 0
  <2> DEFINE added == IF entering = {} THEN w ELSE VarMeasReportListAdd(w, entering)
  <2>1. s = IF leaving = {} THEN added ELSE VarMeasReportListErase(added, leaving, reportOnLeave)
    BY <1>5 DEF MeasurementReportTriggering
  <2> HIDE DEF n, D, w, entering, leaving, reportOnLeave, s
  <2>2. Orderly(w, 0, D)
    <3>1. Orderly(w, n - 1, D)
      BY <1>1, <1>2, <1>4, OrderlyWiden
    <3>2. n - 1 \in Int /\ 0 \in Int /\ n - 1 <= 0
      BY <1>5
    <3>3. Waits(w.entering, 0, D) /\ Waits(w.leaving, 0, D)
      BY <3>1, <3>2, WaitsWiden DEF Orderly
    <3> QED
      BY <3>1, <3>3 DEF Orderly
  <2>3. EntryOK(added) /\ Orderly(added, 0, D)
    <3>1. entering \in SUBSET D
      BY <1>3
    <3> QED
      BY <1>2, <2>2, <3>1, OrderlyAtOnce
  <2> HIDE DEF added
  <2>4. Orderly(VarMeasReportListErase(added, leaving, reportOnLeave), 0, D)
    BY <1>3, <2>3, OrderlyAtOnce
  <2>5. Orderly(s, n, D)
    BY <1>5, <2>1, <2>3, <2>4
  <2> QED
    BY <2>5 DEF s, n, D, w
<1>6. CASE n # 0
  <2> DEFINE x == NotEntering(e, m)
             y == NotLeaving(e, m, w.triggered)
             a == IF entering = {} THEN CancelTrigger(w.entering, x)
                  ELSE Schedule(CancelTrigger(w.entering, x), entering, n - 1)
             b == IF leaving = {} THEN CancelTrigger(w.leaving, y)
                  ELSE Schedule(CancelTrigger(w.leaving, y), leaving, n - 1)
  <2>1. s = [w EXCEPT !.entering = a, !.leaving = b]
    BY <1>6 DEF MeasurementReportTriggering
  <2>2. /\ a = IF entering = {} THEN CancelTrigger(w.entering, x)
               ELSE Schedule(CancelTrigger(w.entering, x), entering, n - 1)
        /\ b = IF leaving = {} THEN CancelTrigger(w.leaving, y)
               ELSE Schedule(CancelTrigger(w.leaving, y), leaving, n - 1)
    OBVIOUS
  <2> HIDE DEF n, D, w, entering, leaving, reportOnLeave, s, x, y, a, b
  <2>3. Orderly(w, n - 1, D)
    BY <1>1, <1>2, <1>4, OrderlyWiden
  <2>4. n > 0
    BY <1>1, <1>6
  <2>5. Orderly(s, n, D)
    BY <1>1, <1>2, <1>3, <2>1, <2>2, <2>3, <2>4, OrderlyScheduled
  <2> QED
    BY <2>5 DEF s, n, D, w
<1> QED
  BY <1>5, <1>6

-----------------------------------------------------------------------------
(***************************************************************************)
(* The inductive invariant of the remaining properties.                    *)
(***************************************************************************)

\* What is configured.
ConfigOK ==
  /\ DOMAIN measIds \subseteq MeasId
  /\ \A i \in DOMAIN measIds : /\ measIds[i].object \in measObjects
                               /\ measIds[i].config \in DOMAIN reportConfigs
  /\ \A c \in DOMAIN reportConfigs : reportConfigs[c].timeToTrigger \in 0 .. MaxTimeToTrigger

\* A measurement id whose entry exists or which has waits is configured,
\* and the serving cell is measured.
EntryOrderly(i) ==
  \/ report[i] = Quiet
  \/ /\ i \in DOMAIN measIds
     /\ cellId \in DOMAIN measValues
     /\ Orderly(report[i], EventOf(i).timeToTrigger, Concerned(EventOf(i), measValues))

MeasureInv ==
  /\ cellId \in Cell \cup {0}
  /\ cellId = 0 => DOMAIN measIds = {}
  /\ DOMAIN measValues \subseteq Cell
  /\ ConfigOK
  /\ \A p \in DOMAIN cio : p \in Cell \X Cell /\ cio[p] \in -24 .. 24
  /\ clock \in {0, 1}
  /\ fatal = FALSE
  /\ \A i \in MeasId : EntryOrderly(i)

\* An entry that is quiet already stays so when its measurement id is added.
LEMMA QuietStays ==
  [Quiet EXCEPT !.entering.events = Quiet.entering.events,
                !.leaving.events = Quiet.leaving.events] = Quiet
<1> DEFINE s == [Quiet EXCEPT !.entering.events = Quiet.entering.events,
                              !.leaving.events = Quiet.leaving.events]
<1>1. /\ Quiet = [g \in EntryFields |-> Quiet[g]] /\ s = [g \in EntryFields |-> s[g]]
      /\ s.triggered = Quiet.triggered /\ s.timer = Quiet.timer
  BY DEF Quiet, EntryFields
<1>2. /\ Quiet.entering = [g \in QueueFields |-> Quiet.entering[g]]
      /\ s.entering = [g \in QueueFields |-> s.entering[g]]
      /\ s.entering.queue = Quiet.entering.queue /\ s.entering.events = Quiet.entering.events
  BY DEF Quiet, Idle, QueueFields
<1>3. /\ Quiet.leaving = [g \in QueueFields |-> Quiet.leaving[g]]
      /\ s.leaving = [g \in QueueFields |-> s.leaving[g]]
      /\ s.leaving.queue = Quiet.leaving.queue /\ s.leaving.events = Quiet.leaving.events
  BY DEF Quiet, Idle, QueueFields
<1> HIDE DEF s
<1>4. s.entering = Quiet.entering /\ s.leaving = Quiet.leaving
  BY <1>2, <1>3 DEF QueueFields
<1>5. \A g \in EntryFields : s[g] = Quiet[g]
  BY <1>1, <1>4 DEF EntryFields
<1>6. s = Quiet
  BY <1>1, <1>5
<1> QED
  BY <1>6 DEF s

LEMMA MeasureStep == MeasureInv /\ EntriesOK /\ [Next]_vars => MeasureInv'
<1> SUFFICES ASSUME MeasureInv, EntriesOK, [Next]_vars PROVE MeasureInv'
  OBVIOUS
<1>0. MaxTimeToTrigger = 3
  BY DEF MaxTimeToTrigger
<1>1. CASE \E c \in Cell, mc \in Messages : Reconfigure(c, mc)
  <2>1. PICK c \in Cell, mc \in Messages : Reconfigure(c, mc)
    BY <1>1
  <2>2. /\ cellId # 0 /\ (c # cellId => mc.quantity) /\ cellId' = c /\ ApplyMeasConfig(mc)
        /\ UNCHANGED <<measValues, cio, clock, fatal>>
    BY <2>1 DEF Reconfigure
  <2> DEFINE cleared == VarMeasReportListClear(Removed(mc) \cup Modified(mc))
             fresh(r) == [Quiet EXCEPT !.entering.events = r.entering.events,
                                       !.leaving.events = r.leaving.events]
  <2>3. /\ measObjects' = (measObjects \ mc.objectsToRemove) \cup mc.objectsToAdd
        /\ reportConfigs' = Override(Without(reportConfigs, mc.configsToRemove), mc.configsToAdd)
        /\ measIds' = Override(Without(measIds, Removed(mc)), mc.idsToAdd)
        /\ report' = [i \in MeasId |->
             IF i \in DOMAIN mc.idsToAdd THEN fresh(cleared[i]) ELSE cleared[i]]
    BY <2>2 DEF ApplyMeasConfig
  <2>4. /\ DOMAIN reportConfigs' = (DOMAIN reportConfigs \ mc.configsToRemove)
                                     \cup DOMAIN mc.configsToAdd
        /\ \A x \in DOMAIN reportConfigs' :
             reportConfigs'[x] = IF x \in DOMAIN mc.configsToAdd THEN mc.configsToAdd[x]
                                 ELSE reportConfigs[x]
    BY <2>3 DEF Override, Without
  <2>5. /\ DOMAIN measIds' = (DOMAIN measIds \ Removed(mc)) \cup DOMAIN mc.idsToAdd
        /\ \A i \in DOMAIN measIds' :
             measIds'[i] = IF i \in DOMAIN mc.idsToAdd THEN mc.idsToAdd[i] ELSE measIds[i]
    BY <2>3 DEF Override, Without
  <2>6. ConfigOK'
    <3>1. DOMAIN measIds' \subseteq MeasId
      BY <2>5, MessageAssumption DEF MeasureInv, ConfigOK
    <3>2. ASSUME NEW i \in DOMAIN measIds'
          PROVE  measIds'[i].object \in measObjects' /\ measIds'[i].config \in DOMAIN reportConfigs'
      <4>1. CASE i \in DOMAIN mc.idsToAdd
        BY <2>3, <2>4, <2>5, <4>1, MessageAssumption
      <4>2. CASE i \notin DOMAIN mc.idsToAdd
        <5>1. i \in DOMAIN measIds /\ i \notin Removed(mc) /\ measIds'[i] = measIds[i]
          BY <2>5, <4>2
        <5>2. measIds[i].object \notin mc.objectsToRemove
              /\ measIds[i].config \notin mc.configsToRemove
          BY <5>1 DEF Removed
        <5> QED
          BY <2>3, <2>4, <5>1, <5>2 DEF MeasureInv, ConfigOK
      <4> QED
        BY <4>1, <4>2
    <3>3. \A x \in DOMAIN reportConfigs' :
            reportConfigs'[x].timeToTrigger \in 0 .. MaxTimeToTrigger
      BY <2>4, MessageAssumption DEF MeasureInv, ConfigOK
    <3> QED
      BY <3>1, <3>2, <3>3 DEF ConfigOK
  <2>7. ASSUME NEW i \in MeasId
        PROVE  EntryOrderly(i)'
    <3>1. CASE mc.quantity
      <4>1. i \in Modified(mc) \/ report[i] = Quiet
        BY <3>1 DEF Modified, MeasureInv, EntryOrderly
      <4>2. cleared[i] = Quiet
        BY <4>1 DEF VarMeasReportListClear
      <4>3. fresh(Quiet) = Quiet
        BY QuietStays
      <4>4. report'[i] = Quiet
        BY <2>3, <4>2, <4>3
      <4> QED
        BY <4>4 DEF EntryOrderly
    <3>2. CASE ~mc.quantity
      <4>1. i \notin DOMAIN mc.idsToAdd /\ cellId' = cellId
        BY <2>2, <3>2, MessageAssumption
      <4>2. report'[i] = IF i \in Removed(mc) \cup Modified(mc) THEN Quiet ELSE report[i]
        BY <2>3, <4>1 DEF VarMeasReportListClear
      <4>3. CASE i \in Removed(mc) \cup Modified(mc) \/ report[i] = Quiet
        BY <4>2, <4>3 DEF EntryOrderly
      <4>4. CASE i \notin Removed(mc) \cup Modified(mc) /\ report[i] # Quiet
        <5>1. /\ i \in DOMAIN measIds /\ cellId \in DOMAIN measValues
              /\ Orderly(report[i], EventOf(i).timeToTrigger, Concerned(EventOf(i), measValues))
          BY <4>4 DEF MeasureInv, EntryOrderly
        <5>2. i \in DOMAIN measIds' /\ measIds'[i] = measIds[i]
          BY <2>5, <4>1, <4>4, <5>1
        <5>3. /\ measIds[i].config \notin DOMAIN mc.configsToAdd
              /\ measIds[i].config \notin mc.configsToRemove
              /\ measIds[i].config \in DOMAIN reportConfigs
          BY <4>4, <5>1 DEF Removed, Modified, MeasureInv, ConfigOK
        <5>4. EventOf(i)' = EventOf(i)
          BY <2>4, <5>2, <5>3 DEF EventOf
        <5>5. Concerned(EventOf(i), measValues)' = Concerned(EventOf(i), measValues)
          BY <2>2, <4>1, <5>4 DEF Concerned
        <5>6. report'[i] = report[i]
          BY <4>2, <4>4
        <5> QED
          BY <2>2, <4>1, <5>1, <5>2, <5>4, <5>5, <5>6 DEF EntryOrderly
      <4> QED
        BY <4>3, <4>4
    <3> QED
      BY <3>1, <3>2
  <2>8. cellId' \in Cell /\ cellId' # 0
    BY <2>2, CellAssumption
  <2> QED
    BY <2>2, <2>6, <2>7, <2>8 DEF MeasureInv
<1>2. CASE \E c \in Cell, f \in Reports : Connect(c, f)
  <2>1. PICK c \in Cell, f \in Reports : Connect(c, f)
    BY <1>2
  <2>2. /\ cellId = 0 /\ cellId' = c /\ measValues' = f
        /\ UNCHANGED <<configVars, report, cio, clock, fatal>>
    BY <2>1 DEF Connect
  <2>3. DOMAIN measIds = {} /\ ConfigOK' /\ cellId' # 0 /\ DOMAIN measValues' \subseteq Cell
    BY <2>2, CellAssumption DEF MeasureInv, ConfigOK, configVars
  <2>4. \A i \in MeasId : report'[i] = Quiet
    BY <2>2, <2>3 DEF MeasureInv, EntryOrderly
  <2> QED
    BY <2>2, <2>3, <2>4 DEF MeasureInv, EntryOrderly
<1>3. CASE LeaveConnectedMode
  <2>1. /\ cellId' = 0 /\ measValues' = Nothing /\ measIds' = Nothing
        /\ report' = VarMeasReportListClear(DOMAIN measIds)
        /\ UNCHANGED <<measObjects, reportConfigs, cio, clock, fatal>>
    BY <1>3 DEF LeaveConnectedMode
  <2>2. DOMAIN Nothing = {}
    BY DEF Nothing
  <2>3. \A i \in MeasId : report'[i] = Quiet
    BY <2>1 DEF VarMeasReportListClear, MeasureInv, EntryOrderly
  <2>4. ConfigOK'
    BY <2>1, <2>2 DEF MeasureInv, ConfigOK
  <2> QED
    BY <2>1, <2>2, <2>3, <2>4 DEF MeasureInv, EntryOrderly
<1>4. CASE \E f \in Reports : DoReportUeMeasurements(f)
  <2>1. PICK f \in Reports : DoReportUeMeasurements(f)
    BY <1>4
  <2> DEFINE m == [c \in DOMAIN f \cup DOMAIN measValues |->
                     IF c \in DOMAIN f THEN f[c] ELSE measValues[c]]
             waited == [i \in MeasId |-> [report[i] EXCEPT !.entering = Elapsed(@),
                                                           !.leaving = Elapsed(@)]]
  <2>2. /\ cellId \in DOMAIN f /\ QuietUntilMeasurement /\ measValues' = m
        /\ report' = [i \in MeasId |->
             IF i \in DOMAIN measIds
               THEN MeasurementReportTriggering(waited[i], EventOf(i), m)
               ELSE waited[i]]
        /\ fatal' = ~(\A i \in DOMAIN measIds : TriggeredIsServing(EventOf(i), m, report[i]))
        /\ clock' = 1 - clock
        /\ UNCHANGED <<cellId, configVars, cio>>
    BY <2>1 DEF DoReportUeMeasurements
  <2>3. \A i \in MeasId : waited[i] = Waited(report[i])
    BY DEF Waited
  <2>4. /\ DOMAIN m = DOMAIN f \cup DOMAIN measValues /\ DOMAIN m \subseteq Cell
        /\ cellId \in DOMAIN m
    BY <2>2, CellAssumption DEF MeasureInv
  <2> HIDE DEF m, waited
  <2>5. ASSUME NEW i \in MeasId
        PROVE  /\ EntryOrderly(i)'
               /\ i \in DOMAIN measIds => TriggeredIsServing(EventOf(i), m, report[i])
    <3>1. EntryOK(report[i]) /\ Due(report[i].entering) = {} /\ Due(report[i].leaving) = {}
      BY <2>2 DEF EntriesOK, QuietUntilMeasurement
    <3>2. CASE i \in DOMAIN measIds
      <4> DEFINE e == EventOf(i)
                 n == e.timeToTrigger
      <4>1. n \in Nat
        <5>1. n \in 0 .. MaxTimeToTrigger
          BY <3>2 DEF MeasureInv, ConfigOK, EventOf
        <5> QED
          BY <1>0, <5>1
      <4>2. PICK C : C \subseteq Concerned(e, m) /\ Orderly(report[i], n, C)
        <5>1. CASE report[i] = Quiet
          BY <5>1, QuietOrderly
        <5>2. CASE report[i] # Quiet
          <6>1. Orderly(report[i], n, Concerned(e, measValues))
            BY <5>2 DEF MeasureInv, EntryOrderly
          <6>2. Concerned(e, measValues) \subseteq Concerned(e, m)
            BY <2>4 DEF Concerned
          <6> QED
            BY <6>1, <6>2
        <5> QED
          BY <5>1, <5>2
      <4>3. Orderly(MeasurementReportTriggering(Waited(report[i]), e, m), n, Concerned(e, m))
        <5> HIDE DEF e
        <5> QED
          BY <3>1, <4>1, <4>2, OrderlyTriggering
      <4>4. report'[i] = MeasurementReportTriggering(Waited(report[i]), e, m)
        BY <2>2, <2>3, <3>2
      <4>5. EventOf(i)' = e /\ Concerned(EventOf(i), measValues)' = Concerned(e, m)
        BY <2>2 DEF EventOf, Concerned, configVars
      <4>6. EntryOrderly(i)'
        BY <2>2, <2>4, <3>2, <4>3, <4>4, <4>5 DEF EntryOrderly, configVars
      <4>7. TriggeredIsServing(e, m, report[i])
        <5>1. e.id \in {"A1", "A2"} => report[i].triggered \subseteq {cellId}
          BY <4>2 DEF Concerned, Orderly
        <5> QED
          BY <5>1 DEF TriggeredIsServing
      <4> QED
        BY <4>6, <4>7
    <3>3. CASE i \notin DOMAIN measIds
      <4>1. report[i] = Quiet
        BY <3>3 DEF MeasureInv, EntryOrderly
      <4>2. Elapsed(Idle) = Idle
        <5>1. Waits(Idle, 0, {})
          BY IdleWaits
        <5>2. Due(Idle) = {}
          BY DEF Due, Idle
        <5>3. Waits(Elapsed(Idle), 0 - 1, {})
          BY <5>1, <5>2, ElapsedWaits
        <5> QED
          BY <5>3, NoWait
      <4>3. Waited(Quiet) = Quiet
        <5>1. Quiet.entering = Idle /\ Quiet.leaving = Idle
          BY DEF Quiet
        <5>2. /\ Quiet = [g \in EntryFields |-> Quiet[g]]
              /\ Waited(Quiet) = [g \in EntryFields |-> Waited(Quiet)[g]]
              /\ \A g \in EntryFields : Waited(Quiet)[g] = Quiet[g]
          BY <3>1, <4>1, <4>2, <5>1, WaitedIs DEF EntryOK, EntryFields
        <5> QED
          BY <5>2
      <4>4. report'[i] = Quiet
        BY <2>2, <2>3, <3>3, <4>1, <4>3
      <4> QED
        BY <3>3, <4>4 DEF EntryOrderly
    <3> QED
      BY <3>2, <3>3
  <2>6. fatal' = FALSE
    <3>1. \A i \in DOMAIN measIds : TriggeredIsServing(EventOf(i), m, report[i])
      BY <2>5 DEF MeasureInv, ConfigOK
    <3> QED
      BY <2>2, <3>1
  <2>7. ConfigOK'
    BY <2>2 DEF MeasureInv, ConfigOK, configVars
  <2>8. clock' \in {0, 1}
    BY <2>2 DEF MeasureInv
  <2> QED
    BY <2>2, <2>4, <2>5, <2>6, <2>7, <2>8 DEF MeasureInv, configVars
<1>5. ASSUME NEW i \in MeasId, NEW r, report' = [report EXCEPT ![i] = r],
             UNCHANGED <<cellId, measValues, configVars, cio, clock>>, fatal' = FALSE,
             \A C : \A n \in Nat : Orderly(report[i], n, C) => Orderly(r, n, C),
             report[i] # Quiet
      PROVE  MeasureInv'
  <2>1. ConfigOK'
    BY <1>5 DEF MeasureInv, ConfigOK, configVars
  <2>2. ASSUME NEW j \in MeasId
        PROVE  EntryOrderly(j)'
    <3>1. EventOf(j)' = EventOf(j)
          /\ Concerned(EventOf(j), measValues)' = Concerned(EventOf(j), measValues)
      BY <1>5 DEF EventOf, Concerned, configVars
    <3>2. CASE j # i
      <4>1. report'[j] = report[j]
        BY <1>5, <3>2 DEF EntriesOK
      <4>2. EntryOrderly(j)
        BY DEF MeasureInv
      <4> QED
        BY <1>5, <3>1, <4>1, <4>2 DEF EntryOrderly, configVars
    <3>3. CASE j = i
      <4>1. report'[i] = r
        BY <1>5 DEF EntriesOK
      <4>2. i \in DOMAIN measIds /\ cellId \in DOMAIN measValues
        BY <1>5 DEF MeasureInv, EntryOrderly
      <4>3. Orderly(report[i], EventOf(i).timeToTrigger, Concerned(EventOf(i), measValues))
        BY <1>5 DEF MeasureInv, EntryOrderly
      <4>4. EventOf(i).timeToTrigger \in Nat
        <5>1. EventOf(i).timeToTrigger \in 0 .. MaxTimeToTrigger
          BY <4>2 DEF MeasureInv, ConfigOK, EventOf
        <5> QED
          BY <1>0, <5>1
      <4>5. Orderly(r, EventOf(i).timeToTrigger, Concerned(EventOf(i), measValues))
        BY <1>5, <4>3, <4>4
      <4> QED
        BY <1>5, <3>1, <3>3, <4>1, <4>2, <4>5 DEF EntryOrderly, configVars
    <3> QED
      BY <3>2, <3>3
  <2> QED
    BY <1>5, <2>1, <2>2 DEF MeasureInv, configVars
<1>6. CASE \E i \in MeasId : EnteringTimerExpires(i)
  <2>1. PICK i \in MeasId : EnteringTimerExpires(i)
    BY <1>6
  <2>2. PICK e \in Due(report[i].entering) :
          /\ report' = [report EXCEPT ![i] =
               VarMeasReportListAdd(EnteringFired(report[i], e), e.cells)]
          /\ UNCHANGED <<cellId, measValues, configVars, cio, clock, fatal>>
    BY <2>1 DEF EnteringTimerExpires
  <2>3. EntryOK(report[i])
    BY DEF EntriesOK
  <2>4. \A C : \A n \in Nat : Orderly(report[i], n, C)
          => Orderly(VarMeasReportListAdd(EnteringFired(report[i], e), e.cells), n, C)
    BY <2>3, OrderlyEntering
  <2>5. report[i] # Quiet
    BY <2>2 DEF Due, Quiet, Idle
  <2>6. fatal' = FALSE
    BY <2>2 DEF MeasureInv
  <2> QED
    BY <1>5, <2>2, <2>4, <2>5, <2>6
<1>7. CASE \E i \in MeasId : LeavingTimerExpires(i)
  <2>1. PICK i \in MeasId : LeavingTimerExpires(i)
    BY <1>7
  <2> DEFINE b == EventOf(i).id = "A3" /\ EventOf(i).reportOnLeave
  <2>2. PICK e \in Due(report[i].leaving) :
          /\ report' = [report EXCEPT ![i] =
               VarMeasReportListErase(LeavingFired(report[i], e), e.cells, b)]
          /\ fatal' = (report[i].triggered = {})
          /\ UNCHANGED <<cellId, measValues, configVars, cio, clock>>
    BY <2>1, Zenon DEF LeavingTimerExpires
  <2> HIDE DEF b
  <2>3. EntryOK(report[i])
    BY DEF EntriesOK
  <2>4. \A C : \A n \in Nat : Orderly(report[i], n, C)
          => /\ report[i].triggered # {}
             /\ Orderly(VarMeasReportListErase(LeavingFired(report[i], e), e.cells, b), n, C)
    BY <2>3, OrderlyLeaving
  <2>5. report[i] # Quiet
    BY <2>2 DEF Due, Quiet, Idle
  <2>6. report[i].triggered # {}
    <3>1. /\ i \in DOMAIN measIds
          /\ Orderly(report[i], EventOf(i).timeToTrigger, Concerned(EventOf(i), measValues))
      BY <2>5 DEF MeasureInv, EntryOrderly
    <3>2. EventOf(i).timeToTrigger \in 0 .. MaxTimeToTrigger
      BY <3>1 DEF MeasureInv, ConfigOK, EventOf
    <3>3. EventOf(i).timeToTrigger \in Nat
      BY <1>0, <3>2
    <3> QED
      BY <2>4, <3>1, <3>3
  <2>7. fatal' = FALSE
    BY <2>2, <2>6
  <2> QED
    BY <1>5, <2>2, <2>4, <2>5, <2>7
<1>8. CASE \E i \in MeasId : SendMeasurementReport(i)
  <2>1. PICK i \in MeasId : SendMeasurementReport(i)
    BY <1>8
  <2> DEFINE r == report[i]
             s == [r EXCEPT !.timer = IF r.triggered = {} THEN "off" ELSE "interval"]
  <2>2. /\ r.timer # "off"
        /\ report' = [report EXCEPT ![i] = s]
        /\ fatal' = ~(i \in DOMAIN measIds
                      /\ {cellId} \cup r.triggered \subseteq DOMAIN measValues)
        /\ UNCHANGED <<cellId, measValues, configVars, cio, clock>>
    BY <2>1 DEF SendMeasurementReport
  <2>3. EntryOK(r)
    BY DEF EntriesOK
  <2>4. /\ s.triggered = r.triggered /\ s.entering = r.entering /\ s.leaving = r.leaving
        /\ s.timer \in {"off", "interval"}
    BY <2>3 DEF EntryOK, EntryFields
  <2>5. r # Quiet
    BY <2>2 DEF Quiet
  <2> HIDE DEF s, r
  <2>6. \A C : \A n \in Nat : Orderly(r, n, C) => Orderly(s, n, C)
    BY <2>4 DEF Orderly
  <2>7. /\ i \in DOMAIN measIds /\ cellId \in DOMAIN measValues
        /\ r.triggered \subseteq Concerned(EventOf(i), measValues)
    BY <2>5 DEF MeasureInv, EntryOrderly, Orderly, r
  <2>8. {cellId} \cup r.triggered \subseteq DOMAIN measValues
    BY <2>7 DEF Concerned
  <2>9. fatal' = FALSE
    BY <2>2, <2>7, <2>8
  <2> QED
    BY <1>5, <2>2, <2>5, <2>6, <2>9 DEF r
<1>9. CASE \E o \in Cios : ApplyCio(o[1], o[2], o[3])
  <2>1. PICK o \in Cios : ApplyCio(o[1], o[2], o[3])
    BY <1>9
  <2> DEFINE old == {p \in DOMAIN cio : p[1] = o[1]}
             new == [p \in {<<o[1], o[2]>>} |-> Clamp(o[3])]
  <2>2. /\ cio' = Override(Without(cio, old), new)
        /\ UNCHANGED <<cellId, measValues, configVars, report, clock, fatal>>
    BY <2>1 DEF ApplyCio
  <2>3. Clamp(o[3]) \in -24 .. 24 /\ <<o[1], o[2]>> \in Cell \X Cell
    BY CellAssumption DEF Clamp
  <2>4. \A p \in DOMAIN cio' : p \in Cell \X Cell /\ cio'[p] \in -24 .. 24
    <3>1. \A p \in DOMAIN cio' : \/ p \in DOMAIN cio /\ cio'[p] = cio[p]
                                 \/ p = <<o[1], o[2]>> /\ cio'[p] = Clamp(o[3])
      BY <2>2 DEF Override, Without
    <3> QED
      BY <2>3, <3>1 DEF MeasureInv
  <2>5. ConfigOK'
    BY <2>2 DEF MeasureInv, ConfigOK, configVars
  <2>6. ASSUME NEW i \in MeasId PROVE EntryOrderly(i)'
    <3>1. EntryOrderly(i)
      BY DEF MeasureInv
    <3> QED
      BY <2>2, <3>1 DEF EntryOrderly, EventOf, Concerned, configVars
  <2> QED
    BY <2>2, <2>4, <2>5, <2>6 DEF MeasureInv, configVars
<1>10. CASE UNCHANGED vars
  <2>1. ASSUME NEW i \in MeasId PROVE EntryOrderly(i)'
    <3>1. EntryOrderly(i)
      BY DEF MeasureInv
    <3> QED
      BY <1>10, <3>1 DEF EntryOrderly, EventOf, Concerned, vars, configVars
  <2> QED
    BY <1>10, <2>1 DEF MeasureInv, ConfigOK, vars, configVars
<1> QED
  BY <1>1, <1>2, <1>3, <1>4, <1>6, <1>7, <1>8, <1>9, <1>10 DEF Next, Configuration, Operation

-----------------------------------------------------------------------------
(***************************************************************************)
(* What the invariant says.                                                *)
(***************************************************************************)

\* A queue is no longer than the time-to-trigger.
LEMMA ShortQueue ==
  ASSUME NEW q, NEW n \in 0 .. 3, NEW C, Waits(q, n, C)
  PROVE  Len(q.queue) <= 3
<1> SUFFICES ASSUME Len(q.queue) > 3 PROVE FALSE
  <2>1. Len(q.queue) \in Nat
    BY DEF Waits
  <2> QED
    BY <2>1
<1>1. q.queue \in Seq(Trig(n, C)) /\ Len(q.queue) \in Nat
  BY DEF Waits
<1>2. {1, 2, 3, 4} \subseteq 1 .. Len(q.queue)
  BY <1>1
<1>3. \A k \in {1, 2, 3, 4} : q.queue[k] \in Trig(n, C)
  BY <1>1, <1>2
<1>4. \A k \in {1, 2, 3, 4} : q.queue[k].left \in Int /\ 0 <= q.queue[k].left
                              /\ q.queue[k].left < n
  <2>1. n \in Int
    OBVIOUS
  <2> QED
    BY <1>3, <2>1, TrigIs
<1>5. /\ q.queue[1].left < q.queue[2].left
      /\ q.queue[2].left < q.queue[3].left
      /\ q.queue[3].left < q.queue[4].left
  <2>1. \A j, k \in 1 .. Len(q.queue) : j < k => q.queue[j].left < q.queue[k].left
    BY DEF Waits
  <2> QED
    BY <1>2, <2>1
<1> QED
  BY <1>4, <1>5

\* Queue and events agree as FirstTriggerFires says.
LEMMA WaitsAgree ==
  ASSUME NEW q, NEW n \in Nat, NEW C, Waits(q, n, C)
  PROVE  /\ \A j, k \in DOMAIN q.queue : j < k => q.queue[j].left < q.queue[k].left
         /\ {t.left : t \in Range(q.queue)} = {e.left : e \in q.events}
         /\ \A t \in Range(q.queue), e \in q.events : t.left = e.left => t.cells \subseteq e.cells
         /\ \A t \in Range(q.queue) \cup q.events : t \in Trig(n, C)
<1>1. /\ q.queue \in Seq(Trig(n, C)) /\ q.events \in SUBSET Trig(n, C)
      /\ DOMAIN q.queue = 1 .. Len(q.queue)
  BY DEF Waits
<1>2. \A t : t \in Range(q.queue) <=> \E k \in 1 .. Len(q.queue) : q.queue[k] = t
  BY <1>1 DEF Range
<1>3. ASSUME NEW x
      PROVE  (\E t \in Range(q.queue) : t.left = x) <=> (\E e \in q.events : e.left = x)
  BY <1>2 DEF Waits
<1>4. ASSUME NEW t \in Range(q.queue), NEW e \in q.events, t.left = e.left
      PROVE  t.cells \subseteq e.cells
  <2>1. PICK j \in 1 .. Len(q.queue) : q.queue[j] = t
    BY <1>2
  <2>2. PICK k \in 1 .. Len(q.queue) :
          q.queue[k].left = e.left /\ q.queue[k].cells \subseteq e.cells
    BY DEF Waits
  <2>3. j = k
    BY <1>4, <2>1, <2>2, OnePosition
  <2> QED
    BY <2>1, <2>2, <2>3
<1>5. \A t \in Range(q.queue) \cup q.events : t \in Trig(n, C)
  BY <1>1, <1>2
<1>6. \A j, k \in DOMAIN q.queue : j < k => q.queue[j].left < q.queue[k].left
  BY <1>1 DEF Waits
<1>7. {t.left : t \in Range(q.queue)} = {e.left : e \in q.events}
  BY <1>3
<1> QED
  BY <1>4, <1>5, <1>6, <1>7

\* Every entry is orderly for some set of cells and some time-to-trigger.
LEMMA AllOrderly ==
  ASSUME MeasureInv, NEW i \in MeasId
  PROVE  \E n \in 0 .. 3, C \in SUBSET Cell : Orderly(report[i], n, C)
<1>1. CASE report[i] = Quiet
  <2>1. 0 \in 0 .. 3 /\ {} \in SUBSET Cell
    OBVIOUS
  <2> QED
    BY <1>1, <2>1, QuietOrderly
<1>2. CASE report[i] # Quiet
  <2> DEFINE C == Concerned(EventOf(i), measValues)
  <2>1. /\ i \in DOMAIN measIds /\ cellId \in DOMAIN measValues
        /\ Orderly(report[i], EventOf(i).timeToTrigger, C)
    BY <1>2 DEF MeasureInv, EntryOrderly
  <2>2. EventOf(i).timeToTrigger \in 0 .. 3
    BY <2>1 DEF MeasureInv, ConfigOK, EventOf, MaxTimeToTrigger
  <2>3. C \in SUBSET Cell
    BY <2>1 DEF Concerned, MeasureInv
  <2> QED
    BY <2>1, <2>2, <2>3
<1> QED
  BY <1>1, <1>2

LEMMA MeasureInvIsInvariant == Spec => [](MeasureInv /\ EntriesOK)
<1>1. Init => MeasureInv /\ EntriesOK
  <2> SUFFICES ASSUME Init PROVE MeasureInv /\ EntriesOK
    OBVIOUS
  <2>1. EntriesOK
    BY DEF Init, EntriesOK, EntryOK, QueueOK, Quiet, Idle, EntryFields, QueueFields
  <2>2. DOMAIN Nothing = {}
    BY DEF Nothing
  <2>3. ConfigOK
    BY <2>2 DEF Init, ConfigOK
  <2> QED
    BY <2>1, <2>2, <2>3 DEF Init, MeasureInv, EntryOrderly
<1> QED
  BY <1>1, MeasureStep, EntriesStep, PTL DEF Spec

\* The state has the types of the variables of LteUeRrc; what is measured and
\* configured refers only to cells and configurations that exist, and no
\* queue is longer than the time-to-trigger allows.
THEOREM TypeCorrect == Spec => []TypeOK
<1>1. MeasureInv /\ EntriesOK => TypeOK
  <2> SUFFICES ASSUME MeasureInv, EntriesOK PROVE TypeOK
    OBVIOUS
  <2>1. ASSUME NEW i \in MeasId
        PROVE  /\ report[i].triggered \subseteq Cell
               /\ report[i].timer \in {"off", "soon", "interval"}
               /\ \A q \in {report[i].entering, report[i].leaving} :
                    /\ \A t \in Range(q.queue) \cup q.events : TriggerOf(t, MaxTimeToTrigger)
                    /\ Len(q.queue) <= MaxTimeToTrigger
    <3>1. PICK n \in 0 .. 3, C \in SUBSET Cell : Orderly(report[i], n, C)
      BY AllOrderly
    <3>2. ASSUME NEW q, Waits(q, n, C)
          PROVE  /\ \A t \in Range(q.queue) \cup q.events : TriggerOf(t, MaxTimeToTrigger)
                 /\ Len(q.queue) <= MaxTimeToTrigger
      <4>1. ASSUME NEW t \in Range(q.queue) \cup q.events
            PROVE  TriggerOf(t, MaxTimeToTrigger)
        <5>0. n \in Nat
          OBVIOUS
        <5>1. t \in Trig(n, C) /\ n \in Int
          BY <3>2, <5>0, WaitsAgree
        <5>2. t.cells \subseteq C /\ t.cells # {} /\ t.left \in Int /\ 0 <= t.left /\ t.left < n
          BY <5>1, TrigIs
        <5>3. t.left \in 0 .. MaxTimeToTrigger
          BY <5>2 DEF MaxTimeToTrigger
        <5>4. t.cells \in (SUBSET Cell) \ {{}}
          BY <5>2
        <5> QED
          BY <5>3, <5>4 DEF TriggerOf
      <4>2. Len(q.queue) <= MaxTimeToTrigger
        BY <3>2, ShortQueue DEF MaxTimeToTrigger
      <4> QED
        BY <4>1, <4>2
    <3>3. Waits(report[i].entering, n, C) /\ Waits(report[i].leaving, n, C)
      BY <3>1 DEF Orderly
    <3>4. report[i].triggered \subseteq Cell /\ report[i].timer \in {"off", "soon", "interval"}
      BY <3>1 DEF Orderly
    <3> QED
      BY <3>2, <3>3, <3>4
  <2>2. DOMAIN report = MeasId
    BY DEF EntriesOK
  <2> QED
    BY <2>1, <2>2 DEF TypeOK, MeasureInv, ConfigOK
<1> QED
  BY <1>1, MeasureInvIsInvariant, PTL

\* In every order of measurements, timers, offsets, reconfigurations,
\* handovers and connection losses the assertions hold: an entry exists when
\* cells leave it, the cell that triggered event A1 or A2 is the serving
\* cell, and a report finds the measurements of all its cells.
THEOREM NoAssertionFails == Spec => []AssertionsHold
<1>1. MeasureInv => AssertionsHold
  BY DEF MeasureInv, AssertionsHold
<1> QED
  BY <1>1, MeasureInvIsInvariant, PTL

\* Queues and scheduled events agree and are in the order of time, so that
\* the first trigger of a queue is always the one whose event fires, and a
\* cell waits to enter only while it is out and to leave only while it is in.
THEOREM TriggersMatch == Spec => []PendingTriggersOK
<1>1. MeasureInv => PendingTriggersOK
  <2> SUFFICES ASSUME MeasureInv, NEW i \in MeasId
               PROVE  /\ \A q \in {report[i].entering, report[i].leaving} :
                           /\ \A j, k \in DOMAIN q.queue :
                                j < k => q.queue[j].left < q.queue[k].left
                           /\ {t.left : t \in Range(q.queue)} = {e.left : e \in q.events}
                           /\ \A t \in Range(q.queue), e \in q.events :
                                t.left = e.left => t.cells \subseteq e.cells
                      /\ \A t \in Range(report[i].entering.queue) :
                           t.cells \cap report[i].triggered = {}
                      /\ \A t \in Range(report[i].leaving.queue) :
                           t.cells \subseteq report[i].triggered
    BY Zenon DEF PendingTriggersOK, FirstTriggerFires, WaitsMatchEntry
  <2>1. PICK n \in 0 .. 3, C \in SUBSET Cell : Orderly(report[i], n, C)
    BY AllOrderly
  <2>2. n \in Nat /\ Waits(report[i].entering, n, C) /\ Waits(report[i].leaving, n, C)
    BY <2>1 DEF Orderly
  <2>3. ASSUME NEW q, Waits(q, n, C)
        PROVE  \A t \in Range(q.queue) : \E k \in 1 .. Len(q.queue) : q.queue[k] = t
    <3>1. DOMAIN q.queue = 1 .. Len(q.queue)
      BY <2>3 DEF Waits
    <3> QED
      BY <3>1 DEF Range
  <2>4. /\ \A t \in Range(report[i].entering.queue) : t.cells \cap report[i].triggered = {}
        /\ \A t \in Range(report[i].leaving.queue) : t.cells \subseteq report[i].triggered
    <3> DEFINE p == report[i].entering
               q == report[i].leaving
    <3>1. /\ \A k \in 1 .. Len(p.queue) : p.queue[k].cells \cap report[i].triggered = {}
          /\ \A k \in 1 .. Len(q.queue) : q.queue[k].cells \subseteq report[i].triggered
          /\ Waits(p, n, C) /\ Waits(q, n, C)
      BY <2>1 DEF Orderly
    <3> HIDE DEF p, q
    <3>2. /\ \A t \in Range(p.queue) : \E k \in 1 .. Len(p.queue) : p.queue[k] = t
          /\ \A t \in Range(q.queue) : \E k \in 1 .. Len(q.queue) : q.queue[k] = t
      BY <2>3, <3>1
    <3>3. /\ \A t \in Range(p.queue) : t.cells \cap report[i].triggered = {}
          /\ \A t \in Range(q.queue) : t.cells \subseteq report[i].triggered
      BY <3>1, <3>2
    <3> QED
      BY <3>3 DEF p, q
  <2>5. ASSUME NEW q, Waits(q, n, C)
        PROVE  /\ \A j, k \in DOMAIN q.queue : j < k => q.queue[j].left < q.queue[k].left
               /\ {t.left : t \in Range(q.queue)} = {e.left : e \in q.events}
               /\ \A t \in Range(q.queue), e \in q.events :
                    t.left = e.left => t.cells \subseteq e.cells
    BY <2>2, <2>5, WaitsAgree
  <2> QED
    BY <2>2, <2>4, <2>5
<1> QED
  BY <1>1, MeasureInvIsInvariant, PTL
=============================================================================
