------------------------------ MODULE EventList ------------------------------
(***************************************************************************)
(* The event list of ns-3's Simulator, for a bounded set of delays.  An    *)
(* event is what it does, the time left until it fires, and its rank among *)
(* the events of the same instant, which fire in the order in which they   *)
(* were scheduled.                                                         *)
(***************************************************************************)
EXTENDS Integers, FiniteSets

EventOf(What) == [what : What, left : Nat, rank : Nat]

\* The events of one instant have the ranks 0, 1, 2, ..., each once.
RanksExact(E) ==
  /\ \A e \in E : e.rank < Cardinality({f \in E : f.left = e.left})
  /\ \A e, f \in E : e.left = f.left /\ e.rank = f.rank => e = f

Pending(E, delay) == Cardinality({e \in E : e.left = delay})

\* Simulator::Schedule.
Schedule(E, delay, what) ==
  E \cup {[what |-> what, left |-> delay, rank |-> Pending(E, delay)]}

\* What(i) scheduled with delay d[i] for every i in S, in the order of S.
ScheduleEach(E, S, d, What(_)) ==
  E \cup {[what |-> What(i), left |-> d[i],
           rank |-> Pending(E, d[i]) + Cardinality({j \in S : j < i /\ d[j] = d[i]})]
            : i \in S}

\* Event e at another place of the event list.
At(e, left, rank) == [what |-> e.what, left |-> left, rank |-> rank]

\* E without the events in C, which were fired or cancelled.
Without(E, C) ==
  {At(e, e.left, e.rank - Cardinality({c \in C : c.left = e.left /\ c.rank < e.rank}))
     : e \in E \ C}

\* Event e fires next: it is due, and was scheduled before the others due.
FiresNext(e) == e.left = 0 /\ e.rank = 0

NothingDue(E) == \A e \in E : e.left > 0

OneInstantOn(E) == {At(e, e.left - 1, e.rank) : e \in E}
=============================================================================
