------------------------ MODULE E2RegistrationProofs ------------------------
(***************************************************************************)
(* Proofs about the registration of E2 nodes, for any number of nodes,     *)
(* IDs and pending events and for every set-up:                            *)
(*   - an ID keeps its owner and the RIC can reach what it registered;     *)
(*   - types, with an exact event list: whatever is scheduled, fired and   *)
(*     cancelled, the events of an instant have the ranks 0, 1, 2, ...;    *)
(*   - silent nodes are deregistered in time;                              *)
(*   - a node does not keep an ID the RIC has dropped;                     *)
(*   - a node that is never deactivated keeps its ID.                      *)
(***************************************************************************)
EXTENDS E2Registration, FiniteSetTheorems, TLAPS

\* The parameters have their types.
LEMMA SetupTypes ==
  ASSUME setup \in Setups
  PROVE  /\ MayDeactivate \subseteq Node /\ setup.ricStops \in BOOLEAN
         /\ TxDelays \subseteq Nat /\ RicDelays \subseteq Nat /\ RicDelays # {}
         /\ RegIntervals \subseteq Nat \ {0} /\ CheckIntervals \subseteq Nat \ {0}
         /\ Threshold \in Nat /\ AgeCap \in Nat /\ AgeCap > Threshold
         /\ MaxId \in Nat /\ MaxEvents \in Nat
BY SetupAssumption
   DEF MayDeactivate, TxDelays, RicDelays, RegIntervals, CheckIntervals, Threshold,
       AgeCap, MaxId, MaxEvents

\* The parameters do not change.
LEMMA SameSetup ==
  UNCHANGED setup =>
    UNCHANGED <<MayDeactivate, TxDelays, RicDelays, RegIntervals, CheckIntervals,
                Threshold, AgeCap, MaxId, MaxEvents, Id, Row, Event>>
BY DEF MayDeactivate, TxDelays, RicDelays, RegIntervals, CheckIntervals, Threshold,
       AgeCap, MaxId, MaxEvents, Id, Row, Event

-----------------------------------------------------------------------------
(***************************************************************************)
(* The ranks of the event list.                                            *)
(***************************************************************************)

Instant(E, t) == {e \in E : e.left = t}

\* The events of an instant have the ranks 0, 1, 2, ..., each once.
Ranked(E) ==
  /\ IsFiniteSet(E)
  /\ \A e \in E : /\ e.left \in Nat /\ e.rank \in Nat
                  /\ e.rank < Cardinality(Instant(E, e.left))
  /\ \A e, f \in E : e.left = f.left /\ e.rank = f.rank => e = f

\* The rank of event e when the events in C are gone.
Rank(C, e) == e.rank - Cardinality({c \in C : c.left = e.left /\ c.rank < e.rank})

\* There are at most b - a events with the ranks from a to b - 1.
LEMMA Span ==
  ASSUME NEW E, Ranked(E), NEW X \in SUBSET E, NEW t, NEW a \in Nat, NEW b \in Nat, a <= b,
         \A e \in X : e.left = t /\ a <= e.rank /\ e.rank < b
  PROVE  IsFiniteSet(X) /\ Cardinality(X) \in Nat /\ Cardinality(X) <= b - a
<1> DEFINE f == [e \in X |-> e.rank]
<1>1. f \in Injection(X, a .. b - 1)
  BY DEF Ranked, Injection, IsInjective
<1>2. IsFiniteSet(a .. b - 1) /\ Cardinality(a .. b - 1) = b - a
  <2>1. a \in Int /\ b - 1 \in Int
    OBVIOUS
  <2>2. Cardinality(a .. b - 1) = IF a > b - 1 THEN 0 ELSE b - 1 - a + 1
    BY <2>1, FS_Interval
  <2>3. IsFiniteSet(a .. b - 1)
    BY <2>1, FS_Interval
  <2> QED
    BY <2>2, <2>3
<1>3. IsFiniteSet(X) /\ Cardinality(X) <= Cardinality(a .. b - 1)
  BY <1>1, <1>2, FS_Injection
<1> QED
  BY <1>2, <1>3, FS_CardinalityType

\* Two finite sets have together at most the elements of both.
LEMMA UnionBound ==
  ASSUME NEW A, NEW B, IsFiniteSet(A), IsFiniteSet(B)
  PROVE  /\ IsFiniteSet(A \cup B) /\ Cardinality(A \cup B) \in Nat
         /\ Cardinality(A \cup B) <= Cardinality(A) + Cardinality(B)
<1>1. IsFiniteSet(A \cap B) /\ Cardinality(A \cap B) \in Nat
  BY FS_Subset, FS_CardinalityType
<1>2. Cardinality(A) \in Nat /\ Cardinality(B) \in Nat
  BY FS_CardinalityType
<1>3. IsFiniteSet(A \cup B) /\ Cardinality(A \cup B) \in Nat
  BY FS_Union, FS_CardinalityType
<1>4. Cardinality(A \cup B) = Cardinality(A) + Cardinality(B) - Cardinality(A \cap B)
  BY FS_Union
<1> QED
  BY <1>1, <1>2, <1>3, <1>4

\* Removing events moves the others up, in their order and without gaps.
LEMMA RankMoves ==
  ASSUME NEW E, Ranked(E), NEW C \in SUBSET E, NEW e \in E \ C
  PROVE  /\ Rank(C, e) \in Nat
         /\ \A f \in E \ C : f.left = e.left /\ e.rank < f.rank => Rank(C, e) < Rank(C, f)
         /\ IsFiniteSet(Instant(E \ C, e.left))
         /\ Rank(C, e) < Cardinality(Instant(E \ C, e.left))
<1> DEFINE below == {c \in C : c.left = e.left /\ c.rank < e.rank}
<1>1. e.rank \in Nat /\ e.rank < Cardinality(Instant(E, e.left))
  BY DEF Ranked
<1>2. IsFiniteSet(below) /\ Cardinality(below) \in Nat /\ Cardinality(below) <= e.rank
  <2>1. below \in SUBSET E /\ \A c \in below : c.left = e.left /\ 0 <= c.rank /\ c.rank < e.rank
    BY DEF Ranked
  <2> HIDE DEF below
  <2>2. 0 \in Nat /\ 0 <= e.rank /\ e.rank - 0 = e.rank
    BY <1>1
  <2> QED
    BY <1>1, <2>1, <2>2, Span
<1>3. Rank(C, e) \in Nat
  BY <1>1, <1>2 DEF Rank
<1>4. ASSUME NEW f \in E \ C, f.left = e.left, e.rank < f.rank
      PROVE  Rank(C, e) < Rank(C, f)
  <2> DEFINE between == {c \in C : c.left = e.left /\ e.rank < c.rank /\ c.rank < f.rank}
             lower == {c \in C : c.left = f.left /\ c.rank < f.rank}
  <2>1. f.rank \in Nat
    BY DEF Ranked
  <2>2. /\ between \in SUBSET E
        /\ \A c \in between : c.left = e.left /\ e.rank + 1 <= c.rank /\ c.rank < f.rank
    BY <1>1 DEF Ranked
  <2>3. lower = below \cup between
    BY <1>1, <1>4 DEF Ranked
  <2> HIDE DEF between, below, lower
  <2>4. /\ IsFiniteSet(between) /\ Cardinality(between) \in Nat
        /\ Cardinality(between) <= f.rank - (e.rank + 1)
    <3>1. e.rank + 1 \in Nat /\ e.rank + 1 <= f.rank
      BY <1>1, <1>4, <2>1
    <3> QED
      BY <2>1, <2>2, <3>1, Span
  <2>5. Cardinality(lower) <= Cardinality(below) + Cardinality(between) /\ Cardinality(lower) \in Nat
    BY <1>2, <2>3, <2>4, UnionBound
  <2>6. Rank(C, f) = f.rank - Cardinality(lower) /\ Rank(C, e) = e.rank - Cardinality(below)
    BY DEF Rank, lower, below
  <2> QED
    BY <1>1, <1>2, <2>1, <2>4, <2>5, <2>6
<1>5. /\ IsFiniteSet(Instant(E \ C, e.left))
      /\ Rank(C, e) < Cardinality(Instant(E \ C, e.left))
  <2> DEFINE all == Instant(E, e.left)
             gone == {c \in C : c.left = e.left}
             above == {c \in C : c.left = e.left /\ e.rank < c.rank}
  <2>1. IsFiniteSet(all) /\ Cardinality(all) \in Nat
    BY FS_Subset, FS_CardinalityType DEF Ranked, Instant
  <2>2. /\ above \in SUBSET E
        /\ \A c \in above : c.left = e.left /\ e.rank + 1 <= c.rank /\ c.rank < Cardinality(all)
    BY <1>1 DEF Ranked
  <2>3. gone = below \cup above /\ gone \in SUBSET all /\ Instant(E \ C, e.left) = all \ gone
    BY <1>1 DEF Ranked, Instant
  <2> HIDE DEF all, gone, above, below
  <2>4. /\ IsFiniteSet(above) /\ Cardinality(above) \in Nat
        /\ Cardinality(above) <= Cardinality(all) - (e.rank + 1)
    <3>1. e.rank + 1 \in Nat /\ e.rank + 1 <= Cardinality(all)
      BY <1>1, <2>1 DEF all
    <3> QED
      BY <2>1, <2>2, <3>1, Span
  <2>5. /\ IsFiniteSet(gone) /\ Cardinality(gone) \in Nat
        /\ Cardinality(gone) <= Cardinality(below) + Cardinality(above)
    BY <1>2, <2>3, <2>4, UnionBound
  <2>6. /\ IsFiniteSet(all \ gone)
        /\ Cardinality(all \ gone) = Cardinality(all) - Cardinality(gone)
    <3>1. all \cap gone = gone
      BY <2>3
    <3> QED
      BY <2>1, <3>1, FS_Difference
  <2>7. Rank(C, e) = e.rank - Cardinality(below)
    BY DEF Rank, below
  <2>8. e.rank < Cardinality(all)
    BY <1>1 DEF all
  <2>9. Rank(C, e) < Cardinality(all \ gone)
    BY <1>1, <1>2, <2>1, <2>4, <2>5, <2>6, <2>7, <2>8
  <2> QED
    BY <2>3, <2>6, <2>9
<1> QED
  BY <1>3, <1>4, <1>5

\* Event e at another place carries what it carried.
LEMMA AtFields ==
  ASSUME NEW e, NEW left, NEW rank
  PROVE  /\ At(e, left, rank).left = left /\ At(e, left, rank).rank = rank
         /\ At(e, left, rank).kind = e.kind /\ At(e, left, rank).node = e.node
         /\ At(e, left, rank).id = e.id
BY DEF At

\* An event list in which an event stands for each event of another, with
\* the events of each instant in the same order.
LEMMA MovedRanked ==
  ASSUME NEW E, IsFiniteSet(E), NEW F, NEW g \in [E -> F], F = {g[e] : e \in E},
         \A e \in E : /\ g[e].left \in Nat /\ g[e].rank \in Nat
                      /\ g[e].rank < Cardinality({f \in E : g[f].left = g[e].left}),
         \A e, f \in E : g[e].left = g[f].left /\ g[e].rank = g[f].rank => e = f
  PROVE  Ranked(F)
<1>1. g \in Surjection(E, F)
  BY DEF Surjection
<1>2. IsFiniteSet(F)
  BY <1>1, FS_Surjection
<1>3. ASSUME NEW e \in E
      PROVE  g[e].rank < Cardinality(Instant(F, g[e].left))
  <2> DEFINE S == {f \in E : g[f].left = g[e].left}
             T == Instant(F, g[e].left)
             h == [f \in S |-> g[f]]
  <2>1. h \in Injection(S, T)
    BY DEF Injection, IsInjective, Instant
  <2>2. IsFiniteSet(T)
    BY <1>2, FS_Subset DEF Instant
  <2>3. IsFiniteSet(S) /\ Cardinality(S) <= Cardinality(T)
    BY <2>1, <2>2, FS_Injection
  <2>4. Cardinality(S) \in Nat /\ Cardinality(T) \in Nat
    BY <2>2, <2>3, FS_CardinalityType
  <2>5. g[e].rank \in Nat /\ g[e].rank < Cardinality(S)
    OBVIOUS
  <2> HIDE DEF S, T
  <2> QED
    BY <2>3, <2>4, <2>5 DEF T
<1> DEFINE fits(e) == /\ g[e].left \in Nat /\ g[e].rank \in Nat
                      /\ g[e].rank < Cardinality(Instant(F, g[e].left))
<1>4. \A e \in E : fits(e)
  BY <1>3
<1> HIDE DEF fits
<1>5. \A x \in F : \E e \in E : x = g[e] /\ fits(e)
  BY <1>4
<1> QED
  BY <1>2, <1>5 DEF Ranked, fits

LEMMA WithoutRanked ==
  ASSUME NEW E, Ranked(E), NEW C \in SUBSET E
  PROVE  Ranked(Without(E, C))
<1> DEFINE F == Without(E, C)
           g == [e \in E \ C |-> At(e, e.left, Rank(C, e))]
<1>1. F = {g[e] : e \in E \ C} /\ g \in [E \ C -> F]
  BY DEF Without, Rank
<1>2. \A e \in E \ C : g[e].left = e.left /\ g[e].rank = Rank(C, e)
  BY AtFields
<1>3. IsFiniteSet(E \ C)
  BY FS_Difference DEF Ranked
<1> HIDE DEF F, g
<1>4. ASSUME NEW e \in E \ C
      PROVE  /\ g[e].left \in Nat /\ g[e].rank \in Nat
             /\ g[e].rank < Cardinality({f \in E \ C : g[f].left = g[e].left})
  <2>1. {f \in E \ C : g[f].left = g[e].left} = Instant(E \ C, e.left)
    BY <1>2 DEF Instant
  <2>2. Rank(C, e) \in Nat /\ Rank(C, e) < Cardinality(Instant(E \ C, e.left))
    BY RankMoves
  <2> QED
    BY <1>2, <2>1, <2>2 DEF Ranked
<1>5. ASSUME NEW e \in E \ C, NEW f \in E \ C, g[e].left = g[f].left, g[e].rank = g[f].rank
      PROVE  e = f
  <2>1. e.left = f.left /\ Rank(C, e) = Rank(C, f)
    BY <1>2, <1>5
  <2>2. Rank(C, e) \in Nat /\ Rank(C, f) \in Nat
    BY RankMoves
  <2>3. \A x, y \in E \ C : x.left = y.left /\ x.rank < y.rank => Rank(C, x) < Rank(C, y)
    BY RankMoves
  <2>4. ~(e.rank < f.rank) /\ ~(f.rank < e.rank)
    BY <2>1, <2>2, <2>3
  <2> QED
    BY <2>1, <2>4 DEF Ranked
<1>6. Ranked(F)
  BY <1>1, <1>3, <1>4, <1>5, MovedRanked
<1> QED
  BY <1>6 DEF F

\* New events after the others of their instants.
LEMMA UnionRanked ==
  ASSUME NEW E, Ranked(E), NEW B, IsFiniteSet(B),
         \A b \in B : /\ b.left \in Nat /\ b.rank \in Nat
                      /\ Cardinality(Instant(E, b.left)) <= b.rank
                      /\ b.rank < Cardinality(Instant(E, b.left))
                                    + Cardinality(Instant(B, b.left)),
         \A b, c \in B : b.left = c.left /\ b.rank = c.rank => b = c
  PROVE  Ranked(E \cup B)
<1>1. IsFiniteSet(E \cup B)
  BY FS_Union DEF Ranked
<1>2. \A e \in E, b \in B : e.left = b.left => e.rank < b.rank
  <2> SUFFICES ASSUME NEW e \in E, NEW b \in B, e.left = b.left
               PROVE  e.rank < b.rank
    OBVIOUS
  <2>1. Cardinality(Instant(E, b.left)) \in Nat
    BY FS_Subset, FS_CardinalityType DEF Ranked, Instant
  <2> QED
    BY <2>1 DEF Ranked
<1>3. \A t : /\ Cardinality(Instant(E \cup B, t))
                  = Cardinality(Instant(E, t)) + Cardinality(Instant(B, t))
             /\ Cardinality(Instant(E, t)) \in Nat /\ Cardinality(Instant(B, t)) \in Nat
  <2> SUFFICES ASSUME NEW t
               PROVE  /\ Cardinality(Instant(E \cup B, t))
                           = Cardinality(Instant(E, t)) + Cardinality(Instant(B, t))
                      /\ Cardinality(Instant(E, t)) \in Nat
                      /\ Cardinality(Instant(B, t)) \in Nat
    OBVIOUS
  <2>1. IsFiniteSet(Instant(E, t)) /\ IsFiniteSet(Instant(B, t))
    BY FS_Subset DEF Ranked, Instant
  <2>2. Instant(E \cup B, t) = Instant(E, t) \cup Instant(B, t)
    BY DEF Instant
  <2>3. Instant(E, t) \cap Instant(B, t) = {}
    <3> SUFFICES ASSUME NEW x \in Instant(E, t) \cap Instant(B, t)
                 PROVE  FALSE
      OBVIOUS
    <3>1. x.rank < x.rank /\ x.rank \in Nat
      BY <1>2 DEF Instant, Ranked
    <3> QED
      BY <3>1
  <2>4. Cardinality(Instant(E, t)) \in Nat /\ Cardinality(Instant(B, t)) \in Nat
    BY <2>1, FS_CardinalityType
  <2>5. Cardinality(Instant(E, t) \cup Instant(B, t))
          = Cardinality(Instant(E, t)) + Cardinality(Instant(B, t)) - Cardinality({})
    BY <2>1, <2>3, FS_Union
  <2>6. Cardinality({}) = 0
    BY FS_EmptySet
  <2>7. Cardinality(Instant(E, t) \cup Instant(B, t))
          = Cardinality(Instant(E, t)) + Cardinality(Instant(B, t))
    BY <2>4, <2>5, <2>6
  <2> QED
    BY <2>2, <2>4, <2>7
<1>4. \A e \in E : e.rank < Cardinality(Instant(E \cup B, e.left))
  BY <1>3 DEF Ranked
<1>5. \A b \in B : b.rank < Cardinality(Instant(E \cup B, b.left))
  BY <1>3
<1>6. \A e, f \in E \cup B : e.left = f.left /\ e.rank = f.rank => e = f
  BY <1>2 DEF Ranked
<1> QED
  BY <1>1, <1>4, <1>5, <1>6 DEF Ranked

\* The fields of a scheduled event.
Scheduled(E, delay, kind, n, i) ==
  [kind |-> kind, node |-> n, id |-> i, left |-> delay, rank |-> Pending(E, delay)]

LEMMA ScheduleRanked ==
  ASSUME NEW E, Ranked(E), NEW delay \in Nat, NEW kind, NEW n, NEW i
  PROVE  Ranked(Schedule(E, delay, kind, n, i))
<1> DEFINE e == Scheduled(E, delay, kind, n, i)
<1>1. e.left = delay /\ e.rank = Cardinality(Instant(E, delay))
  BY DEF Scheduled, Pending, Instant
<1>2. Schedule(E, delay, kind, n, i) = E \cup {e}
  BY DEF Schedule, Scheduled
<1> HIDE DEF e
<1>3. IsFiniteSet({e}) /\ Cardinality({e}) = 1
  BY FS_Singleton
<1>4. Instant({e}, e.left) = {e}
  BY DEF Instant
<1>5. Cardinality(Instant(E, delay)) \in Nat
  BY FS_Subset, FS_CardinalityType DEF Ranked, Instant
<1>6. /\ e.left \in Nat /\ e.rank \in Nat
      /\ Cardinality(Instant(E, e.left)) <= e.rank
      /\ e.rank < Cardinality(Instant(E, e.left)) + Cardinality(Instant({e}, e.left))
  BY <1>1, <1>3, <1>4, <1>5
<1> QED
  BY <1>2, <1>3, <1>6, UnionRanked

\* Time passes: the events of an instant stay together.
LEMMA TickRanked ==
  ASSUME NEW E, Ranked(E), \A e \in E : e.left > 0
  PROVE  Ranked({At(e, e.left - 1, e.rank) : e \in E})
<1> DEFINE F == {At(e, e.left - 1, e.rank) : e \in E}
           g == [e \in E |-> At(e, e.left - 1, e.rank)]
<1>1. F = {g[e] : e \in E} /\ g \in [E -> F]
  OBVIOUS
<1>2. \A e \in E : g[e].left = e.left - 1 /\ g[e].rank = e.rank
  BY AtFields
<1> HIDE DEF F, g
<1>3. ASSUME NEW e \in E
      PROVE  /\ g[e].left \in Nat /\ g[e].rank \in Nat
             /\ g[e].rank < Cardinality({f \in E : g[f].left = g[e].left})
  <2>1. {f \in E : g[f].left = g[e].left} = Instant(E, e.left)
    <3>1. \A f \in E : g[f].left = g[e].left <=> f.left = e.left
      BY <1>2 DEF Ranked
    <3> QED
      BY <3>1 DEF Instant
  <2>2. /\ e.left \in Nat /\ e.left > 0 /\ e.rank \in Nat
        /\ e.rank < Cardinality(Instant(E, e.left))
    BY DEF Ranked
  <2> QED
    BY <1>2, <2>1, <2>2
<1>4. \A e, f \in E : g[e].left = g[f].left /\ g[e].rank = g[f].rank => e = f
  BY <1>2 DEF Ranked
<1>5. IsFiniteSet(E)
  BY DEF Ranked
<1>6. Ranked(F)
  BY <1>1, <1>3, <1>4, <1>5, MovedRanked
<1> QED
  BY <1>6 DEF F

\* The responses to several IDs at once, in the order of the IDs.
Before(S, d, i) == Cardinality({j \in S : j < i /\ d[j] = d[i]})
Response(E, S, d, i) ==
  [kind |-> "DeregistrationResponse", node |-> terminator[i], id |-> i, left |-> d[i],
   rank |-> Pending(E, d[i]) + Before(S, d, i)]
Responses(E, S, d) == {Response(E, S, d, i) : i \in S}

LEMMA BeforeOrder ==
  ASSUME NEW S \in SUBSET Nat, IsFiniteSet(S), NEW d, NEW i \in S
  PROVE  /\ Before(S, d, i) \in Nat
         /\ Before(S, d, i) < Cardinality({j \in S : d[j] = d[i]})
         /\ \A k \in S : d[k] = d[i] /\ i < k => Before(S, d, i) < Before(S, d, k)
<1> DEFINE lower(k) == {j \in S : j < k /\ d[j] = d[k]}
           all == {j \in S : d[j] = d[i]}
<1>1. \A k \in S : IsFiniteSet(lower(k)) /\ Cardinality(lower(k)) \in Nat
  BY FS_Subset, FS_CardinalityType
<1>2. IsFiniteSet(all) /\ Cardinality(all) \in Nat
  BY FS_Subset, FS_CardinalityType
<1>3. Cardinality(lower(i)) < Cardinality(all)
  <2>1. lower(i) \in SUBSET all /\ lower(i) # all
    OBVIOUS
  <2> HIDE DEF lower, all
  <2> QED
    BY <1>1, <1>2, <2>1, FS_Subset
<1>4. ASSUME NEW k \in S, d[k] = d[i], i < k
      PROVE  Cardinality(lower(i)) < Cardinality(lower(k))
  <2>1. lower(i) \in SUBSET lower(k) /\ lower(i) # lower(k)
    <3>1. i \in lower(k) /\ i \notin lower(i)
      BY <1>4
    <3>2. \A j \in S : j < i /\ d[j] = d[i] => j < k /\ d[j] = d[k]
      BY <1>4
    <3> QED
      BY <3>1, <3>2
  <2> HIDE DEF lower
  <2> QED
    BY <1>1, <2>1, FS_Subset
<1> QED
  BY <1>1, <1>3, <1>4 DEF Before

LEMMA ResponsesRanked ==
  ASSUME NEW E, Ranked(E), NEW S \in SUBSET Nat, IsFiniteSet(S), NEW d \in [S -> Nat]
  PROVE  Ranked(E \cup Responses(E, S, d))
<1> DEFINE B == Responses(E, S, d)
           r == [i \in S |-> Response(E, S, d, i)]
<1>1. \A i \in S : /\ r[i].id = i /\ r[i].left = d[i]
                   /\ r[i].rank = Cardinality(Instant(E, d[i])) + Before(S, d, i)
  BY DEF Response, Pending, Instant
<1>2. B = {r[i] : i \in S} /\ r \in Surjection(S, B)
  BY DEF Responses, Surjection
<1> HIDE DEF B, r
<1>3. IsFiniteSet(B)
  BY <1>2, FS_Surjection
<1>4. \A t : Cardinality(Instant(E, t)) \in Nat
  BY FS_Subset, FS_CardinalityType DEF Ranked, Instant
<1>5. ASSUME NEW i \in S
      PROVE  Before(S, d, i) < Cardinality(Instant(B, d[i])) /\ Cardinality(Instant(B, d[i])) \in Nat
  <2> DEFINE all == {j \in S : d[j] = d[i]}
             here == Instant(B, d[i])
             f == [j \in all |-> r[j]]
  <2>1. f \in Injection(all, here)
    BY <1>1, <1>2 DEF Injection, IsInjective, Instant
  <2>2. IsFiniteSet(here)
    BY <1>3, FS_Subset DEF Instant
  <2>3. IsFiniteSet(all) /\ Cardinality(all) <= Cardinality(here)
    BY <2>1, <2>2, FS_Injection
  <2>4. Cardinality(all) \in Nat /\ Cardinality(here) \in Nat
    BY <2>2, <2>3, FS_CardinalityType
  <2>5. Before(S, d, i) \in Nat /\ Before(S, d, i) < Cardinality(all)
    BY BeforeOrder
  <2> HIDE DEF all
  <2> QED
    BY <2>3, <2>4, <2>5
<1> DEFINE fits(b) == /\ b.left \in Nat /\ b.rank \in Nat
                      /\ Cardinality(Instant(E, b.left)) <= b.rank
                      /\ b.rank < Cardinality(Instant(E, b.left))
                                    + Cardinality(Instant(B, b.left))
<1>6. \A i \in S : fits(r[i])
  <2> SUFFICES ASSUME NEW i \in S
               PROVE  fits(r[i])
    OBVIOUS
  <2>1. Before(S, d, i) \in Nat
    BY BeforeOrder
  <2> QED
    BY <1>1, <1>4, <1>5, <2>1
<1>7. \A b \in B : fits(b)
  BY <1>2, <1>6
<1>8. \A i, k \in S : r[i].left = r[k].left /\ r[i].rank = r[k].rank => i = k
  <2> SUFFICES ASSUME NEW i \in S, NEW k \in S, r[i].left = r[k].left, r[i].rank = r[k].rank
               PROVE  i = k
    OBVIOUS
  <2>1. d[i] = d[k] /\ Cardinality(Instant(E, d[i])) \in Nat
    BY <1>1, <1>4
  <2>2. Before(S, d, i) \in Nat /\ Before(S, d, k) \in Nat
    BY BeforeOrder
  <2>3. Before(S, d, i) = Before(S, d, k)
    BY <1>1, <2>1, <2>2
  <2>4. \A x, y \in S : d[y] = d[x] /\ x < y => Before(S, d, x) < Before(S, d, y)
    BY BeforeOrder
  <2> QED
    BY <2>1, <2>2, <2>3, <2>4
<1>9. \A b, c \in B : b.left = c.left /\ b.rank = c.rank => b = c
  BY <1>2, <1>8
<1> HIDE DEF fits
<1>10. Ranked(E \cup B)
  BY <1>3, <1>7, <1>9, UnionRanked DEF fits
<1> QED
  BY <1>10 DEF B

\* What an inactivity check does: the IDs of R that are silent.
Silent(R) == {i \in R : Inactive(latest[i])}
Checked(E, R, c, d) ==
  /\ d \in [Silent(R) -> RicDelays]
  /\ latest' = [i \in Id |-> IF i \in Silent(R) THEN Inserted(i, FALSE) ELSE latest[i]]
  /\ events' = Rescheduled(E \cup Responses(E, Silent(R), d), c)

LEMMA CheckParts ==
  ASSUME NEW E, CheckForInactivity(E)
  PROVE  \E R \in Registered, c \in CheckIntervals : \E d : Checked(E, R, c, d)
<1>1. PICK R \in Registered, c \in CheckIntervals :
        LET silent == {i \in R : Inactive(latest[i])}
        IN \E d \in [silent -> RicDelays] :
             LET before(i) == Cardinality({j \in silent : j < i /\ d[j] = d[i]})
                 responses == {[kind |-> "DeregistrationResponse",
                                node |-> terminator[i], id |-> i, left |-> d[i],
                                rank |-> Pending(E, d[i]) + before(i)] : i \in silent}
             IN /\ latest' = [i \in Id |-> IF i \in silent THEN Inserted(i, FALSE)
                                                         ELSE latest[i]]
                /\ events' = Rescheduled(E \cup responses, c)
  BY Zenon DEF CheckForInactivity
<1> DEFINE silent == {i \in R : Inactive(latest[i])}
<1>2. PICK d \in [silent -> RicDelays] :
        LET before(i) == Cardinality({j \in silent : j < i /\ d[j] = d[i]})
            responses == {[kind |-> "DeregistrationResponse",
                           node |-> terminator[i], id |-> i, left |-> d[i],
                           rank |-> Pending(E, d[i]) + before(i)] : i \in silent}
        IN /\ latest' = [i \in Id |-> IF i \in silent THEN Inserted(i, FALSE)
                                                    ELSE latest[i]]
           /\ events' = Rescheduled(E \cup responses, c)
  BY <1>1
<1>3. silent = Silent(R)
  BY DEF Silent
<1>4. Checked(E, R, c, d)
  BY <1>2, <1>3 DEF Checked, Responses, Response, Before
<1> QED
  BY <1>4

-----------------------------------------------------------------------------
(***************************************************************************)
(* E2 node IDs keep their owner.                                           *)
(***************************************************************************)

\* With the map t, a request or response under way carries an ID of the node
\* it comes from or goes to.
InTransit(e, t) ==
  /\ e.kind \in {"Register", "RegistrationRequest", "RegistrationResponse",
                "DeregistrationRequest"}
       => e.node \in Node
  /\ e.kind \in {"RegistrationRequest", "DeregistrationRequest"} /\ e.id # 0
       => e.id \in DOMAIN t /\ t[e.id] = e.node
  /\ e.kind = "RegistrationResponse"
       => e.id # 0 /\ e.id \in DOMAIN t /\ t[e.id] = e.node

\* OneOwner and RegisteredIsReachable made inductive; IDs not handed out yet
\* are not mapped.
OwnershipInv ==
  /\ setup \in Setups
  /\ nextId \in Nat \ {0}
  /\ latest \in [Id -> Row]
  /\ terminator \in [Id -> Node \cup {Null}]
  /\ nodeId \in [Node -> Id]
  /\ \A i \in Id : i = 0 \/ i >= nextId => terminator[i] = Null
  /\ RegisteredIsReachable
  /\ OneOwner
  /\ \A e \in events : InTransit(e, terminator)

\* Moving an event in the event list does not change what it carries.
LEMMA AtCarries ==
  ASSUME NEW e, NEW left, NEW rank, NEW t, InTransit(e, t)
  PROVE  InTransit(At(e, left, rank), t)
BY DEF At, InTransit

\* Firing or cancelling events leaves what the others carry in order.
LEMMA WithoutInTransit ==
  ASSUME NEW E, NEW C, NEW t, \A e \in E : InTransit(e, t)
  PROVE  \A e \in Without(E, C) : InTransit(e, t)
BY AtCarries DEF Without

\* An event list is in order if every event in it is.
InOrder(E, t) == \A e \in E : InTransit(e, t)

\* The event scheduled by each handler is in order.
LEMMA ScheduledInOrder ==
  ASSUME NEW E, NEW t, InOrder(E, t), NEW delay, NEW i, NEW n
  PROVE  /\ InOrder(Schedule(E, delay, "CheckForInactivity", n, i), t)
         /\ InOrder(Schedule(E, delay, "DeregistrationResponse", n, i), t)
         /\ n \in Node => InOrder(Schedule(E, delay, "Register", n, i), t)
         /\ n \in Node /\ (i = 0 \/ (i \in DOMAIN t /\ t[i] = n))
              => /\ InOrder(Schedule(E, delay, "RegistrationRequest", n, i), t)
                 /\ InOrder(Schedule(E, delay, "DeregistrationRequest", n, i), t)
         /\ n \in Node /\ i # 0 /\ i \in DOMAIN t /\ t[i] = n
              => InOrder(Schedule(E, delay, "RegistrationResponse", n, i), t)
BY DEF InOrder, Schedule, InTransit

\* Firing or cancelling leaves an event list in order.
LEMMA WithoutInOrder ==
  ASSUME NEW E, NEW C, NEW t, InOrder(E, t)
  PROVE  InOrder(Without(E, C), t)
BY WithoutInTransit DEF InOrder

\* Register of a node that owns its ID leaves the event list in order.
LEMMA RegisterInOrder ==
  ASSUME NEW E, NEW n \in Node, OneOwner, nodeId \in [Node -> Id],
         terminator \in [Id -> Node \cup {Null}],
         InOrder(E, terminator), Register(E, n)
  PROVE  InOrder(events', terminator)
<1>1. PICK d \in TxDelays, r \in RegIntervals :
        events' = Schedule(Schedule(Without(E, Registrations(E, n)), d,
                                    "RegistrationRequest", n, nodeId[n]),
                           r, "Register", n, 0)
  BY DEF Register
<1>2. InOrder(Without(E, Registrations(E, n)), terminator)
  BY WithoutInOrder
<1>3. nodeId[n] = 0 \/ (nodeId[n] \in DOMAIN terminator /\ terminator[nodeId[n]] = n)
  BY DEF OneOwner
<1>4. InOrder(Schedule(Without(E, Registrations(E, n)), d,
                       "RegistrationRequest", n, nodeId[n]), terminator)
  BY <1>2, <1>3, ScheduledInOrder
<1> QED BY <1>1, <1>4, ScheduledInOrder

\* A row inserted now is a row.
LEMMA InsertedRow ==
  ASSUME setup \in Setups, latest \in [Id -> Row], NEW i \in Id, NEW b \in BOOLEAN
  PROVE  Inserted(i, b) \in Row /\ Inserted(i, b).registered = b
BY SetupTypes DEF Inserted, Row

\* An inactivity check leaves the rows typed, the rows that stay registered
\* unchanged, and the event list in order.
LEMMA CheckInOrder ==
  ASSUME setup \in Setups, NEW E, InOrder(E, terminator), latest \in [Id -> Row],
         CheckForInactivity(E)
  PROVE  /\ latest' \in [Id -> Row]
         /\ \A i \in Id : latest'[i].registered => latest[i].registered
         /\ InOrder(events', terminator)
<1>a. PICK R \in Registered, c \in CheckIntervals : \E d : Checked(E, R, c, d)
  BY CheckParts
<1>1. PICK d : Checked(E, R, c, d)
  BY <1>a
<1>2. \A e \in Responses(E, Silent(R), d) : e.kind = "DeregistrationResponse"
  BY DEF Responses, Response
<1>3. InOrder(E \cup Responses(E, Silent(R), d), terminator)
  BY <1>2 DEF InOrder, InTransit
<1>4. InOrder(events', terminator)
  BY <1>1, <1>3, WithoutInOrder, ScheduledInOrder DEF Rescheduled, Checked
<1> QED BY <1>1, <1>4, InsertedRow DEF Checked

\* OwnershipInv holds initially.
LEMMA InitOwnership == Init => OwnershipInv
BY SetupTypes, SetupAssumption
   DEF Init, OwnershipInv, RegisteredIsReachable, OneOwner, Id, Row

\* Every step keeps OwnershipInv.
LEMMA NextOwnership ==
  ASSUME OwnershipInv, [Next]_vars
  PROVE  OwnershipInv'
<1> USE DEF OwnershipInv
<1>0. InOrder(events, terminator)
  BY DEF InOrder
<1>. UNCHANGED <<setup, Id, Row>>
  BY SameSetup DEF Next, Tick, RegisterFires, ReceiveRegistrationRequest,
     ReceiveRegistrationResponse, ReceiveDeregistrationRequest,
     ReceiveDeregistrationResponse, CheckFires, QueryLms, StartRic, StopRic, Activate,
     Deactivate, vars
<1>1. ASSUME UNCHANGED <<setup, nextId, terminator, nodeId>>,
             latest' \in [Id -> Row],
             \A i \in Id : latest'[i].registered => latest[i].registered,
             InOrder(events', terminator)
      PROVE  OwnershipInv'
  BY <1>1 DEF InOrder, OneOwner, RegisteredIsReachable
<1>2. CASE Tick
  <2>1. InOrder(events', terminator)
    BY <1>0, <1>2, AtCarries DEF Tick, InOrder
  <2>2. /\ latest' \in [Id -> Row]
        /\ \A i \in Id : latest'[i].registered = latest[i].registered
    BY <1>2, SetupTypes DEF Tick, Older, Row
  <2> QED BY <1>1, <1>2, <2>1, <2>2 DEF Tick, nodeVars
<1>3. CASE RegisterFires
  <2>1. PICK e \in events :
          /\ Fires(e, "Register")
          /\ IF nodeActive[e.node]
               THEN Register(Without(events, {e}), e.node)
               ELSE events' = Without(events, {e})
          /\ UNCHANGED <<setup, crashed, ricActive, ricVars, nodeVars>>
    BY <1>3 DEF RegisterFires
  <2>2. e.node \in Node
    BY <2>1 DEF Fires, InTransit
  <2>3. InOrder(events', terminator)
    BY <1>0, <2>1, <2>2, WithoutInOrder, RegisterInOrder
  <2> QED BY <1>1, <2>1, <2>3 DEF ricVars, nodeVars
<1>4. CASE ReceiveRegistrationRequest
  <2>1. PICK e \in events :
          /\ Fires(e, "RegistrationRequest")
          /\ IF ricActive
               THEN LET k == RegisterNode(e.id)
                    IN /\ k \in Id
                       /\ nextId' = IF k = nextId THEN nextId + 1 ELSE nextId
                       /\ latest' = [latest EXCEPT ![k] = Inserted(k, TRUE)]
                       /\ terminator' = [terminator EXCEPT ![k] = e.node]
                       /\ \E d \in RicDelays :
                            events' = Schedule(Without(events, {e}), d,
                                               "RegistrationResponse", e.node, k)
               ELSE events' = Without(events, {e}) /\ UNCHANGED ricVars
          /\ UNCHANGED <<setup, crashed, ricActive, nodeVars>>
    BY <1>4 DEF ReceiveRegistrationRequest
  <2>2. CASE ~ricActive
    BY <1>0, <1>1, <2>1, <2>2, WithoutInOrder DEF ricVars, nodeVars
  <2>3. CASE ricActive
    <3> DEFINE k == RegisterNode(e.id)
    <3>1. e.kind = "RegistrationRequest" /\ InTransit(e, terminator)
      BY <2>1 DEF Fires
    <3>2. e.node \in Node /\ e.node # Null
      BY <3>1, SetupAssumption DEF InTransit
    <3>3. k \in Id /\ (k = nextId \/ terminator[k] = e.node)
      BY <2>1, <2>3, <3>1 DEF RegisterNode, InTransit
    <3>4. k # 0
      BY <3>1 DEF RegisterNode
    <3> HIDE DEF k
    <3>5. /\ nextId' = IF k = nextId THEN nextId + 1 ELSE nextId
          /\ latest' = [latest EXCEPT ![k] = Inserted(k, TRUE)]
          /\ terminator' = [terminator EXCEPT ![k] = e.node]
          /\ UNCHANGED nodeVars
      BY <2>1, <2>3 DEF k
    <3>6. /\ DOMAIN terminator = Id /\ DOMAIN terminator' = Id
          /\ \A i \in Id : terminator[i] # Null => terminator'[i] = terminator[i]
      BY <3>3, <3>5
    <3>7. \A f : InTransit(f, terminator) => InTransit(f, terminator')
      <4> SUFFICES ASSUME NEW f, InTransit(f, terminator)
                   PROVE  InTransit(f, terminator')
        OBVIOUS
      <4> QED BY <3>6, SetupAssumption DEF InTransit
    <3>8. InOrder(Without(events, {e}), terminator')
      BY <1>0, <3>7, WithoutInOrder DEF InOrder
    <3>9. InOrder(events', terminator')
      <4>1. terminator'[k] = e.node
        BY <3>3, <3>5
      <4>2. PICK d \in RicDelays :
              events' = Schedule(Without(events, {e}), d,
                                 "RegistrationResponse", e.node, k)
        BY <2>1, <2>3 DEF k
      <4> QED BY <3>2, <3>3, <3>4, <3>6, <3>8, <4>1, <4>2, ScheduledInOrder
    <3>10. /\ latest' \in [Id -> Row]
           /\ RegisteredIsReachable'
      BY <3>2, <3>3, <3>5, <3>6, InsertedRow DEF RegisteredIsReachable
    <3>11. OneOwner'
      BY <3>5, <3>6, SetupAssumption DEF OneOwner, nodeVars
    <3>12. \A i \in Id : i = 0 \/ i >= nextId' => terminator'[i] = Null
      BY <3>2, <3>3, <3>4, <3>5 DEF Id
    <3>13. /\ nextId' \in Nat \ {0}
           /\ terminator' \in [Id -> Node \cup {Null}]
           /\ nodeId' \in [Node -> Id]
      <4>1. nextId' \in Nat \ {0}
        BY <3>5
      <4>2. terminator' \in [Id -> Node \cup {Null}]
        BY <3>2, <3>5
      <4>3. nodeId' \in [Node -> Id]
        BY <3>5 DEF nodeVars
      <4> QED BY <4>1, <4>2, <4>3
    <3> QED BY <3>9, <3>10, <3>11, <3>12, <3>13 DEF InOrder
  <2> QED BY <2>2, <2>3
<1>5. CASE ReceiveRegistrationResponse
  <2>1. PICK e \in events :
          /\ Fires(e, "RegistrationResponse")
          /\ events' = Without(events, {e})
          /\ nodeId' = IF nodeActive[e.node] THEN [nodeId EXCEPT ![e.node] = e.id]
                                             ELSE nodeId
          /\ UNCHANGED <<setup, crashed, ricActive, ricVars, nodeActive>>
    BY <1>5 DEF ReceiveRegistrationResponse
  <2>2. e.node \in Node /\ e.id \in Id /\ terminator[e.id] = e.node
    BY <2>1 DEF Fires, InTransit
  <2>3. InOrder(events', terminator)
    BY <1>0, <2>1, WithoutInOrder
  <2> QED BY <2>1, <2>2, <2>3 DEF InOrder, OneOwner, RegisteredIsReachable, ricVars
<1>6. CASE ReceiveDeregistrationRequest
  <2>1. PICK e \in events :
          /\ IF ricActive
               THEN /\ latest' = [latest EXCEPT ![e.id] = Inserted(e.id, FALSE)]
                    /\ \E d \in RicDelays :
                         events' = Schedule(Without(events, {e}), d,
                                            "DeregistrationResponse",
                                            terminator[e.id], e.id)
               ELSE events' = Without(events, {e}) /\ UNCHANGED latest
          /\ UNCHANGED <<setup, crashed, ricActive, nextId, terminator, nodeVars>>
    BY <1>6 DEF ReceiveDeregistrationRequest
  <2>2. InOrder(events', terminator)
    <3>1. InOrder(Without(events, {e}), terminator)
      BY <1>0, WithoutInOrder
    <3>2. CASE ricActive
      <4>1. PICK d \in RicDelays :
              events' = Schedule(Without(events, {e}), d, "DeregistrationResponse",
                                 terminator[e.id], e.id)
        BY <2>1, <3>2
      <4> QED BY <3>1, <4>1, ScheduledInOrder
    <3>3. CASE ~ricActive
      BY <2>1, <3>1, <3>3
    <3> QED BY <3>2, <3>3
  <2>3. /\ latest' \in [Id -> Row]
        /\ \A i \in Id : latest'[i].registered => latest[i].registered
    <3>1. CASE e.id \in Id
      <4>1. Inserted(e.id, FALSE) \in Row /\ ~Inserted(e.id, FALSE).registered
        BY <3>1, InsertedRow
      <4> QED BY <2>1, <3>1, <4>1
    <3>2. CASE e.id \notin Id
      BY <2>1, <3>2
    <3> QED BY <3>1, <3>2
  <2> QED BY <1>1, <2>1, <2>2, <2>3 DEF nodeVars
<1>7. CASE ReceiveDeregistrationResponse
  <2>1. PICK e \in events :
          /\ events' = Without(events, {e})
          /\ IF e.node = Null
               THEN crashed' = TRUE /\ UNCHANGED nodeId
               ELSE nodeId' = Forgotten(e.node) /\ UNCHANGED crashed
          /\ UNCHANGED <<setup, ricActive, ricVars, nodeActive>>
    BY <1>7 DEF ReceiveDeregistrationResponse
  <2>2. InOrder(events', terminator)
    BY <1>0, <2>1, WithoutInOrder
  <2>3. \A n \in Node : nodeId'[n] = nodeId[n] \/ nodeId'[n] = 0
    BY <2>1 DEF Forgotten
  <2>4. nodeId' \in [Node -> Id]
    BY <2>1, SetupTypes DEF Forgotten, Id
  <2> QED BY <2>1, <2>2, <2>3, <2>4 DEF InOrder, OneOwner, RegisteredIsReachable, ricVars
<1>8. CASE CheckFires
  <2>1. PICK e \in events : CheckForInactivity(Without(events, {e}))
    BY <1>8 DEF CheckFires
  <2>2. InOrder(Without(events, {e}), terminator)
    BY <1>0, WithoutInOrder
  <2> QED BY <1>1, <1>8, <2>1, <2>2, CheckInOrder DEF CheckFires, nodeVars
<1>9. CASE QueryLms
  BY <1>0, <1>1, <1>9, CheckInOrder DEF QueryLms, nodeVars
<1>10. CASE StartRic
  BY <1>0, <1>1, <1>10, ScheduledInOrder DEF StartRic, ricVars, nodeVars
<1>11. CASE StopRic
  BY <1>0, <1>1, <1>11, WithoutInOrder DEF StopRic, ricVars, nodeVars
<1>12. ASSUME NEW n \in Node, Activate(n)
       PROVE  OwnershipInv'
  BY <1>0, <1>1, <1>12, RegisterInOrder DEF Activate, ricVars
<1>13. ASSUME NEW n \in Node, Deactivate(n)
       PROVE  OwnershipInv'
  <2>1. PICK d \in TxDelays :
          events' = Schedule(Without(events, Registrations(events, n)), d,
                             "DeregistrationRequest", n, nodeId[n])
    BY <1>13 DEF Deactivate
  <2>2. InOrder(events', terminator)
    <3>1. nodeId[n] = 0 \/ (nodeId[n] \in DOMAIN terminator /\ terminator[nodeId[n]] = n)
      BY DEF OneOwner
    <3> QED
      BY <1>0, <2>1, <3>1, WithoutInOrder, ScheduledInOrder
  <2> QED BY <1>1, <1>13, <2>2 DEF Deactivate, ricVars
<1>14. CASE UNCHANGED vars
  BY <1>0, <1>1, <1>14 DEF vars, ricVars, nodeVars
<1> QED
  BY <1>2, <1>3, <1>4, <1>5, <1>6, <1>7, <1>8, <1>9, <1>10, <1>11, <1>12, <1>13,
     <1>14, SetupTypes DEF Next

\* An E2 node ID belongs to the node that uses it, for any delays and any
\* order of requests, responses, stops and restarts
\* (OranNearRtRicE2Terminator::ReceiveRegistrationRequest).
THEOREM IdsKeepTheirOwner == Spec => []OneOwner
<1>1. OwnershipInv => OneOwner
  BY DEF OwnershipInv
<1> QED BY <1>1, InitOwnership, NextOwnership, PTL DEF Spec

\* Whatever the repository reports as registered can be sent commands: the
\* pointer SendCommand looks up is not null.
THEOREM RegisteredNodesAreReachable == Spec => []RegisteredIsReachable
<1>1. OwnershipInv => RegisteredIsReachable
  BY DEF OwnershipInv
<1> QED BY <1>1, InitOwnership, NextOwnership, PTL DEF Spec

-----------------------------------------------------------------------------
(***************************************************************************)
(* Type correctness, with an exact event list.                             *)
(***************************************************************************)

Listed(E) == E \subseteq Event /\ Ranked(E)

\* With OwnershipInv, which bounds the IDs in use.
TypeInv ==
  /\ Listed(events)
  /\ crashed \in BOOLEAN /\ ricActive \in BOOLEAN
  /\ nextId \in 1 .. MaxId + 1
  /\ nodeActive \in [Node -> BOOLEAN]

LEMMA WithoutListed ==
  ASSUME NEW E, Listed(E), NEW C \in SUBSET E
  PROVE  Listed(Without(E, C))
<1>1. Ranked(Without(E, C))
  BY WithoutRanked DEF Listed
<1>2. ASSUME NEW e \in E \ C
      PROVE  At(e, e.left, Rank(C, e)) \in Event
  <2>1. Rank(C, e) \in Nat
    BY RankMoves DEF Listed
  <2> QED
    BY <2>1 DEF Listed, Event, At
<1>3. Without(E, C) = {At(e, e.left, Rank(C, e)) : e \in E \ C}
  BY DEF Without, Rank
<1> QED
  BY <1>1, <1>2, <1>3 DEF Listed

LEMMA ScheduleListed ==
  ASSUME NEW E, Listed(E), NEW delay \in Nat, NEW kind \in Kind,
         NEW n \in Node \cup {Null}, NEW i \in Id
  PROVE  Listed(Schedule(E, delay, kind, n, i))
<1>1. Ranked(Schedule(E, delay, kind, n, i))
  BY ScheduleRanked DEF Listed
<1>2. Pending(E, delay) \in Nat
  BY FS_Subset, FS_CardinalityType DEF Listed, Ranked, Pending
<1> QED
  BY <1>1, <1>2 DEF Listed, Schedule, Event

LEMMA RegisterListed ==
  ASSUME setup \in Setups, NEW E, Listed(E), NEW n \in Node, nodeId[n] \in Id, Register(E, n)
  PROVE  Listed(events')
<1>1. PICK d \in TxDelays, r \in RegIntervals :
        events' = Schedule(Schedule(Without(E, Registrations(E, n)), d,
                                    "RegistrationRequest", n, nodeId[n]),
                           r, "Register", n, 0)
  BY DEF Register
<1>2. Registrations(E, n) \in SUBSET E
  BY DEF Registrations
<1>3. Listed(Without(E, Registrations(E, n)))
  BY <1>2, WithoutListed
<1>4. d \in Nat /\ r \in Nat /\ 0 \in Id
  BY SetupTypes DEF Id
<1>5. "RegistrationRequest" \in Kind /\ "Register" \in Kind
  BY DEF Kind
<1> DEFINE F == Schedule(Without(E, Registrations(E, n)), d, "RegistrationRequest", n, nodeId[n])
<1>6. Listed(F)
  BY <1>3, <1>4, <1>5, ScheduleListed
<1> HIDE DEF F
<1>7. Listed(Schedule(F, r, "Register", n, 0))
  BY <1>4, <1>5, <1>6, ScheduleListed
<1> QED
  BY <1>1, <1>7 DEF F

LEMMA CheckListed ==
  ASSUME setup \in Setups, terminator \in [Id -> Node \cup {Null}],
         NEW E, Listed(E), CheckForInactivity(E)
  PROVE  Listed(events')
<1>a. PICK R \in Registered, c \in CheckIntervals : \E d : Checked(E, R, c, d)
  BY CheckParts
<1>1. PICK d : Checked(E, R, c, d)
  BY <1>a
<1> DEFINE S == Silent(R)
           F == E \cup Responses(E, S, d)
<1>2. R \in SUBSET Id
  BY DEF Registered
<1>3. S \in SUBSET Nat /\ IsFiniteSet(S) /\ S \in SUBSET Id
  <2>1. IsFiniteSet(Id) /\ Id \in SUBSET Nat
    BY SetupTypes, FS_Interval DEF Id
  <2>2. S \in SUBSET Id
    BY <1>2 DEF Silent
  <2> QED
    BY <2>1, <2>2, FS_Subset
<1>4. d \in [S -> Nat]
  BY <1>1, SetupTypes DEF Checked
<1> HIDE DEF S
<1>5. Ranked(F)
  BY <1>3, <1>4, ResponsesRanked DEF Listed
<1>6. ASSUME NEW i \in S
      PROVE  Response(E, S, d, i) \in Event
  <2>1. Pending(E, d[i]) \in Nat
    BY FS_Subset, FS_CardinalityType DEF Listed, Ranked, Pending
  <2>2. Before(S, d, i) \in Nat
    BY <1>3, BeforeOrder
  <2>3. terminator[i] \in Node \cup {Null} /\ i \in Id /\ d[i] \in Nat
    BY <1>3, <1>4
  <2> QED
    BY <2>1, <2>2, <2>3 DEF Response, Event, Kind
<1>7. Listed(F)
  BY <1>5, <1>6 DEF Listed, Responses
<1> DEFINE C == {e \in F : e.kind = "CheckForInactivity"}
<1>8. events' = Schedule(Without(F, C), c, "CheckForInactivity", Null, 0)
  BY <1>1 DEF Checked, Rescheduled, S
<1> HIDE DEF F
<1>9. Listed(Without(F, C))
  BY <1>7, WithoutListed
<1>10. c \in Nat /\ 0 \in Id /\ "CheckForInactivity" \in Kind
  BY SetupTypes DEF Id, Kind
<1> QED
  BY <1>8, <1>9, <1>10, ScheduleListed

\* Every step keeps TypeInv.
LEMMA TypeStep == OwnershipInv /\ TypeInv /\ [Next]_vars => TypeInv'
<1> SUFFICES ASSUME OwnershipInv, TypeInv, [Next]_vars
             PROVE  TypeInv'
  OBVIOUS
<1>. UNCHANGED <<setup, Id, Row, MaxId, Event>>
  BY SameSetup DEF Next, Tick, RegisterFires, ReceiveRegistrationRequest,
     ReceiveRegistrationResponse, ReceiveDeregistrationRequest,
     ReceiveDeregistrationResponse, CheckFires, QueryLms, StartRic, StopRic, Activate,
     Deactivate, vars
<1> USE DEF TypeInv
<1>0. /\ setup \in Setups /\ nextId \in Nat \ {0}
      /\ terminator \in [Id -> Node \cup {Null}] /\ nodeId \in [Node -> Id]
      /\ \A e \in events : InTransit(e, terminator)
  BY DEF OwnershipInv
<1>1. ASSUME Listed(events'), crashed' \in BOOLEAN, ricActive' \in BOOLEAN,
             nextId' \in 1 .. MaxId + 1, nodeActive' \in [Node -> BOOLEAN]
      PROVE  TypeInv'
  BY <1>1 DEF Listed
<1>2. 0 \in Id /\ TxDelays \subseteq Nat /\ RicDelays \subseteq Nat /\ CheckIntervals \subseteq Nat
  BY <1>0, SetupTypes DEF Id
<1>3. \A C \in SUBSET events : Listed(Without(events, C))
  BY WithoutListed
<1>4. \A e \in events : e.id \in Id /\ e.node \in Node \cup {Null} /\ {e} \in SUBSET events
  BY DEF Listed, Event
<1>5. CASE Tick
  <2>1. Ranked(events') /\ events' \subseteq Event
    <3>1. \A e \in events : e.left > 0
      BY <1>5 DEF Tick
    <3>2. Ranked({At(e, e.left - 1, e.rank) : e \in events})
      BY <3>1, TickRanked DEF Listed
    <3>3. \A e \in events : At(e, e.left - 1, e.rank) \in Event
      BY <3>1 DEF Listed, Event, At
    <3> QED
      BY <1>5, <3>2, <3>3 DEF Tick
  <2> QED
    BY <1>1, <1>5, <2>1 DEF Tick, Listed, nodeVars
<1>6. CASE RegisterFires
  <2>1. PICK e \in events :
          /\ Fires(e, "Register")
          /\ IF nodeActive[e.node]
               THEN Register(Without(events, {e}), e.node)
               ELSE events' = Without(events, {e})
    BY <1>6 DEF RegisterFires
  <2>2. e.node \in Node
    BY <1>0, <2>1 DEF Fires, InTransit
  <2>3. Listed(events')
    BY <1>0, <1>3, <1>4, <2>1, <2>2, RegisterListed
  <2> QED
    BY <1>1, <1>6, <2>3 DEF RegisterFires, ricVars, nodeVars
<1>7. CASE ReceiveRegistrationRequest
  <2>1. PICK e \in events :
          /\ Fires(e, "RegistrationRequest")
          /\ IF ricActive
               THEN LET k == RegisterNode(e.id)
                    IN /\ k \in Id
                       /\ nextId' = IF k = nextId THEN nextId + 1 ELSE nextId
                       /\ \E d \in RicDelays :
                            events' = Schedule(Without(events, {e}), d,
                                               "RegistrationResponse", e.node, k)
               ELSE events' = Without(events, {e}) /\ UNCHANGED ricVars
          /\ UNCHANGED <<crashed, ricActive, nodeVars>>
    BY <1>7 DEF ReceiveRegistrationRequest
  <2>2. Listed(Without(events, {e})) /\ "RegistrationResponse" \in Kind
    BY <1>3, <1>4 DEF Kind
  <2>3. Listed(events')
    <3>1. CASE ricActive
      <4>1. PICK d \in RicDelays : events' = Schedule(Without(events, {e}), d,
                               "RegistrationResponse", e.node, RegisterNode(e.id))
        BY <2>1, <3>1
      <4>2. RegisterNode(e.id) \in Id
        BY <2>1, <3>1
      <4> QED
        BY <1>2, <1>4, <2>2, <4>1, <4>2, ScheduleListed
    <3> QED
      BY <2>1, <2>2, <3>1
  <2>4. nextId' \in 1 .. MaxId + 1
    BY <1>0, <2>1, SetupTypes DEF Id, ricVars
  <2> QED
    BY <1>1, <2>1, <2>3, <2>4 DEF nodeVars
<1>8. CASE ReceiveRegistrationResponse
  BY <1>1, <1>3, <1>4, <1>8 DEF ReceiveRegistrationResponse, ricVars
<1>9. CASE ReceiveDeregistrationRequest
  <2>1. PICK e \in events :
          IF ricActive
            THEN \E d \in RicDelays :
                   events' = Schedule(Without(events, {e}), d,
                                      "DeregistrationResponse", terminator[e.id], e.id)
            ELSE events' = Without(events, {e})
    BY <1>9 DEF ReceiveDeregistrationRequest
  <2>2. Listed(Without(events, {e})) /\ "DeregistrationResponse" \in Kind
    BY <1>3, <1>4 DEF Kind
  <2>3. Listed(events')
    <3>1. CASE ricActive
      <4>1. PICK d \in RicDelays : events' = Schedule(Without(events, {e}), d,
                               "DeregistrationResponse", terminator[e.id], e.id)
        BY <2>1, <3>1
      <4>2. terminator[e.id] \in Node \cup {Null}
        BY <1>0, <1>4
      <4> QED
        BY <1>2, <1>4, <2>2, <4>1, <4>2, ScheduleListed
    <3> QED
      BY <2>1, <2>2, <3>1
  <2> QED
    BY <1>1, <1>9, <2>3 DEF ReceiveDeregistrationRequest, nodeVars
<1>10. CASE ReceiveDeregistrationResponse
  BY <1>1, <1>3, <1>4, <1>10 DEF ReceiveDeregistrationResponse, ricVars
<1>11. CASE CheckFires
  <2>1. PICK e \in events : CheckForInactivity(Without(events, {e}))
    BY <1>11 DEF CheckFires
  <2>2. Listed(events')
    BY <1>0, <1>3, <1>4, <2>1, CheckListed
  <2> QED
    BY <1>1, <1>11, <2>2 DEF CheckFires, nodeVars
<1>12. CASE QueryLms
  BY <1>0, <1>1, <1>12, CheckListed DEF QueryLms, nodeVars
<1>13. CASE StartRic
  <2>1. PICK c \in CheckIntervals : events' = Schedule(events, c, "CheckForInactivity", Null, 0)
    BY <1>13 DEF StartRic
  <2>2. Listed(events')
    BY <1>2, <2>1, ScheduleListed DEF Kind
  <2> QED
    BY <1>1, <1>13, <2>2 DEF StartRic, ricVars, nodeVars
<1>14. CASE StopRic
  <2>1. Listed(events')
    BY <1>3, <1>14 DEF StopRic
  <2> QED
    BY <1>1, <1>14, <2>1 DEF StopRic, ricVars, nodeVars
<1>15. ASSUME NEW n \in Node, Activate(n)
       PROVE  TypeInv'
  <2>1. Listed(events')
    BY <1>0, <1>15, RegisterListed DEF Activate
  <2> QED
    BY <1>1, <1>15, <2>1 DEF Activate, ricVars
<1>16. ASSUME NEW n \in Node, Deactivate(n)
       PROVE  TypeInv'
  <2>1. PICK d \in TxDelays :
          events' = Schedule(Without(events, Registrations(events, n)), d,
                             "DeregistrationRequest", n, nodeId[n])
    BY <1>16 DEF Deactivate
  <2>2. Listed(Without(events, Registrations(events, n))) /\ "DeregistrationRequest" \in Kind
    BY <1>3 DEF Registrations, Kind
  <2>3. Listed(events')
    BY <1>0, <1>2, <2>1, <2>2, ScheduleListed
  <2> QED
    BY <1>1, <1>16, <2>3 DEF Deactivate, ricVars
<1>17. CASE UNCHANGED vars
  BY <1>1, <1>17 DEF vars, ricVars, nodeVars
<1> QED
  BY <1>0, <1>5, <1>6, <1>7, <1>8, <1>9, <1>10, <1>11, <1>12, <1>13, <1>14, <1>15, <1>16,
     <1>17, SetupTypes DEF Next

LEMMA TypeInit == Init => TypeInv
<1> SUFFICES ASSUME Init
             PROVE  TypeInv
  OBVIOUS
<1>1. Ranked({})
  BY FS_EmptySet DEF Ranked
<1>2. MaxId \in Nat /\ 1 \in 1 .. MaxId + 1
  BY SetupTypes DEF Init
<1>3. Listed(events)
  BY <1>1 DEF Init, Listed
<1> QED
  BY <1>2, <1>3 DEF Init, TypeInv

LEMMA RegistrationAlways == Spec => [](OwnershipInv /\ TypeInv)
<1>1. Init => OwnershipInv /\ TypeInv
  BY InitOwnership, TypeInit
<1>2. OwnershipInv /\ TypeInv /\ [Next]_vars => (OwnershipInv /\ TypeInv)'
  BY NextOwnership, TypeStep
<1> QED
  BY <1>1, <1>2, PTL DEF Spec

\* The event list stays exact, and nodes use only E2 node IDs that were handed
\* out (OranDataRepositorySqlite::RegisterNode).
THEOREM TypeCorrect == Spec => []TypeOK
<1>1. OwnershipInv /\ TypeInv => TypeOK
  <2> SUFFICES ASSUME OwnershipInv, TypeInv
               PROVE  TypeOK
    OBVIOUS
  <2>1. nodeId \in [Node -> 0 .. nextId - 1]
    <3>1. \A n \in Node : nodeId[n] < nextId
      BY SetupTypes, SetupAssumption DEF OwnershipInv, OneOwner, Id
    <3> QED
      BY <3>1, SetupTypes DEF OwnershipInv, Id
  <2> QED
    BY <2>1 DEF OwnershipInv, TypeInv, TypeOK, Listed, Ranked, Instant
<1> QED
  BY <1>1, RegistrationAlways, PTL

-----------------------------------------------------------------------------
(***************************************************************************)
(* Silent IDs are deregistered.                                            *)
(***************************************************************************)

\* A check is pending that comes before any registration is too old: the one
\* scheduled with interval c finds no registration older than Threshold + c.
CheckIn(E, rows, left, c) ==
  /\ left \in Nat /\ left <= c
  /\ \E e \in E : e.kind = "CheckForInactivity" /\ e.left = left
  /\ \A i \in Id : rows[i].registered /\ ~rows[i].clash => rows[i].age + left <= Threshold + c

CheckPending(E, rows) == \E left \in Nat, c \in CheckIntervals : CheckIn(E, rows, left, c)

CheckInv ==
  ~setup.ricStops => IF ricActive THEN CheckPending(events, latest)
                     ELSE \A i \in Id : ~latest[i].registered

\* Firing or cancelling events leaves the others where they are.
LEMMA WithoutKeeps ==
  ASSUME NEW E, NEW C
  PROVE  /\ \A e \in E \ C : \E f \in Without(E, C) :
               /\ f.kind = e.kind /\ f.node = e.node /\ f.id = e.id /\ f.left = e.left
               /\ f.rank = Rank(C, e)
         /\ \A f \in Without(E, C) : \E e \in E \ C :
               /\ f.kind = e.kind /\ f.node = e.node /\ f.id = e.id /\ f.left = e.left
               /\ f.rank = Rank(C, e)
<1>1. Without(E, C) = {At(e, e.left, Rank(C, e)) : e \in E \ C}
  BY DEF Without, Rank
<1>2. ASSUME NEW e \in E \ C
      PROVE  \E f \in Without(E, C) :
               /\ f.kind = e.kind /\ f.node = e.node /\ f.id = e.id /\ f.left = e.left
               /\ f.rank = Rank(C, e)
  BY <1>1, AtFields
<1>3. ASSUME NEW f \in Without(E, C)
      PROVE  \E e \in E \ C :
               /\ f.kind = e.kind /\ f.node = e.node /\ f.id = e.id /\ f.left = e.left
               /\ f.rank = Rank(C, e)
  BY <1>1, AtFields
<1> QED
  BY <1>2, <1>3

\* Scheduling an event leaves the others where they are.
LEMMA ScheduleKeeps ==
  ASSUME NEW E, NEW delay, NEW kind, NEW n, NEW i
  PROVE  /\ E \subseteq Schedule(E, delay, kind, n, i)
         /\ \E e \in Schedule(E, delay, kind, n, i) :
              e.kind = kind /\ e.node = n /\ e.id = i /\ e.left = delay
         /\ \A e \in Schedule(E, delay, kind, n, i) \ E :
              e.kind = kind /\ e.node = n /\ e.id = i /\ e.left = delay
                /\ e.rank = Pending(E, delay)
<1> DEFINE new == Scheduled(E, delay, kind, n, i)
<1>1. /\ new.kind = kind /\ new.node = n /\ new.id = i /\ new.left = delay
      /\ new.rank = Pending(E, delay)
  BY DEF Scheduled
<1>2. Schedule(E, delay, kind, n, i) = E \cup {new}
  BY DEF Schedule, Scheduled
<1> HIDE DEF new
<1> QED
  BY <1>1, <1>2

\* After a check no registered ID is older than the threshold, and the next
\* check is scheduled.
LEMMA CheckDone ==
  ASSUME setup \in Setups, latest \in [Id -> Row], UNCHANGED setup,
         NEW E, CheckForInactivity(E)
  PROVE  CheckPending(events', latest')
<1>a. PICK R \in Registered, c \in CheckIntervals : \E d : Checked(E, R, c, d)
  BY CheckParts
<1>1. PICK d : Checked(E, R, c, d)
  BY <1>a
<1>2. \E e \in events' : e.kind = "CheckForInactivity" /\ e.left = c
  <2> DEFINE F == E \cup Responses(E, Silent(R), d)
             C == {e \in F : e.kind = "CheckForInactivity"}
  <2>1. events' = Schedule(Without(F, C), c, "CheckForInactivity", Null, 0)
    BY <1>1 DEF Checked, Rescheduled
  <2> HIDE DEF F, C
  <2> QED
    BY <2>1, ScheduleKeeps
<1>3. ASSUME NEW i \in Id, latest'[i].registered, ~latest'[i].clash
      PROVE  latest'[i].age <= Threshold /\ latest'[i].age \in Nat
  <2>1. i \notin Silent(R)
    BY <1>1, <1>3, InsertedRow DEF Checked
  <2>2. latest'[i] = latest[i]
    BY <1>1, <2>1 DEF Checked
  <2>3. i \in R
    BY <1>3, <2>2 DEF Registered
  <2> QED
    BY <2>1, <2>2, <2>3, SetupTypes DEF Silent, Inactive, Row
<1>4. c \in Nat /\ Threshold \in Nat
  BY SetupTypes
<1>5. CheckIn(events', latest', c, c)
  BY <1>2, <1>3, <1>4 DEF CheckIn
<1> QED
  BY <1>4, <1>5 DEF CheckPending

\* While the pending check stays and no registration gets older, it comes in
\* time.
LEMMA CheckStays ==
  ASSUME setup \in Setups, CheckPending(events, latest),
         \A e \in events : e.kind = "CheckForInactivity" =>
           \E f \in events' : f.kind = "CheckForInactivity" /\ f.left = e.left,
         \A i \in Id : latest'[i].registered /\ ~latest'[i].clash =>
           \/ latest'[i].age = 0
           \/ latest[i].registered /\ ~latest[i].clash /\ latest'[i].age = latest[i].age
  PROVE  CheckPending(events', latest')
<1>1. PICK left \in Nat, c \in CheckIntervals : CheckIn(events, latest, left, c)
  BY DEF CheckPending
<1>2. c \in Nat /\ Threshold \in Nat
  BY SetupTypes
<1>3. CheckIn(events', latest', left, c)
  BY <1>1, <1>2 DEF CheckIn
<1> QED
  BY <1>3 DEF CheckPending

LEMMA CheckStep == OwnershipInv /\ CheckInv /\ [Next]_vars => CheckInv'
<1> SUFFICES ASSUME OwnershipInv, CheckInv, [Next]_vars, ~setup.ricStops
             PROVE  CheckInv'
  BY SameSetup DEF CheckInv, Next, Tick, RegisterFires, ReceiveRegistrationRequest,
     ReceiveRegistrationResponse, ReceiveDeregistrationRequest,
     ReceiveDeregistrationResponse, CheckFires, QueryLms, StartRic, StopRic, Activate,
     Deactivate, vars
<1>. UNCHANGED <<setup, Id, Row, CheckIntervals, Threshold, AgeCap>>
  BY SameSetup DEF Next, Tick, RegisterFires, ReceiveRegistrationRequest,
     ReceiveRegistrationResponse, ReceiveDeregistrationRequest,
     ReceiveDeregistrationResponse, CheckFires, QueryLms, StartRic, StopRic, Activate,
     Deactivate, vars
<1>0. /\ setup \in Setups /\ latest \in [Id -> Row]
      /\ Threshold \in Nat /\ AgeCap \in Nat /\ CheckIntervals \subseteq Nat
  BY SetupTypes DEF OwnershipInv
<1>1. ASSUME ricActive' = ricActive,
             \A e \in events : e.kind = "CheckForInactivity" =>
               \E f \in events' : f.kind = "CheckForInactivity" /\ f.left = e.left,
             \A i \in Id : latest'[i].registered =>
               \/ ricActive /\ (latest'[i].clash \/ latest'[i].age = 0)
               \/ latest[i].registered /\ latest'[i] = latest[i]
      PROVE  CheckInv'
  <2>1. CASE ricActive
    <3>1. CheckPending(events', latest')
      BY <1>0, <1>1, <2>1, CheckStays DEF CheckInv
    <3> QED
      BY <1>1, <2>1, <3>1 DEF CheckInv, CheckPending, CheckIn
  <2>2. CASE ~ricActive
    BY <1>1, <2>2 DEF CheckInv
  <2> QED
    BY <2>1, <2>2
<1>2. ASSUME NEW C, \A e \in events \cap C : e.kind # "CheckForInactivity"
      PROVE  \A e \in events : e.kind = "CheckForInactivity" =>
               \E f \in Without(events, C) : f.kind = "CheckForInactivity" /\ f.left = e.left
  BY <1>2, WithoutKeeps
<1>3. CASE Tick
  <2>1. CASE ricActive
    <3>1. PICK left \in Nat, c \in CheckIntervals : CheckIn(events, latest, left, c)
      BY <2>1 DEF CheckInv, CheckPending
    <3>2. PICK e \in events : e.kind = "CheckForInactivity" /\ e.left = left
      BY <3>1 DEF CheckIn
    <3>3. /\ At(e, e.left - 1, e.rank) \in events' /\ left > 0
          /\ At(e, e.left - 1, e.rank).kind = "CheckForInactivity"
          /\ At(e, e.left - 1, e.rank).left = left - 1
      BY <1>3, <3>2, AtFields DEF Tick
    <3>4. \A i \in Id : /\ latest'[i].registered = latest[i].registered
                        /\ latest'[i].clash = latest[i].clash
                        /\ latest'[i].age <= latest[i].age + 1 /\ latest'[i].age \in Nat
      BY <1>0, <1>3 DEF Tick, Older, Row
    <3>5. CheckIn(events', latest', left - 1, c)
      <4>1. left \in Nat /\ c \in Nat /\ left <= c
        BY <1>0, <3>1 DEF CheckIn
      <4>2. ASSUME NEW i \in Id, latest'[i].registered, ~latest'[i].clash
            PROVE  latest'[i].age + (left - 1) <= Threshold + c
        <5>1. latest[i].age + left <= Threshold + c
          BY <3>1, <3>4, <4>2 DEF CheckIn
        <5>2. latest[i].age \in Nat
          BY <1>0 DEF Row
        <5> QED
          BY <1>0, <3>4, <4>1, <5>1, <5>2
      <4> QED
        BY <3>3, <4>1, <4>2 DEF CheckIn
    <3>6. left - 1 \in Nat /\ ricActive'
      BY <1>3, <2>1, <3>3 DEF Tick
    <3> QED
      BY <3>5, <3>6 DEF CheckInv, CheckPending, CheckIn
  <2>2. CASE ~ricActive
    BY <1>0, <1>3, <2>2 DEF CheckInv, Tick, Older, Row
  <2> QED
    BY <2>1, <2>2
<1>4. ASSUME NEW E, CheckForInactivity(E), ricActive' = ricActive
      PROVE  CheckInv'
  <2>1. CheckPending(events', latest')
    BY <1>0, <1>4, CheckDone
  <2>2. \A i \in Id : latest'[i].registered => latest[i].registered
    <3>a. PICK R \in Registered, c \in CheckIntervals : \E d : Checked(E, R, c, d)
      BY <1>4, CheckParts
    <3>1. PICK d : Checked(E, R, c, d)
      BY <3>a
    <3> QED
      BY <1>0, <3>1, InsertedRow DEF Checked
  <2> QED
    BY <1>4, <2>1, <2>2 DEF CheckInv, CheckPending, CheckIn
<1>5. ASSUME NEW E, NEW n \in Node, Register(E, n), UNCHANGED <<ricActive, latest>>,
             \A e \in events : e.kind = "CheckForInactivity" =>
               \E f \in E : f.kind = "CheckForInactivity" /\ f.left = e.left
      PROVE  CheckInv'
  <2>1. PICK d \in TxDelays, r \in RegIntervals :
          events' = Schedule(Schedule(Without(E, Registrations(E, n)), d,
                                      "RegistrationRequest", n, nodeId[n]),
                             r, "Register", n, 0)
    BY <1>5 DEF Register
  <2>2. Without(E, Registrations(E, n)) \subseteq events'
    BY <2>1, ScheduleKeeps
  <2>3. \A e \in E \cap Registrations(E, n) : e.kind # "CheckForInactivity"
    BY DEF Registrations
  <2>4. \A e \in E : e.kind = "CheckForInactivity" =>
          \E f \in Without(E, Registrations(E, n)) : f.kind = "CheckForInactivity" /\ f.left = e.left
    BY <2>3, WithoutKeeps
  <2> QED
    BY <1>1, <1>5, <2>2, <2>4
<1>6. CASE RegisterFires
  <2>1. PICK e \in events :
          /\ Fires(e, "Register")
          /\ IF nodeActive[e.node]
               THEN Register(Without(events, {e}), e.node)
               ELSE events' = Without(events, {e})
          /\ UNCHANGED <<ricActive, latest>>
    BY <1>6 DEF RegisterFires, ricVars
  <2>2. e.node \in Node /\ e.kind = "Register"
    BY <2>1 DEF Fires, InTransit, OwnershipInv
  <2> QED
    BY <1>1, <1>2, <1>5, <2>1, <2>2
<1>7. CASE ReceiveRegistrationRequest
  <2>1. PICK e \in events :
          /\ Fires(e, "RegistrationRequest")
          /\ IF ricActive
               THEN LET k == RegisterNode(e.id)
                    IN /\ k \in Id
                       /\ latest' = [latest EXCEPT ![k] = Inserted(k, TRUE)]
                       /\ \E d \in RicDelays :
                            events' = Schedule(Without(events, {e}), d,
                                               "RegistrationResponse", e.node, k)
               ELSE events' = Without(events, {e}) /\ UNCHANGED ricVars
          /\ UNCHANGED ricActive
    BY <1>7 DEF ReceiveRegistrationRequest
  <2>2. Without(events, {e}) \subseteq events'
    BY <2>1 DEF Schedule
  <2>3. e.kind # "CheckForInactivity"
    BY <2>1 DEF Fires
  <2>4. \A i \in Id : latest'[i] = latest[i] \/ (ricActive /\ latest'[i].age = 0)
    BY <1>0, <2>1 DEF Inserted, ricVars
  <2> QED
    BY <1>1, <1>2, <2>1, <2>2, <2>3, <2>4
<1>8. CASE ReceiveRegistrationResponse
  BY <1>1, <1>2, <1>8 DEF ReceiveRegistrationResponse, ricVars, Fires
<1>9. CASE ReceiveDeregistrationRequest
  <2>1. PICK e \in events :
          /\ Fires(e, "DeregistrationRequest")
          /\ IF ricActive
               THEN /\ latest' = [latest EXCEPT ![e.id] = Inserted(e.id, FALSE)]
                    /\ \E d \in RicDelays :
                         events' = Schedule(Without(events, {e}), d,
                                            "DeregistrationResponse", terminator[e.id], e.id)
               ELSE events' = Without(events, {e}) /\ UNCHANGED latest
          /\ UNCHANGED ricActive
    BY <1>9 DEF ReceiveDeregistrationRequest
  <2>2. Without(events, {e}) \subseteq events'
    BY <2>1 DEF Schedule
  <2>3. e.kind # "CheckForInactivity"
    BY <2>1 DEF Fires
  <2>4. \A i \in Id : latest'[i] = latest[i] \/ ~latest'[i].registered
    BY <1>0, <2>1 DEF Inserted
  <2> QED
    BY <1>1, <1>2, <2>1, <2>2, <2>3, <2>4
<1>10. CASE ReceiveDeregistrationResponse
  BY <1>1, <1>2, <1>10 DEF ReceiveDeregistrationResponse, ricVars, Fires
<1>11. CASE CheckFires
  BY <1>4, <1>11 DEF CheckFires
<1>12. CASE QueryLms
  BY <1>4, <1>12 DEF QueryLms
<1>13. CASE StartRic
  <2>1. PICK c \in CheckIntervals : events' = Schedule(events, c, "CheckForInactivity", Null, 0)
    BY <1>13 DEF StartRic
  <2>2. \E e \in events' : e.kind = "CheckForInactivity" /\ e.left = c
    BY <2>1, ScheduleKeeps
  <2>3. \A i \in Id : ~latest'[i].registered
    BY <1>13 DEF StartRic, CheckInv, ricVars
  <2>4. CheckIn(events', latest', c, c) /\ c \in Nat
    BY <1>0, <2>2, <2>3 DEF CheckIn
  <2> QED
    BY <1>13, <2>4 DEF StartRic, CheckInv, CheckPending, CheckIn
<1>14. ASSUME NEW n \in Node, Activate(n)
       PROVE  CheckInv'
  BY <1>5, <1>14 DEF Activate, ricVars
<1>15. ASSUME NEW n \in Node, Deactivate(n)
       PROVE  CheckInv'
  <2>1. PICK d \in TxDelays :
          events' = Schedule(Without(events, Registrations(events, n)), d,
                             "DeregistrationRequest", n, nodeId[n])
    BY <1>15 DEF Deactivate
  <2>2. Without(events, Registrations(events, n)) \subseteq events'
    BY <2>1, ScheduleKeeps
  <2>3. \A e \in events \cap Registrations(events, n) : e.kind # "CheckForInactivity"
    BY DEF Registrations
  <2> QED
    BY <1>1, <1>2, <1>15, <2>2, <2>3 DEF Deactivate, ricVars
<1>16. CASE UNCHANGED vars
  BY <1>1, <1>16 DEF vars, ricVars
<1> QED
  BY <1>0, <1>3, <1>6, <1>7, <1>8, <1>9, <1>10, <1>11, <1>12, <1>13, <1>14, <1>15, <1>16,
     SetupTypes DEF Next, StopRic

\* As long as the RIC is not stopped, no ID stays registered for longer than
\* the threshold and one check interval after the last request for it
\* (OranNearRtRic::CheckForInactivity).
THEOREM SilentNodesAreDeregistered == Spec => []SilentIsDeregistered
<1>1. Init => CheckInv
  BY DEF Init, CheckInv
<1>2. OwnershipInv /\ CheckInv => SilentIsDeregistered
  <2> SUFFICES ASSUME OwnershipInv, CheckInv, ~setup.ricStops, NEW i \in Id,
                      latest[i].registered, ~latest[i].clash
               PROVE  \E c \in CheckIntervals : latest[i].age <= Threshold + c
    BY DEF SilentIsDeregistered
  <2>1. PICK left \in Nat, c \in CheckIntervals : CheckIn(events, latest, left, c)
    BY DEF CheckInv, CheckPending
  <2>2. latest[i].age \in Nat /\ c \in Nat /\ Threshold \in Nat
    BY SetupTypes DEF OwnershipInv, Row
  <2> QED
    BY <2>1, <2>2 DEF CheckIn
<1> QED
  BY <1>1, <1>2, CheckStep, RegistrationAlways, PTL DEF Spec

-----------------------------------------------------------------------------
(***************************************************************************)
(* What a node believes is current, or about to be corrected.              *)
(***************************************************************************)

Precedes(e, f) == e.left < f.left \/ (e.left = f.left /\ e.rank < f.rank)

\* A deregistration response to node n is under way, or one that node e.node
\* receives after e.
Correction(f, n) == f.kind = "DeregistrationResponse" /\ f.node = n
Corrected(E, n) == \E f \in E : Correction(f, n)
CorrectedAfter(E, e) == \E f \in E : Correction(f, e.node) /\ Precedes(e, f)

\* The answers under way are current, or corrected later.
Answers(E, rows) ==
  \A e \in E : e.kind = "RegistrationResponse" =>
    rows[e.id].registered \/ CorrectedAfter(E, e)

Beliefs(E, rows) ==
  \A n \in Node : nodeId[n] # 0 => rows[nodeId[n]].registered \/ Corrected(E, n)

\* The RIC's messages arrive within its delay.
SoonThere(E) ==
  \A e \in E : e.kind \in {"RegistrationResponse", "DeregistrationResponse"} =>
    \A d \in RicDelays : e.left <= d

BeliefInv ==
  Constant(RicDelays) =>
    SoonThere(events) /\ Answers(events, latest) /\ Beliefs(events, latest)

\* Other events that fire or are cancelled do not matter, nor does the
\* correction that fires first.
LEMMA WithoutAnswers ==
  ASSUME NEW E, Ranked(E), NEW C \in SUBSET E, NEW rows, Answers(E, rows),
         \A c \in C : c.kind = "DeregistrationResponse" => c.left = 0 /\ c.rank = 0
  PROVE  Answers(Without(E, C), rows)
<1> SUFFICES ASSUME NEW g \in Without(E, C), g.kind = "RegistrationResponse",
                    ~rows[g.id].registered
             PROVE  CorrectedAfter(Without(E, C), g)
  BY DEF Answers
<1>1. PICK e \in E \ C : /\ g.kind = e.kind /\ g.node = e.node /\ g.id = e.id
                         /\ g.left = e.left /\ g.rank = Rank(C, e)
  BY WithoutKeeps
<1>2. PICK f \in E : Correction(f, e.node) /\ Precedes(e, f)
  BY <1>1 DEF Answers, CorrectedAfter
<1>3. f \notin C
  BY <1>2 DEF Correction, Precedes, Ranked
<1>4. PICK h \in Without(E, C) : /\ h.kind = f.kind /\ h.node = f.node /\ h.left = f.left
                                 /\ h.rank = Rank(C, f)
  BY <1>3, WithoutKeeps
<1>5. e.left = f.left /\ e.rank < f.rank => Rank(C, e) < Rank(C, f)
  BY <1>3, RankMoves
<1> QED
  BY <1>1, <1>2, <1>4, <1>5 DEF CorrectedAfter, Correction, Precedes

LEMMA WithoutBeliefs ==
  ASSUME NEW E, NEW C \in SUBSET E, NEW rows, Beliefs(E, rows),
         \A c \in C : c.kind # "DeregistrationResponse"
  PROVE  Beliefs(Without(E, C), rows)
BY WithoutKeeps DEF Beliefs, Corrected, Correction

LEMMA WithoutSoonThere ==
  ASSUME NEW E, NEW C \in SUBSET E, SoonThere(E)
  PROVE  SoonThere(Without(E, C))
BY WithoutKeeps DEF SoonThere

\* More events and more registrations do no harm.
LEMMA ScheduleAnswers ==
  ASSUME NEW E, NEW rows, Answers(E, rows), NEW delay, NEW kind, NEW n, NEW i,
         kind = "RegistrationResponse" => rows[i].registered
  PROVE  Answers(Schedule(E, delay, kind, n, i), rows)
BY ScheduleKeeps DEF Answers, CorrectedAfter

LEMMA MoreRegistered ==
  ASSUME NEW E, NEW rows, NEW more,
         \A i : i \in Id /\ rows[i].registered => more[i].registered,
         \A e \in E : e.kind = "RegistrationResponse" => e.id \in Id,
         nodeId \in [Node -> Id]
  PROVE  /\ Answers(E, rows) => Answers(E, more)
         /\ Beliefs(E, rows) => Beliefs(E, more)
BY DEF Answers, Beliefs

\* Deregistered IDs: the new events in B tell their owners, after all answers
\* that are under way.
LEMMA FewerRegistered ==
  ASSUME NEW E, NEW rows, NEW fewer, NEW B,
         \A i \in Id : rows[i].registered =>
            \/ fewer[i].registered
            \/ \E b \in B : /\ Correction(b, terminator[i])
                            /\ \A e \in E : e.kind = "RegistrationResponse" => Precedes(e, b),
         \A b \in B : b.kind = "DeregistrationResponse",
         \A e \in E : InTransit(e, terminator),
         terminator \in [Id -> Node \cup {Null}], nodeId \in [Node -> Id], OneOwner
  PROVE  /\ Answers(E, rows) => Answers(E \cup B, fewer)
         /\ Beliefs(E, rows) => Beliefs(E \cup B, fewer)
<1>1. ASSUME Answers(E, rows)
      PROVE  Answers(E \cup B, fewer)
  <2> SUFFICES ASSUME NEW e \in E \cup B, e.kind = "RegistrationResponse",
                      ~fewer[e.id].registered
               PROVE  CorrectedAfter(E \cup B, e)
    BY DEF Answers
  <2>1. e \in E /\ e.id \in Id /\ terminator[e.id] = e.node
    BY DEF InTransit
  <2> QED
    BY <1>1, <2>1 DEF Answers, CorrectedAfter
<1>2. ASSUME Beliefs(E, rows)
      PROVE  Beliefs(E \cup B, fewer)
  <2> SUFFICES ASSUME NEW n \in Node, nodeId[n] # 0, ~fewer[nodeId[n]].registered
               PROVE  Corrected(E \cup B, n)
    BY DEF Beliefs
  <2>1. nodeId[n] \in Id /\ terminator[nodeId[n]] = n
    BY DEF OneOwner
  <2> QED
    BY <1>2, <2>1 DEF Beliefs, Corrected
<1> QED
  BY <1>1, <1>2

\* A response with the constant delay comes after all that are under way.
LEMMA ComesLast ==
  ASSUME NEW E, Ranked(E), SoonThere(E), NEW d \in RicDelays, d \in Nat, NEW b, b.left = d,
         Pending(E, d) <= b.rank, b.rank \in Nat,
         NEW e \in E, e.kind = "RegistrationResponse"
  PROVE  Precedes(e, b)
<1>1. e.left <= d /\ e.left \in Nat /\ e.rank \in Nat
  BY DEF SoonThere, Ranked
<1>2. e.left = d => e.rank < Pending(E, d)
  BY DEF Ranked, Pending, Instant
<1>3. Pending(E, d) \in Nat
  BY FS_Subset, FS_CardinalityType DEF Ranked, Pending
<1> QED
  BY <1>1, <1>2, <1>3 DEF Precedes

Informed(E, rows) == SoonThere(E) /\ Answers(E, rows) /\ Beliefs(E, rows)

LEMMA WithoutInformed ==
  ASSUME NEW E, Ranked(E), NEW C \in SUBSET E, NEW rows, Informed(E, rows),
         \A c \in C : c.kind # "DeregistrationResponse"
  PROVE  Informed(Without(E, C), rows)
BY WithoutAnswers, WithoutBeliefs, WithoutSoonThere DEF Informed

LEMMA ScheduleInformed ==
  ASSUME NEW E, NEW rows, Informed(E, rows), NEW delay, NEW kind, NEW n, NEW i,
         kind = "RegistrationResponse" => rows[i].registered,
         kind \in {"RegistrationResponse", "DeregistrationResponse"} =>
           \A d \in RicDelays : delay <= d
  PROVE  Informed(Schedule(E, delay, kind, n, i), rows)
<1>1. Answers(Schedule(E, delay, kind, n, i), rows)
  BY ScheduleAnswers DEF Informed
<1>2. SoonThere(Schedule(E, delay, kind, n, i))
  BY ScheduleKeeps DEF SoonThere, Informed
<1>3. Beliefs(Schedule(E, delay, kind, n, i), rows)
  BY ScheduleKeeps DEF Beliefs, Corrected, Informed
<1> QED
  BY <1>1, <1>2, <1>3 DEF Informed

LEMMA RegisterInformed ==
  ASSUME NEW E, Listed(E), NEW n \in Node, Register(E, n), NEW rows, Informed(E, rows)
  PROVE  Informed(events', rows)
<1>1. PICK d \in TxDelays, r \in RegIntervals :
        events' = Schedule(Schedule(Without(E, Registrations(E, n)), d,
                                    "RegistrationRequest", n, nodeId[n]),
                           r, "Register", n, 0)
  BY DEF Register
<1> DEFINE F == Without(E, Registrations(E, n))
           G == Schedule(F, d, "RegistrationRequest", n, nodeId[n])
<1>2. Informed(F, rows)
  BY WithoutInformed DEF Registrations, Listed
<1> HIDE DEF F
<1>3. Informed(G, rows)
  BY <1>2, ScheduleInformed
<1> HIDE DEF G
<1>4. Informed(Schedule(G, r, "Register", n, 0), rows)
  BY <1>3, ScheduleInformed
<1> QED
  BY <1>1, <1>4 DEF F, G

\* An inactivity check tells the owners of the IDs it deregisters.
LEMMA CheckInformed ==
  ASSUME OwnershipInv, Constant(RicDelays),
         NEW E, Listed(E), \A e \in E : InTransit(e, terminator),
         Informed(E, latest), CheckForInactivity(E)
  PROVE  Informed(events', latest')
<1>0. /\ setup \in Setups /\ latest \in [Id -> Row] /\ OneOwner
      /\ terminator \in [Id -> Node \cup {Null}] /\ nodeId \in [Node -> Id]
  BY DEF OwnershipInv
<1>a. PICK R \in Registered, c \in CheckIntervals : \E d : Checked(E, R, c, d)
  BY CheckParts
<1>1. PICK d : Checked(E, R, c, d)
  BY <1>a
<1> DEFINE S == Silent(R)
           B == Responses(E, S, d)
           F == E \cup B
           C == {e \in F : e.kind = "CheckForInactivity"}
<1>2. /\ S \in SUBSET Id /\ d \in [S -> RicDelays]
      /\ latest' = [i \in Id |-> IF i \in S THEN Inserted(i, FALSE) ELSE latest[i]]
      /\ events' = Schedule(Without(F, C), c, "CheckForInactivity", Null, 0)
  BY <1>1 DEF Checked, Registered, Silent, Rescheduled
<1>3. S \in SUBSET Nat /\ IsFiniteSet(S) /\ RicDelays \subseteq Nat
  <2>1. IsFiniteSet(Id) /\ Id \in SUBSET Nat
    BY <1>0, SetupTypes, FS_Interval DEF Id
  <2>2. RicDelays \subseteq Nat
    BY <1>0, SetupTypes
  <2> QED
    BY <1>2, <2>1, <2>2, FS_Subset
<1> HIDE DEF S
<1>4. Ranked(F)
  BY <1>2, <1>3, ResponsesRanked DEF Listed
<1>5. ASSUME NEW i \in S
      PROVE  /\ Response(E, S, d, i).kind = "DeregistrationResponse"
             /\ Response(E, S, d, i).node = terminator[i]
             /\ Response(E, S, d, i).left = d[i] /\ d[i] \in RicDelays /\ d[i] \in Nat
             /\ Pending(E, d[i]) <= Response(E, S, d, i).rank
             /\ Response(E, S, d, i).rank \in Nat
  <2>1. Pending(E, d[i]) \in Nat
    BY FS_Subset, FS_CardinalityType DEF Listed, Ranked, Pending
  <2>2. Before(S, d, i) \in Nat
    BY <1>3, BeforeOrder
  <2>3. Response(E, S, d, i).rank = Pending(E, d[i]) + Before(S, d, i)
    BY DEF Response
  <2>4. d[i] \in RicDelays /\ d[i] \in Nat
    BY <1>2, <1>3
  <2>5. /\ Response(E, S, d, i).kind = "DeregistrationResponse"
        /\ Response(E, S, d, i).node = terminator[i] /\ Response(E, S, d, i).left = d[i]
    BY DEF Response
  <2> QED
    BY <2>1, <2>2, <2>3, <2>4, <2>5
<1>6. ASSUME NEW i \in S, NEW e \in E, e.kind = "RegistrationResponse"
      PROVE  Precedes(e, Response(E, S, d, i))
  BY <1>5, <1>6, ComesLast DEF Informed, Listed
<1>7. \A i \in Id : latest[i].registered =>
        \/ latest'[i].registered
        \/ \E b \in B : /\ Correction(b, terminator[i])
                        /\ \A e \in E : e.kind = "RegistrationResponse" => Precedes(e, b)
  BY <1>2, <1>5, <1>6 DEF Correction, Responses
<1>8. \A b \in B : b.kind = "DeregistrationResponse" /\ \A x \in RicDelays : b.left <= x
  BY <1>3, <1>5 DEF Responses, Constant
<1> HIDE DEF B
<1>9. Answers(F, latest') /\ Beliefs(F, latest')
  BY <1>0, <1>7, <1>8, FewerRegistered DEF Informed
<1>10. SoonThere(F)
  BY <1>8 DEF SoonThere, Informed
<1> HIDE DEF F
<1>11. Informed(Without(F, C), latest')
  BY <1>4, <1>9, <1>10, WithoutInformed DEF Informed
<1> HIDE DEF C
<1> QED
  BY <1>2, <1>11, ScheduleInformed

LEMMA BeliefStep == OwnershipInv /\ TypeInv /\ BeliefInv /\ [Next]_vars => BeliefInv'
<1> SUFFICES ASSUME OwnershipInv, TypeInv, BeliefInv, [Next]_vars, Constant(RicDelays)
             PROVE  BeliefInv'
  BY SameSetup DEF BeliefInv, Next, Tick, RegisterFires, ReceiveRegistrationRequest,
     ReceiveRegistrationResponse, ReceiveDeregistrationRequest,
     ReceiveDeregistrationResponse, CheckFires, QueryLms, StartRic, StopRic, Activate,
     Deactivate, vars, Constant
<1>. UNCHANGED <<setup, Id, Row, RicDelays>>
  BY SameSetup DEF Next, Tick, RegisterFires, ReceiveRegistrationRequest,
     ReceiveRegistrationResponse, ReceiveDeregistrationRequest,
     ReceiveDeregistrationResponse, CheckFires, QueryLms, StartRic, StopRic, Activate,
     Deactivate, vars
<1>0. /\ setup \in Setups /\ latest \in [Id -> Row] /\ OneOwner
      /\ terminator \in [Id -> Node \cup {Null}] /\ nodeId \in [Node -> Id]
      /\ RicDelays \subseteq Nat
      /\ \A e \in events : InTransit(e, terminator)
  BY SetupTypes DEF OwnershipInv
<1>1. Informed(events, latest) /\ Listed(events) /\ Ranked(events)
  BY DEF BeliefInv, Informed, TypeInv, Listed
<1>2. ASSUME UNCHANGED nodeId, Informed(events', latest')
      PROVE  BeliefInv'
  BY <1>2 DEF BeliefInv, Informed, SoonThere, Beliefs
<1>3. \A C \in SUBSET events : (\A c \in C : c.kind # "DeregistrationResponse") =>
        Informed(Without(events, C), latest) /\ Listed(Without(events, C))
  BY <1>1, WithoutInformed, WithoutListed
<1>4. CASE Tick
  <2>1. \A e \in events : e.left \in Nat
    BY <1>1 DEF Ranked
  <2>2. /\ \A e \in events : /\ At(e, e.left - 1, e.rank) \in events'
                             /\ At(e, e.left - 1, e.rank).left = e.left - 1
                             /\ At(e, e.left - 1, e.rank).rank = e.rank
                             /\ At(e, e.left - 1, e.rank).kind = e.kind
                             /\ At(e, e.left - 1, e.rank).node = e.node
        /\ \A f \in events' : \E e \in events :
             /\ f.left = e.left - 1 /\ f.rank = e.rank /\ f.kind = e.kind
             /\ f.node = e.node /\ f.id = e.id
    BY <1>4, AtFields DEF Tick
  <2>3. \A i \in Id : latest'[i].registered = latest[i].registered
    BY <1>0, <1>4 DEF Tick, Older, Row
  <2>4. SoonThere(events')
    BY <1>0, <1>1, <2>1, <2>2 DEF SoonThere, Informed
  <2>5. Answers(events', latest')
    <3> SUFFICES ASSUME NEW g \in events', g.kind = "RegistrationResponse",
                        ~latest'[g.id].registered
                 PROVE  CorrectedAfter(events', g)
      BY DEF Answers
    <3>1. PICK e \in events : /\ g.left = e.left - 1 /\ g.rank = e.rank /\ g.kind = e.kind
                              /\ g.node = e.node /\ g.id = e.id
      BY <2>2
    <3>2. e.id \in Id
      BY <1>0, <3>1 DEF InTransit
    <3>3. PICK f \in events : Correction(f, e.node) /\ Precedes(e, f)
      BY <1>1, <2>3, <3>1, <3>2 DEF Informed, Answers, CorrectedAfter
    <3>4. Correction(At(f, f.left - 1, f.rank), g.node)
      BY <2>2, <3>1, <3>3 DEF Correction
    <3>5. Precedes(g, At(f, f.left - 1, f.rank))
      BY <2>1, <2>2, <3>1, <3>3 DEF Precedes
    <3> QED
      BY <2>2, <3>4, <3>5 DEF CorrectedAfter
  <2>6. Beliefs(events', latest')
    BY <1>0, <1>1, <2>2, <2>3 DEF Informed, Beliefs, Corrected, Correction
  <2> QED
    BY <1>2, <1>4, <2>4, <2>5, <2>6 DEF Tick, Informed, nodeVars
<1>5. CASE RegisterFires
  <2>1. PICK e \in events :
          /\ Fires(e, "Register")
          /\ IF nodeActive[e.node]
               THEN Register(Without(events, {e}), e.node)
               ELSE events' = Without(events, {e})
          /\ UNCHANGED <<latest, nodeId>>
    BY <1>5 DEF RegisterFires, ricVars, nodeVars
  <2>2. e.node \in Node /\ e.kind = "Register"
    BY <1>0, <2>1 DEF Fires, InTransit
  <2>3. Informed(Without(events, {e}), latest) /\ Listed(Without(events, {e}))
    BY <1>3, <2>2
  <2> QED
    BY <1>2, <2>1, <2>2, <2>3, RegisterInformed
<1>6. CASE ReceiveRegistrationRequest
  <2>1. PICK e \in events :
          /\ Fires(e, "RegistrationRequest")
          /\ IF ricActive
               THEN LET k == RegisterNode(e.id)
                    IN /\ k \in Id
                       /\ latest' = [latest EXCEPT ![k] = Inserted(k, TRUE)]
                       /\ \E d \in RicDelays :
                            events' = Schedule(Without(events, {e}), d,
                                               "RegistrationResponse", e.node, k)
               ELSE events' = Without(events, {e}) /\ UNCHANGED ricVars
          /\ UNCHANGED nodeVars
    BY <1>6 DEF ReceiveRegistrationRequest
  <2>2. Informed(Without(events, {e}), latest)
    BY <1>3, <2>1 DEF Fires
  <2>3. CASE ricActive
    <3> DEFINE k == RegisterNode(e.id)
    <3>1. k \in Id /\ latest' = [latest EXCEPT ![k] = Inserted(k, TRUE)]
      BY <2>1, <2>3
    <3>2. PICK d \in RicDelays :
            events' = Schedule(Without(events, {e}), d, "RegistrationResponse", e.node, k)
      BY <2>1, <2>3
    <3> HIDE DEF k
    <3>3. /\ \A i : i \in Id /\ latest[i].registered => latest'[i].registered
          /\ latest'[k].registered
      BY <1>0, <3>1 DEF Inserted
    <3>4. \A f \in Without(events, {e}) : f.kind = "RegistrationResponse" => f.id \in Id
      BY <1>0, WithoutInTransit DEF InTransit
    <3>5. Informed(Without(events, {e}), latest')
      BY <1>0, <2>2, <3>3, <3>4, MoreRegistered DEF Informed
    <3>6. \A x \in RicDelays : d <= x
      BY <1>0 DEF Constant
    <3>7. Informed(events', latest')
      BY <3>2, <3>3, <3>5, <3>6, ScheduleInformed
    <3> QED
      BY <1>2, <2>1, <3>7 DEF nodeVars
  <2>4. CASE ~ricActive
    BY <1>2, <2>1, <2>2, <2>4 DEF nodeVars, ricVars
  <2> QED
    BY <2>3, <2>4
<1>7. CASE ReceiveRegistrationResponse
  <2>1. PICK e \in events :
          /\ Fires(e, "RegistrationResponse")
          /\ events' = Without(events, {e})
          /\ nodeId' = IF nodeActive[e.node] THEN [nodeId EXCEPT ![e.node] = e.id] ELSE nodeId
          /\ UNCHANGED latest
    BY <1>7 DEF ReceiveRegistrationResponse, ricVars
  <2>2. Informed(events', latest)
    BY <1>3, <2>1 DEF Fires
  <2>3. \A f \in events : f.kind = "DeregistrationResponse" =>
          \E g \in events' : g.kind = "DeregistrationResponse" /\ g.node = f.node
    BY <2>1, WithoutKeeps DEF Fires
  <2>4. latest[e.id].registered \/ Corrected(events', e.node)
    BY <1>1, <2>1, <2>3 DEF Informed, Answers, CorrectedAfter, Corrected, Correction, Fires
  <2>5. \A n \in Node : nodeId'[n] # 0 =>
          latest[nodeId'[n]].registered \/ Corrected(events', n)
    BY <1>0, <2>1, <2>2, <2>4 DEF Informed, Beliefs
  <2> QED
    BY <2>1, <2>2, <2>5 DEF Informed, BeliefInv, Beliefs, SoonThere
<1>8. CASE ReceiveDeregistrationRequest
  <2>1. PICK e \in events :
          /\ Fires(e, "DeregistrationRequest")
          /\ IF ricActive
               THEN /\ latest' = [latest EXCEPT ![e.id] = Inserted(e.id, FALSE)]
                    /\ \E d \in RicDelays :
                         events' = Schedule(Without(events, {e}), d,
                                            "DeregistrationResponse", terminator[e.id], e.id)
               ELSE events' = Without(events, {e}) /\ UNCHANGED latest
          /\ UNCHANGED nodeId
    BY <1>8 DEF ReceiveDeregistrationRequest, nodeVars
  <2> DEFINE F == Without(events, {e})
  <2>2. Informed(F, latest) /\ Listed(F) /\ \A f \in F : InTransit(f, terminator)
    BY <1>0, <1>3, <2>1, WithoutInTransit DEF Fires
  <2>3. CASE ricActive
    <3>1. PICK d \in RicDelays :
            events' = Schedule(F, d, "DeregistrationResponse", terminator[e.id], e.id)
      BY <2>1, <2>3
    <3> DEFINE b == Scheduled(F, d, "DeregistrationResponse", terminator[e.id], e.id)
    <3>2. /\ b.kind = "DeregistrationResponse" /\ b.node = terminator[e.id] /\ b.left = d
          /\ b.rank = Pending(F, d) /\ events' = F \cup {b}
      BY <3>1 DEF Scheduled, Schedule
    <3> HIDE DEF F, b
    <3>3. d \in Nat /\ Pending(F, d) \in Nat /\ \A x \in RicDelays : d <= x
      BY <1>0, <2>2, FS_Subset, FS_CardinalityType DEF Listed, Ranked, Pending, Constant
    <3>4. \A f \in F : f.kind = "RegistrationResponse" => Precedes(f, b)
      BY <2>2, <3>2, <3>3, ComesLast DEF Informed, Listed
    <3>5. \A i \in Id : latest[i].registered => latest'[i].registered \/ i = e.id
      BY <1>0, <2>1, <2>3
    <3>6. Answers(events', latest') /\ Beliefs(events', latest')
      BY <1>0, <2>2, <3>2, <3>4, <3>5, FewerRegistered DEF Informed, Correction
    <3>7. SoonThere(events')
      BY <2>2, <3>2, <3>3 DEF SoonThere, Informed
    <3> QED
      BY <1>2, <2>1, <3>6, <3>7 DEF Informed
  <2>4. CASE ~ricActive
    BY <1>2, <2>1, <2>2, <2>4
  <2> QED
    BY <2>3, <2>4
<1>9. CASE ReceiveDeregistrationResponse
  <2>1. PICK e \in events :
          /\ Fires(e, "DeregistrationResponse")
          /\ events' = Without(events, {e})
          /\ IF e.node = Null THEN UNCHANGED nodeId ELSE nodeId' = Forgotten(e.node)
          /\ UNCHANGED latest
    BY <1>9 DEF ReceiveDeregistrationResponse, ricVars
  <2>2. Answers(events', latest) /\ SoonThere(events')
    BY <1>1, <2>1, WithoutAnswers, WithoutSoonThere DEF Informed, Fires
  <2>3. \A f \in events : f # e => \E g \in events' : g.kind = f.kind /\ g.node = f.node
    BY <2>1, WithoutKeeps
  <2>4. \A n \in Node : nodeId'[n] # 0 =>
          latest[nodeId'[n]].registered \/ Corrected(events', n)
    <3> SUFFICES ASSUME NEW n \in Node, nodeId'[n] # 0, ~latest[nodeId'[n]].registered
                 PROVE  Corrected(events', n)
      OBVIOUS
    <3>1. nodeId'[n] = nodeId[n] /\ e.node # n
      BY <1>0, <2>1, SetupAssumption DEF Forgotten
    <3>2. PICK f \in events : Correction(f, n)
      BY <1>1, <3>1 DEF Informed, Beliefs, Corrected
    <3> QED
      BY <2>3, <3>1, <3>2 DEF Corrected, Correction
  <2> QED
    BY <2>1, <2>2, <2>4 DEF Informed, BeliefInv, Beliefs, SoonThere
<1>10. CASE CheckFires
  <2>1. PICK e \in events : Fires(e, "CheckForInactivity") /\ CheckForInactivity(Without(events, {e}))
    BY <1>10 DEF CheckFires
  <2>2. /\ Informed(Without(events, {e}), latest) /\ Listed(Without(events, {e}))
        /\ \A f \in Without(events, {e}) : InTransit(f, terminator)
    BY <1>0, <1>3, <2>1, WithoutInTransit DEF Fires
  <2>3. Informed(events', latest')
    BY <2>1, <2>2, CheckInformed
  <2> QED
    BY <1>2, <1>10, <2>3 DEF CheckFires, nodeVars
<1>11. CASE QueryLms
  BY <1>0, <1>1, <1>2, <1>11, CheckInformed DEF QueryLms, nodeVars
<1>12. CASE StartRic
  <2>1. Informed(events', latest)
    BY <1>1, <1>12, ScheduleInformed DEF StartRic
  <2> QED
    BY <1>2, <1>12, <2>1 DEF StartRic, ricVars, nodeVars
<1>13. CASE StopRic
  BY <1>2, <1>3, <1>13 DEF StopRic, ricVars, nodeVars
<1>14. ASSUME NEW n \in Node, Activate(n)
       PROVE  BeliefInv'
  BY <1>1, <1>2, <1>14, RegisterInformed DEF Activate, ricVars
<1>15. ASSUME NEW n \in Node, Deactivate(n)
       PROVE  BeliefInv'
  <2>1. PICK d \in TxDelays :
          events' = Schedule(Without(events, Registrations(events, n)), d,
                             "DeregistrationRequest", n, nodeId[n])
    BY <1>15 DEF Deactivate
  <2>2. Informed(Without(events, Registrations(events, n)), latest)
    BY <1>3 DEF Registrations
  <2>3. Informed(events', latest)
    BY <2>1, <2>2, ScheduleInformed
  <2> QED
    BY <1>2, <1>15, <2>3 DEF Deactivate, ricVars
<1>16. CASE UNCHANGED vars
  BY <1>1, <1>2, <1>16 DEF vars, ricVars, nodeVars
<1> QED
  BY <1>0, <1>4, <1>5, <1>6, <1>7, <1>8, <1>9, <1>10, <1>11, <1>12, <1>13, <1>14, <1>15,
     <1>16, SetupTypes DEF Next

\* If the RIC's messages do not overtake each other, a node never keeps an ID
\* the RIC has dropped, whatever the nodes' own delays and however often the
\* RIC is stopped (OranE2NodeTerminator::ReceiveDeregistrationResponse).
THEOREM BeliefsAreCorrected == Spec => []BeliefIsCurrent
<1>1. Init => BeliefInv
  BY DEF Init, BeliefInv, SoonThere, Answers, Beliefs
<1>2. BeliefInv => BeliefIsCurrent
  BY DEF BeliefInv, BeliefIsCurrent, Beliefs, Corrected, Correction
<1> QED
  BY <1>1, <1>2, BeliefStep, RegistrationAlways, PTL DEF Spec

-----------------------------------------------------------------------------
(***************************************************************************)
(* A node that is never deactivated keeps its ID.                          *)
(***************************************************************************)

Of(E, kind, n) == {e \in E : e.kind = kind /\ e.node = n}
Requests(E, n) == Of(E, "RegistrationRequest", n)
Answering(E, n) == Of(E, "RegistrationResponse", n)

\* The ID node n has or is being given is registered, and registered again
\* before it is too old, with the request under way or with the next one:
\* it is sent in x and takes t.
InTime(E, rows, n, x, t) ==
  \A i \in Id : terminator[i] = n =>
    /\ nodeId[n] = i \/ \E e \in Answering(E, n) : e.id = i
    /\ rows[i].registered /\ ~rows[i].clash
    /\ \A e \in Requests(E, n) : rows[i].age + e.left <= Threshold
    /\ Requests(E, n) = {} => rows[i].age + x + t <= Threshold

\* Node n waits for its next registration in x; at most one request or
\* response is under way and arrives before.
Waiting(E, rows, n, x, t) ==
  /\ Of(E, "Register", n) # {} /\ \A e \in Of(E, "Register", n) : e.left = x
  /\ \A e, f \in Requests(E, n) \cup Answering(E, n) : e = f
  /\ \A e \in Requests(E, n) : /\ e.id = nodeId[n] /\ x + t <= Threshold + e.left
                               /\ \A r \in RicDelays : e.left + r < x
  /\ \A e \in Answering(E, n) : e.left < x /\ (nodeId[n] # 0 => e.id = nodeId[n])
  /\ InTime(E, rows, n, x, t)

Unused(E, n) ==
  /\ Of(E, "Register", n) = {} /\ Requests(E, n) = {} /\ Answering(E, n) = {}
  /\ nodeId[n] = 0
  /\ \A i \in Id : terminator[i] # n

Steady(E, rows, n) ==
  /\ Of(E, "DeregistrationRequest", n) = {} /\ Of(E, "DeregistrationResponse", n) = {}
  /\ IF nodeActive[n] THEN \E x \in Nat, t \in TxDelays : Waiting(E, rows, n, x, t)
                      ELSE Unused(E, n)

\* The rows of IDs not handed out yet.
FreshRows ==
  \A i \in Id : i >= nextId =>
    ~latest[i].registered /\ ~latest[i].clash /\ latest[i].age = AgeCap

SteadyInv ==
  Timely =>
    /\ ricActive \/ \A i \in Id : terminator[i] = Null
    /\ FreshRows
    /\ \A n \in Node \ MayDeactivate : Steady(events, latest, n)

\* The kinds of events that matter to a node.
NodeKind == {"Register", "RegistrationRequest", "RegistrationResponse",
             "DeregistrationRequest", "DeregistrationResponse"}

\* Scheduling other events does not concern node n.
LEMMA SameEventsSteady ==
  ASSUME NEW E, NEW F, NEW n, NEW rows, Steady(E, rows, n),
         \A kind \in NodeKind : Of(F, kind, n) = Of(E, kind, n)
  PROVE  Steady(F, rows, n)
<1>1. /\ Of(F, "Register", n) = Of(E, "Register", n)
      /\ Requests(F, n) = Requests(E, n) /\ Answering(F, n) = Answering(E, n)
      /\ Of(F, "DeregistrationRequest", n) = Of(E, "DeregistrationRequest", n)
      /\ Of(F, "DeregistrationResponse", n) = Of(E, "DeregistrationResponse", n)
  BY DEF NodeKind, Requests, Answering
<1> QED
  BY <1>1 DEF Steady, Waiting, InTime, Unused

LEMMA ScheduleSteady ==
  ASSUME NEW E, NEW n, NEW rows, Steady(E, rows, n), NEW delay, NEW kind, NEW m, NEW i,
         m # n \/ kind \notin NodeKind
  PROVE  Steady(Schedule(E, delay, kind, m, i), rows, n)
<1>1. \A k \in NodeKind : Of(Schedule(E, delay, kind, m, i), k, n) = Of(E, k, n)
  BY ScheduleKeeps DEF Of
<1> QED
  BY <1>1, SameEventsSteady

\* Other rows do not concern it either.
LEMMA SameRowsSteady ==
  ASSUME NEW E, NEW n, NEW rows, Steady(E, rows, n), NEW others,
         \A i \in Id : terminator[i] = n => others[i] = rows[i]
  PROVE  Steady(E, others, n)
BY DEF Steady, Waiting, InTime

\* The events of node n after others are gone.
LEMMA OfWithout ==
  ASSUME NEW E, NEW C, NEW kind, NEW n
  PROVE  Of(Without(E, C), kind, n) = {At(e, e.left, Rank(C, e)) : e \in Of(E \ C, kind, n)}
<1>1. Without(E, C) = {At(e, e.left, Rank(C, e)) : e \in E \ C}
  BY DEF Without, Rank
<1>2. \A e : /\ At(e, e.left, Rank(C, e)).kind = e.kind
            /\ At(e, e.left, Rank(C, e)).node = e.node
  BY AtFields
<1> QED
  BY <1>1, <1>2 DEF Of

\* What is left of the events of a node when one of them is gone.
LEMMA OfRest ==
  ASSUME NEW E, NEW C, NEW kind, NEW n
  PROVE  /\ Of(E \ C, kind, n) = {} => Of(Without(E, C), kind, n) = {}
         /\ Of(E \ C, kind, n) # {} => Of(Without(E, C), kind, n) # {}
         /\ \A x : (\A f \in Of(E \ C, kind, n) : f.left = x)
                    => \A f \in Of(Without(E, C), kind, n) : f.left = x
<1>1. Of(Without(E, C), kind, n)
        = {At(e, e.left, Rank(C, e)) : e \in Of(E \ C, kind, n)}
  BY OfWithout
<1>2. \A e : At(e, e.left, Rank(C, e)).left = e.left
  BY AtFields
<1> QED
  BY <1>1, <1>2

LEMMA WithoutSteady ==
  ASSUME NEW E, NEW C, NEW n, NEW rows, Steady(E, rows, n),
         \A c \in C : c.node # n \/ c.kind \notin NodeKind
  PROVE  Steady(Without(E, C), rows, n)
<1> DEFINE F == Without(E, C)
           g == [e \in E |-> At(e, e.left, Rank(C, e))]
<1>1. \A kind \in NodeKind : Of(E \ C, kind, n) = Of(E, kind, n)
  BY DEF Of
<1>2. \A kind \in NodeKind : Of(F, kind, n) = {g[e] : e \in Of(E, kind, n)}
  <2> SUFFICES ASSUME NEW kind \in NodeKind
               PROVE  Of(F, kind, n) = {g[e] : e \in Of(E, kind, n)}
    OBVIOUS
  <2>1. Of(F, kind, n) = {At(e, e.left, Rank(C, e)) : e \in Of(E, kind, n)}
    BY <1>1, OfWithout
  <2>2. Of(E, kind, n) \subseteq E
    BY DEF Of
  <2> QED
    BY <2>1, <2>2
<1>3. \A e \in E : g[e].left = e.left /\ g[e].id = e.id
  BY AtFields
<1> HIDE DEF F, g
<1>4. /\ Of(F, "Register", n) = {g[e] : e \in Of(E, "Register", n)}
      /\ Requests(F, n) = {g[e] : e \in Requests(E, n)}
      /\ Answering(F, n) = {g[e] : e \in Answering(E, n)}
      /\ Of(F, "DeregistrationRequest", n) = {g[e] : e \in Of(E, "DeregistrationRequest", n)}
      /\ Of(F, "DeregistrationResponse", n) = {g[e] : e \in Of(E, "DeregistrationResponse", n)}
  BY <1>2 DEF NodeKind, Requests, Answering
<1>5. /\ Of(E, "Register", n) \subseteq E /\ Requests(E, n) \subseteq E
      /\ Answering(E, n) \subseteq E
  BY DEF Of, Requests, Answering
<1>6. ASSUME NEW x, NEW t, Waiting(E, rows, n, x, t)
      PROVE  Waiting(F, rows, n, x, t)
  <2>1. InTime(F, rows, n, x, t)
    BY <1>3, <1>4, <1>5, <1>6 DEF Waiting, InTime
  <2>2. \A e, f \in Requests(F, n) \cup Answering(F, n) : e = f
    BY <1>4, <1>6 DEF Waiting
  <2> QED
    BY <1>3, <1>4, <1>5, <1>6, <2>1, <2>2 DEF Waiting
<1>7. Unused(E, n) => Unused(F, n)
  BY <1>4 DEF Unused
<1>8. Steady(F, rows, n)
  BY <1>4, <1>6, <1>7 DEF Steady
<1> QED
  BY <1>8 DEF F

\* The next registration of node n itself.
LEMMA RegisterWaiting ==
  ASSUME Timely, setup \in Setups, NEW E, NEW n \in Node, Register(E, n), NEW rows,
         Requests(E, n) = {}, Answering(E, n) = {},
         \A i \in Id : terminator[i] = n =>
           /\ nodeId[n] = i /\ rows[i].registered /\ ~rows[i].clash
           /\ rows[i].age \in Nat /\ \A t \in TxDelays : rows[i].age + t <= Threshold
  PROVE  /\ \E x \in Nat, t \in TxDelays : Waiting(events', rows, n, x, t)
         /\ \A kind \in {"DeregistrationRequest", "DeregistrationResponse"} :
              Of(E, kind, n) = {} => Of(events', kind, n) = {}
<1>1. PICK d \in TxDelays, x \in RegIntervals :
        events' = Schedule(Schedule(Without(E, Registrations(E, n)), d,
                                    "RegistrationRequest", n, nodeId[n]),
                           x, "Register", n, 0)
  BY DEF Register
<1> DEFINE F == Without(E, Registrations(E, n))
           G == Schedule(F, d, "RegistrationRequest", n, nodeId[n])
<1>2. /\ d \in Nat /\ x \in Nat /\ Threshold \in Nat /\ x <= Threshold
      /\ RicDelays \subseteq Nat /\ \A r \in RicDelays : d + r < x
  BY SetupTypes DEF Timely
<1>3. Of(F, "Register", n) = {}
  <2>1. Of(E \ Registrations(E, n), "Register", n) = {}
    BY DEF Of, Registrations
  <2> QED
    BY <2>1, OfWithout
<1>4. \A kind, m : Of(E, kind, m) = {} => Of(F, kind, m) = {}
  <2> SUFFICES ASSUME NEW kind, NEW m, Of(E, kind, m) = {}
               PROVE  Of(F, kind, m) = {}
    OBVIOUS
  <2>1. Of(E \ Registrations(E, n), kind, m) = {}
    BY DEF Of
  <2> QED
    BY <2>1, OfWithout
<1> HIDE DEF F
<1> DEFINE request == Scheduled(F, d, "RegistrationRequest", n, nodeId[n])
           next == Scheduled(G, x, "Register", n, 0)
<1>5. /\ request.kind = "RegistrationRequest" /\ request.node = n
      /\ request.id = nodeId[n] /\ request.left = d
      /\ next.kind = "Register" /\ next.node = n /\ next.left = x
      /\ events' = F \cup {request, next}
  BY <1>1 DEF Scheduled, Schedule, F
<1> HIDE DEF request, next
<1>6. /\ Of(events', "Register", n) = {next}
      /\ Requests(events', n) = {request} /\ Answering(events', n) = {}
  BY <1>3, <1>4, <1>5 DEF Of, Requests, Answering
<1>7. InTime(events', rows, n, x, d)
  BY <1>5, <1>6 DEF InTime
<1>8. Waiting(events', rows, n, x, d)
  <2>1. /\ request.id = nodeId[n] /\ x + d <= Threshold + request.left
        /\ \A r \in RicDelays : request.left + r < x
    BY <1>2, <1>5
  <2>2. next.left = x
    BY <1>5
  <2> QED
    BY <1>6, <1>7, <2>1, <2>2 DEF Waiting
<1> QED
  BY <1>2, <1>4, <1>5, <1>8 DEF Of

LEMMA RegisterSteady ==
  ASSUME NEW E, NEW m \in Node, Register(E, m), NEW n, n # m, NEW rows, Steady(E, rows, n)
  PROVE  Steady(events', rows, n)
<1>1. PICK d \in TxDelays, x \in RegIntervals :
        events' = Schedule(Schedule(Without(E, Registrations(E, m)), d,
                                    "RegistrationRequest", m, nodeId[m]),
                           x, "Register", m, 0)
  BY DEF Register
<1> DEFINE F == Without(E, Registrations(E, m))
           G == Schedule(F, d, "RegistrationRequest", m, nodeId[m])
<1>2. Steady(F, rows, n)
  BY WithoutSteady DEF Registrations
<1> HIDE DEF F
<1>3. Steady(G, rows, n)
  BY <1>2, ScheduleSteady
<1> HIDE DEF G
<1>4. Steady(Schedule(G, x, "Register", m, 0), rows, n)
  BY <1>3, ScheduleSteady
<1> QED
  BY <1>1, <1>4 DEF F, G

\* An inactivity check does not find the ID of a steady node.
LEMMA CheckSteady ==
  ASSUME OwnershipInv, NEW n \in Node, NEW E, Listed(E), Steady(E, latest, n),
         CheckForInactivity(E)
  PROVE  Steady(events', latest', n)
<1>0. /\ setup \in Setups /\ latest \in [Id -> Row] /\ TxDelays \subseteq Nat
      /\ Threshold \in Nat
  BY SetupTypes DEF OwnershipInv
<1>a. PICK R \in Registered, c \in CheckIntervals : \E d : Checked(E, R, c, d)
  BY CheckParts
<1>1. PICK d : Checked(E, R, c, d)
  BY <1>a
<1> DEFINE S == Silent(R)
           B == Responses(E, S, d)
           F == E \cup B
           C == {e \in F : e.kind = "CheckForInactivity"}
<1>2. ASSUME NEW i \in Id, terminator[i] = n
      PROVE  i \notin S
  <2>1. PICK x \in Nat, t \in TxDelays : Waiting(E, latest, n, x, t)
    BY <1>2 DEF Steady, Unused
  <2>2. \A e \in Requests(E, n) : e.left \in Nat
    BY DEF Requests, Of, Listed, Ranked
  <2>3. latest[i].age \in Nat /\ t \in Nat
    BY <1>0 DEF Row
  <2>4. /\ \A e \in Requests(E, n) : latest[i].age + e.left <= Threshold
        /\ Requests(E, n) = {} => latest[i].age + x + t <= Threshold
    BY <1>2, <2>1 DEF Waiting, InTime
  <2>5. latest[i].age <= Threshold
    <3>1. CASE Requests(E, n) = {}
      BY <1>0, <2>3, <2>4, <3>1
    <3>2. CASE Requests(E, n) # {}
      BY <1>0, <2>2, <2>3, <2>4, <3>2
    <3> QED
      BY <3>1, <3>2
  <2> QED
    BY <1>0, <2>3, <2>5 DEF Silent, Inactive
<1>3. /\ S \subseteq Id
      /\ \A i \in Id : i \notin S => latest'[i] = latest[i]
      /\ events' = Schedule(Without(F, C), c, "CheckForInactivity", Null, 0)
  BY <1>1 DEF Checked, Registered, Silent, Rescheduled
<1>4. \A b \in B : b.kind = "DeregistrationResponse" /\ b.node # n
  <2> SUFFICES ASSUME NEW i \in S
               PROVE  /\ Response(E, S, d, i).kind = "DeregistrationResponse"
                      /\ Response(E, S, d, i).node # n
    BY DEF Responses
  <2> QED
    BY <1>2, <1>3 DEF Response
<1> HIDE DEF S, B
<1>5. \A kind \in NodeKind : Of(F, kind, n) = Of(E, kind, n)
  BY <1>4 DEF Of
<1>6. Steady(F, latest, n)
  BY <1>5, SameEventsSteady
<1> HIDE DEF F
<1>7. Steady(F, latest', n)
  BY <1>2, <1>3, <1>6, SameRowsSteady
<1>8. Steady(Without(F, C), latest', n)
  BY <1>7, WithoutSteady DEF NodeKind
<1> HIDE DEF C
<1>9. Steady(Schedule(Without(F, C), c, "CheckForInactivity", Null, 0), latest', n)
  BY <1>8, ScheduleSteady DEF NodeKind
<1> QED
  BY <1>3, <1>9

\* A step that leaves the state of node n and its IDs alone.
LEMMA SteadyNext ==
  ASSUME NEW n, Steady(events', latest', n),
         UNCHANGED <<nodeId[n], nodeActive[n], Id, Threshold, TxDelays, RicDelays>>,
         \A i \in Id : terminator'[i] = n <=> terminator[i] = n
  PROVE  Steady(events, latest, n)'
BY DEF Steady, Waiting, InTime, Unused

\* Time passes.
LEMMA TickSteady ==
  ASSUME OwnershipInv, TypeInv, NEW n \in Node, Steady(events, latest, n), Tick
  PROVE  Steady(events', latest', n)
<1>0. /\ setup \in Setups /\ latest \in [Id -> Row] /\ TxDelays \subseteq Nat
      /\ RicDelays \subseteq Nat /\ Threshold \in Nat /\ AgeCap \in Nat
  BY SetupTypes DEF OwnershipInv
<1> DEFINE g == [e \in events |-> At(e, e.left - 1, e.rank)]
<1>1. \A e \in events : /\ g[e].kind = e.kind /\ g[e].node = e.node /\ g[e].id = e.id
                        /\ g[e].left = e.left - 1 /\ e.left \in Nat /\ e.left > 0
  BY AtFields DEF Tick, TypeInv, Listed, Ranked
<1>2. events' = {g[e] : e \in events}
  BY DEF Tick
<1> HIDE DEF g
<1>3. \A kind : Of(events', kind, n) = {g[e] : e \in Of(events, kind, n)}
  BY <1>1, <1>2 DEF Of
<1>4. /\ Requests(events', n) = {g[e] : e \in Requests(events, n)}
      /\ Answering(events', n) = {g[e] : e \in Answering(events, n)}
      /\ Requests(events, n) \subseteq events /\ Answering(events, n) \subseteq events
      /\ Of(events, "Register", n) \subseteq events
  BY <1>3 DEF Requests, Answering, Of
<1>5. \A i \in Id : /\ latest'[i].registered = latest[i].registered
                    /\ latest'[i].clash = latest[i].clash
                    /\ latest'[i].age <= latest[i].age + 1
                    /\ latest'[i].age \in Nat /\ latest[i].age \in Nat
  BY <1>0 DEF Tick, Older, Row
<1>6. ASSUME NEW x \in Nat, NEW t \in TxDelays, Waiting(events, latest, n, x, t)
      PROVE  x - 1 \in Nat /\ Waiting(events', latest', n, x - 1, t)
  <2>1. x > 0
    BY <1>1, <1>4, <1>6 DEF Waiting
  <2>2. /\ Of(events', "Register", n) # {}
        /\ \A e \in Of(events', "Register", n) : e.left = x - 1
    <3>1. Of(events', "Register", n) = {g[e] : e \in Of(events, "Register", n)}
      BY <1>3
    <3>2. /\ Of(events, "Register", n) # {}
          /\ \A e \in Of(events, "Register", n) : e.left = x /\ g[e].left = e.left - 1
      BY <1>1, <1>4, <1>6 DEF Waiting
    <3> QED
      BY <3>1, <3>2
  <2>3. \A e, f \in Requests(events', n) \cup Answering(events', n) : e = f
    BY <1>4, <1>6 DEF Waiting
  <2>4. \A e \in Requests(events', n) :
          /\ e.id = nodeId[n] /\ x - 1 + t <= Threshold + e.left
          /\ \A r \in RicDelays : e.left + r < x - 1
    <3> SUFFICES ASSUME NEW e \in Requests(events, n)
                 PROVE  /\ g[e].id = nodeId[n] /\ x - 1 + t <= Threshold + g[e].left
                        /\ \A r \in RicDelays : g[e].left + r < x - 1
      BY <1>4
    <3>1. /\ e.id = nodeId[n] /\ x + t <= Threshold + e.left
          /\ \A r \in RicDelays : e.left + r < x
      BY <1>6 DEF Waiting
    <3>2. g[e].id = e.id /\ g[e].left = e.left - 1 /\ e.left \in Nat /\ t \in Nat
      BY <1>0, <1>1, <1>4
    <3>3. ASSUME NEW r \in RicDelays
          PROVE  g[e].left + r < x - 1
      <4>1. r \in Nat /\ e.left + r < x
        BY <1>0, <3>1
      <4> QED
        BY <3>2, <4>1
    <3>4. x - 1 + t <= Threshold + g[e].left
      BY <1>0, <3>1, <3>2
    <3> QED
      BY <3>1, <3>2, <3>3, <3>4
  <2>5. \A e \in Answering(events', n) : e.left < x - 1 /\ (nodeId[n] # 0 => e.id = nodeId[n])
    BY <1>1, <1>4, <1>6 DEF Waiting
  <2>6. InTime(events', latest', n, x - 1, t)
    <3> SUFFICES ASSUME NEW i \in Id, terminator[i] = n
                 PROVE  /\ nodeId[n] = i \/ \E e \in Answering(events', n) : e.id = i
                        /\ latest'[i].registered /\ ~latest'[i].clash
                        /\ \A e \in Requests(events', n) : latest'[i].age + e.left <= Threshold
                        /\ Requests(events', n) = {} => latest'[i].age + (x - 1) + t <= Threshold
      BY DEF InTime
    <3>1. /\ nodeId[n] = i \/ \E e \in Answering(events, n) : e.id = i
          /\ latest[i].registered /\ ~latest[i].clash
          /\ \A e \in Requests(events, n) : latest[i].age + e.left <= Threshold
          /\ Requests(events, n) = {} => latest[i].age + x + t <= Threshold
      BY <1>6 DEF Waiting, InTime
    <3>2. nodeId[n] = i \/ \E e \in Answering(events', n) : e.id = i
      BY <1>1, <1>4, <3>1
    <3>3. \A e \in Requests(events', n) : latest'[i].age + e.left <= Threshold
      <4> SUFFICES ASSUME NEW e \in Requests(events, n)
                   PROVE  latest'[i].age + g[e].left <= Threshold
        BY <1>4
      <4>1. g[e].left = e.left - 1 /\ e.left \in Nat /\ latest[i].age + e.left <= Threshold
        BY <1>1, <1>4, <3>1
      <4> QED
        BY <1>0, <1>5, <4>1
    <3>4. Requests(events', n) = {} => latest'[i].age + (x - 1) + t <= Threshold
      <4>1. Requests(events', n) = {} => Requests(events, n) = {}
        BY <1>4
      <4> QED
        BY <1>0, <1>5, <3>1, <4>1
    <3> QED
      BY <1>5, <3>1, <3>2, <3>3, <3>4
  <2> QED
    BY <2>1, <2>2, <2>3, <2>4, <2>5, <2>6 DEF Waiting
<1>7. Unused(events, n) => Unused(events', n)
  BY <1>3, <1>4 DEF Unused
<1> QED
  BY <1>3, <1>6, <1>7 DEF Steady

\* The RIC hears from node n.
LEMMA RequestSteady ==
  ASSUME OwnershipInv, TypeInv, Timely, FreshRows, ricActive \/ \A i \in Id : terminator[i] = Null,
         NEW n \in Node, Steady(events, latest, n), UNCHANGED setup,
         NEW e \in Requests(events, n), e.left = 0,
         IF ricActive
           THEN LET k == RegisterNode(e.id)
                IN /\ k \in Id
                   /\ latest' = [latest EXCEPT ![k] = Inserted(k, TRUE)]
                   /\ terminator' = [terminator EXCEPT ![k] = n]
                   /\ \E d \in RicDelays :
                        events' = Schedule(Without(events, {e}), d,
                                           "RegistrationResponse", n, k)
           ELSE events' = Without(events, {e}) /\ UNCHANGED ricVars,
         UNCHANGED nodeVars
  PROVE  Steady(events, latest, n)'
<1>0. /\ setup \in Setups /\ latest \in [Id -> Row] /\ TxDelays \subseteq Nat
      /\ RicDelays \subseteq Nat /\ Threshold \in Nat /\ AgeCap \in Nat /\ AgeCap > 0
      /\ terminator \in [Id -> Node \cup {Null}] /\ nodeId \in [Node -> Id] /\ nextId \in Nat
      /\ \A i \in Id : i = 0 \/ i >= nextId => terminator[i] = Null
      /\ OneOwner
  BY SetupTypes DEF OwnershipInv
<1>. UNCHANGED <<Id, Threshold, TxDelays, RicDelays>>
  BY SameSetup
<1>1. nodeActive[n] /\ nodeActive'[n] /\ nodeId' = nodeId
  BY DEF Steady, Unused, nodeVars
<1>2. PICK x \in Nat, t \in TxDelays : Waiting(events, latest, n, x, t)
  BY <1>1 DEF Steady
<1> DEFINE F == Without(events, {e})
<1>3. /\ e.id = nodeId[n] /\ x + t <= Threshold /\ \A r \in RicDelays : r < x
      /\ \A f \in Requests(events, n) \cup Answering(events, n) : f = e
      /\ Answering(events, n) = {}
  <2>1. /\ e.id = nodeId[n] /\ x + t <= Threshold + 0 /\ \A r \in RicDelays : 0 + r < x
        /\ \A f \in Requests(events, n) \cup Answering(events, n) : f = e
    BY <1>2 DEF Waiting
  <2>2. Answering(events, n) = {}
    BY <2>1 DEF Answering, Requests, Of
  <2> QED
    BY <1>0, <2>1, <2>2
<1>4. Requests(F, n) = {} /\ Answering(F, n) = {}
  <2>1. /\ Of(events \ {e}, "RegistrationRequest", n) = {}
        /\ Of(events \ {e}, "RegistrationResponse", n) = {}
    BY <1>3 DEF Requests, Answering, Of
  <2> QED
    BY <2>1, OfWithout DEF Requests, Answering
<1>5. /\ Of(F, "Register", n) # {} /\ \A f \in Of(F, "Register", n) : f.left = x
      /\ Of(F, "DeregistrationRequest", n) = {} /\ Of(F, "DeregistrationResponse", n) = {}
  <2>1. \A kind \in {"Register", "DeregistrationRequest", "DeregistrationResponse"} :
          Of(events \ {e}, kind, n) = Of(events, kind, n)
    BY DEF Requests, Of
  <2>2. /\ Of(events, "Register", n) # {} /\ \A f \in Of(events, "Register", n) : f.left = x
        /\ Of(events, "DeregistrationRequest", n) = {}
        /\ Of(events, "DeregistrationResponse", n) = {}
    BY <1>2 DEF Waiting, Steady
  <2>3. /\ Of(F, "Register", n) = {At(f, f.left, Rank({e}, f)) : f \in Of(events, "Register", n)}
        /\ Of(F, "DeregistrationRequest", n) = {} /\ Of(F, "DeregistrationResponse", n) = {}
    BY <2>1, <2>2, OfWithout
  <2>4. \A f : At(f, f.left, Rank({e}, f)).left = f.left
    BY AtFields
  <2> HIDE DEF F
  <2> QED
    BY <2>2, <2>3, <2>4
<1> HIDE DEF F
<1>6. CASE ~ricActive
  <2>1. events' = F /\ \A i \in Id : terminator'[i] # n
    BY <1>0, <1>6, SetupAssumption DEF F, ricVars
  <2>2. Waiting(events, latest, n, x, t)'
    BY <1>4, <1>5, <2>1 DEF Waiting, InTime
  <2> QED
    BY <1>1, <1>5, <2>1, <2>2 DEF Steady
<1>7. CASE ricActive
  <2> DEFINE k == RegisterNode(e.id)
  <2>1. /\ k \in Id /\ latest' = [latest EXCEPT ![k] = Inserted(k, TRUE)]
        /\ terminator' = [terminator EXCEPT ![k] = n]
    BY <1>7
  <2>2. PICK d \in RicDelays : events' = Schedule(F, d, "RegistrationResponse", n, k)
    BY <1>7 DEF F
  <2>3. k = IF nodeId[n] = 0 THEN nextId ELSE nodeId[n]
    BY <1>3 DEF RegisterNode
  <2> HIDE DEF k
  <2> DEFINE answer == Scheduled(F, d, "RegistrationResponse", n, k)
  <2>4. /\ answer.kind = "RegistrationResponse" /\ answer.node = n /\ answer.id = k
        /\ answer.left = d /\ events' = F \cup {answer}
    BY <2>2 DEF Scheduled, Schedule
  <2> HIDE DEF answer
  <2>5. /\ Of(events', "Register", n) = Of(F, "Register", n)
        /\ Requests(events', n) = {} /\ Answering(events', n) = {answer}
        /\ Of(events', "DeregistrationRequest", n) = {}
        /\ Of(events', "DeregistrationResponse", n) = {}
    BY <1>4, <1>5, <2>4 DEF Of, Requests, Answering
  <2>6. latest'[k].registered /\ ~latest'[k].clash /\ latest'[k].age = 0
    <3>1. latest[k].age # 0 \/ (latest[k].registered /\ ~latest[k].clash)
      <4>1. CASE nodeId[n] = 0
        BY <1>0, <2>1, <2>3, <4>1 DEF FreshRows
      <4>2. CASE nodeId[n] # 0
        BY <1>0, <1>2, <2>1, <2>3, <4>2 DEF OneOwner, Waiting, InTime
      <4> QED
        BY <4>1, <4>2
    <3> QED
      BY <1>0, <2>1, <3>1 DEF Inserted
  <2>7. ASSUME NEW i \in Id, terminator'[i] = n
        PROVE  i = k
    <3>1. CASE i # k
      <4>1. terminator[i] = n
        BY <1>0, <2>1, <2>7, <3>1
      <4>2. nodeId[n] = i
        BY <1>2, <1>3, <4>1 DEF Waiting, InTime
      <4>3. i # 0
        BY <1>0, <4>1, SetupAssumption
      <4> QED
        BY <2>3, <3>1, <4>2, <4>3
    <3> QED
      BY <3>1
  <2>8. InTime(events, latest, n, x, t)'
    <3>1. latest'[k].age + x + t <= Threshold
      <4>1. t \in Nat
        BY <1>0
      <4> QED
        BY <1>0, <1>3, <2>6, <4>1
    <3>2. /\ k = nodeId'[n] \/ \E a \in Answering(events', n) : a.id = k
          /\ \A f \in Requests(events', n) : latest'[k].age + f.left <= Threshold
      BY <2>4, <2>5
    <3> QED
      BY <2>6, <2>7, <3>1, <3>2 DEF InTime
  <2>9. Waiting(events, latest, n, x, t)'
    BY <1>1, <1>3, <1>5, <2>3, <2>4, <2>5, <2>8 DEF Waiting
  <2> QED
    BY <1>1, <2>5, <2>9 DEF Steady
<1> QED
  BY <1>6, <1>7

\* The next registration of a steady node.
LEMMA OwnRegisterSteady ==
  ASSUME OwnershipInv, TypeInv, Timely, NEW n \in Node, Steady(events, latest, n),
         NEW e \in events, e.kind = "Register", e.node = n, e.left = 0,
         IF nodeActive[n] THEN Register(Without(events, {e}), n)
                          ELSE events' = Without(events, {e})
  PROVE  Steady(events', latest, n)
<1>0. /\ setup \in Setups /\ latest \in [Id -> Row] /\ TxDelays \subseteq Nat
      /\ RicDelays \subseteq Nat /\ RicDelays # {} /\ Threshold \in Nat /\ Listed(events)
  BY SetupTypes DEF OwnershipInv, TypeInv
<1>1. e \in Of(events, "Register", n)
  BY DEF Of
<1>2. nodeActive[n]
  BY <1>1 DEF Steady, Unused
<1>3. PICK x \in Nat, t \in TxDelays : Waiting(events, latest, n, x, t)
  BY <1>2 DEF Steady
<1>4. x = 0
  BY <1>1, <1>3 DEF Waiting
<1>5. \A f \in events : f.left \in Nat
  BY <1>0 DEF Listed, Ranked
<1>6. Requests(events, n) = {}
  <2> SUFFICES ASSUME NEW f \in Requests(events, n)
               PROVE  FALSE
    OBVIOUS
  <2>1. PICK r \in RicDelays : TRUE
    BY <1>0
  <2>2. f.left + r < 0
    BY <1>3, <1>4, <2>1 DEF Waiting
  <2>3. f.left \in Nat /\ r \in Nat
    BY <1>0, <1>5 DEF Requests, Of
  <2> QED
    BY <2>2, <2>3
<1>7. Answering(events, n) = {}
  <2> SUFFICES ASSUME NEW f \in Answering(events, n)
               PROVE  FALSE
    OBVIOUS
  <2>1. f.left < 0
    BY <1>3, <1>4 DEF Waiting
  <2>2. f.left \in Nat
    BY <1>5 DEF Answering, Of
  <2> QED
    BY <2>1, <2>2
<1>8. \A i \in Id : terminator[i] = n =>
        /\ nodeId[n] = i /\ latest[i].registered /\ ~latest[i].clash
        /\ latest[i].age \in Nat /\ \A u \in TxDelays : latest[i].age + u <= Threshold
  <2> SUFFICES ASSUME NEW i \in Id, terminator[i] = n
               PROVE  /\ nodeId[n] = i /\ latest[i].registered /\ ~latest[i].clash
                      /\ latest[i].age \in Nat
                      /\ \A u \in TxDelays : latest[i].age + u <= Threshold
    OBVIOUS
  <2>1. /\ nodeId[n] = i /\ latest[i].registered /\ ~latest[i].clash
        /\ latest[i].age + 0 + t <= Threshold
    BY <1>3, <1>4, <1>6, <1>7 DEF Waiting, InTime
  <2>2. latest[i].age \in Nat
    BY <1>0 DEF Row
  <2>3. \A u \in TxDelays : u = t
    BY DEF Timely, Constant
  <2> QED
    BY <1>0, <2>1, <2>2, <2>3
<1> DEFINE F == Without(events, {e})
<1>9. \A kind, m : Of(events, kind, m) = {} => Of(F, kind, m) = {}
  <2> SUFFICES ASSUME NEW kind, NEW m, Of(events, kind, m) = {}
               PROVE  Of(F, kind, m) = {}
    OBVIOUS
  <2>1. Of(events \ {e}, kind, m) = {}
    BY DEF Of
  <2> QED
    BY <2>1, OfWithout
<1>10. Register(F, n)
  BY <1>2
<1> HIDE DEF F
<1>11. Requests(F, n) = {} /\ Answering(F, n) = {}
  BY <1>6, <1>7, <1>9 DEF Requests, Answering
<1>12. /\ \E y \in Nat, u \in TxDelays : Waiting(events', latest, n, y, u)
       /\ \A kind \in {"DeregistrationRequest", "DeregistrationResponse"} :
            Of(F, kind, n) = {} => Of(events', kind, n) = {}
  BY <1>0, <1>8, <1>10, <1>11, RegisterWaiting
<1> QED
  BY <1>2, <1>9, <1>12 DEF Steady

\* Node n is told the ID it has, or its first one.
LEMMA ResponseSteady ==
  ASSUME OwnershipInv, NEW n \in Node, Steady(events, latest, n), UNCHANGED setup,
         NEW e \in Answering(events, n), events' = Without(events, {e}),
         nodeId' = IF nodeActive[n] THEN [nodeId EXCEPT ![n] = e.id] ELSE nodeId,
         UNCHANGED <<latest, terminator, nodeActive>>
  PROVE  Steady(events, latest, n)' /\ (nodeId[n] # 0 => nodeId'[n] = nodeId[n])
<1>0. /\ nodeId \in [Node -> Id] /\ n # Null
      /\ \A i \in Id : i = 0 => terminator[i] = Null
  BY SetupAssumption DEF OwnershipInv
<1>. UNCHANGED <<Id, Threshold, TxDelays, RicDelays>>
  BY SameSetup
<1>1. nodeActive[n] /\ nodeActive'[n] /\ nodeId'[n] = e.id
  BY <1>0 DEF Steady, Unused
<1>2. PICK x \in Nat, t \in TxDelays : Waiting(events, latest, n, x, t)
  BY <1>1 DEF Steady
<1>3. nodeId[n] # 0 => e.id = nodeId[n]
  BY <1>2 DEF Waiting
<1>4. /\ \A f \in Requests(events, n) \cup Answering(events, n) : f = e
      /\ Requests(events, n) = {}
  <2>1. \A f \in Requests(events, n) \cup Answering(events, n) : f = e
    BY <1>2 DEF Waiting
  <2> QED
    BY <2>1 DEF Requests, Answering, Of
<1>5. /\ Requests(events', n) = {} /\ Answering(events', n) = {}
      /\ Of(events', "DeregistrationRequest", n) = {}
      /\ Of(events', "DeregistrationResponse", n) = {}
  <2>1. /\ Of(events \ {e}, "RegistrationRequest", n) = {}
        /\ Of(events \ {e}, "RegistrationResponse", n) = {}
        /\ Of(events \ {e}, "DeregistrationRequest", n) = {}
        /\ Of(events \ {e}, "DeregistrationResponse", n) = {}
    BY <1>4 DEF Steady, Of, Requests, Answering
  <2> QED
    BY <2>1, OfRest DEF Requests, Answering
<1>6. Of(events', "Register", n) # {} /\ \A f \in Of(events', "Register", n) : f.left = x
  <2>1. Of(events \ {e}, "Register", n) = Of(events, "Register", n)
    BY DEF Of, Answering
  <2>2. Of(events, "Register", n) # {} /\ \A f \in Of(events, "Register", n) : f.left = x
    BY <1>2 DEF Waiting
  <2>3. Of(events', "Register", n) # {}
    BY <2>1, <2>2, OfRest
  <2>4. \A f \in Of(events', "Register", n) : f.left = x
    <3>1. \A f \in Of(events \ {e}, "Register", n) : f.left = x
      BY <2>1, <2>2
    <3>2. \A y : (\A f \in Of(events \ {e}, "Register", n) : f.left = y)
                   => \A f \in Of(Without(events, {e}), "Register", n) : f.left = y
      BY OfRest
    <3> QED
      BY <3>1, <3>2
  <2> QED
    BY <2>3, <2>4
<1>7. \A i \in Id : terminator[i] = n =>
        /\ nodeId'[n] = i /\ latest[i].registered /\ ~latest[i].clash
        /\ latest[i].age + x + t <= Threshold
  BY <1>0, <1>1, <1>2, <1>3, <1>4 DEF Waiting, InTime
<1>8. InTime(events, latest, n, x, t)'
  BY <1>5, <1>7 DEF InTime
<1>9. Waiting(events, latest, n, x, t)'
  BY <1>5, <1>6, <1>8 DEF Waiting
<1> QED
  BY <1>1, <1>3, <1>5, <1>9 DEF Steady

\* Each step of the others, of the RIC and of node n itself.
LEMMA SteadyNode ==
  ASSUME OwnershipInv, TypeInv, SteadyInv, Timely, Next, NEW n \in Node \ MayDeactivate
  PROVE  Steady(events, latest, n)'
<1>0. /\ setup \in Setups /\ latest \in [Id -> Row] /\ TxDelays \subseteq Nat
      /\ RicDelays \subseteq Nat /\ RicDelays # {} /\ Threshold \in Nat
      /\ terminator \in [Id -> Node \cup {Null}] /\ nodeId \in [Node -> Id]
      /\ \A i \in Id : i = 0 \/ i >= nextId => terminator[i] = Null
      /\ \A e \in events : InTransit(e, terminator)
      /\ Listed(events) /\ nodeActive \in [Node -> BOOLEAN]
      /\ n \in Node /\ n # Null
  BY SetupTypes, SetupAssumption DEF OwnershipInv, TypeInv
<1>1. /\ Steady(events, latest, n) /\ FreshRows
      /\ ricActive \/ \A i \in Id : terminator[i] = Null
  BY DEF SteadyInv
<1>. UNCHANGED <<setup, Id, Threshold, TxDelays, RicDelays>>
  BY SameSetup DEF Next, Tick, RegisterFires, ReceiveRegistrationRequest,
     ReceiveRegistrationResponse, ReceiveDeregistrationRequest,
     ReceiveDeregistrationResponse, CheckFires, QueryLms, StartRic, StopRic, Activate,
     Deactivate
<1>2. CASE Tick
  <2>1. Steady(events', latest', n)
    BY <1>0, <1>1, <1>2, TickSteady
  <2> QED
    BY <1>2, <2>1, SteadyNext DEF Tick, nodeVars
<1>3. CASE RegisterFires
  <2>1. PICK e \in events :
          /\ Fires(e, "Register")
          /\ IF nodeActive[e.node]
               THEN Register(Without(events, {e}), e.node)
               ELSE events' = Without(events, {e})
          /\ UNCHANGED <<latest, terminator, nodeId, nodeActive>>
    BY <1>3 DEF RegisterFires, ricVars, nodeVars
  <2>2. e.node \in Node /\ e.kind = "Register" /\ e.left = 0
    BY <1>0, <2>1 DEF Fires, InTransit
  <2>3. Steady(events', latest, n)
    <3>1. CASE e.node # n
      <4>1. Steady(Without(events, {e}), latest, n)
        BY <1>1, <3>1, WithoutSteady
      <4> QED
        BY <2>1, <2>2, <3>1, <4>1, RegisterSteady
    <3>2. CASE e.node = n
      BY <1>0, <1>1, <2>1, <2>2, <3>2, OwnRegisterSteady
    <3> QED
      BY <3>1, <3>2
  <2> QED
    BY <2>1, <2>3, SteadyNext
<1>4. CASE ReceiveRegistrationRequest
  <2>1. PICK e \in events :
          /\ Fires(e, "RegistrationRequest")
          /\ IF ricActive
               THEN LET k == RegisterNode(e.id)
                    IN /\ k \in Id
                       /\ latest' = [latest EXCEPT ![k] = Inserted(k, TRUE)]
                       /\ terminator' = [terminator EXCEPT ![k] = e.node]
                       /\ \E d \in RicDelays :
                            events' = Schedule(Without(events, {e}), d,
                                               "RegistrationResponse", e.node, k)
               ELSE events' = Without(events, {e}) /\ UNCHANGED ricVars
          /\ UNCHANGED nodeVars
    BY <1>4 DEF ReceiveRegistrationRequest
  <2>2. /\ e.node \in Node /\ e.kind = "RegistrationRequest" /\ e.left = 0
        /\ e.id # 0 => terminator[e.id] = e.node
    BY <1>0, <2>1 DEF Fires, InTransit
  <2>3. CASE e.node = n
    <3>1. e \in Requests(events, n)
      BY <2>2, <2>3 DEF Requests, Of
    <3> QED
      BY <1>0, <1>1, <2>1, <2>2, <2>3, <3>1, RequestSteady
  <2>4. CASE e.node # n /\ ricActive
    <3> DEFINE k == RegisterNode(e.id)
    <3>1. /\ k \in Id /\ latest' = [latest EXCEPT ![k] = Inserted(k, TRUE)]
          /\ terminator' = [terminator EXCEPT ![k] = e.node]
      BY <2>1, <2>4
    <3>2. PICK d \in RicDelays :
            events' = Schedule(Without(events, {e}), d, "RegistrationResponse", e.node, k)
      BY <2>1, <2>4
    <3>3. terminator[k] # n
      BY <1>0, <2>2, <2>4, <3>1, OwnershipInv DEF RegisterNode, OwnershipInv
    <3> HIDE DEF k
    <3>4. /\ \A i \in Id : terminator[i] = n => latest'[i] = latest[i]
          /\ \A i \in Id : terminator'[i] = n <=> terminator[i] = n
      BY <1>0, <2>4, <3>1, <3>3
    <3>5. Steady(Without(events, {e}), latest', n)
      BY <1>1, <2>4, <3>4, WithoutSteady, SameRowsSteady
    <3>6. Steady(events', latest', n)
      BY <2>4, <3>2, <3>5, ScheduleSteady
    <3> QED
      BY <2>1, <3>4, <3>6, SteadyNext DEF nodeVars
  <2>5. CASE e.node # n /\ ~ricActive
    <3>1. Steady(events', latest, n)
      BY <1>1, <2>1, <2>5, WithoutSteady
    <3> QED
      BY <2>1, <2>5, <3>1, SteadyNext DEF ricVars, nodeVars
  <2> QED
    BY <2>3, <2>4, <2>5
<1>5. CASE ReceiveRegistrationResponse
  <2>1. PICK e \in events :
          /\ Fires(e, "RegistrationResponse")
          /\ events' = Without(events, {e})
          /\ nodeId' = IF nodeActive[e.node] THEN [nodeId EXCEPT ![e.node] = e.id] ELSE nodeId
          /\ UNCHANGED <<latest, terminator, nodeActive>>
    BY <1>5 DEF ReceiveRegistrationResponse, ricVars
  <2>2. e.node \in Node /\ e.kind = "RegistrationResponse"
    BY <1>0, <2>1 DEF Fires, InTransit
  <2>3. CASE e.node # n
    <3>1. Steady(events', latest, n)
      BY <1>1, <2>1, <2>3, WithoutSteady
    <3>2. nodeId'[n] = nodeId[n]
      BY <1>0, <2>1, <2>3
    <3> QED
      BY <2>1, <3>1, <3>2, SteadyNext
  <2>4. CASE e.node = n
    <3>1. e \in Answering(events, n)
      BY <2>2, <2>4 DEF Answering, Of
    <3> QED
      BY <1>0, <1>1, <2>1, <2>4, <3>1, ResponseSteady
  <2> QED
    BY <2>3, <2>4
<1>6. CASE ReceiveDeregistrationRequest
  <2>1. PICK e \in events :
          /\ Fires(e, "DeregistrationRequest")
          /\ IF ricActive
               THEN /\ latest' = [latest EXCEPT ![e.id] = Inserted(e.id, FALSE)]
                    /\ \E d \in RicDelays :
                         events' = Schedule(Without(events, {e}), d,
                                            "DeregistrationResponse", terminator[e.id], e.id)
               ELSE events' = Without(events, {e}) /\ UNCHANGED latest
          /\ UNCHANGED <<terminator, nodeId, nodeActive>>
    BY <1>6 DEF ReceiveDeregistrationRequest, nodeVars
  <2>2. /\ e.kind = "DeregistrationRequest" /\ e.node # n
        /\ e.id # 0 => terminator[e.id] = e.node
    BY <1>0, <1>1, <2>1 DEF Fires, InTransit, Steady, Of
  <2>3. 0 \in Id /\ terminator[0] = Null
    BY <1>0, SetupTypes DEF Id
  <2>4. terminator[e.id] # n
    BY <1>0, <2>2, <2>3
  <2>5. \A i \in Id : terminator[i] = n => latest'[i] = latest[i]
    BY <1>0, <2>1, <2>4
  <2>6. Steady(Without(events, {e}), latest', n)
    BY <1>1, <2>2, <2>5, WithoutSteady, SameRowsSteady
  <2>7. Steady(events', latest', n)
    <3>1. CASE ricActive
      <4>1. PICK d \in RicDelays :
              events' = Schedule(Without(events, {e}), d, "DeregistrationResponse",
                                 terminator[e.id], e.id)
        BY <2>1, <3>1
      <4> QED
        BY <2>4, <2>6, <4>1, ScheduleSteady
    <3>2. CASE ~ricActive
      BY <2>1, <2>6, <3>2
    <3> QED
      BY <3>1, <3>2
  <2> QED
    BY <2>1, <2>7, SteadyNext
<1>7. CASE ReceiveDeregistrationResponse
  <2>1. PICK e \in events :
          /\ Fires(e, "DeregistrationResponse")
          /\ events' = Without(events, {e})
          /\ IF e.node = Null THEN UNCHANGED nodeId ELSE nodeId' = Forgotten(e.node)
          /\ UNCHANGED <<latest, terminator, nodeActive>>
    BY <1>7 DEF ReceiveDeregistrationResponse, ricVars
  <2>2. e.node # n
    BY <1>1, <2>1 DEF Fires, Steady, Of
  <2>3. nodeId'[n] = nodeId[n]
    BY <1>0, <2>1, <2>2 DEF Forgotten
  <2>4. Steady(events', latest, n)
    BY <1>1, <2>1, <2>2, WithoutSteady
  <2> QED
    BY <2>1, <2>3, <2>4, SteadyNext
<1>8. CASE CheckFires
  <2>1. PICK e \in events : Fires(e, "CheckForInactivity") /\ CheckForInactivity(Without(events, {e}))
    BY <1>8 DEF CheckFires
  <2>2. Steady(Without(events, {e}), latest, n)
    BY <1>1, <2>1, WithoutSteady DEF Fires, NodeKind
  <2>3. Listed(Without(events, {e}))
    BY <1>0, WithoutListed
  <2>4. Steady(events', latest', n)
    BY <1>0, <2>1, <2>2, <2>3, CheckSteady
  <2> QED
    BY <1>8, <2>4, SteadyNext DEF CheckFires, nodeVars
<1>9. CASE QueryLms
  <2>1. Steady(events', latest', n)
    BY <1>0, <1>1, <1>9, CheckSteady DEF QueryLms
  <2> QED
    BY <1>9, <2>1, SteadyNext DEF QueryLms, nodeVars
<1>10. CASE StartRic
  <2>1. Steady(events', latest, n)
    BY <1>1, <1>10, ScheduleSteady DEF StartRic, NodeKind
  <2> QED
    BY <1>10, <2>1, SteadyNext DEF StartRic, ricVars, nodeVars
<1>11. CASE StopRic
  BY <1>11 DEF StopRic, Timely
<1>12. ASSUME NEW m \in Node, Activate(m)
       PROVE  Steady(events, latest, n)'
  <2>1. CASE m # n
    <3>1. Steady(events', latest, n)
      BY <1>1, <1>12, <2>1, RegisterSteady DEF Activate
    <3>2. nodeActive'[n] = nodeActive[n]
      BY <1>0, <1>12, <2>1 DEF Activate
    <3> QED
      BY <1>12, <3>1, <3>2, SteadyNext DEF Activate, ricVars
  <2>2. CASE m = n
    <3>1. Unused(events, n) /\ nodeActive'[n] /\ UNCHANGED <<latest, terminator, nodeId>>
      BY <1>0, <1>1, <1>12, <2>2 DEF Activate, Steady, ricVars
    <3>2. /\ \E x \in Nat, t \in TxDelays : Waiting(events', latest, n, x, t)
          /\ \A kind \in {"DeregistrationRequest", "DeregistrationResponse"} :
               Of(events, kind, n) = {} => Of(events', kind, n) = {}
      BY <1>0, <1>12, <2>2, <3>1, RegisterWaiting DEF Activate, Unused
    <3> QED
      BY <1>1, <3>1, <3>2 DEF Steady, Waiting, InTime
  <2> QED
    BY <2>1, <2>2
<1>13. ASSUME NEW m \in MayDeactivate, Deactivate(m)
       PROVE  Steady(events, latest, n)'
  <2>1. m # n
    OBVIOUS
  <2>2. PICK d \in TxDelays :
          events' = Schedule(Without(events, Registrations(events, m)), d,
                             "DeregistrationRequest", m, nodeId[m])
    BY <1>13 DEF Deactivate
  <2>3. Steady(Without(events, Registrations(events, m)), latest, n)
    BY <1>1, <2>1, WithoutSteady DEF Registrations
  <2>4. Steady(events', latest, n)
    BY <2>1, <2>2, <2>3, ScheduleSteady
  <2>5. nodeActive'[n] = nodeActive[n]
    BY <1>0, <1>13, <2>1 DEF Deactivate
  <2> QED
    BY <1>13, <2>4, <2>5, SteadyNext DEF Deactivate, ricVars
<1> QED
  BY <1>2, <1>3, <1>4, <1>5, <1>6, <1>7, <1>8, <1>9, <1>10, <1>11, <1>12, <1>13 DEF Next

\* The rows of new IDs stay new; nothing is mapped before the RIC starts.
LEMMA FreshStep ==
  ASSUME OwnershipInv, FreshRows, Next,
         ~setup.ricStops, ricActive \/ \A i \in Id : terminator[i] = Null
  PROVE  FreshRows' /\ (ricActive' \/ \A i \in Id : terminator'[i] = Null)
<1>0. /\ setup \in Setups /\ latest \in [Id -> Row] /\ nextId \in Nat \ {0} /\ AgeCap \in Nat
      /\ terminator \in [Id -> Node \cup {Null}]
      /\ \A i \in Id : i = 0 \/ i >= nextId => terminator[i] = Null
      /\ \A e \in events : InTransit(e, terminator)
      /\ Id \subseteq Nat /\ Null \notin Node
  BY SetupTypes, SetupAssumption DEF OwnershipInv, Id
<1>. UNCHANGED <<setup, Id, Row, AgeCap>>
  BY SameSetup DEF Next, Tick, RegisterFires, ReceiveRegistrationRequest,
     ReceiveRegistrationResponse, ReceiveDeregistrationRequest,
     ReceiveDeregistrationResponse, CheckFires, QueryLms, StartRic, StopRic, Activate,
     Deactivate
<1>1. CASE Tick
  <2>1. \A i \in Id : latest'[i] = Older(latest[i]) /\ latest[i] \in Row
    BY <1>0, <1>1 DEF Tick
  <2>2. \A row \in Row : row.age = AgeCap => Older(row) = row
    BY <1>0 DEF Older, Row
  <2> QED
    BY <1>1, <2>1, <2>2 DEF Tick, FreshRows
<1>2. CASE ReceiveRegistrationRequest
  <2>1. PICK e \in events :
          /\ Fires(e, "RegistrationRequest")
          /\ IF ricActive
               THEN LET k == RegisterNode(e.id)
                    IN /\ k \in Id
                       /\ nextId' = IF k = nextId THEN nextId + 1 ELSE nextId
                       /\ latest' = [latest EXCEPT ![k] = Inserted(k, TRUE)]
                       /\ terminator' = [terminator EXCEPT ![k] = e.node]
               ELSE UNCHANGED ricVars
          /\ UNCHANGED ricActive
    BY <1>2 DEF ReceiveRegistrationRequest
  <2>2. e.node \in Node /\ (e.id # 0 => terminator[e.id] = e.node)
    BY <1>0, <2>1 DEF Fires, InTransit
  <2>3. CASE ricActive
    <3> DEFINE k == RegisterNode(e.id)
    <3>1. /\ k \in Id /\ latest' = [latest EXCEPT ![k] = Inserted(k, TRUE)]
          /\ nextId' = IF k = nextId THEN nextId + 1 ELSE nextId
      BY <2>1, <2>3
    <3>2. k = nextId \/ (k # 0 /\ terminator[k] # Null)
      BY <1>0, <2>2 DEF RegisterNode
    <3> HIDE DEF k
    <3>3. k < nextId' /\ nextId' >= nextId
      BY <1>0, <3>1, <3>2
    <3>4. \A i \in Id : i >= nextId' => i # k /\ i >= nextId
      BY <1>0, <3>1, <3>3
    <3>5. FreshRows'
      BY <1>0, <3>1, <3>4 DEF FreshRows
    <3> QED
      BY <2>1, <2>3, <3>5
  <2>4. CASE ~ricActive
    BY <2>1, <2>4 DEF ricVars, FreshRows
  <2> QED
    BY <2>3, <2>4
<1>3. CASE ReceiveDeregistrationRequest
  <2>1. PICK e \in events :
          /\ Fires(e, "DeregistrationRequest")
          /\ \/ latest' = [latest EXCEPT ![e.id] = Inserted(e.id, FALSE)]
             \/ UNCHANGED latest
          /\ UNCHANGED <<ricActive, nextId, terminator>>
    BY <1>3 DEF ReceiveDeregistrationRequest
  <2>2. e.node \in Node /\ (e.id # 0 => e.id \in Id /\ terminator[e.id] = e.node)
    BY <1>0, <2>1 DEF Fires, InTransit
  <2>3. ASSUME NEW i \in Id, i >= nextId
        PROVE  i # e.id
    <3>1. terminator[i] = Null /\ i # 0
      BY <1>0, <2>3
    <3> QED
      BY <1>0, <2>2, <3>1
  <2> QED
    BY <1>0, <2>1, <2>3 DEF FreshRows
<1>4. ASSUME NEW E, CheckForInactivity(E), UNCHANGED <<ricActive, nextId, terminator>>
      PROVE  FreshRows' /\ (ricActive' \/ \A i \in Id : terminator'[i] = Null)
  <2>a. PICK R \in Registered, c \in CheckIntervals : \E d : Checked(E, R, c, d)
    BY <1>4, CheckParts
  <2>1. PICK d : Checked(E, R, c, d)
    BY <2>a
  <2>2. \A i \in Id : i >= nextId => i \notin Silent(R)
    BY DEF FreshRows, Silent, Registered
  <2>3. \A i \in Id : i \notin Silent(R) => latest'[i] = latest[i]
    BY <2>1 DEF Checked
  <2> QED
    BY <1>4, <2>2, <2>3 DEF FreshRows
<1>5. CASE CheckFires
  BY <1>4, <1>5 DEF CheckFires
<1>6. CASE QueryLms
  BY <1>4, <1>6 DEF QueryLms
<1>7. CASE StopRic
  BY <1>7 DEF StopRic
<1>8. ASSUME UNCHANGED <<latest, nextId, terminator>>, ricActive' \/ UNCHANGED ricActive
      PROVE  FreshRows' /\ (ricActive' \/ \A i \in Id : terminator'[i] = Null)
  BY <1>8 DEF FreshRows
<1> QED
  BY <1>1, <1>2, <1>3, <1>5, <1>6, <1>7, <1>8 DEF Next, RegisterFires,
     ReceiveRegistrationResponse, ReceiveDeregistrationResponse, StartRic, Activate,
     Deactivate, ricVars

\* The timing depends on the set-up alone.
LEMMA SameTiming == UNCHANGED setup => (Timely' <=> Timely)
BY DEF Timely, Constant, TxDelays, RicDelays, RegIntervals, Threshold

LEMMA NextSetup == [Next]_vars => UNCHANGED setup
BY DEF Next, vars, Tick, RegisterFires, ReceiveRegistrationRequest,
   ReceiveRegistrationResponse, ReceiveDeregistrationRequest,
   ReceiveDeregistrationResponse, CheckFires, QueryLms, StartRic, StopRic, Activate,
   Deactivate

LEMMA SteadyStep == OwnershipInv /\ TypeInv /\ SteadyInv /\ [Next]_vars => SteadyInv'
<1> SUFFICES ASSUME OwnershipInv, TypeInv, SteadyInv, [Next]_vars, Timely
             PROVE  SteadyInv'
  BY NextSetup, SameTiming DEF SteadyInv
<1>1. UNCHANGED MayDeactivate
  BY NextSetup, SameSetup
<1>2. CASE Next
  <2>1. FreshRows' /\ (ricActive' \/ \A i \in Id : terminator'[i] = Null)
    BY <1>2, FreshStep DEF SteadyInv, Timely
  <2>2. \A n \in Node \ MayDeactivate : Steady(events, latest, n)'
    BY <1>2, SteadyNode
  <2>3. UNCHANGED Id
    BY NextSetup, SameSetup
  <2> QED
    BY <1>1, <2>1, <2>2, <2>3 DEF SteadyInv
<1>3. CASE UNCHANGED vars
  <2>1. UNCHANGED <<Id, Threshold, TxDelays, RicDelays, AgeCap>>
    BY NextSetup, SameSetup
  <2>2. \A n \in Node \ MayDeactivate : Steady(events, latest, n)'
    <3>1. ASSUME NEW n \in Node \ MayDeactivate
          PROVE  Steady(events, latest, n)'
      <4>1. Steady(events', latest', n)
        BY <1>3 DEF SteadyInv, vars, ricVars
      <4> QED
        BY <1>3, <2>1, <4>1, SteadyNext DEF vars, ricVars, nodeVars
    <3> QED
      BY <3>1
  <2> QED
    BY <1>1, <1>3, <2>1, <2>2 DEF SteadyInv, FreshRows, vars, ricVars
<1> QED
  BY <1>2, <1>3

\* The ID of a steady node changes only from 0.
LEMMA KeepsId ==
  ASSUME OwnershipInv, Next, NEW n \in Node \ MayDeactivate, Steady(events, latest, n),
         nodeId[n] # 0
  PROVE  nodeId'[n] = nodeId[n]
<1>0. /\ nodeId \in [Node -> Id] /\ n \in Node
      /\ \A e \in events : InTransit(e, terminator)
  BY DEF OwnershipInv
<1>1. CASE ReceiveRegistrationResponse
  <2>1. PICK e \in events :
          /\ Fires(e, "RegistrationResponse")
          /\ events' = Without(events, {e})
          /\ nodeId' = IF nodeActive[e.node] THEN [nodeId EXCEPT ![e.node] = e.id] ELSE nodeId
          /\ UNCHANGED <<setup, latest, terminator, nodeActive>>
    BY <1>1 DEF ReceiveRegistrationResponse, ricVars
  <2>2. CASE e.node # n
    BY <1>0, <2>1, <2>2
  <2>3. CASE e.node = n
    <3>1. e \in Answering(events, n)
      BY <2>1, <2>3 DEF Answering, Of, Fires
    <3> QED
      BY <2>1, <2>3, <3>1, ResponseSteady
  <2> QED
    BY <2>2, <2>3
<1>2. CASE ReceiveDeregistrationResponse
  <2>1. PICK e \in events :
          /\ Fires(e, "DeregistrationResponse")
          /\ IF e.node = Null THEN UNCHANGED nodeId ELSE nodeId' = Forgotten(e.node)
    BY <1>2 DEF ReceiveDeregistrationResponse
  <2>2. e.node # n
    BY <2>1 DEF Fires, Steady, Of
  <2> QED
    BY <1>0, <2>1, <2>2 DEF Forgotten
<1> QED
  BY <1>1, <1>2 DEF Next, Tick, RegisterFires, ReceiveRegistrationRequest,
     ReceiveDeregistrationRequest, CheckFires, QueryLms, StartRic, StopRic, Activate,
     Deactivate, nodeVars

\* With constant delays, a round trip shorter than the registration interval
\* and a threshold of at least that interval, a node that is never
\* deactivated keeps the ID it was given
\* (OranNearRtRicE2Terminator::ReceiveRegistrationRequest,
\* OranNearRtRic::CheckForInactivity).
THEOREM IdentitiesAreStable == Spec => StableIdentity
<1>1. Init => SteadyInv
  <2> SUFFICES ASSUME Init
               PROVE  SteadyInv
    OBVIOUS
  <2>1. \A n \in Node \ MayDeactivate : Steady(events, latest, n)
    BY SetupAssumption DEF Init, Steady, Unused, Of, Requests, Answering
  <2>2. FreshRows
    BY DEF Init, FreshRows
  <2> QED
    BY <2>1, <2>2 DEF Init, SteadyInv
<1>2. OwnershipInv /\ SteadyInv /\ [Next]_vars
        => [Timely => \A n \in Node \ MayDeactivate :
                        nodeId[n] # 0 => nodeId'[n] = nodeId[n]]_vars
  BY KeepsId DEF SteadyInv
<1> QED
  BY <1>1, <1>2, SteadyStep, RegistrationAlways, PTL DEF Spec, StableIdentity
=============================================================================
