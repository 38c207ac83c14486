------------------------- MODULE LmQueryCycleProofs -------------------------
(***************************************************************************)
(* Theorems about LmQueryCycle, for any set of LMs, any timing and any     *)
(* late command policy: commands are handed over in order and once, no     *)
(* answer meets another cycle, nothing collected waits too long, a full    *)
(* set is really full, and the documented cycle is implemented.            *)
(***************************************************************************)
EXTENDS LmQueryCycle, FiniteSetTheorems, TLAPS

LEMMA SetupTypes ==
  ASSUME TypeOK
  PROVE  /\ Interval \in Nat \ {0} /\ MaxWait \in Nat /\ Delays \subseteq Nat
         /\ LatePolicy \in {"DROP", "SAVE"} /\ setup.lms \subseteq LM
         /\ setup.additional \subseteq LM \ {FirstDefault}
         /\ {setup.triggers, setup.restarts, setup.redeploys} \subseteq BOOLEAN
BY SetupAssumption DEF TypeOK, Interval, MaxWait, Delays, LatePolicy

LEMMA SameSetup == UNCHANGED setup => UNCHANGED <<Interval, MaxWait, Delays, LatePolicy, Punctual>>
BY DEF Interval, MaxWait, Delays, LatePolicy, Punctual

(***************************************************************************)
(* Type correctness.                                                       *)
(***************************************************************************)

\* Every query leaves the state well typed.
LEMMA QueryLmsType ==
  ASSUME TypeOK, UNCHANGED setup, NEW d \in [LM -> Delays], QueryLms(d)
  PROVE  TypeOK'
<1> USE SetupTypes DEF TypeOK, QueryLms, ScheduleDeadline
<1>1. finish' \in [LM -> SUBSET Nat]
  <2>1. ASSUME NEW l \in LM
        PROVE  {now + d[l]} \in SUBSET Nat
    <3>1. d[l] \in Nat /\ now \in Nat
      OBVIOUS
    <3>2. now + d[l] \in Nat
      BY <3>1
    <3> QED
      BY <3>2
  <2> QED
    BY <2>1
<1>2. runCycle' \in [LM -> Nat]
  OBVIOUS
<1>3. ASSUME NEW l \in LM
      PROVE  {[lm |-> l, query |-> queries + 1, cycle |-> now]} \subseteq Batch
  BY DEF Batch
<1>4. held' \in [LM -> SUBSET Batch]
  BY <1>3
<1>5. /\ now' \in Nat /\ aborted' \in BOOLEAN /\ active' \in BOOLEAN
      /\ default' \in LM /\ additional' \subseteq LM
      /\ queryEvent' \subseteq Nat /\ cycle' \in Nat
      /\ queries' \in Nat /\ sent' \subseteq Batch /\ lmActive' \in [LM -> BOOLEAN]
  OBVIOUS
<1>6. deadline' \subseteq Nat /\ orphans' \subseteq Nat
  <2>1. now + MaxWait \in Nat
    OBVIOUS
  <2> QED
    BY <2>1
<1>7. /\ reported' \subseteq Key
      /\ collected' \in [Key -> SUBSET Batch]
      /\ \A k \in Key \ reported' : collected'[k] = {}
  OBVIOUS
<1> QED
  BY <1>1, <1>2, <1>4, <1>5, <1>6, <1>7

\* Handing over commands, or keeping them in an inactive RIC, leaves the
\* collected commands well typed.
LEMMA ProcessType ==
  ASSUME TypeOK, NEW r \in SUBSET Key, NEW c \in [Key -> SUBSET Batch],
         \A k \in Key \ r : c[k] = {},
         ProcessLmQueryCommands(r, c)
  PROVE  /\ deadline' \subseteq Nat
         /\ reported' \subseteq Key
         /\ collected' \in [Key -> SUBSET Batch]
         /\ \A k \in Key \ reported' : collected'[k] = {}
         /\ sent' \subseteq Batch
<1>1. AllCollected(c) \subseteq Batch
  BY DEF AllCollected
<1>2. NothingCollected \in [Key -> SUBSET Batch]
  BY DEF NothingCollected
<1>3. \A k \in Key : NothingCollected[k] = {}
  BY DEF NothingCollected
<1> QED
  BY <1>1, <1>2, <1>3 DEF TypeOK, ProcessLmQueryCommands, ClearCommands

\* An answer leaves the collected commands well typed.
LEMMA NotifyType ==
  ASSUME TypeOK, NEW l \in LM, NotifyLmFinished(l)
  PROVE  /\ aborted' \in BOOLEAN
         /\ deadline' \subseteq Nat
         /\ reported' \subseteq Key
         /\ collected' \in [Key -> SUBSET Batch]
         /\ \A k \in Key \ reported' : collected'[k] = {}
         /\ sent' \subseteq Batch
<1> DEFINE kept == Accepting \/ LatePolicy = "SAVE"
           r == IF kept THEN reported \cup {KeyOf(l)} ELSE reported
           c == [collected EXCEPT ![KeyOf(l)] = IF kept THEN held[l] ELSE {}]
<1>1. KeyOf(l) \in Key
  BY DEF KeyOf, Key
<1>2. r \subseteq Key
  BY <1>1 DEF TypeOK
<1>3. c \in [Key -> SUBSET Batch]
  BY <1>1 DEF TypeOK
<1>4. \A k \in Key \ r : c[k] = {}
  BY <1>1 DEF TypeOK
<1>5. CASE runCycle[l] # cycle /\ aborted' = TRUE /\ UNCHANGED collectVars
  BY <1>5 DEF TypeOK, collectVars
<1> HIDE DEF r, c
<1>6. CASE ProcessLmQueryCommands(r, c) /\ UNCHANGED aborted
  <2>1. aborted' \in BOOLEAN
    BY <1>6 DEF TypeOK
  <2> QED
    BY <1>2, <1>3, <1>4, <1>6, <2>1, ProcessType
<1>7. CASE /\ reported' = r /\ collected' = c
           /\ UNCHANGED <<aborted, deadline, sent>>
  BY <1>2, <1>3, <1>4, <1>7 DEF TypeOK
<1> QED
  BY <1>5, <1>6, <1>7 DEF NotifyLmFinished, r, c

\* Every variable of the query cycle keeps its type, in every environment.
THEOREM TypeCorrect == Spec => []TypeOK
<1>1. Init => TypeOK
  <2> SUFFICES ASSUME Init PROVE TypeOK
    OBVIOUS
  <2> QED
    BY SetupAssumption DEF Init, TypeOK, NothingCollected
<1>2. TypeOK /\ [Next]_vars => TypeOK'
  <2> SUFFICES ASSUME TypeOK, [Next]_vars
               PROVE  TypeOK'
    OBVIOUS
  <2> USE DEF ricVars, collectVars, lmVars
  <2>. UNCHANGED setup
    BY DEF Next, vars
  <2>1. CASE Tick
    BY <2>1 DEF TypeOK, Tick
  <2>2. CASE Start
    BY <2>2, SetupTypes DEF TypeOK, Start, ActivateComponents
  <2>3. CASE QueryTimerFires
    <3>1. CASE \E d \in [LM -> Delays] : QueryLms(d)
      BY <3>1, QueryLmsType
    <3>2. CASE queryEvent' = {} /\ ~(\E d \in [LM -> Delays] : QueryLms(d))
      BY <2>3, <3>2 DEF TypeOK, QueryTimerFires
    <3> QED
      BY <2>3, <3>1, <3>2 DEF QueryTimerFires
  <2>4. CASE DeadlineExpires
    <3>1. CASE active
      <4>1. ProcessLmQueryCommands(reported, collected)
        BY <2>4, <3>1 DEF DeadlineExpires
      <4>2. reported \in SUBSET Key /\ collected \in [Key -> SUBSET Batch]
            /\ \A k \in Key \ reported : collected[k] = {}
        BY DEF TypeOK
      <4>3. /\ deadline' \subseteq Nat
            /\ reported' \subseteq Key
            /\ collected' \in [Key -> SUBSET Batch]
            /\ \A k \in Key \ reported' : collected'[k] = {}
            /\ sent' \subseteq Batch
        BY <4>1, <4>2, ProcessType
      <4> QED
        BY <2>4, <4>3 DEF TypeOK, DeadlineExpires
    <3>2. CASE ~active
      BY <2>4, <3>2 DEF TypeOK, DeadlineExpires
    <3> QED
      BY <3>1, <3>2
  <2>5. CASE OrphanDeadlineExpires
    <3>1. ProcessLmQueryCommands(reported, collected)
      BY <2>5 DEF OrphanDeadlineExpires
    <3>2. reported \in SUBSET Key /\ collected \in [Key -> SUBSET Batch]
          /\ \A k \in Key \ reported : collected[k] = {}
      BY DEF TypeOK
    <3>3. /\ deadline' \subseteq Nat
          /\ reported' \subseteq Key
          /\ collected' \in [Key -> SUBSET Batch]
          /\ \A k \in Key \ reported' : collected'[k] = {}
          /\ sent' \subseteq Batch
      BY <3>1, <3>2, ProcessType
    <3> QED
      BY <2>5, <3>3 DEF TypeOK, OrphanDeadlineExpires
  <2>6. ASSUME NEW l \in LM, FinishRun(l) PROVE TypeOK'
    <3>1. CASE lmActive[l]
      <4>1. NotifyLmFinished(l) /\ held' = [held EXCEPT ![l] = {}]
        BY <2>6, <3>1 DEF FinishRun
      <4>2. /\ aborted' \in BOOLEAN
            /\ deadline' \subseteq Nat
            /\ reported' \subseteq Key
            /\ collected' \in [Key -> SUBSET Batch]
            /\ \A k \in Key \ reported' : collected'[k] = {}
            /\ sent' \subseteq Batch
        BY <4>1, NotifyType
      <4> QED
        BY <2>6, <4>1, <4>2 DEF TypeOK, FinishRun
    <3>2. CASE ~lmActive[l]
      BY <2>6, <3>2 DEF TypeOK, FinishRun
    <3> QED
      BY <3>1, <3>2
  <2>7. CASE NotifyReportReceived
    BY <2>7, QueryLmsType DEF NotifyReportReceived
  <2>8. CASE Stop
    BY <2>8 DEF TypeOK, Stop, DeactivateComponents
  <2>9. CASE Activate \/ Deactivate
    BY <2>9 DEF TypeOK, Activate, Deactivate, ActivateComponents,
                DeactivateComponents
  <2>10. ASSUME NEW l \in LM, AddLogicModule(l) PROVE TypeOK'
    BY <2>10 DEF TypeOK, AddLogicModule, MayBeActivated
  <2>11. ASSUME NEW l \in LM, RemoveLogicModule(l) PROVE TypeOK'
    BY <2>11 DEF TypeOK, RemoveLogicModule
  <2>12. ASSUME NEW l \in LM, SetDefaultLogicModule(l) PROVE TypeOK'
    BY <2>12 DEF TypeOK, SetDefaultLogicModule, MayBeActivated
  <2>13. CASE UNCHANGED vars
    BY <2>13 DEF TypeOK, vars
  <2> QED
    BY <2>1, <2>2, <2>3, <2>4, <2>5, <2>6, <2>7, <2>8, <2>9, <2>10, <2>11,
       <2>12, <2>13, SetupTypes DEF Next
<1> QED
  BY <1>1, <1>2, PTL DEF Spec
-----------------------------------------------------------------------------
(***************************************************************************)
(* Commands of one LM never overtake each other.                           *)
(***************************************************************************)

\* An answer adds nothing but the LM's own batch, and either hands nothing
\* over or leaves nothing collected.
LEMMA NotifyEffect ==
  ASSUME TypeOK, NEW l \in LM, NotifyLmFinished(l)
  PROVE  /\ AllCollected(collected') \subseteq AllCollected(collected) \cup held[l]
         /\ \/ sent' = sent
            \/ /\ AllCollected(collected') = {}
               /\ sent' \subseteq sent \cup AllCollected(collected) \cup held[l]
<1> DEFINE kept == Accepting \/ LatePolicy = "SAVE"
           r == IF kept THEN reported \cup {KeyOf(l)} ELSE reported
           c == [collected EXCEPT ![KeyOf(l)] = IF kept THEN held[l] ELSE {}]
<1>1. AllCollected(c) \subseteq AllCollected(collected) \cup held[l]
  BY DEF AllCollected, TypeOK
<1>2. AllCollected(NothingCollected) = {}
  BY DEF AllCollected, NothingCollected
<1>3. CASE runCycle[l] # cycle /\ aborted' = TRUE /\ UNCHANGED collectVars
  BY <1>3 DEF collectVars
<1> HIDE DEF r, c
<1>4. CASE ProcessLmQueryCommands(r, c) /\ UNCHANGED aborted
  BY <1>1, <1>2, <1>4 DEF ProcessLmQueryCommands, ClearCommands
<1>5. CASE /\ reported' = r /\ collected' = c
           /\ UNCHANGED <<aborted, deadline, sent>>
  BY <1>1, <1>5
<1> QED
  BY <1>3, <1>4, <1>5 DEF NotifyLmFinished, r, c

\* A hand-over of everything collected keeps the order.
LEMMA ProcessOrder ==
  ASSUME TypeOK, OvertakeInv,
         ProcessLmQueryCommands(reported, collected),
         UNCHANGED <<held, finish, queries>>
  PROVE  OvertakeInv'
<1>1. AllCollected(NothingCollected) = {}
  BY DEF AllCollected, NothingCollected
<1>2. CASE active
  <2>1. sent' = sent \cup AllCollected(collected) /\ AllCollected(collected') = {}
    BY <1>1, <1>2 DEF ProcessLmQueryCommands, ClearCommands
  <2> QED
    BY <2>1 DEF OvertakeInv, NeverOvertaken, InFlight
<1>3. CASE ~active
  BY <1>3 DEF ProcessLmQueryCommands, OvertakeInv, NeverOvertaken, InFlight
<1> QED
  BY <1>2, <1>3

\* A step that touches neither the runs nor the collected commands.
LEMMA QuietStep ==
  ASSUME OvertakeInv, UNCHANGED <<held, finish, collected, sent, queries>>
  PROVE  OvertakeInv'
BY DEF OvertakeInv, NeverOvertaken, InFlight

\* A query gives every run a batch later than all before.
LEMMA QueryOrder ==
  ASSUME TypeOK, OvertakeInv, NEW d \in [LM -> Delays], QueryLms(d)
  PROVE  OvertakeInv'
<1>1. queries \in Nat /\ queries' = queries + 1
      /\ collected' = collected /\ sent' = sent
  BY DEF TypeOK, QueryLms
<1>2. \A b \in sent \cup AllCollected(collected) : b.query \in Nat
  BY DEF TypeOK, AllCollected, Batch
<1>3. \A l \in LM : \A b \in held[l] : b.query \in Nat
  BY DEF TypeOK, Batch
<1>4. \A l \in LM :
        \/ /\ held'[l] = {[lm |-> l, query |-> queries + 1, cycle |-> now]}
        \/ /\ held'[l] = held[l]
           /\ finish'[l] = finish[l]
  BY DEF QueryLms, TypeOK
<1>5. \A l \in LM : \A b \in held'[l] : b.lm = l /\ b.query <= queries'
  BY <1>1, <1>3, <1>4 DEF OvertakeInv
<1>6. \A b \in sent' \cup AllCollected(collected') : b.query <= queries'
  BY <1>1, <1>2 DEF OvertakeInv
<1>7. \A l \in LM : \A c \in InFlight(l)' :
        \A b \in sent' \cup AllCollected(collected') :
           b.lm = c.lm => b.query < c.query
  BY <1>1, <1>2, <1>4 DEF OvertakeInv, NeverOvertaken, InFlight
<1>8. \A b \in sent', c \in AllCollected(collected') :
        b.lm = c.lm => b.query < c.query
  BY <1>1 DEF OvertakeInv, NeverOvertaken
<1> QED
  BY <1>5, <1>6, <1>7, <1>8 DEF OvertakeInv, NeverOvertaken

\* The end of a run moves its batch behind all earlier ones of the LM.
LEMMA FinishOrder ==
  ASSUME TypeOK, OvertakeInv, NEW l \in LM, FinishRun(l)
  PROVE  OvertakeInv'
<1>1. finish' = [finish EXCEPT ![l] = {}] /\ finish[l] # {}
      /\ queries' = queries
  BY DEF FinishRun
<1>2. InFlight(l) = held[l] /\ InFlight(l)' = {}
  BY <1>1 DEF InFlight, TypeOK
<1>3. \A m \in LM : held'[m] \subseteq held[m]
  BY DEF FinishRun, TypeOK
<1>4. \A m \in LM : InFlight(m)' \subseteq InFlight(m)
  BY <1>1, <1>2, <1>3 DEF InFlight, TypeOK
<1>5. /\ AllCollected(collected') \subseteq AllCollected(collected) \cup held[l]
      /\ \/ sent' = sent
         \/ /\ AllCollected(collected') = {}
            /\ sent' \subseteq sent \cup AllCollected(collected) \cup held[l]
  <2>1. CASE lmActive[l]
    BY <2>1, NotifyEffect DEF FinishRun
  <2>2. CASE ~lmActive[l]
    BY <2>2 DEF FinishRun, collectVars
  <2> QED
    BY <2>1, <2>2
<1>6. \A m \in LM : \A b \in held'[m] : b.lm = m /\ b.query <= queries'
  BY <1>1, <1>3 DEF OvertakeInv
<1>7. \A b \in sent' \cup AllCollected(collected') : b.query <= queries'
  BY <1>1, <1>5 DEF OvertakeInv
<1>8. \A b \in sent', c \in AllCollected(collected') :
        b.lm = c.lm => b.query < c.query
  BY <1>2, <1>5 DEF OvertakeInv, NeverOvertaken
<1>9. \A m \in LM : \A c \in InFlight(m)' :
        \A b \in sent' \cup AllCollected(collected') :
           b.lm = c.lm => b.query < c.query
  <2> SUFFICES ASSUME NEW m \in LM, NEW c \in InFlight(m)',
                      NEW b \in sent' \cup AllCollected(collected'),
                      b.lm = c.lm
               PROVE  b.query < c.query
    OBVIOUS
  <2>1. c \in InFlight(m) /\ m # l
    BY <1>2, <1>4
  <2>2. c.lm = m
    BY <2>1 DEF InFlight, OvertakeInv
  <2>3. b \in sent \cup AllCollected(collected) \cup held[l]
    BY <1>5
  <2>4. b \notin held[l]
    BY <2>1, <2>2 DEF OvertakeInv
  <2> QED
    BY <2>1, <2>3, <2>4 DEF OvertakeInv, NeverOvertaken
<1> QED
  BY <1>6, <1>7, <1>8, <1>9 DEF OvertakeInv, NeverOvertaken

LEMMA OvertakeAlways == Spec => []OvertakeInv
<1>1. Init => OvertakeInv
  BY DEF Init, OvertakeInv, NeverOvertaken, InFlight, AllCollected,
         NothingCollected
<1>2. TypeOK /\ OvertakeInv /\ [Next]_vars => OvertakeInv'
  <2> SUFFICES ASSUME TypeOK, OvertakeInv, [Next]_vars
               PROVE  OvertakeInv'
    OBVIOUS
  <2> USE DEF ricVars, collectVars, lmVars
  <2>1. CASE Tick \/ Start
    BY <2>1, QuietStep DEF Tick, Start
  <2>2. CASE QueryTimerFires
    <3>1. CASE \E d \in [LM -> Delays] : QueryLms(d)
      BY <3>1, QueryOrder
    <3>2. CASE ~(\E d \in [LM -> Delays] : QueryLms(d))
      BY <2>2, <3>2, QuietStep DEF QueryTimerFires
    <3> QED
      BY <3>1, <3>2
  <2>3. CASE DeadlineExpires
    <3>1. CASE active
      BY <2>3, <3>1, ProcessOrder DEF DeadlineExpires
    <3>2. CASE ~active
      BY <2>3, <3>2, QuietStep DEF DeadlineExpires
    <3> QED
      BY <3>1, <3>2
  <2>4. CASE OrphanDeadlineExpires
    BY <2>4, ProcessOrder DEF OrphanDeadlineExpires
  <2>5. ASSUME NEW l \in LM, FinishRun(l) PROVE OvertakeInv'
    BY <2>5, FinishOrder
  <2>6. CASE NotifyReportReceived
    BY <2>6, QueryOrder DEF NotifyReportReceived
  <2>7. CASE Stop \/ Activate \/ Deactivate
    BY <2>7, QuietStep DEF Stop, Activate, Deactivate
  <2>8. ASSUME NEW l \in LM,
               AddLogicModule(l) \/ RemoveLogicModule(l) \/ SetDefaultLogicModule(l)
        PROVE  OvertakeInv'
    BY <2>8, QuietStep
       DEF AddLogicModule, RemoveLogicModule, SetDefaultLogicModule
  <2>9. CASE UNCHANGED vars
    BY <2>9, QuietStep DEF vars
  <2> QED
    BY <2>1, <2>2, <2>3, <2>4, <2>5, <2>6, <2>7, <2>8, <2>9,
       SetupTypes DEF Next
<1> QED
  BY <1>1, <1>2, TypeCorrect, PTL DEF Spec

\* Whatever is queried, stopped, restarted or redeployed, the commands of one
\* LM are handed over in the order of its runs, each at most once.
THEOREM CommandsNeverOvertaken == Spec => []NeverOvertaken
<1>1. OvertakeInv => NeverOvertaken
  BY DEF OvertakeInv
<1> QED
  BY <1>1, OvertakeAlways, PTL

-----------------------------------------------------------------------------
(***************************************************************************)
(* With a fixed deployment no answer arrives for an unexpected cycle.      *)
(***************************************************************************)

\* A query reruns every LM whose run is in progress.
LEMMA QueryStatic ==
  ASSUME TypeOK, StaticInv, NEW d \in [LM -> Delays], QueryLms(d)
  PROVE  StaticInv'
<1>1. Deployed' = Deployed /\ Queried = Deployed
  BY DEF QueryLms, Queried, StaticInv, Deployed
<1>2. \A l \in LM : l \in Deployed => runCycle'[l] = now
  BY <1>1 DEF QueryLms
<1>3. \A l \in LM : finish'[l] # {} => l \in Deployed
  BY <1>1 DEF QueryLms, StaticInv
<1> QED
  BY <1>1, <1>2, <1>3 DEF StaticInv, QueryLms

\* The end of a run that belongs to the current cycle does not abort.
LEMMA FinishStatic ==
  ASSUME TypeOK, StaticInv, NEW l \in LM, FinishRun(l)
  PROVE  StaticInv'
<1>1. runCycle[l] = cycle
  BY DEF FinishRun, StaticInv
<1>2. ~aborted'
  BY <1>1 DEF FinishRun, NotifyLmFinished, StaticInv
<1>3. \A m \in LM : finish'[m] # {} => finish[m] # {}
  BY DEF FinishRun, TypeOK
<1>4. UNCHANGED <<active, default, additional, cycle, lmActive, runCycle>>
  BY DEF FinishRun, ricVars
<1> QED
  BY <1>2, <1>3, <1>4 DEF StaticInv, Deployed

\* Starting, stopping, activating and deactivating keep the deployed LMs in
\* step with the RIC.
LEMMA SwitchStatic ==
  ASSUME TypeOK, StaticInv, Start \/ Stop \/ Activate \/ Deactivate
  PROVE  StaticInv'
<1>1. UNCHANGED <<aborted, default, additional, cycle, finish, runCycle>>
  BY DEF Start, Stop, Activate, Deactivate
<1>2. ActivateComponents \/ DeactivateComponents
  BY DEF Start, Stop, Activate, Deactivate
<1>3. Deployed \subseteq LM
  BY DEF TypeOK, Deployed
<1>4. \A l \in Deployed : lmActive'[l] = active'
  <2>1. CASE ActivateComponents
    BY <1>3, <2>1 DEF ActivateComponents, StaticInv, TypeOK
  <2>2. CASE DeactivateComponents
    BY <1>3, <2>2 DEF DeactivateComponents, StaticInv, TypeOK
  <2> QED
    BY <1>2, <2>1, <2>2
<1> QED
  BY <1>1, <1>4 DEF StaticInv, Deployed

LEMMA StaticStep == TypeOK /\ ~setup.redeploys /\ StaticInv /\ [Next]_vars => StaticInv'
<1> SUFFICES ASSUME TypeOK, ~setup.redeploys, StaticInv, [Next]_vars
             PROVE  StaticInv'
  OBVIOUS
<1> USE DEF ricVars, collectVars, lmVars
<1>1. CASE Tick
  BY <1>1 DEF Tick, StaticInv, Deployed
<1>2. CASE Start \/ Stop \/ Activate \/ Deactivate
  BY <1>2, SwitchStatic
<1>3. CASE QueryTimerFires
  <2>1. CASE \E d \in [LM -> Delays] : QueryLms(d)
    BY <2>1, QueryStatic
  <2>2. CASE ~(\E d \in [LM -> Delays] : QueryLms(d))
    BY <1>3, <2>2 DEF QueryTimerFires, StaticInv, Deployed
  <2> QED
    BY <2>1, <2>2
<1>4. CASE DeadlineExpires \/ OrphanDeadlineExpires
  BY <1>4 DEF DeadlineExpires, OrphanDeadlineExpires, StaticInv, Deployed
<1>5. ASSUME NEW l \in LM, FinishRun(l) PROVE StaticInv'
  BY <1>5, FinishStatic
<1>6. CASE NotifyReportReceived
  BY <1>6, QueryStatic DEF NotifyReportReceived
<1>7. CASE UNCHANGED vars
  BY <1>7 DEF vars, StaticInv, Deployed
<1> QED
  BY <1>1, <1>2, <1>3, <1>4, <1>5, <1>6, <1>7 DEF Next

LEMMA StaticInit == Init => StaticInv
<1> SUFFICES ASSUME Init PROVE StaticInv
  OBVIOUS
<1>1. \A l \in LM : finish[l] = {}
  BY DEF Init
<1>2. \A l \in Deployed : lmActive[l] = FALSE
  BY SetupAssumption DEF Init, Deployed
<1> QED
  BY <1>1, <1>2 DEF Init, StaticInv

\* With a fixed deployment StaticInv is inductive.
FixedInv == ~setup.redeploys => StaticInv

LEMMA FixedAlways == Spec => []FixedInv
<1>1. Init => FixedInv
  BY StaticInit DEF FixedInv
<1>2. TypeOK /\ FixedInv /\ [Next]_vars => FixedInv'
  <2>1. [Next]_vars => UNCHANGED setup
    BY DEF Next, vars
  <2> QED
    BY <2>1, StaticStep DEF FixedInv
<1> QED
  BY <1>1, <1>2, TypeCorrect, PTL DEF Spec

\* While the deployed LMs stay the same, NotifyLmFinished never meets an
\* unexpected cycle, whatever triggers, stops and restarts happen.
THEOREM NeverAborts == Spec => []NoAbortIfDeploymentIsFixed
<1>1. FixedInv => NoAbortIfDeploymentIsFixed
  BY DEF FixedInv, StaticInv, NoAbortIfDeploymentIsFixed
<1> QED
  BY <1>1, FixedAlways, PTL

-----------------------------------------------------------------------------
(***************************************************************************)
(* No collected command waits longer than the wait time.                   *)
(***************************************************************************)

\* A query keeps the deadlines of earlier ones in the event list.
LEMMA QueryPrompt ==
  ASSUME Punctual, UNCHANGED setup, TypeOK, PromptInv, StaticInv',
         NEW d \in [LM -> Delays], QueryLms(d)
  PROVE  PromptInv'
<1>1. /\ deadline' = {now + MaxWait} /\ orphans' = orphans \cup deadline
      /\ now' = now /\ cycle' = now /\ active' /\ collected' = collected
  BY SetupTypes DEF QueryLms, ScheduleDeadline, Punctual
<1>. UNCHANGED MaxWait
  BY SameSetup
<1>2. \A t \in deadline' \cup orphans' : now' <= t /\ active'
  BY <1>1, SetupTypes DEF PromptInv, TypeOK
<1>3. \A b \in AllCollected(collected') : b.cycle + MaxWait \in deadline' \cup orphans'
  BY <1>1 DEF PromptInv
<1>4. \A l \in LM : \A b \in InFlight(l)' : b.cycle = runCycle'[l]
  <2> SUFFICES ASSUME NEW l \in LM, NEW b \in InFlight(l)'
               PROVE  b.cycle = runCycle'[l]
    OBVIOUS
  <2>1. CASE l \in Queried
    BY <2>1 DEF QueryLms, InFlight
  <2>2. CASE l \notin Queried
    BY <2>2 DEF QueryLms, InFlight, PromptInv
  <2> QED
    BY <2>1, <2>2
<1> QED
  BY <1>1, <1>2, <1>3, <1>4 DEF PromptInv

\* A hand-over by a deadline leaves nothing waiting.
LEMMA DeadlinePrompt ==
  ASSUME TypeOK, UNCHANGED setup, PromptInv, StaticInv',
         DeadlineExpires \/ OrphanDeadlineExpires
  PROVE  PromptInv'
<1>1. active
  BY DEF DeadlineExpires, OrphanDeadlineExpires, PromptInv
<1>2. AllCollected(NothingCollected) = {}
  BY DEF AllCollected, NothingCollected
<1>3. AllCollected(collected') = {} /\ deadline' = {}
  BY <1>1, <1>2 DEF DeadlineExpires, OrphanDeadlineExpires,
                    ProcessLmQueryCommands, ClearCommands
<1>4. orphans' \subseteq orphans /\ UNCHANGED <<now, active, finish, held, runCycle>>
  BY DEF DeadlineExpires, OrphanDeadlineExpires, ricVars, lmVars
<1> QED
  BY <1>3, <1>4, SameSetup DEF PromptInv, InFlight

\* With late commands dropped, an answer is collected only while the
\* deadline of its own query is pending.
LEMMA FinishPrompt ==
  ASSUME Punctual, UNCHANGED setup, TypeOK, PromptInv, StaticInv',
         NEW l \in LM, FinishRun(l)
  PROVE  PromptInv'
<1>1. /\ finish[l] # {} /\ runCycle[l] = cycle
      /\ finish' = [finish EXCEPT ![l] = {}]
      /\ UNCHANGED <<now, active, cycle, orphans, runCycle>>
  BY DEF FinishRun, PromptInv, StaticInv, ricVars
<1>2. \A m \in LM : InFlight(m)' \subseteq InFlight(m)
  BY <1>1 DEF FinishRun, InFlight, TypeOK
<1>3. \A b \in held[l] : b.cycle = cycle
  BY <1>1 DEF PromptInv, InFlight
<1>4. \/ AllCollected(collected') = {} /\ deadline' = {}
      \/ /\ deadline' = deadline
         /\ \/ AllCollected(collected') \subseteq AllCollected(collected)
            \/ /\ deadline # {}
               /\ AllCollected(collected') \subseteq AllCollected(collected) \cup held[l]
  <2>1. CASE ~lmActive[l]
    BY <2>1 DEF FinishRun, collectVars
  <2>2. CASE lmActive[l]
    <3> DEFINE r == IF Accepting THEN reported \cup {KeyOf(l)} ELSE reported
               c == [collected EXCEPT ![KeyOf(l)] = IF Accepting THEN held[l] ELSE {}]
    <3>1. \/ ProcessLmQueryCommands(r, c)
          \/ collected' = c /\ deadline' = deadline
      BY <1>1, <2>2 DEF FinishRun, NotifyLmFinished, Punctual
    <3>2. AllCollected(c) \subseteq AllCollected(collected) \cup
                                   (IF Accepting THEN held[l] ELSE {})
      BY DEF AllCollected, TypeOK
    <3>3. Accepting => deadline # {}
      BY DEF Accepting, Punctual
    <3>4. AllCollected(NothingCollected) = {}
      BY DEF AllCollected, NothingCollected
    <3> HIDE DEF r, c
    <3>5. CASE ProcessLmQueryCommands(r, c)
      BY <3>2, <3>3, <3>4, <3>5 DEF ProcessLmQueryCommands, ClearCommands
    <3>6. CASE collected' = c /\ deadline' = deadline
      BY <3>2, <3>3, <3>6
    <3> QED
      BY <3>1, <3>5, <3>6
  <2> QED
    BY <2>1, <2>2
<1>5. \A b \in AllCollected(collected') : b.cycle + MaxWait \in deadline' \cup orphans'
  BY <1>1, <1>3, <1>4, SameSetup DEF PromptInv
<1>6. deadline' \subseteq deadline
  BY <1>4
<1> QED
  BY <1>1, <1>2, <1>5, <1>6, SameSetup DEF PromptInv

\* Time passes no deadline that is in the event list.
LEMMA TickPrompt ==
  ASSUME TypeOK, UNCHANGED setup, PromptInv, StaticInv', Tick
  PROVE  PromptInv'
<1>1. now \notin deadline \cup orphans
  BY DEF Tick, Due
<1>2. \A t \in deadline \cup orphans : now + 1 <= t
  BY <1>1 DEF PromptInv, TypeOK
<1> QED
  BY <1>2, SameSetup DEF PromptInv, Tick, InFlight, ricVars, collectVars, lmVars

\* In a punctual RIC PromptInv is inductive.
LEMMA PromptStep == TypeOK /\ Punctual /\ PromptInv /\ [Next]_vars => PromptInv'
<1> SUFFICES ASSUME TypeOK, Punctual, PromptInv, [Next]_vars
             PROVE  PromptInv'
  OBVIOUS
<1>. UNCHANGED setup
  BY DEF Next, vars
<1>1. ~setup.restarts /\ ~setup.redeploys
  BY DEF Punctual
<1>2. StaticInv'
  BY <1>1, StaticStep DEF PromptInv
<1>3. CASE Tick
  BY <1>2, <1>3, TickPrompt
<1>4. CASE Start
  BY <1>2, <1>4, SameSetup DEF Start, ActivateComponents, PromptInv, InFlight, collectVars
<1>5. CASE QueryTimerFires
  <2>1. CASE \E d \in [LM -> Delays] : QueryLms(d)
    BY <1>2, <2>1, QueryPrompt
  <2>2. CASE ~(\E d \in [LM -> Delays] : QueryLms(d))
    BY <1>2, <1>5, <2>2, SameSetup
       DEF QueryTimerFires, PromptInv, InFlight, collectVars, lmVars
  <2> QED
    BY <2>1, <2>2
<1>6. CASE DeadlineExpires \/ OrphanDeadlineExpires
  BY <1>2, <1>6, DeadlinePrompt
<1>7. ASSUME NEW l \in LM, FinishRun(l) PROVE PromptInv'
  BY <1>2, <1>7, FinishPrompt
<1>8. CASE NotifyReportReceived
  BY <1>2, <1>8, QueryPrompt DEF NotifyReportReceived
<1>9. CASE UNCHANGED vars
  BY <1>2, <1>9, SameSetup DEF vars, PromptInv, InFlight, ricVars, collectVars, lmVars
<1> QED
  BY <1>1, <1>3, <1>4, <1>5, <1>6, <1>7, <1>8, <1>9 DEF Next

PunctualInv == Punctual => PromptInv

LEMMA PunctualAlways == Spec => []PunctualInv
<1>1. Init => PunctualInv
  BY StaticInit DEF Init, PunctualInv, PromptInv, InFlight, AllCollected, NothingCollected
<1>2. TypeOK /\ PunctualInv /\ [Next]_vars => PunctualInv'
  <2>1. [Next]_vars => UNCHANGED setup
    BY DEF Next, vars
  <2> QED
    BY <2>1, PromptStep, SameSetup DEF PunctualInv
<1> QED
  BY <1>1, <1>2, TypeCorrect, PTL DEF Spec

\* With a wait time, and late commands dropped, no collected command waits
\* longer than the wait time after its query, however often reports trigger
\* further queries.
THEOREM CollectedHandedOverInTime == Spec => []PromptWithWaitTime
<1>1. PunctualInv => PromptWithWaitTime
  BY DEF PunctualInv, PromptInv, PromptWithWaitTime, PromptHandover
<1> QED
  BY <1>1, PunctualAlways, PTL

-----------------------------------------------------------------------------
(***************************************************************************)
(* Counting answers.                                                       *)
(***************************************************************************)

\* The keys of answers that the deployed LMs can give.
Keys == {KeyOf(l) : l \in Deployed}

\* With a fixed deployment, answers are kept under the key of their LM, and
\* a run in progress has a batch to report.
CountInv ==
  /\ StaticInv
  /\ default \notin additional
  /\ reported \subseteq Keys
  /\ \A k \in Key : \A b \in collected[k] : b.lm = k[1]
  /\ \A l \in LM : finish[l] # {} => held[l] # {}

LEMMA KeysAreKeys ==
  ASSUME TypeOK
  PROVE  Deployed \subseteq LM /\ Keys \subseteq Key
<1>1. Deployed \subseteq LM
  BY DEF TypeOK, Deployed
<1>2. ASSUME NEW l \in LM PROVE KeyOf(l) \in Key
  BY DEF KeyOf, Key
<1> QED
  BY <1>1, <1>2 DEF Keys

\* The number of keys tells whether every deployed LM has answered.
LEMMA CompleteMeansAll ==
  ASSUME TypeOK, default \notin additional, NEW r \in SUBSET Keys
  PROVE  Complete(r) <=> r = Keys
<1> DEFINE f == [l \in Deployed |-> KeyOf(l)]
<1>1. IsFiniteSet(additional) /\ IsFiniteSet(Deployed) /\ Cardinality(additional) \in Nat
      /\ Cardinality(Deployed) = Cardinality(additional) + 1
  <2>1. IsFiniteSet(additional)
    BY SetupAssumption, FS_Subset DEF TypeOK
  <2> QED
    BY <2>1, FS_AddElement, FS_CardinalityType DEF Deployed
<1>2. f \in Surjection(Deployed, Keys) /\ f \in Injection(Deployed, Keys)
  BY DEF Surjection, Injection, IsInjective, Keys, KeyOf
<1>3. IsFiniteSet(Keys) /\ Cardinality(Keys) = Cardinality(additional) + 1
  BY <1>1, <1>2, FS_Surjection
<1>4. Cardinality(r) = Cardinality(Keys) <=> r = Keys
  BY <1>3, FS_Subset
<1> QED
  BY <1>3, <1>4 DEF Complete

\* The LMs of collected batches are those whose keys are reported.
LEMMA AnsweredLms ==
  ASSUME TypeOK, NEW r \in SUBSET Keys, NEW c,
         \A k \in Key : \A b \in c[k] : b.lm = k[1],
         \A k \in r : c[k] # {}, \A k \in Key \ r : c[k] = {}
  PROVE  {b.lm : b \in AllCollected(c)} = {l \in Deployed : KeyOf(l) \in r}
<1>1. Deployed \subseteq LM /\ Keys \subseteq Key
  BY KeysAreKeys
<1>2. ASSUME NEW b \in AllCollected(c)
      PROVE  b.lm \in Deployed /\ KeyOf(b.lm) \in r
  <2>1. PICK k \in Key : b \in c[k]
    BY DEF AllCollected
  <2>2. k \in r /\ b.lm = k[1]
    BY <2>1
  <2>3. PICK l \in Deployed : k = KeyOf(l)
    BY <2>2 DEF Keys
  <2> QED
    BY <2>2, <2>3 DEF KeyOf
<1>3. ASSUME NEW l \in Deployed, KeyOf(l) \in r
      PROVE  \E b \in AllCollected(c) : b.lm = l
  <2>1. PICK b \in c[KeyOf(l)] : TRUE
    BY <1>3
  <2>2. KeyOf(l) \in Key /\ KeyOf(l)[1] = l
    BY <1>1, <1>3 DEF KeyOf
  <2> QED
    BY <2>1, <2>2 DEF AllCollected
<1> QED
  BY <1>2, <1>3

\* The keys and the vectors with which NotifyLmFinished goes on when the answer
\* of LM l is kept.
Keys1(l) == reported \cup {KeyOf(l)}
Vectors1(l) == [collected EXCEPT ![KeyOf(l)] = held[l]]

\* What the end of a run does when no answer can be for another cycle.
LEMMA FinishCases ==
  ASSUME TypeOK, StaticInv, NEW l \in LM, FinishRun(l)
  PROVE  /\ l \in Deployed /\ KeyOf(l) \in Keys /\ Keys \subseteq Key
         /\ finish[l] # {} /\ finish' = [finish EXCEPT ![l] = {}]
         /\ UNCHANGED <<now, ricVars, orphans, lmActive, runCycle, queries>>
         /\ held' = IF active THEN [held EXCEPT ![l] = {}] ELSE held
         /\ \/ ~active /\ UNCHANGED collectVars
            \/ /\ active /\ ~Accepting /\ UNCHANGED <<deadline, sent>>
               /\ reported' \in {reported, Keys1(l)}
               /\ collected' \in {[collected EXCEPT ![KeyOf(l)] = {}], Vectors1(l)}
               /\ LatePolicy # "SAVE" =>
                    reported' = reported /\ collected' = [collected EXCEPT ![KeyOf(l)] = {}]
            \/ /\ active /\ Accepting /\ ~Complete(Keys1(l)) /\ UNCHANGED <<deadline, sent>>
               /\ reported' = Keys1(l) /\ collected' = Vectors1(l)
            \/ /\ active /\ Accepting /\ Complete(Keys1(l))
               /\ deadline' = {} /\ sent' = sent \cup AllCollected(Vectors1(l))
               /\ reported' = {} /\ collected' = NothingCollected
<1>1. l \in Deployed /\ runCycle[l] = cycle /\ lmActive[l] = active
  BY DEF FinishRun, StaticInv
<1>2. KeyOf(l) \in Keys /\ Keys \subseteq Key
  BY <1>1, KeysAreKeys DEF Keys
<1>3. /\ finish[l] # {} /\ finish' = [finish EXCEPT ![l] = {}]
      /\ UNCHANGED <<now, ricVars, orphans, lmActive, runCycle, queries>>
      /\ held' = IF active THEN [held EXCEPT ![l] = {}] ELSE held
  BY <1>1 DEF FinishRun
<1>4. CASE ~active
  BY <1>1, <1>2, <1>3, <1>4 DEF FinishRun
<1>5. CASE active
  <2>1. NotifyLmFinished(l)
    BY <1>1, <1>5 DEF FinishRun
  <2>2. CASE ~Accepting
    BY <1>1, <1>2, <1>3, <1>5, <2>1, <2>2 DEF NotifyLmFinished, Keys1, Vectors1
  <2>3. CASE Accepting
    <3>1. \/ Complete(Keys1(l)) /\ ProcessLmQueryCommands(Keys1(l), Vectors1(l))
          \/ /\ ~Complete(Keys1(l)) /\ reported' = Keys1(l) /\ collected' = Vectors1(l)
             /\ UNCHANGED <<deadline, sent>>
      BY <1>1, <2>1, <2>3 DEF NotifyLmFinished, Keys1, Vectors1
    <3> QED
      BY <1>1, <1>2, <1>3, <1>5, <2>3, <3>1 DEF ProcessLmQueryCommands, ClearCommands
  <2> QED
    BY <2>2, <2>3
<1> QED
  BY <1>4, <1>5

LEMMA CountQuery ==
  ASSUME TypeOK, CountInv, StaticInv', NEW d \in [LM -> Delays], QueryLms(d)
  PROVE  CountInv'
<1>1. UNCHANGED <<default, additional, reported, collected>>
  BY DEF QueryLms
<1>2. \A l \in LM : \/ held'[l] = {[lm |-> l, query |-> queries + 1, cycle |-> now]}
                    \/ held'[l] = held[l] /\ finish'[l] = finish[l]
  BY DEF QueryLms, TypeOK
<1>3. \A l \in LM : finish'[l] # {} => held'[l] # {}
  BY <1>2 DEF CountInv
<1>4. Keys' = Keys
  BY <1>1 DEF Keys, KeyOf, Deployed
<1> QED
  BY <1>1, <1>3, <1>4 DEF CountInv

LEMMA CountFinish ==
  ASSUME TypeOK, OvertakeInv, CountInv, StaticInv', NEW l \in LM, FinishRun(l)
  PROVE  CountInv'
<1>1. \A b \in held[l] : b.lm = l
  BY DEF OvertakeInv
<1>2. UNCHANGED <<default, additional>> /\ KeyOf(l) \in Keys /\ Keys \subseteq Key
  BY FinishCases DEF CountInv, ricVars
<1>3. Keys' = Keys
  BY <1>2 DEF Keys, KeyOf, Deployed
<1>4. reported' \subseteq Keys
  BY <1>2, FinishCases DEF CountInv, Keys1, collectVars
<1>5. ASSUME NEW k \in Key, NEW b \in collected'[k]
      PROVE  b.lm = k[1]
  <2>1. collected' \in {collected, NothingCollected, Vectors1(l),
                       [collected EXCEPT ![KeyOf(l)] = {}]}
    BY FinishCases DEF CountInv, collectVars
  <2>2. b \in collected[k] \/ (b \in held[l] /\ k = KeyOf(l))
    BY <1>2, <1>5, <2>1 DEF NothingCollected, Vectors1, TypeOK
  <2> QED
    BY <1>1, <2>2 DEF CountInv, KeyOf
<1>6. ASSUME NEW m \in LM, finish'[m] # {}
      PROVE  held'[m] # {}
  BY <1>6, FinishCases DEF CountInv, TypeOK
<1> QED
  BY <1>2, <1>3, <1>4, <1>5, <1>6 DEF CountInv

\* A deadline empties the map or leaves it alone.
LEMMA DeadlineEffect ==
  ASSUME DeadlineExpires \/ OrphanDeadlineExpires
  PROVE  /\ UNCHANGED <<now, ricVars, lmVars, queries>>
         /\ \/ UNCHANGED <<reported, collected, sent>>
            \/ /\ active /\ reported' = {} /\ collected' = NothingCollected /\ deadline' = {}
               /\ sent' = sent \cup AllCollected(collected)
BY DEF DeadlineExpires, OrphanDeadlineExpires, ProcessLmQueryCommands, ClearCommands

LEMMA CountStep ==
  TypeOK /\ OvertakeInv /\ ~setup.redeploys /\ CountInv /\ [Next]_vars => CountInv'
<1> SUFFICES ASSUME TypeOK, OvertakeInv, ~setup.redeploys, CountInv, [Next]_vars
             PROVE  CountInv'
  OBVIOUS
<1>1. StaticInv'
  BY StaticStep DEF CountInv
<1>2. CASE UNCHANGED <<default, additional, reported, collected, finish, held>>
  BY <1>1, <1>2 DEF CountInv, Keys, KeyOf, Deployed
<1>3. CASE DeadlineExpires \/ OrphanDeadlineExpires
  <2>1. UNCHANGED <<default, additional, finish, held>>
    BY <1>3, DeadlineEffect DEF ricVars, lmVars
  <2>2. UNCHANGED <<reported, collected>> \/ (reported' = {} /\ collected' = NothingCollected)
    BY <1>3, DeadlineEffect
  <2>3. CASE UNCHANGED <<reported, collected>>
    BY <1>2, <2>1, <2>3
  <2>4. CASE reported' = {} /\ collected' = NothingCollected
    BY <1>1, <2>1, <2>4 DEF CountInv, NothingCollected
  <2> QED
    BY <2>2, <2>3, <2>4
<1>4. ASSUME NEW l \in LM, FinishRun(l) PROVE CountInv'
  BY <1>1, <1>4, CountFinish
<1>5. ASSUME NEW d \in [LM -> Delays], QueryLms(d) PROVE CountInv'
  BY <1>1, <1>5, CountQuery
<1>6. ASSUME QueryTimerFires, ~(\E d \in [LM -> Delays] : QueryLms(d))
      PROVE  UNCHANGED <<default, additional, reported, collected, finish, held>>
  BY <1>6 DEF QueryTimerFires, collectVars, lmVars
<1>7. ASSUME Tick \/ Start \/ Stop \/ Activate \/ Deactivate \/ UNCHANGED vars
      PROVE  UNCHANGED <<default, additional, reported, collected, finish, held>>
  BY <1>7 DEF Tick, Start, Stop, Activate, Deactivate, ricVars, collectVars, lmVars, vars
<1>8. CASE QueryTimerFires \/ NotifyReportReceived
  BY <1>2, <1>5, <1>6, <1>8 DEF NotifyReportReceived
<1> QED
  BY <1>2, <1>3, <1>4, <1>7, <1>8 DEF Next

LEMMA CountInit == Init => CountInv
BY StaticInit, SetupAssumption DEF Init, CountInv, NothingCollected

-----------------------------------------------------------------------------
(***************************************************************************)
(* Without a wait time, whole sets are handed over.                        *)
(***************************************************************************)

\* Without a wait time there are no deadlines, and every key has a batch.
UnlimitedInv ==
  /\ CountInv
  /\ deadline = {} /\ orphans = {}
  /\ \A k \in reported : collected[k] # {}

LEMMA UnlimitedFinish ==
  ASSUME TypeOK, OvertakeInv, MaxWait = 0, UnlimitedInv, CountInv', NEW l \in LM, FinishRun(l)
  PROVE  /\ UnlimitedInv'
         /\ sent' # sent => \A m \in Deployed : \E b \in sent' \ sent : b.lm = m
<1>1. Accepting
  BY DEF Accepting
<1>2. /\ KeyOf(l) \in Keys /\ Keys \subseteq Key /\ UNCHANGED orphans
      /\ \/ UNCHANGED collectVars
         \/ reported' = Keys1(l) /\ collected' = Vectors1(l) /\ UNCHANGED <<deadline, sent>>
         \/ /\ reported' = {} /\ deadline' = {}
            /\ Complete(Keys1(l)) /\ sent' = sent \cup AllCollected(Vectors1(l))
  BY <1>1, FinishCases DEF UnlimitedInv, CountInv
<1>3. held[l] # {} /\ held[l] = InFlight(l)
  BY FinishCases DEF UnlimitedInv, CountInv, InFlight
<1>4. \A k \in Keys1(l) : Vectors1(l)[k] # {}
  BY <1>2, <1>3 DEF UnlimitedInv, CountInv, Keys1, Vectors1, TypeOK
<1>5. UnlimitedInv'
  BY <1>2, <1>4 DEF UnlimitedInv, collectVars
<1>6. ASSUME sent' # sent, NEW m \in Deployed
      PROVE  \E b \in sent' \ sent : b.lm = m
  <2>1. Complete(Keys1(l)) /\ sent' = sent \cup AllCollected(Vectors1(l))
    BY <1>2, <1>6 DEF collectVars
  <2>2. Keys1(l) = Keys
    BY <1>2, <2>1, CompleteMeansAll DEF UnlimitedInv, CountInv, Keys1
  <2>3. KeyOf(m) \in Keys1(l) /\ KeyOf(m) \in Key
    BY <1>2, <2>2 DEF Keys
  <2>4. PICK b \in Vectors1(l)[KeyOf(m)] : TRUE
    BY <1>4, <2>3
  <2>5. b \in AllCollected(Vectors1(l))
    BY <2>3, <2>4 DEF AllCollected
  <2>6. CASE KeyOf(m) = KeyOf(l)
    <3>1. m = l /\ b \in held[l]
      BY <1>2, <2>3, <2>4, <2>6 DEF KeyOf, Vectors1, TypeOK
    <3>2. b.lm = m /\ b \notin sent
      BY <1>3, <3>1 DEF OvertakeInv, NeverOvertaken, TypeOK, Batch
    <3> QED
      BY <2>1, <2>5, <3>2
  <2>7. CASE KeyOf(m) # KeyOf(l)
    <3>1. b \in collected[KeyOf(m)]
      BY <1>2, <2>3, <2>4, <2>7 DEF Vectors1, TypeOK
    <3>2. b.lm = m
      BY <2>3, <3>1 DEF UnlimitedInv, CountInv, KeyOf
    <3>3. b \in AllCollected(collected) /\ b \in Batch
      BY <2>3, <3>1 DEF AllCollected, TypeOK
    <3>4. b \notin sent
      BY <3>3 DEF OvertakeInv, NeverOvertaken, Batch
    <3> QED
      BY <2>1, <2>5, <3>2, <3>4
  <2> QED
    BY <2>6, <2>7
<1> QED
  BY <1>5, <1>6

LEMMA UnlimitedStep ==
  ASSUME TypeOK, OvertakeInv, ~setup.redeploys, MaxWait = 0, UnlimitedInv, [Next]_vars
  PROVE  /\ UnlimitedInv'
         /\ sent' # sent => \A m \in Deployed : \E b \in sent' \ sent : b.lm = m
<1>1. CountInv'
  BY CountStep DEF UnlimitedInv
<1>2. CASE UNCHANGED <<reported, collected, orphans, sent>> /\ deadline' \subseteq deadline
  BY <1>1, <1>2 DEF UnlimitedInv
<1>3. ASSUME NEW l \in LM, FinishRun(l)
      PROVE  /\ UnlimitedInv'
             /\ sent' # sent => \A m \in Deployed : \E b \in sent' \ sent : b.lm = m
  BY <1>1, <1>3, UnlimitedFinish
<1>4. ASSUME NEW d \in [LM -> Delays], QueryLms(d)
      PROVE  UNCHANGED <<reported, collected, orphans, sent>> /\ deadline' \subseteq deadline
  BY <1>4 DEF QueryLms, ScheduleDeadline
<1>5. ~(DeadlineExpires \/ OrphanDeadlineExpires)
  BY DEF UnlimitedInv, DeadlineExpires, OrphanDeadlineExpires
<1>6. ASSUME Tick \/ Start \/ Stop \/ Activate \/ Deactivate \/ UNCHANGED vars
      PROVE  UNCHANGED <<reported, collected, orphans, sent>> /\ deadline' \subseteq deadline
  BY <1>6 DEF Tick, Start, Stop, Activate, Deactivate, collectVars, vars
<1>7. ASSUME QueryTimerFires \/ NotifyReportReceived
      PROVE  UNCHANGED <<reported, collected, orphans, sent>> /\ deadline' \subseteq deadline
  BY <1>4, <1>7 DEF QueryTimerFires, NotifyReportReceived, collectVars
<1> QED
  BY <1>2, <1>3, <1>5, <1>6, <1>7 DEF Next

\* Without a wait time and with a fixed deployment, every hand-over holds a
\* new batch of every deployed LM, for any number of LMs, any triggers, stops
\* and restarts: the size test of NotifyLmFinished is enough.
THEOREM HandsOverWholeSets == Spec => WholeSets
<1> DEFINE UInv == ~setup.redeploys /\ MaxWait = 0 => UnlimitedInv
<1>1. Init => UInv
  BY CountInit DEF Init, UnlimitedInv
<1>2. TypeOK /\ OvertakeInv /\ UInv /\ [Next]_vars => UInv'
  <2>1. [Next]_vars => UNCHANGED setup
    BY DEF Next, vars
  <2> QED
    BY <2>1, SameSetup, UnlimitedStep
<1>3. TypeOK /\ OvertakeInv /\ UInv /\ [Next]_vars =>
        [MaxWait = 0 /\ ~setup.redeploys /\ sent' # sent =>
           \A l \in Deployed : \E b \in sent' \ sent : b.lm = l]_vars
  BY UnlimitedStep
<1> HIDE DEF UInv
<1> QED
  BY <1>1, <1>2, <1>3, TypeCorrect, OvertakeAlways, PTL DEF Spec, WholeSets

-----------------------------------------------------------------------------
(***************************************************************************)
(* The documented cycle is implemented.                                    *)
(***************************************************************************)

\* In a RIC that is compared with DocumentedCycle, what is collected and in
\* progress belongs to the current query, whose deadline is the only one and
\* comes before the next query.
CycleInv ==
  /\ PromptInv /\ CountInv
  /\ orphans = {}
  /\ deadline # {} => queryEvent = {cycle + Interval}
  /\ deadline = {} => reported = {}
  /\ reported # Keys
  /\ \A k \in reported : collected[k] # {}
  /\ \A b \in AllCollected(collected) : b.query = queries
  /\ \A l \in LM : finish[l] # {} =>
       KeyOf(l) \notin reported /\ \A b \in held[l] : b.query = queries

\* When the next query is due the cycle is closed.
LEMMA ClosedAtQuery ==
  ASSUME TypeOK, Compared, CycleInv, now \in queryEvent
  PROVE  deadline = {}
<1> SUFFICES ASSUME NEW t \in deadline PROVE FALSE
  OBVIOUS
<1>1. now = cycle + Interval /\ t = cycle + MaxWait /\ now <= t
  BY DEF CycleInv, PromptInv
<1> QED
  BY <1>1, SetupTypes DEF Compared, TypeOK

LEMMA CycleQuery ==
  ASSUME TypeOK, UNCHANGED setup, Compared, CycleInv, PromptInv', CountInv',
         now \in queryEvent, NEW d \in [LM -> Delays], QueryLms(d)
  PROVE  CycleInv'
<1>1. deadline = {}
  BY ClosedAtQuery
<1>2. /\ deadline' = {now + MaxWait} /\ orphans' = {} /\ queryEvent' = {now + Interval}
      /\ cycle' = now /\ queries' = queries + 1
      /\ UNCHANGED <<default, additional, reported, collected>>
  BY <1>1, SetupTypes DEF QueryLms, ScheduleDeadline, Compared, Punctual, CycleInv
<1>3. reported = {} /\ AllCollected(collected) = {}
  BY <1>1 DEF CycleInv, TypeOK, AllCollected
<1>4. AllCollected(collected') = {}
  BY <1>2, <1>3
<1>5. ASSUME NEW l \in LM, finish'[l] # {}, NEW b \in held'[l]
      PROVE  b.query = queries'
  <2>1. CASE l \in Queried
    BY <1>5, <2>1 DEF QueryLms, TypeOK
  <2>2. CASE l \notin Queried
    <3>1. finish'[l] = finish[l]
      BY <2>2 DEF QueryLms
    <3>2. l \in Deployed /\ lmActive[l]
      BY <1>5, <3>1 DEF CycleInv, PromptInv, StaticInv, QueryLms
    <3> QED
      BY <2>2, <3>2 DEF Queried
  <2> QED
    BY <2>1, <2>2
<1>6. Interval' = Interval
  BY SameSetup
<1>7. Keys' # {}
  BY DEF Keys, Deployed
<1> QED
  BY <1>1, <1>2, <1>3, <1>4, <1>5, <1>6, <1>7 DEF CycleInv

LEMMA CycleFinish ==
  ASSUME TypeOK, UNCHANGED setup, Compared, CycleInv, PromptInv', CountInv',
         NEW l \in LM, FinishRun(l)
  PROVE  CycleInv'
<1>1. /\ KeyOf(l) \in Keys /\ Keys \subseteq Key /\ finish[l] # {}
      /\ UNCHANGED <<now, default, additional, queryEvent, cycle, orphans, queries>>
      /\ finish' = [finish EXCEPT ![l] = {}] /\ \A m \in LM : held'[m] \subseteq held[m]
  BY FinishCases DEF CycleInv, CountInv, ricVars, TypeOK
<1>2. Keys' = Keys /\ Interval' = Interval /\ \A m \in LM : KeyOf(m)' = KeyOf(m)
  BY <1>1, SameSetup DEF Keys, KeyOf, Deployed
<1>3. \A m \in LM : finish'[m] # {} =>
        m # l /\ KeyOf(m) \notin reported /\ \A b \in held'[m] : b.query = queries'
  BY <1>1 DEF CycleInv, TypeOK
<1>4. CASE UNCHANGED collectVars
  BY <1>1, <1>2, <1>3, <1>4 DEF CycleInv, collectVars
<1>5. CASE /\ deadline' = {} /\ reported' = {} /\ collected' = NothingCollected
  <2>1. AllCollected(collected') = {}
    BY <1>5 DEF AllCollected, NothingCollected
  <2> QED
    BY <1>1, <1>2, <1>3, <1>5, <2>1 DEF CycleInv
<1>6. CASE /\ ~Accepting /\ UNCHANGED <<deadline, sent, reported>>
           /\ collected' = [collected EXCEPT ![KeyOf(l)] = {}]
  <2>1. reported = {}
    BY <1>6 DEF Accepting, CycleInv
  <2>2. collected' = collected
    BY <1>1, <1>6, <2>1 DEF TypeOK
  <2> QED
    BY <1>4, <1>6, <2>2 DEF collectVars
<1>7. CASE /\ Accepting /\ ~Complete(Keys1(l)) /\ UNCHANGED <<deadline, sent>>
           /\ reported' = Keys1(l) /\ collected' = Vectors1(l)
  <2>1. deadline # {}
    BY <1>7 DEF Accepting, Compared, Punctual
  <2>2. Keys1(l) # Keys
    BY <1>1, <1>7, CompleteMeansAll DEF CycleInv, CountInv, Keys1
  <2>3. held[l] # {} /\ \A b \in held[l] : b.query = queries
    BY <1>1 DEF CycleInv, CountInv
  <2>4. \A k \in Keys1(l) : Vectors1(l)[k] # {}
    BY <1>1, <2>3 DEF CycleInv, CountInv, Keys1, Vectors1, TypeOK
  <2>5. \A b \in AllCollected(Vectors1(l)) : b.query = queries
    BY <2>3 DEF CycleInv, AllCollected, Vectors1, TypeOK
  <2>6. \A m \in LM : finish'[m] # {} => KeyOf(m) \notin Keys1(l)
    BY <1>3 DEF Keys1, KeyOf
  <2> QED
    BY <1>1, <1>2, <1>3, <1>7, <2>1, <2>2, <2>4, <2>5, <2>6 DEF CycleInv
<1>8. LatePolicy # "SAVE"
  BY DEF Compared, Punctual
<1> QED
  BY <1>4, <1>5, <1>6, <1>7, <1>8, FinishCases DEF CycleInv, CountInv

LEMMA CycleDeadline ==
  ASSUME TypeOK, UNCHANGED setup, CycleInv, PromptInv', CountInv', DeadlineExpires
  PROVE  CycleInv'
<1>1. active
  BY DEF DeadlineExpires, CycleInv, PromptInv
<1>2. /\ UNCHANGED <<now, ricVars, orphans, lmVars, queries>>
      /\ deadline' = {} /\ reported' = {} /\ collected' = NothingCollected
  BY <1>1 DEF DeadlineExpires, ProcessLmQueryCommands, ClearCommands
<1>3. AllCollected(collected') = {}
  BY <1>2 DEF AllCollected, NothingCollected
<1>4. Keys' # {}
  BY DEF Keys, Deployed
<1> QED
  BY <1>2, <1>3, <1>4 DEF CycleInv, ricVars, lmVars

LEMMA CycleStep == TypeOK /\ OvertakeInv /\ Compared /\ CycleInv /\ [Next]_vars => CycleInv'
<1> SUFFICES ASSUME TypeOK, OvertakeInv, Compared, CycleInv, [Next]_vars
             PROVE  CycleInv'
  OBVIOUS
<1>. UNCHANGED setup
  BY DEF Next, vars
<1>1. ~setup.triggers /\ ~setup.restarts /\ ~setup.redeploys /\ Punctual
  BY DEF Compared, Punctual
<1>2. PromptInv' /\ CountInv'
  BY <1>1, PromptStep, CountStep DEF CycleInv
<1>3. CASE /\ UNCHANGED <<default, additional, cycle, deadline, reported, collected, orphans,
                          finish, held, queries>>
           /\ deadline # {} => UNCHANGED queryEvent
  <2>1. Keys' = Keys /\ Interval' = Interval
    BY <1>3, SameSetup DEF Keys, KeyOf, Deployed
  <2> QED
    BY <1>2, <1>3, <2>1 DEF CycleInv, KeyOf
<1>4. ASSUME Tick \/ Start \/ UNCHANGED vars
      PROVE  /\ UNCHANGED <<default, additional, cycle, deadline, reported, collected, orphans,
                            finish, held, queries>>
             /\ deadline # {} => UNCHANGED queryEvent
  BY <1>4 DEF Tick, Start, CycleInv, ricVars, collectVars, lmVars, vars
<1>5. CASE QueryTimerFires
  <2>1. CASE \E d \in [LM -> Delays] : QueryLms(d)
    BY <1>2, <1>5, <2>1, CycleQuery DEF QueryTimerFires
  <2>2. CASE ~(\E d \in [LM -> Delays] : QueryLms(d))
    BY <1>3, <1>5, <2>2 DEF QueryTimerFires, CycleInv, PromptInv, collectVars, lmVars
  <2> QED
    BY <2>1, <2>2
<1>6. CASE DeadlineExpires
  BY <1>2, <1>6, CycleDeadline
<1>7. ~OrphanDeadlineExpires
  BY DEF OrphanDeadlineExpires, CycleInv
<1>8. ASSUME NEW l \in LM, FinishRun(l) PROVE CycleInv'
  BY <1>2, <1>8, CycleFinish
<1> QED
  BY <1>1, <1>3, <1>4, <1>5, <1>6, <1>7, <1>8 DEF Next

\* What DocumentedCycle is told of a state.
Answered == {b.lm : b \in AllCollected(collected)}

LEMMA AnsweredReported ==
  ASSUME TypeOK, CycleInv
  PROVE  Answered = {l \in Deployed : KeyOf(l) \in reported}
BY AnsweredLms DEF CycleInv, CountInv, TypeOK, Answered

LEMMA DocumentedQuery ==
  ASSUME TypeOK, Compared, Compared', CycleInv, now \in queryEvent,
         NEW d \in [LM -> Delays], QueryLms(d)
  PROVE  Documented!Query
<1>1. UNCHANGED <<Deployed, collected, sent>> /\ queries' = queries + 1
  BY DEF QueryLms, Deployed
<1>2. AllCollected(collected') = AllCollected(collected)
  BY <1>1
<1>3. deadline = {} /\ deadline' # {}
  BY ClosedAtQuery, SetupTypes DEF QueryLms, ScheduleDeadline, Compared, Punctual
<1> QED
  BY <1>1, <1>2, <1>3 DEF Documented!Query

\* Sending the batches of vectors c hands over the answers of their LMs.
LEMMA SendAnswers ==
  ASSUME UNCHANGED <<default, additional>>, collected' = NothingCollected,
         NEW c, \A b \in AllCollected(c) : b.query = queries,
         sent' = sent \cup AllCollected(c)
  PROVE  /\ {b.lm : b \in AllCollected(collected')} = {} /\ UNCHANGED Deployed
         /\ {<<b.lm, b.query>> : b \in sent'} =
              {<<b.lm, b.query>> : b \in sent}
                \cup {<<l, queries>> : l \in {b.lm : b \in AllCollected(c)}}
<1>1. AllCollected(collected') = {}
  BY DEF AllCollected, NothingCollected
<1> QED
  BY <1>1 DEF Deployed

LEMMA DocumentedFinish ==
  ASSUME TypeOK, OvertakeInv, Compared, Compared', CycleInv, NEW l \in LM, FinishRun(l)
  PROVE  Documented!Next \/ UNCHANGED Documented!vars
<1>1. /\ l \in Deployed /\ KeyOf(l) \in Keys /\ Keys \subseteq Key /\ finish[l] # {}
      /\ UNCHANGED <<default, additional, queries>>
  BY FinishCases DEF CycleInv, CountInv, ricVars
<1>2. UNCHANGED Deployed
  BY <1>1 DEF Deployed
<1>3. CASE UNCHANGED collectVars
  <2>1. UNCHANGED <<deadline, collected, sent>>
    BY <1>3 DEF collectVars
  <2>2. AllCollected(collected') = AllCollected(collected)
    BY <2>1
  <2> QED
    BY <1>1, <1>2, <2>1, <2>2 DEF Documented!vars
<1>4. CASE /\ ~Accepting /\ UNCHANGED <<deadline, sent, reported>>
           /\ collected' = [collected EXCEPT ![KeyOf(l)] = {}]
  <2>1. reported = {}
    BY <1>4 DEF Accepting, CycleInv
  <2>2. collected' = collected
    BY <1>1, <1>4, <2>1 DEF TypeOK
  <2> QED
    BY <1>3, <1>4, <2>2 DEF collectVars
<1> DEFINE c == Vectors1(l)
           lms == {b.lm : b \in AllCollected(c)}
<1>5. KeyOf(l) \notin reported /\ held[l] # {} /\ \A b \in held[l] : b.query = queries /\ b.lm = l
  BY <1>1 DEF CycleInv, CountInv, OvertakeInv
<1>6. \A b \in AllCollected(c) : b.query = queries
  BY <1>5 DEF CycleInv, AllCollected, Vectors1, TypeOK
<1>7. lms = {m \in Deployed : KeyOf(m) \in Keys1(l)}
  <2>1. Keys1(l) \subseteq Keys
    BY <1>1 DEF CycleInv, CountInv, Keys1
  <2>2. \A k \in Key : \A b \in c[k] : b.lm = k[1]
    BY <1>1, <1>5 DEF CycleInv, CountInv, Vectors1, KeyOf, TypeOK
  <2>3. \A k \in Keys1(l) : c[k] # {}
    BY <1>1, <1>5, <2>1 DEF CycleInv, Keys1, Vectors1, TypeOK
  <2>4. \A k \in Key \ Keys1(l) : c[k] = {}
    BY <1>1 DEF Keys1, Vectors1, TypeOK
  <2> HIDE DEF c
  <2> QED
    BY <2>1, <2>2, <2>3, <2>4, AnsweredLms
<1>8. Answered = {m \in Deployed : KeyOf(m) \in reported} /\ l \notin Answered
      /\ lms = Answered \cup {l}
  BY <1>1, <1>5, <1>7, AnsweredReported DEF Keys1, KeyOf
<1>9. Complete(Keys1(l)) <=> lms = Deployed
  <2>1. Complete(Keys1(l)) <=> Keys1(l) = Keys
    BY <1>1, CompleteMeansAll DEF CycleInv, CountInv, Keys1
  <2>2. Keys1(l) = Keys <=> lms = Deployed
    BY <1>1, <1>7 DEF CycleInv, CountInv, Keys1, Keys
  <2> QED
    BY <2>1, <2>2
<1> HIDE DEF c, lms
<1>10. Accepting => deadline # {}
  BY DEF Accepting, Compared, Punctual
<1>11. CASE /\ Accepting /\ ~Complete(Keys1(l)) /\ UNCHANGED <<deadline, sent>>
            /\ collected' = c
  <2>1. {b.lm : b \in AllCollected(collected')} = Answered \cup {l}
    BY <1>8, <1>11 DEF lms
  <2>2. Documented!Collect(l)
    BY <1>1, <1>2, <1>8, <1>9, <1>10, <1>11, <2>1 DEF Documented!Collect, Answered
  <2> QED
    BY <1>1, <2>2 DEF Documented!Next
<1>12. CASE /\ Accepting /\ Complete(Keys1(l))
            /\ deadline' = {} /\ sent' = sent \cup AllCollected(c)
            /\ collected' = NothingCollected
  <2>1. /\ {b.lm : b \in AllCollected(collected')} = {}
        /\ {<<b.lm, b.query>> : b \in sent'} =
             {<<b.lm, b.query>> : b \in sent} \cup {<<m, queries>> : m \in Deployed}
    BY <1>1, <1>6, <1>9, <1>12, SendAnswers DEF lms
  <2>2. Answered # Deployed /\ deadline # {}
    BY <1>1, <1>8, <1>10, <1>12
  <2>3. Documented!CollectLast
    BY <1>1, <1>2, <1>12, <2>1, <2>2 DEF Documented!CollectLast, Documented!Close, Answered
  <2> QED
    BY <2>3 DEF Documented!Next
<1>13. LatePolicy # "SAVE"
  BY DEF Compared, Punctual
<1> QED
  BY <1>3, <1>4, <1>11, <1>12, <1>13, FinishCases DEF CycleInv, CountInv, c

LEMMA DocumentedDeadline ==
  ASSUME TypeOK, Compared, Compared', CycleInv, DeadlineExpires
  PROVE  Documented!Next
<1>1. active /\ deadline # {}
  BY DEF DeadlineExpires, CycleInv, PromptInv
<1>2. /\ UNCHANGED <<default, additional, queries>>
      /\ deadline' = {} /\ collected' = NothingCollected
      /\ sent' = sent \cup AllCollected(collected)
  BY <1>1 DEF DeadlineExpires, ProcessLmQueryCommands, ClearCommands, ricVars
<1>3. /\ {b.lm : b \in AllCollected(collected')} = {} /\ UNCHANGED Deployed
      /\ {<<b.lm, b.query>> : b \in sent'} =
           {<<b.lm, b.query>> : b \in sent} \cup {<<l, queries>> : l \in Answered}
  BY <1>2, SendAnswers DEF CycleInv, Answered
<1>4. Answered # Deployed
  BY AnsweredReported DEF CycleInv, CountInv, Keys
<1>5. Documented!TimeOut
  BY <1>1, <1>2, <1>3, <1>4 DEF Documented!TimeOut, Documented!Close, Answered
<1> QED
  BY <1>5 DEF Documented!Next

LEMMA DocumentedStep ==
  TypeOK /\ OvertakeInv /\ Compared /\ CycleInv /\ [Next]_vars
    => [Documented!Next]_(Documented!vars)
<1> SUFFICES ASSUME TypeOK, OvertakeInv, Compared, CycleInv, [Next]_vars
             PROVE  Documented!Next \/ UNCHANGED Documented!vars
  OBVIOUS
<1>. UNCHANGED setup
  BY DEF Next, vars
<1>1. Compared' /\ ~setup.triggers /\ ~setup.restarts /\ ~setup.redeploys
  BY SameSetup DEF Compared, Punctual
<1>2. CASE UNCHANGED <<default, additional, deadline, collected, queries, sent>>
  <2>1. AllCollected(collected') = AllCollected(collected) /\ UNCHANGED Deployed
    BY <1>2 DEF Deployed
  <2> QED
    BY <1>1, <1>2, <2>1 DEF Documented!vars
<1>3. ASSUME Tick \/ Start \/ UNCHANGED vars
      PROVE  UNCHANGED <<default, additional, deadline, collected, queries, sent>>
  BY <1>3 DEF Tick, Start, ricVars, collectVars, vars
<1>4. CASE QueryTimerFires
  <2>1. CASE \E d \in [LM -> Delays] : QueryLms(d)
    <3>1. PICK d \in [LM -> Delays] : QueryLms(d)
      BY <2>1
    <3> QED
      BY <1>1, <1>4, <3>1, DocumentedQuery DEF QueryTimerFires, Documented!Next
  <2>2. CASE ~(\E d \in [LM -> Delays] : QueryLms(d))
    BY <1>2, <1>4, <2>2 DEF QueryTimerFires, collectVars
  <2> QED
    BY <2>1, <2>2
<1>5. CASE DeadlineExpires
  BY <1>1, <1>5, DocumentedDeadline
<1>6. ~OrphanDeadlineExpires
  BY DEF OrphanDeadlineExpires, CycleInv
<1>7. ASSUME NEW l \in LM, FinishRun(l)
      PROVE  Documented!Next \/ UNCHANGED Documented!vars
  BY <1>1, <1>7, DocumentedFinish
<1> QED
  BY <1>1, <1>2, <1>3, <1>4, <1>5, <1>6, <1>7 DEF Next

\* A RIC with a wait time that is shorter than its query interval, which drops
\* late commands, is not triggered by reports and not stopped, implements the
\* documented cycle: however long its LMs take, every cycle is closed exactly
\* once, before the next query, with exactly the commands collected in it.
THEOREM ImplementsDocumentedCycle == Spec => KeepsDocumentedCycle
<1> DEFINE CInv == Compared => CycleInv
<1>1. Init => CInv /\ Documented!Init
  <2> SUFFICES ASSUME Init PROVE CInv /\ Documented!Init
    OBVIOUS
  <2>1. AllCollected(collected) = {}
    BY DEF Init, AllCollected, NothingCollected
  <2>2. CountInv /\ PromptInv
    BY <2>1, CountInit, StaticInit DEF Init, PromptInv, InFlight
  <2>3. Keys # {}
    BY DEF Keys, Deployed
  <2>4. CInv
    BY <2>1, <2>2, <2>3 DEF Init, CycleInv
  <2>5. Documented!Init
    BY <2>1 DEF Init, Documented!Init
  <2> QED
    BY <2>4, <2>5
<1>2. [Next]_vars => UNCHANGED Compared
  BY SameSetup DEF Next, vars, Compared
<1>3. TypeOK /\ OvertakeInv /\ CInv /\ [Next]_vars => CInv'
  BY <1>2, CycleStep
<1>4. TypeOK /\ OvertakeInv /\ CInv /\ [Next]_vars => [Documented!Next]_(Documented!vars)
  <2>1. ~Compared /\ UNCHANGED Compared => UNCHANGED Documented!vars
    BY DEF Documented!vars
  <2> QED
    BY <1>2, <2>1, DocumentedStep
<1> HIDE DEF CInv
<1> QED
  BY <1>1, <1>3, <1>4, TypeCorrect, OvertakeAlways, PTL
     DEF Spec, KeepsDocumentedCycle, Documented!Spec
=============================================================================
