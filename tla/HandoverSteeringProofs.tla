----------------------- MODULE HandoverSteeringProofs -----------------------
(***************************************************************************)
(* Proofs about HandoverSteering and HoAndDwell, for any numbers of UEs,   *)
(* cells and Logic Modules: type correctness, that no eNB is given a       *)
(* command it cannot execute in the set-ups of CommandsMeetTheirUe, and    *)
(* that the reporter tells the cell and dwell time of a UE it followed.    *)
(***************************************************************************)
EXTENDS HoAndDwell, WellFoundedInduction, TLAPS

-----------------------------------------------------------------------------
(***************************************************************************)
(* The newest row.                                                         *)
(***************************************************************************)

LEMMA NewestExists ==
  ASSUME NEW k \in Nat, NEW S \in SUBSET (1 .. k), S # {}
  PROVE  \E n \in S : \A m \in S : m <= n
<1> DEFINE T == {x \in Nat : k - x \in S}
<1>1. T \subseteq Nat /\ T # {}
  <2>1. PICK m \in S : m \in 1 .. k
    OBVIOUS
  <2>2. k - m \in Nat /\ k - (k - m) = m
    BY <2>1
  <2>3. k - m \in T
    BY <2>2
  <2> QED BY <2>3
<1>2. PICK x \in T : \A y \in T : ~(<<y, x>> \in OpToRel(<, Nat))
  <2> HIDE DEF T
  <2> QED BY <1>1, NatLessThanWellFounded, WFMin, Zenon
<1>3. \A y \in T : ~(y < x)
  BY <1>1, <1>2 DEF OpToRel
<1>4. x \in Nat /\ k - x \in S
  OBVIOUS
<1>5. ASSUME NEW m \in S PROVE m <= k - x
  <2>1. m \in 1 .. k
    OBVIOUS
  <2>2. k - m \in T
    BY <2>1
  <2>3. ~(k - m < x)
    BY <1>3, <2>2
  <2> QED BY <1>4, <2>1, <2>3
<1> QED BY <1>4, <1>5

LEMMA NewestIsSaved ==
  ASSUME TypeOK, NEW u \in Ue, saved[u] # {}
  PROVE  Newest(u) \in saved[u] /\ \A m \in saved[u] : m <= Newest(u)
<1>1. trail[u] \in Seq(Places) /\ saved[u] \subseteq 1 .. Len(trail[u])
  BY DEF TypeOK
<1>2. Len(trail[u]) \in Nat
  BY <1>1
<1>3. \E n \in saved[u] : \A m \in saved[u] : m <= n
  <2> DEFINE S == saved[u]
             k == Len(trail[u])
  <2>1. S \in SUBSET (1 .. k) /\ S # {} /\ k \in Nat
    BY <1>1, <1>2
  <2> HIDE DEF S, k
  <2>2. \E n \in S : \A m \in S : m <= n
    BY <2>1, NewestExists
  <2> QED BY <2>2 DEF S
<1> QED BY <1>3 DEF Newest

-----------------------------------------------------------------------------
(***************************************************************************)
(* Places and set-ups.                                                     *)
(***************************************************************************)

LEMMA SetupFields ==
  ASSUME setup \in Setups
  PROVE  /\ setup.lms \subseteq Lm /\ setup.ues \subseteq Ue
         /\ setup.cells \subseteq Cell /\ setup.cells # {}
         /\ setup.cmm \in {"noop", "single", "handover"}
<1>1. setup \in [ues: SUBSET Ue, cells: (SUBSET Cell) \ {{}},
                 cmm: {"noop", "single", "handover"}, lms: (SUBSET Lm) \ {{}},
                 trigger: {"periodic", "handover"},
                 timely: BOOLEAN, prompt: BOOLEAN, settled: BOOLEAN,
                 refuses: BOOLEAN, loses: BOOLEAN, moves: BOOLEAN, places: Nat]
  BY SetupAssumption, Zenon
<1>2. setup.ues \in SUBSET Ue /\ setup.cells \in (SUBSET Cell) \ {{}}
  BY <1>1
<1>3. setup.cmm \in {"noop", "single", "handover"} /\ setup.lms \in (SUBSET Lm) \ {{}}
  BY <1>1
<1>4. setup.cells # {} /\ setup.cells \subseteq Cell
  BY <1>2, Zenon
<1>5. setup.lms \subseteq Lm /\ setup.ues \subseteq Ue
  BY <1>2, <1>3, Zenon
<1> QED BY <1>3, <1>4, <1>5

LEMMA PlaceTypes ==
  ASSUME TypeOK, NEW u \in Ue
  PROVE  /\ Rnti(u) \in Nat \ {0} /\ Rnti(u) \in DOMAIN trail[u]
         /\ DOMAIN trail[u] = 1 .. Rnti(u)
         /\ \A n \in DOMAIN trail[u] : trail[u][n] \in Places
<1>1. trail[u] \in Seq(Places) /\ trail[u] # <<>>
  BY DEF TypeOK
<1>2. Len(trail[u]) \in Nat /\ Len(trail[u]) # 0 /\ DOMAIN trail[u] = 1 .. Len(trail[u])
  BY <1>1
<1>3. \A n \in 1 .. Len(trail[u]) : trail[u][n] \in Places
  BY <1>1
<1> QED BY <1>2, <1>3 DEF Rnti

\* A UE that enters a place keeps those it had, and the others keep theirs.
LEMMA EnterAdds ==
  ASSUME TypeOK, NEW u \in Ue, NEW c \in Cell \cup {0}, NEW b \in BOOLEAN, Enter(u, c, b)
  PROVE  /\ trail' \in [Ue -> Seq(Places)]
         /\ \A v \in Ue : trail'[v] # <<>>
         /\ \A v \in Ue \ {u} : trail'[v] = trail[v]
         /\ Rnti(u)' = Rnti(u) + 1
         /\ DOMAIN trail'[u] = 1 .. (Rnti(u) + 1)
         /\ \A n \in DOMAIN trail[u] : trail'[u][n] = trail[u][n]
         /\ trail'[u][Rnti(u) + 1] = [cell |-> c, named |-> b]
         /\ \A v \in Ue : DOMAIN trail[v] \subseteq DOMAIN trail'[v]
<1> DEFINE place == [cell |-> c, named |-> b]
<1>1. place \in Places
  BY DEF Places
<1>2. trail \in [Ue -> Seq(Places)] /\ trail[u] \in Seq(Places) /\ trail[u] # <<>>
  BY DEF TypeOK
<1>3. trail' = [trail EXCEPT ![u] = Append(trail[u], place)]
  BY DEF Enter
<1> HIDE DEF place
<1>4. /\ Append(trail[u], place) \in Seq(Places) /\ Append(trail[u], place) # <<>>
      /\ Len(Append(trail[u], place)) = Len(trail[u]) + 1
      /\ DOMAIN Append(trail[u], place) = 1 .. (Len(trail[u]) + 1)
      /\ \A n \in 1 .. Len(trail[u]) : Append(trail[u], place)[n] = trail[u][n]
      /\ Append(trail[u], place)[Len(trail[u]) + 1] = place
  BY <1>1, <1>2
<1>5. trail'[u] = Append(trail[u], place) /\ \A v \in Ue \ {u} : trail'[v] = trail[v]
  BY <1>2, <1>3
<1>6. trail' \in [Ue -> Seq(Places)]
  BY <1>2, <1>3, <1>4
<1>7. DOMAIN trail[u] = 1 .. Len(trail[u]) /\ Len(trail[u]) \in Nat
  BY <1>2
<1>8. \A v \in Ue : trail'[v] # <<>>
  BY <1>4, <1>5 DEF TypeOK
<1>9. \A v \in Ue : DOMAIN trail[v] \subseteq DOMAIN trail'[v]
  <2> TAKE v \in Ue
  <2>1. CASE v = u
    BY <1>4, <1>5, <1>7, <2>1
  <2>2. CASE v # u
    BY <1>5, <2>2
  <2> QED BY <2>1, <2>2
<1> QED BY <1>4, <1>5, <1>6, <1>7, <1>8, <1>9 DEF Rnti, place

\* What TypeOK says of the reports and rows survives when places are added.
LEMMA RowsStayTyped ==
  ASSUME TypeOK, reports' = reports, saved' = saved,
         \A v \in Ue : DOMAIN trail[v] \subseteq DOMAIN trail'[v]
  PROVE  /\ (reports \subseteq {r \in Ue \X Nat : r[2] \in DOMAIN trail[r[1]]})'
         /\ (saved \in [Ue -> SUBSET Nat])'
         /\ (\A u \in Ue : saved[u] \subseteq DOMAIN trail[u])'
BY DEF TypeOK

-----------------------------------------------------------------------------
(***************************************************************************)
(* Type correctness.                                                       *)
(***************************************************************************)

\* What a Logic Module orders: one command for each UE at most, from its
\* newest row.
LEMMA OrderedByRow ==
  ASSUME TypeOK, NEW l \in setup.lms, NEW wild \in [Ue -> setup.cells \cup {0}],
         NEW c \in HandoverCommands(l, wild)
  PROVE  /\ c \in Commands /\ c.lm = l
         /\ c.ue \in setup.ues /\ saved[c.ue] # {}
         /\ c.node = OldCellNode(c.ue, wild) /\ c.to = strongest[l][c.ue]
         /\ c.rnti = (IF trail[c.ue][Newest(c.ue)].named THEN Newest(c.ue) ELSE 0)
<1>1. PICK u \in setup.ues :
        /\ saved[u] # {}
        /\ c = [lm |-> l, ue |-> u, node |-> OldCellNode(u, wild), to |-> strongest[l][u],
                rnti |-> IF trail[u][Newest(u)].named THEN Newest(u) ELSE 0]
  BY DEF HandoverCommands
<1>2. u \in Ue /\ l \in Lm /\ setup.cells \subseteq Cell
  BY SetupFields DEF TypeOK
<1>3. Newest(u) \in saved[u] /\ saved[u] \subseteq DOMAIN trail[u]
  BY <1>1, <1>2, NewestIsSaved DEF TypeOK
<1>4. trail[u][Newest(u)] \in Places /\ Newest(u) \in Nat
  BY <1>2, <1>3, PlaceTypes
<1>5. strongest[l][u] \in Cell
  BY <1>2 DEF TypeOK
<1>6. OldCellNode(u, wild) \in Cell \cup {0}
  BY <1>2, <1>4 DEF OldCellNode, CellAt, Places
<1>7. c \in Commands
  BY <1>1, <1>2, <1>4, <1>5, <1>6 DEF Commands
<1> QED BY <1>1, <1>7

LEMMA FilterSelects ==
  ASSUME TypeOK, NEW all
  PROVE  Filter(all) \subseteq all
<1>1. setup.cmm \in {"noop", "single", "handover"}
  BY SetupFields DEF TypeOK
<1>2. CASE setup.cmm = "noop"
  BY <1>2 DEF Filter
<1>3. CASE setup.cmm = "single"
  BY <1>3 DEF Filter
<1>4. CASE setup.cmm = "handover"
  BY <1>4 DEF Filter
<1> QED BY <1>1, <1>2, <1>3, <1>4

LEMMA TypeInit == Init => TypeOK
<1> SUFFICES ASSUME Init PROVE TypeOK
  OBVIOUS
<1>1. setup \in Setups /\ setup.cells \subseteq Cell
  BY SetupFields DEF Init
<1>2. trail \in [Ue -> Seq(Places)] /\ \A u \in Ue : trail[u] # <<>>
  <2> DEFINE place == [cell |-> 0, named |-> FALSE]
  <2>1. place \in Places
    BY DEF Places
  <2>2. trail = [u \in Ue |-> <<place>>]
    BY DEF Init
  <2> HIDE DEF place
  <2> QED BY <2>1, <2>2
<1>3. strongest \in [Lm -> [Ue -> Cell]]
  BY <1>1 DEF Init
<1>4. phase \in [Ue -> Phases]
  BY DEF Init, Phases
<1>5. spent \in [changes: Nat, failures: Nat, handovers: Nat]
  BY DEF Init
<1>6. DOMAIN None = {}
  BY DEF None
<1>7. saved \in [Ue -> SUBSET Nat] /\ \A u \in Ue : saved[u] \subseteq DOMAIN trail[u]
  BY DEF Init
<1> QED BY <1>1, <1>2, <1>3, <1>4, <1>5, <1>6, <1>7 DEF TypeOK, Init

\* A step that changes the places, phases, reports and bounds only.
LEMMA RadioStepTypes ==
  ASSUME TypeOK, UNCHANGED <<setup, strongest, saved, ricVars, sent, fatal>>,
         trail' \in [Ue -> Seq(Places)], \A u \in Ue : trail'[u] # <<>>,
         \A u \in Ue : DOMAIN trail[u] \subseteq DOMAIN trail'[u],
         phase' \in [Ue -> Phases],
         \A r \in reports' : r \in reports \/ (r \in Ue \X Nat /\ r[2] \in DOMAIN trail'[r[1]]),
         spent' \in [changes: Nat, failures: Nat, handovers: Nat]
  PROVE  TypeOK'
<1>1. reports' \subseteq {r \in Ue \X Nat : r[2] \in DOMAIN trail'[r[1]]}
  BY DEF TypeOK
<1>2. \A u \in Ue : saved'[u] \subseteq DOMAIN trail'[u]
  BY DEF TypeOK
<1> QED BY <1>1, <1>2 DEF TypeOK, ricVars

LEMMA SpendTypes ==
  ASSUME TypeOK, NEW what \in {"changes", "failures", "handovers"}, NEW bound, Spend(what, bound)
  PROVE  spent' \in [changes: Nat, failures: Nat, handovers: Nat]
<1>1. spent \in [changes: Nat, failures: Nat, handovers: Nat]
  BY DEF TypeOK
<1> QED BY <1>1 DEF Spend

LEMMA UeStepTypes ==
  ASSUME TypeOK, NEW u \in setup.ues, UeStep(u)
  PROVE  TypeOK'
<1>1. u \in Ue /\ setup.cells \subseteq Cell
  BY SetupFields DEF TypeOK
<1>2. \A p \in Phases : Becomes(u, p) => phase' \in [Ue -> Phases]
  BY DEF TypeOK, Becomes
<1>3. Rnti(u) \in DOMAIN trail[u] /\ Rnti(u) \in Nat /\ CellOf(u) \in Cell \cup {0}
  BY <1>1, PlaceTypes DEF CellOf, CellAt, Places
<1>4. UNCHANGED trail =>
        /\ trail' \in [Ue -> Seq(Places)] /\ \A v \in Ue : trail'[v] # <<>>
        /\ \A v \in Ue : DOMAIN trail[v] \subseteq DOMAIN trail'[v]
  BY DEF TypeOK
<1>5. UNCHANGED phase => phase' \in [Ue -> Phases]
  BY DEF TypeOK
<1>6. UNCHANGED spent => spent' \in [changes: Nat, failures: Nat, handovers: Nat]
  BY DEF TypeOK
<1>7. CASE \E c \in setup.cells : Camp(u, c)
  <2>1. PICK c \in setup.cells : Camp(u, c)
    BY <1>7
  <2>2. Enter(u, c, FALSE) /\ c \in Cell \cup {0} /\ Becomes(u, "camped")
    BY <1>1, <2>1 DEF Camp
  <2> QED BY <1>1, <1>2, <1>6, <2>1, <2>2, EnterAdds, RadioStepTypes DEF Camp, Phases
<1>8. CASE Connect(u)
  <2>1. Enter(u, CellOf(u), TRUE) /\ Becomes(u, "attaching") /\ Triggered(u, Rnti(u) + 1)
    BY <1>8 DEF Connect
  <2>2. Rnti(u) + 1 \in DOMAIN trail'[u]
    <3>1. DOMAIN trail'[u] = 1 .. (Rnti(u) + 1)
      BY <1>1, <1>3, <2>1, EnterAdds
    <3> QED BY <1>3, <3>1
  <2>3. \A r \in reports' : r \in reports \/ (r \in Ue \X Nat /\ r[2] \in DOMAIN trail'[r[1]])
    BY <1>1, <1>3, <2>1, <2>2 DEF Triggered
  <2> QED BY <1>1, <1>2, <1>3, <1>6, <1>8, <2>1, <2>3, EnterAdds, RadioStepTypes
          DEF Connect, Phases
<1>9. CASE ConnectionEstablished(u)
  BY <1>2, <1>4, <1>6, <1>9, RadioStepTypes DEF ConnectionEstablished, Phases
<1>10. CASE LoseLink(u)
  <2>1. Enter(u, 0, FALSE) /\ Becomes(u, "idle") /\ Spend("failures", MaxFailures)
    BY <1>10 DEF LoseLink
  <2> QED BY <1>1, <1>2, <1>10, <2>1, EnterAdds, SpendTypes, RadioStepTypes
          DEF LoseLink, Phases
<1>11. CASE PeriodicReport(u)
  BY <1>1, <1>3, <1>4, <1>5, <1>6, <1>11, RadioStepTypes DEF PeriodicReport, radioVars
<1>12. CASE HandoverEndOk(u)
  BY <1>1, <1>2, <1>3, <1>4, <1>6, <1>12, RadioStepTypes DEF HandoverEndOk, Phases, Triggered
<1>13. CASE CompleteHandover(u)
  BY <1>2, <1>4, <1>6, <1>13, RadioStepTypes DEF CompleteHandover, Phases
<1>14. CASE HandoverEndError(u)
  <2>1. Enter(u, 0, FALSE) /\ Becomes(u, "idle") /\ Spend("failures", MaxFailures)
    BY <1>14 DEF HandoverEndError
  <2> QED BY <1>1, <1>2, <1>14, <2>1, EnterAdds, SpendTypes, RadioStepTypes
          DEF HandoverEndError, Phases
<1>15. CASE \E c \in setup.cells : EnbHandover(u, c)
  <2>1. PICK c \in setup.cells : EnbHandover(u, c)
    BY <1>15
  <2>2. Enter(u, c, TRUE) /\ c \in Cell \cup {0} /\ Becomes(u, "handover")
        /\ Spend("handovers", MaxHandovers)
    BY <1>1, <2>1 DEF EnbHandover, StartHandover
  <2> QED BY <1>1, <1>2, <2>1, <2>2, EnterAdds, SpendTypes, RadioStepTypes
          DEF EnbHandover, Phases
<1> QED BY <1>7, <1>8, <1>9, <1>10, <1>11, <1>12, <1>13, <1>14, <1>15 DEF UeStep

LEMMA RicStepTypes ==
  ASSUME TypeOK, RicStep
  PROVE  TypeOK'
<1>1. CASE QueryLms
  <2>1. PICK wild \in [Ue -> setup.cells \cup {0}] :
          running' = [l \in setup.lms |-> HandoverCommands(l, wild)]
    BY <1>1 DEF QueryLms
  <2>2. DOMAIN running' = setup.lms /\ \A l \in setup.lms : running'[l] \subseteq Commands
    BY <2>1, OrderedByRow
  <2> QED BY <1>1, <2>2 DEF QueryLms, TypeOK, radioVars
<1>2. ASSUME NEW l \in setup.lms, FinishRun(l) PROVE TypeOK'
  <2> DEFINE batches == [k \in DOMAIN collected \cup {l} |->
                           IF k = l THEN running[l] ELSE collected[k]]
  <2>1. l \in DOMAIN running /\ DOMAIN running' = DOMAIN running \ {l}
        /\ \A k \in DOMAIN running' : running'[k] = running[k]
    BY <1>2 DEF FinishRun
  <2>2. DOMAIN batches = DOMAIN collected \cup {l} /\ DOMAIN batches \subseteq setup.lms
        /\ \A k \in DOMAIN batches : batches[k] \subseteq Commands
    BY <2>1 DEF TypeOK
  <2>3. CASE DOMAIN batches = setup.lms /\ ProcessLmQueryCommands(batches)
    <3>1. UNION {batches[k] : k \in setup.lms} \subseteq Commands
      BY <2>2, <2>3
    <3>2. Filter(UNION {batches[k] : k \in setup.lms}) \subseteq Commands
      BY <3>1, FilterSelects, Zenon
    <3>3. sent' \subseteq Commands /\ pendingCmds' \subseteq Commands /\ DOMAIN collected' = {}
      <4> HIDE DEF batches
      <4> QED BY <2>3, <3>2 DEF ProcessLmQueryCommands, None, TypeOK
    <3> QED BY <1>2, <2>1, <3>3 DEF FinishRun, TypeOK, radioVars
  <2>4. CASE collected' = batches /\ UNCHANGED <<sent, pendingCmds>>
    <3>1. DOMAIN collected' \subseteq setup.lms
          /\ \A k \in DOMAIN collected' : collected'[k] \subseteq Commands
      <4> HIDE DEF batches
      <4> QED BY <2>2, <2>4
    <3> QED BY <1>2, <2>1, <2>4, <3>1 DEF FinishRun, TypeOK, radioVars
  <2> QED BY <1>2, <2>3, <2>4 DEF FinishRun
<1>3. ASSUME NEW r \in reports, SaveLteUeCellInfo(r) PROVE TypeOK'
  <2>1. r \in Ue \X Nat /\ r[2] \in DOMAIN trail[r[1]]
    BY DEF TypeOK
  <2>2. saved' \in [Ue -> SUBSET Nat] /\ \A v \in Ue : saved'[v] \subseteq DOMAIN trail[v]
    BY <1>3, <2>1 DEF SaveLteUeCellInfo, TypeOK
  <2> QED BY <1>3, <2>2 DEF SaveLteUeCellInfo, TypeOK, radioVars, ricVars
<1> QED BY <1>1, <1>2, <1>3 DEF RicStep

LEMMA TypeStep == TypeOK /\ [SteeringNext]_steeringVars => TypeOK'
<1> SUFFICES ASSUME TypeOK, [SteeringNext]_steeringVars PROVE TypeOK'
  OBVIOUS
<1>1. CASE \E u \in setup.ues : UeStep(u)
  BY <1>1, UeStepTypes
<1>2. ASSUME NEW l \in setup.lms, NEW u \in setup.ues, NEW c \in setup.cells, Measure(l, u, c)
      PROVE  TypeOK'
  <2>1. c \in Cell
    BY SetupFields DEF TypeOK
  <2>2. strongest' \in [Lm -> [Ue -> Cell]]
    BY <1>2, <2>1 DEF Measure, TypeOK
  <2> QED BY <1>2, <2>2, SpendTypes DEF Measure, TypeOK, radioVars, ricVars
<1>3. CASE RicStep
  BY <1>3, RicStepTypes
<1>4. ASSUME NEW c \in sent, CommandArrives(c) PROVE TypeOK'
  <2>1. c \in Commands /\ c.ue \in Ue /\ c.to \in Cell
    BY DEF TypeOK, Commands
  <2>2. sent' \subseteq Commands /\ setup' = setup /\ strongest' = strongest
        /\ reports' = reports /\ saved' = saved /\ UNCHANGED ricVars
    BY <1>4 DEF CommandArrives, AcceptCommand, RefuseCommand, FailCommand, TypeOK
  <2>3. CASE AcceptCommand(c)
    <3>1. Enter(c.ue, c.to, TRUE) /\ Becomes(c.ue, "handover")
      BY <2>3 DEF AcceptCommand, StartHandover
    <3>2. phase' \in [Ue -> Phases]
      BY <2>1, <3>1 DEF Becomes, Phases, TypeOK
    <3>3. /\ trail' \in [Ue -> Seq(Places)] /\ \A u \in Ue : trail'[u] # <<>>
          /\ \A u \in Ue : DOMAIN trail[u] \subseteq DOMAIN trail'[u]
      BY <2>1, <3>1, EnterAdds
    <3>4. \A u \in Ue : saved[u] \subseteq DOMAIN trail'[u]
      BY <3>3 DEF TypeOK
    <3>5. reports \subseteq {r \in Ue \X Nat : r[2] \in DOMAIN trail'[r[1]]}
      BY <3>3 DEF TypeOK
    <3> QED BY <2>2, <2>3, <3>2, <3>3, <3>4, <3>5 DEF AcceptCommand, TypeOK, ricVars
  <2>4. CASE RefuseCommand(c)
    BY <2>2, <2>4, SpendTypes DEF RefuseCommand, TypeOK, radioVars, ricVars
  <2>5. CASE FailCommand(c)
    BY <2>2, <2>5 DEF FailCommand, TypeOK, radioVars, ricVars
  <2> QED BY <1>4, <2>3, <2>4, <2>5 DEF CommandArrives
<1>5. CASE UNCHANGED steeringVars
  BY <1>5 DEF steeringVars, radioVars, ricVars, TypeOK
<1> QED BY <1>1, <1>2, <1>3, <1>4, <1>5 DEF SteeringNext

\* Every variable of the steering keeps its type: rows, reports and commands
\* are of places that their UE was in.
THEOREM TypeCorrect == Spec => []TypeOK
<1>1. Init => TypeOK
  BY TypeInit
<1>2. TypeOK /\ [SteeringNext]_steeringVars => TypeOK'
  BY TypeStep
<1> QED BY <1>1, <1>2, PTL DEF Spec

-----------------------------------------------------------------------------
(***************************************************************************)
(* The places of a UE and what it is doing.                                *)
(***************************************************************************)

Served == {"attaching", "connected", "handover", "completing"}

\* A UE that is served by a cell has an RNTI, and an RNTI comes with a cell.
RadioInv ==
  \A u \in Ue :
    /\ phase[u] = "camped" => CellOf(u) \in Cell
    /\ phase[u] \in Served => trail[u][Rnti(u)].named
    /\ \A n \in DOMAIN trail[u] : trail[u][n].named => trail[u][n].cell \in Cell

LEMMA RadioInit == Init => RadioInv
<1> SUFFICES ASSUME Init, NEW u \in Ue
             PROVE  phase[u] = "idle" /\ \A n \in DOMAIN trail[u] : ~trail[u][n].named
  BY DEF RadioInv, Served
<1>1. trail[u] = <<[cell |-> 0, named |-> FALSE]>> /\ phase[u] = "idle"
  BY DEF Init
<1> QED BY <1>1

\* A UE that enters a place: what remains to be shown is about that place.
LEMMA EnterKeepsRadio ==
  ASSUME TypeOK, RadioInv, NEW u \in Ue, NEW c \in Cell \cup {0}, NEW b \in BOOLEAN,
         NEW p \in Phases, Enter(u, c, b), Becomes(u, p),
         p = "camped" => c \in Cell, p \in Served => b, b => c \in Cell
  PROVE  RadioInv'
<1> SUFFICES ASSUME NEW v \in Ue
             PROVE  /\ phase'[v] = "camped" => CellOf(v)' \in Cell
                    /\ phase'[v] \in Served => trail'[v][Rnti(v)'].named
                    /\ \A n \in DOMAIN trail'[v] : trail'[v][n].named => trail'[v][n].cell \in Cell
  BY DEF RadioInv
<1>1. phase' = [phase EXCEPT ![u] = p] /\ phase \in [Ue -> Phases]
  BY DEF Becomes, TypeOK
<1>2. CASE v = u
  <2>1. /\ Rnti(v)' = Rnti(v) + 1 /\ DOMAIN trail'[v] = 1 .. (Rnti(v) + 1)
        /\ trail'[v][Rnti(v) + 1] = [cell |-> c, named |-> b]
        /\ \A n \in DOMAIN trail[v] : trail'[v][n] = trail[v][n]
    BY <1>2, EnterAdds
  <2>2. phase'[v] = p
    BY <1>1, <1>2
  <2>3. CellOf(v)' = c /\ trail'[v][Rnti(v)'].named = b
    BY <2>1 DEF CellOf, CellAt
  <2>4. DOMAIN trail[v] = 1 .. Rnti(v) /\ Rnti(v) \in Nat
    BY PlaceTypes
  <2>5. ASSUME NEW n \in DOMAIN trail'[v], trail'[v][n].named PROVE trail'[v][n].cell \in Cell
    <3>1. n \in DOMAIN trail[v] \/ n = Rnti(v) + 1
      BY <2>1, <2>4
    <3>2. CASE n \in DOMAIN trail[v]
      BY <2>1, <2>5, <3>2 DEF RadioInv
    <3>3. CASE n = Rnti(v) + 1
      BY <2>1, <2>5, <3>3
    <3> QED BY <3>1, <3>2, <3>3
  <2> QED BY <2>2, <2>3, <2>5
<1>3. CASE v # u
  <2>1. trail'[v] = trail[v] /\ phase'[v] = phase[v]
    BY <1>1, <1>3, EnterAdds
  <2>2. Rnti(v)' = Rnti(v) /\ CellOf(v)' = CellOf(v)
    BY <2>1 DEF Rnti, CellOf, CellAt
  <2> QED BY <2>1, <2>2 DEF RadioInv
<1> QED BY <1>2, <1>3

\* A UE that goes on where it is.
LEMMA StayKeepsRadio ==
  ASSUME TypeOK, RadioInv, NEW u \in Ue, NEW p \in Served, Becomes(u, p), UNCHANGED trail,
         phase[u] \in Served
  PROVE  RadioInv'
<1>1. phase' = [phase EXCEPT ![u] = p] /\ phase \in [Ue -> Phases]
  BY DEF Becomes, TypeOK
<1>2. \A v \in Ue : Rnti(v)' = Rnti(v) /\ CellOf(v)' = CellOf(v)
  BY DEF Rnti, CellOf, CellAt
<1>3. \A v \in Ue : phase'[v] = phase[v] \/ (v = u /\ phase'[v] \in Served)
  BY <1>1
<1>4. "camped" \notin Served
  BY DEF Served
<1> QED BY <1>2, <1>3, <1>4 DEF RadioInv

LEMMA RadioUnchanged ==
  ASSUME RadioInv, UNCHANGED radioVars
  PROVE  RadioInv'
BY DEF RadioInv, radioVars, Rnti, CellOf, CellAt

LEMMA RadioStep == TypeOK /\ RadioInv /\ [SteeringNext]_steeringVars => RadioInv'
<1> SUFFICES ASSUME TypeOK, RadioInv, [SteeringNext]_steeringVars PROVE RadioInv'
  OBVIOUS
<1>1. ASSUME NEW u \in setup.ues, UeStep(u) PROVE RadioInv'
  <2>1. u \in Ue /\ setup.cells \subseteq Cell
    BY SetupFields DEF TypeOK
  <2>2. ASSUME NEW c \in setup.cells, Camp(u, c) PROVE RadioInv'
    BY <2>1, <2>2, EnterKeepsRadio DEF Camp, Phases, Served
  <2>3. CASE Connect(u)
    <3>1. CellOf(u) \in Cell
      BY <2>1, <2>3 DEF Connect, RadioInv
    <3> QED BY <2>1, <2>3, <3>1, EnterKeepsRadio DEF Connect, Phases, Served
  <2>4. CASE ConnectionEstablished(u)
    BY <2>1, <2>4, StayKeepsRadio DEF ConnectionEstablished, Served
  <2>5. CASE LoseLink(u)
    BY <2>1, <2>5, EnterKeepsRadio DEF LoseLink, Phases, Served
  <2>6. CASE PeriodicReport(u)
    BY <2>6, RadioUnchanged DEF PeriodicReport
  <2>7. CASE HandoverEndOk(u)
    BY <2>1, <2>7, StayKeepsRadio DEF HandoverEndOk, Served
  <2>8. CASE CompleteHandover(u)
    BY <2>1, <2>8, StayKeepsRadio DEF CompleteHandover, Served
  <2>9. CASE HandoverEndError(u)
    BY <2>1, <2>9, EnterKeepsRadio DEF HandoverEndError, Phases, Served
  <2>10. ASSUME NEW c \in setup.cells, EnbHandover(u, c) PROVE RadioInv'
    BY <2>1, <2>10, EnterKeepsRadio DEF EnbHandover, StartHandover, Phases, Served
  <2> QED BY <1>1, <2>2, <2>3, <2>4, <2>5, <2>6, <2>7, <2>8, <2>9, <2>10 DEF UeStep
<1>2. ASSUME NEW l \in setup.lms, NEW u \in setup.ues, NEW c \in setup.cells, Measure(l, u, c)
      PROVE  RadioInv'
  BY <1>2, RadioUnchanged DEF Measure
<1>3. CASE RicStep
  BY <1>3, RadioUnchanged DEF RicStep, QueryLms, FinishRun, SaveLteUeCellInfo
<1>4. ASSUME NEW c \in sent, CommandArrives(c) PROVE RadioInv'
  <2>1. c.ue \in Ue /\ c.to \in Cell
    BY DEF TypeOK, Commands
  <2>2. CASE AcceptCommand(c)
    BY <2>1, <2>2, EnterKeepsRadio DEF AcceptCommand, StartHandover, Phases, Served
  <2>3. CASE RefuseCommand(c) \/ FailCommand(c)
    BY <2>3, RadioUnchanged DEF RefuseCommand, FailCommand
  <2> QED BY <1>4, <2>2, <2>3 DEF CommandArrives
<1>5. CASE UNCHANGED steeringVars
  BY <1>5, RadioUnchanged DEF steeringVars
<1> QED BY <1>1, <1>2, <1>3, <1>4, <1>5 DEF SteeringNext

-----------------------------------------------------------------------------
(***************************************************************************)
(* One order at a time.  From the query to the eNB, every command under    *)
(* way can be executed, and there is one for each UE at most.              *)
(***************************************************************************)

BatchesFresh(b) == \A l \in DOMAIN b : \A c \in b[l] : c.lm = l /\ Executable(c)
BatchesSingle(b) == \A l \in DOMAIN b : \A c, d \in b[l] : c.ue = d.ue => c = d

InStep ==
  /\ BatchesFresh(running) /\ BatchesSingle(running)
  /\ BatchesFresh(collected) /\ BatchesSingle(collected)
  /\ DOMAIN running \cap DOMAIN collected = {}
  /\ sent # {} => DOMAIN running = {} /\ DOMAIN collected = {}
  /\ \A c \in sent : Executable(c)
  /\ \A c, d \in sent : c.ue = d.ue => c = d

\* A connected UE that moves by order only stays where it is.
LEMMA ConnectedStays ==
  ASSUME TypeOK, ByOrderOnly(setup), NEW u \in setup.ues, UeStep(u),
         NEW v \in Ue, phase[v] = "connected"
  PROVE  phase'[v] = "connected" /\ trail'[v] = trail[v]
<1>1. u \in Ue /\ setup.cells \subseteq Cell
  BY SetupFields DEF TypeOK
<1>2. phase \in [Ue -> Phases]
  BY DEF TypeOK
<1>3. CASE u = v
  BY <1>1, <1>2, <1>3 DEF UeStep, Camp, Connect, ConnectionEstablished, LoseLink, PeriodicReport,
     HandoverEndOk, CompleteHandover, HandoverEndError, EnbHandover, ByOrderOnly, radioVars
<1>4. CASE u # v
  <2>1. (\E p \in Phases : Becomes(u, p)) \/ UNCHANGED phase
    BY DEF UeStep, Camp, Connect, ConnectionEstablished, LoseLink, PeriodicReport, Phases,
       HandoverEndOk, CompleteHandover, HandoverEndError, EnbHandover, StartHandover, radioVars
  <2>2. (\E c \in Cell \cup {0}, b \in BOOLEAN : Enter(u, c, b)) \/ UNCHANGED trail
    <3>1. CellOf(u) \in Cell \cup {0}
      BY <1>1, PlaceTypes DEF CellOf, CellAt, Places
    <3> QED BY <1>1, <3>1 DEF UeStep, Camp, Connect, ConnectionEstablished, LoseLink,
            PeriodicReport, HandoverEndOk, CompleteHandover, HandoverEndError, EnbHandover,
            StartHandover, radioVars
  <2>3. phase'[v] = phase[v]
    BY <1>1, <1>2, <1>4, <2>1 DEF Becomes
  <2>4. trail'[v] = trail[v]
    BY <1>1, <1>4, <2>2, EnterAdds
  <2> QED BY <2>3, <2>4
<1> QED BY <1>3, <1>4

LEMMA ExecutableStays ==
  ASSUME NEW c \in Commands, Executable(c),
         phase'[c.ue] = "connected", trail'[c.ue] = trail[c.ue]
  PROVE  Executable(c)'
BY DEF Executable, Rnti, CellOf, CellAt

\* The commands under way stay as they are, and so do the UEs they are for.
LEMMA InStepStays ==
  ASSUME TypeOK, InStep, UNCHANGED <<running, collected, sent>>,
         \A v \in Ue : phase[v] = "connected" => phase'[v] = "connected" /\ trail'[v] = trail[v]
  PROVE  InStep'
<1>1. ASSUME NEW c \in Commands, Executable(c) PROVE Executable(c)'
  <2>1. c.ue \in Ue
    BY DEF Commands
  <2>2. phase[c.ue] = "connected"
    BY <1>1 DEF Executable
  <2> QED BY <1>1, <2>1, <2>2, ExecutableStays
<1>2. /\ \A l \in DOMAIN running : running[l] \subseteq Commands
      /\ \A l \in DOMAIN collected : collected[l] \subseteq Commands
      /\ sent \subseteq Commands
  BY DEF TypeOK
<1>3. BatchesFresh(running)' /\ BatchesFresh(collected)'
  BY <1>1, <1>2 DEF InStep, BatchesFresh
<1>4. \A c \in sent : Executable(c)'
  BY <1>1, <1>2 DEF InStep
<1> QED BY <1>3, <1>4 DEF InStep, BatchesSingle

\* A timely query finds every UE in the place of its newest row.
LEMMA QueryInStep ==
  ASSUME TypeOK, RadioInv, OneAtATime(setup), InStep, QueryLms
  PROVE  InStep'
<1>1. Quiet
  BY DEF QueryLms, OneAtATime
<1>2. PICK wild \in [Ue -> setup.cells \cup {0}] :
        running' = [l \in setup.lms |-> HandoverCommands(l, wild)]
  BY DEF QueryLms
<1>3. UNCHANGED <<setup, trail, phase, collected, sent>>
  BY DEF QueryLms, radioVars
<1>4. sent = {} /\ DOMAIN collected = {}
  BY <1>1 DEF Quiet
<1>5. ASSUME NEW l \in setup.lms, NEW c \in HandoverCommands(l, wild)
      PROVE  c.lm = l /\ Executable(c)
  <2>1. /\ c \in Commands /\ c.lm = l /\ c.ue \in setup.ues /\ saved[c.ue] # {}
        /\ c.node = OldCellNode(c.ue, wild)
        /\ c.rnti = (IF trail[c.ue][Newest(c.ue)].named THEN Newest(c.ue) ELSE 0)
    BY <1>5, OrderedByRow
  <2>2. c.ue \in Ue
    BY <2>1 DEF Commands
  <2>3. phase[c.ue] = "connected" /\ Newest(c.ue) = Rnti(c.ue)
    BY <1>1, <2>1 DEF Quiet
  <2>4. Rnti(c.ue) \in DOMAIN trail[c.ue] /\ Rnti(c.ue) # 0
    BY <2>2, PlaceTypes
  <2>5. trail[c.ue][Rnti(c.ue)].named /\ trail[c.ue][Rnti(c.ue)].cell \in Cell
    BY <2>2, <2>3, <2>4 DEF RadioInv, Served
  <2>6. c.rnti = Rnti(c.ue) /\ c.rnti # 0
    BY <2>1, <2>3, <2>4, <2>5
  <2>7. CellOf(c.ue) # 0 /\ c.node = CellOf(c.ue)
    BY <2>1, <2>3, <2>5, UeAssumption DEF OldCellNode, CellOf, CellAt
  <2> QED BY <2>1, <2>3, <2>6, <2>7 DEF Executable
<1>6. ASSUME NEW l \in setup.lms, NEW c \in HandoverCommands(l, wild),
             NEW d \in HandoverCommands(l, wild), c.ue = d.ue
      PROVE  c = d
  BY <1>6 DEF HandoverCommands
<1>7. DOMAIN running' = setup.lms /\ \A l \in setup.lms : running'[l] = HandoverCommands(l, wild)
  BY <1>2
<1>8. \A c : Executable(c)' <=> Executable(c)
  BY <1>3 DEF Executable, Rnti, CellOf, CellAt
<1>9. BatchesFresh(running)' /\ BatchesSingle(running)'
  BY <1>5, <1>6, <1>7, <1>8 DEF BatchesFresh, BatchesSingle
<1>10. BatchesFresh(collected)' /\ BatchesSingle(collected)'
  BY <1>3, <1>4 DEF BatchesFresh, BatchesSingle
<1> QED BY <1>3, <1>4, <1>9, <1>10 DEF InStep

\* Two commands for one UE that meet in the filter "single": one is dropped.
LEMMA OneIsSelected ==
  ASSUME TypeOK, setup.cmm = "single", NEW all \in SUBSET Commands,
         NEW c \in Filter(all), NEW d \in Filter(all), c.ue = d.ue,
         Executable(c), Executable(d)
  PROVE  c.lm = d.lm
<1>1. /\ c \in all /\ ~\E e \in all : AffectedNode(e) = AffectedNode(c) /\ Precedes(e, c)
      /\ d \in all /\ ~\E e \in all : AffectedNode(e) = AffectedNode(d) /\ Precedes(e, d)
  BY DEF Filter
<1>2. AffectedNode(c) = c.ue /\ AffectedNode(d) = d.ue
  BY DEF Executable, AffectedNode, CellOf
<1>3. ~Precedes(c, d) /\ ~Precedes(d, c)
  BY <1>1, <1>2
<1>4. c.lm \in Nat /\ d.lm \in Nat
  BY <1>1, LmAssumption DEF Commands
<1> QED BY <1>3, <1>4 DEF Precedes, Before

\* The last module has answered: what is sent is one command for each UE.
LEMMA BatchesAreSent ==
  ASSUME TypeOK, OneAtATime(setup), NEW b, DOMAIN b = setup.lms,
         BatchesFresh(b), BatchesSingle(b), \A l \in DOMAIN b : b[l] \subseteq Commands
  PROVE  LET passed == Filter(UNION {b[l] : l \in setup.lms})
         IN /\ \A c \in passed : Executable(c)
            /\ \A c, d \in passed : c.ue = d.ue => c = d
<1> DEFINE all == UNION {b[l] : l \in setup.lms}
<1>1. \A c \in Filter(all) : \E l \in setup.lms : c \in b[l]
  <2>1. Filter(all) \subseteq all
    BY FilterSelects, Zenon
  <2> QED BY <2>1
<1>2. all \in SUBSET Commands
  OBVIOUS
<1> HIDE DEF all
<1>3. \A c \in Filter(all) : Executable(c) /\ c \in b[c.lm] /\ c.lm \in setup.lms
  BY <1>1 DEF BatchesFresh
<1>4. ASSUME NEW c \in Filter(all), NEW d \in Filter(all), c.ue = d.ue PROVE c = d
  <2>1. c.lm = d.lm
    <3>1. CASE OneLm(setup)
      BY <1>3, <3>1 DEF OneLm
    <3>2. CASE setup.cmm = "single"
      BY <1>2, <1>3, <1>4, <3>2, OneIsSelected
    <3> QED BY <3>1, <3>2 DEF OneAtATime
  <2> QED BY <1>3, <1>4, <2>1 DEF BatchesSingle
<1> QED BY <1>3, <1>4 DEF all

LEMMA FinishInStep ==
  ASSUME TypeOK, OneAtATime(setup), InStep, NEW l \in setup.lms, FinishRun(l)
  PROVE  InStep'
<1> DEFINE batches == [k \in DOMAIN collected \cup {l} |->
                         IF k = l THEN running[l] ELSE collected[k]]
<1>1. /\ l \in DOMAIN running /\ DOMAIN running' = DOMAIN running \ {l}
      /\ \A k \in DOMAIN running' : running'[k] = running[k]
  BY DEF FinishRun
<1>2. UNCHANGED <<setup, trail, phase>>
  BY DEF FinishRun, radioVars
<1>3. \A c : Executable(c)' <=> Executable(c)
  BY <1>2 DEF Executable, Rnti, CellOf, CellAt
<1>4. sent = {}
  BY <1>1 DEF InStep
<1>5. BatchesFresh(running)' /\ BatchesSingle(running)'
  BY <1>1, <1>3 DEF InStep, BatchesFresh, BatchesSingle
<1>6. /\ DOMAIN batches = DOMAIN collected \cup {l}
      /\ BatchesFresh(batches) /\ BatchesSingle(batches)
      /\ \A k \in DOMAIN batches : batches[k] \subseteq Commands
  BY <1>1 DEF InStep, BatchesFresh, BatchesSingle, TypeOK
<1>7. /\ \/ DOMAIN batches = setup.lms /\ ProcessLmQueryCommands(batches)
         \/ collected' = batches /\ UNCHANGED sent
  BY DEF FinishRun
<1> HIDE DEF batches
<1>8. CASE DOMAIN batches = setup.lms /\ ProcessLmQueryCommands(batches)
  <2> DEFINE passed == Filter(UNION {batches[k] : k \in setup.lms})
  <2>1. /\ \A c \in passed : Executable(c)
        /\ \A c, d \in passed : c.ue = d.ue => c = d
    BY <1>6, <1>8, BatchesAreSent
  <2> HIDE DEF passed
  <2>2. sent' = passed /\ DOMAIN collected' = {}
    BY <1>4, <1>8 DEF ProcessLmQueryCommands, passed, None
  <2>3. DOMAIN running' = {}
    BY <1>1, <1>6, <1>8 DEF InStep, TypeOK
  <2>4. BatchesFresh(collected)' /\ BatchesSingle(collected)'
    BY <2>2 DEF BatchesFresh, BatchesSingle
  <2> QED BY <1>3, <1>5, <2>1, <2>2, <2>3, <2>4 DEF InStep
<1>9. CASE collected' = batches /\ UNCHANGED sent
  <2>1. BatchesFresh(collected)' /\ BatchesSingle(collected)'
    BY <1>3, <1>6, <1>9 DEF BatchesFresh, BatchesSingle
  <2>2. DOMAIN running' \cap DOMAIN collected' = {}
    BY <1>1, <1>6, <1>9 DEF InStep
  <2> QED BY <1>4, <1>5, <1>9, <2>1, <2>2 DEF InStep
<1> QED BY <1>7, <1>8, <1>9

\* An order is executed: the other orders under way are for other UEs.
LEMMA CommandInStep ==
  ASSUME TypeOK, InStep, NEW c \in sent, CommandArrives(c)
  PROVE  InStep' /\ fatal' = fatal
<1>1. c \in Commands /\ c.ue \in Ue /\ c.to \in Cell \cup {0}
  BY DEF TypeOK, Commands
<1>2. Executable(c) /\ DOMAIN running = {} /\ DOMAIN collected = {}
  BY DEF InStep
<1>3. AcceptCommand(c) \/ RefuseCommand(c)
  BY <1>2 DEF CommandArrives, FailCommand
<1>4. /\ sent' = sent \ {c} /\ fatal' = fatal
      /\ running' = running /\ collected' = collected
  BY <1>3 DEF AcceptCommand, RefuseCommand, ricVars
<1>5. /\ BatchesFresh(running)' /\ BatchesFresh(collected)'
      /\ BatchesSingle(running)' /\ BatchesSingle(collected)'
  BY <1>2, <1>4 DEF BatchesFresh, BatchesSingle
<1>6. ASSUME NEW d \in sent' PROVE Executable(d)'
  <2>1. d \in Commands /\ d.ue \in Ue /\ Executable(d) /\ d.ue # c.ue
    BY <1>4 DEF InStep, TypeOK, Commands
  <2>2. CASE AcceptCommand(c)
    <3>1. phase'[d.ue] = phase[d.ue]
      BY <1>1, <2>1, <2>2 DEF AcceptCommand, StartHandover, Becomes, TypeOK
    <3>2. trail'[d.ue] = trail[d.ue]
      BY <1>1, <2>1, <2>2, EnterAdds DEF AcceptCommand, StartHandover
    <3> QED BY <2>1, <3>1, <3>2, ExecutableStays DEF Executable
  <2>3. CASE RefuseCommand(c)
    BY <2>1, <2>3 DEF RefuseCommand, radioVars, Executable, Rnti, CellOf, CellAt
  <2> QED BY <1>3, <2>2, <2>3
<1> QED BY <1>2, <1>4, <1>5, <1>6 DEF InStep

-----------------------------------------------------------------------------
(***************************************************************************)
(* One mind.  A place that a UE was in, and has reported, was left because *)
(* of an order that is still remembered and no longer under way.           *)
(***************************************************************************)

Reported(u, n) == <<u, n>> \in reports \/ n \in saved[u]

Executed(u, n) == \E c \in pendingCmds \ sent : c.ue = u /\ c.rnti = n

\* The command follows from the row it rests on.
RestsOnRow(c) ==
  /\ c.lm \in setup.lms /\ c.rnti \in saved[c.ue]
  /\ c.node = CellAt(c.ue, c.rnti) /\ c.to = strongest[c.lm][c.ue]

BatchesRest(b) == \A l \in DOMAIN b : \A c \in b[l] : RestsOnRow(c)

PlaceKnown(u, n) ==
  /\ n \in DOMAIN trail[u] /\ trail[u][n].named
  /\ n = Rnti(u) => phase[u] \in {"attaching", "connected", "completing"}
  /\ n # Rnti(u) => Executed(u, n)

InMind ==
  /\ \A u \in Ue : \A n \in Nat : Reported(u, n) => PlaceKnown(u, n)
  /\ \A u \in Ue : Rnti(u) \in saved[u] => phase[u] = "connected"
  /\ BatchesRest(running) /\ BatchesRest(collected)
  /\ \A c \in sent \cup pendingCmds : RestsOnRow(c)
  /\ sent \subseteq pendingCmds

\* Every command under way can be executed: the orders for places that a UE has
\* left were executed before.
LEMMA MindfulSent ==
  ASSUME TypeOK, OneMind(setup), InMind, NEW c \in sent
  PROVE  Executable(c)
<1>1. c \in Commands /\ c.ue \in Ue /\ c.rnti \in Nat
  BY DEF TypeOK, Commands
<1>2. RestsOnRow(c) /\ c \in pendingCmds
  BY DEF InMind
<1>3. c.rnti \in DOMAIN trail[c.ue] /\ (c.rnti # Rnti(c.ue) => Executed(c.ue, c.rnti))
  BY <1>1, <1>2 DEF InMind, Reported, PlaceKnown, RestsOnRow
<1>4. c.rnti # 0
  BY <1>1, <1>3, PlaceTypes
<1>5. c.rnti = Rnti(c.ue)
  <2> SUFFICES ASSUME Executed(c.ue, c.rnti) PROVE FALSE
    BY <1>3
  <2>1. PICK d \in pendingCmds \ sent : d.ue = c.ue /\ d.rnti = c.rnti
    BY DEF Executed
  <2>2. d \in Commands /\ RestsOnRow(d)
    BY DEF TypeOK, InMind
  <2>3. d.lm = c.lm
    BY <1>2, <2>2 DEF RestsOnRow, OneMind, OneLm
  <2>4. d.node = c.node /\ d.to = c.to
    BY <1>2, <2>1, <2>2, <2>3 DEF RestsOnRow
  <2>5. d = c
    BY <1>1, <2>1, <2>2, <2>3, <2>4 DEF Commands
  <2> QED BY <2>5
<1>6. phase[c.ue] = "connected"
  BY <1>1, <1>2, <1>5 DEF InMind, RestsOnRow
<1> QED BY <1>2, <1>4, <1>5, <1>6 DEF Executable, RestsOnRow, CellOf

\* Rows stay, and what is remembered of them stays.
LEMMA RestsStay ==
  ASSUME TypeOK, InMind, UNCHANGED <<setup, strongest, saved>>,
         \A u \in Ue : \A n \in saved[u] : trail'[u][n] = trail[u][n]
  PROVE  \A c \in Commands : RestsOnRow(c) => RestsOnRow(c)'
<1> SUFFICES ASSUME NEW c \in Commands, RestsOnRow(c) PROVE RestsOnRow(c)'
  OBVIOUS
<1>1. c.ue \in Ue /\ c.rnti \in saved[c.ue]
  BY DEF Commands, RestsOnRow
<1>2. CellAt(c.ue, c.rnti)' = CellAt(c.ue, c.rnti)
  BY <1>1 DEF CellAt
<1> QED BY <1>2 DEF RestsOnRow

LEMMA BatchesRestStay ==
  ASSUME TypeOK, InMind, UNCHANGED <<setup, strongest, saved, running, collected, pendingCmds>>,
         sent' \subseteq sent,
         \A u \in Ue : \A n \in saved[u] : trail'[u][n] = trail[u][n]
  PROVE  /\ BatchesRest(running)' /\ BatchesRest(collected)'
         /\ \A c \in sent' \cup pendingCmds' : RestsOnRow(c)'
         /\ sent' \subseteq pendingCmds'
<1>1. /\ \A l \in DOMAIN running : running[l] \subseteq Commands
      /\ \A l \in DOMAIN collected : collected[l] \subseteq Commands
      /\ sent \subseteq Commands /\ pendingCmds \subseteq Commands
  BY DEF TypeOK
<1>2. \A c \in Commands : RestsOnRow(c) => RestsOnRow(c)'
  BY RestsStay
<1>3. BatchesRest(running)' /\ BatchesRest(collected)'
  BY <1>1, <1>2 DEF InMind, BatchesRest
<1>4. \A c \in sent' \cup pendingCmds' : RestsOnRow(c)'
  BY <1>1, <1>2 DEF InMind
<1> QED BY <1>3, <1>4 DEF InMind

\* A UE leaves a place that it has not reported, or by an order executed now.
LEMMA EnterKeepsMind ==
  ASSUME TypeOK, InMind, NEW u \in Ue, NEW c \in Cell \cup {0}, NEW b \in BOOLEAN,
         NEW p \in Phases, Enter(u, c, b), Becomes(u, p),
         UNCHANGED <<setup, strongest, saved, running, collected, pendingCmds>>,
         sent' \subseteq sent,
         reports' = reports \/ (/\ reports' = reports \cup {<<u, Rnti(u) + 1>>}
                                /\ b /\ p = "attaching"),
         Reported(u, Rnti(u)) => \E d \in pendingCmds \ sent' : d.ue = u /\ d.rnti = Rnti(u)
  PROVE  InMind'
<1>1. phase' = [phase EXCEPT ![u] = p] /\ phase \in [Ue -> Phases]
  BY DEF Becomes, TypeOK
<1>2. /\ \A v \in Ue \ {u} : trail'[v] = trail[v]
      /\ Rnti(u)' = Rnti(u) + 1 /\ DOMAIN trail'[u] = 1 .. (Rnti(u) + 1)
      /\ \A n \in DOMAIN trail[u] : trail'[u][n] = trail[u][n]
      /\ trail'[u][Rnti(u) + 1] = [cell |-> c, named |-> b]
  BY EnterAdds
<1>3. Rnti(u) \in Nat /\ DOMAIN trail[u] = 1 .. Rnti(u)
  BY PlaceTypes
<1>4. \A v \in Ue : \A n \in saved[v] : trail'[v][n] = trail[v][n]
  BY <1>2 DEF TypeOK
<1>5. /\ BatchesRest(running)' /\ BatchesRest(collected)'
      /\ \A d \in sent' \cup pendingCmds' : RestsOnRow(d)'
      /\ sent' \subseteq pendingCmds'
  BY <1>4, BatchesRestStay
<1>6. \A v \in Ue \ {u} : Rnti(v)' = Rnti(v) /\ phase'[v] = phase[v]
  BY <1>1, <1>2 DEF Rnti
<1>7. \A v \in Ue, n \in Nat : Executed(v, n) => Executed(v, n)'
  BY DEF Executed
<1>8. ASSUME NEW v \in Ue, NEW n \in Nat, Reported(v, n)' PROVE PlaceKnown(v, n)'
  <2>1. CASE v # u
    <3>1. Reported(v, n)
      BY <1>8, <2>1 DEF Reported
    <3>2. PlaceKnown(v, n)
      BY <3>1 DEF InMind
    <3> QED BY <1>2, <1>6, <1>7, <2>1, <3>2 DEF PlaceKnown
  <2>2. CASE v = u /\ Reported(u, n)
    <3>1. PlaceKnown(u, n)
      BY <2>2 DEF InMind
    <3>2. n \in 1 .. Rnti(u) /\ n # Rnti(u)' /\ n \in DOMAIN trail'[u] /\ trail'[u][n].named
      BY <1>2, <1>3, <3>1 DEF PlaceKnown
    <3>3. CASE n = Rnti(u)
      BY <2>2, <3>2, <3>3 DEF PlaceKnown, Executed
    <3>4. CASE n # Rnti(u)
      BY <1>7, <2>2, <3>1, <3>2, <3>4 DEF PlaceKnown
    <3> QED BY <3>3, <3>4
  <2>3. CASE v = u /\ n = Rnti(u) + 1 /\ b /\ p = "attaching"
    <3>1. n \in DOMAIN trail'[u] /\ trail'[u][n].named /\ phase'[u] = "attaching"
      BY <1>1, <1>2, <1>3, <2>3
    <3> QED BY <1>2, <2>3, <3>1 DEF PlaceKnown
  <2> QED BY <1>8, <2>1, <2>2, <2>3 DEF Reported
<1>9. ASSUME NEW v \in Ue, Rnti(v)' \in saved'[v] PROVE phase'[v] = "connected"
  <2>1. saved[u] \subseteq 1 .. Rnti(u)
    BY <1>3 DEF TypeOK
  <2>2. v # u
    BY <1>2, <1>3, <1>9, <2>1
  <2> QED BY <1>6, <1>9, <2>2 DEF InMind
<1> QED BY <1>5, <1>8, <1>9 DEF InMind

\* A UE goes on where it is, and may report it.
LEMMA StayKeepsMind ==
  ASSUME TypeOK, InMind, NEW u \in Ue, NEW p \in {"connected", "completing"}, Becomes(u, p),
         UNCHANGED <<setup, trail, strongest, saved, running, collected, pendingCmds, sent>>,
         p = "completing" => phase[u] # "connected", trail[u][Rnti(u)].named,
         reports' = reports \/ reports' = reports \cup {<<u, Rnti(u)>>}
  PROVE  InMind'
<1>1. phase' = [phase EXCEPT ![u] = p] /\ phase \in [Ue -> Phases]
  BY DEF Becomes, TypeOK
<1>2. \A v \in Ue : Rnti(v)' = Rnti(v)
  BY DEF Rnti
<1>3. /\ BatchesRest(running)' /\ BatchesRest(collected)'
      /\ \A d \in sent' \cup pendingCmds' : RestsOnRow(d)'
      /\ sent' \subseteq pendingCmds'
  BY BatchesRestStay
<1>4. \A v \in Ue, n \in Nat : Executed(v, n) => Executed(v, n)'
  BY DEF Executed
<1>5. Rnti(u) \in DOMAIN trail[u]
  BY PlaceTypes
<1>6. ASSUME NEW v \in Ue, NEW n \in Nat, Reported(v, n)' PROVE PlaceKnown(v, n)'
  <2>1. CASE Reported(v, n)
    <3>1. PlaceKnown(v, n)
      BY <2>1 DEF InMind
    <3> QED BY <1>1, <1>2, <1>4, <3>1 DEF PlaceKnown
  <2>2. CASE v = u /\ n = Rnti(u)
    BY <1>1, <1>2, <1>5, <2>2 DEF PlaceKnown
  <2> QED BY <1>6, <2>1, <2>2 DEF Reported
<1>7. ASSUME NEW v \in Ue, Rnti(v)' \in saved'[v] PROVE phase'[v] = "connected"
  BY <1>1, <1>2, <1>7 DEF InMind
<1> QED BY <1>3, <1>6, <1>7 DEF InMind

LEMMA UeInMind ==
  ASSUME TypeOK, RadioInv, OneMind(setup), InMind, NEW u \in setup.ues, UeStep(u)
  PROVE  InMind'
<1>1. u \in Ue /\ setup.cells \subseteq Cell /\ Rnti(u) \in Nat
  BY SetupFields, PlaceTypes DEF TypeOK
<1>2. phase[u] \notin {"attaching", "connected", "completing"} => ~Reported(u, Rnti(u))
  BY <1>1 DEF InMind, PlaceKnown
<1>3. setup.trigger = "handover" /\ ~setup.loses /\ ~setup.moves
  BY DEF OneMind, ByOrderOnly
<1>4. ASSUME NEW c \in setup.cells, Camp(u, c) PROVE InMind'
  <2>1. Enter(u, c, FALSE) /\ Becomes(u, "camped") /\ ~Reported(u, Rnti(u))
    BY <1>2, <1>4 DEF Camp
  <2> QED BY <1>1, <1>4, <2>1, EnterKeepsMind DEF Camp, ricVars, Phases
<1>5. CASE Connect(u)
  <2>1. /\ Enter(u, CellOf(u), TRUE) /\ Becomes(u, "attaching") /\ ~Reported(u, Rnti(u))
        /\ reports' = reports \cup {<<u, Rnti(u) + 1>>}
    BY <1>2, <1>3, <1>5 DEF Connect, Triggered
  <2>2. CellOf(u) \in Cell
    BY <1>1, <1>5 DEF Connect, RadioInv
  <2> QED BY <1>1, <1>5, <2>1, <2>2, EnterKeepsMind DEF Connect, ricVars, Phases
<1>6. CASE ConnectionEstablished(u)
  <2>1. trail[u][Rnti(u)].named
    BY <1>1, <1>6 DEF ConnectionEstablished, RadioInv, Served
  <2> QED BY <1>1, <1>6, <2>1, StayKeepsMind DEF ConnectionEstablished, ricVars
<1>7. CASE HandoverEndOk(u)
  <2>1. trail[u][Rnti(u)].named
    BY <1>1, <1>7 DEF HandoverEndOk, RadioInv, Served
  <2> QED BY <1>1, <1>3, <1>7, <2>1, StayKeepsMind DEF HandoverEndOk, Triggered, ricVars
<1>8. CASE CompleteHandover(u)
  <2>1. trail[u][Rnti(u)].named
    BY <1>1, <1>8 DEF CompleteHandover, RadioInv, Served
  <2> QED BY <1>1, <1>8, <2>1, StayKeepsMind DEF CompleteHandover, ricVars
<1>9. CASE HandoverEndError(u)
  <2>1. Enter(u, 0, FALSE) /\ Becomes(u, "idle") /\ ~Reported(u, Rnti(u))
    BY <1>2, <1>9 DEF HandoverEndError
  <2> QED BY <1>1, <1>9, <2>1, EnterKeepsMind DEF HandoverEndError, ricVars, Phases
<1> QED BY <1>3, <1>4, <1>5, <1>6, <1>7, <1>8, <1>9
        DEF UeStep, LoseLink, PeriodicReport, EnbHandover

\* A step that leaves the UEs, the rows and the reports alone.
LEMMA RicKeepsMind ==
  ASSUME TypeOK, InMind, UNCHANGED <<setup, trail, phase, strongest, reports, saved>>,
         BatchesRest(running'), BatchesRest(collected'),
         \A c \in sent' \cup pendingCmds' : RestsOnRow(c),
         sent' \subseteq pendingCmds',
         \A u \in Ue, n \in Nat : Executed(u, n) => Executed(u, n)'
  PROVE  InMind'
<1>1. \A u \in Ue : Rnti(u)' = Rnti(u)
  BY DEF Rnti
<1>2. \A c : RestsOnRow(c)' <=> RestsOnRow(c)
  BY DEF RestsOnRow, CellAt
<1>3. BatchesRest(running)' /\ BatchesRest(collected)'
  BY <1>2 DEF BatchesRest
<1>4. \A u \in Ue, n \in Nat : Reported(u, n)' => PlaceKnown(u, n)'
  BY <1>1 DEF InMind, Reported, PlaceKnown
<1> QED BY <1>1, <1>2, <1>3, <1>4 DEF InMind

LEMMA QueryInMind ==
  ASSUME TypeOK, RadioInv, InMind, QueryLms
  PROVE  InMind'
<1>1. PICK wild \in [Ue -> setup.cells \cup {0}] :
        running' = [l \in setup.lms |-> HandoverCommands(l, wild)]
  BY DEF QueryLms
<1>2. ASSUME NEW l \in setup.lms, NEW c \in HandoverCommands(l, wild) PROVE RestsOnRow(c)
  <2>1. /\ c \in Commands /\ c.lm = l /\ saved[c.ue] # {}
        /\ c.node = OldCellNode(c.ue, wild) /\ c.to = strongest[l][c.ue]
        /\ c.rnti = (IF trail[c.ue][Newest(c.ue)].named THEN Newest(c.ue) ELSE 0)
    BY <1>2, OrderedByRow
  <2>2. c.ue \in Ue
    BY <2>1 DEF Commands
  <2>3. Newest(c.ue) \in saved[c.ue] /\ Newest(c.ue) \in Nat
    BY <2>1, <2>2, NewestIsSaved DEF TypeOK
  <2>4. Newest(c.ue) \in DOMAIN trail[c.ue] /\ trail[c.ue][Newest(c.ue)].named
    BY <2>2, <2>3 DEF InMind, Reported, PlaceKnown
  <2>5. trail[c.ue][Newest(c.ue)].cell # 0
    BY <2>2, <2>4, UeAssumption DEF RadioInv
  <2> QED BY <2>1, <2>3, <2>4, <2>5 DEF RestsOnRow, OldCellNode, CellAt
<1>3. BatchesRest(running')
  BY <1>1, <1>2 DEF BatchesRest
<1>4. UNCHANGED <<setup, trail, phase, strongest, reports, saved, collected, pendingCmds, sent>>
  BY DEF QueryLms, radioVars
<1>5. \A u \in Ue, n \in Nat : Executed(u, n) => Executed(u, n)'
  BY <1>4 DEF Executed
<1> QED BY <1>3, <1>4, <1>5, RicKeepsMind DEF InMind

LEMMA FinishInMind ==
  ASSUME TypeOK, OneMind(setup), InMind, NEW l \in setup.lms, FinishRun(l)
  PROVE  InMind'
<1> DEFINE batches == [k \in DOMAIN collected \cup {l} |->
                         IF k = l THEN running[l] ELSE collected[k]]
<1>1. /\ l \in DOMAIN running /\ DOMAIN running' = DOMAIN running \ {l}
      /\ \A k \in DOMAIN running' : running'[k] = running[k]
      /\ UNCHANGED <<setup, trail, phase, strongest, reports, saved>>
  BY DEF FinishRun, radioVars
<1>2. BatchesRest(running') /\ BatchesRest(batches)
  BY <1>1 DEF InMind, BatchesRest
<1>3. /\ \/ DOMAIN batches = setup.lms /\ ProcessLmQueryCommands(batches)
         \/ collected' = batches /\ UNCHANGED <<sent, pendingCmds>>
  BY DEF FinishRun
<1> HIDE DEF batches
<1>4. CASE DOMAIN batches = setup.lms /\ ProcessLmQueryCommands(batches)
  <2> DEFINE all == UNION {batches[k] : k \in setup.lms}
  <2>1. /\ sent' = sent \cup Filter(all) /\ pendingCmds' = pendingCmds \cup Filter(all)
        /\ DOMAIN collected' = {}
    BY <1>4 DEF ProcessLmQueryCommands, OneMind, None
  <2>2. \A c \in all : RestsOnRow(c)
    BY <1>2, <1>4 DEF BatchesRest
  <2> HIDE DEF all
  <2>3. Filter(all) = {c \in all : ~Excluded(c, all)}
    BY DEF Filter, OneMind
  <2>4. \A c \in sent' \cup pendingCmds' : RestsOnRow(c)
    BY <2>1, <2>2, <2>3 DEF InMind
  <2>5. \A c \in Filter(all) : c \notin pendingCmds
    BY <2>3 DEF Excluded, SameOrder
  <2>6. \A u \in Ue, n \in Nat : Executed(u, n) => Executed(u, n)'
    BY <2>1, <2>5 DEF Executed
  <2>7. BatchesRest(collected') /\ sent' \subseteq pendingCmds'
    BY <2>1 DEF BatchesRest, InMind
  <2> QED BY <1>1, <1>2, <2>4, <2>6, <2>7, RicKeepsMind
<1>5. CASE collected' = batches /\ UNCHANGED <<sent, pendingCmds>>
  <2>1. \A u \in Ue, n \in Nat : Executed(u, n) => Executed(u, n)'
    BY <1>5 DEF Executed
  <2> QED BY <1>1, <1>2, <1>5, <2>1, RicKeepsMind DEF InMind
<1> QED BY <1>3, <1>4, <1>5

\* A row is added: its UE is connected if it is the row of the place it is in.
LEMMA SaveInMind ==
  ASSUME TypeOK, OneMind(setup), InMind, NEW r \in reports, SaveLteUeCellInfo(r)
  PROVE  InMind'
<1> DEFINE u == r[1]
           place == r[2]
<1>1. u \in Ue /\ place \in Nat /\ r = <<u, place>>
  BY DEF TypeOK
<1>2. /\ reports' = reports \ {r} /\ phase[u] \notin {"attaching", "completing"}
      /\ \A v \in Ue : saved'[v] = IF v = u THEN saved[v] \cup {place} ELSE saved[v]
      /\ UNCHANGED <<setup, trail, phase, strongest, running, collected, pendingCmds, sent>>
  BY DEF SaveLteUeCellInfo, OneMind, TypeOK, radioVars, ricVars
<1> HIDE DEF u, place
<1>3. \A v \in Ue : Rnti(v)' = Rnti(v)
  BY <1>2 DEF Rnti
<1>4. \A v \in Ue, n \in Nat : Reported(v, n)' => Reported(v, n)
  BY <1>1, <1>2 DEF Reported
<1>5. \A v \in Ue, n \in Nat : PlaceKnown(v, n) => PlaceKnown(v, n)'
  BY <1>2, <1>3 DEF PlaceKnown, Executed
<1>6. ASSUME NEW v \in Ue, Rnti(v)' \in saved'[v] PROVE phase'[v] = "connected"
  <2>1. CASE Rnti(v) \in saved[v]
    BY <1>2, <2>1 DEF InMind
  <2>2. CASE v = u /\ Rnti(v) = place
    <3>1. Reported(u, place)
      BY <1>1 DEF Reported
    <3>2. phase[u] \in {"attaching", "connected", "completing"}
      BY <1>1, <2>2, <3>1 DEF InMind, PlaceKnown
    <3> QED BY <1>2, <2>2, <3>2
  <2> QED BY <1>2, <1>3, <1>6, <2>1, <2>2
<1>7. ASSUME NEW c \in Commands, RestsOnRow(c) PROVE RestsOnRow(c)'
  <2>1. c.ue \in Ue
    BY DEF Commands
  <2> QED BY <1>2, <1>7, <2>1 DEF RestsOnRow, CellAt
<1>8. /\ BatchesRest(running)' /\ BatchesRest(collected)'
      /\ \A c \in sent' \cup pendingCmds' : RestsOnRow(c)'
  BY <1>2, <1>7 DEF InMind, BatchesRest, TypeOK
<1> QED BY <1>2, <1>4, <1>5, <1>6, <1>8 DEF InMind

LEMMA CommandInMind ==
  ASSUME TypeOK, OneMind(setup), InMind, NEW c \in sent, CommandArrives(c)
  PROVE  InMind' /\ fatal' = fatal
<1>1. c \in Commands /\ c.ue \in Ue /\ c.to \in Cell \cup {0}
  BY DEF TypeOK, Commands
<1>2. Executable(c)
  BY MindfulSent
<1>3. AcceptCommand(c) \/ RefuseCommand(c)
  BY <1>2 DEF CommandArrives, FailCommand
<1>4. CASE AcceptCommand(c)
  <2>1. c \in pendingCmds \ sent' /\ c.rnti = Rnti(c.ue)
    BY <1>2, <1>4 DEF AcceptCommand, InMind, Executable
  <2>2. Enter(c.ue, c.to, TRUE) /\ Becomes(c.ue, "handover")
    BY <1>4 DEF AcceptCommand, StartHandover
  <2> QED BY <1>1, <1>4, <2>1, <2>2, EnterKeepsMind DEF AcceptCommand, ricVars, Phases
<1>5. CASE RefuseCommand(c)
  <2>1. \A u \in Ue, n \in Nat : Executed(u, n) => Executed(u, n)'
    BY <1>5 DEF RefuseCommand, ricVars, Executed
  <2>2. sent' \subseteq sent /\ UNCHANGED <<ricVars, setup, radioVars, strongest, reports, saved>>
    BY <1>5 DEF RefuseCommand
  <2>3. \A d \in sent' \cup pendingCmds' : RestsOnRow(d)
    BY <2>2 DEF InMind, ricVars
  <2> QED BY <1>5, <2>1, <2>2, <2>3, RicKeepsMind DEF InMind, ricVars, radioVars, RefuseCommand
<1> QED BY <1>3, <1>4, <1>5

-----------------------------------------------------------------------------
(***************************************************************************)
(* No eNB is given a command it cannot execute.                            *)
(***************************************************************************)

SteeringInv ==
  /\ TypeOK /\ RadioInv
  /\ OneAtATime(setup) => InStep
  /\ OneMind(setup) => InMind
  /\ CommandsMeetTheirUe

LEMMA SteeringInit == Init => SteeringInv
<1> SUFFICES ASSUME Init PROVE SteeringInv
  OBVIOUS
<1>1. TypeOK /\ RadioInv /\ ~fatal
  BY TypeInit, RadioInit DEF Init
<1>2. DOMAIN running = {} /\ DOMAIN collected = {} /\ sent = {} /\ pendingCmds = {}
  BY DEF Init, None
<1>3. InStep
  BY <1>2 DEF InStep, BatchesFresh, BatchesSingle
<1>4. \A u \in Ue, n \in Nat : ~Reported(u, n)
  BY DEF Init, Reported
<1>5. \A u \in Ue : saved[u] = {}
  BY DEF Init
<1>6. InMind
  BY <1>2, <1>4, <1>5 DEF InMind, BatchesRest
<1> QED BY <1>1, <1>3, <1>6 DEF SteeringInv, CommandsMeetTheirUe

LEMMA SteeringStep == SteeringInv /\ [SteeringNext]_steeringVars => SteeringInv'
<1> SUFFICES ASSUME SteeringInv, [SteeringNext]_steeringVars PROVE SteeringInv'
  OBVIOUS
<1>1. TypeOK /\ RadioInv /\ TypeOK' /\ RadioInv'
  BY TypeStep, RadioStep DEF SteeringInv
<1>2. setup' = setup
  BY DEF SteeringNext, UeStep, Camp, Connect, ConnectionEstablished, LoseLink, PeriodicReport,
     HandoverEndOk, CompleteHandover, HandoverEndError, EnbHandover, Measure, RicStep, QueryLms,
     FinishRun, SaveLteUeCellInfo, CommandArrives, AcceptCommand, RefuseCommand, FailCommand,
     steeringVars
<1>3. ASSUME OneAtATime(setup), InStep PROVE InStep' /\ (fatal' = fatal)
  <2>1. ASSUME NEW u \in setup.ues, UeStep(u) PROVE InStep' /\ fatal' = fatal
    <3>1. UNCHANGED <<running, collected, sent, fatal>>
      BY <2>1 DEF UeStep, Camp, Connect, ConnectionEstablished, LoseLink, PeriodicReport,
         HandoverEndOk, CompleteHandover, HandoverEndError, EnbHandover, ricVars
    <3>2. \A v \in Ue : phase[v] = "connected" => phase'[v] = "connected" /\ trail'[v] = trail[v]
      BY <1>1, <1>3, <2>1, ConnectedStays DEF OneAtATime
    <3> QED BY <1>1, <1>3, <3>1, <3>2, InStepStays
  <2>2. ASSUME NEW l \in setup.lms, NEW u \in setup.ues, NEW c \in setup.cells, Measure(l, u, c)
        PROVE  InStep' /\ fatal' = fatal
    BY <1>1, <1>3, <2>2, InStepStays DEF Measure, radioVars, ricVars
  <2>3. CASE QueryLms
    BY <1>1, <1>3, <2>3, QueryInStep DEF QueryLms
  <2>4. ASSUME NEW l \in setup.lms, FinishRun(l) PROVE InStep' /\ fatal' = fatal
    BY <1>1, <1>3, <2>4, FinishInStep DEF FinishRun
  <2>5. ASSUME NEW r \in reports, SaveLteUeCellInfo(r) PROVE InStep' /\ fatal' = fatal
    BY <1>1, <1>3, <2>5, InStepStays DEF SaveLteUeCellInfo, radioVars, ricVars
  <2>6. ASSUME NEW c \in sent, CommandArrives(c) PROVE InStep' /\ fatal' = fatal
    BY <1>1, <1>3, <2>6, CommandInStep
  <2>7. CASE UNCHANGED steeringVars
    BY <1>1, <1>3, <2>7, InStepStays DEF steeringVars, radioVars, ricVars
  <2> QED BY <2>1, <2>2, <2>3, <2>4, <2>5, <2>6, <2>7 DEF SteeringNext, RicStep
<1>4. ASSUME OneMind(setup), InMind PROVE InMind' /\ (fatal' = fatal)
  <2>1. ASSUME NEW u \in setup.ues, UeStep(u) PROVE InMind' /\ fatal' = fatal
    <3>1. fatal' = fatal
      BY <2>1 DEF UeStep, Camp, Connect, ConnectionEstablished, LoseLink, PeriodicReport,
         HandoverEndOk, CompleteHandover, HandoverEndError, EnbHandover
    <3> QED BY <1>1, <1>4, <2>1, <3>1, UeInMind
  <2>2. ~\E l \in setup.lms, u \in setup.ues, c \in setup.cells : Measure(l, u, c)
    BY <1>4 DEF Measure, OneMind
  <2>3. CASE QueryLms
    BY <1>1, <1>4, <2>3, QueryInMind DEF QueryLms
  <2>4. ASSUME NEW l \in setup.lms, FinishRun(l) PROVE InMind' /\ fatal' = fatal
    BY <1>1, <1>4, <2>4, FinishInMind DEF FinishRun
  <2>5. ASSUME NEW r \in reports, SaveLteUeCellInfo(r) PROVE InMind' /\ fatal' = fatal
    BY <1>1, <1>4, <2>5, SaveInMind DEF SaveLteUeCellInfo
  <2>6. ASSUME NEW c \in sent, CommandArrives(c) PROVE InMind' /\ fatal' = fatal
    BY <1>1, <1>4, <2>6, CommandInMind
  <2>7. CASE UNCHANGED steeringVars
    <3>1. UNCHANGED <<setup, trail, phase, strongest, reports, saved, running, collected,
                      pendingCmds, sent, fatal>>
      BY <2>7 DEF steeringVars, radioVars, ricVars
    <3>2. \A u \in Ue, n \in Nat : Executed(u, n) => Executed(u, n)'
      BY <3>1 DEF Executed
    <3> QED BY <1>1, <1>4, <3>1, <3>2, RicKeepsMind DEF InMind
  <2> QED BY <2>1, <2>2, <2>3, <2>4, <2>5, <2>6, <2>7 DEF SteeringNext, RicStep
<1>5. CommandsMeetTheirUe'
  BY <1>2, <1>3, <1>4 DEF SteeringInv, CommandsMeetTheirUe
<1> QED BY <1>1, <1>2, <1>3, <1>4, <1>5 DEF SteeringInv

\* No eNB is given a command for a UE that has left it or is being handed over,
\* for any numbers of UEs, cells and Logic Modules: with one order for each UE
\* and time to report its result, and with an unchanging choice and the
\* handover filter however late the reports are.
THEOREM OrdersMeetTheirUe == Spec => []CommandsMeetTheirUe
<1>1. Init => SteeringInv
  BY SteeringInit
<1>2. SteeringInv /\ [SteeringNext]_steeringVars => SteeringInv'
  BY SteeringStep
<1>3. SteeringInv => CommandsMeetTheirUe
  BY DEF SteeringInv
<1> QED BY <1>1, <1>2, <1>3, PTL DEF Spec

-----------------------------------------------------------------------------
(***************************************************************************)
(* With the reporter.  Every step of WatchedSpec is one of Spec.           *)
(***************************************************************************)

LEMMA WatchedStep == [WatchedNext]_vars => [SteeringNext]_steeringVars
<1> SUFFICES ASSUME [WatchedNext]_vars PROVE [SteeringNext]_steeringVars
  OBVIOUS
<1>1. ASSUME ~fatal, NEW u \in setup.ues, WatchedUeStep(u) PROVE SteeringNext
  BY <1>1 DEF SteeringNext, UeStep, WatchedUeStep, Unwatched
<1>2. CASE ~fatal /\ (Measurement \/ RicStep)
  BY <1>2 DEF SteeringNext, Measurement
<1>3. ASSUME ~fatal, NEW c \in sent, WatchedCommand(c) PROVE SteeringNext
  BY <1>3 DEF SteeringNext, CommandArrives, WatchedCommand
<1>4. CASE GenerateReports
  BY <1>4 DEF GenerateReports
<1>5. CASE Switch
  BY <1>5 DEF Switch
<1>6. CASE UNCHANGED vars
  BY <1>6 DEF vars
<1> QED BY <1>1, <1>2, <1>3, <1>4, <1>5, <1>6 DEF WatchedNext

LEMMA WatchedImpliesSpec == WatchedSpec => Spec
<1>1. WatchedInit => Init
  BY DEF WatchedInit
<1> QED BY <1>1, WatchedStep, PTL DEF WatchedSpec, Spec

\* The orders of the set-ups with a reporter meet their UEs as well.
THEOREM WatchedOrdersMeetTheirUe == WatchedSpec => []CommandsMeetTheirUe
BY WatchedImpliesSpec, OrdersMeetTheirUe, PTL

-----------------------------------------------------------------------------
(***************************************************************************)
(* What the reporter knows.                                                *)
(***************************************************************************)

\* Whatever is kept of UE u is about place n.
AllAbout(u, n) ==
  /\ dwell[u] \in {0, n}
  /\ dwell[u] = 0 => pendingAttach[u] \in {0, n} /\ lastHoStart[u] \in {0, n}

\* While u is followed, that is the place it is in, or the one it is leaving.
Tracked(u) ==
  /\ dwell[u] \in 0 .. Rnti(u) /\ lastHoStart[u] \in 0 .. Rnti(u)
  /\ pendingAttach[u] \in 0 .. Rnti(u)
  /\ dwell[u] # 0 \/ lastHoStart[u] # 0 => u \in imsi2ueid
  /\ phase[u] = "handover" => Rnti(u) > 1
  /\ seen[u] /\ phase[u] = "connected" => AllAbout(u, Rnti(u))
  /\ seen[u] /\ phase[u] \in {"handover", "completing"} => AllAbout(u, Rnti(u) - 1)

Recorded(e) ==
  e.event = "EndOk" /\ e.seen =>
    e.place - 1 \in DOMAIN trail[e.ue] /\ e.src = CellAt(e.ue, e.place - 1)

DwellInv ==
  /\ ReporterTypeOK
  /\ \A u \in Ue : Tracked(u)
  /\ \A i \in DOMAIN pendingEvents : Recorded(pendingEvents[i])

LEMMA DwellInit == Init /\ ReporterInit => DwellInv
<1> SUFFICES ASSUME Init, ReporterInit PROVE DwellInv
  OBVIOUS
<1>1. ReporterTypeOK
  BY DEF ReporterInit, ReporterTypeOK
<1>2. \A u \in Ue : phase[u] = "idle" /\ Rnti(u) = 1
  BY DEF Init, Rnti
<1>3. ASSUME NEW u \in Ue PROVE Tracked(u)
  <2>1. dwell[u] = 0 /\ lastHoStart[u] = 0 /\ pendingAttach[u] = 0
    BY DEF ReporterInit
  <2>2. phase[u] = "idle" /\ 0 \in 0 .. Rnti(u)
    BY <1>2
  <2> QED BY <2>1, <2>2 DEF Tracked
<1>4. DOMAIN pendingEvents = {}
  BY DEF ReporterInit
<1> QED BY <1>1, <1>3, <1>4 DEF DwellInv

\* The places of a UE are only ever added to.
TrailsGrow ==
  \A u \in Ue :
    /\ Rnti(u) \in Nat /\ Rnti(u)' \in Nat /\ Rnti(u) <= Rnti(u)'
    /\ DOMAIN trail[u] = 1 .. Rnti(u) /\ DOMAIN trail'[u] = 1 .. Rnti(u)'
    /\ \A n \in DOMAIN trail[u] : CellAt(u, n)' = CellAt(u, n)

LEMMA EnterGrows ==
  ASSUME TypeOK, TypeOK', NEW u \in Ue, NEW c \in Cell \cup {0}, NEW b \in BOOLEAN, Enter(u, c, b)
  PROVE  TrailsGrow
<1> SUFFICES ASSUME NEW v \in Ue
             PROVE  /\ Rnti(v) <= Rnti(v)'
                    /\ \A n \in DOMAIN trail[v] : CellAt(v, n)' = CellAt(v, n)
  <2>1. \A v \in Ue : /\ Rnti(v) \in Nat /\ DOMAIN trail[v] = 1 .. Rnti(v)
                      /\ Rnti(v)' \in Nat /\ DOMAIN trail'[v] = 1 .. Rnti(v)'
    <3> TAKE v \in Ue
    <3>1. DOMAIN trail[v] = 1 .. Rnti(v) /\ Rnti(v) \in Nat
      BY PlaceTypes
    <3>2. trail'[v] \in Seq(Places)
      BY DEF TypeOK
    <3> QED BY <3>1, <3>2 DEF Rnti
  <2> QED BY <2>1 DEF TrailsGrow
<1>1. Rnti(v) \in Nat
  BY PlaceTypes
<1>2. CASE v = u
  <2>1. Rnti(u)' = Rnti(u) + 1 /\ \A n \in DOMAIN trail[u] : trail'[u][n] = trail[u][n]
    BY EnterAdds
  <2>2. \A n \in DOMAIN trail[u] : CellAt(u, n)' = CellAt(u, n)
    BY <2>1 DEF CellAt
  <2> QED BY <1>1, <1>2, <2>1, <2>2
<1>3. CASE v # u
  <2>1. trail'[v] = trail[v]
    BY <1>3, EnterAdds
  <2> QED BY <1>1, <2>1 DEF CellAt, Rnti
<1> QED BY <1>2, <1>3

LEMMA StayGrows ==
  ASSUME TypeOK, UNCHANGED trail
  PROVE  TrailsGrow
<1>1. \A v \in Ue : /\ Rnti(v) \in Nat /\ DOMAIN trail[v] = 1 .. Rnti(v)
                    /\ Rnti(v)' = Rnti(v)
  BY PlaceTypes DEF Rnti
<1>2. \A v \in Ue : \A n \in DOMAIN trail[v] : CellAt(v, n)' = CellAt(v, n)
  BY DEF CellAt
<1> QED BY <1>1, <1>2 DEF TrailsGrow

\* A UE of which nothing changes remains tracked.
LEMMA StaysTracked ==
  ASSUME NEW v \in Ue, Tracked(v), trail'[v] = trail[v], phase'[v] = phase[v],
         dwell'[v] = dwell[v], lastHoStart'[v] = lastHoStart[v],
         pendingAttach'[v] = pendingAttach[v], seen'[v] = seen[v],
         imsi2ueid \subseteq imsi2ueid'
  PROVE  Tracked(v)'
<1>1. Rnti(v)' = Rnti(v)
  BY DEF Rnti
<1>2. AllAbout(v, Rnti(v))' = AllAbout(v, Rnti(v))
      /\ AllAbout(v, Rnti(v) - 1)' = AllAbout(v, Rnti(v) - 1)
  BY <1>1 DEF AllAbout
<1> QED BY <1>1, <1>2 DEF Tracked

LEMMA StaysRecorded ==
  ASSUME TrailsGrow, NEW e \in Rows, Recorded(e)
  PROVE  Recorded(e)'
<1>1. e.ue \in Ue
  BY DEF Rows
<1>2. \A n \in DOMAIN trail[e.ue] : n \in DOMAIN trail'[e.ue] /\ CellAt(e.ue, n)' = CellAt(e.ue, n)
  BY <1>1 DEF TrailsGrow
<1> QED BY <1>2 DEF Recorded

\* The events remain as they are, or one is added.
LEMMA EventsStay ==
  ASSUME DwellInv, TrailsGrow, UNCHANGED pendingEvents
  PROVE  (\A i \in DOMAIN pendingEvents : Recorded(pendingEvents[i]))'
<1>1. \A i \in DOMAIN pendingEvents : pendingEvents[i] \in Rows /\ Recorded(pendingEvents[i])
  BY DEF DwellInv, ReporterTypeOK
<1>2. ASSUME NEW i \in DOMAIN pendingEvents PROVE Recorded(pendingEvents[i])'
  <2>1. PICK e \in Rows : e = pendingEvents[i] /\ Recorded(e)
    BY <1>1
  <2>2. Recorded(e)'
    BY <2>1, StaysRecorded
  <2> QED BY <2>1, <2>2 DEF Recorded, CellAt
<1> QED BY <1>2

LEMMA EventAdded ==
  ASSUME DwellInv, TrailsGrow, NEW e \in Rows, Recorded(e)',
         pendingEvents' = Append(pendingEvents, e)
  PROVE  /\ pendingEvents' \in Seq(Rows)
         /\ (\A i \in DOMAIN pendingEvents : Recorded(pendingEvents[i]))'
<1>1. pendingEvents \in Seq(Rows)
  BY DEF DwellInv, ReporterTypeOK
<1>2. \A i \in DOMAIN pendingEvents : pendingEvents[i] \in Rows /\ Recorded(pendingEvents[i])
  BY <1>1 DEF DwellInv
<1>3. /\ DOMAIN pendingEvents = 1 .. Len(pendingEvents) /\ Len(pendingEvents) \in Nat
      /\ DOMAIN pendingEvents' = 1 .. (Len(pendingEvents) + 1)
      /\ pendingEvents'[Len(pendingEvents) + 1] = e
      /\ \A i \in DOMAIN pendingEvents : pendingEvents'[i] = pendingEvents[i]
  BY <1>1
<1>4. ASSUME NEW i \in DOMAIN pendingEvents' PROVE Recorded(pendingEvents[i])'
  <2>1. CASE i \in DOMAIN pendingEvents
    <3>1. PICK d \in Rows : d = pendingEvents[i] /\ Recorded(d)
      BY <1>2, <2>1
    <3>2. Recorded(d)' /\ pendingEvents'[i] = d
      BY <1>3, <2>1, <3>1, StaysRecorded
    <3> QED BY <3>2 DEF Recorded, CellAt
  <2>2. CASE i = Len(pendingEvents) + 1
    BY <1>3, <2>2 DEF Recorded, CellAt
  <2> QED BY <1>3, <1>4, <2>1, <2>2
<1> QED BY <1>1, <1>4

-----------------------------------------------------------------------------
(***************************************************************************)
(* The trace sinks.                                                        *)
(***************************************************************************)

LEMMA ConnEstTracked ==
  ASSUME TypeOK, DwellInv, NEW u \in Ue, ConnectionEstablished(u), ConnEstCb(u, Rnti(u))
  PROVE  DwellInv'
<1>1. TrailsGrow /\ trail' = trail
  BY StayGrows DEF ConnectionEstablished
<1>2. Rnti(u) \in Nat \ {0} /\ Rnti(u)' = Rnti(u)
  BY <1>1, PlaceTypes DEF Rnti
<1>3. phase' = [phase EXCEPT ![u] = "connected"] /\ phase \in [Ue -> Phases]
  BY DEF ConnectionEstablished, Becomes, TypeOK
<1>4. ReporterTypeOK'
  <2>1. CASE connected /\ MapUe(u, Rnti(u))
    <3>1. /\ pendingAttach' = [pendingAttach EXCEPT ![u] = 0]
          /\ imsi2ueid' = imsi2ueid \cup {u}
          /\ dwell' = [dwell EXCEPT ![u] = Rnti(u)]
          /\ seen' = [seen EXCEPT ![u] = TRUE]
          /\ UNCHANGED <<connected, lastHoStart, pendingEvents, switches>>
      BY <2>1 DEF ConnEstCb, Known, SeedDwell, Tracks, Follows
    <3> QED BY <1>2, <3>1 DEF DwellInv, ReporterTypeOK
  <2>2. CASE connected /\ ~MapUe(u, Rnti(u))
    <3> DEFINE kept == IF pendingAttach[u] = 0 THEN Rnti(u) ELSE pendingAttach[u]
    <3>1. kept \in Nat
      BY <1>2 DEF DwellInv, ReporterTypeOK
    <3>2. /\ pendingAttach' = [pendingAttach EXCEPT ![u] = kept]
          /\ seen' = [seen EXCEPT ![u] = (pendingAttach[u] = 0)]
          /\ UNCHANGED <<connected, imsi2ueid, dwell, lastHoStart, pendingEvents, switches>>
      BY <2>2 DEF ConnEstCb, Follows
    <3> HIDE DEF kept
    <3>3. seen' \in [Ue -> BOOLEAN] /\ pendingAttach' \in [Ue -> Nat]
      BY <3>1, <3>2 DEF DwellInv, ReporterTypeOK
    <3> QED BY <3>2, <3>3 DEF DwellInv, ReporterTypeOK
  <2>3. CASE ~connected
    BY <2>3 DEF ConnEstCb, Follows, DwellInv, ReporterTypeOK
  <2> QED BY <2>1, <2>2, <2>3
<1>5. UNCHANGED pendingEvents /\ imsi2ueid \subseteq imsi2ueid'
  BY DEF ConnEstCb, Known
<1>6. ASSUME NEW v \in Ue, v # u PROVE Tracked(v)'
  BY <1>1, <1>3, <1>5, <1>6, StaysTracked
     DEF ConnEstCb, Known, SeedDwell, Tracks, Follows, DwellInv, ReporterTypeOK
<1>7. Tracked(u)'
  <2>1. phase'[u] = "connected"
    BY <1>3
  <2>2. CASE connected /\ MapUe(u, Rnti(u))
    BY <1>2, <2>1, <2>2
       DEF ConnEstCb, Known, SeedDwell, Tracks, Follows, DwellInv, ReporterTypeOK, Tracked, AllAbout
  <2>3. CASE connected /\ ~MapUe(u, Rnti(u))
    <3>1. dwell[u] = 0 /\ lastHoStart[u] = 0
      BY <2>3 DEF MapUe, DwellInv, Tracked
    <3>2. /\ pendingAttach' = [pendingAttach EXCEPT ![u] = IF @ = 0 THEN Rnti(u) ELSE @]
          /\ seen' = [seen EXCEPT ![u] = (pendingAttach[u] = 0)]
          /\ UNCHANGED <<dwell, lastHoStart>>
      BY <2>3 DEF ConnEstCb, Follows
    <3>3. /\ pendingAttach'[u] = IF pendingAttach[u] = 0 THEN Rnti(u) ELSE pendingAttach[u]
          /\ seen'[u] <=> pendingAttach[u] = 0
          /\ pendingAttach[u] \in 0 .. Rnti(u)
      BY <3>2 DEF DwellInv, ReporterTypeOK, Tracked
    <3> QED BY <1>2, <2>1, <3>1, <3>2, <3>3 DEF Tracked, AllAbout
  <2>4. CASE ~connected
    BY <1>2, <2>1, <2>4 DEF ConnEstCb, Follows, DwellInv, ReporterTypeOK, Tracked
  <2> QED BY <2>2, <2>3, <2>4
<1> QED BY <1>1, <1>4, <1>5, <1>6, <1>7, EventsStay DEF DwellInv

LEMMA HoStartTracked ==
  ASSUME TypeOK, TypeOK', DwellInv, NEW u \in Ue, NEW c \in Cell, phase[u] = "connected",
         StartHandover(u, c), HoStartCb(u, Rnti(u))
  PROVE  DwellInv'
<1>1. TrailsGrow
  BY EnterGrows DEF StartHandover
<1>2. /\ Rnti(u) \in Nat \ {0} /\ Rnti(u)' = Rnti(u) + 1
      /\ \A v \in Ue \ {u} : trail'[v] = trail[v]
  BY EnterAdds, PlaceTypes DEF StartHandover
<1>3. phase' = [phase EXCEPT ![u] = "handover"] /\ phase \in [Ue -> Phases]
  BY DEF StartHandover, Becomes, TypeOK
<1>4. imsi2ueid \subseteq imsi2ueid' /\ UNCHANGED <<dwell, pendingAttach, seen>>
  BY DEF HoStartCb, Known, reporterVars, tracedVars
<1>5. ASSUME NEW v \in Ue, v # u PROVE Tracked(v)'
  <2>1. lastHoStart'[v] = lastHoStart[v]
    BY <1>5 DEF HoStartCb, reporterVars, tracedVars, DwellInv, ReporterTypeOK
  <2> QED BY <1>2, <1>3, <1>4, <1>5, <2>1, StaysTracked DEF DwellInv
<1>6. Tracked(u)'
  <2>1. phase'[u] = "handover" /\ Rnti(u)' - 1 = Rnti(u)
    BY <1>2, <1>3
  <2>2. Tracked(u) /\ (seen[u] => AllAbout(u, Rnti(u)))
    BY DEF DwellInv, Tracked
  <2>3. CASE lastHoStart'[u] = Rnti(u) /\ u \in imsi2ueid'
    BY <1>2, <1>4, <2>1, <2>2, <2>3 DEF Tracked, AllAbout
  <2>4. CASE lastHoStart'[u] = lastHoStart[u] /\ imsi2ueid' = imsi2ueid
    BY <1>2, <1>4, <2>1, <2>2, <2>4 DEF Tracked, AllAbout
  <2> QED BY <2>3, <2>4 DEF HoStartCb, Known, reporterVars, tracedVars, DwellInv, ReporterTypeOK
<1>7. ReporterTypeOK' /\ (\A i \in DOMAIN pendingEvents : Recorded(pendingEvents[i]))'
  <2>1. CASE connected /\ MapUe(u, Rnti(u))
    <3>0. PICK e : e = [ue |-> u, src |-> CellAt(u, Rnti(u)), place |-> Rnti(u) + 1,
                        event |-> "Start", seen |-> TRUE]
      OBVIOUS
    <3>1. CellAt(u, Rnti(u)) \in Cell \cup {0}
      BY PlaceTypes DEF CellAt, Places
    <3>2. e \in Rows
      BY <1>2, <3>0, <3>1 DEF Rows
    <3>3. Recorded(e)'
      BY <3>0 DEF Recorded
    <3>4. pendingEvents' = Append(pendingEvents, e)
      BY <2>1, <3>0 DEF HoStartCb
    <3>5. /\ connected' = connected /\ switches' = switches
          /\ imsi2ueid' = imsi2ueid \cup {u}
          /\ lastHoStart' = [lastHoStart EXCEPT ![u] = Rnti(u)]
      BY <2>1 DEF HoStartCb, Known
    <3>6. /\ pendingEvents' \in Seq(Rows)
          /\ (\A i \in DOMAIN pendingEvents : Recorded(pendingEvents[i]))'
      BY <1>1, <3>2, <3>3, <3>4, EventAdded
    <3>7. lastHoStart' \in [Ue -> Nat] /\ imsi2ueid' \subseteq Ue
      BY <1>2, <3>5 DEF DwellInv, ReporterTypeOK
    <3> QED BY <1>4, <3>5, <3>6, <3>7 DEF DwellInv, ReporterTypeOK
  <2>2. CASE ~(connected /\ MapUe(u, Rnti(u)))
    BY <1>1, <2>2, EventsStay DEF HoStartCb, reporterVars, tracedVars, DwellInv, ReporterTypeOK
  <2> QED BY <2>1, <2>2
<1> QED BY <1>5, <1>6, <1>7 DEF DwellInv

LEMMA HoEndTracked ==
  ASSUME TypeOK, DwellInv, NEW u \in Ue, CompleteHandover(u), HoEndOkCb(u, Rnti(u))
  PROVE  DwellInv'
<1>1. TrailsGrow /\ trail' = trail
  BY StayGrows DEF CompleteHandover
<1>2. Rnti(u) \in Nat \ {0} /\ Rnti(u)' = Rnti(u) /\ DOMAIN trail[u] = 1 .. Rnti(u)
  BY <1>1, PlaceTypes DEF Rnti
<1>3. phase[u] = "completing" /\ phase' = [phase EXCEPT ![u] = "connected"] /\ phase \in [Ue -> Phases]
  BY DEF CompleteHandover, Becomes, TypeOK
<1>4. imsi2ueid \subseteq imsi2ueid'
  BY DEF HoEndOkCb, Known
<1>5. ASSUME NEW v \in Ue, v # u PROVE Tracked(v)'
  BY <1>1, <1>3, <1>4, <1>5, StaysTracked
     DEF HoEndOkCb, Tracks, Follows, DwellInv, ReporterTypeOK
<1>6. Tracked(u)'
  <2>1. phase'[u] = "connected" /\ Tracked(u)
    BY <1>3 DEF DwellInv
  <2>2. CASE connected /\ MapUe(u, Rnti(u))
    BY <1>2, <2>1, <2>2
       DEF HoEndOkCb, Known, Tracks, Follows, DwellInv, ReporterTypeOK, Tracked, AllAbout
  <2>3. CASE ~(connected /\ MapUe(u, Rnti(u)))
    BY <1>2, <2>1, <2>3 DEF HoEndOkCb, Follows, DwellInv, ReporterTypeOK, Tracked
  <2> QED BY <2>2, <2>3
<1>7. ReporterTypeOK' /\ (\A i \in DOMAIN pendingEvents : Recorded(pendingEvents[i]))'
  <2>1. CASE connected /\ MapUe(u, Rnti(u)) /\ SourceCell(u) # 0
    <3>0. PICK e : e = [ue |-> u, src |-> SourceCell(u), place |-> Rnti(u),
                        event |-> "EndOk", seen |-> seen[u]]
      OBVIOUS
    <3>1. Tracked(u) /\ (seen[u] => AllAbout(u, Rnti(u) - 1))
      BY <1>3 DEF DwellInv, Tracked
    <3>2. \A n \in 1 .. Rnti(u) : CellAt(u, n) \in Cell \cup {0}
      BY <1>2, PlaceTypes DEF CellAt, Places
    <3>3. SourceCell(u) \in Cell \cup {0}
      BY <1>2, <3>1, <3>2 DEF SourceCell, Tracked
    <3>4. e \in Rows
      BY <1>2, <3>0, <3>3 DEF Rows, DwellInv, ReporterTypeOK
    <3>5. ASSUME seen[u] PROVE Rnti(u) - 1 \in 1 .. Rnti(u) /\ SourceCell(u) = CellAt(u, Rnti(u) - 1)
      <4>1. AllAbout(u, Rnti(u) - 1)
        BY <3>1, <3>5
      <4>2. CASE dwell[u] # 0
        BY <1>2, <4>1, <4>2 DEF AllAbout, SourceCell
      <4>3. CASE dwell[u] = 0 /\ lastHoStart[u] # 0
        BY <1>2, <4>1, <4>3 DEF AllAbout, SourceCell
      <4> QED BY <2>1, <4>2, <4>3 DEF SourceCell
    <3>6. Recorded(e)'
      <4>1. e.ue = u /\ e.place = Rnti(u) /\ e.src = SourceCell(u) /\ e.seen = seen[u]
        BY <3>0
      <4>2. e.seen => e.place - 1 \in DOMAIN trail[e.ue] /\ e.src = CellAt(e.ue, e.place - 1)
        BY <1>2, <3>5, <4>1
      <4> QED BY <1>1, <4>2 DEF Recorded, CellAt
    <3>7. pendingEvents' = Append(pendingEvents, e)
      BY <2>1, <3>0 DEF HoEndOkCb
    <3>8. /\ connected' = connected /\ switches' = switches /\ pendingAttach' = pendingAttach
          /\ imsi2ueid' = imsi2ueid \cup {u}
          /\ dwell' = [dwell EXCEPT ![u] = Rnti(u)]
          /\ lastHoStart' = [lastHoStart EXCEPT ![u] = 0]
          /\ seen' = [seen EXCEPT ![u] = TRUE]
      BY <2>1 DEF HoEndOkCb, Known, Tracks, Follows
    <3>9. /\ pendingEvents' \in Seq(Rows)
          /\ (\A i \in DOMAIN pendingEvents : Recorded(pendingEvents[i]))'
      BY <1>1, <3>4, <3>6, <3>7, EventAdded
    <3>10. /\ dwell' \in [Ue -> Nat] /\ lastHoStart' \in [Ue -> Nat] /\ imsi2ueid' \subseteq Ue
           /\ seen' \in [Ue -> BOOLEAN]
      BY <1>2, <3>8 DEF DwellInv, ReporterTypeOK
    <3> QED BY <3>8, <3>9, <3>10 DEF DwellInv, ReporterTypeOK
  <2>2. CASE connected /\ MapUe(u, Rnti(u)) /\ SourceCell(u) = 0
    <3>1. UNCHANGED pendingEvents
      BY <2>2 DEF HoEndOkCb
    <3>2. /\ connected' = connected /\ switches' = switches /\ pendingAttach' = pendingAttach
          /\ imsi2ueid' = imsi2ueid \cup {u}
          /\ dwell' = [dwell EXCEPT ![u] = Rnti(u)]
          /\ lastHoStart' = [lastHoStart EXCEPT ![u] = 0]
          /\ seen' = [seen EXCEPT ![u] = TRUE]
      BY <2>2 DEF HoEndOkCb, Known, Tracks, Follows
    <3>3. ReporterTypeOK'
      BY <1>2, <3>1, <3>2 DEF DwellInv, ReporterTypeOK
    <3> QED BY <1>1, <3>1, <3>3, EventsStay
  <2>3. CASE ~(connected /\ MapUe(u, Rnti(u)))
    BY <1>1, <2>3, EventsStay DEF HoEndOkCb, Follows, DwellInv, ReporterTypeOK
  <2> QED BY <2>1, <2>2, <2>3
<1> QED BY <1>5, <1>6, <1>7 DEF DwellInv

\* Steps that change nothing the reporter keeps but imsi2ueid and the events,
\* of a UE that goes on, or is not served any more.
LEMMA UnwatchedTracked ==
  ASSUME DwellInv, TrailsGrow, imsi2ueid \subseteq imsi2ueid', imsi2ueid' \subseteq Ue,
         UNCHANGED <<connected, pendingAttach, dwell, lastHoStart, seen, switches>>,
         \/ UNCHANGED pendingEvents
         \/ \E e \in Rows : e.event = "EndError" /\ pendingEvents' = Append(pendingEvents, e),
         \A v \in Ue : \/ trail'[v] = trail[v] /\ phase'[v] = phase[v]
                       \/ phase'[v] \notin {"connected", "handover", "completing"}
                       \/ /\ phase[v] = "handover" /\ phase'[v] = "completing"
                          /\ trail'[v] = trail[v]
  PROVE  DwellInv'
<1>1. ReporterTypeOK' /\ (\A i \in DOMAIN pendingEvents : Recorded(pendingEvents[i]))'
  <2>1. CASE UNCHANGED pendingEvents
    BY <2>1, EventsStay DEF DwellInv, ReporterTypeOK
  <2>2. ASSUME NEW e \in Rows, e.event = "EndError", pendingEvents' = Append(pendingEvents, e)
        PROVE  ReporterTypeOK' /\ (\A i \in DOMAIN pendingEvents : Recorded(pendingEvents[i]))'
    <3>1. Recorded(e)'
      BY <2>2 DEF Recorded
    <3> QED BY <2>2, <3>1, EventAdded DEF DwellInv, ReporterTypeOK
  <2> QED BY <2>1, <2>2
<1>2. ASSUME NEW v \in Ue PROVE Tracked(v)'
  <2>1. CASE trail'[v] = trail[v] /\ phase'[v] = phase[v]
    BY <2>1, StaysTracked DEF DwellInv
  <2>2. CASE phase'[v] \notin {"connected", "handover", "completing"}
    <3>1. Rnti(v) \in Nat /\ Rnti(v)' \in Nat /\ Rnti(v) <= Rnti(v)'
      BY DEF TrailsGrow
    <3> QED BY <2>2, <3>1 DEF DwellInv, Tracked
  <2>3. CASE phase[v] = "handover" /\ phase'[v] = "completing" /\ trail'[v] = trail[v]
    <3>1. Rnti(v)' = Rnti(v)
      BY <2>3 DEF Rnti
    <3>2. Tracked(v) /\ (seen[v] => AllAbout(v, Rnti(v) - 1))
      BY <2>3 DEF DwellInv, Tracked
    <3> QED BY <2>3, <3>1, <3>2 DEF Tracked, AllAbout
  <2> QED BY <2>1, <2>2, <2>3
<1> QED BY <1>1, <1>2 DEF DwellInv

\* What a failed handover of a UE adds, at a place it was in.
LEMMA FailRecorded ==
  ASSUME TypeOK, DwellInv, NEW u \in Ue, NEW place \in DOMAIN trail[u], HoFailCb(u, place)
  PROVE  /\ imsi2ueid \subseteq imsi2ueid' /\ imsi2ueid' \subseteq Ue
         /\ UNCHANGED <<connected, pendingAttach, dwell, lastHoStart, seen, switches>>
         /\ \/ UNCHANGED pendingEvents
            \/ \E e \in Rows : e.event = "EndError" /\ pendingEvents' = Append(pendingEvents, e)
<1>1. imsi2ueid \subseteq Ue
  BY DEF DwellInv, ReporterTypeOK
<1>2. CASE connected /\ MapUe(u, place)
  <2>1. PICK e : e = [ue |-> u, src |-> CellAt(u, place), place |-> place,
                      event |-> "EndError", seen |-> TRUE]
    OBVIOUS
  <2>2. CellAt(u, place) \in Cell \cup {0} /\ place \in Nat
    BY PlaceTypes DEF CellAt, Places
  <2>3. e \in Rows /\ e.event = "EndError"
    BY <2>1, <2>2 DEF Rows
  <2>4. pendingEvents' = Append(pendingEvents, e)
    BY <1>2, <2>1 DEF HoFailCb
  <2> QED BY <1>1, <1>2, <2>3, <2>4 DEF HoFailCb, Known
<1>3. CASE ~(connected /\ MapUe(u, place))
  BY <1>1, <1>3 DEF HoFailCb, reporterVars, tracedVars
<1> QED BY <1>2, <1>3

LEMMA GenerateTracked ==
  ASSUME TypeOK, DwellInv, GenerateReports
  PROVE  DwellInv'
<1>1. UNCHANGED <<trail, phase, lastHoStart, seen>> /\ pendingEvents' = <<>>
  BY DEF GenerateReports, steeringVars, radioVars
<1>2. Ready \subseteq Ue
  BY DEF Ready
<1>3. ReporterTypeOK'
  BY <1>2 DEF GenerateReports, DwellInv, ReporterTypeOK
<1>4. ASSUME NEW v \in Ue PROVE Tracked(v)'
  <2>1. Rnti(v)' = Rnti(v) /\ Rnti(v) \in Nat
    BY <1>1, PlaceTypes DEF Rnti
  <2>2. CASE v \notin Ready
    BY <1>1, <2>2, StaysTracked DEF GenerateReports, DwellInv
  <2>3. CASE v \in Ready /\ dwell[v] # 0
    BY <1>1, <2>1, <2>3 DEF GenerateReports, DwellInv, Tracked, AllAbout
  <2>4. CASE v \in Ready /\ dwell[v] = 0
    BY <1>1, <2>1, <2>4 DEF GenerateReports, Ready, DwellInv, Tracked, AllAbout
  <2> QED BY <2>2, <2>3, <2>4
<1>5. DOMAIN pendingEvents' = {}
  BY <1>1
<1> QED BY <1>3, <1>4, <1>5 DEF DwellInv

LEMMA SwitchTracked ==
  ASSUME TypeOK, DwellInv, Switch
  PROVE  DwellInv'
<1>1. /\ UNCHANGED <<trail, phase, imsi2ueid, pendingAttach, dwell, lastHoStart, pendingEvents, seen>>
      /\ connected' = ~connected /\ switches' = switches + 1
  BY DEF Switch, steeringVars, radioVars
<1>2. TrailsGrow
  BY <1>1, StayGrows
<1>3. ReporterTypeOK'
  BY <1>1 DEF DwellInv, ReporterTypeOK
<1>4. \A v \in Ue : Tracked(v)'
  BY <1>1, StaysTracked DEF DwellInv
<1> QED BY <1>1, <1>2, <1>3, <1>4, EventsStay DEF DwellInv

LEMMA DwellStep == TypeOK /\ TypeOK' /\ DwellInv /\ [WatchedNext]_vars => DwellInv'
<1> SUFFICES ASSUME TypeOK, TypeOK', DwellInv, [WatchedNext]_vars PROVE DwellInv'
  OBVIOUS
<1>1. setup.ues \subseteq Ue /\ setup.cells \subseteq Cell
  BY SetupFields DEF TypeOK
<1>2. imsi2ueid \subseteq Ue
  BY DEF DwellInv, ReporterTypeOK
<1>3. ASSUME UNCHANGED radioVars, UNCHANGED reporterVars PROVE DwellInv'
  <2>1. UNCHANGED <<trail, phase>>
    BY <1>3 DEF radioVars
  <2>2. TrailsGrow
    BY <2>1, StayGrows
  <2> QED BY <1>2, <1>3, <2>1, <2>2, UnwatchedTracked DEF reporterVars, tracedVars
<1>4. ASSUME NEW u \in setup.ues, WatchedUeStep(u) PROVE DwellInv'
  <2>1. u \in Ue
    BY <1>1
  <2>2. CASE ConnectionEstablished(u) /\ ConnEstCb(u, Rnti(u))
    BY <2>1, <2>2, ConnEstTracked
  <2>3. ASSUME NEW c \in setup.cells, EnbHandover(u, c), HoStartCb(u, Rnti(u)) PROVE DwellInv'
    BY <1>1, <2>1, <2>3, HoStartTracked DEF EnbHandover
  <2>4. CASE CompleteHandover(u) /\ HoEndOkCb(u, Rnti(u))
    BY <2>1, <2>4, HoEndTracked
  <2>5. ASSUME HandoverEndError(u), NEW place \in {Rnti(u) - 1, Rnti(u)}, HoFailCb(u, place)
        PROVE  DwellInv'
    <3>1. Enter(u, 0, FALSE) /\ phase' = [phase EXCEPT ![u] = "idle"]
      BY <2>5 DEF HandoverEndError, Becomes
    <3>2. TrailsGrow /\ \A v \in Ue \ {u} : trail'[v] = trail[v]
      BY <2>1, <3>1, EnterGrows, EnterAdds
    <3>3. \A v \in Ue : phase'[v] = IF v = u THEN "idle" ELSE phase[v]
      BY <3>1 DEF TypeOK
    <3>4. place \in DOMAIN trail[u]
      <4>1. Rnti(u) > 1 /\ Rnti(u) \in Nat /\ DOMAIN trail[u] = 1 .. Rnti(u)
        BY <2>1, <2>5, PlaceTypes DEF HandoverEndError, DwellInv, Tracked
      <4> QED BY <4>1
    <3> QED BY <2>1, <2>5, <3>2, <3>3, <3>4, FailRecorded, UnwatchedTracked
  <2>6. CASE Unwatched(u) /\ UNCHANGED reporterVars
    <3>1. /\ imsi2ueid \subseteq imsi2ueid' /\ imsi2ueid' \subseteq Ue
          /\ UNCHANGED <<connected, pendingAttach, dwell, lastHoStart, pendingEvents, seen, switches>>
      BY <1>2, <2>6 DEF reporterVars, tracedVars
    <3>2. ASSUME NEW c \in Cell \cup {0}, NEW b \in BOOLEAN,
                 NEW p \in {"idle", "camped", "attaching"}, Enter(u, c, b), Becomes(u, p)
          PROVE  DwellInv'
      <4>1. TrailsGrow /\ \A v \in Ue \ {u} : trail'[v] = trail[v]
        BY <2>1, <3>2, EnterGrows, EnterAdds
      <4>2. \A v \in Ue : phase'[v] = IF v = u THEN p ELSE phase[v]
        BY <3>2 DEF Becomes, TypeOK
      <4> QED BY <3>1, <4>1, <4>2, UnwatchedTracked
    <3>3. ASSUME NEW c \in setup.cells, Camp(u, c) PROVE DwellInv'
      BY <1>1, <3>2, <3>3 DEF Camp
    <3>4. CASE Connect(u)
      <4>1. CellOf(u) \in Cell \cup {0}
        BY <2>1, PlaceTypes DEF CellOf, CellAt, Places
      <4> QED BY <3>2, <3>4, <4>1 DEF Connect
    <3>5. CASE LoseLink(u)
      BY <3>2, <3>5 DEF LoseLink
    <3>6. CASE HandoverEndOk(u)
      <4>1. TrailsGrow /\ trail' = trail
        BY <3>6, StayGrows DEF HandoverEndOk
      <4>2. \A v \in Ue : phase'[v] = IF v = u THEN "completing" ELSE phase[v]
        BY <3>6 DEF HandoverEndOk, Becomes, TypeOK
      <4>3. phase[u] = "handover"
        BY <3>6 DEF HandoverEndOk
      <4> QED BY <3>1, <4>1, <4>2, <4>3, UnwatchedTracked
    <3>7. CASE PeriodicReport(u)
      BY <1>3, <2>6, <3>7 DEF PeriodicReport
    <3> QED BY <2>6, <3>3, <3>4, <3>5, <3>6, <3>7 DEF Unwatched
  <2> QED BY <1>4, <2>2, <2>3, <2>4, <2>5, <2>6 DEF WatchedUeStep
<1>5. CASE (Measurement \/ RicStep) /\ UNCHANGED reporterVars
  <2>1. UNCHANGED radioVars
    BY <1>5 DEF Measurement, Measure, RicStep, QueryLms, FinishRun, SaveLteUeCellInfo
  <2> QED BY <1>3, <1>5, <2>1
<1>6. ASSUME NEW c \in sent, WatchedCommand(c) PROVE DwellInv'
  <2>1. c.ue \in Ue /\ c.to \in Cell
    BY DEF TypeOK, Commands
  <2>2. CASE AcceptCommand(c) /\ HoStartCb(c.ue, Rnti(c.ue))
    BY <2>1, <2>2, HoStartTracked DEF AcceptCommand, Executable
  <2>3. CASE RefuseCommand(c) /\ HoFailCb(c.ue, Rnti(c.ue))
    <3>1. UNCHANGED <<trail, phase>>
      BY <2>3 DEF RefuseCommand, radioVars
    <3>2. TrailsGrow
      BY <3>1, StayGrows
    <3>3. Rnti(c.ue) \in DOMAIN trail[c.ue]
      BY <2>1, PlaceTypes
    <3> QED BY <2>1, <2>3, <3>1, <3>2, <3>3, FailRecorded, UnwatchedTracked
  <2>4. CASE FailCommand(c) /\ UNCHANGED reporterVars
    BY <1>3, <2>4 DEF FailCommand
  <2> QED BY <1>6, <2>2, <2>3, <2>4 DEF WatchedCommand
<1>7. CASE GenerateReports
  BY <1>7, GenerateTracked
<1>8. CASE Switch
  BY <1>8, SwitchTracked
<1>9. CASE UNCHANGED vars
  BY <1>3, <1>9 DEF vars, steeringVars
<1> QED BY <1>4, <1>5, <1>6, <1>7, <1>8, <1>9 DEF WatchedNext

LEMMA DwellInvariant == WatchedSpec => []DwellInv
<1>1. WatchedSpec => []TypeOK
  BY WatchedImpliesSpec, TypeCorrect, PTL
<1>2. WatchedInit => DwellInv
  BY DwellInit DEF WatchedInit
<1>3. TypeOK /\ TypeOK' /\ DwellInv /\ [WatchedNext]_vars => DwellInv'
  BY DwellStep
<1> QED BY <1>1, <1>2, <1>3, PTL DEF WatchedSpec

\* The dwell time of a connected UE that the reporter could follow is that of
\* the cell it is in, in every order of reports, attachments and handovers.
THEOREM DwellIsOfServingCell == WatchedSpec => []DwellOfServingCell
<1>1. DwellInv => DwellOfServingCell
  BY DEF DwellInv, Tracked, AllAbout, DwellOfServingCell
<1> QED BY <1>1, DwellInvariant, PTL

\* A completed handover that the reporter could follow is reported with the
\* cell it came from.
THEOREM EndOkIsFromTheSource == WatchedSpec => []EndOkNamesTheSource
<1>1. DwellInv => EndOkNamesTheSource
  BY DEF DwellInv, Recorded, EndOkNamesTheSource
<1> QED BY <1>1, DwellInvariant, PTL
=============================================================================
