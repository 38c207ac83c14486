----------------------------- MODULE CioControl -----------------------------
(***************************************************************************)
(* Cell individual offsets, from the load agent (a1gent/agents/load.py) to *)
(* the store the UEs read them from (cio-store.cc).  The agent remembers   *)
(* for each source cell the neighbour and the offset it last decided on    *)
(* and adds its steps to that, never to what the simulator has.  Between   *)
(* the two stand the pipeline, commands.json and the command bridge, each  *)
(* of which may drop an action without the agent being told.               *)
(*                                                                         *)
(* Offsets count in steps of CIO_STEP; what makes a cell hot and what the  *)
(* LLM answers is left open, and so are the proposals of the energy agent. *)
(* Warm-up and the file protocol are those of module ControlLoop.          *)
(***************************************************************************)
EXTENDS ActionPipeline, Integers

CONSTANTS
  CioCell,         \* the cells
  CioSource,       \* those of them that may get hot
  CioMin, CioMax,  \* CIO_MIN and CIO_MAX, in steps
  CioInterval,     \* CIO_INTERVAL
  CioMaxAge,       \* IgnoreOlderThan
  MaxDecisions,    \* decisions in one answer of the LLM
  MaxCioSim        \* bound of the model

ASSUME CioAssumption ==
  /\ CioCell \subseteq Nat \ {0} /\ IsFiniteSet(CioCell) /\ CioSource \subseteq CioCell
  /\ CioMin \in Int /\ CioMax \in Int /\ CioMin <= 0 /\ 0 <= CioMax
  /\ CioInterval \in Nat /\ CioMaxAge \in Nat
  /\ MaxDecisions \in Nat /\ MaxCioSim \in Nat

VARIABLES
  cioSim,     \* simulated time of the newest reports
  cioLast,    \* last_sim_ns of the orchestrator
  cioState,   \* _cio_state, a set of at most one binding per source cell
  cioActed,   \* _last_cio_action_ns, a set of at most one time per source cell
  cioList,    \* the list to be written: {}, or its ts and its commands
  cioFile,    \* commands.json: {}, or its ts, its commands, how often it was read
  gCio,       \* g_cio, the offset of each pair of cells that has one
  newest      \* history: where the newest action of each source cell has got to

cioVars == <<cioSim, cioLast, cioState, cioActed, cioList, cioFile, gCio, newest>>

\* A set_cio with its offset; the pipeline looks at the other fields only.
Offset(cell, target, offset) ==
  [type |-> "set_cio", cell |-> cell, target |-> target, offset |-> offset]

\* What _cio_state says of a cell.
Binding(target, offset) == [target |-> target, offset |-> offset]

CioInit ==
  /\ cioSim = 1 /\ cioLast = 0
  /\ cioState = [c \in CioSource |-> {}]
  /\ cioActed = [c \in CioSource |-> {}]
  /\ cioList = {} /\ cioFile = {}
  /\ gCio = <<>>
  /\ newest = [c \in CioSource |-> "none"]

\* New reports.
CioTick ==
  /\ cioSim < MaxCioSim
  /\ cioSim' = cioSim + 1
  /\ UNCHANGED <<cioLast, cioState, cioActed, cioList, cioFile, gCio, newest>>

-----------------------------------------------------------------------------
(***************************************************************************)
(* The load agent.                                                         *)
(***************************************************************************)

\* Decisions for hot cells as the LLM may give them.  Nothing checks that the
\* target is the one of the pair.
CioDecision == [source : CioSource, target : CioCell, delta : {-1, 1}]

\* The cool-down is that of the snapshot, computed before the answer is gone
\* through.
CioCooldown(c) == \E t \in cioActed[c] : cioSim - t < CioInterval

CioClamp(offset) ==
  IF offset < CioMin THEN CioMin ELSE IF offset > CioMax THEN CioMax ELSE offset

\* Mutant of Emits: only a changed value is sent.
MutOnlyIfChanged(bound, d, updated) ==
  updated # (IF \E b \in bound : b.target = d.target
               THEN (CHOOSE b \in bound : TRUE).offset ELSE 0)

\* The action is sent: the cell has no binding, another one, or another value.
Emits(bound, d, updated) == Binding(d.target, updated) \notin bound

\* One round of the loop of _apply_cio_decisions.
ApplyCioDecision(r, d) ==
  LET bound == r.state[d.source]
      base == IF \E b \in bound : b.target = d.target
                THEN (CHOOSE b \in bound : TRUE).offset ELSE 0
      updated == CioClamp(base + d.delta)
  IN IF CioCooldown(d.source) THEN r
     ELSE [state |-> [r.state EXCEPT ![d.source] = {Binding(d.target, updated)}],
           actions |-> IF Emits(bound, d, updated)
                         THEN Append(r.actions, Offset(d.source, d.target, updated))
                         ELSE r.actions]

\* The loop: what there is after each of its rounds.
Rounds(start, decisions) ==
  LET r[i \in 0 .. Len(decisions)] ==
        IF i = 0 THEN start ELSE ApplyCioDecision(r[i - 1], decisions[i])
  IN r

\* The indices of the actions for a cell, and the last of these actions.
ActionsFor(actions, c) == {i \in DOMAIN actions : actions[i].cell = c}
Final(actions, c) ==
  actions[CHOOSE i \in ActionsFor(actions, c) : \A j \in ActionsFor(actions, c) : j <= i]

\* What is left of a cycle's actions for the store; it is nothing to the store
\* what else the list has, and in which order.
Offsets(actions, sleeping) ==
  {a \in Mitigate(Merge(actions), [sleeping |-> sleeping, serving |-> <<>>]) : a.type = "set_cio"}

\* Power commands the energy agent may propose.
Power == {<<>>} \cup {<<CellSleep(c)>> : c \in CioCell} \cup {<<CellWake(c)>> : c \in CioCell}

\* The agent has committed its state r.state and sent r.actions when the
\* pipeline drops what it does not like.
CioDecided(r, commands) ==
  LET sent == {c \in CioSource : ActionsFor(r.actions, c) # {}} IN
  /\ cioState' = r.state
  /\ cioActed' = [c \in CioSource |-> IF c \in sent THEN {cioSim} ELSE cioActed[c]]
  /\ cioList' = {[ts |-> cioSim, commands |-> commands]}
  /\ newest' = [c \in CioSource |->
                  IF c \notin sent THEN newest[c]
                  ELSE IF Final(r.actions, c) \in commands THEN "list" ELSE "lost"]

\* A cycle up to order_actions.
CioCycle ==
  /\ cioList = {} /\ cioSim > cioLast
  /\ cioLast' = cioSim
  /\ \E decisions \in BoundedSeq(CioDecision, MaxDecisions), power \in Power,
        sleeping \in SUBSET CioCell :
       LET r == Rounds([state |-> cioState, actions |-> <<>>], decisions)[Len(decisions)]
       IN CioDecided(r, Offsets(power \o r.actions, sleeping))
  /\ UNCHANGED <<cioSim, cioFile, gCio>>

-----------------------------------------------------------------------------
(***************************************************************************)
(* The way to the store.                                                   *)
(***************************************************************************)

\* Newest actions that are at one of the places go on to another one.
Move(from, to) ==
  newest' = [c \in CioSource |-> IF newest[c] \in from THEN to ELSE newest[c]]

\* write_commands_json.  A list that has not been read is gone.
CioWrite ==
  /\ cioList # {}
  /\ cioFile' = {[ts |-> l.ts, commands |-> l.commands, reads |-> 0] : l \in cioList}
  /\ cioList' = {}
  /\ newest' = [c \in CioSource |-> CASE newest[c] = "list" -> "file"
                                    [] newest[c] = "file" -> "lost"
                                    [] OTHER -> newest[c]]
  /\ UNCHANGED <<cioSim, cioLast, cioState, cioActed, gCio>>

\* Something raises after the agents have decided ("orchestrator error").
CioCycleFails ==
  /\ cioList # {}
  /\ cioList' = {}
  /\ Move({"list"}, "lost")
  /\ UNCHANGED <<cioSim, cioLast, cioState, cioActed, cioFile, gCio>>

\* The orchestrator is started again, removes the file and knows nothing; the
\* store is the simulator's and stays.
CioRestart ==
  /\ cioLast # 0
  /\ cioLast' = 0
  /\ cioState' = [c \in CioSource |-> {}]
  /\ cioActed' = [c \in CioSource |-> {}]
  /\ cioList' = {} /\ cioFile' = {}
  /\ Move({"list", "file"}, "lost")
  /\ UNCHANGED <<cioSim, gCio>>

\* What CioStore::ClearSrc leaves for cell c.
ClearSrc(g, c) == {k \in DOMAIN g : k[1] # c}

\* ApplyCio of the command bridge, for all of a list: no two are for one cell.
ApplyCio(g, commands) ==
  [k \in {k \in DOMAIN g : \A a \in commands : k \in ClearSrc(g, a.cell)}
            \cup {<<a.cell, a.target>> : a \in commands} |->
     IF \E a \in commands : a.cell = k[1]
       THEN (CHOOSE a \in commands : a.cell = k[1]).offset ELSE g[k]]

\* The bridge polls the file.  A file that replaced another one between stat
\* and open is read a second time.
CioBridgeRun ==
  \E f \in cioFile :
    /\ f.reads < 2
    /\ cioFile' = {[f EXCEPT !.reads = @ + 1]}
    /\ \/ /\ cioSim - f.ts > CioMaxAge
          /\ Move({"file"}, "lost")
          /\ UNCHANGED gCio
       \/ /\ cioSim - f.ts <= CioMaxAge
          /\ gCio' = ApplyCio(gCio, f.commands)
          /\ Move({"file"}, "store")
    /\ UNCHANGED <<cioSim, cioLast, cioState, cioActed, cioList>>

CioNext ==
  CioTick \/ CioCycle \/ CioWrite \/ CioCycleFails \/ CioRestart \/ CioBridgeRun

CioSpec == CioInit /\ [][CioNext]_cioVars

-----------------------------------------------------------------------------
\* CioStore::Get.
Ocn(source, target) == IF <<source, target>> \in DOMAIN gCio THEN gCio[<<source, target>>] ELSE 0

\* When the newest action for a cell has reached the store, the UEs of the
\* cell are biased exactly as the agent believes they are: towards its one
\* neighbour, by its offset, and towards no other cell, whatever was dropped,
\* overtaken, read twice or forgotten in a restart before.
BiasIsAsBelieved ==
  \A c \in CioSource : \A b \in cioState[c] : newest[c] = "store" =>
    \A n \in CioCell : Ocn(c, n) = IF n = b.target THEN b.offset ELSE 0
=============================================================================
