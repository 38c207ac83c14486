--------------------------- MODULE ActionPipeline ---------------------------
(***************************************************************************)
(* How the orchestrator (a1gent/orchestrator.py) turns the proposals of    *)
(* its three agents into one command list: the intent phase selects a      *)
(* priority, merge_actions removes what a more important agent overrides,  *)
(* mitigate_actions what conflicts with the power state of the cells, and  *)
(* order_actions fixes the order in which the command bridge applies the   *)
(* rest.  Cells and UEs are numbers; cell 0 stands for a missing one.      *)
(***************************************************************************)
EXTENDS Naturals, Sequences, FiniteSets, SequencesExt, TLC

Agent == {"energy", "qoe", "load"}

\* The actions of models.py; the offset of a set_cio is left out.
Ho(ue, target) == [type |-> "ho", ue |-> ue, target |-> target]
SetCio(cell, target) == [type |-> "set_cio", cell |-> cell, target |-> target]
CellSleep(cell) == [type |-> "cell_sleep", cell |-> cell]
CellWake(cell) == [type |-> "cell_wake", cell |-> cell]

-----------------------------------------------------------------------------
(***************************************************************************)
(* Intent.                                                                 *)
(***************************************************************************)

\* Default order of the agents a priority string does not name.
AgentKeys == <<"energy", "qoe", "load">>

\* A name of s counts where it first occurs.
FirstAt(s, name) ==
  CHOOSE i \in DOMAIN s : s[i] = name /\ \A j \in 1 .. i - 1 : s[j] # name

\* parse_priority of a tokenised string; names of no agent are skipped.
ParsePriority(tokens) ==
  CHOOSE p \in [1 .. 3 -> Agent] : \A i, j \in 1 .. 3 : i < j =>
    FirstAt(tokens \o AgentKeys, p[i]) < FirstAt(tokens \o AgentKeys, p[j])

\* determine_phase without a forced phase; an unset bound is {}.
DeterminePhase(sim, start, end) ==
  IF (\E s \in start : sim >= s) /\ (\A e \in end : sim < e)
    THEN "emergency"
    ELSE IF \E e \in end : sim >= e THEN "recovery" ELSE "normal"

-----------------------------------------------------------------------------
(***************************************************************************)
(* Merging.                                                                *)
(***************************************************************************)

\* What an action competes for with the actions of other agents.
KeyOf(a) ==
  CASE a.type = "ho" -> <<"ue", a.ue>>
    [] a.type = "set_cio" -> <<"cio", a.cell>>
    [] OTHER -> <<"power", a.cell>>

\* Mutant of Unseen: the keys of accepted actions are forgotten.
MutKeyForgotten(s, i) == TRUE

\* No action of s before the i-th has its key.
Unseen(s, i) == \A j \in 1 .. i - 1 : KeyOf(s[j]) # KeyOf(s[i])

\* merge_actions of the batches in one sequence, the most important one first.
\* No two of the result have the same key, so they can be a set until they are
\* ordered.
Merge(s) == {s[i] : i \in {k \in DOMAIN s : Unseen(s, k)}}

-----------------------------------------------------------------------------
(***************************************************************************)
(* Mitigation.  A snapshot has the cells that sleep and the serving cell   *)
(* of each UE.                                                             *)
(***************************************************************************)

WakeCells(A) == {a.cell : a \in {b \in A : b.type = "cell_wake"}}
SleepCells(A) == {a.cell : a \in {b \in A : b.type = "cell_sleep"}} \ WakeCells(A)

\* The cells nothing may be steered into.
BannedTargets(A, sleeping) == SleepCells(A) \cup (sleeping \ WakeCells(A))

\* Mutant of Drained: every cell counts as drained.
MutNotDrained(cell, snap) == TRUE

\* No UE is served by the cell in the snapshot.
Drained(cell, snap) == \A u \in DOMAIN snap.serving : snap.serving[u] # cell

\* Action a of the actions A passes the filter.
Kept(a, A, snap) ==
  \/ a.type = "cell_wake"
  \/ /\ a.type = "cell_sleep"
     /\ a.cell \notin snap.sleeping
     /\ a.cell \notin WakeCells(A)
     /\ Drained(a.cell, snap)
  \/ /\ a.type = "ho"
     /\ a.target # 0
     /\ a.target \notin BannedTargets(A, snap.sleeping)
  \/ /\ a.type = "set_cio"
     /\ a.target # 0
     /\ a.target \notin BannedTargets(A, snap.sleeping)
     /\ a.cell \notin SleepCells(A)

Mitigate(A, snap) == {a \in A : Kept(a, A, snap)}

-----------------------------------------------------------------------------
(***************************************************************************)
(* Ordering.                                                               *)
(***************************************************************************)

\* Mutant of Rank: handovers come first.
MutHoFirst(a) ==
  CASE a.type = "ho" -> 0 [] a.type = "cell_wake" -> 1
    [] a.type = "set_cio" -> 2 [] OTHER -> 3

Rank(a) ==
  CASE a.type = "cell_wake" -> 0 [] a.type = "ho" -> 1
    [] a.type = "set_cio" -> 2 [] OTHER -> 3

Subject(a) == IF a.type = "ho" THEN a.ue ELSE a.cell

\* After merging, no two actions have the same rank and subject.
Before(a, b) ==
  \/ Rank(a) < Rank(b)
  \/ Rank(a) = Rank(b) /\ Subject(a) < Subject(b)

\* order_actions: the one sequence of the actions in S that is sorted by type
\* and subject.
Sorted(S) ==
  {s \in [1 .. Cardinality(S) -> S] : \A i, j \in DOMAIN s : i < j => Before(s[i], s[j])}
=============================================================================
