---------------------------- MODULE CommandList ----------------------------
(***************************************************************************)
(* The command list of one cycle, from the proposals of the three agents   *)
(* to the cells: the orchestrator (a1gent/orchestrator.py) parses the      *)
(* priority, merges, filters and orders what the agents propose, and the   *)
(* command bridge (oran-lm-command-bridge.cc) applies the list one command *)
(* at a time to the cells of the snapshot.  Cells are woken, biased and    *)
(* put to sleep at once; a handover is only sent to the eNB, which         *)
(* executes it later.  What the agents propose is left open.               *)
(***************************************************************************)
EXTENDS ActionPipeline

CONSTANTS
  Cell, Ue,
  MaxTokens,                  \* bound: names in a priority string
  MaxEnergy, MaxQoe, MaxLoad  \* bounds: proposals of each agent

ASSUME ListAssumption ==
  /\ Cell \subseteq Nat \ {0} /\ Ue \subseteq Nat
  /\ {MaxTokens, MaxEnergy, MaxQoe, MaxLoad} \subseteq Nat

VARIABLES
  priority,  \* parsed priority of the cycle
  proposed,  \* the actions of the agents in priority order, duplicates included
  snap,      \* sleeping cells and serving cells
  todo,      \* commands the bridge has still to apply
  applied,   \* commands it has applied
  handovers  \* handovers it has sent that are not executed yet

listVars == <<priority, proposed, snap, todo, applied, handovers>>

Token == Agent \cup {"other"}
PowerAction == {CellSleep(c) : c \in Cell} \cup {CellWake(c) : c \in Cell}
Handover == {Ho(u, c) : u \in Ue, c \in Cell}
Bias == {SetCio(c, d) : c \in Cell, d \in Cell \cup {0}} \ {SetCio(c, c) : c \in Cell}

\* What each agent proposes in a cycle.
Batch == [energy : BoundedSeq(PowerAction \cup Handover, MaxEnergy),
          qoe : BoundedSeq(Handover, MaxQoe),
          load : BoundedSeq(Handover \cup {Ho(u, 0) : u \in Ue} \cup Bias, MaxLoad)]

ListInit ==
  /\ priority = <<>>
  /\ proposed = <<>>
  /\ snap = [sleeping |-> {}, serving |-> [u \in Ue |-> 0]]
  /\ todo = <<>>
  /\ applied = {}
  /\ handovers = {}

\* The priority of the cycle: here every string of a few names.
Prioritise ==
  /\ priority = <<>>
  /\ \E tokens \in BoundedSeq(Token, MaxTokens) : priority' = ParsePriority(tokens)
  /\ UNCHANGED <<proposed, snap, todo, applied, handovers>>

\* The agents propose; the list is merged, filtered, ordered and written.
Propose ==
  /\ priority # <<>> /\ proposed = <<>>
  /\ \E b \in Batch, sleeping \in SUBSET Cell, serving \in [Ue -> Cell] :
       /\ proposed' = b[priority[1]] \o b[priority[2]] \o b[priority[3]]
       /\ snap' = [sleeping |-> sleeping, serving |-> serving]
       /\ todo' \in Sorted(Mitigate(Merge(proposed'), snap'))
  /\ UNCHANGED <<priority, applied, handovers>>

\* ExecuteHo does something: the UE is not on the target.
Sends(a) == a.type = "ho" /\ snap.serving[a.ue] # a.target

\* One round of the loop of Run.  For a handover it wakes the target if need
\* be; the UE stays where it is until the eNB has the command.
Apply ==
  /\ todo # <<>>
  /\ LET a == Head(todo) IN
     /\ applied' = applied \cup {a}
     /\ snap' = CASE a.type = "cell_wake" -> [snap EXCEPT !.sleeping = @ \ {a.cell}]
                  [] a.type = "cell_sleep" -> [snap EXCEPT !.sleeping = @ \cup {a.cell}]
                  [] Sends(a) -> [snap EXCEPT !.sleeping = @ \ {a.target}]
                  [] OTHER -> snap
     /\ handovers' = IF Sends(a) THEN handovers \cup {a} ELSE handovers
  /\ todo' = Tail(todo)
  /\ UNCHANGED <<priority, proposed>>

\* The eNB executes a handover, some time after the bridge is done with the
\* list: Run returns the commands, and the RIC sends them.
HandOver ==
  /\ todo = <<>>
  /\ \E h \in handovers :
       /\ snap' = [snap EXCEPT !.serving[h.ue] = h.target]
       /\ handovers' = handovers \ {h}
  /\ UNCHANGED <<priority, proposed, todo, applied>>

ListNext == Prioritise \/ Propose \/ Apply \/ HandOver

ListSpec == ListInit /\ [][ListNext]_listVars

-----------------------------------------------------------------------------
\* An action that gets through is the most important proposal for its UE,
\* its cell's offsets or its cell's power: filtering a proposal out never
\* lets a less important one through in its place.
MostImportantOnly ==
  \A a \in ToSet(todo) \cup applied :
    \E i \in DOMAIN proposed :
      /\ proposed[i] = a
      /\ \A j \in 1..(i - 1) : KeyOf(proposed[j]) # KeyOf(a)

\* A cell that a command of the list steers towards is awake when its turn
\* comes, without the bridge having to wake it, and stays awake until the list
\* is done (the promise of mitigate_actions, which rests on the order in which
\* the bridge applies the list).
SteeredCellsAwake ==
  /\ \A a \in applied : a.type \in {"ho", "set_cio"} => a.target \notin snap.sleeping
  /\ todo # <<>> /\ Head(todo).type \in {"ho", "set_cio"} =>
       Head(todo).target \notin snap.sleeping

\* A cell that the list puts to sleep has no UE of the snapshot on it, not even
\* one that a handover of the same list, sent but not yet executed, will take
\* away; and no handover of the list brings one there afterwards.
NobodyPutToSleep ==
  \A a \in applied : a.type = "cell_sleep" =>
    /\ \A u \in Ue : snap.serving[u] # a.cell
    /\ \A h \in handovers : h.target # a.cell
=============================================================================
