-------------------------- MODULE DocumentedCycle --------------------------
(***************************************************************************)
(* What the query cycle promises the rest of the RIC, without timers: in   *)
(* every cycle each deployed LM is collected at most once, only while the  *)
(* cycle is open; the cycle is closed exactly once, at the latest before   *)
(* the next query, and closing it hands over exactly what was collected in *)
(* that cycle.                                                             *)
(***************************************************************************)
EXTENDS Naturals

VARIABLES
  deployed,  \* the LMs that are queried
  open,      \* the current cycle still collects commands
  query,     \* the number of the current cycle
  answered,  \* the LMs collected in the current cycle
  sent       \* the (LM, cycle) pairs handed over

vars == <<deployed, open, query, answered, sent>>

Init ==
  /\ open = FALSE
  /\ query = 0
  /\ answered = {}
  /\ sent = {}

Query ==
  /\ ~open
  /\ open' = TRUE
  /\ query' = query + 1
  /\ UNCHANGED <<deployed, answered, sent>>

Collect(l) ==
  /\ open
  /\ l \notin answered
  /\ answered \cup {l} # deployed
  /\ answered' = answered \cup {l}
  /\ UNCHANGED <<deployed, open, query, sent>>

\* Handing over the answers of the LMs in S closes the cycle.
Close(S) ==
  /\ open
  /\ open' = FALSE
  /\ answered' = {}
  /\ sent' = sent \cup {<<l, query>> : l \in S}
  /\ UNCHANGED <<deployed, query>>

\* The last LM answers.
CollectLast == answered # deployed /\ Close(deployed)

\* The wait time is over before the last LM answered.
TimeOut == answered # deployed /\ Close(answered)

Next ==
  \/ Query
  \/ \E l \in deployed : Collect(l)
  \/ CollectLast
  \/ TimeOut

Spec == Init /\ [][Next]_vars
=============================================================================
