----------------------------- MODULE MCAptTuner -----------------------------
(***************************************************************************)
(* Two knobs for the tuner.  One is in all phases, and self-heal may ask   *)
(* for it; the other is in two of them, steps beyond its bound, and is     *)
(* configured outside its bounds, like load.HEADROOM_HOT_MAX in            *)
(* experiments/configs/orchestrator.env.example.                           *)
(***************************************************************************)
EXTENDS AptTuner

CONSTANTS k1, k2

Pair(x, y) == [k \in {k1, k2} |-> IF k = k1 THEN x ELSE y]

Starts == Pair(1, 3)
Lows == Pair(0, 0)
Highs == Pair(2, 1)
Steps == Pair(1, 1)
\* As for load.CIO_INTERVAL, the phase decides on the first direction.
Directions == [p \in Phase |-> IF p = "recovery" THEN Pair(1, 1) ELSE Pair(-1, 1)]

Lists == [p \in Phase |-> IF p = "recovery" THEN <<k1>> ELSE <<k1, k2>>]
Heals == [p \in Phase |-> IF p = "emergency" THEN {k1, k2} ELSE {k1}]

\* No emergency, one that ends, and one that does not.
SomeWindows == {[start |-> {}, end |-> {}],
                [start |-> {5}, end |-> {12}],
                [start |-> {6}, end |-> {}]}
=============================================================================
