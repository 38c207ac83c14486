------------------------- MODULE OrchestratorProofs -------------------------
(***************************************************************************)
(* Proofs about the orchestrator's own decisions.                          *)
(*  - The tuner, for any knobs, bounds, steps, phases and times: it keeps  *)
(*    its types and bounds, only accepted trials leave a trace, and a      *)
(*    value is accepted on what was observed with it.                      *)
(*  - The command list of a cycle, for any cells, UEs and proposals.       *)
(*  - The offsets, for any cells, limits, decisions and timing: what has   *)
(*    reached the store is what the load agent believes.                   *)
(***************************************************************************)
EXTENDS AptTuner, CommandList, CioControl, FiniteSetTheorems,
        SequenceTheorems, WellFoundedInduction, TLAPS

\* What is accepted, and what is on trial, is within the bounds.
KeptInBounds ==
  /\ \A k \in Knob : kept[k] \in Lo[k] .. Hi[k] \cup {Start[k]}
  /\ \A t \in trial : t.new \in Lo[t.knob] .. Hi[t.knob]

TunerInv == TypeOK /\ KeptInBounds /\ OnlyAcceptedStays

\* A knob is limited to its bounds, and one within them is left alone.
LEMMA ClampInBounds ==
  ASSUME NEW k \in Knob, NEW x \in Int
  PROVE  /\ Clamp(k, x) \in Lo[k] .. Hi[k]
         /\ Clamp(k, x) \in Int
         /\ x \in Lo[k] .. Hi[k] => Clamp(k, x) = x
BY TunerAssumption DEF Clamp

\* The phase of a cycle is a phase.
LEMMA PhaseType ==
  ASSUME NEW s, NEW w
  PROVE  DeterminePhase(s, w.start, w.end) \in Phase
BY DEF DeterminePhase, Phase

\* The next index is one of the phase's knobs.
LEMMA NextIndex ==
  ASSUME NEW p \in Phase, NEW i \in Nat, i < Len(KnobsOf[p])
  PROVE  /\ (i + 1) % Len(KnobsOf[p]) \in Nat
         /\ (i + 1) % Len(KnobsOf[p]) < Len(KnobsOf[p])
<1> DEFINE n == Len(KnobsOf[p])
<1>1. n \in Nat /\ n > 0
  BY TunerAssumption
<1> HIDE DEF n
<1>2. (i + 1) % n \in 0 .. (n - 1)
  BY <1>1
<1>3. (i + 1) % n \in Nat /\ (i + 1) % n < n
  BY <1>1, <1>2
<1>4. QED
  BY <1>3 DEF n

\* Ages stay in their ranges.
LEMMA AgeTypes ==
  ASSUME TypeOK
  PROVE  /\ TuneAge \in 0 .. Interval /\ HealAge \in 0 .. Cooldown
         /\ 0 \in 0 .. Interval /\ 0 \in 0 .. Cooldown /\ 0 \in 0 .. Eval
         /\ Least(sim + 1, MaxSim) \in 0 .. MaxSim
<1>1. /\ Interval \in Nat /\ Cooldown \in Nat /\ Eval \in Nat /\ MaxSim \in Nat
  BY TunerAssumption
<1>2. sinceTune \in 0 .. Interval /\ sinceHeal \in 0 .. Cooldown /\ sim \in 0 .. MaxSim
  BY DEF TypeOK
<1>3. QED
  BY <1>1, <1>2 DEF TuneAge, HealAge, Least

\* A trial that gets older is the same trial.
LEMMA OlderType ==
  ASSUME NEW t \in [knob : Knob, old : Int, new : Int, age : 0 .. Eval, phase : Phase]
  PROVE  /\ Older(t) \in [knob : Knob, old : Int, new : Int, age : 0 .. Eval, phase : Phase]
         /\ Older(t).knob = t.knob /\ Older(t).old = t.old /\ Older(t).new = t.new
<1> DEFINE a == Least(t.age + 1, Eval)
<1>1. a \in 0 .. Eval
  <2>1. t.age \in 0 .. Eval /\ Eval \in Nat
    BY TunerAssumption
  <2>2. QED
    BY <2>1 DEF Least
<1> HIDE DEF a
<1>2. Older(t) = [t EXCEPT !.age = a]
  BY DEF Older, a
<1>3. QED
  BY <1>1, <1>2

\* Directions stay directions.
LEMMA TurnedType ==
  ASSUME NEW d \in [Knob -> {-1, 0, 1}], NEW k \in Knob, NEW p \in Phase
  PROVE  Turned(d, k, p) \in [Knob -> {-1, 0, 1}]
<1>1. LastDir(d, k, p) \in {-1, 1}
  <2>1. Preferred[p][k] \in {-1, 1}
    BY TunerAssumption
  <2>2. QED
    BY <2>1 DEF LastDir
<1>2. -LastDir(d, k, p) \in {-1, 1}
  BY <1>1
<1>3. QED
  BY <1>1, <1>2 DEF Turned

\* Starting a trial: its knob leaves the value that is kept.
LEMMA StartStep ==
  ASSUME TunerInv, NEW d \in [Knob -> {-1, 0, 1}], NEW k \in Knob, NEW p \in Phase,
         trial = {}, StartTrial(d, k, p)
  PROVE  /\ trial' \subseteq [knob : Knob, old : Int, new : Int, age : 0 .. Eval, phase : Phase]
         /\ \A s, t \in trial' : s = t
         /\ value' \in [Knob -> Int]
         /\ \A j \in Knob : value'[j] \in Lo[j] .. Hi[j] \cup {Start[j]}
         /\ dir' \in [Knob -> {-1, 0, 1}]
         /\ KeptInBounds' /\ OnlyAcceptedStays'
<1> DEFINE m == Moved(d, k, p)
<1>1. Turned(d, k, p) \in [Knob -> {-1, 0, 1}]
  BY TurnedType
<1>2. value[k] \in Int /\ value[k] + Turned(d, k, p)[k] * Step[k] \in Int
  <2>1. value[k] \in Int
    BY DEF TunerInv, TypeOK
  <2>2. Step[k] \in Nat
    BY TunerAssumption
  <2>3. Turned(d, k, p)[k] * Step[k] \in Int
    BY <1>1, <2>2
  <2>4. QED
    BY <2>1, <2>3
<1>3. m \in Int /\ m \in Lo[k] .. Hi[k] /\ Clamp(k, m) = m
  BY <1>2, ClampInBounds DEF Moved
<1> HIDE DEF m
<1>4. /\ value' = [value EXCEPT ![k] = m]
      /\ trial' = {[knob |-> k, old |-> value[k], new |-> m, age |-> 0, phase |-> p]}
      /\ dir' = Turned(d, k, p) /\ kept' = kept
  BY <1>3 DEF StartTrial, SetKnob, m
<1>5. value \in [Knob -> Int] /\ \A j \in Knob : value[j] \in Lo[j] .. Hi[j] \cup {Start[j]}
  BY DEF TunerInv, TypeOK
<1>6. \A j \in Knob : value'[j] = IF j = k THEN m ELSE value[j]
  BY <1>4, <1>5
<1>7. trial' \subseteq [knob : Knob, old : Int, new : Int, age : 0 .. Eval, phase : Phase]
  BY <1>2, <1>3, <1>4, AgeTypes DEF TunerInv
<1>8. KeptInBounds'
  BY <1>3, <1>4 DEF TunerInv, KeptInBounds
<1>9. OnlyAcceptedStays'
  <2>1. \A j \in Knob : Start[j] \in Lo[j] .. Hi[j] => value[j] = kept[j]
    BY DEF TunerInv, OnlyAcceptedStays
  <2>2. QED
    BY <1>4, <1>6, <2>1 DEF OnlyAcceptedStays
<1>10. QED
  BY <1>1, <1>3, <1>4, <1>5, <1>6, <1>7, <1>8, <1>9

\* Undoing a trial: its knob goes back to what it was.
LEMMA UndoStep ==
  ASSUME TunerInv, NEW t \in trial, SetKnob(t.knob, t.old), trial' = {}, kept' = kept
  PROVE  /\ value' \in [Knob -> Int]
         /\ \A j \in Knob : value'[j] \in Lo[j] .. Hi[j] \cup {Start[j]}
         /\ KeptInBounds' /\ OnlyAcceptedStays'
<1> DEFINE k == t.knob
           m == Clamp(k, t.old)
<1>1. k \in Knob /\ t.old \in Int /\ \A s \in trial : s = t
  BY DEF TunerInv, TypeOK
<1>2. m \in Lo[k] .. Hi[k] /\ m \in Int /\ (t.old \in Lo[k] .. Hi[k] => m = t.old)
  BY <1>1, ClampInBounds
<1>3. value' = [value EXCEPT ![k] = m]
  BY DEF SetKnob
<1>4. Start[k] \in Lo[k] .. Hi[k] => t.old = kept[k] /\ kept[k] \in Lo[k] .. Hi[k]
  BY <1>1 DEF TunerInv, OnlyAcceptedStays, KeptInBounds
<1> HIDE DEF m
<1>5. value \in [Knob -> Int] /\ \A j \in Knob : value[j] \in Lo[j] .. Hi[j] \cup {Start[j]}
  BY DEF TunerInv, TypeOK
<1>6. \A j \in Knob : value'[j] = IF j = k THEN m ELSE value[j]
  BY <1>3, <1>5
<1>7. OnlyAcceptedStays'
  <2>1. \A j \in Knob : j # k /\ Start[j] \in Lo[j] .. Hi[j] => value[j] = kept[j]
    BY <1>1 DEF TunerInv, OnlyAcceptedStays
  <2>2. QED
    BY <1>2, <1>4, <1>6, <2>1 DEF OnlyAcceptedStays
<1>8. QED
  BY <1>1, <1>2, <1>3, <1>5, <1>6, <1>7 DEF TunerInv, KeptInBounds

\* Accepting a trial: its value is kept.
LEMMA AcceptStep ==
  ASSUME TunerInv, NEW t \in trial, kept' = [kept EXCEPT ![t.knob] = t.new],
         value' = value, trial' = {}
  PROVE  /\ kept' \in [Knob -> Int]
         /\ KeptInBounds' /\ OnlyAcceptedStays'
<1> DEFINE k == t.knob
<1>1. k \in Knob /\ t.new \in Int /\ \A s \in trial : s = t
  BY DEF TunerInv, TypeOK
<1>2. t.new \in Lo[k] .. Hi[k]
  BY DEF TunerInv, KeptInBounds
<1>3. QED
  BY <1>1, <1>2 DEF TunerInv, TypeOK, KeptInBounds, OnlyAcceptedStays

-----------------------------------------------------------------------------
\* What TypeOK says of the tuner's own variables.
TunerTypes ==
  /\ value \in [Knob -> Int] /\ kept \in [Knob -> Int]
  /\ \A k \in Knob : value[k] \in Lo[k] .. Hi[k] \cup {Start[k]}
  /\ trial \subseteq [knob : Knob, old : Int, new : Int, age : 0 .. Eval, phase : Phase]
  /\ \A s, t \in trial : s = t
  /\ sinceTune \in 0 .. Interval /\ sinceHeal \in 0 .. Cooldown
  /\ rr \in [Phase -> Nat] /\ \A p \in Phase : rr[p] < Len(KnobsOf[p])
  /\ outcome \in [Knob -> {"", "accept", "reject"}]
  /\ dir \in [Knob -> {-1, 0, 1}]

\* Only older, the trial under way is the same.
LEMMA OlderStep ==
  ASSUME TunerInv, trial' = {Older(t) : t \in trial}, value' = value, kept' = kept
  PROVE  /\ trial' \subseteq [knob : Knob, old : Int, new : Int, age : 0 .. Eval, phase : Phase]
         /\ \A s, t \in trial' : s = t
         /\ KeptInBounds' /\ OnlyAcceptedStays'
<1>1. \A t \in trial :
        /\ Older(t) \in [knob : Knob, old : Int, new : Int, age : 0 .. Eval, phase : Phase]
        /\ Older(t).knob = t.knob /\ Older(t).old = t.old /\ Older(t).new = t.new
  BY OlderType DEF TunerInv, TypeOK
<1>2. trial' \subseteq [knob : Knob, old : Int, new : Int, age : 0 .. Eval, phase : Phase]
  BY <1>1
<1>3. \A s, t \in trial' : s = t
  BY DEF TunerInv, TypeOK
<1>4. KeptInBounds'
  BY <1>1 DEF TunerInv, KeptInBounds
<1>5. OnlyAcceptedStays'
  BY <1>1 DEF TunerInv, OnlyAcceptedStays
<1>6. QED
  BY <1>2, <1>3, <1>4, <1>5

\* The tuner's part of a cycle keeps the invariant.
LEMMA TuneStep ==
  ASSUME TunerInv, NEW s, NEW p \in Phase, MaybeTune(s, p)
  PROVE  TunerTypes' /\ KeptInBounds' /\ OnlyAcceptedStays'
<1> USE DEF TunerTypes
<1>1. TunerTypes /\ KeptInBounds /\ OnlyAcceptedStays
  BY DEF TunerInv, TypeOK
<1>2. TuneAge \in 0 .. Interval /\ HealAge \in 0 .. Cooldown
      /\ 0 \in 0 .. Interval /\ 0 \in 0 .. Cooldown
  BY AgeTypes DEF TunerInv
<1>3. ASSUME sinceTune' = TuneAge, sinceHeal' = HealAge,
             UNCHANGED <<value, trial, rr, outcome, dir, kept>>
      PROVE  TunerTypes' /\ KeptInBounds' /\ OnlyAcceptedStays'
  BY <1>1, <1>2, <1>3 DEF KeptInBounds, OnlyAcceptedStays
<1>4. ASSUME NEW t \in trial, sinceTune' = TuneAge, sinceHeal' = HealAge, AbortTrial(t)
      PROVE  TunerTypes' /\ KeptInBounds' /\ OnlyAcceptedStays'
  BY <1>1, <1>2, <1>4, UndoStep DEF AbortTrial
<1>5. ASSUME NEW t \in trial, sinceTune' = TuneAge, sinceHeal' = HealAge,
             trial' = {Older(t)}, UNCHANGED <<value, rr, outcome, dir, kept>>
      PROVE  TunerTypes' /\ KeptInBounds' /\ OnlyAcceptedStays'
  <2>1. trial' = {Older(u) : u \in trial}
    BY <1>1, <1>5
  <2>2. QED
    BY <1>1, <1>2, <1>5, <2>1, OlderStep
<1>6. ASSUME NEW t \in trial, sinceTune' = TuneAge, sinceHeal' = HealAge, FinishTrial(t)
      PROVE  TunerTypes' /\ KeptInBounds' /\ OnlyAcceptedStays'
  <2>1. t.knob \in Knob
    BY <1>1
  <2>2. outcome' \in [Knob -> {"", "accept", "reject"}]
    BY <1>1, <1>6, <2>1 DEF FinishTrial
  <2>3. CASE kept' = [kept EXCEPT ![t.knob] = t.new] /\ UNCHANGED value
    BY <1>1, <1>2, <1>6, <2>2, <2>3, AcceptStep DEF FinishTrial
  <2>4. CASE SetKnob(t.knob, t.old) /\ UNCHANGED kept
    BY <1>1, <1>2, <1>6, <2>2, <2>4, UndoStep DEF FinishTrial
  <2>5. QED
    BY <1>6, <2>3, <2>4 DEF FinishTrial
<1>7. ASSUME trial = {}, SelfHeal(p)
      PROVE  TunerTypes' /\ KeptInBounds' /\ OnlyAcceptedStays'
  <2>1. PICK k \in HealKnobs[p] : StartTrial(dir, k, p)
    BY <1>7 DEF SelfHeal
  <2>2. k \in Knob
    BY TunerAssumption
  <2>3. /\ sinceHeal' = 0 /\ sinceTune' = 0
        /\ UNCHANGED <<rr, outcome, kept>>
    BY <1>7, <2>1 DEF SelfHeal, StartTrial
  <2>4. QED
    BY <1>1, <1>2, <1>7, <2>1, <2>2, <2>3, StartStep
<1>8. ASSUME trial = {}, Optimize(p)
      PROVE  TunerTypes' /\ KeptInBounds' /\ OnlyAcceptedStays'
  <2>1. NextKnob(p) \in Knob
    <3>1. KnobsOf[p] \in Seq(Knob)
      BY TunerAssumption
    <3>2. rr[p] \in Nat /\ rr[p] < Len(KnobsOf[p])
      BY <1>1
    <3>3. rr[p] + 1 \in 1 .. Len(KnobsOf[p])
      BY <3>1, <3>2
    <3>4. QED
      BY <3>1, <3>3 DEF NextKnob
  <2>2. \A d \in [Knob -> {-1, 0, 1}], j \in Knob : Turned(d, j, p) \in [Knob -> {-1, 0, 1}]
    BY TurnedType
  <2>3. \A h \in HealKnobs[p] : h \in Knob
    BY TunerAssumption
  <2>4. PICK d \in [Knob -> {-1, 0, 1}] :
          StartTrial(d, NextKnob(p), p) \/ (NoTrial(d, NextKnob(p), p) /\ sinceTune' = TuneAge)
    <3>1. \E d \in HealedDirections(p) :
            StartTrial(d, NextKnob(p), p) \/ (NoTrial(d, NextKnob(p), p) /\ sinceTune' = TuneAge)
      BY <1>8 DEF Optimize
    <3>2. ASSUME NEW d \in HealedDirections(p)
          PROVE  d \in [Knob -> {-1, 0, 1}]
      <4>1. dir \in [Knob -> {-1, 0, 1}]
        BY <1>1
      <4>2. d = dir \/ \E h \in HealKnobs[p] : d = Turned(dir, h, p)
        BY <3>2 DEF HealedDirections
      <4>3. QED
        BY <4>1, <4>2, <2>2, <2>3
    <3>3. QED
      BY <3>1, <3>2
  <2>5. rr' \in [Phase -> Nat] /\ \A q \in Phase : rr'[q] < Len(KnobsOf[q])
    <3> DEFINE i == (rr[p] + 1) % Len(KnobsOf[p])
    <3>1. i \in Nat /\ i < Len(KnobsOf[p])
      BY <1>1, NextIndex
    <3>2. rr' = [rr EXCEPT ![p] = i]
      BY <1>8 DEF Optimize
    <3> HIDE DEF i
    <3>3. QED
      BY <1>1, <3>1, <3>2
  <2>6. sinceHeal' = HealAge
    BY <1>8 DEF Optimize
  <2>7. CASE StartTrial(d, NextKnob(p), p)
    <3>1. sinceTune' = 0 /\ UNCHANGED <<outcome, kept>>
      BY <2>7 DEF StartTrial
    <3>2. QED
      BY <1>1, <1>2, <1>8, <2>1, <2>5, <2>6, <2>7, <3>1, StartStep
  <2>8. CASE NoTrial(d, NextKnob(p), p) /\ sinceTune' = TuneAge
    <3>1. /\ dir' \in [Knob -> {-1, 0, 1}]
          /\ UNCHANGED <<value, trial, outcome, kept>>
      BY <2>1, <2>2, <2>8 DEF NoTrial
    <3>2. QED
      BY <1>1, <1>2, <2>5, <2>6, <2>8, <3>1 DEF KeptInBounds, OnlyAcceptedStays
  <2>9. QED
    BY <2>4, <2>7, <2>8
<1>9. QED
  BY <1>3, <1>4, <1>5, <1>6, <1>7, <1>8 DEF MaybeTune

\* Every step keeps the invariant.
LEMMA TunerStep == TunerInv /\ [Next]_vars => TunerInv'
<1> SUFFICES ASSUME TunerInv, [Next]_vars PROVE TunerInv'
  OBVIOUS
<1>1. sim \in 0 .. MaxSim /\ window \in Windows /\ phase \in Phase
  BY DEF TunerInv, TypeOK
<1>2. CASE Cycle
  <2>1. sim' \in 0 .. MaxSim /\ window' \in Windows /\ phase' \in Phase
    BY <1>1, <1>2, AgeTypes, PhaseType DEF Cycle, TunerInv
  <2>2. TunerTypes' /\ KeptInBounds' /\ OnlyAcceptedStays'
    BY <1>2, <2>1, TuneStep DEF Cycle
  <2>3. QED
    BY <2>1, <2>2 DEF TunerInv, TypeOK, TunerTypes
<1>3. CASE Skip
  <2>1. /\ sim' \in 0 .. MaxSim /\ window' \in Windows /\ phase' \in Phase
        /\ sinceTune' \in 0 .. Interval /\ sinceHeal' \in 0 .. Cooldown
    BY <1>1, <1>3, AgeTypes DEF Skip, TunerInv
  <2>2. /\ trial' \subseteq [knob : Knob, old : Int, new : Int, age : 0 .. Eval, phase : Phase]
        /\ \A s, t \in trial' : s = t
        /\ KeptInBounds' /\ OnlyAcceptedStays'
    BY <1>3, OlderStep DEF Skip
  <2>3. QED
    BY <1>3, <2>1, <2>2 DEF Skip, TunerInv, TypeOK
<1>4. CASE UNCHANGED vars
  BY <1>4 DEF vars, tunerVars, TunerInv, TypeOK, KeptInBounds, OnlyAcceptedStays
<1>5. QED
  BY <1>2, <1>3, <1>4 DEF Next

\* The invariant holds at first.
LEMMA TunerInit == Init => TunerInv
<1> SUFFICES ASSUME Init PROVE TunerInv
  OBVIOUS
<1>1. /\ sim \in 0 .. MaxSim /\ window \in Windows /\ phase \in Phase
      /\ sinceTune \in 0 .. Interval /\ sinceHeal \in 0 .. Cooldown
  <2>1. phase \in Phase
    BY PhaseType DEF Init
  <2>2. Interval \in Nat /\ Cooldown \in Nat /\ MaxSim \in Nat
    BY TunerAssumption
  <2>3. /\ sim = 0 /\ window \in Windows
        /\ sinceTune = Interval /\ sinceHeal = Cooldown
    BY DEF Init
  <2>4. QED
    BY <2>1, <2>2, <2>3
<1>2. \A p \in Phase : Len(KnobsOf[p]) \in Nat /\ Len(KnobsOf[p]) > 0
  BY TunerAssumption
<1>3. QED
  BY <1>1, <1>2, TunerAssumption DEF Init, TunerInv, TypeOK, KeptInBounds, OnlyAcceptedStays

\* The tuner keeps its types; a knob never leaves its bounds, unless it was
\* configured outside them and has not been tried yet.
THEOREM TypeCorrect == Spec => []TypeOK
<1>1. TunerInv => TypeOK
  BY DEF TunerInv
<1>2. QED
  BY <1>1, TunerInit, TunerStep, PTL DEF Spec

\* Whatever is started, aborted, rejected or skipped, a knob configured within
\* its bounds returns to the value it was configured or last accepted with.
THEOREM TrialsAreUndone == Spec => []OnlyAcceptedStays
<1>1. TunerInv => OnlyAcceptedStays
  BY DEF TunerInv
<1>2. QED
  BY <1>1, TunerInit, TunerStep, PTL DEF Spec

-----------------------------------------------------------------------------
(***************************************************************************)
(* What an evaluation looks at.                                            *)
(***************************************************************************)

\* The value on trial is in use and is another one than what is kept; a knob
\* not on trial has the value that is kept, once that is within its bounds.
TrialsDiffer ==
  /\ \A t \in trial : /\ t.new = value[t.knob] /\ t.new # t.old
                      /\ kept[t.knob] \in Lo[t.knob] .. Hi[t.knob] => t.old = kept[t.knob]
  /\ \A k \in Knob : kept[k] \in Lo[k] .. Hi[k] =>
       value[k] = kept[k] \/ \E t \in trial : t.knob = k

Observation == [age : 0 .. Eval, phase : Phase, under : SUBSET Knob]

\* What is younger than a trial was observed with it and in its phase; what is
\* as old as it, in the cycle that started it.  An age of Eval stands for any
\* longer time.
InReach(H, t) ==
  \A o \in H : /\ o.age < t.age => o.phase = t.phase /\ o.under = {t.knob}
               /\ o.age = t.age /\ o.age < Eval => o.phase = t.phase

JudgedInv ==
  /\ TunerInv /\ TrialsDiffer
  /\ trial # {} => sim >= MinStart
  /\ hist \subseteq Observation
  /\ \A t \in trial : InReach(hist, t)

\* A trial of a value that is kept cannot be under way.
LEMMA NewIsNotKept ==
  ASSUME JudgedInv, NEW t \in trial
  PROVE  kept[t.knob] # t.new
BY DEF JudgedInv, TunerInv, TypeOK, KeptInBounds, TrialsDiffer

\* An observation that is remembered is one unit older.
LEMMA RememberedType ==
  ASSUME hist \subseteq Observation
  PROVE  /\ Remembered \subseteq Observation
         /\ \A o \in Remembered : o.age > 0
         /\ \A o \in Remembered : \E h \in hist :
              h.age < Eval /\ o.age = h.age + 1 /\ o.phase = h.phase /\ o.under = h.under
<1>1. Eval \in Nat
  BY TunerAssumption
<1>2. ASSUME NEW h \in hist, h.age < Eval, NEW o, o = [h EXCEPT !.age = @ + 1]
      PROVE  /\ o \in Observation /\ o.age > 0
             /\ o.age = h.age + 1 /\ o.phase = h.phase /\ o.under = h.under
  <2>1. h \in Observation
    BY <1>2
  <2>2. h.age \in Nat /\ h.age + 1 \in 0 .. Eval
    BY <1>1, <1>2, <2>1 DEF Observation
  <2> DEFINE a == h.age + 1
  <2>3. o = [h EXCEPT !.age = a]
    BY <1>2
  <2>4. a \in 0 .. Eval /\ a > 0
    BY <2>2
  <2> HIDE DEF a
  <2>5. o \in Observation /\ o.age = a /\ o.phase = h.phase /\ o.under = h.under
    BY <2>1, <2>3, <2>4 DEF Observation
  <2> QED BY <2>4, <2>5 DEF a
<1>3. ASSUME NEW o \in Remembered
      PROVE  \E h \in hist : h.age < Eval /\ o = [h EXCEPT !.age = @ + 1]
  BY <1>3 DEF Remembered
<1>4. ASSUME NEW o \in Remembered
      PROVE  /\ o \in Observation /\ o.age > 0
             /\ \E h \in hist :
                  h.age < Eval /\ o.age = h.age + 1 /\ o.phase = h.phase /\ o.under = h.under
  <2>1. PICK h \in hist : h.age < Eval /\ o = [h EXCEPT !.age = @ + 1]
    BY <1>3
  <2> QED BY <1>2, <2>1
<1> QED BY <1>4

\* What is in reach of a trial still is when both are older.
LEMMA ReachKept ==
  ASSUME JudgedInv, NEW t \in trial
  PROVE  InReach(Remembered, Older(t))
<1>1. /\ t \in [knob : Knob, old : Int, new : Int, age : 0 .. Eval, phase : Phase]
      /\ hist \subseteq Observation /\ InReach(hist, t) /\ Eval \in Nat
  BY TunerAssumption DEF JudgedInv, TunerInv, TypeOK
<1>2. /\ Older(t).age = IF t.age + 1 < Eval THEN t.age + 1 ELSE Eval
      /\ Older(t).phase = t.phase /\ Older(t).knob = t.knob
  BY <1>1 DEF Older, Least
<1>3. ASSUME NEW o \in Remembered
      PROVE  /\ o.age < Older(t).age => o.phase = Older(t).phase /\ o.under = {Older(t).knob}
             /\ o.age = Older(t).age /\ o.age < Eval => o.phase = Older(t).phase
  <2>1. PICK h \in hist :
          h.age < Eval /\ o.age = h.age + 1 /\ o.phase = h.phase /\ o.under = h.under
    BY <1>1, RememberedType
  <2>2. h.age \in Nat /\ t.age \in 0 .. Eval
    BY <1>1 DEF Observation
  <2>3. /\ h.age < t.age => h.phase = t.phase /\ h.under = {t.knob}
        /\ h.age = t.age => h.phase = t.phase
    BY <1>1, <2>1 DEF InReach
  <2>4. o.age < Older(t).age => h.age < t.age
    BY <1>1, <1>2, <2>1, <2>2
  <2>5. o.age = Older(t).age /\ o.age < Eval => h.age = t.age
    BY <1>1, <1>2, <2>1, <2>2
  <2> QED BY <1>2, <2>1, <2>3, <2>4, <2>5
<1> QED BY <1>3 DEF InReach

\* Undoing a trial brings its knob back to what is kept.
LEMMA UndoDiffers ==
  ASSUME JudgedInv, NEW t \in trial, SetKnob(t.knob, t.old), trial' = {}, kept' = kept
  PROVE  TrialsDiffer'
<1>1. t.knob \in Knob /\ t.old \in Int /\ value \in [Knob -> Int] /\ \A s \in trial : s = t
  BY DEF JudgedInv, TunerInv, TypeOK
<1>2. value' = [value EXCEPT ![t.knob] = Clamp(t.knob, t.old)]
  BY DEF SetKnob
<1>3. t.old \in Lo[t.knob] .. Hi[t.knob] => Clamp(t.knob, t.old) = t.old
  BY <1>1, ClampInBounds
<1>4. kept[t.knob] \in Lo[t.knob] .. Hi[t.knob] => t.old = kept[t.knob]
  BY DEF JudgedInv, TrialsDiffer
<1>5. ASSUME NEW k \in Knob, kept[k] \in Lo[k] .. Hi[k]
      PROVE  value'[k] = kept[k]
  <2>1. CASE k = t.knob
    BY <1>1, <1>2, <1>3, <1>4, <1>5, <2>1
  <2>2. CASE k # t.knob
    BY <1>1, <1>2, <1>5, <2>2 DEF JudgedInv, TrialsDiffer
  <2> QED BY <2>1, <2>2
<1> QED BY <1>5 DEF TrialsDiffer

\* Accepting one keeps its value.
LEMMA AcceptDiffers ==
  ASSUME JudgedInv, NEW t \in trial, kept' = [kept EXCEPT ![t.knob] = t.new],
         value' = value, trial' = {}
  PROVE  TrialsDiffer'
<1>1. t.knob \in Knob /\ kept \in [Knob -> Int] /\ \A s \in trial : s = t
  BY DEF JudgedInv, TunerInv, TypeOK
<1>2. t.new = value[t.knob]
  BY DEF JudgedInv, TrialsDiffer
<1>3. ASSUME NEW k \in Knob, kept'[k] \in Lo[k] .. Hi[k]
      PROVE  value'[k] = kept'[k]
  <2>1. CASE k = t.knob
    BY <1>1, <1>2, <2>1
  <2>2. CASE k # t.knob
    BY <1>1, <1>3, <2>2 DEF JudgedInv, TrialsDiffer
  <2> QED BY <2>1, <2>2
<1> QED BY <1>3 DEF TrialsDiffer

\* A trial starts with another value than the one that is kept.
LEMMA StartDiffers ==
  ASSUME JudgedInv, NEW d \in [Knob -> {-1, 0, 1}], NEW k \in Knob, NEW p \in Phase,
         trial = {}, StartTrial(d, k, p)
  PROVE  /\ TrialsDiffer' /\ kept' = kept
         /\ \A t \in trial' : t.age = 0 /\ t.phase = p
<1> DEFINE m == Moved(d, k, p)
<1>1. value \in [Knob -> Int] /\ Step[k] \in Int /\ Turned(d, k, p) \in [Knob -> {-1, 0, 1}]
  <2>1. value \in [Knob -> Int]
    BY DEF JudgedInv, TunerInv, TypeOK
  <2>2. Step[k] \in Int
    BY TunerAssumption
  <2>3. Turned(d, k, p) \in [Knob -> {-1, 0, 1}]
    BY TurnedType
  <2> QED BY <2>1, <2>2, <2>3
<1>2. value[k] + Turned(d, k, p)[k] * Step[k] \in Int
  <2>1. value[k] \in Int /\ Turned(d, k, p)[k] * Step[k] \in Int
    BY <1>1
  <2> QED BY <2>1
<1>3. m \in Int /\ m # value[k] /\ Clamp(k, m) = m
  <2>1. m \in Int /\ m \in Lo[k] .. Hi[k]
    BY <1>2, ClampInBounds DEF Moved
  <2>2. m # value[k]
    BY DEF StartTrial
  <2> QED BY <2>1, <2>2, ClampInBounds
<1>4. /\ value' = [value EXCEPT ![k] = Clamp(k, m)] /\ kept' = kept
      /\ trial' = {[knob |-> k, old |-> value[k], new |-> m, age |-> 0, phase |-> p]}
  BY DEF StartTrial, SetKnob
<1> HIDE DEF m
<1>5. \A j \in Knob : kept[j] \in Lo[j] .. Hi[j] => value[j] = kept[j]
  BY DEF JudgedInv, TrialsDiffer
<1>6. value'[k] = m /\ \A j \in Knob : j # k => value'[j] = value[j]
  BY <1>1, <1>3, <1>4
<1> QED BY <1>3, <1>4, <1>5, <1>6 DEF TrialsDiffer

\* What a tuner does in a cycle: it leaves everything as it was without a trial,
\* starts one, undoes or continues one, or accepts it when it is due.
LEMMA TuneCases ==
  ASSUME JudgedInv, NEW s, NEW p \in Phase, MaybeTune(s, p)
  PROVE  \/ s < MinStart /\ UNCHANGED <<value, trial, kept>>
         \/ s >= MinStart /\ trial = {} /\ UNCHANGED <<value, trial, kept>>
         \/ /\ s >= MinStart /\ trial = {} /\ TrialsDiffer' /\ kept' = kept
            /\ \A t \in trial' : t.age = 0 /\ t.phase = p
         \/ s >= MinStart /\ trial' = {} /\ kept' = kept /\ TrialsDiffer'
         \/ \E t \in trial : /\ s >= MinStart /\ t.phase = p /\ Older(t).age < Eval
                             /\ trial' = {Older(t)} /\ UNCHANGED <<value, kept>>
         \/ \E t \in trial :
              /\ s >= MinStart /\ t.phase = p /\ Older(t).age = Eval
              /\ kept' = [kept EXCEPT ![t.knob] = t.new] /\ value' = value /\ trial' = {}
<1>1. ASSUME NEW t \in trial, s >= MinStart, AbortTrial(t)
      PROVE  trial' = {} /\ kept' = kept /\ TrialsDiffer'
  BY <1>1, UndoDiffers DEF AbortTrial
<1>2. ASSUME NEW t \in trial, s >= MinStart, FinishTrial(t)
      PROVE  \/ trial' = {} /\ kept' = kept /\ TrialsDiffer'
             \/ kept' = [kept EXCEPT ![t.knob] = t.new] /\ value' = value /\ trial' = {}
  <2>1. CASE kept' = [kept EXCEPT ![t.knob] = t.new] /\ UNCHANGED value
    BY <1>2, <2>1 DEF FinishTrial
  <2>2. CASE SetKnob(t.knob, t.old) /\ UNCHANGED kept
    BY <1>2, <2>2, UndoDiffers DEF FinishTrial
  <2> QED BY <1>2, <2>1, <2>2 DEF FinishTrial
<1>3. dir \in [Knob -> {-1, 0, 1}]
  BY DEF JudgedInv, TunerInv, TypeOK
<1>4. ASSUME trial = {}, SelfHeal(p)
      PROVE  /\ TrialsDiffer' /\ kept' = kept
             /\ \A t \in trial' : t.age = 0 /\ t.phase = p
  <2>1. PICK k \in HealKnobs[p] : StartTrial(dir, k, p)
    BY <1>4 DEF SelfHeal
  <2>2. k \in Knob
    BY TunerAssumption
  <2> QED BY <1>3, <1>4, <2>1, <2>2, StartDiffers
<1>5. ASSUME trial = {}, Optimize(p)
      PROVE  \/ UNCHANGED <<value, trial, kept>>
             \/ /\ TrialsDiffer' /\ kept' = kept
                /\ \A t \in trial' : t.age = 0 /\ t.phase = p
  <2>1. PICK d \in HealedDirections(p) :
          StartTrial(d, NextKnob(p), p) \/ NoTrial(d, NextKnob(p), p)
    BY <1>5 DEF Optimize
  <2>2. d \in [Knob -> {-1, 0, 1}]
    <3>1. d = dir \/ \E h \in HealKnobs[p] : d = Turned(dir, h, p)
      BY DEF HealedDirections
    <3>2. HealKnobs[p] \subseteq Knob
      BY TunerAssumption
    <3> QED BY <1>3, <3>1, <3>2, TurnedType
  <2>3. NextKnob(p) \in Knob
    <3>1. KnobsOf[p] \in Seq(Knob)
      BY TunerAssumption
    <3>2. rr[p] \in Nat /\ rr[p] < Len(KnobsOf[p])
      BY DEF JudgedInv, TunerInv, TypeOK
    <3>3. rr[p] + 1 \in 1 .. Len(KnobsOf[p])
      BY <3>1, <3>2
    <3> QED BY <3>1, <3>3 DEF NextKnob
  <2>4. CASE StartTrial(d, NextKnob(p), p)
    BY <1>5, <2>2, <2>3, <2>4, StartDiffers
  <2>5. CASE NoTrial(d, NextKnob(p), p)
    BY <2>5 DEF NoTrial
  <2> QED BY <2>1, <2>4, <2>5
<1>6. CASE s < MinStart /\ UNCHANGED <<value, trial, rr, outcome, dir, kept>>
  BY <1>6
<1>7. ASSUME s >= MinStart, NEW t \in trial,
             \/ PhaseChanged(t, p) /\ AbortTrial(t)
             \/ /\ ~PhaseChanged(t, p) /\ Older(t).age < Eval
                /\ trial' = {Older(t)}
                /\ UNCHANGED <<value, rr, outcome, dir, kept>>
             \/ ~PhaseChanged(t, p) /\ Older(t).age = Eval /\ FinishTrial(t)
      PROVE  \/ trial' = {} /\ kept' = kept /\ TrialsDiffer'
             \/ /\ t.phase = p /\ Older(t).age < Eval
                /\ trial' = {Older(t)} /\ UNCHANGED <<value, kept>>
             \/ /\ t.phase = p /\ Older(t).age = Eval
                /\ kept' = [kept EXCEPT ![t.knob] = t.new] /\ value' = value /\ trial' = {}
  BY <1>1, <1>2, <1>7 DEF PhaseChanged
<1>8. CASE s >= MinStart /\ trial = {} /\ TuneAge < Interval
           /\ UNCHANGED <<value, trial, rr, outcome, dir, kept>>
  BY <1>8
<1>9. CASE s >= MinStart /\ trial = {} /\ (SelfHeal(p) \/ Optimize(p))
  BY <1>4, <1>5, <1>9
<1> QED BY <1>6, <1>7, <1>8, <1>9 DEF MaybeTune

\* Time only makes the tuner start later than it may.
LEMMA SimGrows ==
  ASSUME JudgedInv, sim' = Least(sim + 1, MaxSim)
  PROVE  sim' >= sim
<1>1. sim \in 0 .. MaxSim /\ MaxSim \in Nat
  BY TunerAssumption DEF JudgedInv, TunerInv, TypeOK
<1> QED BY <1>1 DEF Least

\* A cycle keeps what the judgement rests on, and a value that is accepted in it
\* is judged by what was observed with it.
LEMMA JudgedCycle ==
  ASSUME JudgedInv, Cycle
  PROVE  /\ TrialsDiffer' /\ (trial # {} => sim >= MinStart)' /\ hist' \subseteq Observation
         /\ \A t \in trial' : InReach(hist', t)
         /\ \A t \in trial : kept'[t.knob] = t.new =>
              \A o \in hist' : o.phase = t.phase /\ (o.under = {t.knob} \/ o.age = Eval)
<1> DEFINE new == [age |-> 0, phase |-> phase', under |-> {t.knob : t \in trial}]
<1>1. /\ sim' = Least(sim + 1, MaxSim) /\ hist' = Remembered \cup {new}
      /\ MaybeTune(sim', phase') /\ phase' \in Phase
  BY PhaseType DEF Cycle
<1>2. Eval \in Nat /\ MinStart \in Nat /\ sim \in Nat /\ sim' \in Nat /\ sim' >= sim
  <2>1. sim \in 0 .. MaxSim /\ MaxSim \in Nat /\ sim' \in 0 .. MaxSim
    BY <1>1, TunerAssumption, AgeTypes DEF JudgedInv, TunerInv, TypeOK
  <2> QED BY <1>1, <2>1, TunerAssumption, SimGrows
<1>3. /\ trial \subseteq [knob : Knob, old : Int, new : Int, age : 0 .. Eval, phase : Phase]
      /\ \A s, t \in trial : s = t
      /\ kept \in [Knob -> Int] /\ TrialsDiffer /\ (trial # {} => sim >= MinStart)
  BY DEF JudgedInv, TunerInv, TypeOK
<1>4. new \in Observation /\ new.age = 0 /\ new.phase = phase'
      /\ \A t \in trial : new.under = {t.knob}
  BY <1>1, <1>2, <1>3 DEF Observation
<1> HIDE DEF new
<1>5. /\ Remembered \subseteq Observation /\ \A o \in Remembered : o.age > 0
  BY RememberedType DEF JudgedInv
<1>6. hist' \subseteq Observation
  BY <1>1, <1>4, <1>5
<1>7. ASSUME kept' = kept
      PROVE  \A t \in trial : kept'[t.knob] # t.new
  BY <1>7, NewIsNotKept
<1>8. CASE trial = {} /\ UNCHANGED <<value, trial, kept>>
  BY <1>3, <1>6, <1>8 DEF TrialsDiffer
<1>9. CASE sim' < MinStart /\ UNCHANGED <<value, trial, kept>>
  <2>1. trial = {}
    BY <1>2, <1>3, <1>9
  <2> QED BY <1>8, <1>9, <2>1
<1>10. CASE /\ sim' >= MinStart /\ trial = {} /\ TrialsDiffer' /\ kept' = kept
            /\ \A t \in trial' : t.age = 0 /\ t.phase = phase'
  <2>1. ASSUME NEW t \in trial'
        PROVE  InReach(hist', t)
    <3>1. t.age = 0 /\ t.phase = phase'
      BY <1>10
    <3>2. \A o \in Remembered : ~(o.age < t.age) /\ o.age # t.age
      BY <1>2, <1>5, <3>1 DEF Observation
    <3> QED BY <1>1, <1>4, <3>1, <3>2 DEF InReach
  <2> QED BY <1>6, <1>10, <2>1
<1>11. CASE sim' >= MinStart /\ trial' = {} /\ kept' = kept /\ TrialsDiffer'
  BY <1>6, <1>7, <1>11
<1>12. ASSUME NEW t \in trial, sim' >= MinStart, t.phase = phase', Older(t).age < Eval,
              trial' = {Older(t)}, UNCHANGED <<value, kept>>
       PROVE  /\ TrialsDiffer' /\ \A u \in trial' : InReach(hist', u)
              /\ \A u \in trial : kept'[u.knob] # u.new
  <2>1. /\ Older(t).knob = t.knob /\ Older(t).old = t.old /\ Older(t).new = t.new
        /\ Older(t).phase = t.phase
    BY <1>3, OlderType DEF Older
  <2>2. \A u \in trial : u = t
    BY <1>3
  <2>3. TrialsDiffer'
    BY <1>3, <1>12, <2>1, <2>2 DEF TrialsDiffer
  <2>4. InReach(Remembered, Older(t))
    BY ReachKept
  <2>5. new.phase = Older(t).phase /\ new.under = {Older(t).knob}
    BY <1>4, <1>12, <2>1
  <2>6. InReach(hist', Older(t))
    BY <1>1, <2>4, <2>5 DEF InReach
  <2> QED BY <1>7, <1>12, <2>3, <2>6
<1>13. ASSUME NEW t \in trial, sim' >= MinStart, t.phase = phase', Older(t).age = Eval,
              kept' = [kept EXCEPT ![t.knob] = t.new], value' = value, trial' = {}
       PROVE  /\ TrialsDiffer'
              /\ \A u \in trial : \A o \in hist' :
                   o.phase = u.phase /\ (o.under = {u.knob} \/ o.age = Eval)
  <2>1. TrialsDiffer'
    BY <1>13, AcceptDiffers
  <2>2. InReach(Remembered, Older(t)) /\ Older(t).phase = t.phase /\ Older(t).knob = t.knob
    BY <1>3, ReachKept, OlderType DEF Older
  <2>3. ASSUME NEW o \in Remembered
        PROVE  o.phase = t.phase /\ (o.under = {t.knob} \/ o.age = Eval)
    <3>1. PICK h \in hist :
            h.age < Eval /\ o.age = h.age + 1 /\ o.phase = h.phase /\ o.under = h.under
      BY RememberedType DEF JudgedInv
    <3>2. h.age \in Nat /\ t.age \in 0 .. Eval /\ InReach(hist, t)
      BY <1>3 DEF JudgedInv, Observation
    <3>3. t.age + 1 >= Eval
      BY <1>2, <1>3, <1>13, <3>2 DEF Older, Least
    <3>4. CASE h.age < t.age
      BY <3>1, <3>2, <3>4 DEF InReach
    <3>5. CASE ~(h.age < t.age)
      <4>1. h.age = t.age /\ o.age = Eval
        BY <1>2, <3>1, <3>2, <3>3, <3>5
      <4> QED BY <3>1, <3>2, <4>1 DEF InReach
    <3> QED BY <3>4, <3>5
  <2>4. \A u \in trial : u = t
    BY <1>3
  <2>5. \A o \in hist' : o.phase = t.phase /\ (o.under = {t.knob} \/ o.age = Eval)
    BY <1>1, <1>4, <1>13, <2>3
  <2> QED BY <2>1, <2>4, <2>5
<1>14. \/ sim' < MinStart /\ UNCHANGED <<value, trial, kept>>
       \/ sim' >= MinStart /\ trial = {} /\ UNCHANGED <<value, trial, kept>>
       \/ /\ sim' >= MinStart /\ trial = {} /\ TrialsDiffer' /\ kept' = kept
          /\ \A t \in trial' : t.age = 0 /\ t.phase = phase'
       \/ sim' >= MinStart /\ trial' = {} /\ kept' = kept /\ TrialsDiffer'
       \/ \E t \in trial : /\ sim' >= MinStart /\ t.phase = phase' /\ Older(t).age < Eval
                           /\ trial' = {Older(t)} /\ UNCHANGED <<value, kept>>
       \/ \E t \in trial :
            /\ sim' >= MinStart /\ t.phase = phase' /\ Older(t).age = Eval
            /\ kept' = [kept EXCEPT ![t.knob] = t.new] /\ value' = value /\ trial' = {}
  BY <1>1, TuneCases
<1>15. CASE \E t \in trial : /\ sim' >= MinStart /\ t.phase = phase' /\ Older(t).age < Eval
                             /\ trial' = {Older(t)} /\ UNCHANGED <<value, kept>>
  BY <1>6, <1>12, <1>15
<1>16. CASE \E t \in trial :
              /\ sim' >= MinStart /\ t.phase = phase' /\ Older(t).age = Eval
              /\ kept' = [kept EXCEPT ![t.knob] = t.new] /\ value' = value /\ trial' = {}
  BY <1>6, <1>13, <1>16
<1> QED BY <1>8, <1>9, <1>10, <1>11, <1>14, <1>15, <1>16

\* So does a time without a cycle, in which nothing is accepted.
LEMMA JudgedSkip ==
  ASSUME JudgedInv, Skip
  PROVE  /\ TrialsDiffer' /\ (trial # {} => sim >= MinStart)' /\ hist' \subseteq Observation
         /\ \A t \in trial' : InReach(hist', t)
         /\ \A t \in trial : kept'[t.knob] # t.new
<1>1. /\ sim' = Least(sim + 1, MaxSim) /\ hist' = Remembered
      /\ trial' = {Older(t) : t \in trial} /\ kept' = kept /\ value' = value
  BY DEF Skip
<1>2. sim \in Nat /\ sim' \in Nat /\ sim' >= sim /\ MinStart \in Nat
  <2>1. sim \in 0 .. MaxSim /\ MaxSim \in Nat /\ sim' \in 0 .. MaxSim
    BY <1>1, TunerAssumption, AgeTypes DEF JudgedInv, TunerInv, TypeOK
  <2> QED BY <1>1, <2>1, TunerAssumption, SimGrows
<1>3. \A t \in trial : /\ Older(t).knob = t.knob /\ Older(t).old = t.old
                       /\ Older(t).new = t.new
  BY OlderType DEF JudgedInv, TunerInv, TypeOK
<1>4. TrialsDiffer'
  BY <1>1, <1>3 DEF JudgedInv, TrialsDiffer
<1>5. trial' # {} => sim' >= MinStart
  BY <1>1, <1>2 DEF JudgedInv
<1>6. hist' \subseteq Observation
  BY <1>1, RememberedType DEF JudgedInv
<1>7. \A t \in trial' : InReach(hist', t)
  BY <1>1, ReachKept
<1> QED BY <1>1, <1>4, <1>5, <1>6, <1>7, NewIsNotKept

\* Every step keeps it, and judges by what it should.
LEMMA JudgedStep ==
  ASSUME JudgedInv, [Next]_vars
  PROVE  /\ JudgedInv'
         /\ \A t \in trial : kept'[t.knob] = t.new =>
              \A o \in hist' : o.phase = t.phase /\ (o.under = {t.knob} \/ o.age = Eval)
<1>1. TunerInv'
  BY TunerStep DEF JudgedInv
<1>2. CASE Cycle
  BY <1>1, <1>2, JudgedCycle DEF JudgedInv
<1>3. CASE Skip
  BY <1>1, <1>3, JudgedSkip DEF JudgedInv
<1>4. CASE UNCHANGED vars
  <2>1. JudgedInv'
    BY <1>1, <1>4 DEF JudgedInv, TrialsDiffer, InReach, vars, tunerVars
  <2>2. \A t \in trial : kept'[t.knob] # t.new
    BY <1>4, NewIsNotKept DEF vars, tunerVars
  <2> QED BY <2>1, <2>2
<1> QED BY <1>2, <1>3, <1>4 DEF Next

LEMMA JudgedInit == Init => JudgedInv
BY TunerInit DEF Init, JudgedInv, TrialsDiffer, InReach

\* Whatever cycles are left out and phases change, a value is accepted on
\* nothing but what was observed in the phase of its trial and with it, except
\* for the cycle in which the trial began.
THEOREM ValuesAreJudgedInPhase == Spec => JudgedInPhase
<1>1. JudgedInv /\ [Next]_vars =>
        [\A t \in trial : kept'[t.knob] = t.new =>
           \A o \in hist' : o.phase = t.phase
                            /\ (o.under = {t.knob} \/ o.age = Eval)]_vars
  BY JudgedStep
<1> QED BY <1>1, JudgedInit, JudgedStep, PTL DEF Spec, JudgedInPhase

-----------------------------------------------------------------------------
(***************************************************************************)
(* The command list: priorities.                                           *)
(***************************************************************************)

\* A name that occurs in a sequence has a first place in it.
LEMMA FirstPlace ==
  ASSUME NEW S, NEW s \in Seq(S), NEW name, \E i \in DOMAIN s : s[i] = name
  PROVE  FirstAt(s, name) \in DOMAIN s /\ s[FirstAt(s, name)] = name
<1> DEFINE places == {i \in DOMAIN s : s[i] = name}
<1>1. places # {} /\ places \subseteq Nat
  OBVIOUS
<1>2. PICK i \in places : \A j \in places : ~(<<j, i>> \in OpToRel(<, Nat))
  <2> HIDE DEF places
  <2> QED BY <1>1, NatLessThanWellFounded, WFMin, Zenon
<1>3. i \in DOMAIN s /\ s[i] = name
  BY <1>2
<1>4. ASSUME NEW j \in 1 .. i - 1
      PROVE  s[j] # name
  <2> SUFFICES ASSUME s[j] = name PROVE FALSE
    OBVIOUS
  <2>1. j \in places /\ j \in Nat /\ i \in Nat /\ j < i
    BY <1>3, <1>4
  <2>2. <<j, i>> \in OpToRel(<, Nat)
    BY <2>1 DEF OpToRel
  <2> QED BY <1>2, <2>1, <2>2
<1> QED BY <1>3, <1>4 DEF FirstAt

\* Three agents at three different places are in some order.
LEMMA ThreeInOrder ==
  ASSUME NEW f \in [Agent -> Nat], \A a, b \in Agent : f[a] = f[b] => a = b
  PROVE  \E p \in [1 .. 3 -> Agent] : \A i, j \in 1 .. 3 : i < j => f[p[i]] < f[p[j]]
<1>1. PICK a \in Agent, b \in Agent, c \in Agent : f[a] < f[b] /\ f[b] < f[c]
  <2>1. /\ f["energy"] \in Nat /\ f["qoe"] \in Nat /\ f["load"] \in Nat
        /\ f["energy"] # f["qoe"] /\ f["energy"] # f["load"] /\ f["qoe"] # f["load"]
    BY DEF Agent
  <2> QED BY <2>1 DEF Agent
<1> DEFINE p == [i \in 1 .. 3 |-> IF i = 1 THEN a ELSE IF i = 2 THEN b ELSE c]
<1>2. p \in [1 .. 3 -> Agent]
  OBVIOUS
<1>3. p[1] = a /\ p[2] = b /\ p[3] = c
  OBVIOUS
<1> HIDE DEF p
<1>4. f[a] \in Nat /\ f[b] \in Nat /\ f[c] \in Nat
  OBVIOUS
<1>5. \A i, j \in 1 .. 3 : i < j => f[p[i]] < f[p[j]]
  <2> SUFFICES ASSUME NEW i \in 1 .. 3, NEW j \in 1 .. 3, i < j
               PROVE  f[p[i]] < f[p[j]]
    OBVIOUS
  <2>1. \/ i = 1 /\ j = 2
        \/ i = 1 /\ j = 3
        \/ i = 2 /\ j = 3
    OBVIOUS
  <2> QED BY <1>1, <1>3, <1>4, <2>1
<1> QED BY <1>2, <1>5

\* A priority names the three agents.
LEMMA PriorityType ==
  ASSUME NEW S, NEW tokens \in Seq(S)
  PROVE  ParsePriority(tokens) \in [1 .. 3 -> Agent]
<1> DEFINE named == tokens \o AgentKeys
           f == [a \in Agent |-> FirstAt(named, a)]
<1>1. /\ named \in Seq(S \cup Agent)
      /\ Len(named) = Len(tokens) + 3 /\ Len(tokens) \in Nat
      /\ named[Len(tokens) + 1] = "energy" /\ named[Len(tokens) + 2] = "qoe"
      /\ named[Len(tokens) + 3] = "load"
  <2>1. /\ AgentKeys \in Seq(Agent) /\ Len(AgentKeys) = 3
        /\ AgentKeys[1] = "energy" /\ AgentKeys[2] = "qoe" /\ AgentKeys[3] = "load"
    <3>1. "energy" \in Agent /\ "qoe" \in Agent /\ "load" \in Agent
      BY DEF Agent
    <3>2. /\ Len(AgentKeys) = 3
          /\ AgentKeys[1] = "energy" /\ AgentKeys[2] = "qoe" /\ AgentKeys[3] = "load"
      BY DEF AgentKeys
    <3>3. AgentKeys \in Seq(Agent)
      BY <3>1 DEF AgentKeys
    <3> QED BY <3>2, <3>3
  <2>2. AgentKeys \in Seq(S \cup Agent) /\ tokens \in Seq(S \cup Agent)
    <3> DEFINE k == AgentKeys
    <3>1. k \in Seq(Agent)
      BY <2>1
    <3> HIDE DEF k
    <3>2. k \in Seq(S \cup Agent)
      <4>1. Len(k) \in Nat /\ k \in [1 .. Len(k) -> Agent]
        BY <3>1
      <4> QED BY <4>1
    <3>3. tokens \in Seq(S \cup Agent)
      <4>1. Len(tokens) \in Nat /\ tokens \in [1 .. Len(tokens) -> S]
        OBVIOUS
      <4> QED BY <4>1
    <3> QED BY <3>2, <3>3 DEF k
  <2> DEFINE T == S \cup Agent
             k == AgentKeys
             n == Len(tokens)
  <2>3. k \in Seq(T) /\ tokens \in Seq(T) /\ Len(k) = 3
    BY <2>1, <2>2
  <2> HIDE DEF T, k
  <2>4. n \in Nat
    OBVIOUS
  <2>5. /\ tokens \o k \in Seq(T) /\ Len(tokens \o k) = n + 3
        /\ \A i \in 1 .. n + 3 : (tokens \o k)[i] = IF i <= n THEN tokens[i] ELSE k[i - n]
    <3>1. /\ Len(tokens \o k) = Len(tokens) + Len(k)
          /\ tokens \o k \in Seq(T)
          /\ \A i \in 1 .. Len(tokens) + Len(k) : (tokens \o k)[i] =
               IF i <= Len(tokens) THEN tokens[i] ELSE k[i - Len(tokens)]
      BY <2>3, ConcatProperties, Zenon
    <3> QED BY <2>3, <3>1
  <2> HIDE DEF n
  <2>6. /\ (tokens \o k)[n + 1] = k[1] /\ (tokens \o k)[n + 2] = k[2]
        /\ (tokens \o k)[n + 3] = k[3]
    <3>1. /\ n + 1 \in 1 .. n + 3 /\ ~(n + 1 <= n) /\ (n + 1) - n = 1
          /\ n + 2 \in 1 .. n + 3 /\ ~(n + 2 <= n) /\ (n + 2) - n = 2
          /\ n + 3 \in 1 .. n + 3 /\ ~(n + 3 <= n) /\ (n + 3) - n = 3
      BY <2>4
    <3> QED BY <2>5, <3>1
  <2> QED BY <2>1, <2>4, <2>5, <2>6 DEF T, k, n
<1> HIDE DEF named
<1>2. \A a \in Agent : \E i \in DOMAIN named : named[i] = a
  BY <1>1 DEF Agent
<1>3. \A a \in Agent : FirstAt(named, a) \in DOMAIN named /\ named[FirstAt(named, a)] = a
  BY <1>1, <1>2, FirstPlace
<1>4. /\ f \in [Agent -> Nat] /\ \A a, b \in Agent : f[a] = f[b] => a = b
      /\ \A a \in Agent : f[a] = FirstAt(named, a)
  BY <1>1, <1>3
<1> HIDE DEF f
<1>5. \E p \in [1 .. 3 -> Agent] : \A i, j \in 1 .. 3 : i < j => f[p[i]] < f[p[j]]
  BY <1>4, ThreeInOrder
<1>6. \E p \in [1 .. 3 -> Agent] : \A i, j \in 1 .. 3 : i < j =>
        FirstAt(named, p[i]) < FirstAt(named, p[j])
  BY <1>4, <1>5
<1> QED BY <1>6 DEF ParsePriority, named

-----------------------------------------------------------------------------
(***************************************************************************)
(* Merging, filtering and ordering.                                        *)
(***************************************************************************)

Act == PowerAction \cup Handover \cup {Ho(u, 0) : u \in Ue} \cup Bias

\* What an action can be.
LEMMA ActFields ==
  ASSUME NEW a \in Act
  PROVE  /\ a.type \in {"cell_sleep", "cell_wake", "ho", "set_cio"}
         /\ a.type \in {"cell_sleep", "cell_wake", "set_cio"} => a.cell \in Cell
         /\ a.type = "ho" => a.ue \in Ue
         /\ a.type \in {"ho", "set_cio"} => a.target \in Cell \cup {0}
         /\ Rank(a) \in 0 .. 3 /\ Subject(a) \in Nat
<1>1. \/ \E c \in Cell : a = CellSleep(c)
      \/ \E c \in Cell : a = CellWake(c)
      \/ \E u \in Ue, c \in Cell \cup {0} : a = Ho(u, c)
      \/ \E c \in Cell, d \in Cell \cup {0} : a = SetCio(c, d)
  BY DEF Act, PowerAction, Handover, Bias
<1>2. /\ a.type \in {"cell_sleep", "cell_wake", "ho", "set_cio"}
      /\ a.type \in {"cell_sleep", "cell_wake", "set_cio"} => a.cell \in Cell
      /\ a.type = "ho" => a.ue \in Ue
      /\ a.type \in {"ho", "set_cio"} => a.target \in Cell \cup {0}
  BY <1>1 DEF CellSleep, CellWake, Ho, SetCio
<1>3. Cell \subseteq Nat /\ Ue \subseteq Nat
  BY ListAssumption
<1>4. Rank(a) \in 0 .. 3
  BY DEF Rank
<1>5. Subject(a) \in Nat
  BY <1>2, <1>3 DEF Subject
<1> QED BY <1>2, <1>4, <1>5

\* The batches in the order of a priority are a sequence of actions.
LEMMA ProposedType ==
  ASSUME NEW b \in Batch, NEW p \in [1 .. 3 -> Agent]
  PROVE  b[p[1]] \o b[p[2]] \o b[p[3]] \in Seq(Act)
<1>1. /\ b.energy \in BoundedSeq(PowerAction \cup Handover, MaxEnergy)
      /\ b.qoe \in BoundedSeq(Handover, MaxQoe)
      /\ b.load \in BoundedSeq(Handover \cup {Ho(u, 0) : u \in Ue} \cup Bias, MaxLoad)
  BY DEF Batch
<1>2. ASSUME NEW S, NEW n, NEW s \in BoundedSeq(S, n), S \subseteq Act
      PROVE  s \in Seq(Act)
  <2>1. PICK k \in 0 .. n : s \in [1 .. k -> S]
    BY DEF BoundedSeq, SeqOf
  <2> QED BY <1>2, <2>1
<1>3. /\ PowerAction \cup Handover \subseteq Act /\ Handover \subseteq Act
      /\ Handover \cup {Ho(u, 0) : u \in Ue} \cup Bias \subseteq Act
  BY DEF Act
<1>4. b.energy \in Seq(Act) /\ b.qoe \in Seq(Act) /\ b.load \in Seq(Act)
  BY <1>1, <1>2, <1>3
<1>5. ASSUME NEW a \in Agent
      PROVE  b[a] \in Seq(Act)
  BY <1>4 DEF Agent
<1>6. b[p[1]] \in Seq(Act) /\ b[p[2]] \in Seq(Act) /\ b[p[3]] \in Seq(Act)
  BY <1>5
<1> HIDE DEF Act
<1> QED BY <1>6

\* What is merged was proposed before anything else of its key.
LEMMA MergedFirst ==
  ASSUME NEW s, NEW a \in Merge(s)
  PROVE  \E i \in DOMAIN s :
           s[i] = a /\ \A j \in 1 .. i - 1 : KeyOf(s[j]) # KeyOf(a)
BY DEF Merge, Unseen

\* A finite number of actions is merged.
LEMMA MergedFinite ==
  ASSUME NEW S, NEW s \in Seq(S)
  PROVE  IsFiniteSet(Merge(s)) /\ Merge(s) \subseteq S
<1> DEFINE P == {k \in DOMAIN s : Unseen(s, k)}
           g == [k \in P |-> s[k]]
<1>1. P \subseteq 1 .. Len(s) /\ Len(s) \in Nat
  OBVIOUS
<1> HIDE DEF P
<1>2. IsFiniteSet(P)
  <2>1. 1 \in Int /\ Len(s) \in Int
    BY <1>1
  <2>2. IsFiniteSet(1 .. Len(s))
    BY <2>1, FS_Interval
  <2> QED BY <1>1, <2>2, FS_Subset
<1>3. g \in Surjection(P, {s[k] : k \in P})
  BY DEF Surjection
<1>4. Merge(s) = {s[k] : k \in P}
  BY DEF Merge, P
<1> HIDE DEF g
<1> QED BY <1>1, <1>2, <1>3, <1>4, FS_Surjection

\* The sorted sequence of a finite set of actions has all of them.
LEMMA SortedHasAll ==
  ASSUME NEW K \in SUBSET Act, IsFiniteSet(K), NEW t \in Sorted(K)
  PROVE  t \in Seq(K) /\ ToSet(t) = K
<1> DEFINE n == Cardinality(K)
<1>1. n \in Nat
  BY FS_CardinalityType
<1>2. t \in [1 .. n -> K] /\ \A i, j \in 1 .. n : i < j => Before(t[i], t[j])
  BY DEF Sorted
<1>3. ASSUME NEW b \in Act PROVE ~Before(b, b)
  BY ActFields DEF Before
<1>4. t \in Injection(1 .. n, K)
  <2> SUFFICES ASSUME NEW i \in 1 .. n, NEW j \in 1 .. n, t[i] = t[j], i # j PROVE FALSE
    BY <1>2 DEF Injection, IsInjective
  <2>1. t[i] \in Act
    BY <1>2
  <2>2. i < j \/ j < i
    BY <1>1
  <2> QED BY <1>2, <1>3, <2>1, <2>2
<1>5. IsFiniteSet(1 .. n) /\ Cardinality(1 .. n) = n
  BY <1>1, FS_Interval
<1>6. t \in Surjection(1 .. n, K)
  BY <1>1, <1>4, <1>5, FS_Injection
<1> HIDE DEF n
<1>7. t \in Seq(K) /\ DOMAIN t = 1 .. n
  BY <1>1, <1>2
<1> QED BY <1>6, <1>7 DEF Surjection, ToSet

\* Its commands are in the order of their ranks.
LEMMA SortedRanks ==
  ASSUME NEW K \in SUBSET Act, IsFiniteSet(K), NEW t \in Sorted(K)
  PROVE  \A i, j \in DOMAIN t : i < j => Rank(t[i]) <= Rank(t[j])
<1>1. t \in Seq(K) /\ \A i, j \in DOMAIN t : i < j => Before(t[i], t[j])
  BY SortedHasAll DEF Sorted
<1>2. \A i \in DOMAIN t : Rank(t[i]) \in Nat
  BY <1>1, ActFields
<1> QED BY <1>1, <1>2 DEF Before

\* No two actions of a merged set compete for the same thing.
LEMMA MergedUnique ==
  ASSUME NEW S, NEW s \in Seq(S), NEW a \in Merge(s), NEW b \in Merge(s), KeyOf(a) = KeyOf(b)
  PROVE  a = b
<1>1. PICK i \in DOMAIN s, j \in DOMAIN s :
        /\ a = s[i] /\ b = s[j]
        /\ \A k \in 1 .. i - 1 : KeyOf(s[k]) # KeyOf(a)
        /\ \A k \in 1 .. j - 1 : KeyOf(s[k]) # KeyOf(b)
  BY DEF Merge, Unseen
<1>2. i \in Nat /\ j \in Nat /\ i >= 1 /\ j >= 1
  <2>1. DOMAIN s = 1 .. Len(s)
    OBVIOUS
  <2> QED BY <2>1
<1>3. ~(i < j)
  <2> SUFFICES ASSUME i < j PROVE FALSE
    OBVIOUS
  <2>1. i \in 1 .. j - 1
    BY <1>2
  <2> QED BY <1>1, <2>1
<1>4. ~(j < i)
  <2> SUFFICES ASSUME j < i PROVE FALSE
    OBVIOUS
  <2>1. j \in 1 .. i - 1
    BY <1>2
  <2> QED BY <1>1, <2>1
<1>5. i = j
  BY <1>2, <1>3, <1>4
<1> QED BY <1>1, <1>5

\* They are in a strict total order.
LEMMA OrderIsTotal ==
  ASSUME NEW K \in SUBSET Act, \A a, b \in K : KeyOf(a) = KeyOf(b) => a = b
  PROVE  /\ \A a, b \in K : a # b => Before(a, b) \/ Before(b, a)
         /\ \A a, b \in K : ~(Before(a, b) /\ Before(b, a))
         /\ \A a, b, c \in K : Before(a, b) /\ Before(b, c) => Before(a, c)
<1>1. \A a \in K : Rank(a) \in Nat /\ Subject(a) \in Nat
  BY ActFields
<1>2. ASSUME NEW a \in K, NEW b \in K, Rank(a) = Rank(b), Subject(a) = Subject(b)
      PROVE  a = b
  <2>1. /\ a.type \in {"cell_sleep", "cell_wake", "ho", "set_cio"}
        /\ b.type \in {"cell_sleep", "cell_wake", "ho", "set_cio"}
    BY ActFields
  <2>2. a.type = b.type
    BY <1>2, <2>1 DEF Rank
  <2>3. KeyOf(a) = KeyOf(b)
    BY <1>2, <2>1, <2>2 DEF KeyOf, Subject
  <2> QED BY <2>3
<1> QED BY <1>1, <1>2 DEF Before

\* So there is one sorted sequence of them.
LEMMA OneSorted ==
  ASSUME NEW K \in SUBSET Act, IsFiniteSet(K),
         \A a, b \in K : KeyOf(a) = KeyOf(b) => a = b
  PROVE  \E t : Sorted(K) = {t}
<1> DEFINE size == Cardinality(K)
           below(k) == {j \in K : Before(j, k)}
           pos == [k \in K |-> Cardinality(below(k))]
           t == [n \in 1 .. size |-> CHOOSE k \in K : pos[k] = n - 1]
<1>1. size \in Nat
  BY FS_CardinalityType
<1>2. /\ \A a, b \in K : a # b => Before(a, b) \/ Before(b, a)
      /\ \A a, b \in K : ~(Before(a, b) /\ Before(b, a))
      /\ \A a, b, c \in K : Before(a, b) /\ Before(b, c) => Before(a, c)
  BY OrderIsTotal
<1> HIDE DEF size
<1>3. ASSUME NEW k \in K
      PROVE  /\ IsFiniteSet(below(k)) /\ Cardinality(below(k)) \in Nat
             /\ IsFiniteSet(below(k) \cup {k})
             /\ Cardinality(below(k) \cup {k}) = Cardinality(below(k)) + 1
  <2>1. below(k) \in SUBSET K /\ k \notin below(k)
    BY <1>2
  <2> HIDE DEF below
  <2> QED BY <2>1, FS_Subset, FS_CardinalityType, FS_AddElement
<1>4. ASSUME NEW k \in K
      PROVE  pos[k] \in Nat /\ pos[k] < size
  <2>1. below(k) \cup {k} \in SUBSET K /\ pos[k] = Cardinality(below(k))
    OBVIOUS
  <2> HIDE DEF below, pos
  <2>2. Cardinality(below(k) \cup {k}) <= size
    BY <2>1, FS_Subset DEF size
  <2> QED BY <1>1, <1>3, <2>1, <2>2
<1>5. ASSUME NEW j \in K, NEW k \in K, Before(j, k)
      PROVE  pos[j] < pos[k]
  <2>1. below(j) \cup {j} \in SUBSET below(k)
    BY <1>2, <1>5
  <2>2. pos[j] = Cardinality(below(j)) /\ pos[k] = Cardinality(below(k))
    OBVIOUS
  <2> HIDE DEF below, pos
  <2>3. Cardinality(below(j) \cup {j}) <= Cardinality(below(k))
    BY <1>3, <2>1, FS_Subset
  <2>4. /\ Cardinality(below(j) \cup {j}) = Cardinality(below(j)) + 1
        /\ Cardinality(below(j)) \in Nat /\ Cardinality(below(k)) \in Nat
    BY <1>3
  <2> QED BY <2>2, <2>3, <2>4
<1> HIDE DEF pos
<1>6. pos \in Injection(K, 0 .. size - 1)
  <2>1. pos \in [K -> 0 .. size - 1]
    BY <1>1, <1>4 DEF pos
  <2>2. \A j, k \in K : pos[j] = pos[k] => j = k
    BY <1>2, <1>4, <1>5
  <2> QED BY <2>1, <2>2 DEF Injection, IsInjective
<1>7. pos \in Surjection(K, 0 .. size - 1)
  <2>1. 0 \in Int /\ size - 1 \in Int
    BY <1>1
  <2>2. /\ IsFiniteSet(0 .. size - 1)
        /\ Cardinality(0 .. size - 1) = IF 0 > size - 1 THEN 0 ELSE size - 1 - 0 + 1
    BY <2>1, FS_Interval
  <2>3. Cardinality(0 .. size - 1) = size
    BY <1>1, <2>2
  <2> QED BY <1>6, <2>2, <2>3, FS_Injection DEF size
<1>8. ASSUME NEW n \in 1 .. size
      PROVE  t[n] \in K /\ pos[t[n]] = n - 1
  <2>1. n - 1 \in 0 .. size - 1
    BY <1>1
  <2>2. \E k \in K : pos[k] = n - 1
    BY <1>7, <2>1 DEF Surjection
  <2>3. t[n] = CHOOSE k \in K : pos[k] = n - 1
    OBVIOUS
  <2> QED BY <2>2, <2>3
<1>9. t \in [1 .. size -> K]
  BY <1>8
<1> HIDE DEF t
<1>10. t \in Sorted(K)
  <2> SUFFICES ASSUME NEW i \in 1 .. size, NEW j \in 1 .. size, i < j
               PROVE  Before(t[i], t[j])
    BY <1>9 DEF Sorted, size
  <2>1. /\ t[i] \in K /\ t[j] \in K /\ pos[t[i]] = i - 1 /\ pos[t[j]] = j - 1
    BY <1>8
  <2>2. pos[t[i]] < pos[t[j]]
    BY <1>1, <2>1
  <2>3. t[i] # t[j] /\ ~(pos[t[j]] < pos[t[i]])
    BY <1>4, <2>1, <2>2
  <2> QED BY <1>2, <1>5, <2>1, <2>3
<1>11. ASSUME NEW u \in Sorted(K)
       PROVE  u = t
  <2>1. /\ u \in [1 .. size -> K] /\ \A i, j \in 1 .. size : i < j => Before(u[i], u[j])
        /\ t \in [1 .. size -> K] /\ \A i, j \in 1 .. size : i < j => Before(t[i], t[j])
    BY <1>10, <1>11 DEF Sorted, size
  <2>2. ToSet(u) = K /\ ToSet(t) = K
    BY <1>10, <1>11, SortedHasAll
  <2>3. ASSUME NEW v, NEW k \in K, v \in [1 .. size -> K], ToSet(v) = K
        PROVE  \E i \in 1 .. size : v[i] = k
    BY <2>3 DEF ToSet
  <2> DEFINE apart == {i \in 1 .. size : u[i] # t[i]}
  <2> SUFFICES ASSUME apart # {} PROVE FALSE
    <3>1. CASE apart = {}
      <4>1. \A i \in 1 .. size : u[i] = t[i]
        BY <3>1
      <4> HIDE DEF t
      <4>2. /\ u = [i \in 1 .. size |-> u[i]] /\ t = [i \in 1 .. size |-> t[i]]
        BY <2>1
      <4> QED BY <4>1, <4>2
    <3> QED BY <3>1
  <2>4. apart \subseteq Nat
    BY <1>1
  <2>5. PICK i \in apart : \A j \in apart : ~(<<j, i>> \in OpToRel(<, Nat))
    <3> HIDE DEF apart
    <3> QED BY <2>4, NatLessThanWellFounded, WFMin, Zenon
  <2>6. i \in 1 .. size /\ u[i] # t[i] /\ u[i] \in K /\ t[i] \in K
    BY <2>1
  <2>7. ASSUME NEW j \in 1 .. size, j < i
        PROVE  u[j] = t[j]
    <3> SUFFICES ASSUME u[j] # t[j] PROVE FALSE
      OBVIOUS
    <3>1. j \in apart /\ i \in Nat /\ j \in Nat
      BY <1>1
    <3>2. <<j, i>> \in OpToRel(<, Nat)
      BY <2>7, <3>1 DEF OpToRel
    <3> QED BY <2>5, <3>1, <3>2
  <2> HIDE DEF apart
  <2>8. ASSUME NEW k \in 1 .. size, k # i
        PROVE  k < i \/ i < k
    BY <1>1, <2>6, <2>8
  <2>9. PICK k \in 1 .. size : u[k] = t[i]
    BY <2>1, <2>2, <2>3, <2>6
  <2>10. PICK l \in 1 .. size : t[l] = u[i]
    BY <2>1, <2>2, <2>3, <2>6
  <2>11. Before(u[i], t[i])
    <3>1. ~(k < i)
      <4> SUFFICES ASSUME k < i PROVE FALSE
        OBVIOUS
      <4>1. t[k] = t[i] /\ Before(t[k], t[i])
        BY <2>1, <2>6, <2>7, <2>9
      <4> QED BY <1>2, <2>6, <4>1
    <3>2. i < k
      BY <2>6, <2>8, <2>9, <3>1
    <3> QED BY <2>1, <2>6, <2>9, <3>2
  <2>12. Before(t[i], u[i])
    <3>1. ~(l < i)
      <4> SUFFICES ASSUME l < i PROVE FALSE
        OBVIOUS
      <4>1. u[l] = u[i] /\ Before(u[l], u[i])
        BY <2>1, <2>6, <2>7, <2>10
      <4> QED BY <1>2, <2>6, <4>1
    <3>2. i < l
      BY <2>6, <2>8, <2>10, <3>1
    <3> QED BY <2>1, <2>6, <2>10, <3>2
  <2> QED BY <1>2, <2>6, <2>11, <2>12
<1> QED BY <1>10, <1>11

\* Whatever is proposed and whatever the network is like, a cycle ends with
\* exactly one command list.
THEOREM OneCommandList ==
  ASSUME NEW s \in Seq(Act), NEW N
  PROVE  \E t : Sorted(Mitigate(Merge(s), N)) = {t}
<1> DEFINE K == Mitigate(Merge(s), N)
<1>1. IsFiniteSet(Merge(s)) /\ Merge(s) \subseteq Act /\ K \subseteq Merge(s)
  BY MergedFinite DEF Mitigate
<1> HIDE DEF K
<1>2. IsFiniteSet(K) /\ K \in SUBSET Act
  BY <1>1, FS_Subset
<1>3. \A a, b \in K : KeyOf(a) = KeyOf(b) => a = b
  BY <1>1, MergedUnique
<1>4. \E t : Sorted(K) = {t}
  BY <1>2, <1>3, OneSorted
<1> QED BY <1>4 DEF K

-----------------------------------------------------------------------------
(***************************************************************************)
(* Applying the list.                                                      *)
(***************************************************************************)

Steers(a) == a.type \in {"ho", "set_cio"}
Sleeps(a) == a.type = "cell_sleep"

\* The commands of the cycle, those of the list T that are still to be applied
\* and those in D that have been.
Commands(T, D) == ToSet(T) \cup D

\* What is promised of them in a network N: none steers to a cell that another
\* one puts to sleep, none that puts a cell to sleep finds a UE there, and a
\* cell that sleeps is woken before anything is steered towards it.
Promised(T, D, N) ==
  /\ \A i, j \in DOMAIN T : i < j => Rank(T[i]) <= Rank(T[j])
  /\ \A a, b \in Commands(T, D) : Steers(a) /\ Sleeps(b) => a.target # b.cell
  /\ \A a \in Commands(T, D) : Steers(a) => a.target \in Cell
  /\ \A a \in Commands(T, D) : Sleeps(a) => \A u \in Ue : N.serving[u] # a.cell
  /\ \A a \in D : Steers(a) => a.target \notin N.sleeping
  /\ \A a \in ToSet(T) : Steers(a) /\ a.target \in N.sleeping =>
       \E w \in ToSet(T) : w.type = "cell_wake" /\ w.cell = a.target

Network == [sleeping : SUBSET Cell, serving : [Ue -> Cell \cup {0}]]

ListInv ==
  /\ priority = <<>> \/ priority \in [1 .. 3 -> Agent]
  /\ snap \in Network /\ todo \in Seq(Act) /\ applied \subseteq Act
  /\ handovers \subseteq {a \in applied : a.type = "ho"}
  /\ MostImportantOnly
  /\ Promised(todo, applied, snap)

\* The filter makes the list keep the promise.
LEMMA FilteredPromise ==
  ASSUME NEW A \in SUBSET Act, IsFiniteSet(A), NEW N \in Network,
         NEW t \in Sorted(Mitigate(A, N))
  PROVE  Promised(t, {}, N) /\ t \in Seq(Act) /\ ToSet(t) = Mitigate(A, N)
<1> DEFINE K == Mitigate(A, N)
<1>1. K \subseteq A /\ \A a \in K : Kept(a, A, N)
  BY DEF Mitigate
<1>2. IsFiniteSet(K) /\ K \in SUBSET Act
  BY <1>1, FS_Subset
<1>3. \A a \in A : a.type = "cell_wake" => a \in K
  BY DEF Mitigate, Kept
<1> HIDE DEF K
<1>4. /\ t \in Seq(K) /\ ToSet(t) = K
      /\ \A i, j \in DOMAIN t : i < j => Rank(t[i]) <= Rank(t[j])
  BY <1>2, SortedHasAll, SortedRanks DEF K
<1>5. t \in Seq(Act)
  BY <1>2, <1>4
<1>6. Commands(t, {}) = K
  BY <1>4 DEF Commands
<1>7. ASSUME NEW a \in K, Steers(a)
      PROVE  a.target \in Cell /\ a.target \notin BannedTargets(A, N.sleeping)
  BY <1>1, <1>2, <1>7, ActFields DEF Steers, Kept
<1>8. ASSUME NEW b \in K, Sleeps(b)
      PROVE  b.cell \in SleepCells(A) /\ Drained(b.cell, N)
  BY <1>1, <1>8 DEF Sleeps, Kept, SleepCells
<1>9. \A a, b \in K : Steers(a) /\ Sleeps(b) => a.target # b.cell
  BY <1>7, <1>8 DEF BannedTargets
<1>10. \A a \in K : Sleeps(a) => \A u \in Ue : N.serving[u] # a.cell
  BY <1>8 DEF Drained, Network
<1>11. ASSUME NEW a \in K, Steers(a), a.target \in N.sleeping
       PROVE  \E w \in K : w.type = "cell_wake" /\ w.cell = a.target
  <2>1. a.target \in WakeCells(A)
    BY <1>7, <1>11 DEF BannedTargets
  <2> QED BY <1>3, <2>1 DEF WakeCells
<1>12. \A a \in {} : Steers(a) => a.target \notin N.sleeping
  OBVIOUS
<1>13. Promised(t, {}, N)
  BY <1>4, <1>6, <1>7, <1>9, <1>10, <1>11, <1>12 DEF Promised
<1> QED BY <1>4, <1>5, <1>13 DEF K

\* The head of a list and its tail.
LEMMA HeadTail ==
  ASSUME NEW S, NEW t \in Seq(S), t # <<>>
  PROVE  /\ Head(t) \in S /\ Tail(t) \in Seq(S)
         /\ ToSet(t) = {Head(t)} \cup ToSet(Tail(t))
         /\ \A D : Commands(Tail(t), D \cup {Head(t)}) = Commands(t, D)
         /\ \A i \in DOMAIN Tail(t) : i + 1 \in DOMAIN t /\ Tail(t)[i] = t[i + 1]
<1>1. /\ Len(t) \in Nat /\ Len(t) > 0 /\ DOMAIN t = 1 .. Len(t) /\ Head(t) = t[1]
      /\ Tail(t) \in Seq(S) /\ DOMAIN Tail(t) = 1 .. Len(t) - 1
      /\ \A i \in DOMAIN Tail(t) : Tail(t)[i] = t[i + 1]
  OBVIOUS
<1>2. \A i \in DOMAIN Tail(t) : i + 1 \in DOMAIN t
  BY <1>1
<1>3. \A i \in DOMAIN t : i = 1 \/ (i - 1 \in DOMAIN Tail(t) /\ t[i] = Tail(t)[i - 1])
  <2> SUFFICES ASSUME NEW i \in DOMAIN t, i # 1
               PROVE  i - 1 \in DOMAIN Tail(t) /\ t[i] = Tail(t)[i - 1]
    OBVIOUS
  <2>1. i - 1 \in DOMAIN Tail(t) /\ (i - 1) + 1 = i
    BY <1>1
  <2> QED BY <1>1, <2>1
<1>4. 1 \in DOMAIN t /\ Head(t) \in S
  BY <1>1
<1> DEFINE h == Head(t)
           r == Tail(t)
<1>5. ToSet(t) = {h} \cup ToSet(r)
  <2>1. \A i \in DOMAIN t : t[i] = h \/ \E k \in DOMAIN r : t[i] = r[k]
    BY <1>1, <1>3
  <2>2. t[1] = h /\ \A k \in DOMAIN r : \E i \in DOMAIN t : r[k] = t[i]
    BY <1>1, <1>2
  <2> HIDE DEF h, r
  <2> QED BY <1>4, <2>1, <2>2 DEF ToSet
<1>6. \A D : Commands(r, D \cup {h}) = Commands(t, D)
  <2> HIDE DEF h, r
  <2> QED BY <1>5 DEF Commands
<1> QED BY <1>1, <1>2, <1>4, <1>5, <1>6

\* When a command steers, no wake is left.
LEMMA SteeredAwake ==
  ASSUME NEW t \in Seq(Act), t # <<>>, NEW D, NEW N, Promised(t, D, N), Steers(Head(t))
  PROVE  Head(t).target \notin N.sleeping
<1> DEFINE h == Head(t)
<1>1. /\ h \in Act /\ h \in ToSet(t) /\ h = t[1] /\ 1 \in DOMAIN t
      /\ DOMAIN t = 1 .. Len(t) /\ Len(t) \in Nat
  BY HeadTail
<1>2. Steers(h) /\ Rank(h) \in Nat
  BY <1>1, ActFields
<1> HIDE DEF h
<1> SUFFICES ASSUME h.target \in N.sleeping PROVE FALSE
  BY DEF h
<1>3. PICK w \in ToSet(t) : w.type = "cell_wake" /\ w.cell = h.target
  BY <1>1, <1>2 DEF Promised
<1>4. PICK i \in DOMAIN t : t[i] = w
  BY DEF ToSet
<1>5. Rank(w) = 0 /\ Rank(h) > 0
  BY <1>2, <1>3 DEF Rank, Steers
<1>6. i = 1 \/ 1 < i
  BY <1>1
<1>7. i # 1
  BY <1>1, <1>4, <1>5
<1>8. Rank(h) <= Rank(w)
  BY <1>1, <1>4, <1>6, <1>7 DEF Promised
<1> QED BY <1>2, <1>5, <1>8

\* Applying the first command of a list keeps the promise.
LEMMA AppliedPromise ==
  ASSUME NEW t \in Seq(Act), t # <<>>, NEW D \in SUBSET Act, NEW N \in Network,
         Promised(t, D, N),
         NEW M \in Network,
         /\ Head(t).type = "cell_wake" =>
              M.sleeping = N.sleeping \ {Head(t).cell} /\ M.serving = N.serving
         /\ Head(t).type = "cell_sleep" =>
              M.sleeping = N.sleeping \cup {Head(t).cell} /\ M.serving = N.serving
         /\ Head(t).type = "ho" =>
              M.sleeping \subseteq N.sleeping /\ M.serving = N.serving
         /\ Head(t).type = "set_cio" => M = N
  PROVE  Promised(Tail(t), D \cup {Head(t)}, M)
<1> DEFINE h == Head(t)
           r == Tail(t)
           C == Commands(t, D)
<1>1. /\ h \in Act /\ r \in Seq(Act) /\ ToSet(t) = {h} \cup ToSet(r)
      /\ Commands(r, D \cup {h}) = C
      /\ \A i \in DOMAIN r : i + 1 \in DOMAIN t /\ r[i] = t[i + 1]
  BY HeadTail
<1>2. h = t[1] /\ 1 \in DOMAIN t /\ DOMAIN r \subseteq Nat /\ DOMAIN t \subseteq Nat
      /\ \A i \in DOMAIN r : i > 0
  <2>1. Len(t) \in Nat /\ Len(t) > 0 /\ DOMAIN t = 1 .. Len(t) /\ Len(r) \in Nat
    OBVIOUS
  <2>2. DOMAIN r = 1 .. Len(r)
    BY <1>1
  <2> QED BY <2>1, <2>2
<1>3. h \in C /\ ToSet(t) \subseteq C /\ D \subseteq C /\ ToSet(r) \subseteq ToSet(t)
  BY <1>1 DEF Commands
<1>4. /\ \A i, j \in DOMAIN t : i < j => Rank(t[i]) <= Rank(t[j])
      /\ \A a, b \in C : Steers(a) /\ Sleeps(b) => a.target # b.cell
      /\ \A a \in C : Steers(a) => a.target \in Cell
      /\ \A a \in C : Sleeps(a) => \A u \in Ue : N.serving[u] # a.cell
      /\ \A a \in D : Steers(a) => a.target \notin N.sleeping
      /\ \A a \in ToSet(t) : Steers(a) /\ a.target \in N.sleeping =>
           \E w \in ToSet(t) : w.type = "cell_wake" /\ w.cell = a.target
  BY DEF Promised
<1>5. h.type \in {"cell_sleep", "cell_wake", "ho", "set_cio"}
  BY <1>1, ActFields
<1>6. /\ h.type = "cell_wake" => M.sleeping = N.sleeping \ {h.cell} /\ M.serving = N.serving
      /\ h.type = "cell_sleep" => M.sleeping = N.sleeping \cup {h.cell} /\ M.serving = N.serving
      /\ h.type = "ho" => M.sleeping \subseteq N.sleeping /\ M.serving = N.serving
      /\ h.type = "set_cio" => M = N
  OBVIOUS
<1> HIDE DEF h, r, C
<1>7. \A i, j \in DOMAIN r : i < j => Rank(r[i]) <= Rank(r[j])
  <2> SUFFICES ASSUME NEW i \in DOMAIN r, NEW j \in DOMAIN r, i < j
               PROVE  Rank(r[i]) <= Rank(r[j])
    OBVIOUS
  <2>1. i + 1 < j + 1
    BY <1>2
  <2>2. i + 1 \in DOMAIN t /\ j + 1 \in DOMAIN t /\ r[i] = t[i + 1] /\ r[j] = t[j + 1]
    BY <1>1
  <2> QED BY <1>4, <2>1, <2>2
<1>8. \A a \in C : Sleeps(a) => \A u \in Ue : M.serving[u] # a.cell
  BY <1>4, <1>5, <1>6
<1>9. ASSUME Steers(h) PROVE h.target \notin N.sleeping
  BY <1>9, SteeredAwake DEF h
<1>10. \A a \in D \cup {h} : Steers(a) => a.target \notin M.sleeping
  <2> SUFFICES ASSUME NEW a \in D \cup {h}, Steers(a)
               PROVE  a.target \notin M.sleeping
    OBVIOUS
  <2>1. a.target \notin N.sleeping
    BY <1>4, <1>9
  <2>2. M.sleeping \subseteq N.sleeping \/ (Sleeps(h) /\ M.sleeping = N.sleeping \cup {h.cell})
    BY <1>5, <1>6 DEF Sleeps
  <2>3. Sleeps(h) => a.target # h.cell
    BY <1>3, <1>4
  <2> QED BY <2>1, <2>2, <2>3
<1>11. \A a \in ToSet(r) : Steers(a) /\ a.target \in M.sleeping =>
         \E w \in ToSet(r) : w.type = "cell_wake" /\ w.cell = a.target
  <2> SUFFICES ASSUME NEW a \in ToSet(r), Steers(a), a.target \in M.sleeping
               PROVE  \E w \in ToSet(r) : w.type = "cell_wake" /\ w.cell = a.target
    OBVIOUS
  <2>1. a.target \in N.sleeping
    <3>1. M.sleeping \subseteq N.sleeping \/ (Sleeps(h) /\ M.sleeping = N.sleeping \cup {h.cell})
      BY <1>5, <1>6 DEF Sleeps
    <3>2. Sleeps(h) => a.target # h.cell
      BY <1>3, <1>4
    <3> QED BY <3>1, <3>2
  <2>2. PICK w \in ToSet(t) : w.type = "cell_wake" /\ w.cell = a.target
    BY <1>3, <1>4, <2>1
  <2>3. w # h
    BY <1>6, <2>2
  <2> QED BY <1>1, <2>2, <2>3
<1> QED BY <1>1, <1>4, <1>7, <1>8, <1>10, <1>11 DEF Promised, h, r

-----------------------------------------------------------------------------
LEMMA ListInitially == ListInit => ListInv
<1> SUFFICES ASSUME ListInit PROVE ListInv
  OBVIOUS
<1>1. snap \in Network
  BY DEF ListInit, Network
<1>2. todo \in Seq(Act) /\ applied \subseteq Act /\ ToSet(todo) = {} /\ applied = {}
      /\ DOMAIN todo = {}
  BY DEF ListInit, ToSet
<1>3. MostImportantOnly /\ Promised(todo, applied, snap)
  BY <1>2 DEF MostImportantOnly, Promised, Commands
<1>4. handovers \subseteq {a \in applied : a.type = "ho"}
  BY DEF ListInit
<1> QED BY <1>1, <1>2, <1>3, <1>4 DEF ListInit, ListInv

\* What the agents propose becomes a list that keeps its promise.
LEMMA ListPropose ==
  ASSUME ListInv, Propose
  PROVE  ListInv'
<1>1. PICK b \in Batch, sleeping \in SUBSET Cell, serving \in [Ue -> Cell] :
        /\ proposed' = b[priority[1]] \o b[priority[2]] \o b[priority[3]]
        /\ snap' = [sleeping |-> sleeping, serving |-> serving]
        /\ todo' \in Sorted(Mitigate(Merge(proposed'), snap'))
  BY DEF Propose
<1>2. priority # <<>> /\ proposed = <<>> /\ UNCHANGED <<priority, applied, handovers>>
  BY DEF Propose
<1>3. priority \in [1 .. 3 -> Agent]
  BY <1>2 DEF ListInv
<1>4. proposed' \in Seq(Act)
  BY <1>1, <1>3, ProposedType
<1>5. snap' \in Network
  BY <1>1 DEF Network
<1>6. IsFiniteSet(Merge(proposed')) /\ Merge(proposed') \in SUBSET Act
  BY <1>4, MergedFinite
\* Without proposals there is nothing to have been applied.
<1>7. applied' = {}
  BY <1>2 DEF ListInv, MostImportantOnly
<1>8. /\ Promised(todo', {}, snap') /\ todo' \in Seq(Act)
      /\ ToSet(todo') = Mitigate(Merge(proposed'), snap')
  BY <1>1, <1>5, <1>6, FilteredPromise
<1>9. \A a \in ToSet(todo') : \E i \in DOMAIN proposed' :
        proposed'[i] = a /\ \A j \in 1 .. i - 1 : KeyOf(proposed'[j]) # KeyOf(a)
  BY <1>8, MergedFirst DEF Mitigate
<1>10. MostImportantOnly'
  BY <1>7, <1>9 DEF MostImportantOnly
<1>11. handovers' \subseteq {a \in applied' : a.type = "ho"}
  BY <1>2 DEF ListInv
<1> QED BY <1>2, <1>3, <1>5, <1>7, <1>8, <1>10, <1>11 DEF ListInv

\* Applying a command keeps it.
LEMMA ListApply ==
  ASSUME ListInv, Apply
  PROVE  ListInv'
<1> DEFINE a == Head(todo)
<1>1. /\ todo # <<>> /\ applied' = applied \cup {a} /\ todo' = Tail(todo)
      /\ snap' = CASE a.type = "cell_wake" -> [snap EXCEPT !.sleeping = @ \ {a.cell}]
                   [] a.type = "cell_sleep" -> [snap EXCEPT !.sleeping = @ \cup {a.cell}]
                   [] Sends(a) -> [snap EXCEPT !.sleeping = @ \ {a.target}]
                   [] OTHER -> snap
      /\ handovers' = IF Sends(a) THEN handovers \cup {a} ELSE handovers
      /\ UNCHANGED <<priority, proposed>>
  BY DEF Apply
<1>2. /\ todo \in Seq(Act) /\ applied \in SUBSET Act /\ snap \in Network
      /\ Promised(todo, applied, snap) /\ MostImportantOnly
  BY DEF ListInv
<1>3. /\ a \in Act /\ todo' \in Seq(Act)
      /\ Commands(todo', applied') = Commands(todo, applied)
  BY <1>1, <1>2, HeadTail
<1>4. /\ a.type \in {"cell_sleep", "cell_wake", "ho", "set_cio"}
      /\ a.type \in {"cell_sleep", "cell_wake", "set_cio"} => a.cell \in Cell
      /\ a.type = "ho" => a.ue \in Ue /\ a.target \in Cell \cup {0}
  BY <1>3, ActFields
<1> HIDE DEF a
<1>5. /\ snap' \in Network
      /\ a.type = "cell_wake" =>
           snap'.sleeping = snap.sleeping \ {a.cell} /\ snap'.serving = snap.serving
      /\ a.type = "cell_sleep" =>
           snap'.sleeping = snap.sleeping \cup {a.cell} /\ snap'.serving = snap.serving
      /\ a.type = "ho" =>
           snap'.sleeping \subseteq snap.sleeping /\ snap'.serving = snap.serving
      /\ a.type = "set_cio" => snap' = snap
  <2>1. CASE a.type = "cell_wake"
    <3>1. snap' = [snap EXCEPT !.sleeping = @ \ {a.cell}]
      BY <1>1, <2>1 DEF Sends
    <3> QED BY <1>2, <2>1, <3>1 DEF Network
  <2>2. CASE a.type = "cell_sleep"
    <3>1. snap' = [snap EXCEPT !.sleeping = @ \cup {a.cell}]
      BY <1>1, <2>2 DEF Sends
    <3> QED BY <1>2, <1>4, <2>2, <3>1 DEF Network
  <2>3. CASE a.type = "ho"
    <3>1. snap' = [snap EXCEPT !.sleeping = @ \ {a.target}] \/ snap' = snap
      BY <1>1, <2>3
    <3> QED BY <1>2, <2>3, <3>1 DEF Network
  <2>4. CASE a.type = "set_cio"
    <3>1. snap' = snap
      BY <1>1, <2>4 DEF Sends
    <3> QED BY <1>2, <2>4, <3>1
  <2> QED BY <1>4, <2>1, <2>2, <2>3, <2>4
<1>6. Promised(todo', applied', snap')
  BY <1>1, <1>2, <1>5, AppliedPromise DEF a
<1>7. MostImportantOnly'
  BY <1>1, <1>2, <1>3 DEF MostImportantOnly, Commands
<1>8. handovers' \subseteq {b \in applied' : b.type = "ho"}
  BY <1>1 DEF ListInv, Sends
<1> QED BY <1>1, <1>2, <1>3, <1>5, <1>6, <1>7, <1>8 DEF ListInv

\* A handover that is executed leads to no cell that the list has put to sleep.
LEMMA ListHandOver ==
  ASSUME ListInv, HandOver
  PROVE  ListInv'
<1>1. PICK h \in handovers : /\ snap' = [snap EXCEPT !.serving[h.ue] = h.target]
                             /\ handovers' = handovers \ {h}
  BY DEF HandOver
<1>2. UNCHANGED <<priority, proposed, todo, applied>>
  BY DEF HandOver
<1>3. /\ snap \in Network /\ applied \subseteq Act /\ Promised(todo, applied, snap)
      /\ h \in applied /\ h.type = "ho"
  BY DEF ListInv
<1>4. h \in Commands(todo, applied) /\ Steers(h)
  BY <1>3 DEF Commands, Steers
<1>5. h.target \in Cell
  BY <1>3, <1>4 DEF Promised
<1>6. /\ snap'.sleeping = snap.sleeping
      /\ snap'.serving = [snap.serving EXCEPT ![h.ue] = h.target]
      /\ snap' = [sleeping |-> snap'.sleeping, serving |-> snap'.serving]
  BY <1>1, <1>3 DEF Network
<1>7. snap'.serving \in [Ue -> Cell \cup {0}]
  BY <1>3, <1>5, <1>6 DEF Network
<1>8. snap' \in Network
  BY <1>3, <1>6, <1>7 DEF Network
<1>9. \A u \in Ue : snap'.serving[u] \in {snap.serving[u], h.target}
  BY <1>3, <1>6 DEF Network
<1>10. ASSUME NEW a \in Commands(todo, applied), Sleeps(a), NEW u \in Ue
       PROVE  snap'.serving[u] # a.cell
  <2>1. snap.serving[u] # a.cell /\ h.target # a.cell
    BY <1>3, <1>4, <1>10 DEF Promised
  <2> QED BY <1>9, <2>1
<1>11. Promised(todo, applied, snap')
  BY <1>3, <1>6, <1>10 DEF Promised
<1>12. MostImportantOnly'
  BY <1>2 DEF ListInv, MostImportantOnly
<1> QED BY <1>1, <1>2, <1>8, <1>11, <1>12 DEF ListInv

LEMMA ListStep == ListInv /\ [ListNext]_listVars => ListInv'
<1> SUFFICES ASSUME ListInv, [ListNext]_listVars PROVE ListInv'
  OBVIOUS
<1>1. CASE Prioritise
  <2>1. PICK tokens \in BoundedSeq(Token, MaxTokens) : priority' = ParsePriority(tokens)
    BY <1>1 DEF Prioritise
  <2>2. tokens \in Seq(Token)
    <3>1. PICK k \in 0 .. MaxTokens : tokens \in [1 .. k -> Token]
      BY DEF BoundedSeq, SeqOf
    <3>2. MaxTokens \in Nat
      BY ListAssumption
    <3> QED BY <3>1, <3>2
  <2>3. priority' \in [1 .. 3 -> Agent]
    BY <2>1, <2>2, PriorityType
  <2> QED BY <1>1, <2>3 DEF Prioritise, ListInv, MostImportantOnly
<1>2. CASE Propose
  BY <1>2, ListPropose
<1>3. CASE Apply
  BY <1>3, ListApply
<1>4. CASE HandOver
  BY <1>4, ListHandOver
<1>5. CASE UNCHANGED listVars
  BY <1>5 DEF listVars, ListInv, MostImportantOnly
<1> QED BY <1>1, <1>2, <1>3, <1>4, <1>5 DEF ListNext

\* For any cells, UEs, priorities and proposals: what gets through the merge and
\* the filter was the most important proposal for its UE, offsets or power.
THEOREM OnlyTheMostImportant == ListSpec => []MostImportantOnly
<1>1. ListInv => MostImportantOnly
  BY DEF ListInv
<1> QED BY <1>1, ListInitially, ListStep, PTL DEF ListSpec

\* Every cell that a command steers towards is awake then and stays awake until
\* the list is done.
THEOREM SteeringFindsCellsAwake == ListSpec => []SteeredCellsAwake
<1>1. ListInv => SteeredCellsAwake
  <2> SUFFICES ASSUME ListInv PROVE SteeredCellsAwake
    OBVIOUS
  <2>1. \A a \in applied : Steers(a) => a.target \notin snap.sleeping
    BY DEF ListInv, Promised
  <2>2. todo # <<>> /\ Steers(Head(todo)) => Head(todo).target \notin snap.sleeping
    BY SteeredAwake DEF ListInv
  <2> QED BY <2>1, <2>2 DEF SteeredCellsAwake, Steers
<1> QED BY <1>1, ListInitially, ListStep, PTL DEF ListSpec

\* A cell that the list puts to sleep has no UE of the snapshot on it, although
\* the handovers of the list are only executed later, and none of them leads
\* there.
THEOREM SleepFindsNobody == ListSpec => []NobodyPutToSleep
<1>1. ListInv => NobodyPutToSleep
  <2> SUFFICES ASSUME ListInv, NEW a \in applied, a.type = "cell_sleep"
               PROVE  /\ \A u \in Ue : snap.serving[u] # a.cell
                      /\ \A h \in handovers : h.target # a.cell
    BY DEF NobodyPutToSleep
  <2>1. a \in Commands(todo, applied) /\ Sleeps(a)
    BY DEF Commands, Sleeps
  <2>2. \A h \in handovers : h \in Commands(todo, applied) /\ Steers(h)
    BY DEF ListInv, Commands, Steers
  <2> QED BY <2>1, <2>2 DEF ListInv, Promised
<1> QED BY <1>1, ListInitially, ListStep, PTL DEF ListSpec

-----------------------------------------------------------------------------
(***************************************************************************)
(* Offsets: the rounds of the load agent.                                  *)
(***************************************************************************)

\* f is what there is after each of the first n rounds.
AreRounds(f, start, D, n) ==
  f = [i \in 0 .. n |-> IF i = 0 THEN start ELSE ApplyCioDecision(f[i - 1], D[i])]

\* The recursion of the loop has a solution.
LEMMA RoundsExist ==
  ASSUME NEW start, NEW D, Len(D) \in Nat
  PROVE  \E f : AreRounds(f, start, D, Len(D))
<1> DEFINE Solves(f, n) == AreRounds(f, start, D, n)
           bad == {n \in Nat : ~\E f : Solves(f, n)}
<1> SUFFICES ASSUME bad # {} PROVE FALSE
  OBVIOUS
<1>1. bad \subseteq Nat
  OBVIOUS
<1>2. PICK n \in bad : \A m \in bad : ~(<<m, n>> \in OpToRel(<, Nat))
  <2> HIDE DEF bad
  <2> QED BY <1>1, NatLessThanWellFounded, WFMin, Zenon
<1>3. n \in Nat /\ ~\E f : Solves(f, n)
  OBVIOUS
<1>4. n # 0
  <2> SUFFICES ASSUME n = 0 PROVE FALSE
    OBVIOUS
  <2> DEFINE f == [i \in 0 .. n |-> start]
  <2>1. \A i \in 0 .. n : i = 0
    BY <1>3
  <2>2. Solves(f, n)
    BY <2>1 DEF AreRounds
  <2> HIDE DEF f, Solves
  <2> QED BY <1>3, <2>2
<1>5. \E f : Solves(f, n - 1)
  <2> SUFFICES ASSUME ~\E f : Solves(f, n - 1) PROVE FALSE
    OBVIOUS
  <2>1. n - 1 \in Nat /\ n - 1 < n
    BY <1>3, <1>4
  <2>2. n - 1 \in bad
    BY <2>1
  <2>3. <<n - 1, n>> \in OpToRel(<, Nat)
    BY <1>3, <2>1 DEF OpToRel
  <2> QED BY <1>2, <2>2, <2>3
<1>6. PICK f : Solves(f, n - 1)
  BY <1>5
<1> DEFINE g == [i \in 0 .. n |-> IF i = n THEN ApplyCioDecision(f[n - 1], D[n]) ELSE f[i]]
<1>7. ASSUME NEW i \in 0 .. n
      PROVE  g[i] = IF i = 0 THEN start ELSE ApplyCioDecision(g[i - 1], D[i])
  <2>1. \A j \in 0 .. n - 1 : f[j] = IF j = 0 THEN start ELSE ApplyCioDecision(f[j - 1], D[j])
    BY <1>6 DEF AreRounds
  <2>2. g[i] = IF i = n THEN ApplyCioDecision(f[n - 1], D[n]) ELSE f[i]
    OBVIOUS
  <2>3. \A j \in 0 .. n - 1 : g[j] = f[j]
    BY <1>3
  <2> HIDE DEF g
  <2>4. CASE i = 0
    <3>1. i # n /\ i \in 0 .. n - 1
      BY <1>3, <1>4, <2>4
    <3> QED BY <2>1, <2>2, <2>4, <3>1
  <2>5. CASE i = n
    <3>1. i # 0 /\ n - 1 \in 0 .. n - 1
      BY <1>3, <1>4, <2>5
    <3> QED BY <2>2, <2>3, <2>5, <3>1
  <2>6. CASE i # 0 /\ i # n
    <3>1. i \in 0 .. n - 1 /\ i - 1 \in 0 .. n - 1
      BY <1>3, <2>6
    <3> QED BY <2>1, <2>2, <2>3, <2>6, <3>1
  <2> QED BY <2>4, <2>5, <2>6
<1>8. Solves(g, n)
  <2>1. g = [i \in 0 .. n |-> g[i]]
    OBVIOUS
  <2> HIDE DEF g
  <2> QED BY <1>7, <2>1 DEF AreRounds
<1> HIDE DEF g, Solves
<1> QED BY <1>3, <1>8

\* What there is after each round.
LEMMA RoundsAre ==
  ASSUME NEW start, NEW D, Len(D) \in Nat
  PROVE  /\ Rounds(start, D)[0] = start
         /\ \A i \in 1 .. Len(D) :
              Rounds(start, D)[i] = ApplyCioDecision(Rounds(start, D)[i - 1], D[i])
<1> DEFINE r == CHOOSE f : f = [i \in 0 .. Len(D) |->
                       IF i = 0 THEN start ELSE ApplyCioDecision(f[i - 1], D[i])]
<1>1. r = [i \in 0 .. Len(D) |-> IF i = 0 THEN start ELSE ApplyCioDecision(r[i - 1], D[i])]
  <2>1. PICK f : AreRounds(f, start, D, Len(D))
    BY RoundsExist
  <2> QED BY <2>1 DEF AreRounds
<1>2. Rounds(start, D) = r
  BY DEF Rounds
<1> HIDE DEF r
<1>3. r[0] = start /\ \A i \in 1 .. Len(D) : r[i] = ApplyCioDecision(r[i - 1], D[i])
  <2>1. 0 \in 0 .. Len(D) /\ \A i \in 1 .. Len(D) : i \in 0 .. Len(D) /\ i # 0
    OBVIOUS
  <2> QED BY <1>1, <2>1
<1> QED BY <1>2, <1>3

Bindings == [target : CioCell, offset : Int]
AllOffsets == [type : {"set_cio"}, cell : CioSource, target : CioCell, offset : Int]

\* At most one binding for each source cell.
Beliefs == {S \in [CioSource -> SUBSET Bindings] :
              \A c \in CioSource : \A a, b \in S[c] : a = b}

\* What an action makes the agent believe.
Implied(a) == Binding(a.target, a.offset)

\* The agent believes of each cell what it sent last, or what it did before.
RoundOK(r) ==
  /\ r.state \in Beliefs /\ r.actions \in Seq(AllOffsets)
  /\ \A c \in CioSource :
       \/ ActionsFor(r.actions, c) = {} /\ r.state[c] = cioState[c]
       \/ \E i \in ActionsFor(r.actions, c) :
            /\ \A j \in ActionsFor(r.actions, c) : j <= i
            /\ r.state[c] = {Implied(r.actions[i])}

\* One round keeps it.
LEMMA RoundKeeps ==
  ASSUME NEW r, RoundOK(r), NEW d \in CioDecision
  PROVE  RoundOK(ApplyCioDecision(r, d))
<1> DEFINE bound == r.state[d.source]
           base == IF \E b \in bound : b.target = d.target
                     THEN (CHOOSE b \in bound : TRUE).offset ELSE 0
           updated == CioClamp(base + d.delta)
           new == Binding(d.target, updated)
           out == ApplyCioDecision(r, d)
<1>1. d.source \in CioSource /\ d.target \in CioCell /\ d.delta \in Int
  BY DEF CioDecision
<1>2. r.state \in Beliefs /\ r.actions \in Seq(AllOffsets)
  BY DEF RoundOK
<1>3. bound \in SUBSET Bindings /\ \A a, b \in bound : a = b
  BY <1>1, <1>2 DEF Beliefs
<1>4. out = IF CioCooldown(d.source) THEN r
            ELSE [state |-> [r.state EXCEPT ![d.source] = {new}],
                  actions |-> IF Emits(bound, d, updated)
                                THEN Append(r.actions, Offset(d.source, d.target, updated))
                                ELSE r.actions]
  BY DEF ApplyCioDecision
<1>5. base \in Int
  <2>1. CASE \E b \in bound : b.target = d.target
    <3>1. (CHOOSE b \in bound : TRUE) \in bound
      BY <2>1
    <3>2. (CHOOSE b \in bound : TRUE) \in Bindings
      BY <1>3, <3>1
    <3> HIDE DEF bound
    <3> QED BY <2>1, <3>2 DEF Bindings
  <2>2. CASE ~\E b \in bound : b.target = d.target
    BY <2>2
  <2> QED BY <2>1, <2>2
<1> HIDE DEF base
<1>6. updated \in Int
  BY <1>1, <1>5, CioAssumption DEF CioClamp
<1>7. new \in Bindings
  BY <1>1, <1>6 DEF Binding, Bindings
<1> HIDE DEF updated, bound, out
<1>8. CASE CioCooldown(d.source)
  BY <1>4, <1>8 DEF out
<1>9. CASE ~CioCooldown(d.source) /\ ~Emits(bound, d, updated)
  <2>1. bound = {new}
    BY <1>3, <1>9 DEF Emits
  <2>2. [r.state EXCEPT ![d.source] = {new}] = r.state
    BY <1>1, <1>2, <2>1 DEF Beliefs, bound
  <2>3. out.state = r.state /\ out.actions = r.actions
    BY <1>4, <1>9, <2>2
  <2> QED BY <2>3 DEF RoundOK, out
<1>10. CASE ~CioCooldown(d.source) /\ Emits(bound, d, updated)
  <2> DEFINE o == Offset(d.source, d.target, updated)
             s == r.actions
             n == Len(s)
             t == Append(s, o)
  <2>1. out.state = [r.state EXCEPT ![d.source] = {new}] /\ out.actions = t
    BY <1>4, <1>10
  <2>2. o \in AllOffsets /\ o.cell = d.source /\ Implied(o) = new
    BY <1>1, <1>6 DEF Offset, AllOffsets, Implied
  <2> HIDE DEF new, o
  <2>3. out.state \in Beliefs
    BY <1>1, <1>2, <1>7, <2>1 DEF Beliefs
  <2>4. /\ n \in Nat /\ t \in Seq(AllOffsets) /\ DOMAIN t = 1 .. n + 1 /\ DOMAIN s = 1 .. n
        /\ t[n + 1] = o /\ \A i \in 1 .. n : t[i] = s[i]
    BY <1>2, <2>2
  <2> HIDE DEF t, s, n
  <2>5. ASSUME NEW c \in CioSource
        PROVE  \/ ActionsFor(t, c) = {} /\ out.state[c] = cioState[c]
               \/ \E i \in ActionsFor(t, c) :
                    /\ \A j \in ActionsFor(t, c) : j <= i
                    /\ out.state[c] = {Implied(t[i])}
    <3>1. CASE c = d.source
      <4>1. n + 1 \in ActionsFor(t, c) /\ \A j \in ActionsFor(t, c) : j <= n + 1
        BY <2>2, <2>4, <3>1 DEF ActionsFor
      <4>2. out.state[c] = {Implied(t[n + 1])}
        BY <1>1, <1>2, <2>1, <2>2, <2>4, <3>1 DEF Beliefs
      <4> QED BY <4>1, <4>2
    <3>2. CASE c # d.source
      <4>1. ActionsFor(t, c) = ActionsFor(s, c)
        BY <2>2, <2>4, <3>2 DEF ActionsFor
      <4>2. \A i \in ActionsFor(s, c) : t[i] = s[i]
        BY <2>4 DEF ActionsFor
      <4>3. out.state[c] = r.state[c]
        BY <1>1, <1>2, <2>1, <3>2 DEF Beliefs
      <4> QED BY <4>1, <4>2, <4>3 DEF RoundOK, s
    <3> QED BY <3>1, <3>2
  <2>6. RoundOK(out)
    BY <2>1, <2>3, <2>4, <2>5 DEF RoundOK
  <2> QED BY <2>6 DEF out
<1> QED BY <1>8, <1>9, <1>10

\* So do all of them.
LEMMA RoundsKeep ==
  ASSUME cioState \in Beliefs, NEW D \in Seq(CioDecision)
  PROVE  RoundOK(Rounds([state |-> cioState, actions |-> <<>>], D)[Len(D)])
<1> DEFINE start == [state |-> cioState, actions |-> <<>>]
           r == Rounds(start, D)
           bad == {n \in Nat : n <= Len(D) /\ ~RoundOK(r[n])}
<1>1. Len(D) \in Nat /\ \A i \in 1 .. Len(D) : D[i] \in CioDecision
  OBVIOUS
<1>2. r[0] = start /\ \A i \in 1 .. Len(D) : r[i] = ApplyCioDecision(r[i - 1], D[i])
  BY <1>1, RoundsAre
<1>3. RoundOK(start)
  <2>1. \A c \in CioSource : ActionsFor(<<>>, c) = {}
    BY DEF ActionsFor
  <2> QED BY <2>1 DEF RoundOK
<1> HIDE DEF start, r
<1> SUFFICES ASSUME bad # {} PROVE FALSE
  BY <1>1 DEF r, start
<1>4. bad \subseteq Nat
  OBVIOUS
<1>5. PICK n \in bad : \A m \in bad : ~(<<m, n>> \in OpToRel(<, Nat))
  <2> HIDE DEF bad
  <2> QED BY <1>4, NatLessThanWellFounded, WFMin, Zenon
<1>6. n \in Nat /\ n <= Len(D) /\ ~RoundOK(r[n])
  OBVIOUS
<1>7. n # 0
  BY <1>2, <1>3, <1>6
<1>8. n - 1 \in Nat /\ n - 1 < n /\ n - 1 <= Len(D) /\ n \in 1 .. Len(D)
  BY <1>1, <1>6, <1>7
<1>9. RoundOK(r[n - 1])
  <2> SUFFICES ASSUME ~RoundOK(r[n - 1]) PROVE FALSE
    OBVIOUS
  <2>1. n - 1 \in bad
    BY <1>8
  <2>2. <<n - 1, n>> \in OpToRel(<, Nat)
    BY <1>6, <1>8 DEF OpToRel
  <2> QED BY <1>5, <2>1, <2>2
<1>10. RoundOK(r[n])
  <2>1. r[n] = ApplyCioDecision(r[n - 1], D[n]) /\ D[n] \in CioDecision
    BY <1>1, <1>2, <1>8
  <2> QED BY <1>9, <2>1, RoundKeeps
<1> QED BY <1>6, <1>10

-----------------------------------------------------------------------------
(***************************************************************************)
(* Offsets: from the agent to the store.                                   *)
(***************************************************************************)

Places == {"none", "list", "file", "store", "lost"}

\* No two commands of a list are for the same cell.
OnePerCell(A) == A \subseteq AllOffsets /\ \A a, b \in A : a.cell = b.cell => a = b

\* The agent believes what command a says.
Believed(a) == cioState[a.cell] = {Implied(a)}

CioTypes ==
  /\ cioState \in Beliefs /\ newest \in [CioSource -> Places] /\ cioSim \in Nat
  /\ cioList \subseteq [ts : Nat, commands : SUBSET AllOffsets]
  /\ cioFile \subseteq [ts : Nat, commands : SUBSET AllOffsets, reads : Nat]
  /\ \A l, m \in cioList : l = m
  /\ \A f, g \in cioFile : f = g
  /\ \A l \in cioList \cup cioFile : OnePerCell(l.commands)

\* The newest action for a cell is where it is said to be and is what the agent
\* believes; an older one for it is behind it.
OnTheWay ==
  /\ \A c \in CioSource : newest[c] = "list" =>
       \E l \in cioList : \E a \in l.commands : a.cell = c /\ Believed(a)
  /\ \A c \in CioSource : newest[c] = "file" =>
       \E f \in cioFile : \E a \in f.commands : a.cell = c /\ Believed(a)
  /\ \A l \in cioList : \A a \in l.commands : newest[a.cell] \in {"list", "lost"}
  /\ \A f \in cioFile : \A a \in f.commands :
       newest[a.cell] \in {"file", "store"} => Believed(a)

CioInv == CioTypes /\ OnTheWay /\ BiasIsAsBelieved

\* What is sent last for a cell is what the agent believes of it.
LEMMA FinalImplied ==
  ASSUME NEW r, RoundOK(r), NEW c \in CioSource, ActionsFor(r.actions, c) # {}
  PROVE  /\ Final(r.actions, c) \in AllOffsets /\ Final(r.actions, c).cell = c
         /\ r.state[c] = {Implied(Final(r.actions, c))}
<1>1. PICK i \in ActionsFor(r.actions, c) :
        /\ \A j \in ActionsFor(r.actions, c) : j <= i
        /\ r.state[c] = {Implied(r.actions[i])}
  BY DEF RoundOK
<1>2. r.actions \in Seq(AllOffsets) /\ ActionsFor(r.actions, c) \subseteq DOMAIN r.actions
  BY DEF RoundOK, ActionsFor
<1>3. DOMAIN r.actions \subseteq Nat
  <2>1. DOMAIN r.actions = 1 .. Len(r.actions)
    BY <1>2
  <2> QED BY <2>1
<1> DEFINE k == CHOOSE k \in ActionsFor(r.actions, c) :
                  \A j \in ActionsFor(r.actions, c) : j <= k
<1>4. k \in ActionsFor(r.actions, c) /\ \A j \in ActionsFor(r.actions, c) : j <= k
  BY <1>1
<1>5. Final(r.actions, c) = r.actions[k]
  BY DEF Final
<1> HIDE DEF k
<1>6. k = i
  <2>1. k \in Nat /\ i \in Nat /\ k <= i /\ i <= k
    BY <1>1, <1>2, <1>3, <1>4
  <2> QED BY <2>1
<1>7. r.actions[i] \in AllOffsets /\ r.actions[i].cell = c
  BY <1>1, <1>2 DEF ActionsFor
<1> QED BY <1>1, <1>5, <1>6, <1>7

\* The pipeline lets at most one offset per cell through.
LEMMA OffsetsType ==
  ASSUME NEW s \in Seq(AllOffsets), NEW power \in Power, NEW sleeping
  PROVE  OnePerCell(Offsets(power \o s, sleeping))
<1> DEFINE PowerActs == {CellSleep(c) : c \in CioCell} \cup {CellWake(c) : c \in CioCell}
           S == PowerActs \cup AllOffsets
           A == power \o s
           M == Merge(A)
<1>1. A \in Seq(S)
  <2>1. power = <<>> \/ \E a \in PowerActs : power = <<a>>
    BY DEF Power
  <2>2. s \in Seq(S)
    <3> HIDE DEF PowerActs
    <3>1. Len(s) \in Nat /\ s \in [1 .. Len(s) -> AllOffsets]
      OBVIOUS
    <3> QED BY <3>1
  <2> HIDE DEF PowerActs
  <2>3. PowerActs \subseteq S
    OBVIOUS
  <2> HIDE DEF S
  <2>4. CASE power = <<>>
    <3>1. A = s
      BY <2>4
    <3> QED BY <2>2, <3>1
  <2>5. ASSUME NEW a \in PowerActs, power = <<a>> PROVE A \in Seq(S)
    <3>1. a \in S
      BY <2>3
    <3>2. power \in Seq(S)
      BY <2>5, <3>1
    <3> QED BY <2>2, <3>2, ConcatProperties, Zenon
  <2> QED BY <2>1, <2>4, <2>5
<1>2. \A a \in PowerActs : a.type # "set_cio"
  BY DEF CellSleep, CellWake
<1> HIDE DEF PowerActs
<1>3. M \subseteq S
  BY <1>1, MergedFinite
<1>4. \A a, b \in M : KeyOf(a) = KeyOf(b) => a = b
  BY <1>1, MergedUnique
<1>5. ASSUME NEW a \in Offsets(A, sleeping)
      PROVE  a \in M /\ a.type = "set_cio" /\ a \in AllOffsets
  <2>1. a \in M /\ a.type = "set_cio"
    BY DEF Offsets, Mitigate
  <2> QED BY <1>2, <1>3, <2>1
<1>6. ASSUME NEW a \in Offsets(A, sleeping), NEW b \in Offsets(A, sleeping), a.cell = b.cell
      PROVE  a = b
  <2>1. KeyOf(a) = KeyOf(b)
    BY <1>5, <1>6 DEF KeyOf
  <2> QED BY <1>4, <1>5, <2>1
<1> QED BY <1>5, <1>6 DEF OnePerCell

LEMMA CioInitially == CioInit => CioInv
<1> SUFFICES ASSUME CioInit PROVE CioInv
  OBVIOUS
<1>1. /\ cioState = [c \in CioSource |-> {}] /\ newest = [c \in CioSource |-> "none"]
      /\ cioSim = 1 /\ cioList = {} /\ cioFile = {}
  BY DEF CioInit
<1>2. cioState \in Beliefs /\ \A c \in CioSource : cioState[c] = {}
  BY <1>1 DEF Beliefs
<1>3. CioTypes
  BY <1>1, <1>2 DEF CioTypes, Places
<1>4. OnTheWay
  BY <1>1 DEF OnTheWay
<1>5. BiasIsAsBelieved
  BY <1>2 DEF BiasIsAsBelieved
<1> QED BY <1>3, <1>4, <1>5 DEF CioInv

\* A cycle: what is not sent is believed as before.
LEMMA CycleKeeps ==
  ASSUME CioInv, CioCycle
  PROVE  CioInv'
<1>1. PICK D \in BoundedSeq(CioDecision, MaxDecisions), power \in Power,
           sleeping \in SUBSET CioCell :
        LET r == Rounds([state |-> cioState, actions |-> <<>>], D)[Len(D)]
        IN CioDecided(r, Offsets(power \o r.actions, sleeping))
  BY DEF CioCycle
<1> DEFINE r == Rounds([state |-> cioState, actions |-> <<>>], D)[Len(D)]
           K == Offsets(power \o r.actions, sleeping)
           sent == {c \in CioSource : ActionsFor(r.actions, c) # {}}
<1>2. RoundOK(r)
  <2>1. D \in Seq(CioDecision)
    <3>1. PICK k \in 0 .. MaxDecisions : D \in [1 .. k -> CioDecision]
      BY DEF BoundedSeq, SeqOf
    <3>2. MaxDecisions \in Nat
      BY CioAssumption
    <3> QED BY <3>1, <3>2
  <2>2. cioState \in Beliefs
    BY DEF CioInv, CioTypes
  <2> QED BY <2>1, <2>2, RoundsKeep
<1>3. CioDecided(r, K) /\ UNCHANGED <<cioSim, cioFile, gCio>>
  BY <1>1 DEF CioCycle
<1> HIDE DEF r
<1>4. r.actions \in Seq(AllOffsets) /\ r.state \in Beliefs
  BY <1>2 DEF RoundOK
<1>5. OnePerCell(K)
  BY <1>4, OffsetsType
<1> HIDE DEF K
<1>6. /\ cioState' = r.state /\ cioList' = {[ts |-> cioSim, commands |-> K]}
      /\ newest' = [c \in CioSource |->
                      IF c \notin sent THEN newest[c]
                      ELSE IF Final(r.actions, c) \in K THEN "list" ELSE "lost"]
  BY <1>3 DEF CioDecided
<1>7. ASSUME NEW c \in CioSource, c \notin sent
      PROVE  cioState'[c] = cioState[c] /\ newest'[c] = newest[c]
  BY <1>2, <1>6, <1>7 DEF RoundOK
<1>8. ASSUME NEW c \in CioSource, c \in sent
      PROVE  /\ newest'[c] \in {"list", "lost"}
             /\ newest'[c] = "list" =>
                  \E a \in K : a.cell = c /\ cioState'[c] = {Implied(a)}
  <2>1. newest'[c] = IF Final(r.actions, c) \in K THEN "list" ELSE "lost"
    BY <1>6, <1>8
  <2>2. /\ Final(r.actions, c).cell = c
        /\ cioState'[c] = {Implied(Final(r.actions, c))}
    BY <1>2, <1>6, <1>8, FinalImplied
  <2> QED BY <2>1, <2>2
\* A command of the list is for a cell for which something was sent.
<1>9. ASSUME NEW a \in K
      PROVE  a.cell \in CioSource /\ a.cell \in sent
  <2>1. a \in AllOffsets
    BY <1>5, <1>9 DEF OnePerCell
  <2>2. a \in Merge(power \o r.actions)
    BY <1>9 DEF K, Offsets, Mitigate
  <2>3. PICK i \in DOMAIN (power \o r.actions) : (power \o r.actions)[i] = a
    BY <2>2 DEF Merge
  <2>4. \E j \in DOMAIN r.actions : r.actions[j] = a
    <3> DEFINE acts == r.actions
    <3>1. acts \in Seq(AllOffsets) /\ a.type = "set_cio"
      BY <1>4, <2>1 DEF AllOffsets
    <3>2. power = <<>> \/ \E c \in CioCell : power = <<CellSleep(c)>> \/ power = <<CellWake(c)>>
      BY DEF Power
    <3> HIDE DEF acts
    <3>3. CASE power = <<>>
      <4>1. power \o acts = acts
        BY <3>1, <3>3, ConcatEmptySeq, Zenon
      <4> QED BY <2>3, <4>1 DEF acts
    <3>4. CASE \E c \in CioCell : power = <<CellSleep(c)>> \/ power = <<CellWake(c)>>
      <4>1. PICK e : power = <<e>> /\ e.type # "set_cio"
        BY <3>4 DEF CellSleep, CellWake
      <4>2. (power \o acts)[1] = e
        BY <3>1, <4>1
      <4>3. DOMAIN (power \o acts) = 1 .. Len(acts) + 1 /\ Len(acts) \in Nat
            /\ DOMAIN acts = 1 .. Len(acts)
        BY <3>1, <4>1
      <4>4. \A k \in 2 .. Len(acts) + 1 : (power \o acts)[k] = acts[k - 1]
        BY <3>1, <4>1
      <4>5. i # 1 /\ i \in 1 .. Len(acts) + 1
        BY <2>3, <3>1, <4>1, <4>2, <4>3 DEF acts
      <4>6. i \in 2 .. Len(acts) + 1 /\ i - 1 \in DOMAIN acts
        BY <4>3, <4>5
      <4> QED BY <2>3, <4>4, <4>6 DEF acts
    <3> QED BY <3>2, <3>3, <3>4
  <2> QED BY <2>1, <2>4 DEF AllOffsets, ActionsFor
<1> HIDE DEF sent
<1>10. CioTypes'
  <2>1. newest' \in [CioSource -> Places]
    <3>1. newest \in [CioSource -> Places]
      BY DEF CioInv, CioTypes
    <3> QED BY <1>6, <3>1 DEF Places
  <2>2. K \in SUBSET AllOffsets
    BY <1>5 DEF OnePerCell
  <2> QED BY <1>3, <1>4, <1>5, <1>6, <2>1, <2>2 DEF CioInv, CioTypes
<1>11. OnTheWay'
  <2>1. \A c \in CioSource : newest'[c] = "list" =>
          \E l \in cioList' : \E a \in l.commands : a.cell = c /\ Believed(a)'
    <3> SUFFICES ASSUME NEW c \in CioSource, newest'[c] = "list"
                 PROVE  \E a \in K : a.cell = c /\ Believed(a)'
      BY <1>6
    <3>1. cioList = {}
      BY DEF CioCycle
    <3>2. c \in sent
      BY <1>7, <3>1 DEF CioInv, OnTheWay
    <3> QED BY <1>8, <3>2 DEF Believed
  <2>2. \A c \in CioSource : newest'[c] = "file" =>
          \E f \in cioFile' : \E a \in f.commands : a.cell = c /\ Believed(a)'
    <3> SUFFICES ASSUME NEW c \in CioSource, newest'[c] = "file"
                 PROVE  \E f \in cioFile : \E a \in f.commands : a.cell = c /\ Believed(a)'
      BY <1>3
    <3>1. c \notin sent
      BY <1>8
    <3> QED BY <1>7, <3>1 DEF CioInv, OnTheWay, Believed
  <2>3. \A l \in cioList' : \A a \in l.commands : newest'[a.cell] \in {"list", "lost"}
    BY <1>6, <1>8, <1>9
  <2>4. ASSUME NEW f \in cioFile, NEW a \in f.commands, newest'[a.cell] \in {"file", "store"}
        PROVE  Believed(a)'
    <3>1. a.cell \in CioSource
      BY DEF CioInv, CioTypes, OnePerCell, AllOffsets
    <3>2. a.cell \notin sent
      BY <1>8, <2>4, <3>1
    <3> QED BY <1>7, <2>4, <3>1, <3>2 DEF CioInv, OnTheWay, Believed
  <2> QED BY <1>3, <2>1, <2>2, <2>3, <2>4 DEF OnTheWay
<1>12. BiasIsAsBelieved'
  <2> SUFFICES ASSUME NEW c \in CioSource, NEW b \in cioState'[c], newest'[c] = "store",
                      NEW n \in CioCell
               PROVE  Ocn(c, n)' = IF n = b.target THEN b.offset ELSE 0
    BY DEF BiasIsAsBelieved
  <2>1. c \notin sent
    BY <1>8
  <2>2. Ocn(c, n)' = Ocn(c, n)
    BY <1>3 DEF Ocn
  <2> QED BY <1>7, <2>1, <2>2 DEF CioInv, BiasIsAsBelieved
<1> QED BY <1>10, <1>11, <1>12 DEF CioInv

\* New reports say nothing of offsets.
LEMMA CioTickKeeps ==
  ASSUME CioInv, CioTick
  PROVE  CioInv'
<1>1. /\ cioSim' = cioSim + 1
      /\ UNCHANGED <<cioState, cioList, cioFile, gCio, newest>>
  BY DEF CioTick
<1>2. CioTypes'
  BY <1>1 DEF CioInv, CioTypes
<1>3. OnTheWay'
  BY <1>1 DEF CioInv, OnTheWay, Believed
<1>4. BiasIsAsBelieved'
  BY <1>1 DEF CioInv, BiasIsAsBelieved, Ocn
<1> QED BY <1>2, <1>3, <1>4 DEF CioInv

\* A step that neither touches the store nor makes the agent believe something
\* new, and after which nothing has newly reached the store.
LEMMA BiasStays ==
  ASSUME BiasIsAsBelieved, gCio' = gCio,
         \A c \in CioSource : cioState'[c] \subseteq cioState[c],
         \A c \in CioSource : newest'[c] = "store" => newest[c] = "store"
  PROVE  BiasIsAsBelieved'
<1> SUFFICES ASSUME NEW c \in CioSource, NEW b \in cioState'[c], newest'[c] = "store",
                    NEW n \in CioCell
             PROVE  Ocn(c, n)' = IF n = b.target THEN b.offset ELSE 0
  BY DEF BiasIsAsBelieved
<1>1. Ocn(c, n)' = Ocn(c, n)
  BY DEF Ocn
<1>2. b \in cioState[c] /\ newest[c] = "store"
  OBVIOUS
<1> QED BY <1>1, <1>2 DEF BiasIsAsBelieved

\* The list becomes the file; what was in the file is behind it or has been read.
LEMMA CioWriteKeeps ==
  ASSUME CioInv, CioWrite
  PROVE  CioInv'
<1>1. PICK l : cioList = {l}
  <2>1. PICK l : l \in cioList
    BY DEF CioWrite
  <2>2. \A m \in cioList : m = l
    BY <2>1 DEF CioInv, CioTypes
  <2>3. cioList = {l}
    BY <2>1, <2>2
  <2> QED BY <2>3
<1> DEFINE f == [ts |-> l.ts, commands |-> l.commands, reads |-> 0]
<1>2. cioFile' = {f} /\ cioList' = {}
  BY <1>1 DEF CioWrite
<1>3. /\ UNCHANGED <<cioSim, cioState, gCio>>
      /\ newest' = [c \in CioSource |-> CASE newest[c] = "list" -> "file"
                                        [] newest[c] = "file" -> "lost"
                                        [] OTHER -> newest[c]]
  BY DEF CioWrite
<1>4. newest \in [CioSource -> Places]
  BY DEF CioInv, CioTypes
<1>5. ASSUME NEW c \in CioSource
      PROVE  /\ newest'[c] \in Places
             /\ newest'[c] = "file" => newest[c] = "list"
             /\ newest'[c] = "store" => newest[c] = "store"
             /\ newest'[c] # "list"
  BY <1>3, <1>4 DEF Places
<1>6. /\ l.ts \in Nat /\ l.commands \in SUBSET AllOffsets
      /\ OnePerCell(l.commands)
  BY <1>1 DEF CioInv, CioTypes
<1>7. f.commands = l.commands /\ f \in [ts : Nat, commands : SUBSET AllOffsets, reads : Nat]
  BY <1>6
<1> HIDE DEF f
<1>8. CioTypes'
  <2>1. newest' \in [CioSource -> Places]
    BY <1>3, <1>5
  <2> QED BY <1>2, <1>3, <1>6, <1>7, <2>1 DEF CioInv, CioTypes
<1>9. OnTheWay'
  <2>1. ASSUME NEW c \in CioSource, newest'[c] = "file"
        PROVE  \E a \in f.commands : a.cell = c /\ Believed(a)'
    <3>1. \E a \in l.commands : a.cell = c /\ Believed(a)
      BY <1>1, <1>5, <2>1 DEF CioInv, OnTheWay
    <3> QED BY <1>3, <1>7, <3>1 DEF Believed
  <2>2. ASSUME NEW a \in f.commands, newest'[a.cell] \in {"file", "store"}
        PROVE  Believed(a)'
    <3>1. a \in l.commands /\ a.cell \in CioSource /\ newest[a.cell] \in {"list", "lost"}
      BY <1>1, <1>6, <1>7 DEF CioInv, OnTheWay, AllOffsets
    <3>2. newest[a.cell] = "list"
      BY <1>5, <2>2, <3>1
    <3>3. PICK b \in l.commands : b.cell = a.cell /\ Believed(b)
      BY <1>1, <3>1, <3>2 DEF CioInv, OnTheWay
    <3>4. b = a
      BY <1>6, <3>1, <3>3 DEF OnePerCell
    <3> QED BY <1>3, <3>3, <3>4 DEF Believed
  <2> QED BY <1>2, <1>5, <2>1, <2>2 DEF OnTheWay
<1>10. BiasIsAsBelieved'
  <2>1. BiasIsAsBelieved
    BY DEF CioInv
  <2> QED BY <1>3, <1>5, <2>1, BiasStays
<1> QED BY <1>8, <1>9, <1>10 DEF CioInv

\* What was in a list that is never written is lost.
LEMMA CioCycleFailsKeeps ==
  ASSUME CioInv, CioCycleFails
  PROVE  CioInv'
<1>1. /\ cioList' = {} /\ UNCHANGED <<cioSim, cioState, cioFile, gCio>>
      /\ newest' = [c \in CioSource |-> IF newest[c] \in {"list"} THEN "lost" ELSE newest[c]]
  BY DEF CioCycleFails, Move
<1>2. newest \in [CioSource -> Places]
  BY DEF CioInv, CioTypes
<1>3. ASSUME NEW c \in CioSource
      PROVE  /\ newest'[c] \in Places /\ newest'[c] # "list"
             /\ newest'[c] \in {"file", "store"} => newest[c] = newest'[c]
  BY <1>1, <1>2 DEF Places
<1>4. CioTypes'
  <2>1. newest' \in [CioSource -> Places]
    BY <1>1, <1>3
  <2> QED BY <1>1, <2>1 DEF CioInv, CioTypes
<1>5. OnTheWay'
  <2>1. ASSUME NEW g \in cioFile, NEW a \in g.commands, newest'[a.cell] \in {"file", "store"}
        PROVE  Believed(a)'
    <3>1. a.cell \in CioSource
      BY DEF CioInv, CioTypes, OnePerCell, AllOffsets
    <3> QED BY <1>1, <1>3, <2>1, <3>1 DEF CioInv, OnTheWay, Believed
  <2>2. ASSUME NEW c \in CioSource, newest'[c] = "file"
        PROVE  \E g \in cioFile : \E a \in g.commands : a.cell = c /\ Believed(a)'
    BY <1>1, <1>3, <2>2 DEF CioInv, OnTheWay, Believed
  <2> QED BY <1>1, <1>3, <2>1, <2>2 DEF OnTheWay
<1>6. BiasIsAsBelieved'
  <2>1. BiasIsAsBelieved
    BY DEF CioInv
  <2> QED BY <1>1, <1>3, <2>1, BiasStays
<1> QED BY <1>4, <1>5, <1>6 DEF CioInv

\* An agent that is started again believes nothing.
LEMMA CioRestartKeeps ==
  ASSUME CioInv, CioRestart
  PROVE  CioInv'
<1>1. /\ cioList' = {} /\ cioFile' = {} /\ UNCHANGED <<cioSim, gCio>>
      /\ cioState' = [c \in CioSource |-> {}]
      /\ newest' = [c \in CioSource |->
                      IF newest[c] \in {"list", "file"} THEN "lost" ELSE newest[c]]
  BY DEF CioRestart, Move
<1>2. newest \in [CioSource -> Places]
  BY DEF CioInv, CioTypes
<1>3. ASSUME NEW c \in CioSource
      PROVE  newest'[c] \in Places /\ newest'[c] # "list" /\ newest'[c] # "file"
             /\ cioState'[c] = {}
  BY <1>1, <1>2 DEF Places
<1>4. CioTypes'
  <2>1. newest' \in [CioSource -> Places]
    BY <1>1, <1>3
  <2>2. cioState' \in Beliefs
    BY <1>1, <1>3 DEF Beliefs
  <2> QED BY <1>1, <2>1, <2>2 DEF CioInv, CioTypes
<1>5. OnTheWay'
  BY <1>1, <1>3 DEF OnTheWay
<1>6. BiasIsAsBelieved'
  BY <1>3 DEF BiasIsAsBelieved
<1> QED BY <1>4, <1>5, <1>6 DEF CioInv

\* The store has what the commands say for their cells, and for the others what
\* it had.
LEMMA Applied ==
  ASSUME NEW A, OnePerCell(A), gCio' = ApplyCio(gCio, A), NEW c, NEW n
  PROVE  /\ \A a \in A : a.cell = c => Ocn(c, n)' = IF n = a.target THEN a.offset ELSE 0
         /\ (\A a \in A : a.cell # c) => Ocn(c, n)' = Ocn(c, n)
<1> DEFINE k == <<c, n>>
           dom == {j \in DOMAIN gCio : \A a \in A : j \in ClearSrc(gCio, a.cell)}
                    \cup {<<a.cell, a.target>> : a \in A}
           val(j) == IF \E a \in A : a.cell = j[1]
                       THEN (CHOOSE a \in A : a.cell = j[1]).offset ELSE gCio[j]
<1>1. gCio' = [j \in dom |-> val(j)]
  BY DEF ApplyCio
<1>2. k[1] = c
  OBVIOUS
<1>3. k \in dom <=> \/ k \in DOMAIN gCio /\ \A a \in A : a.cell # c
                    \/ \E a \in A : a.cell = c /\ a.target = n
  BY DEF ClearSrc
<1>4. Ocn(c, n)' = IF k \in dom THEN val(k) ELSE 0
  <2> HIDE DEF dom, val
  <2> QED BY <1>1 DEF Ocn
<1>5. Ocn(c, n) = IF k \in DOMAIN gCio THEN gCio[k] ELSE 0
  BY DEF Ocn
<1>6. val(k) = IF \E a \in A : a.cell = c
                 THEN (CHOOSE a \in A : a.cell = c).offset ELSE gCio[k]
  BY <1>2
<1> HIDE DEF k, dom, val
<1>7. ASSUME NEW a \in A, a.cell = c
      PROVE  Ocn(c, n)' = IF n = a.target THEN a.offset ELSE 0
  <2> DEFINE b == CHOOSE b \in A : b.cell = c
  <2>1. b \in A /\ b.cell = c
    BY <1>7
  <2>2. val(k) = b.offset
    BY <1>6, <1>7
  <2> HIDE DEF b
  <2>3. b = a
    BY <1>7, <2>1 DEF OnePerCell
  <2>4. k \in dom <=> a.target = n
    BY <1>3, <1>7 DEF OnePerCell
  <2> QED BY <1>4, <2>2, <2>3, <2>4
<1>8. ASSUME \A a \in A : a.cell # c
      PROVE  Ocn(c, n)' = Ocn(c, n)
  BY <1>3, <1>4, <1>5, <1>6, <1>8
<1> QED BY <1>7, <1>8

\* The commands that are applied are what the agent believes, or newer ones are
\* to come.
LEMMA CioBridgeRunKeeps ==
  ASSUME CioInv, CioBridgeRun
  PROVE  CioInv'
<1>1. PICK f \in cioFile :
        /\ cioFile' = {[f EXCEPT !.reads = @ + 1]}
        /\ \/ Move({"file"}, "lost") /\ UNCHANGED gCio
           \/ gCio' = ApplyCio(gCio, f.commands) /\ Move({"file"}, "store")
  BY DEF CioBridgeRun
<1> DEFINE g == [f EXCEPT !.reads = @ + 1]
<1>2. UNCHANGED <<cioSim, cioState, cioList>>
  BY DEF CioBridgeRun
<1>3. cioFile = {f} /\ OnePerCell(f.commands)
      /\ f \in [ts : Nat, commands : SUBSET AllOffsets, reads : Nat]
  BY <1>1 DEF CioInv, CioTypes
<1>4. /\ g \in [ts : Nat, commands : SUBSET AllOffsets, reads : Nat]
      /\ g.commands = f.commands
  BY <1>3
<1>5. cioFile' = {g}
  BY <1>1
<1> HIDE DEF g
<1>6. newest \in [CioSource -> Places]
  BY DEF CioInv, CioTypes
<1>7. PICK to \in {"lost", "store"} :
        /\ newest' = [c \in CioSource |-> IF newest[c] \in {"file"} THEN to ELSE newest[c]]
        /\ to = "lost" => gCio' = gCio
        /\ to = "store" => gCio' = ApplyCio(gCio, f.commands)
  BY <1>1 DEF Move
<1>8. ASSUME NEW c \in CioSource
      PROVE  /\ newest'[c] \in Places /\ newest'[c] # "file"
             /\ newest[c] = "file" => newest'[c] = to
             /\ newest[c] # "file" => newest'[c] = newest[c]
  BY <1>6, <1>7 DEF Places
<1>9. CioTypes'
  <2>1. newest' \in [CioSource -> Places]
    BY <1>7, <1>8
  <2> QED BY <1>2, <1>3, <1>4, <1>5, <2>1 DEF CioInv, CioTypes
\* What is in the file, or has been applied from it, is believed.
<1>10. ASSUME NEW a \in f.commands, newest'[a.cell] = "store"
       PROVE  Believed(a)
  <2>1. a.cell \in CioSource
    BY <1>3 DEF AllOffsets
  <2>2. newest[a.cell] \in {"file", "store"}
    BY <1>8, <1>10, <2>1
  <2> QED BY <1>3, <2>2 DEF CioInv, OnTheWay
<1>11. OnTheWay'
  <2>1. ASSUME NEW c \in CioSource, newest'[c] = "list"
        PROVE  \E l \in cioList' : \E a \in l.commands : a.cell = c /\ Believed(a)'
    BY <1>2, <1>8, <2>1 DEF CioInv, OnTheWay, Believed
  <2>2. ASSUME NEW l \in cioList', NEW a \in l.commands
        PROVE  newest'[a.cell] \in {"list", "lost"}
    <3>1. a.cell \in CioSource /\ newest[a.cell] \in {"list", "lost"}
      BY <1>2 DEF CioInv, CioTypes, OnePerCell, AllOffsets, OnTheWay
    <3> QED BY <1>8, <3>1
  <2>3. ASSUME NEW a \in g.commands, newest'[a.cell] \in {"file", "store"}
        PROVE  Believed(a)'
    <3>1. a \in f.commands /\ a.cell \in CioSource
      BY <1>3, <1>4 DEF AllOffsets
    <3> QED BY <1>2, <1>8, <1>10, <2>3, <3>1 DEF Believed
  <2> QED BY <1>5, <1>8, <2>1, <2>2, <2>3 DEF OnTheWay
<1>12. BiasIsAsBelieved'
  <2> SUFFICES ASSUME NEW c \in CioSource, NEW b \in cioState[c], newest'[c] = "store",
                      NEW n \in CioCell
               PROVE  Ocn(c, n)' = IF n = b.target THEN b.offset ELSE 0
    BY <1>2 DEF BiasIsAsBelieved
  <2>1. CASE to = "lost"
    <3>1. newest[c] = "store" /\ Ocn(c, n)' = Ocn(c, n)
      BY <1>7, <1>8, <2>1 DEF Ocn
    <3> QED BY <3>1 DEF CioInv, BiasIsAsBelieved
  <2>2. CASE to = "store" /\ \E a \in f.commands : a.cell = c
    <3>1. PICK a \in f.commands : a.cell = c
      BY <2>2
    <3>2. Ocn(c, n)' = IF n = a.target THEN a.offset ELSE 0
      BY <1>3, <1>7, <2>2, <3>1, Applied
    <3>3. b = Implied(a)
      BY <1>10, <3>1 DEF Believed
    <3> QED BY <3>2, <3>3 DEF Implied, Binding
  <2>3. CASE to = "store" /\ \A a \in f.commands : a.cell # c
    <3>1. Ocn(c, n)' = Ocn(c, n)
      BY <1>3, <1>7, <2>3, Applied
    <3>2. newest[c] # "file"
      BY <1>3, <2>3 DEF CioInv, OnTheWay
    <3> QED BY <1>8, <3>1, <3>2 DEF CioInv, BiasIsAsBelieved
  <2> QED BY <2>1, <2>2, <2>3
<1> QED BY <1>9, <1>11, <1>12 DEF CioInv

LEMMA CioStep == CioInv /\ [CioNext]_cioVars => CioInv'
<1> SUFFICES ASSUME CioInv, [CioNext]_cioVars PROVE CioInv'
  OBVIOUS
<1>1. CASE UNCHANGED cioVars
  BY <1>1 DEF cioVars, CioInv, CioTypes, OnTheWay, Believed, BiasIsAsBelieved, Ocn
<1> QED BY <1>1, CioTickKeeps, CycleKeeps, CioWriteKeeps, CioCycleFailsKeeps,
           CioRestartKeeps, CioBridgeRunKeeps DEF CioNext

\* When the newest action for a cell has reached the store, the cell's UEs are
\* biased as the load agent believes, whatever was dropped on the way before.
THEOREM BiasMatchesBelief == CioSpec => []BiasIsAsBelieved
<1>1. CioInv => BiasIsAsBelieved
  BY DEF CioInv
<1> QED BY <1>1, CioInitially, CioStep, PTL DEF CioSpec
=============================================================================
