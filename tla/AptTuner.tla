------------------------------ MODULE AptTuner ------------------------------
(***************************************************************************)
(* The online tuner of the orchestrator (AptTuner, a1gent/common/apt.py).  *)
(* At the end of a cycle it observes the network and then may change one   *)
(* knob, a parameter of an agent: it starts a trial, chosen by self-heal   *)
(* or round-robin, judges it after eval_s by the score of what it observed *)
(* since, and keeps or reverts it.                                         *)
(*                                                                         *)
(* Knobs are integers.  Whether a score is better, and which self-heal     *)
(* condition holds, is left open.  Times are ages, counted in the least    *)
(* time between two cycles and not beyond what they are compared with.     *)
(***************************************************************************)
EXTENDS Integers, Sequences, ActionPipeline

CONSTANTS
  Knob,
  Start,       \* [Knob -> Int]: the values the environment configures
  Lo, Hi,      \* [Knob -> Int]: bounds
  Step,        \* [Knob -> Nat \ {0}]
  Preferred,   \* [Phase -> [Knob -> {-1, 1}]]: the direction of a first trial
  KnobsOf,     \* per phase: the sequence of its knobs
  HealKnobs,   \* per phase: the knobs self-heal may ask for
  Interval, Eval, Cooldown, MinStart,
               \* interval_s, eval_s, self_heal_cooldown_s, min_start_s
  Windows,     \* the emergency windows, as of DeterminePhase
  MaxSim       \* bound: at MaxSim the last window is over

Phase == {"normal", "emergency", "recovery"}

ASSUME TunerAssumption ==
  /\ Start \in [Knob -> Int] /\ Lo \in [Knob -> Int] /\ Hi \in [Knob -> Int]
  /\ \A k \in Knob : Lo[k] <= Hi[k]
  /\ Step \in [Knob -> Nat \ {0}] /\ Preferred \in [Phase -> [Knob -> {-1, 1}]]
  /\ KnobsOf \in [Phase -> Seq(Knob)] /\ \A p \in Phase : KnobsOf[p] # <<>>
  /\ HealKnobs \in [Phase -> SUBSET Knob]
  /\ {Interval, Eval, Cooldown, MinStart, MaxSim} \subseteq Nat

VARIABLES
  sim,        \* simulated time, up to MaxSim
  window,     \* the configured emergency: start and end
  phase,      \* intent phase of the newest cycle
  value,      \* the module globals the agents read
  trial,      \* self.trial: {} or {[knob, old, new, age, phase]}
  sinceTune,  \* time since _last_tune_t
  sinceHeal,  \* time since _last_self_heal_t
  rr,         \* _rr_idx: the next round-robin index of each phase
  outcome,    \* _last_outcome
  dir,        \* _last_dir; 0 means none
  hist,       \* the observations in reach of eval_s: [age, phase, under], where
              \* under is the knob on trial when it was made
  kept        \* history: the value each knob was configured or accepted with

tunerVars == <<value, trial, sinceTune, sinceHeal, rr, outcome, dir, kept>>
vars == <<sim, window, phase, tunerVars, hist>>

TypeOK ==
  /\ sim \in 0 .. MaxSim /\ window \in Windows /\ phase \in Phase
  /\ value \in [Knob -> Int] /\ kept \in [Knob -> Int]
  /\ \A k \in Knob : value[k] \in Lo[k] .. Hi[k] \cup {Start[k]}
  /\ trial \subseteq [knob : Knob, old : Int, new : Int, age : 0 .. Eval, phase : Phase]
  /\ \A s, t \in trial : s = t
  /\ sinceTune \in 0 .. Interval /\ sinceHeal \in 0 .. Cooldown
  /\ rr \in [Phase -> Nat] /\ \A p \in Phase : rr[p] < Len(KnobsOf[p])
  /\ outcome \in [Knob -> {"", "accept", "reject"}]
  /\ dir \in [Knob -> {-1, 0, 1}]

Init ==
  /\ sim = 0
  /\ window \in Windows
  /\ phase = DeterminePhase(0, window.start, window.end)
  /\ value = Start
  /\ trial = {}
  /\ sinceTune = Interval /\ sinceHeal = Cooldown
  /\ rr = [p \in Phase |-> 0]
  /\ outcome = [k \in Knob |-> ""]
  /\ dir = [k \in Knob |-> 0]
  /\ hist = {}
  /\ kept = Start

-----------------------------------------------------------------------------
(***************************************************************************)
(* Trials.  The operators that start one take the directions d, which      *)
(* self-heal may have changed just before.                                 *)
(***************************************************************************)

\* _clamp with the bounds of knob k.
Clamp(k, x) == IF x < Lo[k] THEN Lo[k] ELSE IF x > Hi[k] THEN Hi[k] ELSE x

\* _set_knob, which limits every value, also one that was there before.
SetKnob(k, x) == value' = [value EXCEPT ![k] = Clamp(k, x)]

\* The direction in which knob k was tried, or the preferred one of phase p.
LastDir(d, k, p) == IF d[k] = 0 THEN Preferred[p][k] ELSE d[k]

\* The directions when a trial of knob k is to start: after a reject it is the
\* other one.
Turned(d, k, p) ==
  [d EXCEPT ![k] = IF outcome[k] = "reject" THEN -LastDir(d, k, p) ELSE LastDir(d, k, p)]

\* The value of the next trial of knob k.
Moved(d, k, p) == Clamp(k, value[k] + Turned(d, k, p)[k] * Step[k])

\* _start_trial of knob k, which can move.
StartTrial(d, k, p) ==
  /\ Moved(d, k, p) # value[k]
  /\ SetKnob(k, Moved(d, k, p))
  /\ trial' = {[knob |-> k, old |-> value[k], new |-> Moved(d, k, p), age |-> 0, phase |-> p]}
  /\ sinceTune' = 0
  /\ dir' = Turned(d, k, p)
  /\ UNCHANGED <<outcome, kept>>

\* _start_trial of knob k, which cannot move: its direction is noted.
NoTrial(d, k, p) ==
  /\ Moved(d, k, p) = value[k]
  /\ dir' = Turned(d, k, p)
  /\ UNCHANGED <<value, trial, outcome, kept>>

\* Mutant of AbortTrial: the knob is left as it is.
MutKnobLeft(t) ==
  /\ trial' = {}
  /\ UNCHANGED <<value, rr, outcome, dir, kept>>

\* The phase has changed during trial t.
AbortTrial(t) ==
  /\ SetKnob(t.knob, t.old)
  /\ trial' = {}
  /\ UNCHANGED <<rr, outcome, dir, kept>>

\* _finish_trial: whether the score of the last eval_s is better decides.
FinishTrial(t) ==
  /\ \/ /\ outcome' = [outcome EXCEPT ![t.knob] = "accept"]
        /\ kept' = [kept EXCEPT ![t.knob] = t.new]
        /\ UNCHANGED value
     \/ /\ outcome' = [outcome EXCEPT ![t.knob] = "reject"]
        /\ SetKnob(t.knob, t.old)
        /\ UNCHANGED kept
  /\ trial' = {}
  /\ UNCHANGED <<rr, dir>>

-----------------------------------------------------------------------------
(***************************************************************************)
(* The tuner's part of a cycle.                                            *)
(***************************************************************************)

Least(x, y) == IF x < y THEN x ELSE y

\* The ages when one unit of time has passed.
Older(t) == [t EXCEPT !.age = Least(@ + 1, Eval)]
TuneAge == Least(sinceTune + 1, Interval)
HealAge == Least(sinceHeal + 1, Cooldown)

\* The observations of the last eval_s, one unit later.
Remembered == {[o EXCEPT !.age = @ + 1] : o \in {h \in hist : h.age < Eval}}

\* Mutant of HealCooled: self-heal may start whenever a trial may.
MutNeverCooling == TRUE

HealCooled == HealAge = Cooldown

\* _maybe_start_self_heal starts a trial.
SelfHeal(p) ==
  /\ HealCooled
  /\ \E k \in HealKnobs[p] : StartTrial(dir, k, p)
  /\ sinceHeal' = 0
  /\ UNCHANGED rr

\* The directions once self-heal has or has not asked for a knob that cannot
\* move.
HealedDirections(p) ==
  {dir} \cup {Turned(dir, k, p) : k \in {h \in HealKnobs[p] : HealCooled /\ Moved(dir, h, p) = value[h]}}

NextKnob(p) == KnobsOf[p][rr[p] + 1]

\* _start_opt_trial of the next knob of the phase.
Optimize(p) ==
  /\ \E d \in HealedDirections(p) :
       \/ StartTrial(d, NextKnob(p), p)
       \/ NoTrial(d, NextKnob(p), p) /\ sinceTune' = TuneAge
  /\ rr' = [rr EXCEPT ![p] = (@ + 1) % Len(KnobsOf[p])]
  /\ sinceHeal' = HealAge

\* Mutant of PhaseChanged: the phase is not looked at.
MutPhaseIgnored(t, p) == FALSE

PhaseChanged(t, p) == t.phase # p

\* maybe_tune in a cycle of phase p at time s.
MaybeTune(s, p) ==
  \/ /\ s < MinStart
     /\ sinceTune' = TuneAge /\ sinceHeal' = HealAge
     /\ UNCHANGED <<value, trial, rr, outcome, dir, kept>>
  \/ /\ s >= MinStart
     /\ \E t \in trial :
          \/ PhaseChanged(t, p) /\ AbortTrial(t)
          \/ /\ ~PhaseChanged(t, p) /\ Older(t).age < Eval
             /\ trial' = {Older(t)}
             /\ UNCHANGED <<value, rr, outcome, dir, kept>>
          \/ ~PhaseChanged(t, p) /\ Older(t).age = Eval /\ FinishTrial(t)
     /\ sinceTune' = TuneAge /\ sinceHeal' = HealAge
  \/ /\ s >= MinStart /\ trial = {} /\ TuneAge < Interval
     /\ sinceTune' = TuneAge /\ sinceHeal' = HealAge
     /\ UNCHANGED <<value, trial, rr, outcome, dir, kept>>
  \/ /\ s >= MinStart /\ trial = {} /\ TuneAge = Interval
     /\ SelfHeal(p) \/ Optimize(p)

\* A cycle, one unit of time after the one before: observe, then maybe_tune.
Cycle ==
  /\ sim' = Least(sim + 1, MaxSim)
  /\ phase' = DeterminePhase(sim', window.start, window.end)
  /\ hist' = Remembered \cup
       {[age |-> 0, phase |-> phase', under |-> {t.knob : t \in trial}]}
  /\ MaybeTune(sim', phase')
  /\ UNCHANGED window

\* Time passes without a cycle that gets as far as the tuner: it takes longer,
\* or fails.
Skip ==
  /\ sim' = Least(sim + 1, MaxSim)
  /\ hist' = Remembered
  /\ trial' = {Older(t) : t \in trial}
  /\ sinceTune' = TuneAge /\ sinceHeal' = HealAge
  /\ UNCHANGED <<window, phase, value, rr, outcome, dir, kept>>

Next == Cycle \/ Skip

Spec == Init /\ [][Next]_vars

\* The orchestrator keeps going while the simulation does.
FairSpec == Spec /\ WF_vars(Cycle)

-----------------------------------------------------------------------------
(***************************************************************************)
(* Properties.                                                             *)
(***************************************************************************)

\* Only accepted trials leave a trace: whatever is started, aborted, rejected
\* or skipped, and whichever phases share a knob, a knob that is not on trial
\* has the value it was configured or last accepted with, and one on trial
\* goes back to it.  It must have been configured within its bounds.
OnlyAcceptedStays ==
  \A k \in Knob : Start[k] \in Lo[k] .. Hi[k] =>
    IF \E t \in trial : t.knob = k
      THEN \A t \in trial : t.old = kept[k] /\ t.new = value[k]
      ELSE value[k] = kept[k]

\* A value is accepted on nothing but what was observed in the phase of its
\* trial and with it, except for the cycle in which it began, eval_s ago:
\* neither a phase change nor a cycle left out puts other observations in.
JudgedInPhase ==
  [][\A t \in trial : kept'[t.knob] = t.new =>
       \A o \in hist' : o.phase = t.phase
                        /\ (o.under = {t.knob} \/ o.age = Eval)]_vars

\* Self-heal cannot keep round-robin from its turn: as long as no cycle is
\* skipped, every knob of the last phase is considered again and again.
RoundRobinGoesOn ==
  <>[][~Skip]_vars =>
    \A p \in Phase : <>[](phase = p) => \A i \in 1 .. Len(KnobsOf[p]) : []<>(rr[p] = i - 1)
=============================================================================
