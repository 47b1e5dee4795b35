-------------------------- MODULE PracticeSchedule -------------------------
(***************************************************************************)
(* Which item a lesson serves next: the practice scheduler and the steps   *)
(* of the transfer probe.  Pure and deterministic.                         *)
(***************************************************************************)
EXTENDS LessonCatalog, Integers

CONSTANTS RampStep,        \* practice items per difficulty tier
          MaxDifficulty    \* the hardest tier

ASSUME ScheduleAssumption ==
  RampStep \in Nat \ {0} /\ MaxDifficulty \in Nat \ {0}

\* FAULTY: one more item per tier.
DifficultyForSlow(servedIndex) ==
  IF servedIndex < 0 THEN 1
  ELSE AtMost(1 + (servedIndex \div (RampStep + 1)), MaxDifficulty)

\* The ramp: easy items first, never easier again.
DifficultyFor(servedIndex) ==
  IF servedIndex < 0 THEN 1
  ELSE AtMost(1 + (servedIndex \div RampStep), MaxDifficulty)

\* Two live representations are what the mastery rules need.
IsMasterableLive(kc) == Len(LiveReps[kc]) >= 2

LiveRepSet(kc) == {LiveReps[kc][i] : i \in 1..Len(LiveReps[kc])}

\* FAULTY: always the first representation.
NextSpecUnrotated(kc, servedIndex) == LiveReps[kc][1]

\* The goal rotated through its representations.
NextSpec(kc, servedIndex) == LiveReps[kc][1 + (servedIndex % Len(LiveReps[kc]))]

\* After a wrong answer, the same representation again.
NextSpecAfterOutcome(kc, servedIndex, last) ==
  IF last.correct THEN NextSpec(kc, servedIndex)
  ELSE IF last.format \in LiveRepSet(kc) THEN last.format
  ELSE LiveReps[kc][1]

\* The first element of reps that lies in wanted, or default when none does.
IsFirstIn(reps, wanted, i) ==
  /\ reps[i] \in wanted
  /\ \A j \in 1..Len(reps) : reps[j] \in wanted => i <= j

FirstIn(reps, wanted, default) ==
  IF \E i \in 1..Len(reps) : IsFirstIn(reps, wanted, i)
  THEN reps[CHOOSE i \in 1..Len(reps) : IsFirstIn(reps, wanted, i)]
  ELSE default

\* The head of the transfer order: live representations other than the one
\* just worked, in table order, then the one just worked.
TransferHead(kc, recent) ==
  FirstIn(LiveReps[kc], Representation \ {recent}, LiveReps[kc][1])

\* The representation of the transfer step.  When the error-finding pair
\* follows, which is symbolic, the transfer step takes another representation:
\* the first one not symbolic in the transfer order.
TransferFormat(kc, recent) ==
  IF kc \notin ErrorFinding THEN TransferHead(kc, recent)
  ELSE FirstIn(LiveReps[kc], Representation \ {recent, "symbolic"},
         FirstIn(LiveReps[kc], Representation \ {"symbolic"},
                 TransferHead(kc, recent)))

\* A second item in another representation, where no wrong claim is modelled.
SecondFormat(kc, recent) ==
  LET first == TransferFormat(kc, recent)
  IN  FirstIn(LiveReps[kc], Representation \ {first, recent},
         FirstIn(LiveReps[kc], Representation \ {first}, first))

\* FAULTY: the transfer step may be symbolic before the symbolic pair.
BuildLiveProbeStepsOneFormat(kc, recent) ==
  IF kc \in ErrorFinding
  THEN <<TransferHead(kc, recent), "symbolic", "symbolic">>
  ELSE <<TransferFormat(kc, recent), SecondFormat(kc, recent)>>

\* The representations of the probe's steps, in order.
BuildLiveProbeSteps(kc, recent) ==
  IF kc \in ErrorFinding
  THEN <<TransferFormat(kc, recent), "symbolic", "symbolic">>
  ELSE <<TransferFormat(kc, recent), SecondFormat(kc, recent)>>

StepFormats(steps) == {steps[i] : i \in 1..Len(steps)}
=============================================================================
