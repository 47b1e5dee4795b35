-------------------------- MODULE LiveLesson_proof --------------------------
(***************************************************************************)
(* Proofs about the live lesson, for every catalogue and all the bounds.   *)
(***************************************************************************)
EXTENDS LiveLesson, PracticeSchedule_proof

-----------------------------------------------------------------------------
(* The inductive invariant.                                                *)

(* The step on screen is a step of the probe.                               *)
ProbeShape == IF probe = << >> THEN step = 0 ELSE step < Len(probe)

(* The wait a lesson still has and the practice it has had since its failed  *)
(* probe make up the whole cooldown; a KC nobody is working on waits for     *)
(* nothing, so a prerequisite lesson may start with none.                   *)
RestMatchesCooldown ==
  /\ rested[tutor.goal] + cooldown = ProbeCooldown
  /\ paused # << >> =>
       rested[paused[1].tutor.goal] + paused[1].cooldown = ProbeCooldown
  /\ \A kc \in KC :
       kc # tutor.goal /\ (paused # << >> => kc # paused[1].tutor.goal)
         => rested[kc] = ProbeCooldown

(* A paused tutor is one that has just served: serving again changes nothing *)
(* of it.                                                                   *)
PausedServed ==
  paused # << >> =>
    /\ ServeNext(paused[1].tutor) = paused[1].tutor
    /\ SurfaceMatches(paused[1].tutor)

(* The inductive invariant: the parts the runs check, strengthened by the   *)
(* shape of the probe, the history of rests and the paused snapshot.        *)
IInv ==
  /\ TypeOK
  /\ ProbeShape
  /\ RestMatchesCooldown
  /\ PausedServed
  /\ ProbeIsEarned
  /\ ScreenIsJudged
  /\ OneLevelDown
  /\ SurfaceMatchesCounters

-----------------------------------------------------------------------------
(* The pure parts: what the operators of one turn return.                   *)

(* A capped counter stays under its cap.                                    *)
LEMMA AtMostType ==
  ASSUME NEW n \in Nat, NEW bound \in Nat
  PROVE  AtMost(n, bound) \in 0..bound
BY DEF AtMost

(* The next index stays under its cap.                                      *)
LEMMA NextIndexType ==
  ASSUME NEW n \in 0..IndexCap
  PROVE  NextIndex(n) \in 0..IndexCap
BY LessonAssumption DEF NextIndex

(* The policy routes to a surface a lesson has, and never to the probe's.   *)
LEMMA NextTransitionType ==
  ASSUME NEW kc \in KC, NEW surface \in SurfaceState, NEW o \in Answer,
         NEW streak, NEW errors,
         NextTransition(kc, surface, o, streak, errors).moves
  PROVE  NextTransition(kc, surface, o, streak, errors).to
           \in SurfaceState \ {"S5_transfer_probe"}
<1> DEFINE e == ErrorSurface(kc, o.category)
<1>1. e \in (SurfaceState \ {"S5_transfer_probe"}) \cup {NoRoute}
  <2> DEFINE rep == ErrorRoutes[kc][o.category]
  <2>1. rep \in Representation \cup {NoRoute}
    BY CatalogAssumption DEF Answer, ErrorCategory
  <2>2. SurfaceFor(rep) \in (SurfaceState \ {"S5_transfer_probe"}) \cup {NoRoute}
    BY <2>1 DEF SurfaceFor, SurfaceState, Representation, NoRoute
  <2> QED BY <2>2 DEF ErrorSurface
<1>2. Reroutes(kc, surface, o) => e \in SurfaceState \ {"S5_transfer_probe"}
  BY <1>1 DEF Reroutes
<1> QED BY <1>2 DEF NextTransition, StateChange, NoChange, SurfaceState

(* Folding an answer in keeps the evidence an evidence.                     *)
LEMMA ObserveType ==
  ASSUME NEW e \in Evidence, NEW o \in Answer, NEW rep \in Representation
  PROVE  Observe(e, o, rep) \in Evidence
<1>1. /\ AtMost(e.engaged + 1, MinAttempts) \in 0..MinAttempts
      /\ AtMost(e.correct + 1, InterleaveCadence) \in 0..InterleaveCadence
  <2>1. e.engaged + 1 \in Nat /\ e.correct + 1 \in Nat
    BY MasteryAssumption DEF Evidence
  <2> QED BY <2>1, MasteryAssumption, AtMostType
<1> QED BY <1>1 DEF Observe, Evidence, Answer

(* A fresh lesson is a tutor, at its first problem.                         *)
LEMMA ForGoalKCType ==
  ASSUME NEW kc \in KC
  PROVE  /\ ForGoalKC(kc) \in Tutor
         /\ ForGoalKC(kc).goal = kc
         /\ SurfaceMatches(ForGoalKC(kc))
<1>1. LiveReps[kc][1] \in Representation
  BY LiveRepsType
<1>2. NoEvidence \in Evidence
  BY MasteryAssumption DEF NoEvidence, Evidence
<1>3. PracticeItem(kc, LiveReps[kc][1], 0) \in Item
  BY <1>1 DEF PracticeItem, Item
<1>4. /\ 0 \in 0..IndexCap /\ 0 \in 0..FadeStreak /\ 0 \in 0..StuckErrors
      /\ FadeStreak >= 1 /\ StuckErrors >= 1
      /\ StuckErrors \in Nat
  BY LessonAssumption, PolicyAssumption
<1> QED BY <1>1, <1>2, <1>3, <1>4 DEF ForGoalKC, Tutor, SurfaceMatches, SurfaceState

(* An answer keeps the lesson's goal and problem, and its surface goes on    *)
(* agreeing with its counters.                                              *)
LEMMA SubmitAnswerType ==
  ASSUME NEW t \in Tutor, NEW o \in Answer, SurfaceMatches(t)
  PROVE  /\ SubmitAnswer(t, o) \in Tutor
         /\ SubmitAnswer(t, o).goal = t.goal
         /\ SubmitAnswer(t, o).problem = t.problem
         /\ SurfaceMatches(SubmitAnswer(t, o))
<1> DEFINE errors == IF o.correct THEN 0 ELSE AtMost(t.errors + 1, StuckErrors)
           streak == IF o.correct /\ ~o.hinted THEN AtMost(t.streak + 1, FadeStreak)
                     ELSE 0
           move   == NextTransition(t.goal, t.surface, o, streak, errors)
           s      == SubmitAnswer(t, o)
<1>1. errors \in 0..StuckErrors /\ streak \in 0..FadeStreak
  <2>1. t.errors + 1 \in Nat /\ t.streak + 1 \in Nat
    BY PolicyAssumption DEF Tutor
  <2>2. /\ AtMost(t.errors + 1, StuckErrors) \in 0..StuckErrors
        /\ AtMost(t.streak + 1, FadeStreak) \in 0..FadeStreak
    BY <2>1, PolicyAssumption, AtMostType
  <2>3. 0 \in 0..StuckErrors /\ 0 \in 0..FadeStreak
    BY PolicyAssumption
  <2> QED BY <2>2, <2>3
<1>2. move.moves => move.to \in SurfaceState \ {"S5_transfer_probe"}
  BY NextTransitionType DEF Tutor
<1>3. /\ NextIndex(t.answered) \in 0..IndexCap
      /\ t.problem.format \in Representation
      /\ Observe(t.evidence, o, t.problem.format) \in Evidence
  BY NextIndexType, ObserveType DEF Tutor, Item
<1>4. /\ s = [t EXCEPT !.answered = NextIndex(t.answered),
                       !.surface  = IF move.moves THEN move.to ELSE t.surface,
                       !.streak   = IF move.moves THEN 0 ELSE streak,
                       !.errors   = errors,
                       !.evidence = Observe(t.evidence, o, t.problem.format),
                       !.last     = [correct |-> o.correct, format |-> t.problem.format]]
  BY DEF SubmitAnswer
<1>5. 0 \in 0..FadeStreak
  BY PolicyAssumption
<1>6. o.correct \in BOOLEAN
  BY DEF Answer
<1>7. /\ s.surface = IF move.moves THEN move.to ELSE t.surface
      /\ s.streak = IF move.moves THEN 0 ELSE streak
      /\ s.errors = errors
      /\ s.goal = t.goal
      /\ s.problem = t.problem
  <2> HIDE DEF s, errors, streak, move
  <2> QED BY <1>4 DEF Tutor
<1>8. s \in Tutor
  <2> HIDE DEF s, errors, streak, move
  <2> QED BY <1>1, <1>2, <1>3, <1>4, <1>5, <1>6 DEF Tutor
<1>9. SurfaceMatches(s)
  <2>1. s.streak = 0 \/ s.errors = 0
    BY <1>7
  <2>2. s.errors >= StuckErrors => s.surface = "S4_worked_example"
    <3> SUFFICES ASSUME errors >= StuckErrors PROVE s.surface = "S4_worked_example"
      BY <1>7
    <3>1. ~o.correct
      BY PolicyAssumption
    <3>2. move = StateChange("S4_worked_example")
      BY <3>1 DEF NextTransition, Stuck
    <3> QED BY <1>7, <3>2 DEF StateChange
  <2>3. s.surface # "S1_symbolic_focus" => s.streak < FadeStreak
    <3>1. CASE move.moves
      BY <1>7, <3>1, PolicyAssumption
    <3>2. CASE ~move.moves
      <4>1. s.streak = streak /\ s.surface = t.surface
        BY <1>7, <3>2
      <4>2. SUFFICES ASSUME t.surface # "S1_symbolic_focus", streak >= FadeStreak
                     PROVE  FALSE
        BY <4>1, <1>1, PolicyAssumption
      <4>3. o.correct /\ ~o.hinted
        BY <4>2, PolicyAssumption
      <4>4. Fades(t.surface, o, streak)
        BY <4>2, <4>3 DEF Fades
      <4>5. ~Stuck(o, errors)
        BY <4>3 DEF Stuck
      <4>6. move = StateChange("S1_symbolic_focus")
        BY <4>4, <4>5 DEF NextTransition
      <4> QED BY <3>2, <4>6 DEF StateChange
    <3> QED BY <3>1, <3>2
  <2>4. s.surface # "S5_transfer_probe"
    <3> HIDE DEF move
    <3> QED BY <1>2, <1>7 DEF SurfaceMatches
  <2> QED BY <2>1, <2>2, <2>3, <2>4 DEF SurfaceMatches
<1> QED BY <1>7, <1>8, <1>9

(* Serving changes the problem alone, and serving twice is serving once.    *)
LEMMA ServeNextType ==
  ASSUME NEW t \in Tutor
  PROVE  /\ ServeNext(t) \in Tutor
         /\ ServeNext(t).goal = t.goal
         /\ ServeNext(t).answered = t.answered
         /\ ServeNext(t).surface = t.surface
         /\ ServeNext(t).evidence = t.evidence
         /\ ServeNext(ServeNext(t)) = ServeNext(t)
         /\ SurfaceMatches(t) => SurfaceMatches(ServeNext(t))
<1> DEFINE format == NextSpecAfterOutcome(t.goal, t.answered - 1, t.last)
           item   == PracticeItem(t.goal, format, t.answered)
<1>1. format \in Representation
  <2>1. t.goal \in KC /\ t.answered - 1 \in Int
    BY LessonAssumption DEF Tutor
  <2> QED BY <2>1, NextSpecAfterOutcomeIsLive, LiveRepSetType
<1>2. item \in Item
  BY <1>1, LessonAssumption DEF PracticeItem, Item, Tutor
<1>3. ServeNext(t) = [t EXCEPT !.problem = item]
  BY DEF ServeNext
<1>4. ServeNext(t) \in Tutor
  <2> HIDE DEF item
  <2> QED BY <1>2, <1>3 DEF Tutor
<1>5. /\ ServeNext(t).goal = t.goal
      /\ ServeNext(t).answered = t.answered
      /\ ServeNext(t).surface = t.surface
      /\ ServeNext(t).evidence = t.evidence
      /\ ServeNext(t).streak = t.streak
      /\ ServeNext(t).errors = t.errors
      /\ ServeNext(t).last = t.last
  <2> HIDE DEF item
  <2> QED BY <1>3 DEF Tutor
<1>6. ServeNext(ServeNext(t)) = ServeNext(t)
  <2>1. ServeNext(ServeNext(t)) = [ServeNext(t) EXCEPT !.problem = item]
    BY <1>5 DEF ServeNext
  <2> HIDE DEF item
  <2> QED BY <1>3, <2>1 DEF Tutor
<1>7. SurfaceMatches(t) => SurfaceMatches(ServeNext(t))
  BY <1>5 DEF SurfaceMatches
<1> QED BY <1>4, <1>5, <1>6, <1>7

(* One practice answer of rest more, one of waiting less.                   *)
LEMMA RestBalances ==
  ASSUME NEW r \in 0..ProbeCooldown, NEW c \in 0..ProbeCooldown,
         r + c = ProbeCooldown
  PROVE  /\ AtMost(r + 1, ProbeCooldown) \in 0..ProbeCooldown
         /\ OneLess(c) \in 0..ProbeCooldown
         /\ AtMost(r + 1, ProbeCooldown) + OneLess(c) = ProbeCooldown
BY LessonAssumption DEF AtMost, OneLess

(* The run of high readings stays under the gate.                           *)
LEMMA ScoredType ==
  ASSUME NEW run \in 0..GateK, NEW high \in BOOLEAN
  PROVE  Scored(run, high) \in 0..GateK
BY GateAssumption DEF Scored, AtMost

-----------------------------------------------------------------------------
(* The invariant holds at the start and after every action.                 *)

(* A response is well-typed when what it shows is.                          *)
LEMMA RespondType ==
  ASSUME NEW surface \in SurfaceState, NEW item \in Item, NEW says \in SUBSET Says,
         Respond(surface, item, says)
  PROVE  /\ reply' \in [surface : SurfaceState, item : Item, says : SUBSET Says]
         /\ reply'.item = item
         /\ reply'.surface = surface
BY DEF Respond, Says

(* A step of the probe is an item.                                          *)
LEMMA ProbeItemType ==
  ASSUME NEW kc \in KC, NEW steps \in Seq(Representation), NEW i \in Nat, i < Len(steps)
  PROVE  ProbeItem(kc, steps, i) \in Item
<1>1. steps[i + 1] \in Representation
  OBVIOUS
<1> QED BY <1>1 DEF ProbeItem, Item

(* A fresh session satisfies the invariant.                                 *)
LEMMA InitInv == Init => IInv
<1> SUFFICES ASSUME Init PROVE IInv
  OBVIOUS
<1>1. PICK kc \in KC : tutor = ForGoalKC(kc)
  BY CatalogAssumption DEF Init
<1>2. tutor \in Tutor /\ SurfaceMatches(tutor) /\ tutor.goal \in KC
  BY <1>1, ForGoalKCType
<1>3. TypeOK
  <2>1. reply \in [surface : SurfaceState, item : Item, says : SUBSET Says]
    BY <1>2 DEF Init, Tutor
  <2>2. /\ helpRun \in 0..GateK /\ cooldown \in 0..ProbeCooldown
        /\ hints \in 0..MaxHints
        /\ rested \in [KC -> 0..ProbeCooldown]
    BY GateAssumption, LessonAssumption DEF Init
  <2>3. /\ probe \in Seq(Representation) /\ step \in Nat /\ confirmed \in SUBSET KC
        /\ paused \in Seq(Snapshot) /\ Len(paused) <= 1
        /\ flow \in [state : {"in_lesson", "in_remediation"}, context : Seq(Context)]
    BY DEF Init, InLesson
  <2>4. leftover \in BOOLEAN
    BY Zenon DEF Init
  <2> QED BY <1>2, <2>1, <2>2, <2>3, <2>4 DEF TypeOK
<1>4. ProbeShape /\ PausedServed /\ ProbeIsEarned
  BY DEF Init, ProbeShape, PausedServed, ProbeIsEarned
<1>5. RestMatchesCooldown
  BY <1>2, LessonAssumption DEF Init, RestMatchesCooldown
<1>6. ScreenIsJudged
  BY DEF Init, ScreenIsJudged
<1>7. OneLevelDown
  BY DEF Init, OneLevelDown, Remediating, InLesson
<1> QED BY <1>2, <1>3, <1>4, <1>5, <1>6, <1>7 DEF IInv, SurfaceMatchesCounters

(* The paused parent is another lesson than the one being worked.           *)
LEMMA PausedParent ==
  ASSUME IInv, paused # << >>
  PROVE  /\ paused[1] \in Snapshot
         /\ paused[1].tutor \in Tutor
         /\ paused[1].tutor.goal \in KC
         /\ paused[1].tutor.goal # tutor.goal
<1>1. paused[1] \in Snapshot
  BY DEF IInv, TypeOK
<1>2. paused[1].tutor \in Tutor /\ paused[1].tutor.goal \in KC
  BY <1>1 DEF Snapshot, Tutor
<1>3. tutor.goal \in RemediationRouting[paused[1].tutor.goal]
  BY DEF IInv, OneLevelDown
<1> QED BY <1>1, <1>2, <1>3, CatalogAssumption

(* What every practice answer does, whatever it leads to.                   *)
LEMMA PracticeAnswer ==
  ASSUME IInv, NEW o \in Answer, Rest, NEW t, t = SubmitAnswer(tutor, o)
  PROVE  /\ t \in Tutor /\ t.goal = tutor.goal /\ t.problem = tutor.problem
         /\ SurfaceMatches(t)
         /\ OneLess(cooldown) \in 0..ProbeCooldown
         /\ rested' \in [KC -> 0..ProbeCooldown]
         /\ rested'[tutor.goal] + OneLess(cooldown) = ProbeCooldown
         /\ \A kc \in KC : kc # tutor.goal => rested'[kc] = rested[kc]
<1>1. tutor \in Tutor /\ tutor.goal \in KC /\ SurfaceMatches(tutor)
  BY DEF IInv, TypeOK, Tutor, SurfaceMatchesCounters
<1>2. t \in Tutor /\ t.goal = tutor.goal /\ t.problem = tutor.problem /\ SurfaceMatches(t)
  BY <1>1, SubmitAnswerType
<1>3. /\ rested \in [KC -> 0..ProbeCooldown]
      /\ rested[tutor.goal] \in 0..ProbeCooldown
      /\ cooldown \in 0..ProbeCooldown
      /\ rested[tutor.goal] + cooldown = ProbeCooldown
  BY <1>1 DEF IInv, TypeOK, RestMatchesCooldown
<1>4. /\ AtMost(rested[tutor.goal] + 1, ProbeCooldown) \in 0..ProbeCooldown
      /\ OneLess(cooldown) \in 0..ProbeCooldown
      /\ AtMost(rested[tutor.goal] + 1, ProbeCooldown) + OneLess(cooldown) = ProbeCooldown
  BY <1>3, RestBalances
<1>5. rested' = [rested EXCEPT ![tutor.goal] =
                   AtMost(rested[tutor.goal] + 1, ProbeCooldown)]
  BY DEF Rest
<1> QED BY <1>1, <1>2, <1>3, <1>4, <1>5

(* Each action preserves it: the answer that opens the probe,               *)
LEMMA AnswerOpensProbeInv ==
  ASSUME IInv, NEW o \in Answer, AnswerOpensProbe(o)
  PROVE  IInv'
<1> DEFINE t == SubmitAnswer(tutor, o)
<1>1. /\ t \in Tutor /\ t.goal = tutor.goal /\ t.problem = tutor.problem
      /\ SurfaceMatches(t)
      /\ OneLess(cooldown) \in 0..ProbeCooldown
      /\ rested' \in [KC -> 0..ProbeCooldown]
      /\ rested'[tutor.goal] + OneLess(cooldown) = ProbeCooldown
      /\ \A kc \in KC : kc # tutor.goal => rested'[kc] = rested[kc]
  BY PracticeAnswer DEF AnswerOpensProbe
<1> HIDE DEF t
<1>2. /\ probe = << >> /\ ProbeDue(t, o)
      /\ tutor' = t
      /\ probe' = BuildLiveProbeSteps(t.goal, t.problem.format)
      /\ step' = 0 /\ cooldown' = OneLess(cooldown)
      /\ helpRun' = helpRun /\ confirmed' = confirmed /\ hints' = hints
      /\ paused' = paused /\ leftover' = leftover /\ flow' = flow
      /\ Respond("S5_transfer_probe", ProbeItem(t.goal, probe', 0), {})
  BY DEF AnswerOpensProbe, t
<1>3. t.goal \in KC
  BY <1>1 DEF Tutor
<1>4. probe' \in Seq(Representation) /\ Len(probe') \in {2, 3} /\ probe' # << >>
  BY <1>2, <1>3, ProbeStepsType
<1>5. /\ reply' \in [surface : SurfaceState, item : Item, says : SUBSET Says]
      /\ reply'.item = ProbeItem(t.goal, probe', 0)
      /\ reply'.surface = "S5_transfer_probe"
  <2>1. ProbeItem(t.goal, probe', 0) \in Item
    BY <1>3, <1>4, ProbeItemType
  <2> QED BY <1>2, <2>1, RespondType DEF SurfaceState
<1>6. TypeOK'
  BY <1>1, <1>2, <1>4, <1>5 DEF IInv, TypeOK
<1>7. ProbeShape'
  BY <1>2, <1>4 DEF ProbeShape
<1>8. RestMatchesCooldown'
  BY <1>1, <1>2, <1>3, PausedParent DEF IInv, RestMatchesCooldown
<1>9. PausedServed' /\ OneLevelDown'
  BY <1>1, <1>2 DEF IInv, PausedServed, OneLevelDown, Remediating
<1>10. ProbeIsEarned'
  BY <1>1, <1>2, <1>3, LessonAssumption DEF ProbeIsEarned, ProbeDue, DeclareMastery
<1>11. ScreenIsJudged'
  BY <1>2, <1>4, <1>5 DEF ScreenIsJudged
<1> QED BY <1>1, <1>2, <1>6, <1>7, <1>8, <1>9, <1>10, <1>11 DEF IInv, SurfaceMatchesCounters

(* the answer followed by the next problem,                                 *)
LEMMA AnswerServesNextInv ==
  ASSUME IInv, NEW o \in Answer, AnswerServesNext(o)
  PROVE  IInv'
<1> DEFINE s == SubmitAnswer(tutor, o)
           t == ServeNext(s)
<1>1. /\ s \in Tutor /\ s.goal = tutor.goal
      /\ SurfaceMatches(s)
      /\ OneLess(cooldown) \in 0..ProbeCooldown
      /\ rested' \in [KC -> 0..ProbeCooldown]
      /\ rested'[tutor.goal] + OneLess(cooldown) = ProbeCooldown
      /\ \A kc \in KC : kc # tutor.goal => rested'[kc] = rested[kc]
  BY PracticeAnswer DEF AnswerServesNext
<1> HIDE DEF s
<1>2. t \in Tutor /\ t.goal = tutor.goal /\ SurfaceMatches(t)
  BY <1>1, ServeNextType
<1> HIDE DEF t
<1>3. /\ probe = << >>
      /\ tutor' = t
      /\ helpRun' = Scored(helpRun, o.needsHelp)
      /\ cooldown' = OneLess(cooldown) /\ hints' = 0
      /\ probe' = probe /\ step' = step /\ confirmed' = confirmed
      /\ paused' = paused /\ leftover' = leftover /\ flow' = flow
  BY DEF AnswerServesNext, t, s
<1>4. \E says \in SUBSET Says : Respond(t.surface, t.problem, says)
  BY DEF AnswerServesNext, t, s, Solutions, Says
<1>5. /\ reply' \in [surface : SurfaceState, item : Item, says : SUBSET Says]
      /\ reply'.item = t.problem
      /\ reply'.surface = t.surface
  <2>1. t.surface \in SurfaceState /\ t.problem \in Item
    BY <1>2 DEF Tutor
  <2> QED BY <1>4, <2>1, RespondType
<1>6. /\ helpRun' \in 0..GateK /\ 0 \in 0..MaxHints
  BY <1>3, ScoredType, LessonAssumption DEF IInv, TypeOK, Answer
<1>7. TypeOK'
  BY <1>1, <1>2, <1>3, <1>5, <1>6 DEF IInv, TypeOK
<1>8. ProbeShape'
  BY <1>3 DEF IInv, ProbeShape
<1>9. RestMatchesCooldown'
  BY <1>1, <1>2, <1>3, PausedParent DEF IInv, RestMatchesCooldown
<1>10. PausedServed' /\ OneLevelDown'
  BY <1>1, <1>2, <1>3 DEF IInv, PausedServed, OneLevelDown, Remediating
<1>11. ProbeIsEarned' /\ ScreenIsJudged'
  BY <1>3, <1>5 DEF ProbeIsEarned, ScreenIsJudged
<1> QED BY <1>2, <1>3, <1>7, <1>8, <1>9, <1>10, <1>11 DEF IInv, SurfaceMatchesCounters

(* A drop goes to a listed prerequisite, so to another lesson.              *)
LEMMA RemediationTargetsListed ==
  ASSUME NEW kc \in KC, NEW category, NEW target \in RemediationTargets(kc, category)
  PROVE  target \in RemediationRouting[kc] /\ target \in KC /\ target # kc
BY CatalogAssumption DEF RemediationTargets

(* the answer that drops to a prerequisite,                                 *)
LEMMA AnswerBeginsRemediationInv ==
  ASSUME IInv, NEW o \in Answer, NEW prerequisite \in KC,
         AnswerBeginsRemediation(o, prerequisite)
  PROVE  IInv'
<1> DEFINE s == SubmitAnswer(tutor, o)
           t == ServeNext(s)
           parent == [tutor |-> t, helpRun |-> Scored(helpRun, o.needsHelp),
                      probe |-> probe, step |-> step, confirmed |-> confirmed,
                      cooldown |-> OneLess(cooldown), hints |-> 0, at |-> t.answered]
           context == [parent |-> tutor.goal, prerequisite |-> prerequisite,
                       at |-> t.answered]
           child == ForGoalKC(prerequisite)
<1>1. /\ s \in Tutor /\ s.goal = tutor.goal
      /\ SurfaceMatches(s)
      /\ OneLess(cooldown) \in 0..ProbeCooldown
      /\ rested' \in [KC -> 0..ProbeCooldown]
      /\ rested'[tutor.goal] + OneLess(cooldown) = ProbeCooldown
      /\ \A kc \in KC : kc # tutor.goal => rested'[kc] = rested[kc]
  BY PracticeAnswer DEF AnswerBeginsRemediation
<1> HIDE DEF s
<1>2. /\ t \in Tutor /\ t.goal = tutor.goal /\ SurfaceMatches(t)
      /\ ServeNext(t) = t
  BY <1>1, ServeNextType
<1> HIDE DEF t
<1>3. child \in Tutor /\ child.goal = prerequisite /\ SurfaceMatches(child)
  BY ForGoalKCType
<1> HIDE DEF child
<1>4. /\ probe = << >> /\ Drops(o)
      /\ prerequisite \in RemediationTargets(tutor.goal, o.category)
      /\ paused' = <<parent>> /\ leftover' = FALSE
      /\ tutor' = child
      /\ helpRun' = 0 /\ probe' = << >> /\ step' = 0 /\ confirmed' = {}
      /\ cooldown' = 0 /\ hints' = 0
      /\ flow' = ApplyTriggered(flow, context)
      /\ Respond(child.surface, child.problem, {})
  BY DEF AnswerBeginsRemediation, t, s, child
<1>5. /\ tutor.goal \in KC
      /\ prerequisite \in RemediationRouting[tutor.goal]
      /\ prerequisite # tutor.goal
  BY <1>4, RemediationTargetsListed DEF IInv, TypeOK, Tutor
<1>6. paused = << >> /\ step = 0
  BY <1>4 DEF IInv, OneLevelDown, Remediating, Drops, ProbeShape
<1>7. flow' = [state |-> "in_remediation", context |-> <<context>>]
  BY <1>4 DEF Drops, ApplyTriggered
<1>8. /\ reply' \in [surface : SurfaceState, item : Item, says : SUBSET Says]
      /\ reply'.item = child.problem
      /\ reply'.surface = child.surface
  <2>1. child.surface \in SurfaceState /\ child.problem \in Item
    BY <1>3 DEF Tutor
  <2> QED BY <1>4, <2>1, RespondType
<1>9. TypeOK'
  <2>1. t.answered \in 0..IndexCap
    BY <1>2 DEF Tutor
  <2>2. parent \in Snapshot
    <3>1. /\ Scored(helpRun, o.needsHelp) \in 0..GateK /\ 0 \in 0..MaxHints
      BY ScoredType, LessonAssumption DEF IInv, TypeOK, Answer
    <3> QED BY <1>1, <1>2, <2>1, <3>1 DEF Snapshot, IInv, TypeOK
  <2>3. context \in Context
    BY <1>5, <2>1 DEF Context
  <2>4. paused' \in Seq(Snapshot) /\ Len(paused') = 1
    <3> HIDE DEF parent
    <3> QED BY <1>4, <2>2
  <2>5. flow' \in [state : {"in_lesson", "in_remediation"}, context : Seq(Context)]
    <3> HIDE DEF context
    <3> QED BY <1>7, <2>3
  <2>6. /\ 0 \in 0..GateK /\ 0 \in 0..ProbeCooldown /\ 0 \in 0..MaxHints
        /\ << >> \in Seq(Representation)
    BY GateAssumption, LessonAssumption
  <2>7. /\ helpRun' \in 0..GateK /\ probe' \in Seq(Representation) /\ step' \in Nat
        /\ confirmed' \in SUBSET KC /\ cooldown' \in 0..ProbeCooldown
        /\ hints' \in 0..MaxHints /\ leftover' \in BOOLEAN
    BY <1>4, <2>6
  <2> QED BY <1>1, <1>3, <1>4, <1>8, <2>4, <2>5, <2>7 DEF TypeOK
<1>10. RestMatchesCooldown'
  <2>1. /\ paused' # << >> /\ paused'[1].tutor.goal = tutor.goal
        /\ paused'[1].cooldown = OneLess(cooldown)
    BY <1>2, <1>4
  <2>2. rested[prerequisite] = ProbeCooldown
    BY <1>5, <1>6 DEF IInv, RestMatchesCooldown
  <2>3. rested'[prerequisite] + cooldown' = ProbeCooldown
    BY <1>1, <1>4, <1>5, <2>2, LessonAssumption
  <2>4. \A kc \in KC : kc # prerequisite /\ kc # tutor.goal => rested'[kc] = ProbeCooldown
    BY <1>1, <1>6 DEF IInv, RestMatchesCooldown
  <2> QED BY <1>1, <1>3, <1>4, <2>1, <2>3, <2>4 DEF RestMatchesCooldown
<1>11. PausedServed'
  BY <1>2, <1>4 DEF PausedServed
<1>12. OneLevelDown'
  BY <1>2, <1>3, <1>4, <1>5, <1>6, <1>7 DEF OneLevelDown, Remediating
<1>13. ProbeShape' /\ ProbeIsEarned' /\ ScreenIsJudged'
  BY <1>4, <1>8 DEF ProbeShape, ProbeIsEarned, ScreenIsJudged
<1> QED BY <1>3, <1>4, <1>9, <1>10, <1>11, <1>12, <1>13 DEF IInv, SurfaceMatchesCounters

(* the answer whose drop fails: the same, but for what was said,            *)
LEMMA AnswerFailsToDropInv ==
  ASSUME IInv, NEW o \in Answer, NEW prerequisite \in KC,
         AnswerFailsToDrop(o, prerequisite)
  PROVE  IInv'
<1> DEFINE s == SubmitAnswer(tutor, o)
           t == ServeNext(s)
<1>1. /\ s \in Tutor /\ s.goal = tutor.goal
      /\ SurfaceMatches(s)
      /\ OneLess(cooldown) \in 0..ProbeCooldown
      /\ rested' \in [KC -> 0..ProbeCooldown]
      /\ rested'[tutor.goal] + OneLess(cooldown) = ProbeCooldown
      /\ \A kc \in KC : kc # tutor.goal => rested'[kc] = rested[kc]
  BY PracticeAnswer DEF AnswerFailsToDrop
<1> HIDE DEF s
<1>2. t \in Tutor /\ t.goal = tutor.goal /\ SurfaceMatches(t)
  BY <1>1, ServeNextType
<1> HIDE DEF t
<1>3. /\ probe = << >>
      /\ tutor' = t
      /\ helpRun' = Scored(helpRun, o.needsHelp)
      /\ cooldown' = OneLess(cooldown) /\ hints' = 0
      /\ probe' = probe /\ step' = step /\ confirmed' = confirmed
      /\ paused' = paused /\ leftover' = TRUE /\ flow' = flow
      /\ reply' = [reply EXCEPT !.says = {"error"}]
  BY DEF AnswerFailsToDrop, t, s
<1>4. /\ reply' \in [surface : SurfaceState, item : Item, says : SUBSET Says]
      /\ reply'.says = {"error"}
  BY <1>3 DEF IInv, TypeOK, Says
<1>5. /\ helpRun' \in 0..GateK /\ 0 \in 0..MaxHints
  BY <1>3, ScoredType, LessonAssumption DEF IInv, TypeOK, Answer
<1>6. TypeOK'
  BY <1>1, <1>2, <1>3, <1>4, <1>5 DEF IInv, TypeOK
<1>7. ProbeShape'
  BY <1>3 DEF IInv, ProbeShape
<1>8. RestMatchesCooldown'
  BY <1>1, <1>2, <1>3, PausedParent DEF IInv, RestMatchesCooldown
<1>9. PausedServed' /\ OneLevelDown'
  BY <1>1, <1>2, <1>3 DEF IInv, PausedServed, OneLevelDown, Remediating
<1>10. ProbeIsEarned' /\ ScreenIsJudged'
  BY <1>3, <1>4 DEF ProbeIsEarned, ScreenIsJudged, Failed
<1> QED BY <1>2, <1>3, <1>6, <1>7, <1>8, <1>9, <1>10 DEF IInv, SurfaceMatchesCounters

(* a wrong step of the probe,                                               *)
LEMMA ProbeStepWrongInv ==
  ASSUME IInv, ProbeStepWrong
  PROVE  IInv'
<1> DEFINE t == ServeNext(tutor)
<1>1. /\ tutor \in Tutor /\ tutor.goal \in KC
      /\ t \in Tutor /\ t.goal = tutor.goal /\ t.surface = tutor.surface
      /\ SurfaceMatches(t)
  BY ServeNextType DEF IInv, TypeOK, Tutor, SurfaceMatchesCounters
<1> HIDE DEF t
<1>2. /\ probe' = << >> /\ step' = 0 /\ cooldown' = ProbeCooldown
      /\ tutor' = t /\ hints' = 0
      /\ rested' = [rested EXCEPT ![tutor.goal] = 0]
      /\ helpRun' = helpRun /\ confirmed' = confirmed
      /\ paused' = paused /\ leftover' = leftover /\ flow' = flow
      /\ Respond(tutor.surface, t.problem, {})
  BY DEF ProbeStepWrong, t
<1>3. /\ reply' \in [surface : SurfaceState, item : Item, says : SUBSET Says]
      /\ reply'.item = t.problem
      /\ reply'.surface = t.surface
  <2>1. tutor.surface \in SurfaceState /\ t.problem \in Item
    BY <1>1 DEF Tutor
  <2> QED BY <1>1, <1>2, <2>1, RespondType
<1>4. /\ rested' \in [KC -> 0..ProbeCooldown]
      /\ rested'[tutor.goal] = 0
      /\ \A kc \in KC : kc # tutor.goal => rested'[kc] = rested[kc]
  BY <1>1, <1>2, LessonAssumption DEF IInv, TypeOK
<1>5. TypeOK'
  <2>1. cooldown' \in 0..ProbeCooldown /\ hints' \in 0..MaxHints
    BY <1>2, LessonAssumption
  <2> QED BY <1>1, <1>2, <1>3, <1>4, <2>1 DEF IInv, TypeOK
<1>6. RestMatchesCooldown'
  BY <1>1, <1>2, <1>4, PausedParent, LessonAssumption DEF IInv, RestMatchesCooldown
<1>7. PausedServed' /\ OneLevelDown'
  BY <1>1, <1>2 DEF IInv, PausedServed, OneLevelDown, Remediating
<1>8. ProbeShape' /\ ProbeIsEarned' /\ ScreenIsJudged'
  BY <1>2, <1>3 DEF ProbeShape, ProbeIsEarned, ScreenIsJudged
<1> QED BY <1>1, <1>2, <1>5, <1>6, <1>7, <1>8 DEF IInv, SurfaceMatchesCounters

(* a right one,                                                             *)
LEMMA ProbeStepRightInv ==
  ASSUME IInv, ProbeStepRight
  PROVE  IInv'
<1>1. /\ probe # << >> /\ step + 1 < Len(probe) /\ step' = step + 1
      /\ tutor' = tutor /\ helpRun' = helpRun /\ probe' = probe
      /\ confirmed' = confirmed /\ cooldown' = cooldown /\ hints' = hints
      /\ paused' = paused /\ leftover' = leftover /\ flow' = flow /\ rested' = rested
      /\ Respond("S5_transfer_probe", ProbeItem(tutor.goal, probe, step'), {})
  BY DEF ProbeStepRight
<1>2. /\ tutor \in Tutor /\ tutor.goal \in KC
      /\ probe \in Seq(Representation) /\ step \in Nat
  BY DEF IInv, TypeOK, Tutor
<1>3. /\ reply' \in [surface : SurfaceState, item : Item, says : SUBSET Says]
      /\ reply'.item = ProbeItem(tutor.goal, probe, step')
      /\ reply'.surface = "S5_transfer_probe"
  <2>1. step' \in Nat /\ step' < Len(probe)
    BY <1>1, <1>2
  <2>2. ProbeItem(tutor.goal, probe, step') \in Item
    BY <1>2, <2>1, ProbeItemType
  <2> QED BY <1>1, <2>2, RespondType DEF SurfaceState
<1>4. TypeOK'
  BY <1>1, <1>2, <1>3 DEF IInv, TypeOK
<1>5. ProbeShape' /\ RestMatchesCooldown' /\ PausedServed'
  BY <1>1 DEF IInv, ProbeShape, RestMatchesCooldown, PausedServed
<1>6. ProbeIsEarned' /\ OneLevelDown' /\ ScreenIsJudged'
  BY <1>1, <1>3 DEF IInv, ProbeIsEarned, OneLevelDown, Remediating, ScreenIsJudged
<1> QED BY <1>1, <1>4, <1>5, <1>6 DEF IInv, SurfaceMatchesCounters

(* the last one of a lesson,                                                *)
LEMMA ProbePassedInv ==
  ASSUME IInv, ProbePassed
  PROVE  IInv'
<1> DEFINE t == ServeNext(tutor)
<1>1. /\ tutor \in Tutor /\ tutor.goal \in KC
      /\ t \in Tutor /\ t.goal = tutor.goal /\ t.surface = tutor.surface
      /\ SurfaceMatches(t)
  BY ServeNextType DEF IInv, TypeOK, Tutor, SurfaceMatchesCounters
<1> HIDE DEF t
<1>2. /\ confirmed' = confirmed \cup {tutor.goal}
      /\ probe' = << >> /\ step' = 0
      /\ tutor' = t /\ hints' = 0
      /\ helpRun' = helpRun /\ cooldown' = cooldown
      /\ paused' = paused /\ leftover' = leftover /\ flow' = flow /\ rested' = rested
      /\ Respond(tutor.surface, t.problem, {"lesson_complete"})
  BY DEF ProbePassed, t
<1>3. /\ reply' \in [surface : SurfaceState, item : Item, says : SUBSET Says]
      /\ reply'.item = t.problem
      /\ reply'.surface = t.surface
  <2>1. tutor.surface \in SurfaceState /\ t.problem \in Item
    BY <1>1 DEF Tutor
  <2> QED BY <1>1, <1>2, <2>1, RespondType DEF Says
<1>4. TypeOK'
  <2>1. hints' \in 0..MaxHints /\ confirmed' \in SUBSET KC
    BY <1>1, <1>2, LessonAssumption DEF IInv, TypeOK
  <2> QED BY <1>1, <1>2, <1>3, <2>1 DEF IInv, TypeOK
<1>5. ProbeShape' /\ RestMatchesCooldown' /\ PausedServed'
  BY <1>1, <1>2 DEF IInv, ProbeShape, RestMatchesCooldown, PausedServed
<1>6. ProbeIsEarned' /\ OneLevelDown' /\ ScreenIsJudged'
  BY <1>1, <1>2, <1>3 DEF IInv, ProbeIsEarned, OneLevelDown, Remediating, ScreenIsJudged
<1> QED BY <1>1, <1>2, <1>4, <1>5, <1>6 DEF IInv, SurfaceMatchesCounters

(* the last one of a prerequisite lesson,                                   *)
LEMMA ProbePassedResumesParentInv ==
  ASSUME IInv, ProbePassedResumesParent
  PROVE  IInv'
<1> DEFINE parent == paused[1]
<1>1. paused # << >> /\ flow.state = "in_remediation" /\ probe # << >>
  BY DEF ProbePassedResumesParent, IInv, OneLevelDown, Remediating
<1>2. /\ parent \in Snapshot /\ parent.tutor \in Tutor
      /\ parent.tutor.goal \in KC /\ parent.tutor.goal # tutor.goal
  BY <1>1, PausedParent
<1>3. parent.probe = << >> /\ parent.step = 0
  BY <1>1 DEF IInv, OneLevelDown, Remediating
<1>4. ServeNext(parent.tutor) = parent.tutor /\ SurfaceMatches(parent.tutor)
  BY <1>1 DEF IInv, PausedServed
<1>5. /\ tutor' = parent.tutor /\ hints' = 0
      /\ helpRun' = parent.helpRun
      /\ probe' = << >> /\ step' = 0
      /\ confirmed' = parent.confirmed
      /\ cooldown' = parent.cooldown
      /\ paused' = << >> /\ leftover' = FALSE
      /\ flow' = InLesson
      /\ rested' = rested
      /\ Respond(parent.tutor.surface, parent.tutor.problem, {})
  BY <1>1, <1>3, <1>4 DEF ProbePassedResumesParent, ApplyCleared
<1>6. /\ reply' \in [surface : SurfaceState, item : Item, says : SUBSET Says]
      /\ reply'.item = parent.tutor.problem
      /\ reply'.surface = parent.tutor.surface
  <2>1. parent.tutor.surface \in SurfaceState /\ parent.tutor.problem \in Item
    BY <1>2 DEF Tutor
  <2> QED BY <1>5, <2>1, RespondType
<1>7. TypeOK'
  <2>1. /\ parent.helpRun \in 0..GateK /\ parent.confirmed \in SUBSET KC
        /\ parent.cooldown \in 0..ProbeCooldown
    BY <1>2 DEF Snapshot
  <2>2. /\ hints' \in 0..MaxHints /\ probe' \in Seq(Representation) /\ step' \in Nat
        /\ paused' \in Seq(Snapshot) /\ Len(paused') <= 1
    BY <1>5, LessonAssumption
  <2>3. flow' \in [state : {"in_lesson", "in_remediation"}, context : Seq(Context)]
    BY <1>5 DEF InLesson
  <2> QED BY <1>2, <1>5, <1>6, <2>1, <2>2, <2>3 DEF IInv, TypeOK
<1>8. RestMatchesCooldown'
  <2>1. rested[tutor.goal] = ProbeCooldown
    BY <1>1 DEF IInv, ProbeIsEarned
  <2> QED BY <1>1, <1>2, <1>5, <2>1 DEF IInv, RestMatchesCooldown
<1>9. OneLevelDown' /\ PausedServed'
  BY <1>5 DEF OneLevelDown, Remediating, InLesson, PausedServed
<1>10. ProbeShape' /\ ProbeIsEarned' /\ ScreenIsJudged'
  BY <1>5, <1>6 DEF ProbeShape, ProbeIsEarned, ScreenIsJudged
<1> QED BY <1>4, <1>5, <1>7, <1>8, <1>9, <1>10 DEF IInv, SurfaceMatchesCounters

(* a hint request,                                                          *)
LEMMA RequestHintInv ==
  ASSUME IInv, RequestHint
  PROVE  IInv'
<1>1. /\ probe = << >> /\ hints' = AtMost(hints + 1, MaxHints)
      /\ tutor' = tutor /\ helpRun' = helpRun /\ probe' = probe /\ step' = step
      /\ confirmed' = confirmed /\ cooldown' = cooldown
      /\ paused' = paused /\ leftover' = leftover /\ flow' = flow /\ rested' = rested
      /\ Respond(tutor.surface, tutor.problem, {})
  BY DEF RequestHint
<1>2. /\ reply' \in [surface : SurfaceState, item : Item, says : SUBSET Says]
      /\ reply'.item = tutor.problem
      /\ reply'.surface = tutor.surface
  <2>1. tutor.surface \in SurfaceState /\ tutor.problem \in Item
    BY DEF IInv, TypeOK, Tutor
  <2> QED BY <1>1, <2>1, RespondType
<1>3. TypeOK'
  <2>1. hints' \in 0..MaxHints
    BY <1>1, LessonAssumption DEF IInv, TypeOK, AtMost
  <2> QED BY <1>1, <1>2, <2>1 DEF IInv, TypeOK
<1>4. ProbeShape' /\ RestMatchesCooldown' /\ PausedServed'
  BY <1>1 DEF IInv, ProbeShape, RestMatchesCooldown, PausedServed
<1>5. ProbeIsEarned' /\ OneLevelDown' /\ ScreenIsJudged'
  BY <1>1, <1>2 DEF IInv, ProbeIsEarned, OneLevelDown, Remediating, ScreenIsJudged
<1> QED BY <1>1, <1>3, <1>4, <1>5 DEF IInv, SurfaceMatchesCounters

(* a hint request during the probe,                                         *)
LEMMA RequestHintDuringProbeInv ==
  ASSUME IInv, RequestHintDuringProbe
  PROVE  IInv'
<1>1. /\ probe # << >> /\ hints' = hints
      /\ tutor' = tutor /\ helpRun' = helpRun /\ probe' = probe /\ step' = step
      /\ confirmed' = confirmed /\ cooldown' = cooldown
      /\ paused' = paused /\ leftover' = leftover /\ flow' = flow /\ rested' = rested
      /\ Respond("S5_transfer_probe", ProbeItem(tutor.goal, probe, step), {})
  BY DEF RequestHintDuringProbe
<1>2. /\ reply' \in [surface : SurfaceState, item : Item, says : SUBSET Says]
      /\ reply'.item = ProbeItem(tutor.goal, probe, step)
      /\ reply'.surface = "S5_transfer_probe"
  <2>1. /\ tutor.goal \in KC /\ probe \in Seq(Representation)
        /\ step \in Nat /\ step < Len(probe)
    BY <1>1 DEF IInv, TypeOK, Tutor, ProbeShape
  <2>2. ProbeItem(tutor.goal, probe, step) \in Item
    BY <2>1, ProbeItemType
  <2> QED BY <1>1, <2>2, RespondType DEF SurfaceState
<1>3. TypeOK'
  BY <1>1, <1>2 DEF IInv, TypeOK
<1>4. ProbeShape' /\ RestMatchesCooldown' /\ PausedServed'
  BY <1>1 DEF IInv, ProbeShape, RestMatchesCooldown, PausedServed
<1>5. ProbeIsEarned' /\ OneLevelDown' /\ ScreenIsJudged'
  BY <1>1, <1>2 DEF IInv, ProbeIsEarned, OneLevelDown, Remediating, ScreenIsJudged
<1> QED BY <1>1, <1>3, <1>4, <1>5 DEF IInv, SurfaceMatchesCounters

(* and no step at all.                                                      *)
LEMMA StutterInv ==
  ASSUME IInv, UNCHANGED vars
  PROVE  IInv'
BY DEF IInv, vars, TypeOK, ProbeShape, RestMatchesCooldown, PausedServed,
       ProbeIsEarned, ScreenIsJudged, Failed, OneLevelDown, Remediating,
       SurfaceMatchesCounters

(* So every step preserves it.                                              *)
LEMMA NextInv == IInv /\ [Next]_vars => IInv'
<1> SUFFICES ASSUME IInv, [Next]_vars PROVE IInv'
  OBVIOUS
<1>1. CASE UNCHANGED vars
  BY <1>1, StutterInv
<1>2. ASSUME NEW o \in Answer, PracticeTurn(o) PROVE IInv'
  BY <1>2, AnswerOpensProbeInv, AnswerServesNextInv, AnswerBeginsRemediationInv,
     AnswerFailsToDropInv DEF PracticeTurn
<1>3. CASE ProbeTurn
  BY <1>3, ProbeStepWrongInv, ProbeStepRightInv, ProbePassedInv,
     ProbePassedResumesParentInv DEF ProbeTurn
<1>4. CASE RequestHint
  BY <1>4, RequestHintInv
<1>5. CASE RequestHintDuringProbe
  BY <1>5, RequestHintDuringProbeInv
<1> QED BY <1>1, <1>2, <1>3, <1>4, <1>5 DEF Next

(* The inductive invariant holds in every reachable state of every session. *)
THEOREM Invariance == Spec => []IInv
BY InitInv, NextInv, PTL DEF Spec

-----------------------------------------------------------------------------
(* The invariants the runs check.                                           *)

(* The session record keeps its types.                                      *)
THEOREM TypeCorrect == Spec => []TypeOK
<1>1. IInv => TypeOK
  BY DEF IInv
<1> QED BY <1>1, Invariance, PTL

(* A probe runs only where it was earned, all the while it runs.            *)
THEOREM ProbeEarned == Spec => []ProbeIsEarned
<1>1. IInv => ProbeIsEarned
  BY DEF IInv
<1> QED BY <1>1, Invariance, PTL

(* What the learner sees is what the next answer is judged against.         *)
THEOREM ScreenJudged == Spec => []ScreenIsJudged
<1>1. IInv => ScreenIsJudged
  BY DEF IInv
<1> QED BY <1>1, Invariance, PTL

(* The remediation axis and the paused parent agree, one level deep.        *)
THEOREM DropsOneLevel == Spec => []OneLevelDown
<1>1. IInv => OneLevelDown
  BY DEF IInv
<1> QED BY <1>1, Invariance, PTL

(* The practice surface agrees with the counters it is routed on.           *)
THEOREM SurfaceAgrees == Spec => []SurfaceMatchesCounters
<1>1. IInv => SurfaceMatchesCounters
  BY DEF IInv
<1> QED BY <1>1, Invariance, PTL

-----------------------------------------------------------------------------
(* The probe's steps, while it runs.                                        *)

(* A running probe poses two different representations.                     *)
ProbeSpansTwo == probe # << >> => \E a, b \in StepFormats(probe) : a # b

(* Every step keeps that: only an answer builds a probe, from a masterable  *)
(* goal.                                                                    *)
LEMMA ProbeSpansTwoStep ==
  ASSUME IInv, ProbeSpansTwo, [Next]_vars
  PROVE  ProbeSpansTwo'
<1>1. ASSUME NEW o \in Answer, AnswerOpensProbe(o) PROVE ProbeSpansTwo'
  <2> DEFINE t == SubmitAnswer(tutor, o)
  <2>1. t \in Tutor
    BY <1>1, PracticeAnswer DEF AnswerOpensProbe
  <2> HIDE DEF t
  <2>2. /\ probe' = BuildLiveProbeSteps(t.goal, t.problem.format)
        /\ IsMasterableLive(t.goal)
    BY <1>1 DEF AnswerOpensProbe, ProbeDue, t
  <2>3. t.goal \in KC /\ t.problem.format \in Representation
    BY <2>1 DEF Tutor, Item
  <2>4. \E a, b \in StepFormats(BuildLiveProbeSteps(t.goal, t.problem.format)) : a # b
    BY <2>2, <2>3, ProbeSpansTwoRepresentations
  <2> QED BY <2>2, <2>4 DEF ProbeSpansTwo
<1>2. ASSUME NEW o \in Answer, AnswerServesNext(o) PROVE ProbeSpansTwo'
  BY <1>2 DEF AnswerServesNext, ProbeSpansTwo
<1>3. ASSUME NEW o \in Answer, NEW prerequisite \in KC,
             AnswerBeginsRemediation(o, prerequisite)
      PROVE  ProbeSpansTwo'
  BY <1>3 DEF AnswerBeginsRemediation, ProbeSpansTwo
<1>9. ASSUME NEW o \in Answer, NEW prerequisite \in KC, AnswerFailsToDrop(o, prerequisite)
      PROVE  ProbeSpansTwo'
  BY <1>9 DEF AnswerFailsToDrop, ProbeSpansTwo
<1>4. CASE ProbeStepWrong
  BY <1>4 DEF ProbeStepWrong, ProbeSpansTwo
<1>5. CASE ProbeStepRight
  BY <1>5 DEF ProbeStepRight, ProbeSpansTwo
<1>6. CASE ProbePassed
  BY <1>6 DEF ProbePassed, ProbeSpansTwo
<1>7. CASE ProbePassedResumesParent
  BY <1>7 DEF ProbePassedResumesParent, ProbeSpansTwo, IInv, OneLevelDown, Remediating
<1>8. CASE RequestHint \/ RequestHintDuringProbe \/ UNCHANGED vars
  BY <1>8 DEF RequestHint, RequestHintDuringProbe, vars, ProbeSpansTwo
<1> QED BY <1>1, <1>2, <1>3, <1>4, <1>5, <1>6, <1>7, <1>8, <1>9
        DEF Next, PracticeTurn, ProbeTurn

(* So it holds in every reachable state.                                    *)
LEMMA ProbeSpansTwoInvariance == Spec => [](IInv /\ ProbeSpansTwo)
<1>1. Init => ProbeSpansTwo
  BY DEF Init, ProbeSpansTwo
<1> QED BY <1>1, ProbeSpansTwoStep, InitInv, NextInv, PTL DEF Spec

(* A KC joins the confirmed set only by a whole probe over two               *)
(* representations, and leaves it only by a lesson swap.                     *)
THEOREM ConfirmedOnlyByWholeProbe == Spec => ConfirmedByWholeProbe
<1> DEFINE A == (UNCHANGED paused /\ confirmed' # confirmed) =>
                  /\ confirmed' = confirmed \cup {tutor.goal}
                  /\ step + 1 = Len(probe)
                  /\ \E a, b \in StepFormats(probe) : a # b
<1>1. ASSUME IInv, ProbeSpansTwo, [Next]_vars PROVE [A]_vars
  <2>1. ASSUME NEW o \in Answer, PracticeTurn(o) PROVE A
    <3>1. CASE AnswerOpensProbe(o) \/ AnswerServesNext(o)
      BY <3>1 DEF AnswerOpensProbe, AnswerServesNext
    <3>2. ASSUME NEW prerequisite \in KC, AnswerBeginsRemediation(o, prerequisite)
          PROVE  A
      <4>1. paused = << >> /\ paused' # << >>
        BY <1>1, <3>2 DEF AnswerBeginsRemediation, Drops, IInv, OneLevelDown, Remediating
      <4> QED BY <4>1
    <3>3. ASSUME NEW prerequisite \in KC, AnswerFailsToDrop(o, prerequisite) PROVE A
      BY <3>3 DEF AnswerFailsToDrop
    <3> QED BY <2>1, <3>1, <3>2, <3>3 DEF PracticeTurn
  <2>2. CASE ProbePassed
    <3>1. step < Len(probe) /\ step \in Nat /\ Len(probe) \in Nat /\ probe # << >>
      BY <1>1, <2>2 DEF ProbePassed, IInv, ProbeShape, TypeOK
    <3> QED BY <1>1, <2>2, <3>1 DEF ProbePassed, ProbeSpansTwo
  <2>3. CASE ProbePassedResumesParent
    <3>1. paused # << >> /\ paused' = << >>
      BY <1>1, <2>3 DEF ProbePassedResumesParent, IInv, OneLevelDown, Remediating
    <3> QED BY <3>1
  <2>4. CASE ProbeStepWrong \/ ProbeStepRight \/ RequestHint \/ RequestHintDuringProbe
    BY <2>4 DEF ProbeStepWrong, ProbeStepRight, RequestHint, RequestHintDuringProbe
  <2> QED BY <1>1, <2>1, <2>2, <2>3, <2>4 DEF Next, ProbeTurn
<1>2. IInv /\ ProbeSpansTwo /\ [Next]_vars => [A]_vars
  BY <1>1
<1>3. Spec => [][A]_vars
  <2> HIDE DEF A
  <2> QED BY <1>2, ProbeSpansTwoInvariance, PTL DEF Spec
<1> QED BY <1>3 DEF ConfirmedByWholeProbe

(* The parent of a drop is given back as it was paused, and only by a        *)
(* passed probe of the prerequisite.                                        *)
THEOREM ParentNeverResets == Spec => ParentPausesNeverResets
<1> DEFINE A == paused # << >> =>
       \/ paused' = paused
       \/ /\ paused' = << >>
          /\ step + 1 = Len(probe)
          /\ tutor' = paused[1].tutor
          /\ helpRun' = paused[1].helpRun
          /\ confirmed' = paused[1].confirmed
          /\ cooldown' = paused[1].cooldown
          /\ probe' = << >>
          /\ hints' = 0
<1>1. ASSUME IInv, [Next]_vars PROVE [A]_vars
  <2>1. ASSUME NEW o \in Answer, PracticeTurn(o) PROVE A
    <3>1. CASE AnswerOpensProbe(o) \/ AnswerServesNext(o)
      BY <3>1 DEF AnswerOpensProbe, AnswerServesNext
    <3>2. ASSUME NEW prerequisite \in KC, AnswerBeginsRemediation(o, prerequisite)
          PROVE  A
      BY <1>1, <3>2 DEF AnswerBeginsRemediation, Drops, IInv, OneLevelDown, Remediating
    <3>3. ASSUME NEW prerequisite \in KC, AnswerFailsToDrop(o, prerequisite) PROVE A
      BY <3>3 DEF AnswerFailsToDrop
    <3> QED BY <2>1, <3>1, <3>2, <3>3 DEF PracticeTurn
  <2>2. CASE ProbePassedResumesParent
    <3>1. step < Len(probe) /\ step \in Nat /\ Len(probe) \in Nat /\ probe # << >>
      BY <1>1, <2>2 DEF ProbePassedResumesParent, IInv, ProbeShape, TypeOK
    <3>2. step + 1 = Len(probe)
      BY <2>2, <3>1 DEF ProbePassedResumesParent
    <3>3. paused # << >> /\ paused[1].probe = << >>
      BY <1>1, <2>2 DEF ProbePassedResumesParent, IInv, OneLevelDown, Remediating
    <3>4. ServeNext(paused[1].tutor) = paused[1].tutor
      BY <1>1, <3>3 DEF IInv, PausedServed
    <3> QED BY <2>2, <3>2, <3>3, <3>4 DEF ProbePassedResumesParent
  <2>3. CASE \/ ProbeStepWrong \/ ProbeStepRight \/ ProbePassed
             \/ RequestHint \/ RequestHintDuringProbe
    BY <2>3 DEF ProbeStepWrong, ProbeStepRight, ProbePassed, RequestHint,
                RequestHintDuringProbe
  <2> QED BY <1>1, <2>1, <2>2, <2>3 DEF Next, ProbeTurn
<1>2. IInv /\ [Next]_vars => [A]_vars
  BY <1>1
<1>3. Spec => [][A]_vars
  <2> HIDE DEF A
  <2> QED BY <1>2, Invariance, PTL DEF Spec
<1> QED BY <1>3 DEF ParentPausesNeverResets

(* A lesson is announced complete exactly as its goal becomes confirmed.    *)
THEOREM CompletesOnceOnly == Spec => CompletesOnce
<1> DEFINE A == "lesson_complete" \in reply'.says =>
                  /\ tutor.goal \notin confirmed
                  /\ tutor.goal \in confirmed'
                  /\ ~Remediating
<1>1. ASSUME IInv, [Next]_vars PROVE [A]_vars
  <2>1. ASSUME NEW o \in Answer, PracticeTurn(o) PROVE A
    <3>1. CASE AnswerOpensProbe(o)
      BY <3>1 DEF AnswerOpensProbe, Respond
    <3>2. CASE AnswerServesNext(o)
      BY <3>2 DEF AnswerServesNext, Respond, Solutions
    <3>3. ASSUME NEW prerequisite \in KC, AnswerBeginsRemediation(o, prerequisite)
          PROVE  A
      BY <3>3 DEF AnswerBeginsRemediation, Respond
    <3>4. ASSUME NEW prerequisite \in KC, AnswerFailsToDrop(o, prerequisite) PROVE A
      <4>1. reply'.says = {"error"}
        BY <1>1, <3>4 DEF AnswerFailsToDrop, IInv, TypeOK
      <4> QED BY <4>1
    <3> QED BY <2>1, <3>1, <3>2, <3>3, <3>4 DEF PracticeTurn
  <2>2. CASE ProbePassed
    BY <1>1, <2>2 DEF ProbePassed, IInv, ProbeIsEarned, Remediating
  <2>3. CASE \/ ProbeStepWrong \/ ProbeStepRight \/ ProbePassedResumesParent
             \/ RequestHint \/ RequestHintDuringProbe
    BY <2>3 DEF ProbeStepWrong, ProbeStepRight, ProbePassedResumesParent, RequestHint,
                RequestHintDuringProbe, Respond
  <2> QED BY <1>1, <2>1, <2>2, <2>3 DEF Next, ProbeTurn
<1>2. IInv /\ [Next]_vars => [A]_vars
  BY <1>1
<1>3. Spec => [][A]_vars
  <2> HIDE DEF A
  <2> QED BY <1>2, Invariance, PTL DEF Spec
<1> QED BY <1>3 DEF CompletesOnce

-----------------------------------------------------------------------------
(* Refinement.                                                              *)

(* A tutor that keeps its goal is the same lesson to the gate.              *)
LEMMA SameLessons ==
  ASSUME tutor'.goal = tutor.goal, confirmed' = confirmed, paused' = paused
  PROVE  Lessons' = Lessons
BY DEF Lessons, LessonOf

(* Every turn is a step of the mastery gate, or none.                       *)
LEMMA GateStep ==
  ASSUME IInv, [Next]_vars
  PROVE  [Gate!Next]_(Gate!vars)
<1>1. tutor \in Tutor /\ tutor.goal \in KC
  BY DEF IInv, TypeOK, Tutor
<1>2. ASSUME NEW o \in Answer, AnswerOpensProbe(o) PROVE Gate!Open
  <2> DEFINE t == SubmitAnswer(tutor, o)
  <2>1. t.goal = tutor.goal
    BY <1>2, PracticeAnswer DEF AnswerOpensProbe
  <2>2. /\ ProbeDue(t, o) /\ probe = << >> /\ tutor' = t
        /\ confirmed' = confirmed /\ paused' = paused
        /\ probe' = BuildLiveProbeSteps(t.goal, t.problem.format)
    BY <1>2 DEF AnswerOpensProbe
  <2> HIDE DEF t
  <2>3. Lessons' = Lessons /\ probe' # << >>
    BY <1>1, <2>1, <2>2, SameLessons, ProbeStepsType
  <2>4. IsMasterableLive(tutor.goal) /\ tutor.goal \notin confirmed
    BY <2>1, <2>2 DEF ProbeDue
  <2>5. /\ Lessons[Len(Lessons)].goal = tutor.goal
        /\ Lessons[Len(Lessons)].confirmed = (tutor.goal \in confirmed)
    BY DEF Lessons, LessonOf
  <2> QED BY <1>1, <2>2, <2>3, <2>4, <2>5 DEF Gate!Open, Gate!Top
<1>3. ASSUME NEW o \in Answer, AnswerServesNext(o) PROVE UNCHANGED Gate!vars
  <2> DEFINE s == SubmitAnswer(tutor, o)
  <2>1. s \in Tutor /\ s.goal = tutor.goal
    BY <1>3, PracticeAnswer DEF AnswerServesNext
  <2>2. /\ tutor' = ServeNext(s) /\ confirmed' = confirmed
        /\ paused' = paused /\ probe' = probe
    BY <1>3 DEF AnswerServesNext
  <2> HIDE DEF s
  <2>3. tutor'.goal = tutor.goal
    BY <2>1, <2>2, ServeNextType
  <2> QED BY <2>2, <2>3, SameLessons DEF Gate!vars
<1>4. ASSUME NEW o \in Answer, NEW prerequisite \in KC,
             AnswerBeginsRemediation(o, prerequisite)
      PROVE  Gate!Drop
  <2> DEFINE s == SubmitAnswer(tutor, o)
             t == ServeNext(s)
  <2>1. s \in Tutor /\ s.goal = tutor.goal
    BY <1>4, PracticeAnswer DEF AnswerBeginsRemediation
  <2> HIDE DEF s
  <2>2. t.goal = tutor.goal
    BY <2>1, ServeNextType
  <2> HIDE DEF t
  <2>3. /\ probe = << >> /\ probe' = << >>
        /\ tutor' = ForGoalKC(prerequisite) /\ confirmed' = {}
        /\ paused' # << >> /\ paused'[1].tutor = t /\ paused'[1].confirmed = confirmed
        /\ prerequisite \in RemediationTargets(tutor.goal, o.category)
        /\ Drops(o)
    BY <1>4 DEF AnswerBeginsRemediation, t, s
  <2>4. paused = << >>
    BY <2>3 DEF Drops, IInv, OneLevelDown, Remediating
  <2>5. prerequisite \in RemediationRouting[tutor.goal]
    BY <1>1, <2>3, RemediationTargetsListed
  <2>6. Lessons = <<LessonOf(tutor, confirmed)>>
    BY <2>4 DEF Lessons
  <2>7. LessonOf(tutor', confirmed') = Gate!Lesson(prerequisite)
    <3>1. tutor'.goal = prerequisite /\ (tutor'.goal \in confirmed') = FALSE
      BY <2>3, ForGoalKCType
    <3> QED BY <3>1, Zenon DEF LessonOf, Gate!Lesson
  <2>8. LessonOf(paused'[1].tutor, paused'[1].confirmed) = LessonOf(tutor, confirmed)
    BY <2>2, <2>3 DEF LessonOf
  <2>9. Lessons' = <<LessonOf(tutor, confirmed), Gate!Lesson(prerequisite)>>
    BY <2>3, <2>7, <2>8 DEF Lessons
  <2>10. Len(Lessons) = 1 /\ Lessons[1] = LessonOf(tutor, confirmed)
    BY <2>6
  <2>11. Lessons[Len(Lessons)].goal = tutor.goal
    BY <2>10 DEF LessonOf
  <2> QED BY <2>3, <2>5, <2>9, <2>10, <2>11 DEF Gate!Drop, Gate!Top
<1>9. ASSUME NEW o \in Answer, NEW prerequisite \in KC, AnswerFailsToDrop(o, prerequisite)
      PROVE  UNCHANGED Gate!vars
  <2> DEFINE s == SubmitAnswer(tutor, o)
  <2>1. s \in Tutor /\ s.goal = tutor.goal
    BY <1>9, PracticeAnswer DEF AnswerFailsToDrop
  <2>2. /\ tutor' = ServeNext(s) /\ confirmed' = confirmed
        /\ paused' = paused /\ probe' = probe
    BY <1>9 DEF AnswerFailsToDrop
  <2> HIDE DEF s
  <2>3. tutor'.goal = tutor.goal
    BY <2>1, <2>2, ServeNextType
  <2> QED BY <2>2, <2>3, SameLessons DEF Gate!vars
<1>5. CASE ProbeStepWrong
  <2>1. tutor'.goal = tutor.goal /\ confirmed' = confirmed /\ paused' = paused
    BY <1>1, <1>5, ServeNextType DEF ProbeStepWrong
  <2> QED BY <1>5, <2>1, SameLessons DEF ProbeStepWrong, Gate!Next, Gate!Close
<1>6. CASE ProbePassed
  <2>1. paused = << >> /\ paused' = << >>
    BY <1>6 DEF ProbePassed, IInv, OneLevelDown, Remediating
  <2>2. tutor'.goal = tutor.goal /\ tutor'.goal \in confirmed'
    BY <1>1, <1>6, ServeNextType DEF ProbePassed
  <2>3. Lessons' = <<[goal |-> tutor.goal, confirmed |-> TRUE]>>
    BY <2>1, <2>2 DEF Lessons, LessonOf
  <2>4. Lessons = <<LessonOf(tutor, confirmed)>>
    BY <2>1 DEF Lessons
  <2>5. Lessons[1].goal = tutor.goal /\ Len(Lessons) = 1
    BY <2>4 DEF LessonOf
  <2> QED BY <1>6, <2>3, <2>4, <2>5 DEF ProbePassed, Gate!Next, Gate!Confirm
<1>7. CASE ProbePassedResumesParent
  <2>1. paused # << >> /\ paused' = << >> /\ paused[1].probe = << >>
    BY <1>7 DEF ProbePassedResumesParent, IInv, OneLevelDown, Remediating
  <2>2. tutor'.goal = paused[1].tutor.goal /\ confirmed' = paused[1].confirmed
    BY <1>7, <2>1, PausedParent, ServeNextType DEF ProbePassedResumesParent
  <2>3. Lessons' = <<LessonOf(paused[1].tutor, paused[1].confirmed)>>
    BY <2>1, <2>2 DEF Lessons, LessonOf
  <2>4. Lessons = <<LessonOf(paused[1].tutor, paused[1].confirmed),
                    LessonOf(tutor, confirmed)>>
    BY <2>1 DEF Lessons
  <2>5. probe # << >> /\ probe' = << >>
    BY <1>7, <2>1 DEF ProbePassedResumesParent
  <2> QED BY <2>3, <2>4, <2>5 DEF Gate!Next, Gate!Return
<1>8. CASE ProbeStepRight \/ RequestHint \/ RequestHintDuringProbe \/ UNCHANGED vars
  <2>1. tutor' = tutor /\ confirmed' = confirmed /\ paused' = paused /\ probe' = probe
    BY <1>8 DEF ProbeStepRight, RequestHint, RequestHintDuringProbe, vars
  <2> QED BY <2>1, SameLessons DEF Gate!vars
<1> QED BY <1>2, <1>3, <1>4, <1>5, <1>6, <1>7, <1>8, <1>9
        DEF Next, PracticeTurn, ProbeTurn, Gate!Next

(* The live lesson implements the mastery gate.                             *)
THEOREM Refinement == Spec => ImplementsGate
<1>1. Init => Gate!Init
  <2> SUFFICES ASSUME Init PROVE Gate!Init
    OBVIOUS
  <2>1. PICK kc \in KC : tutor = ForGoalKC(kc)
    BY CatalogAssumption DEF Init
  <2>2. LessonOf(tutor, confirmed) = Gate!Lesson(kc)
    <3>1. tutor.goal = kc /\ (tutor.goal \in confirmed) = FALSE
      BY <2>1, ForGoalKCType DEF Init
    <3> QED BY <3>1, Zenon DEF LessonOf, Gate!Lesson
  <2>3. Lessons = <<Gate!Lesson(kc)>> /\ probe = << >>
    BY <2>2 DEF Init, Lessons
  <2> QED BY <2>3 DEF Gate!Init
<1>2. IInv /\ [Next]_vars => [Gate!Next]_(Gate!vars)
  BY GateStep
<1> QED BY <1>1, <1>2, Invariance, PTL DEF Spec, ImplementsGate, Gate!Spec

-----------------------------------------------------------------------------
(* Which problem is current.                                                *)

(* Outside a probe the current problem is the one the history calls for; in  *)
(* a probe it is still the problem whose answer opened it.                   *)
ServedItem ==
  IF probe = << >>
  THEN tutor.problem = PracticeItem(tutor.goal, tutor.problem.format, tutor.answered)
  ELSE tutor.problem.index \in 0..IndexCap /\ tutor.answered = NextIndex(tutor.problem.index)

(* What the service serves next is the practice item of the tutor it        *)
(* serves.                                                                  *)
LEMMA ServedByServeNext ==
  ASSUME NEW t \in Tutor
  PROVE  ServeNext(t).problem
           = PracticeItem(t.goal, ServeNext(t).problem.format, ServeNext(t).answered)
<1> DEFINE item == PracticeItem(t.goal, NextSpecAfterOutcome(t.goal, t.answered - 1, t.last),
                                t.answered)
<1>1. item = PracticeItem(t.goal, item.format, t.answered)
  BY DEF PracticeItem
<1>2. ServeNext(t).problem = item
  <2> HIDE DEF item
  <2>1. ServeNext(t) = [t EXCEPT !.problem = item]
    BY DEF ServeNext, item
  <2> QED BY <2>1 DEF Tutor
<1>3. ServeNext(t).answered = t.answered
  BY ServeNextType
<1> HIDE DEF item
<1> QED BY <1>1, <1>2, <1>3

(* What a served problem is, field by field.                                *)
LEMMA ServedFields ==
  ASSUME NEW t \in Tutor
  PROVE  /\ ServeNext(t).problem.kind = "practice"
         /\ ServeNext(t).problem.kc = t.goal
         /\ ServeNext(t).problem.index = t.answered
<1> DEFINE f == ServeNext(t).problem.format
<1>1. ServeNext(t).problem = PracticeItem(t.goal, f, t.answered)
  BY ServedByServeNext, ServeNextType
<1> HIDE DEF f
<1> QED BY <1>1 DEF PracticeItem

(* An answer advances the index by one, folded.                             *)
LEMMA AnsweredBySubmit ==
  ASSUME NEW t \in Tutor, NEW o \in Answer
  PROVE  SubmitAnswer(t, o).answered = NextIndex(t.answered)
BY DEF SubmitAnswer, Tutor

(* Every step keeps the current problem the served one.                     *)
LEMMA ServedItemStep ==
  ASSUME IInv, ServedItem, [Next]_vars
  PROVE  ServedItem'
<1>1. tutor \in Tutor
  BY DEF IInv, TypeOK
<1>2. ASSUME NEW o \in Answer, AnswerOpensProbe(o) PROVE ServedItem'
  <2> DEFINE t == SubmitAnswer(tutor, o)
  <2>1. t.problem = tutor.problem /\ t.answered = NextIndex(tutor.answered) /\ t \in Tutor
    BY <1>1, <1>2, PracticeAnswer, AnsweredBySubmit DEF AnswerOpensProbe
  <2> HIDE DEF t
  <2>2. /\ probe = << >> /\ tutor' = t
        /\ probe' = BuildLiveProbeSteps(t.goal, t.problem.format)
    BY <1>2 DEF AnswerOpensProbe, t
  <2>3. probe' # << >>
    BY <2>1, <2>2, ProbeStepsType DEF Tutor
  <2>4. tutor.problem.index = tutor.answered /\ tutor.answered \in 0..IndexCap
    BY <1>1, <2>2 DEF ServedItem, PracticeItem, Tutor
  <2> QED BY <2>1, <2>2, <2>3, <2>4 DEF ServedItem
<1>3. ASSUME NEW o \in Answer, AnswerServesNext(o) PROVE ServedItem'
  <2> DEFINE s == SubmitAnswer(tutor, o)
  <2>1. s \in Tutor
    BY <1>3, PracticeAnswer DEF AnswerServesNext
  <2>2. tutor' = ServeNext(s) /\ probe' = << >>
    BY <1>3 DEF AnswerServesNext
  <2> HIDE DEF s
  <2> QED BY <2>1, <2>2, ServedByServeNext, ServeNextType DEF ServedItem
<1>4. ASSUME NEW o \in Answer, NEW prerequisite \in KC,
             AnswerBeginsRemediation(o, prerequisite)
      PROVE  ServedItem'
  BY <1>4 DEF AnswerBeginsRemediation, ServedItem, ForGoalKC, PracticeItem
<1>8. ASSUME NEW o \in Answer, NEW prerequisite \in KC, AnswerFailsToDrop(o, prerequisite)
      PROVE  ServedItem'
  <2> DEFINE s == SubmitAnswer(tutor, o)
  <2>1. s \in Tutor
    BY <1>8, PracticeAnswer DEF AnswerFailsToDrop
  <2>2. tutor' = ServeNext(s) /\ probe' = << >>
    BY <1>8 DEF AnswerFailsToDrop
  <2> HIDE DEF s
  <2> QED BY <2>1, <2>2, ServedByServeNext, ServeNextType DEF ServedItem
<1>5. CASE ProbeStepWrong \/ ProbePassed
  <2>1. tutor' = ServeNext(tutor) /\ probe' = << >>
    BY <1>5 DEF ProbeStepWrong, ProbePassed
  <2> QED BY <1>1, <2>1, ServedByServeNext, ServeNextType DEF ServedItem
<1>6. CASE ProbePassedResumesParent
  <2>1. paused # << >> /\ paused[1].probe = << >>
    BY <1>6 DEF ProbePassedResumesParent, IInv, OneLevelDown, Remediating
  <2>2. tutor' = ServeNext(paused[1].tutor) /\ probe' = << >> /\ paused[1].tutor \in Tutor
    BY <1>6, <2>1, PausedParent DEF ProbePassedResumesParent
  <2> QED BY <2>2, ServedByServeNext, ServeNextType DEF ServedItem
<1>7. CASE ProbeStepRight \/ RequestHint \/ RequestHintDuringProbe \/ UNCHANGED vars
  <2>1. tutor' = tutor /\ probe' = probe
    BY <1>7 DEF ProbeStepRight, RequestHint, RequestHintDuringProbe, vars
  <2> QED BY <2>1 DEF ServedItem
<1> QED BY <1>2, <1>3, <1>4, <1>5, <1>6, <1>7, <1>8 DEF Next, PracticeTurn, ProbeTurn

(* So it holds in every reachable state.                                    *)
LEMMA ServedItemInvariance == Spec => [](IInv /\ ServedItem)
<1>1. Init => ServedItem
  BY DEF Init, ServedItem, ForGoalKC, PracticeItem
<1> QED BY <1>1, ServedItemStep, InitInv, NextInv, PTL DEF Spec

(* The ramp reaches its hardest tier within the minimum ...                 *)
LEMMA RampReachesTop ==
  ASSUME LessonRampMin - 2 >= RampStep * (MaxDifficulty - 1),
         NEW i \in Int, i >= LessonRampMin - 2
  PROVE  DifficultyFor(i) = MaxDifficulty
<1>1. /\ RampStep \in Nat \ {0} /\ MaxDifficulty \in Nat \ {0}
      /\ LessonRampMin \in Nat \ {0}
  BY ScheduleAssumption, LessonAssumption
<1>2. RampStep * (MaxDifficulty - 1) >= 0 /\ i >= RampStep * (MaxDifficulty - 1)
  BY <1>1
<1>3. i >= 0
  BY <1>1, <1>2
<1>4. i \div RampStep >= MaxDifficulty - 1 /\ i \div RampStep \in Int
  BY <1>1, <1>2, <1>3
<1> QED BY <1>1, <1>3, <1>4 DEF DifficultyFor, AtMost

(* ... so no probe opens before a problem of the hardest tier was answered,  *)
(* for every ramp that fits its minimum (the source's: 10 - 2 >= 2 * 3).     *)
THEOREM RampIsWalked ==
  ASSUME LessonRampMin - 2 >= RampStep * (MaxDifficulty - 1)
  PROVE  Spec => []RampWalked
<1>1. ASSUME IInv, ServedItem PROVE RampWalked
  <2> SUFFICES ASSUME probe # << >>
               PROVE  DifficultyFor(tutor.problem.index - 1) = MaxDifficulty
    BY DEF RampWalked
  <2> DEFINE i == tutor.problem.index
  <2>1. i \in 0..IndexCap /\ NextIndex(i) >= LessonRampMin
    BY <1>1 DEF ServedItem, IInv, ProbeIsEarned
  <2> HIDE DEF i
  <2>2. i \in Int /\ i - 1 >= LessonRampMin - 2
    BY <2>1, LessonAssumption DEF NextIndex
  <2>3. i - 1 \in Int
    BY <2>2
  <2> QED BY <2>2, <2>3, RampReachesTop DEF i
<1>2. IInv /\ ServedItem => RampWalked
  BY <1>1
<1> QED BY <1>2, ServedItemInvariance, PTL

(* A request that failed left a fresh practice item behind it.              *)
FailedIsFresh == Failed => probe = << >> /\ hints = 0

(* A response of any other request takes the error off the screen.          *)
LEMMA RespondIsNoFailure ==
  ASSUME NEW surface, NEW item, NEW says, "error" \notin says,
         Respond(surface, item, says)
  PROVE  ~Failed'
BY DEF Respond, Failed

(* Every step keeps it: one action fails, and it serves afresh.             *)
LEMMA FailedIsFreshStep ==
  ASSUME FailedIsFresh, [Next]_vars
  PROVE  FailedIsFresh'
<1>1. ASSUME NEW o \in Answer, PracticeTurn(o) PROVE FailedIsFresh'
  <2>1. CASE AnswerOpensProbe(o)
    BY <2>1, RespondIsNoFailure DEF AnswerOpensProbe, FailedIsFresh
  <2>2. CASE AnswerServesNext(o)
    <3>1. ~Failed'
      BY <2>2 DEF AnswerServesNext, Solutions, Respond, Failed
    <3> QED BY <3>1 DEF FailedIsFresh
  <2>3. ASSUME NEW prerequisite \in KC, AnswerBeginsRemediation(o, prerequisite)
        PROVE  FailedIsFresh'
    BY <2>3, RespondIsNoFailure DEF AnswerBeginsRemediation, FailedIsFresh
  <2>4. ASSUME NEW prerequisite \in KC, AnswerFailsToDrop(o, prerequisite)
        PROVE  FailedIsFresh'
    BY <2>4 DEF AnswerFailsToDrop, FailedIsFresh
  <2> QED BY <1>1, <2>1, <2>2, <2>3, <2>4 DEF PracticeTurn
<1>2. CASE ProbeTurn
  BY <1>2, RespondIsNoFailure DEF ProbeTurn, ProbeStepWrong, ProbeStepRight, ProbePassed,
     ProbePassedResumesParent, FailedIsFresh
<1>3. CASE RequestHint \/ RequestHintDuringProbe
  BY <1>3, RespondIsNoFailure DEF RequestHint, RequestHintDuringProbe, FailedIsFresh
<1>4. CASE UNCHANGED vars
  BY <1>4 DEF vars, FailedIsFresh, Failed
<1> QED BY <1>1, <1>2, <1>3, <1>4 DEF Next

(* So it holds in every reachable state.                                    *)
LEMMA FailedIsFreshInvariance == Spec => []FailedIsFresh
<1>1. Init => FailedIsFresh
  BY DEF Init, FailedIsFresh, Failed
<1> QED BY <1>1, FailedIsFreshStep, PTL DEF Spec

(* Each practice item starts at its first hint.                             *)
THEOREM HintsAlwaysStartOver == Spec => HintsStartOver
<1> DEFINE A == IF Failed' THEN hints' = 0
                ELSE IF reply'.item # reply.item /\ ~Failed
                THEN reply'.item.kind = "practice" => hints' = 0
                ELSE hints' # hints => tutor' = tutor /\ probe = << >>
<1>1. ASSUME IInv, ServedItem, FailedIsFresh, [Next]_vars PROVE [A]_vars
  <2>1. ASSUME NEW o \in Answer, PracticeTurn(o) PROVE A
    <3>1. CASE AnswerOpensProbe(o)
      <4>1. ~Failed' /\ reply'.item.kind = "probe" /\ hints' = hints
        BY <3>1, RespondIsNoFailure DEF AnswerOpensProbe, Respond, ProbeItem
      <4> QED BY <4>1
    <3>2. CASE AnswerServesNext(o)
      <4> DEFINE s == SubmitAnswer(tutor, o)
      <4>1. tutor \in Tutor /\ s \in Tutor /\ s.answered = NextIndex(tutor.answered)
        BY <1>1, <3>2, PracticeAnswer, AnsweredBySubmit
           DEF AnswerServesNext, IInv, TypeOK
      <4> HIDE DEF s
      <4>2. probe = << >> /\ tutor' = ServeNext(s) /\ hints' = 0
        BY <3>2 DEF AnswerServesNext, s
      <4>3. CASE Failed
        BY <1>1, <4>2, <4>3 DEF FailedIsFresh
      <4>4. CASE ~Failed
        <5>1. reply'.item = tutor'.problem
          BY <3>2 DEF AnswerServesNext, Respond
        <5>2. reply'.item.index = NextIndex(tutor.answered)
          BY <4>1, <4>2, <5>1, ServedFields
        <5>3. reply.item.index = tutor.answered
          BY <1>1, <4>2, <4>4 DEF IInv, ScreenIsJudged, ServedItem, PracticeItem
        <5>4. NextIndex(tutor.answered) # tutor.answered
          BY <4>1, LessonAssumption DEF NextIndex, Tutor
        <5> QED BY <4>2, <4>4, <5>2, <5>3, <5>4
      <4> QED BY <4>3, <4>4
    <3>3. ASSUME NEW prerequisite \in KC, AnswerBeginsRemediation(o, prerequisite)
          PROVE  A
      <4>1. hints' = 0 /\ reply'.item = ForGoalKC(prerequisite).problem /\ probe = << >>
        BY <3>3 DEF AnswerBeginsRemediation, Respond
      <4>2. CASE Failed
        BY <1>1, <4>1, <4>2 DEF FailedIsFresh
      <4>3. CASE ~Failed
        <5>1. reply'.item.kc = prerequisite
          BY <4>1 DEF ForGoalKC, PracticeItem
        <5>2. reply.item.kc = tutor.goal
          BY <1>1, <4>1, <4>3 DEF IInv, ScreenIsJudged, ServedItem, PracticeItem
        <5>3. prerequisite # tutor.goal
          BY <1>1, <3>3, RemediationTargetsListed
             DEF AnswerBeginsRemediation, IInv, TypeOK, Tutor
        <5> QED BY <4>1, <4>3, <5>1, <5>2, <5>3
      <4> QED BY <4>2, <4>3
    <3>4. ASSUME NEW prerequisite \in KC, AnswerFailsToDrop(o, prerequisite) PROVE A
      <4>1. hints' = 0 /\ "error" \in reply'.says
        BY <1>1, <3>4 DEF AnswerFailsToDrop, IInv, TypeOK
      <4> QED BY <4>1 DEF Failed
    <3> QED BY <2>1, <3>1, <3>2, <3>3, <3>4 DEF PracticeTurn
  <2>2. CASE ProbeStepWrong \/ ProbePassed
    <3>1. /\ probe # << >> /\ hints' = 0 /\ reply'.item = tutor'.problem
          /\ tutor' = ServeNext(tutor)
      BY <2>2 DEF ProbeStepWrong, ProbePassed, Respond
    <3>2. reply'.item.kind = "practice"
      BY <1>1, <3>1, ServedFields DEF IInv, TypeOK
    <3>3. ~Failed /\ reply.item.kind = "probe"
      BY <1>1, <3>1 DEF IInv, ScreenIsJudged, ProbeItem, FailedIsFresh
    <3> QED BY <3>1, <3>2, <3>3
  <2>3. CASE ProbePassedResumesParent
    <3>1. paused # << >>
      BY <1>1, <2>3 DEF ProbePassedResumesParent, IInv, OneLevelDown, Remediating
    <3>2. /\ probe # << >> /\ hints' = 0 /\ reply'.item = tutor'.problem
          /\ tutor' = ServeNext(paused[1].tutor) /\ paused[1].tutor \in Tutor
      BY <1>1, <2>3, <3>1, PausedParent DEF ProbePassedResumesParent, Respond
    <3>3. reply'.item.kind = "practice"
      BY <3>2, ServedFields
    <3>4. ~Failed /\ reply.item.kind = "probe"
      BY <1>1, <3>2 DEF IInv, ScreenIsJudged, ProbeItem, FailedIsFresh
    <3> QED BY <3>2, <3>3, <3>4
  <2>4. CASE ProbeStepRight \/ RequestHintDuringProbe
    <3>1. ~Failed'
      BY <2>4, RespondIsNoFailure DEF ProbeStepRight, RequestHintDuringProbe
    <3>2. reply'.item.kind = "probe" /\ hints' = hints
      BY <2>4 DEF ProbeStepRight, RequestHintDuringProbe, Respond, ProbeItem
    <3> QED BY <3>1, <3>2
  <2>5. CASE RequestHint
    <3>1. ~Failed' /\ reply'.item = tutor.problem /\ tutor' = tutor /\ probe = << >>
      BY <2>5, RespondIsNoFailure DEF RequestHint, Respond
    <3>2. ~Failed => reply'.item = reply.item
      BY <1>1, <3>1 DEF IInv, ScreenIsJudged
    <3> QED BY <3>1, <3>2
  <2> QED BY <1>1, <2>1, <2>2, <2>3, <2>4, <2>5 DEF Next, ProbeTurn
<1>2. IInv /\ ServedItem /\ FailedIsFresh /\ [Next]_vars => [A]_vars
  BY <1>1
<1>3. Spec => [][A]_vars
  <2> HIDE DEF A
  <2> QED BY <1>2, ServedItemInvariance, FailedIsFreshInvariance, PTL DEF Spec
<1> QED BY <1>3 DEF HintsStartOver
=============================================================================
