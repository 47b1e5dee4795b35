----------------------------- MODULE LiveLesson -----------------------------
(***************************************************************************)
(* One learner's live session: the turn loop over a tutor, the transfer    *)
(* probe that confirms mastery, and the one-level drop to a prerequisite   *)
(* lesson.  The variables are the fields of the in-memory session record;  *)
(* tutor, helpRun, probe, step, confirmed, cooldown and hints describe the *)
(* ACTIVE lesson and are swapped on a drop and on the way back.            *)
(*                                                                         *)
(* A handler runs to its end before the next one here.                     *)
(***************************************************************************)
EXTENDS SurfacePolicy, MasteryRules, PracticeSchedule, Remediation

CONSTANTS
  LessonRampMin,   \* practice answers before a probe may open
  ProbeCooldown,   \* practice answers between a failed probe and the next
  MaxHints,        \* hint lines a problem has; later requests repeat the last
  IndexCap,        \* practice indexes from here on are folded back ...
  Rotation,        \* ... by a whole turn of every lesson's representations
  Proactive,       \* the session's proactive arm
  TrustworthyKCs   \* KCs the proactive arm may speak on

ASSUME LessonAssumption ==
  /\ LessonRampMin \in Nat \ {0}
  /\ ProbeCooldown \in Nat
  /\ MaxHints \in Nat
  /\ IndexCap \in Nat /\ Rotation \in Nat \ {0, 1}
  /\ \A kc \in KC : Rotation % Len(LiveReps[kc]) = 0
  /\ IndexCap >= LessonRampMin + Rotation
  /\ Proactive \in BOOLEAN
  /\ TrustworthyKCs \subseteq KC

VARIABLES
  tutor,      \* the active TutorSession
  helpRun,    \* trailing high readings of the HelpNeed stream
  probe,      \* representations of the probe's steps; << >> when none runs
  step,       \* 0-based index of the step on screen
  confirmed,  \* KCs the learner confirmed in the active lesson
  cooldown,   \* practice answers still to wait after a failed probe
  hints,      \* hints requested on the practice problem
  paused,     \* the parent to resume: << >> or one snapshot
  leftover,   \* whether a drop that failed left a snapshot behind; none is
              \* read before the next drop overwrites it
  flow,       \* the remediation axis
  reply,      \* what the last response showed
  rested      \* history: practice answers on a KC since its last failed probe

lesson == <<tutor, helpRun, probe, step, confirmed, cooldown, hints>>
vars == <<tutor, helpRun, probe, step, confirmed, cooldown, hints,
          paused, leftover, flow, reply, rested>>

-----------------------------------------------------------------------------
(* The tutor: a lesson's own state.                                        *)

\* An item to answer: a practice problem, or a step of the probe.
PracticeItem(kc, format, index) ==
  [kind |-> "practice", kc |-> kc, format |-> format, index |-> index]
ProbeItem(kc, steps, i) ==
  [kind |-> "probe", kc |-> kc, format |-> steps[i + 1], index |-> i]

\* The number of practice answers grows without end.  It is compared with the
\* ramp minimum and taken modulo the number of representations, and neither
\* tells an index from one a whole rotation earlier past the cap.
NextIndex(n) == IF n + 1 < IndexCap THEN n + 1 ELSE n + 1 - Rotation

\* Everything the code decides from about one submitted answer: the verdict,
\* the request's evidence, and what the BKT and HelpNeed models say after it.
Answer == {o \in [correct : BOOLEAN, category : Slips \cup {"none"},
                  hinted : BOOLEAN, engaged : BOOLEAN, aboveTau : BOOLEAN,
                  needsHelp : BOOLEAN] :
             o.correct <=> o.category = "none"}

ForGoalKC(kc) ==
  [goal |-> kc, answered |-> 0, problem |-> PracticeItem(kc, LiveReps[kc][1], 0),
   surface |-> "S1_symbolic_focus", streak |-> 0, errors |-> 0,
   evidence |-> NoEvidence,
   last |-> [correct |-> TRUE, format |-> LiveReps[kc][1]]]

\* FAULTY: the policy runs before the counters are brought up to date.
SubmitAnswerRoutesFirst(t, o) ==
  LET errors == IF o.correct THEN 0 ELSE AtMost(t.errors + 1, StuckErrors)
      streak == IF o.correct /\ ~o.hinted THEN AtMost(t.streak + 1, FadeStreak)
                ELSE 0
      move   == NextTransition(t.goal, t.surface, o, t.streak, t.errors)
  IN  [t EXCEPT !.answered = NextIndex(@),
                !.surface  = IF move.moves THEN move.to ELSE @,
                !.streak   = IF move.moves THEN 0 ELSE streak,
                !.errors   = errors,
                !.evidence = Observe(@, o, t.problem.format),
                !.last     = [correct |-> o.correct, format |-> t.problem.format]]

\* Counters first, then the policy on the new counters; a state change starts
\* the streak over, and only a right answer ends a run of errors.
SubmitAnswer(t, o) ==
  LET errors == IF o.correct THEN 0 ELSE AtMost(t.errors + 1, StuckErrors)
      streak == IF o.correct /\ ~o.hinted THEN AtMost(t.streak + 1, FadeStreak)
                ELSE 0
      move   == NextTransition(t.goal, t.surface, o, streak, errors)
  IN  [t EXCEPT !.answered = NextIndex(@),
                !.surface  = IF move.moves THEN move.to ELSE @,
                !.streak   = IF move.moves THEN 0 ELSE streak,
                !.errors   = errors,
                !.evidence = Observe(@, o, t.problem.format),
                !.last     = [correct |-> o.correct, format |-> t.problem.format]]

\* The next practice problem depends on the history alone.
ServeNext(t) ==
  [t EXCEPT !.problem =
     PracticeItem(t.goal, NextSpecAfterOutcome(t.goal, t.answered - 1, t.last),
                  t.answered)]

-----------------------------------------------------------------------------
(* The session.                                                            *)

\* The response to a turn: the surface, the item to show, and what else it
\* says.  The remediation panel is projected from the flow after the turn.
Respond(surface, item, says) ==
  reply' = [surface |-> surface, item |-> item,
            says |-> says \cup IF flow'.state = "in_remediation"
                               THEN {"remediation"} ELSE {}]

Init ==
  /\ \E kc \in Built : tutor = ForGoalKC(kc)
  /\ helpRun = 0 /\ probe = << >> /\ step = 0 /\ confirmed = {}
  /\ cooldown = 0 /\ hints = 0
  /\ paused = << >> /\ leftover = FALSE /\ flow = InLesson
  /\ reply = [surface |-> tutor.surface, item |-> tutor.problem, says |-> {}]
  /\ rested = [kc \in KC |-> ProbeCooldown]

\* FAULTY: the cooldown is lowered without looking at it.
OneLessUnguarded(n) == n - 1

OneLess(n) == IF n > 0 THEN n - 1 ELSE 0

\* FAULTY: a failed probe is offered again at once.
ProbeDueWithoutRest(t, o) ==
  /\ DeclareMastery(t.evidence, o.aboveTau)
  /\ t.goal \notin confirmed
  /\ IsMasterableLive(t.goal)
  /\ t.answered >= LessonRampMin

\* FAULTY: a confirmed goal is probed again.
ProbeDueWhenConfirmed(t, o) ==
  /\ DeclareMastery(t.evidence, o.aboveTau)
  /\ OneLess(cooldown) = 0
  /\ IsMasterableLive(t.goal)
  /\ t.answered >= LessonRampMin

\* Whether the practice answer just folded into t opens the transfer probe.
ProbeDue(t, o) ==
  /\ DeclareMastery(t.evidence, o.aboveTau)
  /\ t.goal \notin confirmed
  /\ OneLess(cooldown) = 0
  /\ IsMasterableLive(t.goal)
  /\ t.answered >= LessonRampMin

Rest == rested' = [rested EXCEPT ![tutor.goal] = AtMost(@ + 1, ProbeCooldown)]

\* A practice answer after which the probe opens.  Nothing is served behind
\* it: the answered problem stays the tutor's current one, its hints too.
AnswerOpensProbe(o) ==
  LET t == SubmitAnswer(tutor, o) IN
  /\ probe = << >>
  /\ ProbeDue(t, o)
  /\ tutor' = t
  /\ probe' = BuildLiveProbeSteps(t.goal, t.problem.format)
  /\ step' = 0
  /\ cooldown' = OneLess(cooldown)
  /\ Rest
  /\ UNCHANGED <<helpRun, confirmed, hints, paused, leftover, flow>>
  /\ Respond("S5_transfer_probe", ProbeItem(t.goal, probe', 0), {})

\* FAULTY: a learner in a prerequisite lesson drops again.
DropsAtAnyLevel(o) ==
  /\ ShouldIntervene(Scored(helpRun, o.needsHelp))
  /\ RemediationTargets(tutor.goal, o.category) # {}

\* Whether the answer drops the learner one level: the reading is already on
\* the stream.
Drops(o) ==
  /\ flow.state = "in_lesson"
  /\ ShouldIntervene(Scored(helpRun, o.needsHelp))
  /\ RemediationTargets(tutor.goal, o.category) # {}

\* The worked steps a response shows of the problem just answered: a rescue in
\* the worked-example state, an explanation after a right answer.
Solutions(t, o) ==
  (IF t.surface = "S4_worked_example" THEN {"worked_example"} ELSE {})
    \cup (IF o.correct THEN {"explanation"} ELSE {})

\* Whether the proactive arm speaks before the next problem.
Offers(kc, run) == Proactive /\ ShouldIntervene(run) /\ kc \in TrustworthyKCs

\* A practice answer followed by the lesson's next problem, with an offer of
\* help when the proactive arm may speak.
AnswerServesNext(o) ==
  LET t == ServeNext(SubmitAnswer(tutor, o)) IN
  /\ probe = << >>
  /\ ~Drops(o)
  /\ ~ProbeDue(t, o)
  /\ tutor' = t
  /\ helpRun' = Scored(helpRun, o.needsHelp)
  /\ cooldown' = OneLess(cooldown)
  /\ hints' = 0
  /\ Rest
  /\ UNCHANGED <<probe, step, confirmed, paused, leftover, flow>>
  /\ Respond(t.surface, t.problem,
             Solutions(t, o) \cup IF Offers(t.goal, helpRun') THEN {"intervention"}
                                 ELSE {})

\* A practice answer that pauses the lesson and starts a prerequisite's.  The
\* lesson's next problem was served before the pause and stays in its snapshot.
AnswerBeginsRemediation(o, prerequisite) ==
  LET t == ServeNext(SubmitAnswer(tutor, o)) IN
  /\ probe = << >>
  /\ Drops(o)
  /\ prerequisite \in RemediationTargets(tutor.goal, o.category) \cap Built
  /\ ~ProbeDue(t, o)
  /\ paused' = <<[tutor |-> t, helpRun |-> Scored(helpRun, o.needsHelp),
                  probe |-> probe, step |-> step, confirmed |-> confirmed,
                  cooldown |-> OneLess(cooldown), hints |-> 0,
                  at |-> t.answered]>>
  /\ leftover' = FALSE
  /\ tutor' = ForGoalKC(prerequisite)
  /\ helpRun' = 0 /\ probe' = << >> /\ step' = 0 /\ confirmed' = {}
  /\ cooldown' = 0 /\ hints' = 0
  /\ flow' = ApplyTriggered(flow, [parent |-> tutor.goal,
                                   prerequisite |-> prerequisite,
                                   at |-> t.answered])
  /\ Rest
  /\ Respond(tutor'.surface, tutor'.problem, {})

\* The same, where the prerequisite has no content: its first problem cannot be
\* made, after the snapshot was taken and before the lesson was swapped.  The
\* request is an error; the answer counted and the next problem was served.
AnswerFailsToDrop(o, prerequisite) ==
  LET t == ServeNext(SubmitAnswer(tutor, o)) IN
  /\ probe = << >>
  /\ Drops(o)
  /\ prerequisite \in RemediationTargets(tutor.goal, o.category) \ Built
  /\ ~ProbeDue(t, o)
  /\ leftover' = TRUE
  /\ tutor' = t
  /\ helpRun' = Scored(helpRun, o.needsHelp)
  /\ cooldown' = OneLess(cooldown)
  /\ hints' = 0
  /\ Rest
  /\ UNCHANGED <<probe, step, confirmed, paused, flow>>
  /\ reply' = [reply EXCEPT !.says = {"error"}]

-----------------------------------------------------------------------------
(* The transfer probe.  Its steps are judged by the verifier alone: no turn *)
(* of the probe reaches the tutor's history or its counters.                *)

\* FAULTY: the re-served problem keeps the hint count of the one before.
ProbeStepWrongKeepsHints ==
  /\ probe # << >>
  /\ probe' = << >> /\ step' = 0
  /\ cooldown' = ProbeCooldown
  /\ tutor' = ServeNext(tutor)
  /\ rested' = [rested EXCEPT ![tutor.goal] = 0]
  /\ UNCHANGED <<helpRun, confirmed, hints, paused, leftover, flow>>
  /\ Respond(tutor.surface, tutor'.problem, {})

\* A wrong step: back to practice, and no probe for a while.
ProbeStepWrong ==
  /\ probe # << >>
  /\ probe' = << >> /\ step' = 0
  /\ cooldown' = ProbeCooldown
  /\ tutor' = ServeNext(tutor) /\ hints' = 0
  /\ rested' = [rested EXCEPT ![tutor.goal] = 0]
  /\ UNCHANGED <<helpRun, confirmed, paused, leftover, flow>>
  /\ Respond(tutor.surface, tutor'.problem, {})

\* A right step that is not the last.
ProbeStepRight ==
  /\ probe # << >>
  /\ step + 1 < Len(probe)
  /\ step' = step + 1
  /\ UNCHANGED <<tutor, helpRun, probe, confirmed, cooldown, hints, paused,
                 leftover, flow, rested>>
  /\ Respond("S5_transfer_probe", ProbeItem(tutor.goal, probe, step'), {})

\* FAULTY: a prerequisite lesson completes like any other.
ProbePassedAnywhere ==
  /\ probe # << >>
  /\ step + 1 >= Len(probe)
  /\ confirmed' = confirmed \cup {tutor.goal}
  /\ probe' = << >> /\ step' = 0
  /\ tutor' = ServeNext(tutor) /\ hints' = 0
  /\ UNCHANGED <<helpRun, cooldown, paused, leftover, flow, rested>>
  /\ Respond(tutor.surface, tutor'.problem, {"lesson_complete"})

\* The last step right, in an ordinary lesson: the KC is confirmed and the
\* lesson is complete.
ProbePassed ==
  /\ probe # << >>
  /\ step + 1 >= Len(probe)
  /\ flow.state # "in_remediation"
  /\ confirmed' = confirmed \cup {tutor.goal}
  /\ probe' = << >> /\ step' = 0
  /\ tutor' = ServeNext(tutor) /\ hints' = 0
  /\ UNCHANGED <<helpRun, cooldown, paused, leftover, flow, rested>>
  /\ Respond(tutor.surface, tutor'.problem, {"lesson_complete"})

\* FAULTY: the help stream of the prerequisite lesson stays.
ProbePassedKeepsHelpStream ==
  /\ probe # << >>
  /\ step + 1 >= Len(probe)
  /\ flow.state = "in_remediation"
  /\ tutor' = ServeNext(paused[1].tutor) /\ hints' = 0
  /\ probe' = paused[1].probe /\ step' = paused[1].step
  /\ confirmed' = paused[1].confirmed
  /\ cooldown' = paused[1].cooldown
  /\ paused' = << >> /\ leftover' = FALSE
  /\ flow' = ApplyCleared(flow)
  /\ UNCHANGED <<helpRun, rested>>
  /\ Respond(tutor'.surface, tutor'.problem, {})

\* The last step right, in a prerequisite lesson: the parent comes back as it
\* was paused, and serves its next problem.
ProbePassedResumesParent ==
  /\ probe # << >>
  /\ step + 1 >= Len(probe)
  /\ flow.state = "in_remediation"
  /\ tutor' = ServeNext(paused[1].tutor) /\ hints' = 0
  /\ helpRun' = paused[1].helpRun
  /\ probe' = paused[1].probe /\ step' = paused[1].step
  /\ confirmed' = paused[1].confirmed
  /\ cooldown' = paused[1].cooldown
  /\ paused' = << >> /\ leftover' = FALSE
  /\ flow' = ApplyCleared(flow)
  /\ UNCHANGED rested
  /\ Respond(tutor'.surface, tutor'.problem, {})

-----------------------------------------------------------------------------
(* Hint requests: never an answer, never an advance.                       *)

RequestHint ==
  /\ probe = << >>
  /\ hints' = AtMost(hints + 1, MaxHints)
  /\ UNCHANGED <<tutor, helpRun, probe, step, confirmed, cooldown, paused,
                 leftover, flow, rested>>
  /\ Respond(tutor.surface, tutor.problem, {})

\* FAULTY: the request falls through to the practice problem behind the probe.
RequestHintFallsThrough ==
  /\ probe # << >>
  /\ hints' = AtMost(hints + 1, MaxHints)
  /\ UNCHANGED <<tutor, helpRun, probe, step, confirmed, cooldown, paused,
                 leftover, flow, rested>>
  /\ Respond(tutor.surface, tutor.problem, {})

\* The probe is unaided: the step stays on screen and nothing changes.
RequestHintDuringProbe ==
  /\ probe # << >>
  /\ UNCHANGED <<tutor, helpRun, probe, step, confirmed, cooldown, hints,
                 paused, leftover, flow, rested>>
  /\ Respond("S5_transfer_probe", ProbeItem(tutor.goal, probe, step), {})

-----------------------------------------------------------------------------
PracticeTurn(o) ==
  \/ AnswerOpensProbe(o)
  \/ AnswerServesNext(o)
  \/ \E prerequisite \in KC : \/ AnswerBeginsRemediation(o, prerequisite)
                               \/ AnswerFailsToDrop(o, prerequisite)

ProbeTurn ==
  \/ ProbeStepWrong
  \/ ProbeStepRight
  \/ ProbePassed
  \/ ProbePassedResumesParent

Next ==
  \/ \E o \in Answer : PracticeTurn(o)
  \/ ProbeTurn
  \/ RequestHint
  \/ RequestHintDuringProbe

Spec == Init /\ [][Next]_vars

-----------------------------------------------------------------------------
(* Types.                                                                  *)

Item == [kind : {"practice", "probe"}, kc : KC, format : Representation, index : Nat]

Tutor == [goal : KC, answered : 0..IndexCap, problem : Item,
          surface : SurfaceState, streak : 0..FadeStreak, errors : 0..StuckErrors,
          evidence : Evidence, last : [correct : BOOLEAN, format : Representation]]

Snapshot == [tutor : Tutor, helpRun : 0..GateK, probe : Seq(Representation),
             step : Nat, confirmed : SUBSET KC, cooldown : 0..ProbeCooldown,
             hints : 0..MaxHints, at : 0..IndexCap]

Context == [parent : KC, prerequisite : KC, at : 0..IndexCap]

Says == {"worked_example", "explanation", "intervention", "lesson_complete",
         "remediation", "error"}

\* TYPE INVARIANT.  Every field of the session record keeps its type, and at
\* most one parent is paused.
TypeOK ==
  /\ tutor \in Tutor
  /\ helpRun \in 0..GateK
  /\ probe \in Seq(Representation) /\ step \in Nat
  /\ confirmed \in SUBSET KC
  /\ cooldown \in 0..ProbeCooldown
  /\ hints \in 0..MaxHints
  /\ paused \in Seq(Snapshot) /\ Len(paused) <= 1
  /\ leftover \in BOOLEAN
  /\ flow \in [state : {"in_lesson", "in_remediation"}, context : Seq(Context)]
  /\ reply \in [surface : SurfaceState, item : Item, says : SUBSET Says]
  /\ rested \in [KC -> 0..ProbeCooldown]

-----------------------------------------------------------------------------
(* Safety.                                                                 *)

Remediating == flow.state = "in_remediation"

\* INVARIANT.  A probe runs only where it was earned: the goal can be mastered on the live
\* surface, is not confirmed yet, its evidence meets every rule, the ramp was
\* walked, and the wait after an earlier failure is over -- all the while the
\* probe runs, hints and wrong steps of other probes included.
ProbeIsEarned ==
  probe # << >> =>
    /\ IsMasterableLive(tutor.goal)
    /\ tutor.goal \notin confirmed
    /\ EvidenceSuffices(tutor.evidence)
    /\ tutor.answered >= LessonRampMin
    /\ rested[tutor.goal] = ProbeCooldown

\* INVARIANT.  The problem whose answer opened the probe was of the hardest
\* tier: the ramp minimum is long enough for the scheduler's ramp, so no lesson
\* ends before its hard content was met.
RampWalked ==
  probe # << >> => DifficultyFor(tutor.problem.index - 1) = MaxDifficulty

Failed == "error" \in reply.says

\* INVARIANT.  Unless the last request failed, what the learner sees is what the
\* next answer is judged against: the item on screen is the judged one and the
\* surface is its own, on every path that serves one: next problem, probe step,
\* drop, failed probe, resumed parent, hint, and the first response after a
\* request that failed.
ScreenIsJudged ==
  ~Failed =>
    /\ reply.item = IF probe = << >> THEN tutor.problem
                    ELSE ProbeItem(tutor.goal, probe, step)
    /\ reply.surface = IF probe = << >> THEN tutor.surface ELSE "S5_transfer_probe"

\* INVARIANT.  The two axes agree: a parent is paused exactly in remediation, it is the one
\* the flow remembers, at the index it was paused, the lesson being worked is
\* one of its prerequisites, and a paused parent was never inside its probe.
OneLevelDown ==
  /\ Remediating <=> paused # << >>
  /\ Remediating =>
       LET parent == paused[1] context == flow.context[1] IN
       /\ context.parent = parent.tutor.goal
       /\ context.prerequisite = tutor.goal
       /\ context.at = parent.tutor.answered
       /\ tutor.goal \in RemediationRouting[parent.tutor.goal]
       /\ parent.probe = << >> /\ parent.step = 0

\* The surface and the counters of one tutor tell one story: no run of errors
\* beside a streak, a stuck learner is at the worked example, a scaffolded
\* surface fades as soon as the streak is long enough, and the practice surface
\* is never the probe's.
SurfaceMatches(t) ==
  /\ t.streak = 0 \/ t.errors = 0
  /\ t.errors >= StuckErrors => t.surface = "S4_worked_example"
  /\ t.surface # "S1_symbolic_focus" => t.streak < FadeStreak
  /\ t.surface # "S5_transfer_probe"

\* INVARIANT.  They do in the active lesson, after every turn: every branch of
\* the policy and every reset of a counter agrees with the order they run in.
SurfaceMatchesCounters == SurfaceMatches(tutor)

\* ACTION PROPERTY.  A KC joins the confirmed set only by a passed probe whose
\* steps span two representations; nothing but a lesson swap ever removes one.
ConfirmedByWholeProbe ==
  [][(UNCHANGED paused /\ confirmed' # confirmed) =>
        /\ confirmed' = confirmed \cup {tutor.goal}
        /\ step + 1 = Len(probe)
        /\ \E a, b \in StepFormats(probe) : a # b]_vars

\* ACTION PROPERTY.  While the prerequisite is worked, nothing of the paused
\* parent changes; it is given back only when that prerequisite's probe is
\* passed, with the very problem, counters and progress it was paused with and
\* a fresh hint count.
ParentPausesNeverResets ==
  [][paused # << >> =>
       \/ paused' = paused
       \/ /\ paused' = << >>
          /\ step + 1 = Len(probe)
          /\ tutor' = paused[1].tutor
          /\ helpRun' = paused[1].helpRun
          /\ confirmed' = paused[1].confirmed
          /\ cooldown' = paused[1].cooldown
          /\ probe' = << >>
          /\ hints' = 0]_vars

\* ACTION PROPERTY.  A practice item that comes on screen starts at its first
\* hint, and only a hint request on that item counts.  After a failed request
\* the item came with the failure: it starts at its first hint then.
HintsStartOver ==
  [][IF Failed' THEN hints' = 0
     ELSE IF reply'.item # reply.item /\ ~Failed
     THEN reply'.item.kind = "practice" => hints' = 0
     ELSE hints' # hints => tutor' = tutor /\ probe = << >>]_vars

\* ACTION PROPERTY.  A lesson is announced complete when its goal becomes
\* confirmed, so at most once, and never for a prerequisite lesson.
CompletesOnce ==
  []["lesson_complete" \in reply'.says =>
       /\ tutor.goal \notin confirmed
       /\ tutor.goal \in confirmed'
       /\ ~Remediating]_vars

-----------------------------------------------------------------------------
(* What a comment of the source says and the code does not do.             *)

\* The paused parent's field holds a snapshot in remediation and nothing
\* otherwise ("holds the frozen parent-lesson snapshot to resume to while in
\* remediation (None otherwise)", api/service.py).
PausedOnlyInRemediation == (paused # << >> \/ leftover) => Remediating

-----------------------------------------------------------------------------
(* The abstract specification this one implements.                         *)

\* A lesson of the stack.
LessonOf(t, confirmations) ==
  [goal |-> t.goal, confirmed |-> t.goal \in confirmations]

\* The paused parent, if any, under the active lesson.
Lessons ==
  IF paused = << >> THEN <<LessonOf(tutor, confirmed)>>
  ELSE <<LessonOf(paused[1].tutor, paused[1].confirmed), LessonOf(tutor, confirmed)>>

Gate == INSTANCE MasteryGate WITH
  Masterable    <- {kc \in KC : IsMasterableLive(kc)},
  Prerequisites <- RemediationRouting,
  stack         <- Lessons,
  gate          <- probe # << >>

\* REFINEMENT.  Seen as a stack of lessons and a gate, every turn is one step of
\* the mastery gate or none: nothing the loop does between probes -- hints,
\* answers, offers, failed probes -- confirms a goal, drops two levels, or leaves
\* a prerequisite unmastered.
ImplementsGate == Gate!Spec
=============================================================================
