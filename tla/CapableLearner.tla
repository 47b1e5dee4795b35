--------------------------- MODULE CapableLearner ---------------------------
(***************************************************************************)
(* The live lesson together with its learner, who answers in any way at    *)
(* first and at some point has the skill: from then on every answer is     *)
(* right, unaided and thought about, the estimate is above the threshold   *)
(* and no help is predicted.  Nothing says when, or what was left behind.  *)
(***************************************************************************)
EXTENDS LiveLesson

VARIABLE capable

CapableAnswer ==
  {o \in Answer : o.correct /\ ~o.hinted /\ o.engaged /\ o.aboveTau /\ ~o.needsHelp}

CapablePracticeTurn == \E o \in CapableAnswer : PracticeTurn(o)
CapableProbeTurn == ProbeStepRight \/ ProbePassed \/ ProbePassedResumesParent

BecomeCapable == ~capable /\ capable' = TRUE /\ UNCHANGED vars

LearnerNext ==
  \/ ~capable /\ Next /\ UNCHANGED capable
  \/ BecomeCapable
  \/ capable /\ (CapablePracticeTurn \/ CapableProbeTurn) /\ UNCHANGED capable
  \/ capable /\ (RequestHint \/ RequestHintDuringProbe) /\ UNCHANGED capable

\* A capable learner goes on answering.  The service adds no waiting of its own:
\* every answer is judged in the request that carries it.
Fairness ==
  /\ WF_<<vars, capable>>(capable /\ CapablePracticeTurn /\ UNCHANGED capable)
  /\ WF_<<vars, capable>>(capable /\ CapableProbeTurn /\ UNCHANGED capable)

LearnerSpec ==
  /\ Init /\ capable = FALSE
  /\ [][LearnerNext]_<<vars, capable>>
  /\ Fairness

\* LIVENESS.  Whatever happened before, a learner who has the skill leaves any
\* prerequisite lesson and finishes the lesson they started: no counter, wait,
\* schedule or pause starves the probe for ever.
CapableLearnerFinishes ==
  <>capable => <>[](~Remediating /\ tutor.goal \in confirmed)

\* LIVENESS.  A drop is a detour: a learner who has come to master the
\* prerequisite is given the parent lesson back ("masters the prerequisite (the
\* hard gate), then resumes the parent", policy/remediation_flow.py).
PrerequisiteClears == <>capable => <>[]~Remediating
=============================================================================
