---------------------------- MODULE MasteryRules ---------------------------
(***************************************************************************)
(* The evidence rules behind a provisional mastery declaration, for the    *)
(* single-skill lessons the live loop serves.  The BKT estimate is a real  *)
(* number whose only use here is the comparison with the threshold: each   *)
(* answer o carries the outcome of that comparison, o.aboveTau.            *)
(***************************************************************************)
EXTENDS LessonCatalog, FiniteSets

CONSTANTS MinAttempts,         \* engaged attempts before a declaration
          MinRepresentations,  \* representations answered correctly
          InterleaveCadence    \* correct engaged items in the varied set

ASSUME MasteryAssumption ==
  /\ MinAttempts \in Nat
  /\ MinRepresentations \in Nat \ {0, 1}
  /\ InterleaveCadence \in Nat \ {0}

\* What the rules read off the log of observations.
Evidence == [engaged : 0..MinAttempts, correct : 0..InterleaveCadence,
             reps : SUBSET Representation, unaided : BOOLEAN]

NoEvidence == [engaged |-> 0, correct |-> 0, reps |-> {}, unaided |-> FALSE]

\* Folding one answer in.  An answer under the time floor is no evidence.
Observe(e, o, rep) ==
  IF ~o.engaged THEN e
  ELSE [engaged |-> AtMost(e.engaged + 1, MinAttempts),
        correct |-> IF o.correct THEN AtMost(e.correct + 1, InterleaveCadence)
                                 ELSE e.correct,
        reps    |-> IF o.correct THEN e.reps \cup {rep} ELSE e.reps,
        unaided |-> e.unaided \/ (o.correct /\ ~o.hinted)]

\* Every rule but the BKT threshold.
EvidenceSuffices(e) ==
  /\ e.engaged >= MinAttempts
  /\ Cardinality(e.reps) >= MinRepresentations
  /\ e.unaided
  /\ e.correct >= InterleaveCadence

\* Ready for the transfer probe, not yet mastered.
DeclareMastery(e, aboveTau) == aboveTau /\ EvidenceSuffices(e)
=============================================================================
