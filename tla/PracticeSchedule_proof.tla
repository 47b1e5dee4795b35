----------------------- MODULE PracticeSchedule_proof -----------------------
(***************************************************************************)
(* What the scheduler and the probe builder return, for every catalogue.   *)
(***************************************************************************)
EXTENDS PracticeSchedule, TLAPS, WellFoundedInduction

(* A non-empty set of naturals has a least element: the scans of the code   *)
(* that stop at the first hit find one.                                     *)
LEMMA NatHasLeast ==
  ASSUME NEW S \in SUBSET Nat, S # {}
  PROVE  \E n \in S : \A m \in S : n <= m
<1> DEFINE Less == {p \in Nat \X Nat : p[1] < p[2]}
<1>1. Less = OpToRel(<, Nat)
  BY DEF OpToRel
<1>2. IsWellFoundedOn(Less, Nat)
  BY <1>1, NatLessThanWellFounded
<1>3. \E n \in S : \A m \in S : ~ (<<m, n>> \in Less)
  <2> HIDE DEF Less
  <2> QED BY <1>2, WFMin
<1>4. PICK n \in S : \A m \in S : ~ (<<m, n>> \in Less)
  BY <1>3
<1>5. \A m \in S : n <= m
  <2> TAKE m \in S
  <2>1. m \in Nat /\ n \in Nat /\ <<m, n>> \in Nat \X Nat
    OBVIOUS
  <2>2. ~ (m < n)
    BY <2>1, <1>4
  <2> QED BY <2>1, <2>2
<1> QED BY <1>5

(* An index taken modulo a length is an index, the code's len(history) - 1   *)
(* of the empty history included.                                           *)
LEMMA ModBounds ==
  ASSUME NEW i \in Int, NEW n \in Nat \ {0}
  PROVE  i % n \in 0..(n - 1)
BY SMT

(* A lesson's table of live representations.                                *)
LEMMA LiveRepsType ==
  ASSUME NEW kc \in KC
  PROVE  /\ LiveReps[kc] \in Seq(Representation)
         /\ Len(LiveReps[kc]) \in Nat \ {0}
         /\ \A i \in 1..Len(LiveReps[kc]) : LiveReps[kc][i] \in Representation
         /\ \A i, j \in 1..Len(LiveReps[kc]) :
              LiveReps[kc][i] = LiveReps[kc][j] => i = j
<1>1. LiveReps \in [KC -> Seq(Representation)]
  BY CatalogAssumption
<1>2. LiveReps[kc] \in Seq(Representation)
  BY <1>1
<1>3. Len(LiveReps[kc]) >= 1 /\ Len(LiveReps[kc]) \in Nat
  BY <1>2, CatalogAssumption
<1>4. \A i \in 1..Len(LiveReps[kc]) : LiveReps[kc][i] \in Representation
  BY <1>2
<1>5. \A i, j \in 1..Len(LiveReps[kc]) :
              LiveReps[kc][i] = LiveReps[kc][j] => i = j
  BY CatalogAssumption
<1> QED BY <1>2, <1>3, <1>4, <1>5

(* Only representations the live surface has a widget for are served.       *)
THEOREM NextSpecIsLive ==
  ASSUME NEW kc \in KC, NEW index \in Int
  PROVE  NextSpec(kc, index) \in LiveRepSet(kc)
<1> DEFINE n == Len(LiveReps[kc])
<1>1. n \in Nat \ {0}
  BY LiveRepsType
<1>2. index % n \in 0..(n - 1)
  <2> HIDE DEF n
  <2> QED BY <1>1, ModBounds
<1>3. 1 + (index % n) \in 1..n
  <2> HIDE DEF n
  <2> QED BY <1>1, <1>2
<1> QED BY <1>3 DEF NextSpec, LiveRepSet

(* Nor does the re-practice after a wrong answer leave them.                *)
THEOREM NextSpecAfterOutcomeIsLive ==
  ASSUME NEW kc \in KC, NEW index \in Int, NEW last
  PROVE  NextSpecAfterOutcome(kc, index, last) \in LiveRepSet(kc)
<1>1. NextSpec(kc, index) \in LiveRepSet(kc)
  BY NextSpecIsLive
<1>2. LiveReps[kc][1] \in LiveRepSet(kc)
  BY LiveRepsType DEF LiveRepSet
<1> QED BY <1>1, <1>2 DEF NextSpecAfterOutcome

(* The representations of a lesson are representations.                     *)
LEMMA LiveRepSetType ==
  ASSUME NEW kc \in KC
  PROVE  LiveRepSet(kc) \subseteq Representation
BY LiveRepsType DEF LiveRepSet

(* The scan for a representation finds one whenever there is one ...        *)
LEMMA FirstInHit ==
  ASSUME NEW kc \in KC, NEW wanted, NEW default,
         NEW k \in 1..Len(LiveReps[kc]), LiveReps[kc][k] \in wanted
  PROVE  FirstIn(LiveReps[kc], wanted, default) \in wanted \cap LiveRepSet(kc)
<1> DEFINE reps == LiveReps[kc]
           hits == {i \in 1..Len(reps) : reps[i] \in wanted}
<1>1. hits \in SUBSET Nat /\ hits # {}
  BY LiveRepsType
<1>2. \E n \in hits : \A m \in hits : n <= m
  <2> HIDE DEF hits
  <2> QED BY <1>1, NatHasLeast
<1>3. \E i \in 1..Len(reps) : IsFirstIn(reps, wanted, i)
  BY <1>2 DEF IsFirstIn
<1> DEFINE c == CHOOSE i \in 1..Len(reps) : IsFirstIn(reps, wanted, i)
<1>4. c \in 1..Len(reps) /\ IsFirstIn(reps, wanted, c)
  BY <1>3
<1>5. FirstIn(reps, wanted, default) = reps[c]
  BY <1>3 DEF FirstIn
<1> QED BY <1>4, <1>5 DEF IsFirstIn, LiveRepSet

(* ... and returns its default otherwise.                                   *)
LEMMA FirstInType ==
  ASSUME NEW kc \in KC, NEW wanted, NEW default
  PROVE  \/ FirstIn(LiveReps[kc], wanted, default) \in wanted \cap LiveRepSet(kc)
         \/ FirstIn(LiveReps[kc], wanted, default) = default
<1>1. CASE \E k \in 1..Len(LiveReps[kc]) : LiveReps[kc][k] \in wanted
  BY <1>1, FirstInHit
<1>2. CASE ~ \E k \in 1..Len(LiveReps[kc]) : LiveReps[kc][k] \in wanted
  BY <1>2 DEF FirstIn, IsFirstIn
<1> QED BY <1>1, <1>2

(* The representations a probe poses are the lesson's own, plus the symbolic *)
(* error-finding pair.                                                      *)
LEMMA TransferFormatType ==
  ASSUME NEW kc \in KC, NEW recent
  PROVE  /\ TransferHead(kc, recent) \in LiveRepSet(kc)
         /\ TransferFormat(kc, recent) \in LiveRepSet(kc)
         /\ SecondFormat(kc, recent) \in LiveRepSet(kc)
<1>1. LiveReps[kc][1] \in LiveRepSet(kc)
  BY LiveRepsType DEF LiveRepSet
<1>2. TransferHead(kc, recent) \in LiveRepSet(kc)
  BY <1>1, FirstInType DEF TransferHead
<1>3. TransferFormat(kc, recent) \in LiveRepSet(kc)
  <2>1. FirstIn(LiveReps[kc], Representation \ {"symbolic"}, TransferHead(kc, recent))
           \in LiveRepSet(kc)
    BY <1>2, FirstInType
  <2> QED BY <1>2, <2>1, FirstInType DEF TransferFormat
<1>4. SecondFormat(kc, recent) \in LiveRepSet(kc)
  <2> DEFINE first == TransferFormat(kc, recent)
  <2>1. FirstIn(LiveReps[kc], Representation \ {first}, first) \in LiveRepSet(kc)
    BY <1>3, FirstInType
  <2> QED BY <2>1, FirstInType DEF SecondFormat
<1> QED BY <1>2, <1>3, <1>4

(* A probe has two steps at least, each a representation.                   *)
LEMMA ProbeStepsType ==
  ASSUME NEW kc \in KC, NEW recent
  PROVE  /\ BuildLiveProbeSteps(kc, recent) \in Seq(Representation)
         /\ Len(BuildLiveProbeSteps(kc, recent)) \in {2, 3}
         /\ BuildLiveProbeSteps(kc, recent) # << >>
<1>1. /\ TransferFormat(kc, recent) \in Representation
      /\ SecondFormat(kc, recent) \in Representation
      /\ "symbolic" \in Representation
  BY TransferFormatType, LiveRepSetType DEF Representation
<1> QED BY <1>1 DEF BuildLiveProbeSteps

(* A probe of a lesson that can be mastered asks for two representations,    *)
(* whatever the learner worked last: one lucky item never confirms (the      *)
(* builder's own purpose, tutor/live_transfer_probe.py).                    *)
THEOREM ProbeSpansTwoRepresentations ==
  ASSUME NEW kc \in KC, NEW recent \in Representation, IsMasterableLive(kc)
  PROVE  \E a, b \in StepFormats(BuildLiveProbeSteps(kc, recent)) : a # b
<1> DEFINE steps == BuildLiveProbeSteps(kc, recent)
           reps  == LiveReps[kc]
<1>1. reps[1] # reps[2] /\ 1 \in 1..Len(reps) /\ 2 \in 1..Len(reps)
  BY LiveRepsType DEF IsMasterableLive
<1>2. \A r : \E k \in 1..Len(reps) : reps[k] \in Representation \ {r}
  BY <1>1, LiveRepsType
<1>3. CASE kc \in ErrorFinding
  <2>1. FirstIn(reps, Representation \ {"symbolic"}, TransferHead(kc, recent))
          \in Representation \ {"symbolic"}
    BY <1>2, FirstInHit
  <2>2. TransferFormat(kc, recent) # "symbolic"
    BY <1>3, <2>1, FirstInType DEF TransferFormat
  <2>3. steps = <<TransferFormat(kc, recent), "symbolic", "symbolic">>
    BY <1>3 DEF BuildLiveProbeSteps
  <2>4. /\ TransferFormat(kc, recent) \in StepFormats(steps)
        /\ "symbolic" \in StepFormats(steps)
    BY <2>3 DEF StepFormats
  <2> QED BY <2>2, <2>4
<1>4. CASE kc \notin ErrorFinding
  <2> DEFINE first == TransferFormat(kc, recent)
  <2>1. FirstIn(reps, Representation \ {first}, first) \in Representation \ {first}
    BY <1>2, FirstInHit
  <2>2. SecondFormat(kc, recent) # first
    BY <2>1, FirstInType DEF SecondFormat
  <2>3. steps = <<first, SecondFormat(kc, recent)>>
    BY <1>4 DEF BuildLiveProbeSteps
  <2>4. first \in StepFormats(steps) /\ SecondFormat(kc, recent) \in StepFormats(steps)
    BY <2>3 DEF StepFormats
  <2> QED BY <2>2, <2>4
<1> QED BY <1>3, <1>4
=============================================================================
