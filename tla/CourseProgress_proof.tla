------------------------- MODULE CourseProgress_proof --------------------------
(***************************************************************************)
(* The course pages for every curriculum and every prerequisite graph that *)
(* satisfies CatalogAssumption, and every history of answers and days.     *)
(***************************************************************************)
EXTENDS CourseProgress, FiniteSetTheorems, TLAPS
--------------------------------------------------------------------------------
(* Least elements: the order facts that CHOOSE and "the first" rest on.    *)

LEMMA LeastNatural ==
    ASSUME NEW S \in SUBSET Nat, S # {}
    PROVE  \E n \in S : \A m \in S : n <= m
<1>1. PICK n \in S : \A m \in S : <<m, n>> \notin OpToRel(<, Nat)
    BY NatLessThanWellFounded, WFMin
<1>2. \A m \in S : ~(m < n)
    BY <1>1 DEF OpToRel
<1> QED BY <1>2

(* In a finite set a strict order has a minimal element.                   *)
LEMMA MinimalElement ==
    ASSUME NEW S, IsFiniteSet(S), S # {}, NEW R,
           \A x \in S : <<x, x>> \notin R,
           \A x, y, z \in S : <<x, y>> \in R /\ <<y, z>> \in R => <<x, z>> \in R
    PROVE  \E x \in S : \A y \in S : <<y, x>> \notin R
<1> DEFINE Minimal(x, T) == \A y \in T : <<y, x>> \notin R
           Bad == {T \in SUBSET S : T # {} /\ \A x \in T : ~Minimal(x, T)}
<1>1. SUFFICES ASSUME Bad # {} PROVE FALSE
    OBVIOUS
<1>2. IsWellFoundedOn(StrictSubsetOrdering(S), SUBSET S)
    BY FS_StrictSubsetOrderingWellFounded, FS_FiniteSubsetsOfFinite
<1>3. PICK T \in Bad : \A U \in Bad : <<U, T>> \notin StrictSubsetOrdering(S)
    <2>1. Bad \subseteq SUBSET S
        OBVIOUS
    <2> HIDE DEF Bad
    <2> QED BY <1>1, <1>2, <2>1, WFMin
<1>4. \A U \in SUBSET T : U # T => U \notin Bad
    BY <1>3 DEF StrictSubsetOrdering
<1>5. PICK x \in T : TRUE
    OBVIOUS
<1>6. PICK z \in T : <<z, x>> \in R
    OBVIOUS
<1>7. z \in T \ {x}
    BY <1>6
<1>8. PICK y \in T \ {x} : Minimal(y, T \ {x})
    <2>1. T \ {x} \in SUBSET S /\ T \ {x} # T /\ T \ {x} # {}
        BY <1>7
    <2>2. T \ {x} \notin Bad
        BY <1>4, <2>1
    <2> QED BY <2>1, <2>2
<1>9. <<x, y>> \in R
    BY <1>8
<1>10. <<z, y>> \in R
    BY <1>6, <1>9
<1> QED BY <1>7, <1>8, <1>10

LEMMA PowerOfTwo == ASSUME NEW n \in Nat PROVE 2 ^ n \in Nat /\ 2 ^ n > 0
<1>1. IsFiniteSet(1..n) /\ Cardinality(1..n) = n
    BY FS_Interval
<1>2. IsFiniteSet(SUBSET (1..n)) /\ Cardinality(SUBSET (1..n)) = 2 ^ n
    BY <1>1, FS_SUBSET
<1>3. {} \in SUBSET (1..n)
    OBVIOUS
<1> QED BY <1>2, <1>3, FS_CardinalityType, FS_EmptySet
--------------------------------------------------------------------------------
(* The catalogue.                                                          *)

LEMMA CatalogTypes ==
    /\ Len(Curriculum) \in Nat /\ Units = 1..Len(Curriculum)
    /\ \A u \in Units : /\ Curriculum[u] \in Seq([kc : STRING, concept : BOOLEAN])
                        /\ Len(Curriculum[u]) \in Nat /\ Lessons(u) = 1..Len(Curriculum[u])
    /\ \A u \in Units : \A l \in Lessons(u) : Curriculum[u][l].concept \in BOOLEAN
    /\ Len(SpineOrder) \in Nat /\ DOMAIN SpineOrder = 1..Len(SpineOrder)
<1>1. /\ Len(Curriculum) \in Nat /\ Units = 1..Len(Curriculum)
      /\ \A u \in Units : Curriculum[u] \in Seq([kc : STRING, concept : BOOLEAN])
    BY CatalogAssumption DEF Units
<1>2. \A u \in Units : Len(Curriculum[u]) \in Nat /\ Lessons(u) = 1..Len(Curriculum[u])
    BY <1>1 DEF Lessons
<1>3. \A u \in Units : \A l \in Lessons(u) : Curriculum[u][l].concept \in BOOLEAN
    <2> DEFINE Lesson == [kc : STRING, concept : BOOLEAN]
    <2> SUFFICES ASSUME NEW u \in Units, NEW l \in Lessons(u)
                 PROVE  Curriculum[u][l].concept \in BOOLEAN
        OBVIOUS
    <2>1. Curriculum[u] \in Seq(Lesson)
        BY <1>1
    <2>2. Curriculum[u][l] \in Lesson
        <3> HIDE DEF Lesson
        <3> QED BY <2>1, <1>2
    <2> QED BY <2>2
<1>4. Len(SpineOrder) \in Nat /\ DOMAIN SpineOrder = 1..Len(SpineOrder)
    BY CatalogAssumption
<1> QED BY <1>1, <1>2, <1>3, <1>4

LEMMA SkillsFinite == IsFiniteSet(LiveKCs)
<1>1. IsFiniteSet(1..Len(SpineOrder))
    BY CatalogTypes, FS_Interval
<1>2. SpineOrder \in Surjection(1..Len(SpineOrder), LiveKCs)
    <2>1. LiveKCs = {SpineOrder[i] : i \in 1..Len(SpineOrder)}
        BY CatalogTypes DEF LiveKCs, ToSet
    <2>2. SpineOrder \in [1..Len(SpineOrder) -> LiveKCs]
        BY <2>1, CatalogTypes, CatalogAssumption
    <2> QED BY <2>1, <2>2 DEF Surjection
<1> QED BY <1>1, <1>2, FS_Surjection

LEMMA CountedFinite ==
    ASSUME NEW u \in Units
    PROVE  /\ Counted(u) \subseteq Nat /\ IsFiniteSet(Counted(u))
           /\ Cardinality(Counted(u)) \in Nat
<1>1. Counted(u) \in SUBSET (1..Len(Curriculum[u]))
    BY CatalogTypes DEF Counted
<1>2. IsFiniteSet(1..Len(Curriculum[u]))
    <2>1. Len(Curriculum[u]) \in Int
        BY CatalogTypes
    <2> QED BY <2>1, FS_Interval
<1> QED BY <1>1, <1>2, FS_Subset, FS_CardinalityType
--------------------------------------------------------------------------------
(* Types.                                                                  *)

LEMMA OfferedSkills == TypeOK => Offered \subseteq LiveKCs
<1> SUFFICES ASSUME TypeOK PROVE Offered \subseteq LiveKCs
    OBVIOUS
<1>1. Unlocked \subseteq LiveKCs
    BY DEF Unlocked
<1>2. DueReviews \subseteq LiveKCs
    BY DEF DueReviews, TypeOK
<1>3. \A u \in Units : \A l \in Lessons(u) : Playable(u, l) => Curriculum[u][l].kc \in LiveKCs
    BY DEF Playable
<1> QED BY <1>1, <1>2, <1>3 DEF Offered

LEMMA InitTypes == Init => TypeOK
<1> SUFFICES ASSUME Init PROVE TypeOK
    OBVIOUS
<1>1. PICK known \in Backgrounds :
          rows = [kc \in known |-> [percent |-> MasteryBar, confirmed |-> TRUE, practised |-> 0]]
    BY DEF Init
<1>2. Touched = known
    BY <1>1 DEF Touched
<1>3. known \subseteq LiveKCs
    BY CourseAssumption
<1>4. [percent |-> MasteryBar, confirmed |-> TRUE, practised |-> 0] \in Row
    BY CourseAssumption DEF Row
<1>5. today = 0 /\ answers = 0
    BY DEF Init
<1> QED BY <1>1, <1>2, <1>3, <1>4, <1>5, CourseAssumption DEF TypeOK

LEMMA FlagsHeld ==
    ASSUME NEW kc, NEW percent PROVE HeldFlags(kc, percent) \subseteq BOOLEAN
<1> QED BY DEF HeldFlags

(* What an answer writes: the skill's row and no other.                    *)
LEMMA AnsweredRows ==
    ASSUME TypeOK, NEW kc \in LiveKCs, NEW percent \in Percents, NEW confirmed \in BOOLEAN,
           Answered(kc, percent, confirmed)
    PROVE  /\ Touched' = Touched \cup {kc} /\ Touched' \subseteq LiveKCs
           /\ rows' \in [Touched' -> Row]
           /\ \A k \in Touched' : rows'[k] = IF k = kc THEN WrittenRow(percent, confirmed)
                                             ELSE rows[k]
           /\ WrittenRow(percent, confirmed).practised = today
<1> DEFINE row == WrittenRow(percent, confirmed)
<1>1. row \in Row /\ row.practised = today
    BY CourseAssumption DEF WrittenRow, Row, TypeOK
<1>2. Touched' = Touched \cup {kc}
    BY DEF Answered, Touched
<1>3. \A k \in Touched' : rows'[k] = IF k = kc THEN row ELSE rows[k]
    BY <1>2 DEF Answered
<1>4. rows' = [k \in Touched' |-> rows'[k]]
    BY <1>2 DEF Answered
<1>5. \A k \in Touched' : rows'[k] \in Row
    BY <1>1, <1>2, <1>3 DEF TypeOK
<1>6. Touched' \subseteq LiveKCs /\ rows' \in [Touched' -> Row]
    BY <1>2, <1>4, <1>5 DEF TypeOK
<1> QED BY <1>1, <1>2, <1>3, <1>6

LEMMA AnsweredTypes ==
    ASSUME TypeOK, NEW kc \in LiveKCs, NEW percent \in Percents, NEW confirmed \in BOOLEAN,
           Answered(kc, percent, confirmed), answers < MaxAnswers, answers' = answers + 1,
           UNCHANGED today
    PROVE  TypeOK'
<1>1. \A k \in Touched' : rows'[k].practised <= today'
    BY AnsweredRows DEF TypeOK
<1>2. answers' \in 0..MaxAnswers /\ today' \in 0..MaxDays
    BY CourseAssumption DEF TypeOK
<1> QED BY <1>1, <1>2, AnsweredRows DEF TypeOK

LEMMA DayTypes == TypeOK /\ DayPasses => TypeOK'
<1> SUFFICES ASSUME TypeOK, DayPasses PROVE TypeOK'
    OBVIOUS
<1>1. Touched' = Touched /\ rows' = rows /\ answers' = answers
    BY DEF DayPasses, Touched
<1>2. today' \in 0..MaxDays /\ today' = today + 1 /\ today \in Nat
    BY CourseAssumption DEF DayPasses, TypeOK
<1>3. \A k \in Touched : rows[k].practised \in Nat /\ rows[k].practised <= today
    BY CourseAssumption DEF TypeOK, Row
<1>4. \A k \in Touched : rows[k].practised <= today'
    BY <1>2, <1>3
<1> QED BY <1>1, <1>2, <1>4 DEF TypeOK

LEMMA NextTypes == TypeOK /\ [Next]_courseVars => TypeOK'
<1> SUFFICES ASSUME TypeOK, [Next]_courseVars PROVE TypeOK'
    OBVIOUS
<1>1. CASE AnswerLesson
    BY <1>1, OfferedSkills, FlagsHeld, AnsweredTypes DEF AnswerLesson
<1>2. CASE DayPasses
    BY <1>2, DayTypes
<1>3. CASE UNCHANGED courseVars
    BY <1>3 DEF courseVars, TypeOK, Touched
<1> QED BY <1>1, <1>2, <1>3 DEF Next

(* Only skills with content get a row, and no row is of a day to come,     *)
(* whatever is answered: everything the pages offer has content            *)
(* (build_unit_progress, unlocked, upsert_mastery_state).                  *)
THEOREM SpecTypeOK == Spec => []TypeOK
<1> QED BY InitTypes, NextTypes, PTL DEF Spec
--------------------------------------------------------------------------------
(* The map and the units.                                                  *)

(* The map tells the confirmed skills, faded or not, and the touched ones. *)
MapTells ==
    \A kc \in LiveKCs :
        /\ NodeStatus(CourseMap, kc) \in CompletedStatuses <=> kc \in Confirmed
        /\ NodeStatus(CourseMap, kc) \in ProgressStatuses <=> kc \in Touched

LEMMA MapIsTrue == MapTells
<1> SUFFICES ASSUME NEW kc \in LiveKCs
             PROVE  /\ NodeStatus(CourseMap, kc) \in CompletedStatuses <=> kc \in Confirmed
                    /\ NodeStatus(CourseMap, kc) \in ProgressStatuses <=> kc \in Touched
    BY DEF MapTells
<1>1. DueReviews \subseteq Confirmed /\ Confirmed \subseteq Touched
    BY DEF DueReviews, IsDueForReview, Confirmed
<1>2. /\ CourseMap.due_review = DueReviews /\ CourseMap.mastered = Confirmed \ DueReviews
      /\ CourseMap.in_progress = Touched \ Confirmed
      /\ CourseMap.available = Unlocked \ Touched
    BY DEF CourseMap
<1>3. NodeStatus(CourseMap, kc) = IF kc \in DueReviews THEN "due_review"
                                  ELSE IF kc \in Confirmed THEN "mastered"
                                  ELSE IF kc \in Touched THEN "in_progress"
                                  ELSE IF kc \in CourseMap.available THEN "available"
                                  ELSE "locked"
    BY <1>1, <1>2 DEF NodeStatus
<1> QED BY <1>1, <1>3 DEF CompletedStatuses, ProgressStatuses

LEMMA MapIsTrueNext == MapTells'
<1> QED BY MapIsTrue, PTL

LEMMA UnitStatusValues ==
    ASSUME NEW map, NEW u \in Units
    PROVE  UnitStatus(map, u) \in {"mastered", "in_progress", "available", "locked"}
<1> QED BY DEF UnitStatus

LEMMA RankValues ==
    /\ Rank("locked") = 1 /\ Rank("available") = 2
    /\ Rank("in_progress") = 3 /\ Rank("mastered") = 4
<1> DEFINE order == <<"locked", "available", "in_progress", "mastered">>
<1>1. order[1] = "locked" /\ order[2] = "available" /\ order[3] = "in_progress" /\ order[4] = "mastered"
    OBVIOUS
<1>2. \A i \in 1..4 : i = 1 \/ i = 2 \/ i = 3 \/ i = 4
    OBVIOUS
<1>3. \A status : Rank(status) = CHOOSE i \in 1..4 : order[i] = status
    BY DEF Rank
<1> HIDE DEF order
<1>4. Rank("locked") = 1
    BY <1>1, <1>2, <1>3
<1>5. Rank("available") = 2
    BY <1>1, <1>2, <1>3
<1>6. Rank("in_progress") = 3
    BY <1>1, <1>2, <1>3
<1>7. Rank("mastered") = 4
    BY <1>1, <1>2, <1>3
<1> QED BY <1>4, <1>5, <1>6, <1>7

LEMMA DivisionMonotone ==
    ASSUME NEW a \in Nat, NEW b \in Nat, a <= b, NEW n \in Nat, n > 0
    PROVE  (a * 100) \div n <= (b * 100) \div n
<1>1. a * 100 <= b * 100 /\ a * 100 \in Nat /\ b * 100 \in Nat
    OBVIOUS
<1>2. \A x, y \in Nat : x <= y => x \div n <= y \div n
    OBVIOUS
<1> QED BY <1>1, <1>2

(* More confirmed and more touched: no unit's status or percentage falls.  *)
LEMMA MoreIsNotLess ==
    ASSUME NEW before, NEW after,
           \A kc \in LiveKCs : NodeStatus(before, kc) \in CompletedStatuses =>
                                   NodeStatus(after, kc) \in CompletedStatuses,
           \A kc \in LiveKCs : NodeStatus(before, kc) \in ProgressStatuses =>
                                   NodeStatus(after, kc) \in ProgressStatuses,
           NEW u \in Units
    PROVE  /\ Rank(UnitStatus(after, u)) >= Rank(UnitStatus(before, u))
           /\ PercentComplete(after, u) >= PercentComplete(before, u)
<1>1. \A v \in Units : Completed(before, v) \subseteq Completed(after, v)
    BY DEF Completed, RawStatus, Playable
<1>2. \A v \in Units : Begun(before, v) => Begun(after, v)
    BY DEF Begun, RawStatus, Playable, Counted
<1>3. \A v \in Units : AllCompleted(before, v) => AllCompleted(after, v)
    BY <1>1 DEF AllCompleted, Completed
<1>4. u = 1 \/ u - 1 \in Units
    BY CatalogTypes
<1>5. Rank(UnitStatus(after, u)) >= Rank(UnitStatus(before, u))
    BY <1>2, <1>3, <1>4, RankValues DEF UnitStatus
<1>6. PercentComplete(after, u) >= PercentComplete(before, u)
    <2>1. CASE Counted(u) = {}
        BY <2>1 DEF PercentComplete
    <2>2. CASE Counted(u) # {}
        <3>1. /\ Completed(after, u) \in SUBSET Counted(u)
              /\ Completed(before, u) \in SUBSET Completed(after, u)
            BY <1>1 DEF Completed
        <3>2. /\ IsFiniteSet(Completed(after, u)) /\ IsFiniteSet(Completed(before, u))
              /\ Cardinality(Completed(before, u)) <= Cardinality(Completed(after, u))
            BY <3>1, CountedFinite, FS_Subset
        <3>3. Cardinality(Counted(u)) \in Nat /\ Cardinality(Counted(u)) > 0
            BY <2>2, CountedFinite, FS_EmptySet
        <3> QED BY <2>2, <3>2, <3>3, FS_CardinalityType, DivisionMonotone DEF PercentComplete
    <2> QED BY <2>1, <2>2
<1> QED BY <1>5, <1>6

LEMMA StepKeepsRows == TypeOK /\ [Next]_courseVars => Touched \subseteq Touched'
<1> SUFFICES ASSUME TypeOK, [Next]_courseVars PROVE Touched \subseteq Touched'
    OBVIOUS
<1>1. CASE AnswerLesson
    BY <1>1 DEF AnswerLesson, Answered, Touched
<1>2. CASE UNCHANGED rows
    BY <1>2 DEF Touched
<1> QED BY <1>1, <1>2 DEF Next, DayPasses, courseVars

Kept ==
    Confirmed \subseteq Confirmed' =>
        \A before \in {CourseMap}, after \in {CourseMap'}, u \in Units :
            /\ Rank(UnitStatus(after, u)) >= Rank(UnitStatus(before, u))
            /\ PercentComplete(after, u) >= PercentComplete(before, u)

LEMMA StepKeepsProgress == TypeOK /\ [Next]_courseVars => Kept
<1> SUFFICES ASSUME TypeOK, [Next]_courseVars, Confirmed \subseteq Confirmed', NEW u \in Units
             PROVE  /\ Rank(UnitStatus(CourseMap', u)) >= Rank(UnitStatus(CourseMap, u))
                    /\ PercentComplete(CourseMap', u) >= PercentComplete(CourseMap, u)
    BY DEF Kept
<1>1. \A kc \in LiveKCs : NodeStatus(CourseMap, kc) \in CompletedStatuses =>
                              NodeStatus(CourseMap', kc) \in CompletedStatuses
    BY MapIsTrue, MapIsTrueNext DEF MapTells
<1>2. \A kc \in LiveKCs : NodeStatus(CourseMap, kc) \in ProgressStatuses =>
                              NodeStatus(CourseMap', kc) \in ProgressStatuses
    BY MapIsTrue, MapIsTrueNext, StepKeepsRows DEF MapTells
<1> QED BY <1>1, <1>2, MoreIsNotLess

(* No step that leaves the confirmed skills confirmed lowers a unit's      *)
(* status or the share of it that is done, whatever probability it writes  *)
(* and however many days go by: a faded skill still counts (_unit_status,  *)
(* _percent_complete, build_course_map).                                   *)
THEOREM SpecProgressIsKept == Spec => ProgressIsKept
<1>1. TypeOK /\ [Next]_courseVars => [Kept]_courseVars
    BY StepKeepsProgress
<1> QED BY <1>1, SpecTypeOK, PTL DEF Spec, ProgressIsKept, Kept
--------------------------------------------------------------------------------
(* An open lesson.                                                         *)

LEMMA FirstUnfinishedUnit ==
    ASSUME NEW map, NEW u \in Units, UnitStatus(map, u) = "locked"
    PROVE  \E v \in 1..(u - 1) : UnitStatus(map, v) \in {"available", "in_progress"}
<1> DEFINE unfinished == {v \in Units : ~AllCompleted(map, v)}
<1>1. u \in Nat /\ u > 1 /\ u - 1 \in unfinished
    BY CatalogTypes DEF UnitStatus
<1>2. unfinished \in SUBSET Nat /\ unfinished # {}
    BY <1>1, CatalogTypes
<1>3. PICK v \in unfinished : \A w \in unfinished : v <= w
    BY <1>2, LeastNatural
<1>4. v \in 1..(u - 1)
    BY <1>1, <1>2, <1>3, CatalogTypes
<1>5. v = 1 \/ AllCompleted(map, v - 1)
    BY <1>3, CatalogTypes
<1>6. UnitStatus(map, v) \in {"available", "in_progress"}
    BY <1>3, <1>5 DEF UnitStatus
<1> QED BY <1>4, <1>6

(* In an open unit the lessons are opened in order.                        *)
LEMMA OpenInOrder ==
    ASSUME NEW map, NEW u \in Units, UnitStatus(map, u) # "locked",
           NEW l \in Counted(u) \ Completed(map, u)
    PROVE  /\ (\A k \in Counted(u) \ Completed(map, u) : l <= k) => ShownStatus(map, u, l) # "locked"
           /\ ShownStatus(map, u, l) = "available" =>
                  \A k \in Counted(u) \ Completed(map, u) : l <= k
<1>1. ~Curriculum[u][l].concept /\ Counted(u) \subseteq Nat
    BY CountedFinite DEF Counted
<1>2. ShownStatus(map, u, l) =
          IF RawStatus(map, u, l) \in ProgressStatuses THEN RawStatus(map, u, l)
          ELSE IF {k \in Counted(u) : k < l} \subseteq Completed(map, u) THEN "available"
          ELSE "locked"
    BY <1>1 DEF ShownStatus
<1>3. "locked" \notin ProgressStatuses /\ "available" \notin ProgressStatuses
    BY DEF ProgressStatuses, CompletedStatuses
<1>4. {k \in Counted(u) : k < l} \subseteq Completed(map, u) <=>
          \A k \in Counted(u) \ Completed(map, u) : l <= k
    BY <1>1
<1> QED BY <1>2, <1>3, <1>4

(* Whatever the rows hold, a learner who is not through has a lesson to go *)
(* to: the first open unit behind a locked one is unfinished, and an open  *)
(* unit opens its lessons in order (_unit_status,                          *)
(* _display_gated_lessons).                                                *)
THEOREM SpecALessonIsOpen == Spec => []ALessonIsOpen
<1>1. ALessonIsOpen
    BY FirstUnfinishedUnit, OpenInOrder DEF ALessonIsOpen
<1> QED BY <1>1, PTL
--------------------------------------------------------------------------------
(* The study plan.                                                         *)

LEMMA ScaleKeepsOrder ==
    ASSUME NEW x \in Int, NEW y \in Int, NEW k \in Nat, k > 0
    PROVE  x < y <=> x * k < y * k
<1>1. ASSUME NEW a \in Int, NEW b \in Int, a < b PROVE a * k < b * k
    BY <1>1
<1>2. ASSUME NEW a \in Int, NEW b \in Int, a <= b PROVE a * k <= b * k
    BY <1>2
<1> QED BY <1>1, <1>2

LEMMA CrosswiseTransitive ==
    ASSUME NEW a \in Int, NEW b \in Int, NEW c \in Int,
           NEW p \in Nat, NEW q \in Nat, NEW r \in Nat, p > 0, q > 0, r > 0,
           a * q < b * p, b * r < c * q
    PROVE  a * r < c * p
<1>1. (a * q) * r < (b * p) * r
    BY ScaleKeepsOrder
<1>2. (b * r) * p < (c * q) * p
    BY ScaleKeepsOrder
<1>3. (a * q) * r = (a * r) * q /\ (c * q) * p = (c * p) * q /\ (b * p) * r = (b * r) * p
    OBVIOUS
<1>4. (a * r) * q < (c * p) * q
    BY <1>1, <1>2, <1>3
<1>5. a * r \in Int /\ c * p \in Int
    OBVIOUS
<1> QED BY <1>4, <1>5, ScaleKeepsOrder

LEMMA CubeType == ASSUME NEW n \in Nat PROVE Cube(n) \in Nat
<1> QED BY DEF Cube

LEMMA RetainedType ==
    ASSUME TypeOK, NEW kc \in Touched
    PROVE  /\ RetainedCubed(kc).cube \in Int /\ RetainedCubed(kc).halvings \in Nat
           /\ 2 ^ RetainedCubed(kc).halvings \in Nat /\ 2 ^ RetainedCubed(kc).halvings > 0
<1>1. rows[kc].percent \in Nat /\ rows[kc].practised \in Nat /\ rows[kc].practised <= today
      /\ today \in Nat
    <2>1. rows[kc] \in Row
        BY DEF TypeOK
    <2>2. rows[kc].percent \in Nat /\ rows[kc].practised \in Nat
        <3>1. rows[kc].percent \in Percents /\ rows[kc].practised \in 0..MaxDays
            BY <2>1 DEF Row
        <3>2. Percents \subseteq Nat /\ 0..MaxDays \subseteq Nat
            BY CourseAssumption
        <3> QED BY <3>1, <3>2
    <2>3. rows[kc].practised <= today /\ today \in Nat
        BY CourseAssumption DEF TypeOK
    <2> QED BY <2>2, <2>3
<1>2. RetainedCubed(kc).cube \in Int /\ RetainedCubed(kc).halvings \in Nat
    BY <1>1, CubeType DEF RetainedCubed
<1> QED BY <1>2, PowerOfTwo

(* Some review that is due has decayed the most: fading is a strict order. *)
LEMMA MostDecayedFound ==
    ASSUME TypeOK, NEW due, due \subseteq Touched, due # {}
    PROVE  MostDecayed(due) \in due
<1> DEFINE R == {p \in due \X due : Below(RetainedCubed(p[1]), RetainedCubed(p[2]))}
<1>1. IsFiniteSet(due)
    BY SkillsFinite, FS_Subset DEF TypeOK
<1>2. \A x \in due : <<x, x>> \notin R
    BY RetainedType DEF Below
<1>3. ASSUME NEW x \in due, NEW y \in due, NEW z \in due, <<x, y>> \in R, <<y, z>> \in R
      PROVE  <<x, z>> \in R
    <2>1. Below(RetainedCubed(x), RetainedCubed(y)) /\ Below(RetainedCubed(y), RetainedCubed(z))
        BY <1>3
    <2>2. Below(RetainedCubed(x), RetainedCubed(z))
        <3> DEFINE a == RetainedCubed(x) b == RetainedCubed(y) c == RetainedCubed(z)
        <3>1. /\ a.cube \in Int /\ b.cube \in Int /\ c.cube \in Int
              /\ 2 ^ a.halvings \in Nat /\ 2 ^ b.halvings \in Nat /\ 2 ^ c.halvings \in Nat
              /\ 2 ^ a.halvings > 0 /\ 2 ^ b.halvings > 0 /\ 2 ^ c.halvings > 0
            BY RetainedType
        <3>2. a.cube * 2 ^ b.halvings < b.cube * 2 ^ a.halvings
              /\ b.cube * 2 ^ c.halvings < c.cube * 2 ^ b.halvings
            BY <2>1 DEF Below
        <3> HIDE DEF a, b, c
        <3>3. a.cube * 2 ^ c.halvings < c.cube * 2 ^ a.halvings
            BY <3>1, <3>2, CrosswiseTransitive
        <3> QED BY <3>3 DEF Below, a, c
    <2> QED BY <2>2
<1>4. PICK x \in due : \A y \in due : <<y, x>> \notin R
    <2> HIDE DEF R
    <2> QED BY <1>1, <1>2, <1>3, MinimalElement
<1>5. \E s \in due : \A y \in due : ~Below(RetainedCubed(y), RetainedCubed(s))
    BY <1>4
<1> QED BY <1>5 DEF MostDecayed

LEMMA FirstOnSpineFound ==
    ASSUME NEW kcs \in SUBSET LiveKCs, kcs # {}
    PROVE  /\ FirstOnSpine(kcs) \in DOMAIN SpineOrder /\ SpineOrder[FirstOnSpine(kcs)] \in kcs
           /\ \A i \in 1..(FirstOnSpine(kcs) - 1) : SpineOrder[i] \notin kcs
<1> DEFINE places == {i \in 1..Len(SpineOrder) : SpineOrder[i] \in kcs}
<1>1. places \in SUBSET Nat /\ places # {}
    BY CatalogTypes DEF LiveKCs, ToSet
<1>2. PICK n \in places : \A m \in places : n <= m
    BY <1>1, LeastNatural
<1>3. FirstOnSpine(kcs) = CHOOSE i \in places : \A j \in places : i <= j
    BY <1>1 DEF FirstOnSpine, SelectInSeq, Min
<1>4. /\ FirstOnSpine(kcs) \in places
      /\ \A j \in places : FirstOnSpine(kcs) <= j
    BY <1>2, <1>3
<1> QED BY <1>4, CatalogTypes

(* Of the skills not yet confirmed the first in the teaching order is      *)
(* unlocked: its prerequisites come before it.                             *)
LEMMA SomethingIsUnlocked == Unlocked = {} => Confirmed \cap LiveKCs = LiveKCs
<1> SUFFICES ASSUME Unlocked = {}, LiveKCs \ Confirmed # {} PROVE FALSE
    OBVIOUS
<1> DEFINE missing == LiveKCs \ Confirmed
           i == FirstOnSpine(missing)
           kc == SpineOrder[i]
<1>1. i \in DOMAIN SpineOrder /\ kc \in missing
      /\ \A j \in 1..(i - 1) : SpineOrder[j] \notin missing
    BY FirstOnSpineFound
<1>2. ASSUME NEW earlier \in KCPrerequisites[kc]
      PROVE  earlier \in Touched /\ rows[earlier].confirmed
    <2>1. PICK j \in 1..(i - 1) : SpineOrder[j] = earlier
        BY <1>1, CatalogAssumption
    <2>2. earlier \in LiveKCs
        <3> HIDE DEF i, kc
        <3>1. j \in DOMAIN SpineOrder
            BY <1>1, CatalogTypes
        <3> QED BY <2>1, <3>1 DEF LiveKCs, ToSet
    <2>3. earlier \in Confirmed
        BY <1>1, <2>1, <2>2
    <2> QED BY <2>3 DEF Confirmed
<1>3. kc \in Unlocked
    BY <1>1, <1>2 DEF Unlocked
<1> QED BY <1>3

LEMMA PlanAgrees == TypeOK => PlanFollowsMap
<1> SUFFICES ASSUME TypeOK PROVE PlanFollowsMap
    OBVIOUS
<1>1. DueReviews \subseteq Confirmed /\ Confirmed \subseteq Touched /\ Touched \subseteq LiveKCs
    BY DEF DueReviews, IsDueForReview, Confirmed, TypeOK
<1>2. /\ CourseMap.due_review = DueReviews /\ CourseMap.mastered = Confirmed \ DueReviews
      /\ CourseMap.in_progress = Touched \ Confirmed
      /\ CourseMap.available = Unlocked \ Touched
    BY DEF CourseMap
<1>3. CASE DueReviews # {}
    <2>1. Recommended = MostDecayed(DueReviews)
        BY <1>3 DEF Recommended
    <2>2. Recommended \in DueReviews
        BY <1>1, <1>3, <2>1, MostDecayedFound
    <2>3. Recommended # NoKC
        BY <1>1, <2>2, CatalogAssumption
    <2> QED BY <1>2, <1>3, <2>2, <2>3 DEF PlanFollowsMap
<1>4. CASE DueReviews = {} /\ Unlocked # {}
    <2>1. Recommended = SpineOrder[FirstOnSpine(Unlocked)]
        BY <1>4 DEF Recommended
    <2>2. Unlocked \subseteq LiveKCs \ Confirmed
        BY DEF Unlocked
    <2>3. Recommended \in Unlocked
        BY <1>4, <2>1, <2>2, FirstOnSpineFound
    <2>4. Recommended # NoKC
        BY <2>2, <2>3, CatalogAssumption
    <2>5. Recommended \in CourseMap.in_progress \cup CourseMap.available
        BY <1>2, <2>2, <2>3
    <2> QED BY <1>2, <1>4, <2>4, <2>5 DEF PlanFollowsMap
<1>5. CASE DueReviews = {} /\ Unlocked = {}
    <2>1. Recommended = NoKC
        BY <1>5 DEF Recommended
    <2>2. CourseMap.mastered = LiveKCs
        BY <1>1, <1>2, <1>5, SomethingIsUnlocked
    <2> QED BY <2>1, <2>2 DEF PlanFollowsMap
<1> QED BY <1>3, <1>4, <1>5

(* Whatever was confirmed in whatever order, the plan recommends a review  *)
(* the map shows as due or a skill it shows as open, and nothing only to a *)
(* learner who holds every skill fresh (plan_study, build_course_map).     *)
THEOREM SpecPlanFollowsMap == Spec => []PlanFollowsMap
<1> QED BY SpecTypeOK, PlanAgrees, PTL
================================================================================
