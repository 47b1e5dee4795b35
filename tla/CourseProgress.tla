---------------------------- MODULE CourseProgress -----------------------------
(***************************************************************************)
(* What a learner's stored mastery rows say of the course: which skills    *)
(* have faded (mastery/retention.py), the course map                       *)
(* (mastery/course_map.py), the study plan (mastery/progression.py) and    *)
(* the units with their lessons (mastery/unit_progress.py).  The pages are *)
(* functions of the rows and of the day; the state is the rows, which an   *)
(* answer writes (db/repositories.py), and the day.                        *)
(***************************************************************************)
EXTENDS Naturals, Sequences, SequencesExt, FiniteSets

CONSTANTS Curriculum,       \* the units in order, each its lessons in order
          SpineOrder,       \* the skills with content, in teaching order
          KCPrerequisites,  \* skill -> the skills to be confirmed before it
          NoKC              \* the skill of a lesson that mixes its unit's

Units == DOMAIN Curriculum
Lessons(u) == DOMAIN Curriculum[u]
LiveKCs == ToSet(SpineOrder)

(* No unit is without a lesson, no concept lesson can be practised, and the *)
(* teaching order is a topological order of the prerequisites.              *)
ASSUME CatalogAssumption ==
    /\ Curriculum \in Seq(Seq([kc : STRING, concept : BOOLEAN]))
    /\ \A u \in Units : Lessons(u) # {}
    /\ \A u \in Units : \A l \in Lessons(u) :
          Curriculum[u][l].concept => Curriculum[u][l].kc \notin LiveKCs
    /\ SpineOrder \in Seq(STRING)
    /\ NoKC \notin LiveKCs
    /\ DOMAIN KCPrerequisites = LiveKCs
    /\ \A i \in DOMAIN SpineOrder : \A earlier \in KCPrerequisites[SpineOrder[i]] :
          \E j \in 1..(i - 1) : SpineOrder[j] = earlier

CONSTANTS Percents,     \* the probabilities an answer may leave, in percent
          MasteryBar,   \* the least that a skill is confirmed at
          Backgrounds,  \* sets of skills a learner may have confirmed before
          MaxAnswers,   \* bound on the answers of a behaviour
          MaxDays       \* bound on its days

ASSUME CourseAssumption ==
    /\ Percents \subseteq 1..99 /\ MasteryBar \in Percents
    /\ Backgrounds \subseteq SUBSET LiveKCs
    /\ MaxAnswers \in Nat /\ MaxDays \in Nat

VARIABLES rows,      \* the stored rows: skill -> what the last answer wrote
          today,     \* the day the pages are read
          answers    \* answers so far

courseVars == <<rows, today, answers>>

Row == [percent : Percents, confirmed : BOOLEAN, practised : 0..MaxDays]
Touched == DOMAIN rows
Confirmed == {kc \in Touched : rows[kc].confirmed}
--------------------------------------------------------------------------------
(* Retention: a probability halves every three days.  Cubed, it halves     *)
(* every day, which keeps the comparisons in the integers.                 *)
Cube(percent) == percent * percent * percent
RetainedCubed(kc) == [cube |-> Cube(rows[kc].percent), halvings |-> today - rows[kc].practised]
Below(a, b) == a.cube * 2 ^ b.halvings < b.cube * 2 ^ a.halvings

ReviewThreshold == [cube |-> Cube(70), halvings |-> 0]
IsDueForReview(kc) == rows[kc].confirmed /\ Below(RetainedCubed(kc), ReviewThreshold)
DueReviews == {kc \in Touched : IsDueForReview(kc)}

\* FAULTY: a skill already confirmed is suggested as new again.
UnlockedAgain == {kc \in LiveKCs : \A earlier \in KCPrerequisites[kc] :
                                      earlier \in Touched /\ rows[earlier].confirmed}
Unlocked == {kc \in LiveKCs \ Confirmed : \A earlier \in KCPrerequisites[kc] :
                                               earlier \in Touched /\ rows[earlier].confirmed}
--------------------------------------------------------------------------------
(* The study plan and the course map.  Of two reviews that have faded      *)
(* alike the name decides: some fixed choice among them.                   *)
MostDecayed(due) ==
    CHOOSE kc \in due : \A other \in due : ~Below(RetainedCubed(other), RetainedCubed(kc))

FirstOnSpine(kcs) == SelectInSeq(SpineOrder, LAMBDA kc : kc \in kcs)

Recommended ==
    LET due == DueReviews
        unlocked == Unlocked
    IN  CASE due # {} -> MostDecayed(due)
          [] due = {} /\ unlocked # {} -> SpineOrder[FirstOnSpine(unlocked)]
          [] OTHER -> NoKC

\* The map sorts the touched and the unlocked skills; the others are locked.
CourseMap == LET due == DueReviews
             IN  [due_review |-> due, mastered |-> Confirmed \ due,
                  in_progress |-> Touched \ Confirmed, available |-> Unlocked \ Touched]

NodeStatus(map, kc) ==
    CASE kc \in map.due_review -> "due_review"
      [] kc \in map.mastered -> "mastered"
      [] kc \in map.in_progress -> "in_progress"
      [] kc \in map.available -> "available"
      [] OTHER -> "locked"
--------------------------------------------------------------------------------
(* Units, read off a map of the course.  The status of a unit counts every *)
(* lesson that is not a concept lesson.                                    *)
\* FAULTY: a lesson due for review no longer counts as completed.
CompletedStatusesFresh == {"mastered"}
CompletedStatuses == {"mastered", "due_review"}
ProgressStatuses == CompletedStatuses \cup {"in_progress"}

\* FAULTY: every lesson that is not a concept lesson is taken to be playable.
PlayableUnlessConcept(u, l) == ~Curriculum[u][l].concept
Playable(u, l) == Curriculum[u][l].kc \in LiveKCs
RawStatus(map, u, l) == IF Playable(u, l) THEN NodeStatus(map, Curriculum[u][l].kc)
                       ELSE "available"

Counted(u) == {l \in Lessons(u) : ~Curriculum[u][l].concept}
Completed(map, u) == {l \in Counted(u) : RawStatus(map, u, l) \in CompletedStatuses}
AllCompleted(map, u) == Counted(u) # {} /\ Completed(map, u) = Counted(u)
Begun(map, u) == \E l \in Counted(u) : RawStatus(map, u, l) \in ProgressStatuses

UnitStatus(map, u) ==
    IF AllCompleted(map, u) THEN "mastered"
    ELSE IF Begun(map, u) THEN "in_progress"
    ELSE IF u = 1 \/ AllCompleted(map, u - 1) THEN "available"
    ELSE "locked"

\* In hundredths of the unit.
PercentComplete(map, u) ==
    IF Counted(u) = {} THEN 0
    ELSE (Cardinality(Completed(map, u)) * 100) \div Cardinality(Counted(u))

\* FAULTY: a lesson in progress does not hold back the ones after it.
ShownStatusPastCurrent(map, u, l) ==
    LET raw == RawStatus(map, u, l)
    IN  IF Curriculum[u][l].concept THEN raw
        ELSE IF UnitStatus(map, u) = "locked" THEN "locked"
        ELSE IF raw \in ProgressStatuses THEN raw
        ELSE IF \A k \in Counted(u) : k < l => RawStatus(map, u, k) \in ProgressStatuses
        THEN "available"
        ELSE "locked"

\* What the page shows of a lesson: an open unit is worked in order.
ShownStatus(map, u, l) ==
    LET raw == RawStatus(map, u, l)
    IN  IF Curriculum[u][l].concept THEN raw
        ELSE IF UnitStatus(map, u) = "locked" THEN "locked"
        ELSE IF raw \in ProgressStatuses THEN raw
        ELSE IF {k \in Counted(u) : k < l} \subseteq Completed(map, u) THEN "available"
        ELSE "locked"
--------------------------------------------------------------------------------
(* What a learner does: the pages offer lessons, an answer in one writes   *)
(* the row of its skill, days go by.                                       *)
Offered ==
    LET map == CourseMap
        OpenLessons(u) == {l \in Lessons(u) : Playable(u, l) /\ ShownStatus(map, u, l) # "locked"}
    IN  (UNION {{Curriculum[u][l].kc : l \in OpenLessons(u)} : u \in Units})
        \cup Unlocked \cup DueReviews

\* The write overwrites the row with what its turn holds, the flag included.
WrittenRow(percent, confirmed) ==
    [percent |-> percent, confirmed |-> confirmed, practised |-> today]

\* Only a probability at the bar confirms a skill.  Of a confirmed skill a turn
\* may hold either flag: one that overlaps the turn that confirmed it rolled up
\* before that, and commits after it.
HeldFlags(kc, percent) ==
    IF kc \in Confirmed \/ percent >= MasteryBar THEN BOOLEAN ELSE {FALSE}

Answered(kc, percent, confirmed) ==
    rows' = [k \in Touched \cup {kc} |->
                IF k = kc THEN WrittenRow(percent, confirmed) ELSE rows[k]]

Init ==
    /\ \E known \in Backgrounds :
          rows = [kc \in known |-> [percent |-> MasteryBar, confirmed |-> TRUE, practised |-> 0]]
    /\ today = 0
    /\ answers = 0

AnswerLesson ==
    /\ answers < MaxAnswers
    /\ \E kc \in Offered, percent \in Percents :
          \E confirmed \in HeldFlags(kc, percent) : Answered(kc, percent, confirmed)
    /\ answers' = answers + 1
    /\ UNCHANGED today

DayPasses ==
    /\ today < MaxDays
    /\ today' = today + 1
    /\ UNCHANGED <<rows, answers>>

Next == AnswerLesson \/ DayPasses
Spec == Init /\ [][Next]_courseVars
--------------------------------------------------------------------------------
\* Rows are written only for skills that have content, the counts stay
\* within their bounds and no row is of a day to come.
TypeOK ==
    /\ Touched \subseteq LiveKCs
    /\ rows \in [Touched -> Row]
    /\ today \in 0..MaxDays
    /\ answers \in 0..MaxAnswers
    /\ \A kc \in Touched : rows[kc].practised <= today

Rank(status) == CHOOSE i \in 1..4 :
                    <<"locked", "available", "in_progress", "mastered">>[i] = status
\* Unless a late write takes a confirmation back, no step takes progress back:
\* neither a lower probability nor the days that pass.  A skill that fades is
\* due for review, and still keeps the units behind it open (_unit_status,
\* _percent_complete; course_map.build_course_map).
ProgressIsKept ==
    [][Confirmed \subseteq Confirmed' =>
          \A before \in {CourseMap}, after \in {CourseMap'}, u \in Units :
             /\ Rank(UnitStatus(after, u)) >= Rank(UnitStatus(before, u))
             /\ PercentComplete(after, u) >= PercentComplete(before, u)]_courseVars

\* The plan and the map, two readings of the same rows, agree: what is
\* recommended is a review the map shows as due or a skill it shows as open,
\* whatever has been confirmed in whatever order, and nothing is recommended
\* only to a learner who holds every skill fresh (plan_study,
\* build_course_map, KC_PREREQUISITES).
PlanFollowsMap ==
    LET map == CourseMap
    IN  IF Recommended = NoKC THEN map.mastered = LiveKCs
        ELSE Recommended \in (IF map.due_review # {} THEN map.due_review
                              ELSE map.in_progress \cup map.available)

\* A learner who has not completed every lesson is never left without one:
\* behind every locked unit some unit is open and unfinished, and an open
\* unit opens its first lesson that is not completed and none after it
\* (_unit_status with _display_gated_lessons).
ALessonIsOpen ==
    LET map == CourseMap
    IN  \A u \in Units :
           LET pending == Counted(u) \ Completed(map, u)
               IsFirst(l) == \A k \in pending : l <= k
           IN  IF UnitStatus(map, u) = "locked"
               THEN \E v \in 1..(u - 1) : UnitStatus(map, v) \in {"available", "in_progress"}
               ELSE \A l \in pending :
                       /\ IsFirst(l) => ShownStatus(map, u, l) # "locked"
                       /\ ShownStatus(map, u, l) = "available" => IsFirst(l)

\* INVARIANT (violated).  A unit is mastered once its playable lessons are all
\* completed: "placeholder/concept lessons don't gate the unit's mastered
\* status" (test_unit_progress.py:420, unit_progress.py:247).
PlayableDoneIsMastered ==
    LET map == CourseMap
    IN  \A u \in Units :
           (\A l \in Counted(u) : Playable(u, l) => l \in Completed(map, u)) =>
               UnitStatus(map, u) = "mastered"
================================================================================
