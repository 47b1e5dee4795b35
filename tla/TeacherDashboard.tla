--------------------------- MODULE TeacherDashboard ----------------------------
(***************************************************************************)
(* What a teacher reads of one student (teacher/*.py,                      *)
(* api/teacher_service.py): the alerts that the student's answers raise,   *)
(* the bucket of the roster the student falls in, the unit and the lesson  *)
(* the student is at, and the unit a teacher assigned.  The evidence is    *)
(* the student's turns, oldest first, and the rows of CourseProgress; an   *)
(* answer writes both in one transaction.  A request for a hint is stored  *)
(* as a turn too, one that is not right and of the category "none".        *)
(***************************************************************************)
EXTENDS CourseProgress

CONSTANTS Facts,           \* the turns there may be: right, with a hint, category
          Histories,       \* the turns the student may come with
          Studied,         \* the skills the student works on
          Teachers,
          Roster,          \* the teachers who have the student in their class
          AssignedUnits,   \* the units a teacher may assign
          MaxAssignments   \* bound on the assignments of a behaviour

NoCategory == "NULL"      \* the column of a right answer
HintRequested == "none"   \* ErrorType.NONE, which a wrong answer never has
IsHintRequest(fact) == fact.category = HintRequested

ASSUME TeacherAssumption ==
    /\ Facts \subseteq [correct : BOOLEAN, category : STRING, hint : BOOLEAN]
    /\ \A fact \in Facts : fact.correct <=> fact.category = NoCategory
    /\ Histories \subseteq Seq(Facts)
    /\ Studied \subseteq LiveKCs
    /\ Roster \subseteq Teachers
    /\ AssignedUnits \subseteq Units
    /\ MaxAssignments \in Nat

VARIABLES turns,      \* the student's turns
          assigned,   \* unit -> when it was last assigned, 0 if it never was
          latest      \* history: the unit last assigned, 0 at first

dashboardVars == <<rows, today, answers, turns, assigned, latest>>

Recent(facts, n) == SubSeq(facts, IF Len(facts) > n THEN Len(facts) - n + 1 ELSE 1, Len(facts))
Count(facts, Test(_)) == Cardinality({i \in DOMAIN facts : Test(facts[i])})
FirstHalf(facts) == SubSeq(facts, 1, Len(facts) \div 2)
SecondHalf(facts) == SubSeq(facts, Len(facts) \div 2 + 1, Len(facts))
Right(fact) == fact.correct
Unaided(fact) == fact.correct /\ ~fact.hint
--------------------------------------------------------------------------------
(* The alerts that put a student in a bucket (teacher/alerts.py).  The one *)
(* for a student who is idle does not.  Rates are compared crosswise.      *)
RecentN == 8
\* FAULTY: one turn among the last three that is not right is enough.
IsStuckOnAny(facts) == LET tail == Recent(facts, 3)
                IN  Len(tail) >= 3 /\ \E i \in DOMAIN tail : ~tail[i].correct
IsStuck(facts) == LET tail == Recent(facts, 3)
           IN  Len(tail) >= 3 /\ \A i \in DOMAIN tail : ~tail[i].correct

\* FAULTY: a window one turn too long.
RepeatedMisconceptionLong(facts) ==
    LET recent == Recent(facts, RecentN + 1)
    IN  \E category \in {recent[i].category : i \in DOMAIN recent} \ {NoCategory} :
           Count(recent, LAMBDA fact : fact.category = category) >= 3

\* The category of a hint request counts like any other.
RepeatedMisconception(facts) ==
    LET recent == Recent(facts, RecentN)
    IN  \E category \in {recent[i].category : i \in DOMAIN recent} \ {NoCategory} :
           Count(recent, LAMBDA fact : fact.category = category) >= 3

FailingTrend(facts) ==
    LET recent == Recent(facts, RecentN)
        before == Len(FirstHalf(recent))
        after == Len(SecondHalf(recent))
        drop == Count(FirstHalf(recent), Right) * after - Count(SecondHalf(recent), Right) * before
    IN  /\ Len(recent) >= 6
        /\ 4 * drop >= before * after
        /\ 5 * Count(SecondHalf(recent), Right) < 3 * after

LowEngagement(facts) == Len(facts) \in 1..2

HintDependent(facts) ==
    /\ Count(facts, Right) >= 4
    /\ 100 * Count(facts, Unaided) <= 15 * Count(facts, Right)

Urgent(facts) == {kind \in {"stuck", "repeated_misconception"} :
                     \/ kind = "stuck" /\ IsStuck(facts)
                     \/ kind = "repeated_misconception" /\ RepeatedMisconception(facts)}
Warnings(facts) == {kind \in {"failing_trend", "low_engagement", "hint_dependent"} :
                       \/ kind = "failing_trend" /\ FailingTrend(facts)
                       \/ kind = "low_engagement" /\ LowEngagement(facts)
                       \/ kind = "hint_dependent" /\ HintDependent(facts)}
--------------------------------------------------------------------------------
(* The roster row (teacher/ranking.py, overview.py) and the trend of the   *)
(* drill-in (teacher/struggle.py).                                         *)
Weaknesses == {kc \in Touched : ~rows[kc].confirmed /\ rows[kc].percent < 50}

StudentCategory ==
    IF Urgent(turns) # {} THEN "struggling"
    ELSE IF Warnings(turns) # {} \/ Weaknesses # {} THEN "needs_attention"
    ELSE "on_track"

\* FAULTY: the halves of the window are swapped.
HelpNeedTrendSwapped(facts) ==
    LET recent == Recent(facts, RecentN)
        NeedsHelp(fact) == ~Unaided(fact)
        before == Len(FirstHalf(recent))
        after == Len(SecondHalf(recent))
        rise == Count(FirstHalf(recent), NeedsHelp) * after
                  - Count(SecondHalf(recent), NeedsHelp) * before
    IN  CASE Len(recent) < 4 -> "none"
          [] Len(recent) >= 4 /\ 100 * rise >= 15 * before * after -> "rising"
          [] Len(recent) >= 4 /\ -(100 * rise) >= 15 * before * after -> "falling"
          [] OTHER -> "steady"

HelpNeedTrend(facts) ==
    LET recent == Recent(facts, RecentN)
        NeedsHelp(fact) == ~Unaided(fact)
        before == Len(FirstHalf(recent))
        after == Len(SecondHalf(recent))
        rise == Count(SecondHalf(recent), NeedsHelp) * before
                  - Count(FirstHalf(recent), NeedsHelp) * after
    IN  CASE Len(recent) < 4 -> "none"
          [] Len(recent) >= 4 /\ 100 * rise >= 15 * before * after -> "rising"
          [] Len(recent) >= 4 /\ -(100 * rise) >= 15 * before * after -> "falling"
          [] OTHER -> "steady"

NoUnit == 0
NoLesson == 0
MinOr(numbers, none) == IF numbers = {} THEN none ELSE Min(numbers)

CurrentUnit(map) ==
    LET FirstThatIs(status) == MinOr({u \in Units : UnitStatus(map, u) = status}, NoUnit)
        working == FirstThatIs("in_progress")
    IN  IF working # NoUnit THEN working ELSE FirstThatIs("available")

\* FAULTY: a lesson in progress is taken for one that is done.
CurrentLessonPastCurrent(map, u) ==
    MinOr({l \in Lessons(u) : ShownStatus(map, u, l) \notin ProgressStatuses}, NoLesson)

CurrentLesson(map, u) ==
    MinOr({l \in Lessons(u) : ShownStatus(map, u, l) \notin CompletedStatuses}, NoLesson)

GivenUnits == {u \in AssignedUnits : assigned[u] > 0}
AssignedUnit == IF GivenUnits = {} THEN NoUnit
                ELSE CHOOSE u \in GivenUnits : \A v \in GivenUnits : assigned[v] <= assigned[u]
--------------------------------------------------------------------------------
Stamps == {assigned[u] : u \in AssignedUnits}
LastStamp == CHOOSE n \in Stamps : \A m \in Stamps : m <= n

DashboardInit ==
    /\ Init
    /\ turns \in Histories
    /\ assigned = [u \in AssignedUnits |-> 0]
    /\ latest = NoUnit

\* The answer, its row and nothing else are committed together.  Only a right
\* answer confirms a skill.
StudentAnswers ==
    /\ answers < MaxAnswers
    /\ \E kc \in Studied, fact \in Facts, percent \in Percents :
          \E confirmed \in HeldFlags(kc, percent) :
             /\ ~IsHintRequest(fact)
             /\ confirmed => kc \in Confirmed \/ fact.correct
             /\ Answered(kc, percent, confirmed)
             /\ turns' = Append(turns, fact)
    /\ answers' = answers + 1
    /\ UNCHANGED <<today, assigned, latest>>

\* The turn is stored like an answer; no answer was observed, so that its
\* roll-up finds the rows as the last answer left them.
StudentAsksHint ==
    /\ answers < MaxAnswers
    /\ \E fact \in Facts : IsHintRequest(fact) /\ turns' = Append(turns, fact)
    /\ answers' = answers + 1
    /\ UNCHANGED <<rows, today, assigned, latest>>

\* FAULTY: a unit assigned before keeps its old stamp.
StampedAssignmentOnce(u) == [assigned EXCEPT ![u] = IF @ > 0 THEN @ ELSE LastStamp + 1]

\* assign_unit stamps the one row of the student and the unit, new or old.
StampedAssignment(u) == [assigned EXCEPT ![u] = LastStamp + 1]

AssignUnit(teacher, u) ==
    /\ teacher \in Roster
    /\ LastStamp < MaxAssignments
    /\ assigned' = StampedAssignment(u)
    /\ latest' = u
    /\ UNCHANGED <<rows, today, answers, turns>>

StudentRests == DayPasses /\ UNCHANGED <<turns, assigned, latest>>

DashboardNext ==
    \/ StudentAnswers
    \/ StudentAsksHint
    \/ \E teacher \in Teachers, u \in AssignedUnits : AssignUnit(teacher, u)
    \/ StudentRests

DashboardSpec == DashboardInit /\ [][DashboardNext]_dashboardVars
--------------------------------------------------------------------------------
\* A right answer without a hint never puts a student into the struggling
\* bucket: the window moves on, and what it gains is no evidence of struggle
\* (_is_stuck, _repeated_misconception, classify_student).
RightAnswerRaisesNoAlarm ==
    [][\A after \in {turns'} :
          Len(after) > Len(turns) /\ Unaided(after[Len(after)]) /\ Urgent(turns) = {}
              => Urgent(after) = {}]_dashboardVars

\* The alarm wears off: whatever came before, a student with six right answers
\* among the last eight turns is not in the struggling bucket.  Each hint asked
\* for is one of the eight (_RECENT_N, _REPEAT_MIN, _STUCK_RUN).
AlarmWearsOff ==
    Count(Recent(turns, RecentN), Right) >= 6 => StudentCategory # "struggling"

\* The two readings of one window do not contradict each other for a student
\* who takes no hints: where the roster reports a falling accuracy, the
\* drill-in reports a rising need of help (_failing_trend, helpneed_trend).
TrendsAgree ==
    LET recent == Recent(turns, RecentN)
    IN  FailingTrend(turns) /\ (\A i \in DOMAIN recent : ~recent[i].hint)
            => HelpNeedTrend(turns) = "rising"

\* A student who is at a unit is at one of its lessons, and that lesson is
\* open on the student's own page (current_unit_and_lesson with
\* _display_gated_lessons).
CurrentLessonIsOpen ==
    LET map == CourseMap
        u == CurrentUnit(map)
        l == CurrentLesson(map, u)
    IN  u # NoUnit => l # NoLesson /\ ShownStatus(map, u, l) # "locked"

\* What the student is shown as assigned is what a teacher assigned last, new
\* or assigned before (assign_unit, get_assigned_unit).
LatestIsShown == AssignedUnit = latest
================================================================================
