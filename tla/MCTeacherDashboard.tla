-------------------------- MODULE MCTeacherDashboard ---------------------------
(***************************************************************************)
(* One student of two teachers, who comes with no turns or with a run of   *)
(* four alike, answers or hints asked for, so that a few more move the     *)
(* window of eight past them; or with four wrong ones or hints and a right *)
(* one, to have six right ones among the last eight.                       *)
(***************************************************************************)
EXTENDS TeacherDashboard, CourseCatalog

MCCurriculum == CURRICULUM
MCSpineOrder == SPINE_ORDER
MCKCPrerequisites == KC_PREREQUISITES

MCPercents == {40, 95}
Fact(category, hint) == [correct |-> category = NoCategory, category |-> category, hint |-> hint]
\* Of a turn that is not right the hint flag tells nothing apart but TrendsAgree.
MCFacts == {Fact(NoCategory, FALSE), Fact(NoCategory, TRUE),
            Fact("magnitude", FALSE), Fact("operation", FALSE),
            Fact(HintRequested, FALSE)}
FourTimes(fact) == [i \in 1..4 |-> fact]
\* The two categories are alike, so that one of them suffices.
MCHistories ==
    {<<>>} \cup {FourTimes(fact) : fact \in MCFacts \ {Fact("operation", FALSE)}}
           \cup {Append(FourTimes(Fact(category, FALSE)), Fact(NoCategory, FALSE)) :
                    category \in {"magnitude", HintRequested}}

MCStudied == {"ratio_language"}
RestOfFirstUnit == {Curriculum[1][l].kc : l \in 2..6}
MCBackgrounds == {RestOfFirstUnit}
MCTeachers == {"teacher", "colleague", "stranger"}
MCRoster == {"teacher", "colleague"}
MCAssignedUnits == {1, 2}

\* Explored apart: assignments before the first answer, days between the first
\* turns, and long runs of turns within one day, by a student sure of the skill.
Explored == /\ answers = 0 \/ latest = NoUnit
            /\ today = 0 \/ answers <= 2
            /\ answers <= 2 \/ \A kc \in Studied \cap Touched : rows[kc].percent = 95
================================================================================
