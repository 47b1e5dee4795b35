--------------------------- MODULE MCCourseProgress ----------------------------
(***************************************************************************)
(* Learners who come with part of the course behind them: the first skills *)
(* of the teaching order, or every skill of the first units.               *)
(***************************************************************************)
EXTENDS CourseProgress, CourseCatalog

MCCurriculum == CURRICULUM
MCSpineOrder == SPINE_ORDER
MCKCPrerequisites == KC_PREREQUISITES

MCPercents == {40, 95}
FirstSkills(n) == {SpineOrder[i] : i \in 1..n}
SkillsOfFirstUnits(n) ==
    UNION {{Curriculum[u][l].kc : l \in Lessons(u)} : u \in 1..n} \cap LiveKCs
MCBackgrounds ==
    {FirstSkills(n) : n \in {0, 44}} \cup {SkillsOfFirstUnits(n) : n \in {1, 2}}
\* One lesson away from the end of the second unit.
MCAlmostThere == {SkillsOfFirstUnits(2) \ {"decimal_operations"}}
================================================================================
