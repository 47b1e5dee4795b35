------------------------ MODULE TeacherDashboard_proof -------------------------
(***************************************************************************)
(* What a teacher reads, for every history of turns, every curriculum      *)
(* and every class.                                                        *)
(***************************************************************************)
EXTENDS TeacherDashboard, CourseProgress_proof, SequenceTheorems
--------------------------------------------------------------------------------
(* The unit assigned last.  The row stamped last is ahead of all others.   *)

LatestInv ==
    \/ latest = NoUnit /\ \A u \in AssignedUnits : assigned[u] = 0
    \/ /\ latest \in AssignedUnits /\ assigned[latest] > 0
       /\ \A u \in AssignedUnits \ {latest} : assigned[u] < assigned[latest]

DashboardInv ==
    /\ turns \in Seq(Facts)
    /\ assigned \in [AssignedUnits -> Nat]
    /\ LatestInv

LEMMA DashboardInitInv == DashboardInit => DashboardInv
<1> QED BY TeacherAssumption DEF DashboardInit, DashboardInv, LatestInv

LEMMA LastStampIsLast ==
    ASSUME DashboardInv, AssignedUnits # {}
    PROVE  LastStamp \in Nat /\ \A u \in AssignedUnits : assigned[u] <= LastStamp
<1>1. \A u \in AssignedUnits : assigned[u] \in Nat
    BY DEF DashboardInv
<1>2. \E n \in Stamps : \A m \in Stamps : m <= n
    <2>1. CASE latest = NoUnit /\ \A u \in AssignedUnits : assigned[u] = 0
        BY <2>1 DEF Stamps
    <2>2. CASE /\ latest \in AssignedUnits /\ assigned[latest] > 0
               /\ \A u \in AssignedUnits \ {latest} : assigned[u] < assigned[latest]
        <3>1. assigned[latest] \in Stamps
            BY <2>2 DEF Stamps
        <3>2. \A u \in AssignedUnits : assigned[u] <= assigned[latest]
            BY <1>1, <2>2
        <3> QED BY <3>1, <3>2 DEF Stamps
    <2> QED BY <2>1, <2>2 DEF DashboardInv, LatestInv
<1>3. LastStamp \in Stamps /\ \A m \in Stamps : m <= LastStamp
    BY <1>2 DEF LastStamp
<1> QED BY <1>1, <1>3 DEF Stamps

LEMMA AssignKeepsInv ==
    ASSUME DashboardInv, NEW teacher \in Teachers, NEW u \in AssignedUnits, AssignUnit(teacher, u)
    PROVE  DashboardInv'
<1>1. LastStamp \in Nat /\ \A v \in AssignedUnits : assigned[v] <= LastStamp
    BY LastStampIsLast
<1>2. /\ assigned' = [assigned EXCEPT ![u] = LastStamp + 1] /\ latest' = u /\ turns' = turns
    BY DEF AssignUnit, StampedAssignment
<1>3. /\ assigned' \in [AssignedUnits -> Nat] /\ assigned'[u] = LastStamp + 1
      /\ \A v \in AssignedUnits \ {u} : assigned'[v] = assigned[v]
    BY <1>1, <1>2 DEF DashboardInv
<1>4. \A v \in AssignedUnits \ {u} : assigned[v] \in Nat
    BY DEF DashboardInv
<1>5. LatestInv'
    BY <1>1, <1>2, <1>3, <1>4 DEF LatestInv
<1> QED BY <1>2, <1>3, <1>5 DEF DashboardInv

LEMMA DashboardNextInv == DashboardInv /\ [DashboardNext]_dashboardVars => DashboardInv'
<1> SUFFICES ASSUME DashboardInv, [DashboardNext]_dashboardVars PROVE DashboardInv'
    OBVIOUS
<1>1. CASE StudentAnswers \/ StudentAsksHint
    <2>1. PICK fact \in Facts : turns' = Append(turns, fact)
        BY <1>1 DEF StudentAnswers, StudentAsksHint
    <2>2. turns' \in Seq(Facts)
        BY <2>1, AppendProperties DEF DashboardInv
    <2>3. UNCHANGED <<assigned, latest>>
        BY <1>1 DEF StudentAnswers, StudentAsksHint
    <2> QED BY <2>2, <2>3 DEF DashboardInv, LatestInv
<1>2. CASE \E teacher \in Teachers, u \in AssignedUnits : AssignUnit(teacher, u)
    BY <1>2, AssignKeepsInv
<1>3. CASE UNCHANGED <<turns, assigned, latest>>
    BY <1>3 DEF DashboardInv, LatestInv
<1> QED BY <1>1, <1>2, <1>3 DEF DashboardNext, StudentRests, dashboardVars

LEMMA SpecDashboardInv == DashboardSpec => []DashboardInv
<1> QED BY DashboardInitInv, DashboardNextInv, PTL DEF DashboardSpec

LEMMA LatestStampShows == DashboardInv => LatestIsShown
<1> SUFFICES ASSUME DashboardInv PROVE AssignedUnit = latest
    BY DEF LatestIsShown
<1>1. \A u \in AssignedUnits : assigned[u] \in Nat
    BY DEF DashboardInv
<1>2. CASE latest = NoUnit /\ \A u \in AssignedUnits : assigned[u] = 0
    <2>1. GivenUnits = {}
        BY <1>2 DEF GivenUnits
    <2> QED BY <1>2, <2>1 DEF AssignedUnit
<1>3. CASE /\ latest \in AssignedUnits /\ assigned[latest] > 0
           /\ \A u \in AssignedUnits \ {latest} : assigned[u] < assigned[latest]
    <2>1. latest \in GivenUnits
        BY <1>3 DEF GivenUnits
    <2>2. \A v \in GivenUnits : assigned[v] <= assigned[latest]
        BY <1>1, <1>3 DEF GivenUnits
    <2>3. \A u \in GivenUnits : (\A v \in GivenUnits : assigned[v] <= assigned[u]) => u = latest
        BY <1>1, <1>3, <2>1 DEF GivenUnits
    <2> QED BY <2>1, <2>2, <2>3 DEF AssignedUnit
<1> QED BY <1>2, <1>3 DEF DashboardInv, LatestInv

(* The unit a student is shown is the one assigned last, by whichever      *)
(* teacher, new or assigned before (assign_unit, get_assigned_unit).       *)
THEOREM SpecLatestIsShown == DashboardSpec => []LatestIsShown
<1> QED BY SpecDashboardInv, LatestStampShows, PTL
--------------------------------------------------------------------------------
(* The lesson the student is at.                                           *)

LEMMA MinOfNaturals ==
    ASSUME NEW S \in SUBSET Nat, S # {}, NEW none
    PROVE  MinOr(S, none) \in S /\ \A n \in S : MinOr(S, none) <= n
<1>1. \E n \in S : \A m \in S : n <= m
    BY LeastNatural
<1> QED BY <1>1 DEF MinOr, Min

LEMMA CurrentUnitIsOpen ==
    ASSUME NEW map, CurrentUnit(map) # NoUnit
    PROVE  /\ CurrentUnit(map) \in Units
           /\ UnitStatus(map, CurrentUnit(map)) \in {"available", "in_progress"}
<1> DEFINE Having(status) == {u \in Units : UnitStatus(map, u) = status}
<1>1. Having("in_progress") \in SUBSET Nat /\ Having("available") \in SUBSET Nat
    BY CatalogTypes
<1>2. CurrentUnit(map) = IF MinOr(Having("in_progress"), NoUnit) # NoUnit
                         THEN MinOr(Having("in_progress"), NoUnit)
                         ELSE MinOr(Having("available"), NoUnit)
    BY DEF CurrentUnit
<1>3. CurrentUnit(map) \in Having("in_progress") \cup Having("available")
    <2> HIDE DEF Having
    <2>1. Having("in_progress") = {} => MinOr(Having("in_progress"), NoUnit) = NoUnit
        BY DEF MinOr
    <2>2. Having("available") = {} => MinOr(Having("available"), NoUnit) = NoUnit
        BY DEF MinOr
    <2> QED BY <1>1, <1>2, <2>1, <2>2, MinOfNaturals
<1> QED BY <1>3

LEMMA CurrentLessonIsThere ==
    ASSUME NEW map, NEW u \in Units, UnitStatus(map, u) \in {"available", "in_progress"}
    PROVE  CurrentLesson(map, u) # NoLesson /\ ShownStatus(map, u, CurrentLesson(map, u)) # "locked"
<1> DEFINE ahead == {l \in Lessons(u) : ShownStatus(map, u, l) \notin CompletedStatuses}
           l == CurrentLesson(map, u)
<1>1. UnitStatus(map, u) # "locked" /\ ~AllCompleted(map, u)
    BY DEF UnitStatus
<1>2. \A k \in Lessons(u) : Curriculum[u][k].concept => ShownStatus(map, u, k) = "available"
    BY CatalogAssumption DEF ShownStatus, RawStatus, Playable
<1>3. \A k \in Counted(u) : ShownStatus(map, u, k) =
          IF RawStatus(map, u, k) \in ProgressStatuses THEN RawStatus(map, u, k)
          ELSE IF {j \in Counted(u) : j < k} \subseteq Completed(map, u) THEN "available"
          ELSE "locked"
    BY <1>1 DEF ShownStatus, Counted
<1>4. "available" \notin CompletedStatuses /\ "locked" \notin CompletedStatuses
      /\ "locked" \notin ProgressStatuses
    BY DEF CompletedStatuses, ProgressStatuses
<1>5. \A k \in Counted(u) : ShownStatus(map, u, k) \in CompletedStatuses <=> k \in Completed(map, u)
    <2>1. CompletedStatuses \subseteq ProgressStatuses
        BY DEF ProgressStatuses
    <2> QED BY <1>3, <1>4, <2>1 DEF Completed
<1>6. ahead \in SUBSET Nat /\ 0 \notin ahead
    BY CatalogTypes
<1>7. ahead # {}
    <2>1. CASE Counted(u) = {}
        <3>1. PICK k \in Lessons(u) : TRUE
            BY CatalogAssumption
        <3>2. Curriculum[u][k].concept
            BY <2>1 DEF Counted
        <3> QED BY <1>2, <1>4, <3>2
    <2>2. CASE Counted(u) # {}
        <3>1. PICK k \in Counted(u) : k \notin Completed(map, u)
            BY <1>1, <2>2 DEF AllCompleted, Completed
        <3>2. k \in ahead
            BY <1>5, <3>1 DEF Counted
        <3> QED BY <3>2
    <2> QED BY <2>1, <2>2
<1>8. l \in ahead /\ \A k \in ahead : l <= k
    <2>1. l = MinOr(ahead, NoLesson)
        BY DEF CurrentLesson
    <2> HIDE DEF ahead, l
    <2> QED BY <1>6, <1>7, <2>1, MinOfNaturals
<1>9. ShownStatus(map, u, l) # "locked"
    <2>1. CASE Curriculum[u][l].concept
        BY <1>2, <1>8, <2>1
    <2>2. CASE ~Curriculum[u][l].concept
        <3>1. l \in Counted(u)
            BY <1>8, <2>2 DEF Counted
        <3>2. {j \in Counted(u) : j < l} \subseteq Completed(map, u)
            <4> SUFFICES ASSUME NEW j \in Counted(u), j < l PROVE j \in Completed(map, u)
                OBVIOUS
            <4>1. j \notin ahead
                BY <1>6, <1>8, CatalogTypes DEF Counted
            <4> QED BY <1>5, <4>1 DEF Counted
        <3> QED BY <1>3, <1>4, <3>1, <3>2
    <2> QED BY <2>1, <2>2
<1> QED BY <1>6, <1>8, <1>9 DEF NoLesson

(* A student who is at a unit is at one of its lessons, and the student's  *)
(* own page has it open (current_unit_and_lesson, _display_gated_lessons). *)
THEOREM SpecCurrentLessonIsOpen == DashboardSpec => []CurrentLessonIsOpen
<1>1. CurrentLessonIsOpen
    BY CurrentUnitIsOpen, CurrentLessonIsThere DEF CurrentLessonIsOpen
<1> QED BY <1>1, PTL
--------------------------------------------------------------------------------
(* The alarms.  A window is the facts it keeps, and how many it dropped.   *)

Dropped(facts, n) == IF Len(facts) > n THEN Len(facts) - n ELSE 0

LEMMA RecentWindow ==
    ASSUME NEW facts \in Seq(Facts), NEW n \in Nat
    PROVE  /\ Dropped(facts, n) \in Nat
           /\ Recent(facts, n) \in Seq(Facts)
           /\ Len(Recent(facts, n)) = Len(facts) - Dropped(facts, n)
           /\ \A i \in 1..(Len(facts) - Dropped(facts, n)) :
                 Recent(facts, n)[i] = facts[i + Dropped(facts, n)]
<1> DEFINE from == Dropped(facts, n) + 1
<1>1. Len(facts) \in Nat /\ DOMAIN facts = 1..Len(facts)
    OBVIOUS
<1>2. Dropped(facts, n) \in Nat /\ Dropped(facts, n) <= Len(facts)
    BY <1>1 DEF Dropped
<1>3. Recent(facts, n) = SubSeq(facts, from, Len(facts))
    <2>1. from = IF Len(facts) > n THEN Len(facts) - n + 1 ELSE 1
        BY <1>1 DEF Dropped
    <2> QED BY <2>1 DEF Recent
<1>4. \A i \in from..Len(facts) : facts[i] \in Facts
    BY <1>1, <1>2
<1>5. from \in Int /\ Len(facts) \in Int
    BY <1>1, <1>2
<1>6. /\ SubSeq(facts, from, Len(facts)) \in Seq(Facts)
      /\ Len(SubSeq(facts, from, Len(facts))) = IF from <= Len(facts) THEN Len(facts) - from + 1 ELSE 0
      /\ \A i \in 1..(Len(facts) - from + 1) : SubSeq(facts, from, Len(facts))[i] = facts[from + i - 1]
    <2> HIDE DEF from
    <2> QED BY <1>4, <1>5, SubSeqProperties
<1>7. Len(facts) - from + 1 = Len(facts) - Dropped(facts, n)
    BY <1>1, <1>2
<1>8. \A i \in Nat : from + i - 1 = i + Dropped(facts, n)
    BY <1>2
<1>9. \A i \in 1..(Len(facts) - Dropped(facts, n)) :
         Recent(facts, n)[i] = facts[i + Dropped(facts, n)]
    <2> SUFFICES ASSUME NEW i \in 1..(Len(facts) - Dropped(facts, n))
                 PROVE  Recent(facts, n)[i] = facts[i + Dropped(facts, n)]
        OBVIOUS
    <2>1. i \in Nat /\ i \in 1..(Len(facts) - from + 1)
        BY <1>1, <1>2, <1>7
    <2> QED BY <1>3, <1>6, <1>8, <2>1
<1>10. Len(Recent(facts, n)) = Len(facts) - Dropped(facts, n)
    BY <1>1, <1>2, <1>3, <1>6, <1>7
<1> QED BY <1>2, <1>3, <1>6, <1>9, <1>10

(* The facts of a window with a category.                                  *)
Places(facts, category) == {i \in DOMAIN facts : facts[i].category = category}

LEMMA PlacesFinite ==
    ASSUME NEW facts \in Seq(Facts), NEW category
    PROVE  IsFiniteSet(Places(facts, category)) /\ Cardinality(Places(facts, category)) \in Nat
<1>1. IsFiniteSet(1..Len(facts))
    BY FS_Interval
<1>2. Places(facts, category) \in SUBSET (1..Len(facts))
    BY DEF Places
<1> QED BY <1>1, <1>2, FS_Subset, FS_CardinalityType

LEMMA RepeatedIsThree ==
    ASSUME NEW facts
    PROVE  RepeatedMisconception(facts) <=>
               \E category \in {Recent(facts, RecentN)[i].category : i \in DOMAIN Recent(facts, RecentN)} \ {NoCategory} :
                  Cardinality(Places(Recent(facts, RecentN), category)) >= 3
<1> QED BY DEF RepeatedMisconception, Count, Places

(* A right answer at the end of the window clears the alarm for a stuck    *)
(* student.                                                                *)
LEMMA RightIsNotStuck ==
    ASSUME NEW facts \in Seq(Facts), Len(facts) > 0, facts[Len(facts)].correct
    PROVE  ~IsStuck(facts)
<1> SUFFICES ASSUME IsStuck(facts) PROVE FALSE
    OBVIOUS
<1> DEFINE tail == Recent(facts, 3)
           off == Dropped(facts, 3)
<1>1. /\ off \in Nat /\ tail \in Seq(Facts) /\ Len(tail) = Len(facts) - off
      /\ \A i \in 1..(Len(facts) - off) : tail[i] = facts[i + off]
    BY RecentWindow
<1>2. Len(tail) >= 3 /\ \A i \in DOMAIN tail : ~tail[i].correct
    BY DEF IsStuck
<1> HIDE DEF tail, off
<1>3. Len(tail) \in DOMAIN tail /\ Len(tail) \in 1..(Len(facts) - off)
    BY <1>1, <1>2
<1>4. Len(tail) + off = Len(facts)
    BY <1>1
<1> QED BY <1>1, <1>2, <1>3, <1>4

LEMMA IntervalSize ==
    ASSUME NEW n \in Nat PROVE IsFiniteSet(1..n) /\ Cardinality(1..n) = n
<1>1. IsFiniteSet(1..n) /\ Cardinality(1..n) = IF 1 > n THEN 0 ELSE n - 1 + 1
    BY FS_Interval
<1> QED BY <1>1

(* What is not right in a window is the rest of it.                        *)
Rights(facts) == {i \in DOMAIN facts : Right(facts[i])}
Wrongs(facts) == {i \in DOMAIN facts : ~facts[i].correct}

LEMMA WrongsAreTheRest ==
    ASSUME NEW facts \in Seq(Facts)
    PROVE  /\ Cardinality(Rights(facts)) \in 0..Len(facts)
           /\ IsFiniteSet(Wrongs(facts))
           /\ Cardinality(Wrongs(facts)) = Len(facts) - Cardinality(Rights(facts))
<1>1. Len(facts) \in Nat /\ DOMAIN facts = 1..Len(facts)
    OBVIOUS
<1>2. IsFiniteSet(1..Len(facts)) /\ Cardinality(1..Len(facts)) = Len(facts)
    BY <1>1, IntervalSize
<1>3. Rights(facts) \in SUBSET (1..Len(facts)) /\ Wrongs(facts) \in SUBSET (1..Len(facts))
    BY <1>1 DEF Rights, Wrongs
<1>4. /\ IsFiniteSet(Rights(facts)) /\ Cardinality(Rights(facts)) <= Len(facts)
      /\ IsFiniteSet(Wrongs(facts))
    BY <1>2, <1>3, FS_Subset
<1>5. Cardinality(Rights(facts)) \in Nat
    BY <1>4, FS_CardinalityType
<1>6. Wrongs(facts) = (1..Len(facts)) \ Rights(facts)
    BY <1>1 DEF Wrongs, Rights, Right
<1>7. (1..Len(facts)) \cap Rights(facts) = Rights(facts)
    BY <1>3
<1>8. Cardinality((1..Len(facts)) \ Rights(facts)) = Len(facts) - Cardinality(Rights(facts))
    <2> DEFINE all == 1..Len(facts)
               rights == Rights(facts)
    <2>1. IsFiniteSet(all) /\ Cardinality(all) = Len(facts) /\ all \cap rights = rights
        BY <1>2, <1>7
    <2> HIDE DEF all, rights
    <2>2. Cardinality(all \ rights) = Cardinality(all) - Cardinality(all \cap rights)
        BY <2>1, FS_Difference
    <2>3. Cardinality(all \ rights) = Len(facts) - Cardinality(rights)
        BY <2>1, <2>2
    <2> QED BY <2>3 DEF all, rights
<1> DEFINE n == Len(facts)
           k == Cardinality(Rights(facts))
<1>9. n \in Nat /\ k \in Nat /\ k <= n
    BY <1>1, <1>4, <1>5
<1> HIDE DEF n, k
<1>10. k \in 0..n
    BY <1>9
<1> QED BY <1>4, <1>6, <1>8, <1>10 DEF n, k

(* Six right answers leave room for two other turns in the window.         *)
LEMMA SixRightLeaveTwo ==
    ASSUME NEW facts \in Seq(Facts), Count(Recent(facts, RecentN), Right) >= 6
    PROVE  LET recent == Recent(facts, RecentN)
           IN  /\ recent \in Seq(Facts) /\ IsFiniteSet(Wrongs(recent))
               /\ Cardinality(Wrongs(recent)) <= 2
<1> DEFINE recent == Recent(facts, RecentN)
<1>1. recent \in Seq(Facts) /\ Len(recent) = Len(facts) - Dropped(facts, RecentN)
    BY RecentWindow DEF RecentN
<1>2. Len(recent) \in Nat /\ Len(recent) <= 8
    <2>1. Len(facts) - Dropped(facts, RecentN) <= 8
        BY DEF Dropped, RecentN
    <2> QED BY <1>1, <2>1
<1>3. Cardinality(Rights(recent)) >= 6
    BY DEF Count, Rights
<1>4. /\ IsFiniteSet(Wrongs(recent)) /\ Cardinality(Rights(recent)) \in 0..Len(recent)
      /\ Cardinality(Wrongs(recent)) = Len(recent) - Cardinality(Rights(recent))
    BY <1>1, WrongsAreTheRest
<1> DEFINE n == Len(recent)
           k == Cardinality(Rights(recent))
<1>5. n - k <= 2
    <2>1. n \in Nat /\ n <= 8 /\ k \in 0..n /\ k >= 6
        BY <1>2, <1>3, <1>4
    <2> HIDE DEF n, k
    <2> QED BY <2>1
<1> QED BY <1>1, <1>4, <1>5

(* Two are too few for one category three times ...                        *)
LEMMA SixRightIsNotRepeated ==
    ASSUME NEW facts \in Seq(Facts), Count(Recent(facts, RecentN), Right) >= 6
    PROVE  ~RepeatedMisconception(facts)
<1> DEFINE recent == Recent(facts, RecentN)
<1> SUFFICES ASSUME NEW category \in {recent[i].category : i \in DOMAIN recent} \ {NoCategory},
                    Cardinality(Places(recent, category)) >= 3
             PROVE  FALSE
    BY RepeatedIsThree
<1>1. /\ recent \in Seq(Facts) /\ IsFiniteSet(Wrongs(recent))
      /\ Cardinality(Wrongs(recent)) <= 2
    BY SixRightLeaveTwo
<1> HIDE DEF recent
<1>2. Places(recent, category) \in SUBSET Wrongs(recent)
    <2>1. \A i \in DOMAIN recent : recent[i] \in Facts
        BY <1>1
    <2> QED BY <2>1, TeacherAssumption DEF Places, Wrongs
<1>3. Cardinality(Places(recent, category)) <= Cardinality(Wrongs(recent))
    BY <1>1, <1>2, FS_Subset
<1>4. Cardinality(Places(recent, category)) \in Nat /\ Cardinality(Wrongs(recent)) \in Nat
    BY <1>1, PlacesFinite, FS_CardinalityType
<1> QED BY <1>1, <1>3, <1>4

(* ... and too few for a run of three.                                     *)
LEMMA SixRightIsNotStuck ==
    ASSUME NEW facts \in Seq(Facts), Count(Recent(facts, RecentN), Right) >= 6
    PROVE  ~IsStuck(facts)
<1> DEFINE recent == Recent(facts, RecentN)
           tail == Recent(facts, 3)
           off == Dropped(facts, RecentN)
           offTail == Dropped(facts, 3)
<1> SUFFICES ASSUME IsStuck(facts) PROVE FALSE
    OBVIOUS
<1>1. /\ recent \in Seq(Facts) /\ IsFiniteSet(Wrongs(recent))
      /\ Cardinality(Wrongs(recent)) <= 2
    BY SixRightLeaveTwo
<1>2. /\ off \in Nat /\ Len(recent) = Len(facts) - off
      /\ \A i \in 1..(Len(facts) - off) : recent[i] = facts[i + off]
    BY RecentWindow DEF RecentN
<1>3. /\ offTail \in Nat /\ tail \in Seq(Facts) /\ Len(tail) = Len(facts) - offTail
      /\ \A i \in 1..(Len(facts) - offTail) : tail[i] = facts[i + offTail]
    BY RecentWindow
<1>4. Len(tail) >= 3 /\ \A i \in DOMAIN tail : ~tail[i].correct
    BY DEF IsStuck
<1>5. Len(facts) \in Nat
    OBVIOUS
<1>6. Len(tail) = 3 /\ offTail = Len(facts) - 3 /\ Len(facts) >= 3 /\ off <= offTail
    <2>1. Len(facts) - offTail <= 3 /\ off <= offTail
        BY <1>5 DEF Dropped, RecentN
    <2> HIDE DEF tail, off, offTail
    <2> QED BY <1>3, <1>4, <1>5, <2>1
<1> HIDE DEF recent, tail, off, offTail
<1> DEFINE shift == offTail - off
<1>7. shift \in Nat
    BY <1>2, <1>3, <1>6
<1>8. \A i \in 1..3 : i + shift \in Wrongs(recent)
    <2> SUFFICES ASSUME NEW i \in 1..3 PROVE i + shift \in Wrongs(recent)
        OBVIOUS
    <2>1. i \in DOMAIN tail /\ i \in 1..(Len(facts) - offTail)
        BY <1>3, <1>6
    <2>2. ~facts[i + offTail].correct
        BY <1>3, <1>4, <2>1
    <2>3. i + shift \in 1..(Len(facts) - off) /\ (i + shift) + off = i + offTail
        BY <1>2, <1>3, <1>5, <1>6, <2>1
    <2>4. recent[i + shift] = facts[i + offTail]
        BY <1>2, <2>3
    <2>5. i + shift \in DOMAIN recent
        BY <1>1, <1>2, <2>3
    <2> QED BY <2>2, <2>4, <2>5 DEF Wrongs
<1>9. [i \in 1..3 |-> i + shift] \in Injection(1..3, Wrongs(recent))
    <2> HIDE DEF shift
    <2> QED BY <1>7, <1>8 DEF Injection, IsInjective
<1>10. Cardinality(1..3) <= Cardinality(Wrongs(recent))
    BY <1>1, <1>9, FS_Injection
<1>11. Cardinality(1..3) = 3 /\ Cardinality(Wrongs(recent)) \in Nat
    BY <1>1, IntervalSize, FS_CardinalityType
<1> QED BY <1>1, <1>10, <1>11

(* The alarm wears off once six of the last eight turns are right answers, *)
(* whatever came before; a hint asked for is one of the eight              *)
(* (classify_student, _RECENT_N, _REPEAT_MIN, _STUCK_RUN).                 *)
THEOREM SpecAlarmWearsOff == DashboardSpec => []AlarmWearsOff
<1>1. DashboardInv => AlarmWearsOff
    <2> SUFFICES ASSUME DashboardInv, Count(Recent(turns, RecentN), Right) >= 6
                 PROVE  StudentCategory # "struggling"
        BY DEF AlarmWearsOff
    <2>1. turns \in Seq(Facts)
        BY DEF DashboardInv
    <2>2. ~IsStuck(turns) /\ ~RepeatedMisconception(turns)
        BY <2>1, SixRightIsNotStuck, SixRightIsNotRepeated
    <2>3. Urgent(turns) = {}
        BY <2>2 DEF Urgent
    <2> QED BY <2>3 DEF StudentCategory
<1> QED BY SpecDashboardInv, <1>1, PTL

(* A longer history by one right answer: the window moves on by at most    *)
(* one, and what it keeps of a category it had before.                     *)
LEMMA RightAnswerRepeatsNothing ==
    ASSUME NEW facts \in Seq(Facts), NEW fact \in Facts, fact.correct,
           RepeatedMisconception(Append(facts, fact))
    PROVE  RepeatedMisconception(facts)
<1> DEFINE longer == Append(facts, fact)
           was == Recent(facts, RecentN)
           is == Recent(longer, RecentN)
           offWas == Dropped(facts, RecentN)
           offIs == Dropped(longer, RecentN)
           shift == offIs - offWas
<1>1. PICK category \in {is[i].category : i \in DOMAIN is} \ {NoCategory} :
          Cardinality(Places(is, category)) >= 3
    BY RepeatedIsThree
<1>2. /\ longer \in Seq(Facts) /\ Len(longer) = Len(facts) + 1
      /\ \A i \in 1..Len(facts) : longer[i] = facts[i]
      /\ longer[Len(facts) + 1] = fact
    BY AppendProperties
<1>3. /\ offWas \in Nat /\ was \in Seq(Facts) /\ Len(was) = Len(facts) - offWas
      /\ \A i \in 1..(Len(facts) - offWas) : was[i] = facts[i + offWas]
    BY RecentWindow DEF RecentN
<1>4. /\ offIs \in Nat /\ is \in Seq(Facts) /\ Len(is) = Len(longer) - offIs
      /\ \A i \in 1..(Len(longer) - offIs) : is[i] = longer[i + offIs]
    <2> HIDE DEF longer
    <2> QED BY <1>2, RecentWindow DEF RecentN
<1>5. shift \in 0..1
    BY <1>2 DEF Dropped, RecentN
<1>6. Len(facts) \in Nat
    OBVIOUS
<1>7. fact.category = NoCategory
    BY TeacherAssumption
<1> HIDE DEF longer, was, is, offWas, offIs
<1>8. \A i \in Places(is, category) : i \in Nat /\ i + shift \in Places(was, category)
    <2> SUFFICES ASSUME NEW i \in Places(is, category)
                 PROVE  i \in Nat /\ i + shift \in Places(was, category)
        OBVIOUS
    <2>1. i \in 1..(Len(longer) - offIs) /\ longer[i + offIs].category = category
        BY <1>4 DEF Places
    <2>2. i + offIs # Len(facts) + 1
        BY <1>1, <1>2, <1>7, <2>1
    <2>3. i + offIs \in 1..Len(facts) /\ facts[i + offIs].category = category
        <3>1. i \in Nat /\ i >= 1 /\ i + offIs <= Len(facts) + 1
            BY <1>2, <1>4, <1>6, <2>1
        <3>2. i + offIs \in 1..Len(facts)
            BY <1>4, <1>6, <2>2, <3>1
        <3> QED BY <1>2, <2>1, <3>2
    <2>4. i + shift \in 1..(Len(facts) - offWas) /\ (i + shift) + offWas = i + offIs
        BY <1>3, <1>4, <1>5, <1>6, <2>1, <2>3
    <2>5. was[i + shift].category = category
        BY <1>3, <2>3, <2>4
    <2> QED BY <1>3, <2>1, <2>4, <2>5 DEF Places
<1>9. [i \in Places(is, category) |-> i + shift] \in Injection(Places(is, category), Places(was, category))
    <2> HIDE DEF shift
    <2> QED BY <1>5, <1>8 DEF Injection, IsInjective
<1>10. IsFiniteSet(Places(was, category)) /\ Cardinality(Places(was, category)) \in Nat
    BY <1>3, PlacesFinite
<1>11. Cardinality(Places(is, category)) <= Cardinality(Places(was, category))
    BY <1>9, <1>10, FS_Injection
<1>12. Cardinality(Places(is, category)) \in Nat
    BY <1>4, PlacesFinite
<1>13. Cardinality(Places(was, category)) >= 3
    BY <1>1, <1>10, <1>11, <1>12
<1>14. Places(was, category) # {}
    BY <1>10, <1>13, FS_EmptySet
<1>15. category \in {was[i].category : i \in DOMAIN was} \ {NoCategory}
    BY <1>1, <1>14 DEF Places
<1> QED BY <1>13, <1>15, RepeatedIsThree DEF was

(* A right answer without a hint raises no alarm, hints asked for before   *)
(* it included: the window gains no evidence of struggle (_is_stuck,       *)
(* _repeated_misconception).                                               *)
THEOREM SpecRightAnswerRaisesNoAlarm == DashboardSpec => RightAnswerRaisesNoAlarm
<1> DEFINE NoAlarm == Len(turns') > Len(turns) /\ Unaided(turns'[Len(turns')]) /\ Urgent(turns) = {}
                          => Urgent(turns') = {}
<1>1. DashboardInv /\ [DashboardNext]_dashboardVars => NoAlarm
    <2> SUFFICES ASSUME DashboardInv, [DashboardNext]_dashboardVars, Len(turns') > Len(turns),
                        Unaided(turns'[Len(turns')]), Urgent(turns) = {}
                 PROVE  Urgent(turns') = {}
        OBVIOUS
    <2>1. turns \in Seq(Facts) /\ Len(turns) \in Nat
        BY DEF DashboardInv
    <2>2. turns' # turns
        BY <2>1
    <2>3. PICK fact \in Facts : turns' = Append(turns, fact)
        BY <2>2 DEF DashboardNext, StudentAnswers, StudentAsksHint, AssignUnit, StudentRests, dashboardVars
    <2>4. turns' \in Seq(Facts) /\ Len(turns') = Len(turns) + 1 /\ turns'[Len(turns) + 1] = fact
        BY <2>1, <2>3, AppendProperties
    <2>5. fact.correct
        BY <2>4 DEF Unaided
    <2>6. ~IsStuck(turns')
        BY <2>1, <2>4, <2>5, RightIsNotStuck
    <2>7. ~RepeatedMisconception(turns)
        BY DEF Urgent
    <2>8. ~RepeatedMisconception(turns')
        BY <2>1, <2>3, <2>5, <2>7, RightAnswerRepeatsNothing
    <2> QED BY <2>6, <2>8 DEF Urgent
<1>2. NoAlarm <=> \A after \in {turns'} :
          Len(after) > Len(turns) /\ Unaided(after[Len(after)]) /\ Urgent(turns) = {}
              => Urgent(after) = {}
    OBVIOUS
<1> HIDE DEF NoAlarm
<1> QED BY SpecDashboardInv, <1>1, <1>2, PTL DEF DashboardSpec, RightAnswerRaisesNoAlarm
--------------------------------------------------------------------------------
(* The two trends.  Without hints, an answer that needs help is a wrong    *)
(* one, so that the rise of the one count is the drop of the other.        *)

Helped(facts) == {i \in DOMAIN facts : ~Unaided(facts[i])}

LEMMA HelpedAreTheRest ==
    ASSUME NEW facts \in Seq(Facts), \A i \in DOMAIN facts : ~facts[i].hint
    PROVE  /\ Cardinality(Rights(facts)) \in 0..Len(facts)
           /\ Cardinality(Helped(facts)) = Len(facts) - Cardinality(Rights(facts))
<1>1. Helped(facts) = Wrongs(facts)
    BY DEF Helped, Wrongs, Unaided
<1> QED BY <1>1, WrongsAreTheRest

LEMMA HalfOf ==
    ASSUME NEW n \in 6..8
    PROVE  n \div 2 \in 3..4 /\ n - n \div 2 \in 3..4
<1>1. CASE n = 6
    BY <1>1
<1>2. CASE n = 7
    BY <1>2
<1>3. CASE n = 8
    BY <1>3
<1> QED BY <1>1, <1>2, <1>3

LEMMA HalvesOfAWindow ==
    ASSUME NEW facts \in Seq(Facts), Len(facts) \in 6..8, \A i \in DOMAIN facts : ~facts[i].hint
    PROVE  /\ FirstHalf(facts) \in Seq(Facts) /\ SecondHalf(facts) \in Seq(Facts)
           /\ Len(FirstHalf(facts)) = Len(facts) \div 2
           /\ Len(SecondHalf(facts)) = Len(facts) - Len(facts) \div 2
           /\ \A i \in DOMAIN FirstHalf(facts) : ~FirstHalf(facts)[i].hint
           /\ \A i \in DOMAIN SecondHalf(facts) : ~SecondHalf(facts)[i].hint
<1> DEFINE n == Len(facts)
           m == Len(facts) \div 2
<1>1. n \in Nat /\ DOMAIN facts = 1..n /\ \A i \in 1..n : facts[i] \in Facts
    OBVIOUS
<1>2. m \in 3..4 /\ m <= n /\ n - m \in 3..4
    <2>1. m \in 3..4 /\ n - m \in 3..4
        BY HalfOf
    <2> HIDE DEF n, m
    <2> QED BY <1>1, <2>1
<1>3. FirstHalf(facts) = SubSeq(facts, 1, m) /\ SecondHalf(facts) = SubSeq(facts, m + 1, n)
    BY DEF FirstHalf, SecondHalf
<1> HIDE DEF n, m
<1>4. /\ SubSeq(facts, 1, m) \in Seq(Facts) /\ Len(SubSeq(facts, 1, m)) = m
      /\ \A i \in 1..m : SubSeq(facts, 1, m)[i] = facts[i]
    <2>1. /\ SubSeq(facts, 1, m) \in Seq(Facts)
          /\ Len(SubSeq(facts, 1, m)) = IF 1 <= m THEN m - 1 + 1 ELSE 0
          /\ \A i \in 1..(m - 1 + 1) : SubSeq(facts, 1, m)[i] = facts[1 + i - 1]
        BY <1>1, <1>2, SubSeqProperties
    <2> DEFINE s == SubSeq(facts, 1, m)
    <2> HIDE DEF s
    <2>2. Len(s) = m /\ \A i \in 1..m : s[i] = facts[i]
        BY <1>2, <2>1 DEF s
    <2> QED BY <2>1, <2>2 DEF s
<1>5. /\ SubSeq(facts, m + 1, n) \in Seq(Facts) /\ Len(SubSeq(facts, m + 1, n)) = n - m
      /\ \A i \in 1..(n - m) : SubSeq(facts, m + 1, n)[i] = facts[m + i]
    <2>1. /\ SubSeq(facts, m + 1, n) \in Seq(Facts)
          /\ Len(SubSeq(facts, m + 1, n)) = IF m + 1 <= n THEN n - (m + 1) + 1 ELSE 0
          /\ \A i \in 1..(n - (m + 1) + 1) : SubSeq(facts, m + 1, n)[i] = facts[(m + 1) + i - 1]
        BY <1>1, <1>2, SubSeqProperties
    <2> DEFINE s == SubSeq(facts, m + 1, n)
    <2> HIDE DEF s
    <2>2. Len(s) = n - m
        BY <1>1, <1>2, <2>1 DEF s
    <2>3. ASSUME NEW i \in 1..(n - m)
          PROVE  s[i] = facts[m + i]
        <3>1. i \in 1..(n - (m + 1) + 1) /\ (m + 1) + i - 1 = m + i
            BY <1>1, <1>2
        <3> QED BY <2>1, <3>1 DEF s
    <2> QED BY <2>1, <2>2, <2>3 DEF s
<1>6. \A i \in 1..m : ~facts[i].hint
    BY <1>1, <1>2
<1>7. \A i \in 1..(n - m) : ~facts[m + i].hint
    BY <1>1, <1>2
<1>8. DOMAIN FirstHalf(facts) = 1..m /\ DOMAIN SecondHalf(facts) = 1..(n - m)
    <2>1. ASSUME NEW half \in Seq(Facts)
          PROVE  DOMAIN half = 1..Len(half)
        OBVIOUS
    <2>2. DOMAIN FirstHalf(facts) = 1..m
        BY <1>3, <1>4, <2>1
    <2>3. DOMAIN SecondHalf(facts) = 1..(n - m)
        BY <1>3, <1>5, <2>1
    <2> QED BY <2>2, <2>3
<1> QED BY <1>3, <1>4, <1>5, <1>6, <1>7, <1>8 DEF n, m

(* Where the accuracy of a window drops by a quarter, the need of help     *)
(* rises by more than the 15 % the drill-in asks for.                      *)
LEMMA DropIsRise ==
    ASSUME NEW before \in 3..4, NEW after \in 3..4, NEW a \in Int, NEW b \in Int,
           4 * (a * after - b * before) >= before * after
    PROVE  /\ 100 * ((after - b) * before - (before - a) * after) >= 15 * before * after
           /\ ~(-(100 * ((after - b) * before - (before - a) * after)) >= 15 * before * after)
<1>1. CASE before = 3 /\ after = 3
    BY <1>1
<1>2. CASE before = 3 /\ after = 4
    BY <1>2
<1>3. CASE before = 4 /\ after = 3
    BY <1>3
<1>4. CASE before = 4 /\ after = 4
    BY <1>4
<1> QED BY <1>1, <1>2, <1>3, <1>4

(* The two readings of a window agree: for a student who takes no hints a  *)
(* falling accuracy in the roster is a rising need of help in the drill-in *)
(* (_failing_trend, helpneed_trend).                                       *)
THEOREM SpecTrendsAgree == DashboardSpec => []TrendsAgree
<1>1. DashboardInv => TrendsAgree
    <2> DEFINE recent == Recent(turns, RecentN)
    <2> SUFFICES ASSUME DashboardInv, FailingTrend(turns), \A i \in DOMAIN recent : ~recent[i].hint
                 PROVE  HelpNeedTrend(turns) = "rising"
        BY DEF TrendsAgree
    <2> DEFINE first == FirstHalf(recent)
               second == SecondHalf(recent)
               before == Len(first)
               after == Len(second)
               rise == Cardinality(Helped(second)) * before - Cardinality(Helped(first)) * after
    <2>1. turns \in Seq(Facts) /\ Len(turns) \in Nat
        BY DEF DashboardInv
    <2>2. /\ recent \in Seq(Facts) /\ Dropped(turns, RecentN) \in Nat
          /\ Len(recent) = Len(turns) - Dropped(turns, RecentN)
        BY <2>1, RecentWindow DEF RecentN
    <2>3. /\ Len(recent) >= 6
          /\ 4 * (Cardinality(Rights(first)) * after - Cardinality(Rights(second)) * before)
                >= before * after
        BY DEF FailingTrend, Count, Rights
    <2>4. HelpNeedTrend(turns) =
              CASE Len(recent) < 4 -> "none"
                [] Len(recent) >= 4 /\ 100 * rise >= 15 * before * after -> "rising"
                [] Len(recent) >= 4 /\ -(100 * rise) >= 15 * before * after -> "falling"
                [] OTHER -> "steady"
        BY DEF HelpNeedTrend, Count, Helped
    <2>5. Len(recent) \in 6..8
        <3>1. Len(turns) - Dropped(turns, RecentN) <= 8
            BY <2>1 DEF Dropped, RecentN
        <3>2. Len(recent) \in Nat
            BY <2>2
        <3> HIDE DEF recent
        <3> QED BY <2>2, <2>3, <3>1, <3>2
    <2> HIDE DEF recent
    <2>6. /\ first \in Seq(Facts) /\ second \in Seq(Facts)
          /\ before = Len(recent) \div 2 /\ after = Len(recent) - Len(recent) \div 2
          /\ \A i \in DOMAIN first : ~first[i].hint
          /\ \A i \in DOMAIN second : ~second[i].hint
        BY <2>2, <2>5, HalvesOfAWindow
    <2>7. before \in 3..4 /\ after \in 3..4
        BY <2>5, <2>6, HalfOf
    <2> HIDE DEF first, second
    <2>8. /\ Cardinality(Rights(first)) \in Int /\ Cardinality(Rights(second)) \in Int
          /\ Cardinality(Helped(first)) = before - Cardinality(Rights(first))
          /\ Cardinality(Helped(second)) = after - Cardinality(Rights(second))
        <3>1. /\ Cardinality(Rights(first)) \in 0..Len(first)
              /\ Cardinality(Helped(first)) = Len(first) - Cardinality(Rights(first))
            BY <2>6, HelpedAreTheRest
        <3>2. /\ Cardinality(Rights(second)) \in 0..Len(second)
              /\ Cardinality(Helped(second)) = Len(second) - Cardinality(Rights(second))
            BY <2>6, HelpedAreTheRest
        <3> QED BY <3>1, <3>2
    <2>9. 100 * rise >= 15 * before * after /\ ~(-(100 * rise) >= 15 * before * after)
        <3>1. rise = (after - Cardinality(Rights(second))) * before
                       - (before - Cardinality(Rights(first))) * after
            BY <2>8
        <3> HIDE DEF before, after, rise
        <3> QED BY <2>3, <2>7, <2>8, <3>1, DropIsRise
    <2>10. ~(Len(recent) < 4) /\ Len(recent) >= 4
        BY <2>5
    <2> HIDE DEF before, after, rise
    <2> QED BY <2>4, <2>9, <2>10
<1> QED BY SpecDashboardInv, <1>1, PTL
================================================================================
