------------------------- MODULE StatisticsProblems -------------------------
(***************************************************************************)
(* The data lessons: summary statistics, displays, categorical data,       *)
(* deviation, center and spread, statistical questions.                    *)
(***************************************************************************)
EXTENDS Problems, FiniteSetsExt, SequencesExt

CONSTANT SampleSizes      \* how many values a drawn data set has

ASSUME SampleAssumption == SampleSizes \subseteq 3..9 /\ SampleSizes # {}

Total(data) == FoldSeq(LAMBDA x, y : x + y, 0, data)
Values(data) == {data[i] : i \in DOMAIN data}
CountOf(data, P(_)) == Cardinality({i \in DOMAIN data : P(data[i])})
(* In order: at place i stands the least value that i of them do not exceed*)
Ascending(data) ==
    [i \in DOMAIN data |-> Min({v \in Values(data) : CountOf(data, LAMBDA x : x <= v) >= i})]
Frequency(data, v) == CountOf(data, LAMBDA x : x = v)

Lists(pool) == UNION {[1..n -> pool] : n \in SampleSizes}

(* Where the order of a listing changes nothing it is left out.            *)
Sorted(pool, sizes) ==
    {data \in UNION {[1..n -> pool] : n \in sizes} :
       \A i \in 1..(Len(data) - 1) : data[i] <= data[i + 1]}

Middle(data) == data[Len(data) \div 2 + 1]

(* The most frequent value stands alone, and is not the only value.        *)
Commonest(data) == {v \in Values(data) : \A w \in Values(data) : Frequency(data, v) >= Frequency(data, w)}
HasClearMode(data) == Cardinality(Values(data)) > 1 /\ Cardinality(Commonest(data)) = 1
ClearMode(data) == CHOOSE v \in Commonest(data) : TRUE

Written(data) == {Whole(v) : v \in Values(data)}
Data(problem, from) == [i \in 1..(Arity(problem) - from + 1) |-> Int1(problem, from + i - 1)]

(* -------------------------- summary statistics ------------------------ *)
StatPool ==
    <<1..6, {2, 4, 6, 8, 10, 12}, {5, 8, 10, 12, 15, 18}, {10, 14, 18, 20, 24, 30}>>
MeanMode == 0
MedianMode == 1
ModeMode == 2
RangeMode == 3

(* A median is asked of an odd list whose middle is another value when it  *)
(* is put in order; a mode must be clear.                                  *)
StatData(mode, pool) ==
    CASE mode = MedianMode ->
           {data \in Lists(pool) : /\ Len(data) % 2 = 1
                                   /\ Middle(data) # Middle(Ascending(data))}
      [] mode = ModeMode -> {data \in Sorted(pool, SampleSizes) : HasClearMode(data)}
      [] OTHER -> Sorted(pool, SampleSizes)

Statistic(mode, data) ==
    CASE mode = MeanMode -> Rational(Total(data), Len(data))
      [] mode = MedianMode -> Whole(Middle(Ascending(data)))
      [] mode = ModeMode -> Whole(ClearMode(data))
      [] mode = RangeMode -> Whole(Max(Values(data)) - Min(Values(data)))

SummaryProblems(format, d) ==
    UNION {{Numeric("summary_statistics", format, Wholes(<<mode>> \o data), Statistic(mode, data)) :
              data \in StatData(mode, StatPool[d])} : mode \in MeanMode..RangeMode}

MedianWithoutOrdering(p) ==
    LET data == Data(p, 2)
    IN  IF Int1(p, 1) = MedianMode /\ Len(data) % 2 = 1 THEN Whole(Middle(data)) ELSE Nothing

SummarySteps(p) ==
    LET mode == Int1(p, 1)
        data == Data(p, 2)
        setup == CASE mode = MeanMode -> {Whole(Len(data))}
                   [] mode = MedianMode -> Written(data)
                   [] OTHER -> {}
    IN  << Says(Written(data)), Says(setup), Reveals({p.answer}, p.answer) >>

(* ------------------------------ displays ------------------------------ *)
DisplayPool == <<1..6, {2, 4, 6, 8, 10, 12}, {3, 6, 9, 12, 15, 18, 21},
                 {5, 10, 15, 20, 25, 30, 35}>>
CountAbove == 0
MostFrequent == 1
BinFrequency == 2
BinWidth == 10

Above(data, t) == {i \in DOMAIN data : data[i] > t}
(* A display shows one value more than a list.                             *)
DisplayData(pool) == Sorted(pool, {n + 1 : n \in SampleSizes})

Bins(data) == {(v \div BinWidth) * BinWidth : v \in Values(data)}

(* Some value above the threshold is repeated.                             *)
Thresholds(data) ==
    {t \in Min(Values(data))..(Max(Values(data)) - 1) :
       Cardinality({data[i] : i \in Above(data, t)}) < Cardinality(Above(data, t))}

DisplayProblems(format, d) ==
    UNION {
      {Numeric("data_displays", format, Wholes(<<CountAbove, t>> \o data),
               Whole(Cardinality(Above(data, t)))) : t \in Thresholds(data)}
      \cup
      {Numeric("data_displays", format, Wholes(<<BinFrequency, low>> \o data),
               Whole(CountOf(data, LAMBDA v : low <= v /\ v <= low + BinWidth - 1))) :
         low \in Bins(data)}
      \cup
      (IF HasClearMode(data)
       THEN {Numeric("data_displays", format, Wholes(<<MostFrequent, 0>> \o data),
                     Whole(ClearMode(data)))}
       ELSE {}) : data \in DisplayData(DisplayPool[d])}

(* Each value counted once, however many dots it has.                      *)
CountDistinctAbove(p) ==
    LET data == Data(p, 3)
    IN  IF Int1(p, 1) # CountAbove THEN Nothing
        ELSE Whole(Cardinality({data[i] : i \in Above(data, Int1(p, 2))}))

DisplaySteps(p) ==
    LET param == Int1(p, 2)
        setup == CASE Int1(p, 1) = CountAbove -> {Whole(param)}
                   [] Int1(p, 1) = MostFrequent -> {}
                   [] OTHER -> {Whole(param), Whole(param + BinWidth - 1)}
    IN  << Says(Written(Data(p, 3))), Says(setup), Reveals({p.answer}, p.answer) >>

(* -------------------------- categorical data -------------------------- *)
CategoryPool == <<2..6, {4, 6, 8, 10, 12}, {8, 10, 12, 15, 18}, {12, 15, 18, 20, 25}>>
Difference == 0
AllCounts == 1
RelativeFrequency == 2

(* Three counts, the largest first.                                        *)
CategoryQuestion(format, mode, c) ==
    Numeric("categorical_data", format, Wholes(<<mode>> \o c),
            CASE mode = Difference -> Whole(c[1] - c[2])
              [] mode = AllCounts -> Whole(Total(c))
              [] mode = RelativeFrequency -> Rational(c[1], Total(c)))

CategoricalProblems(format, d) ==
    {CategoryQuestion(format, mode, c) :
       c \in {c \in [1..3 -> CategoryPool[d]] : c[1] >= c[2] /\ c[2] >= c[3]},
       mode \in Difference..RelativeFrequency}

(* One part over another part, not over the whole.                         *)
PartOverPart(ops) ==
    IF Num(ops[1]) = RelativeFrequency THEN Rational(Num(ops[2]), Num(ops[3])) ELSE Nothing

CategoricalSteps(p) ==
    LET counts == Data(p, 2)
        work == IF Int1(p, 1) = RelativeFrequency THEN {Whole(counts[1]), Whole(Total(counts))}
                                                  ELSE Written(counts)
    IN  << Says(Written(counts)), Says({}), Reveals(work \cup {p.answer}, p.answer) >>

(* ----------------------------- deviation ------------------------------ *)
DeviationPatterns ==
    { <<-1, -1, 1, 1>>, <<-3, -1, 1, 3>>, <<-2, -2, 2, 2>>, <<-4, 0, 0, 4>>, <<-5, -3, 3, 5>>,
      <<-2, -2, -1, 2, 3>>, <<-4, -1, 0, 2, 3>>, <<-3, -1, -1, 2, 3>>, <<-5, -5, 0, 5, 5>>,
      <<-1, -1, -1, 1, 1, 1>>, <<-3, -2, -1, 1, 2, 3>>, <<-2, -2, -2, 2, 2, 2>>,
      <<-5, -4, -3, 3, 4, 5>> }
DeviationMeans == <<{8, 10, 12}, {10, 12, 15}, {12, 15, 18, 20}, {15, 18, 20, 25}>>

Distances(pattern) == [i \in DOMAIN pattern |-> Magnitude(pattern[i])]

(* The order the values are listed in does not matter.                     *)
DeviationProblems(format, d) ==
    {Numeric("mean_absolute_deviation", format,
             Wholes([i \in DOMAIN pattern |-> mean + pattern[i]]),
             Rational(Total(Distances(pattern)), Len(pattern))) :
       pattern \in DeviationPatterns, mean \in DeviationMeans[d]}

MeanOf(ops) == Rational(Total([i \in DOMAIN ops |-> Num(ops[i])]), Len(ops))

(* The signed deviations averaged: they cancel.                            *)
SignedDeviation(ops) ==
    LET shifted == [i \in DOMAIN ops |-> Num(Minus(ops[i], MeanOf(ops)))]
    IN  Rational(Total(shifted), Len(ops))

DeviationSteps(p) ==
    LET mean == MeanOf(p.operands)
        distances == {Whole(Magnitude(Num(Minus(x, mean)))) : x \in Values(p.operands)}
    IN  << Reveals(Values(p.operands) \cup {Whole(Arity(p)), mean}, mean),
           Says({mean} \cup distances),
           Reveals({Whole(Arity(p)), p.answer}, p.answer) >>

(* -------------------------- center and spread ------------------------- *)
CONSTANT SpreadSlack      \* how far past its size a data set's values may go

ASSUME SpreadAssumption == SpreadSlack \in Nat

SpreadSize == <<4, 5, 6, 7>>
SpreadValue == <<9, 12, 15, 20>>
CenterMedian == 0
SpreadRange == 1
SpreadIqr == 2

MedianOf(data) ==
    LET mid == Len(data) \div 2
    IN  IF Len(data) % 2 = 1 THEN Whole(data[mid + 1])
        ELSE Rational(data[mid] + data[mid + 1], 2)

Iqr(data) ==
    LET half == Len(data) \div 2
        upper == Len(data) - half + 1
    IN  Minus(MedianOf(SubSeq(data, upper, Len(data))), MedianOf(SubSeq(data, 1, half)))

SpreadProblems(format, d) ==
    LET top == Min({SpreadValue[d], SpreadSize[d] + SpreadSlack})
    IN  UNION {LET data == Ascending(SetToSeq(chosen))
               IN  {Numeric("center_spread_shape", format, Wholes(<<mode>> \o data),
                            CASE mode = CenterMedian -> MedianOf(data)
                              [] mode = SpreadRange -> Whole(data[Len(data)] - data[1])
                              [] mode = SpreadIqr -> Iqr(data)) :
                      mode \in CenterMedian..SpreadIqr} :
                 chosen \in kSubset(SpreadSize[d], 1..top)}

RangeAsSum(p) ==
    LET data == Data(p, 2)
    IN  IF Int1(p, 1) = SpreadRange THEN Whole(Max(Values(data)) + Min(Values(data))) ELSE Nothing

SpreadSteps(p) ==
    LET data == Data(p, 2)
        ends == {Whole(data[1]), Whole(data[Len(data)])}
    IN  IF Int1(p, 1) = SpreadRange
        THEN << Says(ends), Reveals(ends \cup {p.answer}, p.answer) >>
        ELSE << Says(Written(data)), Says({}), Reveals({p.answer}, p.answer) >>

(* ------------------------ statistical questions ----------------------- *)
(* Equal operands say yes; the difficulty is not used.                     *)
Judgement(kc, format, truth) ==
    YesNo(kc, format, "equal", Wholes(<<1, IF truth THEN 1 ELSE 0>>), Whole(1))

StatisticalProblems(format, d) ==
    {Judgement("statistical_questions", format, truth) : truth \in BOOLEAN}

StatisticalSteps(p) == << Says({}), Says({}), Tells({}) >>
=============================================================================
