---------------------------- MODULE RatioProblems ----------------------------
(***************************************************************************)
(* The ratio and rate lessons: ratio language, unit rate, better buy,      *)
(* equivalent ratios, percent, unit conversion.                            *)
(***************************************************************************)
EXTENDS Problems

(* --------------------------- ratio language --------------------------- *)
RatioCounts == <<{2, 3}, {2, 3, 4}, {3, 4, 5, 6}, {4, 5, 6, 7}>>
RatioColours == 0..3
PartWholeMode == 0
PartPartMode == 1

RatioQuestion(format, mode, colour, c) ==
    Numeric("ratio_language", format, Wholes(<<mode, colour, c[1], c[2]>>),
            Rational(c[1], IF mode = PartWholeMode THEN c[1] + c[2] ELSE c[2]))

RatioLanguageProblems(format, d) ==
    {RatioQuestion(format, mode, colour, c) :
       mode \in {PartWholeMode, PartPartMode}, colour \in RatioColours,
       c \in {c \in RatioCounts[d] \X RatioCounts[d] : c[1] # c[2]}}

(* Compared with the other reference than the one asked for.               *)
PartPartWholeConfusion(ops) ==
    LET part == Num(ops[3])
        other == Num(ops[4])
    IN  IF Num(ops[1]) = PartWholeMode THEN Rational(part, other)
                                       ELSE Rational(part, part + other)

RatioLanguageSteps(p) ==
    LET part == Int1(p, 3)
        other == Int1(p, 4)
    IN  IF Int1(p, 1) = PartWholeMode
        THEN << Says({Whole(part), Whole(other), Whole(part + other)}),
                Says({Whole(part), Whole(part + other)}),
                Reveals({p.answer}, p.answer) >>
        ELSE << Says({Whole(part), Whole(other)}),
                Says({<<part, other>>}),
                Reveals({p.answer}, p.answer) >>

(* ------------------------------ unit rate ----------------------------- *)
RatePool == <<{2, 3, 4}, {3, 4, 5, 6}, {4, 6, 7, 8}, {6, 7, 8, 9}>>
RateScaleCounts == 2..8
PerOneMode == 0
ScaleMode == 1

UnitRateProblems(format, d) ==
    {Numeric("unit_rate", format, Wholes(<<rate * count, count, PerOneMode>>), Whole(rate)) :
       rate \in RatePool[d], count \in 2..6}
    \cup
    {Numeric("unit_rate", format, Wholes(<<rate * c[1], c[1], c[2], ScaleMode>>),
             Whole(rate * c[2])) :
       rate \in RatePool[d],
       c \in {c \in RateScaleCounts \X RateScaleCounts : c[1] # c[2]}}

RateInversion(ops) ==
    IF Len(ops) = 3 /\ Num(ops[3]) = PerOneMode
    THEN Rational(Num(ops[2]), Num(ops[1])) ELSE Nothing

UnitRateSteps(p) ==
    LET total == Whole(Int1(p, 1))
        count == Whole(Int1(p, 2))
        each  == Over(total, count)
    IN  IF Arity(p) = 4
        THEN << Says({total, count}),
                Says({each, p.operands[3]}),
                Reveals({each, p.operands[3]}, p.answer) >>
        ELSE << Says({total, count}), Says({total, count}),
                Reveals({p.answer}, p.answer) >>

(* ----------------------------- better buy ----------------------------- *)
UnitPrices == {<<1, 5>>, <<1, 4>>, <<3, 10>>, <<2, 5>>, <<1, 2>>, <<3, 5>>, <<3, 4>>}
Quantities == {2, 3, 4, 5, 6, 8, 10, 12}

(* Two stores, never at the same price per item; difficulty is not used.   *)
BetterBuyProblems(format, d) ==
    {YesNo("better_buy", format, "better_buy",
           <<Whole(qa), Times(u[1], Whole(qa)), Whole(qb), Times(u[2], Whole(qb))>>, u[1]) :
       qa \in Quantities, qb \in Quantities,
       u \in {u \in UnitPrices \X UnitPrices : u[1] # u[2]}}

BetterBuySteps(p) ==
    << Says({}),
       Says({Over(p.operands[2], p.operands[1]), Over(p.operands[4], p.operands[3])}),
       Tells({}) >>

(* -------------------------- equivalent ratios ------------------------- *)
RatioScales == <<{3, 4}, {3, 4, 5}, {4, 5, 6}, {5, 6, 7}>>

EquivalentRatiosProblems(format, d) ==
    {Numeric("equivalent_ratios", format, Wholes(<<r[1], r[2], r[2] * k>>), Whole(r[1] * k)) :
       r \in {r \in (1..6) \X (1..6) : r[1] # r[2]}, k \in RatioScales[d]}

AdditiveRatio(ops) == Whole(Num(ops[1]) + (Num(ops[3]) - Num(ops[2])))

EquivalentRatiosSteps(p) ==
    LET factor == Int1(p, 3) \div Int1(p, 2)
    IN  << Says({Whole(Int1(p, 2)), Whole(Int1(p, 3)), Whole(factor)}),
           Says({Whole(Int1(p, 1)), Whole(factor)}),
           Reveals({Whole(Int1(p, 1) * factor)}, p.answer) >>

(* ------------------------------- percent ------------------------------ *)
PercentPool == <<{10, 50}, {20, 25, 50}, {30, 40, 60}, {25, 60, 75}>>
PercentWholes == {20, 30, 40, 50, 60, 80}
PercentOf == 0
FindWhole == 1

(* The whole is asked for only where the part comes out whole.             *)
PercentProblems(format, d) ==
    {Numeric("percent", format, Wholes(<<percent, whole, PercentOf>>),
             Rational(percent * whole, 100)) :
       percent \in PercentPool[d], whole \in PercentWholes}
    \cup
    {Numeric("percent", format, Wholes(<<pw[1], pw[2], FindWhole>>), Whole(pw[2])) :
       pw \in {pw \in PercentPool[d] \X PercentWholes : (pw[1] * pw[2]) % 100 = 0}}

PercentAsAmount(ops) == IF Num(ops[3]) = PercentOf THEN ops[1] ELSE Nothing

PercentSteps(p) ==
    LET percent == Int1(p, 1)
        whole == Int1(p, 2)
        part == (percent * whole) \div 100
    IN  IF Int1(p, 3) = FindWhole
        THEN << Says({Whole(percent), <<percent, 100>>}),
                Says({Whole(part), <<percent, 100>>}),
                Reveals({p.answer}, p.answer) >>
        ELSE << Says({Whole(percent), <<percent, 100>>}),
                Says({Whole(whole), <<percent, 100>>}),
                Reveals({p.answer}, p.answer) >>

(* --------------------------- unit conversion -------------------------- *)
ConversionFactors == {3, 7, 12, 60, 100}
ConversionQuantities == <<2..4, 3..6, 5..8, 7..10>>

UnitConversionProblems(format, d) ==
    {Numeric("unit_conversion", format, Wholes(<<quantity, factor>>),
             Whole(quantity * factor)) :
       quantity \in ConversionQuantities[d], factor \in ConversionFactors}

ConversionInversion(ops) == Rational(Num(ops[1]), Num(ops[2]))

UnitConversionSteps(p) ==
    << Says({p.operands[2]}), Says({p.operands[1], p.operands[2]}), Reveals({p.answer}, p.answer) >>
=============================================================================
