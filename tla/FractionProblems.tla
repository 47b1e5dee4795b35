-------------------------- MODULE FractionProblems --------------------------
(***************************************************************************)
(* The fraction lessons: which problems each one can draw at a difficulty, *)
(* the value each modelled misconception leads to, and the steps of the    *)
(* worked example.                                                         *)
(***************************************************************************)
EXTENDS Problems

(* ------------------------------ equivalence --------------------------- *)
EquivalenceProblems(format, d) ==
    IF format = "word_problem"
    THEN {YesNo("equivalence", format, "equal", pr, pr[1]) :
            pr \in ProperFractions(d) \X ProperFractions(d)}
    ELSE {[Numeric("equivalence", format, <<base>>, base)
             EXCEPT !.givenDenominator = Den(base) * scale] :
            base \in ProperFractions(d), scale \in 2..4}

EquivalenceSteps(p) ==
    LET base  == p.operands[1]
        new   == p.givenDenominator
        scale == new \div Den(base)
        top   == Num(base) * scale
    IN  IF Arity(p) # 1 THEN Unbuildable
        ELSE << Says({Whole(Den(base)), Whole(new), Whole(scale)}),
                Reveals({Whole(top), base, <<top, new>>}, base) >>

(* ------------------------- common denominator ------------------------- *)
CommonDenominatorProblems(format, d) ==
    {Numeric("common_denominator", format, pr, Whole(Lcm(Den(pr[1]), Den(pr[2])))) :
       pr \in UnlikePairs(d)}

CommonDenominatorSteps(p) ==
    LET f == p.operands[1]
        s == p.operands[2]
        common == Lcm(Den(f), Den(s))
    IN  << Says({f, s, Whole(Den(f)), Whole(Den(s))}),
           Reveals({Whole(Den(f)), Whole(Den(s)), Whole(common)}, Whole(common)) >>

(* ---------------------- addition and subtraction ---------------------- *)
AdditionProblems(format, d) ==
    {Numeric("addition_unlike", format, pr, Plus(pr[1], pr[2])) :
       pr \in IF format = "number_line" THEN UnlikePairsSumBelowOne(d)
                                        ELSE UnlikePairs(d)}

SubtractionProblems(format, d) ==
    {Numeric("subtraction_unlike", format, pr, Minus(pr[1], pr[2])) :
       pr \in OrderedUnlikePairs(d)}

(* Tops with tops and bottoms with bottoms; no value over a zero bottom.   *)
AddAcross(ops) ==
    Rational(Num(ops[1]) + Num(ops[2]), Den(ops[1]) + Den(ops[2]))

SubtractAcross(ops) ==
    IF Den(ops[1]) = Den(ops[2]) THEN Nothing
    ELSE Rational(Num(ops[1]) - Num(ops[2]), Den(ops[1]) - Den(ops[2]))

(* FAULTY: the tops are combined before they are rewritten.                *)
AdditionOrSubtractionStepsUnscaled(p, adding) ==
    LET f == p.operands[1]
        s == p.operands[2]
        common == Lcm(Den(f), Den(s))
        top == IF adding THEN Num(f) + Num(s) ELSE Num(f) - Num(s)
    IN  << Reveals({f, s, Whole(common)}, Whole(common)),
           Reveals({<<top, common>>}, Rational(top, common)) >>

AdditionOrSubtractionSteps(p, adding) ==
    LET f == p.operands[1]
        s == p.operands[2]
        common == Lcm(Den(f), Den(s))
        fTop == Num(f) * (common \div Den(f))
        sTop == Num(s) * (common \div Den(s))
        top  == IF adding THEN fTop + sTop ELSE fTop - sTop
        combined == Rational(top, common)
    IN  << Reveals({f, s, Whole(common)}, Whole(common)),
           Says({f, s, Whole(common), <<fTop, common>>, <<sTop, common>>}),
           Reveals({Whole(fTop), Whole(sTop), <<top, common>>}, combined),
           Reveals({<<top, common>>, combined}, combined) >>

(* ----------------------- number line placement ------------------------ *)
(* Proper targets first, improper ones at tier 3, negative ones after.     *)
NumberLineTargets(d) ==
    CASE d = 3 -> UNION {{Rational(n, q) : n \in (q + 1)..(2 * q - 1)} :
                           q \in DenomByDifficulty[2]}
      [] d = 4 -> UNION {{Rational(-n, q) : n \in (1..(2 * q - 1)) \ {q}} :
                           q \in DenomByDifficulty[2]}
      [] OTHER -> ProperFractions(d)

Negated(pr) == <<Rational(-Num(pr[1]), Den(pr[1])), Rational(-Num(pr[2]), Den(pr[2]))>>

NumberLineProblems(format, d) ==
    IF format = "symbolic"
    THEN {YesNo("number_line_placement", format, "greater",
                IF d = 4 THEN Negated(pr) ELSE pr,
                IF d = 4 THEN Negated(pr)[1] ELSE pr[1]) : pr \in UnlikePairs(d)}
    ELSE {Numeric("number_line_placement", format, <<t>>, t) : t \in NumberLineTargets(d)}

NaturalNumberBias(ops) == Whole(Den(ops[1]))

NumberLineSteps(p) ==
    IF Arity(p) # 1 THEN Unbuildable
    ELSE <<Reveals({p.operands[1], Whole(Num(p.operands[1])), Whole(Den(p.operands[1]))},
                   p.operands[1])>>

(* ---------------------- multiply and divide --------------------------- *)
MultiplyProblems(format, d) ==
    {Numeric("multiply_fractions", format, pr, Times(pr[1], pr[2])) : pr \in UnlikePairs(d)}

DivideProblems(format, d) ==
    {Numeric("divide_fractions", format, pr, Over(pr[1], pr[2])) : pr \in UnlikePairs(d)}

MultiplyAsAdd(ops) == Plus(ops[1], ops[2])
MultiplyWithoutInverting(ops) == Times(ops[1], ops[2])

MultiplySteps(p) ==
    LET f == p.operands[1]
        s == p.operands[2]
    IN  << Says({Whole(Num(f)), Whole(Num(s)), Whole(Den(f)), Whole(Den(s))}),
           Says({<<Num(f) * Num(s), Den(f) * Den(s)>>}),
           Reveals({p.answer}, p.answer) >>

DivideSteps(p) ==
    LET f == p.operands[1]
        s == p.operands[2]
    IN  << Says({s, <<Den(s), Num(s)>>}),
           Says({<<Num(f) * Den(s), Den(f) * Num(s)>>}),
           Reveals({p.answer}, p.answer) >>
=============================================================================
