------------------------- MODULE ExpressionProblems -------------------------
(***************************************************************************)
(* The algebra lessons.  An expression is kept as its operation and its    *)
(* constant (<<"minus", 5>> is v - 5), a simplified one as coefficient and *)
(* constant, an inequality as relation and bound: two are equivalent when  *)
(* they are the same.                                                      *)
(***************************************************************************)
EXTENDS Problems

(* ------------------------- writing expressions ------------------------ *)
ExpressionConst == <<2..5, 6..9, {11, 12, 15, 20}, {25, 30, 40, 50}>>

WriteProblems(format, d) ==
    {Structured("write_expressions", format, "expression", <<>>, <<op, c>>) :
       op \in {"plus", "times", "minus", "over"}, c \in ExpressionConst[d]}

(* The two operands swapped, where the order matters.                      *)
ReversedOperands(expression) ==
    CASE expression[1] = "minus" -> <<"minus_from", expression[2]>>
      [] expression[1] = "over" -> <<"over_into", expression[2]>>
      [] OTHER -> Nothing

WriteSteps(p) == << Says({}), Says({}), Tells({Whole(p.canonical[2])}) >>

(* ------------------------ equivalent expressions ---------------------- *)
EquivalentNum == <<2..5, {3, 4, 6, 7}, {5, 6, 8, 9}, {7, 9, 11, 12}>>

(* c(v + b) to multiply out, or av + bv to combine.                        *)
EquivalentProblems(format, d) ==
    UNION {
      {[Structured("equivalent_expressions", format, "expression", <<>>, <<n[1], n[1] * n[2]>>)
          EXCEPT !.source = n],
       Structured("equivalent_expressions", format, "expression", <<>>, <<n[1] + n[2], 0>>)} :
      n \in EquivalentNum[d] \X EquivalentNum[d]}

(* The multiplier reaches the first term only.                             *)
DistributiveError(source) == source

EquivalentSteps(p) ==
    << Says({}), Says({}), Tells({Whole(p.canonical[1]), Whole(p.canonical[2])}) >>

(* ----------------------------- inequalities --------------------------- *)
InequalityBound == <<2..5, {6, 7, 8, 10}, {12, 13, 15, 18}, {20, 25, 30, 50}>>
Relations == {"ge", "gt", "le", "lt"}

InequalityQuestion(format, relation, bound) ==
    Structured("inequalities", format, "inequality", <<>>, <<relation, bound>>)

InequalityProblems(format, d) ==
    {InequalityQuestion(format, relation, bound) :
       relation \in Relations, bound \in InequalityBound[d]}

FlippedInequality(inequality) ==
    <<CASE inequality[1] = "ge" -> "le"
        [] inequality[1] = "le" -> "ge"
        [] inequality[1] = "gt" -> "lt"
        [] inequality[1] = "lt" -> "gt", inequality[2]>>

InequalitySteps(p) == << Says({}), Says({}), Tells({Whole(p.canonical[2])}) >>

(* -------------------------- evaluate and power ------------------------ *)
EvalCoeff == <<{2, 3, 4}, {3, 4, 5}, {4, 6, 7}, {6, 8, 9}>>
EvalValue == <<{2, 3, 4}, {4, 5, 6}, {6, 7, 8}, {8, 9, 10}>>
EvalConst == <<{1, 2, 3}, {2, 4, 5}, {5, 6, 7}, {7, 9, 11}>>

EvaluateProblems(format, d) ==
    {Numeric("evaluate_expressions", format, Wholes(<<a, x, b>>), Whole(a * x + b)) :
       a \in EvalCoeff[d], x \in EvalValue[d], b \in EvalConst[d]}

AddedBeforeMultiplying(ops) == Whole(Num(ops[1]) * (Num(ops[2]) + Num(ops[3])))

EvaluateSteps(p) ==
    LET a == p.operands[1]
        x == p.operands[2]
        b == p.operands[3]
        product == Times(a, x)
    IN  << Says({a, x, b}),
           Reveals({a, x, product}, product),
           Reveals({b, product, p.answer}, p.answer) >>

ExponentBase == <<{2, 3}, {3, 4, 5}, {4, 5, 6}, {5, 6, 7, 8}>>
ExponentPower == <<{2, 3}, {2, 3}, {3, 4}, {3, 4, 5}>>
OrderConst == 2..5
AddOp == 0
MultiplyOp == 1

PowerPairs(d) == (ExponentBase[d] \X ExponentPower[d]) \ {<<2, 2>>}

(* The area surface draws bare powers only.                                *)
ExponentProblems(format, d) ==
    {Numeric("exponents", format, Wholes(<<bp[1], bp[2], 0>>), Whole(bp[1]^bp[2])) :
       bp \in PowerPairs(d)}
    \cup
    (IF format = "area_model" THEN {}
     ELSE {Numeric("exponents", format, Wholes(<<bp[1], bp[2], k, op, 1>>),
                   Whole(IF op = AddOp THEN k + bp[1]^bp[2] ELSE k * bp[1]^bp[2])) :
             bp \in PowerPairs(d), k \in OrderConst, op \in {AddOp, MultiplyOp}})

(* The base times the exponent; or the power taken last.                   *)
ExponentSlip(ops) ==
    LET base == Num(ops[1])
        power == Num(ops[2])
    IN  IF Len(ops) = 3 THEN Whole(base * power)
        ELSE IF Num(ops[4]) = AddOp THEN Whole((Num(ops[3]) + base)^power)
             ELSE Whole((Num(ops[3]) * base)^power)

ExponentSteps(p) ==
    LET base == p.operands[1]
        exponent == p.operands[2]
        power == Whole(Num(base)^Num(exponent))
    IN  IF Arity(p) = 5
        THEN << Says({p.operands[3], base, exponent}),
                Reveals({base, exponent, power}, power),
                Reveals({p.operands[3], power, p.answer}, p.answer) >>
        ELSE << Says({base, exponent}), Says({base, exponent}),
                Reveals({base, p.answer}, p.answer) >>

(* ------------------------------ equations ----------------------------- *)
OneStepCoeff == <<1..5, 4..8, {7, 9, 10, 11, 12}, {12, 15, 18, 20, 25}>>
Solutions == 1..10
AddEquation == 0
TimesEquation == 1

(* FAULTY: subtracting the coefficient may give the solution itself.       *)
OneStepProblemsAnyCoeff(format, d) ==
    {Numeric("one_step_equations", format, Wholes(<<AddEquation, b, b + x>>), Whole(x)) :
       b \in OneStepCoeff[d], x \in Solutions}
    \cup
    {Numeric("one_step_equations", format, Wholes(<<TimesEquation, ax[1], ax[1] * ax[2]>>),
             Whole(ax[2])) : ax \in OneStepCoeff[d] \X Solutions}

OneStepProblems(format, d) ==
    {Numeric("one_step_equations", format, Wholes(<<AddEquation, b, b + x>>), Whole(x)) :
       b \in OneStepCoeff[d], x \in Solutions}
    \cup
    {Numeric("one_step_equations", format, Wholes(<<TimesEquation, ax[1], ax[1] * ax[2]>>),
             Whole(ax[2])) :
       ax \in {ax \in OneStepCoeff[d] \X Solutions : ax[1] * ax[2] - ax[1] # ax[2]}}

WrongInverse(ops) ==
    IF Num(ops[1]) = AddEquation THEN Plus(ops[3], ops[2]) ELSE Minus(ops[3], ops[2])

OneStepSteps(p) ==
    LET both == {p.operands[2], p.operands[3]}
    IN  << Says(both), Says(both), Reveals({p.answer}, p.answer) >>

EquationConst == <<1..3, 2..5, 4..7, 6..9>>

(* On the line: is this value a solution?  The operands keep the truth.    *)
EquationProblems(format, d) ==
    IF format = "number_line"
    THEN {YesNo("equation_solutions", format, "equal",
                Wholes(<<1, IF truth THEN 1 ELSE 0>>), Whole(1)) : truth \in BOOLEAN}
    ELSE {Numeric("equation_solutions", format, Wholes(<<b, b + x>>), Whole(x)) :
            b \in EquationConst[d], x \in Solutions}

ConstantAdded(ops) == Plus(ops[2], ops[1])

EquationSteps(p) ==
    LET both == {p.operands[1], p.operands[2]}
    IN  IF p.kind = "yes_no" THEN << Says({}), Says({}), Tells({}) >>
        ELSE << Says(both), Says(both), Reveals({p.answer}, p.answer) >>

(* ------------------------- dependent variables ------------------------ *)
DependentRate == <<{2, 3, 4}, {3, 4, 5}, {4, 6, 7}, {6, 8, 9}>>
DependentValue == <<{2, 3, 4}, {4, 5, 6}, {5, 7, 8}, {8, 9, 10}>>

DependentProblems(format, d) ==
    {IF format = "coordinate_plane"
     THEN Structured("dependent_vars", format, "coordinate", Wholes(<<ax[1], ax[2]>>),
                     {<<ax[2], ax[1] * ax[2]>>})
     ELSE Numeric("dependent_vars", format, Wholes(<<ax[1], ax[2]>>), Whole(ax[1] * ax[2])) :
       ax \in (DependentRate[d] \X DependentValue[d]) \ {<<2, 2>>}}

RateAdded(ops) == Plus(ops[1], ops[2])

DependentSteps(p) ==
    LET a == p.operands[1]
        x == p.operands[2]
        y == Times(a, x)
        first == Says({x, a})
    IN  IF p.kind = "coordinate"
        THEN << first, Says({a, x, y}), Tells({x, y}) >>
        ELSE << first, Reveals({a, x, y}, y) >>

(* ------------------------- parts of expressions ----------------------- *)
PartsNumber == <<2..5, 4..8, {6, 7, 8, 9, 10, 12}, {9, 11, 12, 15, 18, 20}>>
Coefficient == 0
Constant == 1
TermCount == 2

PartsQuestion(format, mode, ck, answer) ==
    Numeric("expression_parts", format, Wholes(<<mode, ck[1], ck[2]>>), Whole(answer))

PartsPairs(d) == {ck \in PartsNumber[d] \X PartsNumber[d] : ck[1] # ck[2]}

PartsProblems(format, d) ==
    {PartsQuestion(format, Coefficient, ck, ck[1]) : ck \in PartsPairs(d)}
    \cup {PartsQuestion(format, Constant, ck, ck[2]) : ck \in PartsPairs(d)}
    \cup {PartsQuestion(format, TermCount, ck, n) : ck \in PartsPairs(d), n \in {2, 3}}

(* The coefficient for the constant, or the other way round.               *)
PartsSwapped(ops) ==
    CASE Num(ops[1]) = Coefficient -> ops[3]
      [] Num(ops[1]) = Constant -> ops[2]
      [] OTHER -> Nothing

PartsSteps(p) == << Says({}), Says({}), Reveals({p.answer}, p.answer) >>
=============================================================================
