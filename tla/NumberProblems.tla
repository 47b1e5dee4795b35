--------------------------- MODULE NumberProblems ---------------------------
(***************************************************************************)
(* The whole-number, decimal and integer lessons, and the classification of*)
(* a number into the nested sets.                                          *)
(***************************************************************************)
EXTENDS Problems

(* ---------------------- greatest factor, least multiple --------------- *)
GcfLcmPairs ==
    << {<<4, 6>>, <<6, 8>>, <<4, 10>>},
       {<<6, 9>>, <<8, 12>>, <<9, 12>>},
       {<<12, 18>>, <<10, 15>>, <<8, 20>>},
       {<<12, 30>>, <<18, 24>>, <<16, 20>>} >>
GcfMode == 0
LcmMode == 1

GcfLcmQuestion(format, pr, mode) ==
    Numeric("gcf_lcm", format, Wholes(<<pr[1], pr[2], mode>>),
            Whole(IF mode = LcmMode THEN Lcm(pr[1], pr[2]) ELSE Gcd[<<pr[1], pr[2]>>]))

GcfLcmProblems(format, d) ==
    {GcfLcmQuestion(format, pr, mode) : pr \in GcfLcmPairs[d], mode \in {GcfMode, LcmMode}}

(* The other of the two was found.                                         *)
GcfForLcm(ops) ==
    LET a == Num(ops[1])
        b == Num(ops[2])
    IN  Whole(IF Num(ops[3]) = LcmMode THEN Gcd[<<a, b>>] ELSE Lcm(a, b))

GcfLcmSteps(p) ==
    LET both == {p.operands[1], p.operands[2]}
    IN  << Says(both), Says(both), Reveals({p.answer}, p.answer) >>

(* ------------------------------ division ------------------------------ *)
Divisors == {3, 4, 6, 7, 8, 9, 12}
Quotients ==
    <<{12, 15, 18, 24}, {23, 34, 41, 52}, {68, 75, 84, 96}, {123, 156, 204, 312}>>

DivisionProblems(format, d) ==
    {Numeric("multi_digit_division", format, Wholes(<<q * divisor, divisor>>), Whole(q)) :
       q \in Quotients[d], divisor \in Divisors}

PlaceValueSlip(ops) == Whole(10 * (Num(ops[1]) \div Num(ops[2])))

DivisionSteps(p) ==
    << Says({p.operands[1], p.operands[2]}), Says({}), Reveals({p.answer}, p.answer) >>

(* ------------------------------ decimals ------------------------------ *)
DecimalFactors ==
    << {<<1, 5>>, <<3, 10>>, <<1, 2>>, <<2, 5>>},
       {<<3, 5>>, <<4, 5>>, <<3, 2>>, <<6, 5>>},
       {<<1, 4>>, <<3, 20>>, <<7, 20>>, <<4, 5>>},
       {<<5, 4>>, <<9, 20>>, <<3, 4>>, <<12, 5>>} >>
DecimalDivisions ==
    { <<<<4, 5>>, <<1, 5>>>>, <<<<3, 5>>, <<2, 5>>>>, <<<<3, 5>>, <<1, 2>>>>,
      <<<<4, 5>>, <<1, 2>>>>, <<<<3, 2>>, <<1, 2>>>>, <<<<9, 10>>, <<3, 5>>>>,
      <<<<6, 5>>, <<4, 5>>>>, <<<<1, 4>>, <<1, 2>>>> }

Decimal(format, pr, mode, answer) ==
    Numeric("decimal_operations", format, pr \o <<Whole(mode)>>, answer)

(* Multiply, add, subtract the smaller from the larger, or divide a pair of*)
(* a fixed pool.                                                           *)
DecimalProblems(format, d) ==
    LET pairs == DecimalFactors[d] \X DecimalFactors[d]
    IN  {Decimal(format, pr, 0, Times(pr[1], pr[2])) : pr \in pairs}
        \cup {Decimal(format, pr, 1, Plus(pr[1], pr[2])) : pr \in pairs}
        \cup {Decimal(format, pr, 2, Minus(pr[1], pr[2])) :
                pr \in {pr \in pairs : ~Below(pr[1], pr[2])}}
        \cup {Decimal(format, pr, 3, Over(pr[1], pr[2])) : pr \in DecimalDivisions}

(* The places of one factor only are counted.                              *)
DecimalPlacesIgnored(ops) ==
    LET fewer == IF Places(ops[1]) < Places(ops[2]) THEN Places(ops[1]) ELSE Places(ops[2])
    IN  IF Num(ops[3]) = 0 THEN Times(Times(ops[1], ops[2]), Whole(10^fewer)) ELSE Nothing

DecimalSteps(p) ==
    LET f == p.operands[1]
        s == p.operands[2]
        places == {Whole(Places(f)), Whole(Places(s)), Whole(Places(f) + Places(s))}
        ends == Reveals({DecimalForm(p.answer)}, p.answer)
    IN  IF Int1(p, 3) = 0 THEN <<Says({}), Says(places), ends>>
        ELSE <<Says({DecimalForm(f), DecimalForm(s)}), ends>>

(* ------------------------------ integers ------------------------------ *)
AbsolutePool == <<{2, 3, 4, 5}, {6, 7, 8, 9}, {11, 13, 15, 18}, {21, 27, 34, 42}>>
IntegerPool == <<1..5, {3, 5, 6, 7, 8}, {6, 8, 9, 11, 13}, {10, 12, 15, 18, 20}>>
OppositePool == <<1..5, {3, 5, 6, 7, 8}, {7, 9, 10, 12, 15}, {12, 15, 18, 20, 25}>>
ProductPool == <<1..5, 3..7, 6..10, 8..12>>

Signs == {-1, 1}

AbsoluteProblems(format, d) ==
    {Numeric("absolute_value", format, <<Whole(-n)>>, Whole(n)) : n \in AbsolutePool[d]}

SignKept(ops) == ops[1]

AbsoluteSteps(p) ==
    << Says({p.operands[1]}), Says({p.operands[1]}), Reveals({p.answer}, p.answer) >>

(* One positive and one negative addend.                                   *)
IntegerAddProblems(format, d) ==
    {Numeric("integer_add_subtract", format, Wholes(<<s * m[1], -s * m[2]>>),
             Whole(s * m[1] - s * m[2])) :
       m \in IntegerPool[d] \X IntegerPool[d], s \in Signs}

SignsIgnored(ops) == Whole(Magnitude(Num(ops[1])) + Magnitude(Num(ops[2])))

IntegerAddSteps(p) ==
    << Says({p.operands[1]}),
       Says({p.operands[2], Whole(Magnitude(Int1(p, 2)))}),
       Reveals({p.answer}, p.answer) >>

OppositeProblems(format, d) ==
    {Numeric("signed_numbers", format, <<Whole(s * m)>>, Whole(-s * m)) :
       s \in Signs, m \in OppositePool[d]}

OppositeSteps(p) ==
    << Says({p.operands[1]}), Says({p.operands[1]}), Reveals({p.answer}, p.answer) >>

MultiplyMode == 1
DivideMode == 0

SignedFactors(d) ==
    {<<s * m[1], t * m[2]>> : m \in ProductPool[d] \X ProductPool[d], s \in Signs, t \in Signs}

IntegerProductProblems(format, d) ==
    {Numeric("integer_multiply_divide", format, Wholes(<<f[1], f[2], MultiplyMode>>),
             Whole(f[1] * f[2])) : f \in SignedFactors(d)}
    \cup
    {Numeric("integer_multiply_divide", format, Wholes(<<f[1] * f[2], f[2], DivideMode>>),
             Whole(f[1])) : f \in SignedFactors(d)}

SignRuleSlip(p) == Whole(-Num(p.answer))

IntegerProductSteps(p) ==
    << Says({Whole(Magnitude(Num(p.answer)))}), Says({}), Reveals({p.answer}, p.answer) >>

(* ---------------------------- number sets ----------------------------- *)
ClassifyPool ==
    << {<<1, 1>>, <<2, 1>>, <<5, 1>>, <<8, 1>>},
       {<<0, 1>>, <<3, 1>>, <<10, 1>>, <<1, 2>>},
       {<<-2, 1>>, <<-7, 1>>, <<3, 4>>, <<7, 2>>},
       {<<-12, 1>>, <<-1, 5>>, <<9, 4>>, <<-11, 3>>} >>

SetsOf(r) ==
    {"rational"} \cup (IF Den(r) # 1 THEN {} ELSE {"integer"})
                 \cup (IF Den(r) = 1 /\ Num(r) >= 0 THEN {"whole"} ELSE {})
                 \cup (IF Den(r) = 1 /\ Num(r) > 0 THEN {"natural"} ELSE {})

ClassifyProblems(format, d) ==
    {Structured("classify_number_sets", format, "number_sets", <<r>>, SetsOf(r)) :
       r \in ClassifyPool[d]}

(* Rational left out, of an integer; an empty set says there is no slip.   *)
RationalOmitted(sets) == IF "integer" \in sets THEN sets \ {"rational"} ELSE {}

ClassifySteps(p) == << Says({}), Says({Whole(0)}), Tells({}) >>
=============================================================================
