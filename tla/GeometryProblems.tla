-------------------------- MODULE GeometryProblems --------------------------
(***************************************************************************)
(* The geometry lessons and the two lessons on money.                      *)
(***************************************************************************)
EXTENDS Problems, FiniteSetsExt, SequencesExt

CONSTANTS
    GridBound,            \* how far from the origin the drawn points lie
    RegisterLengths,      \* how many entries a check register has
    RegisterCents         \* the cents an entry may have, of four quarters

ASSUME GeometryAssumption ==
    /\ GridBound \in 1..10
    /\ RegisterLengths \subseteq 2..6
    /\ RegisterCents \subseteq 0..3

(* ------------------------------ triangles ----------------------------- *)
AnglePairs ==
    << {<<30, 60>>, <<45, 45>>, <<60, 60>>, <<40, 50>>},
       {<<35, 70>>, <<55, 65>>, <<50, 80>>, <<25, 75>>},
       {<<48, 73>>, <<62, 84>>, <<37, 96>>, <<53, 88>>},
       {<<71, 94>>, <<66, 107>>, <<83, 89>>, <<58, 119>>} >>
BaseHeights ==
    << {<<4, 3>>, <<2, 5>>, <<6, 2>>, <<4, 4>>},
       {<<6, 5>>, <<8, 3>>, <<4, 7>>, <<10, 2>>},
       {<<9, 8>>, <<12, 5>>, <<7, 6>>, <<14, 4>>},
       {<<16, 9>>, <<15, 8>>, <<18, 7>>, <<20, 6>>} >>
AngleMode == 0
AreaMode == 1

TriangleProblems(format, d) ==
    {Numeric("triangle_properties", format, Wholes(<<ab[1], ab[2], AngleMode>>),
             Whole(180 - ab[1] - ab[2])) : ab \in AnglePairs[d]}
    \cup
    {Numeric("triangle_properties", format, Wholes(<<bh[1], bh[2], AreaMode>>),
             Rational(bh[1] * bh[2], 2)) : bh \in BaseHeights[d]}

(* Taken from a right angle; or not halved.                                *)
TriangleSlip(ops) ==
    IF Num(ops[3]) = AngleMode THEN Whole(90 - Num(ops[1]) - Num(ops[2]))
                               ELSE Times(ops[1], ops[2])

TriangleSteps(p) ==
    LET a == p.operands[1]
        b == p.operands[2]
    IN  IF Int1(p, 3) = AngleMode
        THEN << Says({Whole(180)}),
                Says({a, b, Plus(a, b)}),
                Reveals({Whole(180), Plus(a, b), p.answer}, p.answer) >>
        ELSE << Says({a, b}),
                Says({a, b, Times(a, b)}),
                Reveals({Times(a, b), Whole(2), p.answer}, p.answer) >>

(* -------------------------------- areas ------------------------------- *)
AreaSides == <<2..5, 5..8, 8..11, 11..15>>
TriangleShape == 0
ParallelogramShape == 1
TrapezoidShape == 2

EvenUp(n) == n + (n % 2)

AreaProblems(format, d) ==
    LET Shape(shape, ops, answer) ==
          Numeric("area_polygons", format, Wholes(ops \o <<shape>>), answer)
        s == AreaSides[d]
    IN  {Shape(TriangleShape, <<b, EvenUp(h)>>, Rational(b * EvenUp(h), 2)) : b \in s, h \in s}
        \cup {Shape(ParallelogramShape, <<b, h>>, Whole(b * h)) : b \in s, h \in s}
        \cup {Shape(TrapezoidShape, <<bb[1], bb[2], EvenUp(h)>>,
                    Rational((bb[1] + bb[2]) * EvenUp(h), 2)) :
                bb \in {bb \in s \X s : bb[1] # bb[2]}, h \in s}

NotHalved(ops) ==
    IF Len(ops) = 4 THEN Whole((Num(ops[1]) + Num(ops[2])) * Num(ops[3]))
    ELSE IF Num(ops[3]) = TriangleShape THEN Times(ops[1], ops[2]) ELSE Nothing

AreaSteps(p) ==
    LET b == p.operands[1]
        h == p.operands[2]
        box == Times(b, h)
        sum == Plus(b, h)
        strip == Times(sum, p.operands[3])
    IN  IF Arity(p) = 4
        THEN << Says({b, h, sum}), Says({sum, p.operands[3], strip}),
                Reveals({strip, Whole(2), p.answer}, p.answer) >>
        ELSE IF Int1(p, 3) = TriangleShape
        THEN << Says({b, h, box}), Says({}), Reveals({box, Whole(2), p.answer}, p.answer) >>
        ELSE << Says({}), Reveals({b, h, p.answer}, p.answer) >>

(* ------------------------ volume, surface area ------------------------ *)
VolumeEdges ==
    << {<<1, 2>>, <<3, 2>>, <<2, 1>>, <<5, 2>>, <<3, 1>>},
       {<<1, 2>>, <<2, 3>>, <<3, 2>>, <<5, 2>>, <<3, 1>>, <<4, 1>>},
       {<<2, 3>>, <<3, 4>>, <<5, 2>>, <<7, 2>>, <<4, 1>>, <<5, 1>>},
       {<<3, 4>>, <<5, 4>>, <<7, 3>>, <<7, 2>>, <<9, 2>>, <<5, 1>>} >>

SumOf(e) == Plus(Plus(e[1], e[2]), e[3])
ProductOf(e) == Times(Times(e[1], e[2]), e[3])

(* Some edge is no whole number, and adding is not multiplying by chance.  *)
VolumeProblems(format, d) ==
    {Numeric("volume_fractional_edges", format, e, ProductOf(e)) :
       e \in {e \in VolumeEdges[d] \X VolumeEdges[d] \X VolumeEdges[d] :
                /\ \E i \in 1..3 : Den(e[i]) # 1
                /\ SumOf(e) # ProductOf(e)}}

VolumeSteps(p) ==
    LET e == p.operands
        floor == Times(e[1], e[2])
    IN  << Says({e[1], e[2], e[3]}),
           Reveals({e[1], e[2], floor}, floor),
           Reveals({floor, e[3], p.answer}, p.answer) >>

SurfaceEdges == <<1..4, 2..5, 3..7, 5..10>>

Faces(e) == {Times(e[1], e[2]), Times(e[1], e[3]), Times(e[2], e[3])}
ThreeFaces(e) == Plus(Plus(Times(e[1], e[2]), Times(e[1], e[3])), Times(e[2], e[3]))

SurfaceProblems(format, d) ==
    {Numeric("surface_area_nets", format, Wholes(e), Times(Whole(2), ThreeFaces(Wholes(e)))) :
       e \in [1..3 -> SurfaceEdges[d]]}

SurfaceSteps(p) ==
    LET e == p.operands
        three == ThreeFaces(e)
    IN  << Says({e[1], e[2], e[3]}),
           Reveals(Faces(e) \cup {three}, three),
           Reveals({Whole(2), three, p.answer}, p.answer) >>

(* --------------------------- coordinate plane ------------------------- *)
CoordinateRange == <<3, 5, 8, 10>>

Reach(d) == Min({CoordinateRange[d], GridBound})
Along(d) == (-Reach(d))..Reach(d)
OffAxis(d) == Along(d) \ {0}

Corners(xs, ys) == xs \X ys
Spans(d) == {{x, x + w} : x \in Along(d), w \in 1..Reach(d)}
Rectangles(d) == {Corners(xs, ys) : xs \in Spans(d), ys \in Spans(d)}

PointsOf(kc, format, points) == Structured(kc, format, "coordinate", <<>>, points)

(* A point, or its mirror image in an axis: any point off the axes; or the *)
(* four corners of a rectangle.                                            *)
CoordinateProblems(format, d) ==
    {PointsOf("coordinate_plane", format, points) :
       points \in {{pt} : pt \in OffAxis(d) \X OffAxis(d)} \cup Rectangles(d)}

(* The corner left out, or all four.                                       *)
PolygonProblems(format, d) ==
    {PointsOf("polygons_coordinate_plane", format, points) :
       points \in Rectangles(d) \cup {{pt} : pt \in UNION Rectangles(d)}}

(* Across and up exchanged; an empty set says that nothing changed.        *)
SwappedCoordinates(points) ==
    LET swapped == {<<pt[2], pt[1]>> : pt \in points}
    IN  IF swapped = points THEN {} ELSE swapped

CoordinateSteps(p) ==
    << Says({Whole(0)}), Says({}),
       Tells(UNION {{Whole(pt[1]), Whole(pt[2])} : pt \in p.canonical}) >>

(* --------------------------- a check register ------------------------- *)
(* Amounts are kept in quarters of a dollar.                               *)
StartAmounts == <<{50, 80, 100}, {100, 150, 200}, {200, 300, 500}, {500, 800, 1000}>>
EntryAmounts == <<{10, 15, 20, 25}, {20, 30, 40, 50}, {35, 50, 60, 75}, {50, 75, 100, 120}>>
EntryCounts == <<{2, 3}, {3, 4}, {4, 5}, {5, 6}>>

Quarters(pool) == {4 * n + c : n \in pool, c \in RegisterCents}
Dollars(quarters) == Rational(quarters, 4)
Balance(register) == FoldSeq(LAMBDA x, y : x + y, 0, register)

(* The registers after some entries that pay in, or take out less than     *)
(* what is there; a last entry then takes out at most what is there.       *)
Registers(start, count, amounts) ==
    LET Before[entries \in 0..(count - 1)] ==
          IF entries = 0 THEN {<<start>>}
          ELSE UNION {{Append(register, e) :
                         e \in amounts \cup {-a : a \in {a \in amounts : a < Balance(register)}}} :
                        register \in Before[entries - 1]}
    IN  {Append(register, -Min({a, Balance(register)})) :
           register \in Before[count - 1], a \in amounts}

DrawnRegisters(d) ==
    UNION {Registers(start, n, Quarters(EntryAmounts[d])) :
             start \in Quarters(StartAmounts[d]), n \in EntryCounts[d] \cap RegisterLengths}

RegisterProblems(format, d) ==
    IF format = "number_line"
    THEN {YesNo("check_register", format, "equal", Wholes(<<1, IF enough THEN 1 ELSE 0>>),
                Whole(1)) : enough \in BOOLEAN}
    ELSE {Numeric("check_register", format,
                  [i \in DOMAIN register |-> Dollars(register[i])], Dollars(Balance(register))) :
            register \in DrawnRegisters(d)}

(* The first withdrawal is added.                                          *)
WithdrawalAdded(p) ==
    LET withdrawals == {i \in 2..Arity(p) : Num(p.operands[i]) < 0}
    IN  IF Arity(p) < 2 \/ withdrawals = {} THEN Nothing
        ELSE Minus(p.answer, Times(Whole(2), p.operands[Min(withdrawals)]))

RegisterSteps(p) ==
    IF p.kind = "yes_no" THEN << Says({}), Says({}), Tells({}) >>
    ELSE << Says({DecimalForm(p.operands[1])}), Says({}),
            Reveals({DecimalForm(p.answer)}, p.answer) >>

(* --------------------------- lifetime income -------------------------- *)
Salaries == <<{20000, 25000, 30000}, {30000, 35000, 40000}, {40000, 50000, 60000},
              {55000, 70000, 90000}>>
WorkingYears == <<{2, 3, 5}, {5, 10, 15}, {20, 25, 30}, {30, 35, 40}>>
IncomeTotal == 0
IncomeDifference == 1

IncomeProblems(format, d) ==
    {Numeric("lifetime_income", format, Wholes(<<IncomeTotal, salary, years>>),
             Whole(salary * years)) : salary \in Salaries[d], years \in WorkingYears[d]}
    \cup
    {Numeric("lifetime_income", format, Wholes(<<IncomeDifference, s[1], s[2], years>>),
             Whole((s[1] - s[2]) * years)) :
       s \in {s \in Salaries[d] \X Salaries[d] : s[2] < s[1]}, years \in WorkingYears[d]}

(* One year's income only.                                                 *)
OneYearOnly(ops) ==
    IF Num(ops[1]) = IncomeTotal THEN ops[2] ELSE Minus(ops[2], ops[3])

IncomeSteps(p) ==
    LET years == p.operands[Arity(p)]
        yearly == OneYearOnly(p.operands)
    IN  << Says({yearly}), Says({years}), Reveals({yearly, years, p.answer}, p.answer) >>
=============================================================================
