---------------------------- MODULE ProblemBank ----------------------------
(***************************************************************************)
(* What the registries do with a problem, for every component that has     *)
(* content: draw it (GENERATORS), walk it (_STEP_BUILDERS), predict the    *)
(* wrong answer of the modelled misconception (_WRONG_ANSWER_MODELS), grade*)
(* an answer (domain/verifier.py), pick the widget it is answered on       *)
(* (domain/lesson_spec.py, WidgetContract.ts) and the lines a hint may read*)
(* (api/service.py).                                                       *)
(***************************************************************************)
EXTENDS FractionProblems, RatioProblems, NumberProblems, StatisticsProblems,
        ExpressionProblems, GeometryProblems, LessonSpecs

(* ------------------------------ registries ---------------------------- *)
(* The representations a lesson is served in (policy/scheduler.py).        *)
SymbolicOnly ==
    {"common_denominator", "ratio_language", "unit_rate", "better_buy", "equivalent_ratios",
     "percent", "unit_conversion", "gcf_lcm", "multi_digit_division", "expression_parts",
     "categorical_data", "statistical_questions", "lifetime_income"}
OnTheLine ==
    {"addition_unlike", "subtraction_unlike", "number_line_placement", "absolute_value",
     "integer_add_subtract", "signed_numbers", "integer_multiply_divide",
     "mean_absolute_deviation", "center_spread_shape", "summary_statistics", "data_displays",
     "equation_solutions", "check_register"}
WithAreas ==
    {"multiply_fractions", "divide_fractions", "decimal_operations", "evaluate_expressions",
     "exponents", "triangle_properties", "area_polygons", "volume_fractional_edges",
     "surface_area_nets"}
InStories == {"equivalence", "one_step_equations"}
OnThePlane == {"coordinate_plane", "polygons_coordinate_plane"}
Expressions == {"write_expressions", "equivalent_expressions"}

Lessons ==
    SymbolicOnly \cup OnTheLine \cup WithAreas \cup InStories \cup OnThePlane
      \cup Expressions \cup {"dependent_vars", "inequalities", "classify_number_sets"}

LiveFormats(kc) ==
    CASE kc \in SymbolicOnly -> {"symbolic"}
      [] kc \in OnTheLine -> {"symbolic", "number_line"}
      [] kc \in WithAreas -> {"symbolic", "area_model"}
      [] kc \in InStories -> {"symbolic", "word_problem"}
      [] kc \in OnThePlane -> {"coordinate_plane"}
      [] kc \in Expressions -> {"expression"}
      [] kc = "dependent_vars" -> {"symbolic", "coordinate_plane"}
      [] kc = "inequalities" -> {"inequality"}
      [] kc = "classify_number_sets" -> {"number_sets"}

GenerateProblem(kc, format, d) ==
    CASE kc = "equivalence" -> EquivalenceProblems(format, d)
      [] kc = "common_denominator" -> CommonDenominatorProblems(format, d)
      [] kc = "addition_unlike" -> AdditionProblems(format, d)
      [] kc = "subtraction_unlike" -> SubtractionProblems(format, d)
      [] kc = "number_line_placement" -> NumberLineProblems(format, d)
      [] kc = "multiply_fractions" -> MultiplyProblems(format, d)
      [] kc = "divide_fractions" -> DivideProblems(format, d)
      [] kc = "ratio_language" -> RatioLanguageProblems(format, d)
      [] kc = "unit_rate" -> UnitRateProblems(format, d)
      [] kc = "better_buy" -> BetterBuyProblems(format, d)
      [] kc = "equivalent_ratios" -> EquivalentRatiosProblems(format, d)
      [] kc = "percent" -> PercentProblems(format, d)
      [] kc = "unit_conversion" -> UnitConversionProblems(format, d)
      [] kc = "gcf_lcm" -> GcfLcmProblems(format, d)
      [] kc = "multi_digit_division" -> DivisionProblems(format, d)
      [] kc = "decimal_operations" -> DecimalProblems(format, d)
      [] kc = "absolute_value" -> AbsoluteProblems(format, d)
      [] kc = "integer_add_subtract" -> IntegerAddProblems(format, d)
      [] kc = "signed_numbers" -> OppositeProblems(format, d)
      [] kc = "integer_multiply_divide" -> IntegerProductProblems(format, d)
      [] kc = "classify_number_sets" -> ClassifyProblems(format, d)
      [] kc = "summary_statistics" -> SummaryProblems(format, d)
      [] kc = "data_displays" -> DisplayProblems(format, d)
      [] kc = "categorical_data" -> CategoricalProblems(format, d)
      [] kc = "mean_absolute_deviation" -> DeviationProblems(format, d)
      [] kc = "center_spread_shape" -> SpreadProblems(format, d)
      [] kc = "statistical_questions" -> StatisticalProblems(format, d)
      [] kc = "write_expressions" -> WriteProblems(format, d)
      [] kc = "equivalent_expressions" -> EquivalentProblems(format, d)
      [] kc = "inequalities" -> InequalityProblems(format, d)
      [] kc = "evaluate_expressions" -> EvaluateProblems(format, d)
      [] kc = "exponents" -> ExponentProblems(format, d)
      [] kc = "one_step_equations" -> OneStepProblems(format, d)
      [] kc = "equation_solutions" -> EquationProblems(format, d)
      [] kc = "dependent_vars" -> DependentProblems(format, d)
      [] kc = "expression_parts" -> PartsProblems(format, d)
      [] kc = "triangle_properties" -> TriangleProblems(format, d)
      [] kc = "area_polygons" -> AreaProblems(format, d)
      [] kc = "volume_fractional_edges" -> VolumeProblems(format, d)
      [] kc = "surface_area_nets" -> SurfaceProblems(format, d)
      [] kc = "coordinate_plane" -> CoordinateProblems(format, d)
      [] kc = "polygons_coordinate_plane" -> PolygonProblems(format, d)
      [] kc = "check_register" -> RegisterProblems(format, d)
      [] kc = "lifetime_income" -> IncomeProblems(format, d)

WorkedExampleFor(p) ==
    CASE p.kc = "equivalence" -> EquivalenceSteps(p)
      [] p.kc = "common_denominator" -> CommonDenominatorSteps(p)
      [] p.kc = "addition_unlike" -> AdditionOrSubtractionSteps(p, TRUE)
      [] p.kc = "subtraction_unlike" -> AdditionOrSubtractionSteps(p, FALSE)
      [] p.kc = "number_line_placement" -> NumberLineSteps(p)
      [] p.kc = "multiply_fractions" -> MultiplySteps(p)
      [] p.kc = "divide_fractions" -> DivideSteps(p)
      [] p.kc = "ratio_language" -> RatioLanguageSteps(p)
      [] p.kc = "unit_rate" -> UnitRateSteps(p)
      [] p.kc = "better_buy" -> BetterBuySteps(p)
      [] p.kc = "equivalent_ratios" -> EquivalentRatiosSteps(p)
      [] p.kc = "percent" -> PercentSteps(p)
      [] p.kc = "unit_conversion" -> UnitConversionSteps(p)
      [] p.kc = "gcf_lcm" -> GcfLcmSteps(p)
      [] p.kc = "multi_digit_division" -> DivisionSteps(p)
      [] p.kc = "decimal_operations" -> DecimalSteps(p)
      [] p.kc = "absolute_value" -> AbsoluteSteps(p)
      [] p.kc = "integer_add_subtract" -> IntegerAddSteps(p)
      [] p.kc = "signed_numbers" -> OppositeSteps(p)
      [] p.kc = "integer_multiply_divide" -> IntegerProductSteps(p)
      [] p.kc = "classify_number_sets" -> ClassifySteps(p)
      [] p.kc = "summary_statistics" -> SummarySteps(p)
      [] p.kc = "data_displays" -> DisplaySteps(p)
      [] p.kc = "categorical_data" -> CategoricalSteps(p)
      [] p.kc = "mean_absolute_deviation" -> DeviationSteps(p)
      [] p.kc = "center_spread_shape" -> SpreadSteps(p)
      [] p.kc = "statistical_questions" -> StatisticalSteps(p)
      [] p.kc = "write_expressions" -> WriteSteps(p)
      [] p.kc = "equivalent_expressions" -> EquivalentSteps(p)
      [] p.kc = "inequalities" -> InequalitySteps(p)
      [] p.kc = "evaluate_expressions" -> EvaluateSteps(p)
      [] p.kc = "exponents" -> ExponentSteps(p)
      [] p.kc = "one_step_equations" -> OneStepSteps(p)
      [] p.kc = "equation_solutions" -> EquationSteps(p)
      [] p.kc = "dependent_vars" -> DependentSteps(p)
      [] p.kc = "expression_parts" -> PartsSteps(p)
      [] p.kc = "triangle_properties" -> TriangleSteps(p)
      [] p.kc = "area_polygons" -> AreaSteps(p)
      [] p.kc = "volume_fractional_edges" -> VolumeSteps(p)
      [] p.kc = "surface_area_nets" -> SurfaceSteps(p)
      [] p.kc \in OnThePlane -> CoordinateSteps(p)
      [] p.kc = "check_register" -> RegisterSteps(p)
      [] p.kc = "lifetime_income" -> IncomeSteps(p)

(* ------------------------------ verifier ------------------------------ *)
(* A wrong answer the lesson knows by name, with the category of the error.*)
Present(value) == IF value = Nothing THEN {} ELSE {value}
PresentSet(value) == {value} \ {{}}

Slips(values, error, name) ==
    {[value |-> value, error |-> error, name |-> name] : value \in values}
Predicts(value, error, name) == Slips(Present(value), error, name)

(* The rows of _WRONG_ANSWER_MODELS, in its order: none for a lesson, or a *)
(* number of operands, that has no model.                                  *)
FractionAndRatioModels(kc, ops) ==
    CASE kc = "addition_unlike" ->
           Predicts(AddAcross(ops), "operation", "add-across-error")
      [] kc = "subtraction_unlike" ->
           Predicts(SubtractAcross(ops), "operation", "natural-number-bias")
      [] kc = "number_line_placement" ->
           Predicts(NaturalNumberBias(ops), "magnitude", "natural-number-bias")
      [] kc = "ratio_language" ->
           Predicts(PartPartWholeConfusion(ops), "operation", "part-part-whole-confusion")
      [] kc = "unit_rate" -> Predicts(RateInversion(ops), "operation", "rate-inversion")
      [] kc = "equivalent_ratios" -> Predicts(AdditiveRatio(ops), "operation", "additive-ratio")
      [] kc = "percent" -> Predicts(PercentAsAmount(ops), "operation", "percent-as-amount")
      [] kc = "multiply_fractions" ->
           Predicts(MultiplyAsAdd(ops), "operation", "multiply-as-add")
      [] kc = "divide_fractions" ->
           Predicts(MultiplyWithoutInverting(ops), "operation", "multiply-without-inverting")
      [] kc = "unit_conversion" ->
           Predicts(ConversionInversion(ops), "operation", "conversion-inversion")
      [] OTHER -> {}

NumberModels(kc, ops) ==
    CASE kc = "gcf_lcm" -> Predicts(GcfForLcm(ops), "operation", "gcf-lcm-confusion")
      [] kc = "multi_digit_division" ->
           Predicts(PlaceValueSlip(ops), "magnitude", "place-value-slip")
      [] kc = "decimal_operations" ->
           Predicts(DecimalPlacesIgnored(ops), "magnitude", "decimal-point-misplacement")
      [] kc = "absolute_value" -> Predicts(SignKept(ops), "magnitude", "signed-not-magnitude")
      [] kc = "integer_add_subtract" ->
           Predicts(SignsIgnored(ops), "operation", "sign-handling-error")
      [] kc = "signed_numbers" -> Predicts(SignKept(ops), "operation", "sign-error")
      [] OTHER -> {}

ExpressionModels(p) ==
    LET ops == p.operands
    IN  CASE p.kc = "evaluate_expressions" ->
               Predicts(AddedBeforeMultiplying(ops), "operation", "order-of-operations-slip")
          [] p.kc = "exponents" ->
               Predicts(ExponentSlip(ops), "operation",
                        IF Len(ops) = 3 THEN "multiply-base-by-exponent"
                                        ELSE "order-of-operations-slip")
          [] p.kc = "one_step_equations" ->
               Predicts(WrongInverse(ops), "operation", "inverse-operation-error")
          [] p.kc = "expression_parts" ->
               Predicts(PartsSwapped(ops), "operation", "part-confusion")
          [] p.kc = "integer_multiply_divide" ->
               Predicts(SignRuleSlip(p), "operation", "sign-rule-error")
          [] OTHER -> {}

GeometryModels(kc, ops) ==
    CASE kc = "triangle_properties" ->
           Predicts(TriangleSlip(ops), "operation", "triangle-formula-error")
      [] kc = "area_polygons" ->
           Predicts(NotHalved(ops), "operation",
                    IF Len(ops) = 3 THEN "forgot-triangle-half" ELSE "forgot-trapezoid-half")
      [] kc = "volume_fractional_edges" ->
           Predicts(SumOf(ops), "operation", "add-edges-error")
      [] kc = "surface_area_nets" ->
           Predicts(ThreeFaces(ops), "operation", "count-three-faces")
      [] OTHER -> {}

StatisticsModels(p) ==
    CASE p.kc = "mean_absolute_deviation" ->
           Predicts(SignedDeviation(p.operands), "operation", "forgot-absolute-value")
      [] p.kc = "center_spread_shape" -> Predicts(RangeAsSum(p), "operation", "range-as-sum")
      [] p.kc = "summary_statistics" ->
           Predicts(MedianWithoutOrdering(p), "operation", "median-without-sorting")
      [] p.kc = "data_displays" ->
           Predicts(CountDistinctAbove(p), "operation", "distinct-value-count")
      [] p.kc = "categorical_data" ->
           Predicts(PartOverPart(p.operands), "operation", "wrong-denominator")
      [] OTHER -> {}

RelationModels(p) ==
    CASE p.kc = "dependent_vars" ->
           Predicts(RateAdded(p.operands), "operation", "dependent-independent-swap")
      [] p.kc = "equation_solutions" ->
           Predicts(ConstantAdded(p.operands), "operation", "solution-substitution-error")
      [] p.kc = "check_register" ->
           Predicts(WithdrawalAdded(p), "operation", "add-withdrawal-instead-of-subtracting")
      [] p.kc = "lifetime_income" ->
           Predicts(OneYearOnly(p.operands), "operation", "forgot-multiply-by-years")
      [] OTHER -> {}

NumericSlips(p) ==
    FractionAndRatioModels(p.kc, p.operands) \cup NumberModels(p.kc, p.operands)
      \cup ExpressionModels(p) \cup GeometryModels(p.kc, p.operands)
      \cup StatisticsModels(p) \cup RelationModels(p)

(* The slip each structured answer is compared with.                       *)
ExpressionSlips(p) ==
    Predicts(ReversedOperands(p.canonical), "operation", "reversed-operands")
DistributedSlips(p) ==
    Predicts(DistributiveError(p.source), "operation", "distributive-error")
InequalitySlips(p) ==
    Slips({FlippedInequality(p.canonical)}, "operation", "flipped-inequality")
PointSlips(p) ==
    Slips(PresentSet(SwappedCoordinates(p.canonical)), "operation", "coordinate-swap")
NumberSetSlips(p) ==
    Slips(PresentSet(RationalOmitted(p.canonical)), "operation", "integer-not-rational")

NamedSlips(p) ==
    CASE p.kind = "yes_no" -> {}
      [] p.kind = "inequality" -> InequalitySlips(p)
      [] p.kind = "coordinate" -> PointSlips(p)
      [] p.kind = "number_sets" -> NumberSetSlips(p)
      [] p.kind = "expression" ->
           IF p.kc = "write_expressions" THEN ExpressionSlips(p) ELSE DistributedSlips(p)
      [] p.kind = "numeric" -> NumericSlips(p)

(* The judgment a yes/no problem asks for.                                 *)
Truth(p) ==
    LET ops == p.operands
    IN  CASE p.relation = "better_buy" ->
               Below(Times(ops[2], ops[3]), Times(ops[4], ops[1]))
          [] p.relation = "greater" -> Below(ops[2], ops[1])
          [] OTHER -> ops[1] = ops[2]

(* Any positive whole number both piece sizes divide.                      *)
SharedPieceSize(p, given) ==
    /\ Den(given) = 1 /\ Num(given) > 0
    /\ \A f \in {p.operands[1], p.operands[2]} : Num(given) % Den(f) = 0

IsCorrect(p, given) ==
    CASE p.kind = "yes_no" -> given = Truth(p)
      [] p.kind # "yes_no" /\ p.kc = "common_denominator" -> SharedPieceSize(p, given)
      [] OTHER -> given = p.canonical

Verdict(correct, error, misconception) ==
    [correct |-> correct, error |-> error, misconception |-> misconception]

Right == Verdict(TRUE, "none", "none")
Unmatched(error) == Verdict(FALSE, error, "none")

(* The first slip the answer equals names it; an answer that equals none is*)
(* of the category other.                                                  *)
Verify(p, given) ==
    LET matches == {slip \in NamedSlips(p) : slip.value = given}
        slip == CHOOSE m \in matches : TRUE
    IN  IF IsCorrect(p, given) THEN Right
        ELSE CASE p.kind = "yes_no" -> Unmatched("magnitude")
               [] p.kind # "yes_no" /\ p.kc = "common_denominator" ->
                    Unmatched(IF Den(given) = 1 /\ Num(given) > 0 THEN "operation" ELSE "other")
               [] OTHER ->
                    IF matches = {} THEN Unmatched("other")
                    ELSE Verdict(FALSE, slip.error, slip.name)
=============================================================================
