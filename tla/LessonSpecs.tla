---------------------------- MODULE LessonSpecs ----------------------------
(***************************************************************************)
(* The declared contract of every lesson: the representations its component*)
(* advertises (domain/knowledge_components.py), where each category of     *)
(* error sends the learner (domain/lesson_spec.py), and the misconceptions *)
(* it can show (domain/misconceptions.py).  One definition per stretch of  *)
(* a registry, in the registry's order.                                    *)
(***************************************************************************)
EXTENDS Naturals, Sequences

(* The rows of a registry, and the registry they make.                     *)
Each(keys, value) == keys \X {value}
Registry(rows) ==
    [key \in {row[1] : row \in rows} |->
       CHOOSE value \in {row[2] : row \in rows} : <<key, value>> \in rows]

(* --------------------- advertised representations --------------------- *)
FoundationComponents ==
    Each({"equivalence"}, {"symbolic", "area_model", "word_problem"})
      \cup Each({"number_line_placement"}, {"number_line", "symbolic"})
      \cup Each({"common_denominator", "addition_unlike", "subtraction_unlike"},
              {"symbolic", "area_model", "number_line", "word_problem"})

RatioComponents ==
    Each({"ratio_language", "unit_rate", "better_buy", "equivalent_ratios", "percent"},
         {"symbolic", "word_problem"})

NumberComponents ==
    Each({"multiply_fractions", "divide_fractions", "multi_digit_division",
          "decimal_operations"}, {"symbolic", "area_model"})
      \cup Each({"gcf_lcm", "absolute_value", "integer_add_subtract", "signed_numbers"},
              {"symbolic", "number_line"})
      \cup Each({"unit_conversion"}, {"symbolic", "word_problem"})

ExpressionComponents ==
    Each({"summary_statistics", "data_displays"}, {"symbolic", "number_line"})
      \cup Each({"write_expressions", "equivalent_expressions"}, {"expression", "word_problem"})
      \cup Each({"evaluate_expressions", "exponents"}, {"symbolic", "area_model"})
      \cup Each({"one_step_equations"}, {"symbolic", "word_problem"})
      \cup Each({"inequalities"}, {"inequality", "word_problem"})

PlaneComponents ==
    Each({"coordinate_plane"}, {"coordinate_plane", "word_problem"})
      \cup Each({"classify_number_sets"}, {"number_sets", "word_problem"})
      \cup Each({"expression_parts"}, {"symbolic", "word_problem"})
      \cup Each({"integer_multiply_divide"}, {"symbolic", "number_line"})

GeometryComponents ==
    Each({"triangle_properties", "area_polygons", "volume_fractional_edges",
          "surface_area_nets"}, {"symbolic", "area_model"})
      \cup Each({"polygons_coordinate_plane"}, {"coordinate_plane", "word_problem"})

StatisticsComponents ==
    Each({"mean_absolute_deviation", "center_spread_shape"}, {"symbolic", "number_line"})
      \cup Each({"categorical_data"}, {"symbolic", "area_model"})
      \cup Each({"statistical_questions"}, {"symbolic", "word_problem"})

RelationComponents ==
    Each({"dependent_vars"}, {"symbolic", "coordinate_plane"})
      \cup Each({"equation_solutions", "check_register"}, {"number_line", "symbolic"})
      \cup Each({"lifetime_income"}, {"symbolic", "word_problem"})

Advertised ==
    Registry(FoundationComponents \cup RatioComponents \cup NumberComponents
               \cup ExpressionComponents \cup PlaneComponents \cup GeometryComponents
               \cup StatisticsComponents \cup RelationComponents)

Declared == DOMAIN Advertised

(* ---------------------------- error routes ---------------------------- *)
Route(category, representation) ==
    [category |-> category, representation |-> representation]

Wrong(representation) == <<Route("operation", representation)>>
Either(representation) ==
    <<Route("operation", representation), Route("magnitude", representation)>>

FoundationRoutes ==
    Each({"equivalence"},
         <<Route("operation", "area_model"), Route("format", "area_model"),
           Route("magnitude", "area_model")>>)
      \cup Each({"common_denominator", "addition_unlike", "subtraction_unlike"},
              <<Route("operation", "area_model"), Route("format", "area_model"),
                Route("magnitude", "number_line")>>)
      \cup Each({"number_line_placement"},
              <<Route("magnitude", "number_line"), Route("format", "number_line")>>)

RatioRoutes ==
    Each({"ratio_language", "unit_rate", "equivalent_ratios", "percent",
          "multiply_fractions", "divide_fractions", "unit_conversion"}, Either("symbolic"))

NumberRoutes ==
    Each({"gcf_lcm", "multi_digit_division", "absolute_value", "integer_add_subtract",
          "signed_numbers"}, Either("symbolic"))
      \cup Each({"decimal_operations"},
              <<Route("magnitude", "symbolic"), Route("operation", "symbolic")>>)

ExpressionRoutes ==
    Each({"write_expressions", "equivalent_expressions"}, Wrong("expression"))
      \cup Each({"evaluate_expressions", "exponents"}, Either("area_model"))
      \cup Each({"one_step_equations"}, Either("symbolic"))
      \cup Each({"inequalities"}, Wrong("inequality"))

PlaneRoutes ==
    Each({"coordinate_plane"}, Wrong("coordinate_plane"))
      \cup Each({"classify_number_sets"}, Wrong("number_sets"))
      \cup Each({"expression_parts"}, Wrong("symbolic"))
      \cup Each({"integer_multiply_divide"}, Either("symbolic"))

GeometryRoutes ==
    Each({"triangle_properties", "volume_fractional_edges", "surface_area_nets"},
         Either("symbolic"))
      \cup Each({"area_polygons"}, Either("area_model"))
      \cup Each({"polygons_coordinate_plane"}, Wrong("coordinate_plane"))

(* FAULTY: judgments are always errors of magnitude, never of operation.    *)
StatisticsRoutesByOperation ==
    Each({"mean_absolute_deviation", "center_spread_shape", "summary_statistics",
          "data_displays", "categorical_data"}, Either("symbolic"))
      \cup Each({"statistical_questions"}, Wrong("symbolic"))

StatisticsRoutes ==
    Each({"mean_absolute_deviation", "center_spread_shape", "summary_statistics",
          "data_displays", "categorical_data"}, Either("symbolic"))
      \cup Each({"statistical_questions"}, <<Route("magnitude", "symbolic")>>)

RelationRoutes ==
    Each({"dependent_vars"},
         <<Route("operation", "coordinate_plane"), Route("magnitude", "symbolic")>>)
      \cup Each({"equation_solutions", "check_register"},
              <<Route("operation", "symbolic"), Route("magnitude", "number_line")>>)
      \cup Each({"lifetime_income"}, Either("symbolic"))
      \cup Each({"better_buy"}, <<Route("magnitude", "symbolic")>>)

LessonRoutes ==
    Registry(FoundationRoutes \cup RatioRoutes \cup NumberRoutes \cup ExpressionRoutes
               \cup PlaneRoutes \cup GeometryRoutes \cup StatisticsRoutes \cup RelationRoutes)

(* The representations an error is routed to: the first declared route for *)
(* its category, or none.                                                  *)
RepresentationForError(kc, category) ==
    LET routes == LessonRoutes[kc]
    IN  {routes[i].representation :
           i \in {j \in DOMAIN routes :
                    /\ routes[j].category = category
                    /\ \A k \in 1..(j - 1) : routes[k].category # category}}

(* The lessons whose transfer probe poses "reject this claim".             *)
ErrorFindingLessons == {"addition_unlike", "subtraction_unlike"}

(* --------------------------- misconceptions --------------------------- *)
FoundationAndRatioBank ==
    Each({"natural-number-bias"},
         {"equivalence", "common_denominator", "subtraction_unlike", "number_line_placement"})
      \cup Each({"add-across-error"}, {"addition_unlike"})
      \cup Each({"reduce-means-smaller", "equal-sign-as-procedural"}, {"equivalence"})
      \cup Each({"procedure-without-concept"},
              {"equivalence", "common_denominator", "addition_unlike", "subtraction_unlike",
               "number_line_placement"})
      \cup Each({"rate-inversion"}, {"unit_rate"})
      \cup Each({"additive-ratio"}, {"equivalent_ratios"})
      \cup Each({"percent-as-amount"}, {"percent"})
      \cup Each({"multiply-as-add"}, {"multiply_fractions"})
      \cup Each({"conversion-inversion"}, {"unit_conversion"})
      \cup Each({"part-part-whole-confusion"}, {"ratio_language"})

NumberAndExpressionBank ==
    Each({"gcf-lcm-confusion"}, {"gcf_lcm"})
      \cup Each({"multiply-without-inverting"}, {"divide_fractions"})
      \cup Each({"place-value-slip"}, {"multi_digit_division"})
      \cup Each({"decimal-point-misplacement"}, {"decimal_operations"})
      \cup Each({"signed-not-magnitude"}, {"absolute_value"})
      \cup Each({"sign-handling-error"}, {"integer_add_subtract"})
      \cup Each({"sign-error"}, {"signed_numbers"})
      \cup Each({"reversed-operands"}, {"write_expressions"})
      \cup Each({"order-of-operations-slip"}, {"evaluate_expressions", "exponents"})
      \cup Each({"inverse-operation-error"}, {"one_step_equations"})
      \cup Each({"distributive-error"}, {"equivalent_expressions"})

PlaneAndGeometryBank ==
    Each({"flipped-inequality"}, {"inequalities"})
      \cup Each({"coordinate-swap"}, {"coordinate_plane", "polygons_coordinate_plane"})
      \cup Each({"integer-not-rational"}, {"classify_number_sets"})
      \cup Each({"part-confusion"}, {"expression_parts"})
      \cup Each({"multiply-base-by-exponent"}, {"exponents"})
      \cup Each({"sign-rule-error"}, {"integer_multiply_divide"})
      \cup Each({"triangle-formula-error"}, {"triangle_properties"})
      \cup Each({"forgot-triangle-half", "forgot-trapezoid-half"}, {"area_polygons"})
      \cup Each({"add-edges-error"}, {"volume_fractional_edges"})

DataAndMoneyBank ==
    Each({"count-three-faces"}, {"surface_area_nets"})
      \cup Each({"forgot-absolute-value"}, {"mean_absolute_deviation"})
      \cup Each({"range-as-sum"}, {"center_spread_shape"})
      \cup Each({"median-without-sorting"}, {"summary_statistics"})
      \cup Each({"distinct-value-count"}, {"data_displays"})
      \cup Each({"wrong-denominator"}, {"categorical_data"})
      \cup Each({"treats-any-as-statistical"}, {"statistical_questions"})
      \cup Each({"compare-totals-not-unit-rates"}, {"better_buy"})
      \cup Each({"dependent-independent-swap"}, {"dependent_vars"})
      \cup Each({"solution-substitution-error"}, {"equation_solutions"})
      \cup Each({"add-withdrawal-instead-of-subtracting"}, {"check_register"})
      \cup Each({"forgot-multiply-by-years"}, {"lifetime_income"})

ApplicableLessons ==
    Registry(FoundationAndRatioBank \cup NumberAndExpressionBank
               \cup PlaneAndGeometryBank \cup DataAndMoneyBank)

Misconceptions(kc) == {m \in DOMAIN ApplicableLessons : kc \in ApplicableLessons[m]}
=============================================================================
