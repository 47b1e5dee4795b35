----------------------------- MODULE CourseCatalog -----------------------------
(***************************************************************************)
(* The Grade-6 course as data: its units and their lessons in display      *)
(* order (domain/curriculum.py), the skills that must be confirmed before  *)
(* a skill is the next to learn, and the teaching order                    *)
(* (domain/prerequisites.py).                                              *)
(*                                                                         *)
(* A lesson names the skill it trains.  NO_KC is the lesson that mixes the *)
(* skills of its unit; a concept lesson names a skill nobody can practise. *)
(***************************************************************************)
EXTENDS Naturals, Sequences, SequencesExt

NO_KC == "no_kc"

Trains(kc) == [kc |-> kc, concept |-> FALSE]
Explains(kc) == [kc |-> kc, concept |-> TRUE]
InterleaveGate == [kc |-> NO_KC, concept |-> FALSE]

U1 == <<Trains("ratio_language"), Trains("equivalent_ratios"), Trains("unit_rate"),
        Trains("better_buy"), Trains("percent"), Trains("unit_conversion")>>

U2 == <<Trains("equivalence"), Trains("addition_unlike"), Trains("gcf_lcm"),
        Trains("divide_fractions"), Trains("multiply_fractions"),
        Trains("multi_digit_division"), Trains("decimal_operations"), InterleaveGate>>

U3 == <<Trains("signed_numbers"), Trains("number_line_placement"),
        Trains("number_line_placement"), Trains("absolute_value"),
        Trains("classify_number_sets"), Trains("coordinate_plane"), InterleaveGate>>

UInt == <<Trains("integer_add_subtract"), Trains("integer_add_subtract"),
          Trains("integer_multiply_divide"), InterleaveGate>>

U4 == <<Trains("exponents"), Trains("write_expressions"), Trains("expression_parts"),
        Trains("evaluate_expressions"), Trains("equivalent_expressions"),
        Trains("dependent_vars")>>

U5 == <<Trains("equation_solutions"), Trains("one_step_equations"),
        Trains("one_step_equations"), Trains("inequalities"), Trains("dependent_vars")>>

U6 == <<Trains("triangle_properties"), Trains("area_polygons"), Trains("area_polygons"),
        Trains("volume_fractional_edges"), Trains("polygons_coordinate_plane"),
        Trains("surface_area_nets")>>

U7 == <<Trains("statistical_questions"), Trains("data_displays"),
        Trains("center_spread_shape"), Trains("summary_statistics"),
        Trains("mean_absolute_deviation"), Trains("categorical_data")>>

U8 == <<Explains("banking"), Explains("banking"), Trains("check_register"),
        Explains("credit"), Explains("college_pay"), Trains("lifetime_income")>>

CURRICULUM == <<U1, U2, U3, UInt, U4, U5, U6, U7, U8>>
--------------------------------------------------------------------------------
SPINE_ORDER ==
    <<"number_line_placement", "equivalence", "common_denominator", "addition_unlike",
      "subtraction_unlike", "ratio_language", "unit_rate", "better_buy",
      "equivalent_ratios", "percent", "multiply_fractions", "divide_fractions",
      "unit_conversion", "gcf_lcm", "multi_digit_division", "decimal_operations",
      "absolute_value", "integer_add_subtract", "signed_numbers", "write_expressions",
      "evaluate_expressions", "one_step_equations", "equation_solutions",
      "dependent_vars", "equivalent_expressions", "inequalities", "coordinate_plane",
      "classify_number_sets", "expression_parts", "exponents", "integer_multiply_divide",
      "triangle_properties", "area_polygons", "volume_fractional_edges",
      "polygons_coordinate_plane", "surface_area_nets", "mean_absolute_deviation",
      "center_spread_shape", "summary_statistics", "data_displays", "categorical_data",
      "statistical_questions", "check_register", "lifetime_income">>

\* The skills that wait for one and the same skill, for each such skill.
\* No skill of the catalogue waits for more than one.
UnlockedBy ==
    [number_line_placement |->
        {"equivalence", "multi_digit_division", "absolute_value", "integer_add_subtract",
         "signed_numbers", "write_expressions", "one_step_equations", "coordinate_plane",
         "exponents", "triangle_properties", "center_spread_shape", "data_displays",
         "statistical_questions"},
     equivalence |->
        {"common_denominator", "ratio_language", "unit_rate", "equivalent_ratios",
         "percent", "multiply_fractions", "decimal_operations"},
     common_denominator |-> {"addition_unlike", "subtraction_unlike", "gcf_lcm"},
     ratio_language |-> {"categorical_data"},
     unit_rate |-> {"better_buy", "unit_conversion"},
     multiply_fractions |->
        {"divide_fractions", "volume_fractional_edges", "lifetime_income"},
     multi_digit_division |-> {"summary_statistics"},
     absolute_value |-> {"mean_absolute_deviation"},
     integer_add_subtract |-> {"integer_multiply_divide", "check_register"},
     signed_numbers |-> {"classify_number_sets"},
     write_expressions |->
        {"evaluate_expressions", "equivalent_expressions", "inequalities",
         "expression_parts"},
     evaluate_expressions |-> {"dependent_vars", "area_polygons"},
     one_step_equations |-> {"equation_solutions"},
     coordinate_plane |-> {"polygons_coordinate_plane"},
     area_polygons |-> {"surface_area_nets"}]

KC_PREREQUISITES ==
    [kc \in ToSet(SPINE_ORDER) |-> {earlier \in DOMAIN UnlockedBy : kc \in UnlockedBy[earlier]}]
================================================================================
