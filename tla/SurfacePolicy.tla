--------------------------- MODULE SurfacePolicy ---------------------------
(***************************************************************************)
(* The reactive surface policy: where an answered problem moves the        *)
(* learner's surface.  Pure; the tutor applies the decision.               *)
(***************************************************************************)
EXTENDS LessonCatalog

CONSTANTS FadeStreak,   \* correct unhinted answers in a state before it fades
          StuckErrors   \* consecutive errors that mean "stuck"

ASSUME PolicyAssumption == FadeStreak \in Nat \ {0} /\ StuckErrors \in Nat \ {0}

\* The surface that renders a representation; a word problem has none.
SurfaceFor(rep) ==
  CASE rep = "area_model"                          -> "S3_fraction_bars_primary"
    [] rep \in {"number_line", "coordinate_plane"} -> "S2_number_line_primary"
    [] rep \in {"symbolic", "expression", "inequality", "number_sets"}
                                                   -> "S1_symbolic_focus"
    [] OTHER                                       -> NoRoute

\* One error's surface, by the lesson's own routes.
ErrorSurface(kc, category) == SurfaceFor(ErrorRoutes[kc][category])

NoChange == [moves |-> FALSE]
StateChange(surface) == [moves |-> TRUE, to |-> surface]

\* Two errors in a row: the worked example, from any state.
Stuck(o, errors) == ~o.correct /\ errors >= StuckErrors

\* Enough unaided successes in a scaffolded state: back to the fluent one.
Fades(surface, o, streak) ==
  /\ o.correct /\ ~o.hinted
  /\ surface # "S1_symbolic_focus"
  /\ streak >= FadeStreak

\* A first error: the representation that exposes its kind, if it is another.
Reroutes(kc, surface, o) ==
  /\ ~o.correct
  /\ ErrorSurface(kc, o.category) \notin {NoRoute, surface}

\* The decision on an answer.  The order of the tests is the policy's.
NextTransition(kc, surface, o, streak, errors) ==
  IF Stuck(o, errors) THEN StateChange("S4_worked_example")
  ELSE IF Fades(surface, o, streak) THEN StateChange("S1_symbolic_focus")
  ELSE IF Reroutes(kc, surface, o) THEN StateChange(ErrorSurface(kc, o.category))
  ELSE NoChange
=============================================================================
