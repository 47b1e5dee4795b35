--------------------------- MODULE LessonCatalog ---------------------------
(***************************************************************************)
(* The static tables every part of the live lesson reads: which knowledge  *)
(* components exist, the representations the live surface can pose each    *)
(* one in, the surface each error category routes to, and the              *)
(* prerequisites a struggling learner may be dropped to.  The tables are   *)
(* constants: the theorems hold for every catalogue that meets the         *)
(* assumptions, the runs use rows copied from the source.                  *)
(***************************************************************************)
EXTENDS Naturals, Sequences

Representation == {"symbolic", "area_model", "number_line", "word_problem",
                   "expression", "inequality", "coordinate_plane", "number_sets"}

SurfaceState == {"S1_symbolic_focus", "S2_number_line_primary",
                 "S3_fraction_bars_primary", "S4_worked_example",
                 "S5_transfer_probe"}

\* The categories the verifier puts a wrong answer in; "none" is a right one.
WrongCategory == {"magnitude", "operation", "format", "other"}
ErrorCategory == WrongCategory \cup {"none"}

NoRoute == "no_route"

CONSTANTS
  KC,                   \* knowledge components (one lesson each)
  Built,                \* those that have content to make problems from
  Slips,                \* the categories wrong answers to them fall in
  LiveReps,             \* KC -> the representations the surface can pose, in order
  ErrorRoutes,          \* KC -> (category -> representation, or NoRoute)
  RemediationRouting,   \* KC -> the prerequisites it may drop to ({} if terminal)
  MagnitudeFlavored,    \* prerequisites a magnitude error points at
  OperationFlavored,    \* prerequisites an operation error points at
  ErrorFinding          \* KCs whose transfer probe poses "reject this claim"

ASSUME CatalogAssumption ==
  /\ Built \subseteq KC
  /\ Slips \subseteq WrongCategory
  /\ LiveReps \in [KC -> Seq(Representation)]
  /\ \A kc \in KC :
        /\ Len(LiveReps[kc]) >= 1
        /\ \A i, j \in 1..Len(LiveReps[kc]) :
              LiveReps[kc][i] = LiveReps[kc][j] => i = j
  /\ ErrorRoutes \in [KC -> [ErrorCategory -> Representation \cup {NoRoute}]]
  /\ RemediationRouting \in [KC -> SUBSET KC]
  /\ \A kc \in KC : kc \notin RemediationRouting[kc]
  /\ MagnitudeFlavored \subseteq KC
  /\ OperationFlavored \subseteq KC
  /\ ErrorFinding \subseteq KC

\* Counters are only ever compared with a bound, so a value past the bound is
\* represented by the bound.
AtMost(n, bound) == IF n < bound THEN n ELSE bound
=============================================================================
