----------------------------- MODULE MCCatalog -----------------------------
(***************************************************************************)
(* Lesson catalogues for TLC: rows copied from the tables of the source.   *)
(* Each run takes a few lessons:                                           *)
(*   FoundationKC  addition_unlike alone: a terminal lesson (no drop), the *)
(*                 three-step probe with the error-finding pair            *)
(*   IntegerKC     a chain of drops, so that a second level is there to be *)
(*                 refused; its middle lesson may drop to a prerequisite   *)
(*                 an operation slip points at, or to one without content  *)
(*   SumsKC        the lower two levels of that chain                      *)
(*   DecimalKC     decimal_operations, whose prerequisite has one live     *)
(*                 representation only                                     *)
(***************************************************************************)
EXTENDS LessonCatalog, LessonSpecs

FoundationKC == {"addition_unlike"}
IntegerKC == {"integer_multiply_divide", "integer_add_subtract",
              "addition_unlike", "rationals_on_line"}
SumsKC == {"integer_add_subtract", "addition_unlike", "rationals_on_line"}
DecimalKC == {"decimal_operations", "multi_digit_division"}

MCBuilt == KC \ {"rationals_on_line"}

\* One slip an error route and a flavored prerequisite answer to, one neither.
TwoSlips == {"operation", "other"}

MCLiveReps ==
  [kc \in KC |->
     CASE kc = "decimal_operations" -> <<"symbolic", "area_model">>
       [] kc \in {"addition_unlike", "integer_add_subtract", "integer_multiply_divide"} ->
            <<"symbolic", "number_line">>
       [] kc \in {"multi_digit_division", "rationals_on_line"} -> <<"symbolic">>]

\* What a lesson declares; a component without content declares nothing.
MCErrorRoutes ==
  [kc \in KC |->
     [c \in ErrorCategory |->
        IF kc \notin Declared \/ RepresentationForError(kc, c) = {} THEN NoRoute
        ELSE CHOOSE rep \in RepresentationForError(kc, c) : TRUE]]

MCRemediationRouting ==
  [kc \in KC |->
     KC \cap (CASE kc = "decimal_operations"      -> {"multi_digit_division"}
                [] kc = "integer_multiply_divide" -> {"integer_add_subtract"}
                [] kc = "integer_add_subtract"    -> {"rationals_on_line", "addition_unlike"}
                [] OTHER                          -> {})]

MCOperationFlavored == KC \cap {"addition_unlike"}
MCErrorFinding == KC \cap ErrorFindingLessons
=============================================================================
