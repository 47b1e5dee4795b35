---------------------------- MODULE PracticeItem ----------------------------
(***************************************************************************)
(* One practice item from the draw to the verdict: the problem served, the *)
(* widget the page answers it on, the hints asked for while it is open, the*)
(* grading of what was entered.  Any lesson, any live format, any tier.    *)
(***************************************************************************)
EXTENDS ProblemBank

CONSTANTS
    Served,               \* the lessons practised
    MaxHints              \* bound: hints asked for on one item

ASSUME ItemAssumption == Served \subseteq Lessons /\ MaxHints \in Nat

VARIABLES
    items,                \* the problem on screen, or none
    hints_this_problem,
    lastMatched,          \* the last answer was a misconception known by name
    said                  \* the worked line the last hint read out

vars == <<items, hints_this_problem, lastMatched, said>>

(* A hint that reads no line of the worked example: the banked nudge.      *)
Nudge == Says({})

(* ------------------------------ the widget ---------------------------- *)
FractionAnswers ==
    {"equivalence", "addition_unlike", "subtraction_unlike", "multiply_fractions",
     "divide_fractions", "ratio_language", "volume_fractional_edges"}

(* What the server names for a format, and what the page makes of it.      *)
WidgetId(p) ==
    CASE p.format = "symbolic" -> IF p.kc \in FractionAnswers THEN "fraction_editor"
                                                             ELSE "number_entry"
      [] p.format = "area_model" -> "fraction_bars"
      [] p.format = "number_sets" -> "classify_sets"
      [] OTHER -> p.format

SelectWidget(p) ==
    IF p.kind = "yes_no" THEN "yes_no"
    ELSE IF WidgetId(p) \in {"expression", "inequality", "coordinate_plane", "classify_sets",
                             "number_line", "number_entry"} THEN WidgetId(p)
    ELSE "fraction_editor"

AxisMin(p) == Min({0, Num(p.answer) \div Den(p.answer)})
AxisMax(p) == Max({1, -((-Num(p.answer)) \div Den(p.answer))})

(* The marker snaps to the ticks of the answer's denominator.              *)
OnTick(p, value) ==
    /\ Den(p.answer) % Den(value) = 0
    /\ ~Below(value, Whole(AxisMin(p)))
    /\ ~Below(Whole(AxisMax(p)), value)

(* Digits only in both boxes; a given denominator stays.                   *)
InTwoBoxes(p, value) ==
    /\ Num(value) >= 0
    /\ p.givenDenominator # 0 => p.givenDenominator % Den(value) = 0

(* The page renders the plane with its defaults, for every lesson.         *)
PlaneMaxPoints == 1
PlaneEnd == 10
Plotted(points) ==
    /\ Cardinality(points) <= PlaneMaxPoints
    /\ \A pt \in points, i \in {1, 2} : Magnitude(pt[i]) <= PlaneEnd

OfferedSets == {"rational", "integer", "whole"}

CanEnter(p, value) ==
    CASE SelectWidget(p) = "number_line" -> OnTick(p, value)
      [] SelectWidget(p) = "fraction_editor" -> InTwoBoxes(p, value)
      [] SelectWidget(p) = "coordinate_plane" -> Plotted(value)
      [] SelectWidget(p) = "classify_sets" -> value \subseteq OfferedSets
      [] OTHER -> TRUE

(* Everything that can be entered and that the verifier tells apart, but   *)
(* for the wrong answers no misconception predicts.                        *)
Entries(p) ==
    IF p.kind = "yes_no" THEN BOOLEAN
    ELSE IF p.kc = "common_denominator" THEN {Whole(n) : n \in 1..(2 * Num(p.answer))}
    ELSE {value \in {p.canonical} \cup {slip.value : slip \in NamedSlips(p)} : CanEnter(p, value)}

(* ------------------------------ the hints ----------------------------- *)
Size(n) == CHOOSE m \in 1..8 : n < 10^m /\ \A k \in 1..(m - 1) : n >= 10^k

StartsWith(n, x) == Size(n) >= Size(x) /\ n \div 10^(Size(n) - Size(x)) = x
EndsWith(n, x) == Size(n) >= Size(x) /\ n % 10^Size(x) = x
DigitsHold(n, x) ==
    \E k \in 0..(Size(n) - Size(x)) : (n \div 10^k) % 10^Size(x) = x

(* Whole digits and, with its leading zeros, fraction digits of a decimal. *)
WholePart(w) == Magnitude(Num(w)) \div Den(w)
PointHolds(w, x) ==
    LET digits == Magnitude(Num(w)) % Den(w)
    IN  \E k \in 0..(Size(Den(w)) - 1 - Size(x)) : (digits \div 10^k) % 10^Size(x) = x

(* The written number w holds the answer's text: "p/q", or "p" of a whole  *)
(* answer.  Texts are compared, so "18" holds "8" and "2/12" not "1/6";    *)
(* "0.5" holds "5" and not "1/2".                                          *)
HoldsFraction(w, a) ==
    /\ Den(w) # 1 /\ ~IsDecimal(w)
    /\ StartsWith(Den(w), Den(a))
    /\ IF Num(a) < 0 THEN Num(w) = Num(a) ELSE EndsWith(Magnitude(Num(w)), Num(a))

HoldsWhole(w, n) ==
    LET lead == IF IsDecimal(w) THEN WholePart(w) ELSE Magnitude(Num(w))
    IN  IF n < 0 THEN Num(w) < 0 /\ StartsWith(lead, -n)
        ELSE \/ DigitsHold(lead, n)
             \/ IsDecimal(w) /\ PointHolds(w, n)
             \/ Den(w) # 1 /\ ~IsDecimal(w) /\ DigitsHold(Den(w), n)

HoldsAnswer(w, a) ==
    HoldsFraction(w, a) \/ (Den(a) = 1 /\ HoldsWhole(w, Num(a)))

(* FAULTY: only the revealed value is looked at.                           *)
GivesAwayRevealed(step, a) == step.reveals = a

(* Written as it stands, or inside a longer number.                        *)
GivesAway(step, a) ==
    step.reveals = a \/ a \in step.writes \/ \E w \in step.writes : HoldsAnswer(w, a)

(* The worked steps before the first that gives the answer away.  A ratio  *)
(* has two lines of its own, which name no number.                         *)
AnswerFreeLines(p) ==
    LET steps == WorkedExampleFor(p)
        told == {i \in DOMAIN steps : GivesAway(steps[i], p.answer)}
    IN  IF p.kc = "ratio_language" THEN <<Nudge, Nudge>>
        ELSE IF told = {} THEN steps ELSE SubSeq(steps, 1, Min(told) - 1)

HintLine(p, clicks) ==
    LET lines == AnswerFreeLines(p)
    IN  IF (clicks = 0 /\ lastMatched) \/ lines = <<>> THEN Nudge
        ELSE lines[Min({clicks + 1, Len(lines)})]

(* ------------------------------ behaviour ----------------------------- *)
Init ==
    /\ items = {}
    /\ hints_this_problem = 0
    /\ lastMatched = FALSE
    /\ said = Nudge

Serve(kc, format, d) ==
    /\ items = {}
    /\ \E p \in GenerateProblem(kc, format, d) : items' = {p}
    /\ hints_this_problem' = 0
    /\ said' = Nudge
    /\ UNCHANGED lastMatched

AskHint ==
    /\ hints_this_problem < MaxHints
    /\ \E p \in items : said' = HintLine(p, hints_this_problem)
    /\ hints_this_problem' = hints_this_problem + 1
    /\ UNCHANGED <<items, lastMatched>>

(* FAULTY: the hint count outlives its item.                               *)
SettleKeepsHints(verdict) ==
    /\ lastMatched' = (verdict.misconception # "none")
    /\ items' = {}
    /\ said' = Nudge
    /\ UNCHANGED hints_this_problem

Settle(verdict) ==
    /\ lastMatched' = (verdict.misconception # "none")
    /\ items' = {}
    /\ hints_this_problem' = 0
    /\ said' = Nudge

Answer ==
    \E p \in items : \E given \in Entries(p) : Settle(Verify(p, given))

(* Anything else, or text the verifier cannot read.                        *)
AnswerOther ==
    \E p \in items : p.kind # "yes_no" /\ Settle(Unmatched("other"))

Next ==
    \/ \E kc \in Served, d \in Difficulties : \E format \in LiveFormats(kc) : Serve(kc, format, d)
    \/ AskHint
    \/ Answer
    \/ AnswerOther

Spec == Init /\ [][Next]_vars

(* ----------------------------- properties ----------------------------- *)
(* The counters stay in range, and an idle page keeps nothing of an item:  *)
(* hint count and last line are reset with it (service.py _serve_next).    *)
TypeOK ==
    /\ Cardinality(items) <= 1
    /\ \A p \in items : p.format \in Advertised[p.kc]
    /\ hints_this_problem \in 0..MaxHints
    /\ lastMatched \in BOOLEAN
    /\ items = {} => hints_this_problem = 0 /\ said = Nudge

(* The right answer can be entered on the widget the item is answered on:  *)
(* no draw of any generator, in any format the scheduler serves, is wider  *)
(* than the editor.  Not so of points and number sets: the page's plane    *)
(* holds one point, its set widget has no natural numbers (README).        *)
RightAnswerCanBeGiven ==
    \A p \in items :
      p.kind \notin {"yes_no", "coordinate", "number_sets"} => CanEnter(p, p.canonical)

(* A misconception never leads to the right answer, whatever was drawn: the*)
(* wrong answer it predicts is graded wrong, and by a name the bank maps to*)
(* the lesson.  The verifier tests for the right answer first, so that a   *)
(* collision would teach the slip.  A swapped point of dependent_vars has a*)
(* name the bank keeps for the plane lessons (README).                     *)
SlipIsDiagnosed ==
    \A p \in items : \A slip \in NamedSlips(p) :
      LET verdict == Verify(p, slip.value)
      IN  /\ ~verdict.correct
          /\ IF p.kc = "dependent_vars" /\ p.kind = "coordinate"
             THEN verdict.misconception = "coordinate-swap"
             ELSE verdict.misconception \in Misconceptions(p.kc)

(* A recognised error is routed (lesson_spec.py, "routing can never target *)
(* a widget the lesson does not render"): its lesson declares a route for  *)
(* its category, to a representation the component advertises and the      *)
(* scheduler serves.  Four fraction lessons route to bars that no live item*)
(* is posed with.                                                          *)
BarsNotServed == {"equivalence", "common_denominator", "addition_unlike", "subtraction_unlike"}

SlipIsRouted ==
    \A p \in items : \A given \in Entries(p) :
      LET error == Verify(p, given).error
          routed == RepresentationForError(p.kc, error)
      IN  error \notin {"none", "other"} =>
            /\ routed # {}
            /\ routed \subseteq Advertised[p.kc]
            /\ p.kc \notin BarsNotServed => routed \subseteq LiveFormats(p.kc)

(* A worked example ends on the answer: its last step reveals the correct  *)
(* value and writes a number of that value, or, where the answer is no     *)
(* number, names it.  The rate of several units is left out: its last step *)
(* stops at the two factors, "3 x 5", that make the answer.  An example is *)
(* missing only for a story or a comparison of two fractions.              *)
OfSeveralUnits(p) == p.kc = "unit_rate" /\ Arity(p) = 4

EndsOn(step, p) ==
    IF p.kind # "numeric" THEN step.tells
    ELSE /\ step.reveals = p.answer
         /\ \/ \E w \in step.writes : w = p.answer \/ Rational(Num(w), Den(w)) = p.answer
            \/ OfSeveralUnits(p) /\ \E v, w \in step.writes : Times(v, w) = p.answer

WorkedEndsOnAnswer ==
    \A p \in items :
      LET steps == WorkedExampleFor(p)
      IN  IF steps = Unbuildable
          THEN p.kind = "yes_no" /\ p.kc \in {"equivalence", "number_line_placement"}
          ELSE EndsOn(steps[Len(steps)], p)

(* The decimals a question itself states, where its lesson has any.        *)
DecimalLessons == {"decimal_operations", "check_register"}
PosedDecimals(p) ==
    IF p.kc \notin DecimalLessons THEN {}
    ELSE {w \in {DecimalForm(p.operands[i]) : i \in DOMAIN p.operands} : IsDecimal(w)}

(* However often a hint is asked for, no line read out writes a number of  *)
(* the answer's value, lowest terms or not, of a numeric item.  The filter *)
(* (service.py _answer_forms) compares texts, and so misses two things that*)
(* are left out here although service.py:1108 has "NEVER ... in any form": *)
(* the second line of a product or quotient of fractions writes the answer *)
(* unreduced, and a line that repeats a decimal of its question may repeat *)
(* the answer ("Divide 0.25 by 0.5" for a quotient of 0.5).                *)
HintsKeepAnswer ==
    \A p \in items :
      p.kind = "numeric" /\ p.kc \notin {"multiply_fractions", "divide_fractions"} =>
        \A w \in said.writes \ PosedDecimals(p) : Rational(Num(w), Den(w)) # p.answer
=============================================================================
