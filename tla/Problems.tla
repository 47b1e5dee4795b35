------------------------------ MODULE Problems ------------------------------
(***************************************************************************)
(* The shape of a problem and of a worked example, shared by the content   *)
(* of every strand (domain/problem_generators.py, tutor/worked_example.py).*)
(* Texts are left out; of a worked step the model keeps the numbers it     *)
(* writes, as written (<<4, 6>> is "4/6", <<12, 1>> is "12", "0.25" is     *)
(* <<25, 100, "decimal">>), the value it reveals, and whether it names an  *)
(* answer that is no number.                                               *)
(***************************************************************************)
EXTENDS Rationals, Sequences, FiniteSets

Difficulties == 1..4

(* Nothing: a value that is not there (Python's None).                     *)
Nothing == <<>>

(* canonical is what an answer is compared with: the value itself, or the  *)
(* expression, inequality, points or labels of a structured answer, beside *)
(* which the numeric value is a filler.  source: a product to distribute.  *)
Numeric(kc, format, operands, answer) ==
    [kc |-> kc, format |-> format, kind |-> "numeric", relation |-> "equal",
     operands |-> operands, answer |-> answer, canonical |-> answer,
     source |-> Nothing, givenDenominator |-> 0]

YesNo(kc, format, relation, operands, filler) ==
    [Numeric(kc, format, operands, filler)
       EXCEPT !.kind = "yes_no", !.relation = relation]

Structured(kc, format, kind, operands, canonical) ==
    [Numeric(kc, format, operands, Whole(0))
       EXCEPT !.kind = kind, !.canonical = canonical]

Arity(problem) == Len(problem.operands)

(* The operands as plain integers.                                         *)
Int1(problem, i) == Num(problem.operands[i])

Wholes(s) == [i \in 1..Len(s) |-> Whole(s[i])]

(* ------------------------------ decimals ------------------------------ *)
Places(r) == CHOOSE n \in 0..4 : /\ 10^n % Den(r) = 0
                                 /\ \A m \in 0..(n - 1) : 10^m % Den(r) # 0

(* A terminating decimal as it is written; a whole number has no point.    *)
DecimalForm(r) ==
    LET unit == 10^Places(r)
    IN  IF Den(r) = 1 THEN r ELSE <<(Num(r) * unit) \div Den(r), unit, "decimal">>

IsDecimal(w) == Len(w) = 3

(* -------------------------- worked examples --------------------------- *)
Says(forms) == [writes |-> forms, reveals |-> Nothing, tells |-> FALSE]
Reveals(forms, value) == [Says(forms) EXCEPT !.reveals = value]

(* The step names the answer itself, which is no number: the verdict, the  *)
(* expression, the points.  It reveals no value.                           *)
Tells(forms) == [Says(forms) EXCEPT !.tells = TRUE]

(* The builder raises: the problem does not carry what the steps need.     *)
Unbuildable == <<>>

(* ------------------------------ the draws ----------------------------- *)
DenomByDifficulty ==
    <<{2, 3, 4}, {3, 4, 5, 6}, {5, 6, 8}, {6, 8, 10, 12}>>

ProperFractions(d) ==
    UNION {{Rational(n, q) : n \in 1..(q - 1)} : q \in DenomByDifficulty[d]}

UnlikePairs(d) ==
    {pr \in ProperFractions(d) \X ProperFractions(d) : Den(pr[1]) # Den(pr[2])}

(* Fifty tries, then a fixed pair.                                         *)
UnlikePairsSumBelowOne(d) ==
    {pr \in UnlikePairs(d) : Below(Plus(pr[1], pr[2]), Whole(1))}
      \cup {<<<<1, 4>>, <<1, 3>>>>}

(* FAULTY: the pair as drawn.                                              *)
OrderedUnlikePairsAsDrawn(d) == UnlikePairs(d)

OrderedUnlikePairs(d) == {pr \in UnlikePairs(d) : Below(pr[2], pr[1])}
=============================================================================
