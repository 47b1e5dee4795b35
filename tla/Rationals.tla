----------------------------- MODULE Rationals -----------------------------
(***************************************************************************)
(* The exact numbers of the problem content (SymPy's Rational): a reduced  *)
(* fraction <<p, q>> with q > 0.  External to the repository; modelled from*)
(* how the generators and the verifier use it.                             *)
(***************************************************************************)
EXTENDS Integers

Gcd[ab \in Nat \X Nat] == IF ab[2] = 0 THEN ab[1] ELSE Gcd[<<ab[2], ab[1] % ab[2]>>]

Lcm(a, b) == (a * b) \div Gcd[<<a, b>>]

Magnitude(n) == IF n < 0 THEN -n ELSE n

Rational(p, q) ==
    LET g == Gcd[<<Magnitude(p), Magnitude(q)>>]
        s == IF q < 0 THEN -1 ELSE 1
    IN  <<s * (p \div g), s * (q \div g)>>

Whole(n) == <<n, 1>>

Num(r) == r[1]
Den(r) == r[2]

Plus(r, s)  == Rational(Num(r) * Den(s) + Num(s) * Den(r), Den(r) * Den(s))
Minus(r, s) == Rational(Num(r) * Den(s) - Num(s) * Den(r), Den(r) * Den(s))
Times(r, s) == Rational(Num(r) * Num(s), Den(r) * Den(s))
Over(r, s)  == Rational(Num(r) * Den(s), Den(r) * Num(s))
Below(r, s) == Num(r) * Den(s) < Num(s) * Den(r)
=============================================================================
