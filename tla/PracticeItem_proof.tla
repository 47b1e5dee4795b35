-------------------------- MODULE PracticeItem_proof ---------------------------
(***************************************************************************)
(* What holds of every problem the generators can draw, whatever the pools *)
(* they draw from.                                                         *)
(***************************************************************************)
EXTENDS PracticeItem, FiniteSetTheorems, WellFoundedInduction, TLAPS
--------------------------------------------------------------------------------
(* The exact numbers.  The definition of Gcd is solved by the least of the *)
(* positive combinations of its arguments, so Gcd itself solves it; what it*)
(* does follows by descent on its second argument.                         *)
LEMMA LeastNatural ==
    ASSUME NEW S \in SUBSET Nat, S # {}
    PROVE  \E n \in S : \A m \in S : n <= m
<1>1. PICK n \in S : \A m \in S : <<m, n>> \notin OpToRel(<, Nat)
  BY NatLessThanWellFounded, WFMin
<1>2. \A m \in S : ~(m < n)
  BY <1>1 DEF OpToRel
<1> QED BY <1>2

(* The positive numbers x * a + y * b: their least is the greatest common  *)
(* divisor.                                                                *)
Combinations(a, b) == {n \in Nat \ {0} : \E x, y \in Int : n = x * a + y * b}

Least(S) == IF S = {} THEN 0 ELSE CHOOSE n \in S : \A m \in S : n <= m

LEMMA CombinationsStep ==
    ASSUME NEW a \in Nat, NEW b \in Nat \ {0}
    PROVE  Combinations(a, b) = Combinations(b, a % b)
<1> DEFINE q == a \div b
           r == a % b
<1>1. q \in Nat /\ r \in Nat /\ a = b * q + r
  OBVIOUS
<1> HIDE DEF q, r
<1>2. ASSUME NEW n \in Nat \ {0}, NEW x \in Int, NEW y \in Int, n = x * a + y * b
      PROVE  \E u, v \in Int : n = u * b + v * r
  <2>1. n = (x * q + y) * b + x * r
    BY <1>1, <1>2
  <2>2. x * q + y \in Int
    BY <1>1
  <2> QED BY <2>1, <2>2
<1>3. ASSUME NEW n \in Nat \ {0}, NEW u \in Int, NEW v \in Int, n = u * b + v * r
      PROVE  \E x, y \in Int : n = x * a + y * b
  <2>1. n = v * a + (u - v * q) * b
    BY <1>1, <1>3
  <2>2. u - v * q \in Int
    BY <1>1
  <2> QED BY <2>1, <2>2
<1>4. Combinations(a, b) \subseteq Combinations(b, r)
  BY <1>2 DEF Combinations
<1>5. Combinations(b, r) \subseteq Combinations(a, b)
  BY <1>3 DEF Combinations
<1> QED BY <1>4, <1>5 DEF r

LEMMA CombinationsBase ==
    ASSUME NEW a \in Nat
    PROVE  Least(Combinations(a, 0)) = a
<1>1. CASE a = 0
  <2>1. Combinations(a, 0) = {}
    BY <1>1 DEF Combinations
  <2> QED BY <1>1, <2>1 DEF Least
<1>2. CASE a # 0
  <2>1. a \in Combinations(a, 0)
    <3>1. a = 1 * a + 0 * 0
      OBVIOUS
    <3> QED BY <1>2, <3>1 DEF Combinations
  <2>2. ASSUME NEW n \in Combinations(a, 0)
        PROVE  n \in Nat /\ a <= n
    <3>1. PICK x \in Int, y \in Int : n = x * a + y * 0
      BY DEF Combinations
    <3>2. n \in Nat /\ n > 0
      BY DEF Combinations
    <3>3. n = x * a
      BY <3>1
    <3>4. x >= 1
      BY <1>2, <3>2, <3>3
    <3> QED BY <1>2, <3>2, <3>3, <3>4
  <2>3. \A n \in Combinations(a, 0) : (\A m \in Combinations(a, 0) : n <= m) => n = a
    BY <2>1, <2>2
  <2>4. \A m \in Combinations(a, 0) : a <= m
    BY <2>2
  <2> QED BY <2>1, <2>3, <2>4 DEF Least
<1> QED BY <1>1, <1>2

LEMMA GcdStep ==
    ASSUME NEW a \in Nat, NEW b \in Nat
    PROVE  Gcd[<<a, b>>] = IF b = 0 THEN a ELSE Gcd[<<b, a % b>>]
<1> DEFINE Unfolded(f) ==
             [ab \in Nat \X Nat |-> IF ab[2] = 0 THEN ab[1] ELSE f[<<ab[2], ab[1] % ab[2]>>]]
           G == [ab \in Nat \X Nat |-> Least(Combinations(ab[1], ab[2]))]
<1>1. ASSUME NEW ab \in Nat \X Nat
      PROVE  G[ab] = IF ab[2] = 0 THEN ab[1] ELSE G[<<ab[2], ab[1] % ab[2]>>]
  <2>0. ab[1] \in Nat /\ ab[2] \in Nat
    OBVIOUS
  <2>1. CASE ab[2] = 0
    BY <2>0, <2>1, CombinationsBase
  <2>2. CASE ab[2] # 0
    <3>1. <<ab[2], ab[1] % ab[2]>> \in Nat \X Nat
      BY <2>0, <2>2
    <3>2. G[<<ab[2], ab[1] % ab[2]>>] = Least(Combinations(ab[2], ab[1] % ab[2]))
      BY <3>1
    <3> QED BY <2>0, <2>2, <3>2, CombinationsStep
  <2> QED BY <2>1, <2>2
<1>2. G = Unfolded(G)
  <2> HIDE DEF G
  <2>1. G = [ab \in Nat \X Nat |-> G[ab]]
    BY DEF G
  <2> QED BY <1>1, <2>1
<1>3. Gcd = CHOOSE f : f = Unfolded(f)
  BY Zenon DEF Gcd
<1> HIDE DEF G
<1>4. Gcd = Unfolded(Gcd)
  <2> HIDE DEF Unfolded
  <2> QED BY <1>2, <1>3
<1> DEFINE u == Unfolded(Gcd)
<1>5. u[<<a, b>>] = IF b = 0 THEN a ELSE Gcd[<<b, a % b>>]
  OBVIOUS
<1> QED BY <1>4, <1>5

(* The greatest common divisor is a divisor of both.                       *)
Divides(g, n) == g \in Nat /\ \E k \in Nat : n = k * g

LEMMA GcdDivides ==
    ASSUME NEW a \in Nat, NEW b \in Nat
    PROVE  Divides(Gcd[<<a, b>>], a) /\ Divides(Gcd[<<a, b>>], b)
<1> DEFINE Holds(c, d) == Divides(Gcd[<<c, d>>], c) /\ Divides(Gcd[<<c, d>>], d)
           Fails == {d \in Nat : \E c \in Nat : ~Holds(c, d)}
<1>1. SUFFICES ASSUME Fails # {} PROVE FALSE
  OBVIOUS
<1>2. PICK d \in Fails : \A e \in Fails : d <= e
  <2>1. Fails \in SUBSET Nat
    OBVIOUS
  <2> HIDE DEF Fails
  <2> QED BY <1>1, <2>1, LeastNatural
<1>3. PICK c \in Nat : ~Holds(c, d)
  OBVIOUS
<1>4. d \in Nat
  OBVIOUS
<1>5. CASE d = 0
  <2>1. Gcd[<<c, d>>] = c
    BY <1>4, <1>5, GcdStep
  <2>2. c = 1 * c /\ d = 0 * c
    BY <1>5
  <2> QED BY <1>3, <2>1, <2>2 DEF Divides
<1>6. CASE d # 0
  <2> DEFINE r == c % d
             q == c \div d
             g == Gcd[<<d, r>>]
  <2>1. r \in Nat /\ q \in Nat /\ r < d /\ c = d * q + r
    BY <1>4, <1>6
  <2>2. Gcd[<<c, d>>] = g
    BY <1>4, <1>6, GcdStep
  <2>3. r \notin Fails
    <3> HIDE DEF Fails, r
    <3> QED BY <1>2, <1>4, <2>1
  <2> HIDE DEF r, q
  <2>4. Holds(d, r)
    BY <1>4, <2>1, <2>3
  <2> HIDE DEF g
  <2>5. PICK k \in Nat, l \in Nat : g \in Nat /\ d = k * g /\ r = l * g
    BY <2>4 DEF Divides, g
  <2>6. c = (k * q + l) * g /\ k * q + l \in Nat
    <3>1. c = (k * g) * q + l * g
      BY <2>1, <2>5
    <3> QED BY <2>1, <2>5, <3>1
  <2>7. Divides(g, c) /\ Divides(g, d)
    BY <2>5, <2>6 DEF Divides
  <2> QED BY <1>3, <2>2, <2>7
<1> QED BY <1>5, <1>6

LEMMA GcdScale ==
    ASSUME NEW a \in Nat, NEW b \in Nat, NEW k \in Nat \ {0}
    PROVE  Gcd[<<k * a, k * b>>] = k * Gcd[<<a, b>>]
<1> DEFINE Holds(c, d) == Gcd[<<k * c, k * d>>] = k * Gcd[<<c, d>>]
           Fails == {d \in Nat : \E c \in Nat : ~Holds(c, d)}
<1>1. SUFFICES ASSUME Fails # {} PROVE FALSE
  OBVIOUS
<1>2. PICK d \in Fails : \A e \in Fails : d <= e
  <2>1. Fails \in SUBSET Nat
    OBVIOUS
  <2> HIDE DEF Fails
  <2> QED BY <1>1, <2>1, LeastNatural
<1>3. PICK c \in Nat : ~Holds(c, d)
  OBVIOUS
<1>4. d \in Nat
  OBVIOUS
<1>5. CASE d = 0
  <2>1. Gcd[<<c, d>>] = c
    BY <1>4, <1>5, GcdStep
  <2>2. k * c \in Nat /\ k * d \in Nat /\ k * d = 0
    BY <1>5
  <2>3. Gcd[<<k * c, k * d>>] = k * c
    <3> DEFINE n == k * c
               m == k * d
    <3> HIDE DEF n, m
    <3>1. n \in Nat /\ m \in Nat /\ m = 0
      BY <2>2 DEF n, m
    <3>2. Gcd[<<n, m>>] = n
      BY <3>1, GcdStep
    <3> QED BY <3>2 DEF n, m
  <2> QED BY <1>3, <2>1, <2>3
<1>6. CASE d # 0
  <2> DEFINE r == c % d
             q == c \div d
  <2>1. r \in Nat /\ q \in Nat /\ r < d /\ c = d * q + r
    BY <1>4, <1>6
  <2>2. Gcd[<<c, d>>] = Gcd[<<d, r>>]
    BY <1>4, <1>6, GcdStep
  <2>3. r \notin Fails
    <3> HIDE DEF Fails, r
    <3> QED BY <1>2, <1>4, <2>1
  <2> HIDE DEF r, q
  <2>4. Holds(d, r)
    BY <1>4, <2>1, <2>3
  <2>5. /\ k * c \in Nat /\ k * d \in Nat /\ k * d # 0
        /\ k * r \in Nat /\ k * r < k * d
        /\ k * c = (k * d) * q + k * r
    BY <1>4, <1>6, <2>1
  <2>6. (k * c) % (k * d) = k * r
    <3> DEFINE m == k * d
               n == k * c
               s == k * r
    <3>1. m \in Nat \ {0} /\ n \in Nat /\ s \in Nat /\ s < m /\ n = m * q + s
      BY <2>5
    <3> HIDE DEF m, n, s
    <3>2. n % m = s
      BY <2>1, <3>1
    <3> QED BY <3>2 DEF m, n, s
  <2>7. Gcd[<<k * c, k * d>>] = Gcd[<<k * d, k * r>>]
    BY <2>5, <2>6, GcdStep
  <2> QED BY <1>3, <2>2, <2>4, <2>7
<1> QED BY <1>5, <1>6

LEMMA GcdPositive ==
    ASSUME NEW a \in Nat, NEW b \in Nat \ {0}
    PROVE  Gcd[<<a, b>>] \in Nat \ {0}
<1>1. PICK l \in Nat : Gcd[<<a, b>>] \in Nat /\ b = l * Gcd[<<a, b>>]
  BY GcdDivides DEF Divides
<1>2. CASE Gcd[<<a, b>>] = 0
  BY <1>1, <1>2
<1> QED BY <1>1, <1>2

LEMMA GcdOne ==
    ASSUME NEW a \in Nat
    PROVE  Gcd[<<a, 1>>] = 1
<1>1. a % 1 = 0
  OBVIOUS
<1>2. Gcd[<<a, 1>>] = Gcd[<<1, 0>>]
  BY <1>1, GcdStep
<1>3. Gcd[<<1, 0>>] = 1
  BY GcdStep
<1> QED BY <1>2, <1>3

LEMMA ExactQuotient ==
    ASSUME NEW n \in Int, NEW g \in Nat \ {0}
    PROVE  (n * g) \div g = n
<1> DEFINE m == n * g
<1>1. m \in Int /\ m = n * g
  OBVIOUS
<1> HIDE DEF m
<1>2. /\ m \div g \in Int /\ m % g \in Int /\ 0 <= m % g /\ m % g < g
      /\ m = g * (m \div g) + (m % g)
  BY <1>1
<1> DEFINE q == m \div g
           r == m % g
<1> HIDE DEF q, r
<1>3. q \in Int /\ r \in Int /\ 0 <= r /\ r < g /\ n * g = g * q + r
  BY <1>1, <1>2 DEF q, r
<1>4. (n - q) * g = r
  BY <1>3
<1>5. n - q = 0
  BY <1>3, <1>4
<1>6. q = n
  BY <1>3, <1>5
<1> QED BY <1>6 DEF q, m

(* Fractions in lowest terms.                                              *)
LEMMA MagnitudeNat ==
    ASSUME NEW n \in Int
    PROVE  Magnitude(n) \in Nat /\ (n = Magnitude(n) \/ n = -Magnitude(n))
<1> QED BY DEF Magnitude

LEMMA MagnitudeScale ==
    ASSUME NEW n \in Int, NEW k \in Nat \ {0}
    PROVE  Magnitude(k * n) = k * Magnitude(n)
<1>1. CASE n < 0
  <2>1. k * n < 0 /\ k * n \in Int /\ -(k * n) = k * (-n)
    BY <1>1
  <2> QED BY <1>1, <2>1 DEF Magnitude
<1>2. CASE ~(n < 0)
  <2>1. ~(k * n < 0) /\ k * n \in Int
    BY <1>2
  <2> QED BY <1>2, <2>1 DEF Magnitude
<1> QED BY <1>1, <1>2

(* A fraction over a positive denominator, and its reduced form.           *)
LEMMA RationalIs ==
    ASSUME NEW p \in Int, NEW q \in Nat \ {0}
    PROVE  \E m \in Int, n \in Nat \ {0}, g \in Nat \ {0} :
             /\ g = Gcd[<<Magnitude(p), q>>]
             /\ p = m * g /\ q = n * g
             /\ Rational(p, q) = <<m, n>>
<1> DEFINE g == Gcd[<<Magnitude(p), Magnitude(q)>>]
<1>1. Magnitude(q) = q /\ Magnitude(p) \in Nat /\ (p = Magnitude(p) \/ p = -Magnitude(p))
  BY DEF Magnitude
<1>2. g \in Nat \ {0} /\ g = Gcd[<<Magnitude(p), q>>]
  BY <1>1, GcdPositive
<1>3. PICK k \in Nat : Magnitude(p) = k * g
  BY <1>1, GcdDivides DEF Divides
<1>4. PICK n \in Nat : q = n * g
  BY <1>1, GcdDivides DEF Divides
<1>5. Rational(p, q) = <<1 * (p \div g), 1 * (q \div g)>>
  <2>1. ~(q < 0)
    OBVIOUS
  <2> QED BY <2>1 DEF Rational
<1> HIDE DEF g
<1>6. PICK m \in Int : p = m * g
  <2>1. CASE p = Magnitude(p)
    BY <1>3, <2>1
  <2>2. CASE p = -Magnitude(p)
    <3>1. -k \in Int /\ p = (-k) * g
      BY <1>2, <1>3, <2>2
    <3> QED BY <3>1
  <2> QED BY <1>1, <2>1, <2>2
<1>7. n # 0
  BY <1>2, <1>4
<1>8. p \div g = m /\ q \div g = n
  <2>1. (m * g) \div g = m /\ (n * g) \div g = n
    BY <1>2, ExactQuotient
  <2> QED BY <1>4, <1>6, <2>1
<1>9. Rational(p, q) = <<m, n>>
  BY <1>5, <1>8
<1> QED BY <1>2, <1>4, <1>6, <1>7, <1>9

LEMMA RationalType ==
    ASSUME NEW p \in Int, NEW q \in Nat \ {0}
    PROVE  /\ Rational(p, q) = <<Num(Rational(p, q)), Den(Rational(p, q))>>
           /\ Num(Rational(p, q)) \in Int /\ Den(Rational(p, q)) \in Nat \ {0}
<1>1. PICK m \in Int, n \in Nat \ {0}, g \in Nat \ {0} :
        /\ g = Gcd[<<Magnitude(p), q>>]
        /\ p = m * g /\ q = n * g
        /\ Rational(p, q) = <<m, n>>
  BY RationalIs
<1> QED BY <1>1 DEF Num, Den

LEMMA RationalWhole ==
    ASSUME NEW n \in Int
    PROVE  Rational(n, 1) = Whole(n)
<1>1. Gcd[<<Magnitude(n), 1>>] = 1
  BY MagnitudeNat, GcdOne
<1>2. PICK m \in Int, d \in Nat \ {0}, g \in Nat \ {0} :
        /\ g = Gcd[<<Magnitude(n), 1>>]
        /\ n = m * g /\ 1 = d * g
        /\ Rational(n, 1) = <<m, d>>
  BY RationalIs
<1>3. g = 1 /\ m = n /\ d = 1
  BY <1>1, <1>2
<1> QED BY <1>2, <1>3 DEF Whole

LEMMA RationalScale ==
    ASSUME NEW p \in Int, NEW q \in Nat \ {0}, NEW k \in Nat \ {0}
    PROVE  Rational(k * p, k * q) = Rational(p, q)
<1>1. PICK m \in Int, n \in Nat \ {0}, g \in Nat \ {0} :
        /\ g = Gcd[<<Magnitude(p), q>>]
        /\ p = m * g /\ q = n * g
        /\ Rational(p, q) = <<m, n>>
  BY RationalIs
<1> DEFINE P == k * p
           Q == k * q
<1>2. P \in Int /\ Q \in Nat \ {0}
  OBVIOUS
<1>3. Gcd[<<Magnitude(P), Q>>] = k * g
  <2>1. Magnitude(P) = k * Magnitude(p)
    BY MagnitudeScale
  <2> QED BY <1>1, <2>1, MagnitudeNat, GcdScale
<1> HIDE DEF P, Q
<1>4. PICK M \in Int, N \in Nat \ {0}, G \in Nat \ {0} :
        /\ G = Gcd[<<Magnitude(P), Q>>]
        /\ P = M * G /\ Q = N * G
        /\ Rational(P, Q) = <<M, N>>
  BY <1>2, RationalIs
<1>5. G = k * g
  BY <1>3, <1>4
<1>6. M * G = m * G /\ N * G = n * G
  <2>1. P = k * (m * g) /\ Q = k * (n * g)
    BY <1>1 DEF P, Q
  <2>2. k * (m * g) = m * (k * g) /\ k * (n * g) = n * (k * g)
    OBVIOUS
  <2> QED BY <1>4, <1>5, <2>1, <2>2
<1>7. M = m /\ N = n
  <2> HIDE DEF P, Q
  <2>1. (M * G) \div G = M /\ (m * G) \div G = m /\ (N * G) \div G = N /\ (n * G) \div G = n
    BY ExactQuotient
  <2> QED BY <1>6, <2>1
<1> QED BY <1>1, <1>4, <1>7 DEF P, Q

(* Fractions as the learner adds them: over the least common multiple.     *)
Fraction(f) == Num(f) \in Int /\ Den(f) \in Nat \ {0}

LEMMA LcmIs ==
    ASSUME NEW a \in Nat \ {0}, NEW b \in Nat \ {0}
    PROVE  \E g, k, l \in Nat \ {0} :
             a = k * g /\ b = l * g /\ Lcm(a, b) = k * l * g
<1> DEFINE g == Gcd[<<a, b>>]
<1>1. g \in Nat \ {0}
  BY GcdPositive
<1>2. PICK k \in Nat : a = k * g
  BY GcdDivides DEF Divides
<1>3. PICK l \in Nat : b = l * g
  BY GcdDivides DEF Divides
<1>4. Lcm(a, b) = (a * b) \div g
  BY DEF Lcm
<1> HIDE DEF g
<1>5. k # 0 /\ l # 0
  BY <1>1, <1>2, <1>3
<1>6. a * b = (k * l * g) * g
  <2>1. (k * g) * (l * g) = (k * l * g) * g
    BY <1>1
  <2> QED BY <1>2, <1>3, <2>1
<1>7. ((k * l * g) * g) \div g = k * l * g
  BY <1>1, ExactQuotient
<1> QED BY <1>1, <1>2, <1>3, <1>4, <1>5, <1>6, <1>7

LEMMA OverTheLcm ==
    ASSUME NEW f, NEW s, Fraction(f), Fraction(s)
    PROVE  LET common == Lcm(Den(f), Den(s))
               fTop == Num(f) * (common \div Den(f))
               sTop == Num(s) * (common \div Den(s))
           IN  /\ Rational(fTop + sTop, common) = Plus(f, s)
               /\ Rational(fTop - sTop, common) = Minus(f, s)
<1> DEFINE a == Den(f)
           b == Den(s)
           n == Num(f)
           m == Num(s)
           common == Lcm(a, b)
<1>1. a \in Nat \ {0} /\ b \in Nat \ {0} /\ n \in Int /\ m \in Int
  BY DEF Fraction
<1>2. /\ Plus(f, s) = Rational(n * b + m * a, a * b)
      /\ Minus(f, s) = Rational(n * b - m * a, a * b)
  BY DEF Plus, Minus
<1> HIDE DEF a, b, n, m
<1>3. PICK g \in Nat \ {0}, k \in Nat \ {0}, l \in Nat \ {0} :
             a = k * g /\ b = l * g /\ common = k * l * g
  BY <1>1, LcmIs
<1> HIDE DEF common
<1>4. common \in Nat \ {0}
  BY <1>3
<1>5. common \div a = l /\ common \div b = k
  <2>1. (l * a) \div a = l /\ (k * b) \div b = k
    BY <1>1, ExactQuotient
  <2>2. common = l * a /\ common = k * b
    BY <1>3
  <2> QED BY <2>1, <2>2
<1>6. a * b = g * common
  BY <1>3
<1>7. n * b + m * a = g * (n * l + m * k) /\ n * b - m * a = g * (n * l - m * k)
  BY <1>1, <1>3
<1>8. n * l + m * k \in Int /\ n * l - m * k \in Int
  BY <1>1
<1>9. /\ Rational(g * (n * l + m * k), g * common) = Rational(n * l + m * k, common)
      /\ Rational(g * (n * l - m * k), g * common) = Rational(n * l - m * k, common)
  BY <1>4, <1>8, RationalScale
<1>10. /\ Plus(f, s) = Rational(n * l + m * k, common)
       /\ Minus(f, s) = Rational(n * l - m * k, common)
  BY <1>2, <1>6, <1>7, <1>9
<1> QED BY <1>5, <1>10 DEF a, b, n, m, common
--------------------------------------------------------------------------------
(* The draws.  Every generator draws problems of its own lesson, in the    *)
(* format it is asked for.                                                 *)

Of(p, kc, format, kinds) == p.kc = kc /\ p.format = format /\ p.kind \in kinds

LEMMA NumericOf ==
    ASSUME NEW kc, NEW format, NEW operands, NEW answer
    PROVE  Of(Numeric(kc, format, operands, answer), kc, format, {"numeric"})
<1> QED BY DEF Numeric, Of

LEMMA YesNoOf ==
    ASSUME NEW kc, NEW format, NEW relation, NEW operands, NEW filler
    PROVE  Of(YesNo(kc, format, relation, operands, filler), kc, format, {"yes_no"})
<1> QED BY DEF YesNo, Numeric, Of

LEMMA StructuredOf ==
    ASSUME NEW kc, NEW format, NEW kind, NEW operands, NEW canonical
    PROVE  Of(Structured(kc, format, kind, operands, canonical), kc, format, {kind})
<1> QED BY DEF Structured, Numeric, Of

LEMMA EquivalenceDraws ==
    ASSUME NEW format, NEW d, NEW p \in EquivalenceProblems(format, d)
    PROVE  Of(p, "equivalence", format, {"yes_no", "numeric"})
<1>1. CASE format = "word_problem"
  <2> QED BY <1>1, YesNoOf DEF EquivalenceProblems, Of
<1>2. CASE format # "word_problem"
  <2>1. PICK base, scale :
             p = [Numeric("equivalence", format, <<base>>, base)
                    EXCEPT !.givenDenominator = Den(base) * scale]
    BY <1>2 DEF EquivalenceProblems
  <2> QED BY <2>1 DEF Numeric, Of
<1> QED BY <1>1, <1>2

LEMMA CommonDenominatorDraws ==
    ASSUME NEW format, NEW d, NEW p \in CommonDenominatorProblems(format, d)
    PROVE  Of(p, "common_denominator", format, {"numeric"})
<1> QED BY NumericOf DEF CommonDenominatorProblems

LEMMA AdditionDraws ==
    ASSUME NEW format, NEW d, NEW p \in AdditionProblems(format, d)
    PROVE  Of(p, "addition_unlike", format, {"numeric"})
<1> QED BY NumericOf DEF AdditionProblems

LEMMA SubtractionDraws ==
    ASSUME NEW format, NEW d, NEW p \in SubtractionProblems(format, d)
    PROVE  Of(p, "subtraction_unlike", format, {"numeric"})
<1> QED BY NumericOf DEF SubtractionProblems

LEMMA NumberLineDraws ==
    ASSUME NEW format, NEW d, NEW p \in NumberLineProblems(format, d)
    PROVE  Of(p, "number_line_placement", format, {"yes_no", "numeric"})
<1>1. CASE format = "symbolic"
  <2>1. PICK pr \in UnlikePairs(d) :
             p = YesNo("number_line_placement", format, "greater",
                       IF d = 4 THEN Negated(pr) ELSE pr,
                       IF d = 4 THEN Negated(pr)[1] ELSE pr[1])
    BY <1>1 DEF NumberLineProblems
  <2> QED BY <2>1 DEF YesNo, Numeric, Of
<1>2. CASE format # "symbolic"
  <2>1. \E t : p = Numeric("number_line_placement", format, <<t>>, t)
    BY <1>2 DEF NumberLineProblems
  <2> QED BY <2>1 DEF Numeric, Of
<1> QED BY <1>1, <1>2

LEMMA MultiplyDraws ==
    ASSUME NEW format, NEW d, NEW p \in MultiplyProblems(format, d)
    PROVE  Of(p, "multiply_fractions", format, {"numeric"})
<1> QED BY NumericOf DEF MultiplyProblems

LEMMA DivideDraws ==
    ASSUME NEW format, NEW d, NEW p \in DivideProblems(format, d)
    PROVE  Of(p, "divide_fractions", format, {"numeric"})
<1> QED BY NumericOf DEF DivideProblems

LEMMA RatioLanguageDraws ==
    ASSUME NEW format, NEW d, NEW p \in RatioLanguageProblems(format, d)
    PROVE  Of(p, "ratio_language", format, {"numeric"})
<1>1. \E mode, colour, c : p = RatioQuestion(format, mode, colour, c)
  BY DEF RatioLanguageProblems
<1> QED BY <1>1, NumericOf DEF RatioQuestion

LEMMA UnitRateDraws ==
    ASSUME NEW format, NEW d, NEW p \in UnitRateProblems(format, d)
    PROVE  Of(p, "unit_rate", format, {"numeric"})
<1>1. \/ \E rate \in RatePool[d], count \in 2..6 :
           p = Numeric("unit_rate", format, Wholes(<<rate * count, count, PerOneMode>>),
                       Whole(rate))
      \/ \E rate \in RatePool[d],
            c \in {c \in RateScaleCounts \X RateScaleCounts : c[1] # c[2]} :
           p = Numeric("unit_rate", format, Wholes(<<rate * c[1], c[1], c[2], ScaleMode>>),
                       Whole(rate * c[2]))
  BY SMTT(30) DEF UnitRateProblems
<1> QED BY <1>1, NumericOf

LEMMA BetterBuyDraws ==
    ASSUME NEW format, NEW d, NEW p \in BetterBuyProblems(format, d)
    PROVE  Of(p, "better_buy", format, {"yes_no"})
<1>1. \E qa, qb, u : p = YesNo("better_buy", format, "better_buy",
              <<Whole(qa), Times(u[1], Whole(qa)), Whole(qb), Times(u[2], Whole(qb))>>, u[1])
  BY DEF BetterBuyProblems
<1> QED BY <1>1, YesNoOf

LEMMA EquivalentRatiosDraws ==
    ASSUME NEW format, NEW d, NEW p \in EquivalentRatiosProblems(format, d)
    PROVE  Of(p, "equivalent_ratios", format, {"numeric"})
<1>1. \E r \in {r \in (1..6) \X (1..6) : r[1] # r[2]}, k \in RatioScales[d] :
        p = Numeric("equivalent_ratios", format, Wholes(<<r[1], r[2], r[2] * k>>),
                    Whole(r[1] * k))
  BY DEF EquivalentRatiosProblems
<1> QED BY <1>1, NumericOf

LEMMA PercentDraws ==
    ASSUME NEW format, NEW d, NEW p \in PercentProblems(format, d)
    PROVE  Of(p, "percent", format, {"numeric"})
<1>1. \/ \E percent, whole :
           p = Numeric("percent", format, Wholes(<<percent, whole, PercentOf>>),
                       Rational(percent * whole, 100))
      \/ \E pw :
           p = Numeric("percent", format, Wholes(<<pw[1], pw[2], FindWhole>>), Whole(pw[2]))
  BY DEF PercentProblems
<1> QED BY <1>1, NumericOf

LEMMA UnitConversionDraws ==
    ASSUME NEW format, NEW d, NEW p \in UnitConversionProblems(format, d)
    PROVE  Of(p, "unit_conversion", format, {"numeric"})
<1>1. \E quantity \in ConversionQuantities[d], factor \in ConversionFactors :
        p = Numeric("unit_conversion", format, Wholes(<<quantity, factor>>),
                    Whole(quantity * factor))
  BY DEF UnitConversionProblems
<1> QED BY <1>1, NumericOf

LEMMA GcfLcmDraws ==
    ASSUME NEW format, NEW d, NEW p \in GcfLcmProblems(format, d)
    PROVE  Of(p, "gcf_lcm", format, {"numeric"})
<1>1. \E pr, mode : p = GcfLcmQuestion(format, pr, mode)
  BY DEF GcfLcmProblems
<1> QED BY <1>1, NumericOf DEF GcfLcmQuestion

LEMMA DivisionDraws ==
    ASSUME NEW format, NEW d, NEW p \in DivisionProblems(format, d)
    PROVE  Of(p, "multi_digit_division", format, {"numeric"})
<1>1. \E q \in Quotients[d], divisor \in Divisors :
        p = Numeric("multi_digit_division", format, Wholes(<<q * divisor, divisor>>), Whole(q))
  BY DEF DivisionProblems
<1> QED BY <1>1, NumericOf

LEMMA DecimalDraws ==
    ASSUME NEW format, NEW d, NEW p \in DecimalProblems(format, d)
    PROVE  Of(p, "decimal_operations", format, {"numeric"})
<1> QED BY NumericOf DEF DecimalProblems, Decimal

LEMMA AbsoluteDraws ==
    ASSUME NEW format, NEW d, NEW p \in AbsoluteProblems(format, d)
    PROVE  Of(p, "absolute_value", format, {"numeric"})
<1> QED BY NumericOf DEF AbsoluteProblems

LEMMA IntegerAddDraws ==
    ASSUME NEW format, NEW d, NEW p \in IntegerAddProblems(format, d)
    PROVE  Of(p, "integer_add_subtract", format, {"numeric"})
<1>1. \E m \in IntegerPool[d] \X IntegerPool[d], s \in Signs :
        p = Numeric("integer_add_subtract", format, Wholes(<<s * m[1], -s * m[2]>>),
                    Whole(s * m[1] - s * m[2]))
  BY DEF IntegerAddProblems
<1> QED BY <1>1, NumericOf

LEMMA OppositeDraws ==
    ASSUME NEW format, NEW d, NEW p \in OppositeProblems(format, d)
    PROVE  Of(p, "signed_numbers", format, {"numeric"})
<1>1. \E s \in Signs, m \in OppositePool[d] :
        p = Numeric("signed_numbers", format, <<Whole(s * m)>>, Whole(-s * m))
  BY DEF OppositeProblems
<1> QED BY <1>1, NumericOf

LEMMA IntegerProductDraws ==
    ASSUME NEW format, NEW d, NEW p \in IntegerProductProblems(format, d)
    PROVE  Of(p, "integer_multiply_divide", format, {"numeric"})
<1> QED BY NumericOf DEF IntegerProductProblems

LEMMA ClassifyDraws ==
    ASSUME NEW format, NEW d, NEW p \in ClassifyProblems(format, d)
    PROVE  Of(p, "classify_number_sets", format, {"number_sets"})
<1> QED BY StructuredOf DEF ClassifyProblems

LEMMA SummaryDraws ==
    ASSUME NEW format, NEW d, NEW p \in SummaryProblems(format, d)
    PROVE  Of(p, "summary_statistics", format, {"numeric"})
<1>1. PICK mode \in MeanMode..RangeMode :
           p \in {Numeric("summary_statistics", format, Wholes(<<mode>> \o data),
                          Statistic(mode, data)) : data \in StatData(mode, StatPool[d])}
  BY DEF SummaryProblems
<1> QED BY <1>1, NumericOf

LEMMA DisplayDraws ==
    ASSUME NEW format, NEW d, NEW p \in DisplayProblems(format, d)
    PROVE  Of(p, "data_displays", format, {"numeric"})
<1>1. PICK data \in DisplayData(DisplayPool[d]) :
           \/ \E t \in Thresholds(data) :
                p = Numeric("data_displays", format, Wholes(<<CountAbove, t>> \o data),
                            Whole(Cardinality(Above(data, t))))
           \/ \E low, frequency :
                p = Numeric("data_displays", format, Wholes(<<BinFrequency, low>> \o data),
                            frequency)
           \/ p = Numeric("data_displays", format, Wholes(<<MostFrequent, 0>> \o data),
                          Whole(ClearMode(data)))
  BY DEF DisplayProblems
<1> QED BY <1>1, NumericOf

LEMMA CategoricalDraws ==
    ASSUME NEW format, NEW d, NEW p \in CategoricalProblems(format, d)
    PROVE  Of(p, "categorical_data", format, {"numeric"})
<1>1. \E mode, c : p = CategoryQuestion(format, mode, c)
  BY DEF CategoricalProblems
<1> QED BY <1>1, NumericOf DEF CategoryQuestion

LEMMA DeviationDraws ==
    ASSUME NEW format, NEW d, NEW p \in DeviationProblems(format, d)
    PROVE  Of(p, "mean_absolute_deviation", format, {"numeric"})
<1>1. \E pattern, mean :
        p = Numeric("mean_absolute_deviation", format,
                    Wholes([i \in DOMAIN pattern |-> mean + pattern[i]]),
                    Rational(Total(Distances(pattern)), Len(pattern)))
  BY DEF DeviationProblems
<1> QED BY <1>1, NumericOf

LEMMA SpreadDraws ==
    ASSUME NEW format, NEW d, NEW p \in SpreadProblems(format, d)
    PROVE  Of(p, "center_spread_shape", format, {"numeric"})
<1>1. PICK chosen, data :
           p \in {Numeric("center_spread_shape", format, Wholes(<<mode>> \o data),
                          CASE mode = CenterMedian -> MedianOf(data)
                            [] mode = SpreadRange -> Whole(data[Len(data)] - data[1])
                            [] mode = SpreadIqr -> Iqr(data)) : mode \in CenterMedian..SpreadIqr}
  BY DEF SpreadProblems
<1> QED BY <1>1, NumericOf

LEMMA StatisticalDraws ==
    ASSUME NEW format, NEW d, NEW p \in StatisticalProblems(format, d)
    PROVE  Of(p, "statistical_questions", format, {"yes_no"})
<1> QED BY YesNoOf DEF StatisticalProblems, Judgement

LEMMA WriteDraws ==
    ASSUME NEW format, NEW d, NEW p \in WriteProblems(format, d)
    PROVE  Of(p, "write_expressions", format, {"expression"})
<1>1. \E op \in {"plus", "times", "minus", "over"}, c \in ExpressionConst[d] :
        p = Structured("write_expressions", format, "expression", <<>>, <<op, c>>)
  BY DEF WriteProblems
<1> QED BY <1>1, StructuredOf

LEMMA EquivalentDraws ==
    ASSUME NEW format, NEW d, NEW p \in EquivalentProblems(format, d)
    PROVE  Of(p, "equivalent_expressions", format, {"expression"})
<1>1. PICK n \in EquivalentNum[d] \X EquivalentNum[d] :
           \/ p = [Structured("equivalent_expressions", format, "expression", <<>>,
                              <<n[1], n[1] * n[2]>>) EXCEPT !.source = n]
           \/ p = Structured("equivalent_expressions", format, "expression", <<>>,
                             <<n[1] + n[2], 0>>)
  BY DEF EquivalentProblems
<1> QED BY <1>1 DEF Structured, Numeric, Of

LEMMA InequalityDraws ==
    ASSUME NEW format, NEW d, NEW p \in InequalityProblems(format, d)
    PROVE  Of(p, "inequalities", format, {"inequality"})
<1>1. \E relation, bound : p = InequalityQuestion(format, relation, bound)
  BY DEF InequalityProblems
<1> QED BY <1>1, StructuredOf DEF InequalityQuestion

LEMMA EvaluateDraws ==
    ASSUME NEW format, NEW d, NEW p \in EvaluateProblems(format, d)
    PROVE  Of(p, "evaluate_expressions", format, {"numeric"})
<1>1. \E a \in EvalCoeff[d], x \in EvalValue[d], b \in EvalConst[d] :
        p = Numeric("evaluate_expressions", format, Wholes(<<a, x, b>>), Whole(a * x + b))
  BY SMTT(30) DEF EvaluateProblems
<1> QED BY <1>1, NumericOf

LEMMA ExponentDraws ==
    ASSUME NEW format, NEW d, NEW p \in ExponentProblems(format, d)
    PROVE  Of(p, "exponents", format, {"numeric"})
<1>1. \/ \E bp \in PowerPairs(d) :
           p = Numeric("exponents", format, Wholes(<<bp[1], bp[2], 0>>), Whole(bp[1]^bp[2]))
      \/ \E bp \in PowerPairs(d), k \in OrderConst, op \in {AddOp, MultiplyOp} :
           p = Numeric("exponents", format, Wholes(<<bp[1], bp[2], k, op, 1>>),
                 Whole(IF op = AddOp THEN k + bp[1]^bp[2] ELSE k * bp[1]^bp[2]))
  BY DEF ExponentProblems
<1> QED BY <1>1, NumericOf

LEMMA OneStepDraws ==
    ASSUME NEW format, NEW d, NEW p \in OneStepProblems(format, d)
    PROVE  Of(p, "one_step_equations", format, {"numeric"})
<1>1. \/ \E b \in OneStepCoeff[d], x \in Solutions :
           p = Numeric("one_step_equations", format, Wholes(<<AddEquation, b, b + x>>), Whole(x))
      \/ \E ax \in {ax \in OneStepCoeff[d] \X Solutions : ax[1] * ax[2] - ax[1] # ax[2]} :
           p = Numeric("one_step_equations", format,
                       Wholes(<<TimesEquation, ax[1], ax[1] * ax[2]>>), Whole(ax[2]))
  BY DEF OneStepProblems
<1> QED BY <1>1, NumericOf

LEMMA EquationDraws ==
    ASSUME NEW format, NEW d, NEW p \in EquationProblems(format, d)
    PROVE  Of(p, "equation_solutions", format, {"yes_no", "numeric"})
<1>1. CASE format = "number_line"
  <2>1. PICK truth \in BOOLEAN :
             p = YesNo("equation_solutions", format, "equal",
                       Wholes(<<1, IF truth THEN 1 ELSE 0>>), Whole(1))
    BY <1>1 DEF EquationProblems
  <2> QED BY <2>1 DEF YesNo, Numeric, Of
<1>2. CASE format # "number_line"
  <2>1. PICK b \in EquationConst[d], x \in Solutions :
             p = Numeric("equation_solutions", format, Wholes(<<b, b + x>>), Whole(x))
    BY <1>2 DEF EquationProblems
  <2> QED BY <2>1 DEF Numeric, Of
<1> QED BY <1>1, <1>2

LEMMA DependentDraws ==
    ASSUME NEW format, NEW d, NEW p \in DependentProblems(format, d)
    PROVE  Of(p, "dependent_vars", format, {"numeric", "coordinate"})
<1>1. CASE format = "coordinate_plane"
  <2>1. \E operands, points :
           p = Structured("dependent_vars", format, "coordinate", operands, points)
    BY <1>1 DEF DependentProblems
  <2> QED BY <2>1 DEF Structured, Numeric, Of
<1>2. CASE format # "coordinate_plane"
  <2>1. \E operands, answer : p = Numeric("dependent_vars", format, operands, answer)
    BY <1>2 DEF DependentProblems
  <2> QED BY <2>1 DEF Numeric, Of
<1> QED BY <1>1, <1>2

LEMMA PartsDraws ==
    ASSUME NEW format, NEW d, NEW p \in PartsProblems(format, d)
    PROVE  Of(p, "expression_parts", format, {"numeric"})
<1>1. \E mode, ck, answer : p = PartsQuestion(format, mode, ck, answer)
  BY DEF PartsProblems
<1> QED BY <1>1, NumericOf DEF PartsQuestion

LEMMA TriangleDraws ==
    ASSUME NEW format, NEW d, NEW p \in TriangleProblems(format, d)
    PROVE  Of(p, "triangle_properties", format, {"numeric"})
<1> QED BY NumericOf DEF TriangleProblems

LEMMA AreaDraws ==
    ASSUME NEW format, NEW d, NEW p \in AreaProblems(format, d)
    PROVE  Of(p, "area_polygons", format, {"numeric"})
<1> DEFINE Shape(shape, ops, answer) ==
             Numeric("area_polygons", format, Wholes(ops \o <<shape>>), answer)
           s == AreaSides[d]
<1>1. \/ \E b \in s, h \in s :
           p = Shape(TriangleShape, <<b, EvenUp(h)>>, Rational(b * EvenUp(h), 2))
      \/ \E b \in s, h \in s : p = Shape(ParallelogramShape, <<b, h>>, Whole(b * h))
      \/ \E bb \in {bb \in s \X s : bb[1] # bb[2]}, h \in s :
           p = Shape(TrapezoidShape, <<bb[1], bb[2], EvenUp(h)>>,
                     Rational((bb[1] + bb[2]) * EvenUp(h), 2))
  BY DEF AreaProblems
<1> QED BY <1>1, NumericOf

LEMMA VolumeDraws ==
    ASSUME NEW format, NEW d, NEW p \in VolumeProblems(format, d)
    PROVE  Of(p, "volume_fractional_edges", format, {"numeric"})
<1> QED BY NumericOf DEF VolumeProblems

LEMMA SurfaceDraws ==
    ASSUME NEW format, NEW d, NEW p \in SurfaceProblems(format, d)
    PROVE  Of(p, "surface_area_nets", format, {"numeric"})
<1> QED BY NumericOf DEF SurfaceProblems

LEMMA CoordinateDraws ==
    ASSUME NEW format, NEW d, NEW p \in CoordinateProblems(format, d)
    PROVE  Of(p, "coordinate_plane", format, {"coordinate"})
<1> QED BY StructuredOf DEF CoordinateProblems, PointsOf

LEMMA PolygonDraws ==
    ASSUME NEW format, NEW d, NEW p \in PolygonProblems(format, d)
    PROVE  Of(p, "polygons_coordinate_plane", format, {"coordinate"})
<1> QED BY StructuredOf DEF PolygonProblems, PointsOf

LEMMA RegisterDraws ==
    ASSUME NEW format, NEW d, NEW p \in RegisterProblems(format, d)
    PROVE  Of(p, "check_register", format, {"yes_no", "numeric"})
<1>1. CASE format = "number_line"
  <2>1. \E operands : p = YesNo("check_register", format, "equal", operands, Whole(1))
    BY <1>1 DEF RegisterProblems
  <2> QED BY <2>1 DEF YesNo, Numeric, Of
<1>2. CASE format # "number_line"
  <2>1. \E operands, answer : p = Numeric("check_register", format, operands, answer)
    BY <1>2 DEF RegisterProblems
  <2> QED BY <2>1 DEF Numeric, Of
<1> QED BY <1>1, <1>2

LEMMA IncomeDraws ==
    ASSUME NEW format, NEW d, NEW p \in IncomeProblems(format, d)
    PROVE  Of(p, "lifetime_income", format, {"numeric"})
<1>1. \/ \E salary \in Salaries[d], years \in WorkingYears[d] :
           p = Numeric("lifetime_income", format, Wholes(<<IncomeTotal, salary, years>>),
                       Whole(salary * years))
      \/ \E s \in {s \in Salaries[d] \X Salaries[d] : s[2] < s[1]}, years \in WorkingYears[d] :
           p = Numeric("lifetime_income", format,
                       Wholes(<<IncomeDifference, s[1], s[2], years>>),
                       Whole((s[1] - s[2]) * years))
  BY DEF IncomeProblems
<1> QED BY <1>1, NumericOf
--------------------------------------------------------------------------------
(* The kinds of answer a lesson asks for.                                  *)
Judged == {"better_buy", "statistical_questions"}
SometimesJudged ==
    {"equivalence", "number_line_placement", "equation_solutions", "check_register"}

Kinds(kc) ==
    CASE kc \in Judged -> {"yes_no"}
      [] kc \in SometimesJudged -> {"yes_no", "numeric"}
      [] kc \in Expressions -> {"expression"}
      [] kc \in OnThePlane -> {"coordinate"}
      [] kc = "inequalities" -> {"inequality"}
      [] kc = "classify_number_sets" -> {"number_sets"}
      [] kc = "dependent_vars" -> {"numeric", "coordinate"}
      [] OTHER -> {"numeric"}

(* What is drawn for a lesson is of that lesson, in the format it was asked*)
(* for, and of a kind the lesson has.                                      *)
LEMMA GeneratedOf ==
    ASSUME NEW kc \in Lessons, NEW format, NEW d, NEW p \in GenerateProblem(kc, format, d)
    PROVE  Of(p, kc, format, Kinds(kc))
<1> USE DEF Judged, SometimesJudged, Expressions, OnThePlane
<1>1. CASE kc = "equivalence"
  BY <1>1, EquivalenceDraws DEF GenerateProblem, Kinds
<1>2. CASE kc = "common_denominator"
  BY <1>2, CommonDenominatorDraws DEF GenerateProblem, Kinds
<1>3. CASE kc = "addition_unlike"
  BY <1>3, AdditionDraws DEF GenerateProblem, Kinds
<1>4. CASE kc = "subtraction_unlike"
  BY <1>4, SubtractionDraws DEF GenerateProblem, Kinds
<1>5. CASE kc = "number_line_placement"
  BY <1>5, NumberLineDraws DEF GenerateProblem, Kinds
<1>6. CASE kc = "multiply_fractions"
  BY <1>6, MultiplyDraws DEF GenerateProblem, Kinds
<1>7. CASE kc = "divide_fractions"
  BY <1>7, DivideDraws DEF GenerateProblem, Kinds
<1>8. CASE kc = "ratio_language"
  BY <1>8, RatioLanguageDraws DEF GenerateProblem, Kinds
<1>9. CASE kc = "unit_rate"
  BY <1>9, UnitRateDraws DEF GenerateProblem, Kinds
<1>10. CASE kc = "better_buy"
  BY <1>10, BetterBuyDraws DEF GenerateProblem, Kinds
<1>11. CASE kc = "equivalent_ratios"
  BY <1>11, EquivalentRatiosDraws DEF GenerateProblem, Kinds
<1>12. CASE kc = "percent"
  BY <1>12, PercentDraws DEF GenerateProblem, Kinds
<1>13. CASE kc = "unit_conversion"
  BY <1>13, UnitConversionDraws DEF GenerateProblem, Kinds
<1>14. CASE kc = "gcf_lcm"
  BY <1>14, GcfLcmDraws DEF GenerateProblem, Kinds
<1>15. CASE kc = "multi_digit_division"
  BY <1>15, DivisionDraws DEF GenerateProblem, Kinds
<1>16. CASE kc = "decimal_operations"
  BY <1>16, DecimalDraws DEF GenerateProblem, Kinds
<1>17. CASE kc = "absolute_value"
  BY <1>17, AbsoluteDraws DEF GenerateProblem, Kinds
<1>18. CASE kc = "integer_add_subtract"
  BY <1>18, IntegerAddDraws DEF GenerateProblem, Kinds
<1>19. CASE kc = "signed_numbers"
  BY <1>19, OppositeDraws DEF GenerateProblem, Kinds
<1>20. CASE kc = "integer_multiply_divide"
  BY <1>20, IntegerProductDraws DEF GenerateProblem, Kinds
<1>21. CASE kc = "classify_number_sets"
  BY <1>21, ClassifyDraws DEF GenerateProblem, Kinds
<1>22. CASE kc = "summary_statistics"
  BY <1>22, SummaryDraws DEF GenerateProblem, Kinds
<1>23. CASE kc = "data_displays"
  BY <1>23, DisplayDraws DEF GenerateProblem, Kinds
<1>24. CASE kc = "categorical_data"
  BY <1>24, CategoricalDraws DEF GenerateProblem, Kinds
<1>25. CASE kc = "mean_absolute_deviation"
  BY <1>25, DeviationDraws DEF GenerateProblem, Kinds
<1>26. CASE kc = "center_spread_shape"
  BY <1>26, SpreadDraws DEF GenerateProblem, Kinds
<1>27. CASE kc = "statistical_questions"
  BY <1>27, StatisticalDraws DEF GenerateProblem, Kinds
<1>28. CASE kc = "write_expressions"
  BY <1>28, WriteDraws DEF GenerateProblem, Kinds
<1>29. CASE kc = "equivalent_expressions"
  BY <1>29, EquivalentDraws DEF GenerateProblem, Kinds
<1>30. CASE kc = "inequalities"
  BY <1>30, InequalityDraws DEF GenerateProblem, Kinds
<1>31. CASE kc = "evaluate_expressions"
  BY <1>31, EvaluateDraws DEF GenerateProblem, Kinds
<1>32. CASE kc = "exponents"
  BY <1>32, ExponentDraws DEF GenerateProblem, Kinds
<1>33. CASE kc = "one_step_equations"
  BY <1>33, OneStepDraws DEF GenerateProblem, Kinds
<1>34. CASE kc = "equation_solutions"
  BY <1>34, EquationDraws DEF GenerateProblem, Kinds
<1>35. CASE kc = "dependent_vars"
  BY <1>35, DependentDraws DEF GenerateProblem, Kinds
<1>36. CASE kc = "expression_parts"
  BY <1>36, PartsDraws DEF GenerateProblem, Kinds
<1>37. CASE kc = "triangle_properties"
  BY <1>37, TriangleDraws DEF GenerateProblem, Kinds
<1>38. CASE kc = "area_polygons"
  BY <1>38, AreaDraws DEF GenerateProblem, Kinds
<1>39. CASE kc = "volume_fractional_edges"
  BY <1>39, VolumeDraws DEF GenerateProblem, Kinds
<1>40. CASE kc = "surface_area_nets"
  BY <1>40, SurfaceDraws DEF GenerateProblem, Kinds
<1>41. CASE kc = "coordinate_plane"
  BY <1>41, CoordinateDraws DEF GenerateProblem, Kinds
<1>42. CASE kc = "polygons_coordinate_plane"
  BY <1>42, PolygonDraws DEF GenerateProblem, Kinds
<1>43. CASE kc = "check_register"
  BY <1>43, RegisterDraws DEF GenerateProblem, Kinds
<1>44. CASE kc = "lifetime_income"
  BY <1>44, IncomeDraws DEF GenerateProblem, Kinds
<1> QED
  BY <1>1, <1>2, <1>3, <1>4, <1>5, <1>6, <1>7, <1>8, <1>9, <1>10, <1>11, <1>12,
     <1>13, <1>14, <1>15, <1>16, <1>17, <1>18, <1>19, <1>20, <1>21, <1>22, <1>23,
     <1>24, <1>25, <1>26, <1>27, <1>28, <1>29, <1>30, <1>31, <1>32, <1>33, <1>34,
     <1>35, <1>36, <1>37, <1>38, <1>39, <1>40, <1>41, <1>42, <1>43, <1>44
     DEF Lessons, SymbolicOnly, OnTheLine, WithAreas, InStories

--------------------------------------------------------------------------------
(* The registries.  What is looked up under a key stands in a row of it.   *)
LEMMA RegistryRow ==
    ASSUME NEW rows, NEW key, NEW value, <<key, value>> \in rows
    PROVE  <<key, Registry(rows)[key]>> \in rows
<1>1. /\ key \in {row[1] : row \in rows}
      /\ value \in {row[2] : row \in rows}
  <2>1. <<key, value>>[1] = key /\ <<key, value>>[2] = value
    OBVIOUS
  <2> QED BY <2>1
<1>2. Registry(rows)[key] = CHOOSE v \in {row[2] : row \in rows} : <<key, v>> \in rows
  BY <1>1 DEF Registry
<1> QED BY <1>1, <1>2

LEMMA EachRow ==
    ASSUME NEW keys, NEW value, NEW key \in keys
    PROVE  <<key, value>> \in Each(keys, value)
<1> QED BY DEF Each

Components ==
    FoundationComponents \cup RatioComponents \cup NumberComponents
      \cup ExpressionComponents \cup PlaneComponents \cup GeometryComponents
      \cup StatisticsComponents \cup RelationComponents

(* The representations a lesson's wrong answers can be sent to: those it is*)
(* served in, or the bars of the four fraction lessons.                    *)
Reachable(kc) == IF kc \in BarsNotServed THEN {"area_model"} ELSE LiveFormats(kc)

LEMMA LessonHasComponent ==
    ASSUME NEW kc \in Lessons
    PROVE  \E formats : <<kc, formats>> \in Components
<1>1. CASE kc \in {"equivalence", "number_line_placement", "common_denominator",
                     "addition_unlike", "subtraction_unlike"}
  BY <1>1, EachRow DEF Components, FoundationComponents
<1>2. CASE kc \in {"ratio_language", "unit_rate", "better_buy", "equivalent_ratios",
                     "percent"}
  BY <1>2, EachRow DEF Components, RatioComponents
<1>3. CASE kc \in {"multiply_fractions", "divide_fractions", "multi_digit_division",
                     "decimal_operations", "gcf_lcm", "absolute_value",
                     "integer_add_subtract", "signed_numbers", "unit_conversion"}
  BY <1>3, EachRow DEF Components, NumberComponents
<1>4. CASE kc \in {"summary_statistics", "data_displays", "write_expressions",
                     "equivalent_expressions", "evaluate_expressions", "exponents",
                     "one_step_equations", "inequalities"}
  BY <1>4, EachRow DEF Components, ExpressionComponents
<1>5. CASE kc \in {"coordinate_plane", "classify_number_sets", "expression_parts",
                     "integer_multiply_divide"}
  BY <1>5, EachRow DEF Components, PlaneComponents
<1>6. CASE kc \in {"triangle_properties", "area_polygons",
                     "volume_fractional_edges", "surface_area_nets",
                     "polygons_coordinate_plane"}
  BY <1>6, EachRow DEF Components, GeometryComponents
<1>7. CASE kc \in {"mean_absolute_deviation", "center_spread_shape",
                     "categorical_data", "statistical_questions"}
  BY <1>7, EachRow DEF Components, StatisticsComponents
<1>8. CASE kc \in {"dependent_vars", "equation_solutions", "check_register",
                     "lifetime_income"}
  BY <1>8, EachRow DEF Components, RelationComponents
<1> QED
  BY <1>1, <1>2, <1>3, <1>4, <1>5, <1>6, <1>7, <1>8
     DEF Lessons, SymbolicOnly, OnTheLine, WithAreas, InStories, OnThePlane, Expressions

(* Every lesson is served, and sent, to what its component advertises.     *)
LEMMA ServedIsAdvertised ==
    ASSUME NEW kc \in Lessons
    PROVE  LiveFormats(kc) \subseteq Advertised[kc] /\ Reachable(kc) \subseteq Advertised[kc]
<1> DEFINE Suits(key, formats) == LiveFormats(key) \cup Reachable(key) \subseteq formats
<1> USE DEF Each, LiveFormats, Reachable, BarsNotServed, SymbolicOnly, OnTheLine, WithAreas,
            InStories, OnThePlane, Expressions
<1>1. \A key, formats : <<key, formats>> \in FoundationComponents => Suits(key, formats)
  BY DEF FoundationComponents
<1>2. \A key, formats : <<key, formats>> \in RatioComponents => Suits(key, formats)
  BY DEF RatioComponents
<1>3. \A key, formats : <<key, formats>> \in NumberComponents => Suits(key, formats)
  BY DEF NumberComponents
<1>4. \A key, formats : <<key, formats>> \in ExpressionComponents => Suits(key, formats)
  BY DEF ExpressionComponents
<1>5. \A key, formats : <<key, formats>> \in PlaneComponents => Suits(key, formats)
  BY DEF PlaneComponents
<1>6. \A key, formats : <<key, formats>> \in GeometryComponents => Suits(key, formats)
  BY DEF GeometryComponents
<1>7. \A key, formats : <<key, formats>> \in StatisticsComponents => Suits(key, formats)
  BY DEF StatisticsComponents
<1>8. \A key, formats : <<key, formats>> \in RelationComponents => Suits(key, formats)
  BY DEF RelationComponents
<1> HIDE DEF Suits
<1>9. <<kc, Advertised[kc]>> \in Components
  BY LessonHasComponent, RegistryRow DEF Advertised, Components
<1>10. Suits(kc, Advertised[kc])
  BY <1>1, <1>2, <1>3, <1>4, <1>5, <1>6, <1>7, <1>8, <1>9 DEF Components
<1> QED BY <1>10 DEF Suits
(* ------------------------------- routes ------------------------------- *)
FirstFor(routes, category) ==
    {routes[i].representation :
       i \in {j \in DOMAIN routes :
                /\ routes[j].category = category
                /\ \A k \in 1..(j - 1) : routes[k].category # category}}

LEMMA OneRoute ==
    ASSUME NEW c, NEW r
    PROVE  FirstFor(<<Route(c, r)>>, c) = {r}
<1> DEFINE routes == <<Route(c, r)>>
<1>1. DOMAIN routes = 1..1 /\ routes[1].category = c /\ routes[1].representation = r
  BY DEF Route
<1> HIDE DEF routes
<1>2. {j \in DOMAIN routes : /\ routes[j].category = c
                             /\ \A k \in 1..(j - 1) : routes[k].category # c} = {1}
  BY <1>1
<1> QED BY <1>1, <1>2 DEF FirstFor, routes

LEMMA FirstOfTwo ==
    ASSUME NEW c1, NEW r1, NEW c2, NEW r2, c1 # c2
    PROVE  FirstFor(<<Route(c1, r1), Route(c2, r2)>>, c1) = {r1}
<1> DEFINE routes == <<Route(c1, r1), Route(c2, r2)>>
<1>1. /\ DOMAIN routes = 1..2
      /\ routes[1].category = c1 /\ routes[1].representation = r1
      /\ routes[2].category = c2
  BY DEF Route
<1> HIDE DEF routes
<1>2. {j \in DOMAIN routes : /\ routes[j].category = c1
                             /\ \A k \in 1..(j - 1) : routes[k].category # c1} = {1}
  BY <1>1
<1> QED BY <1>1, <1>2 DEF FirstFor, routes

LEMMA SecondOfTwo ==
    ASSUME NEW c1, NEW r1, NEW c2, NEW r2, c1 # c2
    PROVE  FirstFor(<<Route(c1, r1), Route(c2, r2)>>, c2) = {r2}
<1> DEFINE routes == <<Route(c1, r1), Route(c2, r2)>>
<1>1. /\ DOMAIN routes = 1..2
      /\ routes[1].category = c1
      /\ routes[2].category = c2 /\ routes[2].representation = r2
  BY DEF Route
<1> HIDE DEF routes
<1>2. {j \in DOMAIN routes : /\ routes[j].category = c2
                             /\ \A k \in 1..(j - 1) : routes[k].category # c2} = {2}
  BY <1>1
<1> QED BY <1>1, <1>2 DEF FirstFor, routes

LEMMA FirstOfThree ==
    ASSUME NEW c1, NEW r1, NEW c2, NEW r2, NEW c3, NEW r3, c1 # c2, c1 # c3, c2 # c3
    PROVE  FirstFor(<<Route(c1, r1), Route(c2, r2), Route(c3, r3)>>, c1) = {r1}
<1> DEFINE routes == <<Route(c1, r1), Route(c2, r2), Route(c3, r3)>>
<1>1. /\ DOMAIN routes = 1..3
      /\ routes[1].category = c1 /\ routes[1].representation = r1
      /\ routes[2].category = c2
      /\ routes[3].category = c3 /\ routes[3].representation = r3
  BY DEF Route
<1> HIDE DEF routes
<1>2. {j \in DOMAIN routes : /\ routes[j].category = c1
                             /\ \A k \in 1..(j - 1) : routes[k].category # c1} = {1}
  BY <1>1
<1> QED BY <1>1, <1>2 DEF FirstFor, routes

LEMMA ThirdOfThree ==
    ASSUME NEW c1, NEW r1, NEW c2, NEW r2, NEW c3, NEW r3, c1 # c2, c1 # c3, c2 # c3
    PROVE  FirstFor(<<Route(c1, r1), Route(c2, r2), Route(c3, r3)>>, c3) = {r3}
<1> DEFINE routes == <<Route(c1, r1), Route(c2, r2), Route(c3, r3)>>
<1>1. /\ DOMAIN routes = 1..3
      /\ routes[1].category = c1 /\ routes[1].representation = r1
      /\ routes[2].category = c2
      /\ routes[3].category = c3 /\ routes[3].representation = r3
  BY DEF Route
<1> HIDE DEF routes
<1>2. {j \in DOMAIN routes : /\ routes[j].category = c3
                             /\ \A k \in 1..(j - 1) : routes[k].category # c3} = {3}
  BY <1>1
<1> QED BY <1>1, <1>2 DEF FirstFor, routes

LEMMA WrongRoute ==
    ASSUME NEW r
    PROVE  FirstFor(Wrong(r), "operation") = {r}
<1> QED BY OneRoute DEF Wrong

LEMMA EitherRoute ==
    ASSUME NEW r
    PROVE  FirstFor(Either(r), "operation") = {r} /\ FirstFor(Either(r), "magnitude") = {r}
<1> QED BY FirstOfTwo, SecondOfTwo DEF Either

(* The categories of the errors the verifier finds in a lesson, but for    *)
(* answers it cannot place.                                                *)
MagnitudeSlips ==
    {"number_line_placement", "multi_digit_division", "decimal_operations", "absolute_value"}

Errors(kc) ==
    CASE kc \in Judged \cup MagnitudeSlips -> {"magnitude"}
      [] kc \in SometimesJudged \ MagnitudeSlips -> {"operation", "magnitude"}
      [] OTHER -> {"operation"}

Routes ==
    FoundationRoutes \cup RatioRoutes \cup NumberRoutes \cup ExpressionRoutes
      \cup PlaneRoutes \cup GeometryRoutes \cup StatisticsRoutes \cup RelationRoutes

LEMMA LessonHasRoutes ==
    ASSUME NEW kc \in Lessons
    PROVE  \E routes : <<kc, routes>> \in Routes
<1>1. CASE kc \in {"equivalence", "common_denominator", "addition_unlike",
                   "subtraction_unlike", "number_line_placement"}
  BY <1>1, EachRow DEF Routes, FoundationRoutes
<1>2. CASE kc \in {"ratio_language", "unit_rate", "equivalent_ratios", "percent",
                   "multiply_fractions", "divide_fractions", "unit_conversion"}
  BY <1>2, EachRow DEF Routes, RatioRoutes
<1>3. CASE kc \in {"gcf_lcm", "multi_digit_division", "absolute_value",
                   "integer_add_subtract", "signed_numbers", "decimal_operations"}
  BY <1>3, EachRow DEF Routes, NumberRoutes
<1>4. CASE kc \in {"write_expressions", "equivalent_expressions",
                   "evaluate_expressions", "exponents", "one_step_equations",
                   "inequalities"}
  BY <1>4, EachRow DEF Routes, ExpressionRoutes
<1>5. CASE kc \in {"coordinate_plane", "classify_number_sets", "expression_parts",
                   "integer_multiply_divide"}
  BY <1>5, EachRow DEF Routes, PlaneRoutes
<1>6. CASE kc \in {"triangle_properties", "area_polygons", "volume_fractional_edges",
                   "surface_area_nets", "polygons_coordinate_plane"}
  BY <1>6, EachRow DEF Routes, GeometryRoutes
<1>7. CASE kc \in {"mean_absolute_deviation", "center_spread_shape",
                   "summary_statistics", "data_displays", "categorical_data",
                   "statistical_questions"}
  BY <1>7, EachRow DEF Routes, StatisticsRoutes
<1>8. CASE kc \in {"dependent_vars", "equation_solutions", "check_register",
                   "lifetime_income", "better_buy"}
  BY <1>8, EachRow DEF Routes, RelationRoutes
<1> QED
  BY <1>1, <1>2, <1>3, <1>4, <1>5, <1>6, <1>7, <1>8
     DEF Lessons, SymbolicOnly, OnTheLine, WithAreas, InStories, OnThePlane, Expressions

LEMMA FoundationFirsts ==
    /\ FirstFor(<<Route("operation", "area_model"), Route("format", "area_model"),
                  Route("magnitude", "area_model")>>, "operation") = {"area_model"}
    /\ FirstFor(<<Route("operation", "area_model"), Route("format", "area_model"),
                  Route("magnitude", "area_model")>>, "magnitude") = {"area_model"}
    /\ FirstFor(<<Route("operation", "area_model"), Route("format", "area_model"),
                  Route("magnitude", "number_line")>>, "operation") = {"area_model"}
<1>1. FirstFor(<<Route("operation", "area_model"), Route("format", "area_model"),
                 Route("magnitude", "area_model")>>, "operation") = {"area_model"}
  BY FirstOfThree
<1>2. FirstFor(<<Route("operation", "area_model"), Route("format", "area_model"),
                 Route("magnitude", "area_model")>>, "magnitude") = {"area_model"}
  BY ThirdOfThree
<1>3. FirstFor(<<Route("operation", "area_model"), Route("format", "area_model"),
                 Route("magnitude", "number_line")>>, "operation") = {"area_model"}
  BY FirstOfThree
<1> QED BY <1>1, <1>2, <1>3

(* Every error of a lesson has a first route, to where it can be sent.     *)
Sends(routes, category, kc) ==
    FirstFor(routes, category) # {} /\ FirstFor(routes, category) \subseteq Reachable(kc)

LEMMA ErrorsAreRouted ==
    ASSUME NEW kc \in Lessons, NEW category \in Errors(kc)
    PROVE  Sends(LessonRoutes[kc], category, kc)
<1> DEFINE Suits(key, routes) == \A c \in Errors(key) : Sends(routes, c, key)
<1> USE DEF Each, Errors, Judged, SometimesJudged, MagnitudeSlips, Sends,
            LiveFormats, Reachable, BarsNotServed, SymbolicOnly, OnTheLine, WithAreas,
            InStories, OnThePlane, Expressions
<1>1. \A key, routes : <<key, routes>> \in FoundationRoutes => Suits(key, routes)
  <2> DEFINE equivalence == <<Route("operation", "area_model"), Route("format", "area_model"),
                              Route("magnitude", "area_model")>>
             fractions == <<Route("operation", "area_model"), Route("format", "area_model"),
                            Route("magnitude", "number_line")>>
             placement == <<Route("magnitude", "number_line"), Route("format", "number_line")>>
  <2>1. /\ FirstFor(equivalence, "operation") = {"area_model"}
        /\ FirstFor(equivalence, "magnitude") = {"area_model"}
        /\ FirstFor(fractions, "operation") = {"area_model"}
    BY FoundationFirsts
  <2>2. FirstFor(placement, "magnitude") = {"number_line"}
    BY FirstOfTwo, SecondOfTwo
  <2>3. \A key, routes : <<key, routes>> \in FoundationRoutes =>
          \/ key = "equivalence" /\ routes = equivalence
          \/ key \in {"common_denominator", "addition_unlike", "subtraction_unlike"}
             /\ routes = fractions
          \/ key = "number_line_placement" /\ routes = placement
    BY DEF FoundationRoutes
  <2> HIDE DEF equivalence, fractions, placement
  <2> QED BY <2>1, <2>2, <2>3
<1>2. \A key, routes : <<key, routes>> \in RatioRoutes => Suits(key, routes)
  BY EitherRoute DEF RatioRoutes
<1>3. \A key, routes : <<key, routes>> \in NumberRoutes => Suits(key, routes)
  <2> DEFINE decimals == <<Route("magnitude", "symbolic"), Route("operation", "symbolic")>>
  <2>1. FirstFor(decimals, "magnitude") = {"symbolic"}
    BY FirstOfTwo, SecondOfTwo
  <2>2. \A key, routes : <<key, routes>> \in NumberRoutes =>
          \/ key \in {"gcf_lcm", "multi_digit_division", "absolute_value",
                      "integer_add_subtract", "signed_numbers"}
             /\ routes = Either("symbolic")
          \/ key = "decimal_operations" /\ routes = decimals
    BY DEF NumberRoutes
  <2> HIDE DEF decimals
  <2> QED BY <2>1, <2>2, EitherRoute
<1>4. \A key, routes : <<key, routes>> \in ExpressionRoutes => Suits(key, routes)
  <2>1. \A key, routes : <<key, routes>> \in ExpressionRoutes =>
          \/ key \in {"write_expressions", "equivalent_expressions"}
             /\ routes = Wrong("expression")
          \/ key \in {"evaluate_expressions", "exponents"} /\ routes = Either("area_model")
          \/ key = "one_step_equations" /\ routes = Either("symbolic")
          \/ key = "inequalities" /\ routes = Wrong("inequality")
    BY DEF ExpressionRoutes
  <2>2. \A key \in {"write_expressions", "equivalent_expressions"} :
          Suits(key, Wrong("expression"))
    BY WrongRoute
  <2>3. \A key \in {"evaluate_expressions", "exponents"} : Suits(key, Either("area_model"))
    BY EitherRoute
  <2>4. Suits("one_step_equations", Either("symbolic"))
    BY EitherRoute
  <2>5. Suits("inequalities", Wrong("inequality"))
    BY WrongRoute
  <2> HIDE DEF Suits
  <2> QED BY <2>1, <2>2, <2>3, <2>4, <2>5
<1>5. \A key, routes : <<key, routes>> \in PlaneRoutes => Suits(key, routes)
  BY EitherRoute, WrongRoute DEF PlaneRoutes
<1>6. \A key, routes : <<key, routes>> \in GeometryRoutes => Suits(key, routes)
  BY EitherRoute, WrongRoute DEF GeometryRoutes
<1>7. \A key, routes : <<key, routes>> \in StatisticsRoutes => Suits(key, routes)
  <2> DEFINE judgment == <<Route("magnitude", "symbolic")>>
  <2>1. FirstFor(judgment, "magnitude") = {"symbolic"}
    BY OneRoute
  <2>2. \A key, routes : <<key, routes>> \in StatisticsRoutes =>
          \/ key \in {"mean_absolute_deviation", "center_spread_shape", "summary_statistics",
                      "data_displays", "categorical_data"}
             /\ routes = Either("symbolic")
          \/ key = "statistical_questions" /\ routes = judgment
    BY DEF StatisticsRoutes
  <2> HIDE DEF judgment
  <2> QED BY <2>1, <2>2, EitherRoute
<1>8. \A key, routes : <<key, routes>> \in RelationRoutes => Suits(key, routes)
  <2> DEFINE dependent == <<Route("operation", "coordinate_plane"), Route("magnitude", "symbolic")>>
             solutions == <<Route("operation", "symbolic"), Route("magnitude", "number_line")>>
             judgment == <<Route("magnitude", "symbolic")>>
  <2>1. /\ FirstFor(dependent, "operation") = {"coordinate_plane"}
        /\ FirstFor(solutions, "operation") = {"symbolic"}
        /\ FirstFor(solutions, "magnitude") = {"number_line"}
    BY FirstOfTwo, SecondOfTwo
  <2>2. FirstFor(judgment, "magnitude") = {"symbolic"}
    BY OneRoute
  <2>3. \A key, routes : <<key, routes>> \in RelationRoutes =>
          \/ key = "dependent_vars" /\ routes = dependent
          \/ key \in {"equation_solutions", "check_register"} /\ routes = solutions
          \/ key = "lifetime_income" /\ routes = Either("symbolic")
          \/ key = "better_buy" /\ routes = judgment
    BY DEF RelationRoutes
  <2> HIDE DEF dependent, solutions, judgment
  <2> QED BY <2>1, <2>2, <2>3, EitherRoute
<1>9. <<kc, LessonRoutes[kc]>> \in Routes
  BY LessonHasRoutes, RegistryRow DEF LessonRoutes, Routes
<1> HIDE DEF Suits
<1>10. Suits(kc, LessonRoutes[kc])
  BY <1>1, <1>2, <1>3, <1>4, <1>5, <1>6, <1>7, <1>8, <1>9 DEF Routes
<1> QED
  <2> USE DEF Suits
  <2> QED BY ONLY <1>10, category \in Errors(kc)
--------------------------------------------------------------------------------
(* The verdicts.  Every slip of a lesson is of one category.               *)
CategoryOf(kc) == IF kc \in MagnitudeSlips THEN "magnitude" ELSE "operation"

LEMMA SlipsError ==
    ASSUME NEW values, NEW error, NEW name
    PROVE  \A slip \in Slips(values, error, name) : slip.error = error
<1> QED BY DEF Slips

LEMMA PredictsError ==
    ASSUME NEW value, NEW error, NEW name
    PROVE  \A slip \in Predicts(value, error, name) : slip.error = error
<1> QED BY SlipsError DEF Predicts

LEMMA NumericSlipsError ==
    ASSUME NEW p
    PROVE  \A slip \in NumericSlips(p) : slip.error = CategoryOf(p.kc)
<1> USE PredictsError DEF CategoryOf, MagnitudeSlips
<1>1. \A slip \in FractionAndRatioModels(p.kc, p.operands) : slip.error = CategoryOf(p.kc)
  BY DEF FractionAndRatioModels
<1>2. \A slip \in NumberModels(p.kc, p.operands) : slip.error = CategoryOf(p.kc)
  BY DEF NumberModels
<1>3. \A slip \in ExpressionModels(p) : slip.error = CategoryOf(p.kc)
  BY DEF ExpressionModels
<1>4. \A slip \in GeometryModels(p.kc, p.operands) : slip.error = CategoryOf(p.kc)
  BY DEF GeometryModels
<1>5. \A slip \in StatisticsModels(p) : slip.error = CategoryOf(p.kc)
  BY DEF StatisticsModels
<1>6. \A slip \in RelationModels(p) : slip.error = CategoryOf(p.kc)
  BY DEF RelationModels
<1> QED BY <1>1, <1>2, <1>3, <1>4, <1>5, <1>6 DEF NumericSlips

LEMMA NamedSlipsError ==
    ASSUME NEW p, p.kc \in Lessons, p.kind \in Kinds(p.kc), p.kind # "yes_no",
           NEW slip \in NamedSlips(p)
    PROVE  slip.error = CategoryOf(p.kc)
<1> USE DEF Kinds, Judged, SometimesJudged, Expressions, OnThePlane
<1>1. CASE p.kind = "numeric"
  BY <1>1, NumericSlipsError DEF NamedSlips
<1>2. CASE p.kind = "expression"
  BY <1>2, PredictsError
     DEF NamedSlips, ExpressionSlips, DistributedSlips, CategoryOf, MagnitudeSlips
<1>3. CASE p.kind = "inequality"
  BY <1>3, SlipsError DEF NamedSlips, InequalitySlips, CategoryOf, MagnitudeSlips
<1>4. CASE p.kind = "coordinate"
  BY <1>4, SlipsError DEF NamedSlips, PointSlips, CategoryOf, MagnitudeSlips
<1>5. CASE p.kind = "number_sets"
  BY <1>5, SlipsError DEF NamedSlips, NumberSetSlips, CategoryOf, MagnitudeSlips
<1> QED BY <1>1, <1>2, <1>3, <1>4, <1>5

(* An answer is right, or of a category the lesson has a route for, or     *)
(* cannot be placed.                                                       *)
LEMMA VerdictError ==
    ASSUME NEW p, p.kc \in Lessons, p.kind \in Kinds(p.kc), NEW given
    PROVE  Verify(p, given).error \in {"none", "other"} \cup Errors(p.kc)
<1> DEFINE matches == {slip \in NamedSlips(p) : slip.value = given}
<1>1. CASE IsCorrect(p, given)
  <2>1. Verify(p, given) = Right
    BY <1>1 DEF Verify
  <2> QED BY <2>1 DEF Right, Verdict
<1>2. CASE ~IsCorrect(p, given) /\ p.kind = "yes_no"
  <2>1. Verify(p, given) = Unmatched("magnitude")
    BY <1>2 DEF Verify
  <2>2. "magnitude" \in Errors(p.kc)
    BY <1>2 DEF Errors, Kinds, Judged, SometimesJudged, MagnitudeSlips, Expressions, OnThePlane
  <2> QED BY <2>1, <2>2 DEF Unmatched, Verdict
<1>3. CASE ~IsCorrect(p, given) /\ p.kind # "yes_no" /\ p.kc = "common_denominator"
  BY <1>3 DEF Verify, Unmatched, Verdict, Errors, Judged, SometimesJudged, MagnitudeSlips
<1>4. CASE ~IsCorrect(p, given) /\ p.kind # "yes_no" /\ p.kc # "common_denominator"
  <2>1. CASE matches = {}
    BY <1>4, <2>1 DEF Verify, Unmatched, Verdict
  <2>2. CASE matches # {}
    <3> DEFINE slip == CHOOSE m \in matches : TRUE
    <3>1. slip \in NamedSlips(p)
      BY <2>2
    <3>2. Verify(p, given) = Verdict(FALSE, slip.error, slip.name)
      BY <1>4, <2>2 DEF Verify
    <3>3. slip.error = CategoryOf(p.kc)
      BY <1>4, <3>1, NamedSlipsError
    <3>4. CategoryOf(p.kc) \in Errors(p.kc)
      <4>1. p.kc \notin Judged
        BY <1>4 DEF Kinds, Judged, SometimesJudged, Expressions, OnThePlane
      <4> QED BY <4>1 DEF CategoryOf, Errors, SometimesJudged, MagnitudeSlips
    <3> HIDE DEF slip
    <3> QED BY <3>2, <3>3, <3>4 DEF Verdict
  <2> QED BY <2>1, <2>2
<1> QED BY <1>1, <1>2, <1>3, <1>4
--------------------------------------------------------------------------------
(* What is on screen was drawn for a lesson that is practised, in a format *)
(* it is served in.                                                        *)
Drawn(p) ==
    \E kc \in Served, d \in Difficulties : \E format \in LiveFormats(kc) :
      p \in GenerateProblem(kc, format, d)

ItemInv ==
    /\ items = {} \/ \E p : items = {p} /\ Drawn(p)
    /\ hints_this_problem \in 0..MaxHints
    /\ lastMatched \in BOOLEAN
    /\ items = {} => hints_this_problem = 0 /\ said = Nudge

LEMMA DrawnIs ==
    ASSUME NEW p, Drawn(p)
    PROVE  p.kc \in Served /\ p.format \in LiveFormats(p.kc) /\ p.kind \in Kinds(p.kc)
<1>1. PICK kc \in Served, d \in Difficulties : \E format \in LiveFormats(kc) :
             p \in GenerateProblem(kc, format, d)
  BY DEF Drawn
<1>2. PICK format \in LiveFormats(kc) : p \in GenerateProblem(kc, format, d)
  BY <1>1
<1>3. kc \in Lessons
  BY ItemAssumption
<1>4. Of(p, kc, format, Kinds(kc))
  BY <1>2, <1>3, GeneratedOf
<1> QED BY <1>4 DEF Of

LEMMA InitItem == Init => ItemInv
<1>1. 0 \in 0..MaxHints
  BY ItemAssumption
<1> QED BY <1>1 DEF Init, ItemInv

LEMMA NextItem == ItemInv /\ [Next]_vars => ItemInv'
<1> SUFFICES ASSUME ItemInv, [Next]_vars
             PROVE  ItemInv'
  OBVIOUS
<1> USE ItemAssumption
<1>1. ASSUME NEW kc \in Served, NEW d \in Difficulties, NEW format \in LiveFormats(kc),
             Serve(kc, format, d)
      PROVE  ItemInv'
  <2>1. PICK p \in GenerateProblem(kc, format, d) : items' = {p}
    BY <1>1 DEF Serve
  <2>2. Drawn(p)
    BY <2>1 DEF Drawn
  <2> QED BY <1>1, <2>1, <2>2 DEF ItemInv, Serve
<1>2. CASE AskHint
  BY <1>2 DEF ItemInv, AskHint
<1>3. ASSUME NEW verdict, Settle(verdict)
      PROVE  ItemInv'
  <2>1. (verdict.misconception # "none") \in BOOLEAN
    OBVIOUS
  <2> QED BY <1>3, <2>1 DEF ItemInv, Settle
<1>4. CASE Answer
  BY <1>3, <1>4 DEF Answer
<1>5. CASE AnswerOther
  BY <1>3, <1>5 DEF AnswerOther
<1>6. CASE UNCHANGED vars
  BY <1>6 DEF ItemInv, vars
<1> QED BY <1>1, <1>2, <1>4, <1>5, <1>6 DEF Next

LEMMA SpecItem == Spec => []ItemInv
<1> QED BY InitItem, NextItem, PTL DEF Spec

(* Whatever is drawn for whatever lessons, at most one item is on screen,  *)
(* posed in a representation its component advertises, and the hint count, *)
(* the last line and the page's memory of the last answer are in range and *)
(* start over with it (service.py _serve_next).                            *)
THEOREM SpecTypeOK == Spec => []TypeOK
<1>1. ItemInv => TypeOK
  <2> SUFFICES ASSUME ItemInv PROVE TypeOK
    OBVIOUS
  <2>1. Cardinality(items) <= 1
    <3>1. CASE items = {}
      BY <3>1, FS_EmptySet
    <3>2. CASE \E p : items = {p}
      BY <3>2, FS_Singleton
    <3> QED BY <3>1, <3>2 DEF ItemInv
  <2>2. \A p \in items : p.format \in Advertised[p.kc]
    BY DrawnIs, ServedIsAdvertised, ItemAssumption DEF ItemInv
  <2> QED BY <2>1, <2>2 DEF ItemInv, TypeOK
<1> QED BY <1>1, SpecItem, PTL

(* Whatever problem is drawn and whatever is entered, a wrong answer the   *)
(* verifier puts in a category is sent to a representation the lesson's    *)
(* component advertises, and, but for the bars of four fraction lessons,   *)
(* that the scheduler serves (lesson_spec.py representation_for_error).    *)
THEOREM SpecSlipIsRouted == Spec => []SlipIsRouted
<1>1. ItemInv => SlipIsRouted
  <2> SUFFICES ASSUME ItemInv, NEW p \in items, NEW given \in Entries(p),
                      Verify(p, given).error \notin {"none", "other"}
               PROVE  LET routed == RepresentationForError(p.kc, Verify(p, given).error)
                      IN  /\ routed # {}
                          /\ routed \subseteq Advertised[p.kc]
                          /\ p.kc \notin BarsNotServed => routed \subseteq LiveFormats(p.kc)
    BY DEF SlipIsRouted
  <2> DEFINE error == Verify(p, given).error
  <2>1. p.kc \in Lessons /\ p.kind \in Kinds(p.kc)
    BY DrawnIs, ItemAssumption DEF ItemInv
  <2>2. error \in Errors(p.kc)
    BY <2>1, VerdictError
  <2> HIDE DEF error
  <2>3. RepresentationForError(p.kc, error) = FirstFor(LessonRoutes[p.kc], error)
    BY DEF RepresentationForError, FirstFor
  <2>4. Sends(LessonRoutes[p.kc], error, p.kc)
    BY <2>1, <2>2, ErrorsAreRouted
  <2>5. Reachable(p.kc) \subseteq Advertised[p.kc]
    BY <2>1, ServedIsAdvertised
  <2>6. /\ RepresentationForError(p.kc, error) # {}
        /\ RepresentationForError(p.kc, error) \subseteq Advertised[p.kc]
        /\ p.kc \notin BarsNotServed =>
             RepresentationForError(p.kc, error) \subseteq LiveFormats(p.kc)
    BY <2>3, <2>4, <2>5 DEF Sends, Reachable
  <2> QED BY <2>6 DEF error
<1> QED BY <1>1, SpecItem, PTL
--------------------------------------------------------------------------------
(* The worked examples.                                                    *)
LastStep(steps) == steps[Len(steps)]

EndsOnAnswer(p, steps) == steps # Unbuildable /\ EndsOn(LastStep(steps), p)

LEMMA RevealsIs ==
    ASSUME NEW forms, NEW value
    PROVE  Reveals(forms, value).reveals = value /\ Reveals(forms, value).writes = forms
<1> QED BY DEF Reveals, Says

LEMMA TellsIs ==
    ASSUME NEW forms
    PROVE  Tells(forms).tells = TRUE
<1> QED BY DEF Tells, Says

LEMMA EndsRevealing1 ==
    ASSUME NEW p, p.kind = "numeric", NEW forms, p.answer \in forms
    PROVE  EndsOnAnswer(p, <<Reveals(forms, p.answer)>>)
<1> DEFINE z == Reveals(forms, p.answer)
<1>1. z.reveals = p.answer /\ p.answer \in z.writes
  BY RevealsIs
<1> HIDE DEF z
<1>2. <<z>> # <<>> /\ LastStep(<<z>>) = z
  BY DEF LastStep
<1> QED BY <1>1, <1>2 DEF EndsOnAnswer, EndsOn, Unbuildable, z

LEMMA EndsRevealing2 ==
    ASSUME NEW p, p.kind = "numeric", NEW a, NEW forms, p.answer \in forms
    PROVE  EndsOnAnswer(p, <<a, Reveals(forms, p.answer)>>)
<1> DEFINE z == Reveals(forms, p.answer)
<1>1. z.reveals = p.answer /\ p.answer \in z.writes
  BY RevealsIs
<1> HIDE DEF z
<1>2. <<a, z>> # <<>> /\ LastStep(<<a, z>>) = z
  BY DEF LastStep
<1> QED BY <1>1, <1>2 DEF EndsOnAnswer, EndsOn, Unbuildable, z

LEMMA EndsRevealing3 ==
    ASSUME NEW p, p.kind = "numeric", NEW a, NEW b, NEW forms, p.answer \in forms
    PROVE  EndsOnAnswer(p, <<a, b, Reveals(forms, p.answer)>>)
<1> DEFINE z == Reveals(forms, p.answer)
<1>1. z.reveals = p.answer /\ p.answer \in z.writes
  BY RevealsIs
<1> HIDE DEF z
<1>2. <<a, b, z>> # <<>> /\ LastStep(<<a, b, z>>) = z
  BY DEF LastStep
<1> QED BY <1>1, <1>2 DEF EndsOnAnswer, EndsOn, Unbuildable, z

LEMMA EndsRevealing4 ==
    ASSUME NEW p, p.kind = "numeric", NEW a, NEW b, NEW c, NEW forms, p.answer \in forms
    PROVE  EndsOnAnswer(p, <<a, b, c, Reveals(forms, p.answer)>>)
<1> DEFINE z == Reveals(forms, p.answer)
<1>1. z.reveals = p.answer /\ p.answer \in z.writes
  BY RevealsIs
<1> HIDE DEF z
<1>2. <<a, b, c, z>> # <<>> /\ LastStep(<<a, b, c, z>>) = z
  BY DEF LastStep
<1> QED BY <1>1, <1>2 DEF EndsOnAnswer, EndsOn, Unbuildable, z

LEMMA EndsTelling3 ==
    ASSUME NEW p, p.kind # "numeric", NEW a, NEW b, NEW forms
    PROVE  EndsOnAnswer(p, <<a, b, Tells(forms)>>)
<1> DEFINE z == Tells(forms)
<1>1. z.tells
  BY TellsIs
<1> HIDE DEF z
<1>2. <<a, b, z>> # <<>> /\ LastStep(<<a, b, z>>) = z
  BY DEF LastStep
<1> QED BY <1>1, <1>2 DEF EndsOnAnswer, EndsOn, Unbuildable, z

LEMMA MultiplyEnds ==
    ASSUME NEW p, p.kind = "numeric"
    PROVE  EndsOnAnswer(p, MultiplySteps(p))
<1> QED BY EndsRevealing2, EndsRevealing3 DEF MultiplySteps

LEMMA DivideEnds ==
    ASSUME NEW p, p.kind = "numeric"
    PROVE  EndsOnAnswer(p, DivideSteps(p))
<1> QED BY EndsRevealing2, EndsRevealing3 DEF DivideSteps

LEMMA RatioLanguageEnds ==
    ASSUME NEW p, p.kind = "numeric"
    PROVE  EndsOnAnswer(p, RatioLanguageSteps(p))
<1>1. CASE Int1(p, 1) = PartWholeMode
  BY <1>1, EndsRevealing2, EndsRevealing3 DEF RatioLanguageSteps
<1>2. CASE ~(Int1(p, 1) = PartWholeMode)
  BY <1>2, EndsRevealing2, EndsRevealing3 DEF RatioLanguageSteps
<1> QED BY <1>1, <1>2

LEMMA BetterBuyEnds ==
    ASSUME NEW p, p.kind = "yes_no"
    PROVE  EndsOnAnswer(p, BetterBuySteps(p))
<1> QED BY EndsTelling3 DEF BetterBuySteps

LEMMA PercentEnds ==
    ASSUME NEW p, p.kind = "numeric"
    PROVE  EndsOnAnswer(p, PercentSteps(p))
<1>1. CASE Int1(p, 3) = FindWhole
  BY <1>1, EndsRevealing2, EndsRevealing3 DEF PercentSteps
<1>2. CASE ~(Int1(p, 3) = FindWhole)
  BY <1>2, EndsRevealing2, EndsRevealing3 DEF PercentSteps
<1> QED BY <1>1, <1>2

LEMMA UnitConversionEnds ==
    ASSUME NEW p, p.kind = "numeric"
    PROVE  EndsOnAnswer(p, UnitConversionSteps(p))
<1> QED BY EndsRevealing2, EndsRevealing3 DEF UnitConversionSteps

LEMMA GcfLcmEnds ==
    ASSUME NEW p, p.kind = "numeric"
    PROVE  EndsOnAnswer(p, GcfLcmSteps(p))
<1> QED BY EndsRevealing2, EndsRevealing3 DEF GcfLcmSteps

LEMMA DivisionEnds ==
    ASSUME NEW p, p.kind = "numeric"
    PROVE  EndsOnAnswer(p, DivisionSteps(p))
<1> QED BY EndsRevealing2, EndsRevealing3 DEF DivisionSteps

LEMMA AbsoluteEnds ==
    ASSUME NEW p, p.kind = "numeric"
    PROVE  EndsOnAnswer(p, AbsoluteSteps(p))
<1> QED BY EndsRevealing2, EndsRevealing3 DEF AbsoluteSteps

LEMMA IntegerAddEnds ==
    ASSUME NEW p, p.kind = "numeric"
    PROVE  EndsOnAnswer(p, IntegerAddSteps(p))
<1> QED BY EndsRevealing2, EndsRevealing3 DEF IntegerAddSteps

LEMMA OppositeEnds ==
    ASSUME NEW p, p.kind = "numeric"
    PROVE  EndsOnAnswer(p, OppositeSteps(p))
<1> QED BY EndsRevealing2, EndsRevealing3 DEF OppositeSteps

LEMMA IntegerProductEnds ==
    ASSUME NEW p, p.kind = "numeric"
    PROVE  EndsOnAnswer(p, IntegerProductSteps(p))
<1> QED BY EndsRevealing2, EndsRevealing3 DEF IntegerProductSteps

LEMMA ClassifyEnds ==
    ASSUME NEW p, p.kind = "number_sets"
    PROVE  EndsOnAnswer(p, ClassifySteps(p))
<1> QED BY EndsTelling3 DEF ClassifySteps

LEMMA SummaryEnds ==
    ASSUME NEW p, p.kind = "numeric"
    PROVE  EndsOnAnswer(p, SummarySteps(p))
<1> QED BY EndsRevealing2, EndsRevealing3 DEF SummarySteps

LEMMA DisplayEnds ==
    ASSUME NEW p, p.kind = "numeric"
    PROVE  EndsOnAnswer(p, DisplaySteps(p))
<1> QED BY EndsRevealing2, EndsRevealing3 DEF DisplaySteps

LEMMA CategoricalEnds ==
    ASSUME NEW p, p.kind = "numeric"
    PROVE  EndsOnAnswer(p, CategoricalSteps(p))
<1> QED BY EndsRevealing2, EndsRevealing3 DEF CategoricalSteps

LEMMA DeviationEnds ==
    ASSUME NEW p, p.kind = "numeric"
    PROVE  EndsOnAnswer(p, DeviationSteps(p))
<1> QED BY EndsRevealing2, EndsRevealing3 DEF DeviationSteps

LEMMA SpreadEnds ==
    ASSUME NEW p, p.kind = "numeric"
    PROVE  EndsOnAnswer(p, SpreadSteps(p))
<1>1. CASE Int1(p, 1) = SpreadRange
  BY <1>1, EndsRevealing2, EndsRevealing3 DEF SpreadSteps
<1>2. CASE ~(Int1(p, 1) = SpreadRange)
  BY <1>2, EndsRevealing2, EndsRevealing3 DEF SpreadSteps
<1> QED BY <1>1, <1>2

LEMMA StatisticalEnds ==
    ASSUME NEW p, p.kind = "yes_no"
    PROVE  EndsOnAnswer(p, StatisticalSteps(p))
<1> QED BY EndsTelling3 DEF StatisticalSteps

LEMMA WriteEnds ==
    ASSUME NEW p, p.kind = "expression"
    PROVE  EndsOnAnswer(p, WriteSteps(p))
<1> QED BY EndsTelling3 DEF WriteSteps

LEMMA EquivalentEnds ==
    ASSUME NEW p, p.kind = "expression"
    PROVE  EndsOnAnswer(p, EquivalentSteps(p))
<1> QED BY EndsTelling3 DEF EquivalentSteps

LEMMA InequalityEnds ==
    ASSUME NEW p, p.kind = "inequality"
    PROVE  EndsOnAnswer(p, InequalitySteps(p))
<1> QED BY EndsTelling3 DEF InequalitySteps

LEMMA EvaluateEnds ==
    ASSUME NEW p, p.kind = "numeric"
    PROVE  EndsOnAnswer(p, EvaluateSteps(p))
<1> QED BY EndsRevealing2, EndsRevealing3 DEF EvaluateSteps

LEMMA ExponentEnds ==
    ASSUME NEW p, p.kind = "numeric"
    PROVE  EndsOnAnswer(p, ExponentSteps(p))
<1>1. CASE Arity(p) = 5
  BY <1>1, EndsRevealing2, EndsRevealing3 DEF ExponentSteps
<1>2. CASE ~(Arity(p) = 5)
  BY <1>2, EndsRevealing2, EndsRevealing3 DEF ExponentSteps
<1> QED BY <1>1, <1>2

LEMMA OneStepEnds ==
    ASSUME NEW p, p.kind = "numeric"
    PROVE  EndsOnAnswer(p, OneStepSteps(p))
<1> QED BY EndsRevealing2, EndsRevealing3 DEF OneStepSteps

LEMMA EquationEnds ==
    ASSUME NEW p, p.kind = "yes_no" \/ p.kind = "numeric"
    PROVE  EndsOnAnswer(p, EquationSteps(p))
<1>1. CASE p.kind = "yes_no"
  BY <1>1, EndsRevealing2, EndsRevealing3, EndsTelling3 DEF EquationSteps
<1>2. CASE ~(p.kind = "yes_no")
  BY <1>2, EndsRevealing2, EndsRevealing3, EndsTelling3 DEF EquationSteps
<1> QED BY <1>1, <1>2

LEMMA PartsEnds ==
    ASSUME NEW p, p.kind = "numeric"
    PROVE  EndsOnAnswer(p, PartsSteps(p))
<1> QED BY EndsRevealing2, EndsRevealing3 DEF PartsSteps

LEMMA TriangleEnds ==
    ASSUME NEW p, p.kind = "numeric"
    PROVE  EndsOnAnswer(p, TriangleSteps(p))
<1>1. CASE Int1(p, 3) = AngleMode
  BY <1>1, EndsRevealing2, EndsRevealing3 DEF TriangleSteps
<1>2. CASE ~(Int1(p, 3) = AngleMode)
  BY <1>2, EndsRevealing2, EndsRevealing3 DEF TriangleSteps
<1> QED BY <1>1, <1>2

LEMMA AreaEnds ==
    ASSUME NEW p, p.kind = "numeric"
    PROVE  EndsOnAnswer(p, AreaSteps(p))
<1>1. CASE Arity(p) = 4
  BY <1>1, EndsRevealing2, EndsRevealing3 DEF AreaSteps
<1>2. CASE Arity(p) # 4 /\ Int1(p, 3) = TriangleShape
  BY <1>2, EndsRevealing2, EndsRevealing3 DEF AreaSteps
<1>3. CASE Arity(p) # 4 /\ Int1(p, 3) # TriangleShape
  BY <1>3, EndsRevealing2, EndsRevealing3 DEF AreaSteps
<1> QED BY <1>1, <1>2, <1>3

LEMMA VolumeEnds ==
    ASSUME NEW p, p.kind = "numeric"
    PROVE  EndsOnAnswer(p, VolumeSteps(p))
<1> QED BY EndsRevealing2, EndsRevealing3 DEF VolumeSteps

LEMMA SurfaceEnds ==
    ASSUME NEW p, p.kind = "numeric"
    PROVE  EndsOnAnswer(p, SurfaceSteps(p))
<1> QED BY EndsRevealing2, EndsRevealing3 DEF SurfaceSteps

LEMMA CoordinateEnds ==
    ASSUME NEW p, p.kind = "coordinate"
    PROVE  EndsOnAnswer(p, CoordinateSteps(p))
<1> QED BY EndsTelling3 DEF CoordinateSteps

LEMMA IncomeEnds ==
    ASSUME NEW p, p.kind = "numeric"
    PROVE  EndsOnAnswer(p, IncomeSteps(p))
<1> QED BY EndsRevealing2, EndsRevealing3 DEF IncomeSteps

(* The lessons whose last step works the answer out again.                 *)
LEMMA DrawnFractions ==
    ASSUME NEW d \in Difficulties, NEW f \in ProperFractions(d)
    PROVE  Fraction(f)
<1>1. Difficulties = 1..4
  BY DEF Difficulties
<1>2. \A q \in DenomByDifficulty[d] : q \in Nat \ {0}
  BY <1>1 DEF DenomByDifficulty
<1>3. PICK q \in DenomByDifficulty[d] : f \in {Rational(n, q) : n \in 1..(q - 1)}
  BY DEF ProperFractions
<1>4. PICK n \in 1..(q - 1) : f = Rational(n, q)
  BY <1>3
<1>5. n \in Int /\ q \in Nat \ {0}
  BY <1>2
<1> QED BY <1>4, <1>5, RationalType DEF Fraction

LEMMA PairFractions ==
    ASSUME NEW d \in Difficulties, NEW pr \in UnlikePairs(d)
    PROVE  Fraction(pr[1]) /\ Fraction(pr[2])
<1>1. pr \in ProperFractions(d) \X ProperFractions(d)
  BY DEF UnlikePairs
<1> QED BY <1>1, DrawnFractions

LEMMA EquivalenceEnds ==
    ASSUME NEW format, NEW d, NEW p \in EquivalenceProblems(format, d)
    PROVE  \/ EquivalenceSteps(p) = Unbuildable /\ p.kind = "yes_no"
           \/ EndsOnAnswer(p, EquivalenceSteps(p))
<1>1. CASE format = "word_problem"
  <2>1. PICK pr : p = YesNo("equivalence", format, "equal", pr, pr[1])
                  /\ pr \in ProperFractions(d) \X ProperFractions(d)
    BY <1>1 DEF EquivalenceProblems
  <2>2. p.operands = pr /\ p.kind = "yes_no"
    BY <2>1 DEF YesNo, Numeric
  <2>3. Arity(p) # 1
    BY <2>1, <2>2 DEF Arity
  <2> QED BY <2>2, <2>3 DEF EquivalenceSteps
<1>2. CASE format # "word_problem"
  <2>1. PICK base, scale :
             p = [Numeric("equivalence", format, <<base>>, base)
                    EXCEPT !.givenDenominator = Den(base) * scale]
    BY <1>2 DEF EquivalenceProblems
  <2>2. p.operands = <<base>> /\ p.kind = "numeric" /\ p.answer = base
    BY <2>1 DEF Numeric
  <2>3. Arity(p) = 1 /\ p.operands[1] = p.answer
    BY <2>2 DEF Arity
  <2> QED BY <2>2, <2>3, EndsRevealing2 DEF EquivalenceSteps
<1> QED BY <1>1, <1>2

LEMMA NumberLineEnds ==
    ASSUME NEW format, NEW d, NEW p \in NumberLineProblems(format, d)
    PROVE  \/ NumberLineSteps(p) = Unbuildable /\ p.kind = "yes_no"
           \/ EndsOnAnswer(p, NumberLineSteps(p))
<1>1. CASE format = "symbolic"
  <2>1. PICK pr \in UnlikePairs(d) :
             p = YesNo("number_line_placement", format, "greater",
                       IF d = 4 THEN Negated(pr) ELSE pr,
                       IF d = 4 THEN Negated(pr)[1] ELSE pr[1])
    BY <1>1 DEF NumberLineProblems
  <2>2. p.operands = (IF d = 4 THEN Negated(pr) ELSE pr) /\ p.kind = "yes_no"
    BY <2>1 DEF YesNo, Numeric
  <2>3. Len(pr) = 2 /\ Len(Negated(pr)) = 2
    BY DEF UnlikePairs, Negated
  <2>4. Arity(p) # 1
    BY <2>2, <2>3 DEF Arity
  <2> QED BY <2>2, <2>4 DEF NumberLineSteps
<1>2. CASE format # "symbolic"
  <2>1. PICK t : p = Numeric("number_line_placement", format, <<t>>, t)
    BY <1>2 DEF NumberLineProblems
  <2>2. p.operands = <<t>> /\ p.kind = "numeric" /\ p.answer = t
    BY <2>1 DEF Numeric
  <2>3. Arity(p) = 1 /\ p.operands[1] = p.answer
    BY <2>2 DEF Arity
  <2> QED BY <2>2, <2>3, EndsRevealing1 DEF NumberLineSteps
<1> QED BY <1>1, <1>2

LEMMA CommonDenominatorEnds ==
    ASSUME NEW format, NEW d, NEW p \in CommonDenominatorProblems(format, d)
    PROVE  EndsOnAnswer(p, CommonDenominatorSteps(p))
<1>1. PICK pr : p = Numeric("common_denominator", format, pr,
                            Whole(Lcm(Den(pr[1]), Den(pr[2]))))
  BY DEF CommonDenominatorProblems
<1>2. /\ p.operands = pr /\ p.kind = "numeric"
      /\ Whole(Lcm(Den(p.operands[1]), Den(p.operands[2]))) = p.answer
  BY <1>1 DEF Numeric
<1> QED BY <1>2, EndsRevealing2 DEF CommonDenominatorSteps

LEMMA AdditionEnds ==
    ASSUME NEW format, NEW d \in Difficulties, NEW p \in AdditionProblems(format, d)
    PROVE  EndsOnAnswer(p, AdditionOrSubtractionSteps(p, TRUE))
<1>1. PICK pr \in UnlikePairs(d) \cup {<<<<1, 4>>, <<1, 3>>>>} :
             p = Numeric("addition_unlike", format, pr, Plus(pr[1], pr[2]))
  BY DEF AdditionProblems, UnlikePairsSumBelowOne
<1>2. Fraction(pr[1]) /\ Fraction(pr[2])
  <2>1. CASE pr \in UnlikePairs(d)
    BY <2>1, PairFractions
  <2>2. CASE pr = <<<<1, 4>>, <<1, 3>>>>
    BY <2>2 DEF Fraction, Num, Den
  <2> QED BY <2>1, <2>2
<1> DEFINE f == p.operands[1]
           s == p.operands[2]
           common == Lcm(Den(f), Den(s))
           top == Num(f) * (common \div Den(f)) + Num(s) * (common \div Den(s))
<1>3. /\ f = pr[1] /\ s = pr[2] /\ p.kind = "numeric" /\ p.answer = Plus(f, s)
  BY <1>1 DEF Numeric
<1>4. Rational(top, common) = p.answer
  BY <1>2, <1>3, OverTheLcm
<1> QED BY <1>3, <1>4, EndsRevealing4 DEF AdditionOrSubtractionSteps

LEMMA SubtractionEnds ==
    ASSUME NEW format, NEW d \in Difficulties, NEW p \in SubtractionProblems(format, d)
    PROVE  EndsOnAnswer(p, AdditionOrSubtractionSteps(p, FALSE))
<1>1. PICK pr \in UnlikePairs(d) :
             p = Numeric("subtraction_unlike", format, pr, Minus(pr[1], pr[2]))
  BY DEF SubtractionProblems, OrderedUnlikePairs
<1>2. Fraction(pr[1]) /\ Fraction(pr[2])
  BY PairFractions
<1> DEFINE f == p.operands[1]
           s == p.operands[2]
           common == Lcm(Den(f), Den(s))
           top == Num(f) * (common \div Den(f)) - Num(s) * (common \div Den(s))
<1>3. /\ f = pr[1] /\ s = pr[2] /\ p.kind = "numeric" /\ p.answer = Minus(f, s)
  BY <1>1 DEF Numeric
<1>4. Rational(top, common) = p.answer
  BY <1>2, <1>3, OverTheLcm
<1> QED BY <1>3, <1>4, EndsRevealing4 DEF AdditionOrSubtractionSteps

LEMMA DependentEnds ==
    ASSUME NEW format, NEW d \in Difficulties, NEW p \in DependentProblems(format, d)
    PROVE  EndsOnAnswer(p, DependentSteps(p))
<1>1. CASE format = "coordinate_plane"
  <2>1. PICK operands, points :
           p = Structured("dependent_vars", format, "coordinate", operands, points)
    BY <1>1 DEF DependentProblems
  <2>2. p.kind = "coordinate"
    BY <2>1 DEF Structured, Numeric
  <2> QED BY <2>2, EndsTelling3 DEF DependentSteps
<1>2. CASE format # "coordinate_plane"
  <2>1. PICK ax \in DependentRate[d] \X DependentValue[d] :
           p = Numeric("dependent_vars", format, Wholes(<<ax[1], ax[2]>>),
                       Whole(ax[1] * ax[2]))
    BY <1>2 DEF DependentProblems
  <2>2. Difficulties = 1..4
    BY DEF Difficulties
  <2>3. DependentRate[d] \subseteq Int /\ DependentValue[d] \subseteq Int
    BY <2>2 DEF DependentRate, DependentValue
  <2>4. PICK a \in Int, x \in Int : ax = <<a, x>>
    BY <2>3
  <2>5. /\ p.kind = "numeric" /\ p.answer = Whole(a * x)
        /\ p.operands[1] = Whole(a) /\ p.operands[2] = Whole(x)
    BY <2>1, <2>4 DEF Numeric, Wholes
  <2>6. Times(Whole(a), Whole(x)) = Rational(a * x, 1)
    BY DEF Times, Whole, Num, Den
  <2>7. Times(p.operands[1], p.operands[2]) = p.answer
    BY <2>5, <2>6, RationalWhole
  <2>8. p.kind # "coordinate"
    BY <2>5
  <2> QED BY <2>5, <2>7, <2>8, EndsRevealing2 DEF DependentSteps
<1> QED BY <1>1, <1>2

(* Two fractions are one number only if they agree crosswise.              *)
LEMMA CrossProducts ==
    ASSUME NEW p \in Int, NEW q \in Nat \ {0}, NEW r \in Int, NEW s \in Nat \ {0},
           Rational(p, q) = Rational(r, s)
    PROVE  p * s = r * q
<1>1. PICK m \in Int, n \in Nat \ {0}, g \in Nat \ {0} :
        /\ g = Gcd[<<Magnitude(p), q>>]
        /\ p = m * g /\ q = n * g /\ Rational(p, q) = <<m, n>>
  BY RationalIs
<1>2. PICK k \in Int, l \in Nat \ {0}, h \in Nat \ {0} :
        /\ h = Gcd[<<Magnitude(r), s>>]
        /\ r = k * h /\ s = l * h /\ Rational(r, s) = <<k, l>>
  BY RationalIs
<1>3. k = m /\ l = n
  BY <1>1, <1>2
<1>4. (m * g) * (n * h) = (m * h) * (n * g)
  BY <1>1, <1>2
<1> QED BY <1>1, <1>2, <1>3, <1>4

LEMMA WholeIs ==
    ASSUME NEW p \in Int, NEW q \in Nat \ {0}, NEW n \in Int, Rational(p, q) = Whole(n)
    PROVE  p = n * q
<1>1. Rational(p, q) = Rational(n, 1)
  BY RationalWhole
<1>2. p * 1 = n * q
  BY <1>1, CrossProducts
<1> QED BY <1>2

LEMMA WholesDiffer ==
    ASSUME NEW m, NEW n, Whole(m) = Whole(n)
    PROVE  m = n
<1> QED BY DEF Whole

(* The reduced form has the sign of the fraction.                          *)
LEMMA RationalSign ==
    ASSUME NEW p \in Int, NEW q \in Nat \ {0}
    PROVE  /\ p >= 0 => Num(Rational(p, q)) >= 0
           /\ p > 0 => Num(Rational(p, q)) > 0
           /\ p < 0 => Num(Rational(p, q)) < 0
<1>1. PICK m \in Int, n \in Nat \ {0}, g \in Nat \ {0} :
        /\ g = Gcd[<<Magnitude(p), q>>]
        /\ p = m * g /\ q = n * g /\ Rational(p, q) = <<m, n>>
  BY RationalIs
<1>2. Num(Rational(p, q)) = m
  BY <1>1 DEF Num
<1>3. /\ m * g >= 0 => m >= 0
      /\ m * g > 0 => m > 0
      /\ m * g < 0 => m < 0
  BY <1>1
<1> QED BY <1>1, <1>2, <1>3

LEMMA RationalBelowOne ==
    ASSUME NEW p \in Nat, NEW q \in Nat \ {0}, p < q
    PROVE  Num(Rational(p, q)) < Den(Rational(p, q))
<1>0. p \in Int
  OBVIOUS
<1>1. PICK m \in Int, n \in Nat \ {0}, g \in Nat \ {0} :
        /\ g = Gcd[<<Magnitude(p), q>>]
        /\ p = m * g /\ q = n * g /\ Rational(p, q) = <<m, n>>
  BY <1>0, RationalIs
<1>2. m < n
  BY <1>1
<1> QED BY <1>1, <1>2 DEF Num, Den

LEMMA RationalBounded ==
    ASSUME NEW p \in Int, NEW q \in Nat \ {0}
    PROVE  Den(Rational(p, q)) <= q
<1>1. PICK m \in Int, n \in Nat \ {0}, g \in Nat \ {0} :
        /\ g = Gcd[<<Magnitude(p), q>>]
        /\ p = m * g /\ q = n * g /\ Rational(p, q) = <<m, n>>
  BY RationalIs
<1>2. n * g >= n
  BY <1>1
<1> QED BY <1>1, <1>2 DEF Den

(* The greatest common divisor is a combination of the two (Bezout).       *)
LEMMA GcdCombines ==
    ASSUME NEW a \in Nat, NEW b \in Nat \ {0}
    PROVE  \E x, y \in Int : Gcd[<<a, b>>] = x * a + y * b
<1> DEFINE Holds(c, d) == \E x, y \in Int : Gcd[<<c, d>>] = x * c + y * d
           Fails == {d \in Nat : \E c \in Nat : ~Holds(c, d)}
<1>1. SUFFICES ASSUME Fails # {} PROVE FALSE
  OBVIOUS
<1>2. PICK d \in Fails : \A e \in Fails : d <= e
  <2>1. Fails \in SUBSET Nat
    OBVIOUS
  <2> HIDE DEF Fails
  <2> QED BY <1>1, <2>1, LeastNatural
<1>3. PICK c \in Nat : ~Holds(c, d)
  OBVIOUS
<1>4. d \in Nat
  OBVIOUS
<1>5. CASE d = 0
  <2>1. Gcd[<<c, d>>] = c
    BY <1>4, <1>5, GcdStep
  <2>2. c = 1 * c + 0 * d /\ 1 \in Int /\ 0 \in Int
    BY <1>5
  <2>3. Holds(c, d)
    BY <2>1, <2>2
  <2> QED BY <1>3, <2>3
<1>6. CASE d # 0
  <2> DEFINE r == c % d
             q == c \div d
             g == Gcd[<<d, r>>]
  <2>1. r \in Nat /\ q \in Nat /\ r < d /\ c = d * q + r
    BY <1>4, <1>6
  <2>2. Gcd[<<c, d>>] = g
    BY <1>4, <1>6, GcdStep
  <2>3. r \notin Fails
    <3> HIDE DEF Fails, r
    <3> QED BY <1>2, <1>4, <2>1
  <2> HIDE DEF r, q
  <2>4. Holds(d, r)
    BY <1>4, <2>1, <2>3
  <2>5. PICK x \in Int, y \in Int : g = x * d + y * r
    BY <2>4
  <2> HIDE DEF g
  <2>6. g = y * c + (x - y * q) * d
    <3>1. r = c - d * q
      BY <1>4, <2>1
    <3>2. x * d + y * (c - d * q) = y * c + (x - y * q) * d
      BY <1>4, <2>1
    <3> QED BY <2>5, <3>1, <3>2
  <2>7. x - y * q \in Int
    BY <2>1
  <2> QED BY <1>3, <2>2, <2>6, <2>7
<1> QED BY <1>5, <1>6

(* A reduced form is in lowest terms: a combination of its terms is one.   *)
LEMMA RationalReduced ==
    ASSUME NEW p \in Nat, NEW q \in Nat \ {0}
    PROVE  LET f == Rational(p, q)
           IN  /\ Num(f) \in Nat
               /\ \E x, y \in Int : x * Num(f) + y * Den(f) = 1
<1>0. p \in Int /\ Magnitude(p) = p
  BY DEF Magnitude
<1>1. PICK m \in Int, n \in Nat \ {0}, g \in Nat \ {0} :
        /\ g = Gcd[<<Magnitude(p), q>>]
        /\ p = m * g /\ q = n * g /\ Rational(p, q) = <<m, n>>
  BY <1>0, RationalIs
<1>2. m \in Nat
  BY <1>1
<1>3. g = g * Gcd[<<m, n>>]
  <2>1. Gcd[<<g * m, g * n>>] = g * Gcd[<<m, n>>]
    BY <1>2, GcdScale
  <2>2. <<Magnitude(p), q>> = <<g * m, g * n>>
    BY <1>0, <1>1
  <2> QED BY <1>1, <2>1, <2>2
<1>4. Gcd[<<m, n>>] \in Nat \ {0}
  BY <1>2, GcdPositive
<1> DEFINE h == Gcd[<<m, n>>]
<1>5. PICK x \in Int, y \in Int : h = x * m + y * n
  BY <1>2, GcdCombines
<1> HIDE DEF h
<1>6. h = 1
  <2>1. h \in Nat \ {0} /\ g = g * h
    BY <1>3, <1>4 DEF h
  <2> QED BY <2>1
<1>7. Num(Rational(p, q)) = m /\ Den(Rational(p, q)) = n
  BY <1>1 DEF Num, Den
<1> QED BY <1>2, <1>5, <1>6, <1>7

(* A factor of a * d * d that has no divisor in common with d divides a.   *)
LEMMA CoprimeDivides ==
    ASSUME NEW c \in Nat \ {0}, NEW d \in Nat \ {0}, NEW a \in Nat \ {0},
           NEW x \in Int, NEW y \in Int, x * c + y * d = 1,
           NEW k \in Int, a * d * d = k * c
    PROVE  c <= a
<1>1. a * d = (a * d * x + y * k) * c
  <2>1. a * d * (x * c + y * d) = a * d * x * c + y * (a * d * d)
    OBVIOUS
  <2>2. a * d * x * c + y * (k * c) = (a * d * x + y * k) * c
    OBVIOUS
  <2> QED BY <2>1, <2>2
<1> DEFINE l == a * d * x + y * k
<1>2. l \in Int /\ a * d = l * c
  BY <1>1
<1> HIDE DEF l
<1>3. a = (a * x + y * l) * c
  <2>1. a * (x * c + y * d) = a * x * c + y * (a * d)
    OBVIOUS
  <2>2. a * x * c + y * (l * c) = (a * x + y * l) * c
    BY <1>2
  <2> QED BY <1>2, <2>1, <2>2
<1> DEFINE m == a * x + y * l
<1>4. m \in Int /\ a = m * c
  BY <1>2, <1>3
<1> HIDE DEF m
<1>5. m >= 1
  BY <1>4
<1>6. m * c >= c
  BY <1>4, <1>5
<1> QED BY <1>4, <1>6

(* A negative denominator passes its sign to the numerator.                *)
LEMMA RationalFlips ==
    ASSUME NEW p \in Int, NEW q \in Int, q < 0
    PROVE  Rational(p, q) = Rational(-p, -q)
<1> DEFINE r == -p
           s == -q
<1>0. r \in Int /\ s \in Nat \ {0} /\ Magnitude(r) = Magnitude(p) /\ Magnitude(q) = s
  BY DEF Magnitude
<1>a. p = -r /\ q = -s
  OBVIOUS
<1> HIDE DEF r, s
<1>1. PICK m \in Int, n \in Nat \ {0}, g \in Nat \ {0} :
        /\ g = Gcd[<<Magnitude(r), s>>]
        /\ r = m * g /\ s = n * g /\ Rational(r, s) = <<m, n>>
  BY <1>0, RationalIs
<1>2. Rational(p, q) = <<-1 * (p \div g), -1 * (q \div g)>>
  BY <1>0, <1>1 DEF Rational
<1>3. p = (-m) * g /\ q = (-n) * g /\ -m \in Int /\ -n \in Int
  <2>1. -(m * g) = (-m) * g /\ -(n * g) = (-n) * g
    BY <1>1
  <2>2. p = -(m * g) /\ q = -(n * g)
    BY <1>1, <1>a
  <2>3. p = (-m) * g
    BY <2>1, <2>2
  <2>4. q = (-n) * g
    BY <2>1, <2>2
  <2> QED BY <2>3, <2>4
<1>4. ((-m) * g) \div g = -m /\ ((-n) * g) \div g = -n
  BY <1>3, ExactQuotient
<1>5. p \div g = -m /\ q \div g = -n
  BY <1>3, <1>4
<1>6. -1 * (-m) = m /\ -1 * (-n) = n
  OBVIOUS
<1> QED BY <1>1, <1>2, <1>5, <1>6 DEF r, s

(* The greatest common divisor is at most either number, the least common  *)
(* multiple at least.                                                      *)
LEMMA GcdBelowLcm ==
    ASSUME NEW a \in Nat \ {0}, NEW b \in Nat \ {0}, a # b
    PROVE  /\ Gcd[<<a, b>>] \in Nat /\ Lcm(a, b) \in Nat
           /\ Gcd[<<a, b>>] < Lcm(a, b)
<1> DEFINE h == Gcd[<<a, b>>]
<1>1. h \in Nat \ {0}
  BY GcdPositive
<1>2. PICK i \in Nat : a = i * h
  BY GcdDivides DEF Divides
<1>3. PICK j \in Nat : b = j * h
  BY GcdDivides DEF Divides
<1> HIDE DEF h
<1>4. h <= a /\ h <= b
  <2>1. i >= 1 /\ j >= 1
    BY <1>1, <1>2, <1>3
  <2>2. i * h >= h /\ j * h >= h
    BY <1>1, <2>1
  <2> QED BY <1>2, <1>3, <2>2
<1>5. PICK g \in Nat \ {0}, k \in Nat \ {0}, l \in Nat \ {0} :
        a = k * g /\ b = l * g /\ Lcm(a, b) = k * l * g
  BY LcmIs
<1>6. /\ Lcm(a, b) = l * a /\ l * a >= a
      /\ Lcm(a, b) = k * b /\ k * b >= b
  BY <1>5
<1>7. Lcm(a, b) \in Nat
  BY <1>5
<1> QED BY <1>1, <1>4, <1>6, <1>7 DEF h

(* What the modelled misconception makes of a numeric problem.             *)
Mistake(p) ==
    CASE p.kc = "addition_unlike" -> AddAcross(p.operands)
      [] p.kc = "subtraction_unlike" -> SubtractAcross(p.operands)
      [] p.kc = "number_line_placement" -> NaturalNumberBias(p.operands)
      [] p.kc = "ratio_language" -> PartPartWholeConfusion(p.operands)
      [] p.kc = "unit_rate" -> RateInversion(p.operands)
      [] p.kc = "equivalent_ratios" -> AdditiveRatio(p.operands)
      [] p.kc = "percent" -> PercentAsAmount(p.operands)
      [] p.kc = "multiply_fractions" -> MultiplyAsAdd(p.operands)
      [] p.kc = "divide_fractions" -> MultiplyWithoutInverting(p.operands)
      [] p.kc = "unit_conversion" -> ConversionInversion(p.operands)
      [] p.kc = "gcf_lcm" -> GcfForLcm(p.operands)
      [] p.kc = "multi_digit_division" -> PlaceValueSlip(p.operands)
      [] p.kc = "decimal_operations" -> DecimalPlacesIgnored(p.operands)
      [] p.kc = "absolute_value" -> SignKept(p.operands)
      [] p.kc = "integer_add_subtract" -> SignsIgnored(p.operands)
      [] p.kc = "signed_numbers" -> SignKept(p.operands)
      [] p.kc = "evaluate_expressions" -> AddedBeforeMultiplying(p.operands)
      [] p.kc = "exponents" -> ExponentSlip(p.operands)
      [] p.kc = "one_step_equations" -> WrongInverse(p.operands)
      [] p.kc = "expression_parts" -> PartsSwapped(p.operands)
      [] p.kc = "integer_multiply_divide" -> SignRuleSlip(p)
      [] p.kc = "triangle_properties" -> TriangleSlip(p.operands)
      [] p.kc = "area_polygons" -> NotHalved(p.operands)
      [] p.kc = "volume_fractional_edges" -> SumOf(p.operands)
      [] p.kc = "surface_area_nets" -> ThreeFaces(p.operands)
      [] p.kc = "mean_absolute_deviation" -> SignedDeviation(p.operands)
      [] p.kc = "center_spread_shape" -> RangeAsSum(p)
      [] p.kc = "summary_statistics" -> MedianWithoutOrdering(p)
      [] p.kc = "data_displays" -> CountDistinctAbove(p)
      [] p.kc = "categorical_data" -> PartOverPart(p.operands)
      [] p.kc = "dependent_vars" -> RateAdded(p.operands)
      [] p.kc = "equation_solutions" -> ConstantAdded(p.operands)
      [] p.kc = "check_register" -> WithdrawalAdded(p)
      [] p.kc = "lifetime_income" -> OneYearOnly(p.operands)
      [] OTHER -> Nothing

LEMMA SlipsAre ==
    ASSUME NEW values, NEW error, NEW name, NEW slip \in Slips(values, error, name)
    PROVE  slip.value \in values /\ slip.name = name
<1> QED BY DEF Slips

LEMMA PredictsIs ==
    ASSUME NEW value, NEW error, NEW name, NEW slip \in Predicts(value, error, name)
    PROVE  slip.value = value /\ slip.name = name /\ value # Nothing
<1>1. slip.value \in Present(value) /\ slip.name = name
  BY SlipsAre DEF Predicts
<1> QED BY <1>1 DEF Present

(* The name every lesson's mistake goes by.                                *)
FoundationAndRatioNames ==
    {<<"subtraction_unlike", "natural-number-bias">>,
     <<"number_line_placement", "natural-number-bias">>,
     <<"addition_unlike", "add-across-error">>, <<"unit_rate", "rate-inversion">>,
     <<"equivalent_ratios", "additive-ratio">>, <<"percent", "percent-as-amount">>,
     <<"multiply_fractions", "multiply-as-add">>,
     <<"unit_conversion", "conversion-inversion">>,
     <<"ratio_language", "part-part-whole-confusion">>}

NumberAndExpressionNames ==
    {<<"gcf_lcm", "gcf-lcm-confusion">>, <<"divide_fractions", "multiply-without-inverting">>,
     <<"multi_digit_division", "place-value-slip">>,
     <<"decimal_operations", "decimal-point-misplacement">>,
     <<"absolute_value", "signed-not-magnitude">>,
     <<"integer_add_subtract", "sign-handling-error">>, <<"signed_numbers", "sign-error">>,
     <<"write_expressions", "reversed-operands">>,
     <<"evaluate_expressions", "order-of-operations-slip">>,
     <<"exponents", "order-of-operations-slip">>,
     <<"one_step_equations", "inverse-operation-error">>,
     <<"equivalent_expressions", "distributive-error">>}

PlaneAndGeometryNames ==
    {<<"inequalities", "flipped-inequality">>, <<"coordinate_plane", "coordinate-swap">>,
     <<"polygons_coordinate_plane", "coordinate-swap">>,
     <<"classify_number_sets", "integer-not-rational">>,
     <<"expression_parts", "part-confusion">>, <<"exponents", "multiply-base-by-exponent">>,
     <<"integer_multiply_divide", "sign-rule-error">>,
     <<"triangle_properties", "triangle-formula-error">>,
     <<"area_polygons", "forgot-triangle-half">>, <<"area_polygons", "forgot-trapezoid-half">>,
     <<"volume_fractional_edges", "add-edges-error">>}

DataAndMoneyNames ==
    {<<"surface_area_nets", "count-three-faces">>,
     <<"mean_absolute_deviation", "forgot-absolute-value">>,
     <<"center_spread_shape", "range-as-sum">>,
     <<"summary_statistics", "median-without-sorting">>,
     <<"data_displays", "distinct-value-count">>, <<"categorical_data", "wrong-denominator">>,
     <<"dependent_vars", "dependent-independent-swap">>,
     <<"equation_solutions", "solution-substitution-error">>,
     <<"check_register", "add-withdrawal-instead-of-subtracting">>,
     <<"lifetime_income", "forgot-multiply-by-years">>}

Bank ==
    FoundationAndRatioBank \cup NumberAndExpressionBank
      \cup PlaneAndGeometryBank \cup DataAndMoneyBank

SlipNames ==
    FoundationAndRatioNames \cup NumberAndExpressionNames
      \cup PlaneAndGeometryNames \cup DataAndMoneyNames

LEMMA BankedUnder ==
    ASSUME NEW rows, NEW name, NEW kc,
           \E kcs : <<name, kcs>> \in rows,
           \A kcs : <<name, kcs>> \in rows => kc \in kcs
    PROVE  name \in DOMAIN Registry(rows) /\ kc \in Registry(rows)[name]
<1>1. PICK kcs : <<name, kcs>> \in rows
  OBVIOUS
<1>2. <<name, Registry(rows)[name]>> \in rows
  BY <1>1, RegistryRow
<1>3. <<name, kcs>>[1] = name
  OBVIOUS
<1>4. name \in DOMAIN Registry(rows)
  BY <1>1, <1>3 DEF Registry
<1> QED BY <1>2, <1>4

(* Every one of these names is in the bank, under its lesson.              *)
LEMMA NamesAreBanked ==
    ASSUME NEW kc, NEW name, <<kc, name>> \in SlipNames
    PROVE  name \in Misconceptions(kc)
<1> DEFINE Suits(lesson, called, kcs) == <<lesson, called>> \in SlipNames => lesson \in kcs
<1>1. \A called, kcs : <<called, kcs>> \in FoundationAndRatioBank =>
        \A lesson : Suits(lesson, called, kcs)
  BY DEF FoundationAndRatioBank, Each, SlipNames, FoundationAndRatioNames,
         NumberAndExpressionNames, PlaneAndGeometryNames, DataAndMoneyNames
<1>2. \A called, kcs : <<called, kcs>> \in NumberAndExpressionBank =>
        \A lesson : Suits(lesson, called, kcs)
  BY DEF NumberAndExpressionBank, Each, SlipNames, FoundationAndRatioNames,
         NumberAndExpressionNames, PlaneAndGeometryNames, DataAndMoneyNames
<1>3. \A called, kcs : <<called, kcs>> \in PlaneAndGeometryBank =>
        \A lesson : Suits(lesson, called, kcs)
  BY DEF PlaneAndGeometryBank, Each, SlipNames, FoundationAndRatioNames,
         NumberAndExpressionNames, PlaneAndGeometryNames, DataAndMoneyNames
<1>4. \A called, kcs : <<called, kcs>> \in DataAndMoneyBank =>
        \A lesson : Suits(lesson, called, kcs)
  BY DEF DataAndMoneyBank, Each, SlipNames, FoundationAndRatioNames,
         NumberAndExpressionNames, PlaneAndGeometryNames, DataAndMoneyNames
<1>5. ASSUME <<kc, name>> \in FoundationAndRatioNames
      PROVE  \E kcs : <<name, kcs>> \in Bank
  <2>1. name \in {"add-across-error", "additive-ratio", "conversion-inversion", "multiply-as-add",
                  "natural-number-bias", "part-part-whole-confusion", "percent-as-amount",
                  "rate-inversion"}
    BY <1>5 DEF FoundationAndRatioNames
  <2>2. \E kcs : <<name, kcs>> \in FoundationAndRatioBank
    BY <2>1, EachRow DEF FoundationAndRatioBank
  <2> QED BY <2>2 DEF Bank
<1>6. ASSUME <<kc, name>> \in NumberAndExpressionNames
      PROVE  \E kcs : <<name, kcs>> \in Bank
  <2>1. name \in {"decimal-point-misplacement", "distributive-error", "gcf-lcm-confusion",
                  "inverse-operation-error", "multiply-without-inverting",
                  "order-of-operations-slip", "place-value-slip", "reversed-operands",
                  "sign-error", "sign-handling-error", "signed-not-magnitude"}
    BY <1>6 DEF NumberAndExpressionNames
  <2>2. \E kcs : <<name, kcs>> \in NumberAndExpressionBank
    BY <2>1, EachRow DEF NumberAndExpressionBank
  <2> QED BY <2>2 DEF Bank
<1>7. ASSUME <<kc, name>> \in PlaneAndGeometryNames
      PROVE  \E kcs : <<name, kcs>> \in Bank
  <2>1. name \in {"add-edges-error", "coordinate-swap", "flipped-inequality",
                  "forgot-trapezoid-half", "forgot-triangle-half", "integer-not-rational",
                  "multiply-base-by-exponent", "part-confusion", "sign-rule-error",
                  "triangle-formula-error"}
    BY <1>7 DEF PlaneAndGeometryNames
  <2>2. \E kcs : <<name, kcs>> \in PlaneAndGeometryBank
    BY <2>1, EachRow DEF PlaneAndGeometryBank
  <2> QED BY <2>2 DEF Bank
<1>8. ASSUME <<kc, name>> \in DataAndMoneyNames
      PROVE  \E kcs : <<name, kcs>> \in Bank
  <2>1. name \in {"add-withdrawal-instead-of-subtracting", "count-three-faces",
                  "dependent-independent-swap", "distinct-value-count", "forgot-absolute-value",
                  "forgot-multiply-by-years", "median-without-sorting", "range-as-sum",
                  "solution-substitution-error", "wrong-denominator"}
    BY <1>8 DEF DataAndMoneyNames
  <2>2. \E kcs : <<name, kcs>> \in DataAndMoneyBank
    BY <2>1, EachRow DEF DataAndMoneyBank
  <2> QED BY <2>2 DEF Bank
<1>9. \E kcs : <<name, kcs>> \in Bank
  BY <1>5, <1>6, <1>7, <1>8 DEF SlipNames
<1>10. \A kcs : <<name, kcs>> \in Bank => kc \in kcs
  <2> SUFFICES ASSUME NEW kcs, <<name, kcs>> \in Bank PROVE kc \in kcs
    OBVIOUS
  <2>1. Suits(kc, name, kcs)
    <3> HIDE DEF Suits
    <3> QED BY <1>1, <1>2, <1>3, <1>4 DEF Bank
  <2> QED BY <2>1
<1> HIDE DEF Suits
<1>11. name \in DOMAIN Registry(Bank) /\ kc \in Registry(Bank)[name]
  BY <1>9, <1>10, BankedUnder
<1> QED BY <1>11 DEF Misconceptions, ApplicableLessons, Bank

(* A slip of a numeric problem is its lesson's mistake, under a name of it.*)
Mistaken(p, slip) ==
    slip.value = Mistake(p) /\ slip.value # Nothing /\ <<p.kc, slip.name>> \in SlipNames

LEMMA NumericSlipsAre ==
    ASSUME NEW p, NEW slip \in NumericSlips(p)
    PROVE  Mistaken(p, slip)
<1> USE DEF Mistaken, Mistake, SlipNames
<1>1. CASE slip \in FractionAndRatioModels(p.kc, p.operands)
  BY <1>1, PredictsIs DEF FractionAndRatioModels, FoundationAndRatioNames, NumberAndExpressionNames
<1>2. CASE slip \in NumberModels(p.kc, p.operands)
  BY <1>2, PredictsIs DEF NumberModels, NumberAndExpressionNames
<1>3. CASE slip \in ExpressionModels(p)
  BY <1>3, PredictsIs DEF ExpressionModels, NumberAndExpressionNames, PlaneAndGeometryNames
<1>4. CASE slip \in GeometryModels(p.kc, p.operands)
  BY <1>4, PredictsIs DEF GeometryModels, PlaneAndGeometryNames, DataAndMoneyNames
<1>5. CASE slip \in StatisticsModels(p)
  BY <1>5, PredictsIs DEF StatisticsModels, DataAndMoneyNames
<1>6. CASE slip \in RelationModels(p)
  BY <1>6, PredictsIs DEF RelationModels, DataAndMoneyNames
<1> QED BY <1>1, <1>2, <1>3, <1>4, <1>5, <1>6 DEF NumericSlips

(* A slip is diagnosed when it is not the answer and its name is banked.   *)
Diagnosed(p) ==
    \A slip \in NamedSlips(p) :
      /\ slip.value # p.canonical
      /\ IF p.kc = "dependent_vars" /\ p.kind = "coordinate"
         THEN slip.name = "coordinate-swap"
         ELSE slip.name \in Misconceptions(p.kc)

LEMMA VerdictOnSlip ==
    ASSUME NEW p, Diagnosed(p), NEW slip \in NamedSlips(p),
           p.kind # "yes_no", p.kc # "common_denominator"
    PROVE  LET verdict == Verify(p, slip.value)
           IN  /\ ~verdict.correct
               /\ IF p.kc = "dependent_vars" /\ p.kind = "coordinate"
                  THEN verdict.misconception = "coordinate-swap"
                  ELSE verdict.misconception \in Misconceptions(p.kc)
<1> DEFINE matches == {m \in NamedSlips(p) : m.value = slip.value}
           first == CHOOSE m \in matches : TRUE
<1>1. slip \in matches
  OBVIOUS
<1>2. first \in matches
  BY <1>1
<1>3. first \in NamedSlips(p)
  BY <1>2
<1>4. ~IsCorrect(p, slip.value)
  <2>1. slip.value # p.canonical
    BY DEF Diagnosed
  <2> QED BY <2>1 DEF IsCorrect
<1>5. Verify(p, slip.value) = Verdict(FALSE, first.error, first.name)
  BY <1>1, <1>4 DEF Verify
<1> HIDE DEF first
<1>6. IF p.kc = "dependent_vars" /\ p.kind = "coordinate"
      THEN first.name = "coordinate-swap" ELSE first.name \in Misconceptions(p.kc)
  BY <1>3 DEF Diagnosed
<1> QED BY <1>5, <1>6 DEF Verdict

(* What the proofs of the lessons show of a numeric problem.               *)
Sound(p, mistake) ==
    /\ p.canonical = p.answer /\ Fraction(p.answer)
    /\ mistake # Nothing => mistake # p.answer

LEMMA NumericDiagnosed ==
    ASSUME NEW p, p.kind = "numeric", Sound(p, Mistake(p))
    PROVE  Diagnosed(p)
<1> SUFFICES ASSUME NEW slip \in NamedSlips(p)
             PROVE  slip.value # p.canonical /\ slip.name \in Misconceptions(p.kc)
  BY DEF Diagnosed
<1>1. Mistaken(p, slip)
  BY NumericSlipsAre DEF NamedSlips
<1>2. slip.name \in Misconceptions(p.kc)
  BY <1>1, NamesAreBanked DEF Mistaken
<1> QED BY <1>1, <1>2 DEF Mistaken, Sound

(* ------------------------ reading a problem --------------------------- *)
LEMMA NumericIs ==
    ASSUME NEW kc, NEW format, NEW operands, NEW answer, NEW p,
           p = Numeric(kc, format, operands, answer)
    PROVE  /\ p.kind = "numeric" /\ p.operands = operands
           /\ p.answer = answer /\ p.canonical = answer /\ p.givenDenominator = 0
<1> QED BY DEF Numeric

LEMMA WholeFraction ==
    ASSUME NEW n \in Int
    PROVE  Fraction(Whole(n)) /\ Num(Whole(n)) = n /\ Den(Whole(n)) = 1
<1> QED BY DEF Fraction, Whole, Num, Den

LEMMA RationalFraction ==
    ASSUME NEW p \in Int, NEW q \in Nat \ {0}
    PROVE  Fraction(Rational(p, q))
<1> QED BY RationalType DEF Fraction

LEMMA Wholes2 ==
    ASSUME NEW a \in Int, NEW b \in Int
    PROVE  /\ Len(Wholes(<<a, b>>)) = 2
           /\ Wholes(<<a, b>>)[1] = Whole(a) /\ Wholes(<<a, b>>)[2] = Whole(b)
           /\ Num(Wholes(<<a, b>>)[1]) = a /\ Num(Wholes(<<a, b>>)[2]) = b
<1> QED BY DEF Wholes, Whole, Num

LEMMA Wholes3 ==
    ASSUME NEW a \in Int, NEW b \in Int, NEW c \in Int
    PROVE  LET ops == Wholes(<<a, b, c>>)
           IN  /\ Len(ops) = 3
               /\ ops[1] = Whole(a) /\ ops[2] = Whole(b) /\ ops[3] = Whole(c)
               /\ Num(ops[1]) = a /\ Num(ops[2]) = b /\ Num(ops[3]) = c
<1> QED BY DEF Wholes, Whole, Num

LEMMA Wholes4 ==
    ASSUME NEW a \in Int, NEW b \in Int, NEW c \in Int, NEW e \in Int
    PROVE  LET ops == Wholes(<<a, b, c, e>>)
           IN  /\ Len(ops) = 4
               /\ ops[1] = Whole(a) /\ ops[2] = Whole(b) /\ ops[3] = Whole(c)
               /\ ops[4] = Whole(e)
               /\ Num(ops[1]) = a /\ Num(ops[2]) = b /\ Num(ops[3]) = c /\ Num(ops[4]) = e
<1> QED BY DEF Wholes, Whole, Num

LEMMA Wholes5 ==
    ASSUME NEW a \in Int, NEW b \in Int, NEW c \in Int, NEW e \in Int, NEW f \in Int
    PROVE  LET ops == Wholes(<<a, b, c, e, f>>)
           IN  /\ Len(ops) = 5
               /\ Num(ops[1]) = a /\ Num(ops[2]) = b /\ Num(ops[3]) = c /\ Num(ops[4]) = e
<1> QED BY DEF Wholes, Whole, Num

(* Digits in two boxes: no sign is needed and no denominator is given.     *)
LEMMA TwoBoxes ==
    ASSUME NEW p, p.givenDenominator = 0, Num(p.answer) >= 0
    PROVE  InTwoBoxes(p, p.answer)
<1> QED BY DEF InTwoBoxes

(* A whole and a fraction of integers that are one number.                 *)
LEMMA SoundWhole ==
    ASSUME NEW p, NEW m \in Int, NEW n \in Int, m # n,
           p.answer = Whole(n), p.canonical = p.answer
    PROVE  Sound(p, Whole(m))
<1> QED BY WholesDiffer, WholeFraction DEF Sound

(* ------------------------------ fractions ----------------------------- *)
LEMMA ProperFractionIs ==
    ASSUME NEW d \in Difficulties, NEW f \in ProperFractions(d)
    PROVE  /\ Fraction(f) /\ Num(f) > 0 /\ Num(f) < Den(f)
           /\ \E x, y \in Int : x * Num(f) + y * Den(f) = 1
<1>1. Difficulties = 1..4
  BY DEF Difficulties
<1>2. \A q \in DenomByDifficulty[d] : q \in Nat \ {0}
  BY <1>1 DEF DenomByDifficulty
<1>3. PICK q \in DenomByDifficulty[d] : f \in {Rational(n, q) : n \in 1..(q - 1)}
  BY DEF ProperFractions
<1>4. PICK n \in 1..(q - 1) : f = Rational(n, q)
  BY <1>3
<1>5. n \in Nat /\ n \in Int /\ n > 0 /\ n < q /\ q \in Nat \ {0}
  BY <1>2
<1> QED BY <1>4, <1>5, RationalFraction, RationalSign, RationalBelowOne, RationalReduced

LEMMA UnlikePairIs ==
    ASSUME NEW d \in Difficulties, NEW pr \in UnlikePairs(d)
    PROVE  /\ pr[1] \in ProperFractions(d) /\ pr[2] \in ProperFractions(d)
           /\ Den(pr[1]) # Den(pr[2])
<1> QED BY DEF UnlikePairs

(* The terms of the two fractions of a pair.                               *)
Terms(a, b, c, e) ==
    /\ a \in Nat \ {0} /\ b \in Nat \ {0} /\ c \in Nat \ {0} /\ e \in Nat \ {0}
    /\ a < b /\ c < e

LEMMA PairTerms ==
    ASSUME NEW d \in Difficulties, NEW pr \in UnlikePairs(d)
    PROVE  /\ Terms(Num(pr[1]), Den(pr[1]), Num(pr[2]), Den(pr[2]))
           /\ Den(pr[1]) # Den(pr[2])
<1> QED BY UnlikePairIs, ProperFractionIs DEF Terms, Fraction

(* Adding across: a * e * e + c * b * b = 0.                               *)
LEMMA AdditionSound ==
    ASSUME NEW format, NEW d \in Difficulties, NEW p \in AdditionProblems(format, d)
    PROVE  Sound(p, AddAcross(p.operands)) /\ InTwoBoxes(p, p.answer)
<1>1. PICK pr \in UnlikePairs(d) \cup {<<<<1, 4>>, <<1, 3>>>>} :
             p = Numeric("addition_unlike", format, pr, Plus(pr[1], pr[2]))
  BY DEF AdditionProblems, UnlikePairsSumBelowOne
<1> DEFINE a == Num(pr[1])
           b == Den(pr[1])
           c == Num(pr[2])
           e == Den(pr[2])
<1>2. Terms(a, b, c, e)
  <2>1. CASE pr \in UnlikePairs(d)
    BY <2>1, PairTerms
  <2>2. CASE pr = <<<<1, 4>>, <<1, 3>>>>
    BY <2>2 DEF Terms, Num, Den
  <2> QED BY <2>1, <2>2
<1>3. /\ p.operands = pr /\ p.answer = Rational(a * e + c * b, b * e)
      /\ p.canonical = p.answer /\ p.givenDenominator = 0
  BY <1>1, NumericIs DEF Plus
<1>4. AddAcross(p.operands) = Rational(a + c, b + e)
  BY <1>3 DEF AddAcross
<1> HIDE DEF a, b, c, e
<1>5. /\ a * e + c * b \in Nat /\ b * e \in Nat \ {0} /\ a + c \in Int /\ b + e \in Nat \ {0}
  BY <1>2 DEF Terms
<1>6. Rational(a + c, b + e) # Rational(a * e + c * b, b * e)
  <2> SUFFICES ASSUME Rational(a + c, b + e) = Rational(a * e + c * b, b * e) PROVE FALSE
    OBVIOUS
  <2>1. (a + c) * (b * e) = (a * e + c * b) * (b + e)
    BY <1>5, CrossProducts
  <2>2. a * e * e + c * b * b = 0
    BY <1>2, <2>1 DEF Terms
  <2>3. a * e * e > 0 /\ c * b * b > 0
    BY <1>2 DEF Terms
  <2> QED BY <1>2, <2>2, <2>3 DEF Terms
<1>7. Fraction(p.answer) /\ Num(p.answer) >= 0
  BY <1>3, <1>5, RationalFraction, RationalSign
<1> QED BY <1>3, <1>4, <1>6, <1>7, TwoBoxes DEF Sound

(* Subtracting across: a * e * e + c * b * b = 2 * c * b * e.  As c / e is *)
(* in lowest terms c divides a, so that the left side is at least          *)
(* c * (e * e + b * b), more than the right side unless b = e.             *)
LEMMA NoCrossedDifference ==
    ASSUME NEW a \in Nat \ {0}, NEW b \in Nat \ {0}, NEW c \in Nat \ {0}, NEW e \in Nat \ {0},
           NEW x \in Int, NEW y \in Int, x * c + y * e = 1, b # e,
           (a - c) * (b * e) = (a * e - c * b) * (b - e)
    PROVE  FALSE
<1>1. a * e * e = (2 * b * e - b * b) * c
  OBVIOUS
<1>2. 2 * b * e - b * b \in Int
  OBVIOUS
<1>3. c <= a
  BY <1>1, <1>2, CoprimeDivides
<1>4. c * e * e <= a * e * e
  <2> DEFINE s == e * e
  <2>1. s \in Nat
    OBVIOUS
  <2>2. c * e * e = c * s /\ a * e * e = a * s
    OBVIOUS
  <2> HIDE DEF s
  <2>3. c * s <= a * s
    BY <1>3, <2>1
  <2> QED BY <2>2, <2>3
<1>5. c * ((e - b) * (e - b)) <= 0
  <2>1. c * ((e - b) * (e - b)) = c * e * e - (2 * b * e - b * b) * c
    OBVIOUS
  <2> QED BY <1>1, <1>4, <2>1
<1> DEFINE t == (e - b) * (e - b)
<1>6. t \in Nat /\ t > 0
  OBVIOUS
<1>7. c * t <= 0
  BY <1>5
<1> HIDE DEF t
<1> QED BY <1>6, <1>7

LEMMA SubtractionSound ==
    ASSUME NEW format, NEW d \in Difficulties, NEW p \in SubtractionProblems(format, d)
    PROVE  Sound(p, SubtractAcross(p.operands)) /\ InTwoBoxes(p, p.answer)
<1>1. PICK pr \in UnlikePairs(d) :
             /\ p = Numeric("subtraction_unlike", format, pr, Minus(pr[1], pr[2]))
             /\ Below(pr[2], pr[1])
  BY DEF SubtractionProblems, OrderedUnlikePairs
<1> DEFINE a == Num(pr[1])
           b == Den(pr[1])
           c == Num(pr[2])
           e == Den(pr[2])
<1>2. Terms(a, b, c, e) /\ b # e
  BY PairTerms
<1>3. PICK x \in Int, y \in Int : x * c + y * e = 1
  BY UnlikePairIs, ProperFractionIs
<1>4. /\ p.operands = pr /\ p.answer = Rational(a * e - c * b, b * e)
      /\ p.canonical = p.answer /\ p.givenDenominator = 0
  BY <1>1, NumericIs DEF Minus
<1>5. SubtractAcross(p.operands) = Rational(a - c, b - e)
  BY <1>2, <1>4 DEF SubtractAcross
<1>6. a * e - c * b >= 0
  <2>1. c * b < a * e
    BY <1>1 DEF Below
  <2>2. c * b \in Int /\ a * e \in Int
    BY <1>2 DEF Terms
  <2> HIDE DEF a, b, c, e
  <2> QED BY <2>1, <2>2
<1> HIDE DEF a, b, c, e
<1>7. /\ a * e - c * b \in Int /\ b * e \in Nat \ {0} /\ a - c \in Int /\ b - e \in Int
      /\ b - e # 0
  BY <1>2 DEF Terms
<1>8. Rational(a - c, b - e) # Rational(a * e - c * b, b * e)
  <2> SUFFICES ASSUME Rational(a - c, b - e) = Rational(a * e - c * b, b * e) PROVE FALSE
    OBVIOUS
  <2>1. CASE b - e > 0
    <3>0. b - e \in Nat \ {0}
      BY <1>7, <2>1
    <3>1. (a - c) * (b * e) = (a * e - c * b) * (b - e)
      BY <1>7, <3>0, CrossProducts
    <3> QED BY <1>2, <1>3, <3>1, NoCrossedDifference DEF Terms
  <2>2. CASE b - e < 0
    <3> DEFINE r == -(a - c)
               s == -(b - e)
    <3>1. r \in Int /\ s \in Nat \ {0}
      BY <1>7, <2>2
    <3>2. Rational(a - c, b - e) = Rational(r, s)
      BY <1>7, <2>2, RationalFlips
    <3> HIDE DEF r, s
    <3>3. r * (b * e) = (a * e - c * b) * s
      BY <1>7, <3>1, <3>2, CrossProducts
    <3>4. (a - c) * (b * e) = (a * e - c * b) * (b - e)
      BY <1>2, <3>3 DEF r, s, Terms
    <3> QED BY <1>2, <1>3, <3>4, NoCrossedDifference DEF Terms
  <2> QED BY <1>7, <2>1, <2>2
<1>9. Fraction(p.answer) /\ Num(p.answer) >= 0
  BY <1>4, <1>6, <1>7, RationalFraction, RationalSign
<1> QED BY <1>4, <1>5, <1>8, <1>9, TwoBoxes DEF Sound

(* Multiplying as adding: a * c = a * e + c * b, though a * c < c * b.     *)
LEMMA MultiplySound ==
    ASSUME NEW format, NEW d \in Difficulties, NEW p \in MultiplyProblems(format, d)
    PROVE  Sound(p, MultiplyAsAdd(p.operands)) /\ InTwoBoxes(p, p.answer)
<1>1. PICK pr \in UnlikePairs(d) :
             p = Numeric("multiply_fractions", format, pr, Times(pr[1], pr[2]))
  BY DEF MultiplyProblems
<1> DEFINE a == Num(pr[1])
           b == Den(pr[1])
           c == Num(pr[2])
           e == Den(pr[2])
<1>2. Terms(a, b, c, e)
  BY PairTerms
<1>3. /\ p.operands = pr /\ p.answer = Rational(a * c, b * e)
      /\ p.canonical = p.answer /\ p.givenDenominator = 0
  BY <1>1, NumericIs DEF Times
<1>4. MultiplyAsAdd(p.operands) = Rational(a * e + c * b, b * e)
  BY <1>3 DEF MultiplyAsAdd, Plus
<1> HIDE DEF a, b, c, e
<1>5. a * c \in Nat /\ b * e \in Nat \ {0} /\ a * e + c * b \in Nat
  BY <1>2 DEF Terms
<1>6. Rational(a * e + c * b, b * e) # Rational(a * c, b * e)
  <2> SUFFICES ASSUME Rational(a * e + c * b, b * e) = Rational(a * c, b * e) PROVE FALSE
    OBVIOUS
  <2>1. (a * e + c * b) * (b * e) = (a * c) * (b * e)
    BY <1>5, CrossProducts
  <2>2. a * e + c * b = a * c
    <3> DEFINE k == b * e
               m == a * e + c * b
               n == a * c
    <3>1. k \in Nat \ {0} /\ m \in Int /\ n \in Int /\ m * k = n * k
      BY <1>5, <2>1
    <3> HIDE DEF k, m, n
    <3>2. m = n
      BY <3>1
    <3> QED BY <3>2 DEF m, n
  <2>3. a * c <= c * b /\ a * e > 0
    BY <1>2 DEF Terms
  <2> QED BY <1>2, <1>5, <2>2, <2>3 DEF Terms
<1>7. Fraction(p.answer) /\ Num(p.answer) >= 0
  BY <1>3, <1>5, RationalFraction, RationalSign
<1> QED BY <1>3, <1>4, <1>6, <1>7, TwoBoxes DEF Sound

(* Multiplying without inverting: e * e = c * c, though c < e.             *)
LEMMA DivideSound ==
    ASSUME NEW format, NEW d \in Difficulties, NEW p \in DivideProblems(format, d)
    PROVE  Sound(p, MultiplyWithoutInverting(p.operands)) /\ InTwoBoxes(p, p.answer)
<1>1. PICK pr \in UnlikePairs(d) :
             p = Numeric("divide_fractions", format, pr, Over(pr[1], pr[2]))
  BY DEF DivideProblems
<1> DEFINE a == Num(pr[1])
           b == Den(pr[1])
           c == Num(pr[2])
           e == Den(pr[2])
<1>2. Terms(a, b, c, e)
  BY PairTerms
<1>3. /\ p.operands = pr /\ p.answer = Rational(a * e, b * c)
      /\ p.canonical = p.answer /\ p.givenDenominator = 0
  BY <1>1, NumericIs DEF Over
<1>4. MultiplyWithoutInverting(p.operands) = Rational(a * c, b * e)
  BY <1>3 DEF MultiplyWithoutInverting, Times
<1> HIDE DEF a, b, c, e
<1>5. a * c \in Nat /\ b * e \in Nat \ {0} /\ a * e \in Nat /\ b * c \in Nat \ {0}
  BY <1>2 DEF Terms
<1>6. Rational(a * c, b * e) # Rational(a * e, b * c)
  <2> SUFFICES ASSUME Rational(a * c, b * e) = Rational(a * e, b * c) PROVE FALSE
    OBVIOUS
  <2>1. (a * c) * (b * c) = (a * e) * (b * e)
    BY <1>5, CrossProducts
  <2>2. (a * b) * (c * c) = (a * b) * (e * e)
    BY <1>2, <2>1 DEF Terms
  <2>3. a * b > 0 /\ c * c < e * e
    BY <1>2 DEF Terms
  <2> DEFINE k == a * b
             m == c * c
             n == e * e
  <2>4. k \in Int /\ m \in Int /\ n \in Int /\ k > 0 /\ m < n /\ k * m = k * n
    BY <1>2, <2>2, <2>3 DEF Terms
  <2> HIDE DEF k, m, n
  <2> QED BY <2>4
<1>7. Fraction(p.answer) /\ Num(p.answer) >= 0
  BY <1>3, <1>5, RationalFraction, RationalSign
<1> QED BY <1>3, <1>4, <1>6, <1>7, TwoBoxes DEF Sound

LEMMA ExactRemainder ==
    ASSUME NEW n \in Int, NEW g \in Nat \ {0}
    PROVE  (g * n) % g = 0
<1> DEFINE m == n * g
<1>1. m \in Int /\ m \div g = n
  BY ExactQuotient
<1>2. m = g * (m \div g) + (m % g) /\ m % g \in Int
  BY <1>1
<1>3. m = g * n
  OBVIOUS
<1> DEFINE r == m % g
<1> HIDE DEF r
<1>4. r \in Int /\ m = g * n + r
  BY <1>1, <1>2 DEF r
<1>5. r = 0
  BY <1>3, <1>4
<1>6. m % g = 0
  BY <1>5 DEF r
<1> QED BY <1>3, <1>6

(* A fraction over a multiple of its denominator.                          *)
LEMMA EquivalenceSound ==
    ASSUME NEW format, NEW d \in Difficulties, NEW p \in EquivalenceProblems(format, d),
           p.kind = "numeric"
    PROVE  Sound(p, Nothing) /\ InTwoBoxes(p, p.answer)
<1>1. format # "word_problem"
  <2> SUFFICES ASSUME format = "word_problem" PROVE FALSE
    OBVIOUS
  <2>1. \E pair, answer : p = YesNo("equivalence", format, "equal", pair, answer)
    BY DEF EquivalenceProblems
  <2> QED BY <2>1 DEF YesNo
<1>2. PICK base, scale :
        /\ base \in ProperFractions(d) /\ scale \in 2..4
        /\ p = [Numeric("equivalence", format, <<base>>, base)
                  EXCEPT !.givenDenominator = Den(base) * scale]
  BY <1>1 DEF EquivalenceProblems
<1>3. p.answer = base /\ p.canonical = base /\ p.givenDenominator = Den(base) * scale
  BY <1>2 DEF Numeric
<1>4. Fraction(base) /\ Num(base) > 0
  BY <1>2, ProperFractionIs
<1>5. Den(base) \in Nat \ {0} /\ scale \in Int
  BY <1>2, <1>4 DEF Fraction
<1>6. (Den(base) * scale) % Den(base) = 0
  BY <1>5, ExactRemainder
<1> QED BY <1>3, <1>4, <1>6 DEF Sound, InTwoBoxes, Fraction

LEMMA CommonDenominatorSound ==
    ASSUME NEW format, NEW d \in Difficulties, NEW p \in CommonDenominatorProblems(format, d)
    PROVE  Sound(p, Nothing)
<1>1. PICK pr \in UnlikePairs(d) :
             p = Numeric("common_denominator", format, pr, Whole(Lcm(Den(pr[1]), Den(pr[2]))))
  BY DEF CommonDenominatorProblems
<1> DEFINE b == Den(pr[1])
           e == Den(pr[2])
<1>2. b \in Nat \ {0} /\ e \in Nat \ {0} /\ b # e
  BY PairTerms DEF Terms
<1> HIDE DEF b, e
<1>3. Lcm(b, e) \in Nat
  BY <1>2, GcdBelowLcm
<1>4. Lcm(Den(pr[1]), Den(pr[2])) \in Int
  BY <1>3 DEF b, e
<1> QED BY <1>1, <1>4, NumericIs, WholeFraction DEF Sound

(* Only at one is a number of its denominator's size.                      *)
LEMMA NumberLineSound ==
    ASSUME NEW format, NEW d \in Difficulties, NEW p \in NumberLineProblems(format, d),
           p.kind = "numeric"
    PROVE  Sound(p, NaturalNumberBias(p.operands))
<1>1. format # "symbolic"
  BY DEF NumberLineProblems, YesNo, Numeric
<1>2. PICK t \in NumberLineTargets(d) : p = Numeric("number_line_placement", format, <<t>>, t)
  BY <1>1 DEF NumberLineProblems
<1>3. \E n \in Int, q \in Nat \ {0} : n # q /\ t = Rational(n, q)
  <2>0. Difficulties = 1..4
    BY DEF Difficulties
  <2>1. \A q \in DenomByDifficulty[d] \cup DenomByDifficulty[2] : q \in Nat \ {0}
    BY <2>0 DEF DenomByDifficulty
  <2>2. CASE d = 3
    <3>1. t \in UNION {{Rational(n, q) : n \in (q + 1)..(2 * q - 1)} : q \in DenomByDifficulty[2]}
      BY <2>2 DEF NumberLineTargets
    <3>2. PICK q \in DenomByDifficulty[2] : t \in {Rational(n, q) : n \in (q + 1)..(2 * q - 1)}
      BY <3>1
    <3>3. PICK n \in (q + 1)..(2 * q - 1) : t = Rational(n, q)
      BY <3>2
    <3> QED BY <2>1, <3>3
  <2>3. CASE d = 4
    <3>1. t \in UNION {{Rational(-n, q) : n \in (1..(2 * q - 1)) \ {q}} : q \in DenomByDifficulty[2]}
      BY <2>3 DEF NumberLineTargets
    <3>2. PICK q \in DenomByDifficulty[2] : t \in {Rational(-n, q) : n \in (1..(2 * q - 1)) \ {q}}
      BY <3>1
    <3>3. PICK n \in 1..(2 * q - 1) : t = Rational(-n, q)
      BY <3>2
    <3>4. -n \in Int /\ -n # q
      BY <2>1
    <3> QED BY <2>1, <3>3, <3>4
  <2>4. CASE d # 3 /\ d # 4
    <3>1. t \in ProperFractions(d)
      BY <2>4 DEF NumberLineTargets
    <3>2. PICK q \in DenomByDifficulty[d] : t \in {Rational(n, q) : n \in 1..(q - 1)}
      BY <3>1 DEF ProperFractions
    <3>3. PICK n \in 1..(q - 1) : t = Rational(n, q)
      BY <3>2
    <3> QED BY <2>1, <3>3
  <2> QED BY <2>2, <2>3, <2>4
<1>4. PICK n \in Int, q \in Nat \ {0} : n # q /\ t = Rational(n, q)
  BY <1>3
<1>5. Fraction(t)
  BY <1>4, RationalFraction
<1>6. t # Whole(Den(t))
  <2> SUFFICES ASSUME t = Whole(Den(t)) PROVE FALSE
    OBVIOUS
  <2>1. Den(t) = 1
    BY DEF Whole, Den
  <2>2. n = 1 * q
    BY <1>4, <2>1, WholeIs
  <2> QED BY <1>4, <2>2
<1>7. NaturalNumberBias(p.operands) = Whole(Den(t))
  BY <1>2, NumericIs DEF NaturalNumberBias
<1> QED BY <1>2, <1>5, <1>6, <1>7, NumericIs DEF Sound
--------------------------------------------------------------------------------
(* ------------------------------- ratios ------------------------------- *)
LEMMA RatioLanguageSound ==
    ASSUME NEW format, NEW d \in Difficulties, NEW p \in RatioLanguageProblems(format, d)
    PROVE  Sound(p, PartPartWholeConfusion(p.operands)) /\ InTwoBoxes(p, p.answer)
<1>0. Difficulties = 1..4
  BY DEF Difficulties
<1>1. RatioCounts[d] \subseteq Nat \ {0}
  BY <1>0 DEF RatioCounts
<1>2. PICK mode \in {PartWholeMode, PartPartMode}, colour \in RatioColours,
           c \in RatioCounts[d] \X RatioCounts[d] : p = RatioQuestion(format, mode, colour, c)
  BY DEF RatioLanguageProblems
<1>3. PICK m \in Nat \ {0}, n \in Nat \ {0} : c = <<m, n>>
  BY <1>1
<1>4. mode \in {0, 1} /\ mode \in Int /\ colour \in Int
  BY DEF PartWholeMode, PartPartMode, RatioColours
<1> DEFINE ops == Wholes(<<mode, colour, m, n>>)
           whole == IF mode = PartWholeMode THEN m + n ELSE n
           other == IF mode = PartWholeMode THEN n ELSE m + n
<1>5. /\ p.operands = ops /\ p.answer = Rational(m, whole)
      /\ p.canonical = p.answer /\ p.givenDenominator = 0
  BY <1>2, <1>3, NumericIs DEF RatioQuestion
<1>6. PartPartWholeConfusion(p.operands) = Rational(m, other)
  BY <1>3, <1>4, <1>5, Wholes4 DEF PartPartWholeConfusion
<1>7. whole \in Nat \ {0} /\ other \in Nat \ {0} /\ whole # other
  OBVIOUS
<1> HIDE DEF ops, whole, other
<1>8. Rational(m, other) # Rational(m, whole)
  <2> SUFFICES ASSUME Rational(m, other) = Rational(m, whole) PROVE FALSE
    OBVIOUS
  <2>1. m * whole = m * other
    BY <1>7, CrossProducts
  <2> QED BY <1>7, <2>1
<1>9. Fraction(p.answer) /\ Num(p.answer) >= 0
  BY <1>5, <1>7, RationalFraction, RationalSign
<1> QED BY <1>5, <1>6, <1>8, <1>9, TwoBoxes DEF Sound

LEMMA UnitRateSound ==
    ASSUME NEW format, NEW d \in Difficulties, NEW p \in UnitRateProblems(format, d)
    PROVE  Sound(p, RateInversion(p.operands))
<1>0. Difficulties = 1..4
  BY DEF Difficulties
<1>1. \A rate \in RatePool[d] : rate \in Nat /\ rate >= 2
  BY <1>0 DEF RatePool
<1>2. \/ \E rate \in RatePool[d], count \in 2..6 :
           p = Numeric("unit_rate", format, Wholes(<<rate * count, count, PerOneMode>>),
                       Whole(rate))
      \/ \E rate \in RatePool[d],
            c \in {c \in RateScaleCounts \X RateScaleCounts : c[1] # c[2]} :
           p = Numeric("unit_rate", format, Wholes(<<rate * c[1], c[1], c[2], ScaleMode>>),
                       Whole(rate * c[2]))
  BY SMTT(30) DEF UnitRateProblems
<1>3. ASSUME NEW rate \in RatePool[d], NEW count \in 2..6,
             p = Numeric("unit_rate", format, Wholes(<<rate * count, count, PerOneMode>>),
                       Whole(rate))
      PROVE  Sound(p, RateInversion(p.operands))
  <2> DEFINE t == rate * count
  <2>1. rate \in Nat /\ rate >= 2 /\ count \in Nat \ {0} /\ t \in Nat \ {0} /\ PerOneMode \in Int
    BY <1>1 DEF PerOneMode
  <2>2. RateInversion(p.operands) = Rational(count, t)
    <3> HIDE DEF t
    <3>1. p = Numeric("unit_rate", format, Wholes(<<t, count, PerOneMode>>), Whole(rate))
      BY <1>3 DEF t
    <3> QED BY <2>1, <3>1, NumericIs, Wholes3 DEF RateInversion
  <2>3. Rational(count, t) # Whole(rate)
    <3> SUFFICES ASSUME Rational(count, t) = Whole(rate) PROVE FALSE
      OBVIOUS
    <3>1. count = rate * t
      <4> HIDE DEF t
      <4> QED BY <2>1, WholeIs
    <3>2. rate * rate > 1
      BY <2>1
    <3>3. (rate * rate) * count = count
      BY <2>1, <3>1
    <3> QED BY <2>1, <3>2, <3>3
  <2> QED BY <1>3, <2>1, <2>2, <2>3, NumericIs, WholeFraction DEF Sound
<1>4. ASSUME NEW rate \in RatePool[d],
            NEW c \in {c \in RateScaleCounts \X RateScaleCounts : c[1] # c[2]},
            p = Numeric("unit_rate", format, Wholes(<<rate * c[1], c[1], c[2], ScaleMode>>),
                       Whole(rate * c[2]))
      PROVE  Sound(p, RateInversion(p.operands))
  <2>1. rate \in Int /\ c[1] \in Int /\ c[2] \in Int /\ ScaleMode \in Int
    BY <1>1 DEF RateScaleCounts, ScaleMode
  <2>2. rate * c[1] \in Int /\ rate * c[2] \in Int
    BY <2>1
  <2>3. Len(p.operands) = 4
    BY <1>4, <2>1, <2>2, NumericIs, Wholes4
  <2>4. RateInversion(p.operands) = Nothing
    BY <2>3 DEF RateInversion
  <2> QED BY <1>4, <2>2, <2>4, NumericIs, WholeFraction DEF Sound
<1> QED BY <1>2, <1>3, <1>4

LEMMA EquivalentRatiosSound ==
    ASSUME NEW format, NEW d \in Difficulties, NEW p \in EquivalentRatiosProblems(format, d)
    PROVE  Sound(p, AdditiveRatio(p.operands))
<1>0. Difficulties = 1..4
  BY DEF Difficulties
<1>1. \A k \in RatioScales[d] : k \in Nat /\ k >= 2
  BY <1>0 DEF RatioScales
<1>2. PICK r \in {r \in (1..6) \X (1..6) : r[1] # r[2]}, k \in RatioScales[d] :
        p = Numeric("equivalent_ratios", format, Wholes(<<r[1], r[2], r[2] * k>>),
                    Whole(r[1] * k))
  BY DEF EquivalentRatiosProblems
<1>3. PICK m \in 1..6, n \in 1..6 : r = <<m, n>> /\ m # n
  OBVIOUS
<1> DEFINE t == n * k
           s == m * k
<1>4. k \in Nat /\ k >= 2 /\ m \in Int /\ n \in Int /\ t \in Int /\ s \in Int
  BY <1>1
<1>5. p = Numeric("equivalent_ratios", format, Wholes(<<m, n, t>>), Whole(s))
  BY <1>2, <1>3
<1>6. m + (t - n) # s
  BY <1>3, <1>4
<1> HIDE DEF t, s
<1>7. AdditiveRatio(p.operands) = Whole(m + (t - n))
  BY <1>4, <1>5, NumericIs, Wholes3 DEF AdditiveRatio
<1>8. m + (t - n) \in Int
  BY <1>4
<1> QED BY <1>4, <1>5, <1>6, <1>7, <1>8, NumericIs, SoundWhole

LEMMA PercentSound ==
    ASSUME NEW format, NEW d \in Difficulties, NEW p \in PercentProblems(format, d)
    PROVE  Sound(p, PercentAsAmount(p.operands))
<1>0. Difficulties = 1..4
  BY DEF Difficulties
<1>1. PercentPool[d] \subseteq Nat \ {0} /\ PercentWholes \subseteq Nat \ {0, 100}
  BY <1>0 DEF PercentPool, PercentWholes
<1>a. \/ \E percent \in PercentPool[d], whole \in PercentWholes :
           p = Numeric("percent", format, Wholes(<<percent, whole, PercentOf>>),
                       Rational(percent * whole, 100))
      \/ \E pw \in PercentPool[d] \X PercentWholes :
           p = Numeric("percent", format, Wholes(<<pw[1], pw[2], FindWhole>>), Whole(pw[2]))
  BY DEF PercentProblems
<1>2. PICK percent \in PercentPool[d], whole \in PercentWholes :
        \/ p = Numeric("percent", format, Wholes(<<percent, whole, PercentOf>>),
                       Rational(percent * whole, 100))
        \/ p = Numeric("percent", format, Wholes(<<percent, whole, FindWhole>>), Whole(whole))
  BY <1>a
<1>3. percent \in Nat \ {0} /\ whole \in Nat \ {0, 100}
  BY <1>1
<1>4. CASE p = Numeric("percent", format, Wholes(<<percent, whole, PercentOf>>),
                       Rational(percent * whole, 100))
  <2>1. PercentAsAmount(p.operands) = Whole(percent)
    BY <1>3, <1>4, NumericIs, Wholes3 DEF PercentAsAmount, PercentOf
  <2> DEFINE t == percent * whole
  <2>2. t \in Int
    BY <1>3
  <2>3. t # percent * 100
    BY <1>3
  <2> HIDE DEF t
  <2>4. Rational(t, 100) # Whole(percent) /\ Fraction(Rational(t, 100))
    BY <1>3, <2>2, <2>3, WholeIs, RationalFraction
  <2> QED BY <1>4, <2>1, <2>4, NumericIs DEF Sound, t
<1>5. CASE p = Numeric("percent", format, Wholes(<<percent, whole, FindWhole>>), Whole(whole))
  <2>1. PercentAsAmount(p.operands) = Nothing
    BY <1>3, <1>5, NumericIs, Wholes3 DEF PercentAsAmount, PercentOf, FindWhole
  <2> QED BY <1>3, <1>5, <2>1, NumericIs, WholeFraction DEF Sound
<1> QED BY <1>2, <1>4, <1>5

LEMMA UnitConversionSound ==
    ASSUME NEW format, NEW d \in Difficulties, NEW p \in UnitConversionProblems(format, d)
    PROVE  Sound(p, ConversionInversion(p.operands))
<1>0. Difficulties = 1..4
  BY DEF Difficulties
<1>1. ConversionQuantities[d] \subseteq Nat \ {0} /\ \A f \in ConversionFactors : f \in Nat /\ f >= 2
  BY <1>0 DEF ConversionQuantities, ConversionFactors
<1>2. PICK quantity \in ConversionQuantities[d], factor \in ConversionFactors :
        p = Numeric("unit_conversion", format, Wholes(<<quantity, factor>>),
                    Whole(quantity * factor))
  BY DEF UnitConversionProblems
<1>3. quantity \in Nat \ {0} /\ factor \in Nat \ {0} /\ factor >= 2
  BY <1>1
<1> DEFINE t == quantity * factor
<1>4. t \in Int
  BY <1>3
<1>5. ConversionInversion(p.operands) = Rational(quantity, factor)
  BY <1>2, <1>3, NumericIs, Wholes2 DEF ConversionInversion
<1>6. quantity # t * factor
  <2>1. factor * factor > 1
    BY <1>3
  <2>2. t * factor = quantity * (factor * factor)
    BY <1>3
  <2> DEFINE f == factor * factor
  <2>3. f \in Int /\ f > 1
    BY <1>3, <2>1
  <2> HIDE DEF f
  <2>4. quantity # quantity * f
    BY <1>3, <2>3
  <2> QED BY <2>2, <2>4 DEF f
<1> HIDE DEF t
<1>7. Rational(quantity, factor) # Whole(t)
  BY <1>3, <1>4, <1>6, WholeIs
<1> QED BY <1>2, <1>4, <1>5, <1>7, NumericIs, WholeFraction DEF Sound, t

(* ------------------------------- numbers ------------------------------ *)
LEMMA GcfLcmSound ==
    ASSUME NEW format, NEW d \in Difficulties, NEW p \in GcfLcmProblems(format, d)
    PROVE  Sound(p, GcfForLcm(p.operands))
<1>0. Difficulties = 1..4
  BY DEF Difficulties
<1>1. PICK pr \in GcfLcmPairs[d], mode \in {GcfMode, LcmMode} :
             p = GcfLcmQuestion(format, pr, mode)
  BY DEF GcfLcmProblems
<1>2. PICK m, n : /\ m \in Nat \ {0} /\ n \in Nat \ {0} /\ m # n
                  /\ pr = <<m, n>>
  BY <1>0 DEF GcfLcmPairs
<1> DEFINE gcf == Gcd[<<m, n>>]
           lcm == Lcm(m, n)
           asked == IF mode = LcmMode THEN lcm ELSE gcf
           other == IF mode = LcmMode THEN gcf ELSE lcm
<1>3. mode \in Int
  BY DEF GcfMode, LcmMode
<1>4. gcf \in Nat /\ lcm \in Nat /\ gcf # lcm
  BY <1>2, GcdBelowLcm
<1>5. p = Numeric("gcf_lcm", format, Wholes(<<m, n, mode>>), Whole(asked))
  BY <1>1, <1>2 DEF GcfLcmQuestion
<1>6. GcfForLcm(p.operands) = Whole(other)
  <2>1. p.operands = Wholes(<<m, n, mode>>)
    BY <1>5, NumericIs
  <2>2. /\ Num(p.operands[1]) = m /\ Num(p.operands[2]) = n /\ Num(p.operands[3]) = mode
    BY <1>2, <1>3, <2>1, Wholes3
  <2> QED BY <2>2 DEF GcfForLcm
<1> HIDE DEF gcf, lcm
<1>7. asked \in Int /\ other \in Int /\ asked # other
  BY <1>4
<1> HIDE DEF asked, other
<1> QED BY <1>5, <1>6, <1>7, NumericIs, SoundWhole

LEMMA DivisionSound ==
    ASSUME NEW format, NEW d \in Difficulties, NEW p \in DivisionProblems(format, d)
    PROVE  Sound(p, PlaceValueSlip(p.operands))
<1>0. Difficulties = 1..4
  BY DEF Difficulties
<1>1. Quotients[d] \subseteq Nat \ {0} /\ Divisors \subseteq Nat \ {0}
  BY <1>0 DEF Quotients, Divisors
<1>2. PICK q \in Quotients[d], divisor \in Divisors :
        p = Numeric("multi_digit_division", format, Wholes(<<q * divisor, divisor>>), Whole(q))
  BY DEF DivisionProblems
<1>3. q \in Nat \ {0} /\ divisor \in Nat \ {0}
  BY <1>1
<1> DEFINE t == q * divisor
<1>4. t \in Int /\ t \div divisor = q
  BY <1>3, ExactQuotient
<1> HIDE DEF t
<1>5. p = Numeric("multi_digit_division", format, Wholes(<<t, divisor>>), Whole(q))
  BY <1>2 DEF t
<1>6. PlaceValueSlip(p.operands) = Whole(10 * q)
  BY <1>3, <1>4, <1>5, NumericIs, Wholes2 DEF PlaceValueSlip
<1>7. 10 * q \in Int /\ 10 * q # q
  BY <1>3
<1> QED BY <1>3, <1>5, <1>6, <1>7, NumericIs, SoundWhole
--------------------------------------------------------------------------------
(* Powers, kept apart from the arithmetic they occur in.                   *)
Raised(x, n) == x^n

LEMMA PowersOfTen ==
    /\ Raised(10, 0) = 1 /\ Raised(10, 1) = 10 /\ Raised(10, 2) = 100
    /\ Raised(10, 3) = 1000 /\ Raised(10, 4) = 10000
<1> QED BY DEF Raised

(* A decimal that is no whole number takes a place, so that leaving the    *)
(* places of one factor out makes the product larger.                      *)
LEMMA PlacesShift ==
    ASSUME NEW f, Den(f) \in {2, 4, 5, 10, 20}
    PROVE  /\ Places(f) \in 1..4
           /\ 10^Places(f) \in Nat /\ 10^Places(f) > 1
<1> DEFINE Fits(n) == /\ Raised(10, n) % Den(f) = 0
                      /\ \A m \in 0..(n - 1) : Raised(10, m) % Den(f) # 0
<1>1. Places(f) = CHOOSE n \in 0..4 : Fits(n)
  BY DEF Places, Raised
<1>2. \E n \in 0..4 : Fits(n)
  <2>1. CASE Den(f) \in {2, 5, 10}
    <3>1. Fits(1)
      BY <2>1, PowersOfTen
    <3> QED BY <3>1
  <2>2. CASE Den(f) \in {4, 20}
    <3>1. \A m \in 0..(2 - 1) : m = 0 \/ m = 1
      OBVIOUS
    <3>2. Fits(2)
      BY <2>2, <3>1, PowersOfTen
    <3> QED BY <3>2
  <2> QED BY <2>1, <2>2
<1>3. Places(f) \in 0..4 /\ Fits(Places(f))
  <2> HIDE DEF Fits
  <2> QED BY <1>1, <1>2
<1>4. Places(f) # 0
  <2>1. 1 % Den(f) # 0
    OBVIOUS
  <2> QED BY <1>3, <2>1, PowersOfTen
<1>5. Places(f) \in {1, 2, 3, 4}
  BY <1>3, <1>4
<1>6. Raised(10, Places(f)) \in Nat /\ Raised(10, Places(f)) > 1
  BY <1>5, PowersOfTen
<1> QED BY <1>5, <1>6 DEF Raised

(* A reduced fraction times a number other than one is another.            *)
LEMMA ShiftedDiffers ==
    ASSUME NEW a \in Nat \ {0}, NEW b \in Nat \ {0}, NEW k \in Nat, k > 1
    PROVE  LET t == Rational(a, b) IN Times(t, Whole(k)) # t
<1>0. a \in Int
  OBVIOUS
<1>1. PICK m \in Int, n \in Nat \ {0}, g \in Nat \ {0} :
        /\ g = Gcd[<<Magnitude(a), b>>]
        /\ a = m * g /\ b = n * g
        /\ Rational(a, b) = <<m, n>>
  BY <1>0, RationalIs
<1>2. m # 0
  BY <1>1
<1> DEFINE u == m * k
<1>3. u \in Int /\ u # m
  BY <1>2
<1>4. Times(<<m, n>>, Whole(k)) = Rational(u, n)
  BY DEF Times, Whole, Num, Den
<1> HIDE DEF u
<1>5. PICK r \in Int, s \in Nat \ {0}, h \in Nat \ {0} :
        /\ h = Gcd[<<Magnitude(u), n>>]
        /\ u = r * h /\ n = s * h
        /\ Rational(u, n) = <<r, s>>
  BY <1>3, RationalIs
<1>6. <<r, s>> # <<m, n>>
  <2> SUFFICES ASSUME r = m, s = n PROVE FALSE
    OBVIOUS
  <2>1. h = 1
    BY <1>5
  <2> QED BY <1>3, <1>5, <2>1
<1> QED BY <1>1, <1>4, <1>5, <1>6

DecimalTerms(f) ==
    /\ Num(f) \in Nat \ {0} /\ Den(f) \in {2, 4, 5, 10, 20}

(* A question of the lesson: its two numbers, and what is done with them.   *)
DecimalAsks(p, format, f, s, mode) ==
    /\ DecimalTerms(f) /\ DecimalTerms(s)
    /\ \/ mode = 0 /\ p = Decimal(format, <<f, s>>, 0, Times(f, s))
       \/ mode = 1 /\ p = Decimal(format, <<f, s>>, 1, Plus(f, s))
       \/ mode = 2 /\ p = Decimal(format, <<f, s>>, 2, Minus(f, s)) /\ ~Below(f, s)
       \/ mode = 3 /\ p = Decimal(format, <<f, s>>, 3, Over(f, s))

LEMMA OneMore ==
    ASSUME NEW f, NEW s, NEW w
    PROVE  LET t == <<f, s>> \o <<w>> IN Len(t) = 3 /\ t[1] = f /\ t[2] = s /\ t[3] = w
<1>1. <<f, s>> \in Seq({f, s, w}) /\ <<w>> \in Seq({f, s, w})
  OBVIOUS
<1> QED BY <1>1

LEMMA DecimalIs ==
    ASSUME NEW format, NEW d \in Difficulties, NEW p \in DecimalProblems(format, d)
    PROVE  \E f, s : \E mode \in 0..3 : DecimalAsks(p, format, f, s, mode)
<1>0. Difficulties = 1..4
  BY DEF Difficulties
<1>1. \A f \in DecimalFactors[d] : DecimalTerms(f)
  BY <1>0 DEF DecimalFactors, DecimalTerms, Num, Den
<1>2. \A pr \in DecimalDivisions : DecimalTerms(pr[1]) /\ DecimalTerms(pr[2])
  BY DEF DecimalDivisions, DecimalTerms, Num, Den
<1>3. \A pr \in DecimalDivisions : pr = <<pr[1], pr[2]>>
  BY DEF DecimalDivisions
<1>4. \E f, s : \E mode \in 0..3 : DecimalAsks(p, format, f, s, mode)
  <2> DEFINE pairs == DecimalFactors[d] \X DecimalFactors[d]
  <2>1. \A pr \in pairs : /\ pr = <<pr[1], pr[2]>>
                          /\ DecimalTerms(pr[1]) /\ DecimalTerms(pr[2])
    BY <1>1
  <2>2. \/ \E pr \in pairs : p = Decimal(format, pr, 0, Times(pr[1], pr[2]))
        \/ \E pr \in pairs : p = Decimal(format, pr, 1, Plus(pr[1], pr[2]))
        \/ \E pr \in pairs : /\ ~Below(pr[1], pr[2])
                             /\ p = Decimal(format, pr, 2, Minus(pr[1], pr[2]))
        \/ \E pr \in DecimalDivisions : p = Decimal(format, pr, 3, Over(pr[1], pr[2]))
    BY DEF DecimalProblems
  <2> HIDE DEF pairs
  <2>3. \E pr : \E mode \in 0..3 : DecimalAsks(p, format, pr[1], pr[2], mode)
    BY <1>2, <1>3, <2>1, <2>2 DEF DecimalAsks
  <2> QED BY <2>3
<1> QED BY <1>4

LEMMA DecimalSound ==
    ASSUME NEW format, NEW d \in Difficulties, NEW p \in DecimalProblems(format, d)
    PROVE  Sound(p, DecimalPlacesIgnored(p.operands)) /\ InTwoBoxes(p, p.answer)
<1>5. PICK f, s : \E mode \in 0..3 : DecimalAsks(p, format, f, s, mode)
  BY DecimalIs
<1>a. PICK mode \in 0..3 : DecimalAsks(p, format, f, s, mode)
  BY <1>5
<1> DEFINE a == Num(f)
           b == Den(f)
           c == Num(s)
           e == Den(s)
           top == CASE mode = 0 -> a * c [] mode = 1 -> a * e + c * b
                    [] mode = 2 -> a * e - c * b [] mode = 3 -> a * e
           bottom == IF mode = 3 THEN b * c ELSE b * e
<1>6. a \in Nat \ {0} /\ b \in Nat \ {0} /\ c \in Nat \ {0} /\ e \in Nat \ {0}
  BY <1>a DEF DecimalTerms, DecimalAsks
<1>7. p = Decimal(format, <<f, s>>, mode, Rational(top, bottom))
  BY <1>a DEF DecimalAsks, Times, Plus, Minus, Over
<1>8. top \in Int /\ top >= 0 /\ bottom \in Nat \ {0} /\ (mode = 0 => top \in Nat \ {0})
  <2>1. mode = 2 => a * e - c * b >= 0
    BY <1>a, <1>6 DEF Below, DecimalAsks
  <2>2. /\ a * c \in Nat \ {0} /\ a * e \in Nat \ {0} /\ c * b \in Nat \ {0}
        /\ b * c \in Nat \ {0} /\ b * e \in Nat \ {0}
    BY <1>6
  <2> HIDE DEF a, b, c, e
  <2> QED BY <2>1, <2>2
<1>9. /\ p.operands[1] = f /\ p.operands[2] = s /\ p.operands[3] = Whole(mode)
      /\ p.answer = Rational(top, bottom)
      /\ p.canonical = p.answer /\ p.givenDenominator = 0
  <2> DEFINE ops == <<f, s>> \o <<Whole(mode)>>
  <2>1. ops[1] = f /\ ops[2] = s /\ ops[3] = Whole(mode)
    BY OneMore
  <2> HIDE DEF top, bottom, ops
  <2>2. p = Numeric("decimal_operations", format, ops, Rational(top, bottom))
    BY <1>7 DEF Decimal, ops
  <2> QED BY <2>1, <2>2, NumericIs
<1>10. mode # 0 => DecimalPlacesIgnored(p.operands) = Nothing
  BY <1>9 DEF DecimalPlacesIgnored, Whole, Num
<1>11. mode = 0 => DecimalPlacesIgnored(p.operands) # p.answer
  <2> SUFFICES ASSUME mode = 0 PROVE DecimalPlacesIgnored(p.operands) # p.answer
    OBVIOUS
  <2>1. PICK fewer : /\ fewer \in {Places(f), Places(s)}
                     /\ DecimalPlacesIgnored(p.operands)
                          = Times(Times(f, s), Whole(10^fewer))
    BY <1>9 DEF DecimalPlacesIgnored, Whole, Num
  <2> DEFINE k == 10^fewer
  <2>2. k \in Nat /\ k > 1
    BY <1>a, <2>1, PlacesShift DEF DecimalTerms, DecimalAsks
  <2>3. Times(f, s) = Rational(top, bottom) /\ top \in Nat \ {0}
    BY <1>8 DEF Times
  <2> HIDE DEF k, top, bottom
  <2>4. Times(Rational(top, bottom), Whole(k)) # Rational(top, bottom)
    BY <1>8, <2>2, <2>3, ShiftedDiffers
  <2> QED BY <1>9, <2>1, <2>3, <2>4 DEF k
<1> HIDE DEF top, bottom
<1>12. Fraction(p.answer) /\ Num(p.answer) >= 0
  BY <1>8, <1>9, RationalFraction, RationalSign
<1> QED BY <1>9, <1>10, <1>11, <1>12, TwoBoxes DEF Sound

LEMMA AbsoluteSound ==
    ASSUME NEW format, NEW d \in Difficulties, NEW p \in AbsoluteProblems(format, d)
    PROVE  Sound(p, SignKept(p.operands))
<1>0. Difficulties = 1..4
  BY DEF Difficulties
<1>1. AbsolutePool[d] \subseteq Nat \ {0}
  BY <1>0 DEF AbsolutePool
<1>2. PICK n \in AbsolutePool[d] : p = Numeric("absolute_value", format, <<Whole(-n)>>, Whole(n))
  BY DEF AbsoluteProblems
<1>3. n \in Int /\ -n \in Int /\ -n # n
  BY <1>1
<1> QED BY <1>2, <1>3, NumericIs, SoundWhole DEF SignKept

LEMMA OppositeSound ==
    ASSUME NEW format, NEW d \in Difficulties, NEW p \in OppositeProblems(format, d)
    PROVE  Sound(p, SignKept(p.operands))
<1>0. Difficulties = 1..4
  BY DEF Difficulties
<1>1. OppositePool[d] \subseteq Nat \ {0}
  BY <1>0 DEF OppositePool
<1>2. PICK s \in Signs, m \in OppositePool[d] :
             p = Numeric("signed_numbers", format, <<Whole(s * m)>>, Whole(-s * m))
  BY DEF OppositeProblems
<1> DEFINE k == s * m
           n == -s * m
<1>3. k \in Int /\ n \in Int /\ k # n
  BY <1>1 DEF Signs
<1> HIDE DEF k, n
<1>4. p = Numeric("signed_numbers", format, <<Whole(k)>>, Whole(n))
  BY <1>2 DEF k, n
<1> QED BY <1>3, <1>4, NumericIs, SoundWhole DEF SignKept

LEMMA IntegerAddSound ==
    ASSUME NEW format, NEW d \in Difficulties, NEW p \in IntegerAddProblems(format, d)
    PROVE  Sound(p, SignsIgnored(p.operands))
<1>0. Difficulties = 1..4
  BY DEF Difficulties
<1>1. IntegerPool[d] \subseteq Nat \ {0}
  BY <1>0 DEF IntegerPool
<1>2. PICK m \in IntegerPool[d] \X IntegerPool[d], s \in Signs :
        p = Numeric("integer_add_subtract", format, Wholes(<<s * m[1], -s * m[2]>>),
                    Whole(s * m[1] - s * m[2]))
  BY DEF IntegerAddProblems
<1>3. m[1] \in Nat \ {0} /\ m[2] \in Nat \ {0}
  BY <1>1
<1> DEFINE a == s * m[1]
           b == -s * m[2]
           n == s * m[1] - s * m[2]
<1>4. /\ a \in Int /\ b \in Int /\ n \in Int
      /\ Magnitude(a) + Magnitude(b) # n /\ Magnitude(a) + Magnitude(b) \in Int
  BY <1>3 DEF Signs, Magnitude
<1>5. p = Numeric("integer_add_subtract", format, Wholes(<<a, b>>), Whole(n))
  BY <1>2
<1> HIDE DEF a, b, n
<1>6. SignsIgnored(p.operands) = Whole(Magnitude(a) + Magnitude(b))
  BY <1>4, <1>5, NumericIs, Wholes2 DEF SignsIgnored
<1> QED BY <1>4, <1>5, <1>6, NumericIs, SoundWhole

LEMMA IntegerProductSound ==
    ASSUME NEW format, NEW d \in Difficulties, NEW p \in IntegerProductProblems(format, d)
    PROVE  Sound(p, SignRuleSlip(p))
<1>0. Difficulties = 1..4
  BY DEF Difficulties
<1>1. ProductPool[d] \subseteq Nat \ {0}
  BY <1>0 DEF ProductPool
<1>2. \A f \in SignedFactors(d) :
        f[1] \in Int /\ f[1] # 0 /\ f[2] \in Int /\ f[2] # 0
  <2> SUFFICES ASSUME NEW f \in SignedFactors(d)
               PROVE  f[1] \in Int /\ f[1] # 0 /\ f[2] \in Int /\ f[2] # 0
    OBVIOUS
  <2>1. PICK m, s, t : /\ m \in ProductPool[d] \X ProductPool[d] /\ s \in Signs /\ t \in Signs
                       /\ f = <<s * m[1], t * m[2]>>
    BY DEF SignedFactors
  <2>2. m[1] \in Nat \ {0} /\ m[2] \in Nat \ {0}
    BY <1>1, <2>1
  <2> QED BY <2>1, <2>2 DEF Signs
<1>3. \/ \E f \in SignedFactors(d) :
           p = Numeric("integer_multiply_divide", format, Wholes(<<f[1], f[2], MultiplyMode>>),
                       Whole(f[1] * f[2]))
      \/ \E f \in SignedFactors(d) :
           p = Numeric("integer_multiply_divide", format,
                       Wholes(<<f[1] * f[2], f[2], DivideMode>>), Whole(f[1]))
  BY DEF IntegerProductProblems
<1>4. PICK operands, n : n \in Int /\ n # 0
                         /\ p = Numeric("integer_multiply_divide", format, operands, Whole(n))
  <2>1. \A f \in SignedFactors(d) : f[1] * f[2] \in Int /\ f[1] * f[2] # 0
    BY <1>2
  <2> QED BY <1>2, <1>3, <2>1
<1>5. -n \in Int /\ -n # n
  BY <1>4
<1> QED BY <1>4, <1>5, NumericIs, WholeFraction, SoundWhole DEF SignRuleSlip

LEMMA WholeArithmetic ==
    ASSUME NEW m \in Int, NEW n \in Int
    PROVE  /\ Plus(Whole(m), Whole(n)) = Whole(m + n)
           /\ Minus(Whole(m), Whole(n)) = Whole(m - n)
           /\ Times(Whole(m), Whole(n)) = Whole(m * n)
<1> DEFINE s == m + n
           t == m - n
           u == m * n
<1>1. s \in Int /\ t \in Int /\ u \in Int
  OBVIOUS
<1>2. /\ Plus(Whole(m), Whole(n)) = Rational(s, 1)
      /\ Minus(Whole(m), Whole(n)) = Rational(t, 1)
      /\ Times(Whole(m), Whole(n)) = Rational(u, 1)
  BY DEF Plus, Minus, Times, Whole, Num, Den
<1> HIDE DEF s, t, u
<1>3. Rational(s, 1) = Whole(s) /\ Rational(t, 1) = Whole(t) /\ Rational(u, 1) = Whole(u)
  BY <1>1, RationalWhole
<1> QED BY <1>2, <1>3 DEF s, t, u

(* ----------------------------- expressions ---------------------------- *)
LEMMA EvaluateSound ==
    ASSUME NEW format, NEW d \in Difficulties, NEW p \in EvaluateProblems(format, d)
    PROVE  Sound(p, AddedBeforeMultiplying(p.operands)) /\ InTwoBoxes(p, p.answer)
<1>0. Difficulties = 1..4
  BY DEF Difficulties
<1>1. /\ EvalCoeff[d] \subseteq Nat \ {0, 1} /\ EvalValue[d] \subseteq Nat
      /\ EvalConst[d] \subseteq Nat \ {0}
  BY <1>0 DEF EvalCoeff, EvalValue, EvalConst
<1>2. PICK a \in EvalCoeff[d], x \in EvalValue[d], b \in EvalConst[d] :
        p = Numeric("evaluate_expressions", format, Wholes(<<a, x, b>>), Whole(a * x + b))
  BY DEF EvaluateProblems
<1>3. a \in Nat \ {0, 1} /\ x \in Nat /\ b \in Nat \ {0}
  BY <1>1
<1> DEFINE n == a * x + b
           m == a * (x + b)
<1>4. n \in Nat /\ m \in Nat
  BY <1>3
<1>5. m # n
  <2>1. a * b # b
    BY <1>3
  <2>2. m = a * x + a * b
    BY <1>3
  <2> QED BY <1>3, <2>1, <2>2
<1>6. p = Numeric("evaluate_expressions", format, Wholes(<<a, x, b>>), Whole(n))
  BY <1>2
<1>7. AddedBeforeMultiplying(p.operands) = Whole(m)
  BY <1>3, <1>6, NumericIs, Wholes3 DEF AddedBeforeMultiplying
<1> HIDE DEF m, n
<1>8. p.answer = Whole(n) /\ p.canonical = p.answer /\ p.givenDenominator = 0
  BY <1>6, NumericIs
<1>9. Num(p.answer) >= 0
  BY <1>4, <1>8, WholeFraction
<1>10. m \in Int /\ n \in Int
  BY <1>4
<1>11. Sound(p, Whole(m))
  BY <1>5, <1>8, <1>10, SoundWhole
<1> QED BY <1>7, <1>8, <1>9, <1>11, TwoBoxes

(* The powers the draws and the misconceptions come to.                    *)
LEMMA PowerTable ==
    /\ Raised(2, 2) = 4 /\ Raised(2, 3) = 8 /\ Raised(2, 4) = 16 /\ Raised(2, 5) = 32
    /\ Raised(3, 2) = 9 /\ Raised(3, 3) = 27 /\ Raised(3, 4) = 81 /\ Raised(3, 5) = 243
    /\ Raised(4, 2) = 16 /\ Raised(4, 3) = 64 /\ Raised(4, 4) = 256 /\ Raised(4, 5) = 1024
    /\ Raised(5, 2) = 25 /\ Raised(5, 3) = 125 /\ Raised(5, 4) = 625 /\ Raised(5, 5) = 3125
    /\ Raised(6, 2) = 36 /\ Raised(6, 3) = 216 /\ Raised(6, 4) = 1296 /\ Raised(6, 5) = 7776
    /\ Raised(7, 2) = 49 /\ Raised(7, 3) = 343 /\ Raised(7, 4) = 2401 /\ Raised(7, 5) = 16807
    /\ Raised(8, 2) = 64 /\ Raised(8, 3) = 512 /\ Raised(8, 4) = 4096 /\ Raised(8, 5) = 32768
    /\ Raised(9, 2) = 81 /\ Raised(9, 3) = 729 /\ Raised(9, 4) = 6561 /\ Raised(9, 5) = 59049
    /\ Raised(10, 2) = 100 /\ Raised(10, 3) = 1000 /\ Raised(10, 4) = 10000 /\ Raised(10, 5) = 100000
    /\ Raised(11, 2) = 121 /\ Raised(11, 3) = 1331 /\ Raised(11, 4) = 14641 /\ Raised(11, 5) = 161051
    /\ Raised(12, 2) = 144 /\ Raised(12, 3) = 1728 /\ Raised(12, 4) = 20736 /\ Raised(12, 5) = 248832
    /\ Raised(13, 2) = 169 /\ Raised(13, 3) = 2197 /\ Raised(13, 4) = 28561 /\ Raised(13, 5) = 371293
    /\ Raised(14, 2) = 196 /\ Raised(14, 3) = 2744 /\ Raised(14, 4) = 38416 /\ Raised(14, 5) = 537824
    /\ Raised(15, 2) = 225 /\ Raised(15, 3) = 3375 /\ Raised(15, 4) = 50625 /\ Raised(15, 5) = 759375
    /\ Raised(16, 2) = 256 /\ Raised(16, 3) = 4096 /\ Raised(16, 4) = 65536 /\ Raised(16, 5) = 1048576
    /\ Raised(18, 2) = 324 /\ Raised(18, 3) = 5832 /\ Raised(18, 4) = 104976 /\ Raised(18, 5) = 1889568
    /\ Raised(20, 2) = 400 /\ Raised(20, 3) = 8000 /\ Raised(20, 4) = 160000 /\ Raised(20, 5) = 3200000
    /\ Raised(21, 2) = 441 /\ Raised(21, 3) = 9261 /\ Raised(21, 4) = 194481 /\ Raised(21, 5) = 4084101
    /\ Raised(24, 2) = 576 /\ Raised(24, 3) = 13824 /\ Raised(24, 4) = 331776 /\ Raised(24, 5) = 7962624
    /\ Raised(25, 2) = 625 /\ Raised(25, 3) = 15625 /\ Raised(25, 4) = 390625 /\ Raised(25, 5) = 9765625
    /\ Raised(28, 2) = 784 /\ Raised(28, 3) = 21952 /\ Raised(28, 4) = 614656 /\ Raised(28, 5) = 17210368
    /\ Raised(30, 2) = 900 /\ Raised(30, 3) = 27000 /\ Raised(30, 4) = 810000 /\ Raised(30, 5) = 24300000
    /\ Raised(32, 2) = 1024 /\ Raised(32, 3) = 32768 /\ Raised(32, 4) = 1048576 /\ Raised(32, 5) = 33554432
    /\ Raised(35, 2) = 1225 /\ Raised(35, 3) = 42875 /\ Raised(35, 4) = 1500625 /\ Raised(35, 5) = 52521875
    /\ Raised(40, 2) = 1600 /\ Raised(40, 3) = 64000 /\ Raised(40, 4) = 2560000 /\ Raised(40, 5) = 102400000
<1> QED BY DEF Raised

LEMMA PowerSlips ==
    ASSUME NEW d \in Difficulties, NEW bp \in PowerPairs(d), NEW k \in OrderConst
    PROVE  LET b == bp[1]
               n == bp[2]
           IN  /\ b \in Nat /\ n \in Nat /\ k \in Nat
               /\ Raised(b, n) \in Nat /\ Raised(b, n) # b * n
               /\ Raised(k + b, n) \in Nat /\ Raised(k + b, n) # k + Raised(b, n)
               /\ Raised(k * b, n) \in Nat /\ Raised(k * b, n) # k * Raised(b, n)
<1>0. Difficulties = 1..4
  BY DEF Difficulties
<1>1. k \in {2, 3, 4, 5}
  BY DEF OrderConst
<1>2. CASE d = 1
  BY <1>1, <1>2, PowerTable DEF PowerPairs, ExponentBase, ExponentPower
<1>3. CASE d = 2
  BY <1>1, <1>3, PowerTable DEF PowerPairs, ExponentBase, ExponentPower
<1>4. CASE d = 3
  BY <1>1, <1>4, PowerTable DEF PowerPairs, ExponentBase, ExponentPower
<1>5. CASE d = 4
  BY <1>1, <1>5, PowerTable DEF PowerPairs, ExponentBase, ExponentPower
<1> QED BY <1>0, <1>2, <1>3, <1>4, <1>5

LEMMA ExponentSound ==
    ASSUME NEW format, NEW d \in Difficulties, NEW p \in ExponentProblems(format, d)
    PROVE  Sound(p, ExponentSlip(p.operands)) /\ InTwoBoxes(p, p.answer)
<1> DEFINE SlipsTo ==
             \E m, n \in Nat :
               /\ m # n /\ p.answer = Whole(n) /\ ExponentSlip(p.operands) = Whole(m)
               /\ p.canonical = p.answer /\ p.givenDenominator = 0
<1>1. \/ \E bp \in PowerPairs(d) :
           p = Numeric("exponents", format, Wholes(<<bp[1], bp[2], 0>>), Whole(bp[1]^bp[2]))
      \/ \E bp \in PowerPairs(d), k \in OrderConst, op \in {AddOp, MultiplyOp} :
           p = Numeric("exponents", format, Wholes(<<bp[1], bp[2], k, op, 1>>),
                   Whole(IF op = AddOp THEN k + bp[1]^bp[2] ELSE k * bp[1]^bp[2]))
  BY SMTT(30) DEF ExponentProblems
<1>2. SlipsTo
  <2>1. ASSUME NEW bp \in PowerPairs(d),
               p = Numeric("exponents", format, Wholes(<<bp[1], bp[2], 0>>), Whole(bp[1]^bp[2]))
        PROVE  SlipsTo
    <3> DEFINE b == bp[1]
               n == bp[2]
               v == Raised(b, n)
    <3>0. 2 \in OrderConst
      BY DEF OrderConst
    <3>1. b \in Nat /\ n \in Nat /\ v \in Nat /\ v # b * n
      BY <3>0, PowerSlips
    <3>2. p = Numeric("exponents", format, Wholes(<<b, n, 0>>), Whole(v))
      BY <2>1 DEF Raised
    <3> HIDE DEF b, n, v
    <3>3. ExponentSlip(p.operands) = Whole(b * n)
      BY <3>1, <3>2, NumericIs, Wholes3 DEF ExponentSlip
    <3>4. b * n \in Nat
      BY <3>1
    <3> QED BY <3>1, <3>2, <3>3, <3>4, NumericIs
  <2>2. ASSUME NEW bp \in PowerPairs(d), NEW k \in OrderConst, NEW op \in {AddOp, MultiplyOp},
               p = Numeric("exponents", format, Wholes(<<bp[1], bp[2], k, op, 1>>),
                   Whole(IF op = AddOp THEN k + bp[1]^bp[2] ELSE k * bp[1]^bp[2]))
        PROVE  SlipsTo
    <3> DEFINE b == bp[1]
               n == bp[2]
               v == Raised(b, n)
               answer == IF op = AddOp THEN k + v ELSE k * v
               slip == IF op = AddOp THEN Raised(k + b, n) ELSE Raised(k * b, n)
    <3>1. b \in Nat /\ n \in Nat /\ k \in Nat /\ v \in Nat
      BY PowerSlips
    <3>2. answer \in Nat /\ slip \in Nat /\ slip # answer
      BY <3>1, PowerSlips
    <3>3. p = Numeric("exponents", format, Wholes(<<b, n, k, op, 1>>), Whole(answer))
      BY <2>2 DEF Raised
    <3>4. op \in Int /\ k \in Int /\ b \in Int /\ n \in Int
      BY <3>1 DEF AddOp, MultiplyOp
    <3> HIDE DEF b, n, v, answer
    <3>5. p.operands = Wholes(<<b, n, k, op, 1>>)
      BY <3>3, NumericIs
    <3>6. ExponentSlip(p.operands) = Whole(slip)
      <4>1. /\ Len(p.operands) # 3 /\ Num(p.operands[1]) = b /\ Num(p.operands[2]) = n
            /\ Num(p.operands[3]) = k /\ Num(p.operands[4]) = op
        BY <3>4, <3>5, Wholes5
      <4>2. ExponentSlip(p.operands)
              = IF op = AddOp THEN Whole((k + b)^n) ELSE Whole((k * b)^n)
        BY <4>1, Zenon DEF ExponentSlip
      <4> QED BY <4>2, Zenon DEF Raised
    <3> QED BY <3>2, <3>3, <3>6, NumericIs
  <2> QED BY <1>1, <2>1, <2>2
<1>3. PICK m \in Nat, n \in Nat :
        /\ m # n /\ p.answer = Whole(n) /\ ExponentSlip(p.operands) = Whole(m)
        /\ p.canonical = p.answer /\ p.givenDenominator = 0
  BY <1>2
<1>4. m \in Int /\ n \in Int
  OBVIOUS
<1>5. Num(p.answer) >= 0
  BY <1>3, <1>4, WholeFraction
<1> QED BY <1>3, <1>4, <1>5, SoundWhole, TwoBoxes

LEMMA OneStepSound ==
    ASSUME NEW format, NEW d \in Difficulties, NEW p \in OneStepProblems(format, d)
    PROVE  Sound(p, WrongInverse(p.operands)) /\ InTwoBoxes(p, p.answer)
<1>0. Difficulties = 1..4
  BY DEF Difficulties
<1>1. OneStepCoeff[d] \subseteq Nat \ {0} /\ Solutions \subseteq Nat
  BY <1>0 DEF OneStepCoeff, Solutions
<1>2. \/ \E b \in OneStepCoeff[d], x \in Solutions :
           p = Numeric("one_step_equations", format, Wholes(<<AddEquation, b, b + x>>), Whole(x))
      \/ \E ax \in OneStepCoeff[d] \X Solutions :
           /\ ax[1] * ax[2] - ax[1] # ax[2]
           /\ p = Numeric("one_step_equations", format,
                          Wholes(<<TimesEquation, ax[1], ax[1] * ax[2]>>), Whole(ax[2]))
  BY SMTT(30) DEF OneStepProblems
<1>3. \E mode, b, c, m \in Int, x \in Nat :
        /\ p = Numeric("one_step_equations", format, Wholes(<<mode, b, c>>), Whole(x))
        /\ m # x /\ m = IF mode = AddEquation THEN c + b ELSE c - b
  <2>1. ASSUME NEW b \in OneStepCoeff[d], NEW x \in Solutions,
               p = Numeric("one_step_equations", format, Wholes(<<AddEquation, b, b + x>>), Whole(x))
        PROVE  <1>3
    <3>1. /\ AddEquation \in Int /\ b \in Int /\ b + x \in Int /\ (b + x) + b \in Int
          /\ x \in Nat /\ (b + x) + b # x
      BY <1>1 DEF AddEquation
    <3> QED BY <2>1, <3>1
  <2>2. ASSUME NEW ax \in OneStepCoeff[d] \X Solutions,
               ax[1] * ax[2] - ax[1] # ax[2],
               p = Numeric("one_step_equations", format,
                           Wholes(<<TimesEquation, ax[1], ax[1] * ax[2]>>), Whole(ax[2]))
        PROVE  <1>3
    <3> DEFINE a == ax[1]
               x == ax[2]
               c == a * x
    <3>1. /\ TimesEquation \in Int /\ TimesEquation # AddEquation
          /\ a \in Int /\ c \in Int /\ c - a \in Int /\ x \in Nat
      BY <1>1 DEF TimesEquation, AddEquation
    <3>2. /\ p = Numeric("one_step_equations", format, Wholes(<<TimesEquation, a, c>>), Whole(x))
          /\ c - a # x
      BY <2>2
    <3> HIDE DEF a, x, c
    <3>3. \E m \in Int : m # x /\ m = c - a
      BY <3>1, <3>2
    <3> QED BY <3>1, <3>2, <3>3
  <2> QED BY <1>2, <2>1, <2>2
<1>4. PICK mode, b, c, m \in Int, x \in Nat :
        /\ p = Numeric("one_step_equations", format, Wholes(<<mode, b, c>>), Whole(x))
        /\ m # x /\ m = IF mode = AddEquation THEN c + b ELSE c - b
  BY <1>3
<1>5. WrongInverse(p.operands) = Whole(m)
  <2>1. /\ Num(p.operands[1]) = mode
        /\ p.operands[2] = Whole(b) /\ p.operands[3] = Whole(c)
    BY <1>4, NumericIs, Wholes3
  <2>2. Plus(Whole(c), Whole(b)) = Whole(c + b) /\ Minus(Whole(c), Whole(b)) = Whole(c - b)
    BY WholeArithmetic
  <2> QED BY <1>4, <2>1, <2>2 DEF WrongInverse
<1>6. p.answer = Whole(x) /\ p.canonical = p.answer /\ p.givenDenominator = 0 /\ x \in Int
  BY <1>4, NumericIs
<1>7. Num(p.answer) >= 0
  BY <1>6, WholeFraction
<1> QED BY <1>4, <1>5, <1>6, <1>7, SoundWhole, TwoBoxes

LEMMA EquationSound ==
    ASSUME NEW format, NEW d \in Difficulties, NEW p \in EquationProblems(format, d),
           p.kind = "numeric"
    PROVE  Sound(p, ConstantAdded(p.operands))
<1>0. Difficulties = 1..4
  BY DEF Difficulties
<1>1. EquationConst[d] \subseteq Nat \ {0} /\ Solutions \subseteq Nat
  BY <1>0 DEF EquationConst, Solutions
<1>2. format # "number_line"
  <2> SUFFICES ASSUME format = "number_line" PROVE FALSE
    OBVIOUS
  <2>1. \E truth \in BOOLEAN :
          p = YesNo("equation_solutions", format, "equal",
                    Wholes(<<1, IF truth THEN 1 ELSE 0>>), Whole(1))
    BY DEF EquationProblems
  <2> QED BY <2>1 DEF YesNo
<1>3. PICK b \in EquationConst[d], x \in Solutions :
             p = Numeric("equation_solutions", format, Wholes(<<b, b + x>>), Whole(x))
  BY <1>2 DEF EquationProblems
<1>4. b \in Int /\ x \in Int /\ b + x \in Int /\ (b + x) + b \in Int /\ (b + x) + b # x
  BY <1>1
<1>5. ConstantAdded(p.operands) = Whole((b + x) + b)
  <2>1. p.operands[1] = Whole(b) /\ p.operands[2] = Whole(b + x)
    BY <1>3, <1>4, NumericIs, Wholes2
  <2>2. Plus(Whole(b + x), Whole(b)) = Whole((b + x) + b)
    BY <1>4, WholeArithmetic
  <2> QED BY <2>1, <2>2 DEF ConstantAdded
<1> QED BY <1>3, <1>4, <1>5, NumericIs, SoundWhole

LEMMA DependentSound ==
    ASSUME NEW format, NEW d \in Difficulties, NEW p \in DependentProblems(format, d),
           p.kind = "numeric"
    PROVE  Sound(p, RateAdded(p.operands))
<1>0. Difficulties = 1..4
  BY DEF Difficulties
<1>1. DependentRate[d] \subseteq Nat \ {0, 1} /\ DependentValue[d] \subseteq Nat \ {0, 1}
  BY <1>0 DEF DependentRate, DependentValue
<1>2. format # "coordinate_plane"
  <2> SUFFICES ASSUME format = "coordinate_plane" PROVE FALSE
    OBVIOUS
  <2>1. \E ops, points : p = Structured("dependent_vars", format, "coordinate", ops, points)
    BY DEF DependentProblems
  <2> QED BY <2>1 DEF Structured, Numeric
<1>3. PICK ax \in (DependentRate[d] \X DependentValue[d]) \ {<<2, 2>>} :
        p = Numeric("dependent_vars", format, Wholes(<<ax[1], ax[2]>>), Whole(ax[1] * ax[2]))
  BY <1>2 DEF DependentProblems
<1>4. PICK a \in Nat \ {0, 1}, x \in Nat \ {0, 1} : ax = <<a, x>> /\ (a # 2 \/ x # 2)
  BY <1>1
<1> DEFINE n == a * x
<1>5. a \in Int /\ x \in Int /\ n \in Int /\ a + x \in Int
  OBVIOUS
<1>6. a + x # n
  <2>1. (a - 1) * (x - 1) = a * x - a - x + 1
    OBVIOUS
  <2>2. (a - 1) * (x - 1) # 1
    <3> DEFINE u == a - 1
               v == x - 1
    <3>1. u \in Nat \ {0} /\ v \in Nat \ {0} /\ (u # 1 \/ v # 1)
      BY <1>4
    <3> HIDE DEF u, v
    <3>2. u * v # 1
      BY <3>1
    <3> QED BY <3>2 DEF u, v
  <2> QED BY <2>1, <2>2
<1>7. p = Numeric("dependent_vars", format, Wholes(<<a, x>>), Whole(n))
  BY <1>3, <1>4
<1> HIDE DEF n
<1>8. RateAdded(p.operands) = Whole(a + x)
  <2>1. p.operands[1] = Whole(a) /\ p.operands[2] = Whole(x)
    BY <1>5, <1>7, NumericIs, Wholes2
  <2>2. Plus(Whole(a), Whole(x)) = Whole(a + x)
    BY <1>5, WholeArithmetic
  <2> QED BY <2>1, <2>2 DEF RateAdded
<1> QED BY <1>5, <1>6, <1>7, <1>8, NumericIs, SoundWhole

LEMMA PartsSound ==
    ASSUME NEW format, NEW d \in Difficulties, NEW p \in PartsProblems(format, d)
    PROVE  Sound(p, PartsSwapped(p.operands))
<1>0. Difficulties = 1..4
  BY DEF Difficulties
<1>1. PartsNumber[d] \subseteq Nat
  BY <1>0 DEF PartsNumber
<1>2. \A ck \in PartsPairs(d) : ck[1] \in Int /\ ck[2] \in Int /\ ck[1] # ck[2]
  BY <1>1 DEF PartsPairs
<1>3. \/ \E ck \in PartsPairs(d) : p = PartsQuestion(format, Coefficient, ck, ck[1])
      \/ \E ck \in PartsPairs(d) : p = PartsQuestion(format, Constant, ck, ck[2])
      \/ \E ck \in PartsPairs(d), n \in {2, 3} : p = PartsQuestion(format, TermCount, ck, n)
  BY DEF PartsProblems
<1> DEFINE Asks(mode, c, k, n) ==
             /\ p = Numeric("expression_parts", format, Wholes(<<mode, c, k>>), Whole(n))
             /\ c # k
             /\ \/ mode = Coefficient /\ n = c
                \/ mode = Constant /\ n = k
                \/ mode = TermCount
<1>9. \E mode, c, k, n \in Int : Asks(mode, c, k, n)
  <2>1. ASSUME NEW ck \in PartsPairs(d), p = PartsQuestion(format, Coefficient, ck, ck[1])
        PROVE  Asks(0, ck[1], ck[2], ck[1])
    BY <1>2, <2>1 DEF PartsQuestion, Coefficient
  <2>2. ASSUME NEW ck \in PartsPairs(d), p = PartsQuestion(format, Constant, ck, ck[2])
        PROVE  Asks(1, ck[1], ck[2], ck[2])
    BY <1>2, <2>2 DEF PartsQuestion, Constant
  <2>3. ASSUME NEW ck \in PartsPairs(d), NEW n \in {2, 3},
               p = PartsQuestion(format, TermCount, ck, n)
        PROVE  Asks(2, ck[1], ck[2], n) /\ n \in Int
    BY <1>2, <2>3 DEF PartsQuestion, TermCount
  <2> HIDE DEF Asks
  <2> QED BY <1>2, <1>3, <2>1, <2>2, <2>3
<1>4. PICK mode, c, k, n \in Int : Asks(mode, c, k, n)
  BY <1>9
<1>5. /\ p.answer = Whole(n) /\ p.canonical = p.answer
      /\ Num(p.operands[1]) = mode /\ p.operands[2] = Whole(c) /\ p.operands[3] = Whole(k)
  BY <1>4, NumericIs, Wholes3
<1>6. CASE mode = Coefficient
  BY <1>4, <1>5, <1>6, SoundWhole DEF PartsSwapped, Coefficient, Constant, TermCount
<1>7. CASE mode = Constant
  BY <1>4, <1>5, <1>7, SoundWhole DEF PartsSwapped, Coefficient, Constant, TermCount
<1>8. CASE mode = TermCount
  <2>1. PartsSwapped(p.operands) = Nothing
    BY <1>5, <1>8 DEF PartsSwapped, Coefficient, Constant, TermCount
  <2> QED BY <1>5, <2>1, WholeFraction DEF Sound
<1> QED BY <1>4, <1>6, <1>7, <1>8

(* ------------------------------ geometry ------------------------------ *)
LEMMA HalfIsLess ==
    ASSUME NEW n \in Nat \ {0}
    PROVE  /\ Rational(n, 2) # Whole(n) /\ Fraction(Rational(n, 2))
           /\ Num(Rational(n, 2)) >= 0
<1>1. n # n * 2 /\ n \in Int
  OBVIOUS
<1>2. Rational(n, 2) # Whole(n)
  BY <1>1, WholeIs
<1> QED BY <1>1, <1>2, RationalFraction, RationalSign

(* A numeric problem about n whose mistake is not to halve it.             *)
LEMMA HalvedSound ==
    ASSUME NEW p, NEW n \in Nat \ {0},
           p.answer = Rational(n, 2), p.canonical = p.answer, p.givenDenominator = 0
    PROVE  Sound(p, Whole(n)) /\ InTwoBoxes(p, p.answer)
<1> QED BY HalfIsLess, TwoBoxes DEF Sound

LEMMA TriangleSound ==
    ASSUME NEW format, NEW d \in Difficulties, NEW p \in TriangleProblems(format, d)
    PROVE  Sound(p, TriangleSlip(p.operands)) /\ InTwoBoxes(p, p.answer)
<1>0. Difficulties = 1..4
  BY DEF Difficulties
<1>1. \A ab \in AnglePairs[d] : ab[1] \in Nat /\ ab[2] \in Nat /\ 180 - ab[1] - ab[2] >= 0
  BY <1>0 DEF AnglePairs
<1>2. \A bh \in BaseHeights[d] : bh[1] \in Nat \ {0} /\ bh[2] \in Nat \ {0}
  BY <1>0 DEF BaseHeights
<1>3. \/ \E ab \in AnglePairs[d] :
           p = Numeric("triangle_properties", format, Wholes(<<ab[1], ab[2], AngleMode>>),
                       Whole(180 - ab[1] - ab[2]))
      \/ \E bh \in BaseHeights[d] :
           p = Numeric("triangle_properties", format, Wholes(<<bh[1], bh[2], AreaMode>>),
                       Rational(bh[1] * bh[2], 2))
  BY DEF TriangleProblems
<1>4. ASSUME NEW ab \in AnglePairs[d],
             p = Numeric("triangle_properties", format, Wholes(<<ab[1], ab[2], AngleMode>>),
                         Whole(180 - ab[1] - ab[2]))
      PROVE  Sound(p, TriangleSlip(p.operands)) /\ InTwoBoxes(p, p.answer)
  <2> DEFINE a == ab[1]
             b == ab[2]
             n == 180 - a - b
             m == 90 - a - b
  <2>1. /\ a \in Int /\ b \in Int /\ AngleMode \in Int
        /\ n \in Int /\ m \in Int /\ m # n /\ n >= 0
    BY <1>1 DEF AngleMode
  <2>2. p = Numeric("triangle_properties", format, Wholes(<<a, b, AngleMode>>), Whole(n))
    BY <1>4
  <2> HIDE DEF a, b, n
  <2>3. TriangleSlip(p.operands) = Whole(m)
    BY <2>1, <2>2, NumericIs, Wholes3 DEF TriangleSlip
  <2> HIDE DEF m
  <2>4. p.answer = Whole(n) /\ p.canonical = p.answer /\ p.givenDenominator = 0
    BY <2>2, NumericIs
  <2>5. Num(p.answer) >= 0
    BY <2>1, <2>4, WholeFraction
  <2> QED BY <2>1, <2>3, <2>4, <2>5, SoundWhole, TwoBoxes
<1>5. ASSUME NEW bh \in BaseHeights[d],
             p = Numeric("triangle_properties", format, Wholes(<<bh[1], bh[2], AreaMode>>),
                         Rational(bh[1] * bh[2], 2))
      PROVE  Sound(p, TriangleSlip(p.operands)) /\ InTwoBoxes(p, p.answer)
  <2> DEFINE b == bh[1]
             h == bh[2]
             n == b * h
  <2>1. /\ b \in Int /\ h \in Int /\ n \in Nat \ {0}
        /\ AreaMode \in Int /\ AreaMode # AngleMode
    BY <1>2 DEF AngleMode, AreaMode
  <2>2. p = Numeric("triangle_properties", format, Wholes(<<b, h, AreaMode>>), Rational(n, 2))
    BY <1>5
  <2>3. Times(Whole(b), Whole(h)) = Whole(n)
    BY <2>1, WholeArithmetic
  <2> HIDE DEF b, h, n
  <2>4. TriangleSlip(p.operands) = Whole(n)
    <3>1. /\ Num(p.operands[3]) = AreaMode
          /\ p.operands[1] = Whole(b) /\ p.operands[2] = Whole(h)
      BY <2>1, <2>2, NumericIs, Wholes3
    <3> QED BY <2>1, <2>3, <3>1 DEF TriangleSlip
  <2> QED BY <2>1, <2>2, <2>4, NumericIs, HalvedSound
<1> QED BY <1>3, <1>4, <1>5

LEMMA WholesAndShape ==
    ASSUME NEW a \in Int, NEW b \in Int, NEW shape \in Int
    PROVE  LET ops == Wholes(<<a, b>> \o <<shape>>)
           IN  /\ Len(ops) = 3 /\ ops[1] = Whole(a) /\ ops[2] = Whole(b)
               /\ ops[3] = Whole(shape) /\ Num(ops[3]) = shape
<1> DEFINE t == <<a, b>> \o <<shape>>
<1>1. Len(t) = 3 /\ t[1] = a /\ t[2] = b /\ t[3] = shape
  BY OneMore
<1> HIDE DEF t
<1>2. Len(Wholes(t)) = 3 /\ \A i \in 1..3 : Wholes(t)[i] = Whole(t[i])
  BY <1>1 DEF Wholes
<1> QED BY <1>1, <1>2 DEF t, Whole, Num

LEMMA TrapezoidWholes ==
    ASSUME NEW a \in Int, NEW b \in Int, NEW h \in Int, NEW shape \in Int
    PROVE  LET ops == Wholes(<<a, b, h>> \o <<shape>>)
           IN  /\ Len(ops) = 4 /\ Num(ops[1]) = a /\ Num(ops[2]) = b /\ Num(ops[3]) = h
<1> DEFINE t == <<a, b, h>> \o <<shape>>
<1>1. Len(t) = 4 /\ t[1] = a /\ t[2] = b /\ t[3] = h
  BY <<a, b, h>> \in Seq(Int), <<shape>> \in Seq(Int)
<1> HIDE DEF t
<1>2. Len(Wholes(t)) = 4 /\ \A i \in 1..4 : Wholes(t)[i] = Whole(t[i])
  BY <1>1 DEF Wholes
<1> QED BY <1>1, <1>2 DEF t, Whole, Num

LEMMA AreaSound ==
    ASSUME NEW format, NEW d \in Difficulties, NEW p \in AreaProblems(format, d)
    PROVE  Sound(p, NotHalved(p.operands)) /\ InTwoBoxes(p, p.answer)
<1>0. Difficulties = 1..4
  BY DEF Difficulties
<1>1. AreaSides[d] \subseteq Nat \ {0}
  BY <1>0 DEF AreaSides
<1>2. \A h \in AreaSides[d] : EvenUp(h) \in Nat \ {0}
  BY <1>1 DEF EvenUp
<1> DEFINE Shape(shape, ops, answer) ==
             Numeric("area_polygons", format, Wholes(ops \o <<shape>>), answer)
           s == AreaSides[d]
<1>3. \/ \E b \in s, h \in s :
           p = Shape(TriangleShape, <<b, EvenUp(h)>>, Rational(b * EvenUp(h), 2))
      \/ \E b \in s, h \in s : p = Shape(ParallelogramShape, <<b, h>>, Whole(b * h))
      \/ \E bb \in {bb \in s \X s : bb[1] # bb[2]}, h \in s :
           p = Shape(TrapezoidShape, <<bb[1], bb[2], EvenUp(h)>>,
                     Rational((bb[1] + bb[2]) * EvenUp(h), 2))
  BY DEF AreaProblems
<1>4. ASSUME NEW b \in s, NEW h \in s,
             p = Shape(TriangleShape, <<b, EvenUp(h)>>, Rational(b * EvenUp(h), 2))
      PROVE  Sound(p, NotHalved(p.operands)) /\ InTwoBoxes(p, p.answer)
  <2> DEFINE e == EvenUp(h)
             n == b * e
             ops == Wholes(<<b, e>> \o <<TriangleShape>>)
  <2>1. e \in Nat \ {0} /\ b \in Nat \ {0}
    BY <1>1, <1>2
  <2>2. p = Numeric("area_polygons", format, ops, Rational(n, 2))
    BY <1>4
  <2> HIDE DEF e
  <2>3. b \in Int /\ e \in Int /\ n \in Nat \ {0} /\ TriangleShape \in Int
    BY <2>1 DEF TriangleShape
  <2>4. Times(Whole(b), Whole(e)) = Whole(n)
    BY <2>3, WholeArithmetic
  <2>5. /\ Len(ops) # 4 /\ Num(ops[3]) = TriangleShape
        /\ ops[1] = Whole(b) /\ ops[2] = Whole(e)
    BY <2>3, WholesAndShape
  <2> HIDE DEF n, ops
  <2>6. NotHalved(ops) = Whole(n)
    BY <2>4, <2>5 DEF NotHalved
  <2> QED BY <2>2, <2>3, <2>6, NumericIs, HalvedSound
<1>5. ASSUME NEW b \in s, NEW h \in s,
             p = Shape(ParallelogramShape, <<b, h>>, Whole(b * h))
      PROVE  Sound(p, NotHalved(p.operands)) /\ InTwoBoxes(p, p.answer)
  <2> DEFINE n == b * h
             ops == Wholes(<<b, h>> \o <<ParallelogramShape>>)
  <2>1. /\ b \in Int /\ h \in Int /\ n \in Nat /\ n \in Int
        /\ ParallelogramShape \in Int /\ ParallelogramShape # TriangleShape
    BY <1>1 DEF ParallelogramShape, TriangleShape
  <2>2. p = Numeric("area_polygons", format, ops, Whole(n))
    BY <1>5
  <2>3. Len(ops) # 4 /\ Num(ops[3]) = ParallelogramShape
    BY <2>1, WholesAndShape
  <2> HIDE DEF n, ops
  <2>4. NotHalved(ops) = Nothing
    BY <2>1, <2>3 DEF NotHalved
  <2>5. Num(Whole(n)) >= 0
    BY <2>1, WholeFraction
  <2> QED BY <2>1, <2>2, <2>4, <2>5, NumericIs, WholeFraction, TwoBoxes DEF Sound
<1>6. ASSUME NEW bb \in {bb \in s \X s : bb[1] # bb[2]}, NEW h \in s,
             p = Shape(TrapezoidShape, <<bb[1], bb[2], EvenUp(h)>>,
                   Rational((bb[1] + bb[2]) * EvenUp(h), 2))
      PROVE  Sound(p, NotHalved(p.operands)) /\ InTwoBoxes(p, p.answer)
  <2> DEFINE a == bb[1]
             b == bb[2]
             e == EvenUp(h)
             n == (a + b) * e
             ops == Wholes(<<a, b, e>> \o <<TrapezoidShape>>)
  <2>1. e \in Nat \ {0} /\ a \in Nat \ {0} /\ b \in Nat \ {0}
    BY <1>1, <1>2
  <2>2. p = Numeric("area_polygons", format, ops, Rational(n, 2))
    BY <1>6
  <2> HIDE DEF a, b, e
  <2>3. /\ a \in Int /\ b \in Int /\ e \in Int /\ n \in Nat \ {0} /\ TrapezoidShape \in Int
    BY <2>1 DEF TrapezoidShape
  <2>4. /\ Len(ops) = 4 /\ Num(ops[1]) = a /\ Num(ops[2]) = b /\ Num(ops[3]) = e
    BY <2>3, TrapezoidWholes
  <2>5. NotHalved(ops) = Whole(n)
    BY <2>4 DEF NotHalved
  <2> HIDE DEF n, ops
  <2> QED BY <2>2, <2>3, <2>5, NumericIs, HalvedSound
<1> HIDE DEF Shape
<1> QED BY <1>3, <1>4, <1>5, <1>6

LEMMA TimesPositive ==
    ASSUME NEW f, NEW g, Fraction(f), Fraction(g), Num(f) >= 0, Num(g) >= 0
    PROVE  Fraction(Times(f, g)) /\ Num(Times(f, g)) >= 0
<1> DEFINE p == Num(f) * Num(g)
           q == Den(f) * Den(g)
<1>1. p \in Int /\ p >= 0 /\ q \in Nat \ {0}
  BY DEF Fraction
<1>2. Times(f, g) = Rational(p, q)
  BY DEF Times
<1> HIDE DEF p, q
<1> QED BY <1>1, <1>2, RationalFraction, RationalSign

(* The generator keeps the edges whose sum is their product out.           *)
LEMMA VolumeSound ==
    ASSUME NEW format, NEW d \in Difficulties, NEW p \in VolumeProblems(format, d)
    PROVE  Sound(p, SumOf(p.operands)) /\ InTwoBoxes(p, p.answer)
<1>0. Difficulties = 1..4
  BY DEF Difficulties
<1>1. \A f \in VolumeEdges[d] : Fraction(f) /\ Num(f) >= 0
  BY <1>0 DEF VolumeEdges, Fraction, Num, Den
<1>2. PICK e \in VolumeEdges[d] \X VolumeEdges[d] \X VolumeEdges[d] :
        /\ SumOf(e) # ProductOf(e)
        /\ p = Numeric("volume_fractional_edges", format, e, ProductOf(e))
  BY DEF VolumeProblems
<1>3. /\ Fraction(e[1]) /\ Fraction(e[2]) /\ Fraction(e[3])
      /\ Num(e[1]) >= 0 /\ Num(e[2]) >= 0 /\ Num(e[3]) >= 0
  BY <1>1
<1>4. Fraction(ProductOf(e)) /\ Num(ProductOf(e)) >= 0
  BY <1>3, TimesPositive DEF ProductOf
<1> QED BY <1>2, <1>4, NumericIs, TwoBoxes DEF Sound

LEMMA SurfaceSound ==
    ASSUME NEW format, NEW d \in Difficulties, NEW p \in SurfaceProblems(format, d)
    PROVE  Sound(p, ThreeFaces(p.operands)) /\ InTwoBoxes(p, p.answer)
<1>0. Difficulties = 1..4
  BY DEF Difficulties
<1>1. SurfaceEdges[d] \subseteq Nat \ {0}
  BY <1>0 DEF SurfaceEdges
<1>2. PICK e \in [1..3 -> SurfaceEdges[d]] :
        p = Numeric("surface_area_nets", format, Wholes(e),
                    Times(Whole(2), ThreeFaces(Wholes(e))))
  BY DEF SurfaceProblems
<1> DEFINE a == e[1]
           b == e[2]
           c == e[3]
           ab == a * b
           ac == a * c
           bc == b * c
           three == (ab + ac) + bc
<1>3. /\ a \in Nat \ {0} /\ b \in Nat \ {0} /\ c \in Nat \ {0}
      /\ Len(e) = 3
  BY <1>1
<1>4. Wholes(e)[1] = Whole(a) /\ Wholes(e)[2] = Whole(b) /\ Wholes(e)[3] = Whole(c)
  BY <1>3 DEF Wholes
<1> HIDE DEF a, b, c
<1>5. ab \in Nat \ {0} /\ ac \in Nat \ {0} /\ bc \in Nat \ {0}
  BY <1>3
<1>6. /\ Times(Whole(a), Whole(b)) = Whole(ab) /\ Times(Whole(a), Whole(c)) = Whole(ac)
      /\ Times(Whole(b), Whole(c)) = Whole(bc)
  <2>1. a \in Int /\ b \in Int /\ c \in Int
    BY <1>3
  <2>2. /\ Times(Whole(a), Whole(b)) = Whole(a * b) /\ Times(Whole(a), Whole(c)) = Whole(a * c)
        /\ Times(Whole(b), Whole(c)) = Whole(b * c)
    BY <2>1, WholeArithmetic, Zenon
  <2> QED BY <2>2
<1> HIDE DEF ab, ac, bc
<1>7. ab + ac \in Int /\ three \in Nat \ {0} /\ three \in Int /\ 2 * three \in Int
  BY <1>5
<1>8. ThreeFaces(Wholes(e)) = Whole(three)
  <2>1. Plus(Whole(ab), Whole(ac)) = Whole(ab + ac)
    BY <1>5, WholeArithmetic
  <2>2. Plus(Whole(ab + ac), Whole(bc)) = Whole(three)
    BY <1>5, <1>7, WholeArithmetic
  <2> QED BY <1>4, <1>6, <2>1, <2>2 DEF ThreeFaces
<1> HIDE DEF three
<1>9. Times(Whole(2), Whole(three)) = Whole(2 * three)
  BY <1>7, WholeArithmetic
<1>10. /\ p.operands = Wholes(e) /\ p.answer = Whole(2 * three)
       /\ p.canonical = p.answer /\ p.givenDenominator = 0
  BY <1>2, <1>8, <1>9, NumericIs
<1>11. three # 2 * three /\ Num(p.answer) >= 0
  BY <1>7, <1>10, WholeFraction
<1> QED BY <1>7, <1>8, <1>10, <1>11, SoundWhole, TwoBoxes

LEMMA IncomeQuestions ==
    ASSUME NEW format, NEW d, NEW p \in IncomeProblems(format, d)
    PROVE  \/ \E salary \in Salaries[d], years \in WorkingYears[d] :
                p = Numeric("lifetime_income", format, Wholes(<<IncomeTotal, salary, years>>),
                            Whole(salary * years))
           \/ \E s \in {s \in Salaries[d] \X Salaries[d] : s[2] < s[1]}, years \in WorkingYears[d] :
                p = Numeric("lifetime_income", format,
                            Wholes(<<IncomeDifference, s[1], s[2], years>>),
                            Whole((s[1] - s[2]) * years))
<1> QED BY DEF IncomeProblems

LEMMA IncomeSound ==
    ASSUME NEW format, NEW d \in Difficulties, NEW p \in IncomeProblems(format, d)
    PROVE  Sound(p, OneYearOnly(p.operands))
<1>0. Difficulties = 1..4
  BY DEF Difficulties
<1>1. Salaries[d] \subseteq Nat \ {0} /\ WorkingYears[d] \subseteq Nat \ {0, 1}
  BY <1>0 DEF Salaries, WorkingYears
<1>2. \/ \E salary \in Salaries[d], years \in WorkingYears[d] :
           p = Numeric("lifetime_income", format, Wholes(<<IncomeTotal, salary, years>>),
                       Whole(salary * years))
      \/ \E s \in {s \in Salaries[d] \X Salaries[d] : s[2] < s[1]}, years \in WorkingYears[d] :
           p = Numeric("lifetime_income", format,
                       Wholes(<<IncomeDifference, s[1], s[2], years>>),
                       Whole((s[1] - s[2]) * years))
  BY IncomeQuestions
<1>3. \A m \in Nat \ {0}, years \in Nat \ {0, 1} :
        m \in Int /\ m * years \in Int /\ m # m * years
  OBVIOUS
<1>4. ASSUME NEW salary \in Salaries[d], NEW years \in WorkingYears[d],
             p = Numeric("lifetime_income", format, Wholes(<<IncomeTotal, salary, years>>),
                         Whole(salary * years))
      PROVE  Sound(p, OneYearOnly(p.operands))
  <2> DEFINE n == salary * years
  <2>1. /\ salary \in Int /\ years \in Int /\ IncomeTotal \in Int
        /\ n \in Int /\ salary # n
    BY <1>1, <1>3 DEF IncomeTotal
  <2> HIDE DEF n
  <2>2. p = Numeric("lifetime_income", format, Wholes(<<IncomeTotal, salary, years>>), Whole(n))
    BY <1>4 DEF n
  <2>3. Num(p.operands[1]) = IncomeTotal /\ p.operands[2] = Whole(salary)
    BY <2>1, <2>2, NumericIs, Wholes3
  <2>4. OneYearOnly(p.operands) = Whole(salary)
    BY <2>3 DEF OneYearOnly
  <2> QED BY <2>1, <2>2, <2>4, NumericIs, SoundWhole
<1>5. ASSUME NEW s \in {s \in Salaries[d] \X Salaries[d] : s[2] < s[1]},
             NEW years \in WorkingYears[d],
             p = Numeric("lifetime_income", format,
                         Wholes(<<IncomeDifference, s[1], s[2], years>>),
                         Whole((s[1] - s[2]) * years))
      PROVE  Sound(p, OneYearOnly(p.operands))
  <2> DEFINE a == s[1]
             b == s[2]
             n == (a - b) * years
  <2>1. /\ a \in Int /\ b \in Int /\ years \in Int /\ IncomeDifference \in Int
        /\ IncomeDifference # IncomeTotal
    BY <1>1 DEF IncomeTotal, IncomeDifference
  <2>2. n \in Int /\ a - b \in Int /\ a - b # n
    <3>1. a - b \in Nat \ {0}
      BY <1>1
    <3> QED BY <1>1, <1>3, <3>1
  <2>3. p = Numeric("lifetime_income", format, Wholes(<<IncomeDifference, a, b, years>>), Whole(n))
    BY <1>5
  <2> HIDE DEF a, b, n
  <2>4. /\ Num(p.operands[1]) = IncomeDifference
        /\ p.operands[2] = Whole(a) /\ p.operands[3] = Whole(b)
    BY <2>1, <2>3, NumericIs, Wholes4
  <2>5. OneYearOnly(p.operands) = Minus(Whole(a), Whole(b))
    BY <2>1, <2>4 DEF OneYearOnly
  <2>6. Minus(Whole(a), Whole(b)) = Whole(a - b)
    BY <2>1, WholeArithmetic
  <2> QED BY <2>2, <2>3, <2>5, <2>6, NumericIs, SoundWhole
<1> QED BY <1>2, <1>4, <1>5

(* ------------------------------- sums --------------------------------- *)
(* The community modules' fold of a sequence with +: the set of indices is *)
(* emptied one chosen index after the other.                               *)
Picked(s) == CHOOSE x \in s : TRUE
Summing(data) ==
    CHOOSE iter : iter = [s \in SUBSET DOMAIN data |->
                            IF s = {} THEN 0
                            ELSE data[Picked(s)] + iter[s \ {Picked(s)}]]
SumOver(data, s) == Summing(data)[s]

LEMMA TotalIs ==
    ASSUME NEW data
    PROVE  Total(data) = SumOver(data, DOMAIN data) /\ Balance(data) = SumOver(data, DOMAIN data)
<1> QED BY Zenon DEF Total, Balance, FoldSeq, FoldFunction, FoldFunctionOnSet, MapThenFoldSet,
                     SumOver, Summing, Picked

LEMMA PickedIn ==
    ASSUME NEW s, s # {}
    PROVE  Picked(s) \in s
<1> QED BY DEF Picked

(* A function that sums the sets of at most n indices.                     *)
Few(D, n) == {s \in SUBSET D : Cardinality(s) <= n}
Sums(iter, data, sets) ==
    /\ iter \in [sets -> Int]
    /\ \A s \in sets : iter[s] = IF s = {} THEN 0 ELSE data[Picked(s)] + iter[s \ {Picked(s)}]

LEMMA OneFewer ==
    ASSUME NEW D, IsFiniteSet(D), NEW n \in Nat \ {0}, NEW s \in Few(D, n), NEW x \in s
    PROVE  s \ {x} \in Few(D, n - 1)
<1>1. IsFiniteSet(s) /\ Cardinality(s) <= n /\ s \in SUBSET D
  BY FS_Subset DEF Few
<1>2. Cardinality(s \ {x}) = Cardinality(s) - 1 /\ Cardinality(s) \in Nat
  BY <1>1, FS_RemoveElement, FS_CardinalityType
<1> QED BY <1>1, <1>2 DEF Few

LEMMA FewSums ==
    ASSUME NEW D, IsFiniteSet(D), NEW data \in [D -> Int], NEW n \in Nat
    PROVE  \E iter : Sums(iter, data, Few(D, n))
<1> DEFINE Fails == {m \in Nat : ~\E iter : Sums(iter, data, Few(D, m))}
<1>1. SUFFICES ASSUME Fails # {} PROVE FALSE
  OBVIOUS
<1>2. PICK m \in Fails : \A k \in Fails : m <= k
  BY <1>1, LeastNatural
<1>3. CASE m = 0
  <2>1. \A s \in Few(D, 0) : s = {}
    <3> SUFFICES ASSUME NEW s \in Few(D, 0) PROVE s = {}
      OBVIOUS
    <3>1. IsFiniteSet(s) /\ Cardinality(s) <= 0
      BY FS_Subset DEF Few
    <3>2. Cardinality(s) \in Nat
      BY <3>1, FS_CardinalityType
    <3> QED BY <3>1, <3>2, FS_EmptySet
  <2>2. Sums([s \in Few(D, 0) |-> 0], data, Few(D, 0))
    BY <2>1 DEF Sums
  <2> QED BY <1>3, <2>2
<1>4. CASE m # 0
  <2>1. m \in Nat \ {0} /\ m - 1 \in Nat /\ m - 1 \notin Fails
    BY <1>2, <1>4
  <2>2. PICK old : Sums(old, data, Few(D, m - 1))
    BY <2>1
  <2> DEFINE new == [s \in Few(D, m) |->
                       IF s = {} THEN 0 ELSE data[Picked(s)] + old[s \ {Picked(s)}]]
  <2>3. \A s \in Few(D, m) : s # {} => /\ Picked(s) \in D
                                      /\ s \ {Picked(s)} \in Few(D, m - 1)
    BY <2>1, PickedIn, OneFewer DEF Few
  <2>4. \A s \in Few(D, m - 1) : s \in Few(D, m)
    <3>1. \A s \in Few(D, m - 1) : IsFiniteSet(s) /\ Cardinality(s) <= m - 1 /\ s \in SUBSET D
      BY FS_Subset DEF Few
    <3>2. \A s \in Few(D, m - 1) : Cardinality(s) \in Nat
      BY <3>1, FS_CardinalityType
    <3> QED BY <2>1, <3>1, <3>2 DEF Few
  <2>5. \A s \in Few(D, m - 1) : new[s] = old[s]
    BY <2>2, <2>4 DEF Sums
  <2>6. new \in [Few(D, m) -> Int]
    <3>1. ASSUME NEW s \in Few(D, m), s # {}
          PROVE  data[Picked(s)] + old[s \ {Picked(s)}] \in Int
      <4>1. data[Picked(s)] \in Int
        BY <2>3, <3>1
      <4>2. old[s \ {Picked(s)}] \in Int
        BY <2>2, <2>3, <3>1 DEF Sums
      <4> QED BY <4>1, <4>2
    <3> QED BY <3>1
  <2>7. \A s \in Few(D, m) :
          new[s] = IF s = {} THEN 0 ELSE data[Picked(s)] + new[s \ {Picked(s)}]
    BY <2>3, <2>5
  <2>8. Sums(new, data, Few(D, m))
    <3> HIDE DEF new
    <3> QED BY <2>6, <2>7 DEF Sums
  <2> QED BY <1>2, <2>8
<1> QED BY <1>3, <1>4

LEMMA SumStep ==
    ASSUME NEW D, IsFiniteSet(D), NEW data \in [D -> Int]
    PROVE  \A s \in SUBSET D :
             SumOver(data, s) = IF s = {} THEN 0
                                ELSE data[Picked(s)] + SumOver(data, s \ {Picked(s)})
<1>1. Cardinality(D) \in Nat
  BY FS_CardinalityType
<1>2. Few(D, Cardinality(D)) = SUBSET D
  BY FS_Subset DEF Few
<1>3. PICK iter : Sums(iter, data, SUBSET D)
  <2>1. \E iter : Sums(iter, data, Few(D, Cardinality(D)))
    BY <1>1, FewSums
  <2> QED BY <1>2, <2>1
<1> DEFINE Steps(f) == f = [s \in SUBSET DOMAIN data |->
                              IF s = {} THEN 0 ELSE data[Picked(s)] + f[s \ {Picked(s)}]]
<1>4. Steps(iter)
  BY <1>3 DEF Sums
<1>5. Summing(data) = CHOOSE f : Steps(f)
  BY Zenon DEF Summing
<1>6. Steps(Summing(data))
  <2> HIDE DEF Steps
  <2> QED BY <1>4, <1>5, Zenon
<1>7. DOMAIN data = D
  OBVIOUS
<1>8. Summing(data) = [s \in SUBSET D |->
                         IF s = {} THEN 0 ELSE data[Picked(s)] + Summing(data)[s \ {Picked(s)}]]
  BY <1>6, <1>7, Zenon
<1> QED BY <1>8, Zenon DEF SumOver

LEMMA SumType ==
    ASSUME NEW D, IsFiniteSet(D), NEW data \in [D -> Int], NEW set \in SUBSET D
    PROVE  SumOver(data, set) \in Int
<1> DEFINE Fails == {n \in Nat : \E s \in Few(D, n) : SumOver(data, s) \notin Int}
<1>1. SUFFICES Fails = {}
  <2>1. Cardinality(set) \in Nat /\ set \in Few(D, Cardinality(set))
    BY FS_Subset, FS_CardinalityType DEF Few
  <2> QED BY <2>1
<1>2. SUFFICES ASSUME Fails # {} PROVE FALSE
  OBVIOUS
<1>3. PICK n \in Fails : \A m \in Fails : n <= m
  BY <1>2, LeastNatural
<1>4. PICK s \in Few(D, n) : SumOver(data, s) \notin Int
  OBVIOUS
<1>5. s \in SUBSET D
  BY DEF Few
<1>6. s # {}
  BY <1>4, <1>5, SumStep
<1>7. Picked(s) \in s /\ data[Picked(s)] \in Int
  BY <1>5, <1>6, PickedIn
<1>8. n # 0
  <2>1. IsFiniteSet(s) /\ Cardinality(s) <= n
    BY FS_Subset DEF Few
  <2> QED BY <1>6, <2>1, FS_EmptySet, FS_CardinalityType
<1>9. n - 1 \in Nat /\ n - 1 \notin Fails /\ s \ {Picked(s)} \in Few(D, n - 1)
  BY <1>3, <1>7, <1>8, OneFewer
<1>10. SumOver(data, s \ {Picked(s)}) \in Int
  BY <1>9
<1>11. SumOver(data, s) = data[Picked(s)] + SumOver(data, s \ {Picked(s)})
  BY <1>5, <1>6, SumStep
<1> QED BY <1>4, <1>7, <1>10, <1>11

(* Any index may be taken out first.                                       *)
LEMMA SumWithout ==
    ASSUME NEW D, IsFiniteSet(D), NEW data \in [D -> Int],
           NEW set \in SUBSET D, NEW y \in set
    PROVE  SumOver(data, set) = data[y] + SumOver(data, set \ {y})
<1> DEFINE Fails == {n \in Nat : \E s \in Few(D, n) : \E x \in s :
                       SumOver(data, s) # data[x] + SumOver(data, s \ {x})}
<1>1. SUFFICES Fails = {}
  <2>1. Cardinality(set) \in Nat /\ set \in Few(D, Cardinality(set))
    BY FS_Subset, FS_CardinalityType DEF Few
  <2> QED BY <2>1
<1>2. SUFFICES ASSUME Fails # {} PROVE FALSE
  OBVIOUS
<1>3. PICK n \in Fails : \A m \in Fails : n <= m
  BY <1>2, LeastNatural
<1>a. PICK s \in Few(D, n) : \E x \in s :
        SumOver(data, s) # data[x] + SumOver(data, s \ {x})
  OBVIOUS
<1>4. PICK x \in s : SumOver(data, s) # data[x] + SumOver(data, s \ {x})
  BY <1>a
<1> DEFINE p == Picked(s)
           sp == s \ {p}
           sx == s \ {x}
           spx == sp \ {x}
<1>5. s \in SUBSET D /\ s # {} /\ p \in s /\ n # 0
  <2>1. IsFiniteSet(s) /\ Cardinality(s) <= n
    BY FS_Subset DEF Few
  <2> QED BY <2>1, PickedIn, FS_EmptySet, FS_CardinalityType DEF Few
<1>6. n - 1 \in Nat /\ n - 1 \notin Fails
  BY <1>3, <1>5
<1>7. \A t \in Few(D, n - 1) : \A z \in t :
        SumOver(data, t) = data[z] + SumOver(data, t \ {z})
  BY <1>6
<1>8. sp \in Few(D, n - 1) /\ sx \in Few(D, n - 1)
  BY <1>5, OneFewer
<1>9. SumOver(data, s) = data[p] + SumOver(data, sp)
  BY <1>5, SumStep
<1>10. p # x
  BY <1>4, <1>9
<1>11. SumOver(data, sp) = data[x] + SumOver(data, spx)
  BY <1>7, <1>8, <1>10
<1>12. SumOver(data, sx) = data[p] + SumOver(data, sx \ {p})
  BY <1>5, <1>7, <1>8, <1>10
<1>13. sx \ {p} = spx
  OBVIOUS
<1>14. SumOver(data, spx) \in Int /\ data[p] \in Int /\ data[x] \in Int
  BY <1>5, SumType
<1>15. SumOver(data, s \ {x}) = data[p] + SumOver(data, spx)
  BY <1>12, <1>13
<1> HIDE DEF sp, spx, p
<1> QED BY <1>4, <1>9, <1>11, <1>14, <1>15

LEMMA TotalSteps ==
    ASSUME NEW n \in Nat, NEW data \in [1..n -> Int]
    PROVE  /\ Total(data) = SumOver(data, 1..n) /\ Balance(data) = SumOver(data, 1..n)
           /\ Total(data) \in Int
           /\ \A k \in 1..n : /\ SumOver(data, 1..k) = data[k] + SumOver(data, 1..(k - 1))
                              /\ SumOver(data, 1..(k - 1)) \in Int
           /\ SumOver(data, 1..0) = 0
<1>1. IsFiniteSet(1..n)
  BY FS_Interval
<1>2. DOMAIN data = 1..n
  OBVIOUS
<1>3. Total(data) = SumOver(data, 1..n) /\ Balance(data) = SumOver(data, 1..n)
  BY <1>2, TotalIs
<1>4. 1..n \in SUBSET (1..n)
  OBVIOUS
<1>5. Total(data) \in Int
  BY <1>1, <1>3, <1>4, SumType
<1>6. ASSUME NEW k \in 1..n
      PROVE  /\ SumOver(data, 1..k) = data[k] + SumOver(data, 1..(k - 1))
             /\ SumOver(data, 1..(k - 1)) \in Int
  <2>1. /\ 1..k \in SUBSET (1..n) /\ 1..(k - 1) \in SUBSET (1..n)
        /\ k \in 1..k /\ (1..k) \ {k} = 1..(k - 1)
    OBVIOUS
  <2>2. SumOver(data, 1..k) = data[k] + SumOver(data, (1..k) \ {k})
    BY <1>1, <2>1, SumWithout
  <2> QED BY <1>1, <2>1, <2>2, SumType
<1>7. SumOver(data, 1..0) = 0
  <2>1. 1..0 = {} /\ {} \in SUBSET (1..n)
    OBVIOUS
  <2>2. SumOver(data, {}) = 0
    BY <1>1, <2>1, SumStep
  <2> QED BY <2>1, <2>2
<1> QED BY <1>3, <1>5, <1>6, <1>7

LEMMA ShortTotals ==
    ASSUME NEW n \in Nat, NEW data \in [1..n -> Int]
    PROVE  /\ n = 3 => Total(data) = data[1] + data[2] + data[3]
           /\ n = 4 => Total(data) = data[1] + data[2] + data[3] + data[4]
           /\ n = 5 => Total(data) = data[1] + data[2] + data[3] + data[4] + data[5]
           /\ n = 6 => Total(data) = data[1] + data[2] + data[3] + data[4] + data[5] + data[6]
<1> DEFINE t(k) == SumOver(data, 1..k)
<1>1. /\ Total(data) = t(n) /\ t(0) = 0
      /\ \A k \in 1..n : t(k) = data[k] + t(k - 1) /\ t(k - 1) \in Int /\ data[k] \in Int
  BY TotalSteps
<1> HIDE DEF t
<1>2. n >= 1 => t(1) = data[1] + t(0) /\ data[1] \in Int
  <2>1. n >= 1 => 1 \in 1..n /\ 1 - 1 = 0
    OBVIOUS
  <2> QED BY <1>1, <2>1
<1>3. n >= 2 => t(2) = data[2] + t(1) /\ data[2] \in Int
  <2>1. n >= 2 => 2 \in 1..n /\ 2 - 1 = 1
    OBVIOUS
  <2> QED BY <1>1, <2>1
<1>4. n >= 3 => t(3) = data[3] + t(2) /\ data[3] \in Int
  <2>1. n >= 3 => 3 \in 1..n /\ 3 - 1 = 2
    OBVIOUS
  <2> QED BY <1>1, <2>1
<1>5. n >= 4 => t(4) = data[4] + t(3) /\ data[4] \in Int
  <2>1. n >= 4 => 4 \in 1..n /\ 4 - 1 = 3
    OBVIOUS
  <2> QED BY <1>1, <2>1
<1>6. n >= 5 => t(5) = data[5] + t(4) /\ data[5] \in Int
  <2>1. n >= 5 => 5 \in 1..n /\ 5 - 1 = 4
    OBVIOUS
  <2> QED BY <1>1, <2>1
<1>7. n >= 6 => t(6) = data[6] + t(5) /\ data[6] \in Int
  <2>1. n >= 6 => 6 \in 1..n /\ 6 - 1 = 5
    OBVIOUS
  <2> QED BY <1>1, <2>1
<1>8. CASE n = 3
  BY <1>1, <1>2, <1>3, <1>4, <1>8
<1>9. CASE n = 4
  BY <1>1, <1>2, <1>3, <1>4, <1>5, <1>9
<1>10. CASE n = 5
  BY <1>1, <1>2, <1>3, <1>4, <1>5, <1>6, <1>10
<1>11. CASE n = 6
  BY <1>1, <1>2, <1>3, <1>4, <1>5, <1>6, <1>7, <1>11
<1> QED BY <1>8, <1>9, <1>10, <1>11
--------------------------------------------------------------------------------
(* ------------------------------ statistics ---------------------------- *)
(* The operands of a mode or two and then a data set.                      *)
LEMMA OneThenData ==
    ASSUME NEW mode \in Int, NEW n \in Nat, NEW data \in [1..n -> Int]
    PROVE  LET ops == Wholes(<<mode>> \o data)
           IN  /\ Len(ops) = n + 1 /\ Num(ops[1]) = mode
               /\ \A i \in 1..n : ops[i + 1] = Whole(data[i]) /\ Num(ops[i + 1]) = data[i]
<1> DEFINE t == <<mode>> \o data
<1>1. data \in Seq(Int) /\ Len(data) = n
  OBVIOUS
<1>2. <<mode>> \in Seq(Int) /\ Len(<<mode>>) = 1 /\ <<mode>>[1] = mode
  OBVIOUS
<1>3. Len(t) = n + 1 /\ t[1] = mode /\ \A i \in 1..n : t[i + 1] = data[i]
  BY <1>1, <1>2
<1> HIDE DEF t
<1>4. Len(Wholes(t)) = n + 1 /\ \A i \in 1..(n + 1) : Wholes(t)[i] = Whole(t[i])
  BY <1>3 DEF Wholes
<1>5. 1 \in 1..(n + 1) /\ \A i \in 1..n : i + 1 \in 1..(n + 1)
  OBVIOUS
<1> QED BY <1>3, <1>4, <1>5 DEF t, Whole, Num

LEMMA CategoricalSound ==
    ASSUME NEW format, NEW d \in Difficulties, NEW p \in CategoricalProblems(format, d)
    PROVE  Sound(p, PartOverPart(p.operands))
<1>0. Difficulties = 1..4
  BY DEF Difficulties
<1>1. CategoryPool[d] \subseteq Nat \ {0}
  BY <1>0 DEF CategoryPool
<1>2. PICK c \in [1..3 -> CategoryPool[d]], mode \in Difference..RelativeFrequency :
             p = CategoryQuestion(format, mode, c)
  BY DEF CategoricalProblems
<1>3. /\ c \in [1..3 -> Int]
      /\ c[1] \in Nat \ {0} /\ c[2] \in Nat \ {0} /\ c[3] \in Nat \ {0}
  BY <1>1
<1> DEFINE total == Total(c)
           answer == CASE mode = Difference -> Whole(c[1] - c[2])
                       [] mode = AllCounts -> Whole(total)
                       [] mode = RelativeFrequency -> Rational(c[1], total)
<1>4. total = c[1] + c[2] + c[3]
  BY <1>3, ShortTotals
<1> HIDE DEF total
<1>5. mode \in {0, 1, 2} /\ mode \in Int
  BY DEF Difference, RelativeFrequency
<1>6. p = Numeric("categorical_data", format, Wholes(<<mode>> \o c), answer)
  BY <1>2 DEF CategoryQuestion, total
<1>7. Fraction(answer)
  <2>1. c[1] - c[2] \in Int /\ total \in Nat \ {0} /\ total \in Int /\ c[1] \in Int
    BY <1>3, <1>4
  <2> QED BY <1>5, <2>1, WholeFraction, RationalFraction
          DEF Difference, AllCounts, RelativeFrequency
<1>8. /\ Num(p.operands[1]) = mode
      /\ Num(p.operands[2]) = c[1] /\ Num(p.operands[3]) = c[2]
  <2>1. p.operands = Wholes(<<mode>> \o c)
    BY <1>6, NumericIs
  <2> DEFINE ops == Wholes(<<mode>> \o c)
  <2>2. Num(ops[1]) = mode /\ \A i \in 1..3 : Num(ops[i + 1]) = c[i]
    <3>1. 3 \in Nat
      OBVIOUS
    <3> QED BY <1>3, <1>5, <3>1, OneThenData
  <2> HIDE DEF ops
  <2>3. Num(ops[2]) = c[1] /\ Num(ops[3]) = c[2]
    BY <2>2
  <2> QED BY <2>1, <2>2, <2>3 DEF ops
<1>9. PartOverPart(p.operands) # Nothing => PartOverPart(p.operands) # answer
  <2> SUFFICES ASSUME mode = RelativeFrequency
               PROVE  PartOverPart(p.operands) # answer
    BY <1>8 DEF PartOverPart
  <2>1. PartOverPart(p.operands) = Rational(c[1], c[2])
    BY <1>8 DEF PartOverPart
  <2>2. answer = Rational(c[1], total)
    BY DEF Difference, AllCounts, RelativeFrequency
  <2>3. /\ c[1] \in Int /\ c[1] # 0
        /\ total \in Nat \ {0} /\ c[2] \in Nat \ {0} /\ total # c[2]
    BY <1>3, <1>4
  <2>4. Rational(c[1], c[2]) # Rational(c[1], total)
    <3> SUFFICES ASSUME Rational(c[1], c[2]) = Rational(c[1], total) PROVE FALSE
      OBVIOUS
    <3>1. c[1] * total = c[1] * c[2]
      BY <2>3, CrossProducts
    <3> QED BY <2>3, <3>1
  <2> QED BY <2>1, <2>2, <2>4
<1> HIDE DEF answer
<1> QED BY <1>6, <1>7, <1>9, NumericIs DEF Sound

(* The deviations cancel, their distances do not.                          *)
LEMMA PatternIs ==
    ASSUME NEW pattern \in DeviationPatterns
    PROVE  \E n \in {4, 5, 6} :
             /\ pattern \in [1..n -> Int] /\ Len(pattern) = n
             /\ Total(pattern) = 0 /\ pattern[1] < 0
<1> DEFINE Cancels(n, a, b, c, e, f, g) ==
             /\ a \in Int /\ b \in Int /\ c \in Int /\ e \in Int /\ f \in Int /\ g \in Int /\ a < 0
             /\ \/ n = 4 /\ pattern = <<a, b, c, e>> /\ a + b + c + e = 0
                \/ n = 5 /\ pattern = <<a, b, c, e, f>> /\ a + b + c + e + f = 0
                \/ n = 6 /\ pattern = <<a, b, c, e, f, g>> /\ a + b + c + e + f + g = 0
<1>1. PICK n \in {4, 5, 6} : \E a, b, c, e, f, g : Cancels(n, a, b, c, e, f, g)
  <2>1. \/ Cancels(4, -1, -1, 1, 1, 0, 0) \/ Cancels(4, -3, -1, 1, 3, 0, 0)
        \/ Cancels(4, -2, -2, 2, 2, 0, 0) \/ Cancels(4, -4, 0, 0, 4, 0, 0)
        \/ Cancels(4, -5, -3, 3, 5, 0, 0) \/ Cancels(5, -2, -2, -1, 2, 3, 0)
        \/ Cancels(5, -4, -1, 0, 2, 3, 0) \/ Cancels(5, -3, -1, -1, 2, 3, 0)
        \/ Cancels(5, -5, -5, 0, 5, 5, 0) \/ Cancels(6, -1, -1, -1, 1, 1, 1)
        \/ Cancels(6, -3, -2, -1, 1, 2, 3) \/ Cancels(6, -2, -2, -2, 2, 2, 2)
        \/ Cancels(6, -5, -4, -3, 3, 4, 5)
    BY DEF DeviationPatterns
  <2> HIDE DEF Cancels
  <2> QED BY <2>1
<1>2. PICK a, b, c, e, f, g : Cancels(n, a, b, c, e, f, g)
  BY <1>1
<1>3. pattern \in [1..n -> Int] /\ Len(pattern) = n /\ pattern[1] < 0
  <2>1. CASE n = 4
    BY <1>2, <2>1
  <2>2. CASE n = 5
    BY <1>2, <2>2
  <2>3. CASE n = 6
    BY <1>2, <2>3
  <2> QED BY <2>1, <2>2, <2>3
<1>4. Total(pattern) = 0
  <2> DEFINE sum == Total(pattern)
  <2>1. /\ n = 4 => sum = pattern[1] + pattern[2] + pattern[3] + pattern[4]
        /\ n = 5 => sum = pattern[1] + pattern[2] + pattern[3] + pattern[4] + pattern[5]
        /\ n = 6 => sum = pattern[1] + pattern[2] + pattern[3] + pattern[4] + pattern[5]
                          + pattern[6]
    BY <1>3, n \in Nat, ShortTotals
  <2> HIDE DEF sum
  <2>2. sum = 0
    <3>1. CASE n = 4
      BY <1>2, <2>1, <3>1
    <3>2. CASE n = 5
      BY <1>2, <2>1, <3>2
    <3>3. CASE n = 6
      BY <1>2, <2>1, <3>3
    <3> QED BY <3>1, <3>2, <3>3
  <2> QED BY <2>2 DEF sum
<1> QED BY <1>3, <1>4

(* Shifted values add up to the total and the shift as many times over.   *)
LEMMA ShiftedTotal ==
    ASSUME NEW n \in Nat, NEW shift \in Int, NEW data \in [1..n -> Int],
           NEW shifted \in [1..n -> Int], \A i \in 1..n : shifted[i] = shift + data[i]
    PROVE  Total(shifted) = n * shift + Total(data)
<1> DEFINE t(k) == SumOver(data, 1..k)
           u(k) == SumOver(shifted, 1..k)
           expected(k) == k * shift + t(k)
           Fails == {k \in Nat : k <= n /\ u(k) # expected(k)}
<1>1. /\ Total(data) = t(n) /\ t(0) = 0
      /\ \A k \in 1..n : t(k) = data[k] + t(k - 1) /\ t(k - 1) \in Int
  BY TotalSteps
<1>2. /\ Total(shifted) = u(n) /\ u(0) = 0
      /\ \A k \in 1..n : u(k) = shifted[k] + u(k - 1) /\ u(k - 1) \in Int
  BY TotalSteps
<1> HIDE DEF t, u
<1>a. Total(shifted) = u(n) /\ n * shift + Total(data) = expected(n)
  BY <1>1, <1>2
<1> HIDE DEF expected
<1>3. SUFFICES ASSUME Fails # {} PROVE FALSE
  <2>1. n <= n
    OBVIOUS
  <2> QED BY <1>a, <2>1
<1>4. PICK k \in Fails : \A j \in Fails : k <= j
  BY <1>3, LeastNatural
<1>5. k # 0
  <2>1. 0 * shift = 0
    OBVIOUS
  <2> QED BY <1>1, <1>2, <2>1 DEF expected
<1>6. k \in 1..n /\ k - 1 \in Nat /\ k - 1 \notin Fails
  BY <1>4, <1>5
<1>7. u(k - 1) = (k - 1) * shift + t(k - 1) /\ t(k - 1) \in Int
  BY <1>1, <1>6 DEF expected
<1>8. u(k) = (shift + data[k]) + u(k - 1) /\ t(k) = data[k] + t(k - 1) /\ data[k] \in Int
  BY <1>1, <1>2, <1>6
<1>9. (k - 1) * shift = k * shift - shift /\ k * shift \in Int
  BY <1>6
<1>10. u(k) # k * shift + t(k)
  BY DEF expected
<1> QED BY <1>7, <1>8, <1>9, <1>10

LEMMA DeviationSound ==
    ASSUME NEW format, NEW d \in Difficulties, NEW p \in DeviationProblems(format, d)
    PROVE  Sound(p, SignedDeviation(p.operands))
<1>0. Difficulties = 1..4
  BY DEF Difficulties
<1>1. DeviationMeans[d] \subseteq Nat
  BY <1>0 DEF DeviationMeans
<1>2. PICK pattern \in DeviationPatterns, mean \in DeviationMeans[d] :
        p = Numeric("mean_absolute_deviation", format,
                    Wholes([i \in DOMAIN pattern |-> mean + pattern[i]]),
                    Rational(Total(Distances(pattern)), Len(pattern)))
  BY DEF DeviationProblems
<1>3. PICK n \in {4, 5, 6} :
        /\ pattern \in [1..n -> Int] /\ Len(pattern) = n
        /\ Total(pattern) = 0 /\ pattern[1] < 0
  BY PatternIs
<1>4. n \in Nat \ {0} /\ mean \in Int /\ DOMAIN pattern = 1..n /\ 1 \in 1..n
  BY <1>1, <1>3
<1> DEFINE values == [i \in 1..n |-> mean + pattern[i]]
           ops == Wholes(values)
           away == Total(Distances(pattern))
<1>5. values \in [1..n -> Int] /\ Len(values) = n
  BY <1>3, <1>4
<1>6. /\ Len(ops) = n /\ DOMAIN ops = 1..n
      /\ \A i \in 1..n : ops[i] = Whole(mean + pattern[i]) /\ Num(ops[i]) = values[i]
  BY <1>5 DEF Wholes, Whole, Num
<1>7. Total(values) = n * mean
  <2>1. n \in Nat /\ \A i \in 1..n : values[i] = mean + pattern[i]
    OBVIOUS
  <2>2. Total(values) = n * mean + Total(pattern)
    <3>1. pattern \in [1..n -> Int] /\ values \in [1..n -> Int] /\ mean \in Int
      BY <1>3, <1>4, <1>5
    <3> HIDE DEF values
    <3> QED BY <2>1, <3>1, ShiftedTotal, Zenon
  <2>3. n * mean \in Int
    BY <1>4
  <2> QED BY <1>3, <2>2, <2>3
<1>8. [i \in DOMAIN ops |-> Num(ops[i])] = values
  BY <1>5, <1>6
<1> HIDE DEF values
<1>9. MeanOf(ops) = Whole(mean)
  <2>1. MeanOf(ops) = Rational(n * mean, n)
    BY <1>6, <1>7, <1>8 DEF MeanOf
  <2>2. Rational(n * mean, n * 1) = Rational(mean, 1)
    BY <1>4, 1 \in Nat \ {0}, n \in Nat \ {0}, RationalScale, Zenon
  <2>3. n * 1 = n
    BY <1>4
  <2> QED BY <1>4, <2>1, <2>2, <2>3, RationalWhole
<1>10. \A i \in 1..n : Num(Minus(ops[i], MeanOf(ops))) = pattern[i]
  <2> SUFFICES ASSUME NEW i \in 1..n
               PROVE  Num(Minus(ops[i], MeanOf(ops))) = pattern[i]
    OBVIOUS
  <2> DEFINE v == mean + pattern[i]
  <2>1. v \in Int /\ v - mean = pattern[i] /\ pattern[i] \in Int
    BY <1>3, <1>4
  <2> HIDE DEF v
  <2>2. Minus(Whole(v), Whole(mean)) = Whole(v - mean)
    BY <1>4, <2>1, WholeArithmetic
  <2>3. ops[i] = Whole(v)
    BY <1>6 DEF v
  <2> QED BY <1>9, <2>1, <2>2, <2>3, WholeFraction
<1>11. [i \in DOMAIN ops |-> Num(Minus(ops[i], MeanOf(ops)))] = pattern
  BY <1>3, <1>6, <1>10
<1>12. SignedDeviation(ops) = Rational(0, n)
  BY <1>3, <1>6, <1>11 DEF SignedDeviation
<1>13. away \in Int /\ away > 0
  <2> DEFINE far == Distances(pattern)
             t(k) == SumOver(far, 1..k)
  <2>1. /\ far \in [1..n -> Int] /\ \A i \in 1..n : far[i] \in Int /\ far[i] >= 0
        /\ far[1] > 0
    BY <1>3, <1>4 DEF Distances, Magnitude
  <2> HIDE DEF far
  <2>2. /\ Total(far) = t(n) /\ Total(far) \in Int /\ t(0) = 0
        /\ \A k \in 1..n : t(k) = far[k] + t(k - 1) /\ t(k - 1) \in Int
    BY <1>4, <2>1, TotalSteps
  <2> HIDE DEF t
  <2>3. t(1) > 0
    BY <1>4, <2>1, <2>2
  <2>4. t(2) > 0 /\ t(3) > 0 /\ t(4) > 0
    <3>1. 2 \in 1..n /\ 3 \in 1..n /\ 4 \in 1..n
      OBVIOUS
    <3>2. t(2) = far[2] + t(2 - 1) /\ t(3) = far[3] + t(3 - 1) /\ t(4) = far[4] + t(4 - 1)
      BY <2>2, <3>1
    <3>3. t(1) \in Int /\ t(2) \in Int /\ t(3) \in Int
      BY <2>2, <3>1, 2 - 1 = 1, 3 - 1 = 2, 4 - 1 = 3
    <3> QED BY <2>1, <2>3, <3>1, <3>2, <3>3
  <2>5. CASE n = 4
    BY <2>2, <2>4, <2>5 DEF far
  <2>6. n >= 5 => t(5) > 0
    <3> SUFFICES ASSUME n >= 5 PROVE t(5) > 0
      OBVIOUS
    <3>0. 5 \in 1..n
      OBVIOUS
    <3>1. /\ t(5) = far[5] + t(5 - 1) /\ t(5 - 1) \in Int
          /\ far[5] \in Int /\ far[5] >= 0
      BY <2>1, <2>2, <3>0
    <3> QED BY <2>4, <3>1
  <2>7. CASE n = 5
    BY <2>2, <2>6, <2>7 DEF far
  <2>8. CASE n = 6
    <3>0. 6 \in 1..n
      BY <2>8
    <3>1. /\ t(6) = far[6] + t(6 - 1) /\ t(6 - 1) \in Int
          /\ far[6] \in Int /\ far[6] >= 0
      BY <2>1, <2>2, <3>0
    <3> QED BY <2>2, <2>6, <2>8, <3>1 DEF far
  <2> QED BY <2>5, <2>7, <2>8
<1> HIDE DEF away
<1>14. Rational(0, n) # Rational(away, n)
  <2> SUFFICES ASSUME Rational(0, n) = Rational(away, n) PROVE FALSE
    OBVIOUS
  <2>1. 0 * n = away * n
    BY <1>4, <1>13, CrossProducts
  <2> QED BY <1>4, <1>13, <2>1
<1>15. p.operands = ops /\ p.answer = Rational(away, n) /\ p.canonical = p.answer
  <2>1. values = [i \in DOMAIN pattern |-> mean + pattern[i]]
    BY <1>4 DEF values
  <2>2. p = Numeric("mean_absolute_deviation", format, ops, Rational(away, n))
    BY <1>2, <1>3, <2>1, Zenon DEF away
  <2> HIDE DEF ops
  <2> QED BY <2>2, NumericIs
<1> HIDE DEF ops
<1> QED BY <1>4, <1>12, <1>13, <1>14, <1>15, RationalFraction DEF Sound

LEMMA MinIs ==
    ASSUME NEW S \in SUBSET Nat, S # {}
    PROVE  Min(S) \in S /\ \A y \in S : Min(S) <= y
<1>1. PICK x \in S : \A y \in S : x <= y
  BY LeastNatural
<1> QED BY <1>1 DEF Min

LEMMA MaxIs ==
    ASSUME NEW b \in Nat, NEW S \in SUBSET (0..b), S # {}
    PROVE  Max(S) \in S /\ \A y \in S : y <= Max(S)
<1> DEFINE below == {b - x : x \in S}
<1>1. below \in SUBSET Nat /\ below # {}
  <2>1. \A x \in S : x \in Int /\ b - x \in Nat
    OBVIOUS
  <2>2. below # {}
    <3>1. PICK x : x \in S
      OBVIOUS
    <3> QED BY <3>1
  <2> QED BY <2>1, <2>2
<1>2. PICK least \in below : \A y \in below : least <= y
  BY <1>1, LeastNatural
<1>3. PICK x \in S : least = b - x
  OBVIOUS
<1>4. \A y \in S : y <= x
  <2> SUFFICES ASSUME NEW y \in S PROVE y <= x
    OBVIOUS
  <2>1. least <= b - y
    BY <1>2
  <2> QED BY <1>3, <2>1
<1> QED BY <1>4 DEF Max

(* Put in order, a data set keeps its values.                              *)
UpTo(data, v) == Cardinality({j \in DOMAIN data : data[j] <= v})
Reached(data, i) == {v \in Values(data) : UpTo(data, v) >= i}

LEMMA AscendingIs ==
    ASSUME NEW n \in Nat, NEW b \in Nat, NEW data \in [1..n -> 0..b]
    PROVE  Ascending(data) \in [1..n -> Values(data)]
<1>1. DOMAIN data = 1..n
  OBVIOUS
<1>2. Ascending(data) = [i \in DOMAIN data |-> Min(Reached(data, i))]
  BY Zenon DEF Ascending, Reached, UpTo, CountOf
<1>3. SUFFICES ASSUME NEW i \in 1..n PROVE Min(Reached(data, i)) \in Values(data)
  BY <1>1, <1>2
<1>4. Values(data) \in SUBSET (0..b) /\ Values(data) # {}
  BY <1>1 DEF Values
<1> DEFINE most == Max(Values(data))
<1>5. most \in Values(data) /\ \A y \in Values(data) : y <= most
  BY <1>4, MaxIs
<1> HIDE DEF most
<1>6. UpTo(data, most) = n
  <2>1. {j \in DOMAIN data : data[j] <= most} = 1..n
    BY <1>1, <1>5 DEF Values
  <2>2. Cardinality(1..n) = n
    <3>1. Cardinality(1..n) = IF 1 > n THEN 0 ELSE n - 1 + 1
      BY FS_Interval
    <3> QED BY <3>1
  <2> QED BY <2>1, <2>2 DEF UpTo
<1>7. Reached(data, i) \in SUBSET Nat /\ most \in Reached(data, i)
  BY <1>4, <1>5, <1>6 DEF Reached
<1>8. Min(Reached(data, i)) \in Reached(data, i)
  BY <1>7, MinIs
<1> QED BY <1>8 DEF Reached

(* The data of a problem that asks for one mode.                           *)
LEMMA DataIs ==
    ASSUME NEW mode \in Int, NEW n \in Nat \ {0}, NEW data \in [1..n -> Int],
           NEW p, p.operands = Wholes(<<mode>> \o data)
    PROVE  Int1(p, 1) = mode /\ Data(p, 2) = data
<1>1. /\ Len(p.operands) = n + 1 /\ Num(p.operands[1]) = mode
      /\ \A i \in 1..n : Num(p.operands[i + 1]) = data[i]
  BY OneThenData
<1>2. Arity(p) - 2 + 1 = n
  BY <1>1 DEF Arity
<1>3. \A i \in 1..n : Int1(p, 2 + i - 1) = data[i]
  <2> SUFFICES ASSUME NEW i \in 1..n PROVE Int1(p, 2 + i - 1) = data[i]
    OBVIOUS
  <2>1. 2 + i - 1 = i + 1
    OBVIOUS
  <2> QED BY <1>1, <2>1 DEF Int1
<1>4. Data(p, 2) = data
  BY <1>2, <1>3 DEF Data
<1> QED BY <1>1, <1>4 DEF Int1

LEMMA StatPools ==
    ASSUME NEW d \in Difficulties
    PROVE  StatPool[d] \subseteq 0..40 /\ DisplayPool[d] \subseteq 0..40
<1>1. d \in 1..4
  BY DEF Difficulties
<1>2. CASE d = 1
  BY <1>2 DEF StatPool, DisplayPool
<1>3. CASE d = 2
  BY <1>3 DEF StatPool, DisplayPool
<1>4. CASE d = 3
  BY <1>4 DEF StatPool, DisplayPool
<1>5. CASE d = 4
  BY <1>5 DEF StatPool, DisplayPool
<1> QED BY <1>1, <1>2, <1>3, <1>4, <1>5

LEMMA ListIs ==
    ASSUME NEW n \in Nat \ {0}, NEW b \in Nat, NEW data \in [1..n -> 0..b]
    PROVE  /\ Len(data) = n /\ data \in [1..n -> Int]
           /\ Values(data) \in SUBSET (0..b) /\ Values(data) \in SUBSET Nat
           /\ Values(data) # {} /\ Values(data) \in SUBSET Int
           /\ \A i \in 1..n : data[i] \in Values(data)
<1>1. DOMAIN data = 1..n
  OBVIOUS
<1>2. Len(data) = n
  BY <1>1
<1>3. \A i \in 1..n : data[i] \in 0..b
  OBVIOUS
<1>4. 0..b \subseteq Nat /\ 0..b \subseteq Int
  OBVIOUS
<1>5. data \in [1..n -> Int]
  BY <1>4
<1>6. Values(data) \in SUBSET (0..b) /\ \A i \in 1..n : data[i] \in Values(data)
  BY <1>1, <1>3 DEF Values
<1>7. Values(data) # {}
  <2>1. 1 \in 1..n
    OBVIOUS
  <2> QED BY <1>6, <2>1
<1> QED BY <1>2, <1>4, <1>5, <1>6, <1>7

LEMMA StatisticIs ==
    ASSUME NEW data
    PROVE  /\ Statistic(MeanMode, data) = Rational(Total(data), Len(data))
           /\ Statistic(MedianMode, data) = Whole(Middle(Ascending(data)))
           /\ Statistic(ModeMode, data) = Whole(ClearMode(data))
           /\ Statistic(RangeMode, data) = Whole(Max(Values(data)) - Min(Values(data)))
<1> QED BY DEF Statistic, MeanMode, MedianMode, ModeMode, RangeMode

LEMMA StatDataIs ==
    ASSUME NEW pool, NEW mode, NEW data \in StatData(mode, pool)
    PROVE  /\ \E n \in 3..9 : data \in [1..n -> pool]
           /\ mode = MedianMode => Middle(data) # Middle(Ascending(data))
           /\ mode = ModeMode => HasClearMode(data)
<1>1. /\ data \in UNION {[1..n -> pool] : n \in SampleSizes}
      /\ mode = MedianMode => Middle(data) # Middle(Ascending(data))
      /\ mode = ModeMode => HasClearMode(data)
  BY DEF StatData, Lists, Sorted, MedianMode, ModeMode
<1> QED BY <1>1, SampleAssumption

LEMMA ClearModeIs ==
    ASSUME NEW data, HasClearMode(data)
    PROVE  ClearMode(data) \in Values(data)
<1>1. Commonest(data) # {}
  <2>1. Cardinality({}) = 0
    BY FS_EmptySet
  <2> QED BY <2>1 DEF HasClearMode
<1> QED BY <1>1 DEF ClearMode, Commonest

LEMMA SummarySound ==
    ASSUME NEW format, NEW d \in Difficulties, NEW p \in SummaryProblems(format, d)
    PROVE  Sound(p, MedianWithoutOrdering(p))
<1>1. PICK mode \in MeanMode..RangeMode :
        p \in {Numeric("summary_statistics", format, Wholes(<<mode>> \o data), Statistic(mode, data)) :
                 data \in StatData(mode, StatPool[d])}
  BY DEF SummaryProblems
<1>2. PICK data \in StatData(mode, StatPool[d]) :
        p = Numeric("summary_statistics", format, Wholes(<<mode>> \o data), Statistic(mode, data))
  BY <1>1
<1>3. mode \in {0, 1, 2, 3} /\ mode \in Int
  BY DEF MeanMode, RangeMode
<1>4. PICK n \in 3..9 : data \in [1..n -> StatPool[d]]
  BY StatDataIs
<1>5. n \in Nat \ {0} /\ data \in [1..n -> 0..40] /\ 40 \in Nat
  <2>1. StatPool[d] \subseteq 0..40
    BY StatPools
  <2>2. n \in Nat \ {0} /\ 40 \in Nat
    OBVIOUS
  <2> QED BY <1>4, <2>1, <2>2, Zenon
<1>6. /\ Len(data) = n /\ data \in [1..n -> Int]
      /\ Values(data) \in SUBSET (0..40) /\ Values(data) \in SUBSET Nat
      /\ Values(data) # {} /\ Values(data) \in SUBSET Int
      /\ \A i \in 1..n : data[i] \in Values(data)
  BY <1>5, ListIs
<1>7. Len(Ascending(data)) = n /\ Ascending(data) \in [1..n -> Int]
  <2>1. Ascending(data) \in [1..n -> Values(data)]
    BY <1>5, AscendingIs
  <2>2. Ascending(data) \in [1..n -> 0..40]
    BY <1>6, <2>1, Zenon
  <2> QED BY <1>5, <2>2, ListIs
<1> DEFINE middle == Middle(data)
           ordered == Middle(Ascending(data))
<1>8. middle \in Int /\ ordered \in Int
  <2>1. n \div 2 + 1 \in 1..n
    OBVIOUS
  <2> QED BY <1>6, <1>7, <2>1 DEF Middle
<1>9. Fraction(Statistic(mode, data))
  <2>1. CASE mode = MeanMode
    <3>1. Total(data) \in Int
      BY <1>5, <1>6, TotalSteps
    <3>2. Statistic(mode, data) = Rational(Total(data), n)
      BY <1>6, <2>1, StatisticIs
    <3> QED BY <1>5, <3>1, <3>2, RationalFraction
  <2>2. CASE mode = MedianMode
    <3>1. Statistic(mode, data) = Whole(ordered)
      BY <2>2, StatisticIs
    <3> QED BY <1>8, <3>1, WholeFraction
  <2>3. CASE mode = ModeMode
    <3>1. Statistic(mode, data) = Whole(ClearMode(data))
      BY <2>3, StatisticIs
    <3>2. ClearMode(data) \in Values(data)
      BY <2>3, StatDataIs, ClearModeIs
    <3>3. ClearMode(data) \in Int
      BY <1>6, <3>2
    <3> QED BY <3>1, <3>3, WholeFraction
  <2>4. CASE mode = RangeMode
    <3>1. Statistic(mode, data) = Whole(Max(Values(data)) - Min(Values(data)))
      BY <2>4, StatisticIs
    <3>2. Max(Values(data)) \in Int /\ Min(Values(data)) \in Int
      <4>1. Max(Values(data)) \in Values(data)
        BY <1>5, <1>6, MaxIs
      <4>3. Min(Values(data)) \in Values(data)
        BY <1>6, MinIs
      <4> QED BY <1>6, <4>1, <4>3
    <3> QED BY <3>1, <3>2, WholeFraction
  <2> QED BY <1>3, <2>1, <2>2, <2>3, <2>4 DEF MeanMode, MedianMode, ModeMode, RangeMode
<1>10. /\ p.operands = Wholes(<<mode>> \o data) /\ p.answer = Statistic(mode, data)
       /\ p.canonical = p.answer
  BY <1>2, NumericIs
<1>11. Int1(p, 1) = mode /\ Data(p, 2) = data
  BY <1>3, <1>5, <1>6, <1>10, DataIs
<1>12. MedianWithoutOrdering(p) # Nothing => MedianWithoutOrdering(p) # p.answer
  <2> SUFFICES ASSUME mode = MedianMode
               PROVE  MedianWithoutOrdering(p) \in {Nothing, Whole(middle)} /\ Whole(middle) # p.answer
    BY <1>11 DEF MedianWithoutOrdering
  <2>1. MedianWithoutOrdering(p) \in {Nothing, Whole(middle)}
    BY <1>11 DEF MedianWithoutOrdering
  <2>2. p.answer = Whole(ordered)
    BY <1>10, StatisticIs
  <2>3. middle # ordered
    BY StatDataIs
  <2> HIDE DEF middle, ordered
  <2>4. Whole(middle) # Whole(ordered)
    BY <1>8, <2>3, WholesDiffer
  <2> QED BY <2>1, <2>2, <2>4
<1> QED BY <1>9, <1>10, <1>12 DEF Sound

LEMMA TwoThenData ==
    ASSUME NEW mode \in Int, NEW param \in Int, NEW n \in Nat \ {0}, NEW data \in [1..n -> Int],
           NEW p, p.operands = Wholes(<<mode, param>> \o data)
    PROVE  Int1(p, 1) = mode /\ Int1(p, 2) = param /\ Data(p, 3) = data
<1> DEFINE t == <<mode, param>> \o data
<1>1. data \in Seq(Int) /\ Len(data) = n
  OBVIOUS
<1>2. /\ <<mode, param>> \in Seq(Int) /\ Len(<<mode, param>>) = 2
      /\ <<mode, param>>[1] = mode /\ <<mode, param>>[2] = param
  OBVIOUS
<1>3. Len(t) = n + 2 /\ t[1] = mode /\ t[2] = param /\ \A i \in 1..n : t[i + 2] = data[i]
  BY <1>1, <1>2
<1> HIDE DEF t
<1>4. Len(Wholes(t)) = n + 2 /\ \A i \in 1..(n + 2) : Wholes(t)[i] = Whole(t[i])
  BY <1>3 DEF Wholes
<1>5. 1 \in 1..(n + 2) /\ 2 \in 1..(n + 2) /\ \A i \in 1..n : i + 2 \in 1..(n + 2)
  OBVIOUS
<1>6. /\ Len(p.operands) = n + 2 /\ Num(p.operands[1]) = mode /\ Num(p.operands[2]) = param
      /\ \A i \in 1..n : Num(p.operands[i + 2]) = data[i]
  <2>1. \A x : Num(Whole(x)) = x
    BY DEF Whole, Num
  <2>2. p.operands = Wholes(t)
    BY DEF t
  <2>3. /\ Num(Wholes(t)[1]) = mode /\ Num(Wholes(t)[2]) = param
        /\ \A i \in 1..n : Num(Wholes(t)[i + 2]) = data[i]
    BY <1>3, <1>4, <1>5, <2>1
  <2> QED BY <1>4, <2>2, <2>3
<1>7. Arity(p) - 3 + 1 = n
  BY <1>6 DEF Arity
<1>8. \A i \in 1..n : Int1(p, 3 + i - 1) = data[i]
  <2> SUFFICES ASSUME NEW i \in 1..n PROVE Int1(p, 3 + i - 1) = data[i]
    OBVIOUS
  <2>1. 3 + i - 1 = i + 2
    OBVIOUS
  <2> QED BY <1>6, <2>1 DEF Int1
<1>9. Data(p, 3) = data
  BY <1>7, <1>8 DEF Data
<1> QED BY <1>6, <1>9 DEF Int1

LEMMA FewIndices ==
    ASSUME NEW n \in Nat, NEW S \in SUBSET (1..n)
    PROVE  IsFiniteSet(S) /\ Cardinality(S) \in Nat
<1>1. IsFiniteSet(1..n)
  BY FS_Interval
<1> QED BY <1>1, FS_Subset, FS_CardinalityType

(* One value counted for each dot falls short where a dot is repeated.     *)
LEMMA DisplayDataSound ==
    ASSUME NEW format, NEW n \in Nat \ {0}, NEW data \in [1..n -> 0..40], NEW p,
           \/ \E t \in Thresholds(data) :
                p = Numeric("data_displays", format, Wholes(<<CountAbove, t>> \o data),
                            Whole(Cardinality(Above(data, t))))
           \/ \E low \in Bins(data) :
                p = Numeric("data_displays", format, Wholes(<<BinFrequency, low>> \o data),
                            Whole(CountOf(data, LAMBDA v : low <= v /\ v <= low + BinWidth - 1)))
           \/ /\ HasClearMode(data)
              /\ p = Numeric("data_displays", format, Wholes(<<MostFrequent, 0>> \o data),
                             Whole(ClearMode(data)))
    PROVE  Sound(p, CountDistinctAbove(p))
<1>0. /\ Len(data) = n /\ data \in [1..n -> Int] /\ DOMAIN data = 1..n /\ 40 \in Nat
      /\ Values(data) \in SUBSET (0..40) /\ Values(data) \in SUBSET Nat
      /\ Values(data) # {} /\ Values(data) \in SUBSET Int
      /\ \A i \in 1..n : data[i] \in Values(data)
  <2>1. 40 \in Nat /\ DOMAIN data = 1..n
    OBVIOUS
  <2> QED BY <2>1, ListIs
<1>1. CASE \E t \in Thresholds(data) :
             p = Numeric("data_displays", format, Wholes(<<CountAbove, t>> \o data),
                         Whole(Cardinality(Above(data, t))))
  <2>1. PICK t \in Thresholds(data) :
             p = Numeric("data_displays", format, Wholes(<<CountAbove, t>> \o data),
                         Whole(Cardinality(Above(data, t))))
    BY <1>1
  <2> DEFINE dots == Cardinality(Above(data, t))
             stacks == Cardinality({data[i] : i \in Above(data, t)})
  <2>2. stacks < dots /\ t \in Int
    <3>1. t \in Min(Values(data))..(Max(Values(data)) - 1) /\ stacks < dots
      BY DEF Thresholds
    <3> QED BY <3>1
  <2>3. dots \in Nat
    <3>1. Above(data, t) \in SUBSET (1..n)
      BY <1>0 DEF Above
    <3> QED BY <3>1, FewIndices
  <2>4. stacks \in Nat
    <3>1. {data[i] : i \in Above(data, t)} \subseteq Values(data)
      BY <1>0 DEF Above
    <3>2. IsFiniteSet(Values(data))
      <4>1. IsFiniteSet(0..40)
        <5>1. 0 \in Int /\ 40 \in Int
          OBVIOUS
        <5> QED BY <5>1, FS_Interval, Zenon
      <4> QED BY <1>0, <4>1, FS_Subset
    <3>3. IsFiniteSet({data[i] : i \in Above(data, t)})
      BY <3>1, <3>2, FS_Subset
    <3> QED BY <3>3, FS_CardinalityType
  <2>5. /\ p.operands = Wholes(<<CountAbove, t>> \o data)
        /\ p.answer = Whole(dots) /\ p.canonical = p.answer
    BY <2>1, NumericIs
  <2>6. Int1(p, 1) = CountAbove /\ Int1(p, 2) = t /\ Data(p, 3) = data
    <3>1. CountAbove \in Int
      BY DEF CountAbove
    <3> QED BY <1>0, <2>2, <2>5, <3>1, TwoThenData
  <2>7. CountDistinctAbove(p) = Whole(stacks)
    BY <2>6 DEF CountDistinctAbove
  <2> HIDE DEF dots, stacks
  <2>8. Whole(stacks) # Whole(dots)
    BY <2>2, <2>3, <2>4, WholesDiffer
  <2>9. Fraction(p.answer)
    BY <2>3, <2>5, WholeFraction
  <2> QED BY <2>5, <2>7, <2>8, <2>9 DEF Sound
<1>2. ASSUME NEW mode \in {BinFrequency, MostFrequent}, NEW param \in Int, NEW a \in Int,
             p = Numeric("data_displays", format, Wholes(<<mode, param>> \o data), Whole(a))
      PROVE  Sound(p, CountDistinctAbove(p))
  <2>1. /\ p.operands = Wholes(<<mode, param>> \o data)
        /\ p.answer = Whole(a) /\ p.canonical = p.answer
    BY <1>2, NumericIs
  <2>2. mode \in Int /\ mode # CountAbove
    BY DEF CountAbove, BinFrequency, MostFrequent
  <2>3. Int1(p, 1) = mode
    BY <1>0, <2>1, <2>2, TwoThenData
  <2>4. CountDistinctAbove(p) = Nothing
    BY <2>2, <2>3 DEF CountDistinctAbove
  <2>5. Fraction(p.answer)
    BY <2>1, WholeFraction
  <2> QED BY <2>1, <2>4, <2>5 DEF Sound
<1>3. CASE \E low \in Bins(data) :
             p = Numeric("data_displays", format, Wholes(<<BinFrequency, low>> \o data),
                         Whole(CountOf(data, LAMBDA v : low <= v /\ v <= low + BinWidth - 1)))
  <2>1. PICK low \in Bins(data) :
             p = Numeric("data_displays", format, Wholes(<<BinFrequency, low>> \o data),
                         Whole(CountOf(data, LAMBDA v : low <= v /\ v <= low + BinWidth - 1)))
    BY <1>3
  <2> DEFINE inside == {i \in DOMAIN data : low <= data[i] /\ data[i] <= low + BinWidth - 1}
  <2>2. CountOf(data, LAMBDA v : low <= v /\ v <= low + BinWidth - 1) = Cardinality(inside)
    BY DEF CountOf
  <2>3. Cardinality(inside) \in Int
    <3>1. inside \in SUBSET (1..n)
      BY <1>0
    <3> QED BY <3>1, FewIndices
  <2>4. low \in Int
    <3>1. PICK v \in Values(data) : low = (v \div BinWidth) * BinWidth
      BY DEF Bins
    <3>2. v \in Int
      BY <1>0
    <3> QED BY <3>1, <3>2 DEF BinWidth
  <2> QED BY <1>2, <2>1, <2>2, <2>3, <2>4
<1>4. CASE /\ HasClearMode(data)
           /\ p = Numeric("data_displays", format, Wholes(<<MostFrequent, 0>> \o data),
                          Whole(ClearMode(data)))
  <2>1. ClearMode(data) \in Int
    BY <1>0, <1>4, ClearModeIs
  <2> QED BY <1>2, <1>4, <2>1, 0 \in Int
<1> QED BY <1>1, <1>3, <1>4

LEMMA DisplaySound ==
    ASSUME NEW format, NEW d \in Difficulties, NEW p \in DisplayProblems(format, d)
    PROVE  Sound(p, CountDistinctAbove(p))
<1> DEFINE Of1(data) == {Numeric("data_displays", format, Wholes(<<CountAbove, t>> \o data),
                                 Whole(Cardinality(Above(data, t)))) : t \in Thresholds(data)}
           Of2(data) == {Numeric("data_displays", format, Wholes(<<BinFrequency, low>> \o data),
               Whole(CountOf(data, LAMBDA v : low <= v /\ v <= low + BinWidth - 1))) :
                           low \in Bins(data)}
           Of3(data) == IF HasClearMode(data)
                        THEN {Numeric("data_displays", format, Wholes(<<MostFrequent, 0>> \o data),
                                      Whole(ClearMode(data)))}
                        ELSE {}
<1>1. \E data \in DisplayData(DisplayPool[d]) : p \in Of1(data) \cup Of2(data) \cup Of3(data)
  BY DEF DisplayProblems
<1> HIDE DEF Of1, Of2, Of3
<1>2. PICK data \in DisplayData(DisplayPool[d]) : p \in Of1(data) \cup Of2(data) \cup Of3(data)
  BY <1>1
<1>3. PICK n \in Nat \ {0} : data \in [1..n -> 0..40]
  <2>1. data \in UNION {[1..n -> DisplayPool[d]] : n \in {k + 1 : k \in SampleSizes}}
    BY DEF DisplayData, Sorted
  <2>2. PICK k \in SampleSizes : data \in [1..(k + 1) -> DisplayPool[d]]
    BY <2>1
  <2>3. k \in 3..9
    BY SampleAssumption
  <2>4. k + 1 \in Nat \ {0}
    BY <2>3
  <2>5. DisplayPool[d] \subseteq 0..40
    BY StatPools
  <2>6. data \in [1..(k + 1) -> 0..40]
    BY <2>2, <2>5, Zenon
  <2> QED BY <2>4, <2>6, Zenon
<1>4. CASE p \in Of1(data)
  BY <1>3, <1>4, DisplayDataSound DEF Of1
<1>5. CASE p \in Of2(data)
  BY <1>3, <1>5, DisplayDataSound DEF Of2
<1>6. CASE p \in Of3(data)
  BY <1>3, <1>6, DisplayDataSound DEF Of3
<1> QED BY <1>2, <1>4, <1>5, <1>6

LEMMA SetToSeqIs ==
    ASSUME NEW S, IsFiniteSet(S)
    PROVE  SetToSeq(S) \in [1..Cardinality(S) -> S]
<1>1. PICK f \in Bijection(1..Cardinality(S), S) : TRUE
  BY FS_CardinalityType DEF ExistsBijection
<1>2. f \in [1..Cardinality(S) -> S] /\ IsInjective(f)
  BY DEF Bijection, Injection
<1> QED BY <1>2 DEF SetToSeq

LEMMA MedianFraction ==
    ASSUME NEW n \in Nat \ {0}, NEW data \in [1..n -> Int]
    PROVE  Fraction(MedianOf(data))
<1> DEFINE mid == n \div 2
<1>1. Len(data) = n
  OBVIOUS
<1>2. CASE n % 2 = 1
  <2>1. mid + 1 \in 1..n
    BY <1>2
  <2>2. data[mid + 1] \in Int
    BY <2>1
  <2>3. MedianOf(data) = Whole(data[mid + 1])
    BY <1>1, <1>2 DEF MedianOf
  <2> QED BY <2>2, <2>3, WholeFraction
<1>3. CASE n % 2 # 1
  <2>1. mid \in 1..n /\ mid + 1 \in 1..n
    BY <1>3
  <2>2. data[mid] + data[mid + 1] \in Int
    BY <2>1
  <2>3. MedianOf(data) = Rational(data[mid] + data[mid + 1], 2)
    BY <1>1, <1>3 DEF MedianOf
  <2> QED BY <2>2, <2>3, RationalFraction
<1> QED BY <1>2, <1>3

LEMMA MinusFraction ==
    ASSUME NEW r, Fraction(r), NEW s, Fraction(s)
    PROVE  Fraction(Minus(r, s))
<1>1. /\ Num(r) * Den(s) - Num(s) * Den(r) \in Int
      /\ Den(r) * Den(s) \in Nat \ {0}
  BY TimesPositive DEF Fraction
<1> QED BY <1>1, RationalFraction DEF Minus

LEMMA IqrFraction ==
    ASSUME NEW n \in 2..9, NEW data \in [1..n -> Int]
    PROVE  Fraction(Iqr(data))
<1> DEFINE half == n \div 2
           upper == n - half + 1
<1>1. Len(data) = n /\ half \in Nat \ {0} /\ half <= n /\ upper \in 1..n
  OBVIOUS
<1>2. SubSeq(data, 1, half) \in [1..half -> Int]
  <2>1. SubSeq(data, 1, half) = [i \in 1..(half - 1 + 1) |-> data[i + 1 - 1]]
    BY <1>1
  <2>2. half - 1 + 1 = half /\ \A i \in 1..half : i + 1 - 1 \in 1..n
    OBVIOUS
  <2> QED BY <2>1, <2>2
<1>3. SubSeq(data, upper, n) \in [1..half -> Int]
  <2>1. SubSeq(data, upper, n) = [i \in 1..(n - upper + 1) |-> data[i + upper - 1]]
    BY <1>1
  <2>2. n - upper + 1 = half /\ \A i \in 1..half : i + upper - 1 \in 1..n
    OBVIOUS
  <2> QED BY <2>1, <2>2
<1>4. Iqr(data) = Minus(MedianOf(SubSeq(data, upper, n)), MedianOf(SubSeq(data, 1, half)))
  BY <1>1 DEF Iqr
<1>5. /\ Fraction(MedianOf(SubSeq(data, upper, n)))
      /\ Fraction(MedianOf(SubSeq(data, 1, half)))
  <2> HIDE DEF upper, half
  <2> QED BY <1>1, <1>2, <1>3, MedianFraction
<1> HIDE DEF upper, half
<1> QED BY <1>4, <1>5, MinusFraction

SpreadAnswer(data, mode) ==
    CASE mode = CenterMedian -> MedianOf(data)
      [] mode = SpreadRange -> Whole(data[Len(data)] - data[1])
      [] mode = SpreadIqr -> Iqr(data)

LEMMA SpreadIs ==
    ASSUME NEW format, NEW d \in Difficulties, NEW p \in SpreadProblems(format, d)
    PROVE  \E n \in 4..7, top \in Nat : \E data \in [1..n -> 1..top] :
             \E mode \in CenterMedian..SpreadIqr :
               p = Numeric("center_spread_shape", format, Wholes(<<mode>> \o data),
                           SpreadAnswer(data, mode))
<1> DEFINE top == Min({SpreadValue[d], SpreadSize[d] + SpreadSlack})
           Question(data, mode) ==
             Numeric("center_spread_shape", format, Wholes(<<mode>> \o data),
                           SpreadAnswer(data, mode))
           n == SpreadSize[d]
<1>1. n \in 4..7 /\ SpreadValue[d] \in Nat
  BY DEF SpreadSize, SpreadValue, Difficulties
<1>2. top \in Nat
  <2>1. {SpreadValue[d], n + SpreadSlack} \in SUBSET Nat
    BY <1>1, SpreadAssumption
  <2> QED BY <2>1, MinIs
<1> HIDE DEF top
<1>3. PICK chosen \in kSubset(n, 1..top) :
        p \in {Question(Ascending(SetToSeq(chosen)), mode) : mode \in CenterMedian..SpreadIqr}
  BY DEF SpreadProblems, SpreadAnswer, top
<1>4. PICK mode \in CenterMedian..SpreadIqr : p = Question(Ascending(SetToSeq(chosen)), mode)
  BY <1>3
<1> HIDE DEF Question
<1> DEFINE drawn == SetToSeq(chosen)
<1>5. chosen \in SUBSET (1..top) /\ Cardinality(chosen) = n /\ IsFiniteSet(chosen)
  <2>1. chosen \in SUBSET (1..top) /\ Cardinality(chosen) = n
    BY DEF kSubset
  <2>2. IsFiniteSet(1..top)
    BY <1>2, FS_Interval
  <2> QED BY <2>1, <2>2, FS_Subset
<1>6. drawn \in [1..n -> 1..top] /\ drawn \in [1..n -> 0..top]
  <2>1. drawn \in [1..n -> chosen]
    BY <1>5, SetToSeqIs
  <2>2. drawn \in [1..n -> 1..top]
    BY <1>5, <2>1
  <2>3. 1..top \subseteq 0..top
    BY <1>2
  <2> QED BY <2>2, <2>3
<1> HIDE DEF drawn
<1>7. Ascending(drawn) \in [1..n -> 1..top]
  <2>1. Ascending(drawn) \in [1..n -> Values(drawn)]
    <3>1. n \in Nat
      BY <1>1
    <3> QED BY <1>2, <1>6, <3>1, AscendingIs
  <2>2. Values(drawn) \subseteq 1..top
    BY <1>6 DEF Values
  <2> QED BY <2>1, <2>2
<1>8. p = Question(Ascending(drawn), mode)
  BY <1>4 DEF drawn
<1> HIDE DEF n
<1> QED BY <1>1, <1>2, <1>7, <1>8 DEF Question

LEMMA SpreadSound ==
    ASSUME NEW format, NEW d \in Difficulties, NEW p \in SpreadProblems(format, d)
    PROVE  Sound(p, RangeAsSum(p))
<1>1. PICK n \in 4..7, top \in Nat : \E data \in [1..n -> 1..top] :
             \E mode \in CenterMedian..SpreadIqr :
               p = Numeric("center_spread_shape", format, Wholes(<<mode>> \o data),
                           SpreadAnswer(data, mode))
  BY SpreadIs
<1>2. PICK data \in [1..n -> 1..top], mode \in CenterMedian..SpreadIqr :
               p = Numeric("center_spread_shape", format, Wholes(<<mode>> \o data),
                           SpreadAnswer(data, mode))
  BY <1>1
<1> DEFINE answer == SpreadAnswer(data, mode)
           largest == Max(Values(data))
           least == Min(Values(data))
<1>3. mode \in {0, 1, 2} /\ mode \in Int /\ n \in Nat \ {0} /\ n \in 2..9
  BY DEF CenterMedian, SpreadIqr
<1>4. data \in [1..n -> 0..top] /\ \A i \in 1..n : data[i] >= 1
  OBVIOUS
<1>5. /\ Len(data) = n /\ data \in [1..n -> Int]
      /\ Values(data) \in SUBSET (0..top) /\ Values(data) \in SUBSET Nat
      /\ Values(data) # {} /\ Values(data) \in SUBSET Int
      /\ \A i \in 1..n : data[i] \in Values(data)
  BY <1>3, <1>4, ListIs
<1>6. p.operands = Wholes(<<mode>> \o data) /\ p.answer = answer /\ p.canonical = answer
  BY <1>2, NumericIs
<1>7. 1 \in 1..n /\ n \in 1..n
  OBVIOUS
<1>8. data[n] \in Int /\ data[1] \in Int /\ data[1] >= 1
  BY <1>4, <1>5, <1>7
<1>9. /\ mode = CenterMedian => answer = MedianOf(data)
      /\ mode = SpreadRange => answer = Whole(data[n] - data[1])
      /\ mode = SpreadIqr => answer = Iqr(data)
  BY <1>5 DEF SpreadAnswer, CenterMedian, SpreadRange, SpreadIqr
<1> HIDE DEF answer
<1>10. Fraction(answer)
  <2>1. Fraction(MedianOf(data)) /\ Fraction(Iqr(data))
    BY <1>3, <1>5, MedianFraction, IqrFraction
  <2>2. Fraction(Whole(data[n] - data[1]))
    BY <1>8, WholeFraction
  <2> QED BY <1>3, <1>9, <2>1, <2>2 DEF CenterMedian, SpreadRange, SpreadIqr
<1>11. largest \in Int /\ least \in Int /\ data[n] <= largest /\ least >= 1
  <2>1. largest \in Values(data) /\ \A y \in Values(data) : y <= largest
    BY <1>5, MaxIs
  <2>2. least \in Values(data)
    BY <1>5, MinIs
  <2>3. \A v \in Values(data) : v >= 1
    BY <1>4 DEF Values
  <2> QED BY <1>5, <1>7, <2>1, <2>2, <2>3
<1> HIDE DEF largest, least
<1>12. Int1(p, 1) = mode /\ Data(p, 2) = data
  BY <1>3, <1>5, <1>6, DataIs
<1>13. RangeAsSum(p) # Nothing => RangeAsSum(p) # answer
  <2> SUFFICES ASSUME mode = SpreadRange PROVE RangeAsSum(p) # answer
    BY <1>12 DEF RangeAsSum
  <2>1. RangeAsSum(p) = Whole(largest + least)
    BY <1>12 DEF RangeAsSum, largest, least
  <2>2. answer = Whole(data[n] - data[1])
    BY <1>9
  <2>3. /\ largest + least \in Int /\ data[n] - data[1] \in Int
        /\ largest + least # data[n] - data[1]
    BY <1>8, <1>11
  <2>4. Whole(largest + least) # Whole(data[n] - data[1])
    BY <2>3, WholesDiffer
  <2> QED BY <2>1, <2>2, <2>4
<1> QED BY <1>6, <1>10, <1>13 DEF Sound

(* --------------------------- a check register ------------------------- *)
NextEntries(amounts, register) ==
    amounts \cup {-a : a \in {a \in amounts : a < Balance(register)}}
Longer(registers, amounts) ==
    UNION {{Append(register, e) : e \in NextEntries(amounts, register)} : register \in registers}
LastOut(register, a) == Append(register, -Min({a, Balance(register)}))
Grown(start, count, amounts) ==
    CHOOSE grown : grown = [entries \in 0..(count - 1) |->
                              IF entries = 0 THEN {<<start>>}
                              ELSE Longer(grown[entries - 1], amounts)]

LEMMA RegistersAre ==
    ASSUME NEW start, NEW count, NEW amounts
    PROVE  Registers(start, count, amounts)
           = {LastOut(register, a) :
                register \in Grown(start, count, amounts)[count - 1], a \in amounts}
<1> QED BY DEF Registers, Grown, Longer, NextEntries, LastOut

LEMMA GrownSteps ==
    ASSUME NEW start, NEW count \in 2..6, NEW amounts
    PROVE  \A k \in 0..(count - 1) :
             Grown(start, count, amounts)[k]
             = IF k = 0 THEN {<<start>>}
               ELSE Longer(Grown(start, count, amounts)[k - 1], amounts)
<1> DEFINE r0 == {<<start>>}
           r1 == Longer(r0, amounts)
           r2 == Longer(r1, amounts)
           r3 == Longer(r2, amounts)
           r4 == Longer(r3, amounts)
           r5 == Longer(r4, amounts)
           r(k) == IF k = 0 THEN r0 ELSE IF k = 1 THEN r1 ELSE IF k = 2 THEN r2
                   ELSE IF k = 3 THEN r3 ELSE IF k = 4 THEN r4 ELSE r5
           f == [k \in 0..(count - 1) |-> r(k)]
           Steps(g) == g = [k \in 0..(count - 1) |-> IF k = 0 THEN {<<start>>}
                                                     ELSE Longer(g[k - 1], amounts)]
<1>1. /\ r0 = {<<start>>} /\ r1 = Longer(r0, amounts) /\ r2 = Longer(r1, amounts)
      /\ r3 = Longer(r2, amounts) /\ r4 = Longer(r3, amounts) /\ r5 = Longer(r4, amounts)
  OBVIOUS
<1> HIDE DEF r0, r1, r2, r3, r4, r5
<1>2. /\ r(0) = {<<start>>}
      /\ \A k \in 1..5 : r(k) = Longer(r(k - 1), amounts)
  <2>1. /\ r(1) = Longer(r(0), amounts) /\ r(2) = Longer(r(1), amounts)
        /\ r(3) = Longer(r(2), amounts) /\ r(4) = Longer(r(3), amounts)
        /\ r(5) = Longer(r(4), amounts) /\ r(0) = {<<start>>}
    BY <1>1
  <2> HIDE DEF r
  <2>2. 1 - 1 = 0 /\ 2 - 1 = 1 /\ 3 - 1 = 2 /\ 4 - 1 = 3 /\ 5 - 1 = 4
    OBVIOUS
  <2>3. \A k \in 1..5 : k \in {1, 2, 3, 4, 5}
    OBVIOUS
  <2> QED BY <2>1, <2>2, <2>3
<1> HIDE DEF r
<1>3. ASSUME NEW k \in 0..(count - 1)
      PROVE  f[k] = IF k = 0 THEN {<<start>>} ELSE Longer(f[k - 1], amounts)
  <2>1. CASE k = 0
    BY <1>2, <2>1
  <2>2. CASE k # 0
    <3>1. k \in 1..5 /\ k - 1 \in 0..(count - 1)
      BY <2>2
    <3> QED BY <1>2, <2>2, <3>1
  <2> QED BY <2>1, <2>2
<1>4. Steps(f)
  BY <1>3
<1>5. Grown(start, count, amounts) = CHOOSE g : Steps(g)
  BY Zenon DEF Grown
<1>6. Steps(Grown(start, count, amounts))
  <2> HIDE DEF Steps, f
  <2> QED BY <1>4, <1>5, Zenon
<1> QED BY <1>6, Zenon

LEMMA BalanceIs ==
    ASSUME NEW register \in Seq(Int)
    PROVE  Balance(register) \in Int
<1>1. Len(register) \in Nat /\ register \in [1..Len(register) -> Int]
  OBVIOUS
<1> QED BY <1>1, TotalSteps

LEMMA LongerIs ==
    ASSUME NEW registers \in SUBSET Seq(Int), NEW amounts \in SUBSET Int
    PROVE  Longer(registers, amounts) \in SUBSET Seq(Int)
<1>1. ASSUME NEW register \in registers, NEW e \in NextEntries(amounts, register)
      PROVE  Append(register, e) \in Seq(Int)
  <2>1. e \in Int
    BY DEF NextEntries
  <2> QED BY <2>1
<1> QED BY <1>1 DEF Longer

LEMMA RegisterIs ==
    ASSUME NEW d \in Difficulties, NEW register \in DrawnRegisters(d)
    PROVE  register \in Seq(Int) /\ 1 \in DOMAIN register
<1>1. PICK start \in Quarters(StartAmounts[d]), count \in EntryCounts[d] \cap RegisterLengths :
        register \in Registers(start, count, Quarters(EntryAmounts[d]))
  BY DEF DrawnRegisters
<1> DEFINE amounts == Quarters(EntryAmounts[d])
<1>2. RegisterCents \subseteq Int /\ count \in 2..6
  <2>1. RegisterCents \subseteq 0..3 /\ RegisterLengths \subseteq 2..6
    BY GeometryAssumption
  <2>2. 0..3 \subseteq Int /\ count \in RegisterLengths
    OBVIOUS
  <2> QED BY <2>1, <2>2
<1>3. StartAmounts[d] \subseteq Int /\ EntryAmounts[d] \subseteq Int
  BY DEF StartAmounts, EntryAmounts, Difficulties
<1>4. start \in Int /\ amounts \in SUBSET Int
  BY <1>2, <1>3 DEF Quarters
<1> HIDE DEF amounts
<1> DEFINE grown == Grown(start, count, amounts)
           Fails == {k \in Nat : k <= count - 1 /\ grown[k] \notin SUBSET Seq(Int)}
<1>5. \A k \in 0..(count - 1) : grown[k] = IF k = 0 THEN {<<start>>}
                                           ELSE Longer(grown[k - 1], amounts)
  BY <1>2, GrownSteps
<1> HIDE DEF grown
<1>6. Fails = {}
  <2>1. SUFFICES ASSUME Fails # {} PROVE FALSE
    OBVIOUS
  <2>2. PICK k \in Fails : \A j \in Fails : k <= j
    BY <2>1, LeastNatural
  <2>3. k \in 0..(count - 1) /\ grown[k] \notin SUBSET Seq(Int)
    BY <1>2
  <2>4. k # 0
    <3>1. <<start>> \in Seq(Int)
      BY <1>4
    <3>2. 0 \in 0..(count - 1)
      BY <1>2
    <3> QED BY <1>5, <2>3, <3>1, <3>2
  <2>5. k - 1 \in Nat /\ k - 1 <= count - 1 /\ k - 1 \notin Fails
    BY <1>2, <2>2, <2>3, <2>4
  <2>6. grown[k - 1] \in SUBSET Seq(Int)
    BY <2>5
  <2>7. grown[k] = Longer(grown[k - 1], amounts)
    BY <1>5, <2>3, <2>4
  <2> QED BY <1>4, <2>3, <2>6, <2>7, LongerIs
<1>7. grown[count - 1] \in SUBSET Seq(Int)
  BY <1>2, <1>6
<1>8. PICK before \in grown[count - 1], a \in amounts : register = LastOut(before, a)
  <2>1. register \in {LastOut(before, a) : before \in grown[count - 1], a \in amounts}
    BY <1>1, RegistersAre DEF amounts, grown
  <2> QED BY <2>1
<1>9. before \in Seq(Int) /\ a \in Int /\ Balance(before) \in Int
  BY <1>4, <1>7, BalanceIs
<1>10. Min({a, Balance(before)}) \in Int
  <2> DEFINE b == Balance(before)
  <2>1. \E x \in {a, b} : \A y \in {a, b} : x <= y
    BY <1>9
  <2> QED BY <1>9, <2>1 DEF Min
<1> DEFINE last == -Min({a, Balance(before)})
<1>11. last \in Int /\ register = Append(before, last)
  BY <1>8, <1>10 DEF LastOut
<1> HIDE DEF last
<1> QED BY <1>9, <1>11

(* Taking away twice a withdrawal moves a fraction.                        *)
LEMMA MinusMoves ==
    ASSUME NEW p \in Int, NEW q \in Nat \ {0}, NEW r, Fraction(r), Num(r) < 0
    PROVE  Minus(Rational(p, q), Times(Whole(2), r)) # Rational(p, q)
<1> DEFINE a == Num(Rational(p, q))
           b == Den(Rational(p, q))
           s == Times(Whole(2), r)
<1>1. a \in Int /\ b \in Nat \ {0} /\ Rational(p, q) = <<a, b>>
  <2>1. PICK m \in Int, n \in Nat \ {0}, g \in Nat \ {0} :
          /\ g = Gcd[<<Magnitude(p), q>>]
          /\ p = m * g /\ q = n * g
          /\ Rational(p, q) = <<m, n>>
    BY RationalIs
  <2> QED BY <2>1 DEF Num, Den
<1>2. Num(s) \in Int /\ Den(s) \in Nat \ {0} /\ Num(s) < 0
  <2>1. Num(r) \in Int /\ Den(r) \in Nat \ {0} /\ 2 * Num(r) < 0 /\ 2 * Num(r) \in Int
    BY DEF Fraction
  <2>2. s = Rational(2 * Num(r), Den(r))
    <3>1. 1 * Den(r) = Den(r)
      BY <2>1
    <3>2. Num(Whole(2)) = 2 /\ Den(Whole(2)) = 1
      BY DEF Num, Den, Whole
    <3> QED BY <3>1, <3>2 DEF Times
  <2>3. PICK m \in Int, n \in Nat \ {0}, g \in Nat \ {0} :
          /\ g = Gcd[<<Magnitude(2 * Num(r)), Den(r)>>]
          /\ 2 * Num(r) = m * g /\ Den(r) = n * g
          /\ Rational(2 * Num(r), Den(r)) = <<m, n>>
    BY <2>1, RationalIs
  <2>4. m < 0
    BY <2>1, <2>3
  <2> QED BY <2>2, <2>3, <2>4 DEF Num, Den
<1> HIDE DEF s, a, b
<1>3. SUFFICES ASSUME Minus(Rational(p, q), s) = <<a, b>> PROVE FALSE
  BY <1>1 DEF s
<1> DEFINE u == Den(s)
           t == Num(s)
           top == a * u - t * b
           bottom == b * u
<1>4. Minus(Rational(p, q), s) = Rational(top, bottom)
  BY <1>1 DEF Minus, Num, Den
<1>5. top \in Int /\ bottom \in Nat \ {0}
  BY <1>1, <1>2, TimesPositive
<1> HIDE DEF top, bottom
<1>6. PICK m \in Int, n \in Nat \ {0}, g \in Nat \ {0} :
        /\ g = Gcd[<<Magnitude(top), bottom>>]
        /\ top = m * g /\ bottom = n * g
        /\ Rational(top, bottom) = <<m, n>>
  BY <1>5, RationalIs
<1>7. m = a /\ n = b
  BY <1>3, <1>4, <1>6
<1>8. b * u = b * g /\ a * u - t * b = a * g
  BY <1>6, <1>7 DEF top, bottom
<1>9. u = g
  <2>1. b \in Nat \ {0} /\ u \in Nat \ {0} /\ g \in Nat \ {0} /\ b * u = b * g
    BY <1>1, <1>2, <1>8
  <2> HIDE DEF u
  <2>2. b * (u - g) = 0
    BY <2>1
  <2> QED BY <2>1, <2>2
<1>10. t * b = 0
  <2>1. a * u - t * b = a * u /\ a * u \in Int /\ t * b \in Int
    BY <1>1, <1>2, <1>8, <1>9
  <2> QED BY <2>1
<1> QED BY <1>1, <1>2, <1>10

LEMMA RegisterSound ==
    ASSUME NEW format, NEW d \in Difficulties, NEW p \in RegisterProblems(format, d),
           p.kind = "numeric"
    PROVE  Sound(p, WithdrawalAdded(p))
<1>1. PICK register \in DrawnRegisters(d) :
        p = Numeric("check_register", format,
                    [i \in DOMAIN register |-> Dollars(register[i])], Dollars(Balance(register)))
  <2>1. CASE format = "number_line"
    <3>1. PICK enough \in BOOLEAN :
            p = YesNo("check_register", format, "equal", Wholes(<<1, IF enough THEN 1 ELSE 0>>),
                      Whole(1))
      BY <2>1 DEF RegisterProblems
    <3> QED BY <3>1 DEF YesNo
  <2>2. CASE format # "number_line"
    BY <2>2 DEF RegisterProblems
  <2> QED BY <2>1, <2>2
<1>2. register \in Seq(Int) /\ Balance(register) \in Int
  BY RegisterIs, BalanceIs
<1> DEFINE ops == [i \in DOMAIN register |-> Dollars(register[i])]
           n == Len(register)
<1>3. p.operands = ops /\ p.answer = Dollars(Balance(register)) /\ p.canonical = p.answer
  BY <1>1, NumericIs
<1>4. /\ n \in Nat /\ Len(ops) = n
      /\ \A i \in 1..n : ops[i] = Dollars(register[i]) /\ register[i] \in Int
  BY <1>2
<1> HIDE DEF ops, n
<1>5. \A i \in 1..n : Fraction(p.operands[i])
  <2>1. 4 \in Nat \ {0}
    OBVIOUS
  <2> QED BY <1>3, <1>4, <2>1, RationalFraction DEF Dollars
<1>6. Fraction(p.answer)
  <2>1. 4 \in Nat \ {0}
    OBVIOUS
  <2> QED BY <1>2, <1>3, <2>1, RationalFraction DEF Dollars
<1> DEFINE withdrawals == {i \in 2..Arity(p) : Num(p.operands[i]) < 0}
           first == p.operands[Min(withdrawals)]
<1>7. WithdrawalAdded(p) # Nothing => WithdrawalAdded(p) # p.answer
  <2> SUFFICES ASSUME withdrawals # {}, WithdrawalAdded(p) # Nothing
               PROVE  WithdrawalAdded(p) # p.answer
    BY DEF WithdrawalAdded
  <2>1. WithdrawalAdded(p) = Minus(p.answer, Times(Whole(2), first))
    BY DEF WithdrawalAdded
  <2>2. Arity(p) = n /\ withdrawals \in SUBSET Nat /\ withdrawals \subseteq 1..n
    BY <1>3, <1>4 DEF Arity
  <2>3. Min(withdrawals) \in withdrawals
    BY <2>2, MinIs
  <2>4. Fraction(first) /\ Num(first) < 0
    BY <1>5, <2>2, <2>3
  <2> HIDE DEF first
  <2>5. 4 \in Nat \ {0}
    OBVIOUS
  <2> QED BY <1>2, <1>3, <2>1, <2>4, <2>5, MinusMoves DEF Dollars
<1> QED BY <1>3, <1>6, <1>7 DEF Sound

(* -------------------------- structured answers ------------------------ *)
LEMMA StructuredIs ==
    ASSUME NEW kc, NEW format, NEW kind, NEW operands, NEW canonical,
           NEW p, p = Structured(kc, format, kind, operands, canonical)
    PROVE  p.kc = kc /\ p.kind = kind /\ p.canonical = canonical /\ p.source = Nothing
<1> QED BY DEF Structured, Numeric

LEMMA WriteDiagnosed ==
    ASSUME NEW format, NEW d, NEW p \in WriteProblems(format, d)
    PROVE  Diagnosed(p)
<1>1. PICK op \in {"plus", "times", "minus", "over"}, c \in ExpressionConst[d] :
        p = Structured("write_expressions", format, "expression", <<>>, <<op, c>>)
  BY DEF WriteProblems
<1>2. p.kc = "write_expressions" /\ p.kind = "expression" /\ p.canonical = <<op, c>>
  BY <1>1, StructuredIs
<1> SUFFICES ASSUME NEW slip \in NamedSlips(p)
             PROVE  slip.value # p.canonical /\ slip.name \in Misconceptions(p.kc)
  BY <1>2 DEF Diagnosed
<1>3. slip \in Predicts(ReversedOperands(p.canonical), "operation", "reversed-operands")
  BY <1>2 DEF NamedSlips, ExpressionSlips
<1>4. /\ slip.value = ReversedOperands(<<op, c>>) /\ slip.value # Nothing
      /\ slip.name = "reversed-operands"
  BY <1>2, <1>3, PredictsIs
<1>5. slip.value \in {<<"minus_from", c>>, <<"over_into", c>>}
  BY <1>4 DEF ReversedOperands
<1>6. slip.value # <<op, c>>
  BY <1>5
<1>7. <<p.kc, slip.name>> \in SlipNames
  BY <1>2, <1>4 DEF SlipNames, NumberAndExpressionNames
<1> QED BY <1>2, <1>6, <1>7, NamesAreBanked

LEMMA EquivalentDiagnosed ==
    ASSUME NEW format, NEW d \in Difficulties, NEW p \in EquivalentProblems(format, d)
    PROVE  Diagnosed(p)
<1>1. PICK n \in EquivalentNum[d] \X EquivalentNum[d] :
        \/ p = [Structured("equivalent_expressions", format, "expression", <<>>,
                           <<n[1], n[1] * n[2]>>) EXCEPT !.source = n]
        \/ p = Structured("equivalent_expressions", format, "expression", <<>>,
                          <<n[1] + n[2], 0>>)
  BY DEF EquivalentProblems
<1>2. /\ p.kc = "equivalent_expressions" /\ p.kind = "expression"
      /\ \/ p.source = n /\ p.canonical = <<n[1], n[1] * n[2]>>
         \/ p.source = Nothing
  BY <1>1 DEF Structured, Numeric
<1> SUFFICES ASSUME NEW slip \in NamedSlips(p)
             PROVE  slip.value # p.canonical /\ slip.name \in Misconceptions(p.kc)
  BY <1>2 DEF Diagnosed
<1>3. slip \in Predicts(DistributiveError(p.source), "operation", "distributive-error")
  BY <1>2 DEF NamedSlips, DistributedSlips
<1>4. slip.value = p.source /\ slip.value # Nothing /\ slip.name = "distributive-error"
  BY <1>3, PredictsIs DEF DistributiveError
<1>5. p.canonical = <<n[1], n[1] * n[2]>> /\ slip.value = n
  BY <1>2, <1>4
<1>6. n[1] * n[2] # n[2]
  <2>1. EquivalentNum[d] \subseteq 2..12
    BY DEF EquivalentNum, Difficulties
  <2>2. n[1] \in 2..12 /\ n[2] \in 2..12
    BY <2>1
  <2> QED BY <2>2
<1>7. slip.value # p.canonical
  <2> DEFINE product == n[1] * n[2]
  <2>1. p.canonical[2] = product /\ slip.value[2] = n[2]
    BY <1>5
  <2> HIDE DEF product
  <2> QED BY <1>6, <2>1 DEF product
<1>8. <<p.kc, slip.name>> \in SlipNames
  BY <1>2, <1>4 DEF SlipNames, NumberAndExpressionNames
<1> QED BY <1>7, <1>8, NamesAreBanked

LEMMA InequalityDiagnosed ==
    ASSUME NEW format, NEW d, NEW p \in InequalityProblems(format, d)
    PROVE  Diagnosed(p)
<1>1. PICK relation \in Relations, bound \in InequalityBound[d] :
        p = InequalityQuestion(format, relation, bound)
  BY DEF InequalityProblems
<1>2. p.kc = "inequalities" /\ p.kind = "inequality" /\ p.canonical = <<relation, bound>>
  BY <1>1, StructuredIs DEF InequalityQuestion
<1> SUFFICES ASSUME NEW slip \in NamedSlips(p)
             PROVE  slip.value # p.canonical /\ slip.name \in Misconceptions(p.kc)
  BY <1>2 DEF Diagnosed
<1>3. slip \in Slips({FlippedInequality(p.canonical)}, "operation", "flipped-inequality")
  BY <1>2 DEF NamedSlips, InequalitySlips
<1>4. slip.value = FlippedInequality(<<relation, bound>>) /\ slip.name = "flipped-inequality"
  BY <1>2, <1>3, SlipsAre
<1>5. slip.value # p.canonical
  <2>1. FlippedInequality(<<relation, bound>>)[1] # relation
    BY DEF FlippedInequality, Relations
  <2>2. p.canonical[1] = relation
    BY <1>2
  <2> QED BY <1>4, <2>1, <2>2
<1>6. <<p.kc, slip.name>> \in SlipNames
  BY <1>2, <1>4 DEF SlipNames, PlaneAndGeometryNames
<1> QED BY <1>5, <1>6, NamesAreBanked

(* Points that a swap leaves as they are predict nothing.                  *)
LEMMA PointSlipsAre ==
    ASSUME NEW p, NEW slip \in PointSlips(p)
    PROVE  slip.value # p.canonical /\ slip.name = "coordinate-swap"
<1>1. slip.value \in PresentSet(SwappedCoordinates(p.canonical)) /\ slip.name = "coordinate-swap"
  BY SlipsAre DEF PointSlips
<1>2. slip.value = SwappedCoordinates(p.canonical) /\ slip.value # {}
  BY <1>1 DEF PresentSet
<1> QED BY <1>1, <1>2 DEF SwappedCoordinates

LEMMA PointsDiagnosed ==
    ASSUME NEW p, p.kind = "coordinate",
           p.kc \in {"coordinate_plane", "polygons_coordinate_plane", "dependent_vars"}
    PROVE  Diagnosed(p)
<1> SUFFICES ASSUME NEW slip \in NamedSlips(p)
             PROVE  /\ slip.value # p.canonical
                    /\ IF p.kc = "dependent_vars" /\ p.kind = "coordinate"
                       THEN slip.name = "coordinate-swap"
                       ELSE slip.name \in Misconceptions(p.kc)
  BY DEF Diagnosed
<1>1. slip \in PointSlips(p)
  BY DEF NamedSlips
<1>2. slip.value # p.canonical /\ slip.name = "coordinate-swap"
  BY <1>1, PointSlipsAre
<1>3. p.kc # "dependent_vars" => <<p.kc, slip.name>> \in SlipNames
  BY <1>2 DEF SlipNames, PlaneAndGeometryNames
<1> QED BY <1>2, <1>3, NamesAreBanked

LEMMA ClassifyDiagnosed ==
    ASSUME NEW format, NEW d, NEW p \in ClassifyProblems(format, d)
    PROVE  Diagnosed(p)
<1>1. PICK r \in ClassifyPool[d] :
        p = Structured("classify_number_sets", format, "number_sets", <<r>>, SetsOf(r))
  BY DEF ClassifyProblems
<1>2. p.kc = "classify_number_sets" /\ p.kind = "number_sets" /\ p.canonical = SetsOf(r)
  BY <1>1, StructuredIs
<1> SUFFICES ASSUME NEW slip \in NamedSlips(p)
             PROVE  slip.value # p.canonical /\ slip.name \in Misconceptions(p.kc)
  BY <1>2 DEF Diagnosed
<1>3. slip \in Slips(PresentSet(RationalOmitted(p.canonical)), "operation",
                     "integer-not-rational")
  BY <1>2 DEF NamedSlips, NumberSetSlips
<1>4. /\ slip.value \in PresentSet(RationalOmitted(p.canonical))
      /\ slip.name = "integer-not-rational"
  BY <1>3, SlipsAre
<1>5. "rational" \notin slip.value
  BY <1>4 DEF PresentSet, RationalOmitted
<1>6. "rational" \in p.canonical
  BY <1>2 DEF SetsOf
<1>7. <<p.kc, slip.name>> \in SlipNames
  BY <1>2, <1>4 DEF SlipNames, PlaneAndGeometryNames
<1> QED BY <1>5, <1>6, <1>7, NamesAreBanked

(* ------------------------------ all lessons --------------------------- *)
(* The lessons that are answered, in some format, in two boxes.            *)
TwoBoxed == FractionAnswers \cup WithAreas \cup InStories

(* What the verdict on a slip and the entry of the answer rest on.         *)
LessonHolds(p) ==
    /\ p.kind = "numeric" => Sound(p, Mistake(p))
    /\ p.kind \notin {"numeric", "yes_no"} => Diagnosed(p)
    /\ p.kind = "numeric" /\ p.kc \in TwoBoxed => InTwoBoxes(p, p.answer)

LEMMA LessonsHold ==
    ASSUME NEW kc \in Lessons, NEW format, NEW d \in Difficulties,
           NEW p \in GenerateProblem(kc, format, d)
    PROVE  LessonHolds(p)
<1>0. p.kc = kc /\ p.kind \in Kinds(kc)
  BY GeneratedOf DEF Of
<1> USE DEF LessonHolds, Kinds, Judged, SometimesJudged, Expressions, OnThePlane,
            TwoBoxed, FractionAnswers, WithAreas, InStories
<1>1. CASE kc = "equivalence"
  BY <1>0, <1>1, EquivalenceSound DEF GenerateProblem, Mistake
<1>2. CASE kc = "common_denominator"
  BY <1>0, <1>2, CommonDenominatorSound DEF GenerateProblem, Mistake
<1>3. CASE kc = "addition_unlike"
  BY <1>0, <1>3, AdditionSound DEF GenerateProblem, Mistake
<1>4. CASE kc = "subtraction_unlike"
  BY <1>0, <1>4, SubtractionSound DEF GenerateProblem, Mistake
<1>5. CASE kc = "number_line_placement"
  BY <1>0, <1>5, NumberLineSound DEF GenerateProblem, Mistake
<1>6. CASE kc = "multiply_fractions"
  BY <1>0, <1>6, MultiplySound DEF GenerateProblem, Mistake
<1>7. CASE kc = "divide_fractions"
  BY <1>0, <1>7, DivideSound DEF GenerateProblem, Mistake
<1>8. CASE kc = "ratio_language"
  BY <1>0, <1>8, RatioLanguageSound DEF GenerateProblem, Mistake
<1>9. CASE kc = "unit_rate"
  BY <1>0, <1>9, UnitRateSound DEF GenerateProblem, Mistake
<1>10. CASE kc = "better_buy"
  BY <1>0, <1>10
<1>11. CASE kc = "equivalent_ratios"
  BY <1>0, <1>11, EquivalentRatiosSound DEF GenerateProblem, Mistake
<1>12. CASE kc = "percent"
  BY <1>0, <1>12, PercentSound DEF GenerateProblem, Mistake
<1>13. CASE kc = "unit_conversion"
  BY <1>0, <1>13, UnitConversionSound DEF GenerateProblem, Mistake
<1>14. CASE kc = "gcf_lcm"
  BY <1>0, <1>14, GcfLcmSound DEF GenerateProblem, Mistake
<1>15. CASE kc = "multi_digit_division"
  BY <1>0, <1>15, DivisionSound DEF GenerateProblem, Mistake
<1>16. CASE kc = "decimal_operations"
  BY <1>0, <1>16, DecimalSound DEF GenerateProblem, Mistake
<1>17. CASE kc = "absolute_value"
  BY <1>0, <1>17, AbsoluteSound DEF GenerateProblem, Mistake
<1>18. CASE kc = "integer_add_subtract"
  BY <1>0, <1>18, IntegerAddSound DEF GenerateProblem, Mistake
<1>19. CASE kc = "signed_numbers"
  BY <1>0, <1>19, OppositeSound DEF GenerateProblem, Mistake
<1>20. CASE kc = "integer_multiply_divide"
  BY <1>0, <1>20, IntegerProductSound DEF GenerateProblem, Mistake
<1>21. CASE kc = "classify_number_sets"
  BY <1>0, <1>21, ClassifyDiagnosed DEF GenerateProblem
<1>22. CASE kc = "summary_statistics"
  BY <1>0, <1>22, SummarySound DEF GenerateProblem, Mistake
<1>23. CASE kc = "data_displays"
  BY <1>0, <1>23, DisplaySound DEF GenerateProblem, Mistake
<1>24. CASE kc = "categorical_data"
  BY <1>0, <1>24, CategoricalSound DEF GenerateProblem, Mistake
<1>25. CASE kc = "mean_absolute_deviation"
  BY <1>0, <1>25, DeviationSound DEF GenerateProblem, Mistake
<1>26. CASE kc = "center_spread_shape"
  BY <1>0, <1>26, SpreadSound DEF GenerateProblem, Mistake
<1>27. CASE kc = "statistical_questions"
  BY <1>0, <1>27
<1>28. CASE kc = "write_expressions"
  BY <1>0, <1>28, WriteDiagnosed DEF GenerateProblem
<1>29. CASE kc = "equivalent_expressions"
  BY <1>0, <1>29, EquivalentDiagnosed DEF GenerateProblem
<1>30. CASE kc = "inequalities"
  BY <1>0, <1>30, InequalityDiagnosed DEF GenerateProblem
<1>31. CASE kc = "evaluate_expressions"
  BY <1>0, <1>31, EvaluateSound DEF GenerateProblem, Mistake
<1>32. CASE kc = "exponents"
  BY <1>0, <1>32, ExponentSound DEF GenerateProblem, Mistake
<1>33. CASE kc = "one_step_equations"
  BY <1>0, <1>33, OneStepSound DEF GenerateProblem, Mistake
<1>34. CASE kc = "equation_solutions"
  BY <1>0, <1>34, EquationSound DEF GenerateProblem, Mistake
<1>35. CASE kc = "dependent_vars"
  BY <1>0, <1>35, DependentSound, PointsDiagnosed DEF GenerateProblem, Mistake
<1>36. CASE kc = "expression_parts"
  BY <1>0, <1>36, PartsSound DEF GenerateProblem, Mistake
<1>37. CASE kc = "triangle_properties"
  BY <1>0, <1>37, TriangleSound DEF GenerateProblem, Mistake
<1>38. CASE kc = "area_polygons"
  BY <1>0, <1>38, AreaSound DEF GenerateProblem, Mistake
<1>39. CASE kc = "volume_fractional_edges"
  BY <1>0, <1>39, VolumeSound DEF GenerateProblem, Mistake
<1>40. CASE kc = "surface_area_nets"
  BY <1>0, <1>40, SurfaceSound DEF GenerateProblem, Mistake
<1>41. CASE kc = "coordinate_plane"
  BY <1>0, <1>41, PointsDiagnosed DEF GenerateProblem
<1>42. CASE kc = "polygons_coordinate_plane"
  BY <1>0, <1>42, PointsDiagnosed DEF GenerateProblem
<1>43. CASE kc = "check_register"
  BY <1>0, <1>43, RegisterSound DEF GenerateProblem, Mistake
<1>44. CASE kc = "lifetime_income"
  BY <1>0, <1>44, IncomeSound DEF GenerateProblem, Mistake
<1> QED
  BY <1>1, <1>2, <1>3, <1>4, <1>5, <1>6, <1>7, <1>8, <1>9, <1>10, <1>11, <1>12,
     <1>13, <1>14, <1>15, <1>16, <1>17, <1>18, <1>19, <1>20, <1>21, <1>22, <1>23,
     <1>24, <1>25, <1>26, <1>27, <1>28, <1>29, <1>30, <1>31, <1>32, <1>33, <1>34,
     <1>35, <1>36, <1>37, <1>38, <1>39, <1>40, <1>41, <1>42, <1>43, <1>44
     DEF Lessons, SymbolicOnly, OnTheLine, WithAreas, InStories

LEMMA LessonDiagnosed ==
    ASSUME NEW p, LessonHolds(p)
    PROVE  Diagnosed(p)
<1>1. CASE p.kind = "numeric"
  BY <1>1, NumericDiagnosed DEF LessonHolds
<1>2. CASE p.kind = "yes_no"
  BY <1>2 DEF Diagnosed, NamedSlips
<1>3. CASE p.kind \notin {"numeric", "yes_no"}
  BY <1>3 DEF LessonHolds
<1> QED BY <1>1, <1>2, <1>3

(* No misconception is modelled where any shared piece size is right.      *)
LEMMA NoSharedSizeSlip ==
    ASSUME NEW p, p.kc = "common_denominator", p.kind = "numeric"
    PROVE  NamedSlips(p) = {}
<1> SUFFICES ASSUME NEW slip \in NamedSlips(p) PROVE FALSE
  OBVIOUS
<1>1. Mistaken(p, slip)
  BY NumericSlipsAre DEF NamedSlips
<1> QED BY <1>1 DEF Mistaken, Mistake

LEMMA MinTwo ==
    ASSUME NEW a \in Int, NEW b \in Int
    PROVE  Min({a, b}) \in Int /\ Min({a, b}) <= a /\ Min({a, b}) <= b
<1>1. \E x \in {a, b} : \A y \in {a, b} : x <= y
  OBVIOUS
<1> QED BY <1>1 DEF Min

LEMMA MaxTwo ==
    ASSUME NEW a \in Int, NEW b \in Int
    PROVE  Max({a, b}) \in Int /\ a <= Max({a, b}) /\ b <= Max({a, b})
<1>1. \E x \in {a, b} : \A y \in {a, b} : x >= y
  OBVIOUS
<1> QED BY <1>1 DEF Max

LEMMA FloorIs ==
    ASSUME NEW a \in Int, NEW b \in Nat \ {0}
    PROVE  a \div b \in Int /\ (a \div b) * b <= a
<1> QED OBVIOUS

(* The line is drawn to hold the answer, in ticks of its denominator.      *)
LEMMA AnswerOnTick ==
    ASSUME NEW p, Fraction(p.answer)
    PROVE  OnTick(p, p.answer)
<1> DEFINE a == Num(p.answer)
           b == Den(p.answer)
           lower == a \div b
           upper == -((-a) \div b)
           start == Min({0, lower})
           end == Max({1, upper})
<1>1. a \in Int /\ -a \in Int /\ b \in Nat \ {0}
  BY DEF Fraction
<1>2. lower \in Int /\ lower * b <= a
  BY <1>1, FloorIs
<1>3. (-a) \div b \in Int /\ ((-a) \div b) * b <= -a
  BY <1>1, FloorIs
<1>4. upper \in Int /\ a <= upper * b
  BY <1>1, <1>3
<1> HIDE DEF a, b, lower, upper
<1>5. start \in Int /\ start <= lower
  BY <1>2, MinTwo, 0 \in Int
<1>6. end \in Int /\ upper <= end
  BY <1>4, MaxTwo, 1 \in Int
<1> HIDE DEF start, end
<1>7. start * b <= a
  <2>1. start * b <= lower * b
    BY <1>1, <1>2, <1>5
  <2> QED BY <1>1, <1>2, <1>5, <2>1
<1>8. a <= end * b
  <2>1. upper * b <= end * b
    BY <1>1, <1>4, <1>6
  <2> QED BY <1>1, <1>4, <1>6, <2>1
<1>9. b % b = 0
  BY <1>1
<1>10. AxisMin(p) = start /\ AxisMax(p) = end
  BY DEF AxisMin, AxisMax, start, end, lower, upper, a, b
<1>11. /\ Num(Whole(start)) = start /\ Den(Whole(start)) = 1
       /\ Num(Whole(end)) = end /\ Den(Whole(end)) = 1
  BY <1>5, <1>6, WholeFraction
<1>12. ~Below(p.answer, Whole(start))
  <2>1. Below(p.answer, Whole(start)) <=> a * 1 < start * b
    BY <1>11 DEF Below, a, b
  <2> QED BY <1>1, <1>5, <1>7, <2>1
<1>13. ~Below(Whole(end), p.answer)
  <2>1. Below(Whole(end), p.answer) <=> end * b < a * 1
    BY <1>11 DEF Below, a, b
  <2> QED BY <1>1, <1>6, <1>8, <2>1
<1> QED BY <1>9, <1>10, <1>12, <1>13 DEF OnTick, b

LEMMA PlaneIsCoordinate ==
    ASSUME NEW d, NEW p \in DependentProblems("coordinate_plane", d)
    PROVE  p.kind = "coordinate"
<1>1. \E operands, points :
        p = Structured("dependent_vars", "coordinate_plane", "coordinate", operands, points)
  BY DEF DependentProblems
<1> QED BY <1>1 DEF Structured, Numeric

(* The widget a number is answered on.                                     *)
LEMMA NumericWidget ==
    ASSUME NEW kc \in Lessons, NEW format \in LiveFormats(kc), NEW d \in Difficulties,
           NEW p \in GenerateProblem(kc, format, d), p.kind = "numeric"
    PROVE  \/ SelectWidget(p) \in {"number_line", "number_entry"}
           \/ SelectWidget(p) = "fraction_editor" /\ kc \in TwoBoxed
<1>1. p.kc = kc /\ p.format = format /\ "numeric" \in Kinds(kc)
  BY GeneratedOf DEF Of
<1>2. kc \notin OnThePlane \cup Expressions \cup {"inequalities", "classify_number_sets"}
  BY <1>1 DEF Kinds, Judged, SometimesJudged, OnThePlane, Expressions
<1>3. CASE kc = "dependent_vars"
  <2>1. format \in {"symbolic", "coordinate_plane"}
    BY <1>3 DEF LiveFormats, SymbolicOnly, OnTheLine, WithAreas, InStories, OnThePlane,
                Expressions
  <2>2. format # "coordinate_plane"
    BY <1>3, PlaneIsCoordinate DEF GenerateProblem
  <2> QED BY <1>1, <1>3, <2>1, <2>2 DEF SelectWidget, WidgetId, FractionAnswers
<1>4. CASE kc \in SymbolicOnly \cup OnTheLine
  <2>1. format \in {"symbolic", "number_line"}
    BY <1>4 DEF LiveFormats, SymbolicOnly, OnTheLine, WithAreas, InStories, OnThePlane,
                Expressions
  <2>2. \/ p.format = "number_line" /\ WidgetId(p) = "number_line"
        \/ p.format = "symbolic" /\ p.kc \in FractionAnswers /\ WidgetId(p) = "fraction_editor"
        \/ p.format = "symbolic" /\ WidgetId(p) = "number_entry"
    BY <1>1, <2>1 DEF WidgetId
  <2> QED BY <1>1, <2>2 DEF SelectWidget, TwoBoxed
<1>5. CASE kc \in WithAreas \cup InStories
  <2>1. format \in {"symbolic", "area_model", "word_problem"}
    BY <1>5 DEF LiveFormats, SymbolicOnly, OnTheLine, WithAreas, InStories, OnThePlane,
                Expressions
  <2>2. WidgetId(p) \in {"fraction_editor", "number_entry", "fraction_bars", "word_problem"}
    BY <1>1, <2>1 DEF WidgetId
  <2> QED BY <1>1, <1>5, <2>2 DEF SelectWidget, TwoBoxed
<1> QED BY <1>2, <1>3, <1>4, <1>5 DEF Lessons

LEMMA AnswerFits ==
    ASSUME NEW kc \in Lessons, NEW format \in LiveFormats(kc), NEW d \in Difficulties,
           NEW p \in GenerateProblem(kc, format, d),
           p.kind \notin {"yes_no", "coordinate", "number_sets"}
    PROVE  CanEnter(p, p.canonical)
<1>1. p.kc = kc /\ p.format = format /\ p.kind \in Kinds(kc)
  BY GeneratedOf DEF Of
<1>2. CASE p.kind = "numeric"
  <2>1. p.canonical = p.answer /\ Fraction(p.answer) /\ (kc \in TwoBoxed => InTwoBoxes(p, p.answer))
    BY <1>1, <1>2, LessonsHold DEF LessonHolds, Sound
  <2>2. OnTick(p, p.answer)
    BY <2>1, AnswerOnTick
  <2>3. \/ SelectWidget(p) \in {"number_line", "number_entry"}
        \/ SelectWidget(p) = "fraction_editor" /\ InTwoBoxes(p, p.answer)
    BY <1>2, <2>1, NumericWidget
  <2> QED BY <2>1, <2>2, <2>3 DEF CanEnter
<1>3. CASE p.kind \in {"expression", "inequality"}
  <2>1. \/ kc \in Expressions \/ kc = "inequalities"
    BY <1>1, <1>3 DEF Kinds
  <2>2. format \in {"expression", "inequality"}
    BY <2>1 DEF LiveFormats, SymbolicOnly, OnTheLine, WithAreas, InStories, OnThePlane,
                Expressions
  <2>3. SelectWidget(p) \in {"expression", "inequality"}
    BY <1>1, <1>3, <2>2 DEF SelectWidget, WidgetId
  <2> QED BY <2>3 DEF CanEnter
<1> QED BY <1>1, <1>2, <1>3 DEF Kinds

(* Whatever is drawn of any generator, at any tier, in any format it is    *)
(* served in, the answer a number, an expression or an inequality asks for *)
(* can be entered on the widget the item is shown with: it is no negative  *)
(* number where there are two boxes, and a tick between the ends of the    *)
(* line where there is a line (problem_generators.py, NumberLine.tsx).     *)
THEOREM SpecRightAnswerCanBeGiven == Spec => []RightAnswerCanBeGiven
<1>1. ItemInv => RightAnswerCanBeGiven
  <2> SUFFICES ASSUME ItemInv, NEW p \in items,
                      p.kind \notin {"yes_no", "coordinate", "number_sets"}
               PROVE  CanEnter(p, p.canonical)
    BY DEF RightAnswerCanBeGiven
  <2>1. PICK kc \in Served, d \in Difficulties : \E format \in LiveFormats(kc) :
               p \in GenerateProblem(kc, format, d)
    BY DEF ItemInv, Drawn
  <2>2. kc \in Lessons
    BY ItemAssumption
  <2> QED BY <2>1, <2>2, AnswerFits
<1> QED BY <1>1, SpecItem, PTL

(* Whatever is drawn, the answer each modelled misconception makes of the  *)
(* problem is another than the right one, so that the verifier grades it   *)
(* wrong, and by a name the bank maps to the lesson (verifier.py _diagnose,*)
(* misconceptions.py).                                                     *)
THEOREM SpecSlipIsDiagnosed == Spec => []SlipIsDiagnosed
<1>1. ItemInv => SlipIsDiagnosed
  <2> SUFFICES ASSUME ItemInv, NEW p \in items, NEW slip \in NamedSlips(p)
               PROVE  LET verdict == Verify(p, slip.value)
                      IN  /\ ~verdict.correct
                          /\ IF p.kc = "dependent_vars" /\ p.kind = "coordinate"
                             THEN verdict.misconception = "coordinate-swap"
                             ELSE verdict.misconception \in Misconceptions(p.kc)
    BY DEF SlipIsDiagnosed
  <2>1. PICK kc \in Served, d \in Difficulties : \E format \in LiveFormats(kc) :
               p \in GenerateProblem(kc, format, d)
    BY DEF ItemInv, Drawn
  <2>2. PICK format \in LiveFormats(kc) : p \in GenerateProblem(kc, format, d)
    BY <2>1
  <2>3. kc \in Lessons
    BY ItemAssumption
  <2>4. Diagnosed(p)
    BY <2>2, <2>3, LessonsHold, LessonDiagnosed
  <2>5. p.kc = kc /\ p.kind \in Kinds(kc)
    BY <2>2, <2>3, GeneratedOf DEF Of
  <2>6. p.kind # "yes_no"
    BY DEF NamedSlips
  <2>7. p.kc # "common_denominator"
    <3>1. p.kc = "common_denominator" => p.kind = "numeric"
      BY <2>5 DEF Kinds, Judged, SometimesJudged, Expressions, OnThePlane
    <3> QED BY <3>1, NoSharedSizeSlip
  <2> QED BY <2>4, <2>6, <2>7, VerdictOnSlip
<1> QED BY <1>1, SpecItem, PTL

--------------------------------------------------------------------------------
(* ------------------------------ the hints ----------------------------- *)
(* A number written in lowest terms has one form only.                     *)
Lowest(w) == Rational(Num(w), Den(w)) = w

LEMMA LowestWhole ==
    ASSUME NEW n \in Int
    PROVE  Lowest(Whole(n))
<1> QED BY WholeFraction, RationalWhole DEF Lowest

LEMMA LowestRational ==
    ASSUME NEW p \in Int, NEW q \in Nat \ {0}
    PROVE  Lowest(Rational(p, q))
<1>1. PICK m \in Int, n \in Nat \ {0}, g \in Nat \ {0} :
        /\ g = Gcd[<<Magnitude(p), q>>]
        /\ p = m * g /\ q = n * g /\ Rational(p, q) = <<m, n>>
  BY RationalIs
<1>2. Rational(g * m, g * n) = Rational(m, n)
  BY RationalScale
<1>3. g * m = p /\ g * n = q
  BY <1>1
<1> QED BY <1>1, <1>2, <1>3 DEF Lowest, Num, Den

(* The answer is told by a line that reveals it or writes it as it is; a   *)
(* line is safe if it does that, or writes nothing of the answer's value.  *)
Told(step, a) == step.reveals = a \/ a \in step.writes
Hides(step, a) == \A w \in step.writes : Rational(Num(w), Den(w)) # a
Safe(step, a) == Told(step, a) \/ Hides(step, a)

(* The same, but for the decimals that the question states.                *)
Spares(step, p) ==
    \A w \in step.writes \ PosedDecimals(p) : Rational(Num(w), Den(w)) # p.answer
Careful(step, p) == Told(step, p.answer) \/ Spares(step, p)

(* No line before the first that tells the answer writes its value, unless *)
(* it repeats a decimal of the question.                                   *)
Kept(p, steps) ==
    /\ Len(steps) \in Nat \ {0} /\ DOMAIN steps = 1..Len(steps)
    /\ \A i \in DOMAIN steps :
         (\A j \in 1..i : ~Told(steps[j], p.answer)) => Spares(steps[i], p)

LEMMA SafeSays ==
    ASSUME NEW forms, NEW a, \A w \in forms : Lowest(w)
    PROVE  Safe(Says(forms), a)
<1> QED BY DEF Safe, Told, Hides, Says, Lowest

LEMMA SafeForms ==
    ASSUME NEW forms, NEW a,
           \A w \in forms : Lowest(w) \/ Rational(Num(w), Den(w)) # a
    PROVE  Safe(Says(forms), a)
<1> QED BY DEF Safe, Told, Hides, Says, Lowest

LEMMA SafeReveals ==
    ASSUME NEW forms, NEW v, NEW a, v = a \/ \A w \in forms : Lowest(w)
    PROVE  Safe(Reveals(forms, v), a)
<1> QED BY DEF Safe, Told, Hides, Reveals, Says, Lowest

LEMMA SafeIsCareful ==
    ASSUME NEW p, NEW step, Safe(step, p.answer)
    PROVE  Careful(step, p)
<1> QED BY DEF Safe, Careful, Hides, Spares

LEMMA Careful2 ==
    ASSUME NEW p, NEW x, NEW y, Careful(x, p), Careful(y, p)
    PROVE  Kept(p, <<x, y>>)
<1> QED BY DEF Kept, Careful

LEMMA Careful3 ==
    ASSUME NEW p, NEW x, NEW y, NEW z, Careful(x, p), Careful(y, p), Careful(z, p)
    PROVE  Kept(p, <<x, y, z>>)
<1> QED BY DEF Kept, Careful

LEMMA Kept1 ==
    ASSUME NEW p, NEW x, Safe(x, p.answer)
    PROVE  Kept(p, <<x>>)
<1>1. Careful(x, p)
  BY SafeIsCareful
<1> QED BY <1>1 DEF Kept, Careful

LEMMA Kept2 ==
    ASSUME NEW p, NEW x, NEW y, Safe(x, p.answer), Safe(y, p.answer)
    PROVE  Kept(p, <<x, y>>)
<1> QED BY SafeIsCareful, Careful2

LEMMA Kept3 ==
    ASSUME NEW p, NEW x, NEW y, NEW z,
           Safe(x, p.answer), Safe(y, p.answer), Safe(z, p.answer)
    PROVE  Kept(p, <<x, y, z>>)
<1> QED BY SafeIsCareful, Careful3

LEMMA Kept4 ==
    ASSUME NEW p, NEW x, NEW y, NEW z, NEW u,
           Safe(x, p.answer), Safe(y, p.answer) \/ Told(x, p.answer),
           Safe(z, p.answer), Safe(u, p.answer)
    PROVE  Kept(p, <<x, y, z, u>>)
<1>1. /\ Careful(x, p) /\ Careful(z, p) /\ Careful(u, p)
      /\ Careful(y, p) \/ Told(x, p.answer)
  BY SafeIsCareful
<1> QED BY <1>1 DEF Kept, Careful

(* The lines read out are steps of the worked example, none of which gives *)
(* the answer away, nor one before them.                                   *)
LEMMA LinesAre ==
    ASSUME NEW p, p.kc # "ratio_language",
           Len(WorkedExampleFor(p)) \in Nat \ {0},
           DOMAIN WorkedExampleFor(p) = 1..Len(WorkedExampleFor(p))
    PROVE  LET steps == WorkedExampleFor(p)
               lines == AnswerFreeLines(p)
           IN  /\ Len(lines) \in Nat /\ DOMAIN lines = 1..Len(lines)
               /\ Len(lines) = 0 => lines = <<>>
               /\ \A i \in DOMAIN lines :
                    /\ i \in DOMAIN steps /\ lines[i] = steps[i]
                    /\ \A j \in 1..i : ~Told(steps[j], p.answer)
<1> DEFINE steps == WorkedExampleFor(p)
           told == {i \in DOMAIN steps : GivesAway(steps[i], p.answer)}
           first == Min(told)
           lines == AnswerFreeLines(p)
<1>1. lines = IF told = {} THEN steps ELSE SubSeq(steps, 1, first - 1)
  BY DEF AnswerFreeLines
<1>2. \A i \in DOMAIN steps : i \notin told => ~Told(steps[i], p.answer)
  BY DEF GivesAway, Told
<1>3. told \subseteq Nat /\ told \subseteq DOMAIN steps
  OBVIOUS
<1>4. Len(steps) \in Nat \ {0} /\ DOMAIN steps = 1..Len(steps)
  OBVIOUS
<1> DEFINE Reads ==
             /\ Len(lines) \in Nat /\ DOMAIN lines = 1..Len(lines)
             /\ Len(lines) = 0 => lines = <<>>
             /\ \A i \in DOMAIN lines :
                  /\ i \in DOMAIN steps /\ lines[i] = steps[i]
                  /\ \A j \in 1..i : ~Told(steps[j], p.answer)
<1> SUFFICES Reads
  OBVIOUS
<1> HIDE DEF told, steps, lines
<1>5. CASE told = {}
  BY <1>1, <1>2, <1>4, <1>5
<1>6. CASE told # {}
  <2>1. first \in told /\ \A i \in told : first <= i
    BY <1>3, <1>6, MinIs
  <2>2. first \in 1..Len(steps)
    BY <1>3, <1>4, <2>1
  <2> HIDE DEF first
  <2>3. lines = SubSeq(steps, 1, first - 1)
    BY <1>1, <1>6
  <2>4. lines = [i \in 1..(first - 1) |-> steps[i]]
    BY <1>4, <2>2, <2>3
  <2>5. Len(lines) = first - 1 /\ DOMAIN lines = 1..(first - 1)
    BY <2>2, <2>4
  <2>6. \A j \in 1..(first - 1) : j \in DOMAIN steps /\ j \notin told
    BY <1>4, <2>1, <2>2
  <2>7. first - 1 = 0 => lines = <<>>
    BY <2>4
  <2> QED BY <1>2, <2>2, <2>4, <2>5, <2>6, <2>7
<1> QED BY <1>5, <1>6

(* The operands of most lessons: a list of whole numbers.                  *)
Integers(ops, n) ==
    /\ Len(ops) = n
    /\ \A i \in 1..n : Num(ops[i]) \in Int /\ ops[i] = Whole(Num(ops[i])) /\ Lowest(ops[i])

LEMMA IntegersAre ==
    ASSUME NEW n \in Nat, NEW s \in [1..n -> Int]
    PROVE  Integers(Wholes(s), n) /\ \A i \in 1..n : Num(Wholes(s)[i]) = s[i]
<1>1. Len(s) = n
  OBVIOUS
<1>2. Wholes(s) = [i \in 1..n |-> Whole(s[i])]
  BY <1>1 DEF Wholes
<1>3. \A i \in 1..n : Num(Whole(s[i])) = s[i] /\ s[i] \in Int /\ Lowest(Whole(s[i]))
  BY WholeFraction, LowestWhole
<1> QED BY <1>2, <1>3 DEF Integers

LEMMA Integers1 ==
    ASSUME NEW a \in Int
    PROVE  Integers(<<Whole(a)>>, 1)
<1> QED BY WholeFraction, LowestWhole DEF Integers

LEMMA Integers2 ==
    ASSUME NEW a \in Int, NEW b \in Int
    PROVE  Integers(Wholes(<<a, b>>), 2)
<1> QED BY IntegersAre, <<a, b>> \in [1..2 -> Int], 2 \in Nat

LEMMA Integers3 ==
    ASSUME NEW a \in Int, NEW b \in Int, NEW c \in Int
    PROVE  Integers(Wholes(<<a, b, c>>), 3)
<1> QED BY IntegersAre, <<a, b, c>> \in [1..3 -> Int], 3 \in Nat

LEMMA Integers4 ==
    ASSUME NEW a \in Int, NEW b \in Int, NEW c \in Int, NEW e \in Int
    PROVE  Integers(Wholes(<<a, b, c, e>>), 4)
<1> QED BY IntegersAre, <<a, b, c, e>> \in [1..4 -> Int], 4 \in Nat

LEMMA Integers5 ==
    ASSUME NEW a \in Int, NEW b \in Int, NEW c \in Int, NEW e \in Int, NEW f \in Int
    PROVE  Integers(Wholes(<<a, b, c, e, f>>), 5)
<1> QED BY IntegersAre, <<a, b, c, e, f>> \in [1..5 -> Int], 5 \in Nat

LEMMA UnitConversionKept ==
    ASSUME NEW format, NEW d \in Difficulties, NEW p \in UnitConversionProblems(format, d)
    PROVE  Kept(p, UnitConversionSteps(p))
<1>0. Difficulties = 1..4
  BY DEF Difficulties
<1>1. ConversionQuantities[d] \subseteq Int /\ ConversionFactors \subseteq Int
  BY <1>0 DEF ConversionQuantities, ConversionFactors
<1>2. PICK quantity \in ConversionQuantities[d], factor \in ConversionFactors :
        p = Numeric("unit_conversion", format, Wholes(<<quantity, factor>>),
                    Whole(quantity * factor))
  BY DEF UnitConversionProblems
<1>3. Integers(p.operands, 2)
  BY <1>1, <1>2, NumericIs, Integers2
<1> QED BY <1>3, SafeSays, SafeReveals, Kept3 DEF UnitConversionSteps, Integers

LEMMA EquivalentRatiosKept ==
    ASSUME NEW format, NEW d \in Difficulties, NEW p \in EquivalentRatiosProblems(format, d)
    PROVE  Kept(p, EquivalentRatiosSteps(p))
<1>0. Difficulties = 1..4
  BY DEF Difficulties
<1>1. RatioScales[d] \subseteq Int
  BY <1>0 DEF RatioScales
<1>2. PICK r \in (1..6) \X (1..6), k \in RatioScales[d] :
        p = Numeric("equivalent_ratios", format, Wholes(<<r[1], r[2], r[2] * k>>),
                    Whole(r[1] * k))
  BY DEF EquivalentRatiosProblems
<1>3. Integers(p.operands, 3) /\ Int1(p, 2) \in Nat \ {0}
  <2>1. r[1] \in Int /\ r[2] \in Nat \ {0} /\ r[2] \in Int /\ r[2] * k \in Int
    BY <1>1
  <2>2. p.operands = Wholes(<<r[1], r[2], r[2] * k>>)
    BY <1>2, NumericIs
  <2> QED BY <2>1, <2>2, Integers3, Wholes3 DEF Int1
<1>4. Int1(p, 1) \in Int /\ Int1(p, 2) \in Int /\ Int1(p, 3) \in Int /\ Int1(p, 3) \div Int1(p, 2) \in Int
  BY <1>3 DEF Integers, Int1
<1>5. \A n \in {Int1(p, 1), Int1(p, 2), Int1(p, 3), Int1(p, 3) \div Int1(p, 2)} : Lowest(Whole(n))
  BY <1>4, LowestWhole
<1> QED BY <1>5, SafeSays, SafeReveals, Kept3 DEF EquivalentRatiosSteps

LEMMA UnitRateKept ==
    ASSUME NEW format, NEW d \in Difficulties, NEW p \in UnitRateProblems(format, d)
    PROVE  Kept(p, UnitRateSteps(p))
<1>0. Difficulties = 1..4
  BY DEF Difficulties
<1>1. RatePool[d] \subseteq Int /\ \A c \in RateScaleCounts : c \in Int /\ c \in Nat \ {0}
  BY <1>0 DEF RatePool, RateScaleCounts
<1>2. \/ \E rate \in RatePool[d], count \in 2..6 :
           p = Numeric("unit_rate", format, Wholes(<<rate * count, count, PerOneMode>>), Whole(rate))
      \/ \E rate \in RatePool[d],
            c \in {c \in RateScaleCounts \X RateScaleCounts : c[1] # c[2]} :
           p = Numeric("unit_rate", format, Wholes(<<rate * c[1], c[1], c[2], ScaleMode>>),
                       Whole(rate * c[2]))
  BY SMTT(30) DEF UnitRateProblems
<1>3. /\ \E n \in {3, 4} : Integers(p.operands, n)
      /\ Int1(p, 2) \in Nat \ {0}
  <2>1. ASSUME NEW rate \in RatePool[d], NEW count \in 2..6,
               p = Numeric("unit_rate", format, Wholes(<<rate * count, count, PerOneMode>>), Whole(rate))
        PROVE  Integers(p.operands, 3) /\ Int1(p, 2) \in Nat \ {0}
    <3>1. rate * count \in Int /\ count \in Int /\ count \in Nat \ {0} /\ PerOneMode \in Int
      BY <1>1 DEF PerOneMode
    <3>2. p.operands = Wholes(<<rate * count, count, PerOneMode>>)
      BY <2>1, NumericIs
    <3> QED BY <3>1, <3>2, Integers3, Wholes3 DEF Int1
  <2>2. ASSUME NEW rate \in RatePool[d], NEW c \in RateScaleCounts \X RateScaleCounts,
               p = Numeric("unit_rate", format, Wholes(<<rate * c[1], c[1], c[2], ScaleMode>>),
                           Whole(rate * c[2]))
        PROVE  Integers(p.operands, 4) /\ Int1(p, 2) \in Nat \ {0}
    <3>0. rate \in Int /\ c[1] \in Int /\ c[1] \in Nat \ {0} /\ c[2] \in Int /\ ScaleMode \in Int
      BY <1>1 DEF ScaleMode
    <3>1. rate * c[1] \in Int
      BY <3>0
    <3>2. p.operands = Wholes(<<rate * c[1], c[1], c[2], ScaleMode>>)
      BY <2>2, NumericIs
    <3> QED BY <3>0, <3>1, <3>2, Integers4, Wholes4 DEF Int1
  <2> QED BY <1>2, <2>1, <2>2
<1>4. /\ Int1(p, 1) \in Int /\ Int1(p, 2) \in Nat \ {0} /\ Lowest(p.operands[3])
  BY <1>3 DEF Integers, Int1
<1>5. Over(Whole(Int1(p, 1)), Whole(Int1(p, 2))) = Rational(Int1(p, 1) * 1, 1 * Int1(p, 2))
  BY DEF Over, Whole, Num, Den
<1>6. Lowest(Over(Whole(Int1(p, 1)), Whole(Int1(p, 2))))
  <2>1. Int1(p, 1) * 1 \in Int /\ 1 * Int1(p, 2) \in Nat \ {0}
    BY <1>4
  <2> QED BY <1>5, <2>1, LowestRational
<1>7. Lowest(Whole(Int1(p, 1))) /\ Lowest(Whole(Int1(p, 2)))
  BY <1>4, LowestWhole
<1> DEFINE total == Whole(Int1(p, 1))
           count == Whole(Int1(p, 2))
           each == Over(total, count)
           third == p.operands[3]
<1>8. UnitRateSteps(p)
        = IF Arity(p) = 4
          THEN << Says({total, count}), Says({each, third}), Reveals({each, third}, p.answer) >>
          ELSE << Says({total, count}), Says({total, count}), Reveals({p.answer}, p.answer) >>
  BY DEF UnitRateSteps
<1>9. \A w \in {total, count, each, third} : Lowest(w)
  BY <1>4, <1>6, <1>7
<1> HIDE DEF total, count, each, third
<1> QED BY <1>8, <1>9, SafeSays, SafeReveals, Kept3

LEMMA PercentKept ==
    ASSUME NEW format, NEW d \in Difficulties, NEW p \in PercentProblems(format, d)
    PROVE  Kept(p, PercentSteps(p))
<1>0. Difficulties = 1..4
  BY DEF Difficulties
<1>1. /\ \A percent \in PercentPool[d] : percent \in Nat \ {0} /\ percent < 100
      /\ \A whole \in PercentWholes : whole \in Nat \ {0} /\ whole > 1
  BY <1>0 DEF PercentPool, PercentWholes
<1>2. \/ \E percent \in PercentPool[d], whole \in PercentWholes :
           p = Numeric("percent", format, Wholes(<<percent, whole, PercentOf>>),
                       Rational(percent * whole, 100))
      \/ \E pw \in PercentPool[d] \X PercentWholes :
           p = Numeric("percent", format, Wholes(<<pw[1], pw[2], FindWhole>>), Whole(pw[2]))
  BY DEF PercentProblems
<1> DEFINE Asks(percent, whole, mode) ==
             /\ p.operands = Wholes(<<percent, whole, mode>>)
             /\ p.answer \in {Rational(percent * whole, 100), Whole(whole)}
<1>3. PICK percent \in PercentPool[d], whole \in PercentWholes, mode \in {PercentOf, FindWhole} :
        Asks(percent, whole, mode)
  <2>1. ASSUME NEW percent \in PercentPool[d], NEW whole \in PercentWholes,
               p = Numeric("percent", format, Wholes(<<percent, whole, PercentOf>>),
                           Rational(percent * whole, 100))
        PROVE  Asks(percent, whole, PercentOf)
    BY <2>1, NumericIs
  <2>2. ASSUME NEW percent \in PercentPool[d], NEW whole \in PercentWholes,
               p = Numeric("percent", format, Wholes(<<percent, whole, FindWhole>>), Whole(whole))
        PROVE  Asks(percent, whole, FindWhole)
    BY <2>2, NumericIs
  <2>3. \A pw \in PercentPool[d] \X PercentWholes : pw[1] \in PercentPool[d] /\ pw[2] \in PercentWholes
    OBVIOUS
  <2> HIDE DEF Asks
  <2> QED BY <1>2, <2>1, <2>2, <2>3
<1>4. /\ percent \in Int /\ percent \in Nat \ {0} /\ percent < 100
      /\ whole \in Int /\ whole \in Nat \ {0} /\ whole > 1 /\ mode \in Int
  BY <1>1 DEF PercentOf, FindWhole
<1>5. Int1(p, 1) = percent /\ Int1(p, 2) = whole /\ Int1(p, 3) = mode
  <2>1. p.operands = Wholes(<<percent, whole, mode>>)
    BY <1>3
  <2> HIDE DEF Asks
  <2> QED BY <1>4, <2>1, Wholes3 DEF Int1
<1>6. Rational(percent, 100) # p.answer
  <2>1. Rational(percent, 100) # Whole(whole)
    BY <1>4, WholeIs
  <2>2. Rational(percent, 100) # Rational(percent * whole, 100)
    <3> SUFFICES ASSUME Rational(percent, 100) = Rational(percent * whole, 100) PROVE FALSE
      OBVIOUS
    <3> DEFINE t == percent * whole
    <3>1. t \in Int /\ t # percent
      BY <1>4
    <3> HIDE DEF t
    <3>2. percent * 100 = t * 100
      BY <1>4, <3>1, CrossProducts DEF t
    <3> QED BY <1>4, <3>1, <3>2
  <2> QED BY <1>3, <2>1, <2>2
<1> DEFINE part == (percent * whole) \div 100
           rate == <<percent, 100>>
<1>7. part \in Int
  BY <1>4
<1>8. /\ Lowest(Whole(percent)) /\ Lowest(Whole(whole)) /\ Lowest(Whole(part))
      /\ Rational(Num(rate), Den(rate)) # p.answer
  BY <1>4, <1>6, <1>7, LowestWhole DEF Num, Den
<1>9. PercentSteps(p)
        = IF mode = FindWhole
          THEN << Says({Whole(percent), rate}), Says({Whole(part), rate}),
                  Reveals({p.answer}, p.answer) >>
          ELSE << Says({Whole(percent), rate}), Says({Whole(whole), rate}),
                  Reveals({p.answer}, p.answer) >>
  BY <1>5 DEF PercentSteps
<1> HIDE DEF part, rate
<1>10. /\ Safe(Says({Whole(percent), rate}), p.answer) /\ Safe(Says({Whole(part), rate}), p.answer)
       /\ Safe(Says({Whole(whole), rate}), p.answer)
  BY <1>8, SafeForms
<1> QED BY <1>9, <1>10, SafeReveals, Kept3

LEMMA GcfLcmKept ==
    ASSUME NEW format, NEW d \in Difficulties, NEW p \in GcfLcmProblems(format, d)
    PROVE  Kept(p, GcfLcmSteps(p))
<1>0. Difficulties = 1..4
  BY DEF Difficulties
<1>1. PICK pr \in GcfLcmPairs[d], mode \in {GcfMode, LcmMode} :
             p = GcfLcmQuestion(format, pr, mode)
  BY DEF GcfLcmProblems
<1>2. pr[1] \in Int /\ pr[2] \in Int /\ mode \in Int
  BY <1>0 DEF GcfLcmPairs, GcfMode, LcmMode
<1>3. Integers(p.operands, 3)
  BY <1>1, <1>2, NumericIs, Integers3 DEF GcfLcmQuestion
<1>4. \A w \in {p.operands[1], p.operands[2]} : Lowest(w)
  BY <1>3 DEF Integers
<1> QED BY <1>4, SafeSays, SafeReveals, Kept3 DEF GcfLcmSteps

LEMMA DivisionKept ==
    ASSUME NEW format, NEW d \in Difficulties, NEW p \in DivisionProblems(format, d)
    PROVE  Kept(p, DivisionSteps(p))
<1>0. Difficulties = 1..4
  BY DEF Difficulties
<1>1. Quotients[d] \subseteq Int /\ Divisors \subseteq Int
  BY <1>0 DEF Quotients, Divisors
<1>2. PICK q \in Quotients[d], divisor \in Divisors :
        p = Numeric("multi_digit_division", format, Wholes(<<q * divisor, divisor>>), Whole(q))
  BY DEF DivisionProblems
<1>3. q * divisor \in Int /\ divisor \in Int
  BY <1>1
<1>4. Integers(p.operands, 2)
  BY <1>2, <1>3, NumericIs, Integers2
<1>5. \A w \in {p.operands[1], p.operands[2]} : Lowest(w)
  BY <1>4 DEF Integers
<1> QED BY <1>5, SafeSays, SafeReveals, Kept3 DEF DivisionSteps

(* A line of decimals that the question states.                            *)
LEMMA PosedSpares ==
    ASSUME NEW p, p.kc \in DecimalLessons, NEW forms,
           \A w \in forms : /\ IsDecimal(w)
                            /\ \E i \in DOMAIN p.operands : w = DecimalForm(p.operands[i])
    PROVE  Careful(Says(forms), p)
<1> QED BY DEF Careful, Spares, Says, PosedDecimals

LEMMA PointWritten ==
    ASSUME NEW r, Den(r) # 1
    PROVE  IsDecimal(DecimalForm(r))
<1> DEFINE unit == 10^Places(r)
           top == (Num(r) * unit) \div Den(r)
<1>1. DecimalForm(r) = <<top, unit, "decimal">>
  BY DEF DecimalForm
<1> HIDE DEF unit, top
<1> QED BY <1>1 DEF IsDecimal

LEMMA DecimalKept ==
    ASSUME NEW format, NEW d \in Difficulties, NEW p \in DecimalProblems(format, d)
    PROVE  Kept(p, DecimalSteps(p))
<1>1. PICK f, s : \E mode \in 0..3 : DecimalAsks(p, format, f, s, mode)
  BY DecimalIs
<1>2. PICK mode \in 0..3 : DecimalAsks(p, format, f, s, mode)
  BY <1>1
<1>3. /\ p.operands[1] = f /\ p.operands[2] = s
      /\ 1 \in DOMAIN p.operands /\ 2 \in DOMAIN p.operands
      /\ p.kc = "decimal_operations"
  <2>1. PICK answer : p = Decimal(format, <<f, s>>, mode, answer)
    BY <1>2 DEF DecimalAsks
  <2>2. p.operands = <<f, s>> \o <<Whole(mode)>> /\ p.kc = "decimal_operations"
    BY <2>1 DEF Decimal, Numeric
  <2>3. DOMAIN p.operands = 1..3
    BY <2>2
  <2> QED BY <2>2, <2>3, OneMore
<1>4. DecimalTerms(f) /\ DecimalTerms(s)
  BY <1>2 DEF DecimalAsks
<1>5. \A t \in {f, s} : Places(t) \in Int /\ IsDecimal(DecimalForm(t))
  <2> SUFFICES ASSUME NEW t \in {f, s} PROVE Places(t) \in Int /\ IsDecimal(DecimalForm(t))
    OBVIOUS
  <2>1. Places(t) \in Int
    BY <1>4, PlacesShift DEF DecimalTerms
  <2>2. Den(t) # 1
    BY <1>4 DEF DecimalTerms
  <2> QED BY <2>1, <2>2, PointWritten
<1>6. /\ Lowest(Whole(Places(f))) /\ Lowest(Whole(Places(s)))
      /\ Lowest(Whole(Places(f) + Places(s)))
  BY <1>5, LowestWhole
<1> DEFINE places == {Whole(Places(f)), Whole(Places(s)), Whole(Places(f) + Places(s))}
           ends == Reveals({DecimalForm(p.answer)}, p.answer)
           posed == {DecimalForm(f), DecimalForm(s)}
<1>7. DecimalSteps(p) = IF Int1(p, 3) = 0 THEN <<Says({}), Says(places), ends>>
                                          ELSE <<Says(posed), ends>>
  BY <1>3 DEF DecimalSteps
<1>8. \A w \in places : Lowest(w)
  BY <1>6
<1>9. Careful(Says(posed), p)
  <2>1. \A w \in posed : /\ IsDecimal(w)
                         /\ \E i \in DOMAIN p.operands : w = DecimalForm(p.operands[i])
    BY <1>3, <1>5
  <2>2. p.kc \in DecimalLessons
    BY <1>3 DEF DecimalLessons
  <2> HIDE DEF posed
  <2> QED BY <2>1, <2>2, PosedSpares
<1> HIDE DEF places, posed
<1>10. Careful(ends, p)
  BY SafeReveals, SafeIsCareful
<1> HIDE DEF ends
<1>11. Careful(Says({}), p) /\ Careful(Says(places), p)
  BY <1>8, SafeSays, SafeIsCareful
<1> QED BY <1>7, <1>9, <1>10, <1>11, Careful2, Careful3

LEMMA AbsoluteKept ==
    ASSUME NEW format, NEW d \in Difficulties, NEW p \in AbsoluteProblems(format, d)
    PROVE  Kept(p, AbsoluteSteps(p))
<1>0. Difficulties = 1..4
  BY DEF Difficulties
<1>1. AbsolutePool[d] \subseteq Int
  BY <1>0 DEF AbsolutePool
<1>2. PICK n \in AbsolutePool[d] : p = Numeric("absolute_value", format, <<Whole(-n)>>, Whole(n))
  BY DEF AbsoluteProblems
<1>3. -n \in Int /\ p.operands[1] = Whole(-n)
  BY <1>1, <1>2, NumericIs
<1>4. Lowest(p.operands[1])
  BY <1>3, LowestWhole
<1> QED BY <1>4, SafeSays, SafeReveals, Kept3 DEF AbsoluteSteps

LEMMA OppositeKept ==
    ASSUME NEW format, NEW d \in Difficulties, NEW p \in OppositeProblems(format, d)
    PROVE  Kept(p, OppositeSteps(p))
<1>0. Difficulties = 1..4
  BY DEF Difficulties
<1>1. OppositePool[d] \subseteq Int
  BY <1>0 DEF OppositePool
<1>2. PICK s \in Signs, m \in OppositePool[d] :
             p = Numeric("signed_numbers", format, <<Whole(s * m)>>, Whole(-s * m))
  BY DEF OppositeProblems
<1>3. s * m \in Int /\ p.operands[1] = Whole(s * m)
  BY <1>1, <1>2, NumericIs DEF Signs
<1>4. Lowest(p.operands[1])
  BY <1>3, LowestWhole
<1> QED BY <1>4, SafeSays, SafeReveals, Kept3 DEF OppositeSteps

LEMMA IntegerAddKept ==
    ASSUME NEW format, NEW d \in Difficulties, NEW p \in IntegerAddProblems(format, d)
    PROVE  Kept(p, IntegerAddSteps(p))
<1>0. Difficulties = 1..4
  BY DEF Difficulties
<1>1. IntegerPool[d] \subseteq Int
  BY <1>0 DEF IntegerPool
<1>2. PICK m \in IntegerPool[d] \X IntegerPool[d], s \in Signs :
        p = Numeric("integer_add_subtract", format, Wholes(<<s * m[1], -s * m[2]>>),
                    Whole(s * m[1] - s * m[2]))
  BY DEF IntegerAddProblems
<1>3. s * m[1] \in Int /\ -s * m[2] \in Int
  BY <1>1 DEF Signs
<1>4. Integers(p.operands, 2)
  BY <1>2, <1>3, NumericIs, Integers2
<1>5. Magnitude(Int1(p, 2)) \in Int
  BY <1>4 DEF Integers, Int1, Magnitude
<1>6. /\ \A w \in {p.operands[1]} : Lowest(w)
      /\ \A w \in {p.operands[2], Whole(Magnitude(Int1(p, 2)))} : Lowest(w)
  BY <1>4, <1>5, LowestWhole DEF Integers
<1> QED BY <1>6, SafeSays, SafeReveals, Kept3 DEF IntegerAddSteps

LEMMA IntegerProductKept ==
    ASSUME NEW format, NEW d \in Difficulties, NEW p \in IntegerProductProblems(format, d)
    PROVE  Kept(p, IntegerProductSteps(p))
<1>1. Fraction(p.answer)
  BY IntegerProductSound DEF Sound
<1>2. Magnitude(Num(p.answer)) \in Int
  BY <1>1 DEF Fraction, Magnitude
<1>3. \A w \in {Whole(Magnitude(Num(p.answer)))} : Lowest(w)
  BY <1>2, LowestWhole
<1> QED BY <1>3, SafeSays, SafeReveals, Kept3 DEF IntegerProductSteps

(* Sums, differences and products come reduced.                            *)
LEMMA LowestOf ==
    ASSUME NEW r, NEW s, Fraction(r), Fraction(s)
    PROVE  /\ Lowest(Plus(r, s)) /\ Lowest(Minus(r, s)) /\ Lowest(Times(r, s))
           /\ Fraction(Plus(r, s)) /\ Fraction(Minus(r, s)) /\ Fraction(Times(r, s))
<1> DEFINE n == Num(r)
           m == Num(s)
           a == Den(r)
           b == Den(s)
<1>1. n \in Int /\ m \in Int /\ a \in Nat \ {0} /\ b \in Nat \ {0}
  BY DEF Fraction
<1>2. /\ Plus(r, s) = Rational(n * b + m * a, a * b)
      /\ Minus(r, s) = Rational(n * b - m * a, a * b)
      /\ Times(r, s) = Rational(n * m, a * b)
  BY DEF Plus, Minus, Times
<1> HIDE DEF n, m, a, b
<1>3. n * b \in Int /\ m * a \in Int /\ n * m \in Int /\ a * b \in Nat \ {0}
  BY <1>1
<1>4. n * b + m * a \in Int /\ n * b - m * a \in Int
  BY <1>3
<1> QED BY <1>2, <1>3, <1>4, LowestRational, RationalFraction

LEMMA IntegersGive ==
    ASSUME NEW ops, NEW n \in Nat, Integers(ops, n)
    PROVE  \A i \in 1..n : Lowest(ops[i]) /\ Fraction(ops[i])
<1> QED BY WholeFraction DEF Integers

LEMMA ProperLowest ==
    ASSUME NEW d \in Difficulties, NEW f \in ProperFractions(d)
    PROVE  Lowest(f) /\ Fraction(f)
<1>1. Difficulties = 1..4
  BY DEF Difficulties
<1>2. \A q \in DenomByDifficulty[d] : q \in Nat \ {0}
  BY <1>1 DEF DenomByDifficulty
<1>3. PICK q \in DenomByDifficulty[d] : f \in {Rational(n, q) : n \in 1..(q - 1)}
  BY DEF ProperFractions
<1>4. PICK n \in 1..(q - 1) : f = Rational(n, q)
  BY <1>3
<1>5. n \in Int /\ q \in Nat \ {0}
  BY <1>2
<1> QED BY <1>4, <1>5, LowestRational, RationalFraction

LEMMA CoprimeLowest ==
    ASSUME NEW n \in Int, NEW m \in Nat \ {0}, NEW x \in Int, NEW y \in Int, x * n + y * m = 1
    PROVE  Lowest(<<n, m>>) /\ Fraction(<<n, m>>)
<1>1. PICK k \in Int, l \in Nat \ {0}, g \in Nat \ {0} :
        /\ g = Gcd[<<Magnitude(n), m>>]
        /\ n = k * g /\ m = l * g /\ Rational(n, m) = <<k, l>>
  BY RationalIs, Zenon
<1> DEFINE z == x * k + y * l
<1>2. z \in Int /\ g \in Nat \ {0}
  OBVIOUS
<1>3. g * z = 1
  <2>1. x * (k * g) + y * (l * g) = 1
    BY <1>1
  <2>2. x * (k * g) = g * (x * k) /\ y * (l * g) = g * (y * l)
    OBVIOUS
  <2>3. g * (x * k + y * l) = g * (x * k) + g * (y * l)
    OBVIOUS
  <2> QED BY <2>1, <2>2, <2>3
<1> HIDE DEF z
<1>4. g = 1
  <2> HIDE <1>1
  <2>1. z > 0
    BY <1>2, <1>3
  <2>2. g * z >= g
    BY <1>2, <2>1
  <2> QED BY <1>2, <1>3, <2>2
<1> QED BY <1>1, <1>4 DEF Lowest, Fraction, Num, Den

LEMMA EquivalenceKept ==
    ASSUME NEW format, NEW d \in Difficulties, NEW p \in EquivalenceProblems(format, d),
           p.kind = "numeric"
    PROVE  Kept(p, EquivalenceSteps(p))
<1>1. format # "word_problem"
  <2> SUFFICES ASSUME format = "word_problem" PROVE FALSE
    OBVIOUS
  <2>1. \E pr : p = YesNo("equivalence", format, "equal", pr, pr[1])
    BY DEF EquivalenceProblems
  <2> QED BY <2>1 DEF YesNo
<1>2. PICK base \in ProperFractions(d), scale \in 2..4 :
           p = [Numeric("equivalence", format, <<base>>, base)
                  EXCEPT !.givenDenominator = Den(base) * scale]
  BY <1>1, SMTT(30) DEF EquivalenceProblems
<1> DEFINE new == p.givenDenominator
           factor == new \div Den(base)
           top == Num(base) * factor
<1>3. /\ Arity(p) = 1 /\ p.operands[1] = base /\ p.answer = base
      /\ new = Den(base) * scale
  BY <1>2 DEF Numeric, Arity
<1>4. Fraction(base) /\ scale \in Nat
  BY DrawnFractions
<1>5. new \in Int /\ Den(base) \in Nat \ {0} /\ Den(base) \in Int
  BY <1>3, <1>4 DEF Fraction
<1> HIDE DEF new
<1>6. factor \in Int
  BY <1>5
<1>7. \A w \in {Whole(Den(base)), Whole(new), Whole(factor)} : Lowest(w)
  BY <1>5, <1>6, LowestWhole
<1>8. EquivalenceSteps(p) = << Says({Whole(Den(base)), Whole(new), Whole(factor)}),
                               Reveals({Whole(top), base, <<top, new>>}, base) >>
  BY <1>3 DEF EquivalenceSteps, new
<1> HIDE DEF factor, top
<1> QED BY <1>3, <1>7, <1>8, SafeSays, SafeReveals, Kept2

LEMMA CommonDenominatorKept ==
    ASSUME NEW format, NEW d \in Difficulties, NEW p \in CommonDenominatorProblems(format, d)
    PROVE  Kept(p, CommonDenominatorSteps(p))
<1>1. PICK pr \in UnlikePairs(d) : p = Numeric("common_denominator", format, pr,
                            Whole(Lcm(Den(pr[1]), Den(pr[2]))))
  BY DEF CommonDenominatorProblems
<1>2. p.operands = pr /\ p.answer = Whole(Lcm(Den(pr[1]), Den(pr[2])))
  BY <1>1 DEF Numeric
<1>3. \A f \in {pr[1], pr[2]} : Lowest(f) /\ Fraction(f)
  BY UnlikePairIs, ProperLowest
<1>4. \A w \in {pr[1], pr[2], Whole(Den(pr[1])), Whole(Den(pr[2]))} : Lowest(w)
  BY <1>3, LowestWhole DEF Fraction
<1> QED BY <1>2, <1>4, SafeSays, SafeReveals, Kept2 DEF CommonDenominatorSteps

(* Each fraction brought over the common denominator is itself, which the  *)
(* line before has written in lowest terms.                                *)
LEMMA OverTheCommon ==
    ASSUME NEW f, NEW s, Fraction(f), Fraction(s), Lowest(f), Lowest(s)
    PROVE  LET common == Lcm(Den(f), Den(s))
           IN  /\ Rational(Num(f) * (common \div Den(f)), common) = f
               /\ Rational(Num(s) * (common \div Den(s)), common) = s
               /\ common \in Int
               /\ Num(f) * (common \div Den(f)) \in Int
               /\ Num(s) * (common \div Den(s)) \in Int
<1> DEFINE a == Den(f)
           b == Den(s)
           n == Num(f)
           m == Num(s)
           common == Lcm(a, b)
<1>1. a \in Nat \ {0} /\ b \in Nat \ {0} /\ n \in Int /\ m \in Int
  BY DEF Fraction
<1>2. f = Rational(n, a) /\ s = Rational(m, b)
  BY DEF Lowest
<1> HIDE DEF a, b, n, m
<1>3. PICK g \in Nat \ {0}, k \in Nat \ {0}, l \in Nat \ {0} :
             a = k * g /\ b = l * g /\ common = k * l * g
  BY <1>1, LcmIs
<1> HIDE DEF common
<1>4. common \in Nat \ {0}
  BY <1>3
<1>5. common \div a = l /\ common \div b = k
  <2>1. (l * a) \div a = l /\ (k * b) \div b = k
    BY <1>1, ExactQuotient
  <2>2. common = l * a /\ common = k * b
    BY <1>3
  <2> QED BY <2>1, <2>2
<1>6. common = l * a /\ common = k * b /\ n * l = l * n /\ m * k = k * m
  BY <1>1, <1>3
<1>7. Rational(l * n, l * a) = Rational(n, a) /\ Rational(k * m, k * b) = Rational(m, b)
  BY <1>1, RationalScale
<1>8. n * l \in Int /\ m * k \in Int
  BY <1>1
<1> QED BY <1>2, <1>4, <1>5, <1>6, <1>7, <1>8 DEF a, b, n, m, common

LEMMA TwoFractionsKept ==
    ASSUME NEW p, NEW adding \in BOOLEAN, NEW f, NEW s,
           p.operands = <<f, s>>,
           Fraction(f), Fraction(s), Lowest(f), Lowest(s),
           p.answer = IF adding THEN Plus(f, s) ELSE Minus(f, s)
    PROVE  Kept(p, AdditionOrSubtractionSteps(p, adding))
<1> DEFINE common == Lcm(Den(f), Den(s))
           fTop == Num(f) * (common \div Den(f))
           sTop == Num(s) * (common \div Den(s))
           top  == IF adding THEN fTop + sTop ELSE fTop - sTop
           combined == Rational(top, common)
<1>1. AdditionOrSubtractionSteps(p, adding)
        = << Reveals({f, s, Whole(common)}, Whole(common)),
             Says({f, s, Whole(common), <<fTop, common>>, <<sTop, common>>}),
             Reveals({Whole(fTop), Whole(sTop), <<top, common>>}, combined),
             Reveals({<<top, common>>, combined}, combined) >>
  <2>1. p.operands[1] = f /\ p.operands[2] = s
    OBVIOUS
  <2> QED BY <2>1 DEF AdditionOrSubtractionSteps
<1>2. /\ Rational(fTop, common) = f /\ Rational(sTop, common) = s
      /\ common \in Int /\ fTop \in Int /\ sTop \in Int
  BY OverTheCommon
<1>3. combined = p.answer
  BY OverTheLcm
<1> DEFINE x == Reveals({f, s, Whole(common)}, Whole(common))
           y == Says({f, s, Whole(common), <<fTop, common>>, <<sTop, common>>})
           z == Reveals({Whole(fTop), Whole(sTop), <<top, common>>}, combined)
           u == Reveals({<<top, common>>, combined}, combined)
<1> HIDE DEF common, fTop, sTop, top, combined
<1>4. \A w \in {f, s, Whole(common)} : Lowest(w)
  BY <1>2, LowestWhole
<1>5. Safe(x, p.answer)
  BY <1>4, SafeReveals
<1>6. Safe(z, p.answer) /\ Safe(u, p.answer)
  BY <1>3, SafeReveals
<1>7. Safe(y, p.answer) \/ Told(x, p.answer)
  <2>1. CASE p.answer \in {f, s}
    <3>1. x.writes = {f, s, Whole(common)}
      BY DEF Reveals, Says
    <3> QED BY <2>1, <3>1 DEF Told
  <2>2. CASE p.answer \notin {f, s}
    <3>1. \A w \in {f, s, Whole(common), <<fTop, common>>, <<sTop, common>>} :
            Lowest(w) \/ Rational(Num(w), Den(w)) # p.answer
      BY <1>2, <1>4, <2>2 DEF Num, Den
    <3> QED BY <3>1, SafeForms
  <2> QED BY <2>1, <2>2
<1> HIDE DEF x, y, z, u
<1>8. AdditionOrSubtractionSteps(p, adding) = <<x, y, z, u>>
  BY <1>1 DEF x, y, z, u
<1> QED BY <1>5, <1>6, <1>7, <1>8, Kept4

LEMMA AdditionKept ==
    ASSUME NEW format, NEW d \in Difficulties, NEW p \in AdditionProblems(format, d)
    PROVE  Kept(p, AdditionOrSubtractionSteps(p, TRUE))
<1>1. PICK pr \in UnlikePairs(d) \cup {<<<<1, 4>>, <<1, 3>>>>} :
             p = Numeric("addition_unlike", format, pr, Plus(pr[1], pr[2]))
  BY DEF AdditionProblems, UnlikePairsSumBelowOne
<1>2. \A f \in {pr[1], pr[2]} : Lowest(f) /\ Fraction(f)
  <2>1. CASE pr \in UnlikePairs(d)
    BY <2>1, UnlikePairIs, ProperLowest
  <2>2. CASE pr = <<<<1, 4>>, <<1, 3>>>>
    <3>1. 1 * 1 + 0 * 4 = 1 /\ 1 * 1 + 0 * 3 = 1
      OBVIOUS
    <3>2. /\ Lowest(<<1, 4>>) /\ Fraction(<<1, 4>>)
          /\ Lowest(<<1, 3>>) /\ Fraction(<<1, 3>>)
      BY <3>1, CoprimeLowest
    <3> QED BY <2>2, <3>2
  <2> QED BY <2>1, <2>2
<1>3. pr = <<pr[1], pr[2]>>
  BY DEF UnlikePairs
<1>4. p.operands = <<pr[1], pr[2]>> /\ p.answer = Plus(pr[1], pr[2])
  BY <1>1, <1>3, NumericIs
<1> QED BY <1>2, <1>4, TwoFractionsKept

LEMMA SubtractionKept ==
    ASSUME NEW format, NEW d \in Difficulties, NEW p \in SubtractionProblems(format, d)
    PROVE  Kept(p, AdditionOrSubtractionSteps(p, FALSE))
<1>1. PICK pr \in UnlikePairs(d) :
             p = Numeric("subtraction_unlike", format, pr, Minus(pr[1], pr[2]))
  BY DEF SubtractionProblems, OrderedUnlikePairs
<1>2. \A f \in {pr[1], pr[2]} : Lowest(f) /\ Fraction(f)
  BY UnlikePairIs, ProperLowest
<1>3. pr = <<pr[1], pr[2]>>
  BY DEF UnlikePairs
<1>4. p.operands = <<pr[1], pr[2]>> /\ p.answer = Minus(pr[1], pr[2])
  BY <1>1, <1>3, NumericIs
<1> QED BY <1>2, <1>4, TwoFractionsKept

LEMMA NumberLineKept ==
    ASSUME NEW format, NEW d \in Difficulties, NEW p \in NumberLineProblems(format, d),
           p.kind = "numeric"
    PROVE  Kept(p, NumberLineSteps(p))
<1>1. format # "symbolic"
  <2> SUFFICES ASSUME format = "symbolic" PROVE FALSE
    OBVIOUS
  <2>1. \E ops, filler : p = YesNo("number_line_placement", format, "greater", ops, filler)
    BY DEF NumberLineProblems
  <2> QED BY <2>1 DEF YesNo
<1>2. PICK t : p = Numeric("number_line_placement", format, <<t>>, t)
  BY <1>1 DEF NumberLineProblems
<1>3. Arity(p) = 1 /\ p.operands[1] = p.answer
  BY <1>2, NumericIs DEF Arity
<1> QED BY <1>3, SafeReveals, Kept1 DEF NumberLineSteps

LEMMA EvaluateKept ==
    ASSUME NEW format, NEW d \in Difficulties, NEW p \in EvaluateProblems(format, d)
    PROVE  Kept(p, EvaluateSteps(p))
<1>0. Difficulties = 1..4
  BY DEF Difficulties
<1>1. EvalCoeff[d] \subseteq Int /\ EvalValue[d] \subseteq Int /\ EvalConst[d] \subseteq Int
  BY <1>0 DEF EvalCoeff, EvalValue, EvalConst
<1>2. PICK a \in EvalCoeff[d], x \in EvalValue[d], b \in EvalConst[d] :
        p = Numeric("evaluate_expressions", format, Wholes(<<a, x, b>>), Whole(a * x + b))
  BY DEF EvaluateProblems
<1>3. a \in Int /\ x \in Int /\ b \in Int
  BY <1>1
<1>4. Integers(p.operands, 3)
  BY <1>2, <1>3, NumericIs, Integers3
<1> DEFINE ops == p.operands
           product == Times(ops[1], ops[2])
<1>5. \A i \in 1..3 : Lowest(ops[i]) /\ Fraction(ops[i])
  BY <1>4, IntegersGive
<1>6. Lowest(product)
  BY <1>5, LowestOf
<1>7. EvaluateSteps(p)
        = << Says({ops[1], ops[2], ops[3]}), Reveals({ops[1], ops[2], product}, product),
             Reveals({ops[3], product, p.answer}, p.answer) >>
  BY DEF EvaluateSteps
<1>8. \A w \in {ops[1], ops[2], ops[3], product} : Lowest(w)
  BY <1>5, <1>6
<1> HIDE DEF product, ops
<1> QED BY <1>7, <1>8, SafeSays, SafeReveals, Kept3

LEMMA ExponentKept ==
    ASSUME NEW format, NEW d \in Difficulties, NEW p \in ExponentProblems(format, d)
    PROVE  Kept(p, ExponentSteps(p))
<1>1. \/ \E bp \in PowerPairs(d) :
           p = Numeric("exponents", format, Wholes(<<bp[1], bp[2], 0>>), Whole(bp[1]^bp[2]))
      \/ \E bp \in PowerPairs(d), k \in OrderConst, op \in {AddOp, MultiplyOp} :
           p = Numeric("exponents", format, Wholes(<<bp[1], bp[2], k, op, 1>>),
                   Whole(IF op = AddOp THEN k + bp[1]^bp[2] ELSE k * bp[1]^bp[2]))
  BY SMTT(30) DEF ExponentProblems
<1>2. ASSUME NEW bp \in PowerPairs(d)
      PROVE  bp[1] \in Int /\ bp[2] \in Int /\ Raised(bp[1], bp[2]) \in Int
  <2>1. 2 \in OrderConst
    BY DEF OrderConst
  <2> QED BY <2>1, PowerSlips
<1> DEFINE ops == p.operands
           power == Whole(Raised(Num(ops[1]), Num(ops[2])))
           Powers(n) == /\ Arity(p) = n /\ \A i \in 1..n : Lowest(ops[i])
                        /\ Lowest(power)
<1>3. Powers(3) \/ Powers(5)
  <2>1. ASSUME NEW bp \in PowerPairs(d),
               p = Numeric("exponents", format, Wholes(<<bp[1], bp[2], 0>>), Whole(bp[1]^bp[2]))
        PROVE  Powers(3)
    <3>1. bp[1] \in Int /\ bp[2] \in Int /\ Raised(bp[1], bp[2]) \in Int /\ 0 \in Int
      BY <1>2
    <3>2. ops = Wholes(<<bp[1], bp[2], 0>>)
      BY <2>1, NumericIs
    <3>3. Integers(ops, 3) /\ Num(ops[1]) = bp[1] /\ Num(ops[2]) = bp[2] /\ Len(ops) = 3
      BY <3>1, <3>2, Integers3, Wholes3
    <3>4. Lowest(power)
      BY <3>1, <3>3, LowestWhole
    <3> QED BY <3>3, <3>4 DEF Integers, Arity
  <2>2. ASSUME NEW bp \in PowerPairs(d), NEW k \in OrderConst, NEW op \in {AddOp, MultiplyOp},
               p = Numeric("exponents", format, Wholes(<<bp[1], bp[2], k, op, 1>>),
                   Whole(IF op = AddOp THEN k + bp[1]^bp[2] ELSE k * bp[1]^bp[2]))
        PROVE  Powers(5)
    <3>1. /\ bp[1] \in Int /\ bp[2] \in Int /\ Raised(bp[1], bp[2]) \in Int
          /\ k \in Int /\ op \in Int /\ 1 \in Int
      BY <1>2 DEF OrderConst, AddOp, MultiplyOp
    <3>2. ops = Wholes(<<bp[1], bp[2], k, op, 1>>)
      BY <2>2, NumericIs
    <3>3. Integers(ops, 5) /\ Num(ops[1]) = bp[1] /\ Num(ops[2]) = bp[2] /\ Len(ops) = 5
      BY <3>1, <3>2, Integers5, Wholes5
    <3>4. Lowest(power)
      BY <3>1, <3>3, LowestWhole
    <3> QED BY <3>3, <3>4 DEF Integers, Arity
  <2> HIDE DEF Powers
  <2> QED BY <1>1, <2>1, <2>2
<1>4. ExponentSteps(p)
        = IF Arity(p) = 5
          THEN << Says({ops[3], ops[1], ops[2]}), Reveals({ops[1], ops[2], power}, power),
                  Reveals({ops[3], power, p.answer}, p.answer) >>
          ELSE << Says({ops[1], ops[2]}), Says({ops[1], ops[2]}),
                  Reveals({ops[1], p.answer}, p.answer) >>
  BY DEF ExponentSteps, Raised
<1>5. Arity(p) = 3 \/ Arity(p) = 5
  BY <1>3
<1>6. /\ \A w \in {ops[1], ops[2], ops[3]} : Lowest(w)
      /\ \A w \in {ops[1], ops[2], ops[3], power} : Lowest(w)
  BY <1>3
<1> HIDE DEF ops, power
<1>7. /\ Safe(Says({ops[3], ops[1], ops[2]}), p.answer)
      /\ Safe(Says({ops[1], ops[2]}), p.answer)
      /\ Safe(Reveals({ops[1], ops[2], power}, power), p.answer)
  BY <1>6, SafeSays, SafeReveals
<1> QED BY <1>4, <1>5, <1>7, SafeReveals, Kept3

LEMMA OneStepKept ==
    ASSUME NEW format, NEW d \in Difficulties, NEW p \in OneStepProblems(format, d)
    PROVE  Kept(p, OneStepSteps(p))
<1>0. Difficulties = 1..4
  BY DEF Difficulties
<1>1. OneStepCoeff[d] \subseteq Int /\ Solutions \subseteq Int
  BY <1>0 DEF OneStepCoeff, Solutions
<1>2. \/ \E b \in OneStepCoeff[d], x \in Solutions :
           p = Numeric("one_step_equations", format, Wholes(<<AddEquation, b, b + x>>), Whole(x))
      \/ \E ax \in OneStepCoeff[d] \X Solutions :
           /\ ax[1] * ax[2] - ax[1] # ax[2]
           /\ p = Numeric("one_step_equations", format,
                          Wholes(<<TimesEquation, ax[1], ax[1] * ax[2]>>), Whole(ax[2]))
  BY SMTT(30) DEF OneStepProblems
<1>3. Integers(p.operands, 3)
  <2>1. ASSUME NEW b \in OneStepCoeff[d], NEW x \in Solutions,
               p = Numeric("one_step_equations", format, Wholes(<<AddEquation, b, b + x>>), Whole(x))
        PROVE  Integers(p.operands, 3)
    <3>1. AddEquation \in Int /\ b \in Int /\ b + x \in Int
      BY <1>1 DEF AddEquation
    <3>2. p.operands = Wholes(<<AddEquation, b, b + x>>)
      BY <2>1, NumericIs
    <3> QED BY <3>1, <3>2, Integers3
  <2>2. ASSUME NEW ax \in OneStepCoeff[d] \X Solutions,
               p = Numeric("one_step_equations", format,
                           Wholes(<<TimesEquation, ax[1], ax[1] * ax[2]>>), Whole(ax[2]))
        PROVE  Integers(p.operands, 3)
    <3>1. ax[1] \in Int /\ ax[2] \in Int
      BY <1>1
    <3>2. TimesEquation \in Int /\ ax[1] * ax[2] \in Int
      BY <3>1 DEF TimesEquation
    <3>3. p.operands = Wholes(<<TimesEquation, ax[1], ax[1] * ax[2]>>)
      BY <2>2, NumericIs
    <3> QED BY <3>1, <3>2, <3>3, Integers3
  <2> QED BY <1>2, <2>1, <2>2
<1>4. \A w \in {p.operands[2], p.operands[3]} : Lowest(w)
  BY <1>3 DEF Integers
<1> QED BY <1>4, SafeSays, SafeReveals, Kept3 DEF OneStepSteps

LEMMA EquationKept ==
    ASSUME NEW format, NEW d \in Difficulties, NEW p \in EquationProblems(format, d),
           p.kind = "numeric"
    PROVE  Kept(p, EquationSteps(p))
<1>0. Difficulties = 1..4
  BY DEF Difficulties
<1>1. EquationConst[d] \subseteq Int /\ Solutions \subseteq Int
  BY <1>0 DEF EquationConst, Solutions
<1>2. format # "number_line"
  <2> SUFFICES ASSUME format = "number_line" PROVE FALSE
    OBVIOUS
  <2>1. \E truth \in BOOLEAN :
          p = YesNo("equation_solutions", format, "equal",
                    Wholes(<<1, IF truth THEN 1 ELSE 0>>), Whole(1))
    BY DEF EquationProblems
  <2> QED BY <2>1 DEF YesNo
<1>3. PICK b \in EquationConst[d], x \in Solutions :
             p = Numeric("equation_solutions", format, Wholes(<<b, b + x>>), Whole(x))
  BY <1>2 DEF EquationProblems
<1>4. b \in Int /\ b + x \in Int
  BY <1>1
<1>5. Integers(p.operands, 2)
  BY <1>3, <1>4, NumericIs, Integers2
<1>6. \A w \in {p.operands[1], p.operands[2]} : Lowest(w)
  BY <1>5 DEF Integers
<1> DEFINE both == {p.operands[1], p.operands[2]}
<1>7. EquationSteps(p) = << Says(both), Says(both), Reveals({p.answer}, p.answer) >>
  BY DEF EquationSteps
<1> HIDE DEF both
<1> QED BY <1>6, <1>7, SafeSays, SafeReveals, Kept3 DEF both

LEMMA DependentKept ==
    ASSUME NEW format, NEW d \in Difficulties, NEW p \in DependentProblems(format, d),
           p.kind = "numeric"
    PROVE  Kept(p, DependentSteps(p))
<1>0. Difficulties = 1..4
  BY DEF Difficulties
<1>1. DependentRate[d] \subseteq Int /\ DependentValue[d] \subseteq Int
  BY <1>0 DEF DependentRate, DependentValue
<1>2. format # "coordinate_plane"
  <2> SUFFICES ASSUME format = "coordinate_plane" PROVE FALSE
    OBVIOUS
  <2>1. \E ops, points : p = Structured("dependent_vars", format, "coordinate", ops, points)
    BY DEF DependentProblems
  <2> QED BY <2>1 DEF Structured
<1>3. PICK ax \in DependentRate[d] \X DependentValue[d] :
        p = Numeric("dependent_vars", format, Wholes(<<ax[1], ax[2]>>), Whole(ax[1] * ax[2]))
  BY <1>2 DEF DependentProblems
<1>4. ax[1] \in Int /\ ax[2] \in Int
  BY <1>1
<1>5. Integers(p.operands, 2)
  BY <1>3, <1>4, NumericIs, Integers2
<1> DEFINE a == p.operands[1]
           x == p.operands[2]
           y == Times(a, x)
<1>6. Lowest(a) /\ Lowest(x) /\ Fraction(a) /\ Fraction(x)
  BY <1>5, IntegersGive
<1>7. Lowest(y)
  BY <1>6, LowestOf
<1>8. DependentSteps(p) = << Says({x, a}), Reveals({a, x, y}, y) >>
  BY DEF DependentSteps
<1>9. \A w \in {a, x, y} : Lowest(w)
  BY <1>6, <1>7
<1> HIDE DEF a, x, y
<1> QED BY <1>8, <1>9, SafeSays, SafeReveals, Kept2

LEMMA PartsKept ==
    ASSUME NEW p
    PROVE  Kept(p, PartsSteps(p))
<1>1. \A w \in {} : Lowest(w)
  OBVIOUS
<1> QED BY <1>1, SafeSays, SafeReveals, Kept3 DEF PartsSteps

LEMMA TriangleKept ==
    ASSUME NEW format, NEW d \in Difficulties, NEW p \in TriangleProblems(format, d)
    PROVE  Kept(p, TriangleSteps(p))
<1>0. Difficulties = 1..4
  BY DEF Difficulties
<1>1. \A ab \in AnglePairs[d] \cup BaseHeights[d] : ab[1] \in Int /\ ab[2] \in Int
  BY <1>0 DEF AnglePairs, BaseHeights
<1>2. \/ \E ab \in AnglePairs[d] :
           p = Numeric("triangle_properties", format, Wholes(<<ab[1], ab[2], AngleMode>>),
                       Whole(180 - ab[1] - ab[2]))
      \/ \E bh \in BaseHeights[d] :
           p = Numeric("triangle_properties", format, Wholes(<<bh[1], bh[2], AreaMode>>),
                       Rational(bh[1] * bh[2], 2))
  BY DEF TriangleProblems
<1>3. \E ab \in AnglePairs[d] \cup BaseHeights[d], mode \in {AngleMode, AreaMode} :
        p.operands = Wholes(<<ab[1], ab[2], mode>>)
  <2>1. ASSUME NEW ab \in AnglePairs[d],
               p = Numeric("triangle_properties", format, Wholes(<<ab[1], ab[2], AngleMode>>),
                           Whole(180 - ab[1] - ab[2]))
        PROVE  <1>3
    <3>1. p.operands = Wholes(<<ab[1], ab[2], AngleMode>>)
      BY <2>1, NumericIs
    <3> QED BY <3>1
  <2>2. ASSUME NEW bh \in BaseHeights[d],
               p = Numeric("triangle_properties", format, Wholes(<<bh[1], bh[2], AreaMode>>),
                           Rational(bh[1] * bh[2], 2))
        PROVE  <1>3
    <3>1. p.operands = Wholes(<<bh[1], bh[2], AreaMode>>)
      BY <2>2, NumericIs
    <3> QED BY <3>1
  <2> QED BY <1>2, <2>1, <2>2
<1>4. PICK ab \in AnglePairs[d] \cup BaseHeights[d], mode \in {AngleMode, AreaMode} :
        p.operands = Wholes(<<ab[1], ab[2], mode>>)
  BY <1>3
<1>5. ab[1] \in Int /\ ab[2] \in Int /\ mode \in Int
  BY <1>1 DEF AngleMode, AreaMode
<1>6. Integers(p.operands, 3)
  BY <1>4, <1>5, Integers3
<1> DEFINE a == p.operands[1]
           b == p.operands[2]
           sum == Plus(a, b)
           box == Times(a, b)
<1>7. Lowest(a) /\ Lowest(b) /\ Fraction(a) /\ Fraction(b)
  BY <1>6, IntegersGive
<1>8. Lowest(sum) /\ Lowest(box) /\ Lowest(Whole(180))
  BY <1>7, LowestOf, LowestWhole
<1>9. TriangleSteps(p)
        = IF Int1(p, 3) = AngleMode
          THEN << Says({Whole(180)}), Says({a, b, sum}),
                  Reveals({Whole(180), sum, p.answer}, p.answer) >>
          ELSE << Says({a, b}), Says({a, b, box}),
                  Reveals({box, Whole(2), p.answer}, p.answer) >>
  BY DEF TriangleSteps
<1>10. \A w \in {a, b, sum, box, Whole(180)} : Lowest(w)
  BY <1>7, <1>8
<1> HIDE DEF a, b, sum, box
<1>11. /\ Safe(Says({Whole(180)}), p.answer) /\ Safe(Says({a, b, sum}), p.answer)
       /\ Safe(Says({a, b}), p.answer) /\ Safe(Says({a, b, box}), p.answer)
  BY <1>10, SafeSays
<1> QED BY <1>9, <1>11, SafeReveals, Kept3

LEMMA AreaKept ==
    ASSUME NEW format, NEW d \in Difficulties, NEW p \in AreaProblems(format, d)
    PROVE  Kept(p, AreaSteps(p))
<1>0. Difficulties = 1..4
  BY DEF Difficulties
<1>1. AreaSides[d] \subseteq Int
  BY <1>0 DEF AreaSides
<1>2. \A h \in AreaSides[d] : EvenUp(h) \in Int
  BY <1>1 DEF EvenUp
<1> DEFINE Shape(shape, ops, answer) ==
             Numeric("area_polygons", format, Wholes(ops \o <<shape>>), answer)
           s == AreaSides[d]
<1>3. \/ \E b \in s, h \in s :
           p = Shape(TriangleShape, <<b, EvenUp(h)>>, Rational(b * EvenUp(h), 2))
      \/ \E b \in s, h \in s : p = Shape(ParallelogramShape, <<b, h>>, Whole(b * h))
      \/ \E bb \in {bb \in s \X s : bb[1] # bb[2]}, h \in s :
           p = Shape(TrapezoidShape, <<bb[1], bb[2], EvenUp(h)>>,
                     Rational((bb[1] + bb[2]) * EvenUp(h), 2))
  BY DEF AreaProblems
<1> DEFINE Sided(n) ==
             /\ Arity(p) = n
             /\ \A i \in 1..(n - 1) : \E k \in Int : p.operands[i] = Whole(k)
<1>4. ASSUME NEW b \in s, NEW h \in s,
             p = Shape(TriangleShape, <<b, EvenUp(h)>>, Rational(b * EvenUp(h), 2))
      PROVE  Sided(3)
  <2>1. b \in Int /\ EvenUp(h) \in Int /\ TriangleShape \in Int
    BY <1>1, <1>2 DEF TriangleShape
  <2>2. p.operands = Wholes(<<b, EvenUp(h)>> \o <<TriangleShape>>)
    BY <1>4, NumericIs
  <2> QED BY <2>1, <2>2, WholesAndShape DEF Arity
<1>5. ASSUME NEW b \in s, NEW h \in s,
             p = Shape(ParallelogramShape, <<b, h>>, Whole(b * h))
      PROVE  Sided(3)
  <2>1. b \in Int /\ h \in Int /\ ParallelogramShape \in Int
    BY <1>1 DEF ParallelogramShape
  <2>2. p.operands = Wholes(<<b, h>> \o <<ParallelogramShape>>)
    BY <1>5, NumericIs
  <2> QED BY <2>1, <2>2, WholesAndShape DEF Arity
<1>6. ASSUME NEW bb \in {bb \in s \X s : bb[1] # bb[2]}, NEW h \in s,
             p = Shape(TrapezoidShape, <<bb[1], bb[2], EvenUp(h)>>,
                   Rational((bb[1] + bb[2]) * EvenUp(h), 2))
      PROVE  Sided(4)
  <2> DEFINE a == bb[1]
             b == bb[2]
             e == EvenUp(h)
             t == <<a, b, e>> \o <<TrapezoidShape>>
  <2>1. a \in Int /\ b \in Int /\ e \in Int /\ TrapezoidShape \in Int
    BY <1>1, <1>2 DEF TrapezoidShape
  <2>2. p.operands = Wholes(t)
    BY <1>6, NumericIs
  <2> HIDE DEF a, b, e
  <2>3. Len(t) = 4 /\ t[1] = a /\ t[2] = b /\ t[3] = e
    BY <2>1, <<a, b, e>> \in Seq(Int), <<TrapezoidShape>> \in Seq(Int)
  <2> HIDE DEF t
  <2>4. Len(Wholes(t)) = 4 /\ \A i \in 1..4 : Wholes(t)[i] = Whole(t[i])
    BY <2>3 DEF Wholes
  <2> QED BY <2>1, <2>2, <2>3, <2>4 DEF Arity
<1>7. Sided(3) \/ Sided(4)
  <2> HIDE DEF Shape, Sided
  <2> QED BY <1>3, <1>4, <1>5, <1>6
<1> DEFINE ops == p.operands
           b == ops[1]
           h == ops[2]
           box == Times(b, h)
           sum == Plus(b, h)
           strip == Times(sum, ops[3])
<1>8. \A w : (\E k \in Int : w = Whole(k)) => Lowest(w) /\ Fraction(w)
  BY LowestWhole, WholeFraction
<1>9. Lowest(b) /\ Fraction(b) /\ Lowest(h) /\ Fraction(h)
  <2>1. (\E k \in Int : b = Whole(k)) /\ (\E k \in Int : h = Whole(k))
    BY <1>7
  <2> QED BY <1>8, <2>1
<1>10. Lowest(box) /\ Lowest(sum) /\ Fraction(sum)
  BY <1>9, LowestOf
<1>11. Arity(p) = 4 => Lowest(ops[3]) /\ Lowest(strip)
  <2> SUFFICES ASSUME Arity(p) = 4 PROVE Lowest(ops[3]) /\ Lowest(strip)
    OBVIOUS
  <2>1. \E k \in Int : ops[3] = Whole(k)
    BY <1>7
  <2>2. Lowest(ops[3]) /\ Fraction(ops[3])
    BY <1>8, <2>1
  <2> QED BY <1>10, <2>2, LowestOf
<1>12. AreaSteps(p)
         = IF Arity(p) = 4
           THEN << Says({b, h, sum}), Says({sum, ops[3], strip}),
                   Reveals({strip, Whole(2), p.answer}, p.answer) >>
           ELSE IF Int1(p, 3) = TriangleShape
           THEN << Says({b, h, box}), Says({}), Reveals({box, Whole(2), p.answer}, p.answer) >>
           ELSE << Says({}), Reveals({b, h, p.answer}, p.answer) >>
  BY DEF AreaSteps
<1> HIDE DEF ops, b, h, box, sum, strip, Sided
<1>13. /\ \A w \in {b, h, sum} : Lowest(w)
       /\ \A w \in {b, h, box} : Lowest(w)
       /\ Arity(p) = 4 => \A w \in {sum, ops[3], strip} : Lowest(w)
       /\ \A w \in {} : Lowest(w)
  BY <1>9, <1>10, <1>11
<1>14. /\ Safe(Says({b, h, sum}), p.answer) /\ Safe(Says({b, h, box}), p.answer)
       /\ Safe(Says({}), p.answer)
       /\ Arity(p) = 4 => Safe(Says({sum, ops[3], strip}), p.answer)
  BY <1>13, SafeSays
<1>15. /\ Safe(Reveals({strip, Whole(2), p.answer}, p.answer), p.answer)
       /\ Safe(Reveals({box, Whole(2), p.answer}, p.answer), p.answer)
       /\ Safe(Reveals({b, h, p.answer}, p.answer), p.answer)
  BY SafeReveals
<1> QED BY <1>12, <1>14, <1>15, Kept2, Kept3

(* The edges are written in lowest terms.                                  *)
LEMMA EdgesLowest ==
    ASSUME NEW d \in Difficulties, NEW f \in VolumeEdges[d]
    PROVE  Lowest(f) /\ Fraction(f)
<1>0. Difficulties = 1..4
  BY DEF Difficulties
<1>1. f \in {<<1, 2>>, <<3, 2>>, <<2, 1>>, <<5, 2>>, <<3, 1>>, <<2, 3>>, <<4, 1>>, <<3, 4>>,
             <<7, 2>>, <<5, 1>>, <<5, 4>>, <<7, 3>>, <<9, 2>>}
  BY <1>0 DEF VolumeEdges
<1>2. CASE f \in {<<2, 1>>, <<3, 1>>, <<4, 1>>, <<5, 1>>}
  <2>1. PICK n \in Int : f = <<n, 1>>
    BY <1>2
  <2>2. 0 * n + 1 * 1 = 1 /\ 0 \in Int /\ 1 \in Nat \ {0}
    OBVIOUS
  <2> QED BY <2>1, <2>2, CoprimeLowest
<1>3. CASE f \in {<<1, 2>>, <<3, 2>>, <<5, 2>>, <<7, 2>>, <<9, 2>>, <<3, 4>>, <<5, 4>>,
                  <<2, 3>>, <<7, 3>>}
  <2> DEFINE Bezout(n, m, x, y) ==
               /\ f = <<n, m>> /\ x * n + y * m = 1
               /\ n \in Int /\ m \in Nat \ {0} /\ x \in Int /\ y \in Int
  <2>1. \/ Bezout(1, 2, 1, 0) \/ Bezout(3, 2, 1, -1) \/ Bezout(5, 2, 1, -2)
        \/ Bezout(7, 2, 1, -3) \/ Bezout(9, 2, 1, -4) \/ Bezout(3, 4, -1, 1)
        \/ Bezout(5, 4, 1, -1) \/ Bezout(2, 3, -1, 1) \/ Bezout(7, 3, 1, -2)
    BY <1>3
  <2>2. \A n, m, x, y : Bezout(n, m, x, y) => Lowest(f) /\ Fraction(f)
    BY CoprimeLowest
  <2> HIDE DEF Bezout
  <2> QED BY <2>1, <2>2
<1> QED BY <1>1, <1>2, <1>3

LEMMA VolumeKept ==
    ASSUME NEW format, NEW d \in Difficulties, NEW p \in VolumeProblems(format, d)
    PROVE  Kept(p, VolumeSteps(p))
<1>1. PICK e \in VolumeEdges[d] \X VolumeEdges[d] \X VolumeEdges[d] :
        p = Numeric("volume_fractional_edges", format, e, ProductOf(e))
  BY DEF VolumeProblems
<1> DEFINE floor == Times(e[1], e[2])
<1>2. \A f \in {e[1], e[2], e[3]} : Lowest(f) /\ Fraction(f)
  BY EdgesLowest
<1>3. Lowest(floor)
  BY <1>2, LowestOf
<1>4. p.operands = e
  BY <1>1, NumericIs
<1>5. VolumeSteps(p)
        = << Says({e[1], e[2], e[3]}), Reveals({e[1], e[2], floor}, floor),
             Reveals({floor, e[3], p.answer}, p.answer) >>
  BY <1>4 DEF VolumeSteps
<1>6. \A w \in {e[1], e[2], e[3], floor} : Lowest(w)
  BY <1>2, <1>3
<1> HIDE DEF floor
<1> QED BY <1>5, <1>6, SafeSays, SafeReveals, Kept3

LEMMA SurfaceKept ==
    ASSUME NEW format, NEW d \in Difficulties, NEW p \in SurfaceProblems(format, d)
    PROVE  Kept(p, SurfaceSteps(p))
<1>0. Difficulties = 1..4
  BY DEF Difficulties
<1>1. SurfaceEdges[d] \subseteq Int
  BY <1>0 DEF SurfaceEdges
<1>2. PICK s \in [1..3 -> SurfaceEdges[d]] :
        p = Numeric("surface_area_nets", format, Wholes(s),
                    Times(Whole(2), ThreeFaces(Wholes(s))))
  BY DEF SurfaceProblems
<1>3. Integers(p.operands, 3)
  <2>1. s \in [1..3 -> Int] /\ 3 \in Nat
    BY <1>1
  <2>2. p.operands = Wholes(s)
    BY <1>2, NumericIs
  <2>3. Integers(Wholes(s), 3)
    BY <2>1, IntegersAre
  <2> QED BY <2>2, <2>3
<1> DEFINE e == p.operands
           ab == Times(e[1], e[2])
           ac == Times(e[1], e[3])
           bc == Times(e[2], e[3])
           two == Plus(ab, ac)
           three == Plus(two, bc)
<1>4. \A i \in 1..3 : Lowest(e[i]) /\ Fraction(e[i])
  BY <1>3, IntegersGive
<1>5. \A f \in {e[1], e[2], e[3]} : Lowest(f) /\ Fraction(f)
  BY <1>4
<1> HIDE DEF e
<1>6. /\ Lowest(ab) /\ Lowest(ac) /\ Lowest(bc)
      /\ Fraction(ab) /\ Fraction(ac) /\ Fraction(bc)
  BY <1>5, LowestOf
<1> HIDE DEF ab, ac, bc
<1>7. Fraction(two)
  BY <1>6, LowestOf
<1> HIDE DEF two
<1>8. Lowest(three)
  BY <1>6, <1>7, LowestOf
<1>9. SurfaceSteps(p)
        = << Says({e[1], e[2], e[3]}), Reveals({ab, ac, bc} \cup {three}, three),
             Reveals({Whole(2), three, p.answer}, p.answer) >>
  BY DEF SurfaceSteps, Faces, ThreeFaces, e, ab, ac, bc, two
<1>10. \A w \in {e[1], e[2], e[3]} \cup ({ab, ac, bc} \cup {three}) : Lowest(w)
  BY <1>5, <1>6, <1>8
<1> HIDE DEF three
<1> QED BY <1>9, <1>10, SafeSays, SafeReveals, Kept3

LEMMA IncomeKept ==
    ASSUME NEW format, NEW d \in Difficulties, NEW p \in IncomeProblems(format, d)
    PROVE  Kept(p, IncomeSteps(p))
<1>0. Difficulties = 1..4
  BY DEF Difficulties
<1>1. Salaries[d] \subseteq Int /\ WorkingYears[d] \subseteq Int
  BY <1>0 DEF Salaries, WorkingYears
<1>2. \/ \E salary \in Salaries[d], years \in WorkingYears[d] :
           p = Numeric("lifetime_income", format, Wholes(<<IncomeTotal, salary, years>>),
                       Whole(salary * years))
      \/ \E s \in {s \in Salaries[d] \X Salaries[d] : s[2] < s[1]}, years \in WorkingYears[d] :
           p = Numeric("lifetime_income", format,
                       Wholes(<<IncomeDifference, s[1], s[2], years>>),
                       Whole((s[1] - s[2]) * years))
  BY IncomeQuestions
<1>3. \E n \in {3, 4} : Integers(p.operands, n)
  <2>1. ASSUME NEW salary \in Salaries[d], NEW years \in WorkingYears[d],
               p = Numeric("lifetime_income", format, Wholes(<<IncomeTotal, salary, years>>),
                           Whole(salary * years))
        PROVE  Integers(p.operands, 3)
    <3>1. salary \in Int /\ years \in Int /\ IncomeTotal \in Int
      BY <1>1 DEF IncomeTotal
    <3>2. p.operands = Wholes(<<IncomeTotal, salary, years>>)
      BY <2>1, NumericIs
    <3> QED BY <3>1, <3>2, Integers3
  <2>2. ASSUME NEW s \in {s \in Salaries[d] \X Salaries[d] : s[2] < s[1]},
               NEW years \in WorkingYears[d],
               p = Numeric("lifetime_income", format,
                           Wholes(<<IncomeDifference, s[1], s[2], years>>),
                           Whole((s[1] - s[2]) * years))
        PROVE  Integers(p.operands, 4)
    <3>1. s[1] \in Int /\ s[2] \in Int /\ years \in Int /\ IncomeDifference \in Int
      BY <1>1 DEF IncomeDifference
    <3>2. p.operands = Wholes(<<IncomeDifference, s[1], s[2], years>>)
      BY <2>2, NumericIs
    <3> QED BY <3>1, <3>2, Integers4
  <2> QED BY <1>2, <2>1, <2>2
<1>4. PICK n \in {3, 4} : Integers(p.operands, n)
  BY <1>3
<1> DEFINE years == p.operands[Arity(p)]
           yearly == OneYearOnly(p.operands)
<1>5. \A i \in 1..n : Lowest(p.operands[i]) /\ Fraction(p.operands[i])
  BY <1>4, IntegersGive
<1>6. Arity(p) = n
  BY <1>4 DEF Integers, Arity
<1>7. Lowest(years)
  BY <1>5, <1>6
<1>8. Lowest(yearly)
  <2>1. /\ Lowest(p.operands[2]) /\ Fraction(p.operands[2]) /\ Fraction(p.operands[3])
    BY <1>5
  <2>2. Lowest(Minus(p.operands[2], p.operands[3]))
    BY <2>1, LowestOf
  <2> QED BY <2>1, <2>2 DEF OneYearOnly
<1>9. IncomeSteps(p)
        = << Says({yearly}), Says({years}), Reveals({yearly, years, p.answer}, p.answer) >>
  BY DEF IncomeSteps
<1>10. (\A w \in {yearly} : Lowest(w)) /\ (\A w \in {years} : Lowest(w))
  BY <1>7, <1>8
<1> HIDE DEF years, yearly
<1> QED BY <1>9, <1>10, SafeSays, SafeReveals, Kept3

LEMMA RegisterKept ==
    ASSUME NEW format, NEW d \in Difficulties, NEW p \in RegisterProblems(format, d),
           p.kind = "numeric"
    PROVE  Kept(p, RegisterSteps(p))
<1>1. PICK register \in DrawnRegisters(d) :
        p = Numeric("check_register", format,
                    [i \in DOMAIN register |-> Dollars(register[i])], Dollars(Balance(register)))
  <2>1. CASE format = "number_line"
    <3>1. PICK enough \in BOOLEAN :
            p = YesNo("check_register", format, "equal", Wholes(<<1, IF enough THEN 1 ELSE 0>>),
                      Whole(1))
      BY <2>1 DEF RegisterProblems
    <3> QED BY <3>1 DEF YesNo
  <2>2. CASE format # "number_line"
    BY <2>2 DEF RegisterProblems
  <2> QED BY <2>1, <2>2
<1> DEFINE first == p.operands[1]
<1>2. 1 \in DOMAIN p.operands /\ Lowest(first) /\ p.kc \in DecimalLessons
  <2>1. register \in Seq(Int) /\ 1 \in DOMAIN register
    BY RegisterIs
  <2>2. DOMAIN p.operands = DOMAIN register /\ first = Dollars(register[1]) /\ register[1] \in Int
    BY <1>1, <2>1, NumericIs
  <2>3. Lowest(first)
    <3>1. 4 \in Nat \ {0}
      OBVIOUS
    <3> QED BY <2>2, <3>1, LowestRational DEF Dollars
  <2>4. p.kc = "check_register"
    BY <1>1 DEF Numeric
  <2> QED BY <2>1, <2>2, <2>3, <2>4 DEF DecimalLessons
<1> DEFINE opening == {DecimalForm(first)}
           ends == Reveals({DecimalForm(p.answer)}, p.answer)
<1>3. p.kind # "yes_no"
  OBVIOUS
<1>4. RegisterSteps(p) = << Says(opening), Says({}), ends >>
  BY <1>3 DEF RegisterSteps
<1>5. Careful(Says(opening), p)
  <2>1. CASE Den(first) = 1
    <3>1. DecimalForm(first) = first
      BY <2>1 DEF DecimalForm
    <3>2. \A w \in opening : Lowest(w)
      BY <1>2, <3>1
    <3> HIDE DEF opening
    <3> QED BY <3>2, SafeSays, SafeIsCareful
  <2>2. CASE Den(first) # 1
    <3>1. \A w \in opening : /\ IsDecimal(w)
                             /\ \E i \in DOMAIN p.operands : w = DecimalForm(p.operands[i])
      BY <1>2, <2>2, PointWritten
    <3> HIDE DEF opening
    <3> QED BY <1>2, <3>1, PosedSpares
  <2> QED BY <2>1, <2>2
<1> HIDE DEF opening
<1>6. Careful(ends, p)
  BY SafeReveals, SafeIsCareful
<1> HIDE DEF ends
<1>7. Careful(Says({}), p)
  BY SafeSays, SafeIsCareful
<1> QED BY <1>4, <1>5, <1>6, <1>7, Careful3

LEMMA WrittenLowest ==
    ASSUME NEW n \in Nat, NEW data \in [1..n -> Int]
    PROVE  \A w \in Written(data) : Lowest(w)
<1>1. \A v \in Values(data) : v \in Int
  BY DEF Values
<1> QED BY <1>1, LowestWhole DEF Written

LEMMA SummaryKept ==
    ASSUME NEW format, NEW d \in Difficulties, NEW p \in SummaryProblems(format, d)
    PROVE  Kept(p, SummarySteps(p))
<1>1. PICK mode \in MeanMode..RangeMode :
        p \in {Numeric("summary_statistics", format, Wholes(<<mode>> \o data), Statistic(mode, data)) :
                 data \in StatData(mode, StatPool[d])}
  BY DEF SummaryProblems
<1>2. PICK data \in StatData(mode, StatPool[d]) :
        p = Numeric("summary_statistics", format, Wholes(<<mode>> \o data), Statistic(mode, data))
  BY <1>1
<1>3. mode \in Int
  BY DEF MeanMode, RangeMode
<1>4. PICK n \in 3..9 : data \in [1..n -> StatPool[d]]
  BY StatDataIs
<1>5. n \in Nat \ {0} /\ data \in [1..n -> Int] /\ Len(data) \in Int
  <2>1. StatPool[d] \subseteq 0..40 /\ 0..40 \subseteq Int
    BY StatPools
  <2>2. data \in [1..n -> Int]
    BY <1>4, <2>1
  <2> QED BY <2>2
<1>6. p.operands = Wholes(<<mode>> \o data)
  BY <1>2, NumericIs
<1>7. Int1(p, 1) = mode /\ Data(p, 2) = data
  BY <1>3, <1>5, <1>6, DataIs
<1> DEFINE setup == CASE mode = MeanMode -> {Whole(Len(data))}
                      [] mode = MedianMode -> Written(data)
                      [] OTHER -> {}
<1>8. SummarySteps(p) = << Says(Written(data)), Says(setup), Reveals({p.answer}, p.answer) >>
  BY <1>7 DEF SummarySteps
<1>9. n \in Nat
  BY <1>5
<1>10. \A w \in Written(data) : Lowest(w)
  BY <1>5, <1>9, WrittenLowest
<1>11. \A w \in setup : Lowest(w)
  BY <1>5, <1>10, LowestWhole
<1> HIDE DEF setup
<1> QED BY <1>8, <1>10, <1>11, SafeSays, SafeReveals, Kept3

LEMMA DisplayLinesKept ==
    ASSUME NEW n \in Nat \ {0}, NEW data \in [1..n -> Int], NEW mode \in Int, NEW param \in Int,
           NEW p, p.operands = Wholes(<<mode, param>> \o data)
    PROVE  Kept(p, DisplaySteps(p))
<1>1. Int1(p, 1) = mode /\ Int1(p, 2) = param /\ Data(p, 3) = data
  BY TwoThenData
<1> DEFINE setup == CASE mode = CountAbove -> {Whole(param)}
                      [] mode = MostFrequent -> {}
                      [] OTHER -> {Whole(param), Whole(param + BinWidth - 1)}
<1>2. DisplaySteps(p) = << Says(Written(data)), Says(setup), Reveals({p.answer}, p.answer) >>
  BY <1>1 DEF DisplaySteps
<1>3. n \in Nat /\ param + BinWidth - 1 \in Int
  BY DEF BinWidth
<1>4. \A w \in Written(data) : Lowest(w)
  BY <1>3, WrittenLowest
<1>5. \A w \in setup : Lowest(w)
  BY <1>3, LowestWhole
<1> HIDE DEF setup
<1> QED BY <1>2, <1>4, <1>5, SafeSays, SafeReveals, Kept3

LEMMA DisplayKept ==
    ASSUME NEW format, NEW d \in Difficulties, NEW p \in DisplayProblems(format, d)
    PROVE  Kept(p, DisplaySteps(p))
<1> DEFINE Of1(data) == {Numeric("data_displays", format, Wholes(<<CountAbove, t>> \o data),
                                 Whole(Cardinality(Above(data, t)))) : t \in Thresholds(data)}
           Of2(data) == {Numeric("data_displays", format, Wholes(<<BinFrequency, low>> \o data),
               Whole(CountOf(data, LAMBDA v : low <= v /\ v <= low + BinWidth - 1))) :
                           low \in Bins(data)}
           Of3(data) == IF HasClearMode(data)
                        THEN {Numeric("data_displays", format, Wholes(<<MostFrequent, 0>> \o data),
                                      Whole(ClearMode(data)))}
                        ELSE {}
<1>1. \E data \in DisplayData(DisplayPool[d]) : p \in Of1(data) \cup Of2(data) \cup Of3(data)
  BY DEF DisplayProblems
<1> HIDE DEF Of1, Of2, Of3
<1>2. PICK data \in DisplayData(DisplayPool[d]) : p \in Of1(data) \cup Of2(data) \cup Of3(data)
  BY <1>1
<1>3. PICK n \in Nat \ {0} : data \in [1..n -> 0..40]
  <2>1. data \in UNION {[1..n -> DisplayPool[d]] : n \in {k + 1 : k \in SampleSizes}}
    BY DEF DisplayData, Sorted
  <2>2. PICK k \in SampleSizes : data \in [1..(k + 1) -> DisplayPool[d]]
    BY <2>1
  <2>3. k \in 3..9
    BY SampleAssumption
  <2>4. k + 1 \in Nat \ {0}
    BY <2>3
  <2>5. DisplayPool[d] \subseteq 0..40
    BY StatPools
  <2>6. data \in [1..(k + 1) -> 0..40]
    BY <2>2, <2>5, Zenon
  <2> QED BY <2>4, <2>6, Zenon
<1>4. data \in [1..n -> Int]
  <2>1. 0..40 \subseteq Int
    OBVIOUS
  <2> QED BY <1>3, <2>1, Zenon
<1>5. ASSUME NEW mode \in Int, NEW param \in Int, p.operands = Wholes(<<mode, param>> \o data)
      PROVE  Kept(p, DisplaySteps(p))
  BY <1>4, <1>5, DisplayLinesKept
<1>6. CountAbove \in Int /\ BinFrequency \in Int /\ MostFrequent \in Int /\ 0 \in Int
  BY DEF CountAbove, BinFrequency, MostFrequent
<1>7. CASE p \in Of1(data)
  <2>1. PICK t \in Thresholds(data) :
          p = Numeric("data_displays", format, Wholes(<<CountAbove, t>> \o data),
                                 Whole(Cardinality(Above(data, t))))
    BY <1>7 DEF Of1
  <2>2. t \in Int
    <3>1. t \in Min(Values(data))..(Max(Values(data)) - 1)
      BY DEF Thresholds
    <3> QED BY <3>1
  <2>3. p.operands = Wholes(<<CountAbove, t>> \o data)
    BY <2>1, NumericIs
  <2> QED BY <1>5, <1>6, <2>2, <2>3
<1>8. CASE p \in Of2(data)
  <2> DEFINE Binned(low) ==
               Whole(CountOf(data, LAMBDA v : low <= v /\ v <= low + BinWidth - 1))
  <2>0. PICK low \in Bins(data) :
          p = Numeric("data_displays", format, Wholes(<<BinFrequency, low>> \o data), Binned(low))
    BY <1>8 DEF Of2
  <2> HIDE DEF Binned
  <2>1. p.operands = Wholes(<<BinFrequency, low>> \o data)
    BY <2>0, NumericIs
  <2>2. low \in Int
    <3>1. PICK v \in Values(data) : low = (v \div BinWidth) * BinWidth
      BY DEF Bins
    <3>2. v \in Int /\ BinWidth = 10
      BY <1>4 DEF Values, BinWidth
    <3>3. v \div 10 \in Int
      BY <3>2
    <3> QED BY <3>1, <3>2, <3>3
  <2> QED BY <1>5, <1>6, <2>1, <2>2
<1>9. CASE p \in Of3(data)
  <2>1. p = Numeric("data_displays", format, Wholes(<<MostFrequent, 0>> \o data),
                    Whole(ClearMode(data)))
    BY <1>9 DEF Of3
  <2>2. p.operands = Wholes(<<MostFrequent, 0>> \o data)
    BY <2>1, NumericIs
  <2> QED BY <1>5, <1>6, <2>2
<1> QED BY <1>2, <1>7, <1>8, <1>9

LEMMA CategoricalKept ==
    ASSUME NEW format, NEW d \in Difficulties, NEW p \in CategoricalProblems(format, d)
    PROVE  Kept(p, CategoricalSteps(p))
<1>0. Difficulties = 1..4
  BY DEF Difficulties
<1>1. CategoryPool[d] \subseteq Int
  BY <1>0 DEF CategoryPool
<1>2. PICK c \in [1..3 -> CategoryPool[d]], mode \in Difference..RelativeFrequency :
             p = CategoryQuestion(format, mode, c)
  BY DEF CategoricalProblems
<1>3. c \in [1..3 -> Int] /\ mode \in Int /\ 3 \in Nat /\ 3 \in Nat \ {0}
  BY <1>1 DEF Difference, RelativeFrequency
<1>4. p.operands = Wholes(<<mode>> \o c)
  BY <1>2 DEF CategoryQuestion, Numeric
<1>5. Int1(p, 1) = mode /\ Data(p, 2) = c
  BY <1>3, <1>4, DataIs
<1>6. \A w \in Written(c) : Lowest(w)
  BY <1>3, WrittenLowest
<1> DEFINE counts == Data(p, 2)
           work == IF Int1(p, 1) = RelativeFrequency THEN {Whole(counts[1]), Whole(Total(counts))}
                                                     ELSE Written(counts)
<1>7. CategoricalSteps(p)
        = << Says(Written(c)), Says({}), Reveals(work \cup {p.answer}, p.answer) >>
  BY <1>5 DEF CategoricalSteps
<1>8. \A w \in {} : Lowest(w)
  OBVIOUS
<1> HIDE DEF work, counts
<1> QED BY <1>6, <1>7, <1>8, SafeSays, SafeReveals, Kept3

LEMMA DeviationKept ==
    ASSUME NEW format, NEW d \in Difficulties, NEW p \in DeviationProblems(format, d)
    PROVE  Kept(p, DeviationSteps(p))
<1>0. Difficulties = 1..4
  BY DEF Difficulties
<1>1. DeviationMeans[d] \subseteq Int
  BY <1>0 DEF DeviationMeans
<1>2. PICK pattern \in DeviationPatterns, average \in DeviationMeans[d] :
        p = Numeric("mean_absolute_deviation", format,
                    Wholes([i \in DOMAIN pattern |-> average + pattern[i]]),
                    Rational(Total(Distances(pattern)), Len(pattern)))
  BY DEF DeviationProblems
<1>3. PICK n \in {4, 5, 6} : pattern \in [1..n -> Int]
  BY PatternIs
<1> DEFINE ops == p.operands
           values == [i \in 1..n |-> average + pattern[i]]
           mean == MeanOf(ops)
           distances == {Whole(Magnitude(Num(Minus(x, mean)))) : x \in Values(ops)}
<1>4. n \in Nat /\ n \in Nat \ {0} /\ values \in [1..n -> Int]
  BY <1>1, <1>3
<1>5. ops = Wholes(values)
  <2>1. DOMAIN pattern = 1..n
    BY <1>3
  <2>2. ops = Wholes([i \in DOMAIN pattern |-> average + pattern[i]])
    BY <1>2, NumericIs
  <2> QED BY <2>1, <2>2
<1> HIDE DEF values
<1>6. Integers(ops, n) /\ \A i \in 1..n : Num(ops[i]) = values[i]
  BY <1>4, <1>5, IntegersAre
<1>7. DOMAIN ops = 1..n /\ Len(ops) = n
  <2>1. Len(values) = n
    BY <1>4
  <2> QED BY <1>5, <1>6, <2>1 DEF Integers, Wholes
<1>8. Lowest(mean) /\ Fraction(mean)
  <2> DEFINE nums == [i \in DOMAIN ops |-> Num(ops[i])]
  <2>1. nums \in [1..n -> Int]
    BY <1>4, <1>6, <1>7
  <2>2. Total(nums) \in Int
    BY <1>4, <2>1, TotalSteps
  <2>3. mean = Rational(Total(nums), n)
    BY <1>7 DEF MeanOf
  <2> QED BY <1>4, <2>2, <2>3, LowestRational, RationalFraction
<1>9. \A x \in Values(ops) : Lowest(x) /\ Fraction(x)
  BY <1>4, <1>6, <1>7, IntegersGive DEF Values
<1> HIDE DEF mean
<1>10. \A w \in distances : Lowest(w)
  <2> SUFFICES ASSUME NEW x \in Values(ops) PROVE Lowest(Whole(Magnitude(Num(Minus(x, mean)))))
    OBVIOUS
  <2>1. Fraction(Minus(x, mean))
    BY <1>8, <1>9, LowestOf
  <2> DEFINE k == Num(Minus(x, mean))
  <2>2. k \in Int
    BY <2>1 DEF Fraction
  <2> HIDE DEF k
  <2>3. Magnitude(k) \in Int
    BY <2>2 DEF Magnitude
  <2> QED BY <2>3, LowestWhole DEF k
<1>11. Lowest(Whole(Arity(p)))
  BY <1>4, <1>7, LowestWhole DEF Arity
<1>12. DeviationSteps(p)
         = << Reveals(Values(ops) \cup {Whole(Arity(p)), mean}, mean), Says({mean} \cup distances),
              Reveals({Whole(Arity(p)), p.answer}, p.answer) >>
  BY DEF DeviationSteps, mean
<1>13. /\ \A w \in Values(ops) \cup {Whole(Arity(p)), mean} : Lowest(w)
       /\ \A w \in {mean} \cup distances : Lowest(w)
  BY <1>8, <1>9, <1>10, <1>11
<1> HIDE DEF ops, distances
<1> QED BY <1>12, <1>13, SafeSays, SafeReveals, Kept3

LEMMA SpreadKept ==
    ASSUME NEW format, NEW d \in Difficulties, NEW p \in SpreadProblems(format, d)
    PROVE  Kept(p, SpreadSteps(p))
<1>1. PICK n \in 4..7, top \in Nat : \E data \in [1..n -> 1..top] :
             \E mode \in CenterMedian..SpreadIqr :
               p = Numeric("center_spread_shape", format, Wholes(<<mode>> \o data),
                           SpreadAnswer(data, mode))
  BY SpreadIs
<1>2. PICK data \in [1..n -> 1..top], mode \in CenterMedian..SpreadIqr :
               p = Numeric("center_spread_shape", format, Wholes(<<mode>> \o data),
                           SpreadAnswer(data, mode))
  BY <1>1
<1>3. /\ mode \in Int /\ n \in Nat /\ n \in Nat \ {0} /\ data \in [1..n -> Int]
      /\ Len(data) = n /\ 1 \in 1..n /\ n \in 1..n
  BY DEF CenterMedian, SpreadIqr
<1>4. p.operands = Wholes(<<mode>> \o data)
  BY <1>2, NumericIs
<1>5. Int1(p, 1) = mode /\ Data(p, 2) = data
  BY <1>3, <1>4, DataIs
<1> DEFINE ends == {Whole(data[1]), Whole(data[Len(data)])}
<1>6. SpreadSteps(p)
        = IF mode = SpreadRange
          THEN << Says(ends), Reveals(ends \cup {p.answer}, p.answer) >>
          ELSE << Says(Written(data)), Says({}), Reveals({p.answer}, p.answer) >>
  BY <1>5 DEF SpreadSteps
<1>7. /\ \A w \in Written(data) : Lowest(w)
      /\ \A w \in ends : Lowest(w)
      /\ \A w \in {} : Lowest(w)
  BY <1>3, WrittenLowest, LowestWhole
<1> HIDE DEF ends
<1>8. /\ Safe(Says(ends), p.answer) /\ Safe(Says(Written(data)), p.answer)
      /\ Safe(Says({}), p.answer)
  BY <1>7, SafeSays
<1>9. /\ Safe(Reveals(ends \cup {p.answer}, p.answer), p.answer)
      /\ Safe(Reveals({p.answer}, p.answer), p.answer)
  BY SafeReveals
<1> QED BY <1>6, <1>8, <1>9, Kept2, Kept3

LEMMA LessonsKeep ==
    ASSUME NEW kc \in Lessons, NEW format, NEW d \in Difficulties,
           NEW p \in GenerateProblem(kc, format, d), p.kind = "numeric",
           kc \notin {"multiply_fractions", "divide_fractions", "ratio_language"}
    PROVE  Kept(p, WorkedExampleFor(p))
<1>0. p.kc = kc /\ p.kind \in Kinds(kc)
  BY GeneratedOf DEF Of
<1> USE DEF Kinds, Judged, SometimesJudged, Expressions, OnThePlane
<1>1. CASE kc = "equivalence"
  BY <1>0, <1>1, EquivalenceKept DEF GenerateProblem, WorkedExampleFor
<1>2. CASE kc = "common_denominator"
  BY <1>0, <1>2, CommonDenominatorKept DEF GenerateProblem, WorkedExampleFor
<1>3. CASE kc = "addition_unlike"
  BY <1>0, <1>3, AdditionKept DEF GenerateProblem, WorkedExampleFor
<1>4. CASE kc = "subtraction_unlike"
  BY <1>0, <1>4, SubtractionKept DEF GenerateProblem, WorkedExampleFor
<1>5. CASE kc = "number_line_placement"
  BY <1>0, <1>5, NumberLineKept DEF GenerateProblem, WorkedExampleFor
<1>6. CASE kc = "unit_rate"
  BY <1>0, <1>6, UnitRateKept DEF GenerateProblem, WorkedExampleFor
<1>7. CASE kc = "better_buy"
  BY <1>0, <1>7
<1>8. CASE kc = "equivalent_ratios"
  BY <1>0, <1>8, EquivalentRatiosKept DEF GenerateProblem, WorkedExampleFor
<1>9. CASE kc = "percent"
  BY <1>0, <1>9, PercentKept DEF GenerateProblem, WorkedExampleFor
<1>10. CASE kc = "unit_conversion"
  BY <1>0, <1>10, UnitConversionKept DEF GenerateProblem, WorkedExampleFor
<1>11. CASE kc = "gcf_lcm"
  BY <1>0, <1>11, GcfLcmKept DEF GenerateProblem, WorkedExampleFor
<1>12. CASE kc = "multi_digit_division"
  BY <1>0, <1>12, DivisionKept DEF GenerateProblem, WorkedExampleFor
<1>13. CASE kc = "decimal_operations"
  BY <1>0, <1>13, DecimalKept DEF GenerateProblem, WorkedExampleFor
<1>14. CASE kc = "absolute_value"
  BY <1>0, <1>14, AbsoluteKept DEF GenerateProblem, WorkedExampleFor
<1>15. CASE kc = "integer_add_subtract"
  BY <1>0, <1>15, IntegerAddKept DEF GenerateProblem, WorkedExampleFor
<1>16. CASE kc = "signed_numbers"
  BY <1>0, <1>16, OppositeKept DEF GenerateProblem, WorkedExampleFor
<1>17. CASE kc = "integer_multiply_divide"
  BY <1>0, <1>17, IntegerProductKept DEF GenerateProblem, WorkedExampleFor
<1>18. CASE kc = "classify_number_sets"
  BY <1>0, <1>18
<1>19. CASE kc = "summary_statistics"
  BY <1>0, <1>19, SummaryKept DEF GenerateProblem, WorkedExampleFor
<1>20. CASE kc = "data_displays"
  BY <1>0, <1>20, DisplayKept DEF GenerateProblem, WorkedExampleFor
<1>21. CASE kc = "categorical_data"
  BY <1>0, <1>21, CategoricalKept DEF GenerateProblem, WorkedExampleFor
<1>22. CASE kc = "mean_absolute_deviation"
  BY <1>0, <1>22, DeviationKept DEF GenerateProblem, WorkedExampleFor
<1>23. CASE kc = "center_spread_shape"
  BY <1>0, <1>23, SpreadKept DEF GenerateProblem, WorkedExampleFor
<1>24. CASE kc = "statistical_questions"
  BY <1>0, <1>24
<1>25. CASE kc = "write_expressions"
  BY <1>0, <1>25
<1>26. CASE kc = "equivalent_expressions"
  BY <1>0, <1>26
<1>27. CASE kc = "inequalities"
  BY <1>0, <1>27
<1>28. CASE kc = "evaluate_expressions"
  BY <1>0, <1>28, EvaluateKept DEF GenerateProblem, WorkedExampleFor
<1>29. CASE kc = "exponents"
  BY <1>0, <1>29, ExponentKept DEF GenerateProblem, WorkedExampleFor
<1>30. CASE kc = "one_step_equations"
  BY <1>0, <1>30, OneStepKept DEF GenerateProblem, WorkedExampleFor
<1>31. CASE kc = "equation_solutions"
  BY <1>0, <1>31, EquationKept DEF GenerateProblem, WorkedExampleFor
<1>32. CASE kc = "dependent_vars"
  BY <1>0, <1>32, DependentKept DEF GenerateProblem, WorkedExampleFor
<1>33. CASE kc = "expression_parts"
  BY <1>0, <1>33, PartsKept DEF GenerateProblem, WorkedExampleFor
<1>34. CASE kc = "triangle_properties"
  BY <1>0, <1>34, TriangleKept DEF GenerateProblem, WorkedExampleFor
<1>35. CASE kc = "area_polygons"
  BY <1>0, <1>35, AreaKept DEF GenerateProblem, WorkedExampleFor
<1>36. CASE kc = "volume_fractional_edges"
  BY <1>0, <1>36, VolumeKept DEF GenerateProblem, WorkedExampleFor
<1>37. CASE kc = "surface_area_nets"
  BY <1>0, <1>37, SurfaceKept DEF GenerateProblem, WorkedExampleFor
<1>38. CASE kc = "coordinate_plane"
  BY <1>0, <1>38
<1>39. CASE kc = "polygons_coordinate_plane"
  BY <1>0, <1>39
<1>40. CASE kc = "check_register"
  BY <1>0, <1>40, RegisterKept DEF GenerateProblem, WorkedExampleFor
<1>41. CASE kc = "lifetime_income"
  BY <1>0, <1>41, IncomeKept DEF GenerateProblem, WorkedExampleFor
<1> QED
  BY <1>1, <1>2, <1>3, <1>4, <1>5, <1>6, <1>7, <1>8, <1>9, <1>10, <1>11,
     <1>12, <1>13, <1>14, <1>15, <1>16, <1>17, <1>18, <1>19, <1>20, <1>21, <1>22,
     <1>23, <1>24, <1>25, <1>26, <1>27, <1>28, <1>29, <1>30, <1>31, <1>32, <1>33,
     <1>34, <1>35, <1>36, <1>37, <1>38, <1>39, <1>40, <1>41
     DEF Lessons, SymbolicOnly, OnTheLine, WithAreas, InStories

LEMMA MinOfTwo ==
    ASSUME NEW a \in Nat, NEW b \in Nat
    PROVE  Min({a, b}) \in {a, b} /\ Min({a, b}) <= a /\ Min({a, b}) <= b
<1>1. {a, b} \in SUBSET Nat /\ {a, b} # {}
  OBVIOUS
<1> QED BY <1>1, MinIs

(* A hint writes no number of a numeric answer's value but the decimals of *)
(* its question.                                                           *)
LEMMA HintSpares ==
    ASSUME NEW p, Drawn(p), p.kind = "numeric",
           p.kc \notin {"multiply_fractions", "divide_fractions"}, NEW clicks \in Nat
    PROVE  Spares(HintLine(p, clicks), p)
<1>1. Spares(Nudge, p)
  BY DEF Spares, Nudge, Says
<1> DEFINE lines == AnswerFreeLines(p)
           at == Min({clicks + 1, Len(lines)})
<1>2. SUFFICES ASSUME lines # <<>>, HintLine(p, clicks) = lines[at]
               PROVE  Spares(lines[at], p)
  BY <1>1 DEF HintLine
<1>3. CASE p.kc = "ratio_language"
  <2>1. lines = <<Nudge, Nudge>>
    BY <1>3 DEF AnswerFreeLines
  <2>2. Len(lines) = 2 /\ lines[1] = Nudge /\ lines[2] = Nudge
    BY <2>1
  <2> HIDE DEF lines
  <2>3. at \in {1, 2}
    <3> DEFINE next == clicks + 1
    <3>1. next \in Nat /\ next >= 1 /\ 2 \in Nat
      OBVIOUS
    <3> HIDE DEF next
    <3>2. Min({next, 2}) \in {next, 2} /\ Min({next, 2}) <= 2
      BY <3>1, MinOfTwo
    <3> QED BY <2>2, <3>1, <3>2 DEF next
  <2> QED BY <1>1, <2>2, <2>3
<1>4. CASE p.kc # "ratio_language"
  <2>1. PICK kc \in Served, d \in Difficulties : \E format \in LiveFormats(kc) :
               p \in GenerateProblem(kc, format, d)
    BY DEF Drawn
  <2>2. PICK format \in LiveFormats(kc) : p \in GenerateProblem(kc, format, d)
    BY <2>1
  <2>3. kc \in Lessons /\ p.kc = kc
    <3>1. kc \in Lessons
      BY ItemAssumption
    <3> QED BY <2>2, <3>1, GeneratedOf DEF Of
  <2> DEFINE steps == WorkedExampleFor(p)
  <2>4. Kept(p, steps)
    BY <1>4, <2>2, <2>3, LessonsKeep
  <2>5. /\ Len(lines) \in Nat /\ DOMAIN lines = 1..Len(lines)
        /\ Len(lines) = 0 => lines = <<>>
        /\ \A i \in DOMAIN lines :
             /\ i \in DOMAIN steps /\ lines[i] = steps[i]
             /\ \A j \in 1..i : ~Told(steps[j], p.answer)
    BY <1>4, <2>4, LinesAre DEF Kept
  <2>6. \A i \in DOMAIN lines : Spares(lines[i], p)
    BY <2>4, <2>5 DEF Kept
  <2>7. Len(lines) # 0
    BY <1>2, <2>5
  <2> DEFINE next == clicks + 1
             n == Len(lines)
  <2>8. next \in Nat /\ next >= 1 /\ n \in Nat /\ n >= 1
    BY <2>5, <2>7
  <2> HIDE DEF next, n
  <2>9. Min({next, n}) \in 1..n
    BY <2>8, MinOfTwo
  <2> QED BY <2>5, <2>6, <2>9 DEF next, n
<1> QED BY <1>3, <1>4

(* However often a hint is asked for, no line read out writes a number of  *)
(* the answer's value, of a numeric item: a line before the first that the *)
(* filter takes out writes its numbers in lowest terms, or others than the *)
(* answer, or decimals its question states (service.py, the answer-free    *)
(* prefix of the worked example).  The last may be the answer, and products*)
(* and quotients of fractions are left out, as in the property.            *)
THEOREM SpecHintsKeepAnswer == Spec => []HintsKeepAnswer
<1> USE ItemAssumption
<1>1. Init => HintsKeepAnswer
  BY DEF Init, HintsKeepAnswer
<1>2. ItemInv /\ HintsKeepAnswer /\ [Next]_vars => HintsKeepAnswer'
  <2> SUFFICES ASSUME ItemInv, HintsKeepAnswer, [Next]_vars PROVE HintsKeepAnswer'
    OBVIOUS
  <2>1. ASSUME NEW kc \in Served, NEW d \in Difficulties, NEW format \in LiveFormats(kc),
               Serve(kc, format, d)
        PROVE  HintsKeepAnswer'
    BY <2>1 DEF Serve, HintsKeepAnswer, Nudge, Says
  <2>2. CASE AskHint
    <3>1. PICK p \in items : said' = HintLine(p, hints_this_problem)
      BY <2>2 DEF AskHint
    <3>2. items' = {p} /\ Drawn(p) /\ hints_this_problem \in Nat
      BY <2>2, <3>1 DEF AskHint, ItemInv
    <3>3. p.kind = "numeric" /\ p.kc \notin {"multiply_fractions", "divide_fractions"}
            => Spares(said', p)
      BY <3>1, <3>2, HintSpares
    <3> QED BY <3>2, <3>3 DEF HintsKeepAnswer, Spares
  <2>3. ASSUME NEW verdict, Settle(verdict)
        PROVE  HintsKeepAnswer'
    BY <2>3 DEF Settle, HintsKeepAnswer
  <2>4. CASE Answer
    BY <2>3, <2>4 DEF Answer
  <2>5. CASE AnswerOther
    BY <2>3, <2>5 DEF AnswerOther
  <2>6. CASE UNCHANGED vars
    BY <2>6 DEF HintsKeepAnswer, vars
  <2> QED BY <2>1, <2>2, <2>4, <2>5, <2>6 DEF Next
<1> QED BY <1>1, <1>2, SpecItem, PTL DEF Spec

--------------------------------------------------------------------------------
(* ---------------------------- the last step --------------------------- *)
(* A terminating decimal as it is written has the value it is written for. *)
LEMMA PlacesFit ==
    ASSUME NEW r, Den(r) \in Nat \ {0}, 10000 % Den(r) = 0
    PROVE  Places(r) \in 0..4 /\ 10^Places(r) \in Nat \ {0} /\ 10^Places(r) % Den(r) = 0
<1> DEFINE Fits(n) == /\ Raised(10, n) % Den(r) = 0
                      /\ \A m \in 0..(n - 1) : Raised(10, m) % Den(r) # 0
           Enough == {n \in 0..4 : Raised(10, n) % Den(r) = 0}
<1>1. Places(r) = CHOOSE n \in 0..4 : Fits(n)
  BY DEF Places, Raised
<1>2. Enough \in SUBSET Nat /\ 4 \in Enough
  BY PowersOfTen
<1>3. PICK n \in Enough : \A m \in Enough : n <= m
  BY <1>2, LeastNatural
<1>4. n \in 0..4 /\ Fits(n)
  <2>1. ASSUME NEW m \in 0..(n - 1) PROVE m \notin Enough /\ m \in 0..4
    BY <1>3
  <2> QED BY <1>3, <2>1
<1> HIDE DEF Fits
<1>5. Places(r) \in 0..4 /\ Fits(Places(r))
  BY <1>1, <1>4
<1>6. Places(r) \in {0, 1, 2, 3, 4}
  BY <1>5
<1>7. Raised(10, Places(r)) \in Nat \ {0} /\ Raised(10, Places(r)) % Den(r) = 0
  BY <1>5, <1>6, PowersOfTen DEF Fits
<1> QED BY <1>5, <1>7 DEF Raised

LEMMA DivisionIs ==
    ASSUME NEW a \in Int, NEW b \in Nat \ {0}
    PROVE  a \div b \in Int /\ a = b * (a \div b) + (a % b)
<1> QED OBVIOUS

LEMMA MultipleIs ==
    ASSUME NEW a \in Nat \ {0}, NEW b \in Nat \ {0}, a % b = 0
    PROVE  \E k \in Nat \ {0} : a = b * k
<1> DEFINE k == a \div b
<1>1. k \in Int /\ a = b * k + (a % b)
  BY DivisionIs
<1> HIDE DEF k
<1>2. a = b * k
  BY <1>1
<1>3. k > 0
  BY <1>1, <1>2
<1> QED BY <1>1, <1>2, <1>3

LEMMA DecimalValue ==
    ASSUME NEW r, Fraction(r), Lowest(r), 10000 % Den(r) = 0
    PROVE  LET w == DecimalForm(r) IN w = r \/ Rational(Num(w), Den(w)) = r
<1>1. CASE Den(r) = 1
  BY <1>1 DEF DecimalForm
<1>2. CASE Den(r) # 1
  <2> DEFINE unit == 10^Places(r)
             n == Num(r)
             d == Den(r)
  <2>1. n \in Int /\ d \in Nat \ {0} /\ unit \in Nat \ {0} /\ unit % d = 0
    BY PlacesFit DEF Fraction
  <2> DEFINE top == (n * unit) \div d
  <2>2. DecimalForm(r) = <<top, unit, "decimal">>
    BY <1>2 DEF DecimalForm
  <2>3. Rational(n, d) = r
    BY DEF Lowest
  <2> HIDE DEF unit, n, d
  <2>4. PICK k \in Nat \ {0} : unit = d * k
    BY <2>1, MultipleIs
  <2>5. n * unit = (k * n) * d /\ k * n \in Int
    BY <2>1, <2>4
  <2>6. top = k * n
    BY <2>1, <2>5, ExactQuotient
  <2> HIDE DEF top
  <2>7. Rational(top, unit) = Rational(n, d)
    <3>1. unit = k * d
      BY <2>1, <2>4
    <3>2. Rational(k * n, k * d) = Rational(n, d)
      BY <2>1, RationalScale
    <3> QED BY <2>6, <3>1, <3>2
  <2> QED BY <2>2, <2>3, <2>7 DEF Num, Den
<1> QED BY <1>1, <1>2

(* A last step that writes the answer as a decimal.                        *)
LEMMA EndsInDecimal ==
    ASSUME NEW p, p.kind = "numeric",
           Fraction(p.answer), Lowest(p.answer), 10000 % Den(p.answer) = 0
    PROVE  EndsOn(Reveals({DecimalForm(p.answer)}, p.answer), p)
<1> DEFINE w == DecimalForm(p.answer)
           ends == Reveals({w}, p.answer)
<1>1. w = p.answer \/ Rational(Num(w), Den(w)) = p.answer
  BY DecimalValue
<1> HIDE DEF w
<1>2. ends.reveals = p.answer /\ w \in ends.writes
  BY RevealsIs
<1> HIDE DEF ends
<1>3. EndsOn(ends, p)
  BY <1>1, <1>2 DEF EndsOn
<1> QED BY <1>3 DEF ends, w

LEMMA EndsThere2 ==
    ASSUME NEW p, NEW x, NEW last, EndsOn(last, p)
    PROVE  EndsOnAnswer(p, <<x, last>>)
<1> QED BY DEF EndsOnAnswer, LastStep, Unbuildable

LEMMA EndsThere3 ==
    ASSUME NEW p, NEW x, NEW y, NEW last, EndsOn(last, p)
    PROVE  EndsOnAnswer(p, <<x, y, last>>)
<1> QED BY DEF EndsOnAnswer, LastStep, Unbuildable

(* What a multiple of the reduced denominator divides, that one divides.   *)
LEMMA ReducedDivides ==
    ASSUME NEW t \in Int, NEW q \in Nat \ {0}
    PROVE  10000 % q = 0 => 10000 % Den(Rational(t, q)) = 0
<1>1. PICK m \in Int, n \in Nat \ {0}, g \in Nat \ {0} :
        /\ g = Gcd[<<Magnitude(t), q>>]
        /\ t = m * g /\ q = n * g /\ Rational(t, q) = <<m, n>>
  BY RationalIs
<1> HAVE 10000 % q = 0
<1>2. PICK k \in Nat \ {0} : 10000 = q * k
  BY MultipleIs
<1> DEFINE h == g * k
<1>3. h \in Int
  OBVIOUS
<1>4. 10000 = n * h
  BY <1>1, <1>2
<1> HIDE DEF h
<1>5. (n * h) % n = 0
  BY <1>3, ExactRemainder
<1> QED BY <1>1, <1>4, <1>5 DEF Den

LEMMA DecimalAnswer ==
    ASSUME NEW format, NEW d \in Difficulties, NEW p \in DecimalProblems(format, d)
    PROVE  /\ p.kind = "numeric" /\ Fraction(p.answer) /\ Lowest(p.answer)
           /\ 10000 % Den(p.answer) = 0
<1> DEFINE Ten(t) == Fraction(t) /\ Lowest(t) /\ 10000 % Den(t) = 0
<1>0. Difficulties = 1..4
  BY DEF Difficulties
<1>1. ASSUME NEW t \in Int, NEW q \in Nat \ {0}, 10000 % q = 0
      PROVE  Ten(Rational(t, q))
  BY <1>1, RationalFraction, LowestRational, ReducedDivides
<1>2. \A pr \in DecimalFactors[d] \X DecimalFactors[d] :
        Ten(Times(pr[1], pr[2])) /\ Ten(Plus(pr[1], pr[2])) /\ Ten(Minus(pr[1], pr[2]))
  <2> SUFFICES ASSUME NEW f \in DecimalFactors[d], NEW s \in DecimalFactors[d]
               PROVE  Ten(Times(f, s)) /\ Ten(Plus(f, s)) /\ Ten(Minus(f, s))
    OBVIOUS
  <2> DEFINE a == Num(f)
             b == Den(f)
             c == Num(s)
             e == Den(s)
             q == b * e
  <2>1. DecimalTerms(f) /\ DecimalTerms(s)
    BY <1>0 DEF DecimalFactors, DecimalTerms, Num, Den
  <2>2. a \in Int /\ c \in Int /\ b \in {2, 4, 5, 10, 20} /\ e \in {2, 4, 5, 10, 20}
    BY <2>1 DEF DecimalTerms
  <2>3. /\ Times(f, s) = Rational(a * c, q) /\ Plus(f, s) = Rational(a * e + c * b, q)
        /\ Minus(f, s) = Rational(a * e - c * b, q)
    BY DEF Times, Plus, Minus
  <2> HIDE DEF a, b, c, e
  <2>4. q \in {4, 8, 10, 20, 40, 16, 80, 25, 50, 100, 200, 400}
    BY <2>2
  <2>5. q \in Nat \ {0} /\ 10000 % q = 0
    <3> HIDE DEF q
    <3> QED BY <2>4
  <2>6. a * c \in Int /\ a * e + c * b \in Int /\ a * e - c * b \in Int
    BY <2>2
  <2> HIDE DEF q, Ten
  <2> QED BY <1>1, <2>3, <2>5, <2>6
<1>3. \A pr \in DecimalDivisions : Ten(Over(pr[1], pr[2]))
  <2>1. /\ Ten(Rational(20, 5)) /\ Ten(Rational(15, 10)) /\ Ten(Rational(6, 5))
        /\ Ten(Rational(8, 5)) /\ Ten(Rational(6, 2)) /\ Ten(Rational(45, 30))
        /\ Ten(Rational(30, 20)) /\ Ten(Rational(2, 4))
    <3>1. Rational(45, 30) = Rational(3, 2)
      <4>1. Rational(15 * 3, 15 * 2) = Rational(3, 2)
        BY RationalScale
      <4> QED BY <4>1
    <3> HIDE DEF Ten
    <3> QED BY <1>1, <3>1
  <2>2. ASSUME NEW pr \in DecimalDivisions
        PROVE  Over(pr[1], pr[2]) \in
                 {Rational(20, 5), Rational(15, 10), Rational(6, 5), Rational(8, 5),
                  Rational(6, 2), Rational(45, 30), Rational(30, 20), Rational(2, 4)}
    BY DEF DecimalDivisions, Over, Num, Den
  <2> HIDE DEF Ten
  <2> QED BY <2>1, <2>2
<1> DEFINE pairs == DecimalFactors[d] \X DecimalFactors[d]
<1>4. \/ \E pr \in pairs : p = Decimal(format, pr, 0, Times(pr[1], pr[2]))
      \/ \E pr \in pairs : p = Decimal(format, pr, 1, Plus(pr[1], pr[2]))
      \/ \E pr \in pairs : p = Decimal(format, pr, 2, Minus(pr[1], pr[2]))
      \/ \E pr \in DecimalDivisions : p = Decimal(format, pr, 3, Over(pr[1], pr[2]))
  BY DEF DecimalProblems
<1> HIDE DEF Ten
<1>5. \E pr, mode, t : p = Decimal(format, pr, mode, t) /\ Ten(t)
  BY <1>2, <1>3, <1>4
<1>6. PICK pr, mode, t : p = Decimal(format, pr, mode, t) /\ Ten(t)
  BY <1>5
<1>7. p.kind = "numeric" /\ p.answer = t
  BY <1>6 DEF Decimal, Numeric
<1> QED BY <1>6, <1>7 DEF Ten

LEMMA DecimalEnds ==
    ASSUME NEW format, NEW d \in Difficulties, NEW p \in DecimalProblems(format, d)
    PROVE  EndsOnAnswer(p, DecimalSteps(p))
<1> DEFINE ends == Reveals({DecimalForm(p.answer)}, p.answer)
           x == Says({DecimalForm(p.operands[1]), DecimalForm(p.operands[2])})
           y == Says({Whole(Places(p.operands[1])), Whole(Places(p.operands[2])),
                      Whole(Places(p.operands[1]) + Places(p.operands[2]))})
           z == Says({})
<1>1. EndsOn(ends, p)
  <2>1. /\ p.kind = "numeric" /\ Fraction(p.answer) /\ Lowest(p.answer)
        /\ 10000 % Den(p.answer) = 0
    BY DecimalAnswer
  <2> QED BY <2>1, EndsInDecimal
<1>2. DecimalSteps(p) = IF Int1(p, 3) = 0 THEN <<z, y, ends>> ELSE <<x, ends>>
  BY DEF DecimalSteps
<1> HIDE DEF ends, x, y, z
<1> QED BY <1>1, <1>2, EndsThere2, EndsThere3

LEMMA RegisterEnds ==
    ASSUME NEW format, NEW d \in Difficulties, NEW p \in RegisterProblems(format, d)
    PROVE  EndsOnAnswer(p, RegisterSteps(p))
<1>1. CASE p.kind = "yes_no"
  BY <1>1, EndsTelling3 DEF RegisterSteps
<1>2. CASE p.kind # "yes_no"
  <2>1. PICK register \in DrawnRegisters(d) :
          p = Numeric("check_register", format,
                      [i \in DOMAIN register |-> Dollars(register[i])], Dollars(Balance(register)))
    <3>1. CASE format = "number_line"
      <4>1. PICK enough \in BOOLEAN :
              p = YesNo("check_register", format, "equal", Wholes(<<1, IF enough THEN 1 ELSE 0>>),
                        Whole(1))
        BY <3>1 DEF RegisterProblems
      <4> QED BY <1>2, <4>1 DEF YesNo, Numeric
    <3>2. CASE format # "number_line"
      BY <3>2 DEF RegisterProblems
    <3> QED BY <3>1, <3>2
  <2> DEFINE balance == Balance(register)
  <2>2. balance \in Int
    BY RegisterIs, BalanceIs
  <2>3. p.kind = "numeric" /\ p.answer = Rational(balance, 4)
    BY <2>1 DEF Numeric, Dollars
  <2> HIDE DEF balance
  <2>4. /\ Fraction(p.answer) /\ Lowest(p.answer) /\ 10000 % Den(p.answer) = 0
    <3>1. 4 \in Nat \ {0} /\ 10000 % 4 = 0
      OBVIOUS
    <3> QED BY <2>2, <2>3, <3>1, RationalFraction, LowestRational, ReducedDivides
  <2> DEFINE ends == Reveals({DecimalForm(p.answer)}, p.answer)
             x == Says({DecimalForm(p.operands[1])})
             y == Says({})
  <2>5. EndsOn(ends, p)
    BY <2>3, <2>4, EndsInDecimal
  <2>6. RegisterSteps(p) = <<x, y, ends>>
    BY <1>2 DEF RegisterSteps
  <2> HIDE DEF ends, x, y
  <2> QED BY <2>5, <2>6, EndsThere3
<1> QED BY <1>1, <1>2

LEMMA EquivalentRatiosEnds ==
    ASSUME NEW format, NEW d \in Difficulties, NEW p \in EquivalentRatiosProblems(format, d)
    PROVE  EndsOnAnswer(p, EquivalentRatiosSteps(p))
<1>0. Difficulties = 1..4
  BY DEF Difficulties
<1>1. RatioScales[d] \subseteq Int
  BY <1>0 DEF RatioScales
<1>2. PICK r \in (1..6) \X (1..6), k \in RatioScales[d] :
        p = Numeric("equivalent_ratios", format, Wholes(<<r[1], r[2], r[2] * k>>), Whole(r[1] * k))
  BY DEF EquivalentRatiosProblems
<1> DEFINE third == r[2] * k
<1>3. /\ r[1] \in Int /\ r[2] \in Int /\ r[2] \in Nat \ {0} /\ k \in Int /\ third \in Int
      /\ third \div r[2] = k
  <2>1. r[1] \in Int /\ r[2] \in Int /\ r[2] \in Nat \ {0} /\ k \in Int
    BY <1>1
  <2>2. (k * r[2]) \div r[2] = k /\ third = k * r[2]
    BY <2>1, ExactQuotient
  <2> QED BY <2>1, <2>2
<1>4. p.kind = "numeric" /\ p.answer = Whole(r[1] * k) /\ p.operands = Wholes(<<r[1], r[2], third>>)
  BY <1>2, NumericIs DEF Numeric
<1> HIDE DEF third
<1>5. Int1(p, 1) = r[1] /\ Int1(p, 2) = r[2] /\ Int1(p, 3) = third
  BY <1>3, <1>4, Wholes3 DEF Int1
<1>6. Whole(Int1(p, 1) * (Int1(p, 3) \div Int1(p, 2))) = p.answer
  BY <1>3, <1>4, <1>5
<1> DEFINE factor == Int1(p, 3) \div Int1(p, 2)
           x == Says({Whole(Int1(p, 2)), Whole(Int1(p, 3)), Whole(factor)})
           y == Says({Whole(Int1(p, 1)), Whole(factor)})
           forms == {Whole(Int1(p, 1) * factor)}
<1>7. EquivalentRatiosSteps(p) = <<x, y, Reveals(forms, p.answer)>>
  BY DEF EquivalentRatiosSteps
<1>8. p.answer \in forms
  BY <1>6
<1> HIDE DEF x, y, forms
<1> QED BY <1>4, <1>7, <1>8, EndsRevealing3

(* Of several units, the rate and their number; of one, the rate.          *)
LEMMA UnitRateEnds ==
    ASSUME NEW format, NEW d \in Difficulties, NEW p \in UnitRateProblems(format, d)
    PROVE  EndsOnAnswer(p, UnitRateSteps(p))
<1>0. Difficulties = 1..4
  BY DEF Difficulties
<1>1. RatePool[d] \subseteq Int /\ \A c \in RateScaleCounts : c \in Int /\ c \in Nat \ {0}
  BY <1>0 DEF RatePool, RateScaleCounts
<1>2. \/ \E rate \in RatePool[d], count \in 2..6 :
           p = Numeric("unit_rate", format, Wholes(<<rate * count, count, PerOneMode>>), Whole(rate))
      \/ \E rate \in RatePool[d],
            c \in {c \in RateScaleCounts \X RateScaleCounts : c[1] # c[2]} :
           p = Numeric("unit_rate", format, Wholes(<<rate * c[1], c[1], c[2], ScaleMode>>),
                       Whole(rate * c[2]))
  BY SMTT(30) DEF UnitRateProblems
<1>3. p.kind = "numeric" /\ p.kc = "unit_rate"
  <2>1. \E operands, answer : p = Numeric("unit_rate", format, operands, answer)
    BY <1>2
  <2> QED BY <2>1 DEF Numeric
<1>4. CASE Arity(p) # 4
  BY <1>3, <1>4, EndsRevealing3 DEF UnitRateSteps
<1>5. CASE Arity(p) = 4
  <2>1. PICK rate \in RatePool[d], c \in RateScaleCounts \X RateScaleCounts :
          p = Numeric("unit_rate", format, Wholes(<<rate * c[1], c[1], c[2], ScaleMode>>),
                      Whole(rate * c[2]))
    <3>1. ASSUME NEW rate \in RatePool[d], NEW count \in 2..6,
                 p = Numeric("unit_rate", format, Wholes(<<rate * count, count, PerOneMode>>),
                             Whole(rate))
          PROVE  FALSE
      <4>1. p.operands = Wholes(<<rate * count, count, PerOneMode>>)
        BY <3>1, NumericIs
      <4>2. rate * count \in Int /\ count \in Int /\ PerOneMode \in Int
        BY <1>1 DEF PerOneMode
      <4> QED BY <1>5, <4>1, <4>2, Wholes3 DEF Arity
    <3> QED BY <1>2, <3>1
  <2> DEFINE m == c[1]
             n == c[2]
             total == rate * m
  <2>2. rate \in Int /\ m \in Int /\ m \in Nat \ {0} /\ n \in Int /\ ScaleMode \in Int
    BY <1>1 DEF ScaleMode
  <2>3. total \in Int
    BY <2>2
  <2>4. p.answer = Whole(rate * n) /\ p.operands = Wholes(<<total, m, n, ScaleMode>>)
    BY <2>1, NumericIs
  <2> DEFINE each == Over(Whole(Int1(p, 1)), Whole(Int1(p, 2)))
  <2>5. each = Whole(rate)
    <3>1. Int1(p, 1) = total /\ Int1(p, 2) = m
      <4> HIDE DEF total, m, n
      <4> QED BY <2>2, <2>3, <2>4, Wholes4 DEF Int1
    <3>2. Over(Whole(total), Whole(m)) = Rational(total * 1, 1 * m)
      BY DEF Over, Whole, Num, Den
    <3>3. total * 1 = m * rate /\ 1 * m = m * 1
      BY <2>2
    <3>4. Rational(m * rate, m * 1) = Rational(rate, 1)
      BY <2>2, RationalScale
    <3> QED BY <2>2, <3>1, <3>2, <3>3, <3>4, RationalWhole
  <2>6. p.operands[3] = Whole(n)
    <3> HIDE DEF total, m, n
    <3> QED BY <2>2, <2>3, <2>4, Wholes4
  <2>7. Times(each, p.operands[3]) = p.answer
    <3>1. Times(Whole(rate), Whole(n)) = Rational(rate * n, 1)
      BY DEF Times, Whole, Num, Den
    <3>2. rate * n \in Int
      BY <2>2
    <3> QED BY <2>4, <2>5, <2>6, <3>1, <3>2, RationalWhole
  <2> DEFINE forms == {each, p.operands[3]}
             last == Reveals(forms, p.answer)
             x == Says({Whole(Int1(p, 1)), Whole(Int1(p, 2))})
             y == Says(forms)
  <2>8. UnitRateSteps(p) = <<x, y, last>>
    BY <1>5 DEF UnitRateSteps
  <2> HIDE DEF each, x, y
  <2>9. last.reveals = p.answer /\ each \in last.writes /\ p.operands[3] \in last.writes
    BY RevealsIs
  <2> HIDE DEF last
  <2>10. EndsOn(last, p)
    BY <1>3, <1>5, <2>7, <2>9 DEF EndsOn, OfSeveralUnits
  <2> QED BY <2>8, <2>10, EndsThere3
<1> QED BY <1>4, <1>5


(* The walk of any drawn problem is the one its lesson registers.          *)
LEMMA WalksEnd ==
    ASSUME NEW kc \in Lessons, NEW format, NEW d \in Difficulties,
           NEW p \in GenerateProblem(kc, format, d)
    PROVE  \/ /\ WorkedExampleFor(p) = Unbuildable
              /\ p.kind = "yes_no" /\ p.kc \in {"equivalence", "number_line_placement"}
           \/ EndsOnAnswer(p, WorkedExampleFor(p))
<1> USE DEF Judged, SometimesJudged, Expressions, OnThePlane
<1>0. p.kc = kc /\ p.kind \in Kinds(kc)
  BY GeneratedOf DEF Of
<1>1. CASE kc = "equivalence"
  BY <1>0, <1>1, EquivalenceEnds DEF GenerateProblem, WorkedExampleFor
<1>2. CASE kc = "common_denominator"
  BY <1>0, <1>2, CommonDenominatorEnds DEF GenerateProblem, WorkedExampleFor
<1>3. CASE kc = "addition_unlike"
  BY <1>0, <1>3, AdditionEnds DEF GenerateProblem, WorkedExampleFor
<1>4. CASE kc = "subtraction_unlike"
  BY <1>0, <1>4, SubtractionEnds DEF GenerateProblem, WorkedExampleFor
<1>5. CASE kc = "number_line_placement"
  BY <1>0, <1>5, NumberLineEnds DEF GenerateProblem, WorkedExampleFor
<1>6. CASE kc = "multiply_fractions"
  BY <1>0, <1>6, MultiplyEnds DEF WorkedExampleFor, Kinds
<1>7. CASE kc = "divide_fractions"
  BY <1>0, <1>7, DivideEnds DEF WorkedExampleFor, Kinds
<1>8. CASE kc = "ratio_language"
  BY <1>0, <1>8, RatioLanguageEnds DEF WorkedExampleFor, Kinds
<1>9. CASE kc = "unit_rate"
  BY <1>0, <1>9, UnitRateEnds DEF GenerateProblem, WorkedExampleFor
<1>10. CASE kc = "better_buy"
  BY <1>0, <1>10, BetterBuyEnds DEF WorkedExampleFor, Kinds
<1>11. CASE kc = "equivalent_ratios"
  BY <1>0, <1>11, EquivalentRatiosEnds DEF GenerateProblem, WorkedExampleFor
<1>12. CASE kc = "percent"
  BY <1>0, <1>12, PercentEnds DEF WorkedExampleFor, Kinds
<1>13. CASE kc = "unit_conversion"
  BY <1>0, <1>13, UnitConversionEnds DEF WorkedExampleFor, Kinds
<1>14. CASE kc = "gcf_lcm"
  BY <1>0, <1>14, GcfLcmEnds DEF WorkedExampleFor, Kinds
<1>15. CASE kc = "multi_digit_division"
  BY <1>0, <1>15, DivisionEnds DEF WorkedExampleFor, Kinds
<1>16. CASE kc = "decimal_operations"
  BY <1>0, <1>16, DecimalEnds DEF GenerateProblem, WorkedExampleFor
<1>17. CASE kc = "absolute_value"
  BY <1>0, <1>17, AbsoluteEnds DEF WorkedExampleFor, Kinds
<1>18. CASE kc = "integer_add_subtract"
  BY <1>0, <1>18, IntegerAddEnds DEF WorkedExampleFor, Kinds
<1>19. CASE kc = "signed_numbers"
  BY <1>0, <1>19, OppositeEnds DEF WorkedExampleFor, Kinds
<1>20. CASE kc = "integer_multiply_divide"
  BY <1>0, <1>20, IntegerProductEnds DEF WorkedExampleFor, Kinds
<1>21. CASE kc = "classify_number_sets"
  BY <1>0, <1>21, ClassifyEnds DEF WorkedExampleFor, Kinds
<1>22. CASE kc = "summary_statistics"
  BY <1>0, <1>22, SummaryEnds DEF WorkedExampleFor, Kinds
<1>23. CASE kc = "data_displays"
  BY <1>0, <1>23, DisplayEnds DEF WorkedExampleFor, Kinds
<1>24. CASE kc = "categorical_data"
  BY <1>0, <1>24, CategoricalEnds DEF WorkedExampleFor, Kinds
<1>25. CASE kc = "mean_absolute_deviation"
  BY <1>0, <1>25, DeviationEnds DEF WorkedExampleFor, Kinds
<1>26. CASE kc = "center_spread_shape"
  BY <1>0, <1>26, SpreadEnds DEF WorkedExampleFor, Kinds
<1>27. CASE kc = "statistical_questions"
  BY <1>0, <1>27, StatisticalEnds DEF WorkedExampleFor, Kinds
<1>28. CASE kc = "write_expressions"
  BY <1>0, <1>28, WriteEnds DEF WorkedExampleFor, Kinds
<1>29. CASE kc = "equivalent_expressions"
  BY <1>0, <1>29, EquivalentEnds DEF WorkedExampleFor, Kinds
<1>30. CASE kc = "inequalities"
  BY <1>0, <1>30, InequalityEnds DEF WorkedExampleFor, Kinds
<1>31. CASE kc = "evaluate_expressions"
  BY <1>0, <1>31, EvaluateEnds DEF WorkedExampleFor, Kinds
<1>32. CASE kc = "exponents"
  BY <1>0, <1>32, ExponentEnds DEF WorkedExampleFor, Kinds
<1>33. CASE kc = "one_step_equations"
  BY <1>0, <1>33, OneStepEnds DEF WorkedExampleFor, Kinds
<1>34. CASE kc = "equation_solutions"
  BY <1>0, <1>34, EquationEnds DEF WorkedExampleFor, Kinds
<1>35. CASE kc = "dependent_vars"
  BY <1>0, <1>35, DependentEnds DEF GenerateProblem, WorkedExampleFor
<1>36. CASE kc = "expression_parts"
  BY <1>0, <1>36, PartsEnds DEF WorkedExampleFor, Kinds
<1>37. CASE kc = "triangle_properties"
  BY <1>0, <1>37, TriangleEnds DEF WorkedExampleFor, Kinds
<1>38. CASE kc = "area_polygons"
  BY <1>0, <1>38, AreaEnds DEF WorkedExampleFor, Kinds
<1>39. CASE kc = "volume_fractional_edges"
  BY <1>0, <1>39, VolumeEnds DEF WorkedExampleFor, Kinds
<1>40. CASE kc = "surface_area_nets"
  BY <1>0, <1>40, SurfaceEnds DEF WorkedExampleFor, Kinds
<1>41. CASE kc = "coordinate_plane"
  BY <1>0, <1>41, CoordinateEnds DEF WorkedExampleFor, Kinds
<1>42. CASE kc = "polygons_coordinate_plane"
  BY <1>0, <1>42, CoordinateEnds DEF WorkedExampleFor, Kinds
<1>43. CASE kc = "check_register"
  BY <1>0, <1>43, RegisterEnds DEF GenerateProblem, WorkedExampleFor
<1>44. CASE kc = "lifetime_income"
  BY <1>0, <1>44, IncomeEnds DEF WorkedExampleFor, Kinds
<1> QED
  BY <1>1, <1>2, <1>3, <1>4, <1>5, <1>6, <1>7, <1>8, <1>9, <1>10, <1>11, <1>12,
     <1>13, <1>14, <1>15, <1>16, <1>17, <1>18, <1>19, <1>20, <1>21, <1>22, <1>23,
     <1>24, <1>25, <1>26, <1>27, <1>28, <1>29, <1>30, <1>31, <1>32, <1>33, <1>34,
     <1>35, <1>36, <1>37, <1>38, <1>39, <1>40, <1>41, <1>42, <1>43, <1>44
     DEF Lessons, SymbolicOnly, OnTheLine, WithAreas, InStories

(* Whatever problem is drawn, its worked example ends on the answer the    *)
(* verifier compares with: the last step reveals it and writes a number of *)
(* its value (worked_example.py _STEP_BUILDERS).  The rate of several units*)
(* is written as its two factors; only the stories and comparisons of two  *)
(* fractions have no example.                                              *)
THEOREM SpecWorkedEndsOnAnswer == Spec => []WorkedEndsOnAnswer
<1>1. ItemInv => WorkedEndsOnAnswer
  <2> SUFFICES ASSUME ItemInv, NEW p \in items
               PROVE  LET steps == WorkedExampleFor(p)
                      IN  IF steps = Unbuildable
                          THEN p.kind = "yes_no"
                               /\ p.kc \in {"equivalence", "number_line_placement"}
                          ELSE EndsOn(steps[Len(steps)], p)
    BY DEF WorkedEndsOnAnswer
  <2>1. Drawn(p)
    BY DEF ItemInv
  <2>2. PICK kc \in Served, d \in Difficulties : \E format \in LiveFormats(kc) :
               p \in GenerateProblem(kc, format, d)
    BY <2>1 DEF Drawn
  <2>3. PICK format \in LiveFormats(kc) : p \in GenerateProblem(kc, format, d)
    BY <2>2
  <2>4. kc \in Lessons
    BY ItemAssumption
  <2> DEFINE steps == WorkedExampleFor(p)
  <2>5. \/ /\ steps = Unbuildable
           /\ p.kind = "yes_no" /\ p.kc \in {"equivalence", "number_line_placement"}
        \/ EndsOnAnswer(p, steps)
    BY <2>3, <2>4, WalksEnd
  <2> HIDE DEF steps
  <2>6. IF steps = Unbuildable
        THEN p.kind = "yes_no" /\ p.kc \in {"equivalence", "number_line_placement"}
        ELSE EndsOn(steps[Len(steps)], p)
    BY <2>5 DEF EndsOnAnswer, LastStep
  <2> QED BY <2>6 DEF steps
<1> QED BY <1>1, SpecItem, PTL
================================================================================
