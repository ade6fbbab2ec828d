--------------------------- MODULE ProofArithmetic ---------------------------
(***************************************************************************)
(* Facts about numbers that the proofs rest on: positions that are stored  *)
(* modulo the length of a ring, rounding up, two numbers packed into one,  *)
(* and induction over the natural numbers in the form of a least element,  *)
(* which is the one the provers can use.                                   *)
(***************************************************************************)
EXTENDS Integers, TLAPS, WellFoundedInduction

(* A quotient and a remainder in range determine the remainder.            *)
LEMMA ModUnique ==
  ASSUME NEW S \in Nat \ {0}, NEW q \in Int, NEW r \in 0 .. S - 1
  PROVE  (S * q + r) % S = r
  BY SMT

(* ... and the quotient.                                                   *)
LEMMA DivUnique ==
  ASSUME NEW S \in Nat \ {0}, NEW q \in Int, NEW r \in 0 .. S - 1
  PROVE  ((S * q + r) \div S) = q
  BY SMT

(* Every position splits into laps around the ring and a stage.            *)
LEMMA ModDecompose ==
  ASSUME NEW S \in Nat \ {0}, NEW n \in Nat
  PROVE  /\ (n % S) \in 0 .. S - 1
         /\ (n \div S) \in Nat
         /\ n = S * (n \div S) + (n % S)
  BY SMT

(* Dividing by a positive number never increases a position.               *)
LEMMA DivBound ==
  ASSUME NEW S \in Nat \ {0}, NEW n \in Nat
  PROVE  (n \div S) \in Nat /\ (n \div S) <= n
<1> DEFINE q == n \div S
           r == n % S
<1>1. r \in 0 .. S - 1 /\ q \in Nat /\ n = S * q + r
  BY ModDecompose
<1> HIDE DEF q, r
<1>2. PICK d \in Nat : S = d + 1
  <2>1. S - 1 \in Nat /\ S = (S - 1) + 1
    OBVIOUS
  <2> QED BY <2>1
<1>3. S * q = d * q + q /\ d * q \in Nat
  BY <1>1, <1>2
<1> QED BY <1>1, <1>3 DEF q

(* A position inside the first lap is its own stage.                       *)
LEMMA ModSmall ==
  ASSUME NEW S \in Nat \ {0}, NEW n \in 0 .. S - 1
  PROVE  (n % S) = n
  BY SMT

(* The next position's stage, computed the way the ring code wraps it.     *)
LEMMA ModSucc ==
  ASSUME NEW S \in Nat \ {0}, NEW n \in Nat
  PROVE  ((n + 1) % S) = IF (n % S) + 1 = S THEN 0 ELSE (n % S) + 1
<1> DEFINE q == n \div S
           r == n % S
<1>1. r \in 0 .. S - 1 /\ q \in Nat /\ n = S * q + r
  BY ModDecompose
<1> HIDE DEF q, r
<1>2. CASE r + 1 = S
  <2>1. n + 1 = S * (q + 1) + 0
    BY <1>1, <1>2
  <2>2. 0 \in 0 .. S - 1 /\ q + 1 \in Int
    BY <1>1
  <2>3. ((n + 1) % S) = 0
    BY <2>1, <2>2, ModUnique
  <2> QED BY <2>3, <1>2 DEF r
<1>3. CASE r + 1 # S
  <2>1. n + 1 = S * q + (r + 1)
    BY <1>1
  <2>2. r + 1 \in 0 .. S - 1 /\ q \in Int
    BY <1>1, <1>3
  <2>3. ((n + 1) % S) = r + 1
    BY <2>1, <2>2, ModUnique
  <2> QED BY <2>3, <1>3 DEF r
<1> QED BY <1>2, <1>3

(* One whole lap returns to the same stage.                                *)
LEMMA ModPeriod ==
  ASSUME NEW S \in Nat \ {0}, NEW n \in Nat
  PROVE  ((n + S) % S) = (n % S)
<1> DEFINE q == n \div S
           r == n % S
<1>1. r \in 0 .. S - 1 /\ q \in Nat /\ n = S * q + r
  BY ModDecompose
<1> HIDE DEF q, r
<1>2. n + S = S * (q + 1) + r /\ q + 1 \in Int
  BY <1>1
<1>3. ((n + S) % S) = r
  BY <1>1, <1>2, ModUnique
<1> QED BY <1>3 DEF r

(* Two positions less than a lap apart never share a stage.                *)
LEMMA ModDistinct ==
  ASSUME NEW S \in Nat \ {0}, NEW m \in Nat, NEW n \in Nat, m < n, n < m + S
  PROVE  (m % S) # (n % S)
<1> DEFINE q == m \div S
           r == m % S
           d == n - m
<1>1. r \in 0 .. S - 1 /\ q \in Nat /\ m = S * q + r
  BY ModDecompose
<1>2. d \in 1 .. S - 1 /\ n = S * q + (r + d)
  BY <1>1
<1> HIDE DEF q, r, d
<1>3. CASE r + d < S
  <2>1. r + d \in 0 .. S - 1 /\ q \in Int
    BY <1>1, <1>2, <1>3
  <2>2. (n % S) = r + d
    BY <2>1, <1>2, ModUnique
  <2> QED BY <2>2, <1>1, <1>2 DEF r
<1>4. CASE r + d >= S
  <2>1. r + d - S \in 0 .. S - 1 /\ q + 1 \in Int
    BY <1>1, <1>2, <1>4
  <2>2. n = S * (q + 1) + (r + d - S)
    BY <1>1, <1>2
  <2>3. (n % S) = r + d - S
    BY <2>1, <2>2, ModUnique
  <2> QED BY <2>3, <1>1, <1>2 DEF r
<1> QED BY <1>1, <1>2, <1>3, <1>4

(* Dividing a range of a * b values into steps of a gives b of them.       *)
LEMMA DivRange ==
  ASSUME NEW a \in Nat \ {0}, NEW b \in Nat, NEW k \in 0 .. a * b - 1
  PROVE  (k \div a) \in 0 .. b - 1
<1> DEFINE q == k \div a
           r == k % a
<1>1. k \in Nat /\ a * b \in Nat
  OBVIOUS
<1>2. r \in 0 .. a - 1 /\ q \in Nat /\ k = a * q + r
  BY <1>1, ModDecompose
<1> HIDE DEF q, r
<1>3. CASE q >= b
  <2>1. PICK d \in Nat : q = b + d
    BY <1>2, <1>3
  <2>2. a * q = a * b + a * d /\ a * d \in Nat
    BY <2>1
  <2> QED BY <2>2, <1>2, <1>1
<1> QED BY <1>2, <1>3 DEF q
-----------------------------------------------------------------------------
RoundUp(a, S) == (a + S - 1) \div S

(* Multiplication by a positive number keeps the order.                    *)
LEMMA TimesMono ==
  ASSUME NEW S \in Nat \ {0}, NEW p \in Int, NEW q \in Int
  PROVE  /\ p <= q => S * p <= S * q
         /\ p < q => S * p + S <= S * q
  BY SMT

(* Rounding up gives a natural number, positive for a positive one.        *)
LEMMA RoundUpType ==
  ASSUME NEW a \in Nat, NEW S \in Nat \ {0}
  PROVE  RoundUp(a, S) \in Nat /\ (a > 0 => RoundUp(a, S) >= 1)
<1> DEFINE n == a + S - 1
           q == n \div S
           r == n % S
<1>1. n \in Nat
  OBVIOUS
<1>2. r \in 0 .. S - 1 /\ q \in Nat /\ n = S * q + r
  BY <1>1, ModDecompose
<1>3. RoundUp(a, S) = q
  BY DEF RoundUp
<1>4. q = 0 => S * q = 0
  BY <1>2
<1> HIDE DEF q, r
<1>5. a > 0 => q >= 1
  BY <1>2, <1>4
<1> QED BY <1>2, <1>3, <1>5

(* A tile below the rounded quotient begins inside, and the others beyond. *)
LEMMA RoundUpCovers ==
  ASSUME NEW a \in Nat, NEW S \in Nat \ {0}, NEW m \in Int
  PROVE  m < RoundUp(a, S) <=> m * S < a
<1> DEFINE n == a + S - 1
           q == n \div S
           r == n % S
<1>1. n \in Nat
  OBVIOUS
<1>2. r \in 0 .. S - 1 /\ q \in Nat /\ n = S * q + r
  BY <1>1, ModDecompose
<1>3. RoundUp(a, S) = q
  BY DEF RoundUp
<1>4. m * S = S * m
  OBVIOUS
<1> HIDE DEF q, r
<1>5. m < q => S * m + S <= S * q
  BY <1>2, TimesMono
<1>6. q <= m => S * q <= S * m
  BY <1>2, TimesMono
<1>7. S * m \in Int /\ S * q \in Int
  BY <1>2
<1>8. CASE m < q
  BY <1>2, <1>3, <1>4, <1>5, <1>7, <1>8
<1>9. CASE q <= m
  BY <1>2, <1>3, <1>4, <1>6, <1>7, <1>9
<1> QED BY <1>2, <1>8, <1>9

(* Rounding up keeps the order.                                            *)
LEMMA RoundUpMono ==
  ASSUME NEW a \in Nat, NEW c \in Nat, NEW S \in Nat \ {0}, a <= c
  PROVE  RoundUp(a, S) <= RoundUp(c, S)
<1>1. RoundUp(a, S) \in Nat /\ RoundUp(c, S) \in Nat
  BY RoundUpType
<1> DEFINE m == RoundUp(a, S) - 1
<1>2. m \in Int /\ m < RoundUp(a, S) /\ m * S \in Int
  BY <1>1
<1> HIDE DEF m
<1>3. m * S < a
  BY <1>2, RoundUpCovers
<1>4. m < RoundUp(c, S)
  BY <1>2, <1>3, RoundUpCovers
<1> QED BY <1>1, <1>4 DEF m

(* A number below a product splits into its two packed parts.              *)
LEMMA Unpack ==
  ASSUME NEW a \in Nat, NEW S \in Nat \ {0}, NEW n \in 0 .. a * S - 1
  PROVE  /\ n \div S \in 0 .. a - 1
         /\ (n % S) \in 0 .. S - 1
         /\ n = S * (n \div S) + (n % S)
<1> DEFINE q == n \div S
           r == n % S
<1>1. a * S \in Int /\ a * S = S * a
  OBVIOUS
<1>2. n \in Nat /\ n < S * a
  BY <1>1
<1>3. r \in 0 .. S - 1 /\ q \in Nat /\ n = S * q + r
  BY <1>2, ModDecompose
<1> HIDE DEF q, r
<1>4. a <= q => S * a <= S * q
  BY <1>3, TimesMono
<1>5. S * a \in Int /\ S * q \in Int
  BY <1>3
<1>6. q < a
  BY <1>2, <1>3, <1>4, <1>5
<1> QED BY <1>3, <1>6 DEF q, r

(* What was packed is what is unpacked.                                    *)
LEMMA PackUnpack ==
  ASSUME NEW S \in Nat \ {0}, NEW e \in 0 .. S - 1, NEW s \in Nat
  PROVE  (e + s * S) \div S = s /\ (e + s * S) % S = e
<1>1. e + s * S = S * s + e
  OBVIOUS
<1> QED BY <1>1, DivUnique, ModUnique

(* Two numbers with the same parts are one.                                *)
LEMMA SameParts ==
  ASSUME NEW S \in Nat \ {0}, NEW m \in Nat, NEW n \in Nat,
         m \div S = n \div S, (m % S) = (n % S)
  PROVE  m = n
  BY ModDecompose
-----------------------------------------------------------------------------
(* A set of natural numbers has a least one.                               *)
LEMMA LeastNumber ==
  ASSUME NEW T, T \subseteq Nat, T # {}
  PROVE  \E x \in T : \A y \in T : x <= y
<1> DEFINE R == OpToRel(<, Nat)
<1>1. IsWellFoundedOn(R, Nat)
  BY NatLessThanWellFounded
<1>2. R = {ss \in Nat \X Nat : ss[1] < ss[2]}
  BY DEF OpToRel
<1> HIDE DEF R
<1>3. PICK x \in T : \A y \in T : ~ (<<y, x>> \in R)
  BY <1>1, WFMin
<1>4. ASSUME NEW y \in T PROVE x <= y
  <2>1. x \in Nat /\ y \in Nat /\ <<y, x>> \in Nat \X Nat /\ <<y, x>>[1] = y /\ <<y, x>>[2] = x
    OBVIOUS
  <2>2. y < x => <<y, x>> \in R
    BY <1>2, <2>1
  <2> QED BY <1>3, <2>1, <2>2
<1> QED BY <1>4

(* Induction up to n.                                                      *)
LEMMA CountUp ==
  ASSUME NEW n \in Nat, NEW S, 0 \in S, \A i \in 0 .. n - 1 : i \in S => i + 1 \in S
  PROVE  0 .. n \subseteq S
<1> DEFINE T == 0 .. n \ S
<1>1. SUFFICES ASSUME T # {} PROVE FALSE
  OBVIOUS
<1>2. PICK x \in T : \A y \in T : x <= y
  <2>1. T \subseteq Nat
    OBVIOUS
  <2> HIDE DEF T
  <2> QED BY <1>1, <2>1, LeastNumber
<1>3. x \in 0 .. n /\ x \notin S /\ x # 0
  BY <1>2
<1>4. x - 1 \in 0 .. n - 1 /\ x - 1 \notin T
  BY <1>2, <1>3
<1> QED BY <1>3, <1>4

(* A function that starts at or below v and ends above it passes v.        *)
LEMMA Passes ==
  ASSUME NEW n \in Nat, NEW f \in [0 .. n -> Int], NEW v \in Int, f[0] <= v, v < f[n]
  PROVE  \E i \in 0 .. n - 1 : f[i] <= v /\ v < f[i + 1]
<1> DEFINE S == {i \in 0 .. n : f[i] <= v}
<1>1. SUFFICES ASSUME \A i \in 0 .. n - 1 : ~(f[i] <= v /\ v < f[i + 1]) PROVE FALSE
  OBVIOUS
<1>2. 0 \in S
  OBVIOUS
<1>3. ASSUME NEW i \in 0 .. n - 1, i \in S PROVE i + 1 \in S
  <2>1. i + 1 \in 0 .. n /\ f[i] <= v
    BY <1>3
  <2> QED BY <1>1, <2>1
<1> HIDE DEF S
<1>4. 0 .. n \subseteq S
  BY <1>2, <1>3, CountUp
<1>5. n \in 0 .. n
  OBVIOUS
<1> QED BY <1>4, <1>5 DEF S

(* A function that never goes down from one argument to the next is        *)
(* monotone.                                                               *)
LEMMA Climbs ==
  ASSUME NEW n \in Nat, NEW f \in [0 .. n -> Int], \A i \in 0 .. n - 1 : f[i] <= f[i + 1],
         NEW j \in 0 .. n, NEW i \in 0 .. j
  PROVE  f[i] <= f[j]
<1> DEFINE S == {d \in 0 .. n : i + d <= n => f[i] <= f[i + d]}
<1>1. 0 \in S
  <2>1. i \in 0 .. n /\ i + 0 = i /\ f[i] \in Int
    OBVIOUS
  <2> QED BY <2>1
<1>2. ASSUME NEW d \in 0 .. n - 1, d \in S PROVE d + 1 \in S
  <2>1. ASSUME i + (d + 1) <= n PROVE f[i] <= f[i + (d + 1)]
    <3>1. i + d \in 0 .. n - 1 /\ i + d \in 0 .. n /\ i + (d + 1) = (i + d) + 1
          /\ (i + d) + 1 \in 0 .. n /\ i \in 0 .. n
      BY <2>1
    <3>2. f[i] <= f[i + d]
      BY <1>2, <3>1
    <3>3. f[i + d] <= f[(i + d) + 1]
      BY <3>1
    <3>4. f[i] \in Int /\ f[i + d] \in Int /\ f[(i + d) + 1] \in Int
      BY <3>1
    <3> QED BY <3>1, <3>2, <3>3, <3>4
  <2> QED BY <2>1
<1> HIDE DEF S
<1>3. 0 .. n \subseteq S
  BY <1>1, <1>2, CountUp
<1>4. j - i \in 0 .. n /\ i + (j - i) = j
  OBVIOUS
<1>5. j - i \in S
  BY <1>3, <1>4
<1> QED BY <1>4, <1>5 DEF S
-----------------------------------------------------------------------------
(* f starts at base, and step i makes f[i] of f[i - 1].                    *)
Iterates(f, S, base, step, n) ==
  f \in [0 .. n -> S] /\ f[0] = base /\ \A i \in 1 .. n : f[i] = step[i][f[i - 1]]

(* One more step.                                                          *)
LEMMA IterateOnce ==
  ASSUME NEW S, NEW base, NEW n \in Nat, NEW step \in [1 .. n + 1 -> [S -> S]],
         NEW f, Iterates(f, S, base, step, n)
  PROVE  \E g : Iterates(g, S, base, step, n + 1)
<1> DEFINE g == [i \in 0 .. n + 1 |-> IF i = n + 1 THEN step[n + 1][f[n]] ELSE f[i]]
<1>1. f \in [0 .. n -> S] /\ f[0] = base /\ \A i \in 1 .. n : f[i] = step[i][f[i - 1]]
  BY DEF Iterates
<1>2. step[n + 1][f[n]] \in S
  BY <1>1
<1>3. g \in [0 .. n + 1 -> S]
  BY <1>1, <1>2
<1>4. g[0] = f[0] /\ g[n + 1] = step[n + 1][f[n]] /\ \A i \in 0 .. n : g[i] = f[i]
  OBVIOUS
<1> HIDE DEF g
<1>5. ASSUME NEW i \in 1 .. n + 1 PROVE g[i] = step[i][g[i - 1]]
  <2>1. CASE i = n + 1
    <3>1. n \in 0 .. n /\ g[n] = f[n] /\ i - 1 = n
      BY <1>4, <2>1
    <3> QED BY <1>4, <2>1, <3>1
  <2>2. CASE i # n + 1
    <3>1. i \in 1 .. n /\ i - 1 \in 0 .. n /\ i \in 0 .. n
      BY <2>2
    <3>2. g[i] = f[i] /\ g[i - 1] = f[i - 1]
      BY <1>4, <3>1
    <3>3. f[i] = step[i][f[i - 1]]
      BY <1>1, <3>1
    <3> QED BY <3>2, <3>3
  <2> QED BY <2>1, <2>2
<1> QED BY <1>1, <1>3, <1>4, <1>5 DEF Iterates

(* A recursive function exists: what a definition f[i] == .. f[i - 1] ..   *)
(* chooses is there to be chosen.                                          *)
LEMMA StepsRecur ==
  ASSUME NEW S, NEW base \in S, NEW n \in Nat, NEW step \in [1 .. n -> [S -> S]]
  PROVE  \E f : Iterates(f, S, base, step, n)
<1> DEFINE Done == {m \in 0 .. n : \E f : Iterates(f, S, base, step, m)}
<1>1. 0 \in Done
  <2>1. Iterates([i \in 0 .. 0 |-> base], S, base, step, 0)
    BY DEF Iterates
  <2> QED BY <2>1
<1>2. ASSUME NEW p \in 0 .. n - 1, p \in Done PROVE p + 1 \in Done
  <2>1. PICK f : Iterates(f, S, base, step, p)
    BY <1>2
  <2> DEFINE short == [i \in 1 .. p + 1 |-> step[i]]
  <2>2. short \in [1 .. p + 1 -> [S -> S]] /\ \A i \in 1 .. p + 1 : short[i] = step[i]
    OBVIOUS
  <2> HIDE DEF short
  <2>3. Iterates(f, S, base, short, p)
    <3>1. \A i \in 1 .. p : short[i] = step[i]
      BY <2>2
    <3> QED BY <2>1, <3>1 DEF Iterates
  <2>4. PICK g : Iterates(g, S, base, short, p + 1)
    BY <2>2, <2>3, IterateOnce
  <2>5. Iterates(g, S, base, step, p + 1)
    BY <2>2, <2>4 DEF Iterates
  <2> QED BY <2>5
<1> HIDE DEF Done
<1>3. 0 .. n \subseteq Done
  BY <1>1, <1>2, CountUp
<1>4. n \in Done
  BY <1>3
<1> QED BY <1>4 DEF Done
=============================================================================
