----------------------------- MODULE PowersProofs -----------------------------
(***************************************************************************)
(* Induction over the naturals as a fact about sets, with what follows from *)
(* it for recursive functions: that they exist, if some measure of the      *)
(* argument falls, and what PowerOf2 is.  The other proofs take their       *)
(* inductions from here.                                                    *)
(***************************************************************************)
EXTENDS Powers, FiniteSetTheorems, WellFoundedInduction, TLAPS

(* A set of naturals has a least element: the intervals below its elements    *)
(* are finite sets, which inclusion orders well.                            *)
LEMMA LeastElement ==
    ASSUME NEW T, T \subseteq Nat, T # {}
    PROVE  \E m \in T : \A n \in T : m <= n
<1> DEFINE Below == {0 .. n : n \in T}
<1>1. Below \subseteq FiniteSubsetsOf(Nat)
  <2>1. SUFFICES ASSUME NEW n \in T PROVE 0 .. n \in SUBSET Nat /\ IsFiniteSet(0 .. n)
    BY DEF FiniteSubsetsOf
  <2>2. QED
    BY FS_Interval
<1>2. IsWellFoundedOn(StrictSubsetOrdering(Nat), FiniteSubsetsOf(Nat))
  BY FS_StrictSubsetOrderingWellFounded
<1>3. PICK U \in Below : \A V \in Below : <<V, U>> \notin StrictSubsetOrdering(Nat)
  <2>1. Below # {}
    OBVIOUS
  <2> HIDE DEF Below
  <2>2. QED
    BY <1>1, <1>2, <2>1, WFMin
<1>4. PICK m \in T : U = 0 .. m
  BY <1>3
<1>5. ASSUME NEW n \in T, ~(m <= n) PROVE FALSE
  <2>1. 0 .. n \in Below /\ <<0 .. n, 0 .. m>> \notin StrictSubsetOrdering(Nat)
    BY <1>3, <1>4
  <2>2. 0 .. n \subseteq 0 .. m /\ 0 .. n # 0 .. m
    BY <1>5
  <2>3. 0 .. n \in SUBSET Nat /\ 0 .. m \in SUBSET Nat
    OBVIOUS
  <2>4. QED
    BY <2>1, <2>2, <2>3 DEF StrictSubsetOrdering
<1>6. QED
  BY <1>5

(* What holds of 0 and, with a number, of the next holds of all.             *)
LEMMA SetInduction ==
    ASSUME NEW S, 0 \in S, \A n \in Nat : n \in S => n + 1 \in S
    PROVE  Nat \subseteq S
<1> DEFINE T == {n \in Nat : n \notin S}
<1>1. SUFFICES ASSUME T # {} PROVE FALSE
  OBVIOUS
<1>2. PICK m \in T : \A n \in T : m <= n
  <2>1. T \subseteq Nat
    OBVIOUS
  <2> HIDE DEF T
  <2>2. QED
    BY <1>1, <2>1, LeastElement
<1>3. m # 0 /\ m - 1 \in Nat /\ m - 1 \notin T
  BY <1>2
<1>4. QED
  BY <1>2, <1>3

\* A recursion over D with values in V: it gives base where it stops, and
\* calls itself on pred, of a smaller measure m, where it does not.
Recursion(D, V, stop, m, base, pred, step) ==
    /\ m \in [D -> Nat] /\ base \in [D -> V] /\ pred \in [D -> D] /\ step \in [D \X V -> V]
    /\ \A x \in D : x \notin stop => m[pred[x]] < m[x]

Solves(f, D, stop, base, pred, step) ==
    \A x \in D : f[x] = IF x \in stop THEN base[x] ELSE step[<<x, f[pred[x]]>>]

(* A function that calls itself once, on an argument of a smaller measure,    *)
(* or not at all, is there.                                                 *)
LEMMA RecursionEnds ==
    ASSUME NEW D, NEW V, NEW stop, NEW m, NEW base, NEW pred, NEW step,
           Recursion(D, V, stop, m, base, pred, step)
    PROVE  \E f \in [D -> V] : Solves(f, D, stop, base, pred, step)
<1>a. /\ m \in [D -> Nat] /\ base \in [D -> V] /\ pred \in [D -> D] /\ step \in [D \X V -> V]
      /\ \A x \in D : x \notin stop => m[pred[x]] < m[x]
  BY DEF Recursion
<1> DEFINE Up(n)    == {x \in D : m[x] < n}
           Is(g, x) == g[x] = IF x \in stop THEN base[x] ELSE step[<<x, g[pred[x]]>>]
           Sol(n)   == {g \in [Up(n) -> V] : \A x \in Up(n) : Is(g, x)}
<1>1. ASSUME NEW x \in D, x \notin stop, NEW n \in Nat, m[x] < n + 1
      PROVE  pred[x] \in Up(n)
  BY <1>a, <1>1
<1>2. ASSUME NEW n \in Nat PROVE \E g : g \in Sol(n)
  <2> DEFINE S == {k \in Nat : \E g : g \in Sol(k)}
  <2>1. 0 \in S
    <3>1. Up(0) = {}
      BY <1>a
    <3>2. [x \in Up(0) |-> base[x]] \in Sol(0)
      BY <1>a, <3>1
    <3>3. QED
      BY <3>2
  <2>2. ASSUME NEW k \in Nat, k \in S PROVE k + 1 \in S
    <3>1. PICK g : g \in Sol(k)
      BY <2>2
    <3> DEFINE h == [x \in Up(k + 1) |-> IF x \in stop THEN base[x] ELSE step[<<x, g[pred[x]]>>]]
    <3>2. ASSUME NEW x \in Up(k + 1) PROVE h[x] \in V
      <4>1. CASE x \in stop
        BY <1>a, <4>1
      <4>2. CASE x \notin stop
        <5>1. g[pred[x]] \in V
          BY <1>1, <3>1, <4>2
        <5>2. QED
          BY <1>a, <4>2, <5>1
      <4>3. QED
        BY <4>1, <4>2
    <3>3. ASSUME NEW y \in Up(k) PROVE y \in Up(k + 1) /\ h[y] = g[y]
      BY <1>a, <3>1
    <3>4. ASSUME NEW x \in Up(k + 1) PROVE Is(h, x)
      <4>1. x \notin stop => h[pred[x]] = g[pred[x]]
        BY <1>1, <3>3
      <4>2. QED
        BY <4>1
    <3>5. h \in Sol(k + 1)
      BY <3>2, <3>4
    <3> HIDE DEF h, Sol
    <3>6. QED
      BY <3>5
  <2> HIDE DEF S, Sol
  <2>3. Nat \subseteq S
    BY <2>1, <2>2, SetInduction
  <2>4. QED
    BY <2>3 DEF S
<1>3. ASSUME NEW a \in Nat, NEW b \in Nat, NEW g \in Sol(a), NEW h \in Sol(b), NEW x \in Up(a), x \in Up(b)
      PROVE  g[x] = h[x]
  <2> DEFINE T == {m[y] : y \in {z \in Up(a) : z \in Up(b) /\ g[z] # h[z]}}
  <2>1. SUFFICES ASSUME g[x] # h[x] PROVE FALSE
    OBVIOUS
  <2>2. PICK k \in T : \A j \in T : k <= j
    <3>1. T \subseteq Nat /\ m[x] \in T
      BY <1>a, <1>3, <2>1
    <3> HIDE DEF T
    <3>2. QED
      BY <3>1, LeastElement
  <2>3. PICK y \in Up(a) : y \in Up(b) /\ g[y] # h[y] /\ m[y] = k
    BY <2>2
  <2>4. Is(g, y) /\ Is(h, y)
    BY <1>3, <2>3
  <2>5. y \notin stop /\ g[pred[y]] # h[pred[y]]
    BY <2>3, <2>4
  <2>6. pred[y] \in Up(a) /\ pred[y] \in Up(b) /\ m[pred[y]] < k
    BY <1>a, <2>3, <2>5
  <2>7. m[pred[y]] \in T /\ k \in Nat /\ m[pred[y]] \in Nat
    BY <1>a, <2>2, <2>5, <2>6
  <2> HIDE DEF T, Up, Is
  <2>8. QED
    BY <2>2, <2>6, <2>7
<1> DEFINE G(n) == CHOOSE g : g \in Sol(n)
           f    == [x \in D |-> G(m[x] + 1)[x]]
<1>4. ASSUME NEW n \in Nat PROVE G(n) \in Sol(n)
  <2> HIDE DEF Sol
  <2>1. QED
    BY <1>2
<1>5. ASSUME NEW n \in Nat PROVE G(n) \in [Up(n) -> V] /\ \A x \in Up(n) : Is(G(n), x)
  <2>1. G(n) \in Sol(n)
    BY <1>4
  <2> HIDE DEF G
  <2>2. QED
    BY <2>1
<1> HIDE DEF G
<1>6. ASSUME NEW x \in D PROVE x \in Up(m[x] + 1) /\ m[x] + 1 \in Nat
  BY <1>a
<1>7. f \in [D -> V]
  BY <1>5, <1>6
<1>8. ASSUME NEW x \in D PROVE Is(f, x)
  <2>1. Is(G(m[x] + 1), x)
    BY <1>5, <1>6
  <2>2. ASSUME x \notin stop PROVE f[pred[x]] = G(m[x] + 1)[pred[x]]
    <3> DEFINE y == pred[x]
    <3>1. y \in D /\ y \in Up(m[x] + 1) /\ y \in Up(m[y] + 1)
      BY <1>a, <2>2
    <3> HIDE DEF y, Sol, Up
    <3>2. f[y] = G(m[y] + 1)[y]
      BY <3>1
    <3>3. m[x] + 1 \in Nat /\ m[y] + 1 \in Nat
      BY <1>a, <3>1
    <3>4. G(m[y] + 1) \in Sol(m[y] + 1) /\ G(m[x] + 1) \in Sol(m[x] + 1)
      BY <3>3, <1>4
    <3>5. G(m[y] + 1)[y] = G(m[x] + 1)[y]
      BY <3>1, <3>3, <3>4, <1>3
    <3>6. QED
      BY <3>2, <3>5 DEF y
  <2>3. QED
    BY <2>1, <2>2
<1>9. QED
  BY <1>7, <1>8 DEF Solves

-----------------------------------------------------------------------------
(* Division.                                                                *)

(* What multiplication does to sums, as the solver does not find it.         *)
LEMMA Products ==
    ASSUME NEW a \in Int, NEW b \in Int, NEW c \in Int
    PROVE  /\ a * (b + c) = a * b + a * c /\ (b + c) * a = b * a + c * a
           /\ a * (b - c) = a * b - a * c /\ (b - c) * a = b * a - c * a
           /\ a * b = b * a /\ a * (b * c) = (a * b) * c
           /\ a * b \in Int
  OBVIOUS

LEMMA ProductsOrder ==
    ASSUME NEW a \in Nat, NEW b \in Int, NEW c \in Int, b <= c
    PROVE  a * b <= a * c
<1> DEFINE d == c - b
<1>1. d \in Nat /\ a * d \in Nat
  OBVIOUS
<1>2. a * c = a * b + a * d
  BY Products
<1>3. a * b \in Int /\ a * c \in Int
  OBVIOUS
<1> HIDE DEF d
<1>4. QED
  BY <1>1, <1>2, <1>3

(* Quotient and remainder are the only two that there are.                   *)
LEMMA DivisionIs ==
    ASSUME NEW q \in Int, NEW b \in Nat \ {0}, NEW r \in 0 .. b - 1
    PROVE  (q * b + r) \div b = q /\ (q * b + r) % b = r
<1> DEFINE a == q * b + r
           p == a \div b
           s == a % b
<1>1. a \in Int /\ p \in Int /\ s \in 0 .. b - 1 /\ a = b * p + s
  OBVIOUS
<1>2. a = q * b + r
  OBVIOUS
<1> HIDE DEF a, p, s
<1>3. b * p + s = b * q + r
  BY <1>1, <1>2, Products
<1>4. ASSUME p # q PROVE FALSE
  <2>1. CASE p < q
    <3>1. b * (p + 1) <= b * q
      BY <1>1, <2>1, ProductsOrder
    <3>2. b * (p + 1) = b * p + b
      BY <1>1
    <3>3. b * p \in Int /\ b * q \in Int
      BY <1>1
    <3>4. QED
      BY <1>1, <1>3, <3>1, <3>2, <3>3
  <2>2. CASE q < p
    <3>1. b * (q + 1) <= b * p
      BY <1>1, <2>2, ProductsOrder
    <3>2. b * (q + 1) = b * q + b
      BY <1>1
    <3>3. b * p \in Int /\ b * q \in Int
      BY <1>1
    <3>4. QED
      BY <1>1, <1>3, <3>1, <3>2, <3>3
  <2>3. QED
    BY <1>1, <1>4, <2>1, <2>2
<1>5. p = q /\ s = r
  <2>1. p = q
    BY <1>4
  <2>2. b * q \in Int
    OBVIOUS
  <2>3. QED
    BY <1>1, <1>3, <2>1, <2>2
<1>6. QED
  BY <1>5 DEF a, p, s

LEMMA Division ==
    ASSUME NEW a \in Int, NEW b \in Nat \ {0}
    PROVE  /\ a \div b \in Int /\ a % b \in 0 .. b - 1 /\ a = (a \div b) * b + (a % b)
           /\ a \in Nat => a \div b \in Nat /\ a \div b <= a
<1>1. a \div b \in Int /\ a % b \in 0 .. b - 1 /\ a = b * (a \div b) + (a % b)
  OBVIOUS
<1>2. b * (a \div b) = (a \div b) * b
  BY <1>1, Products
<1>3. a \in Nat => a \div b \in Nat /\ a \div b <= a
  <2> DEFINE q == a \div b
             r == a % b
  <2>1. q \in Int /\ r \in 0 .. b - 1 /\ a = b * q + r
    BY <1>1
  <2> HIDE DEF q, r
  <2>2. SUFFICES ASSUME a \in Nat PROVE q \in Nat /\ q <= a
    BY DEF q
  <2>3. ASSUME q < 0 PROVE FALSE
    <3>1. b * q <= b * (-1)
      BY <2>1, <2>3, ProductsOrder
    <3>2. b * q \in Int /\ b * (-1) = -b
      BY <2>1
    <3>3. QED
      BY <2>1, <2>2, <3>1, <3>2
  <2>4. q * 1 <= q * b
    BY <2>1, <2>3, ProductsOrder
  <2>5. q * b = b * q /\ q * 1 = q /\ q * b \in Int
    BY <2>1, Products
  <2>6. QED
    BY <2>1, <2>2, <2>3, <2>4, <2>5
<1>4. QED
  BY <1>1, <1>2, <1>3

LEMMA DivisionOrder ==
    ASSUME NEW a \in Nat, NEW b \in Nat, a <= b, NEW c \in Nat \ {0}, NEW d \in Nat \ {0}, d <= c
    PROVE  a \div c <= b \div d
<1> DEFINE q == a \div c
           r == a % c
           p == b \div d
           s == b % d
<1>1. /\ q \in Nat /\ r \in 0 .. c - 1 /\ a = q * c + r
      /\ p \in Nat /\ s \in 0 .. d - 1 /\ b = p * d + s
  <2>1. a \in Int /\ b \in Int
    OBVIOUS
  <2>2. q \in Nat /\ r \in 0 .. c - 1 /\ a = q * c + r
    BY <2>1, Division, Zenon
  <2>3. p \in Nat /\ s \in 0 .. d - 1 /\ b = p * d + s
    BY <2>1, Division, Zenon
  <2>4. QED
    BY <2>2, <2>3
<1> HIDE DEF q, r, p, s
<1>2. ASSUME p < q PROVE FALSE
  <2>1. (p + 1) * d <= (p + 1) * c
    BY <1>1, ProductsOrder
  <2>2. c * (p + 1) <= c * q
    BY <1>1, <1>2, ProductsOrder
  <2>3. (p + 1) * d = p * d + d /\ c * (p + 1) = (p + 1) * c /\ c * q = q * c
    BY <1>1, Products
  <2>4. p * d \in Int /\ (p + 1) * c \in Int /\ q * c \in Int
    BY <1>1, Products
  <2>5. QED
    BY <1>1, <2>1, <2>2, <2>3, <2>4
<1>3. QED
  BY <1>1, <1>2 DEF q, p

(* One quotient after the other is the quotient by both.                     *)
LEMMA DivisionTwice ==
    ASSUME NEW a \in Nat, NEW c \in Nat \ {0}, NEW d \in Nat \ {0}
    PROVE  (a \div c) \div d = a \div (d * c)
<1> DEFINE q == a \div c
           r == a % c
           p == q \div d
           s == q % d
<1>0. c \in Int /\ d \in Int /\ a \in Int
  OBVIOUS
<1>1. q \in Nat /\ q \in Int /\ r \in 0 .. c - 1 /\ a = q * c + r
  BY <1>0, Division, Zenon
<1> HIDE DEF q, r
<1>2. p \in Nat /\ p \in Int /\ s \in 0 .. d - 1 /\ q = p * d + s
  BY <1>1, Division, Zenon
<1> HIDE DEF p, s
<1>3. p * d \in Int /\ d * c \in Int /\ s * c \in Int /\ (p * d) * c = p * (d * c) /\ p * (d * c) \in Int
  BY <1>0, <1>2, Products
<1>4. (p * d + s) * c = (p * d) * c + s * c
  <2> DEFINE u == p * d
  <2>1. u \in Int /\ s \in Int
    BY <1>2, <1>3
  <2> HIDE DEF u
  <2>2. QED
    BY <2>1, <1>0, Products DEF u
<1>5. a = p * (d * c) + (s * c + r)
  BY <1>1, <1>2, <1>3, <1>4
<1>6. s * c <= d * c - c
  <2>1. c * s <= c * (d - 1)
    BY <1>2, ProductsOrder
  <2>2. c * (d - 1) = c * d - c * 1 /\ c * d = d * c /\ c * s = s * c /\ c * 1 = c
    BY <1>0, <1>2, Products
  <2>3. QED
    BY <2>1, <2>2, <1>3
<1>7. s * c >= 0
  <2>1. c * 0 <= c * s
    BY <1>2, ProductsOrder
  <2>2. c * 0 = 0 /\ c * s = s * c
    BY <1>0, <1>2, Products
  <2>3. QED
    BY <2>1, <2>2, <1>3
<1> DEFINE b == d * c
           t == s * c + r
<1>8. b \in Int /\ t \in Int /\ t >= 0 /\ t <= b - 1 /\ b # 0 /\ b >= 0
  BY <1>1, <1>3, <1>6, <1>7
<1>9. b \in Nat \ {0} /\ t \in 0 .. b - 1 /\ a = p * b + t
  BY <1>5, <1>8
<1> HIDE DEF b, t
<1>10. (p * b + t) \div b = p
  BY <1>2, <1>9, DivisionIs
<1>11. a \div b = p
  BY <1>9, <1>10, Zenon
<1>12. QED
  BY <1>11, Zenon DEF p, q, b

-----------------------------------------------------------------------------
(* Powers.                                                                  *)

LEMMA PowerOf2Is ==
    /\ PowerOf2 \in [Nat -> Nat]
    /\ \A n \in Nat : PowerOf2[n] = IF n = 0 THEN 1 ELSE 2 * PowerOf2[n - 1]
<1> DEFINE m    == [n \in Nat |-> n]
           base == [n \in Nat |-> 1]
           pred == [n \in Nat |-> IF n = 0 THEN 0 ELSE n - 1]
           step == [p \in Nat \X Nat |-> 2 * p[2]]
           stop == {0}
           P(f) == f = [n \in Nat |-> IF n = 0 THEN 1 ELSE 2 * f[n - 1]]
<1>1. PICK f \in [Nat -> Nat] : Solves(f, Nat, stop, base, pred, step)
  <2>1. m \in [Nat -> Nat] /\ base \in [Nat -> Nat] /\ pred \in [Nat -> Nat] /\ step \in [Nat \X Nat -> Nat]
    OBVIOUS
  <2>2. \A n \in Nat : n \notin stop => m[pred[n]] < m[n]
    OBVIOUS
  <2> HIDE DEF m, base, pred, step, stop
  <2>3. Recursion(Nat, Nat, stop, m, base, pred, step)
    BY <2>1, <2>2 DEF Recursion
  <2>4. QED
    BY <2>3, RecursionEnds
<1>2. \A n \in Nat : f[n] = IF n = 0 THEN 1 ELSE 2 * f[n - 1]
  <2>1. SUFFICES ASSUME NEW n \in Nat PROVE f[n] = IF n = 0 THEN 1 ELSE 2 * f[n - 1]
    OBVIOUS
  <2>2. f[n] = IF n \in stop THEN base[n] ELSE step[<<n, f[pred[n]]>>]
    BY <1>1 DEF Solves
  <2>3. n # 0 => pred[n] = n - 1 /\ f[n - 1] \in Nat
    BY <1>1
  <2>4. \A p \in Nat \X Nat : step[p] = 2 * p[2]
    OBVIOUS
  <2>5. n # 0 => step[<<n, f[n - 1]>>] = 2 * f[n - 1]
    BY <2>3, <2>4
  <2>6. QED
    BY <2>2, <2>3, <2>5
<1>3. P(f)
  BY <1>1, <1>2
<1> HIDE DEF P
<1>4. P(PowerOf2)
  <2>1. PowerOf2 = CHOOSE g : P(g)
    BY DEF PowerOf2, P
  <2>2. QED
    BY <1>3, <2>1
<1>5. \A n \in Nat : PowerOf2[n] = IF n = 0 THEN 1 ELSE 2 * PowerOf2[n - 1]
  BY <1>4 DEF P
<1>6. \A n \in Nat : PowerOf2[n] \in Nat
  <2> DEFINE S == {n \in Nat : PowerOf2[n] \in Nat}
  <2>1. 0 \in S
    BY <1>5
  <2>2. ASSUME NEW n \in Nat, n \in S PROVE n + 1 \in S
    <3>1. PowerOf2[n + 1] = 2 * PowerOf2[n]
      BY <1>5
    <3>2. QED
      BY <2>2, <3>1
  <2> HIDE DEF S
  <2>3. Nat \subseteq S
    BY <2>1, <2>2, SetInduction
  <2>4. QED
    BY <2>3 DEF S
<1>7. QED
  BY <1>4, <1>5, <1>6 DEF P

LEMMA PowerNext ==
    /\ PowerOf2[0] = 1 /\ PowerOf2[1] = 2
    /\ \A n \in Nat : PowerOf2[n + 1] = 2 * PowerOf2[n] /\ PowerOf2[n] \in Nat \ {0} /\ n < PowerOf2[n]
<1>1. PowerOf2[0] = 1 /\ \A n \in Nat : PowerOf2[n + 1] = 2 * PowerOf2[n]
  BY PowerOf2Is
<1> DEFINE S == {n \in Nat : PowerOf2[n] \in Nat \ {0} /\ n < PowerOf2[n]}
<1>2. 0 \in S
  BY <1>1
<1>3. ASSUME NEW n \in Nat, n \in S PROVE n + 1 \in S
  BY <1>1, <1>3
<1> HIDE DEF S
<1>4. Nat \subseteq S
  BY <1>2, <1>3, SetInduction
<1>5. PowerOf2[1] = 2
  BY <1>1
<1>6. QED
  BY <1>1, <1>4, <1>5 DEF S

LEMMA PowerOfSum ==
    ASSUME NEW a \in Nat, NEW b \in Nat
    PROVE  PowerOf2[a + b] = PowerOf2[a] * PowerOf2[b]
<1> DEFINE S == {n \in Nat : PowerOf2[a + n] = PowerOf2[a] * PowerOf2[n]}
<1>1. 0 \in S
  BY PowerNext
<1>2. ASSUME NEW n \in Nat, n \in S PROVE n + 1 \in S
  <2>1. PowerOf2[a + (n + 1)] = 2 * PowerOf2[a + n] /\ PowerOf2[n + 1] = 2 * PowerOf2[n]
    <3>1. a + n \in Nat /\ a + (n + 1) = (a + n) + 1
      OBVIOUS
    <3>2. QED
      BY <3>1, PowerNext
  <2>2. PowerOf2[a] \in Int /\ PowerOf2[n] \in Int
    BY PowerNext
  <2>3. PowerOf2[a] * (2 * PowerOf2[n]) = 2 * (PowerOf2[a] * PowerOf2[n])
    BY <2>2
  <2>4. QED
    BY <1>2, <2>1, <2>3
<1> HIDE DEF S
<1>3. Nat \subseteq S
  BY <1>1, <1>2, SetInduction
<1>4. QED
  BY <1>3 DEF S

LEMMA PowersGrow ==
    ASSUME NEW a \in Nat, NEW b \in Nat
    PROVE  /\ a <= b <=> PowerOf2[a] <= PowerOf2[b]
           /\ a < b => 2 * PowerOf2[a] <= PowerOf2[b]
<1>1. ASSUME NEW x \in Nat, NEW y \in Nat, x <= y PROVE PowerOf2[x] <= PowerOf2[y]
  <2>1. PowerOf2[y] = PowerOf2[x] * PowerOf2[y - x]
    <3>1. y - x \in Nat /\ x + (y - x) = y
      BY <1>1
    <3>2. QED
      BY <3>1, PowerOfSum
  <2>2. PowerOf2[x] \in Nat /\ PowerOf2[y - x] \in Nat \ {0}
    BY <1>1, PowerNext
  <2>3. PowerOf2[x] * 1 <= PowerOf2[x] * PowerOf2[y - x]
    BY <2>2, ProductsOrder
  <2>4. QED
    BY <2>1, <2>2, <2>3
<1>2. ASSUME a < b PROVE 2 * PowerOf2[a] <= PowerOf2[b]
  BY <1>1, <1>2, PowerNext
<1>3. ASSUME b < a PROVE 2 * PowerOf2[b] <= PowerOf2[a]
  BY <1>1, <1>3, PowerNext
<1>4. QED
  BY <1>1, <1>2, <1>3, PowerNext
=============================================================================
