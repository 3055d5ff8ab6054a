----------------------------- MODULE SumProofs ------------------------------
(***************************************************************************)
(* Induction on the naturals and functions defined by recursion.           *)
(*                                                                         *)
(* What SumTo computes: it is well defined, depends on the values summed   *)
(* only, and moves by v when one of them moves by v; and the same of the   *)
(* sum over a subset of the indices.                                       *)
(***************************************************************************)
EXTENDS Sums, WellFoundedInduction, TLAPS

(* Induction on the naturals, stated with a set instead of a predicate.    *)
LEMMA SetInduction ==
    ASSUME NEW S, 0 \in S, \A n \in Nat : n \in S => n + 1 \in S
    PROVE  Nat \subseteq S
PROOF
<1> DEFINE T == Nat \ S
<1> SUFFICES ASSUME T # {} PROVE FALSE
    OBVIOUS
<1>1. PICK x \in T : \A y \in T : <<y, x>> \notin OpToRel(<, Nat)
    <2>1. IsWellFoundedOn(OpToRel(<, Nat), Nat)
        BY Zenon, NatLessThanWellFounded
    <2>2. T \subseteq Nat
        OBVIOUS
    <2> HIDE DEF T
    <2>3. QED
        BY Zenon, <2>1, <2>2, WFMin
<1>2. x # 0 /\ x - 1 \in Nat /\ x - 1 < x
    OBVIOUS
<1>3. x - 1 \in T
    <2>1. x - 1 \in S => (x - 1) + 1 \in S
        BY <1>2
    <2>2. (x - 1) + 1 = x
        OBVIOUS
    <2>3. QED
        BY <1>2, <2>1, <2>2
<1>4. <<x - 1, x>> \in OpToRel(<, Nat)
    BY <1>2 DEF OpToRel
<1>5. QED
    BY Zenon, <1>1, <1>3, <1>4

(* Integers are closed under addition.                                     *)
LEMMA IntSum == \A a, b \in Int : a + b \in Int
OBVIOUS

(* s goes from x through the steps of F up to n.                           *)
Runs(s, X, x, F, n) ==
    s \in [0..n -> X] /\ s[0] = x /\ \A i \in 1..n : s[i] = F[i][s[i - 1]]

(* A function given by its first value and its steps exists.               *)
LEMMA RunExists ==
    ASSUME NEW X, NEW x \in X, NEW n \in Nat, NEW F \in [1..n -> [X -> X]]
    PROVE  \E s : Runs(s, X, x, F, n)
PROOF
<1> DEFINE Run(s, m) == /\ s \in [0..m -> X] /\ s[0] = x
                        /\ \A i \in 1..m : s[i] = F[i][s[i - 1]]
           S == {m \in Nat : m <= n => \E s : Run(s, m)}
<1>1. 0 \in S
    <2>1. Run([i \in 0..0 |-> x], 0)
        OBVIOUS
    <2>2. QED
        BY Zenon, <2>1
<1>2. ASSUME NEW m \in Nat, m \in S PROVE m + 1 \in S
    <2> SUFFICES ASSUME m + 1 <= n PROVE \E s : Run(s, m + 1)
        OBVIOUS
    <2>1. PICK s : Run(s, m)
        BY <1>2
    <2>2. PICK y \in X : y = F[m + 1][s[m]]
        BY <2>1
    <2> DEFINE h == [i \in 0..(m + 1) |-> IF i = m + 1 THEN y ELSE s[i]]
    <2>3. h \in [0..(m + 1) -> X] /\ h[0] = x
        BY <2>1
    <2>4. ASSUME NEW i \in 1..(m + 1) PROVE h[i] = F[i][h[i - 1]]
        <3>1. i - 1 \in 0..m /\ h[i - 1] = s[i - 1]
            OBVIOUS
        <3>2. CASE i = m + 1
            <4>1. h[i] = y /\ i - 1 = m
                BY <3>2
            <4>2. QED
                BY Zenon, <2>2, <3>1, <3>2, <4>1
        <3>3. CASE i # m + 1
            <4>1. i \in 1..m /\ h[i] = s[i]
                BY <3>3
            <4>2. QED
                BY Zenon, <2>1, <3>1, <4>1
        <3>4. QED
            BY <3>2, <3>3
    <2>5. Run(h, m + 1)
        BY Zenon, <2>3, <2>4
    <2>6. QED
        BY Zenon, <2>5
<1>3. Nat \subseteq S
    <2> HIDE DEF S
    <2>1. QED
        BY <1>1, <1>2, SetInduction
<1>4. n \in S
    BY Zenon, <1>3
<1>5. n <= n
    OBVIOUS
<1>6. PICK s : Run(s, n)
    BY Zenon, <1>4, <1>5
<1>7. QED
    BY Zenon, <1>6 DEF Runs

(* g is the function of the partial sums of f up to n.                     *)
Partial(g, f, n) ==
    /\ g \in [0..n -> Int]
    /\ g[0] = 0
    /\ \A i \in 1..n : g[i] = g[i-1] + f[i]

LEMMA PartialExists ==
    ASSUME NEW n \in Nat, NEW f, \A i \in 1..n : f[i] \in Int
    PROVE  \E g : Partial(g, f, n)
PROOF
<1> DEFINE S == {m \in Nat : m <= n => \E g : Partial(g, f, m)}
<1>1. 0 \in S
    <2>1. Partial([i \in 0..0 |-> 0], f, 0)
        BY DEF Partial
    <2>2. QED
        BY <2>1
<1>2. ASSUME NEW m \in Nat, m \in S PROVE m + 1 \in S
    <2> SUFFICES ASSUME m + 1 <= n PROVE \E g : Partial(g, f, m + 1)
        OBVIOUS
    <2>1. PICK g : Partial(g, f, m)
        BY <1>2
    <2> DEFINE h == [i \in 0..(m+1) |-> IF i = m + 1 THEN g[m] + f[m+1] ELSE g[i]]
    <2>2. f[m+1] \in Int /\ g[m] \in Int
        BY <2>1 DEF Partial
    <2>3. h \in [0..(m+1) -> Int]
        BY <2>1, <2>2 DEF Partial
    <2>4. h[0] = 0
        BY <2>1 DEF Partial
    <2>5. ASSUME NEW i \in 1..(m+1) PROVE h[i] = h[i-1] + f[i]
        <3>1. i - 1 \in 0..m /\ i - 1 # m + 1
            OBVIOUS
        <3>2. h[i-1] = g[i-1]
            BY <3>1
        <3>3. CASE i = m + 1
            <4>1. h[m+1] = g[m] + f[m+1] /\ i - 1 = m
                BY <3>3
            <4>2. QED
                BY <3>2, <3>3, <4>1
        <3>4. CASE i # m + 1
            <4>1. i \in 1..m
                BY <3>4
            <4>2. h[i] = g[i]
                BY <3>4, <4>1
            <4>3. g[i] = g[i-1] + f[i]
                BY <2>1, <4>1 DEF Partial
            <4>4. QED
                BY <3>2, <4>2, <4>3
        <3>5. QED
            BY <3>3, <3>4
    <2>6. Partial(h, f, m + 1)
        BY Zenon, <2>3, <2>4, <2>5 DEF Partial
    <2>7. QED
        BY <2>6
<1>3. Nat \subseteq S
    <2> HIDE DEF S
    <2>1. QED
        BY <1>1, <1>2, SetInduction
<1>4. n \in S
    BY Zenon, <1>3
<1>5. n <= n
    OBVIOUS
<1>6. QED
    BY Zenon, <1>4, <1>5

LEMMA PartialUnique ==
    ASSUME NEW n \in Nat, NEW f, NEW g, NEW h, Partial(g, f, n), Partial(h, f, n)
    PROVE  g[n] = h[n]
PROOF
<1> DEFINE S == {m \in Nat : m <= n => g[m] = h[m]}
<1>1. 0 \in S
    BY DEF Partial
<1>2. ASSUME NEW m \in Nat, m \in S PROVE m + 1 \in S
    <2> SUFFICES ASSUME m + 1 <= n PROVE g[m+1] = h[m+1]
        OBVIOUS
    <2>1. m + 1 \in 1..n /\ (m + 1) - 1 = m
        OBVIOUS
    <2>2. g[m+1] = g[m] + f[m+1] /\ h[m+1] = h[m] + f[m+1]
        BY <2>1 DEF Partial
    <2>3. QED
        BY <1>2, <2>2
<1>3. Nat \subseteq S
    <2> HIDE DEF S
    <2>1. QED
        BY <1>1, <1>2, SetInduction
<1>4. n \in S
    BY Zenon, <1>3
<1>5. n <= n
    OBVIOUS
<1>6. QED
    BY Zenon, <1>4, <1>5

(* SumTo is the last partial sum.                                          *)
LEMMA SumToPartial ==
    ASSUME NEW n \in Nat, NEW f, \A i \in 1..n : f[i] \in Int,
           NEW g, Partial(g, f, n)
    PROVE  SumTo(f, n) = g[n] /\ SumTo(f, n) \in Int
PROOF
<1> DEFINE Def(s) == [i \in 0..n |-> IF i = 0 THEN 0 ELSE s[i-1] + f[i]]
           s0 == CHOOSE s : s = Def(s)
<1>1. g = Def(g)
    BY DEF Partial
<1>2. s0 = Def(s0)
    BY Zenon, <1>1
<1>3. s0[n] = g[n]
    <2> DEFINE S == {m \in Nat : m <= n => s0[m] = g[m]}
    <2> HIDE DEF s0
    <2>1. 0 \in S
        BY <1>2 DEF Partial
    <2>2. ASSUME NEW m \in Nat, m \in S PROVE m + 1 \in S
        <3> SUFFICES ASSUME m + 1 <= n PROVE s0[m+1] = g[m+1]
            OBVIOUS
        <3>1. m + 1 \in 1..n /\ (m + 1) - 1 = m /\ m + 1 # 0
            OBVIOUS
        <3>2. s0[m+1] = s0[m] + f[m+1]
            BY <1>2, <3>1
        <3>3. g[m+1] = g[m] + f[m+1]
            BY <3>1 DEF Partial
        <3>4. QED
            BY <2>2, <3>2, <3>3
    <2>3. Nat \subseteq S
        <3> HIDE DEF S
        <3>1. QED
            BY <2>1, <2>2, SetInduction
    <2>4. n \in S
        BY Zenon, <2>3
    <2>5. n <= n
        OBVIOUS
    <2>6. QED
        BY Zenon, <2>4, <2>5
<1>4. SumTo(f, n) = s0[n]
    BY DEF SumTo
<1>5. g[n] \in Int
    BY DEF Partial
<1>6. QED
    BY <1>3, <1>4, <1>5

(* A sum of integers is an integer.                                        *)
LEMMA SumToInt ==
    ASSUME NEW n \in Nat, NEW f, \A i \in 1..n : f[i] \in Int
    PROVE  SumTo(f, n) \in Int
PROOF
    BY PartialExists, SumToPartial

(* A sum of zeros is zero.                                                 *)
LEMMA SumToZero ==
    ASSUME NEW n \in Nat, NEW f, \A i \in 1..n : f[i] = 0
    PROVE  SumTo(f, n) = 0
PROOF
<1>1. Partial([i \in 0..n |-> 0], f, n)
    BY DEF Partial
<1>2. \A i \in 1..n : f[i] \in Int
    OBVIOUS
<1>3. QED
    BY <1>1, <1>2, SumToPartial

(* Moving one of the values by v moves the sum by v.                       *)
LEMMA SumToUpdate ==
    ASSUME NEW n \in Nat, NEW f, \A i \in 1..n : f[i] \in Int,
           NEW h, NEW k \in 1..n, NEW v \in Int,
           h[k] = f[k] + v, \A i \in 1..n : i # k => h[i] = f[i]
    PROVE  SumTo(h, n) = SumTo(f, n) + v
PROOF
<1>1. PICK g : Partial(g, f, n)
    BY PartialExists
<1> DEFINE p == [i \in 0..n |-> IF i < k THEN g[i] ELSE g[i] + v]
<1>2. \A i \in 1..n : h[i] \in Int
    OBVIOUS
<1>3. Partial(p, h, n)
    <2>1. p \in [0..n -> Int] /\ p[0] = 0
        <3>1. g \in [0..n -> Int] /\ g[0] = 0
            BY <1>1 DEF Partial
        <3>2. p \in [0..n -> Int]
            BY <3>1
        <3>3. 0 \in 0..n /\ 0 < k
            OBVIOUS
        <3>4. QED
            BY <3>1, <3>2, <3>3
    <2>2. ASSUME NEW i \in 1..n PROVE p[i] = p[i-1] + h[i]
        <3>1. g[i] = g[i-1] + f[i] /\ g[i-1] \in Int /\ g[i] \in Int
            BY SMTT(60), <1>1 DEF Partial
        <3>0. i \in 0..n /\ i - 1 \in 0..n
            OBVIOUS
        <3>2. CASE i < k
            <4>1. p[i] = g[i] /\ p[i-1] = g[i-1] /\ h[i] = f[i]
                BY <3>0, <3>2
            <4>2. QED
                BY <3>1, <4>1
        <3>3. CASE i = k
            <4>1. p[i] = g[i] + v /\ p[i-1] = g[i-1] /\ h[i] = f[i] + v
                BY <3>0, <3>3
            <4>2. f[i] \in Int
                OBVIOUS
            <4> HIDE DEF p
            <4>3. QED
                BY <3>1, <4>1, <4>2
        <3>4. CASE i > k
            <4>1. p[i] = g[i] + v /\ p[i-1] = g[i-1] + v /\ h[i] = f[i]
                BY <3>0, <3>4
            <4>2. f[i] \in Int
                OBVIOUS
            <4> HIDE DEF p
            <4>3. QED
                BY <3>1, <4>1, <4>2
        <3>5. QED
            BY <3>2, <3>3, <3>4
    <2>3. QED
        BY Zenon, <2>1, <2>2 DEF Partial
<1>4. p[n] = g[n] + v
    OBVIOUS
<1>5. QED
    BY Zenon, <1>1, <1>2, <1>3, <1>4, SumToPartial

-----------------------------------------------------------------------------
(* The two equations of the recursion.                                     *)
LEMMA SumToStep ==
    ASSUME NEW n \in Nat, NEW f, \A i \in 1..(n+1) : f[i] \in Int
    PROVE  /\ SumTo(f, 0) = 0
           /\ SumTo(f, n + 1) = SumTo(f, n) + f[n+1]
           /\ SumTo(f, n) \in Int
PROOF
<1>1. SumTo(f, 0) = 0
    BY SumToZero
<1>2. PICK g : Partial(g, f, n + 1)
    BY PartialExists
<1>3. SumTo(f, n + 1) = g[n+1]
    BY <1>2, SumToPartial
<1> DEFINE h == [i \in 0..n |-> g[i]]
<1>4. Partial(h, f, n)
    <2>1. h \in [0..n -> Int] /\ h[0] = 0
        BY <1>2 DEF Partial
    <2>2. ASSUME NEW i \in 1..n PROVE h[i] = h[i-1] + f[i]
        <3>1. i \in 0..n /\ i - 1 \in 0..n /\ i \in 1..(n+1)
            OBVIOUS
        <3>2. h[i] = g[i] /\ h[i-1] = g[i-1]
            BY <3>1
        <3>3. g[i] = g[i-1] + f[i]
            BY <1>2, <3>1 DEF Partial
        <3>4. QED
            BY <3>2, <3>3
    <2>3. QED
        BY Zenon, <2>1, <2>2 DEF Partial
<1>5. SumTo(f, n) = h[n] /\ SumTo(f, n) \in Int
    BY <1>4, SumToPartial
<1>6. h[n] = g[n]
    OBVIOUS
<1>7. g[n+1] = g[n] + f[n+1]
    <2>1. n + 1 \in 1..(n+1) /\ (n + 1) - 1 = n
        OBVIOUS
    <2>2. g[n+1] = g[(n+1)-1] + f[n+1]
        BY Zenon, <1>2, <2>1 DEF Partial
    <2>3. QED
        BY <2>1, <2>2
<1>8. QED
    BY <1>1, <1>3, <1>5, <1>6, <1>7

(* A sum of sums, term by term.                                            *)
LEMMA SumToAdd ==
    ASSUME NEW n \in Nat, NEW f, NEW g, NEW h,
           \A i \in 1..n : f[i] \in Int /\ g[i] \in Int /\ h[i] = f[i] + g[i]
    PROVE  SumTo(h, n) = SumTo(f, n) + SumTo(g, n)
PROOF
<1> DEFINE S == {m \in Nat : m <= n => SumTo(h, m) = SumTo(f, m) + SumTo(g, m)}
<1>1. 0 \in S
    BY SumToZero
<1>2. ASSUME NEW m \in Nat, m \in S PROVE m + 1 \in S
    <2> SUFFICES ASSUME m + 1 <= n
                 PROVE  SumTo(h, m + 1) = SumTo(f, m + 1) + SumTo(g, m + 1)
        OBVIOUS
    <2>1. \A i \in 1..(m+1) : f[i] \in Int /\ g[i] \in Int /\ h[i] \in Int
        OBVIOUS
    <2>2. /\ SumTo(f, m + 1) = SumTo(f, m) + f[m+1] /\ SumTo(f, m) \in Int
          /\ SumTo(g, m + 1) = SumTo(g, m) + g[m+1] /\ SumTo(g, m) \in Int
          /\ SumTo(h, m + 1) = SumTo(h, m) + h[m+1]
        BY Zenon, <2>1, SumToStep
    <2>3. h[m+1] = f[m+1] + g[m+1] /\ f[m+1] \in Int /\ g[m+1] \in Int
        OBVIOUS
    <2>4. SumTo(h, m) = SumTo(f, m) + SumTo(g, m)
        BY <1>2
    <2>5. QED
        BY <2>2, <2>3, <2>4
<1>3. Nat \subseteq S
    <2> HIDE DEF S
    <2>1. QED
        BY <1>1, <1>2, SetInduction
<1>4. n \in S /\ n <= n
    BY <1>3
<1>5. QED
    BY <1>4

(* Sums are monotone in their terms.                                       *)
LEMMA SumToMono ==
    ASSUME NEW n \in Nat, NEW f, NEW g,
           \A i \in 1..n : f[i] \in Int /\ g[i] \in Int /\ f[i] <= g[i]
    PROVE  SumTo(f, n) <= SumTo(g, n)
PROOF
<1> DEFINE S == {m \in Nat : m <= n => SumTo(f, m) <= SumTo(g, m)}
<1>1. 0 \in S
    BY SumToZero
<1>2. ASSUME NEW m \in Nat, m \in S PROVE m + 1 \in S
    <2> SUFFICES ASSUME m + 1 <= n PROVE SumTo(f, m + 1) <= SumTo(g, m + 1)
        OBVIOUS
    <2>1. \A i \in 1..(m+1) : f[i] \in Int /\ g[i] \in Int
        OBVIOUS
    <2>2. /\ SumTo(f, m + 1) = SumTo(f, m) + f[m+1] /\ SumTo(f, m) \in Int
          /\ SumTo(g, m + 1) = SumTo(g, m) + g[m+1] /\ SumTo(g, m) \in Int
        BY Zenon, <2>1, SumToStep
    <2>3. f[m+1] <= g[m+1] /\ f[m+1] \in Int /\ g[m+1] \in Int
        OBVIOUS
    <2>4. SumTo(f, m) <= SumTo(g, m)
        BY <1>2
    <2>5. QED
        BY <2>2, <2>3, <2>4
<1>3. Nat \subseteq S
    <2> HIDE DEF S
    <2>1. QED
        BY <1>1, <1>2, SetInduction
<1>4. n \in S /\ n <= n
    BY <1>3
<1>5. QED
    BY <1>4

(* A sum depends on its terms only.                                        *)
LEMMA SumToSame ==
    ASSUME NEW n \in Nat, NEW f, NEW g,
           \A i \in 1..n : f[i] \in Int /\ g[i] = f[i]
    PROVE  SumTo(g, n) = SumTo(f, n)
PROOF
<1>1. \A i \in 1..n : f[i] \in Int /\ g[i] \in Int /\ f[i] <= g[i] /\ g[i] <= f[i]
    OBVIOUS
<1>2. SumTo(f, n) <= SumTo(g, n) /\ SumTo(g, n) <= SumTo(f, n)
    BY <1>1, SumToMono
<1>3. SumTo(f, n) \in Int /\ SumTo(g, n) \in Int
    BY <1>1, SumToInt
<1>4. QED
    BY <1>2, <1>3

(* A common factor.                                                        *)
LEMMA SumToScale ==
    ASSUME NEW n \in Nat, NEW f, NEW h, NEW c \in Int,
           \A i \in 1..n : f[i] \in Int /\ h[i] = c * f[i]
    PROVE  SumTo(h, n) = c * SumTo(f, n)
PROOF
<1> DEFINE S == {m \in Nat : m <= n => SumTo(h, m) = c * SumTo(f, m)}
<1>1. 0 \in S
    BY SumToZero
<1>2. ASSUME NEW m \in Nat, m \in S PROVE m + 1 \in S
    <2> SUFFICES ASSUME m + 1 <= n PROVE SumTo(h, m + 1) = c * SumTo(f, m + 1)
        OBVIOUS
    <2>1. \A i \in 1..(m+1) : f[i] \in Int /\ h[i] \in Int
        OBVIOUS
    <2>2. /\ SumTo(f, m + 1) = SumTo(f, m) + f[m+1] /\ SumTo(f, m) \in Int
          /\ SumTo(h, m + 1) = SumTo(h, m) + h[m+1]
        BY Zenon, <2>1, SumToStep
    <2>3. h[m+1] = c * f[m+1] /\ f[m+1] \in Int
        OBVIOUS
    <2>4. SumTo(h, m) = c * SumTo(f, m)
        BY <1>2
    <2>5. \A x, y \in Int : c * x + c * y = c * (x + y)
        OBVIOUS
    <2>6. QED
        BY <2>2, <2>3, <2>4, <2>5
<1>3. Nat \subseteq S
    <2> HIDE DEF S
    <2>1. QED
        BY <1>1, <1>2, SetInduction
<1>4. n \in S /\ n <= n
    BY <1>3
<1>5. QED
    BY <1>4

(* Of terms that are not negative, none is greater than the sum.           *)
LEMMA SumToTerm ==
    ASSUME NEW n \in Nat, NEW f, \A i \in 1..n : f[i] \in Int /\ f[i] >= 0,
           NEW k \in 1..n
    PROVE  f[k] <= SumTo(f, n)
PROOF
<1> DEFINE z == [i \in 1..n |-> 0]
           g == [i \in 1..n |-> IF i = k THEN f[k] ELSE 0]
<1>1. SumTo(z, n) = 0
    BY SumToZero
<1>2. SumTo(g, n) = SumTo(z, n) + f[k]
    <2>1. /\ \A i \in 1..n : z[i] \in Int
          /\ g[k] = z[k] + f[k]
          /\ \A i \in 1..n : i # k => g[i] = z[i]
        OBVIOUS
    <2> HIDE DEF z, g
    <2>2. QED
        BY <2>1, SumToUpdate
<1>3. SumTo(g, n) <= SumTo(f, n)
    <2>1. \A i \in 1..n : g[i] \in Int /\ f[i] \in Int /\ g[i] <= f[i]
        OBVIOUS
    <2> HIDE DEF g
    <2>2. QED
        BY <2>1, SumToMono
<1>4. SumTo(f, n) \in Int
    BY SumToInt
<1> HIDE DEF z, g
<1>5. QED
    BY <1>1, <1>2, <1>3, <1>4

-----------------------------------------------------------------------------
(* The sum of f over the members of S among 1..n.                          *)
SumIn(f, S, n) == SumTo([i \in 1..n |-> IF i \in S THEN f[i] ELSE 0], n)

(* It is an integer, and nothing over no members.                          *)
LEMMA SumInInt ==
    ASSUME NEW n \in Nat, NEW f, \A i \in 1..n : f[i] \in Int, NEW S
    PROVE  SumIn(f, S, n) \in Int
PROOF
<1> DEFINE g == [i \in 1..n |-> IF i \in S THEN f[i] ELSE 0]
<1>1. \A i \in 1..n : g[i] \in Int
    OBVIOUS
<1> HIDE DEF g
<1>2. SumTo(g, n) \in Int
    BY <1>1, SumToInt
<1>3. QED
    BY Zenon, <1>2 DEF SumIn, g

LEMMA SumInEmpty ==
    ASSUME NEW n \in Nat, NEW f
    PROVE  SumIn(f, {}, n) = 0
PROOF
<1> DEFINE g == [i \in 1..n |-> IF i \in {} THEN f[i] ELSE 0]
<1>1. \A i \in 1..n : g[i] = 0
    OBVIOUS
<1> HIDE DEF g
<1>2. SumTo(g, n) = 0
    BY <1>1, SumToZero
<1>3. QED
    BY Zenon, <1>2 DEF SumIn, g

(* One more member.                                                        *)
LEMMA SumInOneMore ==
    ASSUME NEW n \in Nat, NEW f, \A i \in 1..n : f[i] \in Int,
           NEW S, NEW b \in 1..n, b \notin S
    PROVE  SumIn(f, S \cup {b}, n) = SumIn(f, S, n) + f[b]
PROOF
<1> DEFINE g == [i \in 1..n |-> IF i \in S THEN f[i] ELSE 0]
           h == [i \in 1..n |-> IF i \in S \cup {b} THEN f[i] ELSE 0]
<1>1. /\ \A i \in 1..n : g[i] \in Int
      /\ h[b] = g[b] + f[b] /\ f[b] \in Int
      /\ \A i \in 1..n : i # b => h[i] = g[i]
    OBVIOUS
<1> HIDE DEF g, h
<1>2. SumTo(h, n) = SumTo(g, n) + f[b]
    BY <1>1, SumToUpdate
<1>3. QED
    BY Zenon, <1>2 DEF SumIn, g, h

(* Of terms between zero and m: a part of a set has a smaller sum, and no  *)
(* sum is more than n times m.                                             *)
LEMMA SumInBounds ==
    ASSUME NEW n \in Nat, NEW f, NEW m \in Nat,
           \A i \in 1..n : f[i] \in Int /\ 0 <= f[i] /\ f[i] <= m,
           NEW S, NEW T, T \subseteq S
    PROVE  /\ 0 <= SumIn(f, T, n)
           /\ SumIn(f, T, n) <= SumIn(f, S, n)
           /\ SumIn(f, S, n) <= n * m
PROOF
<1> DEFINE z == [i \in 1..n |-> 0]
           g == [i \in 1..n |-> IF i \in T THEN f[i] ELSE 0]
           h == [i \in 1..n |-> IF i \in S THEN f[i] ELSE 0]
           k == [i \in 1..n |-> m]
<1>1. /\ \A i \in 1..n : z[i] \in Int /\ z[i] = 0 /\ g[i] \in Int /\ z[i] <= g[i]
      /\ \A i \in 1..n : h[i] \in Int /\ g[i] <= h[i]
      /\ \A i \in 1..n : k[i] \in Int /\ h[i] <= k[i] /\ k[i] = m
    OBVIOUS
<1> HIDE DEF z, g, h, k
<1>2. SumTo(z, n) = 0 /\ SumTo(z, n) <= SumTo(g, n)
    BY <1>1, SumToZero, SumToMono
<1>3. SumTo(g, n) <= SumTo(h, n) /\ SumTo(h, n) <= SumTo(k, n)
    BY <1>1, SumToMono
<1>4. SumTo(k, n) = n * m
    <2> DEFINE P == {j \in Nat : j <= n => SumTo(k, j) = j * m}
    <2>1. 0 \in P
        BY SumToZero
    <2>2. ASSUME NEW j \in Nat, j \in P PROVE j + 1 \in P
        <3> SUFFICES ASSUME j + 1 <= n PROVE SumTo(k, j + 1) = (j + 1) * m
            OBVIOUS
        <3>1. \A i \in 1..(j+1) : k[i] \in Int
            BY <1>1
        <3>2. SumTo(k, j + 1) = SumTo(k, j) + k[j+1] /\ k[j+1] = m
            BY <1>1, <3>1, SumToStep
        <3>3. SumTo(k, j) = j * m
            BY <2>2
        <3>4. j * m + m = (j + 1) * m
            OBVIOUS
        <3>5. QED
            BY <3>2, <3>3, <3>4
    <2>3. Nat \subseteq P
        <3> HIDE DEF P
        <3>1. QED
            BY <2>1, <2>2, SetInduction
    <2>4. n \in P /\ n <= n
        BY <2>3
    <2>5. QED
        BY <2>4
<1>5. QED
    BY Zenon, <1>2, <1>3, <1>4 DEF SumIn, g, h

(* f with w added over E, and with v taken from its value at a.            *)
Raised(f, w, E, n) == [i \in 1..n |-> IF i \in E THEN f[i] + w[i] ELSE f[i]]
Reduced(f, a, v) == [f EXCEPT ![a] = f[a] - v]

(* What they do to a sum.                                                  *)
LEMMA SumInAdd ==
    ASSUME NEW n \in Nat, NEW f, NEW w, \A i \in 1..n : f[i] \in Int /\ w[i] \in Int,
           NEW E, NEW S
    PROVE  SumIn(Raised(f, w, E, n), S, n) = SumIn(f, S, n) + SumIn(w, S \cap E, n)
PROOF
<1> DEFINE e == Raised(f, w, E, n)
           p == [i \in 1..n |-> IF i \in S THEN f[i] ELSE 0]
           q == [i \in 1..n |-> IF i \in S \cap E THEN w[i] ELSE 0]
           r == [i \in 1..n |-> IF i \in S THEN e[i] ELSE 0]
<1>1. \A i \in 1..n : p[i] \in Int /\ q[i] \in Int /\ r[i] = p[i] + q[i]
    BY DEF Raised
<1> HIDE DEF p, q, r
<1>2. SumTo(r, n) = SumTo(p, n) + SumTo(q, n)
    BY <1>1, SumToAdd
<1>3. SumIn(e, S, n) = SumTo(r, n) /\ SumIn(f, S, n) = SumTo(p, n)
      /\ SumIn(w, S \cap E, n) = SumTo(q, n)
    <2> HIDE DEF e
    <2> QED
        BY Zenon DEF SumIn, p, q, r
<1>4. QED
    BY Zenon, <1>2, <1>3

(* Taking v from one term takes it from the sum of a set that has it.      *)
LEMMA SumInTake ==
    ASSUME NEW n \in Nat, NEW f \in [1..n -> Int], NEW a \in 1..n, NEW v \in Int, NEW S
    PROVE  /\ a \in S => SumIn(Reduced(f, a, v), S, n) = SumIn(f, S, n) - v
           /\ a \notin S => SumIn(Reduced(f, a, v), S, n) = SumIn(f, S, n)
PROOF
<1> DEFINE h == Reduced(f, a, v)
           p == [i \in 1..n |-> IF i \in S THEN f[i] ELSE 0]
           r == [i \in 1..n |-> IF i \in S THEN h[i] ELSE 0]
           u == IF a \in S THEN -v ELSE 0
<1>1. /\ \A i \in 1..n : p[i] \in Int /\ (i # a => r[i] = p[i])
      /\ u \in Int /\ r[a] = p[a] + u
      /\ (a \in S => u = -v) /\ (a \notin S => u = 0)
    BY DEF Reduced
<1> HIDE DEF p, r, u
<1>2. SumTo(r, n) = SumTo(p, n) + u
    BY <1>1, SumToUpdate
<1>3. SumTo(p, n) \in Int
    BY <1>1, SumToInt
<1>4. SumIn(h, S, n) = SumTo(r, n) /\ SumIn(f, S, n) = SumTo(p, n)
    <2> HIDE DEF h
    <2> QED
        BY Zenon DEF SumIn, p, r
<1> HIDE DEF h
<1>5. (a \in S => SumIn(h, S, n) = SumIn(f, S, n) - v)
      /\ (a \notin S => SumIn(h, S, n) = SumIn(f, S, n))
    BY <1>1, <1>2, <1>3, <1>4
<1>6. QED
    BY <1>5 DEF h

(* Among finitely many values there is a greatest.                         *)
LEMMA GreatestExists ==
    ASSUME NEW n \in Nat \ {0}, NEW f, \A i \in 1..n : f[i] \in Int
    PROVE  \E c \in 1..n : \A i \in 1..n : f[i] <= f[c]
PROOF
<1> DEFINE P == {m \in Nat : m + 1 <= n =>
                    \E c \in 1..(m+1) : \A i \in 1..(m+1) : f[i] <= f[c]}
<1>1. 0 \in P
    OBVIOUS
<1>2. ASSUME NEW m \in Nat, m \in P PROVE m + 1 \in P
    <2> SUFFICES ASSUME (m + 1) + 1 <= n
                 PROVE  \E c \in 1..((m+1)+1) : \A i \in 1..((m+1)+1) : f[i] <= f[c]
        OBVIOUS
    <2>1. PICK c \in 1..(m+1) : \A i \in 1..(m+1) : f[i] <= f[c]
        BY <1>2
    <2> DEFINE d == (m + 1) + 1
    <2>2. c \in 1..d /\ d \in 1..d /\ f[c] \in Int /\ f[d] \in Int
          /\ \A i \in 1..d : i \in 1..(m+1) \/ i = d
        OBVIOUS
    <2>3. CASE f[c] >= f[d]
        BY <2>1, <2>2, <2>3
    <2>4. CASE f[c] < f[d]
        <3>1. \A i \in 1..d : f[i] <= f[d]
            BY <2>1, <2>2, <2>4
        <3>2. QED
            BY <2>2, <3>1
    <2>5. QED
        BY <2>2, <2>3, <2>4
<1>3. Nat \subseteq P
    <2> HIDE DEF P
    <2>1. QED
        BY <1>1, <1>2, SetInduction
<1>4. n - 1 \in P /\ (n - 1) + 1 = n
    BY <1>3
<1>5. QED
    BY <1>4

=============================================================================
