--------------------------- MODULE SmoothWRRProofs --------------------------
(***************************************************************************)
(* Proofs about smooth weighted round-robin, for every number of backends, *)
(* every assignment of weights and every history of eligibility.           *)
(***************************************************************************)
EXTENDS SmoothWRRCycle, SumProofs

(* Weights are positive, running weights are integers.                     *)
WeightsOK == weight \in [Backend -> Nat \ {0}] /\ cw \in [Backend -> Int]

-----------------------------------------------------------------------------
(* Sums over sets of backends.                                             *)
LEMMA SumOverInt ==
    ASSUME NEW f \in [Backend -> Int], NEW S
    PROVE  SumOver(f, S) \in Int
PROOF
<1> DEFINE g == [b \in Backend |-> IF b \in S THEN f[b] ELSE 0]
<1>1. \A i \in 1..NumBackends : g[i] \in Int
    BY DEF Backend
<1> HIDE DEF g
<1>2. SumTo(g, NumBackends) \in Int
    BY <1>1, SelectionAssumption, SumToInt
<1>3. QED
    BY <1>2 DEF SumOver, g

LEMMA SumOverSplit ==
    ASSUME NEW f \in [Backend -> Int], NEW S, NEW T, S \cap T = {}
    PROVE  SumOver(f, S \cup T) = SumOver(f, S) + SumOver(f, T)
PROOF
<1> DEFINE s == [b \in Backend |-> IF b \in S THEN f[b] ELSE 0]
           t == [b \in Backend |-> IF b \in T THEN f[b] ELSE 0]
           u == [b \in Backend |-> IF b \in S \cup T THEN f[b] ELSE 0]
<1>1. \A i \in 1..NumBackends : s[i] \in Int /\ t[i] \in Int /\ u[i] = s[i] + t[i]
    BY DEF Backend
<1> HIDE DEF s, t, u
<1>2. SumTo(u, NumBackends) = SumTo(s, NumBackends) + SumTo(t, NumBackends)
    BY <1>1, SelectionAssumption, SumToAdd
<1>3. QED
    BY <1>2 DEF SumOver, s, t, u

LEMMA SumOverMono ==
    ASSUME NEW f \in [Backend -> Int], NEW g \in [Backend -> Int], NEW S,
           \A b \in Backend : b \in S => f[b] <= g[b]
    PROVE  SumOver(f, S) <= SumOver(g, S)
PROOF
<1> DEFINE s == [b \in Backend |-> IF b \in S THEN f[b] ELSE 0]
           t == [b \in Backend |-> IF b \in S THEN g[b] ELSE 0]
<1>1. \A i \in 1..NumBackends : s[i] \in Int /\ t[i] \in Int /\ s[i] <= t[i]
    BY DEF Backend
<1> HIDE DEF s, t
<1>2. SumTo(s, NumBackends) <= SumTo(t, NumBackends)
    BY <1>1, SelectionAssumption, SumToMono
<1>3. QED
    BY <1>2 DEF SumOver, s, t

LEMMA SumOverAdd ==
    ASSUME NEW f \in [Backend -> Int], NEW g \in [Backend -> Int], NEW S,
           NEW h, \A b \in Backend : b \in S => h[b] = f[b] + g[b]
    PROVE  SumOver(h, S) = SumOver(f, S) + SumOver(g, S)
PROOF
<1> DEFINE s == [b \in Backend |-> IF b \in S THEN f[b] ELSE 0]
           t == [b \in Backend |-> IF b \in S THEN g[b] ELSE 0]
           u == [b \in Backend |-> IF b \in S THEN h[b] ELSE 0]
<1>1. \A i \in 1..NumBackends : s[i] \in Int /\ t[i] \in Int /\ u[i] = s[i] + t[i]
    BY DEF Backend
<1> HIDE DEF s, t, u
<1>2. SumTo(u, NumBackends) = SumTo(s, NumBackends) + SumTo(t, NumBackends)
    BY <1>1, SelectionAssumption, SumToAdd
<1>3. QED
    BY <1>2 DEF SumOver, s, t, u

LEMMA SumOverConst ==
    ASSUME NEW c \in Int, NEW S
    PROVE  SumOver([b \in Backend |-> c], S) = c * Size(S)
PROOF
<1> DEFINE one == [b \in Backend |-> 1]
           s == [b \in Backend |-> IF b \in S THEN one[b] ELSE 0]
           k == [b \in Backend |-> c]
           t == [b \in Backend |-> IF b \in S THEN k[b] ELSE 0]
<1>1. \A i \in 1..NumBackends : s[i] \in Int /\ t[i] = c * s[i]
    BY DEF Backend
<1> HIDE DEF s, t
<1>2. SumTo(t, NumBackends) = c * SumTo(s, NumBackends)
    BY <1>1, SelectionAssumption, SumToScale
<1>3. QED
    BY <1>2 DEF SumOver, Size, s, t

LEMMA SumOverEmpty == \A f : SumOver(f, {}) = 0
PROOF
    BY SelectionAssumption, SumToZero DEF SumOver, Backend

LEMMA SumOverOne ==
    ASSUME NEW f \in [Backend -> Int], NEW b \in Backend
    PROVE  SumOver(f, {b}) = f[b]
PROOF
<1> DEFINE z == [c \in Backend |-> 0]
           s == [c \in Backend |-> IF c \in {b} THEN f[c] ELSE 0]
<1>1. /\ \A i \in 1..NumBackends : z[i] \in Int /\ z[i] = 0
      /\ s[b] = z[b] + f[b] /\ f[b] \in Int /\ b \in 1..NumBackends
      /\ \A i \in 1..NumBackends : i # b => s[i] = z[i]
    BY DEF Backend
<1> HIDE DEF z, s
<1>2. SumTo(s, NumBackends) = SumTo(z, NumBackends) + f[b]
    BY <1>1, SelectionAssumption, SumToUpdate
<1>3. SumTo(z, NumBackends) = 0
    BY <1>1, SelectionAssumption, SumToZero
<1>4. SumTo(s, NumBackends) = f[b]
    BY <1>1, <1>2, <1>3
<1>5. QED
    BY Zenon, <1>4 DEF SumOver, s

(* A sum of what is not negative is not, and a greater set has a greater   *)
(* sum.                                                                    *)
LEMMA SumOverNat ==
    ASSUME NEW f \in [Backend -> Int], NEW S,
           \A b \in Backend : b \in S => f[b] >= 0
    PROVE  SumOver(f, S) >= 0
PROOF
<1> DEFINE z == [b \in Backend |-> 0]
<1>0. 0 \in Int
    OBVIOUS
<1>1. SumOver(z, S) = 0 * Size(S)
    BY Zenon, <1>0, SumOverConst
<1>2. Size(S) \in Int
    BY SumOverInt DEF Size
<1>3. z \in [Backend -> Int] /\ \A b \in Backend : b \in S => z[b] <= f[b]
    OBVIOUS
<1> HIDE DEF z
<1>4. SumOver(z, S) <= SumOver(f, S)
    BY <1>3, SumOverMono
<1>5. SumOver(f, S) \in Int
    BY SumOverInt
<1>6. QED
    BY <1>1, <1>2, <1>4, <1>5

LEMMA SumOverSubset ==
    ASSUME NEW f \in [Backend -> Int], \A b \in Backend : f[b] >= 0,
           NEW S, NEW T, T \subseteq S
    PROVE  /\ SumOver(f, S) = SumOver(f, T) + SumOver(f, S \ T)
           /\ SumOver(f, T) <= SumOver(f, S)
PROOF
<1>1. T \cup (S \ T) = S /\ T \cap (S \ T) = {}
    OBVIOUS
<1>2. SumOver(f, S) = SumOver(f, T) + SumOver(f, S \ T)
    BY <1>1, SumOverSplit
<1>3. SumOver(f, S \ T) >= 0
    BY SumOverNat
<1>4. SumOver(f, T) \in Int /\ SumOver(f, S \ T) \in Int
    BY SumOverInt
<1>5. QED
    BY <1>2, <1>3, <1>4

(* The number of backends of a set, counted with SumOver.                  *)
LEMMA SizeFacts ==
    /\ \A S : Size(S) \in Nat
    /\ \A S, T : S \cap T = {} => Size(S \cup T) = Size(S) + Size(T)
    /\ \A b \in Backend : Size({b}) = 1
    /\ Size({}) = 0
PROOF
<1> DEFINE one == [b \in Backend |-> 1]
<1>0. one \in [Backend -> Int] /\ \A b \in Backend : one[b] = 1 /\ one[b] >= 0
    OBVIOUS
<1>a. \A S : Size(S) = SumOver(one, S)
    BY DEF Size
<1> HIDE DEF one
<1>1. ASSUME NEW S PROVE Size(S) \in Nat
    <2>1. SumOver(one, S) \in Int
        BY <1>0, SumOverInt
    <2>2. SumOver(one, S) >= 0
        BY <1>0, SumOverNat
    <2>3. QED
        BY <1>a, <2>1, <2>2
<1>2. ASSUME NEW S, NEW T, S \cap T = {} PROVE Size(S \cup T) = Size(S) + Size(T)
    <2>1. SumOver(one, S \cup T) = SumOver(one, S) + SumOver(one, T)
        BY Zenon, <1>0, <1>2, SumOverSplit
    <2>2. QED
        BY Zenon, <1>a, <2>1
<1>3. ASSUME NEW b \in Backend PROVE Size({b}) = 1
    BY Zenon, <1>0, <1>a, SumOverOne
<1>4. Size({}) = 0
    BY Zenon, <1>a, SumOverEmpty
<1>5. QED
    BY Zenon, <1>1, <1>2, <1>3, <1>4

LEMMA SizeOfPool == Size(Backend) = NumBackends
PROOF
<1> DEFINE s == [b \in Backend |-> IF b \in Backend THEN [c \in Backend |-> 1][b] ELSE 0]
           P == {m \in Nat : m <= NumBackends => SumTo(s, m) = m}
<1>0. NumBackends \in Nat
    BY SelectionAssumption
<1>a. \A i \in 1..NumBackends : s[i] = 1
    BY DEF Backend
<1>b. Size(Backend) = SumTo(s, NumBackends)
    BY DEF Size, SumOver
<1> HIDE DEF s
<1>1. 0 \in P
    BY SumToZero
<1>2. ASSUME NEW m \in Nat, m \in P PROVE m + 1 \in P
    <2> SUFFICES ASSUME m + 1 <= NumBackends PROVE SumTo(s, m + 1) = m + 1
        OBVIOUS
    <2>1. \A i \in 1..(m+1) : s[i] \in Int /\ s[i] = 1
        BY <1>0, <1>a
    <2>2. SumTo(s, m + 1) = SumTo(s, m) + s[m+1]
        BY Zenon, <2>1, SumToStep
    <2>3. SumTo(s, m) = m /\ s[m+1] = 1
        BY <1>0, <1>2, <2>1
    <2>4. QED
        BY <2>2, <2>3
<1>3. Nat \subseteq P
    <2> HIDE DEF P
    <2>1. QED
        BY <1>1, <1>2, SetInduction
<1>4. NumBackends \in P /\ NumBackends <= NumBackends
    BY <1>0, <1>3
<1>5. QED
    BY <1>b, <1>4

-----------------------------------------------------------------------------
(* The winner of a selection: among any of the backends there is a first   *)
(* one of the greatest value.                                              *)
Leads(a, E, b) ==
    \A c \in E \ {b} : a[c] < a[b] \/ (a[c] = a[b] /\ b < c)

LEMMA LeaderExists ==
    ASSUME NEW a \in [Backend -> Int], NEW E \in SUBSET Backend, E # {}
    PROVE  \E b \in E : Leads(a, E, b)
PROOF
<1> DEFINE P == {m \in Nat : \A F \in SUBSET Backend :
                    F # {} /\ F \subseteq 1..m => \E b \in F : Leads(a, F, b)}
<1>0. NumBackends \in Nat /\ Backend = 1..NumBackends
    BY SelectionAssumption DEF Backend
<1>1. 0 \in P
    OBVIOUS
<1>2. ASSUME NEW m \in Nat, m \in P PROVE m + 1 \in P
    <2> SUFFICES ASSUME NEW F \in SUBSET Backend, F # {}, F \subseteq 1..(m+1)
                 PROVE  \E b \in F : Leads(a, F, b)
        OBVIOUS
    <2>1. CASE m + 1 \notin F
        <3>1. F \subseteq 1..m
            BY <2>1
        <3>2. QED
            BY <1>2, <3>1
    <2>2. CASE F = {m+1}
        BY <2>2 DEF Leads
    <2>3. CASE m + 1 \in F /\ F # {m+1}
        <3> DEFINE G == F \ {m+1}
        <3>1. G \in SUBSET Backend /\ G # {} /\ G \subseteq 1..m
            BY <2>3
        <3>2. PICK b \in G : Leads(a, G, b)
            BY <1>2, <3>1
        <3>3. b \in F /\ b < m + 1 /\ a[b] \in Int /\ a[m+1] \in Int
            BY <2>3, <3>1
        <3>4. \A c \in G : a[c] \in Int /\ (c = b \/ a[c] <= a[b])
            BY <3>1, <3>2 DEF Leads
        <3>5. CASE a[m+1] > a[b]
            <4>1. \A c \in G : a[c] < a[m+1]
                BY <3>3, <3>4, <3>5
            <4>2. Leads(a, F, m + 1)
                BY <4>1 DEF Leads
            <4>3. QED
                BY <2>3, <4>2
        <3>6. CASE a[m+1] <= a[b]
            <4>1. Leads(a, F, b)
                BY <3>2, <3>3, <3>6 DEF Leads
            <4>2. QED
                BY <3>3, <4>1
        <3>7. QED
            BY <3>3, <3>5, <3>6
    <2>4. QED
        BY <2>1, <2>2, <2>3
<1>3. Nat \subseteq P
    <2> HIDE DEF P
    <2>1. QED
        BY <1>1, <1>2, SetInduction
<1>4. NumBackends \in P /\ E \subseteq 1..NumBackends
    BY Zenon, <1>0, <1>3
<1>5. QED
    BY <1>4

LEMMA WinnerLeads ==
    ASSUME WeightsOK, NEW E \in SUBSET Backend, E # {}
    PROVE  Winner(E) \in E /\ Leads(Accrued(E), E, Winner(E))
PROOF
<1>1. Accrued(E) \in [Backend -> Int]
    BY DEF WeightsOK, Accrued
<1>2. \E b \in E : Leads(Accrued(E), E, b)
    BY Zenon, <1>1, LeaderExists
<1>3. QED
    BY Zenon, <1>2 DEF Winner, Leads

LEMMA HeaviestIsGreatest ==
    ASSUME WeightsOK
    PROVE  Heaviest \in Nat \ {0} /\ \A b \in Backend : weight[b] <= Heaviest
PROOF
<1> DEFINE W == {weight[b] : b \in Backend}
<1>0. Backend \in SUBSET Backend /\ Backend # {}
    BY SelectionAssumption DEF Backend
<1>1. weight \in [Backend -> Int]
    BY DEF WeightsOK
<1>2. PICK b \in Backend : Leads(weight, Backend, b)
    BY Zenon, <1>0, <1>1, LeaderExists
<1>3. \A c \in Backend : weight[c] <= weight[b]
    BY <1>1, <1>2 DEF Leads
<1>4. weight[b] \in W
    OBVIOUS
<1>5. Heaviest \in W /\ \A c \in Backend : weight[c] <= Heaviest
    BY Zenon, <1>3, <1>4 DEF Heaviest
<1>6. QED
    BY <1>5 DEF WeightsOK

(* What a selection does to the sum over a group: it adds the weights of   *)
(* the eligible ones, and the total of E is taken from the winner.         *)
LEMMA SelectSum ==
    ASSUME WeightsOK, NEW E \in SUBSET Backend, NEW b \in E, SelectAs(E, b), NEW S
    PROVE  /\ WeightsOK' /\ weight' = weight
           /\ SumOver(cw', S) = SumOver(cw, S) + SumOver(weight, S \cap E)
                                - (IF b \in S THEN SumOver(weight, E) ELSE 0)
PROOF
<1>1. /\ weight \in [Backend -> Int] /\ cw \in [Backend -> Int] /\ b \in Backend
      /\ Accrued(E) \in [Backend -> Int]
    BY DEF WeightsOK, Accrued
<1>2. SumOver(weight, E) \in Int /\ SumOver(weight, S \cap E) \in Int
          /\ SumOver(cw, S) \in Int
    BY <1>1, SumOverInt
<1>3. weight' = weight /\ cw' = [Accrued(E) EXCEPT ![b] = @ - SumOver(weight, E)]
    BY DEF SelectAs, TotalOf
<1>4. cw' \in [Backend -> Int]
    BY <1>1, <1>2, <1>3
<1> DEFINE v == IF b \in S THEN -SumOver(weight, E) ELSE 0
           f == [c \in Backend |-> IF c \in S THEN Accrued(E)[c] ELSE 0]
           h == [c \in Backend |-> IF c \in S THEN cw'[c] ELSE 0]
           p == [c \in Backend |-> IF c \in S THEN cw[c] ELSE 0]
           q == [c \in Backend |-> IF c \in S \cap E THEN weight[c] ELSE 0]
<1>5. SumTo(h, NumBackends) = SumTo(f, NumBackends) + v
    <2>1. /\ \A i \in 1..NumBackends : f[i] \in Int
          /\ b \in 1..NumBackends /\ v \in Int /\ NumBackends \in Nat
          /\ h[b] = f[b] + v
          /\ \A i \in 1..NumBackends : i # b => h[i] = f[i]
        <3> HIDE DEF v
        <3>1. v \in Int /\ b \in 1..NumBackends /\ NumBackends \in Nat
            BY <1>1, <1>2, SelectionAssumption DEF v, Backend
        <3>2. \A i \in 1..NumBackends : f[i] \in Int
            BY <1>1 DEF Backend
        <3>3. \A i \in 1..NumBackends : i # b => h[i] = f[i]
            BY <1>1, <1>3 DEF Backend
        <3>4. cw'[b] = Accrued(E)[b] - SumOver(weight, E) /\ Accrued(E)[b] \in Int
            BY <1>1, <1>3
        <3>5. h[b] = f[b] + v
            BY <1>1, <1>2, <3>4 DEF v
        <3>6. QED
            BY <3>1, <3>2, <3>3, <3>5
    <2> HIDE DEF f, h, v
    <2>2. QED
        BY <2>1, SumToUpdate
<1>6. SumTo(f, NumBackends) = SumTo(p, NumBackends) + SumTo(q, NumBackends)
    <2>1. \A i \in 1..NumBackends : p[i] \in Int /\ q[i] \in Int /\ f[i] = p[i] + q[i]
        BY <1>1 DEF Accrued, Backend
    <2> HIDE DEF f, p, q
    <2>2. QED
        BY <2>1, SelectionAssumption, SumToAdd
<1>7. /\ SumOver(cw', S) = SumTo(h, NumBackends)
      /\ SumOver(cw, S) = SumTo(p, NumBackends)
      /\ SumOver(weight, S \cap E) = SumTo(q, NumBackends)
    BY Zenon DEF SumOver
<1> HIDE DEF f, h, p, q
<1>8. QED
    BY <1>2, <1>3, <1>4, <1>5, <1>6, <1>7 DEF WeightsOK

-----------------------------------------------------------------------------
(* The arithmetic of GroupBounded: when the winner is outside a group of s *)
(* backends of which t are eligible, what the t are owed is at most what   *)
(* the winner is, and the bounds on the group with the winner and on the   *)
(* group without the t leave room for the weights just added.              *)
LEMMA TimesMono ==
    ASSUME NEW k \in Nat, NEW x \in Int, NEW y \in Int, x <= y
    PROVE  k * x <= k * y
PROOF
<1>1. y - x \in Nat /\ k * (y - x) >= 0
    OBVIOUS
<1>2. k * (y - x) = k * y - k * x
    OBVIOUS
<1>3. k * x \in Int /\ k * y \in Int
    OBVIOUS
<1>4. QED
    BY <1>1, <1>2, <1>3

LEMMA CancelPositive ==
    ASSUME NEW k \in Nat, NEW x \in Int, NEW y \in Int, (k + 1) * x <= (k + 1) * y
    PROVE  x <= y
PROOF
<1> SUFFICES ASSUME y + 1 <= x PROVE FALSE
    OBVIOUS
<1>1. (k + 1) * (y + 1) <= (k + 1) * x
    BY TimesMono
<1>2. (k + 1) * (y + 1) = (k + 1) * y + k + 1
    OBVIOUS
<1>3. (k + 1) * x \in Int /\ (k + 1) * y \in Int
    OBVIOUS
<1>4. QED
    BY <1>1, <1>2, <1>3

LEMMA GroupArithmetic ==
    ASSUME NEW M \in Nat, NEW n \in Nat, NEW s \in Nat, NEW t \in Nat,
           NEW cs \in Int, NEW ct \in Int, NEW wt \in Int, NEW x \in Int, NEW wb \in Int,
           cs + x <= M * ((s + 1) * (n - (s + 1))),
           cs - ct <= M * ((s - t) * (n - (s - t))),
           ct + wt <= (x + wb) * t,
           wb <= M, wt <= M * t
    PROVE  cs + wt <= M * (s * (n - s))
PROOF
<1> DEFINE A == M * ((s + 1) * (n - (s + 1)))
           B == M * ((s - t) * (n - (s - t)))
           G == M * (s * (n - s))
<1>0. A \in Int /\ B \in Int /\ G \in Int
    OBVIOUS
<1>1. t * A + B + M * t + t * (M * t) = (t + 1) * G
    OBVIOUS
<1>2. cs + x <= A /\ cs - ct <= B
    OBVIOUS
<1> HIDE DEF A, B, G
<1>3. t * (cs + x) <= t * A
    BY <1>0, <1>2, TimesMono
<1>4. t * wb <= t * M /\ t * wt <= t * (M * t)
    BY TimesMono
<1>5. /\ t * (cs + x) = t * cs + t * x
      /\ (x + wb) * t = t * x + t * wb
      /\ (t + 1) * (cs + wt) = t * cs + cs + t * wt + wt
      /\ t * M = M * t
    OBVIOUS
<1>6. /\ t * cs \in Int /\ t * x \in Int /\ t * wb \in Int /\ t * wt \in Int
      /\ t * (M * t) \in Int /\ M * t \in Int /\ t * A \in Int /\ (t + 1) * G \in Int
      /\ (t + 1) * (cs + wt) \in Int
    BY <1>0
<1>7. (t + 1) * (cs + wt) <= (t + 1) * G
    <2>1. ct + wt <= t * x + t * wb
        BY <1>5
    <2>2. t * cs + t * x <= t * A
        BY <1>3, <1>5
    <2>3. QED
        BY <1>0, <1>1, <1>2, <1>4, <1>5, <1>6, <2>1, <2>2
<1>8. cs + wt <= G
    BY <1>0, <1>7, CancelPositive
<1>9. QED
    BY <1>8 DEF G

(* A selection keeps GroupBounded.                                         *)
LEMMA SelectGroup ==
    ASSUME WeightsOK, GroupBounded, NEW E \in SUBSET Backend, E # {}, Select(E)
    PROVE  GroupBounded'
PROOF
<1> DEFINE b == Winner(E)
           a == Accrued(E)
<1>1. b \in E /\ Leads(a, E, b)
    BY WinnerLeads
<1>2. SelectAs(E, b)
    BY DEF Select
<1> HIDE DEF b
<1>3. /\ weight \in [Backend -> Int] /\ cw \in [Backend -> Int] /\ b \in Backend
      /\ a \in [Backend -> Int] /\ \A c \in Backend : weight[c] >= 0
    BY <1>1 DEF WeightsOK, Accrued
<1>4. Heaviest \in Nat /\ \A c \in Backend : weight[c] <= Heaviest
    BY HeaviestIsGreatest
<1>5. Heaviest' = Heaviest
    BY <1>2 DEF SelectAs, Heaviest
<1>6. \A S \in SUBSET Backend :
          SumOver(cw, S) <= Heaviest * (Size(S) * (NumBackends - Size(S)))
    BY DEF GroupBounded
<1>7. SUFFICES ASSUME NEW S \in SUBSET Backend
               PROVE  SumOver(cw', S) <= Heaviest * (Size(S) * (NumBackends - Size(S)))
    BY <1>5 DEF GroupBounded, Size, SumOver
<1>8. SumOver(cw', S) = SumOver(cw, S) + SumOver(weight, S \cap E)
                            - (IF b \in S THEN SumOver(weight, E) ELSE 0)
    BY <1>1, <1>2, SelectSum
<1>9. /\ SumOver(cw, S) \in Int /\ SumOver(weight, S \cap E) \in Int
      /\ SumOver(weight, E) \in Int /\ Size(S) \in Nat
    BY <1>3, SumOverInt, SizeFacts
<1>10. CASE b \in S
    <2>1. SumOver(weight, S \cap E) <= SumOver(weight, E)
        <3>1. S \cap E \subseteq E
            OBVIOUS
        <3>2. QED
            BY Zenon, <1>3, <3>1, SumOverSubset
    <2>2. SumOver(cw', S) <= SumOver(cw, S)
        BY <1>8, <1>9, <1>10, <2>1
    <2>3. SumOver(cw', S) \in Int
        BY <1>8, <1>9, <1>10
    <2>4. Heaviest * (Size(S) * (NumBackends - Size(S))) \in Int
        BY <1>4, <1>9, SelectionAssumption
    <2>5. QED
        BY <1>6, <1>9, <2>2, <2>3, <2>4
<1>11. CASE b \notin S
    <2> DEFINE T == S \cap E
               R == S \ T
               one == [c \in Backend |-> 1]
    <2>1. Size(S) = Size(R) + Size(T) /\ SumOver(cw, S) = SumOver(cw, R) + SumOver(cw, T)
        <3>1. S = R \cup T /\ R \cap T = {}
            OBVIOUS
        <3> HIDE DEF R, T
        <3>2. Size(R \cup T) = Size(R) + Size(T)
            BY Zenon, <3>1, SizeFacts
        <3>3. SumOver(cw, R \cup T) = SumOver(cw, R) + SumOver(cw, T)
            BY Zenon, <1>3, <3>1, SumOverSplit
        <3>4. QED
            BY <3>1, <3>2, <3>3
    <2>2. /\ Size(S \cup {b}) = Size(S) + 1
          /\ SumOver(cw, S \cup {b}) = SumOver(cw, S) + cw[b]
        <3>1. S \cap {b} = {}
            BY <1>11
        <3>2. Size(S \cup {b}) = Size(S) + Size({b}) /\ Size({b}) = 1
            BY Zenon, <1>3, <3>1, SizeFacts
        <3>3. SumOver(cw, S \cup {b}) = SumOver(cw, S) + SumOver(cw, {b})
            BY Zenon, <1>3, <3>1, SumOverSplit
        <3>4. SumOver(cw, {b}) = cw[b]
            BY Zenon, <1>3, SumOverOne
        <3>5. QED
            BY <3>2, <3>3, <3>4
    <2>3. S \cup {b} \in SUBSET Backend /\ R \in SUBSET Backend
        BY <1>3
    <2>4. Size(R) \in Nat /\ Size(T) \in Nat /\ cw[b] \in Int /\ weight[b] \in Int
              /\ SumOver(cw, R) \in Int /\ SumOver(cw, T) \in Int
              /\ NumBackends \in Nat
        BY <1>3, SumOverInt, SizeFacts, SelectionAssumption
    <2>5. SumOver(cw, T) + SumOver(weight, T) <= (cw[b] + weight[b]) * Size(T)
        <3> DEFINE k == [c \in Backend |-> cw[b] + weight[b]]
        <3>1. \A c \in Backend : c \in T => a[c] = cw[c] + weight[c]
            BY DEF Accrued
        <3>2. SumOver(a, T) = SumOver(cw, T) + SumOver(weight, T)
            <4> HIDE DEF a, T
            <4>1. QED
                BY <1>3, <3>1, SumOverAdd
        <3>3. a[b] = cw[b] + weight[b]
            BY <1>1, <1>3 DEF Accrued
        <3>4. \A c \in Backend : c \in T => a[c] <= k[c]
            BY <1>1, <1>3, <1>11, <3>3 DEF Leads
        <3>5. k \in [Backend -> Int] /\ cw[b] + weight[b] \in Int
            BY <2>4
        <3>6. SumOver(k, T) = (cw[b] + weight[b]) * Size(T)
            BY Zenon, <3>5, SumOverConst
        <3> HIDE DEF k, T, a
        <3>7. SumOver(a, T) <= SumOver(k, T)
            BY <1>3, <3>4, <3>5, SumOverMono
        <3>8. QED
            BY <3>2, <3>6, <3>7
    <2>6. SumOver(weight, T) <= Heaviest * Size(T)
        <3> DEFINE k == [c \in Backend |-> Heaviest]
        <3>1. k \in [Backend -> Int] /\ \A c \in Backend : c \in T => weight[c] <= k[c]
            BY <1>4
        <3>2. SumOver(k, T) = Heaviest * Size(T)
            <4>1. Heaviest \in Int
                BY <1>4
            <4>2. QED
                BY Zenon, <4>1, SumOverConst
        <3> HIDE DEF k, T
        <3>3. QED
            BY <1>3, <3>1, <3>2, SumOverMono
    <2>7. SumOver(cw, S) + cw[b]
              <= Heaviest * ((Size(S) + 1) * (NumBackends - (Size(S) + 1)))
        BY Zenon, <1>6, <2>2, <2>3
    <2>8. SumOver(cw, S) - SumOver(cw, T)
              <= Heaviest * ((Size(S) - Size(T)) * (NumBackends - (Size(S) - Size(T))))
        <3>1. Size(R) = Size(S) - Size(T) /\ SumOver(cw, R) = SumOver(cw, S) - SumOver(cw, T)
            BY <1>9, <2>1, <2>4
        <3>2. QED
            BY Zenon, <1>6, <2>3, <3>1
    <2> HIDE DEF T, R
    <2>9. SumOver(cw, S) + SumOver(weight, T)
              <= Heaviest * (Size(S) * (NumBackends - Size(S)))
        <3>1. SumOver(weight, T) \in Int /\ weight[b] <= Heaviest
            BY <1>3, <1>4, SumOverInt
        <3>2. QED
            BY <1>4, <1>9, <2>4, <2>5, <2>6, <2>7, <2>8, <3>1, GroupArithmetic
    <2>10. SumOver(cw', S) = SumOver(cw, S) + SumOver(weight, T)
        BY <1>8, <1>9, <1>11 DEF T
    <2>11. QED
        BY <2>9, <2>10
<1>12. QED
    BY <1>10, <1>11

(* The running weights add up to nothing, and no group is owed too much.   *)
BoundInv == WeightsOK /\ SumOver(cw, Backend) = 0 /\ GroupBounded

LEMMA InitBound == Init => BoundInv
PROOF
<1> SUFFICES ASSUME Init PROVE BoundInv
    OBVIOUS
<1>1. WeightsOK
    BY SelectionAssumption DEF Init, WeightsOK
<1>2. Heaviest \in Nat
    BY <1>1, HeaviestIsGreatest
<1>3. ASSUME NEW S PROVE SumOver(cw, S) = 0
    <2> DEFINE s == [b \in Backend |-> IF b \in S THEN cw[b] ELSE 0]
    <2>1. \A i \in 1..NumBackends : s[i] = 0
        BY DEF Init, Backend
    <2> HIDE DEF s
    <2>2. SumTo(s, NumBackends) = 0
        BY <2>1, SelectionAssumption, SumToZero
    <2>3. QED
        BY Zenon, <2>2 DEF SumOver, s
<1>4. ASSUME NEW S \in SUBSET Backend
      PROVE  0 <= Heaviest * (Size(S) * (NumBackends - Size(S)))
    <2>1. S \cup (Backend \ S) = Backend /\ S \cap (Backend \ S) = {}
        OBVIOUS
    <2>2. Size(Backend) = Size(S) + Size(Backend \ S)
        BY Zenon, <2>1, SizeFacts
    <2>3. Size(S) \in Nat /\ Size(Backend \ S) \in Nat
        BY Zenon, SizeFacts
    <2>4. NumBackends - Size(S) \in Nat
        BY <2>2, <2>3, SizeOfPool, SelectionAssumption
    <2>5. \A x, y \in Nat : x * y \in Nat
        OBVIOUS
    <2>6. Heaviest * (Size(S) * (NumBackends - Size(S))) \in Nat
        BY Zenon, <1>2, <2>3, <2>4, <2>5
    <2>7. QED
        BY <2>6
<1>5. GroupBounded
    BY <1>3, <1>4 DEF GroupBounded
<1>6. QED
    BY Zenon, <1>1, <1>3, <1>5 DEF BoundInv

LEMMA NextBound == BoundInv /\ [Next]_vars => BoundInv'
PROOF
<1> SUFFICES ASSUME BoundInv, [Next]_vars PROVE BoundInv'
    OBVIOUS
<1>1. CASE UNCHANGED vars
    <2>1. weight' = weight /\ cw' = cw
        BY <1>1 DEF vars
    <2>2. WeightsOK' /\ SumOver(cw, Backend)' = 0
        BY <2>1 DEF BoundInv, WeightsOK, SumOver
    <2>3. Heaviest' = Heaviest
        BY <2>1 DEF Heaviest
    <2>4. \A S : SumOver(cw, S)' = SumOver(cw, S) /\ Size(S)' = Size(S)
        BY <2>1 DEF SumOver, Size
    <2>5. GroupBounded'
        BY <2>3, <2>4 DEF BoundInv, GroupBounded
    <2>6. QED
        BY <2>2, <2>5 DEF BoundInv
<1>2. ASSUME NEW E \in SUBSET Backend, E # {}, Select(E) PROVE BoundInv'
    <2> DEFINE b == Winner(E)
    <2>1. WeightsOK /\ SumOver(cw, Backend) = 0 /\ GroupBounded
        BY DEF BoundInv
    <2>2. b \in E /\ SelectAs(E, b)
        BY <1>2, <2>1, WinnerLeads DEF Select
    <2> HIDE DEF b
    <2>3. GroupBounded'
        BY <1>2, <2>1, SelectGroup
    <2>4. /\ WeightsOK'
          /\ SumOver(cw', Backend) = SumOver(cw, Backend) + SumOver(weight, Backend \cap E)
                 - (IF b \in Backend THEN SumOver(weight, E) ELSE 0)
        BY <1>2, <2>1, <2>2, SelectSum
    <2>5. Backend \cap E = E /\ b \in Backend
        BY <1>2, <2>2
    <2>6. SumOver(weight, E) \in Int
        BY <2>1, SumOverInt DEF WeightsOK
    <2>7. SumOver(cw', Backend) = 0
        <3>1. SumOver(cw', Backend) = 0 + SumOver(weight, E) - SumOver(weight, E)
            BY Zenon, <2>1, <2>4, <2>5
        <3>2. QED
            BY <2>6, <3>1
    <2>8. QED
        BY Zenon, <2>3, <2>4, <2>7 DEF BoundInv
<1>3. CASE Next
    <2>1. PICK E \in (SUBSET Backend) \ {{}} : Select(E)
        BY Zenon, <1>3 DEF Next
    <2>2. E \in SUBSET Backend /\ E # {}
        BY <2>1
    <2>3. QED
        BY Zenon, <1>2, <2>1, <2>2
<1>4. QED
    BY Zenon, <1>1, <1>3

LEMMA BoundGives == BoundInv => WithinBound
PROOF
<1> SUFFICES ASSUME BoundInv, NEW b \in Backend
             PROVE  /\ cw[b] <= Heaviest * (NumBackends - 1)
                    /\ cw[b] >= -(Heaviest * (NumBackends - 1))
    BY DEF WithinBound
<1>1. WeightsOK /\ SumOver(cw, Backend) = 0 /\ GroupBounded
    BY DEF BoundInv
<1>2. Heaviest \in Nat /\ NumBackends \in Nat /\ cw[b] \in Int /\ cw \in [Backend -> Int]
    BY <1>1, HeaviestIsGreatest, SelectionAssumption DEF WeightsOK
<1> DEFINE R == Backend \ {b}
<1>3. {b} \cup R = Backend /\ {b} \cap R = {}
    OBVIOUS
<1> HIDE DEF R
<1>4. SumOver(cw, {b}) = cw[b] /\ Size({b}) = 1
    BY Zenon, <1>2, SumOverOne, SizeFacts
<1>5. SumOver(cw, Backend) = SumOver(cw, {b}) + SumOver(cw, R)
          /\ Size(Backend) = Size({b}) + Size(R)
    <2>0. cw \in [Backend -> Int] /\ {b} \cap R = {}
        BY Zenon, <1>2, <1>3
    <2>1. SumOver(cw, {b} \cup R) = SumOver(cw, {b}) + SumOver(cw, R)
        BY Zenon, <2>0, SumOverSplit
    <2>2. Size({b} \cup R) = Size({b}) + Size(R)
        BY Zenon, <1>3, SizeFacts
    <2>3. QED
        BY Zenon, <1>3, <2>1, <2>2
<1>6. SumOver(cw, R) \in Int /\ Size(R) \in Nat
    BY <1>2, SumOverInt, SizeFacts
<1>7. SumOver(cw, R) = -cw[b] /\ Size(R) = NumBackends - 1
    BY <1>1, <1>2, <1>4, <1>5, <1>6, SizeOfPool
<1>8. /\ SumOver(cw, {b}) <= Heaviest * (Size({b}) * (NumBackends - Size({b})))
      /\ SumOver(cw, R) <= Heaviest * (Size(R) * (NumBackends - Size(R)))
    BY <1>1 DEF GroupBounded, R
<1>9. /\ 1 * (NumBackends - 1) = NumBackends - 1
      /\ (NumBackends - 1) * (NumBackends - (NumBackends - 1)) = NumBackends - 1
    BY <1>2
<1>10. cw[b] <= Heaviest * (NumBackends - 1) /\ -cw[b] <= Heaviest * (NumBackends - 1)
    BY <1>4, <1>7, <1>8, <1>9
<1>11. Heaviest * (NumBackends - 1) \in Int
    BY <1>2
<1>12. QED
    BY <1>2, <1>10, <1>11

(* Whatever the weights and however backends come and go, no running       *)
(* weight of the balancer leaves the bound of WithinBound, nor the sum     *)
(* over any group of backends that of GroupBounded.                        *)
THEOREM HistoryBounded == Spec => [](GroupBounded /\ WithinBound)
PROOF
<1>1. Spec => []BoundInv
    BY InitBound, NextBound, PTL DEF Spec
<1>2. BoundInv => GroupBounded /\ WithinBound
    BY BoundGives DEF BoundInv
<1>3. QED
    BY <1>1, <1>2, PTL

-----------------------------------------------------------------------------
(* The cycle.  While every backend stays eligible a running weight is what *)
(* its backend is owed, exactly, and it stays above minus the total.       *)
Owed == \A b \in Backend : /\ cw[b] = Rounds * weight[b] - picks[b] * Total
                           /\ cw[b] > -Total

CycleInv ==
    /\ BoundInv
    /\ picks \in [Backend -> Nat]
    /\ Rounds <= Total
    /\ steady => Owed
    /\ ~steady => picks = NoPicks

LEMMA CycleTypes ==
    ASSUME WeightsOK, picks \in [Backend -> Nat]
    PROVE  Total \in Nat \ {0} /\ Rounds \in Nat
PROOF
<1>1. weight \in [Backend -> Int] /\ \A b \in Backend : weight[b] >= 1
    BY DEF WeightsOK
<1>2. Total \in Int
    BY <1>1, SumOverInt DEF Total, TotalOf
<1>3. Total >= 1
    <2> DEFINE one == [b \in Backend |-> 1]
    <2>1. one \in [Backend -> Int] /\ \A b \in Backend : b \in Backend => one[b] <= weight[b]
        BY <1>1
    <2>2. SumOver(one, Backend) = NumBackends
        BY SizeOfPool DEF Size
    <2> HIDE DEF one
    <2>3. SumOver(one, Backend) <= SumOver(weight, Backend)
        BY Zenon, <1>1, <2>1, SumOverMono
    <2>4. QED
        BY <1>2, <2>2, <2>3, SelectionAssumption DEF Total, TotalOf
<1>4. /\ \A i \in 1..NumBackends : picks[i] \in Int /\ picks[i] >= 0
      /\ NumBackends \in Nat /\ NumBackends \in 1..NumBackends
    BY SelectionAssumption DEF Backend
<1>5. Rounds \in Int
    BY <1>4, SumToInt DEF Rounds
<1>6. picks[NumBackends] <= Rounds
    BY <1>4, SumToTerm DEF Rounds
<1>7. QED
    BY <1>2, <1>3, <1>4, <1>5, <1>6

(* Nothing picked yet.                                                     *)
LEMMA NoRounds == picks = NoPicks => Rounds = 0 /\ picks \in [Backend -> Nat]
PROOF
<1> SUFFICES ASSUME picks = NoPicks PROVE Rounds = 0 /\ picks \in [Backend -> Nat]
    OBVIOUS
<1>1. \A i \in 1..NumBackends : picks[i] = 0
    BY DEF NoPicks, Backend
<1>2. Rounds = 0
    BY <1>1, SelectionAssumption, SumToZero DEF Rounds
<1>3. QED
    BY <1>2 DEF NoPicks

(* A multiple of k above -k is not negative; a multiple that is zero is of *)
(* zero.                                                                   *)
LEMMA MultipleAbove ==
    ASSUME NEW k \in Nat \ {0}, NEW x \in Int, k * x > -k
    PROVE  x >= 0
PROOF
<1> SUFFICES ASSUME x + 1 <= 0 PROVE FALSE
    OBVIOUS
<1>1. k * (x + 1) <= k * 0
    BY TimesMono
<1>2. k * (x + 1) = k * x + k /\ k * x \in Int
    OBVIOUS
<1>3. QED
    BY <1>1, <1>2

LEMMA CycleExact == CycleInv => Proportional
PROOF
<1> SUFFICES ASSUME CycleInv, Rounds = Total
             PROVE  picks = weight /\ \A b \in Backend : cw[b] = 0
    BY DEF Proportional
<1>1. WeightsOK /\ SumOver(cw, Backend) = 0 /\ picks \in [Backend -> Nat]
    BY DEF CycleInv, BoundInv
<1>2. Total \in Nat \ {0} /\ Rounds \in Nat
    BY <1>1, CycleTypes
<1>3. Owed
    BY <1>2, NoRounds DEF CycleInv
<1>4. ASSUME NEW b \in Backend
      PROVE  /\ cw[b] = Total * (weight[b] - picks[b]) /\ cw[b] \in Int
             /\ weight[b] - picks[b] >= 0 /\ weight[b] \in Nat /\ picks[b] \in Nat
    <2>1. weight[b] \in Nat /\ picks[b] \in Nat /\ cw[b] \in Int
        BY <1>1 DEF WeightsOK
    <2>2. cw[b] = Total * weight[b] - picks[b] * Total /\ cw[b] > -Total
        BY <1>3 DEF Owed
    <2>3. cw[b] = Total * (weight[b] - picks[b])
        BY <1>2, <2>1, <2>2
    <2>4. weight[b] - picks[b] >= 0
        BY <1>2, <2>1, <2>2, <2>3, MultipleAbove
    <2>5. QED
        BY <2>1, <2>3, <2>4
<1>5. \A b \in Backend : cw[b] >= 0
    <2>1. \A k, x \in Nat : k * x >= 0
        OBVIOUS
    <2>2. QED
        BY <1>2, <1>4, <2>1
<1>6. ASSUME NEW b \in Backend PROVE cw[b] = 0
    <2>1. cw \in [Backend -> Int]
        BY <1>1 DEF WeightsOK
    <2>2. SumOver(cw, {b}) <= SumOver(cw, Backend)
        <3>1. {b} \subseteq Backend
            OBVIOUS
        <3>2. QED
            BY Zenon, <1>5, <2>1, <3>1, SumOverSubset
    <2>3. SumOver(cw, {b}) = cw[b]
        BY Zenon, <2>1, SumOverOne
    <2>4. QED
        BY <1>1, <1>4, <1>5, <2>2, <2>3
<1>7. ASSUME NEW b \in Backend PROVE picks[b] = weight[b]
    <2>1. Total * (weight[b] - picks[b]) = 0
        BY <1>4, <1>6
    <2>2. \A k \in Nat \ {0}, x \in Nat : k * x = 0 => x = 0
        OBVIOUS
    <2>3. QED
        BY <1>2, <1>4, <2>1, <2>2
<1>8. picks = weight
    BY <1>1, <1>7 DEF WeightsOK
<1>9. QED
    BY <1>6, <1>8

(* With every backend eligible the winner is owed something: what is owed  *)
(* adds up to the total before it is charged.                              *)
LEMMA WinnerIsOwed ==
    ASSUME BoundInv
    PROVE  /\ Winner(Backend) \in Backend
           /\ cw[Winner(Backend)] + weight[Winner(Backend)] > 0
PROOF
<1> DEFINE b == Winner(Backend)
           a == Accrued(Backend)
<1>0. WeightsOK /\ SumOver(cw, Backend) = 0
    BY DEF BoundInv
<1>1. b \in Backend /\ Leads(a, Backend, b)
    <2>1. Backend \in SUBSET Backend /\ Backend # {}
        BY SelectionAssumption DEF Backend
    <2>2. QED
        BY Zenon, <1>0, <2>1, WinnerLeads
<1>2. /\ weight \in [Backend -> Int] /\ cw \in [Backend -> Int] /\ a \in [Backend -> Int]
      /\ \A c \in Backend : a[c] = cw[c] + weight[c]
    BY <1>0 DEF WeightsOK, Accrued
<1> HIDE DEF a, b
<1>3. SumOver(a, Backend) = SumOver(cw, Backend) + SumOver(weight, Backend)
    BY <1>2, SumOverAdd
<1>4. SumOver(weight, Backend) >= 1 /\ SumOver(weight, Backend) \in Int
    <2> DEFINE one == [c \in Backend |-> 1]
    <2>1. /\ one \in [Backend -> Int]
          /\ \A c \in Backend : c \in Backend => one[c] <= weight[c]
        BY <1>0 DEF WeightsOK
    <2>2. SumOver(one, Backend) = NumBackends
        BY SizeOfPool DEF Size
    <2> HIDE DEF one
    <2>3. SumOver(one, Backend) <= SumOver(weight, Backend)
        BY Zenon, <1>2, <2>1, SumOverMono
    <2>4. SumOver(weight, Backend) \in Int
        BY <1>2, SumOverInt
    <2>5. QED
        BY <2>2, <2>3, <2>4, SelectionAssumption
<1>5. a[b] > 0
    <2> SUFFICES ASSUME a[b] <= 0 PROVE FALSE
        BY <1>1, <1>2
    <2> DEFINE z == [c \in Backend |-> 0]
    <2>1. z \in [Backend -> Int] /\ \A c \in Backend : c \in Backend => a[c] <= z[c]
        BY <1>1, <1>2 DEF Leads
    <2>2. SumOver(z, Backend) = 0 * Size(Backend)
        <3>1. 0 \in Int
            OBVIOUS
        <3>2. QED
            BY Zenon, <3>1, SumOverConst
    <2> HIDE DEF z
    <2>3. SumOver(a, Backend) <= SumOver(z, Backend)
        BY Zenon, <1>2, <2>1, SumOverMono
    <2>4. 0 * Size(Backend) = 0
        BY SizeOfPool, SelectionAssumption
    <2>5. QED
        BY <1>0, <1>3, <1>4, <2>2, <2>3, <2>4
<1>6. QED
    BY <1>1, <1>2, <1>5 DEF b

LEMMA CycleSelectInv == CycleInv /\ CycleSelect => CycleInv'
PROOF
<1> SUFFICES ASSUME CycleInv, CycleSelect PROVE CycleInv'
    OBVIOUS
<1>0. BoundInv
    BY DEF CycleInv
<1>a. PICK b \in Backend : b = Winner(Backend)
    BY <1>0, WinnerIsOwed
<1>1. /\ BoundInv /\ WeightsOK /\ picks \in [Backend -> Nat] /\ Owed
      /\ steady' = steady /\ steady /\ Rounds < Total
      /\ picks' = [picks EXCEPT ![b] = @ + 1]
      /\ Select(Backend)
    BY <1>a DEF CycleInv, BoundInv, CycleSelect
<1>2. b \in Backend /\ cw[b] + weight[b] > 0
    BY <1>0, <1>a, WinnerIsOwed
<1>3. /\ cw' = [Accrued(Backend) EXCEPT ![b] = @ - Total]
      /\ weight' = weight
    BY <1>1, <1>a DEF Select, SelectAs, Total
<1>4. BoundInv'
    <2>1. Backend \in (SUBSET Backend) \ {{}}
        BY <1>2
    <2>2. Next
        BY Zenon, <1>1, <2>1 DEF Next
    <2>3. QED
        BY <1>1, <2>2, NextBound
<1>5. picks' \in [Backend -> Nat]
    BY <1>1, <1>2
<1>6. Rounds' = Rounds + 1
    <2>1. /\ \A i \in 1..NumBackends : picks[i] \in Int
          /\ b \in 1..NumBackends /\ NumBackends \in Nat /\ 1 \in Int
          /\ picks'[b] = picks[b] + 1
          /\ \A i \in 1..NumBackends : i # b => picks'[i] = picks[i]
        BY <1>1, <1>2, SelectionAssumption DEF Backend
    <2>2. QED
        BY <2>1, SumToUpdate DEF Rounds
<1>7. Total' = Total
    BY <1>3 DEF Total, TotalOf, SumOver
<1>8. Total \in Nat \ {0} /\ Rounds \in Nat
    BY <1>1, CycleTypes
<1>9. ASSUME NEW c \in Backend
      PROVE  /\ cw'[c] = (Rounds + 1) * weight[c] - picks'[c] * Total
             /\ cw'[c] > -Total
    <2>1. /\ cw[c] \in Int /\ weight[c] \in Nat /\ picks[c] \in Nat
          /\ cw[c] = Rounds * weight[c] - picks[c] * Total /\ cw[c] > -Total
        BY <1>1 DEF Owed, WeightsOK
    <2>2. (Rounds + 1) * weight[c] = Rounds * weight[c] + weight[c]
              /\ (picks[c] + 1) * Total = picks[c] * Total + Total
              /\ Rounds * weight[c] \in Int /\ picks[c] * Total \in Int
        BY <1>8, <2>1
    <2>3. CASE c = b
        <3>1. cw'[c] = cw[c] + weight[c] - Total /\ picks'[c] = picks[c] + 1
            <4>1. cw'[b] = Accrued(Backend)[b] - Total
                BY <1>2, <1>3 DEF Accrued
            <4>2. Accrued(Backend)[b] = cw[b] + weight[b]
                BY <1>2 DEF Accrued
            <4>3. picks'[b] = picks[b] + 1
                BY <1>1, <1>2
            <4>4. QED
                BY <1>8, <2>1, <2>3, <4>1, <4>2, <4>3
        <3>2. cw[c] + weight[c] > 0
            BY <1>2, <2>3
        <3>3. cw'[c] > -Total
            BY <1>8, <2>1, <3>1, <3>2
        <3>4. cw'[c] = (Rounds + 1) * weight[c] - (picks[c] + 1) * Total
            BY <1>8, <2>1, <2>2, <3>1
        <3>5. QED
            BY <3>1, <3>3, <3>4
    <2>4. CASE c # b
        <3>1. cw'[c] = cw[c] + weight[c] /\ picks'[c] = picks[c]
            BY <1>1, <1>2, <1>3, <2>4 DEF Accrued
        <3>2. QED
            BY <1>8, <2>1, <2>2, <3>1
    <2>5. QED
        BY <2>3, <2>4
<1>10. Owed'
    BY <1>3, <1>6, <1>7, <1>9 DEF Owed
<1>11. (Rounds <= Total)'
    BY <1>1, <1>6, <1>7, <1>8
<1>12. QED
    BY <1>1, <1>4, <1>5, <1>10, <1>11 DEF CycleInv

LEMMA CycleRestartInv == CycleInv /\ CycleRestart => CycleInv'
PROOF
<1> SUFFICES ASSUME CycleInv, CycleRestart PROVE CycleInv'
    OBVIOUS
<1>1. /\ BoundInv /\ WeightsOK /\ picks \in [Backend -> Nat] /\ steady
      /\ weight' = weight /\ cw' = cw /\ steady' = steady
      /\ Rounds = Total /\ picks' = NoPicks
    BY DEF CycleInv, BoundInv, CycleRestart, vars
<1>2. \A b \in Backend : cw[b] = 0
    BY <1>1, CycleExact DEF Proportional
<1>3. BoundInv'
    BY <1>1, NextBound DEF vars
<1>4. Rounds' = 0 /\ picks' \in [Backend -> Nat]
    <2>1. \A i \in 1..NumBackends : picks'[i] = 0
        BY <1>1 DEF NoPicks, Backend
    <2>2. QED
        BY <1>1, <2>1, SelectionAssumption, SumToZero DEF Rounds, NoPicks
<1>5. Total' = Total /\ Total \in Nat \ {0}
    BY <1>1, CycleTypes DEF Total, TotalOf, SumOver
<1>6. ASSUME NEW b \in Backend
      PROVE  cw'[b] = 0 * weight'[b] - picks'[b] * Total /\ cw'[b] > -Total
    <2>1. cw'[b] = 0 /\ weight'[b] \in Nat /\ picks'[b] = 0
        BY <1>1, <1>2 DEF WeightsOK, NoPicks
    <2>2. QED
        BY <1>5, <2>1
<1>7. Owed'
    BY <1>4, <1>5, <1>6 DEF Owed
<1>8. QED
    BY <1>1, <1>3, <1>4, <1>5, <1>7 DEF CycleInv

LEMMA UnsteadyInv == CycleInv /\ UnsteadySelect => CycleInv'
PROOF
<1> SUFFICES ASSUME CycleInv, UnsteadySelect PROVE CycleInv'
    OBVIOUS
<1>1. BoundInv /\ Next /\ steady' = FALSE /\ picks' = NoPicks
    BY DEF CycleInv, UnsteadySelect
<1>2. BoundInv'
    BY <1>1, NextBound
<1>3. Rounds' = 0 /\ picks' \in [Backend -> Nat]
    <2>1. \A i \in 1..NumBackends : picks'[i] = 0
        BY <1>1 DEF NoPicks, Backend
    <2>2. QED
        BY <1>1, <2>1, SelectionAssumption, SumToZero DEF Rounds, NoPicks
<1>4. (Total \in Nat \ {0})'
    <2>1. WeightsOK' /\ (picks \in [Backend -> Nat])'
        BY <1>2, <1>3 DEF BoundInv
    <2>2. (WeightsOK /\ picks \in [Backend -> Nat] => Total \in Nat \ {0})'
        BY CycleTypes, PTL
    <2>3. QED
        BY <2>1, <2>2
<1>5. QED
    BY <1>1, <1>2, <1>3, <1>4 DEF CycleInv, NoPicks

LEMMA CycleAlways == CycleSpec => []CycleInv
PROOF
<1>1. CycleInit => CycleInv
    <2> SUFFICES ASSUME CycleInit PROVE CycleInv
        OBVIOUS
    <2>1. BoundInv /\ WeightsOK /\ steady /\ picks = NoPicks
        BY InitBound DEF CycleInit, BoundInv
    <2>2. Rounds = 0 /\ picks \in [Backend -> Nat]
        BY <2>1, NoRounds
    <2>3. Total \in Nat \ {0}
        BY <2>1, <2>2, CycleTypes
    <2>4. ASSUME NEW b \in Backend
          PROVE  cw[b] = 0 * weight[b] - picks[b] * Total /\ cw[b] > -Total
        <3>1. cw[b] = 0 /\ weight[b] \in Nat /\ picks[b] = 0
            BY <2>1 DEF CycleInit, Init, WeightsOK, NoPicks
        <3>2. QED
            BY <2>3, <3>1
    <2>5. Owed
        BY <2>2, <2>4 DEF Owed
    <2>6. QED
        BY <2>1, <2>2, <2>3, <2>5 DEF CycleInv
<1>2. CycleInv /\ UNCHANGED cycleVars => CycleInv'
    <2> SUFFICES ASSUME CycleInv, UNCHANGED cycleVars PROVE CycleInv'
        OBVIOUS
    <2>1. UNCHANGED <<weight, cw, steady, picks>> /\ UNCHANGED vars
        BY DEF cycleVars, vars
    <2>2. BoundInv'
        BY <2>1, NextBound DEF CycleInv
    <2>3. Rounds' = Rounds /\ Total' = Total
        BY <2>1 DEF Rounds, Total, TotalOf, SumOver
    <2>4. QED
        BY <2>1, <2>2, <2>3 DEF CycleInv, Owed, NoPicks
<1>3. QED
    BY <1>1, <1>2, CycleSelectInv, CycleRestartInv, UnsteadyInv, PTL DEF CycleSpec

(* The bounds of HistoryBounded hold along the cycles as well: a pool that *)
(* has been unsteady starts its next cycle from within them.               *)
THEOREM CycleBounded == CycleSpec => [](GroupBounded /\ WithinBound)
PROOF
<1>1. CycleInv => GroupBounded /\ WithinBound
    BY BoundGives DEF CycleInv, BoundInv
<1>2. QED
    BY <1>1, CycleAlways, PTL

(* With every backend eligible, each gets its exact share of every cycle   *)
(* and the running weights return to zero: LoadBalancer::next is           *)
(* proportional for every pool and every assignment of weights.            *)
THEOREM ExactShares == CycleSpec => []Proportional
PROOF
    BY CycleAlways, CycleExact, PTL

(* Within a cycle no backend runs a whole selection ahead of its share, or *)
(* behind by more than the bound of Smooth.                                *)
THEOREM NeverAhead == CycleSpec => []Smooth
PROOF
<1>1. CycleInv => Smooth
    <2> SUFFICES ASSUME CycleInv, NEW b \in Backend
                 PROVE  LET ahead == picks[b] * Total - Rounds * weight[b]
                        IN  ahead < Total /\ -ahead <= Heaviest * (NumBackends - 1)
        BY DEF Smooth
    <2> DEFINE ahead == picks[b] * Total - Rounds * weight[b]
               H == Heaviest * (NumBackends - 1)
    <2>1. WeightsOK /\ picks \in [Backend -> Nat] /\ WithinBound
        BY BoundGives DEF CycleInv, BoundInv
    <2>2. Total \in Nat \ {0} /\ Rounds \in Nat /\ weight[b] \in Nat /\ picks[b] \in Nat
        BY <2>1, CycleTypes DEF WeightsOK
    <2>3. cw[b] \in Int /\ cw[b] <= H
        BY <2>1 DEF WithinBound, WeightsOK
    <2>4. Heaviest \in Nat \ {0} /\ NumBackends \in Nat \ {0}
        BY <2>1, HeaviestIsGreatest, SelectionAssumption
    <2>5. H \in Nat
        BY <2>4
    <2>6. CASE steady
        <3>1. cw[b] = Rounds * weight[b] - picks[b] * Total /\ cw[b] > -Total
            BY <2>6 DEF CycleInv, Owed
        <3>2. Rounds * weight[b] \in Int /\ picks[b] * Total \in Int
            BY <2>2
        <3> HIDE DEF H
        <3>3. QED
            BY <2>2, <2>3, <2>5, <3>1, <3>2 DEF H
    <2>7. CASE ~steady
        <3>1. Rounds = 0 /\ picks[b] = 0
            BY <2>7, NoRounds DEF CycleInv, NoPicks
        <3>2. ahead = 0
            BY <2>2, <3>1
        <3> HIDE DEF H, ahead
        <3>3. QED
            BY <2>2, <2>5, <3>2 DEF H, ahead
    <2>8. QED
        BY <2>6, <2>7
<1>2. QED
    BY <1>1, CycleAlways, PTL

=============================================================================
