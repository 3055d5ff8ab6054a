--------------------------- MODULE RefinementProofs -------------------------
(***************************************************************************)
(* Proof that next() implements smooth weighted round-robin as long as its *)
(* calls do not overlap, and of what is left when they do, for every pool, *)
(* every assignment of weights and every number of handlers, with or       *)
(* without the checker.                                                    *)
(***************************************************************************)
EXTENDS BalancerRefinement, BalancerProofs, FiniteSetTheorems

(* What a scan in progress has added to is what its total counts, lies     *)
(* behind its index, and contains its best; outside a scan there is none.  *)
ScanOf(t) ==
    /\ taken[t] \in SUBSET Backend
    /\ total[t] = WRR!TotalOf(taken[t])
    /\ pc[t] \notin Selecting => taken[t] = {}
    /\ best[t] = 0 => taken[t] = {}
    /\ best[t] # 0 => best[t] \in taken[t]
    /\ pc[t] \in ScanLabel => \A b \in taken[t] : b < arg[t]
    /\ pc[t] = "charge" => arg[t] = best[t] /\ best[t] # 0

TakenInv == taken \in [Thread -> SUBSET Backend] /\ \A t \in Thread : ScanOf(t)

(* RefinementNext's update of the history variable.                        *)
Take ==
    taken' = [t \in Thread |->
                IF pc[t] = "accrue" /\ pc'[t] # pc[t] THEN taken[t] \cup {arg[t]}
                ELSE IF pc[t] = "charge" /\ pc'[t] # pc[t] THEN {}
                ELSE taken[t]]

LEMMA TakeStep ==
    ASSUME TypeOK, taken \in [Thread -> SUBSET Backend], NEW t \in Thread, Step(t), Take
    PROVE  \/ Accrue(t) /\ taken' = [taken EXCEPT ![t] = @ \cup {arg[t]}]
           \/ Charge(t) /\ taken' = [taken EXCEPT ![t] = {}]
           \/ /\ ~Accrue(t) /\ ~Charge(t)
              /\ taken' = taken /\ current' = current
PROOF
<1>1. ASSUME NEW u \in Thread, u # t PROVE taken'[u] = taken[u]
    BY <1>1, StepLocal DEF Take
<1>2. CASE Accrue(t)
    <2>1. pc[t] = "accrue" /\ pc'[t] # "accrue"
        BY <1>2 DEF Accrue, Advance, Goto, GotoOn, TypeOK
    <2>2. taken'[t] = taken[t] \cup {arg[t]}
        BY <2>1 DEF Take
    <2>3. taken' = [taken EXCEPT ![t] = taken[t] \cup {arg[t]}]
        BY Zenon, <1>1, <2>2 DEF Take
    <2>4. QED
        BY <1>2, <2>3
<1>3. CASE Charge(t)
    <2>1. pc[t] = "charge" /\ pc'[t] # "charge"
        BY <1>3 DEF Charge, Goto, GotoOn, TypeOK
    <2>2. taken'[t] = {}
        BY <2>1 DEF Take
    <2>3. taken' = [taken EXCEPT ![t] = {}]
        BY Zenon, <1>1, <2>2 DEF Take
    <2>4. QED
        BY <1>3, <2>3
<1>4. CASE ~Accrue(t) /\ ~Charge(t)
    <2>1. pc[t] \notin {"accrue", "charge"} /\ current' = current
        BY Zenon, <1>4 DEF Step, NextCall, EligibleHealthy, TrialHealthy, TrialNow, TrialUntil,
           Route, Respond, Probe, RecordStep, SuccessCheck, SuccessClear, SuccessAdd,
           Promote, FailureAdd, FailureSwap, ArmNow, ArmStore
    <2>2. taken'[t] = taken[t]
        BY <2>1 DEF Take
    <2>3. taken' = taken
        BY <1>1, <2>2 DEF Take
    <2>4. QED
        BY <1>4, <2>1, <2>3
<1>5. QED
    BY <1>2, <1>3, <1>4

(* The totals of the abstract specification.                               *)
LEMMA TotalOfTaken ==
    /\ WRR!TotalOf({}) = 0
    /\ \A E \in SUBSET Backend : WRR!TotalOf(E) \in Int
    /\ \A E \in SUBSET Backend : \A b \in Backend \ E :
           WRR!TotalOf(E \cup {b}) = WRR!TotalOf(E) + Weight[b]
PROOF
<1> DEFINE f(E) == [b \in Backend |-> IF b \in E THEN Weight[b] ELSE 0]
<1>0. ASSUME NEW E PROVE WRR!TotalOf(E) = SumTo(f(E), NumBackends)
    <2>1. \A g, n : WRR!SumTo(g, n) = SumTo(g, n)
        BY DEF WRR!SumTo, SumTo
    <2>2. WRR!TotalOf(E) = WRR!SumTo(f(E), NumBackends)
        BY Zenon DEF WRR!TotalOf, WRR!SumOver, WRR!Backend, Backend
    <2>3. QED
        BY Zenon, <2>1, <2>2
<1>1. NumBackends \in Nat /\ \A E : \A i \in 1..NumBackends : f(E)[i] \in Int
    BY PoolAssumption, WeightAssumption DEF Backend
<1>2. WRR!TotalOf({}) = 0
    <2>1. \A i \in 1..NumBackends : f({})[i] = 0
        BY DEF Backend
    <2> HIDE DEF f
    <2>2. QED
        BY <1>0, <1>1, <2>1, SumToZero
<1>3. ASSUME NEW E \in SUBSET Backend PROVE WRR!TotalOf(E) \in Int
    <2> HIDE DEF f
    <2>1. QED
        BY <1>0, <1>1, SumToInt
<1>4. ASSUME NEW E \in SUBSET Backend, NEW b \in Backend \ E
      PROVE  WRR!TotalOf(E \cup {b}) = WRR!TotalOf(E) + Weight[b]
    <2> DEFINE p == f(E)
               q == f(E \cup {b})
    <2>1. /\ q[b] = p[b] + Weight[b] /\ b \in 1..NumBackends /\ Weight[b] \in Int
          /\ \A i \in 1..NumBackends : i # b => q[i] = p[i]
          /\ \A i \in 1..NumBackends : p[i] \in Int
        BY WeightAssumption DEF Backend
    <2> HIDE DEF p, q, f
    <2>2. SumTo(q, NumBackends) = SumTo(p, NumBackends) + Weight[b]
        BY <1>1, <2>1, SumToUpdate
    <2>3. QED
        BY Zenon, <1>0, <2>2 DEF p, q
<1>5. QED
    BY <1>2, <1>3, <1>4

(* A step of a thread leaves the locals of the other scans alone.          *)
LEMMA StepScan ==
    ASSUME TypeOK, NEW t \in Thread, Step(t), NEW u \in Thread, u # t
    PROVE  total'[u] = total[u] /\ bestWeight'[u] = bestWeight[u]
PROOF
<1> USE DEF TypeOK, scan
<1>1. CASE NextCall(t) \/ Charge(t)
    BY <1>1 DEF NextCall, Charge, ResetScan
<1>2. CASE Accrue(t)
    BY <1>2 DEF Accrue
<1>3. CASE ~NextCall(t) /\ ~Charge(t) /\ ~Accrue(t)
    BY SMTT(30), <1>3 DEF Step, EligibleHealthy, TrialHealthy, TrialNow, TrialUntil, Route,
       Respond, Probe
<1>4. QED
    BY <1>1, <1>2, <1>3

(* At the end of an iteration that leaves b the best.                      *)
LEMMA AdvanceScan ==
    ASSUME TypeOK, NEW t \in Thread, NEW b \in Backend \cup {0}, Advance(t, b),
           best'[t] = b, taken'[t] \in SUBSET Backend,
           total'[t] = WRR!TotalOf(taken'[t]),
           b = 0 => taken'[t] = {}, b # 0 => b \in taken'[t],
           \A c \in taken'[t] : c <= arg[t]
    PROVE  ScanOf(t)'
PROOF
<1>0. arg[t] \in Backend /\ arg \in [Thread -> Backend] /\ pc \in [Thread -> Label]
    BY DEF TypeOK, CellsTypeOK, Label
<1>a. WRR!TotalOf(taken[t])' = WRR!TotalOf(taken'[t])
    BY DEF WRR!TotalOf, WRR!SumOver, WRR!Backend
<1>1. CASE arg[t] < NumBackends
    <2>1. pc'[t] = "eligible" /\ arg'[t] = arg[t] + 1
        BY <1>0, <1>1 DEF Advance, GotoOn
    <2>2. \A c \in taken'[t] : c < arg[t] + 1
        BY <1>0 DEF Backend
    <2>3. QED
        BY <1>a, <2>1, <2>2 DEF ScanOf, Selecting, ScanLabel
<1>2. CASE ~(arg[t] < NumBackends) /\ b = 0
    <2>1. pc'[t] = "idle"
        BY <1>0, <1>2 DEF Advance, Goto, GotoOn
    <2>2. QED
        BY <1>2, <1>a, <2>1 DEF ScanOf, Selecting, ScanLabel
<1>3. CASE ~(arg[t] < NumBackends) /\ b # 0
    <2>1. pc'[t] = "charge" /\ arg'[t] = b
        BY <1>0, <1>3 DEF Advance, GotoOn
    <2>2. QED
        BY <1>3, <1>a, <2>1 DEF ScanOf, Selecting, ScanLabel
<1>4. QED
    BY SMTT(30), <1>1, <1>2, <1>3

(* A thread that does not move keeps what its scan has taken.              *)
LEMMA OtherScan ==
    ASSUME TypeOK, TakenInv, NEW t \in Thread, Step(t), Take,
           NEW u \in Thread, u # t
    PROVE  ScanOf(u)'
PROOF
<1>1. /\ pc'[u] = pc[u] /\ arg'[u] = arg[u] /\ best'[u] = best[u]
      /\ total'[u] = total[u]
    BY StepLocal, StepScan
<1>2. taken'[u] = taken[u]
    BY <1>1 DEF Take
<1>3. WRR!TotalOf(taken[u])' = WRR!TotalOf(taken'[u])
    BY DEF WRR!TotalOf, WRR!SumOver, WRR!Backend
<1>4. QED
    BY <1>1, <1>2, <1>3 DEF ScanOf, TakenInv

(* The scan of the thread that moves.                                      *)
LEMMA MoverScan ==
    ASSUME TypeOK, TakenInv, NEW t \in Thread, Step(t), Take
    PROVE  ScanOf(t)'
PROOF
<1>0. /\ ScanOf(t) /\ taken \in [Thread -> SUBSET Backend]
      /\ arg[t] \in Backend /\ best[t] \in Backend \cup {0}
      /\ total[t] \in Nat
    BY DEF TakenInv, TypeOK, CellsTypeOK
<1>a. WRR!TotalOf(taken[t])' = WRR!TotalOf(taken'[t])
    BY DEF WRR!TotalOf, WRR!SumOver, WRR!Backend
<1>b. ASSUME pc[t] \notin {"accrue", "charge"} PROVE taken'[t] = taken[t]
    BY <1>b DEF Take
<1>c. pc[t] \notin Selecting => taken[t] = {} /\ best[t] = 0
    BY SMTT(30), <1>0 DEF ScanOf
(* The steps within an iteration. *)
<1>d. ASSUME pc[t] \in ScanLabel \ {"accrue"}, pc'[t] \in ScanLabel,
             arg'[t] = arg[t], total' = total, best' = best
      PROVE  ScanOf(t)'
    <2>1. taken'[t] = taken[t]
        BY <1>b, <1>d DEF ScanLabel
    <2>2. QED
        BY SMTT(30), <1>0, <1>a, <1>d, <2>1 DEF ScanOf, ScanLabel, Selecting
(* The end of an iteration that adds nothing. *)
<1>e. ASSUME pc[t] \in ScanLabel \ {"accrue"}, Advance(t, best[t]),
             total' = total, best' = best
      PROVE  ScanOf(t)'
    <2>1. taken'[t] = taken[t]
        BY <1>b, <1>e DEF ScanLabel
    <2>2. \A c \in taken'[t] : c <= arg[t]
        BY SMTT(30), <1>0, <1>e, <2>1 DEF ScanOf, Backend
    <2>3. QED
        BY Zenon, <1>0, <1>e, <2>1, <2>2, AdvanceScan DEF ScanOf
(* The steps outside a scan. *)
<1>f. ASSUME pc[t] \notin Selecting, pc'[t] \notin Selecting,
             total' = total, best' = best
      PROVE  ScanOf(t)'
    <2>1. taken'[t] = {} /\ taken[t] = {} /\ best[t] = 0
        BY <1>b, <1>c, <1>f DEF Selecting, ScanLabel
    <2>2. QED
        BY SMTT(30), <1>0, <1>a, <1>f, <2>1 DEF ScanOf, Selecting, ScanLabel
<1>1. CASE NextCall(t)
    <2>1. /\ pc[t] = "idle" /\ pc'[t] = "eligible"
          /\ total'[t] = 0 /\ best'[t] = 0
        BY <1>1 DEF NextCall, Call, GotoOn, ResetScan, TypeOK
    <2>2. taken'[t] = {}
        BY <1>b, <1>c, <2>1 DEF Selecting, ScanLabel
    <2>3. QED
        BY SMTT(30), <1>a, <2>1, <2>2, TotalOfTaken DEF ScanOf, Selecting, ScanLabel
<1>2. CASE EligibleHealthy(t)
    <2>1. /\ pc[t] = "eligible" /\ pc'[t] \in {"accrue", "trial_healthy"}
          /\ arg'[t] = arg[t] /\ total' = total /\ best' = best
        BY SMTT(30), <1>2 DEF EligibleHealthy, Goto, GotoOn, scan, TypeOK, CellsTypeOK
    <2>2. QED
        BY <1>d, <2>1 DEF ScanLabel
<1>3. CASE TrialHealthy(t)
    <2>1. pc[t] = "trial_healthy" /\ total' = total /\ best' = best
        BY <1>3 DEF TrialHealthy, scan
    <2>2. CASE Advance(t, best[t])
        BY <1>e, <2>1, <2>2 DEF ScanLabel
    <2>3. CASE Goto(t, "trial_now")
        <3>1. pc'[t] = "trial_now" /\ arg'[t] = arg[t]
            BY SMTT(30), <2>3 DEF Goto, GotoOn, TypeOK, CellsTypeOK
        <3>2. QED
            BY <1>d, <2>1, <3>1 DEF ScanLabel
    <2>4. QED
        BY <1>3, <2>2, <2>3 DEF TrialHealthy
<1>4. CASE TrialNow(t)
    <2>1. /\ pc[t] = "trial_now" /\ pc'[t] = "trial_until"
          /\ arg'[t] = arg[t] /\ total' = total /\ best' = best
        BY SMTT(30), <1>4 DEF TrialNow, Goto, GotoOn, scan, TypeOK, CellsTypeOK
    <2>2. QED
        BY <1>d, <2>1 DEF ScanLabel
<1>5. CASE TrialUntil(t)
    <2>1. pc[t] = "trial_until" /\ total' = total /\ best' = best
        BY <1>5 DEF TrialUntil, scan
    <2>2. CASE Advance(t, best[t])
        BY <1>e, <2>1, <2>2 DEF ScanLabel
    <2>3. CASE Goto(t, "accrue")
        <3>1. pc'[t] = "accrue" /\ arg'[t] = arg[t]
            BY SMTT(30), <2>3 DEF Goto, GotoOn, TypeOK, CellsTypeOK
        <3>2. QED
            BY <1>d, <2>1, <3>1 DEF ScanLabel
    <2>4. QED
        BY SMTT(30), <1>5, <2>2, <2>3 DEF TrialUntil
<1>6. CASE Accrue(t)
    <2> DEFINE w == IF best[t] = 0 \/ current[arg[t]] + Weight[arg[t]] > bestWeight[t]
                    THEN arg[t] ELSE best[t]
    <2>1. /\ pc[t] = "accrue" /\ Advance(t, w) /\ best'[t] = w
          /\ total'[t] = total[t] + Weight[arg[t]]
        BY SMTT(30), <1>6 DEF Accrue, TypeOK
    <2>2. taken' = [taken EXCEPT ![t] = @ \cup {arg[t]}]
        <3>1. ~Charge(t)
            BY SMTT(30), <2>1 DEF Charge
        <3>2. QED
            BY SMTT(30), <1>0, <1>6, <3>1, TakeStep
    <2>3. taken'[t] = taken[t] \cup {arg[t]}
        BY <1>0, <2>2
    <2>4. \A c \in taken[t] : c < arg[t]
        BY Zenon, <1>0, <2>1 DEF ScanOf, ScanLabel
    <2>5. arg[t] \notin taken[t] /\ \A c \in taken'[t] : c <= arg[t]
        BY <1>0, <2>3, <2>4 DEF Backend
    <2>6. total'[t] = WRR!TotalOf(taken'[t])
        BY SMTT(30), <1>0, <2>1, <2>3, <2>5, TotalOfTaken DEF ScanOf
    <2>7. w \in Backend /\ w # 0 /\ w \in taken'[t] /\ taken'[t] \in SUBSET Backend
        BY SMTT(60), <1>0, <2>3 DEF ScanOf, Backend
    <2> HIDE DEF w
    <2>8. QED
        BY SMTT(30), <2>1, <2>5, <2>6, <2>7, AdvanceScan
<1>7. CASE Charge(t)
    <2>1. /\ pc[t] = "charge" /\ pc'[t] = "route"
          /\ total'[t] = 0 /\ best'[t] = 0
        BY SMTT(30), <1>7 DEF Charge, Goto, GotoOn, ResetScan, TypeOK
    <2>2. taken'[t] = {}
        BY SMTT(30), <2>1 DEF Take
    <2>3. QED
        BY Zenon, <1>a, <2>1, <2>2, TotalOfTaken DEF ScanOf, Selecting, ScanLabel
<1>8. CASE Route(t)
    <2>1. pc[t] = "route" /\ pc'[t] \in {"sent", "arm_now"}
          /\ total' = total /\ best' = best
        BY SMTT(30), <1>8 DEF Route, Goto, GotoOn, scan, TypeOK
    <2>2. QED
        BY <1>f, <2>1 DEF Selecting, ScanLabel
<1>9. CASE Respond(t) \/ Probe(t)
    <2>1. pc[t] \in {"sent", "idle"} /\ total' = total /\ best' = best
        BY SMTT(30), <1>9 DEF Respond, Probe, scan
    <2>2. pc'[t] \notin Selecting
        BY Zenon, <1>9, <2>1 DEF Respond, Probe, RecordSuccess, RecordFailure, Call, GotoOn,
           threads, TypeOK, Selecting, ScanLabel
    <2>3. QED
        BY SMTT(30), <1>f, <2>1, <2>2 DEF Selecting, ScanLabel
<1>10. CASE RecordStep(t) /\ UNCHANGED <<current, scan, probe>>
    <2>1. pc[t] \in RecordLabel /\ total' = total /\ best' = best
        BY Zenon, <1>10 DEF RecordStep, SuccessCheck, SuccessClear, SuccessAdd, Promote,
           FailureAdd, FailureSwap, ArmNow, ArmStore, RecordLabel, scan
    <2>2. PICK l \in RecordLabel \cup {ret[t]} : Goto(t, l)
        BY Zenon, <1>10, RecordStepMoves
    <2>3. pc'[t] = l /\ ret[t] \in {"idle", "sent"}
        BY <2>2 DEF Goto, GotoOn, TypeOK
    <2>4. pc[t] \notin Selecting /\ pc'[t] \notin Selecting
        BY <2>1, <2>2, <2>3 DEF Selecting, ScanLabel, RecordLabel
    <2>5. QED
        BY SMTT(30), <1>f, <2>1, <2>4
<1>11. QED
    BY <1>1, <1>2, <1>3, <1>4, <1>5, <1>6, <1>7, <1>8, <1>9, <1>10 DEF Step

(* How many scans in progress have added to a backend.                     *)
Adding(b) == {t \in Thread : b \in taken[t]}

LEMMA AddingFinite ==
    ASSUME NEW b
    PROVE  IsFiniteSet(Adding(b)) /\ Cardinality(Adding(b)) \in Nat
PROOF
<1>1. IsFiniteSet(Thread)
    BY PoolAssumption, FS_Interval DEF Thread
<1>2. Adding(b) \in SUBSET Thread
    BY DEF Adding
<1>3. IsFiniteSet(Adding(b))
    BY <1>1, <1>2, FS_Subset
<1>4. QED
    BY <1>3, FS_CardinalityType

(* An addition in a scan is taken back by Settled.                         *)
LEMMA AccrueStutters ==
    ASSUME TypeOK, TakenInv, NEW t \in Thread, Accrue(t),
           taken' = [taken EXCEPT ![t] = @ \cup {arg[t]}]
    PROVE  Settled' = Settled
PROOF
<1>a. PICK a \in Backend : a = arg[t]
    BY DEF TypeOK, CellsTypeOK
<1>0. /\ a \in Backend /\ pc[t] = "accrue" /\ ScanOf(t)
      /\ taken \in [Thread -> SUBSET Backend]
      /\ current' = [current EXCEPT ![a] = current[a] + Weight[a]]
      /\ current \in [Backend -> Int] /\ Weight \in [Backend -> Nat]
    BY Zenon, <1>a, WeightAssumption DEF Accrue, TypeOK, CellsTypeOK, TakenInv
<1>1. a \notin taken[t]
    BY SMTT(60), <1>0, <1>a DEF ScanOf, ScanLabel, Backend
<1>2. taken'[t] = taken[t] \cup {a} /\ \A u \in Thread : u # t => taken'[u] = taken[u]
    BY Zenon, <1>0, <1>a
<1>3. Adding(a)' = Adding(a) \cup {t} /\ t \notin Adding(a)
    BY <1>1, <1>2 DEF Adding
<1>4. \A b \in Backend : b # a => Adding(b)' = Adding(b)
    BY <1>2 DEF Adding
<1>5. Cardinality(Adding(a)') = Cardinality(Adding(a)) + 1
    BY Zenon, <1>3, AddingFinite, FS_AddElement
<1>6. ASSUME NEW b \in Backend
      PROVE  current'[b] - Weight[b] * Cardinality(Adding(b)')
           = current[b] - Weight[b] * Cardinality(Adding(b))
    <2>1. CASE b = a
        <3>1. PICK n \in Nat : n = Cardinality(Adding(a))
            BY AddingFinite
        <3>2. (current[a] + Weight[a]) - Weight[a] * (n + 1) = current[a] - Weight[a] * n
            BY SMTT(30), <1>0, <3>1
        <3>3. current'[a] = current[a] + Weight[a]
            BY SMTT(30), <1>0
        <3>4. Cardinality(Adding(b)) = n /\ Cardinality(Adding(b)') = n + 1
            BY Zenon, <1>5, <2>1, <3>1 DEF Adding
        <3>5. QED
            BY SMTT(30), <2>1, <3>2, <3>3, <3>4
    <2>2. CASE b # a
        BY SMTT(30), <1>0, <1>4, <2>2
    <2>3. QED
        BY SMTT(30), <2>1, <2>2
<1>7. QED
    BY Zenon, <1>6 DEF Settled, Adding

(* A charge is an atomic selection among the backends the scan added to.   *)
LEMMA ChargeSelects ==
    ASSUME TypeOK, TakenInv, NEW t \in Thread, Charge(t),
           taken' = [taken EXCEPT ![t] = {}]
    PROVE  /\ taken[t] \in (SUBSET Backend) \ {{}} /\ best[t] \in taken[t]
           /\ WRR!SelectAs(taken[t], best[t])
PROOF
<1> DEFINE E == taken[t]
           a == best[t]
<1>0. /\ pc[t] = "charge" /\ ScanOf(t)
      /\ taken \in [Thread -> SUBSET Backend]
      /\ current \in [Backend -> Int] /\ Weight \in [Backend -> Nat]
      /\ total[t] \in Nat
    BY Zenon, WeightAssumption DEF Charge, TypeOK, CellsTypeOK, TakenInv
<1>1. arg[t] = a /\ a \in E /\ E \in SUBSET Backend /\ total[t] = WRR!TotalOf(E)
    BY Zenon, <1>0 DEF ScanOf
<1>2. current' = [current EXCEPT ![a] = current[a] - total[t]]
    BY SMTT(30), <1>1 DEF Charge
<1> HIDE DEF E, a
<1>3. taken'[t] = {} /\ \A u \in Thread : u # t => taken'[u] = taken[u]
    BY <1>0
<1>4. ASSUME NEW b \in E
      PROVE  Cardinality(Adding(b)') = Cardinality(Adding(b)) - 1
    <2>1. Adding(b)' = Adding(b) \ {t} /\ t \in Adding(b)
        BY <1>3, <1>4 DEF Adding, E
    <2>2. QED
        BY Zenon, <2>1, AddingFinite, FS_RemoveElement
<1>5. ASSUME NEW b \in Backend \ E
      PROVE  Adding(b)' = Adding(b)
    BY <1>3, <1>5 DEF Adding, E
<1>6. ASSUME NEW b \in Backend
      PROVE  Settled[b] \in Int /\ Settled[b] = current[b] - Weight[b] * Cardinality(Adding(b))
    <2>1. Cardinality(Adding(b)) \in Nat
        BY AddingFinite
    <2>2. Settled[b] = current[b] - Weight[b] * Cardinality(Adding(b))
        BY Zenon DEF Settled, Adding
    <2>3. QED
        BY SMTT(30), <1>0, <2>1, <2>2
<1>7. ASSUME NEW b \in Backend
      PROVE  Settled'[b] = current'[b] - Weight[b] * Cardinality(Adding(b)')
    BY Zenon DEF Settled, Adding
<1>8. ASSUME NEW b \in Backend
      PROVE  Settled'[b] = IF b = a THEN Settled[b] + Weight[b] - WRR!TotalOf(E)
                           ELSE IF b \in E THEN Settled[b] + Weight[b] ELSE Settled[b]
    <2>0. PICK n \in Nat : n = Cardinality(Adding(b))
        BY AddingFinite
    <2>1. Settled[b] = current[b] - Weight[b] * n /\ Settled[b] \in Int
          /\ Weight[b] \in Nat /\ current[b] \in Int
        BY SMTT(30), <1>0, <1>6, <2>0
    <2>2. CASE b \in E
        <3>1. Settled'[b] = current'[b] - Weight[b] * (n - 1)
            BY SMTT(30), <1>4, <1>7, <2>0, <2>2
        <3>2. Weight[b] * (n - 1) = Weight[b] * n - Weight[b] /\ Weight[b] * n \in Int
            BY <2>1
        <3>3. current'[b] = IF b = a THEN current[b] - total[t] ELSE current[b]
            BY SMTT(30), <1>0, <1>2
        <3>4. QED
            BY SMTT(60), <1>0, <1>1, <2>1, <2>2, <3>1, <3>2, <3>3
    <2>3. CASE b \notin E
        <3>1. Settled'[b] = current'[b] - Weight[b] * n
            BY SMTT(30), <1>5, <1>7, <2>0, <2>3
        <3>2. b # a /\ current'[b] = current[b]
            BY SMTT(30), <1>0, <1>1, <1>2, <2>3
        <3>3. QED
            BY SMTT(30), <2>1, <2>3, <3>1, <3>2
    <2>4. QED
        BY SMTT(30), <2>2, <2>3
<1>9. Settled' = [WRR!Accrued(E) EXCEPT ![a] = WRR!Accrued(E)[a] - WRR!TotalOf(E)]
    <2>1. /\ WRR!Accrued(E) = [b \in Backend |->
                  IF b \in E THEN Settled[b] + Weight[b] ELSE Settled[b]]
        BY Zenon DEF WRR!Accrued, WRR!Backend, Backend
    <2>2. Settled' = [b \in Backend |-> Settled'[b]]
        BY Zenon DEF Settled
    <2> DEFINE A == WRR!Accrued(E)
               T == WRR!TotalOf(E)
    <2>3. /\ DOMAIN A = Backend /\ DOMAIN (Settled') = Backend
          /\ \A b \in Backend :
                A[b] = IF b \in E THEN Settled[b] + Weight[b] ELSE Settled[b]
        BY <2>1, <2>2
    <2> HIDE DEF A, T
    <2>4. \A b \in Backend :
              Settled'[b] = IF b = a THEN A[a] - T ELSE A[b]
        <3>1. T \in Int /\ \A b \in Backend : Settled[b] \in Int /\ Weight[b] \in Int
            BY SMTT(30), <1>0, <1>1, <1>6, TotalOfTaken DEF T
        <3>2. QED
            BY <1>1, <1>8, <2>3, <3>1 DEF T
    <2>5. Settled' = [A EXCEPT ![a] = A[a] - T]
        <3>1. Settled' = [b \in Backend |-> IF b = a THEN A[a] - T ELSE A[b]]
            BY Zenon, <2>2, <2>4
        <3>2. QED
            BY <2>1, <2>3, <3>1 DEF A
    <2>6. QED
        BY Zenon, <2>5 DEF A, T
<1>10. QED
    BY SMTT(30), <1>1, <1>9 DEF WRR!SelectAs, E, a

(* The scans and the types, along every behaviour with the history.        *)
LEMMA TakenAlways == RefinementSpec => [](TypeOK /\ TakenInv)
PROOF
<1>1. RefinementInit => TypeOK /\ TakenInv
    <2> SUFFICES ASSUME RefinementInit PROVE TypeOK /\ TakenInv
        OBVIOUS
    <2>1. TypeOK
        BY InitType DEF RefinementInit
    <2>2. ASSUME NEW t \in Thread PROVE ScanOf(t)
        BY TotalOfTaken DEF RefinementInit, Init, InitUpstream, ScanOf, ScanLabel
    <2>3. taken \in [Thread -> SUBSET Backend]
        BY DEF RefinementInit
    <2>4. QED
        BY <2>1, <2>2, <2>3 DEF TakenInv
<1>2. TypeOK /\ TakenInv /\ [RefinementNext]_refinementVars => (TypeOK /\ TakenInv)'
    <2> SUFFICES ASSUME TypeOK, TakenInv, [RefinementNext]_refinementVars
                 PROVE  TypeOK' /\ TakenInv'
        OBVIOUS
    <2>1. TypeOK'
        BY NextType DEF RefinementNext, refinementVars
    <2>2. ASSUME NEW t \in Thread, Step(t), Take PROVE TakenInv'
        <3>1. \A u \in Thread : ScanOf(u)'
            BY <2>2, OtherScan, MoverScan
        <3>2. taken' \in [Thread -> SUBSET Backend]
            <4>1. arg[t] \in Backend /\ taken \in [Thread -> SUBSET Backend]
                BY DEF TakenInv, TypeOK, CellsTypeOK
            <4>2. QED
                BY <2>2, <4>1, TakeStep
        <3>3. QED
            BY <3>1, <3>2 DEF TakenInv
    <2>3. ASSUME UNCHANGED <<pc, arg, total, best, taken>> PROVE TakenInv'
        BY Zenon, <2>3 DEF TakenInv, ScanOf, WRR!TotalOf, WRR!SumOver, WRR!Backend
    <2>4. CASE Tick /\ UNCHANGED <<current, scan, probe>> /\ Take
        <3>1. UNCHANGED <<pc, arg, total, best>>
            BY <2>4 DEF Tick, threads, scan
        <3>2. taken' = taken
            BY SMTT(30), <2>4, <3>1 DEF Take, TakenInv
        <3>3. QED
            BY <2>1, <2>3, <3>1, <3>2
    <2>5. CASE UNCHANGED refinementVars
        BY <2>1, <2>3, <2>5 DEF refinementVars, vars, upstreamVars, threads, scan
    <2>6. QED
        BY SMTT(30), <2>1, <2>2, <2>4, <2>5 DEF RefinementNext, Next, Take
<1>3. QED
    BY <1>1, <1>2, PTL DEF RefinementSpec

(* Whatever the handlers and the checker do, in any interleaving, a step   *)
(* of theirs is an atomic selection of SmoothWRR or none at all.           *)
LEMMA StepSimulates ==
    ASSUME TypeOK, TakenInv, [RefinementNext]_refinementVars
    PROVE  \/ UNCHANGED Settled
           \/ \E t \in Thread : /\ Charge(t)
                                 /\ taken' = [taken EXCEPT ![t] = {}]
PROOF
<1>1. ASSUME UNCHANGED <<current, taken>> PROVE UNCHANGED Settled
    BY <1>1 DEF Settled
<1>2. ASSUME NEW t \in Thread, Step(t), Take
      PROVE  UNCHANGED Settled \/ (Charge(t) /\ taken' = [taken EXCEPT ![t] = {}])
    <2>0. taken \in [Thread -> SUBSET Backend]
        BY DEF TakenInv
    <2>1. CASE Accrue(t) /\ taken' = [taken EXCEPT ![t] = @ \cup {arg[t]}]
        BY Zenon, <2>1, AccrueStutters
    <2>2. CASE taken' = taken /\ current' = current
        BY <1>1, <2>2
    <2>3. QED
        BY <1>2, <2>0, <2>1, <2>2, TakeStep
<1>3. CASE Tick /\ UNCHANGED <<current, scan, probe>> /\ Take
    <2>1. UNCHANGED <<pc, current>>
        BY <1>3 DEF Tick, threads, scan
    <2>2. taken' = taken
        BY <1>3, <2>1 DEF Take, TakenInv
    <2>3. QED
        BY <1>1, <2>1, <2>2
<1>4. CASE UNCHANGED refinementVars
    BY <1>1, <1>4 DEF refinementVars, vars
<1>5. QED
    BY SMTT(30), <1>2, <1>3, <1>4 DEF RefinementNext, Next, Take

(* The configured weights and the running ones start as SmoothWRR's do.    *)
LEMMA InitSimulates == RefinementInit => WRR!Init
PROOF
<1> SUFFICES ASSUME RefinementInit PROVE WRR!Init
    OBVIOUS
<1>1. \A b \in Backend : Weight[b] \in 1..SumTo(Weight, NumBackends)
    <2>1. NumBackends \in Nat /\ \A b \in 1..NumBackends : Weight[b] \in Nat \ {0}
        BY PoolAssumption, WeightAssumption DEF Backend
    <2>2. SumTo(Weight, NumBackends) \in Int
        BY <2>1, SumToInt
    <2>3. \A b \in 1..NumBackends : Weight[b] <= SumTo(Weight, NumBackends)
        BY <2>1, SumToTerm
    <2>4. QED
        BY <2>1, <2>2, <2>3 DEF Backend
<1>2. Weight \in [WRR!Backend -> 1..SumTo(Weight, NumBackends)]
    BY <1>1, WeightAssumption DEF WRR!Backend, Backend
<1>3. ASSUME NEW b \in Backend PROVE Settled[b] = 0
    <2>1. Adding(b) = {} /\ current[b] = 0
        BY DEF RefinementInit, Init, Adding
    <2>2. Settled[b] = 0 - Weight[b] * 0
        BY <2>1, FS_EmptySet DEF Settled, Adding
    <2>3. QED
        BY <2>2, WeightAssumption
<1>4. Settled = [b \in WRR!Backend |-> 0]
    BY <1>3 DEF Settled, WRR!Backend, Backend
<1>5. QED
    BY <1>2, <1>4 DEF WRR!Init

(* For every pool, weights and number of overlapping handlers, next()      *)
(* selects atomically, at the fetch_sub of the charge, one of the backends *)
(* it found eligible, and charges it what it gave to them                  *)
(* (LoadBalancer::next in src/src/balancer.rs).                            *)
THEOREM OverlapImplements == RefinementSpec => ImplementsSelection
PROOF
<1>1. TypeOK /\ TakenInv /\ [RefinementNext]_refinementVars => [WRR!NextAny]_(WRR!vars)
    <2> SUFFICES ASSUME TypeOK, TakenInv, [RefinementNext]_refinementVars
                 PROVE  [WRR!NextAny]_(WRR!vars)
        OBVIOUS
    <2>1. CASE UNCHANGED Settled
        BY <2>1 DEF WRR!vars
    <2>2. ASSUME NEW t \in Thread, Charge(t), taken' = [taken EXCEPT ![t] = {}]
          PROVE  WRR!NextAny
        BY Zenon, <2>2, ChargeSelects DEF WRR!NextAny, WRR!Backend, Backend
    <2>3. QED
        BY <2>1, <2>2, StepSimulates
<1>2. QED
    BY <1>1, InitSimulates, TakenAlways, PTL DEF RefinementSpec, ImplementsSelection, WRR!SpecAny

-----------------------------------------------------------------------------
(* No two threads are in a selection at once.                              *)
OneAtATime ==
    \A t, u \in Thread : pc[t] \in Selecting /\ pc[u] \in Selecting => t = u

(* The best of a scan is the first of the greatest it has added to.        *)
Leads(b, E) ==
    \A c \in E \ {b} : current[c] < current[b] \/ (current[c] = current[b] /\ b < c)

LeadOf(t) ==
    best[t] # 0 => bestWeight[t] = current[best[t]] /\ Leads(best[t], taken[t])

LeadInv == \A t \in Thread : LeadOf(t)

(* Within a scan that nothing interrupts.                                  *)
LEMMA AccrueLead ==
    ASSUME TypeOK, TakenInv, NEW t \in Thread, LeadOf(t), Accrue(t),
           taken' = [taken EXCEPT ![t] = @ \cup {arg[t]}]
    PROVE  LeadOf(t)'
PROOF
<1>0. PICK a \in Backend : a = arg[t]
    BY DEF TypeOK, CellsTypeOK
<1>1. PICK w \in Backend \cup {0} : w = best[t]
    BY DEF TypeOK
<1>2. PICK E \in SUBSET Backend : E = taken[t] /\ taken'[t] = E \cup {a}
    BY <1>0 DEF TakenInv
<1>3. \A c \in E : c < a /\ c \in Nat /\ a \in Nat
    BY SMTT(60), <1>0, <1>2 DEF TakenInv, ScanOf, ScanLabel, Accrue, Backend
<1>4. /\ current'[a] = current[a] + Weight[a] /\ current'[a] \in Int
      /\ \A c \in Backend : current[c] \in Int
      /\ \A c \in Backend : c # a => current'[c] = current[c]
    <2>1. current' = [current EXCEPT ![a] = current[a] + Weight[a]]
        BY Zenon, <1>0 DEF Accrue
    <2>2. current \in [Backend -> Int] /\ Weight[a] \in Int
        BY WeightAssumption DEF TypeOK
    <2>3. QED
        BY <2>1, <2>2
<1>5. w = 0 => E = {}
    BY Zenon, <1>1, <1>2 DEF TakenInv, ScanOf
<1>6. w # 0 => w \in E /\ bestWeight[t] = current[w] /\ Leads(w, E)
    BY Zenon, <1>1, <1>2 DEF TakenInv, ScanOf, LeadOf
<1>7. CASE w = 0 \/ current'[a] > bestWeight[t]
    <2>1. best'[t] = a /\ bestWeight'[t] = current'[a]
        BY Zenon, <1>0, <1>1, <1>4, <1>7 DEF Accrue, TypeOK
    <2>2. ASSUME NEW c \in E PROVE current'[c] < current'[a]
        <3>1. w # 0 /\ current'[a] > current[w] /\ current[w] \in Int
            BY <1>4, <1>5, <1>6, <1>7, <2>2
        <3>2. current'[c] = current[c] /\ current[c] \in Int
            BY <1>3, <1>4, <2>2
        <3>3. current[c] <= current[w]
            BY SMTT(30), <1>6, <3>1, <3>2 DEF Leads
        <3>4. QED
            BY <1>4, <3>1, <3>2, <3>3
    <2>3. \A c \in taken'[t] \ {a} : current'[c] < current'[a]
        BY <1>2, <2>2
    <2>4. QED
        BY Zenon, <2>1, <2>3 DEF LeadOf, Leads
<1>8. CASE ~(w = 0 \/ current'[a] > bestWeight[t])
    <2>1. best'[t] = w /\ bestWeight'[t] = bestWeight[t] /\ w # 0
        BY Zenon, <1>0, <1>1, <1>4, <1>8 DEF Accrue, TypeOK
    <2>2. w \in E /\ w # a /\ current'[w] = current[w] /\ bestWeight[t] = current[w]
        <3>1. w \in E /\ bestWeight[t] = current[w]
            BY SMTT(30), <1>6, <2>1
        <3>2. w # a /\ w \in Backend
            BY SMTT(30), <1>3, <3>1
        <3>3. QED
            BY SMTT(30), <1>4, <3>1, <3>2
    <2>3. current'[a] <= current'[w] /\ w < a
        BY SMTT(60), <1>3, <1>4, <1>8, <2>2
    <2>4. ASSUME NEW c \in taken'[t] \ {w}
          PROVE  current'[c] < current'[w] \/ (current'[c] = current'[w] /\ w < c)
        <3>1. CASE c = a
            BY SMTT(30), <1>4, <2>2, <2>3, <3>1
        <3>2. CASE c # a
            <4>1. c \in E \ {w} /\ current'[c] = current[c]
                BY <1>2, <1>4, <2>4, <3>2
            <4>2. QED
                BY Zenon, <1>6, <2>1, <2>2, <4>1 DEF Leads
        <3>3. QED
            BY <3>1, <3>2
    <2>5. QED
        BY SMTT(30), <2>1, <2>2, <2>4 DEF LeadOf, Leads
<1>9. QED
    BY SMTT(30), <1>7, <1>8

(* While selections do not overlap each keeps its leader.                  *)
LEMMA StepLead ==
    ASSUME TypeOK, TakenInv, OneAtATime, LeadInv, NEW t \in Thread, Step(t), Take,
           NEW u \in Thread
    PROVE  LeadOf(u)'
PROOF
<1>0. taken \in [Thread -> SUBSET Backend] /\ LeadOf(u)
    BY DEF TakenInv, LeadInv
<1>1. CASE u # t
    <2>1. best'[u] = best[u] /\ bestWeight'[u] = bestWeight[u] /\ pc'[u] = pc[u]
        BY SMTT(30), <1>1, StepLocal, StepScan
    <2>2. taken'[u] = taken[u]
        BY SMTT(30), <2>1 DEF Take
    <2>3. CASE pc[t] \in {"accrue", "charge"}
        <3>1. pc[u] \notin Selecting
            BY <1>1, <2>3 DEF OneAtATime, Selecting, ScanLabel
        <3>2. best[u] = 0
            BY SMTT(30), <3>1 DEF TakenInv, ScanOf
        <3>3. QED
            BY <2>1, <3>2 DEF LeadOf
    <2>4. CASE pc[t] \notin {"accrue", "charge"}
        <3>1. current' = current
            BY Zenon, <1>0, <2>4, TakeStep DEF Accrue, Charge
        <3>2. QED
            BY Zenon, <1>0, <2>1, <2>2, <3>1 DEF LeadOf, Leads
    <2>5. QED
        BY <2>3, <2>4
<1>2. CASE u = t
    <2>1. CASE Accrue(t)
        <3>1. ~Charge(t)
            BY Zenon, <2>1 DEF Accrue, Charge
        <3>2. taken' = [taken EXCEPT ![t] = @ \cup {arg[t]}]
            BY <1>0, <2>1, <3>1, TakeStep
        <3>3. LeadOf(t)'
            BY Zenon, <1>0, <1>2, <2>1, <3>2, AccrueLead
        <3>4. QED
            BY Zenon, <1>2, <3>3 DEF LeadOf, Leads
    <2>2. CASE NextCall(t) \/ Charge(t)
        <3>1. best'[t] = 0
            BY SMTT(30), <2>2 DEF NextCall, Charge, ResetScan, TypeOK
        <3>2. QED
            BY Zenon, <1>2, <3>1 DEF LeadOf
    <2>3. CASE ~Accrue(t) /\ ~NextCall(t) /\ ~Charge(t)
        <3>1. UNCHANGED <<best, bestWeight>>
            BY Zenon, <2>3 DEF Step, EligibleHealthy, TrialHealthy, TrialNow, TrialUntil, Route,
               Respond, Probe, scan
        <3>2. UNCHANGED <<taken, current>>
            BY <1>0, <2>3, TakeStep
        <3>3. QED
            BY Zenon, <1>0, <3>1, <3>2 DEF LeadOf, Leads
    <2>4. QED
        BY <2>1, <2>2, <2>3
<1>3. QED
    BY <1>1, <1>2

(* A charge that no other scan overlaps selects SmoothWRR's winner.        *)
LEMMA ChargeIsWinner ==
    ASSUME TypeOK, TakenInv, OneAtATime, LeadInv, NEW t \in Thread, Charge(t)
    PROVE  best[t] = WRR!Winner(taken[t])
PROOF
<1>0. PICK E \in SUBSET Backend : E = taken[t]
    BY SMTT(30) DEF TakenInv, ScanOf
<1>1. pc[t] = "charge" /\ best[t] \in E /\ best[t] # 0 /\ Leads(best[t], E)
    BY Zenon, <1>0 DEF Charge, TakenInv, ScanOf, LeadInv, LeadOf
<1>2. ASSUME NEW c \in E
      PROVE  WRR!Accrued(E)[c] = current[c] /\ current[c] \in Int
    <2>1. Adding(c) = {t}
        <3>1. ASSUME NEW u \in Thread, c \in taken[u] PROVE u = t
            <4>1. pc[u] \in Selecting
                BY SMTT(30), <3>1 DEF TakenInv, ScanOf
            <4>2. QED
                BY SMTT(30), <1>1, <4>1 DEF OneAtATime, Selecting
        <3>2. QED
            BY <1>0, <1>2, <3>1 DEF Adding
    <2>2. Cardinality(Adding(c)) = 1
        BY <2>1, FS_Singleton
    <2>3. c \in Backend /\ current[c] \in Int /\ Weight[c] \in Int
        BY <1>0, <1>2, WeightAssumption DEF TypeOK
    <2>4. Settled[c] = current[c] - Weight[c] * 1
        BY Zenon, <2>2, <2>3 DEF Settled, Adding
    <2>5. WRR!Accrued(E)[c] = Settled[c] + Weight[c]
        BY <1>2, <2>3 DEF WRR!Accrued, WRR!Backend, Backend
    <2>6. QED
        BY SMTT(60), <2>3, <2>4, <2>5
<1> DEFINE A == WRR!Accrued(E)
           Wins(b) == \A c \in E \ {b} : A[c] < A[b] \/ (A[c] = A[b] /\ b < c)
<1>3. Wins(best[t])
    BY Zenon, <1>1, <1>2 DEF Leads
<1> HIDE DEF A
<1>4. ASSUME NEW b \in E, Wins(b) PROVE b = best[t]
    <2>1. SUFFICES ASSUME b # best[t] PROVE FALSE
        OBVIOUS
    <2>2. b \in Int /\ best[t] \in Int /\ A[b] \in Int /\ A[best[t]] \in Int
        BY SMTT(60), <1>0, <1>1, <1>2, <1>4 DEF A, Backend
    <2>3. QED
        BY SMTT(30), <1>1, <1>3, <1>4, <2>1, <2>2
<1>5. WRR!Winner(E) = CHOOSE b \in E : Wins(b)
    BY Zenon DEF WRR!Winner, A
<1> HIDE DEF Wins
<1>6. QED
    BY SMTT(30), <1>0, <1>1, <1>3, <1>4, <1>5

(* While no two selections overlap, whatever the number of handlers, and   *)
(* although the checker ejects and promotes backends under the scans,      *)
(* next() is smooth weighted round-robin (balancer.rs next).               *)
THEOREM DisjointImplements == RefinementSpec /\ []OneAtATime => ImplementsSmoothWRR
PROOF
<1>1. RefinementInit => LeadInv
    BY DEF RefinementInit, Init, LeadInv, LeadOf
<1>2. TypeOK /\ TakenInv /\ OneAtATime /\ LeadInv /\ [RefinementNext]_refinementVars
      => LeadInv'
    <2> SUFFICES ASSUME TypeOK, TakenInv, OneAtATime, LeadInv,
                        [RefinementNext]_refinementVars
                 PROVE  LeadInv'
        OBVIOUS
    <2>1. ASSUME NEW t \in Thread, Step(t), Take PROVE LeadInv'
        BY <2>1, StepLead DEF LeadInv
    <2>2. ASSUME UNCHANGED <<best, bestWeight, current, taken>> PROVE LeadInv'
        BY SMTT(30), <2>2 DEF LeadInv, LeadOf, Leads
    <2>3. CASE Tick /\ UNCHANGED <<current, scan, probe>> /\ Take
        <3>1. UNCHANGED <<pc, best, bestWeight, current>>
            BY <2>3 DEF Tick, threads, scan
        <3>2. taken' = taken
            BY SMTT(30), <2>3, <3>1 DEF Take, TakenInv
        <3>3. QED
            BY <2>2, <3>1, <3>2
    <2>4. CASE UNCHANGED refinementVars
        BY <2>2, <2>4 DEF refinementVars, vars, scan
    <2>5. QED
        BY Zenon, <2>1, <2>3, <2>4 DEF RefinementNext, Next, Take
<1>3. TypeOK /\ TakenInv /\ OneAtATime /\ LeadInv /\ [RefinementNext]_refinementVars
      => [WRR!Next]_(WRR!vars)
    <2> SUFFICES ASSUME TypeOK, TakenInv, OneAtATime, LeadInv,
                        [RefinementNext]_refinementVars
                 PROVE  [WRR!Next]_(WRR!vars)
        OBVIOUS
    <2>1. CASE UNCHANGED Settled
        BY <2>1 DEF WRR!vars
    <2>2. ASSUME NEW t \in Thread, Charge(t), taken' = [taken EXCEPT ![t] = {}]
          PROVE  WRR!Next
        <3>1. WRR!SelectAs(taken[t], WRR!Winner(taken[t]))
            BY Zenon, <2>2, ChargeSelects, ChargeIsWinner
        <3>2. QED
            BY Zenon, <2>2, <3>1, ChargeSelects
            DEF WRR!Next, WRR!Select, WRR!Backend, Backend
    <2>3. QED
        BY <2>1, <2>2, StepSimulates
<1>4. QED
    BY <1>1, <1>2, <1>3, InitSimulates, TakenAlways, PTL
    DEF RefinementSpec, ImplementsSmoothWRR, WRR!Spec

(* Only a handler selects.                                                 *)
Handlers == \A t \in Thread : pc[t] \in Selecting => t \in Handler

LEMMA HandlersStep ==
    ASSUME TypeOK, Handlers, NEW t \in Thread, Step(t), NEW u \in Thread,
           pc'[u] \in Selecting
    PROVE  u \in Handler
PROOF
<1>1. CASE u # t
    BY <1>1, StepLocal DEF Handlers
<1>2. CASE u = t /\ pc[t] \in Selecting
    BY <1>2 DEF Handlers
<1>3. CASE u = t /\ pc[t] \notin Selecting
    <2>1. CASE NextCall(t)
        BY <1>3, <2>1 DEF NextCall
    <2>2. CASE Route(t)
        BY SMTT(30), <1>3, <2>2 DEF Route, Goto, GotoOn, TypeOK, Selecting, ScanLabel
    <2>3. CASE Respond(t) \/ Probe(t)
        BY Zenon, <1>3, <2>3 DEF Respond, Probe, RecordSuccess, RecordFailure, Call, GotoOn,
           threads, TypeOK, Selecting, ScanLabel
    <2>4. CASE RecordStep(t)
        <3>1. PICK l \in RecordLabel \cup {ret[t]} : Goto(t, l)
            BY Zenon, <2>4, RecordStepMoves
        <3>2. pc'[t] = l /\ ret[t] \in {"idle", "sent"}
            BY <3>1 DEF Goto, GotoOn, TypeOK
        <3>3. QED
            BY Zenon, <1>3, <3>1, <3>2 DEF Selecting, ScanLabel, RecordLabel
    <2>5. QED
        BY Zenon, <1>3, <2>1, <2>2, <2>3, <2>4 DEF Step, EligibleHealthy, TrialHealthy, TrialNow,
           TrialUntil, Accrue, Charge, Selecting, ScanLabel
<1>4. QED
    BY <1>1, <1>2, <1>3

(* So with a single handler, and the health checker beside it or not,      *)
(* next() is smooth weighted round-robin (balancer.rs next).               *)
THEOREM AloneImplements ==
    ASSUME \A t, u \in Handler : t = u
    PROVE  RefinementSpec => ImplementsSmoothWRR
PROOF
<1>1. RefinementInit => Handlers
    BY DEF RefinementInit, Init, InitUpstream, Handlers, Selecting, ScanLabel
<1>2. TypeOK /\ Handlers /\ [RefinementNext]_refinementVars => Handlers'
    <2> SUFFICES ASSUME TypeOK, Handlers, [RefinementNext]_refinementVars
                 PROVE  Handlers'
        OBVIOUS
    <2>1. ASSUME NEW t \in Thread, Step(t) PROVE Handlers'
        BY <2>1, HandlersStep DEF Handlers
    <2>2. CASE UNCHANGED pc
        BY <2>2 DEF Handlers
    <2>3. QED
        BY Zenon, <2>1, <2>2 DEF RefinementNext, Next, Tick, threads, refinementVars, vars,
           upstreamVars
<1>3. Handlers => OneAtATime
    BY DEF Handlers, OneAtATime
<1>4. QED
    BY <1>1, <1>2, <1>3, TakenAlways, DisjointImplements, PTL DEF RefinementSpec

-----------------------------------------------------------------------------
(* Overlapping selections do not make the weights drift.  The argument is  *)
(* about every group of backends, not about one: what a group is owed is   *)
(* the sum of its settled weights.                                         *)
Owed(S) == SumIn(Settled, S, NumBackends)

HeaviestWeight ==
    CHOOSE w \in Nat : /\ \E c \in Backend : w = Weight[c]
                       /\ \A b \in Backend : Weight[b] <= w

(* The most that one scan adds to the weights.                             *)
Spread == NumBackends * HeaviestWeight

(* What a group may be owed.  It is concave in the size of the group: of a *)
(* group that is owed nearly all it may, a member's own weight is higher   *)
(* than that of any backend outside, by more than the additions of all the *)
(* scans in progress could hide.                                           *)
Slope == NumThreads * ((NumBackends + 1) * HeaviestWeight)

Allowance(S) == Slope * (Cardinality(S) * (NumBackends - Cardinality(S)))

(* The weight that then separates the members from the others.             *)
Divide(S) ==
    Slope * ((NumBackends + 1) - 2 * Cardinality(S)) - NumThreads * Spread

(* A scan is sound for a group if charging its best cannot raise what the  *)
(* group is owed, and its best stays on its side of the divide: a member,  *)
(* or another backend with no member among those it has added to.          *)
Sound(t, S) ==
    \/ best[t] = 0
    \/ best[t] \in S /\ bestWeight[t] >= Divide(S)
    \/ best[t] \notin S /\ taken[t] \cap S = {} /\ bestWeight[t] <= Divide(S)

Misled(S) == {t \in Thread : ~Sound(t, S)}

(* The inductive invariant: even if every scan that is misled about a      *)
(* group ends by charging a backend outside it, the group is not owed more *)
(* than its allowance; nothing is owed to the pool as a whole.             *)
GroupOK(S) ==
    IF S \in {{}, Backend} THEN Owed(S) = 0
    ELSE Owed(S) + Spread * Cardinality(Misled(S)) <= Allowance(S)

DriftInv == \A S \in SUBSET Backend : GroupOK(S)

(* The pool is not empty, so it has a heaviest weight.                     *)
LEMMA HeaviestFacts ==
    /\ HeaviestWeight \in Nat
    /\ \E c \in Backend : HeaviestWeight = Weight[c]
    /\ \A b \in Backend : Weight[b] <= HeaviestWeight
PROOF
<1>0. NumBackends \in Nat \ {0} /\ \A i \in 1..NumBackends : Weight[i] \in Int
    BY PoolAssumption, WeightAssumption DEF Backend
<1>1. PICK c \in 1..NumBackends : \A i \in 1..NumBackends : Weight[i] <= Weight[c]
    BY Zenon, <1>0, GreatestExists
<1>2. \E w \in Nat : /\ \E b \in Backend : w = Weight[b]
                     /\ \A b \in Backend : Weight[b] <= w
    BY <1>1, WeightAssumption DEF Backend
<1>3. QED
    BY Zenon, <1>2 DEF HeaviestWeight

(* The numbers the argument is about.                                      *)
LEMMA DriftNumbers ==
    /\ NumBackends \in Nat \ {0} /\ NumThreads \in Nat \ {0}
    /\ Spread \in Nat /\ Slope \in Nat
    /\ NumThreads * Spread \in Nat /\ NumThreads * HeaviestWeight \in Nat
    /\ Slope = NumThreads * Spread + NumThreads * HeaviestWeight
PROOF
<1>1. PICK n \in Nat \ {0}, k \in Nat \ {0}, h \in Nat :
          n = NumBackends /\ k = NumThreads /\ h = HeaviestWeight
    BY PoolAssumption, HeaviestFacts
<1>2. n * h \in Nat /\ (n + 1) * h \in Nat /\ (n + 1) * h = n * h + h
    OBVIOUS
<1>3. \A x, y \in Nat : k * (x + y) = k * x + k * y /\ k * x \in Nat
    OBVIOUS
<1>4. k * ((n + 1) * h) = k * (n * h) + k * h
    BY Zenon, <1>2, <1>3
<1>5. k * ((n + 1) * h) \in Nat /\ k * (n * h) \in Nat /\ k * h \in Nat
    BY Zenon, <1>2, <1>3
<1>6. QED
    BY <1>1, <1>2, <1>4, <1>5 DEF Spread, Slope

(* The sizes of groups, and of those with one member fewer and one more.   *)
LEMMA GroupSize ==
    ASSUME NEW S \in SUBSET Backend
    PROVE  /\ IsFiniteSet(S) /\ Cardinality(S) \in 0..NumBackends
           /\ \A b \in S : Cardinality(S \ {b}) = Cardinality(S) - 1
           /\ \A b \in Backend \ S : Cardinality(S \cup {b}) = Cardinality(S) + 1
           /\ Cardinality({}) = 0 /\ Cardinality(Backend) = NumBackends
           /\ \A b \in Backend : Cardinality({b}) = 1
PROOF
<1>1. IsFiniteSet(Backend) /\ Cardinality(Backend) = NumBackends
    BY PoolAssumption, FS_Interval DEF Backend
<1>2. IsFiniteSet(S) /\ Cardinality(S) <= Cardinality(Backend)
    BY Zenon, <1>1, FS_Subset
<1>3. Cardinality(S) \in Nat
    BY <1>2, FS_CardinalityType
<1>4. \A b \in S : Cardinality(S \ {b}) = Cardinality(S) - 1
    BY Zenon, <1>2, FS_RemoveElement
<1>5. \A b \in Backend \ S : Cardinality(S \cup {b}) = Cardinality(S) + 1
    BY Zenon, <1>2, FS_AddElement
<1>6. Cardinality(S) \in 0..NumBackends
    BY <1>1, <1>2, <1>3, PoolAssumption
<1>7. Cardinality({}) = 0 /\ \A b : Cardinality({b}) = 1
    BY Zenon, FS_EmptySet, FS_Singleton
<1>8. QED
    BY Zenon, <1>1, <1>2, <1>4, <1>5, <1>6, <1>7

(* The allowance of a group against that of one with one member fewer and  *)
(* of one with one more.                                                   *)
LEMMA AllowanceSteps ==
    ASSUME NEW S \in SUBSET Backend
    PROVE  /\ Allowance(S) \in Int /\ Divide(S) \in Int
           /\ Allowance({}) = 0 /\ Allowance(Backend) = 0
           /\ \A c \in S : Allowance(S) - Allowance(S \ {c}) = Divide(S) + NumThreads * Spread
           /\ \A b \in Backend \ S :
                 Allowance(S \cup {b}) - Allowance(S)
                   = (Divide(S) + NumThreads * Spread) - 2 * Slope
PROOF
<1>1. PICK n \in Nat, k \in Nat, p \in Nat, s \in Nat :
          n = NumBackends /\ k = Slope /\ p = NumThreads * Spread /\ s = Cardinality(S)
    <2>1. Cardinality(S) \in Nat
        BY GroupSize
    <2>2. QED
        BY Zenon, <2>1, DriftNumbers
<1>2. /\ k * (s * (n - s)) \in Int
      /\ k * ((n + 1) - 2 * s) - p \in Int
      /\ k * (0 * (n - 0)) = 0 /\ k * (n * (n - n)) = 0
    OBVIOUS
<1>3. s * (n - s) - (s - 1) * (n - (s - 1)) = (n + 1) - 2 * s
    OBVIOUS
<1>4. (s + 1) * (n - (s + 1)) - s * (n - s) = ((n + 1) - 2 * s) - 2
    OBVIOUS
<1>5. \A x, y \in Int : k * x - k * y = k * (x - y)
    OBVIOUS
<1>6. k * (s * (n - s)) - k * ((s - 1) * (n - (s - 1))) = k * ((n + 1) - 2 * s)
    <2>1. s * (n - s) \in Int /\ (s - 1) * (n - (s - 1)) \in Int
        OBVIOUS
    <2>2. QED
        BY Zenon, <1>3, <1>5, <2>1
<1>7. k * ((s + 1) * (n - (s + 1))) - k * (s * (n - s)) = k * ((n + 1) - 2 * s) - 2 * k
    <2>1. s * (n - s) \in Int /\ (s + 1) * (n - (s + 1)) \in Int
          /\ (n + 1) - 2 * s \in Int /\ 2 \in Int /\ k * 2 = 2 * k
        OBVIOUS
    <2>2. k * ((s + 1) * (n - (s + 1))) - k * (s * (n - s)) = k * (((n + 1) - 2 * s) - 2)
        BY Zenon, <1>4, <1>5, <2>1
    <2>3. k * ((n + 1) - 2 * s) - k * 2 = k * (((n + 1) - 2 * s) - 2)
        BY Zenon, <1>5, <2>1
    <2>4. QED
        BY Zenon, <2>1, <2>2, <2>3
<1>8. /\ Allowance(S) = k * (s * (n - s)) /\ Divide(S) = k * ((n + 1) - 2 * s) - p
      /\ Allowance({}) = k * (0 * (n - 0)) /\ Allowance(Backend) = k * (n * (n - n))
    BY Zenon, <1>1, GroupSize DEF Allowance, Divide
<1>9. ASSUME NEW c \in S
      PROVE  Allowance(S \ {c}) = k * ((s - 1) * (n - (s - 1)))
    BY Zenon, <1>1, GroupSize DEF Allowance
<1>10. ASSUME NEW b \in Backend \ S
       PROVE  Allowance(S \cup {b}) = k * ((s + 1) * (n - (s + 1)))
    BY Zenon, <1>1, GroupSize DEF Allowance
<1>11. PICK l \in Int : l = k * ((n + 1) - 2 * s)
    OBVIOUS
<1>12. QED
    BY <1>1, <1>2, <1>6, <1>7, <1>8, <1>9, <1>10, <1>11

(* There are finitely many threads, so finitely many scans.                *)
LEMMA ThreadsFinite == IsFiniteSet(Thread) /\ Cardinality(Thread) = NumThreads
PROOF
    BY PoolAssumption, FS_Interval DEF Thread

(* A running weight is the settled one and what at most the threads that   *)
(* have added to it have added.                                            *)
LEMMA CurrentOverSettled ==
    ASSUME TypeOK, NEW b \in Backend
    PROVE  /\ Settled[b] \in Int /\ current[b] \in Int /\ Weight[b] \in Nat
           /\ Settled[b] <= current[b]
           /\ current[b] <= Settled[b] + NumThreads * HeaviestWeight
           /\ \A t \in Thread : b \notin taken[t] =>
                 current[b] + Weight[b] <= Settled[b] + NumThreads * HeaviestWeight
PROOF
<1>1. PICK m \in Nat : m = Cardinality(Adding(b))
    BY AddingFinite
<1>2. Settled[b] = current[b] - Weight[b] * m
    BY Zenon, <1>1 DEF Settled, Adding
<1>3. PICK w \in Nat, h \in Nat, k \in Nat, x \in Int :
          /\ w = Weight[b] /\ h = HeaviestWeight /\ k = NumThreads /\ x = current[b]
          /\ w <= h
    BY WeightAssumption, PoolAssumption, HeaviestFacts DEF TypeOK
<1>4. IsFiniteSet(Thread) /\ Cardinality(Thread) = k
    BY Zenon, <1>3, ThreadsFinite
<1>5. m <= k
    <2>1. Adding(b) \subseteq Thread
        BY DEF Adding
    <2>2. QED
        BY Zenon, <1>1, <1>4, <2>1, FS_Subset
<1>6. ASSUME NEW t \in Thread, b \notin taken[t] PROVE m + 1 <= k
    <2>1. Adding(b) \subseteq Thread \ {t}
        BY <1>6 DEF Adding
    <2>2. IsFiniteSet(Thread \ {t}) /\ Cardinality(Thread \ {t}) = k - 1
        BY Zenon, <1>4, FS_RemoveElement
    <2>3. Cardinality(Adding(b)) <= Cardinality(Thread \ {t})
        BY Zenon, <2>1, <2>2, FS_Subset
    <2>4. QED
        BY <1>1, <2>2, <2>3
<1>7. \A i, j \in Nat : i <= j => w * i \in Nat /\ w * i <= h * j
    <2>1. \A i, j \in Nat : i <= j => w * i <= w * j
        OBVIOUS
    <2>2. \A j \in Nat : w * j <= h * j
        BY <1>3
    <2>3. \A i \in Nat : w * i \in Nat /\ h * i \in Nat
        OBVIOUS
    <2>4. QED
        BY <2>1, <2>2, <2>3
<1>8. w * m \in Nat /\ w * m <= k * h
    <2>1. h * k = k * h
        OBVIOUS
    <2>2. QED
        BY <1>5, <1>7, <2>1
<1>9. ASSUME NEW t \in Thread, b \notin taken[t] PROVE w * m + w <= k * h
    <2>1. h * k = k * h /\ w * (m + 1) = w * m + w /\ m + 1 \in Nat
        OBVIOUS
    <2>2. w * (m + 1) <= h * k
        BY <1>6, <1>7, <1>9, <2>1
    <2>3. QED
        BY <2>1, <2>2
<1>10. PICK y \in Nat, z \in Nat : y = w * m /\ z = k * h
    BY <1>8
<1>11. /\ x - y \in Int /\ x - y <= x /\ x <= (x - y) + z
       /\ \A t \in Thread : b \notin taken[t] => x + w <= (x - y) + z
    BY <1>8, <1>9, <1>10
<1>12. QED
    BY <1>2, <1>3, <1>10, <1>11

(* What a group is owed, with a member fewer and with one more.            *)
LEMMA OwedSteps ==
    ASSUME TypeOK, NEW S \in SUBSET Backend
    PROVE  /\ Owed(S) \in Int /\ Owed({}) = 0
           /\ \A c \in S : Owed(S) = Owed(S \ {c}) + Settled[c]
           /\ \A b \in Backend \ S : Owed(S \cup {b}) = Owed(S) + Settled[b]
PROOF
<1>1. NumBackends \in Nat /\ \A i \in 1..NumBackends : Settled[i] \in Int
    BY PoolAssumption, CurrentOverSettled DEF Backend
<1>2. Owed(S) \in Int /\ Owed({}) = 0
    BY Zenon, <1>1, SumInInt, SumInEmpty DEF Owed
<1>3. \A T \in SUBSET Backend : \A b \in Backend \ T : Owed(T \cup {b}) = Owed(T) + Settled[b]
    BY Zenon, <1>1, SumInOneMore DEF Owed, Backend
<1>4. ASSUME NEW c \in S PROVE Owed(S) = Owed(S \ {c}) + Settled[c]
    <2>1. S \ {c} \in SUBSET Backend /\ c \in Backend \ (S \ {c}) /\ (S \ {c}) \cup {c} = S
        OBVIOUS
    <2>2. QED
        BY Zenon, <1>3, <2>1
<1>5. QED
    BY Zenon, <1>2, <1>3, <1>4

(* So every set of them has a size.                                        *)
LEMMA ThreadSets ==
    ASSUME NEW M \in SUBSET Thread
    PROVE  IsFiniteSet(M) /\ Cardinality(M) \in 0..NumThreads
PROOF
<1>1. IsFiniteSet(M) /\ Cardinality(M) <= NumThreads
    BY Zenon, ThreadsFinite, FS_Subset
<1>2. Cardinality(M) \in Nat
    BY <1>1, FS_CardinalityType
<1>3. QED
    BY <1>1, <1>2, PoolAssumption

(* What the invariant says of what a group is owed.                        *)
LEMMA DriftGives ==
    ASSUME TypeOK, DriftInv, NEW S \in SUBSET Backend
    PROVE  Owed(S) <= Allowance(S)
PROOF
<1>0. Owed(S) \in Int /\ Allowance(S) \in Int /\ Allowance({}) = 0 /\ Allowance(Backend) = 0
    BY OwedSteps, AllowanceSteps
<1>1. CASE S \in {{}, Backend}
    <2>1. Owed(S) = 0 /\ Allowance(S) = 0
        BY Zenon, <1>0, <1>1 DEF DriftInv, GroupOK
    <2>2. QED
        BY <2>1
<1>2. CASE S \notin {{}, Backend}
    <2>1. Owed(S) + Spread * Cardinality(Misled(S)) <= Allowance(S)
        BY Zenon, <1>2 DEF DriftInv, GroupOK
    <2>2. PICK m \in Nat : m = Cardinality(Misled(S))
        <3>1. Misled(S) \in SUBSET Thread
            BY DEF Misled
        <3>2. QED
            BY <3>1, ThreadSets
    <2>3. PICK p \in Nat : p = Spread
        BY DriftNumbers
    <2>4. p * m >= 0 /\ p * m \in Int
        OBVIOUS
    <2>5. QED
        BY <1>0, <2>1, <2>2, <2>3, <2>4
<1>3. QED
    BY <1>1, <1>2

(* While a group is owed nearly its allowance, its members stand above the *)
(* others: whatever a scan finds, and whenever it finds it, a member is    *)
(* above the divide and a backend that is not a member is not.             *)
LEMMA DivideHolds ==
    ASSUME TypeOK, DriftInv, NEW S \in SUBSET Backend,
           Owed(S) > Allowance(S) - NumThreads * Spread,
           NEW t \in Thread, NEW a \in Backend, a \notin taken[t]
    PROVE  /\ a \in S => current[a] + Weight[a] > Divide(S)
           /\ a \notin S => current[a] + Weight[a] <= Divide(S)
PROOF
<1>1. PICK o \in Int, l \in Int, d \in Int, p \in Nat, k \in Nat, q \in Nat :
          /\ o = Owed(S) /\ l = Allowance(S) /\ d = Divide(S)
          /\ p = NumThreads * Spread /\ k = Slope /\ q = NumThreads * HeaviestWeight
          /\ k = p + q /\ o > l - p
    BY Zenon, OwedSteps, AllowanceSteps, DriftNumbers
<1>2. PICK x \in Int, s \in Int, w \in Nat :
          /\ x = current[a] /\ s = Settled[a] /\ w = Weight[a]
          /\ s <= x /\ x + w <= s + q
    BY Zenon, <1>1, CurrentOverSettled
<1>3. CASE a \in S
    <2>1. PICK r \in Int, m \in Int : r = Owed(S \ {a}) /\ m = Allowance(S \ {a}) /\ r <= m
        <3>1. S \ {a} \in SUBSET Backend
            OBVIOUS
        <3>2. QED
            BY Zenon, <3>1, OwedSteps, AllowanceSteps, DriftGives
    <2>2. o = r + s
        BY Zenon, <1>1, <1>2, <1>3, <2>1, OwedSteps
    <2>3. l - m = d + p
        BY Zenon, <1>1, <1>3, <2>1, AllowanceSteps
    <2>4. x + w > d
        BY <1>1, <1>2, <2>1, <2>2, <2>3
    <2>5. QED
        BY <1>1, <1>2, <1>3, <2>4
<1>4. CASE a \notin S
    <2>1. PICK r \in Int, m \in Int : r = Owed(S \cup {a}) /\ m = Allowance(S \cup {a}) /\ r <= m
        <3>1. S \cup {a} \in SUBSET Backend
            OBVIOUS
        <3>2. QED
            BY Zenon, <3>1, OwedSteps, AllowanceSteps, DriftGives
    <2>2. r = o + s
        BY Zenon, <1>1, <1>2, <1>4, <2>1, OwedSteps
    <2>3. m - l = (d + p) - 2 * k
        BY Zenon, <1>1, <1>4, <2>1, AllowanceSteps
    <2>4. x + w <= d
        BY <1>1, <1>2, <2>1, <2>2, <2>3
    <2>5. QED
        BY <1>1, <1>2, <1>4, <2>4
<1>5. QED
    BY <1>3, <1>4

(* So a scan that is not misled is not misled by what it finds then.       *)
LEMMA AccrueSound ==
    ASSUME TypeOK, TakenInv, DriftInv, NEW S \in SUBSET Backend,
           Owed(S) > Allowance(S) - NumThreads * Spread,
           NEW t \in Thread, Accrue(t), Sound(t, S),
           taken' = [taken EXCEPT ![t] = @ \cup {arg[t]}]
    PROVE  Sound(t, S)'
PROOF
<1>1. PICK a \in Backend, w \in Backend \cup {0}, x \in Int, y \in Int, d \in Int :
          /\ a = arg[t] /\ w = best[t] /\ x = current[a] + Weight[a] /\ y = bestWeight[t]
          /\ d = Divide(S)
    <2>1. /\ arg[t] \in Backend /\ best[t] \in Backend \cup {0} /\ bestWeight[t] \in Int
          /\ current[arg[t]] \in Int /\ Weight[arg[t]] \in Int
        BY WeightAssumption DEF TypeOK, CellsTypeOK
    <2>2. current[arg[t]] + Weight[arg[t]] \in Int
        BY Zenon, <2>1, IntSum
    <2>3. Divide(S) \in Int
        BY Zenon, AllowanceSteps
    <2>4. QED
        BY Zenon, <2>1, <2>2, <2>3
<1>2. pc[t] = "accrue" /\ ScanOf(t) /\ taken \in [Thread -> SUBSET Backend]
    BY Zenon DEF Accrue, TakenInv
<1>3. a \notin taken[t] /\ (w = 0 => taken[t] = {}) /\ a # 0
    <2>1. /\ taken[t] \in SUBSET Backend /\ \A b \in taken[t] : b < a
          /\ w = 0 => taken[t] = {}
        BY Zenon, <1>1, <1>2 DEF ScanOf, ScanLabel
    <2>2. QED
        BY <2>1 DEF Backend
<1>4. (a \in S => x > d) /\ (a \notin S => x <= d)
    BY Zenon, <1>1, <1>3, DivideHolds
<1>5. taken'[t] = taken[t] \cup {a}
    BY Zenon, <1>1, <1>2
<1>6. /\ w = 0 \/ x > y => best'[t] = a /\ bestWeight'[t] = x
      /\ ~(w = 0 \/ x > y) => best'[t] = w /\ bestWeight'[t] = y
    BY SMTT(30), <1>1 DEF Accrue, TypeOK
<1>7. \/ w = 0
      \/ w \in S /\ y >= d
      \/ w \notin S /\ taken[t] \cap S = {} /\ y <= d
    BY Zenon, <1>1 DEF Sound
<1>8. \/ best'[t] \in S /\ bestWeight'[t] >= d
      \/ best'[t] \notin S /\ taken'[t] \cap S = {} /\ bestWeight'[t] <= d
    <2>1. CASE a \in S
        BY <1>4, <1>6, <1>7, <2>1
    <2>2. CASE a \notin S /\ (w = 0 \/ w \notin S)
        <3>1. taken'[t] \cap S = {}
            BY <1>3, <1>5, <1>7, <2>2
        <3>2. QED
            BY <1>4, <1>6, <1>7, <2>2, <3>1
    <2>3. CASE a \notin S /\ w # 0 /\ w \in S
        <3>1. x <= d /\ y >= d /\ ~(x > y)
            BY SMTT(30), <1>4, <1>7, <2>3
        <3>2. best'[t] = w /\ bestWeight'[t] = y
            BY Zenon, <1>6, <2>3, <3>1
        <3>3. QED
            BY Zenon, <2>3, <3>1, <3>2
    <2>4. QED
        BY Zenon, <2>1, <2>2, <2>3
<1>9. Divide(S)' = d
    BY Zenon, <1>1 DEF Divide
<1>10. QED
    BY Zenon, <1>8, <1>9 DEF Sound

(* What a charge does to what a group is owed: it adds at most Spread, and *)
(* nothing if the scan was not misled about the group.                     *)
LEMMA ChargeOwed ==
    ASSUME TypeOK, TakenInv, NEW t \in Thread, Charge(t),
           taken' = [taken EXCEPT ![t] = {}], NEW S \in SUBSET Backend
    PROVE  /\ Owed(S)' \in Int
           /\ Owed(S)' <= Owed(S) + Spread
           /\ Sound(t, S) => Owed(S)' <= Owed(S)
           /\ S \in {{}, Backend} => Owed(S)' = Owed(S)
PROOF
<1>1. PICK E \in SUBSET Backend, a \in Backend : E = taken[t] /\ a = best[t] /\ a \in E
    BY Zenon, ChargeSelects
<1>2. PICK v \in Int : v = SumIn(Weight, E, NumBackends)
    BY PoolAssumption, WeightAssumption, SumInInt DEF Backend
<1>3. WRR!TotalOf(E) = v
    <2>1. \A g, n : WRR!SumTo(g, n) = SumTo(g, n)
        BY DEF WRR!SumTo, SumTo
    <2>2. WRR!TotalOf(E) =
             WRR!SumTo([b \in 1..NumBackends |-> IF b \in E THEN Weight[b] ELSE 0], NumBackends)
        BY Zenon DEF WRR!TotalOf, WRR!SumOver, WRR!Backend
    <2>3. QED
        BY Zenon, <1>2, <2>1, <2>2 DEF SumIn
<1>4. Settled' = [WRR!Accrued(E) EXCEPT ![a] = WRR!Accrued(E)[a] - v]
    <2>1. WRR!SelectAs(E, a)
        BY Zenon, <1>1, ChargeSelects
    <2>2. QED
        BY Zenon, <1>3, <2>1 DEF WRR!SelectAs
<1>5. WRR!Accrued(E) = [b \in Backend |-> IF b \in E THEN Settled[b] + Weight[b] ELSE Settled[b]]
    BY Zenon DEF WRR!Accrued, WRR!Backend, Backend
<1>6. /\ NumBackends \in Nat /\ a \in 1..NumBackends /\ Backend = 1..NumBackends
      /\ \A i \in 1..NumBackends : Settled[i] \in Int /\ Weight[i] \in Int
      /\ \A i \in 1..NumBackends : 0 <= Weight[i] /\ Weight[i] <= HeaviestWeight
      /\ HeaviestWeight \in Nat
    BY PoolAssumption, WeightAssumption, CurrentOverSettled, HeaviestFacts DEF Backend
<1>9. PICK g \in Int : g = SumIn(Weight, S \cap E, NumBackends)
    BY Zenon, <1>6, SumInInt
<1>10. PICK o \in Int : o = Owed(S)
    BY OwedSteps
<1>11. /\ a \in S => Owed(S)' = (o + g) - v
       /\ a \notin S => Owed(S)' = o + g
    <2>1. PICK A : A = Raised(Settled, Weight, E, NumBackends)
        OBVIOUS
    <2>2. SumIn(A, S, NumBackends) = o + g
        <3>1. /\ NumBackends \in Nat
              /\ \A i \in 1..NumBackends : Settled[i] \in Int /\ Weight[i] \in Int
            BY Zenon, <1>6
        <3>2. SumIn(Raised(Settled, Weight, E, NumBackends), S, NumBackends)
                = SumIn(Settled, S, NumBackends) + SumIn(Weight, S \cap E, NumBackends)
            BY SMTT(60), <3>1, SumInAdd
        <3>3. QED
            BY Zenon, <1>9, <1>10, <2>1, <3>2 DEF Owed
    <2>3. A \in [1..NumBackends -> Int]
        BY <1>6, <2>1 DEF Raised
    <2>4. Settled' = Reduced(A, a, v)
        BY Zenon, <1>4, <1>5, <1>6, <2>1 DEF Raised, Reduced
    <2>5. Owed(S)' = SumIn(Settled', S, NumBackends)
        BY DEF Owed, SumIn
    <2>6. QED
        <3>1. NumBackends \in Nat /\ a \in 1..NumBackends
            BY Zenon, <1>6
        <3>2. /\ a \in S => SumIn(Reduced(A, a, v), S, NumBackends) = SumIn(A, S, NumBackends) - v
              /\ a \notin S => SumIn(Reduced(A, a, v), S, NumBackends) = SumIn(A, S, NumBackends)
            BY SMTT(60), <2>3, <3>1, SumInTake
        <3>3. QED
            BY Zenon, <2>2, <2>4, <2>5, <3>2
<1>12. 0 <= g /\ g <= v /\ v <= Spread
    <2>1. S \cap E \subseteq E
        OBVIOUS
    <2>2. QED
        BY Zenon, <1>2, <1>6, <1>9, <2>1, SumInBounds DEF Spread
<1>13. Spread \in Nat
    BY DriftNumbers
<1>14. Owed(S)' \in Int /\ Owed(S)' <= Owed(S) + Spread
    BY <1>10, <1>11, <1>12, <1>13
<1>15. ASSUME Sound(t, S) PROVE Owed(S)' <= Owed(S)
    <2>1. a \in S \/ E \cap S = {}
        BY <1>1, <1>15 DEF Sound, Backend
    <2>2. E \cap S = {} => g = 0
        <3>1. E \cap S = {} => S \cap E = {}
            OBVIOUS
        <3>2. QED
            BY Zenon, <1>6, <1>9, <3>1, SumInEmpty
    <2>3. QED
        BY <1>10, <1>11, <1>12, <2>1, <2>2
<1>16. ASSUME S \in {{}, Backend} PROVE Owed(S)' = Owed(S)
    <2>1. CASE S = {}
        <3>1. S \cap E = {} /\ a \notin S
            BY <2>1
        <3>2. g = 0
            BY Zenon, <1>6, <1>9, <3>1, SumInEmpty
        <3>3. QED
            BY <1>10, <1>11, <3>1, <3>2
    <2>2. CASE S = Backend
        <3>1. S \cap E = E /\ a \in S
            BY <2>2
        <3>2. g = v
            BY Zenon, <1>2, <1>9, <3>1
        <3>3. QED
            BY <1>10, <1>11, <3>1, <3>2
    <2>3. QED
        BY <1>16, <2>1, <2>2
<1>17. QED
    BY <1>14, <1>15, <1>16

(* Counting the misled scans into what a group is owed.                    *)
LEMMA CountKept ==
    ASSUME NEW A \in SUBSET Thread, NEW B \in SUBSET A, NEW o \in Int, NEW p \in Int,
           NEW l \in Int, NEW r \in Nat, o + r * Cardinality(A) <= l, p <= o
    PROVE  p + r * Cardinality(B) <= l
PROOF
<1>1. PICK x \in Nat, y \in Nat : x = Cardinality(A) /\ y = Cardinality(B) /\ y <= x
    <2>1. IsFiniteSet(A) /\ Cardinality(A) \in Nat /\ Cardinality(B) \in Nat
        BY ThreadSets
    <2>2. Cardinality(B) <= Cardinality(A)
        BY Zenon, <2>1, FS_Subset
    <2>3. QED
        BY <2>1, <2>2
<1>2. r * y <= r * x /\ r * y \in Nat /\ r * x \in Nat
    BY <1>1
<1>3. QED
    BY <1>1, <1>2

(* A misled scan that ends spends its Spread.                              *)
LEMMA CountSpent ==
    ASSUME NEW A \in SUBSET Thread, NEW t \in A, NEW o \in Int, NEW p \in Int,
           NEW l \in Int, NEW r \in Nat, o + r * Cardinality(A) <= l, p <= o + r
    PROVE  p + r * Cardinality(A \ {t}) <= l
PROOF
<1>1. PICK x \in Nat : x = Cardinality(A)
    BY ThreadSets
<1>2. Cardinality(A \ {t}) = x - 1
    BY Zenon, <1>1, ThreadSets, FS_RemoveElement
<1>3. r * (x - 1) = r * x - r /\ r * x \in Nat
    OBVIOUS
<1>4. QED
    BY <1>1, <1>2, <1>3

(* All scans may be misled about a group that is owed little enough.       *)
LEMMA CountMost ==
    ASSUME NEW A \in SUBSET Thread, NEW o \in Int, NEW l \in Int, NEW r \in Nat,
           o <= l - NumThreads * r
    PROVE  o + r * Cardinality(A) <= l
PROOF
<1>1. PICK x \in Nat, k \in Nat : x = Cardinality(A) /\ k = NumThreads /\ x <= k
    BY ThreadSets, PoolAssumption
<1>2. r * x <= k * r /\ r * x \in Nat /\ k * r \in Nat
    <2>1. r * x <= r * k /\ r * k = k * r /\ r * x \in Nat /\ k * r \in Nat
        BY <1>1
    <2>2. QED
        BY <2>1
<1>3. QED
    BY <1>1, <1>2

(* The scans of the other threads are as misled as they were.              *)
LEMMA OtherSound ==
    ASSUME TypeOK, TakenInv, NEW t \in Thread, Step(t), Take, NEW S,
           NEW u \in Thread, u # t
    PROVE  Sound(u, S)' <=> Sound(u, S)
PROOF
<1>1. pc'[u] = pc[u] /\ best'[u] = best[u] /\ bestWeight'[u] = bestWeight[u]
    BY StepLocal, StepScan
<1>2. taken'[u] = taken[u]
    BY <1>1 DEF Take
<1>3. Divide(S)' = Divide(S)
    BY DEF Divide
<1>4. QED
    BY Zenon, <1>1, <1>2, <1>3 DEF Sound

(* A step that does not touch the weights of its scan.                     *)
LEMMA IdleSound ==
    ASSUME TypeOK, NEW t \in Thread, Step(t), ~Accrue(t), ~Charge(t),
           taken' = taken, NEW S, Sound(t, S)
    PROVE  Sound(t, S)'
PROOF
<1>1. best'[t] = 0 \/ (best'[t] = best[t] /\ bestWeight'[t] = bestWeight[t])
    <2>1. CASE NextCall(t)
        BY <2>1 DEF NextCall, ResetScan, TypeOK
    <2>2. CASE ~NextCall(t)
        <3>1. CASE EligibleHealthy(t) \/ TrialHealthy(t) \/ TrialNow(t) \/ TrialUntil(t)
            BY <3>1 DEF EligibleHealthy, TrialHealthy, TrialNow, TrialUntil, scan
        <3>2. CASE Route(t) \/ Respond(t) \/ Probe(t)
            BY <3>2 DEF Route, Respond, Probe, scan
        <3>3. CASE RecordStep(t) /\ UNCHANGED <<current, scan, probe>>
            BY <3>3 DEF scan
        <3>4. QED
            BY Zenon, <2>2, <3>1, <3>2, <3>3 DEF Step
    <2>3. QED
        BY <2>1, <2>2
<1>2. Divide(S)' = Divide(S)
    BY DEF Divide
<1>3. QED
    BY Zenon, <1>1, <1>2 DEF Sound

(* Every step of a thread keeps what every group is owed within bounds.    *)
LEMMA StepDrift ==
    ASSUME TypeOK, TakenInv, DriftInv, NEW t \in Thread, Step(t), Take,
           NEW S \in SUBSET Backend
    PROVE  GroupOK(S)'
PROOF
<1>1. PICK A \in SUBSET Thread, B \in SUBSET Thread : A = Misled(S) /\ B = Misled(S)'
    BY Zenon DEF Misled
<1>2. PICK o \in Int, l \in Int, r \in Nat : o = Owed(S) /\ l = Allowance(S) /\ r = Spread
    BY Zenon, OwedSteps, AllowanceSteps, DriftNumbers
<1>3. GroupOK(S)' <=> IF S \in {{}, Backend} THEN Owed(S)' = 0
                      ELSE Owed(S)' + r * Cardinality(B) <= l
    BY Zenon, <1>1, <1>2 DEF GroupOK, Backend, Spread, Allowance, Slope, HeaviestWeight
<1>4. IF S \in {{}, Backend} THEN o = 0 ELSE o + r * Cardinality(A) <= l
    BY Zenon, <1>1, <1>2 DEF DriftInv, GroupOK
<1>5. \A u \in Thread : u # t => (u \in B <=> u \in A)
    BY Zenon, <1>1, OtherSound DEF Misled
<1>6. taken \in [Thread -> SUBSET Backend]
    BY DEF TakenInv
<1>7. ASSUME Owed(S)' = o, t \in B => t \in A PROVE GroupOK(S)'
    <2>1. B \in SUBSET A
        BY <1>5, <1>7
    <2>2. CASE S \in {{}, Backend}
        BY <1>3, <1>4, <1>7, <2>2
    <2>3. CASE S \notin {{}, Backend}
        <3>1. o <= o
            OBVIOUS
        <3>2. o + r * Cardinality(B) <= l
            BY <1>4, <2>1, <2>3, <3>1, CountKept
        <3>3. QED
            BY <1>3, <1>7, <2>3, <3>2
    <2>4. QED
        BY <2>2, <2>3
<1>8. CASE Accrue(t) /\ taken' = [taken EXCEPT ![t] = @ \cup {arg[t]}]
    <2>1. Owed(S)' = o
        <3>1. Settled' = Settled
            BY Zenon, <1>8, AccrueStutters
        <3>2. QED
            BY Zenon, <1>2, <3>1 DEF Owed, SumIn
    <2>2. CASE o > l - NumThreads * r
        <3>1. Owed(S) > Allowance(S) - NumThreads * Spread
            BY Zenon, <1>2, <2>2
        <3>2. Sound(t, S) => Sound(t, S)'
            BY Zenon, <1>8, <3>1, AccrueSound
        <3>3. t \in B => t \in A
            BY Zenon, <1>1, <3>2 DEF Misled
        <3>4. QED
            BY Zenon, <1>7, <2>1, <3>3
    <2>3. CASE o <= l - NumThreads * r
        <3>1. o + r * Cardinality(B) <= l
            BY <2>3, CountMost
        <3>2. QED
            BY <1>3, <1>4, <2>1, <3>1
    <2>4. QED
        <3>1. NumThreads * r \in Int
            BY PoolAssumption
        <3>2. QED
            BY <2>2, <2>3, <3>1
<1>9. CASE Charge(t) /\ taken' = [taken EXCEPT ![t] = {}]
    <2>1. PICK p \in Int : /\ p = Owed(S)' /\ p <= o + r
                           /\ Sound(t, S) => p <= o
                           /\ S \in {{}, Backend} => p = o
        BY Zenon, <1>2, <1>9, ChargeOwed
    <2>2. t \notin B
        <3>1. best'[t] = 0
            BY <1>9 DEF Charge, ResetScan, TypeOK
        <3>2. QED
            BY Zenon, <1>1, <3>1 DEF Misled, Sound
    <2>3. CASE S \in {{}, Backend}
        BY <1>3, <1>4, <2>1, <2>3
    <2>4. CASE S \notin {{}, Backend} /\ t \in A
        <3>1. B = A \ {t}
            BY <1>5, <2>2
        <3>2. p + r * Cardinality(A \ {t}) <= l
            BY <1>4, <2>1, <2>4, CountSpent
        <3>3. QED
            BY Zenon, <1>3, <2>1, <2>4, <3>1, <3>2
    <2>5. CASE S \notin {{}, Backend} /\ t \notin A
        <3>1. B \in SUBSET A
            BY <1>5, <2>2
        <3>2. p <= o
            BY Zenon, <1>1, <2>1, <2>5 DEF Misled
        <3>3. p + r * Cardinality(B) <= l
            BY <1>4, <2>5, <3>1, <3>2, CountKept
        <3>4. QED
            BY Zenon, <1>3, <2>1, <2>5, <3>3
    <2>6. QED
        BY <2>3, <2>4, <2>5
<1>10. CASE ~Accrue(t) /\ ~Charge(t) /\ taken' = taken /\ current' = current
    <2>1. Settled' = Settled
        BY <1>10 DEF Settled
    <2>2. Owed(S)' = o
        BY Zenon, <1>2, <2>1 DEF Owed, SumIn
    <2>3. Sound(t, S) => Sound(t, S)'
        BY Zenon, <1>10, IdleSound
    <2>4. t \in B => t \in A
        BY Zenon, <1>1, <2>3 DEF Misled
    <2>5. QED
        BY Zenon, <1>7, <2>2, <2>4
<1>11. QED
    BY Zenon, <1>6, <1>8, <1>9, <1>10, TakeStep

(* Before the first selection nobody is owed anything.                     *)
LEMMA InitDrift == RefinementInit /\ TypeOK => DriftInv
PROOF
<1> SUFFICES ASSUME RefinementInit, TypeOK, NEW S \in SUBSET Backend PROVE GroupOK(S)
    BY DEF DriftInv
<1>1. NumBackends \in Nat /\ \A i \in 1..NumBackends : Settled[i] = 0
    BY Zenon, InitSimulates, PoolAssumption DEF WRR!Init, WRR!Backend
<1>2. Owed(S) = 0
    <2>1. 0 \in Nat /\ \A i \in 1..NumBackends :
              Settled[i] \in Int /\ 0 <= Settled[i] /\ Settled[i] <= 0
        BY <1>1
    <2>2. 0 <= Owed(S) /\ Owed(S) <= NumBackends * 0
        BY Zenon, <1>1, <2>1, SumInBounds DEF Owed
    <2>3. Owed(S) \in Int
        BY Zenon, OwedSteps
    <2>4. QED
        BY <1>1, <2>2, <2>3
<1>3. Misled(S) = {}
    BY DEF Misled, Sound, RefinementInit, Init
<1>4. Cardinality(Misled(S)) = 0
    BY <1>3, FS_EmptySet
<1>5. Allowance(S) >= 0
    <2>1. PICK s \in Nat : s = Cardinality(S) /\ s <= NumBackends
        BY GroupSize
    <2>2. PICK d \in Nat : d = NumBackends - s
        BY <2>1, PoolAssumption
    <2>3. s * d \in Nat /\ \A x, y \in Nat : x * y \in Nat
        BY <2>2
    <2>4. Slope * (s * d) \in Nat
        BY Zenon, <2>3, DriftNumbers
    <2>5. QED
        BY <2>1, <2>2, <2>4 DEF Allowance
<1>6. QED
    BY <1>2, <1>4, <1>5, DriftNumbers DEF GroupOK

(* So no group is ever owed more than its allowance.                       *)
LEMMA DriftAlways == RefinementSpec => []DriftInv
PROOF
<1>1. TypeOK /\ TakenInv /\ DriftInv /\ [RefinementNext]_refinementVars => DriftInv'
    <2> SUFFICES ASSUME TypeOK, TakenInv, DriftInv, [RefinementNext]_refinementVars,
                        NEW S \in SUBSET Backend
                 PROVE  GroupOK(S)'
        BY DEF DriftInv, Backend
    <2>1. ASSUME UNCHANGED <<best, bestWeight, current, taken>> PROVE GroupOK(S)'
        <3>1. Misled(S)' = Misled(S)
            BY Zenon, <2>1 DEF Misled, Sound, Divide
        <3>2. Settled' = Settled
            BY <2>1 DEF Settled
        <3>3. Owed(S)' = Owed(S)
            BY Zenon, <3>2 DEF Owed, SumIn
        <3>4. GroupOK(S)
            BY DEF DriftInv
        <3>5. QED
            BY Zenon, <3>1, <3>3, <3>4
               DEF GroupOK, Backend, Spread, Allowance, Slope, HeaviestWeight
    <2>2. CASE Tick /\ UNCHANGED <<current, scan, probe>> /\ Take
        <3>1. UNCHANGED <<pc, current, best, bestWeight>>
            BY <2>2 DEF Tick, threads, scan
        <3>2. taken' = taken
            BY SMTT(30), <2>2, <3>1 DEF Take, TakenInv
        <3>3. QED
            BY <2>1, <3>1, <3>2
    <2>3. CASE UNCHANGED refinementVars
        BY <2>1, <2>3 DEF refinementVars, vars, scan
    <2>4. ASSUME NEW t \in Thread, Step(t), Take PROVE GroupOK(S)'
        BY Zenon, <2>4, StepDrift
    <2>5. QED
        BY SMTT(30), <2>2, <2>3, <2>4 DEF RefinementNext, Next, Take
<1>2. QED
    BY <1>1, InitDrift, TakenAlways, PTL DEF RefinementSpec

(* What one backend is owed, from what its group and the rest are.         *)
LEMMA DriftBounds ==
    ASSUME TypeOK, DriftInv, NEW b \in Backend
    PROVE  LET r == NumThreads * NumBackends * NumBackends * HeaviestWeight
           IN  current[b] <= r /\ current[b] >= -r
PROOF
<1>1. PICK n \in Nat \ {0}, k \in Nat \ {0}, h \in Nat :
          n = NumBackends /\ k = NumThreads /\ h = HeaviestWeight
    BY PoolAssumption, HeaviestFacts
<1>2. PICK x \in Int, y \in Int : /\ x = Settled[b] /\ y = current[b]
                                  /\ x <= y /\ y <= x + k * h
    BY <1>1, CurrentOverSettled
<1>3. {b} \in SUBSET Backend /\ Backend \in SUBSET Backend /\ Backend \ {b} \in SUBSET Backend
      /\ {} \in SUBSET Backend
    OBVIOUS
<1>4. x <= Allowance({b})
    <2>1. Owed({b}) = Owed({b} \ {b}) + x /\ Owed({}) = 0
        BY Zenon, <1>2, <1>3, OwedSteps
    <2>2. {b} \ {b} = {}
        OBVIOUS
    <2>3. Owed({b}) <= Allowance({b})
        BY Zenon, <1>3, DriftGives
    <2>4. QED
        BY <2>1, <2>2, <2>3
<1>5. -x <= Allowance(Backend \ {b})
    <2>1. Owed(Backend) = Owed(Backend \ {b}) + x
        BY Zenon, <1>2, <1>3, OwedSteps
    <2>2. Owed(Backend) = 0
        BY Zenon, <1>3 DEF DriftInv, GroupOK
    <2>3. Owed(Backend \ {b}) <= Allowance(Backend \ {b})
        BY Zenon, <1>3, DriftGives
    <2>4. Owed(Backend \ {b}) \in Int /\ Allowance(Backend \ {b}) \in Int
        BY Zenon, <1>3, OwedSteps, AllowanceSteps
    <2>5. QED
        BY <2>1, <2>2, <2>3, <2>4
<1>6. Slope = k * ((n + 1) * h)
    BY <1>1 DEF Slope
<1>7. Allowance({b}) = (k * ((n + 1) * h)) * (1 * (n - 1))
    <2>1. Cardinality({b}) = 1
        BY Zenon, FS_Singleton
    <2>2. QED
        BY Zenon, <1>1, <1>6, <2>1 DEF Allowance
<1>8. Allowance(Backend \ {b}) = (k * ((n + 1) * h)) * ((n - 1) * (n - (n - 1)))
    <2>1. Cardinality(Backend) = n /\ IsFiniteSet(Backend)
        BY <1>1, <1>3, GroupSize
    <2>2. Cardinality(Backend \ {b}) = n - 1
        BY <2>1, FS_RemoveElement
    <2>3. QED
        BY Zenon, <1>1, <1>6, <2>2 DEF Allowance
<1>9. /\ (k * ((n + 1) * h)) * (1 * (n - 1)) + k * h = k * n * n * h
      /\ (k * ((n + 1) * h)) * ((n - 1) * (n - (n - 1))) + k * h = k * n * n * h
      /\ k * h \in Nat /\ k * n * n * h \in Int
    OBVIOUS
<1>10. y <= k * n * n * h /\ y >= -(k * n * n * h)
    <2>1. PICK z \in Int, v \in Nat : z = k * n * n * h /\ v = k * h
        BY <1>9
    <2>2. x <= z - v /\ -x <= z - v
        BY <1>4, <1>5, <1>7, <1>8, <1>9, <2>1
    <2>3. QED
        BY <1>2, <2>1, <2>2
<1>11. QED
    BY Zenon, <1>1, <1>2, <1>10

(* For every pool, every assignment of weights, every number of handlers   *)
(* that overlap in any way, and whatever the checker does to the           *)
(* eligibility of the backends meanwhile, the running weight of a backend  *)
(* stays within NumThreads * NumBackends^2 heaviest weights of zero: the   *)
(* fetch_sub that charges a stale winner (LoadBalancer::next in            *)
(* src/src/balancer.rs) never accumulates.  RefinementSpec is Balancer's   *)
(* specification with a history variable.                                  *)
THEOREM NeverDrifts == RefinementSpec => []NoDrift
PROOF
<1>1. TypeOK /\ DriftInv => NoDrift
    <2> SUFFICES ASSUME TypeOK, DriftInv, NEW b \in Backend
                 PROVE  \E c \in Backend :
                          LET range == NumThreads * NumBackends * NumBackends * Weight[c]
                          IN  current[b] <= range /\ current[b] >= -range
        BY DEF NoDrift
    <2>1. PICK c \in Backend : HeaviestWeight = Weight[c]
        BY HeaviestFacts
    <2>2. QED
        BY Zenon, <2>1, DriftBounds
<1>2. QED
    BY <1>1, DriftAlways, TakenAlways, PTL

=============================================================================
