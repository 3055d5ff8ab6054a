--------------------------- MODULE BalancerProofs ---------------------------
(***************************************************************************)
(* Proofs about the health state of the pool, next() and the handlers and  *)
(* the checker that run it, for every pool, every assignment of weights    *)
(* and every number of concurrent handlers, with or without the checker.   *)
(***************************************************************************)
EXTENDS SelectionHistory, SumProofs

-----------------------------------------------------------------------------
(* The health state by itself (module Upstream).                           *)

(* A deadline on its way to arm_cooldown's store is no older than one      *)
(* cooldown after the start and no later than one cooldown from now.       *)
LoadedDeadlines ==
    \A t \in Thread :
        pc[t] = "arm_store" => Cooldown <= loc[t] /\ loc[t] <= now + Cooldown

(* The inductive strengthening of HoldOutBounded and EjectedIsArmed.       *)
ArmInv == HoldOutBounded /\ LoadedDeadlines /\ EjectedIsArmed

LEMMA WrapType == \A n \in 0..U32Max : Wrap(n) \in 0..U32Max
PROOF
    BY ThresholdAssumption DEF Wrap

(* An operation of a call moves its thread to another one of the call or   *)
(* back to the caller, on the same backend.                                *)
LEMMA RecordStepMoves ==
    ASSUME NEW t \in Thread, RecordStep(t) \/ MarkStore(t)
    PROVE  /\ pc[t] \in RecordLabel
           /\ \E l \in RecordLabel \cup {ret[t]} : Goto(t, l)
           /\ \E x : loc' = loc \/ loc' = [loc EXCEPT ![t] = x]
           /\ ret' = ret /\ now' = now
PROOF
<1> USE DEF RecordLabel, Return
<1>1. CASE SuccessCheck(t)
    BY <1>1 DEF SuccessCheck
<1>2. CASE SuccessClear(t)
    BY <1>2 DEF SuccessClear
<1>3. CASE SuccessAdd(t)
    BY <1>3 DEF SuccessAdd
<1>4. CASE Promote(t)
    BY <1>4 DEF Promote
<1>5. CASE FailureAdd(t)
    BY <1>5 DEF FailureAdd
<1>6. CASE FailureSwap(t)
    BY <1>6 DEF FailureSwap
<1>7. CASE ArmNow(t)
    BY Zenon, <1>7 DEF ArmNow
<1>8. CASE ArmStore(t)
    BY Zenon, <1>8 DEF ArmStore
<1>9. CASE MarkStore(t)
    BY <1>9 DEF MarkStore
<1>10. QED
    BY <1>1, <1>2, <1>3, <1>4, <1>5, <1>6, <1>7, <1>8, <1>9 DEF RecordStep

(* No atomic operation takes a cell or a local out of its type.            *)
LEMMA RecordStepType ==
    ASSUME NEW t \in Thread, NEW L, pc \in [Thread -> L], CellsTypeOK,
           RecordStep(t) \/ MarkStore(t)
    PROVE  CellsTypeOK'
PROOF
<1> USE TimeAssumption DEF CellsTypeOK, Goto, GotoOn, Return
<1>1. CASE SuccessCheck(t)
    BY <1>1 DEF SuccessCheck, cells
<1>2. CASE SuccessClear(t)
    BY <1>2, ThresholdAssumption DEF SuccessClear
<1>3. CASE SuccessAdd(t)
    BY <1>3, WrapType DEF SuccessAdd
<1>4. CASE Promote(t)
    <2>1. CASE pc[t] = "promote_successes"
        BY <1>4, <2>1, ThresholdAssumption DEF Promote
    <2>2. CASE pc[t] = "promote_until"
        BY <1>4, <2>2 DEF Promote
    <2>3. CASE pc[t] = "promote_healthy"
        BY Zenon, <1>4, <2>3 DEF Promote
    <2>4. QED
        BY <1>4, <2>1, <2>2, <2>3 DEF Promote
<1>5. CASE FailureAdd(t)
    BY <1>5, WrapType DEF FailureAdd
<1>6. CASE FailureSwap(t)
    BY <1>6 DEF FailureSwap
<1>7. CASE ArmNow(t)
    BY <1>7 DEF ArmNow, cells
<1>8. CASE ArmStore(t)
    BY <1>8 DEF ArmStore
<1>9. CASE MarkStore(t)
    BY <1>9 DEF MarkStore
<1>10. QED
    BY <1>1, <1>2, <1>3, <1>4, <1>5, <1>6, <1>7, <1>8, <1>9 DEF RecordStep

LEMMA CallType ==
    ASSUME NEW t \in Thread, NEW b \in Backend, CellsTypeOK,
           \/ RecordSuccess(t, b) \/ RecordFailure(t, b)
           \/ MarkHealthy(t, b) \/ MarkUnhealthy(t, b)
    PROVE  CellsTypeOK'
PROOF
    BY ThresholdAssumption DEF CellsTypeOK, RecordSuccess, RecordFailure,
       MarkHealthy, MarkUnhealthy, Call, GotoOn

(* A step that leaves the cells alone and takes one thread from a label    *)
(* where it neither arms nor promotes to one where its deadline is not yet *)
(* loaded keeps ArmInv.                                                    *)
LEMMA OtherStepArm ==
    ASSUME NEW t \in Thread, NEW L, pc \in [Thread -> L],
           arg \in [Thread -> Backend], loc \in [Thread -> Nat],
           NEW l, NEW b, NEW v, ArmInv,
           pc[t] \notin {"arm_now", "arm_store", "promote_healthy"},
           l # "arm_store",
           pc' = [pc EXCEPT ![t] = l], arg' = [arg EXCEPT ![t] = b],
           loc' = [loc EXCEPT ![t] = v], UNCHANGED <<healthy, until, now>>
    PROVE  ArmInv'
PROOF
    BY DEF ArmInv, HoldOutBounded, LoadedDeadlines, EjectedIsArmed, Arming,
       Promoting

(* The calls leave healthy and until alone.                                *)
LEMMA CallArm ==
    ASSUME NEW t \in Thread, NEW b \in Backend, NEW L, pc \in [Thread -> L],
           CellsTypeOK, ArmInv, pc[t] \in {"idle", "sent"},
           \/ RecordSuccess(t, b) \/ RecordFailure(t, b)
           \/ MarkHealthy(t, b) \/ MarkUnhealthy(t, b)
    PROVE  ArmInv'
PROOF
    BY DEF ArmInv, HoldOutBounded, LoadedDeadlines, EjectedIsArmed, Arming,
       Promoting, CellsTypeOK, RecordSuccess, RecordFailure, MarkHealthy,
       MarkUnhealthy, Call, GotoOn

LEMMA TickArm ==
    ASSUME CellsTypeOK, ArmInv, Tick
    PROVE  CellsTypeOK' /\ ArmInv'
PROOF
    BY TimeAssumption DEF ArmInv, HoldOutBounded, LoadedDeadlines,
       EjectedIsArmed, Arming, Promoting, CellsTypeOK, Tick, cells, threads

(* Each atomic operation of a call in progress keeps ArmInv.               *)
LEMMA RecordStepArm ==
    ASSUME NEW t \in Thread, NEW L, pc \in [Thread -> L],
           ret[t] \in {"idle", "sent"}, CellsTypeOK, ArmInv,
           RecordStep(t) \/ MarkStore(t)
    PROVE  ArmInv'
PROOF
<1> USE DEF CellsTypeOK, Goto, GotoOn, Return, ArmInv, HoldOutBounded,
        LoadedDeadlines, EjectedIsArmed, Arming, Promoting
<1>1. CASE SuccessCheck(t)
    BY <1>1 DEF SuccessCheck, cells
<1>2. CASE SuccessClear(t)
    BY <1>2 DEF SuccessClear
<1>3. CASE SuccessAdd(t)
    BY <1>3 DEF SuccessAdd
<1>4. CASE Promote(t)
    <2>1. CASE pc[t] = "promote_successes"
        BY <1>4, <2>1 DEF Promote
    <2>2. CASE pc[t] = "promote_until"
        BY <1>4, <2>2, TimeAssumption DEF Promote
    <2>3. CASE pc[t] = "promote_healthy"
        BY <1>4, <2>3 DEF Promote
    <2>4. QED
        BY <1>4, <2>1, <2>2, <2>3 DEF Promote
<1>5. CASE FailureAdd(t)
    BY <1>5 DEF FailureAdd
<1>6. CASE FailureSwap(t)
    BY <1>6 DEF FailureSwap
<1>7. CASE ArmNow(t)
    BY <1>7, TimeAssumption DEF ArmNow, cells
<1>8. CASE ArmStore(t)
    BY <1>8, TimeAssumption DEF ArmStore
<1>9. CASE MarkStore(t)
    BY <1>9 DEF MarkStore
<1>10. QED
    BY Zenon, <1>1, <1>2, <1>3, <1>4, <1>5, <1>6, <1>7, <1>8, <1>9 DEF RecordStep

-----------------------------------------------------------------------------
(* The pool keeps the types of its cells whatever its threads call.        *)
THEOREM UpstreamTypeCorrect == SpecUpstream => []UpstreamTypeOK
PROOF
<1>1. InitUpstream => UpstreamTypeOK
    BY PoolAssumption, ThresholdAssumption
    DEF InitUpstream, UpstreamTypeOK, CellsTypeOK, Backend
<1>2. UpstreamTypeOK /\ [NextUpstream]_upstreamVars => UpstreamTypeOK'
    <2> SUFFICES ASSUME UpstreamTypeOK, [NextUpstream]_upstreamVars
                 PROVE  UpstreamTypeOK'
        OBVIOUS
    <2> USE DEF UpstreamTypeOK
    <2>1. CASE Tick
        BY <2>1 DEF Tick, CellsTypeOK, cells, threads
    <2>2. ASSUME NEW t \in Thread, RecordStep(t) \/ MarkStore(t)
          PROVE  UpstreamTypeOK'
        <3>1. CellsTypeOK'
            BY Zenon, <2>2, RecordStepType
        <3>2. pc' \in [Thread -> RecordLabel \cup {"idle"}]
            BY <2>2, RecordStepMoves DEF Goto, GotoOn
        <3>3. ret' = ret
            BY Zenon, <2>2, RecordStepMoves
        <3>4. QED
            BY <3>1, <3>2, <3>3
    <2>3. ASSUME NEW t \in Thread, NEW b \in Backend, pc[t] = "idle",
                 \/ RecordSuccess(t, b) \/ RecordFailure(t, b)
                 \/ MarkHealthy(t, b) \/ MarkUnhealthy(t, b)
          PROVE  UpstreamTypeOK'
        <3>1. CellsTypeOK'
            BY <2>3, CallType
        <3>2. QED
            BY <2>3, <3>1 DEF RecordSuccess, RecordFailure, MarkHealthy,
               MarkUnhealthy, Call, GotoOn, RecordLabel
    <2>4. CASE UNCHANGED upstreamVars
        BY <2>4 DEF CellsTypeOK, upstreamVars, cells, threads
    <2>5. QED
        BY <2>1, <2>2, <2>3, <2>4 DEF NextUpstream
<1>3. QED
    BY <1>1, <1>2, PTL DEF SpecUpstream

(* An ejected backend is held out for a cooldown that is neither lost nor  *)
(* longer than one window from now, for any interleaving of any number of  *)
(* threads calling any of the methods of UpstreamState.                    *)
THEOREM UpstreamArmed == SpecUpstream => [](HoldOutBounded /\ EjectedIsArmed)
PROOF
<1>1. InitUpstream => ArmInv
    BY TimeAssumption
    DEF InitUpstream, ArmInv, HoldOutBounded, LoadedDeadlines, EjectedIsArmed
<1>2. UpstreamTypeOK /\ ArmInv /\ [NextUpstream]_upstreamVars => ArmInv'
    <2> SUFFICES ASSUME UpstreamTypeOK, ArmInv, [NextUpstream]_upstreamVars
                 PROVE  ArmInv'
        OBVIOUS
    <2>1. CASE Tick
        BY <2>1, TickArm DEF UpstreamTypeOK
    <2>2. ASSUME NEW t \in Thread, RecordStep(t) \/ MarkStore(t)
          PROVE  ArmInv'
        BY Zenon, <2>2, RecordStepArm DEF UpstreamTypeOK
    <2>3. ASSUME NEW t \in Thread, NEW b \in Backend, pc[t] = "idle",
                 \/ RecordSuccess(t, b) \/ RecordFailure(t, b)
                 \/ MarkHealthy(t, b) \/ MarkUnhealthy(t, b)
          PROVE  ArmInv'
        BY Zenon, <2>3, CallArm DEF UpstreamTypeOK
    <2>4. CASE UNCHANGED upstreamVars
        BY <2>4 DEF upstreamVars, cells, threads, ArmInv, HoldOutBounded,
           LoadedDeadlines, EjectedIsArmed, Arming, Promoting
    <2>5. QED
        BY <2>1, <2>2, <2>3, <2>4 DEF NextUpstream
<1>3. ArmInv => HoldOutBounded /\ EjectedIsArmed
    BY DEF ArmInv
<1>4. QED
    BY <1>1, <1>2, <1>3, UpstreamTypeCorrect, PTL DEF SpecUpstream

-----------------------------------------------------------------------------
(* The balancer over it.                                                   *)

Label == RecordLabel \cup SelectLabel \cup {"idle"}

LEMMA CheckerIsThread == Checker \subseteq Thread /\ Handler \subseteq Thread
PROOF
    BY PoolAssumption, CheckerAssumption DEF Checker, Handler, Thread

(* Where the loop of next() goes after an iteration.                       *)
LEMMA AdvanceType ==
    ASSUME TypeOK, NEW t \in Thread, NEW b \in Backend \cup {0}, Advance(t, b)
    PROVE  arg' \in [Thread -> Backend] /\ pc' \in [Thread -> Label]
PROOF
<1>0. arg[t] \in Backend
    BY Zenon DEF TypeOK, CellsTypeOK
<1>1. arg[t] \in Nat /\ 1 <= arg[t] /\ arg[t] <= NumBackends
    BY <1>0, PoolAssumption DEF Backend
<1>2. arg[t] < NumBackends => arg[t] + 1 \in Backend
    BY <1>1, PoolAssumption DEF Backend
<1>3. QED
    BY SMTT(30), <1>1, <1>2 DEF Advance, Goto, GotoOn, TypeOK, CellsTypeOK, Label,
       SelectLabel, ScanLabel

(* The step of a call in progress keeps the labels of every thread.        *)
LEMMA RecordStepLabel ==
    ASSUME TypeOK, NEW t \in Thread, RecordStep(t)
    PROVE  pc' \in [Thread -> Label] /\ ret' = ret
PROOF
<1>1. ret[t] \in Label
    BY DEF TypeOK, Label, SelectLabel
<1>2. pc \in [Thread -> Label]
    BY DEF TypeOK, Label
<1>3. PICK l \in RecordLabel \cup {ret[t]} : Goto(t, l)
    BY Zenon, RecordStepMoves
<1>4. l \in Label
    BY Zenon, <1>1 DEF Label
<1>5. QED
    BY <1>2, <1>3, <1>4, RecordStepMoves DEF Goto, GotoOn

(* A step of a thread keeps every cell and local in its type.              *)
LEMMA StepType ==
    ASSUME TypeOK, NEW t \in Thread, Step(t)
    PROVE  TypeOK'
PROOF
<1> USE DEF SelectLabel, ScanLabel, RecordLabel
<1>a. TypeOK' <=> /\ CellsTypeOK' /\ pc' \in [Thread -> Label]
                  /\ ret' \in [Thread -> {"idle", "sent"}]
                  /\ current' \in [Backend -> Int]
                  /\ total' \in [Thread -> Nat]
                  /\ best' \in [Thread -> Backend \cup {0}]
                  /\ bestWeight' \in [Thread -> Int]
                  /\ probe' \in Backend
    BY DEF TypeOK, Label
<1>b. pc \in [Thread -> Label]
    BY DEF TypeOK, Label
<1>c. 1 \in Backend
    BY PoolAssumption DEF Backend
<1>1. CASE NextCall(t)
    <2>1. CellsTypeOK'
        BY <1>1, <1>c DEF NextCall, Call, GotoOn, TypeOK, CellsTypeOK, cells
    <2>2. pc' \in [Thread -> Label] /\ ret' \in [Thread -> {"idle", "sent"}]
        BY <1>1, <1>b DEF NextCall, Call, GotoOn, TypeOK, Label
    <2>3. /\ current' \in [Backend -> Int] /\ total' \in [Thread -> Nat]
          /\ probe' \in Backend
        BY <1>1 DEF NextCall, ResetScan, TypeOK
    <2>4. best' \in [Thread -> Backend \cup {0}] /\ bestWeight' \in [Thread -> Int]
        BY <1>1 DEF NextCall, ResetScan, TypeOK
    <2>5. QED
        BY Zenon, <1>a, <2>1, <2>2, <2>3, <2>4
<1>2. CASE EligibleHealthy(t)
    BY SMTT(30), <1>2, <1>a, <1>b DEF EligibleHealthy, Goto, GotoOn, TypeOK, CellsTypeOK,
       cells, scan, Label
<1>3. CASE TrialHealthy(t)
    <2>1. best[t] \in Backend \cup {0}
        BY DEF TypeOK
    <2>a. Goto(t, "trial_now") =>
              arg' \in [Thread -> Backend] /\ pc' \in [Thread -> Label]
        BY <1>b DEF Goto, GotoOn, TypeOK, CellsTypeOK, Label
    <2>b. Advance(t, best[t]) =>
              arg' \in [Thread -> Backend] /\ pc' \in [Thread -> Label]
        BY Zenon, <2>1, AdvanceType
    <2>2. arg' \in [Thread -> Backend] /\ pc' \in [Thread -> Label]
        BY Zenon, <1>3, <2>a, <2>b DEF TrialHealthy
    <2>3. QED
        BY SMTT(30), <1>3, <1>a, <2>2 DEF TrialHealthy, TypeOK, CellsTypeOK, cells, scan
<1>4. CASE TrialNow(t)
    BY SMTT(30), <1>4, <1>a, <1>b DEF TrialNow, Goto, GotoOn, TypeOK, CellsTypeOK, cells,
       scan, Label
<1>5. CASE TrialUntil(t)
    <2>1. best[t] \in Backend \cup {0}
        BY DEF TypeOK
    <2>a. Goto(t, "accrue") =>
              arg' \in [Thread -> Backend] /\ pc' \in [Thread -> Label]
        BY <1>b DEF Goto, GotoOn, TypeOK, CellsTypeOK, Label
    <2>b. Advance(t, best[t]) =>
              arg' \in [Thread -> Backend] /\ pc' \in [Thread -> Label]
        BY Zenon, <2>1, AdvanceType
    <2>2. arg' \in [Thread -> Backend] /\ pc' \in [Thread -> Label]
        BY Zenon, <1>5, <2>a, <2>b DEF TrialUntil
    <2>3. QED
        BY Zenon, <1>5, <1>a, <2>2 DEF TrialUntil, TypeOK, CellsTypeOK, cells, scan
<1>6. CASE Accrue(t)
    <2> DEFINE b == arg[t]
               new == current[b] + Weight[b]
               leads == best[t] = 0 \/ new > bestWeight[t]
               w == IF leads THEN b ELSE best[t]
    <2>1. b \in Backend /\ w \in Backend \cup {0} /\ new \in Int
              /\ Weight[b] \in Nat
        BY WeightAssumption DEF TypeOK, CellsTypeOK
    <2>2. Advance(t, w)
        BY Zenon, <1>6 DEF Accrue
    <2>3. arg' \in [Thread -> Backend] /\ pc' \in [Thread -> Label]
        BY <2>1, <2>2, AdvanceType
    <2>4. /\ current' = [current EXCEPT ![b] = new]
          /\ total' = [total EXCEPT ![t] = @ + Weight[b]]
          /\ best' = [best EXCEPT ![t] = w]
          /\ bestWeight' = [bestWeight EXCEPT ![t] = IF leads THEN new ELSE @]
          /\ UNCHANGED <<cells, now, loc, ret, probe>>
        BY SMTT(30), <1>6 DEF Accrue
    <2> HIDE DEF b, w, new, leads
    <2>5. CellsTypeOK' /\ ret' \in [Thread -> {"idle", "sent"}] /\ probe' \in Backend
        BY <2>3, <2>4 DEF TypeOK, CellsTypeOK, cells
    <2>6. current' \in [Backend -> Int] /\ total' \in [Thread -> Nat]
        BY <2>1, <2>4 DEF TypeOK
    <2>7. best' \in [Thread -> Backend \cup {0}] /\ bestWeight' \in [Thread -> Int]
        BY <2>1, <2>4 DEF TypeOK
    <2>8. QED
        BY Zenon, <1>a, <2>3, <2>5, <2>6, <2>7
<1>7. CASE Charge(t)
    BY SMTT(60), <1>7, <1>a, <1>b DEF Charge, ResetScan, Goto, GotoOn, TypeOK, CellsTypeOK,
       cells, Label
<1>8. CASE Route(t)
    BY SMTT(30), <1>8, <1>a, <1>b DEF Route, Goto, GotoOn, TypeOK, CellsTypeOK, cells,
       scan, Label
<1>9. CASE Respond(t)
    <2>1. arg[t] \in Backend /\ CellsTypeOK
        BY DEF TypeOK, CellsTypeOK
    <2>2. CellsTypeOK'
        BY SMTT(30), <1>9, <2>1, CallType DEF Respond, Call, GotoOn, CellsTypeOK, cells
    <2>3. QED
        BY SMTT(30), <1>9, <1>a, <1>b, <2>2 DEF Respond, RecordSuccess, RecordFailure,
           Call, GotoOn, TypeOK, scan, Label
<1>10. CASE Probe(t)
    <2>1. probe \in Backend /\ CellsTypeOK
        BY DEF TypeOK
    <2>2. CellsTypeOK'
        BY <1>10, <2>1, CallType DEF Probe, CellsTypeOK, cells, threads
    <2>3. probe' \in Backend
        BY <1>10, <2>1, PoolAssumption DEF Probe, Backend
    <2>4. QED
        BY SMTT(30), <1>10, <1>a, <1>b, <2>2, <2>3 DEF Probe, RecordSuccess, RecordFailure,
           Call, GotoOn, TypeOK, scan, threads, Label
<1>11. CASE RecordStep(t) /\ UNCHANGED <<current, scan, probe>>
    <2>1. CellsTypeOK'
        BY <1>11, <1>b, RecordStepType DEF TypeOK
    <2>2. QED
        BY SMTT(30), <1>11, <1>a, <2>1, RecordStepLabel DEF TypeOK, scan
<1>12. QED
    BY <1>1, <1>2, <1>3, <1>4, <1>5, <1>6, <1>7, <1>8, <1>9, <1>10, <1>11 DEF Step

(* The pool starts in its type and no step leaves it.                      *)
LEMMA InitType == Init => TypeOK
PROOF
    BY PoolAssumption, ThresholdAssumption DEF Init, InitUpstream, TypeOK,
       CellsTypeOK, Backend

LEMMA NextType == ASSUME TypeOK, [Next]_vars PROVE TypeOK'
PROOF
<1>1. ASSUME NEW t \in Thread, Step(t) PROVE TypeOK'
    BY <1>1, StepType
<1>2. CASE Tick /\ UNCHANGED <<current, scan, probe>>
    BY <1>2 DEF Tick, TypeOK, CellsTypeOK, cells, threads, scan
<1>3. CASE UNCHANGED vars
    BY SMTT(30), <1>3 DEF vars, upstreamVars, TypeOK, CellsTypeOK, cells, threads, scan
<1>4. QED
    BY <1>1, <1>2, <1>3 DEF Next

(* The balancer and the pool keep their types whatever the interleaving.   *)
THEOREM TypeCorrect == Spec => []TypeOK
PROOF
    BY InitType, NextType, PTL DEF Spec

-----------------------------------------------------------------------------
(* A thread outside its scan has added nothing, nor has one whose scan has *)
(* found no candidate: the two exits of next() lose no weight.             *)
Uncharged ==
    \A t \in Thread :
        /\ pc[t] \notin ScanLabel \cup {"charge"} => best[t] = 0
        /\ best[t] = 0 => total[t] = 0

ConservedInv == WeightConserved /\ Uncharged

(* Where an iteration leads, as far as the scan is concerned.              *)
LEMMA AdvanceLabel ==
    ASSUME TypeOK, NEW t \in Thread, NEW b, Advance(t, b)
    PROVE  \E l \in ScanLabel \cup {"charge", "idle"} :
              /\ pc' = [pc EXCEPT ![t] = l]
              /\ b # 0 => l # "idle"
PROOF
    BY DEF Advance, Goto, GotoOn, ScanLabel

(* The steps of a scan that add nothing.                                   *)
LEMMA LookConserved ==
    ASSUME TypeOK, ConservedInv, NEW t \in Thread,
           EligibleHealthy(t) \/ TrialHealthy(t) \/ TrialNow(t) \/ TrialUntil(t)
    PROVE  ConservedInv'
PROOF
<1>1. UNCHANGED <<current, total, best>>
    BY SMTT(30) DEF EligibleHealthy, TrialHealthy, TrialNow, TrialUntil, scan
<1>2. PICK l \in ScanLabel \cup {"charge", "idle"} :
            pc' = [pc EXCEPT ![t] = l] /\ (best[t] # 0 => l # "idle")
    BY SMTT(30), AdvanceLabel DEF EligibleHealthy, TrialHealthy, TrialNow, TrialUntil,
       Goto, GotoOn, ScanLabel
<1>3. Uncharged'
    BY <1>1, <1>2 DEF ConservedInv, Uncharged, TypeOK, ScanLabel
<1>4. QED
    BY <1>1, <1>3 DEF ConservedInv, WeightConserved

(* What a step adds to a running weight it adds to the thread's total.     *)
LEMMA AccrueConserved ==
    ASSUME TypeOK, ConservedInv, NEW t \in Thread, Accrue(t)
    PROVE  ConservedInv'
PROOF
<1> DEFINE b == arg[t]
           w == IF best[t] = 0 \/ current[b] + Weight[b] > bestWeight[t]
                  THEN b ELSE best[t]
<1>1. b \in 1..NumBackends /\ Weight[b] \in Int /\ w # 0 /\ NumBackends \in Nat
          /\ NumThreads \in Nat /\ t \in 1..NumThreads
    <2>1. b \in Backend
        BY DEF TypeOK, CellsTypeOK
    <2>2. Weight[b] \in Int
        BY <2>1, WeightAssumption
    <2>3. QED
        BY <2>1, <2>2, PoolAssumption DEF Backend, Thread
<1>2. /\ current' = [current EXCEPT ![b] = current[b] + Weight[b]]
      /\ total' = [total EXCEPT ![t] = @ + Weight[b]]
      /\ best' = [best EXCEPT ![t] = w]
      /\ Advance(t, w)
    BY Zenon DEF Accrue
<1>3. SumTo(current', NumBackends) = SumTo(current, NumBackends) + Weight[b]
    <2>1. /\ \A i \in 1..NumBackends : current[i] \in Int
          /\ current'[b] = current[b] + Weight[b]
          /\ \A i \in 1..NumBackends : i # b => current'[i] = current[i]
        BY SMTT(30), <1>1, <1>2 DEF TypeOK, Backend
    <2>2. QED
        BY SMTT(30), <1>1, <2>1, SumToUpdate
<1>4. SumTo(total', NumThreads) = SumTo(total, NumThreads) + Weight[b]
    <2>1. /\ \A i \in 1..NumThreads : total[i] \in Int
          /\ total'[t] = total[t] + Weight[b]
          /\ \A i \in 1..NumThreads : i # t => total'[i] = total[i]
        BY SMTT(30), <1>1, <1>2 DEF TypeOK, Thread
    <2>2. QED
        BY <1>1, <2>1, SumToUpdate
<1>5. WeightConserved'
    BY <1>3, <1>4 DEF ConservedInv, WeightConserved
<1>6. Uncharged'
    <2>1. PICK l \in ScanLabel \cup {"charge", "idle"} :
              pc' = [pc EXCEPT ![t] = l] /\ l # "idle"
        BY SMTT(30), <1>1, <1>2, AdvanceLabel
    <2> HIDE DEF w
    <2>2. QED
        BY <1>1, <1>2, <2>1 DEF ConservedInv, Uncharged, TypeOK
<1>7. QED
    BY <1>5, <1>6 DEF ConservedInv

(* The winner is charged exactly the thread's total.                       *)
LEMMA ChargeConserved ==
    ASSUME TypeOK, ConservedInv, NEW t \in Thread, Charge(t)
    PROVE  ConservedInv'
PROOF
<1> DEFINE b == arg[t]
<1>1. b \in 1..NumBackends /\ -total[t] \in Int /\ NumBackends \in Nat
          /\ NumThreads \in Nat /\ t \in 1..NumThreads
    <2>1. b \in Backend /\ total[t] \in Nat
        BY DEF TypeOK, CellsTypeOK
    <2>2. QED
        BY <2>1, PoolAssumption DEF Backend, Thread
<1>2. /\ current' = [current EXCEPT ![b] = current[b] - total[t]]
      /\ total' = [total EXCEPT ![t] = 0]
      /\ best' = [best EXCEPT ![t] = 0]
      /\ pc' = [pc EXCEPT ![t] = "route"]
    BY DEF Charge, ResetScan, Goto, GotoOn
<1>3. SumTo(current', NumBackends) = SumTo(current, NumBackends) + (-total[t])
    <2>1. /\ \A i \in 1..NumBackends : current[i] \in Int
          /\ current'[b] = current[b] + (-total[t])
          /\ \A i \in 1..NumBackends : i # b => current'[i] = current[i]
        BY Zenon, <1>1, <1>2 DEF TypeOK, Backend, Thread
    <2>2. QED
        BY <1>1, <2>1, SumToUpdate
<1>4. SumTo(total', NumThreads) = SumTo(total, NumThreads) + (-total[t])
    <2>1. /\ \A i \in 1..NumThreads : total[i] \in Int
          /\ total'[t] = total[t] + (-total[t])
          /\ \A i \in 1..NumThreads : i # t => total'[i] = total[i]
        BY SMTT(30), <1>1, <1>2 DEF TypeOK, Thread
    <2>2. QED
        BY SMTT(30), <1>1, <2>1, SumToUpdate
<1>5. WeightConserved'
    BY <1>3, <1>4 DEF ConservedInv, WeightConserved
<1>6. Uncharged'
    BY <1>2 DEF ConservedInv, Uncharged, TypeOK
<1>7. QED
    BY <1>5, <1>6 DEF ConservedInv

(* Every step of a thread keeps the weight.                                *)
LEMMA StepConserved ==
    ASSUME TypeOK, ConservedInv, NEW t \in Thread, Step(t)
    PROVE  ConservedInv'
PROOF
<1>1. CASE NextCall(t)
    <2>1. best[t] = 0 /\ total[t] = 0
        BY Zenon, <1>1 DEF NextCall, ConservedInv, Uncharged, ScanLabel
    <2>2. UNCHANGED <<current, total, best>> /\ pc' = [pc EXCEPT ![t] = "eligible"]
        BY <1>1, <2>1 DEF NextCall, Call, GotoOn, ResetScan, TypeOK
    <2>3. QED
        BY <2>1, <2>2 DEF ConservedInv, WeightConserved, Uncharged, TypeOK
<1>2. CASE EligibleHealthy(t) \/ TrialHealthy(t) \/ TrialNow(t) \/ TrialUntil(t)
    BY <1>2, LookConserved
<1>3. CASE Accrue(t)
    BY <1>3, AccrueConserved
<1>4. CASE Charge(t)
    BY <1>4, ChargeConserved
<1>5. CASE \/ Route(t) \/ Respond(t) \/ Probe(t)
           \/ RecordStep(t) /\ UNCHANGED <<current, scan, probe>>
    <2>1. UNCHANGED <<current, total, best>>
        BY Zenon, <1>5 DEF Route, Respond, Probe, scan
    <2>2. pc[t] \notin ScanLabel \cup {"charge"}
        BY Zenon, <1>5 DEF Route, Respond, Probe, RecordStep, SuccessCheck, SuccessClear,
           SuccessAdd, Promote, FailureAdd, FailureSwap, ArmNow, ArmStore,
           ScanLabel
    <2>3. \E l : pc' = [pc EXCEPT ![t] = l]
        BY Zenon, <1>5 DEF TypeOK, threads, Route, Respond, Probe, RecordSuccess,
           RecordFailure, Call, RecordStep, SuccessCheck, SuccessClear, SuccessAdd, Promote,
           FailureAdd, FailureSwap, ArmNow, ArmStore, Goto, GotoOn, Return
    <2>4. QED
        BY <2>1, <2>2, <2>3 DEF ConservedInv, WeightConserved, Uncharged, TypeOK
<1>6. QED
    BY <1>1, <1>2, <1>3, <1>4, <1>5 DEF Step

LEMMA ConservedAlways == Spec => []ConservedInv
PROOF
<1>1. Init => ConservedInv
    <2> SUFFICES ASSUME Init PROVE ConservedInv
        OBVIOUS
    <2>1. NumBackends \in Nat /\ NumThreads \in Nat
        BY PoolAssumption
    <2>2. SumTo(current, NumBackends) = 0
        BY <2>1, SumToZero DEF Init, Backend
    <2>3. SumTo(total, NumThreads) = 0
        BY <2>1, SumToZero DEF Init, Thread
    <2>4. QED
        BY <2>2, <2>3 DEF Init, ConservedInv, WeightConserved, Uncharged
<1>2. TypeOK /\ ConservedInv /\ [Next]_vars => ConservedInv'
    <2> SUFFICES ASSUME TypeOK, ConservedInv, [Next]_vars PROVE ConservedInv'
        OBVIOUS
    <2>1. ASSUME NEW t \in Thread, Step(t) PROVE ConservedInv'
        BY <2>1, StepConserved
    <2>2. CASE Tick /\ UNCHANGED <<current, scan, probe>>
        BY <2>2 DEF Tick, threads, scan, ConservedInv, WeightConserved, Uncharged
    <2>3. CASE UNCHANGED vars
        BY <2>3 DEF vars, upstreamVars, threads, scan, ConservedInv,
           WeightConserved, Uncharged
    <2>4. QED
        BY <2>1, <2>2, <2>3 DEF Next
<1>3. QED
    BY <1>1, <1>2, TypeCorrect, PTL DEF Spec

(* No interleaving of selections creates or loses weight.                  *)
THEOREM Conserved == Spec => []WeightConserved
PROOF
    BY ConservedAlways, PTL DEF ConservedInv

-----------------------------------------------------------------------------
(* Every step of a handler or of the checker keeps ArmInv.                 *)
LEMMA StepArm ==
    ASSUME TypeOK, ArmInv, NEW t \in Thread, Step(t)
    PROVE  ArmInv'
PROOF
<1> DEFINE L == RecordLabel \cup SelectLabel \cup {"idle"}
<1>1. /\ CellsTypeOK /\ pc \in [Thread -> L] /\ probe \in Backend
      /\ arg \in [Thread -> Backend] /\ loc \in [Thread -> Nat]
      /\ ret[t] \in {"idle", "sent"}
    BY DEF TypeOK, CellsTypeOK
<1> HIDE DEF L
<1>2. CASE RecordStep(t)
    BY <1>1, <1>2, RecordStepArm
<1>3. CASE Probe(t)
    <2>1. CASE RecordSuccess(t, probe) \/ RecordFailure(t, probe)
        BY <1>1, <1>3, <2>1, CallArm DEF Probe
    <2>2. CASE UNCHANGED <<cells, now, threads>>
        BY <2>2 DEF cells, threads, ArmInv, HoldOutBounded, LoadedDeadlines,
           EjectedIsArmed, Arming, Promoting
    <2>3. QED
        BY <1>3, <2>1, <2>2 DEF Probe
<1>4. CASE pc[t] = "sent" /\ (RecordSuccess(t, arg[t]) \/ RecordFailure(t, arg[t]))
    BY <1>1, <1>4, CallArm
<1>5. ASSUME NEW l, NEW b, NEW v,
             pc[t] \notin {"arm_now", "arm_store", "promote_healthy"},
             l # "arm_store",
             pc' = [pc EXCEPT ![t] = l], arg' = [arg EXCEPT ![t] = b],
             loc' = [loc EXCEPT ![t] = v], UNCHANGED <<healthy, until, now>>
      PROVE  ArmInv'
    BY Zenon, <1>1, <1>5, OtherStepArm
<1>6. \A v : (loc' = loc /\ v = loc[t]) => loc' = [loc EXCEPT ![t] = v]
    BY <1>1
<1>7. CASE NextCall(t)
    BY Zenon, <1>5, <1>6, <1>7 DEF NextCall, Call, GotoOn, cells
<1>8. CASE EligibleHealthy(t) \/ Route(t) \/ Charge(t)
    BY SMTT(30), <1>5, <1>6, <1>8 DEF EligibleHealthy, Route, Charge, Goto, GotoOn, cells
<1>9. CASE TrialHealthy(t)
    BY <1>5, <1>6, <1>9 DEF TrialHealthy, Advance, Goto, GotoOn, cells
<1>10. CASE TrialNow(t)
    BY Zenon, <1>5, <1>10 DEF TrialNow, Goto, GotoOn, cells
<1>11. CASE TrialUntil(t)
    BY Zenon, <1>5, <1>11 DEF TrialUntil, Advance, Goto, GotoOn, cells
<1>12. CASE Accrue(t)
    BY <1>5, <1>6, <1>12 DEF Accrue, Advance, Goto, GotoOn, cells
<1>13. CASE pc[t] = "sent" /\ Call(t, arg[t], "idle", "idle") /\ UNCHANGED <<cells, now>>
    BY Zenon, <1>5, <1>6, <1>13 DEF Call, GotoOn, cells
<1>14. QED
    BY Zenon, <1>2, <1>3, <1>4, <1>7, <1>8, <1>9, <1>10, <1>11, <1>12, <1>13
    DEF Step, Respond

(* With selections that re-arm the deadline and a checker that clears it   *)
(* running against each other, an ejection's cooldown is still neither     *)
(* lost nor longer than one window.                                        *)
THEOREM Armed == Spec => [](HoldOutBounded /\ EjectedIsArmed)
PROOF
<1>1. Init => ArmInv
    BY TimeAssumption
    DEF Init, InitUpstream, ArmInv, HoldOutBounded, LoadedDeadlines, EjectedIsArmed
<1>2. TypeOK /\ ArmInv /\ [Next]_vars => ArmInv'
    <2> SUFFICES ASSUME TypeOK, ArmInv, [Next]_vars PROVE ArmInv'
        OBVIOUS
    <2>1. ASSUME NEW t \in Thread, Step(t) PROVE ArmInv'
        BY <2>1, StepArm
    <2>2. CASE Tick
        BY <2>2, TickArm DEF TypeOK
    <2>3. CASE UNCHANGED vars
        BY SMTT(30), <2>3 DEF vars, upstreamVars, cells, threads, ArmInv, HoldOutBounded,
           LoadedDeadlines, EjectedIsArmed, Arming, Promoting
    <2>4. QED
        BY <2>1, <2>2, <2>3 DEF Next
<1>3. ArmInv => HoldOutBounded /\ EjectedIsArmed
    BY DEF ArmInv
<1>4. QED
    BY <1>1, <1>2, <1>3, TypeCorrect, PTL DEF Spec

-----------------------------------------------------------------------------
(* What next() selects was eligible during the call.                       *)

(* What a thread in its scan knows: everything eligible now has been seen, *)
(* the time it read has passed, and its candidates have been seen.         *)
KnownBy(t) ==
    /\ pc[t] \in Selecting => EligibleNow \subseteq seen[t]
    /\ pc[t] = "trial_until" => loc[t] <= now
    /\ pc[t] \in {"accrue", "charge"} => arg[t] \in seen[t]
    /\ best[t] # 0 => pc[t] \in Selecting /\ best[t] \in seen[t]

SelectionInv == \A t \in Thread : KnownBy(t)

(* What is eligible at the end of a step, and what was seen before it, has *)
(* been seen by a thread that is still in its scan.                        *)
LEMMA ObserveSeen ==
    ASSUME Observe, NEW t \in Thread, pc'[t] \in Selecting
    PROVE  seen'[t] = seen[t] \cup EligibleNow'
PROOF
    BY DEF Observe

(* A thread that does not move keeps what it knows.                        *)
LEMMA OtherKnown ==
    ASSUME Observe, NEW t \in Thread, KnownBy(t),
           pc'[t] = pc[t], arg'[t] = arg[t], loc'[t] = loc[t], best'[t] = best[t],
           now \in Nat, now' \in Nat, now <= now', loc[t] \in Nat
    PROVE  KnownBy(t)'
PROOF
<1>1. CASE pc[t] \in Selecting
    <2>1. seen'[t] = seen[t] \cup EligibleNow'
        BY <1>1, ObserveSeen
    <2>2. EligibleNow' \subseteq seen'[t] /\ seen[t] \subseteq seen'[t]
        BY <2>1
    <2>3. pc'[t] = "trial_until" => loc'[t] <= now'
        <3>1. pc[t] = "trial_until" => loc[t] <= now
            BY Zenon DEF KnownBy
        <3>2. \A x, y, z \in Nat : x <= y /\ y <= z => x <= z
            OBVIOUS
        <3>3. QED
            BY Zenon, <3>1, <3>2
    <2>4. QED
        BY Zenon, <1>1, <2>2, <2>3 DEF KnownBy
<1>2. CASE pc[t] \notin Selecting
    BY SMTT(30), <1>2 DEF KnownBy, Selecting, ScanLabel
<1>3. QED
    BY <1>1, <1>2

(* A step of a thread leaves the clock and the other threads alone.        *)
LEMMA StepLocal ==
    ASSUME TypeOK, NEW t \in Thread, Step(t), NEW u \in Thread, u # t
    PROVE  /\ now' = now
           /\ pc'[u] = pc[u] /\ arg'[u] = arg[u]
           /\ loc'[u] = loc[u] /\ best'[u] = best[u]
PROOF
<1> USE DEF TypeOK, CellsTypeOK, Goto, GotoOn, Return, Call, cells, scan
<1>1. CASE NextCall(t)
    BY <1>1 DEF NextCall, ResetScan
<1>2. ASSUME NEW w, Advance(t, w)
      PROVE  pc'[u] = pc[u] /\ arg'[u] = arg[u]
    BY <1>2 DEF Advance
<1>a. CASE EligibleHealthy(t)
    BY <1>a DEF EligibleHealthy
<1>b. CASE TrialHealthy(t)
    <2>1. pc'[u] = pc[u] /\ arg'[u] = arg[u]
        BY <1>b, <1>2 DEF TrialHealthy
    <2>2. QED
        BY <1>b, <2>1 DEF TrialHealthy
<1>c. CASE TrialNow(t)
    BY <1>c DEF TrialNow
<1>d. CASE TrialUntil(t)
    <2>1. pc'[u] = pc[u] /\ arg'[u] = arg[u]
        BY <1>d, <1>2 DEF TrialUntil
    <2>2. QED
        BY <1>d, <2>1 DEF TrialUntil
<1>e. CASE Accrue(t)
    <2>1. pc'[u] = pc[u] /\ arg'[u] = arg[u]
        BY Zenon, <1>e, <1>2 DEF Accrue
    <2>2. QED
        BY Zenon, <1>e, <2>1 DEF Accrue
<1>3. CASE Charge(t)
    BY <1>3 DEF Charge, ResetScan
<1>4. CASE Route(t)
    BY <1>4 DEF Route
<1>5. CASE Respond(t) \/ Probe(t)
    BY Zenon, <1>5 DEF Respond, Probe, RecordSuccess, RecordFailure, threads
<1>6. CASE RecordStep(t) /\ UNCHANGED <<current, scan, probe>>
    BY SMTT(30), <1>6, RecordStepMoves
<1>7. QED
    BY Zenon, <1>1, <1>a, <1>b, <1>c, <1>d, <1>e, <1>3, <1>4, <1>5, <1>6 DEF Step

(* At the end of an iteration the thread goes on, gives up or charges a    *)
(* winner it has seen.                                                     *)
LEMMA AdvanceKnown ==
    ASSUME TypeOK, Observe, NEW t \in Thread, NEW w, Advance(t, w),
           best' = [best EXCEPT ![t] = w], w # 0 => w \in seen[t]
    PROVE  KnownBy(t)'
PROOF
<1>1. pc'[t] \in {"eligible", "charge", "idle"} /\ (w # 0 => pc'[t] # "idle")
    BY DEF Advance, Goto, GotoOn, TypeOK
<1>2. pc'[t] = "charge" => arg'[t] = w /\ w # 0
    BY SMTT(30) DEF Advance, Goto, GotoOn, TypeOK, CellsTypeOK
<1>3. best'[t] = w
    BY DEF TypeOK
<1>4. CASE pc'[t] = "idle"
    BY SMTT(30), <1>1, <1>3, <1>4 DEF KnownBy, Selecting, ScanLabel
<1>5. CASE pc'[t] \in Selecting
    <2>1. seen'[t] = seen[t] \cup EligibleNow'
        BY <1>5, ObserveSeen
    <2>2. QED
        BY <1>1, <1>2, <1>3, <1>5, <2>1 DEF KnownBy
<1>6. QED
    BY <1>1, <1>4, <1>5 DEF Selecting, ScanLabel

(* What the thread that moves knows afterwards.                            *)
LEMMA MoverKnown ==
    ASSUME TypeOK, Observe, NEW t \in Thread, KnownBy(t), Step(t)
    PROVE  KnownBy(t)'
PROOF
<1>1. CASE NextCall(t)
    <2>1. pc'[t] = "eligible" /\ best'[t] = 0
        BY <1>1 DEF NextCall, Call, GotoOn, ResetScan, TypeOK
    <2>2. seen'[t] = seen[t] \cup EligibleNow'
        BY <2>1, ObserveSeen DEF Selecting, ScanLabel
    <2>3. QED
        BY <2>1, <2>2 DEF KnownBy
<1>2. CASE EligibleHealthy(t)
    <2>1. /\ pc'[t] \in {"accrue", "trial_healthy"} /\ best'[t] = best[t]
          /\ arg'[t] = arg[t] /\ arg[t] \in Backend
          /\ pc'[t] = "accrue" => healthy[arg[t]]
        BY SMTT(30), <1>2 DEF EligibleHealthy, Goto, GotoOn, scan, TypeOK, CellsTypeOK
    <2>2. seen'[t] = seen[t] \cup EligibleNow' /\ EligibleNow \subseteq seen[t]
        BY Zenon, <1>2, <2>1, ObserveSeen
        DEF EligibleHealthy, KnownBy, Selecting, ScanLabel
    <2>3. pc'[t] = "accrue" => arg[t] \in seen[t]
        BY <2>1, <2>2 DEF EligibleNow, Eligible
    <2>4. QED
        BY SMTT(30), <2>1, <2>2, <2>3 DEF KnownBy, Selecting, ScanLabel
<1>3. CASE TrialHealthy(t)
    <2>1. best' = [best EXCEPT ![t] = best[t]]
        BY Zenon, <1>3 DEF TrialHealthy, scan, TypeOK
    <2>2. CASE Advance(t, best[t])
        BY Zenon, <2>1, <2>2, AdvanceKnown DEF KnownBy
    <2>3. CASE Goto(t, "trial_now")
        <3>1. pc'[t] = "trial_now" /\ best'[t] = best[t]
            BY <2>1, <2>3 DEF Goto, GotoOn, TypeOK
        <3>2. seen'[t] = seen[t] \cup EligibleNow'
            BY <3>1, ObserveSeen DEF Selecting, ScanLabel
        <3>3. QED
            BY Zenon, <3>1, <3>2 DEF KnownBy, Selecting, ScanLabel
    <2>4. QED
        BY <1>3, <2>2, <2>3 DEF TrialHealthy
<1>4. CASE TrialNow(t)
    <2>1. /\ pc'[t] = "trial_until" /\ best'[t] = best[t]
          /\ loc'[t] = now /\ now' = now /\ now \in Nat
        BY <1>4 DEF TrialNow, Goto, GotoOn, scan, TypeOK, CellsTypeOK
    <2>2. seen'[t] = seen[t] \cup EligibleNow'
        BY <2>1, ObserveSeen DEF Selecting, ScanLabel
    <2>3. QED
        BY SMTT(30), <2>1, <2>2 DEF KnownBy, Selecting, ScanLabel
<1>5. CASE TrialUntil(t)
    <2>1. best' = [best EXCEPT ![t] = best[t]]
        BY SMTT(30), <1>5 DEF TrialUntil, scan, TypeOK
    <2>2. CASE Advance(t, best[t])
        BY Zenon, <2>1, <2>2, AdvanceKnown DEF KnownBy
    <2>3. CASE loc[t] >= until[arg[t]] /\ Goto(t, "accrue")
        <3>1. /\ pc'[t] = "accrue" /\ arg'[t] = arg[t] /\ best'[t] = best[t]
              /\ arg[t] \in Backend /\ loc[t] \in Nat /\ now \in Nat
              /\ until[arg[t]] \in Nat
            BY <2>1, <2>3 DEF Goto, GotoOn, TypeOK, CellsTypeOK
        <3>2. arg[t] \in seen[t]
            <4>1. EligibleNow \subseteq seen[t] /\ loc[t] <= now
                BY Zenon, <1>5 DEF TrialUntil, KnownBy, Selecting, ScanLabel
            <4>2. \A x, y, z \in Nat : x >= y /\ x <= z => z >= y
                OBVIOUS
            <4>3. now >= until[arg[t]]
                BY Zenon, <2>3, <3>1, <4>1, <4>2
            <4>4. arg[t] \in EligibleNow
                BY Zenon, <3>1, <4>3 DEF EligibleNow, Eligible
            <4>5. QED
                BY Zenon, <4>1, <4>4
        <3>3. seen'[t] = seen[t] \cup EligibleNow'
            BY <3>1, ObserveSeen DEF Selecting, ScanLabel
        <3>4. QED
            BY Zenon, <3>1, <3>2, <3>3 DEF KnownBy, Selecting, ScanLabel
    <2>4. QED
        BY Zenon, <1>5, <2>2, <2>3 DEF TrialUntil
<1>6. CASE Accrue(t)
    <2> DEFINE w == IF best[t] = 0 \/ current[arg[t]] + Weight[arg[t]] > bestWeight[t]
                      THEN arg[t] ELSE best[t]
    <2>1. best' = [best EXCEPT ![t] = w] /\ Advance(t, w)
        BY Zenon, <1>6 DEF Accrue
    <2>2. w \in seen[t]
        BY Zenon, <1>6 DEF Accrue, KnownBy
    <2> HIDE DEF w
    <2>3. QED
        BY Zenon, <2>1, <2>2, AdvanceKnown
<1>7. CASE Charge(t)
    BY SMTT(30), <1>7 DEF Charge, ResetScan, Goto, GotoOn, TypeOK, KnownBy, Selecting,
       ScanLabel
<1>8. CASE \/ Route(t) \/ Respond(t) \/ Probe(t)
           \/ RecordStep(t) /\ UNCHANGED <<current, scan, probe>>
    <2>1. pc[t] \notin Selecting
        BY Zenon, <1>8, RecordStepMoves
        DEF Route, Respond, Probe, RecordLabel, Selecting, ScanLabel
    <2>2. best'[t] = best[t]
        BY Zenon, <1>8 DEF Route, Respond, Probe, scan
    <2>3. pc'[t] \notin Selecting
        <3> USE DEF Call, Goto, GotoOn, Selecting, ScanLabel, TypeOK
        <3>1. CASE Route(t)
            BY <3>1 DEF Route
        <3>2. CASE Respond(t) \/ Probe(t)
            BY SMTT(30), <3>2 DEF Respond, Probe, RecordSuccess, RecordFailure, threads
        <3>3. CASE RecordStep(t)
            BY <3>3, RecordStepMoves DEF RecordLabel
        <3>4. QED
            BY <1>8, <3>1, <3>2, <3>3
    <2>4. QED
        BY Zenon, <2>1, <2>2, <2>3 DEF KnownBy, Selecting, ScanLabel
<1>9. QED
    BY <1>1, <1>2, <1>3, <1>4, <1>5, <1>6, <1>7, <1>8 DEF Step

-----------------------------------------------------------------------------
(* Every backend next() selects was eligible at some instant of the call,  *)
(* however the ejections, cooldowns and promotions fall under its scan.    *)
THEOREM SelectionSound == SelectionSpec => []SelectedWasEligible
PROOF
<1>1. SelectionInit => SelectionInv
    BY DEF SelectionInit, Init, InitUpstream, SelectionInv, KnownBy, Selecting,
       ScanLabel
<1>2. TypeOK /\ SelectionInv /\ [SelectionNext]_selectionVars
         => SelectionInv'
    <2> SUFFICES ASSUME TypeOK, SelectionInv, [SelectionNext]_selectionVars,
                        NEW u \in Thread
                 PROVE  KnownBy(u)'
        BY DEF SelectionInv
    <2>1. KnownBy(u) /\ now \in Nat /\ loc[u] \in Nat
        BY DEF SelectionInv, TypeOK, CellsTypeOK
    <2>2. ASSUME NEW t \in Thread, Step(t), Observe PROVE KnownBy(u)'
        <3>1. CASE u = t
            BY <2>1, <2>2, <3>1, MoverKnown
        <3>2. CASE u # t
            BY SMTT(60), <2>1, <2>2, <3>2, StepLocal, OtherKnown
        <3>3. QED
            BY <3>1, <3>2
    <2>3. CASE Tick /\ UNCHANGED <<current, scan, probe>> /\ Observe
        BY <2>1, <2>3, OtherKnown DEF Tick, threads, scan
    <2>4. CASE UNCHANGED selectionVars
        BY Zenon, <2>1, <2>4 DEF selectionVars, vars, upstreamVars, cells, threads, scan,
           KnownBy, EligibleNow, Eligible
    <2>5. QED
        BY <2>2, <2>3, <2>4 DEF SelectionNext, Next
<1>3. SelectionInv => SelectedWasEligible
    BY DEF SelectionInv, KnownBy, SelectedWasEligible
<1>4. SelectionSpec => Spec
    <2>1. SelectionInit => Init
        BY DEF SelectionInit
    <2>2. [SelectionNext]_selectionVars => [Next]_vars
        BY DEF SelectionNext, selectionVars
    <2>3. QED
        BY <2>1, <2>2, PTL DEF SelectionSpec, Spec
<1>5. QED
    BY <1>1, <1>2, <1>3, <1>4, TypeCorrect, PTL DEF SelectionSpec

=============================================================================
