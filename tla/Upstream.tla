------------------------------ MODULE Upstream ------------------------------
(***************************************************************************)
(* The health state of the upstream backends (src/src/upstream.rs).        *)
(*                                                                         *)
(* Every field of InnerState that changes is an atomic cell, and the       *)
(* methods that change them take no lock, so the unit of interleaving is   *)
(* the single atomic operation: each action below is one load, store, swap *)
(* or fetch_add made by one thread.  Memory is sequentially consistent.    *)
(*                                                                         *)
(* A thread is "idle" or inside one method call.  Its locals are pc (the   *)
(* next atomic operation), arg (the backend), loc (a time it has read or   *)
(* computed) and ret (where it continues when the call returns).           *)
(***************************************************************************)
EXTENDS Integers

CONSTANTS
    NumBackends,        \* length of the pool
    NumThreads,         \* tasks that may be inside a method at once
    FailureThreshold,   \* failures in a row that eject a backend
    HealthyThreshold,   \* successes in a row that promote it
    Cooldown,           \* half-open window, in ticks of the clock
    U32Max,             \* largest value of the AtomicU32 counters
    MaxTime             \* bound on the clock

ASSUME PoolAssumption == NumBackends \in Nat \ {0} /\ NumThreads \in Nat \ {0}

(* Config::into_runtime rejects a zero threshold, and both are u32.        *)
ASSUME ThresholdAssumption ==
    /\ U32Max \in Nat
    /\ FailureThreshold \in 1..U32Max
    /\ HealthyThreshold \in 1..U32Max

ASSUME TimeAssumption == Cooldown \in Nat /\ MaxTime \in Nat

Backend == 1..NumBackends
Thread == 1..NumThreads

VARIABLES
    failures,       \* consecutive_failures
    successes,      \* consecutive_successes
    healthy,
    until,          \* cooldown_until_ms
    now,            \* created.elapsed(), the monotonic clock
    pc, arg, loc, ret

cells == <<failures, successes, healthy, until>>
threads == <<pc, arg, loc, ret>>
upstreamVars == <<cells, now, threads>>

-----------------------------------------------------------------------------
(* fetch_add wraps at the width of the cell; saturating_add does not.      *)
WrapUnbounded(n) == n + 1
Wrap(n) == (n + 1) % (U32Max + 1)
SaturatingInc(n) == IF n < U32Max THEN n + 1 ELSE n

GotoOn(t, label, b) ==
    /\ pc' = [pc EXCEPT ![t] = label]
    /\ arg' = [arg EXCEPT ![t] = b]

Goto(t, label) == GotoOn(t, label, arg[t])
Return(t) == Goto(t, ret[t])

(* Entering a method on backend b that will return to the caller at back.  *)
Call(t, b, label, back) ==
    /\ GotoOn(t, label, b)
    /\ ret' = [ret EXCEPT ![t] = back]
    /\ UNCHANGED loc

InitUpstream ==
    /\ failures = [b \in Backend |-> 0]
    /\ successes = [b \in Backend |-> 0]
    /\ healthy = [b \in Backend |-> TRUE]
    /\ until = [b \in Backend |-> 0]
    /\ now = 0
    /\ pc = [t \in Thread |-> "idle"]
    /\ arg = [t \in Thread |-> 1]
    /\ loc = [t \in Thread |-> 0]
    /\ ret = [t \in Thread |-> "idle"]

(* now_ms reads a monotonic clock that runs whatever the threads do.       *)
Tick ==
    /\ now < MaxTime
    /\ now' = now + 1
    /\ UNCHANGED <<cells, threads>>

-----------------------------------------------------------------------------
(* arm_cooldown: the clock is read first, the deadline stored afterwards.  *)
ArmNow(t) ==
    /\ pc[t] = "arm_now"
    /\ loc' = [loc EXCEPT ![t] = now + Cooldown]
    /\ Goto(t, "arm_store")
    /\ UNCHANGED <<cells, now, ret>>

ArmStoreExtends(t) ==
    /\ pc[t] = "arm_store"
    /\ until' = [until EXCEPT ![arg[t]] = @ + Cooldown]
    /\ loc' = [loc EXCEPT ![t] = 0]
    /\ Return(t)
    /\ UNCHANGED <<failures, successes, healthy, now, ret>>

ArmStore(t) ==
    /\ pc[t] = "arm_store"
    /\ until' = [until EXCEPT ![arg[t]] = loc[t]]
    /\ loc' = [loc EXCEPT ![t] = 0]
    /\ Return(t)
    /\ UNCHANGED <<failures, successes, healthy, now, ret>>

(* record_success: the first store, then the load that decides the path.   *)
RecordSuccess(t, b) ==
    /\ failures' = [failures EXCEPT ![b] = 0]
    /\ Call(t, b, "success_check", "idle")
    /\ UNCHANGED <<successes, healthy, until, now>>

SuccessCheck(t) ==
    /\ pc[t] = "success_check"
    /\ Goto(t, IF healthy[arg[t]] THEN "success_clear" ELSE "success_add")
    /\ UNCHANGED <<cells, now, loc, ret>>

SuccessClear(t) ==
    /\ pc[t] = "success_clear"
    /\ successes' = [successes EXCEPT ![arg[t]] = 0]
    /\ Return(t)
    /\ UNCHANGED <<failures, healthy, until, now, loc, ret>>

SuccessAdd(t) ==
    /\ pc[t] = "success_add"
    /\ successes' = [successes EXCEPT ![arg[t]] = Wrap(@)]
    /\ IF SaturatingInc(successes[arg[t]]) >= HealthyThreshold
         THEN Goto(t, "promote_successes")
         ELSE Return(t)
    /\ UNCHANGED <<failures, healthy, until, now, loc, ret>>

(* The three stores of a promotion, in the order of the source; they also  *)
(* end mark_healthy.                                                       *)
PromoteFlagFirst(t) ==
    /\ \/ /\ pc[t] = "promote_successes"
          /\ successes' = [successes EXCEPT ![arg[t]] = 0]
          /\ Goto(t, "promote_healthy")
          /\ UNCHANGED <<healthy, until>>
       \/ /\ pc[t] = "promote_healthy"
          /\ healthy' = [healthy EXCEPT ![arg[t]] = TRUE]
          /\ Goto(t, "promote_until")
          /\ UNCHANGED <<successes, until>>
       \/ /\ pc[t] = "promote_until"
          /\ until' = [until EXCEPT ![arg[t]] = 0]
          /\ Return(t)
          /\ UNCHANGED <<successes, healthy>>
    /\ UNCHANGED <<failures, now, loc, ret>>

Promote(t) ==
    /\ \/ /\ pc[t] = "promote_successes"
          /\ successes' = [successes EXCEPT ![arg[t]] = 0]
          /\ Goto(t, "promote_until")
          /\ UNCHANGED <<healthy, until>>
       \/ /\ pc[t] = "promote_until"
          /\ until' = [until EXCEPT ![arg[t]] = 0]
          /\ Goto(t, "promote_healthy")
          /\ UNCHANGED <<successes, healthy>>
       \/ /\ pc[t] = "promote_healthy"
          /\ healthy' = [healthy EXCEPT ![arg[t]] = TRUE]
          /\ Return(t)
          /\ UNCHANGED <<successes, until>>
    /\ UNCHANGED <<failures, now, loc, ret>>

(* record_failure: only the thread whose swap read TRUE ejected the        *)
(* backend, and it goes on to arm the cooldown.                            *)
RecordFailure(t, b) ==
    /\ successes' = [successes EXCEPT ![b] = 0]
    /\ Call(t, b, "failure_add", "idle")
    /\ UNCHANGED <<failures, healthy, until, now>>

FailureAdd(t) ==
    /\ pc[t] = "failure_add"
    /\ failures' = [failures EXCEPT ![arg[t]] = Wrap(@)]
    /\ IF SaturatingInc(failures[arg[t]]) >= FailureThreshold
         THEN Goto(t, "failure_swap")
         ELSE Return(t)
    /\ UNCHANGED <<successes, healthy, until, now, loc, ret>>

FailureSwap(t) ==
    /\ pc[t] = "failure_swap"
    /\ healthy' = [healthy EXCEPT ![arg[t]] = FALSE]
    /\ IF healthy[arg[t]] THEN Goto(t, "arm_now") ELSE Return(t)
    /\ UNCHANGED <<failures, successes, until, now, loc, ret>>

(* mark_healthy clears the failures and then makes the promotion's stores. *)
MarkHealthy(t, b) ==
    /\ failures' = [failures EXCEPT ![b] = 0]
    /\ Call(t, b, "promote_successes", "idle")
    /\ UNCHANGED <<successes, healthy, until, now>>

(* mark_unhealthy stores the flag without looking at it, then arms.        *)
MarkUnhealthy(t, b) ==
    /\ successes' = [successes EXCEPT ![b] = 0]
    /\ Call(t, b, "mark_store", "idle")
    /\ UNCHANGED <<failures, healthy, until, now>>

MarkStore(t) ==
    /\ pc[t] = "mark_store"
    /\ healthy' = [healthy EXCEPT ![arg[t]] = FALSE]
    /\ Goto(t, "arm_now")
    /\ UNCHANGED <<failures, successes, until, now, loc, ret>>

-----------------------------------------------------------------------------
(* The atomic operations that continue a call in progress.                 *)
RecordStep(t) ==
    \/ SuccessCheck(t) \/ SuccessClear(t) \/ SuccessAdd(t) \/ Promote(t)
    \/ FailureAdd(t) \/ FailureSwap(t)
    \/ ArmNow(t) \/ ArmStore(t)

(* The pool by itself: any thread may call any method on any backend.      *)
NextUpstream ==
    \/ Tick
    \/ \E t \in Thread : RecordStep(t) \/ MarkStore(t)
    \/ \E t \in Thread, b \in Backend :
          /\ pc[t] = "idle"
          /\ \/ RecordSuccess(t, b) \/ RecordFailure(t, b)
             \/ MarkHealthy(t, b) \/ MarkUnhealthy(t, b)

SpecUpstream == InitUpstream /\ [][NextUpstream]_upstreamVars

-----------------------------------------------------------------------------
RecordLabel ==
    {"success_check", "success_clear", "success_add", "promote_successes",
     "promote_until", "promote_healthy", "failure_add", "failure_swap",
     "mark_store", "arm_now", "arm_store"}

CellsTypeOK ==
    /\ failures \in [Backend -> 0..U32Max]
    /\ successes \in [Backend -> 0..U32Max]
    /\ healthy \in [Backend -> BOOLEAN]
    /\ until \in [Backend -> Nat]
    /\ now \in Nat
    /\ arg \in [Thread -> Backend]
    /\ loc \in [Thread -> Nat]

(* Every cell of the pool and every local of a thread has its type.        *)
UpstreamTypeOK ==
    /\ CellsTypeOK
    /\ pc \in [Thread -> RecordLabel \cup {"idle"}]
    /\ ret \in [Thread -> {"idle"}]

Arming(t, b) == arg[t] = b /\ pc[t] \in {"arm_now", "arm_store"}
Promoting(t, b) == arg[t] = b /\ pc[t] = "promote_healthy"

(* An ejected backend is never held out for longer than one cooldown from  *)
(* the present, however the stores of several threads that arm, clear and  *)
(* re-arm the same deadline fall (upstream.rs arm_cooldown).               *)
HoldOutBounded == \A b \in Backend : until[b] <= now + Cooldown

(* The cooldown of an ejection is never lost: while a backend is unhealthy *)
(* its deadline is one that arm_cooldown stored, unless the thread that    *)
(* ejected it has still to arm it, or a thread that cleared the deadline   *)
(* is about to make it healthy.  It rests on the order of the last two     *)
(* stores of record_success and mark_healthy.                              *)
EjectedIsArmed ==
    \A b \in Backend :
        \/ healthy[b]
        \/ until[b] >= Cooldown
        \/ \E t \in Thread : Arming(t, b) \/ Promoting(t, b)

=============================================================================
