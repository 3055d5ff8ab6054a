-------------------------- MODULE RateLimitProofs ---------------------------
(***************************************************************************)
(* Proofs about the rate limiter: it is a token bucket for each address,   *)
(* whatever the cleanup task does beside it, so that no window of time     *)
(* sees more than the burst and the rate allow, and its Retry-After is     *)
(* right to a millisecond, for every rate, burst and resolution of the     *)
(* clock.                                                                  *)
(***************************************************************************)
EXTENDS RateLimit, FiniteSetTheorems, TLAPS

-----------------------------------------------------------------------------
(* Facts about products and quotients that the provers do not find.        *)
LEMMA ProductNat == \A m, n \in Nat : m * n \in Nat
  BY SMT

LEMMA ProductMonotone == \A m, n, k \in Nat : m <= n => m * k <= n * k
  BY SMT

LEMMA QuotientBounds ==
  ASSUME NEW n \in Nat, NEW d \in Nat \ {0}
  PROVE  /\ n \div d \in Nat
         /\ (n \div d) * d <= n
         /\ n < (n \div d) * d + d
  BY SMT

(* Rounding n up to a multiple of d gains less than d.                     *)
LEMMA CeilingBounds ==
  ASSUME NEW n \in Nat, NEW d \in Nat \ {0}
  PROVE  /\ (n + d - 1) \div d \in Nat
         /\ n <= ((n + d - 1) \div d) * d
         /\ ((n + d - 1) \div d) * d <= n + d - 1
<1> DEFINE q == (n + d - 1) \div d
<1>1. n + d - 1 \in Nat
  OBVIOUS
<1>2. q \in Nat /\ q * d <= n + d - 1 /\ n + d - 1 < q * d + d
  BY <1>1, QuotientBounds
<1>3. q * d \in Nat
  BY <1>2, ProductNat
<1> HIDE DEF q
<1>4. n <= q * d
  BY <1>2, <1>3
<1> QED
  BY <1>2, <1>4 DEF q

(* The numbers that from_config derives.  The period is a tick at least,   *)
(* and the tolerance at least a period.                                    *)
LEMMA Quota ==
  /\ Second \in Nat \ {0}
  /\ Period \in Nat \ {0}
  /\ Tolerance \in Nat
  /\ Period <= Tolerance
<1>1. Second \in Nat \ {0}
  BY RateAssumption, SMT DEF Second
<1>2. RequestsPerSecond <= Second
  BY RateAssumption DEF Second
<1>3. /\ Period \in Nat
      /\ Second < Period * RequestsPerSecond + RequestsPerSecond
  BY <1>1, RateAssumption, QuotientBounds DEF Period
<1>4. Period # 0
  <2>1. SUFFICES ASSUME Period = 0 PROVE FALSE
    OBVIOUS
  <2>2. Period * RequestsPerSecond = 0
    BY <2>1, RateAssumption
  <2> QED
    BY <1>1, <1>2, <1>3, <2>2, RateAssumption
<1>5. Tolerance \in Nat /\ 1 * Period <= Tolerance
  BY <1>3, RateAssumption, ProductNat, ProductMonotone DEF Tolerance
<1> QED
  BY <1>1, <1>3, <1>4, <1>5

(* Retry-After for a wait of n ticks: it falls short of n by less than a   *)
(* millisecond and exceeds it by less than a second.                       *)
LEMMA RetryBounds ==
  ASSUME NEW n \in Nat
  PROVE  /\ RetrySecs(WaitMs(n)) * Second \in Nat
         /\ n < RetrySecs(WaitMs(n)) * Second + TicksPerMs
         /\ RetrySecs(WaitMs(n)) * Second < n + Second
<1> DEFINE T == TicksPerMs
           K == MsPerSecond
           ms == n \div T
           secs == (ms + K - 1) \div K
<1>1. T \in Nat \ {0} /\ K \in Nat \ {0}
  BY RateAssumption
<1>2. ms \in Nat /\ ms * T <= n /\ n < ms * T + T
  BY <1>1, QuotientBounds
<1>3. secs \in Nat /\ ms <= secs * K /\ secs * K <= ms + K - 1
  BY Zenon, <1>1, <1>2, CeilingBounds
<1>4. RetrySecs(WaitMs(n)) * Second = secs * (K * T)
  BY DEF RetrySecs, WaitMs, Second
<1> HIDE DEF T, K, ms, secs
<1>5. secs * (K * T) = (secs * K) * T /\ secs * K \in Nat /\ (secs * K) * T \in Nat
  BY <1>1, <1>3, ProductNat, SMT
<1>6. ms * T <= (secs * K) * T
  BY <1>1, <1>2, <1>3, <1>5, ProductMonotone
<1>7. (secs * K) * T <= (ms + K - 1) * T
  BY <1>1, <1>2, <1>3, <1>5, ProductMonotone
<1>8. (ms + K - 1) * T = ms * T + K * T - T /\ ms * T \in Nat /\ K * T \in Nat
  BY <1>1, <1>2, ProductNat, SMT
<1>9. n < (secs * K) * T + T /\ (secs * K) * T < n + K * T
  BY <1>1, <1>2, <1>5, <1>6, <1>7, <1>8
<1> QED
  BY <1>4, <1>5, <1>9 DEF T, K, Second

-----------------------------------------------------------------------------
LEMMA CountedWithin ==
  ASSUME NEW S, S \subseteq Ip
  PROVE  Cardinality(S) \in 0..Cardinality(Ip)
  BY AddressAssumption, FS_Subset, FS_CardinalityType

LEMMA ShortfallBounds ==
  ASSUME TypeOK, NEW a \in Ip
  PROVE  Shortfall(a) \in 0..Period
  BY Quota DEF TypeOK, Shortfall

(* The cells, the refusals in progress and the task keep their types.      *)
LEMMA TypeInit == Init => TypeOK
  BY Quota, CountedWithin, AddressAssumption DEF Init, TypeOK

LEMMA TypeStep == TypeOK /\ [Next]_vars => TypeOK'
<1> SUFFICES ASSUME TypeOK, [Next]_vars PROVE TypeOK'
  OBVIOUS
<1>1. CASE Tick
  BY <1>1, Quota DEF TypeOK, Tick, CountDown, cleaner
<1>2. ASSUME NEW h \in Handler, NEW a \in Ip, Allow(h, a) PROVE TypeOK'
  <2>1. ahead[a] + Period \in 0..Tolerance
    BY <1>2, Quota DEF TypeOK, Allow, Shortfall
  <2> QED
    BY <1>2, <2>1, Quota DEF TypeOK, Allow, cleaner
<1>3. ASSUME NEW h \in Handler, NEW a \in Ip, Refuse(h, a) PROVE TypeOK'
  BY <1>3, ShortfallBounds, AddressAssumption
  DEF TypeOK, Refuse, cleaner, clients
<1>4. ASSUME NEW h \in Handler, Advise(h) PROVE TypeOK'
  <2>1. who[h] \in Ip /\ RetrySecs(WaitMs(notUntil[h])) * Second \in Nat
    BY <1>4, RetryBounds, Quota DEF TypeOK, Advise
  <2> QED
    BY <1>4, <2>1, Quota DEF TypeOK, Advise, cells, cleaner
<1>5. CASE CountBefore
  BY <1>5, CountedWithin DEF TypeOK, CountBefore, cells, refusals, clients
<1>6. CASE RetainRecent
  BY <1>6 DEF TypeOK, RetainRecent, refusals, clients
<1>7. CASE LogPruned
  BY <1>7, CountedWithin, AddressAssumption, FS_CardinalityType
  DEF TypeOK, LogPruned, cells, refusals, clients
<1>8. CASE UNCHANGED vars
  BY <1>8 DEF TypeOK, vars, cells, refusals, clients, cleaner
<1> QED
  BY <1>1, <1>2, <1>3, <1>4, <1>5, <1>6, <1>7, <1>8 DEF Next, CleanupStep

(* No cell runs further ahead than the burst allows, and only tracked      *)
(* addresses are ahead at all, for every number of addresses and requests  *)
(* (check_key beside retain_recent).                                       *)
THEOREM LimiterTypeCorrect == Spec => []TypeOK
<1> QED
  BY TypeInit, TypeStep, PTL DEF Spec

-----------------------------------------------------------------------------
(* Every step of the limiter is one of the token bucket, or is not seen by *)
(* it: the advice and the whole of the cleanup are invisible.              *)
LEMMA BucketStep == TypeOK /\ [Next]_vars => [Bucket!Next]_(Bucket!vars)
<1> SUFFICES ASSUME TypeOK, [Next]_vars PROVE [Bucket!Next]_(Bucket!vars)
  OBVIOUS
<1>1. CASE Tick
  <2>1. Bucket!Full = Tolerance
    BY DEF Bucket!Full, Tolerance
  <2>2. ASSUME NEW a \in Ip
        PROVE  Tolerance - CountDown(ahead[a]) =
                  IF Tolerance - ahead[a] < Tolerance
                    THEN Tolerance - ahead[a] + 1 ELSE Tolerance
    BY Quota DEF TypeOK, CountDown
  <2>3. Bucket!Tick
    BY <1>1, <2>1, <2>2 DEF Tick, Bucket!Tick
  <2> QED
    BY <2>3 DEF Bucket!Next
<1>2. ASSUME NEW h \in Handler, NEW a \in Ip, Allow(h, a)
      PROVE  [Bucket!Next]_(Bucket!vars)
  <2> DEFINE level == [b \in Ip |-> Tolerance - ahead[b]]
  <2>1. level[a] >= Period
    BY <1>2, Quota DEF TypeOK, Allow, Shortfall
  <2>2. ASSUME NEW b \in Ip
        PROVE  Tolerance - ahead'[b] = IF b = a THEN level[a] - Period ELSE level[b]
    BY <1>2, Quota DEF TypeOK, Allow
  <2>3. [b \in Ip |-> Tolerance - ahead'[b]] = [level EXCEPT ![a] = @ - Period]
    BY Zenon, <2>2
  <2>4. verdict' = [verdict EXCEPT ![a] = "allowed"]
    BY <1>2 DEF Allow
  <2>5. Bucket!Admit(a)
    BY <2>1, <2>3, <2>4 DEF Bucket!Admit
  <2> QED
    BY <2>5 DEF Bucket!Next
<1>3. ASSUME NEW h \in Handler, NEW a \in Ip, Refuse(h, a)
      PROVE  [Bucket!Next]_(Bucket!vars)
  <2>1. Bucket!Refuse(a)
    BY <1>3, Quota DEF TypeOK, Refuse, Shortfall, Bucket!Refuse
  <2> QED
    BY <2>1 DEF Bucket!Next
<1>4. ASSUME UNCHANGED <<ahead, verdict>> PROVE [Bucket!Next]_(Bucket!vars)
  BY <1>4 DEF Bucket!vars
<1>5. ASSUME NEW h \in Handler, Advise(h) PROVE UNCHANGED <<ahead, verdict>>
  BY <1>5 DEF Advise, cells
<1>6. ASSUME CleanupStep PROVE UNCHANGED <<ahead, verdict>>
  BY <1>6 DEF CleanupStep, CountBefore, RetainRecent, LogPruned, cells
<1>7. ASSUME UNCHANGED vars PROVE UNCHANGED <<ahead, verdict>>
  BY <1>7 DEF vars, cells
<1> QED
  BY <1>1, <1>2, <1>3, <1>4, <1>5, <1>6, <1>7 DEF Next

(* The limiter implements a token bucket for each address, for every rate, *)
(* burst and clock, with any number of requests in check() and the cleanup *)
(* task beside them (rate_limit.rs).                                       *)
THEOREM LimiterIsTokenBucket == Spec => ImplementsTokenBucket
<1>1. Init => Bucket!Init
  BY Quota DEF Init, Bucket!Init, Bucket!Full, Tolerance
<1> QED
  BY <1>1, BucketStep, LimiterTypeCorrect, PTL
  DEF Spec, ImplementsTokenBucket, Bucket!Spec

-----------------------------------------------------------------------------
(* Why the advice is right: the wait that a handler took from its refusal  *)
(* is still that of its address, unless a request was let through since;   *)
(* and what a waiting client was told is right from then on, because both  *)
(* count down together.                                                    *)
RetryInv ==
    /\ \A h \in fresh : notUntil[h] = Shortfall(who[h])
    /\ \A a \in waiting : /\ Shortfall(a) < retry[a] + TicksPerMs
                          /\ retry[a] < Shortfall(a) + Second

LEMMA ShortfallCountsDown ==
  ASSUME TypeOK, Tick, NEW a \in Ip
  PROVE  Shortfall(a)' = CountDown(Shortfall(a))
  BY Quota DEF TypeOK, Tick, Shortfall, CountDown

LEMMA RetryStep == TypeOK /\ RetryInv /\ [Next]_vars => RetryInv'
<1> SUFFICES ASSUME TypeOK, RetryInv, [Next]_vars PROVE RetryInv'
  OBVIOUS
<1>a. \A a \in Ip : Shortfall(a) \in Nat /\ retry[a] \in Nat
  BY ShortfallBounds, Quota DEF TypeOK
<1>b. fresh \subseteq Handler /\ (\A h \in fresh : who[h] \in Ip) /\ waiting \subseteq Ip
  BY DEF TypeOK
<1>1. CASE Tick
  <2>1. \A h \in fresh : notUntil'[h] = CountDown(Shortfall(who[h]))
    BY <1>1, <1>b DEF Tick, RetryInv, TypeOK
  <2>2. \A a \in Ip : Shortfall(a)' = CountDown(Shortfall(a))
    BY <1>1, ShortfallCountsDown
  <2>3. \A h \in fresh : notUntil'[h] = Shortfall(who[h])'
    <3>1. TAKE h \in fresh
    <3>2. who'[h] = who[h]
      BY <1>1 DEF Tick
    <3> QED
      BY <2>1, <2>2, <3>2, <1>b DEF Shortfall
  <2>4. \A a \in waiting : /\ Shortfall(a)' < retry'[a] + TicksPerMs
                          /\ retry'[a] < Shortfall(a)' + Second
    <3>1. TAKE a \in waiting
    <3>2. retry'[a] = CountDown(retry[a])
      BY <1>1, <1>b DEF Tick
    <3>3. Shortfall(a)' = CountDown(Shortfall(a))
      BY <2>2, <1>b
    <3>4. Shortfall(a) \in Nat /\ retry[a] \in Nat
      BY <1>a, <1>b
    <3>5. Shortfall(a) < retry[a] + TicksPerMs /\ retry[a] < Shortfall(a) + Second
      BY DEF RetryInv
    <3> QED
      BY <3>2, <3>3, <3>4, <3>5, RateAssumption, Quota DEF CountDown
  <2> QED
    BY <1>1, <2>3, <2>4 DEF RetryInv, Tick
<1>2. ASSUME NEW h \in Handler, NEW a \in Ip, Allow(h, a) PROVE RetryInv'
  <2>1. \A b \in Ip \ {a} : Shortfall(b)' = Shortfall(b) /\ retry'[b] = retry[b]
    BY <1>2 DEF Allow, Shortfall, TypeOK
  <2>2. \A g \in fresh' : notUntil'[g] = Shortfall(who[g])'
    <3>1. TAKE g \in fresh'
    <3>2. g \in fresh /\ who[g] # a /\ who'[g] = who[g] /\ notUntil'[g] = notUntil[g]
      BY <1>2 DEF Allow
    <3> QED
      BY <2>1, <3>2, <1>b DEF RetryInv, Shortfall
  <2>3. \A b \in waiting' : b \in waiting /\ b \in Ip \ {a}
    BY <1>2, <1>b DEF Allow
  <2> QED
    BY <2>1, <2>2, <2>3 DEF RetryInv
<1>3. ASSUME NEW h \in Handler, NEW a \in Ip, Refuse(h, a) PROVE RetryInv'
  <2>1. \A b \in Ip : Shortfall(b)' = Shortfall(b)
    BY <1>3 DEF Refuse, Shortfall
  <2>2. \A g \in fresh' : notUntil'[g] = Shortfall(who'[g])
    BY <1>3, <1>b DEF Refuse, RetryInv, TypeOK
  <2>3. \A g \in fresh' : who'[g] \in Ip
    BY <1>3, <1>b DEF Refuse, TypeOK
  <2> QED
    BY <1>3, <1>b, <2>1, <2>2, <2>3 DEF RetryInv, Refuse, clients, Shortfall
<1>4. ASSUME NEW h \in Handler, Advise(h) PROVE RetryInv'
  <2>1. \A b \in Ip : Shortfall(b)' = Shortfall(b)
    BY <1>4 DEF Advise, Shortfall, cells
  <2>2. \A g \in fresh' : g \in fresh /\ g # h
    BY <1>4 DEF Advise
  <2>3. \A g \in fresh' : notUntil'[g] = notUntil[g] /\ who'[g] = who[g] /\ who[g] \in Ip
    BY <1>4, <1>b, <2>2 DEF Advise, TypeOK
  <2>4. \A g \in fresh' : notUntil'[g] = Shortfall(who[g])'
    BY SMTT(30), <2>1, <2>2, <2>3 DEF RetryInv
  <2>5. \A b \in waiting' : /\ Shortfall(b)' < retry'[b] + TicksPerMs
                           /\ retry'[b] < Shortfall(b)' + Second
    <3>1. TAKE b \in waiting'
    <3>2. b \in Ip
      BY <1>4, <1>b DEF Advise, TypeOK
    <3>3. CASE b # who[h]
      BY <1>4, <2>1, <3>2, <3>3 DEF Advise, RetryInv, TypeOK
    <3>4. CASE b = who[h]
      <4>1. h \in fresh
        BY <1>4, <3>4 DEF Advise
      <4>2. notUntil[h] = Shortfall(b) /\ notUntil[h] \in Nat
        BY <4>1, <3>4, <3>2, <1>a DEF RetryInv
      <4>3. retry'[b] = RetrySecs(WaitMs(notUntil[h])) * Second
        BY <1>4, <3>2, <3>4 DEF Advise, TypeOK
      <4> QED
        BY <4>2, <4>3, <2>1, <3>2, RetryBounds
    <3> QED
      BY <3>3, <3>4
  <2> QED
    BY <2>3, <2>4, <2>5 DEF RetryInv, Shortfall
<1>5. CASE CleanupStep \/ UNCHANGED vars
  <2>1. UNCHANGED <<ahead, notUntil, who, fresh, retry, waiting>>
    BY <1>5 DEF CleanupStep, CountBefore, RetainRecent, LogPruned, vars, cells,
                refusals, clients
  <2> QED
    BY <2>1 DEF RetryInv, Shortfall
<1> QED
  BY <1>1, <1>2, <1>3, <1>4, <1>5 DEF Next

LEMMA RetryAlways == Spec => [](TypeOK /\ RetryInv)
<1>1. Init => RetryInv
  BY DEF Init, RetryInv
<1> QED
  BY <1>1, RetryStep, LimiterTypeCorrect, PTL DEF Spec

(* A refused client that waits as its Retry-After says is at most a        *)
(* millisecond early, for every rate, burst and resolution of the clock    *)
(* (check, into_response).                                                 *)
THEOREM RetryAfterIsRight == Spec => []RetryAfterSuffices
<1>1. TypeOK /\ RetryInv => RetryAfterSuffices
  BY ShortfallBounds, RateAssumption DEF TypeOK, RetryInv, RetryAfterSuffices
<1> QED
  BY <1>1, RetryAlways, PTL

(* And less than a second late: rounding the wait up to whole seconds      *)
(* costs the client no more than that.                                     *)
THEOREM RetryAfterNotLong == Spec => []RetryAfterIsTight
<1>1. TypeOK /\ RetryInv => RetryAfterIsTight
  BY ShortfallBounds, RateAssumption DEF TypeOK, RetryInv, RetryAfterIsTight
<1> QED
  BY <1>1, RetryAlways, PTL

-----------------------------------------------------------------------------
(* What a rate is for: how many requests are let through in a length of    *)
(* time.  A window opens at any moment and counts from there the ticks     *)
(* that pass and the requests of each address that check() lets through.   *)
VARIABLES
    elapsed,    \* history: the ticks since the window was opened
    admitted    \* history: admitted[a]: the requests from a let through since

window == <<elapsed, admitted>>

NewWindow == elapsed = 0 /\ admitted = [a \in Ip |-> 0]

OpenWindow ==
    /\ elapsed' = 0
    /\ admitted' = [a \in Ip |-> 0]
    /\ UNCHANGED vars

TickSeen == Tick /\ elapsed' = elapsed + 1 /\ UNCHANGED admitted

AllowSeen(h, a) ==
    /\ Allow(h, a)
    /\ admitted' = [admitted EXCEPT ![a] = @ + 1]
    /\ UNCHANGED elapsed

Unseen ==
    /\ \/ \E h \in Handler, a \in Ip : Refuse(h, a)
       \/ \E h \in Handler : Advise(h)
       \/ CleanupStep
    /\ UNCHANGED window

WindowNext ==
    \/ OpenWindow
    \/ TickSeen
    \/ \E h \in Handler, a \in Ip : AllowSeen(h, a)
    \/ Unseen

WindowSpec == Init /\ NewWindow /\ [][WindowNext]_<<vars, window>>

(* However a window is placed, no address gets more requests through in it *)
(* than its burst and one for each period that has passed, whatever cells  *)
(* the cleanup task drops meanwhile (check, retain_recent).                *)
RateKept == \A a \in Ip : admitted[a] <= Burst + elapsed \div Period

(* Why: what a window has let through beyond the time it has lasted is     *)
(* still ahead of the clock, and nothing is further ahead than the burst.  *)
WindowInv ==
    /\ elapsed \in Nat
    /\ admitted \in [Ip -> Nat]
    /\ \A a \in Ip : admitted[a] * Period <= ahead[a] + elapsed

LEMMA WindowRefines == WindowSpec => Spec
<1>1. [WindowNext]_<<vars, window>> => [Next]_vars
  BY DEF WindowNext, OpenWindow, TickSeen, AllowSeen, Unseen, Next
<1> QED
  BY <1>1, PTL DEF WindowSpec, Spec

LEMMA WindowStep == TypeOK /\ WindowInv /\ [WindowNext]_<<vars, window>> => WindowInv'
<1> SUFFICES ASSUME TypeOK, WindowInv, [WindowNext]_<<vars, window>> PROVE WindowInv'
  OBVIOUS
<1>a. \A a \in Ip : ahead[a] \in Nat
  BY Quota DEF TypeOK
<1>b. Period \in Nat /\ \A a \in Ip : admitted[a] \in Nat /\ admitted[a] * Period \in Nat
  BY Quota, ProductNat DEF WindowInv
<1>1. CASE OpenWindow
  <2>1. \A a \in Ip : admitted'[a] * Period = 0 /\ ahead'[a] = ahead[a]
    BY <1>1, <1>b DEF OpenWindow, vars, cells
  <2> QED
    BY <1>1, <1>a, <2>1 DEF OpenWindow, WindowInv
<1>2. CASE TickSeen
  <2>1. ASSUME NEW a \in Ip PROVE ahead[a] <= ahead'[a] + 1 /\ ahead'[a] \in Nat
    BY <1>2, <1>a DEF TickSeen, Tick, CountDown
  <2> QED
    BY <1>2, <1>a, <1>b, <2>1 DEF TickSeen, WindowInv
<1>3. ASSUME NEW h \in Handler, NEW a \in Ip, AllowSeen(h, a) PROVE WindowInv'
  <2>1. ahead' = [ahead EXCEPT ![a] = @ + Period] /\ ahead \in [Ip -> 0..Tolerance]
    BY <1>3 DEF AllowSeen, Allow, TypeOK
  <2>2. /\ admitted' = [admitted EXCEPT ![a] = @ + 1] /\ admitted' \in [Ip -> Nat]
        /\ elapsed' = elapsed
    BY <1>3 DEF AllowSeen, WindowInv
  <2>3. (admitted[a] + 1) * Period = admitted[a] * Period + Period
    BY <1>b, SMT
  <2>4. ASSUME NEW b \in Ip PROVE admitted'[b] * Period <= ahead'[b] + elapsed
    <3>1. CASE b = a
      <4>1. admitted'[b] = admitted[a] + 1 /\ ahead'[b] = ahead[a] + Period
        BY <2>1, <2>2, <3>1 DEF WindowInv
      <4>2. admitted'[b] * Period = admitted[a] * Period + Period
        BY <2>3, <4>1
      <4>3. admitted[a] * Period <= ahead[a] + elapsed /\ elapsed \in Nat
        BY DEF WindowInv
      <4> QED
        BY <1>a, <1>b, <4>1, <4>2, <4>3
    <3>2. CASE b # a
      BY <2>1, <2>2, <3>2 DEF WindowInv
    <3> QED
      BY <3>1, <3>2
  <2> QED
    BY <2>2, <2>4 DEF WindowInv
<1>4. CASE Unseen \/ UNCHANGED <<vars, window>>
  <2>1. UNCHANGED <<ahead, elapsed, admitted>>
    BY <1>4 DEF Unseen, Refuse, Advise, CleanupStep, CountBefore, RetainRecent,
                LogPruned, vars, cells, window
  <2> QED
    BY <2>1 DEF WindowInv
<1> QED
  BY <1>1, <1>2, <1>3, <1>4 DEF WindowNext

LEMMA WindowBound == TypeOK /\ WindowInv => RateKept
<1> SUFFICES ASSUME TypeOK, WindowInv, NEW a \in Ip
             PROVE  admitted[a] <= Burst + elapsed \div Period
  BY DEF RateKept
<1> DEFINE n == admitted[a]
           q == elapsed \div Period
<1>1. n \in Nat /\ elapsed \in Nat /\ Burst \in Nat /\ Period \in Nat \ {0}
  BY Quota, RateAssumption DEF WindowInv
<1>2. q \in Nat /\ elapsed < q * Period + Period /\ q * Period \in Nat
  BY <1>1, QuotientBounds, ProductNat
<1>3. ahead[a] \in Nat /\ ahead[a] <= Tolerance /\ Tolerance \in Nat
  BY Quota DEF TypeOK
<1>4. n * Period \in Nat /\ n * Period <= Tolerance + elapsed
  BY <1>1, <1>3, ProductNat DEF WindowInv
<1> HIDE DEF n, q
<1>5. (Burst + q + 1) * Period = Tolerance + q * Period + Period
  BY <1>1, <1>2, SMT DEF Tolerance
<1>6. ASSUME Burst + q + 1 <= n PROVE (Burst + q + 1) * Period <= n * Period
  BY <1>1, <1>2, <1>6, ProductMonotone
<1>7. ~(Burst + q + 1 <= n)
  BY <1>1, <1>2, <1>3, <1>4, <1>5, <1>6
<1> QED
  BY <1>1, <1>2, <1>7 DEF n, q

(* In every window, however long and wherever it opens, an address has at  *)
(* most its burst and one request for each period of the window let        *)
(* through, for every rate, burst and clock, with any number of requests   *)
(* in check() and the cleanup task beside them (rate_limit.rs).            *)
THEOREM RateIsKept == WindowSpec => []RateKept
<1>1. Init /\ NewWindow => WindowInv
  BY Quota DEF Init, NewWindow, WindowInv
<1> QED
  BY <1>1, WindowStep, WindowBound, WindowRefines, LimiterTypeCorrect, PTL DEF WindowSpec

=============================================================================
