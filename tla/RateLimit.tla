----------------------------- MODULE RateLimit ------------------------------
(***************************************************************************)
(* The per-address rate limiter (src/src/rate_limit.rs), the Retry-After   *)
(* of the 429 it leads to (src/src/error.rs) and the task that prunes it   *)
(* (spawn_rate_limit_cleanup, src/src/server.rs).                          *)
(*                                                                         *)
(* governor keeps, for each address it has seen, the theoretical arrival   *)
(* time of the next request (GCRA).  The model keeps how far that time is  *)
(* ahead of the clock, so that time passing is a countdown and no clock    *)
(* has to be bounded.  governor itself is external: check_key is one       *)
(* atomic step, and so is each of the calls that the cleanup task makes.   *)
(***************************************************************************)
EXTENDS Naturals, FiniteSets

CONSTANTS
    Ip,                 \* client addresses
    Handler,            \* requests that may be in check() at once
    RequestsPerSecond,
    Burst,
    TicksPerMs,         \* resolution of the clock
    MsPerSecond,        \* 1000 in the code
    OverflowChecks,     \* whether the build checks arithmetic (dev profile)
    NoIp                \* no address

ASSUME AddressAssumption == IsFiniteSet(Ip) /\ NoIp \notin Ip

(* Config::into_runtime rejects a zero rate or burst; the clock is fine    *)
(* enough for the rate.                                                    *)
ASSUME RateAssumption ==
    /\ RequestsPerSecond \in Nat \ {0} /\ Burst \in Nat \ {0}
    /\ TicksPerMs \in Nat \ {0} /\ MsPerSecond \in Nat \ {0}
    /\ RequestsPerSecond <= MsPerSecond * TicksPerMs
    /\ OverflowChecks \in BOOLEAN

VARIABLES
    ahead,      \* ahead[a]: ticks from now to a's theoretical arrival time
    tracked,    \* the addresses that have a cell in the map
    verdict,    \* verdict[a]: what the last request from a was told
    notUntil,   \* notUntil[h]: ticks until the request that h refuses would pass
    who,        \* who[h]: the address that h refuses, or NoIp
    fresh,      \* history: the handlers whose address was let through by none since
    retry,      \* retry[a]: ticks until a comes back as its Retry-After says
    waiting,    \* history: the addresses that wait so and were not let through since
    clean,      \* where the cleanup task is
    before,     \* its local
    joined      \* history: the addresses that got a cell since before was read

cells == <<ahead, tracked, verdict>>
refusals == <<notUntil, who, fresh>>
clients == <<retry, waiting>>
cleaner == <<clean, before>>
vars == <<cells, refusals, clients, cleaner, joined>>

(* from_config: Quota::per_second(rps).allow_burst(burst).                 *)
Second == MsPerSecond * TicksPerMs
Period == Second \div RequestsPerSecond
Tolerance == Burst * Period

Init ==
    /\ ahead = [a \in Ip |-> 0]
    /\ tracked = {}
    /\ verdict = [a \in Ip |-> "none"]
    /\ notUntil = [h \in Handler |-> 0]
    /\ who = [h \in Handler |-> NoIp]
    /\ fresh = {}
    /\ retry = [a \in Ip |-> 0]
    /\ waiting = {}
    /\ clean = "sleeping"
    /\ before = 0
    /\ joined = {}

-----------------------------------------------------------------------------
CountDown(n) == IF n > 0 THEN n - 1 ELSE 0

Tick ==
    /\ ahead' = [a \in Ip |-> CountDown(ahead[a])]
    /\ notUntil' = [h \in Handler |-> CountDown(notUntil[h])]
    /\ retry' = [a \in Ip |-> CountDown(retry[a])]
    /\ UNCHANGED <<tracked, verdict, who, fresh, waiting, cleaner, joined>>

(* How long until a request from a would be let through.                   *)
Shortfall(a) ==
    IF ahead[a] + Period > Tolerance THEN ahead[a] + Period - Tolerance ELSE 0

(* Whether the cleanup task is between its two readings of the map's size. *)
Pruning == clean \in {"counted", "retained"}

(* check, check_key: the cell moves one period ahead, unless that is       *)
(* further than the burst allows; then it stays.                           *)
AllowBurstAndOne(h, a) ==
    /\ who[h] = NoIp
    /\ ahead[a] <= Tolerance
    /\ ahead' = [ahead EXCEPT ![a] = @ + Period]
    /\ tracked' = tracked \cup {a}
    /\ joined' = IF Pruning THEN joined \cup ({a} \ tracked) ELSE joined
    /\ verdict' = [verdict EXCEPT ![a] = "allowed"]
    /\ fresh' = {g \in fresh : who[g] # a}
    /\ retry' = [retry EXCEPT ![a] = 0]
    /\ waiting' = waiting \ {a}
    /\ UNCHANGED <<notUntil, who, cleaner>>

Allow(h, a) ==
    /\ who[h] = NoIp
    /\ Shortfall(a) = 0
    /\ ahead' = [ahead EXCEPT ![a] = @ + Period]
    /\ tracked' = tracked \cup {a}
    /\ joined' = IF Pruning THEN joined \cup ({a} \ tracked) ELSE joined
    /\ verdict' = [verdict EXCEPT ![a] = "allowed"]
    /\ fresh' = {g \in fresh : who[g] # a}
    /\ retry' = [retry EXCEPT ![a] = 0]
    /\ waiting' = waiting \ {a}
    /\ UNCHANGED <<notUntil, who, cleaner>>

Refuse(h, a) ==
    /\ who[h] = NoIp
    /\ Shortfall(a) > 0
    /\ verdict' = [verdict EXCEPT ![a] = "refused"]
    /\ who' = [who EXCEPT ![h] = a]
    /\ notUntil' = [notUntil EXCEPT ![h] = Shortfall(a)]
    /\ fresh' = fresh \cup {h}
    /\ UNCHANGED <<ahead, tracked, clients, cleaner, joined>>

(* check, the refusal: the wait is taken from a second reading of the      *)
(* clock and truncated to milliseconds; into_response rounds it up to      *)
(* seconds.                                                                *)
WaitMs(ticks) == ticks \div TicksPerMs

RetrySecsTruncated(ms) == ms \div MsPerSecond
RetrySecsNext(ms) == ms \div MsPerSecond + 1
RetrySecs(ms) == (ms + MsPerSecond - 1) \div MsPerSecond

Advise(h) ==
    /\ who[h] # NoIp
    /\ retry' = [retry EXCEPT ![who[h]] = RetrySecs(WaitMs(notUntil[h])) * Second]
    /\ who' = [who EXCEPT ![h] = NoIp]
    /\ waiting' = IF h \in fresh THEN waiting \cup {who[h]} ELSE waiting \ {who[h]}
    /\ notUntil' = [notUntil EXCEPT ![h] = 0]
    /\ fresh' = fresh \ {h}
    /\ UNCHANGED <<cells, cleaner, joined>>

-----------------------------------------------------------------------------
(* spawn_rate_limit_cleanup: the ticker fires and the map's size is read;  *)
(* the cells that are as good as new are dropped; the size is read again.  *)
CountBefore ==
    /\ clean = "sleeping"
    /\ before' = Cardinality(tracked)
    /\ clean' = "counted"
    /\ joined' = {}
    /\ UNCHANGED <<cells, refusals, clients>>

RetainNone ==
    /\ clean = "counted"
    /\ tracked' = {}
    /\ ahead' = [a \in Ip |-> 0]
    /\ clean' = "retained"
    /\ UNCHANGED <<verdict, refusals, clients, before, joined>>

RetainRecent ==
    /\ clean = "counted"
    /\ tracked' = {a \in tracked : ahead[a] > 0}
    /\ clean' = "retained"
    /\ UNCHANGED <<ahead, verdict, refusals, clients, before, joined>>

(* before - after, which is only computed when they differ: the task dies  *)
(* of an overflow if the build checks for it, else the difference wraps    *)
(* and is only logged.                                                     *)
Overflows == before < Cardinality(tracked)

LogPrunedOnce ==
    /\ clean = "retained"
    /\ clean' = "dead"
    /\ before' = 0
    /\ UNCHANGED <<cells, refusals, clients, joined>>

LogPruned ==
    /\ clean = "retained"
    /\ \/ /\ OverflowChecks /\ Overflows
          /\ clean' = "dead"
          /\ UNCHANGED joined
       \/ /\ ~(OverflowChecks /\ Overflows)
          /\ clean' = "sleeping"
          /\ joined' = {}
    /\ before' = 0
    /\ UNCHANGED <<cells, refusals, clients>>

CleanupStep == CountBefore \/ RetainRecent \/ LogPruned

Next ==
    \/ Tick
    \/ \E h \in Handler, a \in Ip : Allow(h, a) \/ Refuse(h, a)
    \/ \E h \in Handler : Advise(h)
    \/ CleanupStep

Spec == Init /\ [][Next]_vars

(* The ticker of the cleanup task fires again and again, and a handler in  *)
(* check() returns.  Nothing is asked of clients, who may be silent.       *)
Fairness ==
    /\ WF_vars(CleanupStep)
    /\ \A h \in Handler : WF_vars(Advise(h))

FairSpec == Spec /\ Fairness

-----------------------------------------------------------------------------
(* A cell is never further ahead than the burst, and only an address that  *)
(* has a cell is ahead at all, so that dropping a cell that is not ahead   *)
(* loses nothing (retain_recent).                                          *)
TypeOK ==
    /\ ahead \in [Ip -> 0..Tolerance]
    /\ tracked \subseteq Ip
    /\ verdict \in [Ip -> {"none", "allowed", "refused"}]
    /\ notUntil \in [Handler -> 0..Period]
    /\ who \in [Handler -> Ip \cup {NoIp}]
    /\ fresh \subseteq {h \in Handler : who[h] # NoIp}
    /\ retry \in [Ip -> Nat]
    /\ waiting \subseteq Ip
    /\ clean \in {"sleeping", "counted", "retained", "dead"}
    /\ before \in 0..Cardinality(Ip)
    /\ joined \subseteq Ip
    /\ \A a \in Ip : ahead[a] > 0 => a \in tracked

(* The limiter is a token bucket for each address: however checks, clock   *)
(* and cleanup interleave, no address is ever given more than its rate and *)
(* its burst allow, and none is refused that has a token left ("Each       *)
(* unique IP gets its own token bucket", rate_limit.rs).                   *)
Bucket == INSTANCE TokenBucket
            WITH level <- [a \in Ip |-> Tolerance - ahead[a]]

ImplementsTokenBucket == Bucket!Spec

(* A client that was refused and waits as its Retry-After says is let      *)
(* through, if it then waits a millisecond more and no other request of    *)
(* its address was let through meanwhile: the two readings of the clock,   *)
(* the truncation to milliseconds and the rounding to seconds lose no more *)
(* than that (check, into_response).                                       *)
RetryAfterSuffices ==
    \A a \in waiting : retry[a] = 0 => Shortfall(a) < TicksPerMs

(* ... and is told to wait less than a second longer than it has to.       *)
RetryAfterIsTight ==
    \A a \in waiting : retry[a] < Shortfall(a) + Second

(* A cell that is as good as new does not stay in the map for ever while   *)
(* the cleanup task lives, and the one thing the task dies of is an        *)
(* address that gets a cell between its two readings of the map's size, in *)
(* a build that checks the subtraction (spawn_rate_limit_cleanup).         *)
StaleEntriesPruned ==
    \A a \in Ip :
        a \in tracked /\ ahead[a] = 0 ~>
            \/ a \notin tracked \/ ahead[a] > 0
            \/ clean = "dead" /\ OverflowChecks /\ joined # {}

=============================================================================
