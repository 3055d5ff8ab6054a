------------------------------ MODULE Recovery ------------------------------
(***************************************************************************)
(* Ejection and recovery over time: the pool (src/src/upstream.rs), the    *)
(* balancer, the handlers and the health checker together, beside backends *)
(* that come and go, clients that leave, and an orchestrator that follows  *)
(* the readiness probe (src/src/admin.rs).                                 *)
(*                                                                         *)
(* Here a method of the pool or the balancer is one action (Upstream and   *)
(* Balancer take them apart); what is apart is what the code awaits: an    *)
(* answer may be on its way while everything else changes.  Time is what   *)
(* is left of each cooldown, so behaviours may go on for ever.             *)
(***************************************************************************)
EXTENDS Integers

CONSTANTS
    NumBackends,
    Handler,            \* requests that may be in progress at once
    FailureThreshold, HealthyThreshold,
    Cooldown,           \* in ticks
    Flaky,              \* the backends that may go down
    SlowUploads         \* bound on the requests that time out by their client's fault

ASSUME RecoveryAssumption ==
    /\ NumBackends \in Nat \ {0}
    /\ FailureThreshold \in Nat \ {0} /\ HealthyThreshold \in Nat \ {0}
    /\ Cooldown \in Nat /\ SlowUploads \in Nat
    /\ Flaky \subseteq 1..NumBackends

Backend == 1..NumBackends
Outcome == {"none", "success", "failure"}

VARIABLES
    checks,         \* whether the health checker is configured
    gated,          \* whether an orchestrator asks for readiness, and sends
                    \* requests only while the proxy is ready
    up,             \* up[b]: b answers
    failures, successes, healthy,
    wait,           \* wait[b]: ticks until b's cooldown has elapsed
    current,        \* the running weights of the balancer
    to,             \* to[h]: the backend of h's request, or 0
    got,            \* got[h]: what h's request has come to
    slow,           \* requests that may still time out though b is up
    probe, heard,   \* the backend the checker probes, and what came of it
    look,           \* the backend whose flag the readiness probe reads next
    ready           \* the last readiness verdict

setting == <<checks, gated>>
pool == <<failures, successes, healthy, wait>>
requests == <<to, got, slow>>
checker == <<probe, heard>>
readiness == <<look, ready>>
vars == <<setting, up, pool, current, requests, checker, readiness>>

(* next() is one selection of smooth weighted round-robin.                 *)
RoundRobin == INSTANCE SmoothWRR
                WITH MaxWeight <- 1, weight <- [b \in Backend |-> 1], cw <- current

Init ==
    /\ checks \in BOOLEAN /\ gated \in BOOLEAN
    /\ up = [b \in Backend |-> TRUE]
    /\ failures = [b \in Backend |-> 0]
    /\ successes = [b \in Backend |-> 0]
    /\ healthy = [b \in Backend |-> TRUE]
    /\ wait = [b \in Backend |-> 0]
    /\ current = [b \in Backend |-> 0]
    /\ to = [h \in Handler |-> 0]
    /\ got = [h \in Handler |-> "none"]
    /\ slow = SlowUploads
    /\ probe = 1 /\ heard = "none"
    /\ look = 1 /\ ready = TRUE

-----------------------------------------------------------------------------
(* record_success and record_failure.  Counters are compared with >= only, *)
(* so they need not count beyond their threshold.                          *)
RecordSuccess(b) ==
    LET n == successes[b] + 1
        promoted == ~healthy[b] /\ n >= HealthyThreshold
    IN  /\ failures' = [failures EXCEPT ![b] = 0]
        /\ successes' = [successes EXCEPT ![b] = IF healthy[b] \/ promoted THEN 0 ELSE n]
        /\ healthy' = [healthy EXCEPT ![b] = @ \/ promoted]
        /\ wait' = [wait EXCEPT ![b] = IF promoted THEN 0 ELSE @]

RecordFailureArmOnly(b) ==
    LET n == IF failures[b] < FailureThreshold THEN failures[b] + 1 ELSE failures[b]
    IN  /\ successes' = [successes EXCEPT ![b] = 0]
        /\ failures' = [failures EXCEPT ![b] = n]
        /\ wait' = [wait EXCEPT ![b] = IF n >= FailureThreshold THEN Cooldown ELSE @]
        /\ UNCHANGED healthy

RecordFailure(b) ==
    LET n == IF failures[b] < FailureThreshold THEN failures[b] + 1 ELSE failures[b]
        ejected == healthy[b] /\ n >= FailureThreshold
    IN  /\ successes' = [successes EXCEPT ![b] = 0]
        /\ failures' = [failures EXCEPT ![b] = n]
        /\ healthy' = [healthy EXCEPT ![b] = @ /\ ~ejected]
        /\ wait' = [wait EXCEPT ![b] = IF ejected THEN Cooldown ELSE @]

Record(b, outcome) ==
    \/ outcome = "success" /\ RecordSuccess(b)
    \/ outcome = "failure" /\ RecordFailure(b)

EligibleWhenHealthy == {b \in Backend : healthy[b]}
Eligible == {b \in Backend : healthy[b] \/ wait[b] = 0}

Tick ==
    /\ \E b \in Backend : wait[b] > 0
    /\ wait' = [b \in Backend |-> IF wait[b] > 0 THEN wait[b] - 1 ELSE 0]
    /\ UNCHANGED <<setting, up, failures, successes, healthy, current, requests,
                   checker, readiness>>

-----------------------------------------------------------------------------
(* handle_request: next(); a trial arms the cooldown before it is sent.    *)
(* Nothing happens to a request for which no backend is eligible: 503.     *)
Send(h) ==
    /\ to[h] = 0
    /\ ~gated \/ ready
    /\ Eligible # {}
    /\ RoundRobin!Select(Eligible)
    /\ LET b == RoundRobin!Winner(Eligible)
       IN  /\ to' = [to EXCEPT ![h] = b]
           /\ wait' = [wait EXCEPT ![b] = IF healthy[b] THEN @ ELSE Cooldown]
    /\ UNCHANGED <<setting, up, failures, successes, healthy, got, slow,
                   checker, readiness>>

(* A backend that is up answers, and one that is down fails the request or *)
(* lets it time out.  A request may also time out because its client is    *)
(* slow to upload the body, which counts as the backend's failure.         *)
Answer(h, b) ==
    /\ to[h] = b /\ got[h] = "none"
    /\ got' = [got EXCEPT ![h] = IF up[b] THEN "success" ELSE "failure"]
    /\ UNCHANGED <<setting, up, pool, current, to, slow, checker, readiness>>

TimeOutSlow(h) ==
    /\ to[h] # 0 /\ got[h] = "none" /\ up[to[h]] /\ slow > 0
    /\ got' = [got EXCEPT ![h] = "failure"]
    /\ slow' = slow - 1
    /\ UNCHANGED <<setting, up, pool, current, to, checker, readiness>>

(* The outcome reaches the handler, which records it.                      *)
Finish(h) ==
    /\ got[h] # "none"
    /\ Record(to[h], got[h])
    /\ to' = [to EXCEPT ![h] = 0]
    /\ got' = [got EXCEPT ![h] = "none"]
    /\ UNCHANGED <<setting, up, current, slow, checker, readiness>>

(* The client leaves, or its body is over the limit: nothing is recorded,  *)
(* and a trial has been spent.  (Leaving once the answer is on its way is  *)
(* the same to the pool as leaving then without it.)                       *)
Leave(h) ==
    /\ to[h] # 0 /\ got[h] = "none"
    /\ to' = [to EXCEPT ![h] = 0]
    /\ UNCHANGED <<setting, up, pool, current, got, slow, checker, readiness>>

(* The health checker: one backend after the other, eligible or not.       *)
Probe ==
    /\ checks /\ heard = "none"
    /\ heard' = IF up[probe] THEN "success" ELSE "failure"
    /\ UNCHANGED <<setting, up, pool, current, requests, probe, readiness>>

ProbeDone ==
    /\ Record(probe, heard)
    /\ heard' = "none"
    /\ probe' = IF probe < NumBackends THEN probe + 1 ELSE 1
    /\ UNCHANGED <<setting, up, current, requests, readiness>>

(* readiness_response: the flags in order, up to the first that is up.     *)
ReadFlagFirstOnly ==
    /\ gated
    /\ ready' = healthy[look]
    /\ UNCHANGED <<setting, up, pool, current, requests, checker, look>>

ReadFlag ==
    /\ gated
    /\ \/ healthy[look] /\ ready' = TRUE /\ look' = 1
       \/ ~healthy[look] /\ look = NumBackends /\ ready' = FALSE /\ look' = 1
       \/ ~healthy[look] /\ look < NumBackends /\ look' = look + 1 /\ UNCHANGED ready
    /\ UNCHANGED <<setting, up, pool, current, requests, checker>>

(* A backend goes down or comes back, whenever it likes.                   *)
Turn(b) ==
    /\ up' = [up EXCEPT ![b] = ~@]
    /\ UNCHANGED <<setting, pool, current, requests, checker, readiness>>

-----------------------------------------------------------------------------
Next ==
    \/ Tick \/ Probe \/ ProbeDone \/ ReadFlag
    \/ \E h \in Handler : Send(h) \/ TimeOutSlow(h) \/ Finish(h) \/ Leave(h)
    \/ \E h \in Handler, b \in Backend : Answer(h, b)
    \/ \E b \in Flaky : Turn(b)

Spec == Init /\ [][Next]_vars

(* Time passes; the checker runs and its probes end (a timeout); readiness *)
(* is asked again and again.  Requests keep coming while they are let in,  *)
(* each ends (request_timeout), and clients do not for ever leave exactly  *)
(* the requests that one backend would have answered.                      *)
Fairness ==
    /\ WF_vars(Tick) /\ WF_vars(Probe \/ ProbeDone) /\ WF_vars(ReadFlag)
    /\ WF_vars(\E h \in Handler : Send(h))
    /\ \A h \in Handler : WF_vars(Finish(h))
    /\ \A b \in Backend : SF_vars(\E h \in Handler : Answer(h, b))

FairSpec == Spec /\ Fairness

-----------------------------------------------------------------------------
(* A backend that has come back to stay is used again: trials alone bring  *)
(* it back, however clients leave, time out and overlap ("lets passive-    *)
(* only deployments recover backends without active health checks",        *)
(* config.rs), and so do probes.  Not so in a deployment without probes    *)
(* whose traffic depends on its readiness: once every backend is ejected   *)
(* no request comes that could be a trial.                                 *)
Recovers ==
    \A b \in Backend : (checks \/ ~gated) /\ <>[]up[b] => <>[]healthy[b]

(* A backend that has gone for good is ejected, and no answer that is      *)
(* still on its way, no trial and no other backend's success brings it     *)
(* back for good.                                                          *)
DownIsEjected ==
    \A b \in Backend : <>[]~up[b] => <>[]~healthy[b]

(* Readiness settles on the truth: if some backend stays healthy the probe *)
(* says so from some time on, although it reads the flags one after the    *)
(* other while they change, and if none does it stops saying so.           *)
ReadinessSettles ==
    gated => /\ \A b \in Backend : <>[]healthy[b] => <>[]ready
             /\ <>[](\A b \in Backend : ~healthy[b]) => <>[]~ready

=============================================================================
