------------------------------- MODULE Config -------------------------------
(***************************************************************************)
(* Config::into_runtime (src/src/config.rs): what a configuration file may *)
(* say and still be accepted, and what the rest of the proxy is then given *)
(* to run with.                                                            *)
(*                                                                         *)
(* A file is edited field by field, from the smallest valid one or one     *)
(* with every optional part, and loaded by a process (module Process).     *)
(* Optional fields are sequences of at most one element.  The numbers that *)
(* matter are zero and one; defaults are positive.                         *)
(***************************************************************************)
EXTENDS Naturals, Sequences

CONSTANT MaxEdits       \* bound on the fields that differ from the smallest file

ASSUME EditAssumption == MaxEdits \in Nat

VARIABLES
    file,       \* the configuration file
    edits,      \* how many fields have been edited
    loaded      \* the outcome of loading it: "none", "refused" or "accepted"

fileVars == <<file, edits, loaded>>

Default == 1
UnwrapOr(option, d) == IF option = <<>> THEN d ELSE option[1]

-----------------------------------------------------------------------------
(* What hyper::Uri makes of an address: whether it parses, and its scheme  *)
(* and authority.  Both are compared without regard to case.               *)
Address == {"", "not a uri", "/path", "a:80", "http://a:80", "HTTP://A:80", "https://b"}

Parses(a) == a \notin {"", "not a uri"}

Uri(a) ==
    CASE a = "/path"       -> [scheme |-> "none", authority |-> "none"]
      [] a = "a:80"        -> [scheme |-> "none", authority |-> "a:80"]
      [] a \in {"http://a:80", "HTTP://A:80"}
                           -> [scheme |-> "http", authority |-> "a:80"]
      [] a = "https://b"   -> [scheme |-> "https", authority |-> "b"]

(* validate_upstream.                                                      *)
ValidUpstreamAnyWeight(u) ==
    Parses(u.address) /\ Uri(u.address).authority # "none"

ValidUpstream(u) ==
    /\ Parses(u.address)
    /\ Uri(u.address).authority # "none"
    /\ u.weight # 0

(* SocketAddr: every address but "nowhere" parses.                         *)
Listen == {"127.0.0.1:8100", "0.0.0.0:8100", "127.0.0.1:9090", "nowhere"}
DefaultListen == "127.0.0.1:8100"

-----------------------------------------------------------------------------
(* The checks of into_runtime.                                             *)
ValidUpstreams(c) ==
    /\ c.upstreams # <<>>
    /\ \A i \in 1..Len(c.upstreams) : ValidUpstream(c.upstreams[i])
    /\ \A i, j \in 1..Len(c.upstreams) :
          i # j => Uri(c.upstreams[i].address) # Uri(c.upstreams[j].address)

ValidAddresses(c) ==
    /\ UnwrapOr(c.listen, DefaultListen) # "nowhere"
    /\ c.admin # <<>> =>
          /\ c.admin[1] # "nowhere"
          /\ c.admin[1] # UnwrapOr(c.listen, DefaultListen)

ValidLimits(c) ==
    /\ UnwrapOr(c.mask_max_body_size, Default) # 0
    /\ c.connect # 0 /\ c.request # 0
    /\ UnwrapOr(c.max_concurrent_requests, Default) # 0
    /\ UnwrapOr(c.max_connections, Default) # 0
    /\ UnwrapOr(c.header_read_timeout, Default) # 0

ValidRateLimit(c) ==
    c.rate_limit # <<>> =>
        c.rate_limit[1].requests_per_second # 0 /\ c.rate_limit[1].burst # 0

ValidHealthCheck(c) ==
    c.health_check # <<>> =>
        LET hc == c.health_check[1]
        IN  /\ hc.unhealthy_threshold # 0 /\ hc.healthy_threshold # 0
            /\ hc.interval # 0 /\ hc.timeout # 0
            /\ hc.path = "/health"

Accepts(c) ==
    /\ ValidUpstreams(c)
    /\ ValidAddresses(c)
    /\ c.blocked_headers = "names"
    /\ ValidLimits(c)
    /\ ValidRateLimit(c)
    /\ ValidHealthCheck(c)

(* The RuntimeConfig that an accepted file becomes.                        *)
IntoRuntime(c) ==
    LET threshold(field) ==
            IF c.health_check = <<>> THEN Default ELSE c.health_check[1][field]
    IN  [listen |-> UnwrapOr(c.listen, DefaultListen),
         admin_listen |-> c.admin,
         upstreams |-> [i \in 1..Len(c.upstreams) |->
                           [uri |-> Uri(c.upstreams[i].address),
                            weight |-> c.upstreams[i].weight]],
         max_body_size |-> UnwrapOr(c.max_body_size, Default),
         mask_max_body_size |-> UnwrapOr(c.mask_max_body_size, Default),
         connect_timeout |-> c.connect,
         request_timeout |-> c.request,
         max_concurrent_requests |-> UnwrapOr(c.max_concurrent_requests, Default),
         max_connections |-> UnwrapOr(c.max_connections, Default),
         header_read_timeout |-> UnwrapOr(c.header_read_timeout, Default),
         failure_threshold |-> threshold("unhealthy_threshold"),
         healthy_threshold |-> threshold("healthy_threshold"),
         health_check_cooldown |-> threshold("cooldown"),
         tls |-> c.tls,
         health_check |-> c.health_check,
         rate_limit |-> c.rate_limit,
         shutdown_timeout |-> UnwrapOr(c.shutdown_timeout, Default)]

-----------------------------------------------------------------------------
Number == {0, 1}
Option(S) == {<<>>} \cup {<<v>> : v \in S}
Upstream == [address : Address, weight : Number]

HealthCheck == [unhealthy_threshold : Number, healthy_threshold : Number,
                interval : Number, timeout : Number, cooldown : Number,
                path : {"/health", "health"}]

RateLimit == [requests_per_second : Number, burst : Number]

Values ==
    [listen |-> Option(Listen),
     admin |-> Option(Listen),
     upstreams |-> Option(Upstream) \cup {<<u, v>> : u, v \in Upstream},
     blocked_headers |-> {"names", "not names"},
     max_body_size |-> Option(Number),
     mask_max_body_size |-> Option(Number),
     connect |-> Number,
     request |-> Number,
     max_concurrent_requests |-> Option(Number),
     max_connections |-> Option(Number),
     header_read_timeout |-> Option(Number),
     tls |-> Option({"certificate and key"}),
     rate_limit |-> Option(RateLimit),
     health_check |-> Option(HealthCheck),
     shutdown_timeout |-> Option(Number)]

Smallest ==
    [f \in DOMAIN Values |->
        CASE f = "upstreams" -> << [address |-> "http://a:80", weight |-> 1] >>
          [] f = "blocked_headers" -> "names"
          [] f \in {"connect", "request"} -> 1
          [] OTHER -> <<>>]

(* Every optional part switched on.                                        *)
Full ==
    [Smallest EXCEPT
        !.admin = <<"127.0.0.1:9090">>,
        !.tls = <<"certificate and key">>,
        !.rate_limit = << [requests_per_second |-> 1, burst |-> 1] >>,
        !.health_check = << [unhealthy_threshold |-> 1, healthy_threshold |-> 1,
                             interval |-> 1, timeout |-> 1, cooldown |-> 1,
                             path |-> "/health"] >>]

FileInit == file \in {Smallest, Full} /\ edits = 0 /\ loaded = "none"

Edit(f) ==
    /\ loaded = "none"
    /\ edits < MaxEdits
    /\ \E v \in Values[f] : file' = [file EXCEPT ![f] = v]
    /\ edits' = edits + 1
    /\ UNCHANGED loaded

(* Config::load_from_file and into_runtime, in main.                       *)
Load ==
    /\ loaded = "none"
    /\ loaded' = IF Accepts(file) THEN "accepted" ELSE "refused"
    /\ UNCHANGED <<file, edits>>

-----------------------------------------------------------------------------
(* An accepted configuration is one that the rest of the proxy can run     *)
(* with: it meets the assumptions that the pool and the balancer           *)
(* (thresholds, weights, distinct backends), the server (limits), the rate *)
(* limiter (from_config) and the two listeners make.                       *)
AcceptedIsUsable ==
    loaded = "accepted" =>
        LET rt == IntoRuntime(file)
            N == Len(rt.upstreams)
        IN  /\ N > 0
            /\ \A i \in 1..N : rt.upstreams[i].weight > 0
            /\ \A i, j \in 1..N :
                  i # j => rt.upstreams[i].uri # rt.upstreams[j].uri
            /\ rt.failure_threshold > 0 /\ rt.healthy_threshold > 0
            /\ rt.max_connections > 0 /\ rt.max_concurrent_requests > 0
            /\ rt.connect_timeout > 0 /\ rt.request_timeout > 0
            /\ rt.header_read_timeout > 0 /\ rt.mask_max_body_size > 0
            /\ rt.rate_limit # <<>> =>
                  /\ rt.rate_limit[1].requests_per_second > 0
                  /\ rt.rate_limit[1].burst > 0
            /\ rt.admin_listen # <<rt.listen>>

=============================================================================
