---------------------------- MODULE ServerProofs ----------------------------
(***************************************************************************)
(* Proofs about main, the configuration it loads, and serve: for every     *)
(* number of edits to the file, and any number of clients, streams and     *)
(* permits.                                                                *)
(***************************************************************************)
EXTENDS Process, Server, FiniteSetTheorems, TLAPS

-----------------------------------------------------------------------------
(* main (module Process) and its configuration (module Config).            *)

(* Every field of the file holds one of its values.                        *)
Typed(c) ==
    /\ c = [f \in DOMAIN Values |-> c[f]]
    /\ \A f \in DOMAIN Values : c[f] \in Values[f]

FileOK == Typed(file)

Field == {"listen", "admin", "upstreams", "blocked_headers", "max_body_size",
          "mask_max_body_size", "connect", "request", "max_concurrent_requests",
          "max_connections", "header_read_timeout", "tls", "rate_limit",
          "health_check", "shutdown_timeout"}

UpstreamList == Option(Upstream) \cup {<<u, v>> : u, v \in Upstream}

LEMMA ValuesOf ==
    /\ DOMAIN Values = Field
    /\ Values["listen"] = Option(Listen) /\ Values["admin"] = Option(Listen)
    /\ Values["upstreams"] = UpstreamList
    /\ Values["blocked_headers"] = {"names", "not names"}
    /\ \A f \in {"max_body_size", "mask_max_body_size", "max_concurrent_requests",
                 "max_connections", "header_read_timeout", "shutdown_timeout"} :
           Values[f] = Option(Number)
    /\ Values["connect"] = Number /\ Values["request"] = Number
    /\ Values["tls"] = Option({"certificate and key"})
    /\ Values["rate_limit"] = Option(RateLimit)
    /\ Values["health_check"] = Option(HealthCheck)
PROOF
    BY DEF Values, Field, UpstreamList

LEMMA OptionalFields ==
    \A f \in Field \ {"upstreams", "blocked_headers", "connect", "request"} :
        \E S : Values[f] = Option(S)
PROOF
<1>1. Values["listen"] = Option(Listen) /\ Values["admin"] = Option(Listen)
    BY Zenon, ValuesOf
<1>2. /\ Values["tls"] = Option({"certificate and key"})
      /\ Values["rate_limit"] = Option(RateLimit)
      /\ Values["health_check"] = Option(HealthCheck)
    BY Zenon, ValuesOf
<1>3. \A f \in {"max_body_size", "mask_max_body_size", "max_concurrent_requests",
                "max_connections", "header_read_timeout", "shutdown_timeout"} :
          Values[f] = Option(Number)
    BY Zenon, ValuesOf
<1>4. QED
    BY Zenon, <1>1, <1>2, <1>3 DEF Field

(* Both files an edit may start from have their types.                     *)
LEMMA SmallestOK == Typed(Smallest)
PROOF
<1>1. \A S : <<>> \in Option(S)
    BY DEF Option
<1>2. << [address |-> "http://a:80", weight |-> 1] >> \in Option(Upstream)
    BY Zenon DEF Option, Upstream, Address, Number
<1>3. ASSUME NEW f \in Field PROVE Smallest[f] \in Values[f]
    <2>1. CASE f \in {"upstreams", "blocked_headers", "connect", "request"}
        <3>1. /\ Smallest["upstreams"] = << [address |-> "http://a:80", weight |-> 1] >>
              /\ Smallest["blocked_headers"] = "names"
              /\ Smallest["connect"] = 1 /\ Smallest["request"] = 1
            BY Zenon, ValuesOf DEF Smallest, Field
        <3>2. 1 \in Number
            BY DEF Number
        <3>3. Smallest["upstreams"] \in Values["upstreams"]
            <4>0. Option(Upstream) \subseteq UpstreamList
                BY DEF UpstreamList
            <4>1. Smallest["upstreams"] \in UpstreamList
                BY Zenon, <1>2, <3>1, <4>0
            <4>2. QED
                BY Zenon, <4>1, ValuesOf
        <3>4. Smallest["blocked_headers"] \in Values["blocked_headers"]
            BY Zenon, <3>1, ValuesOf
        <3>5. /\ Smallest["connect"] \in Values["connect"]
              /\ Smallest["request"] \in Values["request"]
            BY Zenon, <3>1, <3>2, ValuesOf
        <3>6. QED
            BY <2>1, <3>3, <3>4, <3>5
    <2>2. CASE f \in Field \ {"upstreams", "blocked_headers", "connect", "request"}
        <3>1. Smallest[f] = <<>>
            BY Zenon, <2>2, ValuesOf DEF Smallest, Field
        <3>2. \E S : Values[f] = Option(S)
            BY <2>2, OptionalFields
        <3>a. <<>> \in Values[f]
            BY <1>1, <3>2
        <3>3. QED
            BY <3>1, <3>a
    <2>3. QED
        BY <1>3, <2>1, <2>2
<1>4. QED
    BY Zenon, <1>3, ValuesOf DEF Typed, Smallest

LEMMA FullOK == Typed(Full)
PROOF
<1>1. <<"127.0.0.1:9090">> \in Option(Listen)
    BY DEF Option, Listen
<1>2. <<"certificate and key">> \in Option({"certificate and key"})
    BY DEF Option
<1>3. << [requests_per_second |-> 1, burst |-> 1] >> \in Option(RateLimit)
    BY Zenon DEF Option, RateLimit, Number
<1>4. << [unhealthy_threshold |-> 1, healthy_threshold |-> 1, interval |-> 1,
          timeout |-> 1, cooldown |-> 1, path |-> "/health"] >> \in Option(HealthCheck)
    BY Zenon DEF Option, HealthCheck, Number
<1>5. \A f \in Field : Smallest[f] \in Values[f]
    BY Zenon, SmallestOK, ValuesOf DEF Typed
<1>6. Smallest = [f \in Field |-> Smallest[f]]
    BY Zenon, SmallestOK, ValuesOf DEF Typed
<1>7. Full = [f \in Field |-> Full[f]]
    BY Zenon, <1>6 DEF Full
<1>8. ASSUME NEW f \in Field PROVE Full[f] \in Values[f]
    BY ZenonT(60), <1>1, <1>2, <1>3, <1>4, <1>5, <1>6, ValuesOf DEF Full, Field
<1>9. QED
    BY Zenon, <1>7, <1>8, ValuesOf DEF Typed

LEMMA EditKeeps ==
    ASSUME FileOK, NEW f \in DOMAIN Values, Edit(f)
    PROVE  FileOK'
PROOF
<1>1. PICK v \in Values[f] : file' = [file EXCEPT ![f] = v]
    BY Zenon DEF Edit
<1>2. QED
    BY <1>1 DEF FileOK, Typed

(* What an accepted file holds, field by field.                            *)
LEMMA OptionNumber ==
    ASSUME NEW o \in Option(Number), UnwrapOr(o, Default) # 0
    PROVE  UnwrapOr(o, Default) > 0
PROOF
    BY DEF Option, Number, UnwrapOr, Default

(* The parts of the running configuration.                                 *)
LEMMA RuntimeOf ==
    /\ Runtime.listen = UnwrapOr(file.listen, DefaultListen)
    /\ Runtime.admin_listen = file.admin /\ Runtime.tls = file.tls
    /\ Runtime.rate_limit = file.rate_limit
    /\ Runtime.health_check = file.health_check
    /\ Runtime.upstreams = [i \in 1..Len(file.upstreams) |->
                               [uri |-> Uri(file.upstreams[i].address),
                                weight |-> file.upstreams[i].weight]]
    /\ Runtime.mask_max_body_size = UnwrapOr(file.mask_max_body_size, Default)
    /\ Runtime.connect_timeout = file.connect /\ Runtime.request_timeout = file.request
    /\ Runtime.max_concurrent_requests = UnwrapOr(file.max_concurrent_requests, Default)
    /\ Runtime.max_connections = UnwrapOr(file.max_connections, Default)
    /\ Runtime.header_read_timeout = UnwrapOr(file.header_read_timeout, Default)
    /\ Runtime.failure_threshold = IF file.health_check = <<>> THEN Default
                                   ELSE file.health_check[1].unhealthy_threshold
    /\ Runtime.healthy_threshold = IF file.health_check = <<>> THEN Default
                                   ELSE file.health_check[1].healthy_threshold
PROOF
    BY Zenon DEF IntoRuntime, Runtime

(* Every field of the file, by its name.                                   *)
LEMMA FieldsOf ==
    ASSUME FileOK
    PROVE  /\ file.listen \in Option(Listen) /\ file.admin \in Option(Listen)
           /\ file.upstreams \in UpstreamList
           /\ file.connect \in Number /\ file.request \in Number
           /\ file.mask_max_body_size \in Option(Number)
           /\ file.max_concurrent_requests \in Option(Number)
           /\ file.max_connections \in Option(Number)
           /\ file.header_read_timeout \in Option(Number)
           /\ file.rate_limit \in Option(RateLimit)
           /\ file.health_check \in Option(HealthCheck)
PROOF
<1>1. ASSUME NEW f \in Field PROVE file[f] \in Values[f]
    BY Zenon, <1>1, ValuesOf DEF FileOK, Typed
<1>2. file["listen"] \in Values["listen"] /\ file["admin"] \in Values["admin"]
    BY <1>1 DEF Field
<1>3. file["upstreams"] \in Values["upstreams"]
    BY <1>1 DEF Field
<1>4. file["connect"] \in Values["connect"] /\ file["request"] \in Values["request"]
    BY <1>1 DEF Field
<1>5. /\ file["mask_max_body_size"] \in Values["mask_max_body_size"]
      /\ file["max_concurrent_requests"] \in Values["max_concurrent_requests"]
      /\ file["max_connections"] \in Values["max_connections"]
      /\ file["header_read_timeout"] \in Values["header_read_timeout"]
    BY <1>1 DEF Field
<1>6. /\ file["rate_limit"] \in Values["rate_limit"]
      /\ file["health_check"] \in Values["health_check"]
    BY <1>1 DEF Field
<1>a. /\ file["listen"] \in Option(Listen) /\ file["admin"] \in Option(Listen)
      /\ file["upstreams"] \in UpstreamList
      /\ file["connect"] \in Number /\ file["request"] \in Number
      /\ file["rate_limit"] \in Option(RateLimit)
      /\ file["health_check"] \in Option(HealthCheck)
    BY Zenon, <1>2, <1>3, <1>4, <1>6, ValuesOf
<1>b. /\ file["mask_max_body_size"] \in Option(Number)
      /\ file["max_concurrent_requests"] \in Option(Number)
      /\ file["max_connections"] \in Option(Number)
      /\ file["header_read_timeout"] \in Option(Number)
    BY Zenon, <1>5, ValuesOf
<1>7. QED
    BY <1>a, <1>b

(* Everything the checks of into_runtime promise to the rest.              *)
LEMMA UsableFile == FileOK /\ (loaded = "accepted" => Accepts(file)) => AcceptedIsUsable
PROOF
<1> SUFFICES ASSUME FileOK, loaded = "accepted", Accepts(file) PROVE AcceptedIsUsable
    BY SMTT(30) DEF AcceptedIsUsable
<1>2. /\ Runtime.max_connections > 0 /\ Runtime.max_concurrent_requests > 0
      /\ Runtime.connect_timeout > 0 /\ Runtime.request_timeout > 0
      /\ Runtime.header_read_timeout > 0 /\ Runtime.mask_max_body_size > 0
    <2>1. ValidLimits(file)
        BY DEF Accepts
    <2>2. file.connect > 0 /\ file.request > 0
        BY <2>1, FieldsOf DEF ValidLimits, Number
    <2>3. /\ UnwrapOr(file.max_connections, Default) > 0
          /\ UnwrapOr(file.max_concurrent_requests, Default) > 0
          /\ UnwrapOr(file.header_read_timeout, Default) > 0
          /\ UnwrapOr(file.mask_max_body_size, Default) > 0
        BY <2>1, FieldsOf, OptionNumber DEF ValidLimits
    <2>4. QED
        BY SMTT(30), <2>2, <2>3, RuntimeOf
<1>3. Runtime.rate_limit # <<>> => /\ Runtime.rate_limit[1].requests_per_second > 0
                                   /\ Runtime.rate_limit[1].burst > 0
    <2>1. ValidRateLimit(file) /\ file.rate_limit \in Option(RateLimit)
        BY FieldsOf DEF Accepts
    <2>2. file.rate_limit # <<>> => file.rate_limit[1] \in RateLimit
        BY <2>1 DEF Option
    <2>3. QED
        BY SMTT(30), <2>1, <2>2, RuntimeOf DEF ValidRateLimit, RateLimit, Number
<1>4. Runtime.failure_threshold > 0 /\ Runtime.healthy_threshold > 0
    <2>1. ValidHealthCheck(file) /\ file.health_check \in Option(HealthCheck)
        BY FieldsOf DEF Accepts
    <2>2. file.health_check # <<>> => file.health_check[1] \in HealthCheck
        BY <2>1 DEF Option
    <2>3. file.health_check # <<>> => /\ file.health_check[1].unhealthy_threshold > 0
                                      /\ file.health_check[1].healthy_threshold > 0
        BY <2>1, <2>2 DEF ValidHealthCheck, HealthCheck, Number
    <2>4. QED
        BY <2>3, RuntimeOf DEF Default
<1>5. Runtime.admin_listen # <<Runtime.listen>>
    <2>1. ValidAddresses(file)
        BY DEF Accepts
    <2>2. QED
        BY SMTT(30), <2>1, RuntimeOf DEF ValidAddresses
<1>6. /\ Len(Runtime.upstreams) = Len(file.upstreams) /\ Len(file.upstreams) > 0
      /\ \A i \in 1..Len(file.upstreams) : file.upstreams[i] \in Upstream
    <2>1. PICK ups \in UpstreamList : ups = file.upstreams
        BY FieldsOf
    <2>2. ups # <<>>
        BY <2>1 DEF Accepts, ValidUpstreams
    <2>3. Len(ups) \in Nat /\ Len(ups) > 0 /\ \A i \in 1..Len(ups) : ups[i] \in Upstream
        <3>1. CASE \E u \in Upstream : ups = <<u>>
            BY <3>1
        <3>2. CASE \E u, v \in Upstream : ups = <<u, v>>
            BY <3>2
        <3>3. QED
            BY <2>1, <2>2, <3>1, <3>2 DEF Option, UpstreamList
    <2>4. Len(Runtime.upstreams) = Len(ups)
        BY SMTT(30), <2>1, <2>3, RuntimeOf
    <2>5. QED
        BY <2>1, <2>3, <2>4
<1>7. /\ \A i \in 1..Len(Runtime.upstreams) : Runtime.upstreams[i].weight > 0
      /\ \A i, j \in 1..Len(Runtime.upstreams) :
            i # j => Runtime.upstreams[i].uri # Runtime.upstreams[j].uri
    <2>1. ValidUpstreams(file)
        BY DEF Accepts
    <2>2. \A i \in 1..Len(file.upstreams) :
              /\ Runtime.upstreams[i].uri = Uri(file.upstreams[i].address)
              /\ Runtime.upstreams[i].weight = file.upstreams[i].weight
        BY SMTT(60), RuntimeOf
    <2>3. \A i \in 1..Len(file.upstreams) : file.upstreams[i].weight > 0
        BY SMTT(60), <1>6, <2>1 DEF ValidUpstreams, ValidUpstream, Upstream, Number
    <2>4. QED
        BY SMTT(60), <1>6, <2>1, <2>2, <2>3 DEF ValidUpstreams
<1>8. QED
    BY SMTT(30), <1>2, <1>3, <1>4, <1>5, <1>6, <1>7 DEF AcceptedIsUsable, Runtime

-----------------------------------------------------------------------------
(* What is listening and running at each stage of main.                    *)
Tasks(kind) ==
    {k \in kind : \/ k = "checker" /\ Runtime.health_check # <<>>
                  \/ k = "cleanup" /\ Runtime.rate_limit # <<>>
                  \/ k = "admin" /\ Runtime.admin_listen # <<>>}

AdminAddress == IF Runtime.admin_listen = <<>> THEN {} ELSE {Runtime.admin_listen[1]}

StageInv ==
    /\ stage \in {"off"} \cup Starting \cup {"serving", "draining", "aborting"} \cup Ended
    /\ stage = "off" <=> loaded = "none"
    /\ loaded = "accepted" => Accepts(file)
    /\ stage \in Starting \cup {"serving", "draining", "aborting"} => loaded = "accepted"
    /\ stage \in {"off", "tls", "limiter", "bind"} => bound = {} /\ running = {}
    /\ stage = "checker" => bound = {Runtime.listen} /\ running = {}
    /\ stage = "cleanup" => bound = {Runtime.listen} /\ running = Tasks({"checker"})
    /\ stage = "admin" => /\ bound = {Runtime.listen}
                          /\ running = Tasks({"checker", "cleanup"})
    /\ stage \in {"serving", "draining"} =>
          /\ bound = {Runtime.listen} \cup AdminAddress
          /\ running = Tasks({"checker", "cleanup", "admin"})
    /\ StartFailsFromOutside

ProcessInv == FileOK /\ StageInv

(* The limiter is never refused what the checks have accepted.             *)
LEMMA LimiterAccepted ==
    ASSUME Accepts(file)
    PROVE  Runtime.rate_limit # <<>> => FromConfig(Runtime.rate_limit[1])
PROOF
    BY Zenon, RuntimeOf DEF Accepts, ValidRateLimit, FromConfig

LEMMA OwnStepInv == ProcessInv /\ OwnStep => ProcessInv'
PROOF
<1> SUFFICES ASSUME ProcessInv, OwnStep PROVE ProcessInv'
    OBVIOUS
<1> USE DEF Starting, Ended
<1>0. /\ file' = file /\ FileOK' /\ Runtime' = Runtime /\ (Accepts(file))' = Accepts(file)
      /\ AdminAddress' = AdminAddress
      /\ \A kind : Tasks(kind)' = Tasks(kind)
    <2>1. file' = file
        BY Zenon DEF OwnStep, Configure, BuildTls, BuildLimiter, BindListener, SpawnChecker,
           SpawnCleanup, SpawnAdmin, PollShutdown, Drained, AbortTasks, Load, fileVars
    <2>2. Runtime' = Runtime
        BY <2>1 DEF Runtime
    <2>3. QED
        BY SMTT(30), <2>1, <2>2 DEF ProcessInv, FileOK, AdminAddress, Tasks
<1>1. CASE Configure
    BY SMTT(30), <1>0, <1>1 DEF Configure, Load, EndAs, ProcessInv, StageInv, StartFailsFromOutside
<1>2. CASE BuildTls
    BY SMTT(30), <1>0, <1>2 DEF BuildTls, fileVars, EndAs, ProcessInv, StageInv, StartFailsFromOutside
<1>3. CASE BuildLimiter
    <2>1. Accepts(file)
        BY SMTT(30), <1>3 DEF BuildLimiter, ProcessInv, StageInv
    <2>2. stage' = "bind" /\ UNCHANGED <<bound, running, loaded, hindered>>
        BY Zenon, <1>3, <2>1, LimiterAccepted DEF BuildLimiter
    <2>3. QED
        BY SMTT(30), <1>0, <1>3, <2>2 DEF BuildLimiter, ProcessInv, StageInv, StartFailsFromOutside
<1>4. CASE BindListener
    BY Zenon, <1>0, <1>4 DEF BindListener, Bind, fileVars, EndAs, ProcessInv, StageInv,
       StartFailsFromOutside
<1>5. CASE SpawnChecker
    <2>1. running' = Tasks({"checker"})
        BY SMTT(30), <1>5 DEF SpawnChecker, ProcessInv, StageInv, Tasks
    <2>2. QED
        BY Zenon, <1>0, <1>5, <2>1 DEF SpawnChecker, ProcessInv, StageInv, StartFailsFromOutside
<1>6. CASE SpawnCleanup
    <2>1. running' = Tasks({"checker", "cleanup"})
        BY SMTT(30), <1>6 DEF SpawnCleanup, ProcessInv, StageInv, Tasks
    <2>2. QED
        BY Zenon, <1>0, <1>6, <2>1 DEF SpawnCleanup, ProcessInv, StageInv, StartFailsFromOutside
<1>7. CASE SpawnAdmin
    <2>0. /\ stage = "admin" /\ loaded = "accepted" /\ UNCHANGED loaded /\ Accepts(file)
          /\ bound = {Runtime.listen} /\ running = Tasks({"checker", "cleanup"})
        BY Zenon, <1>7 DEF SpawnAdmin, ProcessInv, StageInv, fileVars
    <2>1. CASE stage' = "serving"
        <3>1. bound' = bound \cup AdminAddress
            BY <1>7, <2>1 DEF SpawnAdmin, Bind, EndAs, AdminAddress
        <3>2. running' = running \cup Tasks({"admin"})
            BY <1>7, <2>1 DEF SpawnAdmin, Bind, EndAs, Tasks
        <3>3. running' = Tasks({"checker", "cleanup", "admin"})
            BY <2>0, <3>2 DEF Tasks
        <3>4. QED
            BY SMTT(30), <1>0, <2>0, <2>1, <3>1, <3>3 DEF ProcessInv, StageInv, StartFailsFromOutside
    <2>2. CASE stage' # "serving"
        <3>1. /\ stage' = "failed" /\ Runtime.admin_listen # <<>>
              /\ \/ hindered'
                 \/ Clash(Runtime.admin_listen[1], Runtime.listen)
            BY Zenon, <1>7, <2>0, <2>2 DEF SpawnAdmin, Bind, EndAs
        <3>2. StartFailsFromOutside'
            BY <1>0, <3>1 DEF StartFailsFromOutside, Clash
        <3>3. QED
            BY SMTT(30), <1>0, <2>0, <3>1, <3>2 DEF ProcessInv, StageInv
    <2>3. QED
        BY <2>1, <2>2
<1>8. CASE PollShutdown
    BY SMTT(30), <1>0, <1>8 DEF PollShutdown, ProcessInv, StageInv, StartFailsFromOutside
<1>9. CASE Drained
    BY SMTT(30), <1>0, <1>9 DEF Drained, ProcessInv, StageInv, StartFailsFromOutside
<1>10. CASE AbortTasks
    BY SMTT(30), <1>0, <1>10 DEF AbortTasks, EndAs, ProcessInv, StageInv, StartFailsFromOutside
<1>11. QED
    BY <1>1, <1>2, <1>3, <1>4, <1>5, <1>6, <1>7, <1>8, <1>9, <1>10 DEF OwnStep

LEMMA ProcessStep == ProcessInv /\ [MainNext]_mainVars => ProcessInv'
PROOF
<1> SUFFICES ASSUME ProcessInv, [MainNext]_mainVars PROVE ProcessInv'
    OBVIOUS
<1> USE DEF Starting, Ended
<1>a. ASSUME file' = file
      PROVE  /\ Runtime' = Runtime /\ AdminAddress' = AdminAddress /\ FileOK'
             /\ \A kind : Tasks(kind)' = Tasks(kind)
             /\ Accepts(file)' = Accepts(file)
    <2>1. Runtime' = Runtime
        BY <1>a DEF Runtime
    <2>2. QED
        BY SMTT(30), <1>a, <2>1 DEF ProcessInv, FileOK, AdminAddress, Tasks
<1>1. CASE OwnStep
    BY <1>1, OwnStepInv
<1>2. CASE Signal
    <2>1. file' = file
        BY <1>2 DEF Signal
    <2>2. QED
        BY Zenon, <1>2, <1>a, <2>1
        DEF Signal, EndAs, ProcessInv, StageInv, StartFailsFromOutside
<1>3. ASSUME stage = "off", NEW f \in DOMAIN Values, Edit(f), UNCHANGED processVars
      PROVE  ProcessInv'
    <2>1. FileOK'
        BY <1>3, EditKeeps DEF ProcessInv
    <2>2. QED
        BY SMTT(30), <1>3, <2>1 DEF Edit, processVars, ProcessInv, StageInv, StartFailsFromOutside
<1>4. CASE UNCHANGED mainVars
    BY SMTT(30), <1>4, <1>a DEF mainVars, ProcessInv, StageInv, StartFailsFromOutside
<1>5. QED
    BY <1>1, <1>2, <1>3, <1>4 DEF MainNext

LEMMA ProcessAlways == MainSpec => []ProcessInv
PROOF
<1>1. MainInit => ProcessInv
    BY SMTT(30), SmallestOK, FullOK DEF MainInit, FileInit, ProcessInv, FileOK, StageInv,
       StartFailsFromOutside, Starting, Ended
<1>2. QED
    BY <1>1, ProcessStep, PTL DEF MainSpec

(* Whatever was edited, a file that Config::into_runtime accepts is one    *)
(* that the pool, the balancer, the server, the limiter and the listeners  *)
(* can run with.                                                           *)
THEOREM AcceptedUsable == MainSpec => []AcceptedIsUsable
PROOF
<1>1. ProcessInv => AcceptedIsUsable
    BY UsableFile DEF ProcessInv, StageInv
<1>2. QED
    BY <1>1, ProcessAlways, PTL

(* An accepted file that main cannot start with has met an obstacle        *)
(* outside itself or two clashing listen addresses: in particular          *)
(* from_config never refuses it.                                           *)
THEOREM StartSound == MainSpec => []StartFailsFromOutside
PROOF
<1>1. ProcessInv => StartFailsFromOutside
    BY DEF ProcessInv, StageInv
<1>2. QED
    BY <1>1, ProcessAlways, PTL

(* From the first connection to the end of the drain everything that was   *)
(* configured in main runs beside the server.                              *)
THEOREM TasksServe == MainSpec => []ServedWithTasks
PROOF
<1>1. ProcessInv => ServedWithTasks
    BY SMTT(30) DEF ProcessInv, StageInv, ServedWithTasks, Tasks, AdminAddress
<1>2. QED
    BY <1>1, ProcessAlways, PTL

(* Once shutdown_signal() has caught a signal, no later one cuts the drain *)
(* short: the handlers it installed stay until main returns.               *)
CatchingInv == stage \in {"draining", "aborting"} => catching

THEOREM DrainHeeded == MainSpec => DrainIsHeeded
PROOF
<1>1. MainInit => CatchingInv
    BY DEF MainInit, CatchingInv
<1>2. CatchingInv /\ [MainNext]_mainVars => CatchingInv'
    <2> SUFFICES ASSUME CatchingInv, [MainNext]_mainVars PROVE CatchingInv'
        OBVIOUS
    <2>1. CASE OwnStep
        BY Zenon, <2>1 DEF OwnStep, Configure, BuildTls, BuildLimiter, BindListener, Bind,
           SpawnChecker, SpawnCleanup, SpawnAdmin, PollShutdown, Drained, AbortTasks,
           EndAs, CatchingInv
    <2>2. CASE ~OwnStep
        BY <2>2 DEF MainNext, Signal, EndAs, CatchingInv, processVars, mainVars
    <2>3. QED
        BY <2>1, <2>2
<1>3. CatchingInv /\ [MainNext]_mainVars
      => [stage = "draining" => stage' \in {"draining", "aborting"}]_mainVars
    BY Zenon DEF CatchingInv, MainNext, OwnStep, Configure, BuildTls, BuildLimiter, BindListener,
       SpawnChecker, SpawnCleanup, SpawnAdmin, PollShutdown, Drained, AbortTasks, Signal,
       processVars
<1>4. QED
    BY <1>1, <1>2, <1>3, PTL DEF MainSpec, DrainIsHeeded

-----------------------------------------------------------------------------
(* The two semaphores of serve lose no permit and release none twice.      *)

LEMMA FiniteSlots ==
    ASSUME NEW S, S \subseteq Conn \/ S \subseteq Request
    PROVE  IsFiniteSet(S) /\ Cardinality(S) \in Nat
PROOF
<1>1. IsFiniteSet(Request)
    BY SlotAssumption, FS_Product DEF Request
<1>2. IsFiniteSet(S)
    BY <1>1, SlotAssumption, FS_Subset
<1>3. QED
    BY <1>2, FS_CardinalityType

(* Where a state has its type but for the limits on the permits.           *)
Shape ==
    /\ loop \in {"accepting", "draining", "aborting", "stopped"}
    /\ conn \in [Conn -> {"closed", "waiting", "handshake", "serving"}]
    /\ proto \in [Conn -> Protocol]
    /\ watchers \subseteq Conn
    /\ closing \subseteq {c \in Conn : conn[c] = "serving"}
    /\ gone \subseteq Conn
    /\ req \in [Request -> {"idle", "handling", "streaming", "error"}]
    /\ connPermits \in Nat /\ reqPermits \in Nat

(* That the permits stay within the limits follows from conservation, so   *)
(* the inductive invariant leaves it out.                                  *)
ServerInv == Shape /\ SlotsConserved /\ PermitsConserved

LEMMA InvType == ServerInv => TypeOK
PROOF
<1> SUFFICES ASSUME ServerInv PROVE TypeOK
    OBVIOUS
<1>1. Cardinality(Live) \in Nat /\ Cardinality(Handling) \in Nat
    BY SMTT(30), FiniteSlots DEF Live, Handling
<1>2. connPermits \in 0..MaxConnections /\ reqPermits \in 0..MaxRequests
    BY <1>1, LimitAssumption DEF ServerInv, Shape, SlotsConserved, PermitsConserved
<1>3. QED
    BY <1>2 DEF ServerInv, Shape, TypeOK

-----------------------------------------------------------------------------
(* However the task of a connection ends.                                  *)
LEMMA EndTaskConserves ==
    ASSUME ServerInv, NEW c \in Live, EndTask(c), UNCHANGED loop, gone' \subseteq Conn
    PROVE  ServerInv'
PROOF
<1> DEFINE dropped == IF proto[c] = "h1" THEN RequestsOf(c) ELSE {}
           N == Cardinality(dropped \cap Handling)
<1>1. /\ conn' = [conn EXCEPT ![c] = "closed"]
      /\ watchers' = watchers \ {c} /\ closing' = closing \ {c}
      /\ connPermits' = connPermits + 1
      /\ req' = [r \in Request |-> IF r \in dropped THEN "idle" ELSE req[r]]
      /\ reqPermits' = reqPermits + N
      /\ proto' = proto
    BY DEF EndTask
<1>2. dropped \subseteq Request
    BY SMTT(30) DEF RequestsOf
<1> HIDE DEF dropped
<1>3. IsFiniteSet(Live) /\ Cardinality(Live) \in Nat
    BY FiniteSlots DEF Live
<1>4. IsFiniteSet(Handling) /\ Cardinality(Handling) \in Nat
    BY FiniteSlots DEF Handling
<1>5. N \in Nat
    BY <1>2, FiniteSlots
<1>6. SlotsConserved'
    <2>1. Live' = Live \ {c}
        BY <1>1 DEF Live, ServerInv, Shape
    <2>2. Cardinality(Live') = Cardinality(Live) - 1
        BY <1>3, <2>1, FS_RemoveElement
    <2>3. QED
        BY SMTT(30), <1>1, <1>3, <2>2, LimitAssumption DEF ServerInv, Shape, SlotsConserved
<1>7. PermitsConserved'
    <2>1. Handling' = Handling \ dropped
        BY <1>1, <1>2 DEF Handling
    <2>2. Handling \cap dropped = dropped \cap Handling
        OBVIOUS
    <2>3. Cardinality(Handling') = Cardinality(Handling) - N
        <3> DEFINE H == Handling
        <3>1. IsFiniteSet(H)
            BY <1>4
        <3> HIDE DEF H
        <3>2. Cardinality(H \ dropped) = Cardinality(H) - Cardinality(H \cap dropped)
            BY Zenon, <3>1, FS_Difference
        <3>3. QED
            BY <2>1, <2>2, <3>2 DEF H
    <2> HIDE DEF N
    <2>4. QED
        BY <1>1, <1>4, <1>5, <2>3, LimitAssumption
        DEF ServerInv, Shape, PermitsConserved
<1>8. Shape'
    <2> HIDE DEF N
    <2>1. connPermits' \in Nat /\ reqPermits' \in Nat
        BY <1>1, <1>5 DEF ServerInv, Shape
    <2>2. /\ closing' \subseteq {d \in Conn : conn'[d] = "serving"}
          /\ watchers' \subseteq Conn
        BY <1>1 DEF ServerInv, Shape
    <2>3. QED
        BY Zenon, <1>1, <2>1, <2>2 DEF ServerInv, Shape
<1>9. QED
    BY <1>6, <1>7, <1>8 DEF ServerInv

(* A request that neither enters nor leaves handle_request, or does with   *)
(* its permit.                                                             *)
LEMMA RequestConserves ==
    ASSUME ServerInv, NEW r \in Request, RequestStep(r)
    PROVE  ServerInv'
PROOF
<1>1. IsFiniteSet(Handling) /\ Cardinality(Handling) \in Nat
    BY FiniteSlots DEF Handling
<1>2. PICK s \in {"idle", "handling", "streaming", "error"} : SetRequest(r, s)
    BY SMTT(30) DEF RequestStep, StartRequest, FinishRequest, EndResponse, CancelRequest
<1>3. req' = [req EXCEPT ![r] = s]
    BY <1>2 DEF SetRequest
<1>4. UNCHANGED <<loop, conn, proto, watchers, closing, gone, connPermits>>
    BY Zenon DEF RequestStep, StartRequest, FinishRequest, EndResponse, CancelRequest
<1>5. SlotsConserved'
    BY <1>4 DEF ServerInv, SlotsConserved, Live
<1>6. CASE s = "handling"
    <2>1. req[r] # "handling" /\ reqPermits' = reqPermits - 1 /\ reqPermits > 0
        <3>1. req'[r] = "handling"
            BY <1>3, <1>6 DEF ServerInv, Shape
        <3>2. QED
            BY SMTT(30), <3>1 DEF RequestStep, StartRequest, FinishRequest, EndResponse,
               CancelRequest, SetRequest, ServerInv, Shape
    <2>2. Handling' = Handling \cup {r}
        BY <1>3, <1>6 DEF Handling, ServerInv, Shape
    <2>3. Cardinality(Handling') = Cardinality(Handling) + 1
        <3>1. r \notin Handling
            BY <2>1 DEF Handling
        <3>2. QED
            BY Zenon, <1>1, <2>2, <3>1, FS_AddElement
    <2>4. QED
        BY SMTT(30), <1>1, <1>3, <1>4, <1>5, <2>1, <2>3, LimitAssumption
        DEF ServerInv, Shape, PermitsConserved
<1>7. CASE s # "handling" /\ req[r] = "handling"
    <2>1. reqPermits' = reqPermits + 1
        BY SMTT(30), <1>7 DEF RequestStep, StartRequest, FinishRequest, EndResponse,
           CancelRequest
    <2>2. Handling' = Handling \ {r}
        BY <1>3, <1>7 DEF Handling, ServerInv, Shape
    <2>3. Cardinality(Handling') = Cardinality(Handling) - 1
        <3>1. r \in Handling
            BY <1>7 DEF Handling
        <3>2. QED
            BY Zenon, <1>1, <2>2, <3>1, FS_RemoveElement
    <2>4. QED
        BY SMTT(30), <1>1, <1>3, <1>4, <1>5, <2>1, <2>3, LimitAssumption
        DEF ServerInv, Shape, PermitsConserved
<1>8. CASE s # "handling" /\ req[r] # "handling"
    <2>1. req'[r] # "handling"
        BY <1>3, <1>8 DEF ServerInv, Shape
    <2>2. reqPermits' = reqPermits
        BY SMTT(30), <1>8, <2>1 DEF RequestStep, StartRequest, FinishRequest, EndResponse,
           CancelRequest, SetRequest, ServerInv, Shape
    <2>3. Handling' = Handling
        BY <1>3, <1>8 DEF Handling, ServerInv, Shape
    <2>4. QED
        BY SMTT(30), <1>3, <1>4, <1>5, <2>2, <2>3 DEF ServerInv, Shape, PermitsConserved
<1>9. QED
    BY <1>6, <1>7, <1>8

(* The steps that leave the tasks and the requests as they are.            *)
LEMMA LoopConserves ==
    ASSUME ServerInv, UNCHANGED <<req, connPermits, reqPermits>>, Live' = Live, Shape'
    PROVE  ServerInv'
PROOF
    BY DEF ServerInv, SlotsConserved, PermitsConserved, Handling

LEMMA ReturnConserves ==
    ASSUME ServerInv, ReturnFromServe
    PROVE  ServerInv'
PROOF
<1>1. Live' = Live
    BY DEF ReturnFromServe, Live, ServerInv, Shape
<1>2. Shape'
    BY DEF ReturnFromServe, ServerInv, Shape
<1>3. QED
    BY <1>1, <1>2, LoopConserves DEF ReturnFromServe

(* The accept loop takes one permit for each task it spawns.               *)
LEMMA AcceptConserves ==
    ASSUME ServerInv, NEW c \in Conn, Accept(c)
    PROVE  ServerInv'
PROOF
<1>1. CASE connPermits = 0
    <2>1. conn' = [conn EXCEPT ![c] = "closed"]
          /\ UNCHANGED <<loop, proto, watchers, closing, gone, req, connPermits,
                         reqPermits>>
        BY <1>1 DEF Accept
    <2>2. Live' = Live
        BY SMTT(30), <2>1 DEF Accept, Live, ServerInv, Shape
    <2>3. Shape'
        BY <2>1 DEF Accept, ServerInv, Shape
    <2>4. QED
        BY <2>1, <2>2, <2>3, LoopConserves
<1>2. CASE connPermits > 0
    <2>1. /\ conn' = [conn EXCEPT ![c] = IF Tls THEN "handshake" ELSE "serving"]
          /\ connPermits' = connPermits - 1 /\ conn[c] = "waiting"
          /\ UNCHANGED <<loop, closing, gone, req, reqPermits>>
          /\ watchers' = watchers \cup {c} /\ proto' \in [Conn -> Protocol]
        BY SMTT(30), <1>2 DEF Accept, SpawnTask, ServerInv, Shape
    <2>2. Live' = Live \cup {c} /\ c \notin Live
        BY <2>1 DEF Live, ServerInv, Shape
    <2>3. IsFiniteSet(Live) /\ Cardinality(Live) \in Nat
        BY FiniteSlots DEF Live
    <2>4. Cardinality(Live') = Cardinality(Live) + 1
        BY <2>2, <2>3, FS_AddElement
    <2>5. SlotsConserved'
        BY SMTT(30), <2>1, <2>3, <2>4, LimitAssumption DEF ServerInv, Shape, SlotsConserved
    <2>6. Shape'
        BY SMTT(30), <1>2, <2>1 DEF ServerInv, Shape
    <2>7. QED
        BY <2>1, <2>5, <2>6 DEF ServerInv, PermitsConserved, Handling
<1>3. QED
    BY SMTT(30), <1>1, <1>2 DEF ServerInv, Shape

LEMMA ConnConserves ==
    ASSUME ServerInv, NEW c \in Conn, ConnStep(c)
    PROVE  ServerInv'
PROOF
<1>1. CASE Connect(c) \/ HandshakeDone(c) \/ NoticeShutdown(c)
    <2>1. Live' = Live
        BY SMTT(30), <1>1 DEF Connect, HandshakeDone, NoticeShutdown, Live, ServerInv, Shape
    <2>2. Shape'
        BY SMTT(30), <1>1 DEF Connect, HandshakeDone, NoticeShutdown, ServerInv, Shape
    <2>3. QED
        BY <1>1, <2>1, <2>2, LoopConserves DEF Connect, HandshakeDone, NoticeShutdown
<1>2. CASE Accept(c)
    BY <1>2, AcceptConserves
<1>3. CASE HandshakeFailed(c) \/ ConnectionLost(c) \/ CloseDrained(c) \/ AbortTask(c)
    <2>1. c \in Live /\ EndTask(c) /\ UNCHANGED loop /\ gone' \subseteq Conn
        BY <1>3 DEF HandshakeFailed, ConnectionLost, CloseDrained, AbortTask, Live,
           ServerInv, Shape
    <2>2. QED
        BY <2>1, EndTaskConserves
<1>4. QED
    BY <1>1, <1>2, <1>3 DEF ConnStep

-----------------------------------------------------------------------------
LEMMA ServerInvariant == Spec => []ServerInv
PROOF
<1>1. Init => ServerInv
    <2> SUFFICES ASSUME Init PROVE ServerInv
        OBVIOUS
    <2>1. Live = {} /\ Handling = {}
        BY DEF Init, Live, Handling
    <2>2. Cardinality(Live) = 0 /\ Cardinality(Handling) = 0
        BY <2>1, FS_EmptySet
    <2>3. QED
        BY <2>2, LimitAssumption DEF Init, ServerInv, Shape, SlotsConserved,
           PermitsConserved, Protocol
<1>2. ServerInv /\ [Next]_vars => ServerInv'
    <2> SUFFICES ASSUME ServerInv, [Next]_vars PROVE ServerInv'
        OBVIOUS
    <2>1. ASSUME NEW c \in Conn, ConnStep(c) PROVE ServerInv'
        BY <2>1, ConnConserves
    <2>2. ASSUME NEW r \in Request, RequestStep(r) PROVE ServerInv'
        BY <2>2, RequestConserves
    <2>3. CASE Shutdown \/ DrainTimeout
        <3>1. Live' = Live /\ Shape' /\ UNCHANGED <<req, connPermits, reqPermits>>
            BY SMTT(30), <2>3 DEF Shutdown, DrainTimeout, Live, ServerInv, Shape
        <3>2. QED
            BY <3>1, LoopConserves
    <2>4. CASE DrainComplete \/ AbortComplete
        BY <2>4, ReturnConserves DEF DrainComplete, AbortComplete
    <2>5. CASE UNCHANGED vars
        BY SMTT(30), <2>5 DEF vars, ServerInv, Shape, SlotsConserved, PermitsConserved, Live,
           Handling
    <2>6. QED
        BY <2>1, <2>2, <2>3, <2>4, <2>5 DEF Next
<1>3. QED
    BY <1>1, <1>2, PTL DEF Spec

(* The state of serve keeps its type; the permits stay within the limits.  *)
THEOREM ServerTypeCorrect == Spec => []TypeOK
PROOF
    BY ServerInvariant, InvType, PTL

(* max_connections neither leaks away nor is exceeded.                     *)
THEOREM SlotsNeverLeak == Spec => []SlotsConserved
PROOF
    BY ServerInvariant, PTL DEF ServerInv

(* max_concurrent_requests neither leaks away nor is exceeded.             *)
THEOREM PermitsNeverLeak == Spec => []PermitsConserved
PROOF
    BY ServerInvariant, PTL DEF ServerInv

-----------------------------------------------------------------------------
(* What the drain's watchers stand for: each task holds one, a connection  *)
(* that carries no requests yet has none in progress, and until the tasks  *)
(* are aborted the requests a connection leaves behind are those of an     *)
(* HTTP/2 client that has gone.                                            *)
LeftBehind(c) == proto[c] = "h2" /\ c \in gone

DrainInv ==
    /\ watchers = Live
    /\ \A c \in Conn : conn[c] \in {"waiting", "handshake"} => Quiet(c)
    /\ loop \in {"accepting", "draining"} =>
          \A c \in Conn : conn[c] = "closed" => Quiet(c) \/ LeftBehind(c)

(* A request starts only on a connection that is served.                   *)
LEMMA RequestKeepsDrain ==
    ASSUME ServerInv, DrainInv, NEW r \in Request, RequestStep(r)
    PROVE  DrainInv'
PROOF
<1>1. UNCHANGED <<loop, conn, proto, watchers, gone>>
    BY Zenon DEF RequestStep, StartRequest, FinishRequest, EndResponse, CancelRequest
<1>2. PICK s : req' = [req EXCEPT ![r] = s] /\ (req[r] = "idle" => conn[r[1]] = "serving")
    BY SMTT(30) DEF RequestStep, StartRequest, FinishRequest, EndResponse, CancelRequest,
       SetRequest
<1>3. ASSUME NEW c \in Conn, conn[c] # "serving", Quiet(c) PROVE Quiet(c)'
    BY <1>2, <1>3 DEF Quiet, RequestsOf, ServerInv, Shape
<1>4. QED
    BY <1>1, <1>3 DEF DrainInv, Live, LeftBehind

(* A task that ends leaves requests behind only if its client left.        *)
LEMMA EndTaskKeepsDrain ==
    ASSUME ServerInv, DrainInv, NEW c \in Live, EndTask(c), UNCHANGED loop,
           gone \subseteq gone', loop = "aborting" \/ Quiet(c) \/ c \in gone'
    PROVE  DrainInv'
PROOF
<1>1. /\ conn' = [conn EXCEPT ![c] = "closed"] /\ watchers' = watchers \ {c}
      /\ proto' = proto
      /\ req' = [r \in Request |-> IF r \in (IF proto[c] = "h1" THEN RequestsOf(c) ELSE {})
                                   THEN "idle" ELSE req[r]]
    BY DEF EndTask
<1>2. watchers' = Live'
    BY <1>1 DEF DrainInv, Live, ServerInv, Shape
<1>3. ASSUME NEW d \in Conn, Quiet(d) PROVE Quiet(d)'
    BY <1>1, <1>3 DEF Quiet, RequestsOf
<1>4. loop # "aborting" => Quiet(c)' \/ LeftBehind(c)'
    <2>1. CASE proto[c] = "h1"
        BY <1>1, <2>1 DEF Quiet, RequestsOf
    <2>2. CASE proto[c] = "h2"
        BY <1>1, <1>3, <2>2 DEF LeftBehind, Live
    <2>3. QED
        BY <2>1, <2>2 DEF Protocol, ServerInv, Shape, Live
<1>5. ASSUME NEW d \in Conn, d # c
      PROVE  conn'[d] = conn[d] /\ (LeftBehind(d) => LeftBehind(d)')
    BY <1>1, <1>5 DEF LeftBehind, ServerInv, Shape
<1>6. conn'[c] = "closed"
    BY <1>1 DEF Live, ServerInv, Shape
<1>7. QED
    BY <1>2, <1>3, <1>4, <1>5, <1>6 DEF DrainInv

LEMMA ConnKeepsDrain ==
    ASSUME ServerInv, DrainInv, NEW c \in Conn, ConnStep(c)
    PROVE  DrainInv'
PROOF
<1>1. CASE Connect(c)
    BY SMTT(30), <1>1 DEF Connect, DrainInv, Live, Quiet, LeftBehind, ServerInv, Shape
<1>2. CASE Accept(c)
    BY SMTT(30), <1>2 DEF Accept, SpawnTask, DrainInv, Live, Quiet, LeftBehind, ServerInv,
       Shape
<1>3. CASE HandshakeDone(c) \/ NoticeShutdown(c)
    BY SMTT(30), <1>3 DEF HandshakeDone, NoticeShutdown, DrainInv, Live, Quiet, LeftBehind,
       ServerInv, Shape
<1>4. CASE HandshakeFailed(c) \/ ConnectionLost(c) \/ CloseDrained(c) \/ AbortTask(c)
    <2>1. c \in Live /\ EndTask(c) /\ UNCHANGED loop /\ gone \subseteq gone'
        BY <1>4 DEF HandshakeFailed, ConnectionLost, CloseDrained, AbortTask, Live,
           ServerInv, Shape
    <2>2. loop = "aborting" \/ Quiet(c) \/ c \in gone'
        BY <1>4 DEF HandshakeFailed, ConnectionLost, CloseDrained, AbortTask, DrainInv
    <2>3. QED
        BY <2>1, <2>2, EndTaskKeepsDrain
<1>5. QED
    BY <1>1, <1>2, <1>3, <1>4 DEF ConnStep

LEMMA DrainInvariant == Spec => []DrainInv
PROOF
<1>1. Init => DrainInv
    BY DEF Init, DrainInv, Live, Quiet, RequestsOf
<1>2. ServerInv /\ DrainInv /\ [Next]_vars => DrainInv'
    <2> SUFFICES ASSUME ServerInv, DrainInv, [Next]_vars PROVE DrainInv'
        OBVIOUS
    <2>1. ASSUME NEW c \in Conn, ConnStep(c) PROVE DrainInv'
        BY <2>1, ConnKeepsDrain
    <2>2. ASSUME NEW r \in Request, RequestStep(r) PROVE DrainInv'
        BY <2>2, RequestKeepsDrain
    <2>3. CASE Shutdown \/ DrainTimeout \/ UNCHANGED vars
        BY SMTT(30), <2>3 DEF Shutdown, DrainTimeout, vars, DrainInv, Live, Quiet, LeftBehind
    <2>4. CASE DrainComplete \/ AbortComplete
        BY SMTT(30), <2>4 DEF DrainComplete, AbortComplete, ReturnFromServe, DrainInv, Live,
           Quiet, ServerInv, Shape
    <2>5. QED
        BY <2>1, <2>2, <2>3, <2>4 DEF Next
<1>3. QED
    BY <1>1, <1>2, ServerInvariant, PTL DEF Spec

(* Until the deadline serve cuts neither a handshake nor a request whose   *)
(* client is still there, although graceful.shutdown() waits for no more   *)
(* than the watchers.                                                      *)
THEOREM DrainIsGraceful == Spec => DrainCutsNone
PROOF
<1> DEFINE Cut == loop = "draining" /\ loop' = "stopped"
           Over == Live = {} /\ \A r \in Request : req[r] # "idle" => LeftBehind(r[1])
<1>1. TypeOK /\ [Next]_vars => [Cut => DrainComplete]_vars
    BY Zenon DEF TypeOK, Next, ConnStep, RequestStep, Connect, Accept, HandshakeDone,
       HandshakeFailed, ConnectionLost, NoticeShutdown, CloseDrained, AbortTask,
       StartRequest, FinishRequest, EndResponse, CancelRequest, Shutdown,
       DrainComplete, DrainTimeout, AbortComplete
<1>2. ServerInv /\ DrainInv /\ DrainComplete => Over
    <2> SUFFICES ASSUME ServerInv, DrainInv, DrainComplete PROVE Over
        OBVIOUS
    <2>1. Live = {} /\ loop = "draining"
        BY DEF DrainInv, DrainComplete
    <2>2. ASSUME NEW r \in Request, req[r] # "idle" PROVE LeftBehind(r[1])
        <3>1. r[1] \in Conn /\ ~Quiet(r[1])
            BY <2>2 DEF Request, Quiet, RequestsOf
        <3>2. conn[r[1]] \in {"closed", "waiting"}
            BY <2>1, <3>1 DEF Live, ServerInv, Shape
        <3>3. QED
            BY <2>1, <3>1, <3>2 DEF DrainInv
    <2>3. QED
        BY <2>1, <2>2
<1>3. ServerInv /\ DrainInv /\ [Next]_vars => [Cut => Over]_vars
    BY <1>1, <1>2, InvType
<1>4. QED
    BY <1>3, ServerInvariant, DrainInvariant, PTL DEF Spec, DrainCutsNone, LeftBehind

=============================================================================
