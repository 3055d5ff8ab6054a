------------------------------ MODULE Process -------------------------------
(***************************************************************************)
(* main (src/src/main.rs): how the process starts, what it leaves running  *)
(* beside the server, and how it stops.  The configuration is that of      *)
(* module Config; serve() is module Server, here one stage that lasts from *)
(* the first connection to the end of the drain.                           *)
(***************************************************************************)
EXTENDS Config

VARIABLES
    stage,      \* where main is, or how the process ended
    bound,      \* addresses the process listens on
    running,    \* background tasks: "checker", "cleanup", "admin"
    catching,   \* whether shutdown_signal() has installed its handlers
    hindered    \* history: a certificate, a key or an address was unusable

processVars == <<stage, bound, running, catching, hindered>>
mainVars == <<file, edits, loaded, stage, bound, running, catching, hindered>>

Runtime == IntoRuntime(file)

(* The order of main; the process may also fail (exit status 1), be killed *)
(* by a signal nobody catches, or be stopped (exit status 0).              *)
Starting == {"tls", "limiter", "bind", "checker", "cleanup", "admin"}
Ended == {"failed", "killed", "stopped"}

(* 0.0.0.0 and 127.0.0.1 cannot both listen on one port.                   *)
Clash(a, b) == a = b \/ {a, b} = {"127.0.0.1:8100", "0.0.0.0:8100"}

MainInit ==
    /\ FileInit
    /\ stage = "off" /\ bound = {} /\ running = {}
    /\ catching = FALSE /\ hindered = FALSE

-----------------------------------------------------------------------------
(* The end of the process takes its tasks and listeners with it.           *)
EndAs(how) ==
    /\ stage' = how
    /\ bound' = {} /\ running' = {} /\ catching' = FALSE

Configure ==
    /\ stage = "off"
    /\ Load
    /\ IF Accepts(file)
       THEN stage' = "tls" /\ UNCHANGED <<bound, running, catching>>
       ELSE EndAs("failed")
    /\ UNCHANGED hindered

(* build_tls_acceptor: both files are read and must make a server.         *)
BuildTls ==
    /\ stage = "tls"
    /\ \/ /\ stage' = "limiter"
          /\ UNCHANGED <<bound, running, catching, hindered>>
       \/ /\ Runtime.tls # <<>>
          /\ EndAs("failed") /\ hindered' = TRUE
    /\ UNCHANGED fileVars

(* IpRateLimiter::from_config refuses zeroes.                              *)
FromConfigBurstAboveOne(rl) == rl.requests_per_second # 0 /\ rl.burst > 1

FromConfig(rl) == rl.requests_per_second # 0 /\ rl.burst # 0

BuildLimiter ==
    /\ stage = "limiter"
    /\ IF Runtime.rate_limit # <<>> => FromConfig(Runtime.rate_limit[1])
       THEN stage' = "bind" /\ UNCHANGED <<bound, running, catching>>
       ELSE EndAs("failed")
    /\ UNCHANGED <<file, edits, loaded, hindered>>

(* TcpListener::bind: refused if this process or another has the address.  *)
Bind(a, next) ==
    \/ /\ \A b \in bound : ~Clash(a, b)
       /\ bound' = bound \cup {a}
       /\ next
       /\ UNCHANGED <<catching, hindered>>
    \/ /\ EndAs("failed")
       /\ hindered' = IF \A b \in bound : ~Clash(a, b) THEN TRUE ELSE hindered

BindListener ==
    /\ stage = "bind"
    /\ Bind(Runtime.listen, stage' = "checker" /\ UNCHANGED running)
    /\ UNCHANGED fileVars

SpawnChecker ==
    /\ stage = "checker"
    /\ stage' = "cleanup"
    /\ running' = running \cup (IF Runtime.health_check # <<>> THEN {"checker"} ELSE {})
    /\ UNCHANGED <<file, edits, loaded, bound, catching, hindered>>

SpawnCleanup ==
    /\ stage = "cleanup"
    /\ stage' = "admin"
    /\ running' = running \cup (IF Runtime.rate_limit # <<>> THEN {"cleanup"} ELSE {})
    /\ UNCHANGED <<file, edits, loaded, bound, catching, hindered>>

SpawnAdmin ==
    /\ stage = "admin"
    /\ IF Runtime.admin_listen = <<>>
       THEN stage' = "serving" /\ UNCHANGED <<bound, running, catching, hindered>>
       ELSE Bind(Runtime.admin_listen[1],
                 stage' = "serving" /\ running' = running \cup {"admin"})
    /\ UNCHANGED fileVars

-----------------------------------------------------------------------------
(* serve() polls shutdown_signal() for the first time, which installs the  *)
(* handlers.                                                               *)
PollShutdown ==
    /\ stage = "serving" /\ ~catching
    /\ catching' = TRUE
    /\ UNCHANGED <<file, edits, loaded, stage, bound, running, hindered>>

(* SIGINT or SIGTERM.  The first one that is caught starts the drain;      *)
(* later ones are swallowed, for the handlers stay and nobody waits.       *)
SignalAbandonsDrain ==
    /\ stage \notin Ended \cup {"off"}
    /\ IF ~catching \/ stage # "serving" THEN EndAs("killed")
       ELSE stage' = "draining" /\ UNCHANGED <<bound, running, catching>>
    /\ UNCHANGED <<file, edits, loaded, hindered>>

SignalStopsTasks ==
    /\ stage \notin Ended \cup {"off"}
    /\ \/ ~catching /\ EndAs("killed")
       \/ /\ catching /\ stage = "serving"
          /\ stage' = "draining" /\ running' = {}
          /\ UNCHANGED <<bound, catching>>
    /\ UNCHANGED <<file, edits, loaded, hindered>>

Signal ==
    /\ stage \notin Ended \cup {"off"}
    /\ \/ ~catching /\ EndAs("killed")
       \/ /\ catching /\ stage = "serving"
          /\ stage' = "draining"
          /\ UNCHANGED <<bound, running, catching>>
    /\ UNCHANGED <<file, edits, loaded, hindered>>

(* serve() returns, its listener dropped: connections have closed, or      *)
(* shutdown_timeout has passed (module Server).                            *)
Drained ==
    /\ stage = "draining"
    /\ stage' = "aborting"
    /\ bound' = bound \ {Runtime.listen}
    /\ UNCHANGED <<file, edits, loaded, running, catching, hindered>>

(* The three handles are aborted and main returns.                         *)
JoinTasks ==
    /\ stage = "aborting" /\ running = {}
    /\ EndAs("stopped")
    /\ UNCHANGED <<file, edits, loaded, hindered>>

AbortTasks ==
    /\ stage = "aborting"
    /\ EndAs("stopped")
    /\ UNCHANGED <<file, edits, loaded, hindered>>

OwnStep ==
    \/ Configure \/ BuildTls \/ BuildLimiter \/ BindListener \/ SpawnChecker
    \/ SpawnCleanup \/ SpawnAdmin \/ PollShutdown \/ Drained \/ AbortTasks

MainNext ==
    \/ OwnStep \/ Signal
    \/ stage = "off" /\ (\E f \in DOMAIN Values : Edit(f)) /\ UNCHANGED processVars

MainSpec == MainInit /\ [][MainNext]_mainVars

(* The operating system runs main, and serve() ends a drain by itself      *)
(* (ShutdownCompletes, module Server).                                     *)
FairMainSpec == MainSpec /\ WF_mainVars(OwnStep)

-----------------------------------------------------------------------------
(* A configuration that was accepted and does not start has met an         *)
(* obstacle that the file cannot show (certificates, an address in use),   *)
(* or two listen addresses that differ and clash.  In particular           *)
(* from_config never refuses ("unreachable for validated config",          *)
(* rate_limit.rs).                                                         *)
StartFailsFromOutside ==
    stage = "failed" /\ loaded = "accepted" =>
        \/ hindered
        \/ Runtime.admin_listen # <<>> /\ Clash(Runtime.listen, Runtime.admin_listen[1])

(* While connections are served, and until the last of them is drained,    *)
(* everything that was configured runs beside them: probes and scrapes are *)
(* answered, backends are checked, the limiter is pruned.                  *)
ServedWithTasks ==
    stage \in {"serving", "draining"} =>
        /\ Runtime.listen \in bound
        /\ "checker" \in running <=> Runtime.health_check # <<>>
        /\ "cleanup" \in running <=> Runtime.rate_limit # <<>>
        /\ "admin" \in running <=> Runtime.admin_listen # <<>>
        /\ Runtime.admin_listen # <<>> => Runtime.admin_listen[1] \in bound

(* A drain is never cut short: once the first signal is caught, the        *)
(* process ends with status 0 however many signals follow ("Returns once   *)
(* the first signal is received", shutdown_signal).                        *)
DrainIsHeeded == [][stage = "draining" => stage' \in {"draining", "aborting"}]_mainVars

(* Starting comes to an end, and so does stopping.                         *)
StartAndStopEnd ==
    /\ stage \in Starting ~> stage \notin Starting
    /\ stage = "draining" ~> stage = "stopped"

=============================================================================
