-------------------------------- MODULE Boot --------------------------------
(***************************************************************************)
(* app_main from power-on to its last loop: it brings the system's parts   *)
(* up one after the other, waits for a network, then for the time          *)
(* (TimeSync), and starts the microphone.  What an error does differs from *)
(* step to step: app_main returns, ESP_ERROR_CHECK aborts and the chip     *)
(* starts again, or nobody looks.                                          *)
(*                                                                         *)
(* The portal, once it is up, and the console task connect beside it;      *)
(* inside a connect is WifiConnect's subject, here it is one step.  The    *)
(* console's internet check is modelled with what it holds on the way.     *)
(***************************************************************************)
EXTENDS TimeSync, Sequences

CONSTANT MaxBoots  \* bound: boots since power-on

ASSUME BootAssumption == MaxBoots \in Nat \ {0}

VARIABLES at,        \* app_main's step
          phase,     \* "setup", "known", "trap", "time", "mic", "running" or "returned"
          up,        \* the parts that have been brought up
          nvs,       \* the NVS partition: "usable", "unusable" or "erased"
          connected, \* wifi_connected
          check,     \* where the console task is in check_internet, or "none"
          held,      \* memory and sockets taken and not given back
          boots      \* how many boots there have been

clock    == <<year, pc, retry, waited, answered>>
app      == <<at, phase, up, nvs>>
console  == <<check, held>>
bootVars == <<clock, app, connected, console, boots>>

-----------------------------------------------------------------------------
(* the steps: what each brings up and what an error in it does             *)

Does(part, error) == [part |-> part, error |-> error]

WifiManagerInit ==
    << Does("nvs", "return"), Does("netif", "return"), Does("event_loop", "return"),
       Does("sta_netif", "return"), Does("event_group", "ignore"),
       Does("driver", "return"), Does("wifi_handler", "ignore"),
       Does("ip_handler", "ignore"), Does("sta_mode", "return"),
       Does("wifi", "return") >>

ApManagerInit == << Does("ap_netif", "abort"), Does("ap_handler", "abort") >>

\* Mutant: an access point that cannot be configured is only logged.
ApManagerStartLogged == << Does("apsta_mode", "abort"), Does("hotspot", "ignore") >>

\* Everything after the two checked calls is read back for the log.
ApManagerStart == << Does("apsta_mode", "abort"), Does("hotspot", "abort") >>

\* The routes are fewer than max_uri_handlers, and their errors ignored.
WebportalInit == << Does("server", "abort"), Does("routes", "ignore") >>

\* The load, the buffer for the scan and the scan itself.
Preparing == << Does("history", "ignore"), Does("buffer", "return"),
                Does("scan", "ignore") >>

Steps == WifiManagerInit \o ApManagerInit \o ApManagerStart
         \o WebportalInit \o Preparing

Step == Steps[at]

Advance == /\ at' = at + 1
           /\ phase' = IF at = Len(Steps) THEN "known" ELSE "setup"

Reboot == /\ boots < MaxBoots
          /\ boots' = boots + 1
          /\ at' = 1 /\ phase' = "setup" /\ up' = {}
          /\ connected' = FALSE
          /\ check' = "none" /\ held' = {}
          /\ pc' = "poll" /\ retry' = 0 /\ waited' = 0 /\ answered' = FALSE
          /\ UNCHANGED <<year, nvs>>

-----------------------------------------------------------------------------

BootInit == /\ Init
            /\ at = 1 /\ phase = "setup" /\ up = {}
            /\ nvs \in {"usable", "unusable"}
            /\ connected = FALSE
            /\ check = "none" /\ held = {}
            /\ boots = 1

\* An NVS partition without free pages or of another version is erased and
\* initialised again.
StepDone ==
    /\ phase = "setup"
    /\ up' = up \cup {Step.part}
    /\ nvs' = IF Step.part = "nvs" /\ nvs = "unusable" THEN "erased" ELSE nvs
    /\ held' = IF Step.part = "buffer" THEN held \cup {"buffer"} ELSE held
    /\ Advance
    /\ UNCHANGED <<clock, connected, check, boots>>

StepIgnored ==
    /\ phase = "setup"
    /\ Step.error = "ignore"
    /\ Advance
    /\ UNCHANGED <<clock, up, nvs, connected, console, boots>>

StepReturns ==
    /\ phase = "setup"
    /\ Step.error = "return"
    /\ phase' = "returned"
    /\ UNCHANGED <<clock, at, up, nvs, connected, console, boots>>

StepAborts ==
    /\ phase = "setup"
    /\ Step.error = "abort"
    /\ Reboot

-----------------------------------------------------------------------------
(* getting onto a network                                                  *)

\* What it takes to be asked for a network through the portal, and what
\* ends a connect's wait.
Portal  == {"wifi", "hotspot", "server", "routes"}
Wakeful == {"event_group", "wifi_handler", "ip_handler"}

\* Whoever serves a connect: app_main, the portal's task or the console's.
Connecting == \/ phase = "known" /\ {"history", "scan"} \subseteq up
              \/ Portal \subseteq up
              \/ "console" \in up /\ check = "none"

\* The wait ends only if both handlers were registered.
Address ==
    /\ Connecting
    /\ Wakeful \subseteq up
    /\ connected' = TRUE
    /\ UNCHANGED <<clock, app, console, boots>>

\* Clearing a bit of an event group that was never created.
NoEventGroup ==
    /\ Connecting
    /\ "event_group" \notin up
    /\ Reboot

LinkLost ==
    /\ connected
    /\ connected' = FALSE
    /\ UNCHANGED <<clock, app, console, boots>>

\* scan_and_connect_known returns and the scan's buffer is freed.  Without a
\* network the console task is created, if there is memory for it.
Known ==
    /\ phase = "known"
    /\ held' = held \ {"buffer"}
    /\ \/ /\ connected
          /\ phase' = "time"
          /\ UNCHANGED up
       \/ /\ phase' = "trap"
          /\ up' \in {up, up \cup {"console"}}
    /\ UNCHANGED <<clock, at, nvs, connected, check, boots>>

Trap ==
    /\ phase = "trap"
    /\ connected
    /\ phase' = "time"
    /\ UNCHANGED <<clock, at, up, nvs, connected, console, boots>>

-----------------------------------------------------------------------------
(* check_internet, called by the console task once it is connected         *)

\* The check takes something, gives things back, and goes on or is over.
Takes(things, gone, next) == /\ held' = (held \cup things) \ gone
                             /\ check' = next

CheckStep == UNCHANGED <<clock, app, connected, boots>>

Resolve ==
    /\ "console" \in up /\ check = "none" /\ connected
    /\ \/ Takes({"addresses"}, {}, "socket")
       \/ Takes({}, {}, "none")
    /\ CheckStep

Socket ==
    /\ check = "socket"
    /\ \/ Takes({"socket"}, {}, "connect")
       \/ Takes({}, {"addresses"}, "none")
    /\ CheckStep

\* Mutant: the error path forgets one of the two.
DialLeaks ==
    /\ check = "connect"
    /\ \/ Takes({}, {"addresses"}, "reply")
       \/ Takes({}, {"socket"}, "none")
    /\ CheckStep

Dial ==
    /\ check = "connect"
    /\ \/ Takes({}, {"addresses"}, "reply")
       \/ Takes({}, {"addresses", "socket"}, "none")
    /\ CheckStep

\* An answer that is not HTTP, or none within the timeout, fails the check: the
\* menu goes on.  With one the new network is saved and the task ends.
Reply ==
    /\ check = "reply"
    /\ Takes({}, {"socket"}, "none")
    /\ up' \in {up, up \ {"console"}}
    /\ UNCHANGED <<clock, at, phase, nvs, connected, boots>>

-----------------------------------------------------------------------------
(* the time and the microphone                                             *)

AskTime ==
    /\ phase = "time"
    /\ Poll \/ Delay \/ Verify
    /\ UNCHANGED <<app, connected, console, boots>>

\* SNTP needs a network.
TimeAnswered ==
    /\ phase \in {"time", "mic", "running"}
    /\ connected
    /\ Answer
    /\ UNCHANGED <<app, connected, console, boots>>

TimeDecided ==
    /\ phase = "time"
    /\ \/ pc = "run" /\ phase' = "mic"
       \/ pc = "stopped" /\ phase' = "returned"
    /\ UNCHANGED <<clock, at, up, nvs, connected, console, boots>>

MicStarted ==
    /\ phase = "mic"
    /\ phase' = "running"
    /\ up' = up \cup {"microphone"}
    /\ UNCHANGED <<clock, at, nvs, connected, console, boots>>

MicAborts == phase = "mic" /\ Reboot

-----------------------------------------------------------------------------

Setup == StepDone \/ StepIgnored \/ StepReturns \/ StepAborts

Main == Setup \/ Known \/ Trap \/ AskTime \/ TimeDecided \/ MicStarted \/ MicAborts

CheckInternet == Resolve \/ Socket \/ Dial \/ Reply

BootNext == Main \/ CheckInternet \/ Address \/ NoEventGroup \/ LinkLost \/ TimeAnswered

BootSpec == BootInit /\ [][BootNext]_bootVars

\* app_main and the console task are scheduled and their calls return.
BootFairSpec == BootSpec /\ WF_bootVars(Main) /\ WF_bootVars(CheckInternet)

-----------------------------------------------------------------------------

\* Every variable has its type.
BootTypeOK ==
    /\ TypeOK
    /\ at \in 1 .. Len(Steps) + 1
    /\ phase \in {"setup", "known", "trap", "time", "mic", "running", "returned"}
    /\ up \subseteq {Steps[i].part : i \in DOMAIN Steps} \cup {"console", "microphone"}
    /\ nvs \in {"usable", "unusable", "erased"}
    /\ connected \in BOOLEAN
    /\ check \in {"none", "socket", "connect", "reply"}
    /\ held \subseteq {"buffer", "addresses", "socket"}
    /\ boots \in 1 .. MaxBoots

\* What is created or registered without a look at the error.
Unwatched == {"routes"} \cup Wakeful

\* "Portal Active: Connect to 'ESP32-Assistant' OR use Serial Terminal input"
\* (main.c): of all it takes to give the device a network through the portal,
\* wherever app_main has come to rest nothing can be missing but what the code
\* never looks at, the routes, the event group and the two event handlers.
\* Without one of these the device rests all the same and cannot be set up.
\* The other exception is an error in wifi_manager_init, before there is a
\* hotspot.
PortalActive ==
    phase \in {"trap", "running", "returned"}
        => \/ (Portal \cup Wakeful) \ up \subseteq Unwatched
           \/ phase = "returned" /\ at <= Len(WifiManagerInit)

\* Nothing is held on longer than it is used: the scan's buffer until the known
\* networks have been tried, addresses and socket until the check is over, on
\* every path out of it.
NothingLeaks ==
    /\ "buffer" \in held => phase \in {"setup", "known"}
    /\ check = "none" => held \subseteq {"buffer"}

\* The microphone runs only after the clock has been verified, with a network's
\* time or one that survived a reset, and app_main stops waiting for the time
\* on its budget.
MicOnTime == "microphone" \in up => pc = "run" /\ RunsOnTime

\* A boot comes to rest: it waits for a network, has given up or runs.
BootSettles == <>[](phase \in {"trap", "running", "returned"})
=============================================================================
