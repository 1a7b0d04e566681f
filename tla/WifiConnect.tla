---------------------------- MODULE WifiConnect ----------------------------
(***************************************************************************)
(* Getting onto a network: wifi_manager_connect and the three tasks that   *)
(* call it.  app_main tries the saved networks and then polls the          *)
(* connected flag; the web server's task serves select and connect; the    *)
(* console task runs its menu.  They share selected_ssid,                  *)
(* current_password, wifi_connected and WIFI_CONNECTED_BIT without a lock. *)
(* The Wi-Fi driver, which wifi_manager.c calls, and the event loop, whose *)
(* task runs wifi_event_handler, are modelled from those calls.            *)
(*                                                                         *)
(* Saving is one step here, the one RecentStore specifies; its own steps   *)
(* and the flash are in WifiHistory.                                       *)
(***************************************************************************)
EXTENDS Naturals, Sequences

CONSTANTS Networks, Passwords,
          None,         \* an empty string in selected_ssid, current_password
          HistoryMax,   \* WIFI_HISTORY_MAX
          MaxAttempts,  \* MAX_ATTEMPTS of wifi_setup_process
          Valid,        \* the credentials an access point in range accepts
          Heard,        \* how often the boot's scan returned each network,
                        \* once for each of its access points
          Online,       \* the networks with a way to the internet
          Stored,       \* the lists the boot may find in flash
          MaxEvents,    \* bound: events waiting in the event loop's queue
          Overlap,      \* may the tasks' operations overlap
          Prompt        \* does the event task empty its queue before the
                        \* lower-priority tasks go on

Entry == [ssid : Networks, password : Passwords]

Lists == UNION {[1 .. k -> Entry] : k \in 0 .. HistoryMax}

ASSUME ConnectAssumption == /\ HistoryMax \in Nat \ {0}
                            /\ MaxAttempts \in Nat \ {0}
                            /\ MaxEvents \in Nat \ {0}
                            /\ Valid \subseteq Entry
                            /\ Heard \in [Networks -> Nat]
                            /\ Online \subseteq Networks
                            /\ Stored \subseteq Lists
                            /\ Overlap \in BOOLEAN /\ Prompt \in BOOLEAN
                            /\ None \notin Networks \cup Passwords \cup Entry

Tasks == {"main", "web", "console"}

VARIABLES selected,   \* selected_ssid
          password,   \* current_password
          connected,  \* wifi_connected
          bit,        \* WIFI_CONNECTED_BIT
          saved,      \* the valid entries of saved_wifi, slot 0 first
          config,     \* the driver's station configuration
          link,       \* the driver: "idle", "dialing" or "up"
          on,         \* the credentials being dialled or in use
          kept,       \* history: has the driver refused to give up this link
          events,     \* the event loop's queue
          handling,   \* the event whose handler is half done
          pc,         \* where each task is
          arg,        \* the credentials of a task's connect
          h,          \* app_main's position in the list
          s,          \* and among the scan's records of that network
          attempt,    \* the console's count of failed attempts
          chosen,     \* the network picked in the console's menu
          joined,     \* history: did the link come up as this connect dialled
          proved      \* history: credentials the station has been up with

shared  == <<selected, password, connected, bit, saved>>
driver  == <<config, link, on, kept>>
loop    == <<events, handling>>
local   == <<arg, h, s, attempt, chosen>>
history == <<joined, proved>>
vars    == <<shared, driver, loop, pc, local, history>>

MRU == INSTANCE RecentStore WITH Max <- HistoryMax, list <- saved,
                                 stored <- saved, synced <- saved

-----------------------------------------------------------------------------

Init == /\ selected = None /\ password = None
        /\ connected = FALSE /\ bit = FALSE
        /\ saved \in Stored
        /\ config = None /\ link = "idle" /\ on = None /\ kept = FALSE
        /\ events = <<>> /\ handling = "none"
        /\ pc = [main |-> "auto", web |-> "idle", console |-> "off"]
        /\ arg = [t \in Tasks |-> None]
        /\ h = 1 /\ s = 0 /\ attempt = 0 /\ chosen = None
        /\ joined = [t \in Tasks |-> FALSE]
        /\ proved = {saved[i] : i \in DOMAIN saved}

Goto(t, label) == pc' = [pc EXCEPT ![t] = label]

\* A step of a task below the event task's priority.
Scheduled == Prompt => events = <<>> /\ handling = "none"

Resting == [main |-> {"trap", "booted"}, web |-> {"idle"},
            console |-> {"off", "menu", "enter", "ask", "exit"}]

MayBegin(t) == Overlap \/ \A u \in Tasks \ {t} : pc[u] \in Resting[u]

At(t, label) == pc[t] = label /\ Scheduled

\* An operation ends, and with it its locals.
Finish(t) == /\ arg' = [arg EXCEPT ![t] = None]
             /\ joined' = [joined EXCEPT ![t] = FALSE]

Room == Len(events) < MaxEvents

-----------------------------------------------------------------------------
(* wifi_manager_connect                                                    *)

\* The credentials a caller passes, read through its pointers: slot h of the
\* array, selected_ssid itself, slot 0 or the console's own copies.
Passed(t) == CASE t = "main" -> saved[h]
               [] t = "web"  -> [ssid |-> selected, password |-> arg[t].password]
               [] OTHER      -> IF chosen = None THEN saved[1] ELSE arg[t]

Store(t) ==
    /\ At(t, "store")
    /\ arg' = [arg EXCEPT ![t] = Passed(t)]
    /\ selected' = Passed(t).ssid
    /\ password' = Passed(t).password
    /\ joined' = [joined EXCEPT ![t] = FALSE]
    /\ Goto(t, "disconnect")
    /\ UNCHANGED <<connected, bit, saved, driver, loop, h, s, attempt, chosen, proved>>

\* Mutant: a driver that is configured already is not configured again.
SetConfigOnce(t) ==
    /\ At(t, "config")
    /\ link # "dialing"
    /\ config' = IF config = None THEN arg[t] ELSE config
    /\ Goto(t, "clear flag")
    /\ UNCHANGED <<shared, link, on, kept, loop, local, history>>

\* Mutant: a connect that times out begins again.
TimeoutRetries(t) ==
    /\ At(t, "waiting")
    /\ Goto(t, "disconnect")
    /\ UNCHANGED <<shared, driver, loop, local, history>>

\* esp_wifi_disconnect drops the link and has the event posted; or it fails,
\* which is logged, and the connect goes on with the link as it was.
Disconnect(t) ==
    /\ At(t, "disconnect")
    /\ \/ /\ link = "idle"
          /\ UNCHANGED <<link, on, kept, events>>
       \/ /\ link # "idle"
          /\ Room
          /\ link' = "idle" /\ on' = None /\ kept' = FALSE
          /\ events' = Append(events, "disconnected")
       \/ /\ link # "idle"
          /\ kept' = TRUE
          /\ UNCHANGED <<link, on, events>>
    /\ Goto(t, "config")
    /\ UNCHANGED <<shared, config, handling, local, history>>

\* esp_wifi_set_config is refused while the station is dialling.
SetConfig(t) ==
    /\ At(t, "config")
    /\ link # "dialing"
    /\ config' = arg[t]
    /\ Goto(t, "clear flag")
    /\ UNCHANGED <<shared, link, on, kept, loop, local, history>>

ClearFlag(t) ==
    /\ At(t, "clear flag")
    /\ connected' = FALSE
    /\ Goto(t, "clear bit")
    /\ UNCHANGED <<selected, password, bit, saved, driver, loop, local, history>>

ClearBit(t) ==
    /\ At(t, "clear bit")
    /\ bit' = FALSE
    /\ Goto(t, "dial")
    /\ UNCHANGED <<selected, password, connected, saved, driver, loop, local, history>>

\* esp_wifi_connect is refused unless the station is idle.
Dial(t) ==
    /\ At(t, "dial")
    /\ link = "idle"
    /\ link' = "dialing" /\ on' = config
    /\ Goto(t, "await")
    /\ UNCHANGED <<shared, config, kept, loop, local, history>>

\* esp_wifi_set_config, esp_wifi_get_config or esp_wifi_connect returns an
\* error, and so does wifi_manager_connect.
DriverError(t) ==
    /\ pc[t] \in {"config", "dial"}
    /\ Scheduled
    /\ Goto(t, "failed")
    /\ UNCHANGED <<shared, driver, loop, local, history>>

\* xEventGroupWaitBits returns at once if the bit is set, else it blocks.
Await(t) ==
    /\ At(t, "await")
    /\ Goto(t, IF bit THEN "ok" ELSE "waiting")
    /\ UNCHANGED <<shared, driver, loop, local, history>>

Timeout(t) ==
    /\ At(t, "waiting")
    /\ Goto(t, "failed")
    /\ UNCHANGED <<shared, driver, loop, local, history>>

-----------------------------------------------------------------------------
(* wifi_event_handler, in the event loop's task                            *)

\* Mutant: a lost connection goes unnoticed.
HandleFlagSticky ==
    /\ handling = "none"
    /\ events # <<>>
    /\ handling' = Head(events)
    /\ events' = Tail(events)
    /\ connected' = (connected \/ Head(events) = "got ip")
    /\ UNCHANGED <<selected, password, bit, saved, driver, pc, local, history>>

\* Mutant: an address sets the bit and not the flag.
HandleFlagForgotten ==
    /\ handling = "none"
    /\ events # <<>>
    /\ handling' = Head(events)
    /\ events' = Tail(events)
    /\ connected' = FALSE
    /\ UNCHANGED <<selected, password, bit, saved, driver, pc, local, history>>

HandleFlag ==
    /\ handling = "none"
    /\ events # <<>>
    /\ handling' = Head(events)
    /\ events' = Tail(events)
    /\ connected' = (Head(events) = "got ip")
    /\ UNCHANGED <<selected, password, bit, saved, driver, pc, local, history>>

\* Setting the bit wakes every task that waits for it.
HandleBit ==
    /\ handling # "none"
    /\ bit' = (handling = "got ip")
    /\ handling' = "none"
    /\ pc' = [t \in Tasks |-> IF bit' /\ pc[t] = "waiting" THEN "ok" ELSE pc[t]]
    /\ UNCHANGED <<selected, password, connected, saved, driver, events, local, history>>

-----------------------------------------------------------------------------
(* the driver                                                              *)

Associate ==
    /\ link = "dialing" /\ on \in Valid /\ Room
    /\ link' = "up"
    /\ events' = Append(events, "got ip")
    /\ joined' = [t \in Tasks |-> joined[t] \/ arg[t] = on]
    /\ proved' = proved \cup {on}
    /\ UNCHANGED <<shared, config, on, kept, handling, pc, local>>

\* A refused attempt, or an established link that is lost.
Drop ==
    /\ link # "idle" /\ Room
    /\ link' = "idle" /\ on' = None /\ kept' = FALSE
    /\ events' = Append(events, "disconnected")
    /\ UNCHANGED <<shared, config, handling, pc, local, history>>

-----------------------------------------------------------------------------
(* wifi_manager_save_credentials, as its callers see it                    *)

Saved == saved' = MRU!MoveToFront(saved, [ssid |-> selected, password |-> password])

-----------------------------------------------------------------------------
(* app_main and wifi_manager_scan_and_connect_known                        *)

\* The scan has a record, or one more, of the network in slot h.
TryKnown ==
    /\ At("main", "auto")
    /\ h <= Len(saved)
    /\ s < Heard[saved[h].ssid]
    /\ selected' = saved[h].ssid
    /\ password' = saved[h].password
    /\ Goto("main", "store")
    /\ UNCHANGED <<connected, bit, saved, driver, loop, local, history>>

SkipKnown ==
    /\ At("main", "auto")
    /\ h <= Len(saved)
    /\ s >= Heard[saved[h].ssid]
    /\ h' = h + 1 /\ s' = 0
    /\ UNCHANGED <<shared, driver, loop, pc, arg, attempt, chosen, history>>

\* The loop over the scan's records goes on with the next one.
KnownFailed ==
    /\ At("main", "failed")
    /\ s' = s + 1
    /\ Goto("main", "auto")
    /\ Finish("main")
    /\ UNCHANGED <<shared, driver, loop, h, attempt, chosen, proved>>

KnownConnected ==
    /\ At("main", "ok")
    /\ Saved
    /\ Goto("main", "booted")
    /\ Finish("main")
    /\ UNCHANGED <<selected, password, connected, bit, driver, loop,
                   h, s, attempt, chosen, proved>>

\* No saved network connects: app_main starts the console task and polls.
StartConsole ==
    /\ At("main", "auto")
    /\ h > Len(saved)
    /\ pc' = [pc EXCEPT !.main = "trap", !.console = "menu"]
    /\ UNCHANGED <<shared, driver, loop, local, history>>

Poll ==
    /\ At("main", "trap")
    /\ connected
    /\ Goto("main", "booted")
    /\ UNCHANGED <<shared, driver, loop, local, history>>

-----------------------------------------------------------------------------
(* the web server's task, which serves one request at a time               *)

WebSelect(n) ==
    /\ At("web", "idle")
    /\ MayBegin("web")
    /\ selected' = n
    /\ UNCHANGED <<password, connected, bit, saved, driver, loop, pc, local, history>>

\* Without a selection the request is answered and nothing changes.
WebConnect(p) ==
    /\ At("web", "idle")
    /\ MayBegin("web")
    /\ selected # None
    /\ arg' = [arg EXCEPT !["web"] = [ssid |-> selected, password |-> p]]
    /\ Goto("web", "store")
    /\ UNCHANGED <<shared, driver, loop, h, s, attempt, chosen, history>>

\* Mutant: the portal saves whatever the attempt came to.
WebConnectedUnchecked ==
    /\ At("web", "ok") \/ At("web", "failed")
    /\ password' = arg["web"].password
    /\ Goto("web", "save")
    /\ UNCHANGED <<selected, connected, bit, saved, driver, loop, local, history>>

WebConnected ==
    /\ At("web", "ok")
    /\ connected
    /\ password' = arg["web"].password
    /\ Goto("web", "save")
    /\ UNCHANGED <<selected, connected, bit, saved, driver, loop, local, history>>

WebSave ==
    /\ At("web", "save")
    /\ Saved
    /\ Goto("web", "idle")
    /\ Finish("web")
    /\ UNCHANGED <<selected, password, connected, bit, driver, loop,
                   h, s, attempt, chosen, proved>>

WebFailed ==
    /\ \/ At("web", "failed")
       \/ At("web", "ok") /\ ~connected
    /\ Goto("web", "idle")
    /\ Finish("web")
    /\ UNCHANGED <<shared, driver, loop, h, s, attempt, chosen, proved>>

-----------------------------------------------------------------------------
(* the console task: wifi_setup_process                                    *)

\* The saved network of slot 0 is in range and the user takes it.
ConsoleKnown ==
    /\ At("console", "menu")
    /\ MayBegin("console")
    /\ saved # <<>>
    /\ chosen' = None
    /\ Goto("console", "store")
    /\ UNCHANGED <<shared, driver, loop, arg, h, s, attempt, history>>

ConsoleSelect(n) ==
    /\ At("console", "menu")
    /\ chosen' = n
    /\ attempt' = 0
    /\ Goto("console", "enter")
    /\ UNCHANGED <<shared, driver, loop, arg, h, s, history>>

\* A password is read and the selection stored before connecting.
ConsoleEnter(p) ==
    /\ At("console", "enter")
    /\ MayBegin("console")
    /\ selected' = chosen
    /\ password' = p
    /\ arg' = [arg EXCEPT !["console"] = [ssid |-> chosen, password |-> p]]
    /\ Goto("console", "store")
    /\ UNCHANGED <<connected, bit, saved, driver, loop, h, s, attempt, chosen, history>>

ConsoleConnected ==
    /\ At("console", "ok")
    /\ connected
    /\ Goto("console", "internet")
    /\ UNCHANGED <<shared, driver, loop, local, history>>

\* check_internet finds the internet: a new network is saved, a known one
\* is not, and the task ends.
ConsoleOnline ==
    /\ At("console", "internet")
    /\ link = "up" /\ on.ssid \in Online
    /\ IF chosen = None THEN UNCHANGED saved ELSE Saved
    /\ Goto("console", "exit")
    /\ Finish("console")
    /\ UNCHANGED <<selected, password, connected, bit, driver, loop,
                   h, s, attempt, chosen, proved>>

\* The attempt fails, or there is no internet, or check_internet misses it.
\* A failed known network leads on to the selection, where the menu leads too.
ConsoleFailed ==
    /\ \/ At("console", "failed")
       \/ At("console", "ok") /\ ~connected
       \/ At("console", "internet")
    /\ \/ /\ chosen = None
          /\ Goto("console", "menu")
          /\ UNCHANGED attempt
       \/ /\ chosen # None
          /\ attempt' = attempt + 1
          /\ Goto("console", IF attempt' < MaxAttempts THEN "enter" ELSE "ask")
    /\ Finish("console")
    /\ UNCHANGED <<shared, driver, loop, h, s, chosen, proved>>

ConsoleRescan ==
    /\ At("console", "ask")
    /\ Goto("console", "menu")
    /\ UNCHANGED <<shared, driver, loop, local, history>>

\* The user declines another scan, or a scan finds nothing.
ConsoleExit ==
    /\ At("console", "ask") \/ At("console", "menu")
    /\ Goto("console", "exit")
    /\ UNCHANGED <<shared, driver, loop, local, history>>

-----------------------------------------------------------------------------

Connect(t) == \/ Store(t) \/ Disconnect(t) \/ SetConfig(t)
              \/ ClearFlag(t) \/ ClearBit(t) \/ Dial(t) \/ DriverError(t)
              \/ Await(t) \/ Timeout(t)

Main == TryKnown \/ SkipKnown \/ KnownFailed \/ KnownConnected
        \/ StartConsole \/ Poll

User == \/ \E n \in Networks : WebSelect(n) \/ ConsoleSelect(n)
        \/ \E p \in Passwords : WebConnect(p) \/ ConsoleEnter(p)
        \/ ConsoleKnown \/ ConsoleRescan \/ ConsoleExit

Web == WebConnected \/ WebSave \/ WebFailed

Console == ConsoleConnected \/ ConsoleOnline \/ ConsoleFailed

Handler == HandleFlag \/ HandleBit

Next == \/ \E t \in Tasks : Connect(t)
        \/ Handler \/ Associate \/ Drop
        \/ Main \/ User \/ Web \/ Console

\* The tasks and the event task are scheduled and a wait times out; users,
\* access points and the radio owe nothing.
Fairness == /\ \A t \in Tasks : WF_vars(Connect(t))
            /\ WF_vars(Handler) /\ WF_vars(Main)
            /\ WF_vars(Web) /\ WF_vars(Console)

Spec == Init /\ [][Next]_vars

FairSpec == Spec /\ Fairness

-----------------------------------------------------------------------------

Labels == {"auto", "trap", "booted", "idle", "off", "menu", "enter", "ask", "exit",
           "internet", "save", "store", "disconnect", "config", "clear flag",
           "clear bit", "dial", "await", "waiting", "ok", "failed"}

SharedType ==
    /\ selected \in Networks \cup {None}
    /\ password \in Passwords \cup {None}
    /\ connected \in BOOLEAN /\ bit \in BOOLEAN
    /\ saved \in Lists

DriverType ==
    /\ config \in Entry \cup {None} /\ on \in Entry \cup {None}
    /\ link \in {"idle", "dialing", "up"} /\ kept \in BOOLEAN
    /\ events \in Seq({"disconnected", "got ip"}) /\ Len(events) <= MaxEvents
    /\ handling \in {"none", "disconnected", "got ip"}

TaskType ==
    /\ pc \in [Tasks -> Labels]
    /\ arg \in [Tasks -> Entry \cup {None}]
    /\ h \in 1 .. HistoryMax + 1
    /\ s \in Nat
    /\ attempt \in 0 .. MaxAttempts
    /\ chosen \in Networks \cup {None}

HistoryType == joined \in [Tasks -> BOOLEAN] /\ proved \subseteq Entry

\* Every variable has its type.
TypeOK == SharedType /\ DriverType /\ TaskType /\ HistoryType

\* "Adds or pushes a successfully connected network to the top of the history
\* list" (wifi_manager.h): every saved name and password belong together, the
\* station has been on the network with exactly that password.
SavedWereConnected == \A i \in DOMAIN saved : saved[i] \in proved

\* "Connect to a WiFi network ... ESP_OK if connected" (wifi_manager.h): when
\* wifi_manager_connect returns ESP_OK the station has come up with the
\* credentials of this very call, not on an earlier call's late success.
OkMeansConnected == \A t \in Tasks : pc[t] = "ok" => joined[t]

Drained == events = <<>> /\ handling = "none"

\* "Check WiFi connection status" (wifi_manager.h): once every event has been
\* handled wifi_connected says whether the station is up.  app_main's wait for
\* the network and the portal's status page rest on it.  The one exception: a
\* connect whose esp_wifi_disconnect is refused clears the flag of a link that
\* stays up, and no event sets it again before that link is lost.
FlagMatchesLink ==
    Drained => /\ connected => link = "up"
               /\ link = "up" /\ ~kept => connected

\* Every wifi_manager_connect returns.
ConnectReturns ==
    \A t \in Tasks : pc[t] = "store" ~> pc[t] \in {"ok", "failed"}

\* A boot that waits for a network goes on once there is one for good, unless
\* a refused esp_wifi_disconnect has hidden the link from the flag it polls.
BootResumes == <>[](link = "up" /\ ~kept) => <>(pc["main"] = "booted")
=============================================================================
