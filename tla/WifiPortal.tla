----------------------------- MODULE WifiPortal -----------------------------
(***************************************************************************)
(* The portal's network page and the handlers of /api/wifi behind it.      *)
(* Each page asks for the status every few seconds, scans, selects a       *)
(* network, prompts for its password and posts it.  The HTTP server's one  *)
(* task serves a request at a time; requests and replies of a page travel  *)
(* on connections of their own and arrive in any order, or not at all.     *)
(*                                                                         *)
(* Inside wifi_manager_connect is WifiConnect's subject: here a connect    *)
(* dials, and is answered when the station is up or the wait times out.    *)
(***************************************************************************)
EXTENDS Naturals, Sequences, FiniteSets

CONSTANTS Pages,          \* browsers with the network page open
          Networks, Passwords,
          None,           \* no selection, no prompt, no request
          Strength,       \* the RSSI of each network, above some floor
          Scans,          \* the records the driver's scan may return, by network
          MaxScanResult,  \* MAX_SCAN_RESULT
          Valid,          \* the credentials an access point accepts
          LongNames, LongPasswords,  \* too long, once encoded, for raw_ssid
                                     \* and raw_password
          Quoted,         \* names that break the JSON the handlers print
          Hasty           \* may a page select while a selection is under way

Credentials == Networks \X Passwords

ASSUME PortalAssumption == /\ Strength \in [Networks -> Nat]
                           /\ Scans \subseteq Seq(Networks)
                           /\ MaxScanResult \in Nat \ {0}
                           /\ Valid \subseteq Credentials
                           /\ LongNames \subseteq Networks
                           /\ LongPasswords \subseteq Passwords
                           /\ Quoted \subseteq Networks
                           /\ Hasty \in BOOLEAN
                           /\ None \notin Networks \cup Passwords \cup Pages

VARIABLES isWifiConnected, \* of each page
          shown,     \* the name in a page's status box, or None
          list,      \* the networks a page lists
          hidden,    \* is the list's container hidden
          prompting, \* the network a page's prompt is open for, or None
          alerting,  \* is a page's alert open
          asked,     \* requests on their way
          replies,   \* replies on their way
          serving,   \* the connect request the server's task is inside, or None
          selected,  \* selected_ssid
          link,      \* the station: "idle", "dialing" or "up"
          on,        \* the credentials being dialled or in use
          saved      \* what has been saved, in any slot

pages   == <<isWifiConnected, shown, list, hidden, prompting, alerting>>
station == <<link, on>>
device  == <<serving, selected, station, saved>>
vars    == <<pages, asked, replies, device>>

-----------------------------------------------------------------------------

\* The boot's attempts are over: they left a name selected, or none, and the
\* station up with credentials that worked before, or idle.
Init == /\ isWifiConnected = [p \in Pages |-> FALSE]
        /\ shown = [p \in Pages |-> None]
        /\ list = [p \in Pages |-> <<>>]
        /\ hidden = [p \in Pages |-> FALSE]
        /\ prompting = [p \in Pages |-> None]
        /\ alerting = [p \in Pages |-> FALSE]
        /\ asked = {[page |-> p, kind |-> "status"] : p \in Pages}
        /\ replies = {}
        /\ serving = None
        /\ \/ /\ selected \in Networks \cup {None}
              /\ link = "idle" /\ on = None
              /\ saved = {}
           \/ /\ on \in Valid /\ selected = on[1]
              /\ link = "up"
              /\ saved = {on}

Kinds(p, kinds) == {r \in asked \cup replies : r.page = p /\ r.kind \in kinds}

\* A choice of a network is under way from the click to the connect's answer.
Choosing(p) == \/ Kinds(p, {"select", "connect"}) # {}
               \/ prompting[p] # None
               \/ serving # None /\ serving.page = p

\* prompt() and alert() stop the page's script, its timer and its callbacks
\* included, until the user answers or dismisses them.
Running(p) == prompting[p] = None /\ ~alerting[p]

OpenAlert(p) == alerting' = [alerting EXCEPT ![p] = TRUE]

Ask(r) == asked' = asked \cup {r}

-----------------------------------------------------------------------------
(* the page                                                                *)

\* Bound: one status request of a page at a time.
Tick(p) ==
    /\ Running(p)
    /\ Kinds(p, {"status"}) = {}
    /\ Ask([page |-> p, kind |-> "status"])
    /\ UNCHANGED <<pages, replies, device>>

\* Bound: one scan of a page at a time.
ScanWifi(p) ==
    /\ Running(p)
    /\ ~isWifiConnected[p]
    /\ Kinds(p, {"scan"}) = {}
    /\ list' = [list EXCEPT ![p] = <<>>]
    /\ Ask([page |-> p, kind |-> "scan"])
    /\ UNCHANGED <<isWifiConnected, shown, hidden, prompting, alerting, replies, device>>

\* A page that shows a connection does not scan: it opens an alert.
ScanRefused(p) ==
    /\ Running(p)
    /\ isWifiConnected[p]
    /\ OpenAlert(p)
    /\ UNCHANGED <<isWifiConnected, shown, list, hidden, prompting, asked, replies, device>>

DismissAlert(p) ==
    /\ alerting[p]
    /\ alerting' = [alerting EXCEPT ![p] = FALSE]
    /\ UNCHANGED <<isWifiConnected, shown, list, hidden, prompting, asked, replies, device>>

SelectWifi(p, n) ==
    /\ Running(p)
    /\ ~hidden[p]
    /\ \E i \in DOMAIN list[p] : list[p][i] = n
    /\ Hasty \/ \A q \in Pages : ~Choosing(q)
    /\ Ask([page |-> p, kind |-> "select", ssid |-> n])
    /\ UNCHANGED <<pages, replies, device>>

\* prompted is not sent: it records what the prompt asked about.
ConnectWifi(p, w) ==
    /\ prompting[p] # None
    /\ prompting' = [prompting EXCEPT ![p] = None]
    /\ Ask([page |-> p, kind |-> "connect", password |-> w, prompted |-> prompting[p]])
    /\ UNCHANGED <<isWifiConnected, shown, list, hidden, alerting, replies, device>>

CancelPrompt(p) ==
    /\ prompting[p] # None
    /\ prompting' = [prompting EXCEPT ![p] = None]
    /\ UNCHANGED <<isWifiConnected, shown, list, hidden, alerting, asked, replies, device>>

-----------------------------------------------------------------------------
(* the handlers                                                            *)

\* The server's task takes request r and answers it with answers, none or one of them.
Served(r, answers) == /\ serving = None
                      /\ r \in asked
                      /\ asked' = asked \ {r}
                      /\ replies' = replies \cup answers

WifiStatusHandler(r) ==
    /\ r.kind = "status"
    /\ Served(r, {[page |-> r.page, kind |-> "status",
                   connected |-> link = "up", ssid |-> selected]})
    /\ UNCHANGED <<pages, device>>

\* Mutant: the comparison the wrong way round.
ExchangeSwapped(s, i, j) == IF Strength[s[j]] < Strength[s[i]]
                            THEN [s EXCEPT ![i] = s[j], ![j] = s[i]]
                            ELSE s

Exchange(s, i, j) == IF Strength[s[j]] > Strength[s[i]]
                     THEN [s EXCEPT ![i] = s[j], ![j] = s[i]]
                     ELSE s

\* The inner loop: slot i against every later one.
Pass(s, i) == LET upTo[j \in 0 .. Len(s)] ==
                      IF j <= i THEN s ELSE Exchange(upTo[j - 1], i, j)
              IN  upTo[Len(s)]

\* The outer loop.  It ends before the last slot, whose pass does nothing.
SortByRssi(s) == LET passes[i \in 0 .. Len(s)] ==
                         IF i = 0 THEN s ELSE Pass(passes[i - 1], i)
                 IN  passes[Len(s)]

Limit(s) == SubSeq(s, 1, IF Len(s) > MaxScanResult THEN MaxScanResult ELSE Len(s))

\* The driver does not scan while it dials.
WifiScanHandler(r) ==
    /\ r.kind = "scan"
    /\ \E found \in IF link = "dialing" THEN {<<>>} ELSE Scans \cup {<<>>} :
           Served(r, {[page |-> r.page, kind |-> "scan",
                       networks |-> Limit(SortByRssi(found)), found |-> found]})
    /\ UNCHANGED <<pages, device>>

\* Mutant: a name that does not fit is answered like any other.
WifiSelectUnchecked(r) ==
    /\ r.kind = "select"
    /\ Served(r, {[page |-> r.page, kind |-> "select", ssid |-> r.ssid]})
    /\ selected' = IF r.ssid \in LongNames THEN selected ELSE r.ssid
    /\ UNCHANGED <<pages, serving, station, saved>>

\* A name that does not fit its buffer gets no answer.
WifiSelectHandler(r) ==
    /\ r.kind = "select"
    /\ IF r.ssid \in LongNames
       THEN /\ Served(r, {})
            /\ UNCHANGED selected
       ELSE /\ Served(r, {[page |-> r.page, kind |-> "select", ssid |-> r.ssid]})
            /\ selected' = r.ssid
    /\ UNCHANGED <<pages, serving, station, saved>>

ConnectReply(p, ok) == [page |-> p, kind |-> "connect", connected |-> ok]

\* No password, or nothing selected: the answer is not "connected".
WifiConnectRejected(r) ==
    /\ r.kind = "connect"
    /\ r.password \in LongPasswords \/ selected = None
    /\ Served(r, {ConnectReply(r.page, FALSE)})
    /\ UNCHANGED <<pages, device>>

WifiConnectHandler(r) ==
    /\ r.kind = "connect"
    /\ r.password \notin LongPasswords /\ selected # None
    /\ Served(r, {})
    /\ serving' = r
    /\ link' = "dialing" /\ on' = <<selected, r.password>>
    /\ UNCHANGED <<pages, selected, saved>>

\* ESP_OK and is_connected: the credentials are saved, then the answer sent.
WifiConnected ==
    /\ serving # None
    /\ link = "up"
    /\ saved' = saved \cup {<<selected, serving.password>>}
    /\ replies' = replies \cup {ConnectReply(serving.page, TRUE)}
    /\ serving' = None
    /\ UNCHANGED <<pages, asked, selected, station>>

\* A driver error, the timeout, or a connection that is gone again.  The
\* station goes on dialling.
WifiConnectFailed ==
    /\ serving # None
    /\ replies' = replies \cup {ConnectReply(serving.page, FALSE)}
    /\ serving' = None
    /\ UNCHANGED <<pages, asked, selected, station, saved>>

-----------------------------------------------------------------------------
(* the station                                                             *)

Associate == /\ link = "dialing" /\ on \in Valid
             /\ link' = "up"
             /\ UNCHANGED <<pages, asked, replies, serving, selected, on, saved>>

Drop == /\ link # "idle"
        /\ link' = "idle" /\ on' = None
        /\ UNCHANGED <<pages, asked, replies, serving, selected, saved>>

-----------------------------------------------------------------------------
(* the page's callbacks                                                    *)

\* Does res.json() parse a reply?
Parses(r) == CASE r.kind = "status" -> r.ssid \notin Quoted
               [] r.kind = "scan"   -> \A i \in DOMAIN r.networks :
                                           r.networks[i] \notin Quoted
               [] OTHER             -> TRUE

Arrives(r) == /\ r \in replies
              /\ Running(r.page)
              /\ Parses(r)
              /\ replies' = replies \ {r}

\* Mutant: a page that has once been connected does not look again.
UpdateWifiStatusOnce(r) ==
    /\ r.kind = "status"
    /\ Arrives(r)
    /\ isWifiConnected' = [isWifiConnected EXCEPT ![r.page] = @ \/ r.connected]
    /\ shown' = [shown EXCEPT ![r.page] = IF r.connected THEN r.ssid ELSE None]
    /\ hidden' = [hidden EXCEPT ![r.page] = isWifiConnected'[r.page]]
    /\ list' = [list EXCEPT ![r.page] = IF r.connected THEN <<>> ELSE @]
    /\ UNCHANGED <<prompting, alerting, asked, device>>

UpdateWifiStatus(r) ==
    /\ r.kind = "status"
    /\ Arrives(r)
    /\ isWifiConnected' = [isWifiConnected EXCEPT ![r.page] = r.connected]
    /\ shown' = [shown EXCEPT ![r.page] = IF r.connected THEN r.ssid ELSE None]
    /\ hidden' = [hidden EXCEPT ![r.page] = r.connected]
    /\ list' = [list EXCEPT ![r.page] = IF r.connected THEN <<>> ELSE @]
    /\ UNCHANGED <<prompting, alerting, asked, device>>

RenderScan(r) ==
    /\ r.kind = "scan"
    /\ Arrives(r)
    /\ list' = [list EXCEPT ![r.page] = r.networks]
    /\ UNCHANGED <<isWifiConnected, shown, hidden, prompting, alerting, asked, device>>

OpenPrompt(r) ==
    /\ r.kind = "select"
    /\ Arrives(r)
    /\ prompting' = [prompting EXCEPT ![r.page] = r.ssid]
    /\ UNCHANGED <<isWifiConnected, shown, list, hidden, alerting, asked, device>>

\* Connected: the status is asked for at once; otherwise an alert.
ConnectAnswered(r) ==
    /\ r.kind = "connect"
    /\ Arrives(r)
    /\ \/ r.connected /\ Ask([page |-> r.page, kind |-> "status"]) /\ UNCHANGED alerting
       \/ ~r.connected /\ OpenAlert(r.page) /\ UNCHANGED asked
    /\ UNCHANGED <<isWifiConnected, shown, list, hidden, prompting, device>>

\* A request or a reply is lost, or a reply does not parse: fetch's promise is
\* rejected.  A scan's place in the page then shows that it failed.
FetchFails(r) ==
    /\ Running(r.page)
    /\ asked' = asked \ {r} /\ replies' = replies \ {r}
    /\ IF r.kind = "scan"
       THEN list' = [list EXCEPT ![r.page] = <<>>]
       ELSE UNCHANGED list
    /\ UNCHANGED <<isWifiConnected, shown, hidden, prompting, alerting, device>>

-----------------------------------------------------------------------------

User(p) == \/ ScanWifi(p) \/ ScanRefused(p) \/ CancelPrompt(p) \/ DismissAlert(p)
           \/ \E n \in Networks : SelectWifi(p, n)
           \/ \E w \in Passwords : ConnectWifi(p, w)

Handler(r) == \/ WifiStatusHandler(r) \/ WifiScanHandler(r) \/ WifiSelectHandler(r)
              \/ WifiConnectRejected(r) \/ WifiConnectHandler(r)

Callback(r) == \/ UpdateWifiStatus(r) \/ RenderScan(r)
               \/ OpenPrompt(r) \/ ConnectAnswered(r)

Next == \/ \E p \in Pages : Tick(p) \/ User(p)
        \/ \E r \in asked : Handler(r) \/ FetchFails(r)
        \/ \E r \in replies : Callback(r) \/ FetchFails(r)
        \/ WifiConnected \/ WifiConnectFailed
        \/ Associate \/ Drop

\* The timer runs, the server's task serves whatever arrives and comes out of
\* a connect, and not every status exchange is lost.
Fairness ==
    /\ WF_vars(WifiConnected \/ WifiConnectFailed)
    /\ \A p \in Pages :
         /\ SF_vars(Tick(p))
         /\ SF_vars(\E r \in asked : r.page = p /\ WifiStatusHandler(r))
         /\ SF_vars(\E r \in replies : r.page = p /\ UpdateWifiStatus(r))
         /\ SF_vars(\E r \in replies : r.page = p /\ r.kind = "status"
                                     /\ ~Parses(r) /\ FetchFails(r))

Spec == Init /\ [][Next]_vars

FairSpec == Spec /\ Fairness
-----------------------------------------------------------------------------

Request == [page : Pages, kind : {"status", "scan"}]
           \cup [page : Pages, kind : {"select"}, ssid : Networks]
           \cup [page : Pages, kind : {"connect"}, password : Passwords,
                 prompted : Networks]

\* Every variable has its type.
TypeOK ==
    /\ isWifiConnected \in [Pages -> BOOLEAN] /\ hidden \in [Pages -> BOOLEAN]
    /\ shown \in [Pages -> Networks \cup {None}]
    /\ list \in [Pages -> Seq(Networks)]
    /\ \A p \in Pages : Len(list[p]) <= MaxScanResult
    /\ prompting \in [Pages -> Networks \cup {None}] /\ alerting \in [Pages -> BOOLEAN]
    /\ asked \subseteq Request
    /\ \A r \in replies : /\ r.page \in Pages
                          /\ r.kind = "scan" => Len(r.networks) <= MaxScanResult
    /\ serving \in Request \cup {None}
    /\ selected \in Networks \cup {None}
    /\ link \in {"idle", "dialing", "up"}
    /\ on \in Credentials \cup {None}
    /\ saved \subseteq Credentials

Count(s, n) == Cardinality({i \in DOMAIN s : s[i] = n})

\* s lists the strongest of what was found, each as often as it was found,
\* and leaves out only what is no stronger than the last.
Strongest(s, found) ==
    /\ \A i, j \in DOMAIN s : i < j => Strength[s[i]] >= Strength[s[j]]
    /\ \A n \in Networks :
         /\ Count(s, n) <= Count(found, n)
         /\ Count(s, n) < Count(found, n)
              => /\ Len(s) = MaxScanResult
                 /\ Strength[n] <= Strength[s[Len(s)]]

\* "strongest RSSI first" (wifi_handler.c): the scan's answer is cut to its
\* limit only after the sort, so that no network that is left out would have
\* been stronger than one that is listed.
ScanListsStrongest ==
    \A r \in replies : r.kind = "scan" => Strongest(r.networks, r.found)

\* A password is tried on, and saved for, the network at whose prompt it was
\* typed, and only what works is saved.  The page selects and connects in two
\* requests; this holds as long as choices do not overlap, on one page or on
\* several.
PasswordForItsNetwork ==
    /\ serving # None => /\ selected = serving.prompted
                         /\ on # None => on = <<serving.prompted, serving.password>>
    /\ saved \subseteq Valid

\* A page's status follows the station's: once the station stays up, or stays
\* down, a page that does not stop at a dialog, its prompt or an alert, shows
\* it for good, in spite of late replies.  A name that breaks the JSON prevents this either way.
StatusFollows ==
    \A p \in Pages : \A up \in BOOLEAN :
        <>[]((link = "up") = up /\ selected \notin Quoted)
            => <>[](isWifiConnected[p] = up \/ prompting[p] # None \/ alerting[p])
=============================================================================
