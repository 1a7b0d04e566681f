------------------------- MODULE WifiPortal_proofs -------------------------
(***************************************************************************)
(* A password is tried on, and saved for, the network at whose prompt it   *)
(* was typed, for any number of pages, networks and passwords, as long as  *)
(* no page selects a network while a choice is under way.                  *)
(*                                                                         *)
(* The device keeps one selection for all pages, in selected_ssid, and the *)
(* page sends the password without the name.  What makes this right is     *)
(* that a choice is in one place at a time, as a request, a reply, a       *)
(* prompt, or the call the server's task is inside, and that in each of    *)
(* them the name is still the selected one.                                *)
(*                                                                         *)
(* The rest needs no such assumption: what a scan answers is sorted before *)
(* it is cut, for whatever the driver finds, and every variable has its    *)
(* type.                                                                   *)
(***************************************************************************)
EXTENDS WifiPortal, FiniteSetTheorems, SequenceTheorems, TLAPS

\* What is needed of the types: the lists and what the pages show are not.
Typed == /\ asked \subseteq Request
         /\ \A r \in replies : /\ r.page \in Pages
                               /\ r.kind = "select" => r.ssid \in Networks
         /\ prompting \in [Pages -> Networks \cup {None}]
         /\ serving \in Request \cup {None}

OfChoice(S) == {r \in S : r.kind \in {"select", "connect"}}

\* A choice is in one place at a time.
OnePlace ==
    /\ \A r, s \in OfChoice(asked) : r = s
    /\ \A p, q \in Pages : prompting[p] # None /\ prompting[q] # None => p = q
    /\ OfChoice(asked) # {} => /\ OfChoice(replies) = {}
                               /\ \A p \in Pages : prompting[p] = None
                               /\ serving = None
    /\ OfChoice(replies) # {} => /\ \A p \in Pages : prompting[p] = None
                                 /\ serving = None
    /\ \A p \in Pages : prompting[p] # None => serving = None

\* One reply about a choice is under way at a time.
OneAnswer == \A r, s \in OfChoice(replies) : r = s

\* Wherever the choice is, its name is the selected one.
NameSelected ==
    /\ \A r \in replies : r.kind = "select" => r.ssid = selected
    /\ \A p \in Pages : prompting[p] # None => prompting[p] = selected
    /\ \A r \in asked : r.kind = "connect" => r.prompted = selected
    /\ serving # None => serving.prompted = selected

\* The station dials what is being served, and is up with what works.
Dialled ==
    /\ link = "idle" => on = None
    /\ serving # None /\ link # "idle" => on = <<serving.prompted, serving.password>>
    /\ link = "up" => on \in Valid
    /\ saved \subseteq Valid

ChoiceInv == Typed /\ OnePlace /\ OneAnswer /\ NameSelected /\ Dialled
-----------------------------------------------------------------------------

\* A step that starts no choice and moves none: requests, replies and prompts
\* of choices can only go away.
Fewer == /\ OfChoice(asked') \subseteq OfChoice(asked)
         /\ OfChoice(replies') \subseteq OfChoice(replies)
         /\ \A p \in Pages : prompting'[p] \in {prompting[p], None}
         /\ UNCHANGED <<serving, selected>>

LEMMA FewerKeeps ==
    ASSUME OnePlace, OneAnswer, NameSelected, Fewer
    PROVE  OnePlace' /\ OneAnswer' /\ NameSelected'
<1>1. OnePlace'
  BY DEF OnePlace, Fewer, OfChoice
<1>2. OneAnswer'
  BY DEF OneAnswer, Fewer, OfChoice
<1>3. NameSelected'
  BY DEF NameSelected, Fewer, OfChoice
<1> QED  BY <1>1, <1>2, <1>3

\* What the initial states satisfy.
LEMMA ChoiceInit == Init => ChoiceInv
<1> SUFFICES ASSUME Init PROVE ChoiceInv
  OBVIOUS
<1>1. Typed
  BY DEF Init, Typed, Request
<1>2. OfChoice(asked) = {} /\ OfChoice(replies) = {}
  BY DEF Init, OfChoice
<1>3. OnePlace /\ OneAnswer
  BY <1>2 DEF Init, OnePlace, OneAnswer
<1>4. NameSelected
  BY DEF Init, NameSelected
<1>5. Dialled
  BY DEF Init, Dialled
<1> QED  BY <1>1, <1>3, <1>4, <1>5 DEF ChoiceInv

\* The page's own steps.
LEMMA TickStep ==
    ASSUME ChoiceInv, NEW p \in Pages, Tick(p)
    PROVE  ChoiceInv'
<1>1. Typed'
  BY DEF ChoiceInv, Typed, Tick, Ask, pages, device, Request
<1>2. Fewer
  BY DEF Tick, Ask, pages, device, Fewer, OfChoice
<1>3. Dialled'
  BY DEF ChoiceInv, Dialled, Tick, device, station
<1> QED  BY <1>1, <1>2, <1>3, FewerKeeps DEF ChoiceInv

LEMMA ScanWifiStep ==
    ASSUME ChoiceInv, NEW p \in Pages, ScanWifi(p)
    PROVE  ChoiceInv'
<1>1. Typed'
  BY DEF ChoiceInv, Typed, ScanWifi, Ask, device, Request
<1>2. Fewer
  BY DEF ScanWifi, Ask, device, Fewer, OfChoice
<1>3. Dialled'
  BY DEF ChoiceInv, Dialled, ScanWifi, device, station
<1> QED  BY <1>1, <1>2, <1>3, FewerKeeps DEF ChoiceInv

\* An alert holds no choice, opened or dismissed.
LEMMA AlertStep ==
    ASSUME ChoiceInv, NEW p \in Pages, ScanRefused(p) \/ DismissAlert(p)
    PROVE  ChoiceInv'
<1>1. UNCHANGED <<asked, replies, prompting, serving, selected, link, on, saved>>
  BY DEF ScanRefused, DismissAlert, device, station
<1>2. Typed'
  BY <1>1 DEF ChoiceInv, Typed
<1>3. Fewer
  BY <1>1 DEF Fewer, OfChoice
<1>4. Dialled'
  BY <1>1 DEF ChoiceInv, Dialled
<1> QED  BY <1>2, <1>3, <1>4, FewerKeeps DEF ChoiceInv

LEMMA CancelStep ==
    ASSUME ChoiceInv, NEW p \in Pages, CancelPrompt(p)
    PROVE  ChoiceInv'
<1>1. Typed'
  BY DEF ChoiceInv, Typed, CancelPrompt, device
<1>2. Fewer
  BY DEF ChoiceInv, Typed, CancelPrompt, device, Fewer, OfChoice
<1>3. Dialled'
  BY DEF ChoiceInv, Dialled, CancelPrompt, device, station
<1> QED  BY <1>1, <1>2, <1>3, FewerKeeps DEF ChoiceInv

\* A click starts the only choice.
LEMMA SelectStep ==
    ASSUME Hasty = FALSE, ChoiceInv, NEW p \in Pages, NEW n \in Networks,
           SelectWifi(p, n)
    PROVE  ChoiceInv'
<1> DEFINE r == [page |-> p, kind |-> "select", ssid |-> n]
<1>1. /\ asked' = asked \cup {r}
      /\ UNCHANGED <<replies, prompting, serving, selected, link, on, saved>>
  BY DEF SelectWifi, Ask, pages, device, station
<1>2. \A q \in Pages : ~Choosing(q)
  BY DEF SelectWifi
<1>3. OfChoice(asked) = {} /\ OfChoice(replies) = {}
  BY <1>2 DEF Choosing, Kinds, OfChoice, ChoiceInv, Typed, Request
<1>4. \A q \in Pages : prompting[q] = None
  BY <1>2 DEF Choosing
<1>5. serving = None
  BY <1>2 DEF Choosing, ChoiceInv, Typed, Request
<1>6. r \in Request
  BY DEF Request
<1>7. Typed'
  BY <1>1, <1>6 DEF ChoiceInv, Typed
<1>8. OfChoice(asked') = {r} /\ OfChoice(replies') = {}
  BY <1>1, <1>3 DEF OfChoice
<1>9. OnePlace'
  BY <1>1, <1>4, <1>5, <1>8 DEF OnePlace
<1>10. OneAnswer'
  BY <1>8 DEF OneAnswer
<1>11. NameSelected'
  BY <1>1 DEF ChoiceInv, NameSelected
<1>12. Dialled'
  BY <1>1 DEF ChoiceInv, Dialled
<1> QED  BY <1>7, <1>9, <1>10, <1>11, <1>12 DEF ChoiceInv

\* A prompt is answered: the choice moves from the prompt to a request.
LEMMA ConnectStep ==
    ASSUME ChoiceInv, NEW p \in Pages, NEW w \in Passwords, ConnectWifi(p, w)
    PROVE  ChoiceInv'
<1> DEFINE r == [page |-> p, kind |-> "connect", password |-> w,
                 prompted |-> prompting[p]]
<1>1. /\ asked' = asked \cup {r}
      /\ prompting' = [prompting EXCEPT ![p] = None]
      /\ UNCHANGED <<replies, serving, selected, link, on, saved>>
  BY DEF ConnectWifi, Ask, device, station
<1>2. prompting[p] # None
  BY DEF ConnectWifi
<1>3. OfChoice(asked) = {} /\ OfChoice(replies) = {} /\ serving = None
  BY <1>2 DEF ChoiceInv, OnePlace
<1>4. \A q \in Pages : prompting'[q] = None
  BY <1>1, <1>2 DEF ChoiceInv, OnePlace, Typed
<1>5. prompting[p] \in Networks /\ prompting[p] = selected
  BY <1>2 DEF ChoiceInv, Typed, NameSelected
<1>6. r \in Request
  BY <1>5 DEF Request
<1>7. Typed'
  BY <1>1, <1>6 DEF ChoiceInv, Typed
<1>8. OfChoice(asked') = {r} /\ OfChoice(replies') = {}
  BY <1>1, <1>3 DEF OfChoice
<1>9. OnePlace'
  BY <1>1, <1>3, <1>4, <1>8 DEF OnePlace
<1>10. OneAnswer'
  BY <1>8 DEF OneAnswer
<1>11. NameSelected'
  BY <1>1, <1>4, <1>5 DEF ChoiceInv, NameSelected
<1>12. Dialled'
  BY <1>1 DEF ChoiceInv, Dialled
<1> QED  BY <1>7, <1>9, <1>10, <1>11, <1>12 DEF ChoiceInv

-----------------------------------------------------------------------------
(* the handlers                                                            *)

LEMMA StatusStep ==
    ASSUME ChoiceInv, NEW r \in asked, WifiStatusHandler(r)
    PROVE  ChoiceInv'
<1>1. PICK a : /\ a.page = r.page /\ a.kind = "status"
               /\ asked' = asked \ {r} /\ replies' = replies \cup {a}
               /\ UNCHANGED <<prompting, serving, selected, link, on, saved>>
  BY DEF WifiStatusHandler, Served, pages, device, station
<1>2. r.page \in Pages
  BY DEF ChoiceInv, Typed, Request
<1>3. Typed'
  BY <1>1, <1>2 DEF ChoiceInv, Typed
<1>4. Fewer
  BY <1>1 DEF Fewer, OfChoice
<1>5. Dialled'
  BY <1>1 DEF ChoiceInv, Dialled
<1> QED  BY <1>3, <1>4, <1>5, FewerKeeps DEF ChoiceInv

LEMMA ScanStep ==
    ASSUME ChoiceInv, NEW r \in asked, WifiScanHandler(r)
    PROVE  ChoiceInv'
<1>1. PICK a : /\ a.page = r.page /\ a.kind = "scan"
               /\ asked' = asked \ {r} /\ replies' = replies \cup {a}
               /\ UNCHANGED <<prompting, serving, selected, link, on, saved>>
  BY DEF WifiScanHandler, Served, pages, device, station
<1>2. r.page \in Pages
  BY DEF ChoiceInv, Typed, Request
<1>3. Typed'
  BY <1>1, <1>2 DEF ChoiceInv, Typed
<1>4. Fewer
  BY <1>1 DEF Fewer, OfChoice
<1>5. Dialled'
  BY <1>1 DEF ChoiceInv, Dialled
<1> QED  BY <1>3, <1>4, <1>5, FewerKeeps DEF ChoiceInv

\* The request was the only place of the choice: nothing else names the
\* selection that is replaced.
LEMMA SelectedStep ==
    ASSUME ChoiceInv, NEW r \in asked, WifiSelectHandler(r)
    PROVE  ChoiceInv'
<1> DEFINE a == [page |-> r.page, kind |-> "select", ssid |-> r.ssid]
<1>1. /\ r.kind = "select" /\ asked' = asked \ {r}
      /\ UNCHANGED <<prompting, serving, link, on, saved>>
  BY DEF WifiSelectHandler, Served, pages, station
<1>2. \/ replies' = replies /\ selected' = selected
      \/ replies' = replies \cup {a} /\ selected' = r.ssid
  BY DEF WifiSelectHandler, Served
<1>3. r \in OfChoice(asked)
  BY <1>1 DEF OfChoice
<1>4. /\ OfChoice(replies) = {} /\ serving = None
      /\ \A p \in Pages : prompting[p] = None
  BY <1>3 DEF ChoiceInv, OnePlace
<1>5. OfChoice(asked') = {}
  BY <1>1, <1>3 DEF ChoiceInv, OnePlace, OfChoice
<1>6. r.page \in Pages /\ r.ssid \in Networks
  BY <1>1 DEF ChoiceInv, Typed, Request
<1>7. Typed'
  BY <1>1, <1>2, <1>6 DEF ChoiceInv, Typed
<1>8. OfChoice(replies') \subseteq {a}
  BY <1>2, <1>4 DEF OfChoice
<1>9. OnePlace'
  BY <1>1, <1>4, <1>5 DEF OnePlace
<1>10. OneAnswer'
  BY <1>8 DEF OneAnswer
<1>11. NameSelected'
  <2>1. \A s \in replies' : s.kind = "select" => s.ssid = selected'
    BY <1>2, <1>4 DEF OfChoice
  <2>2. \A s \in asked' : s.kind # "connect"
    BY <1>5 DEF OfChoice
  <2> QED  BY <1>1, <1>4, <2>1, <2>2 DEF NameSelected
<1>12. Dialled'
  BY <1>1 DEF ChoiceInv, Dialled
<1> QED  BY <1>7, <1>9, <1>10, <1>11, <1>12 DEF ChoiceInv

\* The call ends with an answer: the request, or the call being served, was
\* the only place of the choice, and the answer is now.
LEMMA Answered ==
    ASSUME ChoiceInv, NEW p \in Pages, NEW ok, OfChoice(asked') = {},
           asked' \subseteq asked, OfChoice(replies) = {},
           replies' = replies \cup {ConnectReply(p, ok)},
           \A q \in Pages : prompting[q] = None,
           serving' = None, UNCHANGED <<prompting, selected>>
    PROVE  Typed' /\ OnePlace' /\ OneAnswer' /\ NameSelected'
<1> DEFINE a == ConnectReply(p, ok)
<1>1. a.page = p /\ a.kind = "connect"
  BY DEF ConnectReply
<1>2. Typed'
  BY <1>1 DEF ChoiceInv, Typed
<1>3. OfChoice(replies') \subseteq {a}
  BY DEF OfChoice
<1>4. OnePlace'
  BY DEF OnePlace
<1>5. OneAnswer'
  BY <1>3 DEF OneAnswer
<1>6. NameSelected'
  BY <1>1 DEF ChoiceInv, NameSelected
<1> QED  BY <1>2, <1>4, <1>5, <1>6

LEMMA RejectedStep ==
    ASSUME ChoiceInv, NEW r \in asked, WifiConnectRejected(r)
    PROVE  ChoiceInv'
<1>1. /\ r.kind = "connect" /\ asked' = asked \ {r}
      /\ replies' = replies \cup {ConnectReply(r.page, FALSE)}
      /\ UNCHANGED <<prompting, serving, selected, link, on, saved>>
  BY DEF WifiConnectRejected, Served, pages, device, station
<1>2. r \in OfChoice(asked)
  BY <1>1 DEF OfChoice
<1>3. /\ OfChoice(replies) = {} /\ serving = None
      /\ \A p \in Pages : prompting[p] = None
  BY <1>2 DEF ChoiceInv, OnePlace
<1>4. OfChoice(asked') = {}
  BY <1>1, <1>2 DEF ChoiceInv, OnePlace, OfChoice
<1>5. r.page \in Pages
  BY DEF ChoiceInv, Typed, Request
<1>6. Typed' /\ OnePlace' /\ OneAnswer' /\ NameSelected'
  BY <1>1, <1>3, <1>4, <1>5, Answered
<1>7. Dialled'
  BY <1>1 DEF ChoiceInv, Dialled
<1> QED  BY <1>6, <1>7 DEF ChoiceInv

\* The choice moves from the request into the server's task, which dials the
\* selected network: by NameSelected, the one that was prompted for.
LEMMA ConnectHandlerStep ==
    ASSUME ChoiceInv, NEW r \in asked, WifiConnectHandler(r)
    PROVE  ChoiceInv'
<1>1. /\ r.kind = "connect" /\ asked' = asked \ {r} /\ serving' = r
      /\ link' = "dialing" /\ on' = <<selected, r.password>>
      /\ UNCHANGED <<prompting, selected, saved>>
  BY DEF WifiConnectHandler, Served, pages
<1>2. replies' = replies
  BY DEF WifiConnectHandler, Served
<1>3. r \in OfChoice(asked)
  BY <1>1 DEF OfChoice
<1>4. /\ OfChoice(replies) = {}
      /\ \A p \in Pages : prompting[p] = None
  BY <1>3 DEF ChoiceInv, OnePlace
<1>5. OfChoice(asked') = {}
  BY <1>1, <1>3 DEF ChoiceInv, OnePlace, OfChoice
<1>6. Typed'
  BY <1>1, <1>2 DEF ChoiceInv, Typed
<1>7. OnePlace'
  BY <1>1, <1>2, <1>4, <1>5 DEF OnePlace
<1>8. OneAnswer'
  BY <1>2, <1>4 DEF OneAnswer
<1>9. NameSelected'
  BY <1>1, <1>2 DEF ChoiceInv, NameSelected
<1>10. Dialled'
  BY <1>1 DEF ChoiceInv, Dialled, NameSelected
<1> QED  BY <1>6, <1>7, <1>8, <1>9, <1>10 DEF ChoiceInv

\* The server's task comes out of the call, with either answer.
LEMMA OutOfCall ==
    ASSUME ChoiceInv, NEW ok, serving # None,
           replies' = replies \cup {ConnectReply(serving.page, ok)},
           serving' = None, UNCHANGED <<pages, asked, selected>>
    PROVE  Typed' /\ OnePlace' /\ OneAnswer' /\ NameSelected'
<1>1. OfChoice(asked) = {}
  BY DEF ChoiceInv, OnePlace
<1>2. OfChoice(replies) = {} /\ \A p \in Pages : prompting[p] = None
  BY DEF ChoiceInv, OnePlace
<1>3. serving.page \in Pages
  BY DEF ChoiceInv, Typed, Request
<1>4. UNCHANGED prompting
  BY DEF pages
<1> QED  BY <1>1, <1>2, <1>3, <1>4, Answered

\* What is saved is the selected name and the call's password: the station is
\* up with just these.
LEMMA ConnectedStep ==
    ASSUME ChoiceInv, WifiConnected
    PROVE  ChoiceInv'
<1>1. Typed' /\ OnePlace' /\ OneAnswer' /\ NameSelected'
  BY OutOfCall DEF WifiConnected
<1>2. /\ serving # None /\ link = "up" /\ serving' = None
      /\ saved' = saved \cup {<<selected, serving.password>>}
      /\ UNCHANGED <<link, on>>
  BY DEF WifiConnected, station
<1>3. on = <<serving.prompted, serving.password>> /\ on \in Valid
  BY <1>2 DEF ChoiceInv, Dialled
<1>4. selected = serving.prompted
  BY <1>2 DEF ChoiceInv, NameSelected
<1>5. Dialled'
  BY <1>2, <1>3, <1>4 DEF ChoiceInv, Dialled
<1> QED  BY <1>1, <1>5 DEF ChoiceInv

LEMMA FailedStep ==
    ASSUME ChoiceInv, WifiConnectFailed
    PROVE  ChoiceInv'
<1>1. Typed' /\ OnePlace' /\ OneAnswer' /\ NameSelected'
  BY OutOfCall DEF WifiConnectFailed
<1>2. Dialled'
  BY DEF WifiConnectFailed, station, ChoiceInv, Dialled
<1> QED  BY <1>1, <1>2 DEF ChoiceInv

-----------------------------------------------------------------------------
(* the station and the page's callbacks                                    *)

LEMMA LinkStep ==
    ASSUME ChoiceInv, Associate \/ Drop
    PROVE  ChoiceInv'
<1>1. UNCHANGED <<asked, replies, prompting, serving, selected, saved>>
  BY DEF Associate, Drop, pages
<1>2. Typed' /\ OnePlace' /\ OneAnswer' /\ NameSelected'
  BY <1>1 DEF ChoiceInv, Typed, OnePlace, OneAnswer, NameSelected
<1>3. ASSUME Associate PROVE Dialled'
  BY <1>1, <1>3 DEF Associate, ChoiceInv, Dialled
<1>4. ASSUME Drop PROVE Dialled'
  BY <1>1, <1>4 DEF Drop, ChoiceInv, Dialled
<1> QED  BY <1>2, <1>3, <1>4 DEF ChoiceInv

LEMMA ShownStep ==
    ASSUME ChoiceInv, NEW r \in replies,
           UpdateWifiStatus(r) \/ RenderScan(r) \/ ConnectAnswered(r)
    PROVE  ChoiceInv'
<1>1. /\ replies' = replies \ {r}
      /\ UNCHANGED <<prompting, serving, selected, link, on, saved>>
  BY DEF UpdateWifiStatus, RenderScan, ConnectAnswered, Arrives, device, station
<1>2. \/ asked' = asked
      \/ asked' = asked \cup {[page |-> r.page, kind |-> "status"]}
  BY DEF UpdateWifiStatus, RenderScan, ConnectAnswered, Ask
<1>3. r.page \in Pages
  BY DEF ChoiceInv, Typed
<1>4. [page |-> r.page, kind |-> "status"] \in Request
  BY <1>3 DEF Request
<1>5. Typed'
  BY <1>1, <1>2, <1>4 DEF ChoiceInv, Typed
<1>6. Fewer
  BY <1>1, <1>2 DEF Fewer, OfChoice
<1>7. Dialled'
  BY <1>1 DEF ChoiceInv, Dialled
<1> QED  BY <1>5, <1>6, <1>7, FewerKeeps DEF ChoiceInv

\* The choice moves from the reply to the page's prompt.
LEMMA PromptStep ==
    ASSUME ChoiceInv, NEW r \in replies, OpenPrompt(r)
    PROVE  ChoiceInv'
<1>1. /\ r.kind = "select" /\ replies' = replies \ {r}
      /\ prompting' = [prompting EXCEPT ![r.page] = r.ssid]
      /\ UNCHANGED <<asked, serving, selected, link, on, saved>>
  BY DEF OpenPrompt, Arrives, device, station
<1>2. r \in OfChoice(replies)
  BY <1>1 DEF OfChoice
<1>3. /\ OfChoice(asked) = {} /\ serving = None
      /\ \A p \in Pages : prompting[p] = None
  BY <1>2 DEF ChoiceInv, OnePlace
<1>4. OfChoice(replies') = {}
  BY <1>1, <1>2 DEF ChoiceInv, OneAnswer, OfChoice
<1>5. r.page \in Pages /\ r.ssid \in Networks /\ r.ssid = selected
  BY <1>1 DEF ChoiceInv, Typed, NameSelected
<1>6. Typed'
  BY <1>1, <1>5 DEF ChoiceInv, Typed
<1>7. \A p \in Pages : prompting'[p] # None => p = r.page /\ prompting'[p] = selected
  BY <1>1, <1>3, <1>5 DEF ChoiceInv, Typed
<1>8. OnePlace'
  BY <1>1, <1>3, <1>4, <1>7 DEF OnePlace
<1>9. OneAnswer'
  BY <1>4 DEF OneAnswer
<1>10. NameSelected'
  BY <1>1, <1>7 DEF ChoiceInv, NameSelected
<1>11. Dialled'
  BY <1>1 DEF ChoiceInv, Dialled
<1> QED  BY <1>6, <1>8, <1>9, <1>10, <1>11 DEF ChoiceInv

LEMMA FetchFailsStep ==
    ASSUME ChoiceInv, NEW r, FetchFails(r)
    PROVE  ChoiceInv'
<1>1. /\ asked' = asked \ {r} /\ replies' = replies \ {r}
      /\ UNCHANGED <<prompting, serving, selected, link, on, saved>>
  BY DEF FetchFails, device, station
<1>2. Typed'
  BY <1>1 DEF ChoiceInv, Typed
<1>3. Fewer
  BY <1>1 DEF Fewer, OfChoice
<1>4. Dialled'
  BY <1>1 DEF ChoiceInv, Dialled
<1> QED  BY <1>2, <1>3, <1>4, FewerKeeps DEF ChoiceInv

-----------------------------------------------------------------------------

LEMMA ChoiceStep ==
    ASSUME Hasty = FALSE, ChoiceInv, [Next]_vars
    PROVE  ChoiceInv'
<1>1. CASE \E p \in Pages : Tick(p) \/ User(p)
  <2> PICK p \in Pages : Tick(p) \/ User(p)
    BY <1>1
  <2>1. CASE Tick(p)
    BY <2>1, TickStep
  <2>2. CASE User(p)
    <3>1. CASE ScanWifi(p)
      BY <3>1, ScanWifiStep
    <3>2. CASE CancelPrompt(p)
      BY <3>2, CancelStep
    <3>3. CASE \E n \in Networks : SelectWifi(p, n)
      BY <3>3, SelectStep
    <3>4. CASE \E w \in Passwords : ConnectWifi(p, w)
      BY <3>4, ConnectStep
    <3>5. CASE ScanRefused(p) \/ DismissAlert(p)
      BY <3>5, AlertStep
    <3> QED  BY <2>2, <3>1, <3>2, <3>3, <3>4, <3>5 DEF User
  <2> QED  BY <2>1, <2>2
<1>2. CASE \E r \in asked : Handler(r) \/ FetchFails(r)
  <2> PICK r \in asked : Handler(r) \/ FetchFails(r)
    BY <1>2
  <2>1. CASE FetchFails(r)
    BY <2>1, FetchFailsStep
  <2>2. CASE Handler(r)
    BY <2>2, StatusStep, ScanStep, SelectedStep, RejectedStep, ConnectHandlerStep
       DEF Handler
  <2> QED  BY <2>1, <2>2
<1>3. CASE \E r \in replies : Callback(r) \/ FetchFails(r)
  <2> PICK r \in replies : Callback(r) \/ FetchFails(r)
    BY <1>3
  <2>1. CASE FetchFails(r)
    BY <2>1, FetchFailsStep
  <2>2. CASE Callback(r)
    BY <2>2, ShownStep, PromptStep DEF Callback
  <2> QED  BY <2>1, <2>2
<1>4. CASE WifiConnected
  BY <1>4, ConnectedStep
<1>5. CASE WifiConnectFailed
  BY <1>5, FailedStep
<1>6. CASE Associate \/ Drop
  BY <1>6, LinkStep
<1>7. CASE UNCHANGED vars
  BY <1>7 DEF vars, pages, device, station, ChoiceInv, Typed, OnePlace, OneAnswer,
              NameSelected, Dialled
<1> QED  BY <1>1, <1>2, <1>3, <1>4, <1>5, <1>6, <1>7 DEF Next

\* A choice is never in two places, and the name it carries stays selected.
THEOREM ChoiceCorrect == ASSUME Hasty = FALSE PROVE Spec => []ChoiceInv
<1>1. ChoiceInv /\ [Next]_vars => ChoiceInv'
  BY ChoiceStep
<1> QED  BY <1>1, ChoiceInit, PTL DEF Spec

\* The password is tried on, and saved for, the network at whose prompt it was
\* typed, and only what works is saved: for every number of pages, networks
\* and passwords, whatever is lost, delayed or rejected, as long as choices do
\* not overlap.  wifi_select_handler and wifi_connect_handler share one
\* selected_ssid between all pages.
THEOREM PasswordKept == ASSUME Hasty = FALSE PROVE Spec => []PasswordForItsNetwork
<1>1. ChoiceInv => PasswordForItsNetwork
  BY DEF ChoiceInv, NameSelected, Dialled, PasswordForItsNetwork
<1> QED  BY <1>1, ChoiceCorrect, PTL
-----------------------------------------------------------------------------
(* The sort.  Each loop is a function of the slots it has gone through,    *)
(* which exists and keeps an invariant by induction, and each exchange     *)
(* moves what was found without losing or repeating anything.              *)

LEMMA LeastElement ==
    ASSUME NEW S \in SUBSET Nat, S # {}
    PROVE  \E i \in S : \A j \in S : i <= j
<1> DEFINE R == {p \in Nat \X Nat : p[1] < p[2]}
<1>1. IsWellFoundedOn(R, Nat)
  BY NatLessThanWellFounded DEF OpToRel
<1>2. \A x, y \in Nat : x < y => <<x, y>> \in R
  OBVIOUS
<1> HIDE DEF R
<1>3. PICK x \in S : \A y \in S : <<y, x>> \notin R
  BY <1>1, WFMin
<1>4. x \in Nat /\ \A y \in S : y \in Nat /\ ~(y < x)
  BY <1>2, <1>3, Zenon
<1> QED  BY <1>4

\* What holds before a loop and is kept by each of its steps holds after it.
LEMMA LoopKeeps ==
    ASSUME NEW N \in Nat, NEW f, NEW D, f[0] \in D[0],
           \A j \in 1 .. N : f[j - 1] \in D[j - 1] => f[j] \in D[j]
    PROVE  \A j \in 0 .. N : f[j] \in D[j]
<1> DEFINE Bad == {j \in 0 .. N : f[j] \notin D[j]}
<1> SUFFICES ASSUME Bad # {} PROVE FALSE
  OBVIOUS
<1>1. PICK m \in Bad : \A j \in Bad : m <= j
  <2>1. Bad \in SUBSET Nat
    OBVIOUS
  <2> HIDE DEF Bad
  <2> QED  BY <2>1, LeastElement
<1>2. m # 0
  OBVIOUS
<1>3. m \in 1 .. N /\ m - 1 \in 0 .. N /\ m - 1 \notin Bad
  BY <1>1, <1>2
<1> QED  BY <1>1, <1>3

\* f gives the value of a loop after each of its first n steps: it starts from
\* a, and step j takes x, one of the values A, to next[j][x].
Runs(n, A, a, next, f) == /\ f \in [0 .. n -> A] /\ f[0] = a
                          /\ \A j \in 1 .. n : f[j] = next[j][f[j - 1]]

IsLoop(N, A, next) == next \in [1 .. N -> [A -> A]]

LEMMA LoopRuns ==
    ASSUME NEW N \in Nat, NEW A, NEW a \in A, NEW next, IsLoop(N, A, next)
    PROVE  \E f : Runs(N, A, a, next, f)
<1> DEFINE Run(n, f) == /\ f \in [0 .. n -> A] /\ f[0] = a
                        /\ \A j \in 1 .. n : f[j] = next[j][f[j - 1]]
           Bad == {n \in 0 .. N : ~\E f : Run(n, f)}
<1>0. next \in [1 .. N -> [A -> A]]
  BY DEF IsLoop
<1>1. ASSUME Bad # {} PROVE FALSE
  <2>1. PICK m \in Bad : \A n \in Bad : m <= n
    <3>1. Bad \in SUBSET Nat
      OBVIOUS
    <3> HIDE DEF Bad
    <3> QED  BY <1>1, <3>1, LeastElement
  <2>2. m \in 0 .. N /\ ~\E f : Run(m, f)
    OBVIOUS
  <2>3. CASE m = 0
    <3>1. Run(0, [j \in 0 .. 0 |-> a])
      OBVIOUS
    <3> QED  BY <2>2, <2>3, <3>1
  <2>4. CASE m # 0
    <3>1. m \in 1 .. N /\ m - 1 \in 0 .. N /\ m - 1 \notin Bad
      <4>1. m \in 1 .. N /\ m - 1 \in 0 .. N /\ ~(m <= m - 1)
        BY <2>2, <2>4
      <4> HIDE DEF Bad
      <4> QED  BY <2>1, <4>1
    <3>2. PICK f : Run(m - 1, f)
      BY <3>1
    <3> DEFINE g == [j \in 0 .. m |-> IF j < m THEN f[j] ELSE next[m][f[m - 1]]]
    <3>3. f[m - 1] \in A /\ \A j \in 0 .. m - 1 : f[j] \in A
      BY <3>1, <3>2
    <3>4. next[m][f[m - 1]] \in A
      <4>1. next[m] \in [A -> A]
        BY <1>0, <3>1
      <4> QED  BY <3>3, <4>1
    <3>5. g \in [0 .. m -> A]
      BY <3>1, <3>3, <3>4
    <3>6. g[0] = a
      BY <3>1, <3>2
    <3>7. ASSUME NEW j \in 1 .. m PROVE g[j] = next[j][g[j - 1]]
      <4>1. j - 1 \in 0 .. m /\ j \in 0 .. m /\ j - 1 < m
        BY <3>1
      <4>2. g[j - 1] = f[j - 1]
        BY <4>1
      <4>3. CASE j = m
        BY <4>1, <4>2, <4>3
      <4>4. CASE j # m
        <5>1. j \in 1 .. m - 1 /\ j < m
          BY <3>1, <4>4
        <5>2. g[j] = f[j]
          BY <4>1, <5>1
        <5> QED  BY <3>2, <4>2, <5>1, <5>2
      <4> QED  BY <4>3, <4>4
    <3> HIDE DEF g
    <3>8. Run(m, g)
      BY <3>5, <3>6, <3>7
    <3> QED  BY <2>2, <3>8
  <2> QED  BY <2>3, <2>4
<1>2. N \notin Bad
  BY <1>1
<1> QED  BY <1>2 DEF Runs

Arrangements(N) == [1 .. N -> Networks]

\* t has what s has, from slot i on in another order, and the same before it.
Moved(N, s, t, i) ==
    \E p \in Bijection(1 .. N, 1 .. N) :
        /\ \A k \in 1 .. N : (k < i => p[k] = k) /\ (k >= i => p[k] >= i)
        /\ t = [k \in 1 .. N |-> s[p[k]]]

LEMMA LenIs ==
    ASSUME NEW N \in Nat, NEW s \in Arrangements(N)
    PROVE  Len(s) = N
  BY IsASeq, LenProperties DEF Arrangements

LEMMA BijectionIs ==
    ASSUME NEW S, NEW p
    PROVE  p \in Bijection(S, S) <=> /\ p \in [S -> S]
                                     /\ \A x, y \in S : p[x] = p[y] => x = y
                                     /\ \A y \in S : \E x \in S : p[x] = y
  BY DEF Bijection, Injection, Surjection, IsInjective

LEMMA MovedSelf ==
    ASSUME NEW N \in Nat, NEW s \in Arrangements(N), NEW i \in 1 .. N + 1
    PROVE  Moved(N, s, s, i)
<1> DEFINE p == [k \in 1 .. N |-> k]
<1>1. p \in Bijection(1 .. N, 1 .. N)
  <2>1. p \in [1 .. N -> 1 .. N] /\ \A x \in 1 .. N : p[x] = x
    OBVIOUS
  <2> HIDE DEF p
  <2> QED  BY <2>1, BijectionIs
<1>2. s = [k \in 1 .. N |-> s[p[k]]]
  BY DEF Arrangements
<1> QED  BY <1>1, <1>2 DEF Moved

LEMMA MovedType ==
    ASSUME NEW N \in Nat, NEW s \in Arrangements(N), NEW t, NEW i, Moved(N, s, t, i)
    PROVE  t \in Arrangements(N)
  BY BijectionIs DEF Moved, Arrangements

LEMMA MovedOn ==
    ASSUME NEW N \in Nat, NEW s \in Arrangements(N), NEW t, NEW u,
           NEW i \in 1 .. N, NEW h \in 1 .. i,
           Moved(N, s, t, h), Moved(N, t, u, i)
    PROVE  Moved(N, s, u, h)
<1>1. PICK p \in Bijection(1 .. N, 1 .. N) :
         /\ \A k \in 1 .. N : (k < h => p[k] = k) /\ (k >= h => p[k] >= h)
         /\ t = [k \in 1 .. N |-> s[p[k]]]
  BY DEF Moved
<1>2. PICK q \in Bijection(1 .. N, 1 .. N) :
         /\ \A k \in 1 .. N : (k < i => q[k] = k) /\ (k >= i => q[k] >= i)
         /\ u = [k \in 1 .. N |-> t[q[k]]]
  BY DEF Moved
<1> DEFINE r == [k \in 1 .. N |-> p[q[k]]]
<1>3. /\ p \in [1 .. N -> 1 .. N] /\ \A x, y \in 1 .. N : p[x] = p[y] => x = y
      /\ \A y \in 1 .. N : \E x \in 1 .. N : p[x] = y
  BY DEF Bijection, Injection, Surjection, IsInjective
<1>4. /\ q \in [1 .. N -> 1 .. N] /\ \A x, y \in 1 .. N : q[x] = q[y] => x = y
      /\ \A y \in 1 .. N : \E x \in 1 .. N : q[x] = y
  BY DEF Bijection, Injection, Surjection, IsInjective
<1>5. r \in Bijection(1 .. N, 1 .. N)
  <2>1. r \in [1 .. N -> 1 .. N] /\ \A x \in 1 .. N : r[x] = p[q[x]]
    <3>1. \A x \in 1 .. N : p[q[x]] \in 1 .. N
      BY <1>3, <1>4
    <3>2. r \in [1 .. N -> 1 .. N]
      BY <3>1
    <3>3. \A x \in 1 .. N : r[x] = p[q[x]]
      OBVIOUS
    <3> QED  BY <3>2, <3>3
  <2> HIDE DEF r
  <2>2. ASSUME NEW x \in 1 .. N, NEW y \in 1 .. N, r[x] = r[y] PROVE x = y
    <3>1. q[x] \in 1 .. N /\ q[y] \in 1 .. N /\ p[q[x]] = p[q[y]]
      BY <1>4, <2>1, <2>2
    <3>2. q[x] = q[y]
      BY <1>3, <3>1
    <3> QED  BY <1>4, <3>2
  <2>3. \A y \in 1 .. N : \E x \in 1 .. N : r[x] = y
    BY <1>3, <1>4, <2>1
  <2> QED  BY <2>1, <2>2, <2>3, BijectionIs
<1>6. \A k \in 1 .. N : (k < h => r[k] = k) /\ (k >= h => r[k] >= h)
  <2> SUFFICES ASSUME NEW k \in 1 .. N
               PROVE  (k < h => p[q[k]] = k) /\ (k >= h => p[q[k]] >= h)
    OBVIOUS
  <2>1. q[k] \in 1 .. N /\ (k < i => q[k] = k) /\ (k >= i => q[k] >= i)
    BY <1>2, <1>4
  <2> QED  BY <1>1, <2>1
<1>7. u = [k \in 1 .. N |-> s[r[k]]]
  <2>1. \A k \in 1 .. N : t[q[k]] = s[p[q[k]]]
    BY <1>1, <1>4
  <2> QED  BY <1>2, <2>1
<1> QED  BY <1>5, <1>6, <1>7 DEF Moved

\* An exchange of slot i with a later one.
LEMMA ExchangeMoves ==
    ASSUME NEW N \in Nat, NEW t \in Arrangements(N), NEW i \in 1 .. N, NEW j \in i + 1 .. N
    PROVE  /\ Moved(N, t, Exchange(t, i, j), i)
           /\ Strength[Exchange(t, i, j)[i]] >= Strength[Exchange(t, i, j)[j]]
           /\ Strength[Exchange(t, i, j)[i]] >= Strength[t[i]]
           /\ \A k \in 1 .. N \ {i, j} : Exchange(t, i, j)[k] = t[k]
<1> DEFINE u == Exchange(t, i, j)
<1>1. i \in 1 .. N /\ j \in 1 .. N /\ i < j /\ DOMAIN t = 1 .. N
      /\ t[i] \in Networks /\ t[j] \in Networks
  BY DEF Arrangements
<1>2. Strength[t[i]] \in Nat /\ Strength[t[j]] \in Nat
  BY <1>1, PortalAssumption
<1>3. CASE Strength[t[j]] > Strength[t[i]]
  <2> DEFINE p == [k \in 1 .. N |-> IF k = i THEN j ELSE IF k = j THEN i ELSE k]
  <2>1. u = [t EXCEPT ![i] = t[j], ![j] = t[i]]
    BY <1>3 DEF Exchange
  <2>2. /\ u \in [1 .. N -> Networks] /\ u[i] = t[j] /\ u[j] = t[i]
        /\ \A k \in 1 .. N \ {i, j} : u[k] = t[k]
    BY <1>1, <2>1 DEF Arrangements
  <2>3. /\ p \in [1 .. N -> 1 .. N] /\ p[i] = j /\ p[j] = i
        /\ \A k \in 1 .. N \ {i, j} : p[k] = k
    BY <1>1
  <2> HIDE DEF p, u
  <2>4. p \in Bijection(1 .. N, 1 .. N)
    <3>1. \A x \in 1 .. N : p[p[x]] = x
      BY <1>1, <2>3
    <3> QED  BY <2>3, <3>1, BijectionIs
  <2>5. \A k \in 1 .. N : (k < i => p[k] = k) /\ (k >= i => p[k] >= i)
    BY <1>1, <2>3
  <2>6. \A k \in 1 .. N : u[k] = t[p[k]]
    BY <1>1, <2>2, <2>3
  <2>7. u = [k \in 1 .. N |-> t[p[k]]]
    BY <2>2, <2>6
  <2>8. Moved(N, t, u, i)
    BY <2>4, <2>5, <2>7 DEF Moved
  <2> QED  BY <1>2, <1>3, <2>2, <2>8 DEF u
<1>4. CASE ~(Strength[t[j]] > Strength[t[i]])
  <2>1. u = t
    BY <1>4 DEF Exchange
  <2>2. Moved(N, t, t, i)
    BY MovedSelf
  <2> QED  BY <1>2, <1>4, <2>1, <2>2
<1> QED  BY <1>3, <1>4

\* After the inner loop slot i is no weaker than any later one.
LEMMA PassIs ==
    ASSUME NEW N \in Nat, NEW s \in Arrangements(N), Len(s) = N, NEW i \in 1 .. N
    PROVE  /\ Moved(N, s, Pass(s, i), i)
           /\ \A k \in i .. N : Strength[Pass(s, i)[i]] >= Strength[Pass(s, i)[k]]
<1> DEFINE Body(f) == [j \in 0 .. N |-> IF j <= i THEN s ELSE Exchange(f[j - 1], i, j)]
           upTo == CHOOSE f : f = Body(f)
           D == [j \in 0 .. N |->
                    {t \in Arrangements(N) :
                        /\ Moved(N, s, t, i)
                        /\ \A k \in i .. N : k <= j => Strength[t[i]] >= Strength[t[k]]}]
<1>1. \A t \in Arrangements(N) : \A j \in i + 1 .. N : Exchange(t, i, j) \in Arrangements(N)
  BY ExchangeMoves, MovedType
<1>2. \E f : f = Body(f)
  <2> DEFINE next == [j \in 1 .. N |-> [t \in Arrangements(N) |->
                         IF j <= i THEN s ELSE Exchange(t, i, j)]]
  <2>1. \A j \in 1 .. N : \A t \in Arrangements(N) :
           next[j][t] = IF j <= i THEN s ELSE Exchange(t, i, j)
    OBVIOUS
  <2>2. next \in [1 .. N -> [Arrangements(N) -> Arrangements(N)]]
    <3>1. \A j \in 1 .. N : \A t \in Arrangements(N) :
             (IF j <= i THEN s ELSE Exchange(t, i, j)) \in Arrangements(N)
      BY <1>1
    <3> QED  BY <3>1
  <2> HIDE DEF next
  <2>3. PICK f : Runs(N, Arrangements(N), s, next, f)
    <3>1. IsLoop(N, Arrangements(N), next)
      BY <2>2 DEF IsLoop
    <3> QED  BY <3>1, LoopRuns
  <2>4. /\ f \in [0 .. N -> Arrangements(N)] /\ f[0] = s
        /\ \A j \in 1 .. N : f[j] = next[j][f[j - 1]]
    BY <2>3 DEF Runs
  <2>5. \A j \in 0 .. N : f[j] = IF j <= i THEN s ELSE Exchange(f[j - 1], i, j)
    <3> SUFFICES ASSUME NEW j \in 0 .. N
                 PROVE  f[j] = IF j <= i THEN s ELSE Exchange(f[j - 1], i, j)
      OBVIOUS
    <3>1. CASE j = 0
      BY <2>4, <3>1
    <3>2. CASE j # 0
      <4>1. j \in 1 .. N /\ f[j - 1] \in Arrangements(N)
        BY <2>4, <3>2
      <4> QED  BY <2>1, <2>4, <4>1
    <3> QED  BY <3>1, <3>2
  <2>6. f = Body(f)
    BY <2>4, <2>5
  <2> QED  BY <2>6
<1>3. upTo = Body(upTo)
  BY <1>2
<1>4. Pass(s, i) = upTo[N]
  BY DEF Pass
<1> HIDE DEF upTo
<1>5. \A j \in 0 .. N : upTo[j] = IF j <= i THEN s ELSE Exchange(upTo[j - 1], i, j)
  BY <1>3
<1>6. upTo[0] \in D[0]
  <2>1. upTo[0] = s
    BY <1>5
  <2>2. Moved(N, s, s, i)
    BY MovedSelf
  <2> QED  BY <2>1, <2>2
<1>7. ASSUME NEW j \in 1 .. N, upTo[j - 1] \in D[j - 1]
      PROVE  upTo[j] \in D[j]
  <2> DEFINE t == upTo[j - 1]
             u == upTo[j]
  <2>1. j \in 0 .. N /\ j - 1 \in 0 .. N
    OBVIOUS
  <2>2. /\ t \in Arrangements(N) /\ Moved(N, s, t, i)
        /\ \A k \in i .. N : k <= j - 1 => Strength[t[i]] >= Strength[t[k]]
    BY <1>7, <2>1
  <2>3. u = IF j <= i THEN s ELSE Exchange(t, i, j)
    BY <1>5, <2>1
  <2> HIDE DEF t, u
  <2>4. /\ u \in Arrangements(N) /\ Moved(N, s, u, i)
        /\ \A k \in i .. N : k <= j => Strength[u[i]] >= Strength[u[k]]
    <3>1. CASE j <= i
      <4>1. u = s /\ Moved(N, s, s, i)
        BY <2>3, <3>1, MovedSelf
      <4>2. \A k \in i .. N : k <= j => k = i
        BY <3>1
      <4>3. Strength[s[i]] \in Nat
        BY PortalAssumption DEF Arrangements
      <4> QED  BY <4>1, <4>2, <4>3
    <3>2. CASE j > i
      <4>1. j \in i + 1 .. N /\ u = Exchange(t, i, j)
        BY <2>3, <3>2
      <4>2. /\ Moved(N, t, u, i) /\ Strength[u[i]] >= Strength[u[j]]
            /\ Strength[u[i]] >= Strength[t[i]]
            /\ \A k \in 1 .. N \ {i, j} : u[k] = t[k]
        BY <2>2, <4>1, ExchangeMoves
      <4>3. u \in Arrangements(N)
        BY <2>2, <4>2, MovedType
      <4>4. Moved(N, s, u, i)
        BY <2>2, <4>2, MovedOn
      <4>5. \A k \in 1 .. N : Strength[t[k]] \in Nat /\ Strength[u[k]] \in Nat
        BY <2>2, <4>3, PortalAssumption DEF Arrangements
      <4>6. ASSUME NEW k \in i .. N, k <= j PROVE Strength[u[i]] >= Strength[u[k]]
        <5>1. CASE k = i
          BY <4>5, <5>1
        <5>2. CASE k = j
          BY <4>2, <5>2
        <5>3. CASE k # i /\ k # j
          <6>1. u[k] = t[k] /\ Strength[t[i]] >= Strength[t[k]] /\ k \in 1 .. N
            BY <2>2, <4>2, <4>6, <5>3
          <6> QED  BY <4>2, <4>5, <6>1
        <5> QED  BY <5>1, <5>2, <5>3
      <4> QED  BY <4>3, <4>4, <4>6
    <3> QED  BY <3>1, <3>2
  <2>5. u \in D[j]
    BY <2>1, <2>4
  <2> QED  BY <2>5 DEF u
<1> HIDE DEF D
<1>8. upTo[N] \in D[N]
  BY <1>6, <1>7, LoopKeeps
<1>9. /\ Moved(N, s, upTo[N], i)
      /\ \A k \in i .. N : Strength[upTo[N][i]] >= Strength[upTo[N][k]]
  BY <1>8 DEF D
<1> QED  BY <1>4, <1>9

\* After the outer loop every slot is no weaker than any later one.
LEMMA SortIs ==
    ASSUME NEW N \in Nat, NEW s \in Arrangements(N), Len(s) = N
    PROVE  /\ Moved(N, s, SortByRssi(s), 1)
           /\ \A k, l \in 1 .. N : k < l =>
                 Strength[SortByRssi(s)[k]] >= Strength[SortByRssi(s)[l]]
<1> DEFINE Body(f) == [i \in 0 .. N |-> IF i = 0 THEN s ELSE Pass(f[i - 1], i)]
           passes == CHOOSE f : f = Body(f)
           D == [i \in 0 .. N |->
                    {t \in Arrangements(N) :
                        /\ Moved(N, s, t, 1)
                        /\ \A k, l \in 1 .. N :
                              k <= i /\ k < l => Strength[t[k]] >= Strength[t[l]]}]
<1>1. \A t \in Arrangements(N) : \A i \in 1 .. N : Pass(t, i) \in Arrangements(N)
  BY LenIs, PassIs, MovedType
<1>2. \E f : f = Body(f)
  <2> DEFINE next == [i \in 1 .. N |-> [t \in Arrangements(N) |-> Pass(t, i)]]
  <2>1. \A i \in 1 .. N : \A t \in Arrangements(N) : next[i][t] = Pass(t, i)
    OBVIOUS
  <2>2. next \in [1 .. N -> [Arrangements(N) -> Arrangements(N)]]
    BY <1>1
  <2> HIDE DEF next
  <2>3. PICK f : Runs(N, Arrangements(N), s, next, f)
    <3>1. IsLoop(N, Arrangements(N), next)
      BY <2>2 DEF IsLoop
    <3> QED  BY <3>1, LoopRuns
  <2>4. /\ f \in [0 .. N -> Arrangements(N)] /\ f[0] = s
        /\ \A i \in 1 .. N : f[i] = next[i][f[i - 1]]
    BY <2>3 DEF Runs
  <2>5. ASSUME NEW i \in 0 .. N
        PROVE  f[i] = IF i = 0 THEN s ELSE Pass(f[i - 1], i)
    <3>1. CASE i = 0
      BY <2>4, <3>1
    <3>2. CASE i # 0
      <4>1. i \in 1 .. N /\ f[i - 1] \in Arrangements(N)
        BY <2>4, <3>2
      <4> QED  BY <2>1, <2>4, <4>1
    <3> QED  BY <3>1, <3>2
  <2>6. f = Body(f)
    BY <2>4, <2>5
  <2> QED  BY <2>6
<1>3. passes = Body(passes)
  BY <1>2
<1>4. SortByRssi(s) = passes[N]
  BY DEF SortByRssi
<1> HIDE DEF passes
<1>5. \A i \in 0 .. N : passes[i] = IF i = 0 THEN s ELSE Pass(passes[i - 1], i)
  BY <1>3
<1>6. passes[0] \in D[0]
  <2>1. passes[0] = s
    BY <1>5
  <2>2. CASE N = 0
    <3>1. s \in Arrangements(N) /\ Moved(N, s, s, 1)
      BY <2>2, MovedSelf
    <3> QED  BY <2>1, <3>1
  <2>3. CASE N # 0
    <3>1. Moved(N, s, s, 1)
      BY <2>3, MovedSelf
    <3> QED  BY <2>1, <3>1
  <2> QED  BY <2>2, <2>3
<1>7. ASSUME NEW i \in 1 .. N, passes[i - 1] \in D[i - 1]
      PROVE  passes[i] \in D[i]
  <2> DEFINE t == passes[i - 1]
             u == passes[i]
  <2>1. i \in 0 .. N /\ i - 1 \in 0 .. N
    OBVIOUS
  <2>2. /\ t \in Arrangements(N) /\ Moved(N, s, t, 1)
        /\ \A k, l \in 1 .. N :
              k <= i - 1 /\ k < l => Strength[t[k]] >= Strength[t[l]]
    BY <1>7, <2>1
  <2>3. u = Pass(t, i)
    BY <1>5, <2>1
  <2> HIDE DEF t, u
  <2>4. /\ Moved(N, t, u, i)
        /\ \A k \in i .. N : Strength[u[i]] >= Strength[u[k]]
    BY <2>2, <2>3, LenIs, PassIs
  <2>5. u \in Arrangements(N)
    BY <2>2, <2>4, MovedType
  <2>6. Moved(N, s, u, 1)
    BY <2>2, <2>4, MovedOn
  <2>7. ASSUME NEW k \in 1 .. N, NEW l \in 1 .. N, k <= i, k < l
        PROVE  Strength[u[k]] >= Strength[u[l]]
    <3>1. CASE k = i
      BY <2>4, <2>7, <3>1
    <3>2. CASE k # i
      <4>1. PICK p \in Bijection(1 .. N, 1 .. N) :
               /\ \A m \in 1 .. N : (m < i => p[m] = m) /\ (m >= i => p[m] >= i)
               /\ u = [m \in 1 .. N |-> t[p[m]]]
        BY <2>4 DEF Moved
      <4>2. p[l] \in 1 .. N
        BY BijectionIs
      <4>3. k < i /\ p[k] = k /\ k < p[l]
        BY <2>7, <3>2, <4>1, <4>2
      <4>4. u[k] = t[k] /\ u[l] = t[p[l]]
        BY <4>1, <4>3
      <4> QED  BY <2>2, <4>2, <4>3, <4>4
    <3> QED  BY <3>1, <3>2
  <2>8. u \in D[i]
    BY <2>1, <2>5, <2>6, <2>7
  <2> QED  BY <2>8 DEF u
<1> HIDE DEF D
<1>8. passes[N] \in D[N]
  <2>1. \A i \in 0 .. N : passes[i] \in D[i]
    BY <1>6, <1>7, LoopKeeps
  <2> QED  BY <2>1
<1>9. /\ Moved(N, s, passes[N], 1)
      /\ \A k, l \in 1 .. N : k < l =>
            Strength[passes[N][k]] >= Strength[passes[N][l]]
  BY <1>8 DEF D
<1> QED  BY <1>4, <1>9

\* A rearrangement has every name as often.
LEMMA MovedCounts ==
    ASSUME NEW N \in Nat, NEW s \in Arrangements(N), NEW t, Moved(N, s, t, 1), NEW n
    PROVE  Count(t, n) = Count(s, n)
<1>1. PICK p \in Bijection(1 .. N, 1 .. N) : t = [k \in 1 .. N |-> s[p[k]]]
  BY DEF Moved
<1>2. /\ p \in [1 .. N -> 1 .. N] /\ \A x, y \in 1 .. N : p[x] = p[y] => x = y
      /\ \A y \in 1 .. N : \E x \in 1 .. N : p[x] = y
  BY DEF Bijection, Injection, Surjection, IsInjective
<1> DEFINE S == {k \in 1 .. N : s[k] = n}
           T == {k \in 1 .. N : t[k] = n}
           q == [k \in T |-> p[k]]
<1>3. IsFiniteSet(T)
  <2>1. IsFiniteSet(1 .. N) /\ T \in SUBSET (1 .. N)
    BY FS_Interval
  <2> HIDE DEF T
  <2> QED  BY <2>1, FS_Subset
<1>4. q \in Bijection(T, S)
  <2>1. q \in [T -> S]
    BY <1>1, <1>2
  <2>2. \A x, y \in T : q[x] = q[y] => x = y
    BY <1>2
  <2>3. \A y \in S : \E x \in T : q[x] = y
    <3> SUFFICES ASSUME NEW y \in S PROVE \E x \in T : q[x] = y
      OBVIOUS
    <3>1. PICK x \in 1 .. N : p[x] = y
      BY <1>2
    <3>2. x \in T
      BY <1>1, <3>1
    <3> QED  BY <3>1, <3>2
  <2> HIDE DEF q, S, T
  <2> QED  BY <2>1, <2>2, <2>3 DEF Bijection, Injection, Surjection, IsInjective
<1>5. Cardinality(S) = Cardinality(T)
  <2> HIDE DEF q, S, T
  <2> QED  BY <1>3, <1>4, FS_Bijection DEF ExistsBijection
<1>6. Count(s, n) = Cardinality(S)
  BY DEF Count, Arrangements
<1>7. Count(t, n) = Cardinality(T)
  BY <1>1 DEF Count
<1> QED  BY <1>5, <1>6, <1>7

\* The scan's answer: the strongest of what was found, and no other.
LEMMA ScanIsStrongest ==
    ASSUME NEW found \in Seq(Networks)
    PROVE  /\ Strongest(Limit(SortByRssi(found)), found)
           /\ Limit(SortByRssi(found)) \in Seq(Networks)
           /\ Len(Limit(SortByRssi(found))) <= MaxScanResult
<1> DEFINE N == Len(found)
           t == SortByRssi(found)
           M == IF N > MaxScanResult THEN MaxScanResult ELSE N
           s == Limit(t)
<1>1. N \in Nat /\ found \in Arrangements(N) /\ MaxScanResult \in Nat \ {0}
  BY LenProperties, PortalAssumption DEF Arrangements
<1>2. Moved(N, found, t, 1) /\ \A k, l \in 1 .. N : k < l => Strength[t[k]] >= Strength[t[l]]
  <2> HIDE DEF t
  <2> QED  BY <1>1, SortIs DEF t
<1> HIDE DEF t
<1>3. t \in [1 .. N -> Networks]
  BY <1>1, <1>2, MovedType DEF Arrangements
<1>4. Len(t) = N
  BY <1>1, <1>3, LenIs DEF Arrangements
<1>5. s = SubSeq(t, 1, M)
  BY <1>4 DEF Limit
<1>6. M \in 0 .. N /\ M \in Nat /\ M <= MaxScanResult /\ (M < N => M = MaxScanResult)
  BY <1>1
<1> HIDE DEF N, M, s
<1>7. /\ s \in Seq(Networks) /\ Len(s) = M
      /\ \A i \in 1 .. M : s[i] = t[i]
  <2>1. \A i \in 1 .. M : t[i] \in Networks
    BY <1>1, <1>3, <1>6
  <2>2. /\ SubSeq(t, 1, M) \in Seq(Networks)
        /\ Len(SubSeq(t, 1, M)) = IF 1 <= M THEN M - 1 + 1 ELSE 0
        /\ \A i \in 1 .. M - 1 + 1 : SubSeq(t, 1, M)[i] = t[1 + i - 1]
    BY <1>6, <2>1, SubSeqProperties
  <2>3. M - 1 + 1 = M /\ \A i \in 1 .. M : 1 + i - 1 = i
    BY <1>6
  <2> QED  BY <1>5, <1>6, <2>2, <2>3
<1>8. DOMAIN s = 1 .. M
  BY <1>7, LenProperties
<1>9. \A i, j \in DOMAIN s : i < j => Strength[s[i]] >= Strength[s[j]]
  BY <1>1, <1>2, <1>6, <1>7, <1>8
<1>10. ASSUME NEW n \in Networks
       PROVE  /\ Count(s, n) <= Count(found, n)
              /\ Count(s, n) < Count(found, n)
                   => /\ Len(s) = MaxScanResult
                      /\ Strength[n] <= Strength[s[Len(s)]]
  <2> DEFINE S == {i \in 1 .. M : t[i] = n}
             T == {i \in 1 .. N : t[i] = n}
  <2>1. Count(found, n) = Count(t, n)
    BY <1>1, <1>2, MovedCounts
  <2>2. Count(t, n) = Cardinality(T)
    BY <1>3 DEF Count
  <2>3. Count(s, n) = Cardinality(S)
    <3>1. {i \in 1 .. M : s[i] = n} = S
      BY <1>7
    <3> HIDE DEF S
    <3> QED  BY <1>8, <3>1 DEF Count
  <2>4. IsFiniteSet(T)
    <3>1. IsFiniteSet(1 .. N) /\ T \in SUBSET (1 .. N)
      BY <1>1, FS_Interval
    <3> HIDE DEF T
    <3> QED  BY <3>1, FS_Subset
  <2>5. S \in SUBSET T
    BY <1>1, <1>6
  <2>6. Cardinality(S) <= Cardinality(T) /\ (S = T => Cardinality(S) = Cardinality(T))
    <3> HIDE DEF S, T
    <3> QED  BY <2>4, <2>5, FS_Subset
  <2>7. ASSUME Count(s, n) < Count(found, n)
        PROVE  Len(s) = MaxScanResult /\ Strength[n] <= Strength[s[Len(s)]]
    <3>1. S # T
      <4>1. Cardinality(S) \in Nat /\ Cardinality(T) \in Nat
        <5> HIDE DEF S, T
        <5> QED  BY <2>4, <2>5, FS_Subset, FS_CardinalityType
      <4> HIDE DEF S, T
      <4> QED  BY <2>1, <2>2, <2>3, <2>7, <4>1
    <3>2. PICK k \in 1 .. N : t[k] = n /\ k > M
      BY <1>1, <1>6, <2>5, <3>1
    <3>3. M = MaxScanResult /\ M \in 1 .. N /\ M < k
      BY <1>1, <1>6, <3>2
    <3>4. Strength[t[M]] >= Strength[t[k]] /\ s[M] = t[M]
      BY <1>2, <1>7, <3>3
    <3>5. Strength[t[M]] \in Nat /\ Strength[n] \in Nat
      BY <1>3, <3>3, PortalAssumption
    <3> QED  BY <1>7, <3>2, <3>3, <3>4, <3>5
  <2> QED  BY <2>1, <2>2, <2>3, <2>6, <2>7
<1>11. Strongest(s, found)
  BY <1>9, <1>10 DEF Strongest
<1> QED  BY <1>6, <1>7, <1>11 DEF s, t
-----------------------------------------------------------------------------
(* What the scans answer.                                                  *)

\* What a scan found, of which its answer is made.
LEMMA FoundIs ==
    ASSUME NEW r \in asked, WifiScanHandler(r)
    PROVE  \E found \in Seq(Networks) :
              replies' = replies \cup
                 {[page |-> r.page, kind |-> "scan",
                   networks |-> Limit(SortByRssi(found)), found |-> found]}
<1>1. Scans \cup {<<>>} \subseteq Seq(Networks)
  BY PortalAssumption, EmptySeq
<1> QED  BY <1>1 DEF WifiScanHandler, Served

\* No step but the scan's handler answers a scan.
LEMMA OnlyScansAnswer ==
    ASSUME [Next]_vars, ~\E r \in asked : WifiScanHandler(r)
    PROVE  \A x \in replies' : x \in replies \/ x.kind # "scan"
<1>1. CASE \E p \in Pages : Tick(p) \/ User(p)
  BY <1>1 DEF User, Tick, ScanWifi, ScanRefused, DismissAlert, SelectWifi, ConnectWifi,
              CancelPrompt
<1>2. CASE \E r \in asked : Handler(r) \/ FetchFails(r)
  BY <1>2 DEF Handler, FetchFails, Served, WifiStatusHandler, WifiSelectHandler,
              WifiConnectRejected, WifiConnectHandler, ConnectReply
<1>3. CASE \E r \in replies : Callback(r) \/ FetchFails(r)
  BY <1>3 DEF Callback, FetchFails, Arrives, UpdateWifiStatus, RenderScan,
              OpenPrompt, ConnectAnswered
<1>4. CASE WifiConnected \/ WifiConnectFailed \/ Associate \/ Drop
  BY <1>4 DEF WifiConnected, WifiConnectFailed, ConnectReply, Associate, Drop
<1>5. CASE UNCHANGED vars
  BY <1>5 DEF vars
<1> QED  BY <1>1, <1>2, <1>3, <1>4, <1>5 DEF Next

\* The answer to a scan lists the strongest of what was found, for whatever the
\* driver finds, for every limit and every number of pages: the sort of
\* wifi_scan_handler, its two loops and the cut after them.
THEOREM ScanIsSorted == Spec => []ScanListsStrongest
<1>1. Init => ScanListsStrongest
  BY DEF Init, ScanListsStrongest
<1>2. ScanListsStrongest /\ [Next]_vars => ScanListsStrongest'
  <2> SUFFICES ASSUME ScanListsStrongest, [Next]_vars PROVE ScanListsStrongest'
    OBVIOUS
  <2>1. CASE \E r \in asked : WifiScanHandler(r)
    <3>1. PICK r \in asked : WifiScanHandler(r)
      BY <2>1
    <3>2. PICK found \in Seq(Networks) :
             replies' = replies \cup
                {[page |-> r.page, kind |-> "scan",
                  networks |-> Limit(SortByRssi(found)), found |-> found]}
      BY <3>1, FoundIs
    <3>3. Strongest(Limit(SortByRssi(found)), found)
      BY ScanIsStrongest
    <3> QED  BY <3>2, <3>3 DEF ScanListsStrongest
  <2>2. CASE ~\E r \in asked : WifiScanHandler(r)
    BY <2>2, OnlyScansAnswer DEF ScanListsStrongest
  <2> QED  BY <2>1, <2>2
<1> QED  BY <1>1, <1>2, PTL DEF Spec
-----------------------------------------------------------------------------
(* The types.                                                              *)

\* What a page reads of a reply.
ReplyTyped(x) ==
    /\ x.page \in Pages
    /\ x.kind = "scan" => x.networks \in Seq(Networks) /\ Len(x.networks) <= MaxScanResult
    /\ x.kind = "status" => x.connected \in BOOLEAN /\ x.ssid \in Networks \cup {None}
    /\ x.kind = "select" => x.ssid \in Networks

\* Inside a connect there is a password, and still a name.
InCall == serving # None => serving.kind = "connect" /\ selected # None

TypeInv == TypeOK /\ InCall /\ \A x \in replies : ReplyTyped(x)

\* What the page shows is typed as long as the replies are.
LEMMA UserTypes ==
    ASSUME TypeInv, NEW p \in Pages, Tick(p) \/ User(p)
    PROVE  TypeInv'
<1> USE DEF TypeInv, TypeOK, InCall
<1>1. CASE Tick(p)
  BY <1>1 DEF Tick, Ask, pages, device, station, Request
<1>2. CASE ScanWifi(p)
  <2>1. /\ list' \in [Pages -> Seq(Networks)]
        /\ \A q \in Pages : Len(list'[q]) <= MaxScanResult
    BY <1>2, EmptySeq, PortalAssumption DEF ScanWifi
  <2> QED  BY <1>2, <2>1 DEF ScanWifi, Ask, device, station, Request
<1>3. CASE CancelPrompt(p) \/ ScanRefused(p) \/ DismissAlert(p)
  BY <1>3 DEF CancelPrompt, ScanRefused, DismissAlert, OpenAlert, device, station
<1>4. ASSUME NEW n \in Networks, SelectWifi(p, n) PROVE TypeInv'
  BY <1>4 DEF SelectWifi, Ask, pages, device, station, Request
<1>5. ASSUME NEW w \in Passwords, ConnectWifi(p, w) PROVE TypeInv'
  BY <1>5 DEF ConnectWifi, Ask, device, station, Request
<1> QED  BY <1>1, <1>2, <1>3, <1>4, <1>5 DEF User

LEMMA HandlerTypes ==
    ASSUME TypeInv, NEW r \in asked, Handler(r)
    PROVE  TypeInv'
<1>1. r \in Request
  BY DEF TypeInv, TypeOK
<1>2. CASE WifiStatusHandler(r)
  <2> DEFINE x == [page |-> r.page, kind |-> "status",
                   connected |-> link = "up", ssid |-> selected]
  <2>1. (link = "up") \in BOOLEAN
    OBVIOUS
  <2>2. ReplyTyped(x)
    BY <1>1, <2>1 DEF ReplyTyped, Request, TypeInv, TypeOK
  <2>3. /\ asked' \subseteq asked /\ replies' = replies \cup {x}
        /\ UNCHANGED <<pages, device>>
    BY <1>2 DEF WifiStatusHandler, Served
  <2> HIDE DEF x
  <2>4. \A y \in replies' : ReplyTyped(y)
    BY <2>2, <2>3 DEF TypeInv
  <2> QED  BY <2>3, <2>4 DEF pages, device, station, TypeInv, TypeOK, InCall, ReplyTyped
<1>3. CASE WifiScanHandler(r)
  <2>1. PICK found \in Seq(Networks) :
           replies' = replies \cup
              {[page |-> r.page, kind |-> "scan",
                networks |-> Limit(SortByRssi(found)), found |-> found]}
    BY <1>3, FoundIs
  <2> DEFINE x == [page |-> r.page, kind |-> "scan",
                   networks |-> Limit(SortByRssi(found)), found |-> found]
  <2>2. ReplyTyped(x)
    BY <1>1, ScanIsStrongest DEF ReplyTyped, Request
  <2>3. /\ asked' \subseteq asked
        /\ UNCHANGED <<pages, device>>
    BY <1>3 DEF WifiScanHandler, Served
  <2> HIDE DEF x
  <2>4. \A y \in replies' : ReplyTyped(y)
    BY <2>1, <2>2 DEF TypeInv, x
  <2> QED  BY <2>3, <2>4 DEF pages, device, station, TypeInv, TypeOK, InCall, ReplyTyped
<1>4. CASE WifiSelectHandler(r)
  BY <1>1, <1>4 DEF WifiSelectHandler, Served, pages, device, station, Request,
                    TypeInv, TypeOK, InCall, ReplyTyped
<1>5. CASE WifiConnectRejected(r)
  BY <1>1, <1>5 DEF WifiConnectRejected, ConnectReply, Served, pages, device, station,
                    Request, TypeInv, TypeOK, InCall, ReplyTyped
<1>6. CASE WifiConnectHandler(r)
  BY <1>1, <1>6 DEF WifiConnectHandler, Served, pages, Credentials, Request,
                    TypeInv, TypeOK, InCall
<1> QED  BY <1>2, <1>3, <1>4, <1>5, <1>6 DEF Handler

LEMMA CallbackTypes ==
    ASSUME TypeInv, NEW r \in replies, Callback(r)
    PROVE  TypeInv'
<1> USE DEF TypeInv, TypeOK, InCall
<1>1. ReplyTyped(r)
  OBVIOUS
<1>2. CASE UpdateWifiStatus(r)
  <2>1. /\ list' \in [Pages -> Seq(Networks)]
        /\ \A q \in Pages : Len(list'[q]) <= MaxScanResult
    BY <1>1, <1>2, EmptySeq, PortalAssumption DEF UpdateWifiStatus, ReplyTyped
  <2> QED  BY <1>1, <1>2, <2>1 DEF UpdateWifiStatus, Arrives, device, station, ReplyTyped
<1>3. CASE RenderScan(r)
  BY <1>1, <1>3 DEF RenderScan, Arrives, device, station, ReplyTyped
<1>4. CASE OpenPrompt(r)
  BY <1>1, <1>4 DEF OpenPrompt, Arrives, device, station, ReplyTyped
<1>5. CASE ConnectAnswered(r)
  <2> HIDE DEF TypeInv, TypeOK, InCall
  <2>1. /\ alerting \in [Pages -> BOOLEAN] /\ asked \subseteq Request
        /\ \A x \in replies : ReplyTyped(x) /\ x.page \in Pages
    BY DEF TypeInv, TypeOK, ReplyTyped
  <2>2. replies' \subseteq replies
    BY <1>5 DEF ConnectAnswered, Arrives
  <2>3. [page |-> r.page, kind |-> "status"] \in Request
    BY <2>1 DEF Request
  <2>4. asked' \subseteq Request
    BY <1>5, <2>1, <2>3 DEF ConnectAnswered, Ask
  <2>5. alerting' \in [Pages -> BOOLEAN]
    BY <1>5, <2>1 DEF ConnectAnswered, OpenAlert
  <2>6. UNCHANGED <<isWifiConnected, shown, list, hidden, prompting, device>>
    BY <1>5 DEF ConnectAnswered
  <2> QED  BY <2>2, <2>4, <2>5, <2>6 DEF device, station, TypeInv, TypeOK, InCall
<1> HIDE DEF TypeInv, TypeOK, InCall
<1> QED  BY <1>2, <1>3, <1>4, <1>5 DEF Callback

LEMMA FetchFailsTypes ==
    ASSUME TypeInv, NEW r \in asked \cup replies, FetchFails(r)
    PROVE  TypeInv'
<1>1. r.page \in Pages
  BY DEF TypeInv, TypeOK, Request, ReplyTyped
<1>2. list' = list \/ list' = [list EXCEPT ![r.page] = <<>>]
  BY DEF FetchFails
<1>3. /\ list \in [Pages -> Seq(Networks)]
      /\ \A q \in Pages : Len(list[q]) <= MaxScanResult
  BY DEF TypeInv, TypeOK
<1>4. /\ list' \in [Pages -> Seq(Networks)]
      /\ \A q \in Pages : Len(list'[q]) <= MaxScanResult
  <2>1. <<>> \in Seq(Networks) /\ Len(<<>>) <= MaxScanResult
    BY EmptySeq, PortalAssumption
  <2>2. list' \in [Pages -> Seq(Networks)]
    BY <1>1, <1>2, <1>3, <2>1
  <2>3. \A q \in Pages : list'[q] = list[q] \/ list'[q] = <<>>
    BY <1>1, <1>2, <1>3
  <2> QED  BY <1>3, <2>1, <2>2, <2>3
<1> QED  BY <1>4 DEF FetchFails, device, station, TypeInv, TypeOK, InCall

LEMMA StationTypes ==
    ASSUME TypeInv, WifiConnected \/ WifiConnectFailed \/ Associate \/ Drop
    PROVE  TypeInv'
<1>1. serving # None => serving.page \in Pages /\ serving.password \in Passwords
  BY DEF TypeInv, TypeOK, InCall, Request
<1>2. CASE WifiConnected
  BY <1>1, <1>2 DEF WifiConnected, ConnectReply, pages, station, Credentials,
                    TypeInv, TypeOK, InCall, ReplyTyped
<1>3. CASE WifiConnectFailed
  BY <1>1, <1>3 DEF WifiConnectFailed, ConnectReply, pages, station,
                    TypeInv, TypeOK, InCall, ReplyTyped
<1>4. CASE Associate \/ Drop
  BY <1>4 DEF Associate, Drop, pages, TypeInv, TypeOK, InCall
<1> QED  BY <1>2, <1>3, <1>4

\* Every variable has its type: in particular no page ever lists more than
\* MAX_SCAN_RESULT networks, and a call the server's task is inside always has
\* a page, a name and a password.
THEOREM TypeCorrect == Spec => []TypeOK
<1>1. Init => TypeInv
  BY EmptySeq, PortalAssumption DEF Init, TypeInv, TypeOK, InCall, Request, Credentials
<1>2. TypeInv /\ [Next]_vars => TypeInv'
  <2> SUFFICES ASSUME TypeInv, [Next]_vars PROVE TypeInv'
    OBVIOUS
  <2>1. CASE \E p \in Pages : Tick(p) \/ User(p)
    BY <2>1, UserTypes
  <2>2. CASE \E r \in asked : Handler(r) \/ FetchFails(r)
    BY <2>2, HandlerTypes, FetchFailsTypes
  <2>3. CASE \E r \in replies : Callback(r) \/ FetchFails(r)
    BY <2>3, CallbackTypes, FetchFailsTypes
  <2>4. CASE WifiConnected \/ WifiConnectFailed \/ Associate \/ Drop
    BY <2>4, StationTypes
  <2>5. CASE UNCHANGED vars
    BY <2>5 DEF vars, pages, device, station, TypeInv, TypeOK, InCall
  <2> QED  BY <2>1, <2>2, <2>3, <2>4, <2>5 DEF Next
<1>3. TypeInv => TypeOK
  BY DEF TypeInv
<1> QED  BY <1>1, <1>2, <1>3, PTL DEF Spec
=============================================================================
