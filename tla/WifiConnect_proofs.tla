-------------------------- MODULE WifiConnect_proofs --------------------------
(***************************************************************************)
(* Theorems about WifiConnect while the tasks' operations do not overlap,  *)
(* for every set of networks and passwords, every length of the history    *)
(* and every bound on events and attempts.                                 *)
(***************************************************************************)
EXTENDS WifiConnect, SequenceTheorems, WellFoundedInduction, TLAPS

Busy(t) == pc[t] \notin Resting[t]

\* Without overlap one task at a time is inside an operation.
BusyInv == \A t, u \in Tasks : Busy(t) /\ Busy(u) => t = u

\* The locals of a connect are gone while the task rests.
LocalInv == \A t \in Tasks :
    ~Busy(t) \/ pc[t] = "auto" => arg[t] = None /\ ~joined[t]

\* What a connect is about to be called with is there.
StoreInv ==
    /\ pc["main"] = "store" => h \in DOMAIN saved
    /\ pc["web"] = "store" => arg["web"] \in Entry /\ selected \in Networks
    /\ pc["console"] = "store" =>
          IF chosen = None THEN saved # <<>> ELSE arg["console"] \in Entry
    /\ pc["console"] = "enter" => chosen \in Networks
    /\ pc["console"] \notin {"off", "menu", "ask", "exit"} /\ chosen # None
          => attempt < MaxAttempts

Dialled == {"disconnect", "config", "clear flag", "clear bit", "dial",
            "await", "waiting", "ok", "save", "internet"}

Operating == {"store", "disconnect", "config", "clear flag", "clear bit", "dial",
              "await", "waiting", "ok", "failed", "save", "internet"}

\* From its first statement to the save after it, a connect's credentials are
\* the ones in the shared variables.
ArgInv == \A t \in Tasks : pc[t] \in Dialled =>
    arg[t] \in Entry /\ selected = arg[t].ssid /\ password = arg[t].password

Ahead == {"config", "clear flag", "clear bit", "dial"}

\* Between a connect's disconnect and its dialling there is no link but one the
\* driver has refused to give up, and from its set_config on none that is coming.
IdleInv == \A t \in Tasks :
    /\ pc[t] \in Ahead => link = "idle" \/ kept
    /\ pc[t] \in Ahead \ {"config"} => link # "dialing"

\* The last event of the queue, or without one the flag, tells the link.
LinkInv == IF events = <<>>
           THEN /\ connected => link = "up"
                /\ link = "up" /\ ~kept => connected
           ELSE events[Len(events)] = "got ip" <=> link = "up"

IInv == TypeOK /\ BusyInv /\ LocalInv /\ StoreInv /\ ArgInv /\ IdleInv /\ LinkInv

\* No address is on its way to the event handler.
NoAddress == handling # "got ip" /\ \A i \in 1 .. Len(events) : events[i] # "got ip"

\* While events are handled promptly, the address a connect is told of is the
\* one its own credentials were given.
PathAt(t) ==
    /\ pc[t] \in Ahead \ {"config"} => NoAddress /\ config = arg[t]
    /\ pc[t] = "dial" => ~bit
    /\ pc[t] \in {"await", "waiting"} =>
          /\ link # "idle" => on = arg[t]
          /\ joined[t] \/ (NoAddress /\ ~bit)
    /\ pc[t] \in {"ok", "save", "internet"} => joined[t]

PathInv == \A t \in Tasks : PathAt(t)

\* What the link came up with is known to work.
ProvedInv == \A t \in Tasks : joined[t] => arg[t] \in proved

-----------------------------------------------------------------------------

\* No task rests inside wifi_manager_connect or the save after it.
LEMMA RestPlaces == \A t \in Tasks : \A l \in Operating : l \notin Resting[t]
  <1> SUFFICES ASSUME NEW t \in Tasks, NEW l \in Operating PROVE l \notin Resting[t]
    OBVIOUS
  <1>1. t = "main" \/ t = "web" \/ t = "console"
    BY DEF Tasks
  <1>2. CASE t = "main"
    BY <1>2 DEF Resting, Operating
  <1>3. CASE t = "web"
    BY <1>3 DEF Resting, Operating
  <1>4. CASE t = "console"
    BY <1>4 DEF Resting, Operating
  <1> QED
    BY <1>1, <1>2, <1>3, <1>4

\* What a history list looks like.
LEMMA ListIsSeq ==
  ASSUME NEW l \in Lists
  PROVE  /\ l \in Seq(Entry) /\ DOMAIN l = 1 .. Len(l)
         /\ Len(l) \in 0 .. HistoryMax
         /\ \A i \in DOMAIN l : l[i] \in Entry
  <1>1. PICK k \in 0 .. HistoryMax : l \in [1 .. k -> Entry]
    BY DEF Lists
  <1>2. k \in Nat /\ l \in Seq(Entry)
    BY <1>1, IsASeq, ConnectAssumption
  <1> QED
    BY <1>1, <1>2, LenProperties

\* A step of a connect moves its task alone, and within its operation.
LEMMA ConnectGoes ==
  ASSUME TypeOK, NEW t \in Tasks, Connect(t)
  PROVE  /\ pc[t] \in Operating /\ pc'[t] \in Operating
         /\ pc' \in [Tasks -> Labels]
         /\ \A u \in Tasks \ {t} : pc'[u] = pc[u]
  <1>0. pc \in [Tasks -> Labels]
    BY DEF TypeOK, TaskType
  <1>1. PICK l \in Operating : Goto(t, l)
    BY DEF Connect, Store, Disconnect, SetConfig, ClearFlag, ClearBit, Dial,
           DriverError, Await, Timeout, Operating
  <1>2. pc[t] \in Operating
    BY DEF Connect, Store, Disconnect, SetConfig, ClearFlag, ClearBit, Dial,
           DriverError, Await, Timeout, Operating, At
  <1> QED
    BY <1>0, <1>1, <1>2 DEF Goto, Operating, Labels

\* The event handler wakes tasks, and no task changes otherwise.
LEMMA HandlerGoes ==
  ASSUME TypeOK, Handler
  PROVE  /\ pc' \in [Tasks -> Labels]
         /\ \A t \in Tasks : \/ pc'[t] = pc[t]
                             \/ pc[t] = "waiting" /\ pc'[t] = "ok"
  BY DEF Handler, HandleFlag, HandleBit, TypeOK, TaskType, Labels

\* What wifi_manager_connect is called with are credentials.
LEMMA PassedEntry ==
  ASSUME TypeOK, StoreInv, NEW t \in Tasks, pc[t] = "store"
  PROVE  Passed(t) \in Entry
  <1>0. saved \in Lists
    BY DEF TypeOK, SharedType
  <1>1. CASE t = "main"
    BY <1>0, <1>1, ListIsSeq DEF StoreInv, Passed
  <1>2. CASE t = "web"
    BY <1>2 DEF StoreInv, Passed, Entry
  <1>3. CASE t = "console" /\ chosen = None
    <2>1. 1 \in DOMAIN saved
      BY <1>0, <1>3, ListIsSeq, EmptySeq DEF StoreInv
    <2> QED
      BY <1>0, <1>3, <2>1, ListIsSeq DEF Passed
  <1>4. CASE t = "console" /\ chosen # None
    BY <1>4 DEF StoreInv, Passed
  <1> QED
    BY <1>1, <1>2, <1>3, <1>4 DEF Tasks

\* Nobody else is between a connect and its save while a task is at work.
LEMMA OthersRest ==
  ASSUME BusyInv, NEW t \in Tasks, Busy(t)
  PROVE  \A u \in Tasks \ {t} : pc[u] \notin Operating
  BY RestPlaces DEF BusyInv, Busy

EventNames == {"disconnected", "got ip"}

\* A queue that grows ends with what was put.
LEMMA LastOfAppend ==
  ASSUME NEW q \in Seq(EventNames), NEW e \in EventNames
  PROVE  /\ Append(q, e) \in Seq(EventNames) /\ Len(Append(q, e)) = Len(q) + 1
         /\ Append(q, e) # <<>> /\ Append(q, e)[Len(Append(q, e))] = e
  BY AppendProperties, LenProperties

\* A queue that shrinks keeps its last element, unless that was its only one.
LEMMA LastOfTail ==
  ASSUME NEW q \in Seq(EventNames), q # <<>>
  PROVE  /\ Tail(q) \in Seq(EventNames) /\ Len(Tail(q)) = Len(q) - 1
         /\ Head(q) \in EventNames
         /\ \A i \in 1 .. Len(Tail(q)) : Tail(q)[i] = q[i + 1]
         /\ Len(q) = 1 => Tail(q) = <<>> /\ Head(q) = q[Len(q)]
         /\ Len(q) # 1 => Tail(q) # <<>> /\ Tail(q)[Len(Tail(q))] = q[Len(q)]
  <1>1. Len(q) \in Nat \ {0}
    BY EmptySeq
  <1>2. /\ Tail(q) \in Seq(EventNames) /\ Len(Tail(q)) = Len(q) - 1
        /\ Head(q) \in EventNames /\ Head(q) = q[1]
        /\ \A i \in 1 .. Len(Tail(q)) : Tail(q)[i] = q[i + 1]
    BY <1>1, HeadTailProperties
  <1>3. PICK w \in Seq(EventNames) :
           /\ w = Tail(q) /\ Len(w) = Len(q) - 1
           /\ \A i \in 1 .. Len(w) : w[i] = q[i + 1]
    BY <1>2
  <1>4. Len(q) = 1 => w = <<>>
    BY <1>3, EmptySeq
  <1>5. CASE Len(q) # 1
    <2>1. Len(w) \in 1 .. Len(w) /\ Len(w) + 1 = Len(q)
      BY <1>1, <1>3, <1>5
    <2>2. w # <<>>
      BY <2>1
    <2>3. w[Len(w)] = q[Len(w) + 1]
      BY <1>3, <2>1
    <2> QED
      BY <1>2, <1>3, <1>5, <2>1, <2>2, <2>3
  <1> QED
    BY <1>2, <1>3, <1>4, <1>5

\* Every set of natural numbers has a least element.
LEMMA LeastElement ==
  ASSUME NEW S \in SUBSET Nat, S # {}
  PROVE  \E i \in S : \A j \in S : i <= j
  <1> DEFINE R == {p \in Nat \X Nat : p[1] < p[2]}
  <1>1. IsWellFoundedOn(R, Nat)
    BY NatLessThanWellFounded DEF OpToRel
  <1>2. \A x, y \in Nat : x < y => <<x, y>> \in R
    OBVIOUS
  <1> HIDE DEF R
  <1>3. PICK x \in S : \A y \in S : <<y, x>> \notin R
    BY <1>1, WFMin
  <1>4. x \in Nat /\ \A y \in S : y \in Nat /\ ~(y < x)
    BY <1>2, <1>3, Zenon
  <1> QED
    BY <1>4

\* The list after a save: still a list, of the saved entry and of entries that
\* were in it before.
LEMMA MovedToFront ==
  ASSUME NEW e \in Entry, saved \in Lists
  PROVE  /\ MRU!MoveToFront(saved, e) \in Lists
         /\ \A i \in DOMAIN MRU!MoveToFront(saved, e) :
               \/ MRU!MoveToFront(saved, e)[i] = e
               \/ \E j \in DOMAIN saved : MRU!MoveToFront(saved, e)[i] = saved[j]
  <1>1. PICK k \in 0 .. HistoryMax : saved \in [1 .. k -> Entry] /\ Len(saved) = k
    <2>1. PICK k \in 0 .. HistoryMax : saved \in [1 .. k -> Entry]
      BY DEF Lists
    <2> QED
      BY <2>1, IsASeq, LenProperties, ConnectAssumption
  <1>2. k \in Nat /\ HistoryMax \in Nat \ {0} /\ k <= HistoryMax
    BY ConnectAssumption
  <1> DEFINE same == {i \in DOMAIN saved : saved[i].ssid = e.ssid}
             gap  == IF same # {} THEN CHOOSE i \in same : \A j \in same : i <= j
                     ELSE IF Len(saved) < HistoryMax THEN Len(saved) + 1 ELSE HistoryMax
             len  == IF gap > Len(saved) THEN gap ELSE Len(saved)
             l    == [i \in 1 .. len |-> IF i = 1 THEN e ELSE IF i <= gap THEN saved[i - 1]
                                                               ELSE saved[i]]
  <1>3. gap \in 1 .. HistoryMax /\ gap <= k + 1
    <2>1. CASE same # {}
      <3>1. PICK i \in same : \A j \in same : i <= j
        <4>1. same \in SUBSET Nat
          BY <1>1
        <4> QED
          BY <2>1, <4>1, LeastElement
      <3>2. gap \in same
        BY <3>1, <2>1
      <3> QED
        BY <1>1, <1>2, <3>2
    <2>2. CASE same = {}
      BY <1>1, <1>2, <2>2
    <2> QED
      BY <2>1, <2>2
  <1>4. MRU!MoveToFront(saved, e) = l
    BY DEF MRU!MoveToFront
  <1> HIDE DEF gap
  <1>5. len \in 1 .. HistoryMax /\ len >= gap /\ len >= k /\ (len > k => len = gap)
    BY <1>1, <1>2, <1>3
  <1> HIDE DEF len
  <1>6. \A i \in 1 .. len : \/ l[i] = e
                            \/ \E j \in 1 .. k : l[i] = saved[j]
    <2> TAKE i \in 1 .. len
    <2>1. CASE i = 1
      BY <2>1
    <2>2. CASE i # 1 /\ i <= gap
      <3>1. i - 1 \in 1 .. k
        BY <1>2, <1>3, <1>5, <2>2
      <3> QED
        BY <2>2, <3>1
    <2>3. CASE i # 1 /\ i > gap
      <3>1. i \in 1 .. k
        BY <1>2, <1>3, <1>5, <2>3
      <3> QED
        BY <2>3, <3>1
    <2> QED
      BY <1>3, <1>5, <2>1, <2>2, <2>3
  <1>7. l \in [1 .. len -> Entry]
    BY <1>1, <1>6
  <1>8. l \in Lists
    BY <1>5, <1>7 DEF Lists
  <1> QED
    BY <1>1, <1>4, <1>6, <1>8

\* Events that come, or go, without an address.
LEMMA NoNewAddress ==
  ASSUME events \in Seq(EventNames), NoAddress,
         \/ events' = events /\ handling' = handling
         \/ events' = Append(events, "disconnected") /\ handling' = handling
         \/ events # <<>> /\ events' = Tail(events) /\ handling' = Head(events)
  PROVE  NoAddress'
  <1>1. CASE events' = events /\ handling' = handling
    BY <1>1 DEF NoAddress
  <1>2. CASE events' = Append(events, "disconnected") /\ handling' = handling
    <2>0. "disconnected" \in EventNames
      BY DEF EventNames
    <2>1. PICK w \in Seq(EventNames) :
             /\ w = Append(events, "disconnected") /\ Len(w) = Len(events) + 1
             /\ w[Len(events) + 1] = "disconnected"
             /\ \A i \in 1 .. Len(events) : w[i] = events[i]
      <3>1. /\ Append(events, "disconnected") \in Seq(EventNames)
            /\ Len(Append(events, "disconnected")) = Len(events) + 1
            /\ Append(events, "disconnected")[Len(events) + 1] = "disconnected"
        BY <2>0, AppendProperties
      <3>2. \A i \in 1 .. Len(events) : Append(events, "disconnected")[i] = events[i]
        BY <2>0, AppendProperties
      <3> QED
        BY <3>1, <3>2
    <2>2. \A i \in 1 .. Len(w) : w[i] # "got ip"
      <3> TAKE i \in 1 .. Len(w)
      <3>1. i \in 1 .. Len(events) \/ i = Len(events) + 1
        BY <2>1, LenProperties
      <3> QED
        BY <2>1, <3>1 DEF NoAddress
    <2> QED
      BY <1>2, <2>1, <2>2 DEF NoAddress
  <1>3. CASE events # <<>> /\ events' = Tail(events) /\ handling' = Head(events)
    <2>1. PICK w \in Seq(EventNames) :
             /\ w = Tail(events) /\ Len(w) = Len(events) - 1
             /\ \A i \in 1 .. Len(w) : w[i] = events[i + 1]
      BY <1>3, LastOfTail
    <2>2. Len(events) \in Nat \ {0} /\ Head(events) = events[1]
      BY <1>3, EmptySeq
    <2>3. \A i \in 1 .. Len(w) : i + 1 \in 1 .. Len(events)
      BY <2>1, <2>2
    <2>4. \A i \in 1 .. Len(w) : w[i] # "got ip"
      BY <2>1, <2>3 DEF NoAddress
    <2>5. Head(events) # "got ip"
      <3>1. 1 \in 1 .. Len(events)
        BY <2>2
      <3> QED
        BY <2>2, <3>1 DEF NoAddress
    <2> QED
      BY <1>3, <2>1, <2>4, <2>5 DEF NoAddress
  <1> QED
    BY <1>1, <1>2, <1>3

\* The loop's variables are all NoAddress looks at.
LEMMA SameEvents ==
  ASSUME UNCHANGED loop
  PROVE  NoAddress' <=> NoAddress
  BY DEF loop, NoAddress

\* Without overlap PathInv need only be shown of the task that moves.
LEMMA AloneOnPath ==
  ASSUME BusyInv, NEW t \in Tasks, Busy(t), PathAt(t)',
         \A u \in Tasks \ {t} : pc'[u] = pc[u]
  PROVE  PathInv'
  <1>1. \A u \in Tasks \ {t} : pc'[u] \notin Operating
    BY OthersRest
  <1> QED
    BY <1>1 DEF PathInv, PathAt, Ahead, Operating

\* The variables the tasks share keep their types: what is stored and saved are
\* credentials.
LEMMA SharedStep ==
  ASSUME TypeOK, StoreInv, ArgInv, [Next]_vars
  PROVE  SharedType'
  <1>0. SharedType /\ DriverType /\ TaskType /\ HistoryType
    BY DEF TypeOK
  <1>1. CASE \E t \in Tasks : Connect(t)
    <2> PICK t \in Tasks : Connect(t)
      BY <1>1
    <2>1. CASE Store(t)
      <3>1. selected' = Passed(t).ssid /\ password' = Passed(t).password
            /\ UNCHANGED <<connected, bit, saved>>
        BY <2>1 DEF Store
      <3>2. Passed(t) \in Entry
        BY <2>1, PassedEntry DEF Store, At
      <3> QED
        BY <1>0, <3>1, <3>2 DEF SharedType, Entry
    <2>2. CASE Disconnect(t) \/ SetConfig(t) \/ ClearFlag(t) \/ ClearBit(t)
              \/ Dial(t) \/ DriverError(t) \/ Await(t) \/ Timeout(t)
      BY <1>0, <2>2 DEF Disconnect, SetConfig, ClearFlag, ClearBit, Dial,
             DriverError, Await, Timeout, SharedType, shared
    <2> QED
      BY <1>1, <2>1, <2>2 DEF Connect
  <1>2. CASE Handler
    BY <1>0, <1>2 DEF Handler, HandleFlag, HandleBit, SharedType, shared
  <1>3. CASE Associate \/ Drop
    BY <1>0, <1>3 DEF Associate, Drop, SharedType, shared
  <1>4. CASE Main
    <2>1. CASE TryKnown
      <3>1. saved[h] \in Entry
        BY <1>0, <2>1, ListIsSeq DEF TryKnown, SharedType, TaskType
      <3> QED
        BY <1>0, <3>1, <2>1 DEF TryKnown, SharedType, Entry
    <2>2. CASE SkipKnown \/ KnownFailed \/ StartConsole \/ Poll
      BY <1>0, <2>2 DEF SkipKnown, KnownFailed, StartConsole, Poll, SharedType, shared
    <2>3. CASE KnownConnected
      <3>1. CASE UNCHANGED saved
        BY <1>0, <3>1, <2>3 DEF KnownConnected, SharedType
      <3>2. CASE Saved
        <4>1. [ssid |-> selected, password |-> password] \in Entry
          BY <2>3 DEF KnownConnected, At, ArgInv, Dialled, Entry, Tasks
        <4>2. saved' \in Lists
          BY <1>0, <3>2, <4>1, MovedToFront DEF Saved, SharedType
        <4> QED
          BY <1>0, <4>2, <2>3 DEF KnownConnected, SharedType
      <3> QED
        BY <3>1, <3>2, <2>3 DEF KnownConnected
    <2> QED
      BY <1>4, <2>1, <2>2, <2>3 DEF Main
  <1>5. CASE User
    <2>1. CASE (\E n \in Networks : WebSelect(n))
              \/ (\E p \in Passwords : WebConnect(p))
              \/ (\E n \in Networks : ConsoleSelect(n)) \/ ConsoleKnown
              \/ ConsoleRescan \/ ConsoleExit
      BY <1>0, <2>1 DEF WebSelect, WebConnect, ConsoleSelect, ConsoleKnown,
             ConsoleRescan, ConsoleExit, MayBegin, SharedType, shared
    <2>2. CASE \E p \in Passwords : ConsoleEnter(p)
      <3> PICK p \in Passwords : ConsoleEnter(p)
        BY <2>2
      <3> QED
        BY <1>0 DEF ConsoleEnter, SharedType, TaskType
    <2> QED
      BY <1>5, <2>1, <2>2 DEF User
  <1>6. CASE Web
    <2>1. CASE WebConnected
      <3>1. password' \in Passwords
        BY <2>1 DEF WebConnected, At, ArgInv, Dialled, Entry, Tasks
      <3> QED
        BY <1>0, <3>1, <2>1 DEF WebConnected, SharedType
    <2>2. CASE WebSave
      <3>1. CASE UNCHANGED saved
        BY <1>0, <3>1, <2>2 DEF WebSave, SharedType
      <3>2. CASE Saved
        <4>1. [ssid |-> selected, password |-> password] \in Entry
          BY <2>2 DEF WebSave, At, ArgInv, Dialled, Entry, Tasks
        <4>2. saved' \in Lists
          BY <1>0, <3>2, <4>1, MovedToFront DEF Saved, SharedType
        <4> QED
          BY <1>0, <4>2, <2>2 DEF WebSave, SharedType
      <3> QED
        BY <3>1, <3>2, <2>2 DEF WebSave
    <2>3. CASE WebFailed
      BY <1>0, <2>3 DEF WebFailed, SharedType, shared
    <2> QED
      BY <1>6, <2>1, <2>2, <2>3 DEF Web
  <1>7. CASE Console
    <2>1. CASE ConsoleConnected \/ ConsoleFailed
      BY <1>0, <2>1 DEF ConsoleConnected, ConsoleFailed, SharedType, shared
    <2>2. CASE ConsoleOnline
      <3>1. CASE UNCHANGED saved
        BY <1>0, <3>1, <2>2 DEF ConsoleOnline, SharedType
      <3>2. CASE Saved
        <4>1. [ssid |-> selected, password |-> password] \in Entry
          BY <2>2 DEF ConsoleOnline, At, ArgInv, Dialled, Entry, Tasks
        <4>2. saved' \in Lists
          BY <1>0, <3>2, <4>1, MovedToFront DEF Saved, SharedType
        <4> QED
          BY <1>0, <4>2, <2>2 DEF ConsoleOnline, SharedType
      <3> QED
        BY <3>1, <3>2, <2>2 DEF ConsoleOnline
    <2> QED
      BY <1>7, <2>1, <2>2 DEF Console
  <1>8. CASE UNCHANGED vars
    BY <1>0, <1>8 DEF vars, shared, driver, loop, local, history, SharedType
  <1> QED
    BY <1>1, <1>2, <1>3, <1>4, <1>5, <1>6, <1>7, <1>8 DEF Next

\* So do those of the driver and the event loop; the queue stays in its bound.
LEMMA DriverStep ==
  ASSUME TypeOK, [Next]_vars
  PROVE  DriverType'
  <1>0. SharedType /\ DriverType /\ TaskType /\ HistoryType
    BY DEF TypeOK
  <1>9. /\ events \in Seq(EventNames) /\ Len(events) \in Nat
        /\ MaxEvents \in Nat /\ Len(events) <= MaxEvents
    BY <1>0, LenProperties, ConnectAssumption DEF DriverType, EventNames
  <1>1. CASE \E t \in Tasks : Connect(t)
    <2> PICK t \in Tasks : Connect(t)
      BY <1>1
    <2>1. CASE Store(t) \/ ClearFlag(t) \/ ClearBit(t) \/ Dial(t) \/ DriverError(t)
              \/ Await(t) \/ Timeout(t)
      BY <1>0, <2>1 DEF Store, ClearFlag, ClearBit, Dial, DriverError, Await,
             Timeout, DriverType, driver, loop
    <2>2. CASE Disconnect(t)
      <3>1. CASE UNCHANGED <<link, on, events>> /\ kept' \in BOOLEAN
        BY <1>0, <3>1, <2>2 DEF Disconnect, DriverType
      <3>2. CASE /\ Room /\ link' = "idle" /\ on' = None /\ kept' = FALSE
                /\ events' = Append(events, "disconnected")
        <4>1. "disconnected" \in EventNames /\ Len(events) < MaxEvents
          BY <3>2 DEF EventNames, Room
        <4>2. events' \in Seq(EventNames) /\ Len(events') <= MaxEvents
          BY <1>0, <1>9, <3>2, <4>1, LastOfAppend
        <4> QED
          BY <1>0, <3>2, <4>2, <2>2 DEF Disconnect, DriverType, EventNames
      <3>3. kept \in BOOLEAN
        BY <1>0 DEF DriverType
      <3> QED
        BY <3>1, <3>2, <3>3, <2>2 DEF Disconnect
    <2>3. CASE SetConfig(t)
      <3>1. config' \in Entry \cup {None}
        BY <1>0, <2>3 DEF SetConfig, TaskType
      <3> QED
        BY <1>0, <3>1, <2>3 DEF SetConfig, DriverType, loop
    <2> QED
      BY <1>1, <2>1, <2>2, <2>3 DEF Connect
  <1>2. CASE Handler
    <2>1. CASE HandleFlag
      <3>1. events' \in Seq(EventNames) /\ Len(events') <= MaxEvents /\ handling' \in EventNames
        <4>1. events # <<>> /\ events' = Tail(events) /\ handling' = Head(events)
          BY <2>1 DEF HandleFlag
        <4>2. /\ events' \in Seq(EventNames) /\ Len(events') = Len(events) - 1
              /\ handling' \in EventNames
          BY <1>9, <4>1, LastOfTail
        <4> QED
          BY <1>9, <4>2
      <3> QED
        BY <1>0, <3>1, <2>1 DEF HandleFlag, DriverType, driver, EventNames
    <2>2. CASE HandleBit
      BY <1>0, <2>2 DEF HandleBit, DriverType, driver, loop
    <2> QED
      BY <1>2, <2>1, <2>2 DEF Handler
  <1>3. CASE Associate \/ Drop
    <2>1. CASE Associate
      <3>1. events' \in Seq(EventNames) /\ Len(events') <= MaxEvents
        <4>0. Len(events) < MaxEvents
          BY <2>1 DEF Associate, Room
        <4>1. "got ip" \in EventNames /\ events' = Append(events, "got ip")
          BY <2>1 DEF Associate, EventNames
        <4>2. events' \in Seq(EventNames) /\ Len(events') = Len(events) + 1
          BY <1>9, <4>1, LastOfAppend
        <4> QED
          BY <1>9, <4>0, <4>2
      <3> QED
        BY <1>0, <3>1, <2>1 DEF Associate, DriverType, EventNames
    <2>2. CASE Drop
      <3>1. events' \in Seq(EventNames) /\ Len(events') <= MaxEvents
        <4>0. Len(events) < MaxEvents
          BY <2>2 DEF Drop, Room
        <4>1. "disconnected" \in EventNames /\ events' = Append(events, "disconnected")
          BY <2>2 DEF Drop, EventNames
        <4>2. events' \in Seq(EventNames) /\ Len(events') = Len(events) + 1
          BY <1>9, <4>1, LastOfAppend
        <4> QED
          BY <1>9, <4>0, <4>2
      <3> QED
        BY <1>0, <3>1, <2>2 DEF Drop, DriverType, EventNames
    <2> QED
      BY <1>3, <2>1, <2>2
  <1>4. CASE Main
    BY <1>0, <1>4 DEF Main, TryKnown, SkipKnown, KnownFailed, KnownConnected,
           StartConsole, Poll, DriverType, driver, loop
  <1>5. CASE User
    BY <1>0, <1>5 DEF User, WebSelect, WebConnect, ConsoleSelect, ConsoleEnter,
           ConsoleKnown, ConsoleRescan, ConsoleExit, MayBegin, DriverType, driver,
           loop
  <1>6. CASE Web
    BY <1>0, <1>6 DEF Web, WebConnected, WebSave, WebFailed, DriverType, driver, loop
  <1>7. CASE Console
    BY <1>0, <1>7 DEF Console, ConsoleConnected, ConsoleOnline, ConsoleFailed,
           DriverType, driver, loop
  <1>8. CASE UNCHANGED vars
    BY <1>0, <1>8 DEF vars, shared, driver, loop, local, history, DriverType
  <1> QED
    BY <1>1, <1>2, <1>3, <1>4, <1>5, <1>6, <1>7, <1>8 DEF Next

\* So do the tasks' own.
LEMMA TaskStep ==
  ASSUME TypeOK, StoreInv, [Next]_vars
  PROVE  TaskType'
  <1>0. SharedType /\ DriverType /\ TaskType /\ HistoryType
    BY DEF TypeOK
  <1>1. CASE \E t \in Tasks : Connect(t)
    <2> PICK t \in Tasks : Connect(t)
      BY <1>1
    <2>1. CASE Store(t)
      <3>1. Passed(t) \in Entry
        BY <2>1, PassedEntry DEF Store, At
      <3>2. arg' \in [Tasks -> Entry \cup {None}]
        BY <1>0, <3>1, <2>1 DEF Store, TaskType
      <3> QED
        BY <1>0, <3>2, <2>1 DEF Store, TaskType, Goto, Labels
    <2>2. CASE Disconnect(t)
      BY <1>0, <2>2 DEF Disconnect, TaskType, Goto, local, Labels, Tasks
    <2>3. CASE SetConfig(t)
      BY <1>0, <2>3 DEF SetConfig, TaskType, Goto, local, Labels, Tasks
    <2>4. CASE ClearFlag(t)
      BY <1>0, <2>4 DEF ClearFlag, TaskType, Goto, local, Labels, Tasks
    <2>5. CASE ClearBit(t)
      BY <1>0, <2>5 DEF ClearBit, TaskType, Goto, local, Labels, Tasks
    <2>6. CASE Dial(t)
      BY <1>0, <2>6 DEF Dial, TaskType, Goto, local, Labels, Tasks
    <2>7. CASE DriverError(t)
      BY <1>0, <2>7 DEF DriverError, TaskType, Goto, local, Labels, Tasks
    <2>8. CASE Await(t)
      BY <1>0, <2>8 DEF Await, TaskType, Goto, local, Labels, Tasks
    <2>9. CASE Timeout(t)
      BY <1>0, <2>9 DEF Timeout, TaskType, Goto, local, Labels, Tasks
    <2> QED
      BY <1>1, <2>1, <2>2, <2>3, <2>4, <2>5, <2>6, <2>7, <2>8, <2>9 DEF Connect
  <1>2. CASE Handler
    <2>1. CASE HandleFlag
      BY <1>0, <2>1 DEF HandleFlag, TaskType, Goto, local, Labels, Tasks
    <2>2. CASE HandleBit
      BY <1>0, <2>2 DEF HandleBit, TaskType, Goto, local, Labels, Tasks
    <2> QED
      BY <1>2, <2>1, <2>2 DEF Handler
  <1>3. CASE Associate \/ Drop
    BY <1>0, <1>3 DEF Associate, Drop, TaskType, Goto, local, Labels, Tasks
  <1>4. CASE Main
    <2>1. CASE TryKnown \/ KnownConnected \/ StartConsole \/ Poll
      BY <1>0, <2>1 DEF TryKnown, KnownConnected, StartConsole, Poll, Finish,
             TaskType, Goto, local, Labels, Tasks
    <2>2. CASE SkipKnown
      <3>1. h' \in 1 .. HistoryMax + 1 /\ s' \in Nat
        BY <1>0, <2>2, ListIsSeq, ConnectAssumption DEF SkipKnown, TaskType, SharedType
      <3> QED
        BY <1>0, <3>1, <2>2 DEF SkipKnown, TaskType
    <2>3. CASE KnownFailed
      <3>0. s' \in Nat
        BY <1>0, <2>3 DEF KnownFailed, TaskType
      <3>1. arg' \in [Tasks -> Entry \cup {None}]
        BY <1>0, <2>3 DEF KnownFailed, Finish, TaskType
      <3>2. pc' \in [Tasks -> Labels]
        BY <1>0, <2>3 DEF KnownFailed, Goto, TaskType, Labels
      <3> QED
        BY <1>0, <3>0, <3>1, <3>2, <2>3 DEF KnownFailed, TaskType
    <2> QED
      BY <1>4, <2>1, <2>2, <2>3 DEF Main
  <1>5. CASE User
    <2>1. CASE (\E n \in Networks : WebSelect(n)) \/ ConsoleKnown \/ ConsoleRescan
              \/ ConsoleExit
      BY <1>0, <2>1 DEF WebSelect, ConsoleKnown, ConsoleRescan, ConsoleExit,
             MayBegin, TaskType, Goto, local, Labels, Tasks
    <2>2. CASE \E p \in Passwords : WebConnect(p)
      <3> PICK p \in Passwords : WebConnect(p)
        BY <2>2
      <3>1. arg' \in [Tasks -> Entry \cup {None}]
        BY <1>0 DEF WebConnect, TaskType, SharedType, Entry
      <3> QED
        BY <1>0, <3>1 DEF WebConnect, TaskType, Goto, Labels
    <2>3. CASE \E n \in Networks : ConsoleSelect(n)
      <3> PICK n \in Networks : ConsoleSelect(n)
        BY <2>3
      <3>1. attempt' \in 0 .. MaxAttempts
        BY ConnectAssumption DEF ConsoleSelect
      <3> QED
        BY <1>0, <3>1 DEF ConsoleSelect, TaskType, Goto, Labels
    <2>4. CASE \E p \in Passwords : ConsoleEnter(p)
      <3> PICK p \in Passwords : ConsoleEnter(p)
        BY <2>4
      <3>1. chosen \in Networks
        BY DEF ConsoleEnter, StoreInv, At
      <3>2. arg' \in [Tasks -> Entry \cup {None}]
        BY <1>0, <3>1 DEF ConsoleEnter, TaskType, Entry
      <3> QED
        BY <1>0, <3>2 DEF ConsoleEnter, TaskType, Goto, Labels
    <2> QED
      BY <1>5, <2>1, <2>2, <2>3, <2>4 DEF User
  <1>6. CASE Web
    BY <1>0, <1>6 DEF Web, WebConnected, WebSave, WebFailed, Finish, TaskType, Goto,
           local, Labels, Tasks
  <1>7. CASE Console
    <2>1. CASE ConsoleConnected \/ ConsoleOnline
      BY <1>0, <2>1 DEF ConsoleConnected, ConsoleOnline, Finish, TaskType, Goto,
             local, Labels, Tasks
    <2>2. CASE ConsoleFailed
      <3>1. arg' \in [Tasks -> Entry \cup {None}]
        BY <1>0, <2>2 DEF ConsoleFailed, Finish, TaskType
      <3>2. chosen # None => attempt < MaxAttempts
        BY <2>2 DEF ConsoleFailed, At, StoreInv
      <3>3. attempt' \in 0 .. MaxAttempts
        BY <1>0, <3>2, <2>2, ConnectAssumption DEF ConsoleFailed, TaskType
      <3>4. pc' \in [Tasks -> Labels]
        BY <1>0, <2>2 DEF ConsoleFailed, Goto, TaskType, Labels
      <3> QED
        BY <1>0, <3>1, <3>3, <3>4, <2>2 DEF ConsoleFailed, TaskType
    <2> QED
      BY <1>7, <2>1, <2>2 DEF Console
  <1>8. CASE UNCHANGED vars
    BY <1>0, <1>8 DEF vars, shared, driver, loop, local, history, TaskType, Goto,
           Labels, Tasks
  <1> QED
    BY <1>1, <1>2, <1>3, <1>4, <1>5, <1>6, <1>7, <1>8 DEF Next

\* So do the history variables.
LEMMA HistoryStep ==
  ASSUME TypeOK, [Next]_vars
  PROVE  HistoryType'
  <1>0. SharedType /\ DriverType /\ TaskType /\ HistoryType
    BY DEF TypeOK
  <1>1. CASE \E t \in Tasks : Connect(t)
    <2> PICK t \in Tasks : Connect(t)
      BY <1>1
    <2>1. CASE Store(t) \/ Disconnect(t) \/ SetConfig(t) \/ ClearFlag(t)
              \/ ClearBit(t) \/ Dial(t) \/ DriverError(t) \/ Await(t) \/ Timeout(t)
      BY <1>0, <2>1 DEF Store, Disconnect, SetConfig, ClearFlag, ClearBit, Dial,
             DriverError, Await, Timeout, HistoryType, history
    <2> QED
      BY <1>1, <2>1 DEF Connect
  <1>2. CASE Handler
    BY <1>0, <1>2 DEF Handler, HandleFlag, HandleBit, HistoryType, history
  <1>3. CASE Associate \/ Drop
    <2>1. CASE Associate
      <3>1. on \in Entry
        BY <2>1, ConnectAssumption DEF Associate
      <3>2. proved' \subseteq Entry
        BY <1>0, <3>1, <2>1 DEF Associate, HistoryType
      <3>3. joined' \in [Tasks -> BOOLEAN]
        BY <2>1, Zenon DEF Associate
      <3> QED
        BY <3>2, <3>3 DEF HistoryType
    <2>2. CASE Drop
      BY <1>0, <2>2 DEF Drop, HistoryType, history
    <2> QED
      BY <1>3, <2>1, <2>2
  <1>4. CASE Main
    BY <1>0, <1>4 DEF Main, TryKnown, SkipKnown, KnownFailed, KnownConnected,
           StartConsole, Poll, Finish, HistoryType, history
  <1>5. CASE User
    BY <1>0, <1>5 DEF User, WebSelect, WebConnect, ConsoleSelect, ConsoleEnter,
           ConsoleKnown, ConsoleRescan, ConsoleExit, MayBegin, HistoryType, history
  <1>6. CASE Web
    BY <1>0, <1>6 DEF Web, WebConnected, WebSave, WebFailed, Finish, HistoryType,
           history
  <1>7. CASE Console
    BY <1>0, <1>7 DEF Console, ConsoleConnected, ConsoleOnline, ConsoleFailed,
           Finish, HistoryType, history
  <1>8. CASE UNCHANGED vars
    BY <1>0, <1>8 DEF vars, shared, driver, loop, local, history, HistoryType
  <1> QED
    BY <1>1, <1>2, <1>3, <1>4, <1>5, <1>6, <1>7, <1>8 DEF Next

\* An operation begins only while the others rest, so one task at most is in one.
LEMMA BusyStep ==
  ASSUME TypeOK, Overlap = FALSE, BusyInv, [Next]_vars
  PROVE  BusyInv'
  <1>0. /\ pc \in [Tasks -> Labels]
        /\ "main" \in Tasks /\ "web" \in Tasks /\ "console" \in Tasks
    BY DEF TypeOK, TaskType, Tasks
  <1>1. CASE \E t \in Tasks : Connect(t)
    <2> PICK t \in Tasks : Connect(t)
      BY <1>1
    <2>1. CASE Store(t) \/ Disconnect(t) \/ SetConfig(t) \/ ClearFlag(t)
              \/ ClearBit(t) \/ Dial(t) \/ DriverError(t) \/ Await(t) \/ Timeout(t)
      <3>1. Busy(t) /\ Busy(t)' /\ \A u \in Tasks \ {t} : pc'[u] = pc[u]
        BY <2>1, ConnectGoes, RestPlaces DEF Connect, Busy
      <3> QED
        BY <3>1, <2>1, <1>0 DEF Store, Disconnect, SetConfig, ClearFlag, ClearBit,
               Dial, DriverError, Await, Timeout, BusyInv, Busy
    <2> QED
      BY <1>1, <2>1 DEF Connect
  <1>2. CASE Handler
    <2>1. CASE HandleFlag
      BY <1>0, <2>1 DEF HandleFlag, BusyInv, Busy, Goto, Resting, At
    <2>2. CASE HandleBit
      <3>1. \A t \in Tasks : Busy(t) <=> Busy(t)'
        BY <2>2, HandlerGoes, RestPlaces DEF Handler, Busy, Operating
      <3> QED
        BY <3>1, <2>2, HandlerGoes DEF Handler, HandleBit, BusyInv, Busy
    <2> QED
      BY <1>2, <2>1, <2>2 DEF Handler
  <1>3. CASE Associate \/ Drop
    BY <1>0, <1>3 DEF Associate, Drop, BusyInv, Busy, Goto, Resting, At
  <1>4. CASE Main
    <2>1. CASE TryKnown \/ SkipKnown \/ KnownFailed \/ KnownConnected \/ Poll
      BY <1>0, <2>1 DEF TryKnown, SkipKnown, KnownFailed, KnownConnected, Poll,
             BusyInv, Busy, Goto, Resting, At
    <2>2. CASE StartConsole
      <3>1. pc'["main"] = "trap" /\ pc'["console"] = "menu" /\ pc'["web"] = pc["web"]
        BY <1>0, <2>2 DEF StartConsole
      <3>2. Busy("main") /\ ~Busy("main")' /\ ~Busy("console")'
        BY <3>1, <2>2 DEF StartConsole, Busy, Resting, At
      <3>3. \A t \in Tasks : Busy(t)' => Busy(t)
        BY <3>1, <3>2 DEF Tasks, Busy
      <3> QED
        BY <3>3 DEF BusyInv
    <2> QED
      BY <1>4, <2>1, <2>2 DEF Main
  <1>5. CASE User
    BY <1>0, <1>5 DEF User, WebSelect, WebConnect, ConsoleSelect, ConsoleEnter,
           ConsoleKnown, ConsoleRescan, ConsoleExit, MayBegin, BusyInv, Busy, Goto,
           Resting, At
  <1>6. CASE Web
    BY <1>0, <1>6 DEF Web, WebConnected, WebSave, WebFailed, BusyInv, Busy, Goto,
           Resting, At
  <1>7. CASE Console
    BY <1>0, <1>7 DEF Console, ConsoleConnected, ConsoleOnline, ConsoleFailed,
           BusyInv, Busy, Goto, Resting, At
  <1>8. CASE UNCHANGED vars
    BY <1>0, <1>8 DEF vars, shared, driver, loop, local, history, BusyInv, Busy,
           Goto, Resting, At
  <1> QED
    BY <1>1, <1>2, <1>3, <1>4, <1>5, <1>6, <1>7, <1>8 DEF Next

\* Locals are gone when an operation ends, and there only while it lasts.
LEMMA LocalStep ==
  ASSUME TypeOK, Overlap = FALSE, BusyInv, LocalInv, [Next]_vars
  PROVE  LocalInv'
  <1>0. /\ pc \in [Tasks -> Labels] /\ arg \in [Tasks -> Entry \cup {None}]
        /\ joined \in [Tasks -> BOOLEAN] /\ None \notin Valid
        /\ "main" \in Tasks /\ "web" \in Tasks /\ "console" \in Tasks
    BY ConnectAssumption DEF TypeOK, TaskType, HistoryType, Tasks
  <1>1. CASE \E t \in Tasks : Connect(t)
    <2> PICK t \in Tasks : Connect(t)
      BY <1>1
    <2>1. CASE Store(t) \/ Disconnect(t) \/ SetConfig(t) \/ ClearFlag(t)
              \/ ClearBit(t) \/ Dial(t) \/ DriverError(t) \/ Await(t) \/ Timeout(t)
      <3>1. Busy(t) /\ Busy(t)' /\ \A u \in Tasks \ {t} : pc'[u] = pc[u]
        BY <2>1, ConnectGoes, RestPlaces DEF Connect, Busy
      <3>2. pc[t] # "auto" /\ pc'[t] # "auto"
        BY <2>1, ConnectGoes DEF Connect, Operating
      <3> QED
        BY <3>1, <3>2, <2>1, <1>0 DEF Store, Disconnect, SetConfig, ClearFlag,
               ClearBit, Dial, DriverError, Await, Timeout, LocalInv, Busy, local,
               history
    <2> QED
      BY <1>1, <2>1 DEF Connect
  <1>2. CASE Handler
    <2>1. CASE HandleFlag
      BY <1>0, <2>1 DEF HandleFlag, LocalInv, Busy, Goto, Resting, At, local, history
    <2>2. CASE HandleBit
      <3>1. \A t \in Tasks : Busy(t) <=> Busy(t)'
        BY <2>2, HandlerGoes, RestPlaces DEF Handler, Busy, Operating
      <3> QED
        BY <3>1, <2>2, HandlerGoes DEF Handler, HandleBit, LocalInv, local, history
    <2> QED
      BY <1>2, <2>1, <2>2 DEF Handler
  <1>3. CASE Associate \/ Drop
    BY <1>0, <1>3 DEF Associate, Drop, LocalInv, Busy, Goto, Resting, At, local, history
  <1>4. CASE Main
    <2>1. CASE TryKnown \/ SkipKnown \/ KnownFailed \/ KnownConnected \/ Poll
      BY <1>0, <2>1 DEF TryKnown, SkipKnown, KnownFailed, KnownConnected, Poll,
             Finish, LocalInv, Busy, Goto, Resting, At, local, history
    <2>2. CASE StartConsole
      <3>1. pc'["main"] = "trap" /\ pc'["console"] = "menu" /\ pc'["web"] = pc["web"]
        BY <1>0, <2>2 DEF StartConsole
      <3>2. pc["main"] = "auto"
        BY <2>2 DEF StartConsole, At
      <3>3. ~Busy("console")
        BY <1>0, <3>2 DEF Busy, BusyInv, Resting
      <3> QED
        BY <3>1, <3>2, <3>3, <2>2 DEF StartConsole, LocalInv, local, history, Tasks,
               Busy
    <2> QED
      BY <1>4, <2>1, <2>2 DEF Main
  <1>5. CASE User
    BY <1>0, <1>5 DEF User, WebSelect, WebConnect, ConsoleSelect, ConsoleEnter,
           ConsoleKnown, ConsoleRescan, ConsoleExit, MayBegin, LocalInv, Busy, Goto,
           Resting, At, local, history
  <1>6. CASE Web
    BY <1>0, <1>6 DEF Web, WebConnected, WebSave, WebFailed, Finish, LocalInv, Busy,
           Goto, Resting, At, local, history
  <1>7. CASE Console
    BY <1>0, <1>7 DEF Console, ConsoleConnected, ConsoleOnline, ConsoleFailed,
           Finish, LocalInv, Busy, Goto, Resting, At, local, history
  <1>8. CASE UNCHANGED vars
    BY <1>0, <1>8 DEF vars, shared, driver, loop, local, history, LocalInv, Busy,
           Goto, Resting, At
  <1> QED
    BY <1>1, <1>2, <1>3, <1>4, <1>5, <1>6, <1>7, <1>8 DEF Next

\* What a connect is called with is there when the call is made.
LEMMA StoreStep ==
  ASSUME TypeOK, Overlap = FALSE, BusyInv, StoreInv, [Next]_vars
  PROVE  StoreInv'
  <1>0. /\ pc \in [Tasks -> Labels] /\ arg \in [Tasks -> Entry \cup {None}]
        /\ saved \in Lists /\ attempt \in Nat /\ None \notin Networks
        /\ selected \in Networks \cup {None} /\ chosen \in Networks \cup {None}
        /\ h \in Nat \ {0} /\ MaxAttempts \in Nat \ {0}
        /\ "main" \in Tasks /\ "web" \in Tasks /\ "console" \in Tasks
    BY ConnectAssumption DEF TypeOK, SharedType, TaskType, HistoryType, Tasks
  <1>1. CASE \E t \in Tasks : Connect(t)
    <2> PICK t \in Tasks : Connect(t)
      BY <1>1
    <2>1. CASE Store(t) \/ Disconnect(t) \/ SetConfig(t) \/ ClearFlag(t)
              \/ ClearBit(t) \/ Dial(t) \/ DriverError(t) \/ Await(t) \/ Timeout(t)
      <3>1. Busy(t) /\ Busy(t)' /\ \A u \in Tasks \ {t} : pc'[u] = pc[u]
        BY <2>1, ConnectGoes, RestPlaces DEF Connect, Busy
      <3>2. pc'[t] \in Operating \ {"store"} /\ pc[t] \in Operating
        BY <1>0, <2>1 DEF Store, Disconnect, SetConfig, ClearFlag, ClearBit, Dial,
               DriverError, Await, Timeout, Goto, At, Operating
      <3>3. \A u \in Tasks \ {t} : pc[u] \notin Operating
        BY <3>1, RestPlaces DEF BusyInv, Busy
      <3> QED
        BY <3>1, <3>2, <3>3, <2>1, <1>0 DEF Store, Disconnect, SetConfig, ClearFlag,
               ClearBit, Dial, DriverError, Await, Timeout, StoreInv, shared, local,
               Operating
    <2> QED
      BY <1>1, <2>1 DEF Connect
  <1>2. CASE Handler
    <2>1. CASE HandleFlag
      BY <1>0, <2>1 DEF HandleFlag, StoreInv, BusyInv, Busy, Resting, Goto, At,
             shared, local
    <2>2. CASE HandleBit
      BY <1>0, <2>2, HandlerGoes DEF Handler, HandleBit, StoreInv, local
    <2> QED
      BY <1>2, <2>1, <2>2 DEF Handler
  <1>3. CASE Associate \/ Drop
    BY <1>0, <1>3 DEF Associate, Drop, StoreInv, BusyInv, Busy, Resting, Goto, At,
           shared, local
  <1>4. CASE Main
    <2>1. CASE TryKnown
      <3>1. h \in DOMAIN saved
        BY <1>0, <2>1, ListIsSeq DEF TryKnown
      <3> QED
        BY <1>0, <2>1, <3>1 DEF TryKnown, StoreInv, BusyInv, Busy, Resting, Goto, At,
               shared, local
    <2>2. CASE SkipKnown \/ KnownFailed \/ KnownConnected \/ StartConsole \/ Poll
      BY <1>0, <2>2 DEF SkipKnown, KnownFailed, KnownConnected, StartConsole, Poll,
             Finish, StoreInv, BusyInv, Busy, Resting, Goto, At, shared, local
    <2> QED
      BY <1>4, <2>1, <2>2 DEF Main
  <1>5. CASE User
    <2>1. CASE (\E n \in Networks : WebSelect(n)) \/ ConsoleKnown \/ ConsoleRescan
              \/ ConsoleExit
      BY <1>0, <2>1 DEF WebSelect, ConsoleKnown, ConsoleRescan, ConsoleExit,
             MayBegin, StoreInv, BusyInv, Busy, Resting, Goto, At, shared, local
    <2>2. CASE \E p \in Passwords : WebConnect(p)
      <3> PICK p \in Passwords : WebConnect(p)
        BY <2>2
      <3>1. arg'["web"] \in Entry /\ selected' \in Networks
        BY <1>0 DEF WebConnect, Entry, shared
      <3> QED
        BY <1>0, <3>1 DEF WebConnect, StoreInv, Goto, shared
    <2>3. CASE \E n \in Networks : ConsoleSelect(n)
      <3> PICK n \in Networks : ConsoleSelect(n)
        BY <2>3
      <3> QED
        BY <1>0 DEF ConsoleSelect, StoreInv, Goto, shared
    <2>4. CASE \E p \in Passwords : ConsoleEnter(p)
      <3> PICK p \in Passwords : ConsoleEnter(p)
        BY <2>4
      <3>1. chosen \in Networks /\ attempt < MaxAttempts
        BY <1>0 DEF ConsoleEnter, StoreInv, At
      <3>2. arg'["console"] \in Entry
        BY <1>0, <3>1 DEF ConsoleEnter, Entry
      <3>3. pc["web"] # "store"
        BY <1>0, Overlap = FALSE DEF ConsoleEnter, MayBegin, Resting
      <3> QED
        BY <1>0, <3>1, <3>2, <3>3 DEF ConsoleEnter, StoreInv, Goto
    <2> QED
      BY <1>5, <2>1, <2>2, <2>3, <2>4 DEF User
  <1>6. CASE Web
    BY <1>0, <1>6 DEF Web, WebConnected, WebSave, WebFailed, Finish, StoreInv,
           BusyInv, Busy, Resting, Goto, At, shared, local
  <1>7. CASE Console
    <2>1. CASE ConsoleConnected \/ ConsoleOnline
      BY <1>0, <2>1 DEF ConsoleConnected, ConsoleOnline, Finish, StoreInv, BusyInv,
             Busy, Resting, Goto, At, shared, local
    <2>2. CASE ConsoleFailed
      <3>1. CASE chosen = None /\ Goto("console", "menu") /\ UNCHANGED attempt
        BY <1>0, <2>2, <3>1 DEF ConsoleFailed, StoreInv, Goto, Finish, shared
      <3>2. CASE chosen # None /\ attempt' = attempt + 1
        <4>1. CASE attempt' < MaxAttempts /\ Goto("console", "enter")
          BY <1>0, <2>2, <3>2, <4>1 DEF ConsoleFailed, StoreInv, Goto, Finish, shared
        <4>2. CASE Goto("console", "ask")
          BY <1>0, <2>2, <3>2, <4>2 DEF ConsoleFailed, StoreInv, Goto, Finish, shared
        <4> QED
          BY <2>2, <3>2, <4>1, <4>2 DEF ConsoleFailed
      <3> QED
        BY <2>2, <3>1, <3>2 DEF ConsoleFailed
    <2> QED
      BY <1>7, <2>1, <2>2 DEF Console
  <1>8. CASE UNCHANGED vars
    BY <1>0, <1>8 DEF vars, shared, driver, loop, local, history, StoreInv, BusyInv,
           Busy, Resting, Goto, At
  <1> QED
    BY <1>1, <1>2, <1>3, <1>4, <1>5, <1>6, <1>7, <1>8 DEF Next

\* The shared credentials stay those of the connect until its save.
LEMMA ArgStep ==
  ASSUME TypeOK, Overlap = FALSE, BusyInv, StoreInv, ArgInv, [Next]_vars
  PROVE  ArgInv'
  <1>0. /\ pc \in [Tasks -> Labels] /\ arg \in [Tasks -> Entry \cup {None}]
        /\ saved \in Lists /\ attempt \in Nat /\ None \notin Networks
        /\ selected \in Networks \cup {None} /\ chosen \in Networks \cup {None}
        /\ h \in Nat \ {0} /\ MaxAttempts \in Nat \ {0}
        /\ "main" \in Tasks /\ "web" \in Tasks /\ "console" \in Tasks
    BY ConnectAssumption DEF TypeOK, SharedType, TaskType, HistoryType, Tasks
  <1>1. CASE \E t \in Tasks : Connect(t)
    <2> PICK t \in Tasks : Connect(t)
      BY <1>1
    <2>1. CASE Store(t)
      <3>1. Busy(t)
        BY <1>0, <2>1, RestPlaces DEF Store, At, Operating, Busy
      <3>2. \A u \in Tasks \ {t} : pc'[u] \notin Dialled
        BY <1>0, <3>1, <2>1, OthersRest DEF Store, Goto, Operating, Dialled
      <3>3. Passed(t) \in Entry
        BY <2>1, PassedEntry DEF Store, At
      <3>4. arg'[t] = Passed(t) /\ selected' = Passed(t).ssid /\ password' = Passed(t).password
        BY <1>0, <2>1 DEF Store
      <3> QED
        BY <3>2, <3>3, <3>4 DEF ArgInv
    <2>2. CASE Disconnect(t) \/ SetConfig(t) \/ ClearFlag(t) \/ ClearBit(t)
              \/ Dial(t) \/ Await(t)
      <3>1. /\ pc[t] \in Dialled /\ UNCHANGED <<arg, selected, password>>
            /\ \A u \in Tasks \ {t} : pc'[u] = pc[u]
        BY <1>0, <2>2 DEF Disconnect, SetConfig, ClearFlag, ClearBit, Dial, Await,
               Goto, At, Dialled, shared, local
      <3> QED
        BY <3>1 DEF ArgInv
    <2>3. CASE DriverError(t) \/ Timeout(t)
      BY <1>0, <2>3 DEF DriverError, Timeout, ArgInv, Goto, Dialled, shared, local
    <2> QED
      BY <1>1, <2>1, <2>2, <2>3 DEF Connect
  <1>2. CASE Handler
    <2>1. CASE HandleFlag
      BY <1>0, <2>1 DEF HandleFlag, ArgInv, Dialled, Goto, At, shared, local
    <2>2. CASE HandleBit
      <3>1. \A t \in Tasks : pc'[t] \in Dialled => pc[t] \in Dialled
        BY <2>2, HandlerGoes DEF Handler, Dialled
      <3> QED
        BY <3>1, <2>2 DEF HandleBit, ArgInv, local
    <2> QED
      BY <1>2, <2>1, <2>2 DEF Handler
  <1>3. CASE Associate \/ Drop
    BY <1>0, <1>3 DEF Associate, Drop, ArgInv, Dialled, Goto, At, shared, local
  <1>4. CASE Main
    <2>1. CASE TryKnown
      <3>1. Busy("main")
        BY <2>1 DEF TryKnown, At, Busy, Resting
      <3>2. \A t \in Tasks : pc'[t] \notin Dialled
        BY <1>0, <3>1, <2>1, OthersRest DEF TryKnown, Goto, Operating, Dialled
      <3> QED
        BY <3>2 DEF ArgInv
    <2>2. CASE SkipKnown
      BY <1>0, <2>2 DEF SkipKnown, ArgInv, Dialled, Goto, At, shared, local
    <2>3. CASE KnownFailed
      BY <1>0, <2>3 DEF KnownFailed, Finish, ArgInv, Dialled, Goto, At, shared, local
    <2>4. CASE KnownConnected
      BY <1>0, <2>4 DEF KnownConnected, Finish, ArgInv, Dialled, Goto, At, shared, local
    <2>5. CASE StartConsole
      BY <1>0, <2>5 DEF StartConsole, ArgInv, Dialled, Goto, At, shared, local
    <2>6. CASE Poll
      BY <1>0, <2>6 DEF Poll, ArgInv, Dialled, Goto, At, shared, local
    <2> QED
      BY <1>4, <2>1, <2>2, <2>3, <2>4, <2>5, <2>6 DEF Main
  <1>5. CASE User
    <2>1. CASE \E n \in Networks : WebSelect(n)
      <3>1. \A t \in Tasks : pc'[t] \notin Dialled
        BY <1>0, <2>1, RestPlaces, Overlap = FALSE
           DEF WebSelect, MayBegin, Operating, Dialled, Resting, Goto, At
      <3> QED
        BY <3>1 DEF ArgInv
    <2>2. CASE \E p \in Passwords : WebConnect(p)
      <3> PICK p \in Passwords : WebConnect(p)
        BY <2>2
      <3> QED
        BY <1>0 DEF WebConnect, ArgInv, Goto, shared, Dialled
    <2>3. CASE (\E n \in Networks : ConsoleSelect(n)) \/ ConsoleKnown
              \/ ConsoleRescan \/ ConsoleExit
      BY <1>0, <2>3 DEF ConsoleSelect, ConsoleKnown, ConsoleRescan, ConsoleExit,
             MayBegin, ArgInv, Dialled, Goto, At, shared, local
    <2>4. CASE \E p \in Passwords : ConsoleEnter(p)
      <3>1. \A t \in Tasks \ {"console"} : pc[t] \in Resting[t]
        BY <2>4, Overlap = FALSE DEF ConsoleEnter, MayBegin
      <3>2. pc'["console"] = "store" /\ \A t \in Tasks \ {"console"} : pc'[t] = pc[t]
        BY <1>0, <2>4 DEF ConsoleEnter, Goto
      <3>3. \A t \in Tasks : pc'[t] \notin Dialled
        BY <3>1, <3>2, RestPlaces DEF Operating, Dialled
      <3> QED
        BY <3>3 DEF ArgInv
    <2> QED
      BY <1>5, <2>1, <2>2, <2>3, <2>4 DEF User
  <1>6. CASE Web
    <2>1. CASE WebConnected
      <3>1. Busy("web")
        BY <2>1 DEF WebConnected, At, Busy, Resting
      <3>2. \A t \in Tasks \ {"web"} : pc'[t] \notin Dialled
        BY <1>0, <3>1, <2>1, OthersRest DEF WebConnected, Goto, Operating, Dialled
      <3> QED
        BY <1>0, <3>2, <2>1 DEF WebConnected, At, Dialled, ArgInv, local
    <2>2. CASE WebSave \/ WebFailed
      BY <1>0, <2>2 DEF WebSave, WebFailed, Finish, ArgInv, Dialled, Goto, At,
             shared, local
    <2> QED
      BY <1>6, <2>1, <2>2 DEF Web
  <1>7. CASE Console
    <2>1. CASE ConsoleConnected
      BY <1>0, <2>1 DEF ConsoleConnected, ArgInv, Dialled, Goto, At, shared, local
    <2>2. CASE ConsoleOnline
      BY <1>0, <2>2 DEF ConsoleOnline, Finish, ArgInv, Dialled, Goto, At, shared, local
    <2>3. CASE ConsoleFailed
      BY <1>0, <2>3 DEF ConsoleFailed, Finish, ArgInv, Dialled, Goto, At, shared, local
    <2> QED
      BY <1>7, <2>1, <2>2, <2>3 DEF Console
  <1>8. CASE UNCHANGED vars
    BY <1>0, <1>8 DEF vars, shared, driver, loop, local, history, ArgInv, Dialled,
           Goto, At
  <1> QED
    BY <1>1, <1>2, <1>3, <1>4, <1>5, <1>6, <1>7, <1>8 DEF Next

\* A step that leaves the driver alone and sets no task on its way keeps IdleInv.
LEMMA StillIdle ==
  ASSUME IdleInv, UNCHANGED <<link, kept>>,
         \A u \in Tasks : pc'[u] \in Ahead => pc'[u] = pc[u]
  PROVE  IdleInv'
  BY DEF IdleInv

\* After its disconnect nobody but the connect itself dials, and a link that
\* was already being dialled comes up before the connect's set_config.
LEMMA IdleStep ==
  ASSUME TypeOK, Overlap = FALSE, BusyInv, IdleInv, [Next]_vars
  PROVE  IdleInv'
  <1>0. /\ pc \in [Tasks -> Labels]
        /\ "main" \in Tasks /\ "web" \in Tasks /\ "console" \in Tasks
    BY DEF TypeOK, TaskType, Tasks
  <1>1. CASE \E t \in Tasks : Connect(t)
    <2> PICK t \in Tasks : Connect(t)
      BY <1>1
    <2>0. Busy(t) /\ \A u \in Tasks \ {t} : pc'[u] = pc[u]
      BY ConnectGoes, RestPlaces DEF Busy
    <2>1. \A u \in Tasks \ {t} : pc'[u] \notin Ahead
      BY <2>0, OthersRest DEF Ahead, Operating
    <2>2. CASE Store(t) \/ DriverError(t) \/ Dial(t) \/ Await(t) \/ Timeout(t)
      <3>1. pc'[t] \notin Ahead
        BY <1>0, <2>2 DEF Store, DriverError, Dial, Await, Timeout, Goto, Ahead
      <3> QED
        BY <2>1, <3>1 DEF IdleInv
    <2>3. CASE Disconnect(t)
      <3>1. pc'[t] = "config" /\ (link' = "idle" \/ kept')
        BY <1>0, <2>3 DEF Disconnect, Goto
      <3> QED
        BY <2>1, <3>1 DEF IdleInv
    <2>4. CASE SetConfig(t)
      <3>1. /\ pc[t] = "config" /\ pc'[t] = "clear flag"
            /\ link # "dialing" /\ UNCHANGED <<link, kept>>
        BY <1>0, <2>4 DEF SetConfig, At, Goto
      <3> QED
        BY <2>1, <3>1 DEF IdleInv, Ahead
    <2>5. CASE ClearFlag(t) \/ ClearBit(t)
      <3>1. pc[t] \in Ahead \ {"config"} /\ UNCHANGED <<link, kept>>
        BY <2>5 DEF ClearFlag, ClearBit, At, Ahead, driver
      <3> QED
        BY <2>1, <3>1 DEF IdleInv
    <2> QED
      BY <2>2, <2>3, <2>4, <2>5 DEF Connect
  <1>2. CASE Handler
    <2>1. \A u \in Tasks : pc'[u] \in Ahead => pc'[u] = pc[u]
      BY <1>2, HandlerGoes DEF Ahead
    <2>2. UNCHANGED <<link, kept>>
      BY <1>2 DEF Handler, HandleFlag, HandleBit, driver
    <2> QED
      BY <2>1, <2>2, StillIdle
  <1>3. CASE Associate \/ Drop
    <2>1. UNCHANGED pc /\ link' # "dialing"
          /\ (link' = "idle" \/ (link = "dialing" /\ UNCHANGED kept))
      BY <1>3 DEF Associate, Drop
    <2> QED
      BY <2>1 DEF IdleInv
  <1>4. CASE Main
    <2>1. \A u \in Tasks : pc'[u] \in Ahead => pc'[u] = pc[u]
      BY <1>0, <1>4 DEF Main, TryKnown, SkipKnown, KnownFailed, KnownConnected,
             StartConsole, Poll, Ahead, Goto
    <2>2. UNCHANGED <<link, kept>>
      BY <1>4 DEF Main, TryKnown, SkipKnown, KnownFailed, KnownConnected,
             StartConsole, Poll, driver
    <2> QED
      BY <2>1, <2>2, StillIdle
  <1>5. CASE User
    <2>1. \A u \in Tasks : pc'[u] \in Ahead => pc'[u] = pc[u]
      BY <1>0, <1>5 DEF User, WebSelect, WebConnect, ConsoleSelect, ConsoleEnter,
             ConsoleKnown, ConsoleRescan, ConsoleExit, Ahead, Goto
    <2>2. UNCHANGED <<link, kept>>
      BY <1>5 DEF User, WebSelect, WebConnect, ConsoleSelect, ConsoleEnter,
             ConsoleKnown, ConsoleRescan, ConsoleExit, driver
    <2> QED
      BY <2>1, <2>2, StillIdle
  <1>6. CASE Web
    <2>1. \A u \in Tasks : pc'[u] \in Ahead => pc'[u] = pc[u]
      BY <1>0, <1>6 DEF Web, WebConnected, WebSave, WebFailed, Ahead, Goto
    <2>2. UNCHANGED <<link, kept>>
      BY <1>6 DEF Web, WebConnected, WebSave, WebFailed, driver
    <2> QED
      BY <2>1, <2>2, StillIdle
  <1>7. CASE Console
    <2>1. \A u \in Tasks : pc'[u] \in Ahead => pc'[u] = pc[u]
      BY <1>0, <1>7 DEF Console, ConsoleConnected, ConsoleOnline, ConsoleFailed, Ahead, Goto
    <2>2. UNCHANGED <<link, kept>>
      BY <1>7 DEF Console, ConsoleConnected, ConsoleOnline, ConsoleFailed, driver
    <2> QED
      BY <2>1, <2>2, StillIdle
  <1>8. CASE UNCHANGED vars
    BY <1>8, StillIdle DEF vars, driver
  <1> QED
    BY <1>1, <1>2, <1>3, <1>4, <1>5, <1>6, <1>7, <1>8 DEF Next

\* Every change of the link has its event, and a task clears the flag of no link
\* but one the driver has refused to give up.
LEMMA LinkStep ==
  ASSUME TypeOK, IdleInv, LinkInv, [Next]_vars
  PROVE  LinkInv'
  <1>0. /\ events \in Seq(EventNames) /\ connected \in BOOLEAN
        /\ link \in {"idle", "dialing", "up"} /\ kept \in BOOLEAN
    BY DEF TypeOK, SharedType, DriverType, EventNames
  <1>1. CASE \E t \in Tasks : Connect(t)
    <2> PICK t \in Tasks : Connect(t)
      BY <1>1
    <2>1. CASE Store(t)
      BY <1>0, <2>1 DEF Store, LinkInv, shared, driver, loop
    <2>2. CASE Disconnect(t)
      <3>1. CASE UNCHANGED <<link, events>> /\ (UNCHANGED kept \/ kept' = TRUE)
        BY <3>1, <2>2 DEF Disconnect, LinkInv, shared
      <3>2. CASE link' = "idle" /\ events' = Append(events, "disconnected")
        <4>1. events' # <<>> /\ events'[Len(events')] = "disconnected"
          BY <1>0, <3>2, LastOfAppend DEF EventNames
        <4> QED
          BY <3>2, <4>1 DEF LinkInv
      <3> QED
        BY <3>1, <3>2, <2>2 DEF Disconnect
    <2>3. CASE SetConfig(t)
      BY <1>0, <2>3 DEF SetConfig, LinkInv, shared, driver, loop
    <2>4. CASE ClearFlag(t)
      <3>1. link = "idle" \/ kept
        BY <2>4 DEF ClearFlag, At, IdleInv, Ahead
      <3> QED
        BY <3>1, <2>4 DEF ClearFlag, LinkInv, driver, loop
    <2>5. CASE ClearBit(t)
      BY <1>0, <2>5 DEF ClearBit, LinkInv, shared, driver, loop
    <2>6. CASE Dial(t)
      BY <1>0, <2>6 DEF Dial, LinkInv, shared, driver, loop
    <2>7. CASE DriverError(t)
      BY <1>0, <2>7 DEF DriverError, LinkInv, shared, driver, loop
    <2>8. CASE Await(t)
      BY <1>0, <2>8 DEF Await, LinkInv, shared, driver, loop
    <2>9. CASE Timeout(t)
      BY <1>0, <2>9 DEF Timeout, LinkInv, shared, driver, loop
    <2> QED
      BY <1>1, <2>1, <2>2, <2>3, <2>4, <2>5, <2>6, <2>7, <2>8, <2>9 DEF Connect
  <1>2. CASE Handler
    <2>1. CASE HandleFlag
      <3>1. events # <<>> /\ events' = Tail(events) /\ link' = link
            /\ connected' = (Head(events) = "got ip")
        BY <2>1 DEF HandleFlag, driver
      <3>2. CASE Len(events) = 1
        <4>1. events' = <<>> /\ Head(events) = events[Len(events)]
          BY <1>0, <3>1, <3>2, LastOfTail
        <4> QED
          BY <3>1, <4>1 DEF LinkInv
      <3>3. CASE Len(events) # 1
        <4>1. events' # <<>> /\ events'[Len(events')] = events[Len(events)]
          BY <1>0, <3>1, <3>3, LastOfTail
        <4> QED
          BY <3>1, <4>1 DEF LinkInv
      <3> QED
        BY <3>2, <3>3
    <2>2. CASE HandleBit
      BY <1>0, <2>2 DEF HandleBit, LinkInv, shared, driver, loop
    <2> QED
      BY <1>2, <2>1, <2>2 DEF Handler
  <1>3. CASE Associate \/ Drop
    <2>1. CASE Associate
      <3>1. events' # <<>> /\ events'[Len(events')] = "got ip"
        BY <1>0, <2>1, LastOfAppend DEF Associate, EventNames
      <3> QED
        BY <3>1, <2>1 DEF Associate, LinkInv
    <2>2. CASE Drop
      <3>1. events' # <<>> /\ events'[Len(events')] = "disconnected"
        BY <1>0, <2>2, LastOfAppend DEF Drop, EventNames
      <3> QED
        BY <3>1, <2>2 DEF Drop, LinkInv
    <2> QED
      BY <1>3, <2>1, <2>2
  <1>4. CASE Main
    <2>1. CASE TryKnown
      BY <1>0, <2>1 DEF TryKnown, LinkInv, shared, driver, loop
    <2>2. CASE SkipKnown
      BY <1>0, <2>2 DEF SkipKnown, LinkInv, shared, driver, loop
    <2>3. CASE KnownFailed
      BY <1>0, <2>3 DEF KnownFailed, LinkInv, shared, driver, loop
    <2>4. CASE KnownConnected
      BY <1>0, <2>4 DEF KnownConnected, LinkInv, shared, driver, loop
    <2>5. CASE StartConsole
      BY <1>0, <2>5 DEF StartConsole, LinkInv, shared, driver, loop
    <2>6. CASE Poll
      BY <1>0, <2>6 DEF Poll, LinkInv, shared, driver, loop
    <2> QED
      BY <1>4, <2>1, <2>2, <2>3, <2>4, <2>5, <2>6 DEF Main
  <1>5. CASE User
    <2>1. CASE \E n \in Networks : WebSelect(n)
      <3> PICK n \in Networks : WebSelect(n)
        BY <2>1
      <3> QED
        BY DEF WebSelect, LinkInv, shared, driver, loop
    <2>2. CASE \E p \in Passwords : WebConnect(p)
      <3> PICK p \in Passwords : WebConnect(p)
        BY <2>2
      <3> QED
        BY DEF WebConnect, LinkInv, shared, driver, loop
    <2>3. CASE \E n \in Networks : ConsoleSelect(n)
      <3> PICK n \in Networks : ConsoleSelect(n)
        BY <2>3
      <3> QED
        BY DEF ConsoleSelect, LinkInv, shared, driver, loop
    <2>4. CASE \E p \in Passwords : ConsoleEnter(p)
      <3> PICK p \in Passwords : ConsoleEnter(p)
        BY <2>4
      <3> QED
        BY DEF ConsoleEnter, LinkInv, shared, driver, loop
    <2>5. CASE ConsoleKnown
      BY <1>0, <2>5 DEF ConsoleKnown, MayBegin, LinkInv, shared, driver, loop
    <2>6. CASE ConsoleRescan
      BY <1>0, <2>6 DEF ConsoleRescan, LinkInv, shared, driver, loop
    <2>7. CASE ConsoleExit
      BY <1>0, <2>7 DEF ConsoleExit, LinkInv, shared, driver, loop
    <2> QED
      BY <1>5, <2>1, <2>2, <2>3, <2>4, <2>5, <2>6, <2>7 DEF User
  <1>6. CASE Web
    <2>1. CASE WebConnected
      BY <1>0, <2>1 DEF WebConnected, LinkInv, shared, driver, loop
    <2>2. CASE WebSave
      BY <1>0, <2>2 DEF WebSave, LinkInv, shared, driver, loop
    <2>3. CASE WebFailed
      BY <1>0, <2>3 DEF WebFailed, LinkInv, shared, driver, loop
    <2> QED
      BY <1>6, <2>1, <2>2, <2>3 DEF Web
  <1>7. CASE Console
    <2>1. CASE ConsoleConnected
      BY <1>0, <2>1 DEF ConsoleConnected, LinkInv, shared, driver, loop
    <2>2. CASE ConsoleOnline
      BY <1>0, <2>2 DEF ConsoleOnline, LinkInv, shared, driver, loop
    <2>3. CASE ConsoleFailed
      BY <1>0, <2>3 DEF ConsoleFailed, LinkInv, shared, driver, loop
    <2> QED
      BY <1>7, <2>1, <2>2, <2>3 DEF Console
  <1>8. CASE UNCHANGED vars
    BY <1>0, <1>8 DEF vars, shared, driver, loop, local, history, LinkInv
  <1> QED
    BY <1>1, <1>2, <1>3, <1>4, <1>5, <1>6, <1>7, <1>8 DEF Next

\* A connect waits without an old address on its way, and is woken by its own.
LEMMA PathStep ==
  ASSUME TypeOK, Prompt = TRUE, BusyInv, IdleInv, PathInv, [Next]_vars
  PROVE  PathInv'
  <1>0. /\ pc \in [Tasks -> Labels] /\ arg \in [Tasks -> Entry \cup {None}]
        /\ joined \in [Tasks -> BOOLEAN] /\ events \in Seq(EventNames)
        /\ "main" \in Tasks /\ "web" \in Tasks /\ "console" \in Tasks
    BY DEF TypeOK, TaskType, DriverType, HistoryType, EventNames, Tasks
  <1>1. CASE \E t \in Tasks : Connect(t)
    <2> PICK t \in Tasks : Connect(t)
      BY <1>1
    <2>1. CASE Store(t) \/ DriverError(t) \/ Timeout(t)
      <3>1. Busy(t) /\ \A u \in Tasks \ {t} : pc'[u] = pc[u]
        BY <2>1, ConnectGoes, RestPlaces DEF Connect, Busy
      <3>2. PathAt(t)'
        BY <1>0, <2>1, SameEvents DEF Store, DriverError, Timeout, Goto, At,
               PathInv, PathAt, Ahead, local, history
      <3> QED
        BY <3>1, <3>2, AloneOnPath
    <2>2. CASE Disconnect(t)
      <3>1. Busy(t) /\ \A u \in Tasks \ {t} : pc'[u] = pc[u]
        BY <2>2, ConnectGoes, RestPlaces DEF Connect, Busy
      <3>2. pc'[t] = "config"
        BY <1>0, <2>2 DEF Disconnect, Goto
      <3>3. PathAt(t)'
        BY <3>2 DEF PathAt, Ahead
      <3> QED
        BY <3>1, <3>3, AloneOnPath
    <2>7. CASE SetConfig(t)
      <3>1. Busy(t) /\ \A u \in Tasks \ {t} : pc'[u] = pc[u]
        BY <2>7, ConnectGoes, RestPlaces DEF Connect, Busy
      <3>2. NoAddress
        <4>1. events = <<>> /\ handling = "none"
          BY <2>7 DEF SetConfig, At, Scheduled
        <4>2. Len(events) = 0
          BY <4>1
        <4> QED
          BY <4>1, <4>2 DEF NoAddress
      <3>3. /\ pc'[t] = "clear flag" /\ config' = arg[t]
            /\ UNCHANGED <<arg, loop>>
        BY <1>0, <2>7 DEF SetConfig, Goto, local
      <3>4. PathAt(t)'
        BY <3>2, <3>3, SameEvents DEF PathAt, Ahead
      <3> QED
        BY <3>1, <3>4, AloneOnPath
    <2>3. CASE ClearFlag(t)
      <3>1. Busy(t) /\ \A u \in Tasks \ {t} : pc'[u] = pc[u]
        BY <2>3, ConnectGoes, RestPlaces DEF Connect, Busy
      <3>3. pc[t] = "clear flag" /\ pc'[t] = "clear bit" /\ UNCHANGED <<config, arg, loop>>
        BY <1>0, <2>3 DEF ClearFlag, At, Goto, driver, local
      <3>2. PathAt(t)'
        BY <3>3, SameEvents DEF PathInv, PathAt, Ahead
      <3> QED
        BY <3>1, <3>2, AloneOnPath
    <2>4. CASE ClearBit(t)
      <3>1. Busy(t) /\ \A u \in Tasks \ {t} : pc'[u] = pc[u]
        BY <2>4, ConnectGoes, RestPlaces DEF Connect, Busy
      <3>3. /\ pc[t] = "clear bit" /\ pc'[t] = "dial" /\ ~bit'
            /\ UNCHANGED <<config, arg, loop>>
        BY <1>0, <2>4 DEF ClearBit, At, Goto, driver, local
      <3>2. PathAt(t)'
        BY <3>3, SameEvents DEF PathInv, PathAt, Ahead
      <3> QED
        BY <3>1, <3>2, AloneOnPath
    <2>5. CASE Dial(t)
      <3>1. Busy(t) /\ \A u \in Tasks \ {t} : pc'[u] = pc[u]
        BY <2>5, ConnectGoes, RestPlaces DEF Connect, Busy
      <3>3. /\ pc[t] = "dial" /\ pc'[t] = "await" /\ on' = config
            /\ UNCHANGED <<bit, arg, loop>>
        BY <1>0, <2>5 DEF Dial, At, Goto, shared, local
      <3>4. NoAddress /\ config = arg[t] /\ ~bit
        BY <3>3 DEF PathInv, PathAt, Ahead
      <3>2. PathAt(t)'
        BY <3>3, <3>4, SameEvents DEF PathAt, Ahead
      <3> QED
        BY <3>1, <3>2, AloneOnPath
    <2>6. CASE Await(t)
      <3>1. Busy(t) /\ \A u \in Tasks \ {t} : pc'[u] = pc[u]
        BY <2>6, ConnectGoes, RestPlaces DEF Connect, Busy
      <3>3. /\ pc[t] = "await" /\ pc'[t] = (IF bit THEN "ok" ELSE "waiting")
            /\ UNCHANGED <<bit, link, on, arg, joined, loop>>
        BY <1>0, <2>6 DEF Await, At, Goto, shared, driver, local, history
      <3>4. (link # "idle" => on = arg[t]) /\ (joined[t] \/ (NoAddress /\ ~bit))
        BY <3>3 DEF PathInv, PathAt
      <3>2. PathAt(t)'
        BY <3>3, <3>4, SameEvents DEF PathAt, Ahead
      <3> QED
        BY <3>1, <3>2, AloneOnPath
    <2> QED
      BY <1>1, <2>1, <2>2, <2>3, <2>4, <2>5, <2>6, <2>7 DEF Connect
  <1>2. CASE Handler
    <2>1. CASE HandleFlag
      <3>1. /\ events # <<>> /\ events' = Tail(events) /\ handling' = Head(events)
            /\ UNCHANGED <<pc, bit, config, link, on, arg, joined>>
        BY <2>1 DEF HandleFlag, driver, local, history
      <3>2. NoAddress => NoAddress'
        BY <1>0, <3>1, NoNewAddress
      <3> QED
        BY <3>1, <3>2 DEF PathInv, PathAt
    <2>2. CASE HandleBit
      <3>1. /\ bit' = (handling = "got ip") /\ handling' = "none"
            /\ UNCHANGED <<config, link, on, events, arg, joined>>
            /\ pc' = [t \in Tasks |-> IF bit' /\ pc[t] = "waiting" THEN "ok" ELSE pc[t]]
        BY <2>2 DEF HandleBit, driver, local, history
      <3>2. NoAddress => NoAddress' /\ ~bit'
        BY <3>1 DEF NoAddress
      <3> SUFFICES ASSUME NEW t \in Tasks PROVE PathAt(t)'
        BY DEF PathInv
      <3>3. CASE bit' /\ pc[t] = "waiting"
        <4>1. pc'[t] = "ok" /\ joined'[t]
          BY <3>1, <3>2, <3>3 DEF PathInv, PathAt
        <4> QED
          BY <4>1 DEF PathAt, Ahead
      <3>4. CASE ~(bit' /\ pc[t] = "waiting")
        <4>1. pc'[t] = pc[t]
          BY <3>1, <3>4
        <4> QED
          BY <3>1, <3>2, <4>1 DEF PathInv, PathAt, Ahead
      <3> QED
        BY <3>3, <3>4
    <2> QED
      BY <1>2, <2>1, <2>2 DEF Handler
  <1>3. CASE Associate \/ Drop
    <2>1. CASE Associate
      <3>1. \A t \in Tasks : pc[t] \notin Ahead \ {"config"}
        BY <2>1 DEF Associate, IdleInv
      <3>2. /\ link = "dialing" /\ UNCHANGED <<pc, arg, on>>
            /\ \A t \in Tasks : joined'[t] = (joined[t] \/ arg[t] = on)
        BY <2>1 DEF Associate, local
      <3> QED
        BY <3>1, <3>2 DEF PathInv, PathAt, Ahead
    <2>2. CASE Drop
      <3>2. NoAddress => NoAddress'
        BY <1>0, <2>2, NoNewAddress DEF Drop
      <3> QED
        BY <3>2, <2>2 DEF Drop, PathInv, PathAt, shared, local, history
    <2> QED
      BY <1>3, <2>1, <2>2
  <1>4. CASE Main
    <2>1. CASE TryKnown
      BY <1>0, <2>1, SameEvents DEF TryKnown, PathInv, PathAt, Ahead, Goto, At,
             shared, driver, local, history
    <2>2. CASE SkipKnown
      BY <1>0, <2>2, SameEvents DEF SkipKnown, PathInv, PathAt, Ahead, Goto, At,
             shared, driver, local, history
    <2>3. CASE KnownFailed
      BY <1>0, <2>3, SameEvents DEF KnownFailed, Finish, PathInv, PathAt, Ahead,
             Goto, At, shared, driver, local, history
    <2>4. CASE KnownConnected
      BY <1>0, <2>4, SameEvents DEF KnownConnected, Finish, PathInv, PathAt, Ahead,
             Goto, At, shared, driver, local, history
    <2>5. CASE StartConsole
      BY <1>0, <2>5, SameEvents DEF StartConsole, PathInv, PathAt, Ahead, Goto, At,
             shared, driver, local, history
    <2>6. CASE Poll
      BY <1>0, <2>6, SameEvents DEF Poll, PathInv, PathAt, Ahead, Goto, At, shared,
             driver, local, history
    <2> QED
      BY <1>4, <2>1, <2>2, <2>3, <2>4, <2>5, <2>6 DEF Main
  <1>5. CASE User
    <2>1. CASE \E n \in Networks : WebSelect(n)
      <3> PICK n \in Networks : WebSelect(n)
        BY <2>1
      <3> QED
        BY <1>0, SameEvents DEF WebSelect, PathInv, PathAt, Ahead, Goto, shared,
               driver, local, history
    <2>2. CASE \E p \in Passwords : WebConnect(p)
      <3> PICK p \in Passwords : WebConnect(p)
        BY <2>2
      <3> QED
        BY <1>0, SameEvents DEF WebConnect, PathInv, PathAt, Ahead, Goto, shared,
               driver, local, history
    <2>3. CASE \E n \in Networks : ConsoleSelect(n)
      <3> PICK n \in Networks : ConsoleSelect(n)
        BY <2>3
      <3> QED
        BY <1>0, SameEvents DEF ConsoleSelect, PathInv, PathAt, Ahead, Goto, shared,
               driver, local, history
    <2>4. CASE \E p \in Passwords : ConsoleEnter(p)
      <3> PICK p \in Passwords : ConsoleEnter(p)
        BY <2>4
      <3> QED
        BY <1>0, SameEvents DEF ConsoleEnter, PathInv, PathAt, Ahead, Goto, shared,
               driver, local, history
    <2>5. CASE ConsoleKnown \/ ConsoleRescan \/ ConsoleExit
      BY <1>0, <2>5, SameEvents DEF ConsoleKnown, ConsoleRescan, ConsoleExit,
             MayBegin, PathInv, PathAt, Ahead, Goto, At, shared, driver, local,
             history
    <2> QED
      BY <1>5, <2>1, <2>2, <2>3, <2>4, <2>5 DEF User
  <1>6. CASE Web
    <2>1. CASE WebConnected
      BY <1>0, <2>1, SameEvents DEF WebConnected, PathInv, PathAt, Ahead, Goto, At,
             shared, driver, local, history
    <2>2. CASE WebSave
      BY <1>0, <2>2, SameEvents DEF WebSave, Finish, PathInv, PathAt, Ahead, Goto,
             At, shared, driver, local, history
    <2>3. CASE WebFailed
      BY <1>0, <2>3, SameEvents DEF WebFailed, Finish, PathInv, PathAt, Ahead, Goto,
             At, shared, driver, local, history
    <2> QED
      BY <1>6, <2>1, <2>2, <2>3 DEF Web
  <1>7. CASE Console
    <2>1. CASE ConsoleConnected
      BY <1>0, <2>1, SameEvents DEF ConsoleConnected, PathInv, PathAt, Ahead, Goto,
             At, shared, driver, local, history
    <2>2. CASE ConsoleOnline
      BY <1>0, <2>2, SameEvents DEF ConsoleOnline, Finish, PathInv, PathAt, Ahead,
             Goto, At, shared, driver, local, history
    <2>3. CASE ConsoleFailed
      BY <1>0, <2>3, SameEvents DEF ConsoleFailed, Finish, PathInv, PathAt, Ahead,
             Goto, At, shared, driver, local, history
    <2> QED
      BY <1>7, <2>1, <2>2, <2>3 DEF Console
  <1>8. CASE UNCHANGED vars
    BY <1>0, <1>8, SameEvents DEF vars, shared, driver, loop, local, history,
           PathInv, PathAt, Ahead, Goto, At
  <1> QED
    BY <1>1, <1>2, <1>3, <1>4, <1>5, <1>6, <1>7, <1>8 DEF Next

\* A connect knows an address is its own only if its credentials worked.
LEMMA ProvedStep ==
  ASSUME TypeOK, LocalInv, ProvedInv, [Next]_vars
  PROVE  ProvedInv'
  <1>0. /\ pc \in [Tasks -> Labels] /\ arg \in [Tasks -> Entry \cup {None}]
        /\ joined \in [Tasks -> BOOLEAN] /\ None \notin Valid
        /\ "main" \in Tasks /\ "web" \in Tasks /\ "console" \in Tasks
    BY ConnectAssumption DEF TypeOK, TaskType, HistoryType, Tasks
  <1>1. CASE \E t \in Tasks : Connect(t)
    <2> PICK t \in Tasks : Connect(t)
      BY <1>1
    <2>1. CASE Store(t) \/ Disconnect(t) \/ SetConfig(t) \/ ClearFlag(t)
              \/ ClearBit(t) \/ Dial(t) \/ DriverError(t) \/ Await(t) \/ Timeout(t)
      BY <1>0, <2>1 DEF Store, Disconnect, SetConfig, ClearFlag, ClearBit, Dial,
             DriverError, Await, Timeout, ProvedInv, local, history
    <2> QED
      BY <1>1, <2>1 DEF Connect
  <1>2. CASE Handler
    BY <1>0, <1>2 DEF Handler, HandleFlag, HandleBit, ProvedInv, local, history
  <1>3. CASE Associate \/ Drop
    BY <1>0, <1>3 DEF Associate, Drop, ProvedInv, local, history
  <1>4. CASE Main
    BY <1>0, <1>4 DEF Main, TryKnown, SkipKnown, KnownFailed, KnownConnected,
           StartConsole, Poll, Finish, ProvedInv, local, history
  <1>5. CASE User
    <2>1. CASE \E n \in Networks : WebSelect(n)
      <3> PICK n \in Networks : WebSelect(n)
        BY <2>1
      <3> QED
        BY DEF WebSelect, ProvedInv, local, history
    <2>2. CASE \E p \in Passwords : WebConnect(p)
      <3> PICK p \in Passwords : WebConnect(p)
        BY <2>2
      <3>1. ~joined["web"]
        BY <1>0 DEF WebConnect, At, LocalInv, Busy, Resting
      <3>2. /\ UNCHANGED <<joined, proved>>
            /\ \A t \in Tasks \ {"web"} : arg'[t] = arg[t]
        BY <1>0 DEF WebConnect, history
      <3> QED
        BY <3>1, <3>2 DEF ProvedInv
    <2>3. CASE \E n \in Networks : ConsoleSelect(n)
      <3> PICK n \in Networks : ConsoleSelect(n)
        BY <2>3
      <3> QED
        BY DEF ConsoleSelect, ProvedInv, local, history
    <2>4. CASE \E p \in Passwords : ConsoleEnter(p)
      <3> PICK p \in Passwords : ConsoleEnter(p)
        BY <2>4
      <3>1. ~joined["console"]
        BY <1>0 DEF ConsoleEnter, At, LocalInv, Busy, Resting
      <3>2. /\ UNCHANGED <<joined, proved>>
            /\ \A t \in Tasks \ {"console"} : arg'[t] = arg[t]
        BY <1>0 DEF ConsoleEnter, history
      <3> QED
        BY <3>1, <3>2 DEF ProvedInv
    <2>5. CASE ConsoleKnown \/ ConsoleRescan \/ ConsoleExit
      BY <1>0, <2>5 DEF ConsoleKnown, ConsoleRescan, ConsoleExit, MayBegin,
             ProvedInv, local, history
    <2> QED
      BY <1>5, <2>1, <2>2, <2>3, <2>4, <2>5 DEF User
  <1>6. CASE Web
    BY <1>0, <1>6 DEF Web, WebConnected, WebSave, WebFailed, Finish, ProvedInv,
           local, history
  <1>7. CASE Console
    BY <1>0, <1>7 DEF Console, ConsoleConnected, ConsoleOnline, ConsoleFailed,
           Finish, ProvedInv, local, history
  <1>8. CASE UNCHANGED vars
    BY <1>0, <1>8 DEF vars, shared, driver, loop, local, history, ProvedInv
  <1> QED
    BY <1>1, <1>2, <1>3, <1>4, <1>5, <1>6, <1>7, <1>8 DEF Next

\* A save stores the credentials of a connect that was told so.
LEMMA SavedStep ==
  ASSUME TypeOK, ArgInv, PathInv, ProvedInv, SavedWereConnected, [Next]_vars
  PROVE  SavedWereConnected'
  <1>0. saved \in Lists
    BY DEF TypeOK, SharedType
  <1>1. CASE \E t \in Tasks : Connect(t)
    <2> PICK t \in Tasks : Connect(t)
      BY <1>1
    <2>1. CASE Store(t) \/ Disconnect(t) \/ SetConfig(t) \/ ClearFlag(t)
              \/ ClearBit(t) \/ Dial(t) \/ DriverError(t) \/ Await(t) \/ Timeout(t)
      BY <1>0, <2>1 DEF Store, Disconnect, SetConfig, ClearFlag, ClearBit, Dial,
             DriverError, Await, Timeout, SavedWereConnected, shared, history
    <2> QED
      BY <1>1, <2>1 DEF Connect
  <1>2. CASE Handler
    BY <1>0, <1>2 DEF Handler, HandleFlag, HandleBit, SavedWereConnected, shared,
           history
  <1>3. CASE Associate \/ Drop
    <2>1. CASE Associate
      <3>1. UNCHANGED saved /\ proved \subseteq proved'
        BY <2>1 DEF Associate, shared
      <3> QED
        BY <3>1 DEF SavedWereConnected
    <2>2. CASE Drop
      BY <1>0, <2>2 DEF Drop, SavedWereConnected, shared, history
    <2> QED
      BY <1>3, <2>1, <2>2
  <1>4. CASE Main
    <2>1. CASE TryKnown \/ SkipKnown \/ KnownFailed \/ StartConsole \/ Poll
      BY <1>0, <2>1 DEF TryKnown, SkipKnown, KnownFailed, StartConsole, Poll,
             SavedWereConnected, shared, history
    <2>2. CASE KnownConnected
      <3>0. UNCHANGED proved
        BY <2>2 DEF KnownConnected
      <3>1. CASE UNCHANGED saved
        BY <3>0, <3>1 DEF SavedWereConnected
      <3>2. CASE Saved
        <4>1. pc["main"] = "ok" /\ "main" \in Tasks
          BY <2>2 DEF KnownConnected, At, Tasks
        <4>2. /\ arg["main"] \in proved /\ arg["main"] \in Entry
              /\ selected = arg["main"].ssid /\ password = arg["main"].password
          BY <4>1 DEF ProvedInv, PathInv, PathAt, ArgInv, Dialled
        <4>3. [ssid |-> selected, password |-> password] = arg["main"]
          BY <4>2 DEF Entry
        <4> QED
          BY <1>0, <3>0, <3>2, <4>2, <4>3, MovedToFront DEF Saved, SavedWereConnected
      <3> QED
        BY <3>1, <3>2, <2>2 DEF KnownConnected
    <2> QED
      BY <1>4, <2>1, <2>2 DEF Main
  <1>5. CASE User
    <2>1. CASE \E n \in Networks : WebSelect(n)
      <3> PICK n \in Networks : WebSelect(n)
        BY <2>1
      <3> QED
        BY DEF WebSelect, SavedWereConnected, shared, history
    <2>2. CASE \E p \in Passwords : WebConnect(p)
      <3> PICK p \in Passwords : WebConnect(p)
        BY <2>2
      <3> QED
        BY DEF WebConnect, SavedWereConnected, shared, history
    <2>3. CASE \E n \in Networks : ConsoleSelect(n)
      <3> PICK n \in Networks : ConsoleSelect(n)
        BY <2>3
      <3> QED
        BY DEF ConsoleSelect, SavedWereConnected, shared, history
    <2>4. CASE \E p \in Passwords : ConsoleEnter(p)
      <3> PICK p \in Passwords : ConsoleEnter(p)
        BY <2>4
      <3> QED
        BY DEF ConsoleEnter, SavedWereConnected, shared, history
    <2>5. CASE ConsoleKnown \/ ConsoleRescan \/ ConsoleExit
      BY <1>0, <2>5 DEF ConsoleKnown, ConsoleRescan, ConsoleExit, MayBegin,
             SavedWereConnected, shared, history
    <2> QED
      BY <1>5, <2>1, <2>2, <2>3, <2>4, <2>5 DEF User
  <1>6. CASE Web
    <2>1. CASE WebConnected \/ WebFailed
      BY <1>0, <2>1 DEF WebConnected, WebFailed, SavedWereConnected, shared, history
    <2>2. CASE WebSave
      <3>0. UNCHANGED proved
        BY <2>2 DEF WebSave
      <3>1. CASE UNCHANGED saved
        BY <3>0, <3>1 DEF SavedWereConnected
      <3>2. CASE Saved
        <4>1. pc["web"] = "save" /\ "web" \in Tasks
          BY <2>2 DEF WebSave, At, Tasks
        <4>2. /\ arg["web"] \in proved /\ arg["web"] \in Entry
              /\ selected = arg["web"].ssid /\ password = arg["web"].password
          BY <4>1 DEF ProvedInv, PathInv, PathAt, ArgInv, Dialled
        <4>3. [ssid |-> selected, password |-> password] = arg["web"]
          BY <4>2 DEF Entry
        <4> QED
          BY <1>0, <3>0, <3>2, <4>2, <4>3, MovedToFront DEF Saved, SavedWereConnected
      <3> QED
        BY <3>1, <3>2, <2>2 DEF WebSave
    <2> QED
      BY <1>6, <2>1, <2>2 DEF Web
  <1>7. CASE Console
    <2>1. CASE ConsoleConnected \/ ConsoleFailed
      BY <1>0, <2>1 DEF ConsoleConnected, ConsoleFailed, SavedWereConnected, shared,
             history
    <2>2. CASE ConsoleOnline
      <3>0. UNCHANGED proved
        BY <2>2 DEF ConsoleOnline
      <3>1. CASE UNCHANGED saved
        BY <3>0, <3>1 DEF SavedWereConnected
      <3>2. CASE Saved
        <4>1. pc["console"] = "internet" /\ "console" \in Tasks
          BY <2>2 DEF ConsoleOnline, At, Tasks
        <4>2. /\ arg["console"] \in proved /\ arg["console"] \in Entry
              /\ selected = arg["console"].ssid /\ password = arg["console"].password
          BY <4>1 DEF ProvedInv, PathInv, PathAt, ArgInv, Dialled
        <4>3. [ssid |-> selected, password |-> password] = arg["console"]
          BY <4>2 DEF Entry
        <4> QED
          BY <1>0, <3>0, <3>2, <4>2, <4>3, MovedToFront DEF Saved, SavedWereConnected
      <3> QED
        BY <3>1, <3>2, <2>2 DEF ConsoleOnline
    <2> QED
      BY <1>7, <2>1, <2>2 DEF Console
  <1>8. CASE UNCHANGED vars
    BY <1>0, <1>8 DEF vars, shared, driver, loop, local, history, SavedWereConnected
  <1> QED
    BY <1>1, <1>2, <1>3, <1>4, <1>5, <1>6, <1>7, <1>8 DEF Next

-----------------------------------------------------------------------------

\* IInv is inductive: every action, and a stutter, keeps each of its parts.
LEMMA InvStep ==
  ASSUME Overlap = FALSE, IInv, [Next]_vars
  PROVE  IInv'
  <1>1. TypeOK /\ BusyInv /\ LocalInv /\ StoreInv /\ ArgInv /\ IdleInv /\ LinkInv
    BY DEF IInv
  <1>2. TypeOK'
    BY <1>1, SharedStep, DriverStep, TaskStep, HistoryStep DEF TypeOK
  <1>3. BusyInv' /\ LocalInv' /\ StoreInv' /\ ArgInv'
    BY <1>1, BusyStep, LocalStep, StoreStep, ArgStep
  <1>4. IdleInv' /\ LinkInv'
    BY <1>1, IdleStep, LinkStep
  <1> QED
    BY <1>2, <1>3, <1>4 DEF IInv

\* The boot starts in IInv.
LEMMA InvInit ==
  ASSUME Init
  PROVE  IInv
  <1> USE ConnectAssumption
  <1>1. TypeOK
    <2>1. saved \in Lists /\ proved \subseteq Entry
      BY ListIsSeq DEF Init
    <2>2. events \in Seq(EventNames) /\ Len(events) = 0 /\ events = <<>>
      BY EmptySeq DEF Init
    <2>3. SharedType
      BY <2>1 DEF Init, SharedType
    <2>4. DriverType
      <3>1. /\ config = None /\ link = "idle" /\ on = None /\ kept = FALSE
            /\ handling = "none" /\ 0 <= MaxEvents
        BY DEF Init
      <3> QED
        BY <2>2, <3>1 DEF DriverType, EventNames
    <2>5. pc \in [Tasks -> Labels]
      <3>1. pc = [t \in Tasks |-> pc[t]]
        BY DEF Init, Tasks
      <3>2. pc["main"] = "auto" /\ pc["web"] = "idle" /\ pc["console"] = "off"
        BY DEF Init
      <3>3. \A t \in Tasks : pc[t] \in Labels
        BY <3>2 DEF Tasks, Labels
      <3> QED
        BY <3>1, <3>3
    <2>6. TaskType
      BY <2>5 DEF Init, TaskType
    <2>7. HistoryType
      BY <2>1 DEF Init, HistoryType
    <2> QED
      BY <2>3, <2>4, <2>6, <2>7 DEF TypeOK
  <1>2. pc["main"] = "auto" /\ pc["web"] = "idle" /\ pc["console"] = "off"
    BY DEF Init
  <1>3. BusyInv
    BY <1>2 DEF BusyInv, Busy, Resting, Tasks
  <1>4. LocalInv
    BY DEF Init, LocalInv
  <1>5. StoreInv
    BY <1>2 DEF StoreInv
  <1>6. ArgInv /\ IdleInv
    BY <1>2 DEF ArgInv, IdleInv, Dialled, Ahead, Tasks
  <1>7. LinkInv
    BY DEF Init, LinkInv
  <1> QED
    BY <1>1, <1>3, <1>4, <1>5, <1>6, <1>7 DEF IInv

\* Without overlap IInv holds for good.
LEMMA Correct ==
  ASSUME Overlap = FALSE
  PROVE  Spec => []IInv
  <1>1. Init => IInv
    BY InvInit
  <1>2. IInv /\ [Next]_vars => IInv'
    BY InvStep
  <1> QED
    BY <1>1, <1>2, PTL DEF Spec

\* Every variable of WifiConnect keeps its type: the queue of events its bound,
\* the saved list its length, and what is stored or passed on are credentials.
THEOREM TypeCorrect ==
  ASSUME Overlap = FALSE
  PROVE  Spec => []TypeOK
  <1>1. IInv => TypeOK
    BY DEF IInv
  <1> QED
    BY <1>1, Correct, PTL

\* wifi_connected says whether the station is up whenever every event has been
\* handled, however late events are handled and whatever they race with, but for
\* a link that a refused esp_wifi_disconnect has left up.
THEOREM FlagMatches ==
  ASSUME Overlap = FALSE
  PROVE  Spec => []FlagMatchesLink
  <1>1. IInv => FlagMatchesLink
    BY DEF IInv, LinkInv, FlagMatchesLink, Drained
  <1> QED
    BY <1>1, Correct, PTL

\* What holds besides IInv while events are handled promptly.
PromptInv == PathInv /\ ProvedInv /\ SavedWereConnected

\* With prompt events PromptInv, too, is kept by every step.
LEMMA PromptCorrect ==
  ASSUME Overlap = FALSE, Prompt = TRUE
  PROVE  Spec => []PromptInv
  <1>1. Init => PromptInv
    <2> SUFFICES ASSUME Init PROVE PromptInv
      OBVIOUS
    <2>1. PathInv
      <3>1. pc["main"] = "auto" /\ pc["web"] = "idle" /\ pc["console"] = "off"
        BY DEF Init
      <3> QED
        BY <3>1 DEF PathInv, PathAt, Ahead, Tasks
    <2>2. ProvedInv /\ SavedWereConnected
      BY DEF Init, ProvedInv, SavedWereConnected
    <2> QED
      BY <2>1, <2>2 DEF PromptInv
  <1>2. IInv /\ PromptInv /\ [Next]_vars => PromptInv'
    <2> SUFFICES ASSUME IInv, PromptInv, [Next]_vars PROVE PromptInv'
      OBVIOUS
    <2>1. TypeOK /\ BusyInv /\ LocalInv /\ ArgInv /\ IdleInv
      BY DEF IInv
    <2>2. PathInv /\ ProvedInv /\ SavedWereConnected
      BY DEF PromptInv
    <2> QED
      BY <2>1, <2>2, PathStep, ProvedStep, SavedStep DEF PromptInv
  <1> QED
    BY <1>1, <1>2, Correct, PTL DEF Spec

\* When wifi_manager_connect returns ESP_OK the station has come up with the
\* credentials of this call, if events are handled promptly.
THEOREM OkIsOwn ==
  ASSUME Overlap = FALSE, Prompt = TRUE
  PROVE  Spec => []OkMeansConnected
  <1>1. PromptInv => OkMeansConnected
    BY DEF PromptInv, PathInv, PathAt, OkMeansConnected
  <1> QED
    BY <1>1, PromptCorrect, PTL

\* Every saved name and password have been used together, with success, if
\* events are handled promptly.
THEOREM SavedHaveWorked ==
  ASSUME Overlap = FALSE, Prompt = TRUE
  PROVE  Spec => []SavedWereConnected
  <1>1. PromptInv => SavedWereConnected
    BY DEF PromptInv
  <1> QED
    BY <1>1, PromptCorrect, PTL

=============================================================================
