--------------------------- MODULE WebsocketClient ---------------------------
(***************************************************************************)
(* esp_websocket_client.c, the client the device keeps its connection with:*)
(* the loop task that connects, pings, reads and reconnects; the threads   *)
(* that send messages; the owner, which starts, stops, closes and destroys *)
(* it; and the connection with the server at its other end.                *)
(*                                                                         *)
(* The recursive lock is held while the loop handles a state and while a   *)
(* message is sent.  The loop polls without it, and so may find the        *)
(* connection closed under it; state, run and the two status bits are also *)
(* written without it.                                                     *)
(***************************************************************************)
EXTENDS Naturals, Integers, Sequences

CONSTANTS Senders,       \* the threads that send messages
          Owner,         \* the thread that starts and stops the client
          Ops,           \* the calls the owner makes
          Fragments,     \* tx buffers a message fills
          PingInterval, PongTimeout, WaitTimeout,  \* in clock ticks
          Reconnects,    \* what config->auto_reconnect may be
          CloseTimesOut, \* close is given a timeout that can end
          CutFrames,     \* a frame may arrive in two parts
          Prompt,        \* the loop task ends before its stopper goes on
          Careful,       \* start and destroy only follow a successful stop
          MaxConns,      \* bound: connections the histories tell apart
          MaxTasks,      \* bound: loop tasks at a time
          MaxInbox       \* bound: frames the server is ahead

None == 0                \* no thread: the loop tasks are 1 .. MaxTasks

Tasks   == 1 .. MaxTasks
Writers == Senders \union {Owner}
Threads == Tasks \union Writers

ASSUME ClientAssumption ==
    /\ Fragments \in Nat \ {0} /\ MaxConns \in Nat \ {0}
    /\ MaxTasks \in Nat \ {0} /\ MaxInbox \in Nat \ {0}
    /\ PingInterval \in Nat /\ PongTimeout \in Nat /\ WaitTimeout \in Nat
    /\ {CloseTimesOut, CutFrames, Prompt, Careful} \subseteq BOOLEAN
    /\ Reconnects \subseteq BOOLEAN
    /\ Ops \subseteq {"start", "stop", "close", "destroy"}
    /\ Owner \notin Senders
    /\ Writers \intersect Nat = {}

VARIABLES autoReconnect, \* config->auto_reconnect
          state, run, reconnectAge,
          flag,         \* ws_connected of the application's event handler
          bits,         \* status_bits: "STOPPED" and "CLOSE_SENT"
          lock,         \* the thread that holds the lock, or None
          pc,           \* where each thread is
          left,         \* the frames the holder of the lock has left to send
          readSelect,   \* what the last poll returned
          polled,       \* history: the connection that poll was about
          pingAge, waitPong, pongAge,
          pinged,       \* history: the connection of the ping waited for
          link,         \* the connection: "none", "up", "closing" (the server
                        \* has sent CLOSE), "silent" (nothing arrives) or
                        \* "gone" (the server has dropped it)
          opened,       \* the last connection, numbered 1 .. MaxConns in turn
          inbox,        \* what the server has sent and the loop has not read
          owesPong,     \* the server has a ping to answer
          unfinished,   \* the writer whose message the server is assembling
          garbled,      \* history: frames of two messages were mixed
          settled,      \* the owner has seen the last loop task stop
          freed         \* destroy_and_free_resources has run

status == <<state, run, reconnectAge, flag>>
loop   == <<readSelect, polled>>
ping   == <<pingAge, waitPong, pongAge, pinged>>
server == <<link, opened, inbox, owesPong, unfinished, garbled>>
life   == <<settled, freed>>
client == <<status, bits, loop, ping, server>>
vars   == <<autoReconnect, status, bits, lock, pc, left, loop, ping, server, life>>

\* Where a task still has the client's memory in use.
InLoop == {"begin", "check", "lock", "work", "read", "after", "poll",
           "pollerr", "closed", "finish", "stopbit", "last"}
Places == InLoop \union {"none", "idle", "locking", "sending", "aborting",
                         "startclear", "stopwait", "closebit", "closewait",
                         "stopfree", "freewait"}

FlagsType == /\ autoReconnect \in BOOLEAN /\ run \in BOOLEAN
             /\ flag \in BOOLEAN /\ waitPong \in BOOLEAN
             /\ owesPong \in BOOLEAN /\ garbled \in BOOLEAN
             /\ settled \in BOOLEAN /\ freed \in BOOLEAN

ThreadsType == /\ bits \subseteq {"STOPPED", "CLOSE_SENT"}
               /\ lock \in Threads \union {None}
               /\ pc \in [Threads -> Places]
               /\ left \in 0 .. Fragments

ClockType == /\ state \in {"UNKNOW", "INIT", "CONNECTED", "WAIT_TIMEOUT",
                           "CLOSING"}
             /\ reconnectAge \in 0 .. WaitTimeout + 1
             /\ pingAge \in 0 .. PingInterval + 1
             /\ pongAge \in 0 .. PongTimeout + 1

ServerType == /\ link \in {"none", "up", "closing", "silent", "gone"}
              /\ opened \in 1 .. MaxConns /\ pinged \in 1 .. MaxConns
              /\ readSelect \in {-1, 0, 1} /\ polled \in 1 .. MaxConns
              /\ inbox \in Seq({"DATA", "CUT", "PONG", "CLOSE"})
              /\ unfinished \in Writers \union {None}

TypeOK == FlagsType /\ ThreadsType /\ ClockType /\ ServerType

Init == /\ autoReconnect \in Reconnects
        /\ state = "UNKNOW" /\ run = FALSE /\ bits = {}
        /\ lock = None /\ left = 0
        /\ pc = [x \in Threads |-> IF x \in Tasks THEN "none" ELSE "idle"]
        /\ readSelect = 0 /\ polled = 1
        /\ waitPong = FALSE /\ pingAge = 0 /\ pongAge = 0 /\ pinged = 1
        /\ reconnectAge = 0 /\ flag = FALSE
        /\ link = "none" /\ opened = 1 /\ inbox = <<>> /\ owesPong = FALSE
        /\ unfinished = None /\ garbled = FALSE
        /\ settled = TRUE /\ freed = FALSE

-----------------------------------------------------------------------------
(* What several threads do. *)

Goto(x, place) == pc' = [pc EXCEPT ![x] = place]

\* esp_websocket_client_is_connected
IsConnected == state = "CONNECTED"

\* esp_transport_close: what was on the connection is lost.
TransportClose == /\ link' = "none" /\ inbox' = <<>> /\ owesPong' = FALSE
                  /\ unfinished' = None
                  /\ UNCHANGED <<opened, garbled>>

\* A raw control frame; the callers ignore whether it could be written.  A
\* CLOSE asks for what the server may do at any time.
SendControl(frame) ==
    /\ owesPong' = (owesPong \/ (frame = "PING" /\ link = "up"))
    /\ UNCHANGED <<link, opened, inbox, unfinished, garbled>>

\* websocket_event_handler, which both events that it tells apart reach in
\* the thread that dispatches them.
HandleEvent(event) == flag' = (event = "CONNECTED")

\* Mutant: without reconnection the client is only marked as ended.
MarkLost == /\ state' = IF autoReconnect THEN "WAIT_TIMEOUT" ELSE "UNKNOW"
            /\ reconnectAge' = IF autoReconnect THEN 0 ELSE reconnectAge
            /\ UNCHANGED run

\* How the client goes on without the connection it has closed ...
ConnectionLost ==
    /\ state' = IF autoReconnect THEN "WAIT_TIMEOUT" ELSE "UNKNOW"
    /\ reconnectAge' = IF autoReconnect THEN 0 ELSE reconnectAge
    /\ run' = (run /\ autoReconnect)

\* Mutant: the handler is not told.
QuietDisconnect == ConnectionLost /\ UNCHANGED flag

\* ... and the DISCONNECTED event: the second half of
\* esp_websocket_client_abort_connection.
Disconnect == ConnectionLost /\ HandleEvent("DISCONNECTED")

\* esp_websocket_client_abort_connection; it does nothing to a client that
\* is not started.
AbortConnection == \/ state # "UNKNOW" /\ TransportClose /\ Disconnect
                   \/ state = "UNKNOW" /\ UNCHANGED <<status, server>>

-----------------------------------------------------------------------------
(* The loop task, esp_websocket_client_task. *)

Step(t, from, to) == pc[t] = from /\ Goto(t, to) /\ UNCHANGED lock

Begin(t) == /\ Step(t, "begin", "check")
            /\ run' = TRUE /\ state' = "INIT" /\ bits' = {}
            /\ readSelect' = 0
            /\ UNCHANGED <<reconnectAge, flag, polled, ping, server>>

\* while (client->run)
Check(t) == /\ Step(t, "check", IF run THEN "lock" ELSE "finish")
            /\ UNCHANGED client

TakeLock(t) == /\ pc[t] = "lock" /\ lock = None
               /\ lock' = t /\ Goto(t, "work") /\ UNCHANGED client

\* The switch: what is done in a state, with the lock, which is then given
\* back.
Work(t, s) == pc[t] = "work" /\ state = s
EndWork(t) == lock' = None /\ Goto(t, "after")

\* Mutant: a pong the last connection still owed is waited for on this one.
KeepPong == UNCHANGED waitPong

ForgetPong == waitPong' = FALSE

\* INIT: connected, and the CONNECTED event.
Connect(t) == /\ Work(t, "INIT")
              /\ state' = "CONNECTED" /\ HandleEvent("CONNECTED")
              /\ ForgetPong
              /\ link' = "up" /\ inbox' = <<>>
              /\ opened' = IF opened = MaxConns THEN 1 ELSE opened + 1
              /\ owesPong' = FALSE /\ unfinished' = None
              /\ EndWork(t)
              /\ UNCHANGED <<run, reconnectAge, bits, loop, pingAge, pongAge,
                             pinged, garbled>>

ConnectFails(t) == /\ Work(t, "INIT") /\ AbortConnection /\ EndWork(t)
                   /\ UNCHANGED <<bits, loop, ping>>

\* Mutant: every ping puts the wait for its pong off.
EveryPing == pingAge > PingInterval

\* The pong is waited for from the first ping that lacks one.
FirstPing == pingAge > PingInterval /\ ~waitPong

\* CONNECTED, first half: a ping when the connection has been idle ...
Ping(t) == /\ Work(t, "CONNECTED") /\ "CLOSE_SENT" \notin bits
           /\ IF pingAge > PingInterval THEN pingAge' = 0 /\ SendControl("PING")
                                        ELSE UNCHANGED <<pingAge, server>>
           /\ IF FirstPing
                 THEN waitPong' = TRUE /\ pongAge' = 0 /\ pinged' = opened
                 ELSE UNCHANGED <<waitPong, pongAge, pinged>>
           /\ ~(waitPong' /\ pongAge' > PongTimeout)
           /\ Step(t, "work", "read")
           /\ UNCHANGED <<status, bits, loop>>

\* ... no pong in time ...
PongTimesOut(t) == /\ Work(t, "CONNECTED") /\ "CLOSE_SENT" \notin bits
                   /\ waitPong /\ pongAge > PongTimeout
                   /\ pingAge' = IF pingAge > PingInterval THEN 0 ELSE pingAge
                   /\ AbortConnection /\ EndWork(t)
                   /\ UNCHANGED <<bits, loop, waitPong, pongAge, pinged>>

\* ... and nothing of this once a CLOSE frame has been sent.
NoPing(t) == /\ Work(t, "CONNECTED") /\ "CLOSE_SENT" \in bits
             /\ Step(t, "work", "read") /\ UNCHANGED client

\* Second half: nothing to read ...
SkipRead(t) == /\ pc[t] = "read" /\ readSelect = 0
               /\ EndWork(t) /\ UNCHANGED client

\* ... or esp_websocket_client_recv of one whole message.  Of a frame that
\* is cut the loop waits for the rest: a read that times out is tried again.
Recv(t) ==
    /\ pc[t] = "read" /\ readSelect # 0
    /\ link # "none" /\ inbox # <<>> /\ Head(inbox) # "CUT"
    /\ pingAge' = 0
    /\ inbox' = Tail(inbox)
    /\ state' = IF Head(inbox) = "CLOSE" THEN "CLOSING" ELSE state
    /\ waitPong' = (waitPong /\ Head(inbox) # "PONG")
    /\ EndWork(t)
    /\ UNCHANGED <<run, reconnectAge, flag, bits, loop, pongAge, pinged, link,
                   opened, owesPong, unfinished, garbled>>

RecvFails(t) == /\ pc[t] = "read" /\ readSelect # 0
                /\ link \in {"none", "gone"}
                /\ pingAge' = 0
                /\ AbortConnection /\ EndWork(t)
                /\ UNCHANGED <<bits, loop, waitPong, pongAge, pinged>>

\* Mutant: the wait starts again with every look at it.
RestartedWait(t) ==
    /\ Work(t, "WAIT_TIMEOUT")
    /\ state' = IF reconnectAge > WaitTimeout THEN "INIT" ELSE state
    /\ reconnectAge' = 0
    /\ EndWork(t) /\ UNCHANGED <<run, flag, bits, loop, ping, server>>

\* WAIT_TIMEOUT: the next attempt, when it is due.
Wait(t) == /\ Work(t, "WAIT_TIMEOUT")
           /\ IF reconnectAge > WaitTimeout
                 THEN state' = "INIT" /\ reconnectAge' = 0
                 ELSE UNCHANGED <<state, reconnectAge>>
           /\ EndWork(t)
           /\ UNCHANGED <<run, flag, bits, loop, ping, server>>

\* CLOSING: the server's CLOSE is answered.
Echo(t) == /\ Work(t, "CLOSING")
           /\ IF "CLOSE_SENT" \in bits THEN UNCHANGED server
                                       ELSE SendControl("CLOSE")
           /\ bits' = bits \union {"CLOSE_SENT"}
           /\ EndWork(t) /\ UNCHANGED <<status, loop, ping>>

\* Any other state.
Idle(t) == Work(t, "UNKNOW") /\ EndWork(t) /\ UNCHANGED client

ToClose == state = "CLOSING" /\ "CLOSE_SENT" \in bits

\* Mutant: a poll is saved while the last one found something to read.
ThriftyAfter(t) ==
    /\ Step(t, "after", IF IsConnected /\ readSelect # 1 THEN "poll"
                        ELSE IF ToClose THEN "closed" ELSE "check")
    /\ UNCHANGED client

\* After the switch, without the lock: what the loop waits for.
After(t) == /\ Step(t, "after", IF IsConnected THEN "poll"
                                ELSE IF ToClose THEN "closed" ELSE "check")
            /\ UNCHANGED client

\* esp_transport_poll_read: there is something to read when the server has
\* sent something or is gone, and an error when the connection is not there.
Poll(t) == /\ readSelect' \in {r \in {-1, 0, 1} :
                 /\ r = -1 => link \in {"none", "gone"}
                 /\ r = 0  => inbox = <<>> /\ link \notin {"none", "gone"}
                 /\ r = 1  => inbox # <<>> \/ link = "gone"}
           /\ polled' = opened
           /\ Step(t, "poll", IF readSelect' = -1 THEN "pollerr" ELSE "check")
           /\ UNCHANGED <<status, bits, ping, server>>

PollFailed(t) == /\ lock = None
                 /\ AbortConnection
                 /\ Step(t, "pollerr", "check")
                 /\ UNCHANGED <<bits, loop, ping>>

\* The wait for the server to close the connection is over, either way.
Closed(t) == /\ Step(t, "closed", "finish")
             /\ run' = FALSE /\ state' = "UNKNOW"
             /\ UNCHANGED <<reconnectAge, flag, bits, loop, ping, server>>

\* After the loop, without the lock: close, tell the owner, mark the end.
Finish(t) == /\ Step(t, "finish", "stopbit") /\ TransportClose
             /\ UNCHANGED <<status, bits, loop, ping>>

StopBit(t) == /\ Step(t, "stopbit", "last")
              /\ bits' = bits \union {"STOPPED"}
              /\ UNCHANGED <<status, loop, ping, server>>

Last(t) == /\ Step(t, "last", "none")
           /\ state' = "UNKNOW"
           /\ UNCHANGED <<run, reconnectAge, flag, bits, loop, ping, server>>

Task(t) ==
    /\ \/ Begin(t) \/ Check(t) \/ TakeLock(t) \/ Connect(t) \/ ConnectFails(t)
       \/ Ping(t) \/ PongTimesOut(t) \/ NoPing(t) \/ SkipRead(t) \/ Recv(t)
       \/ RecvFails(t) \/ Wait(t) \/ Echo(t) \/ Idle(t) \/ After(t) \/ Poll(t)
       \/ PollFailed(t) \/ Closed(t) \/ Finish(t) \/ StopBit(t) \/ Last(t)
    /\ UNCHANGED <<autoReconnect, left, life>>

-----------------------------------------------------------------------------
(* A message, esp_websocket_client_send_with_exact_opcode: sent by a sender *)
(* as data, and by close as the CLOSE frame.                                *)

\* The application keeps its senders from using a client it destroys.
Destroying == pc[Owner] \in {"stopfree", "freewait"} \/ freed

\* The connection is checked before the lock is taken.
Send(w) == /\ w \in Senders /\ pc[w] = "idle" /\ ~Destroying
           /\ IsConnected
           /\ Goto(w, "locking") /\ UNCHANGED <<lock, left, status, server>>

Frames(w) == IF w = Owner THEN 1 ELSE Fragments

LockToSend(w) == /\ pc[w] = "locking" /\ lock = None
                 /\ lock' = w /\ left' = Frames(w)
                 /\ Goto(w, "sending") /\ UNCHANGED <<status, server>>

\* The end of the call; close ignores the result.
Done(w) == Goto(w, IF w = Owner THEN "closebit" ELSE "idle")

\* The lock is not had within the call's timeout: nothing is sent.
LockTimesOut(w) == /\ pc[w] = "locking" /\ lock # None
                   /\ Done(w) /\ UNCHANGED <<lock, left, status, server>>

Unlock(w) == lock' = None /\ Done(w)

\* The server, which assembles messages until it closes, is given the first
\* frame of one within another, or a continuation without its beginning.
Mixes(w) ==
    link = "up" /\ unfinished # (IF left = Fragments THEN None ELSE w)

\* Mutant: the lock is given back after every frame of a message.
UnlockEach(w) == IF left > 1 THEN lock' = None /\ Goto(w, "locking")
                             ELSE Unlock(w)

\* The lock is given back after the last frame.
UnlockAtEnd(w) == IF left > 1 THEN UNCHANGED <<lock, pc>> ELSE Unlock(w)

\* One frame is written.
SendFrame(w) == /\ pc[w] = "sending" /\ link # "none"
                /\ left' = left - 1
                /\ IF w = Owner
                      THEN SendControl("CLOSE")
                      ELSE /\ unfinished' = IF left > 1 THEN w ELSE None
                           /\ garbled' = (garbled \/ Mixes(w))
                           /\ UNCHANGED <<link, opened, inbox, owesPong>>
                /\ UnlockAtEnd(w) /\ UNCHANGED status

\* A frame cannot be written: the connection is aborted, in two steps, since
\* state may be written between its check and its assignment.
SendFails(w) == /\ pc[w] = "sending" /\ link # "up"
                /\ left' = 0 /\ UNCHANGED status
                /\ IF state = "UNKNOW"
                      THEN Unlock(w) /\ UNCHANGED server
                      ELSE /\ TransportClose
                           /\ Goto(w, "aborting") /\ UNCHANGED lock

AbortEnds(w) == /\ pc[w] = "aborting" /\ Disconnect /\ Unlock(w)
                /\ UNCHANGED <<left, server>>

Write(w) == /\ \/ Send(w) \/ LockToSend(w) \/ LockTimesOut(w) \/ SendFrame(w)
               \/ SendFails(w) \/ AbortEnds(w)
            /\ UNCHANGED <<autoReconnect, bits, loop, ping, life>>

-----------------------------------------------------------------------------
(* The owner's calls. *)

At(place)   == pc[Owner] = place
Calls(op)   == op \in Ops /\ At("idle") /\ ~freed
Then(place) == Goto(Owner, place)

\* esp_websocket_client_start: a new transport and a new loop task ...
Start == /\ Calls("start") /\ state = "UNKNOW"
         /\ Careful => settled
         /\ TransportClose
         /\ settled' = FALSE
         /\ \E t \in Tasks :
              /\ pc[t] = "none" /\ \A u \in 1 .. t - 1 : pc[u] # "none"
              /\ pc' = [pc EXCEPT ![t] = "begin", ![Owner] = "startclear"]
         /\ UNCHANGED <<state, run, bits, freed>>

\* ... whose creation the bits are cleared after.
StartClear == /\ At("startclear") /\ Then("idle")
              /\ bits' = {} /\ UNCHANGED <<state, run, server, life>>

\* Mutant: the loop task is not waited for.
TaskAsked == Prompt => \A t \in Tasks : pc[t] # "last"

\* The wait for the loop task to set its bit.
TaskStopped == /\ "STOPPED" \in bits
               /\ Prompt => \A t \in Tasks : pc[t] # "last"

\* esp_websocket_client_stop
Stop == /\ Calls("stop") /\ run /\ Then("stopwait")
        /\ run' = FALSE /\ UNCHANGED <<state, bits, server, life>>

StopReturns == /\ At("stopwait") /\ TaskStopped /\ Then("idle")
               /\ state' = "UNKNOW" /\ settled' = TRUE
               /\ UNCHANGED <<run, bits, server, freed>>

\* esp_websocket_client_close: the CLOSE frame is sent like a message ...
Close == /\ Calls("close") /\ run
         /\ Then(IF IsConnected THEN "locking" ELSE "closebit")
         /\ UNCHANGED <<state, run, bits, server, life>>

\* ... the bit says so, whether it could be sent or not ...
CloseBit == /\ At("closebit") /\ Then("closewait")
            /\ bits' = bits \union {"CLOSE_SENT"}
            /\ UNCHANGED <<state, run, server, life>>

\* ... and the loop task is waited for ...
CloseReturns == /\ At("closewait") /\ TaskStopped /\ Then("idle")
                /\ settled' = TRUE
                /\ UNCHANGED <<state, run, bits, server, freed>>

\* Mutant: the second wait, without a timeout, does not end the loop first.
PatientClose == /\ At("closewait") /\ CloseTimesOut /\ Then("stopwait")
                /\ UNCHANGED <<state, run, bits, server, life>>

\* ... or, after the timeout, stopped.
CloseGivesUp == /\ At("closewait") /\ CloseTimesOut /\ Then("stopwait")
                /\ run' = FALSE /\ UNCHANGED <<state, bits, server, life>>

\* esp_websocket_client_destroy: stops a client that runs, frees any other.
Destroy == /\ Calls("destroy") /\ (Careful => settled \/ run)
           /\ \A s \in Senders : pc[s] = "idle"
           /\ freed' = ~run /\ Then(IF run THEN "stopfree" ELSE "idle")
           /\ UNCHANGED <<state, run, bits, server, settled>>

\* The stop in it asks once more whether the client runs.
StopToFree == /\ At("stopfree")
              /\ freed' = ~run /\ Then(IF run THEN "freewait" ELSE "idle")
              /\ run' = FALSE
              /\ UNCHANGED <<state, bits, server, settled>>

FreeAfterStop == /\ At("freewait") /\ TaskStopped /\ Then("idle")
                 /\ state' = "UNKNOW" /\ settled' = TRUE /\ freed' = TRUE
                 /\ UNCHANGED <<run, bits, server>>

OwnerReturns == \/ StartClear \/ StopReturns \/ CloseBit \/ CloseReturns
                \/ StopToFree \/ FreeAfterStop

OwnerNext ==
    /\ Start \/ Stop \/ Close \/ CloseGivesUp \/ Destroy \/ OwnerReturns
    /\ UNCHANGED <<autoReconnect, reconnectAge, flag, lock, left, loop, ping>>

-----------------------------------------------------------------------------
(* The server, the network and the clock. *)

SendToClient(frame) == /\ link = "up" /\ Len(inbox) < MaxInbox
                       /\ inbox' = Append(inbox, frame)

\* Data, or a ping, which the loop answers on the spot.
ServerSends == /\ \E frame \in {"DATA"} \union
                              (IF CutFrames THEN {"CUT"} ELSE {}) :
                     SendToClient(frame)
               /\ UNCHANGED <<link, owesPong>>

ServerPongs == /\ owesPong /\ SendToClient("PONG")
               /\ owesPong' = FALSE /\ UNCHANGED link

\* The server closes, of its own accord or in answer to a CLOSE.
ServerClosing == /\ SendToClient("CLOSE")
                 /\ link' = "closing" /\ UNCHANGED owesPong

\* The rest of a frame arrives.
RestArrives == /\ inbox # <<>> /\ Head(inbox) = "CUT" /\ link = "up"
               /\ inbox' = [inbox EXCEPT ![1] = "DATA"]
               /\ UNCHANGED <<link, owesPong>>

\* Nothing arrives on this connection any more, or the server drops it.
LinkFails == /\ \/ link = "up" /\ link' = "silent"
                \/ link \in {"up", "closing", "silent"} /\ link' = "gone"
             /\ UNCHANGED <<inbox, owesPong>>

Environment == /\ \/ ServerSends \/ ServerPongs \/ ServerClosing
                  \/ RestArrives \/ LinkFails
               /\ UNCHANGED <<autoReconnect, status, bits, lock, pc, left, loop,
                              ping, life, opened, unfinished, garbled>>

Older(age, limit) == IF age > limit THEN age ELSE age + 1

\* _tick_get_ms moves on.  An age is only kept while something compares it
\* with its limit, and past that limit it need not be told from a greater one.
Tick == /\ pingAge' = Older(pingAge, PingInterval)
        /\ pongAge' = IF waitPong /\ IsConnected THEN Older(pongAge, PongTimeout)
                                               ELSE pongAge
        /\ reconnectAge' = IF state = "WAIT_TIMEOUT"
                              THEN Older(reconnectAge, WaitTimeout)
                              ELSE reconnectAge
        /\ UNCHANGED <<autoReconnect, state, run, flag, bits, lock, pc, left,
                       loop, waitPong, pinged, server, life>>

Next == \/ \E t \in Tasks : Task(t)
        \/ \E w \in Writers : Write(w)
        \/ OwnerNext
        \/ Environment
        \/ Tick

Spec == Init /\ [][Next]_vars

\* The threads are scheduled, the lock is given to one that waits for it,
\* time passes, and a write to a dead connection ends.
Fairness == /\ \A t \in Tasks :
                  /\ WF_vars(pc[t] # "none" /\ Task(t))
                  /\ SF_vars(pc[t] \in {"lock", "pollerr"} /\ Task(t))
            /\ \A w \in Writers :
                  /\ WF_vars(pc[w] \notin {"idle", "locking"} /\ Write(w))
                  /\ SF_vars(LockToSend(w) /\ Write(w))
            /\ WF_vars(~At("idle") /\ OwnerNext)
            /\ WF_vars(Tick)

FairSpec == Spec /\ Fairness

-----------------------------------------------------------------------------
(* Properties. *)

\* The frames of two messages are never mixed on a connection, whatever
\* threads send and however the connections change under them: the lock is
\* held over all frames of a message.
MessagesIntact == ~garbled

\* The loop only reads from the connection its last poll was about: a poll
\* made without the lock is never taken for one of the next connection.
ReadFresh == \A t \in Tasks :
    pc[t] = "read" /\ readSelect # 0 => polled = opened /\ link # "none"

\* A connected client waits for the pong of a ping it sent on this very
\* connection: a new connection is never aborted for a ping of an old one.
PongOfThisConnection == state = "CONNECTED" /\ waitPong => pinged = opened

\* The handler's flag follows the client: set while it is connected, cleared
\* while it waits to connect again, whichever thread lost the connection.
FlagFollows == lock = None => /\ state = "CONNECTED" => flag
                              /\ state = "WAIT_TIMEOUT" => ~flag

\* There is one loop task at a time.
OneLoopTask == \A t, u \in Tasks :
    pc[t] \in InLoop /\ pc[u] \in InLoop => t = u

\* A connection on which nothing arrives any more is given up, at the latest
\* when the pong is overdue, unless the client has sent a CLOSE frame: the bit
\* that says so, which outlives the connection, ends the pings.
DeadPeerNoticed ==
    link = "silent" ~> link # "silent" \/ "CLOSE_SENT" \in bits

\* A client that waits to reconnect tries again.
TriesAgain == state = "WAIT_TIMEOUT" /\ run ~> state = "INIT" \/ ~run

\* A client that does not reconnect ends its loop task once its connection
\* is lost, whichever thread finds that out.
LostMeansEnded == ~autoReconnect /\ link \in {"silent", "gone"}
                     ~> \A t \in Tasks : pc[t] \notin InLoop

\* stop, destroy, and close given a timeout return.
CallsReturn == pc[Owner] # "idle" ~> pc[Owner] = "idle"
=============================================================================
