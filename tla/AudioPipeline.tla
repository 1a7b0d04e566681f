--------------------------- MODULE AudioPipeline ---------------------------
(***************************************************************************)
(* The audio path: mic_task numbers blocks and sends them, the WebSocket   *)
(* client drops them while it has no connection, the server's handlers     *)
(* take them from the connections, AudioParser.parse puts each one into    *)
(* three bounded queues without waiting, and three consumers work them     *)
(* off.                                                                    *)
(*                                                                         *)
(* Handlers, parse and the consumers' work all run on the event loop's     *)
(* thread, one at a time; only the blocking Queue.get runs in a thread of  *)
(* its own (asyncio.to_thread).                                            *)
(***************************************************************************)
EXTENDS Naturals, Sequences

CONSTANTS Capacity,    \* Queue(maxsize=...)
          MaxPackets,  \* bound: blocks recorded
          MaxConns     \* bound: connections opened, one after the other

ASSUME PipelineAssumption == /\ Capacity \in Nat \ {0}
                             /\ MaxPackets \in Nat \ {0}
                             /\ MaxConns \in Nat \ {0}

\* The order in which parse fills the queues.
Puts == <<"player", "record", "stt">>

Consumers == {"player", "record", "stt"}

Conns == 1 .. MaxConns

VARIABLES sequence,   \* mic_task: the next sequence number
          mic,        \* mic_task: "read", "check" or "send"
          conn,       \* the client's connection, 0 when it has none
          opened,     \* how many connections there have been
          wire,       \* what is on its way on each connection
          received,   \* the packets in the order the server took them
          parsing,    \* the packet parse is busy with, by that order, or 0
          stage,      \* the next of its puts
          queue,      \* the three queues
          fetched,    \* what Queue.get has returned, not yet worked on, or 0
          recording,  \* recorder_task: has the file been started
          out,        \* history: what each consumer has worked off
          lost        \* history: what each consumer has missed

device  == <<sequence, mic>>
network == <<conn, opened, wire>>
parse   == <<parsing, stage>>
worked  == <<recording, out, lost>>
vars    == <<device, network, received, parse, queue, fetched, worked>>

-----------------------------------------------------------------------------

Init == /\ sequence = 0 /\ mic = "read"
        /\ conn = 0 /\ opened = 0 /\ wire = [k \in Conns |-> <<>>]
        /\ received = <<>>
        /\ parsing = 0 /\ stage = 1
        /\ queue = [c \in Consumers |-> <<>>]
        /\ fetched = [c \in Consumers |-> 0]
        /\ recording = FALSE
        /\ out = [c \in Consumers |-> <<>>]
        /\ lost = [c \in Consumers |-> {}]

LoopFree == parsing = 0

-----------------------------------------------------------------------------
(* the device                                                              *)

\* A whole block is numbered; a short one is dropped and changes nothing.
ReadBlock ==
    /\ mic = "read"
    /\ sequence < MaxPackets
    /\ sequence' = sequence + 1
    /\ mic' = "check"
    /\ UNCHANGED <<network, received, parse, queue, fetched, worked>>

\* websocket_send_audio gives the packet up when there is no connection.
CheckConnection ==
    /\ mic = "check"
    /\ mic' = IF conn = 0 THEN "read" ELSE "send"
    /\ UNCHANGED <<sequence, network, received, parse, queue, fetched, worked>>

\* The number of the packet being sent is one behind the next.
Send ==
    /\ mic = "send"
    /\ conn # 0
    /\ wire' = [wire EXCEPT ![conn] = Append(@, sequence - 1)]
    /\ mic' = "read"
    /\ UNCHANGED <<sequence, conn, opened, received, parse, queue, fetched, worked>>

\* esp_websocket_client_send_bin fails and the client aborts the connection;
\* the packet is not sent again.
SendFails ==
    /\ mic = "send"
    /\ conn' = 0
    /\ mic' = "read"
    /\ UNCHANGED <<sequence, opened, wire, received, parse, queue, fetched, worked>>

-----------------------------------------------------------------------------
(* the connections                                                         *)

Open == /\ conn = 0
        /\ opened < MaxConns
        /\ opened' = opened + 1
        /\ conn' = opened + 1
        /\ UNCHANGED <<device, wire, received, parse, queue, fetched, worked>>

Close == /\ conn # 0
         /\ conn' = 0
         /\ UNCHANGED <<device, opened, wire, received, parse, queue, fetched, worked>>

\* A closed connection loses the last of what it had not delivered.
LoseTail(k) ==
    /\ k # conn
    /\ wire[k] # <<>>
    /\ wire' = [wire EXCEPT ![k] = SubSeq(@, 1, Len(@) - 1)]
    /\ UNCHANGED <<device, conn, opened, received, parse, queue, fetched, worked>>

-----------------------------------------------------------------------------
(* the server                                                              *)

\* The handler of connection k takes a message and process and parse begin;
\* the packets mic_task builds pass every check of process.
Receive(k) ==
    /\ LoopFree
    /\ wire[k] # <<>>
    /\ received' = Append(received, [conn |-> k, number |-> Head(wire[k])])
    /\ wire' = [wire EXCEPT ![k] = Tail(@)]
    /\ parsing' = Len(received')
    /\ stage' = 1
    /\ UNCHANGED <<device, conn, opened, queue, fetched, worked>>

\* Mutant: a put is tried again until its consumer has worked off all it has.
PutPatiently ==
    /\ ~LoopFree
    /\ LET c == Puts[stage]
       IN  IF queue[c] = <<>> /\ fetched[c] = 0
           THEN /\ queue' = [queue EXCEPT ![c] = <<parsing>>]
                /\ parsing' = IF stage = Len(Puts) THEN 0 ELSE parsing
                /\ stage' = IF stage = Len(Puts) THEN 1 ELSE stage + 1
           ELSE UNCHANGED <<queue, parse>>
    /\ UNCHANGED <<device, network, received, fetched, worked>>

\* One put_nowait; a full queue makes it raise, and the packet is dropped
\* for this consumer only.
Put ==
    /\ ~LoopFree
    /\ LET c == Puts[stage]
       IN  IF Len(queue[c]) < Capacity
           THEN /\ queue' = [queue EXCEPT ![c] = Append(@, parsing)]
                /\ UNCHANGED lost
           ELSE /\ lost' = [lost EXCEPT ![c] = @ \cup {parsing}]
                /\ UNCHANGED queue
    /\ parsing' = IF stage = Len(Puts) THEN 0 ELSE parsing
    /\ stage' = IF stage = Len(Puts) THEN 1 ELSE stage + 1
    /\ UNCHANGED <<device, network, received, fetched, recording, out>>

\* Mutant: a get begun before the last packet has been worked on.
GetAgain(c) ==
    /\ queue[c] # <<>>
    /\ fetched' = [fetched EXCEPT ![c] = Head(queue[c])]
    /\ queue' = [queue EXCEPT ![c] = Tail(@)]
    /\ UNCHANGED <<device, network, received, parse, worked>>

\* Queue.get returns in the consumer's thread, whatever the loop is doing.
Get(c) ==
    /\ fetched[c] = 0
    /\ queue[c] # <<>>
    /\ fetched' = [fetched EXCEPT ![c] = Head(queue[c])]
    /\ queue' = [queue EXCEPT ![c] = Tail(@)]
    /\ UNCHANGED <<device, network, received, parse, worked>>

\* Mutant: a failed packet is put back to be tried again.
WorkRetried(c) ==
    /\ LoopFree
    /\ fetched[c] # 0
    /\ queue' = [queue EXCEPT ![c] = Append(@, fetched[c])]
    /\ fetched' = [fetched EXCEPT ![c] = 0]
    /\ UNCHANGED <<device, network, received, parse, worked>>

\* The consumer resumes on the loop, works on the packet and asks for the next.
Work(c) ==
    /\ LoopFree
    /\ fetched[c] # 0
    /\ out' = [out EXCEPT ![c] = Append(@, fetched[c])]
    /\ recording' = (recording \/ c = "record")
    /\ fetched' = [fetched EXCEPT ![c] = 0]
    /\ UNCHANGED <<device, network, received, parse, queue, lost>>

\* Its work raises: the exception is caught and the packet is gone.  The
\* recorder may have failed to start its file or, once started, to write.
WorkFails(c) ==
    /\ LoopFree
    /\ fetched[c] # 0
    /\ lost' = [lost EXCEPT ![c] = @ \cup {fetched[c]}]
    /\ IF c = "record"
       THEN recording' \in {recording, TRUE}
       ELSE UNCHANGED recording
    /\ fetched' = [fetched EXCEPT ![c] = 0]
    /\ UNCHANGED <<device, network, received, parse, queue, out>>

Device == ReadBlock \/ CheckConnection \/ Send \/ SendFails

Consume(c) == Work(c) \/ WorkFails(c)

Next == \/ Device \/ Open \/ Close
        \/ \E k \in Conns : LoseTail(k) \/ Receive(k)
        \/ Put
        \/ \E c \in Consumers : Get(c) \/ Consume(c)

\* parse has no await that suspends and runs to its end; threads are
\* scheduled; the loop runs what is ready in the order it became so, so that
\* handlers, however busy, cannot keep a consumer from resuming.
Fairness == /\ WF_vars(Put)
            /\ \A c \in Consumers : WF_vars(Get(c)) /\ SF_vars(Consume(c))

Spec == Init /\ [][Next]_vars

FairSpec == Spec /\ Fairness

-----------------------------------------------------------------------------

Packets == 1 .. MaxPackets

\* Every variable has its type; no queue outgrows its capacity.
TypeOK ==
    /\ sequence \in 0 .. MaxPackets
    /\ mic \in {"read", "check", "send"}
    /\ opened \in 0 .. MaxConns /\ conn \in 0 .. opened
    /\ wire \in [Conns -> Seq(Nat)]
    /\ received \in Seq([conn : Conns, number : Nat])
    /\ parsing \in Nat /\ stage \in 1 .. 3
    /\ queue \in [Consumers -> Seq(Nat)]
    /\ \A c \in Consumers : Len(queue[c]) <= Capacity
    /\ fetched \in [Consumers -> Nat]
    /\ recording \in BOOLEAN
    /\ out \in [Consumers -> Seq(Nat)]
    /\ lost \in [Consumers -> SUBSET Nat]

\* What consumer c has worked off, holds and will get, oldest first.
Held(c) == IF fetched[c] = 0 THEN <<>> ELSE <<fetched[c]>>
Stream(c) == out[c] \o Held(c) \o queue[c]

Increasing(s) == \A i, j \in 1 .. Len(s) : i < j => s[i] < s[j]

\* Each consumer sees packets in the order the server received them, none
\* twice, whatever the queues drop and whenever its thread fetches: what is
\* played, recorded and recognised has gaps but is never out of order.
StreamsInOrder == \A c \in Consumers : Increasing(Stream(c))

\* Is the put for c of the packet being parsed still to come?
Ahead(c) == ~LoopFree /\ \E i \in stage .. Len(Puts) : Puts[i] = c

Settled(c) == {i \in 1 .. Len(received) : ~(i = parsing /\ Ahead(c))}

Elements(s) == {s[i] : i \in DOMAIN s}

\* For every consumer every packet received is either in its stream or known
\* to have been dropped on overflow or by an error, never both: no
\* interleaving of parse, Queue.get and the consumers loses one silently.
NothingVanishes ==
    \A c \in Consumers : /\ Elements(Stream(c)) \cup lost[c] = Settled(c)
                         /\ Elements(Stream(c)) \cap lost[c] = {}

\* Parsing a packet ends even when every queue is full: the loop, which the
\* consumers need to make room, never waits for room.
ParseEnds == parsing # 0 ~> parsing = 0

\* Whatever is put into a queue is worked off or dropped by an error.
QueuesDrain ==
    \A c \in Consumers, i \in Packets :
        i \in Elements(queue[c]) ~> i \in Elements(out[c]) \cup lost[c]
=============================================================================
