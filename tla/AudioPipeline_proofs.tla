------------------------ MODULE AudioPipeline_proofs ------------------------
(***************************************************************************)
(* Theorems about AudioPipeline, for every capacity and however many       *)
(* packets and connections there are.  StreamsInOrder speaks of one        *)
(* sequence made of three; its inductive form keeps the three apart and    *)
(* bounds all they hold by the youngest packet that parse has put.         *)
(***************************************************************************)
EXTENDS AudioPipeline, SequenceTheorems, TLAPS

\* The youngest packet that consumer c can have been given.
Youngest(c) == IF Ahead(c) THEN parsing - 1 ELSE Len(received)

Below(s, n) == \A i \in 1 .. Len(s) : s[i] <= n

StreamInv(c) ==
    /\ Increasing(out[c]) /\ Increasing(queue[c])
    /\ \A i \in 1 .. Len(out[c]), j \in 1 .. Len(queue[c]) : out[c][i] < queue[c][j]
    /\ fetched[c] # 0 =>
          /\ \A i \in 1 .. Len(out[c]) : out[c][i] < fetched[c]
          /\ \A j \in 1 .. Len(queue[c]) : fetched[c] < queue[c][j]
    /\ Below(out[c], Youngest(c))
    /\ Below(queue[c], Youngest(c))
    /\ fetched[c] # 0 => fetched[c] <= Youngest(c)

ParseInv == parsing # 0 => parsing = Len(received)

DeviceInv == mic # "read" => sequence > 0

IInv == /\ TypeOK
        /\ DeviceInv
        /\ ParseInv
        /\ \A c \in Consumers : StreamInv(c)

-----------------------------------------------------------------------------

\* Two increasing sequences, all of the first below all of the second, make an
\* increasing one.
LEMMA IncreasingConcat ==
  ASSUME NEW s \in Seq(Nat), NEW t \in Seq(Nat), Increasing(s), Increasing(t),
         \A i \in 1 .. Len(s), j \in 1 .. Len(t) : s[i] < t[j]
  PROVE  Increasing(s \o t)
  <1> DEFINE u == s \o t
  <1>1. /\ Len(u) = Len(s) + Len(t)
        /\ \A i \in 1 .. Len(s) + Len(t) :
              u[i] = IF i <= Len(s) THEN s[i] ELSE t[i - Len(s)]
    BY ConcatProperties
  <1>2. Len(s) \in Nat /\ Len(t) \in Nat
    OBVIOUS
  <1> HIDE DEF u
  <1>3. SUFFICES ASSUME NEW i \in 1 .. Len(u), NEW j \in 1 .. Len(u), i < j
                 PROVE  u[i] < u[j]
    BY DEF Increasing, u
  <1>4. CASE j <= Len(s)
    <2>1. u[i] = s[i] /\ u[j] = s[j] /\ i \in 1 .. Len(s) /\ j \in 1 .. Len(s)
      BY <1>1, <1>2, <1>3, <1>4
    <2>2. QED
      BY <1>3, <2>1 DEF Increasing
  <1>5. CASE i <= Len(s) /\ Len(s) < j
    <2>1. /\ u[i] = s[i] /\ u[j] = t[j - Len(s)]
          /\ i \in 1 .. Len(s) /\ j - Len(s) \in 1 .. Len(t)
      BY <1>1, <1>2, <1>3, <1>5
    <2>2. QED
      BY <2>1
  <1>6. CASE Len(s) < i
    <2> DEFINE a == i - Len(s)
               b == j - Len(s)
    <2>1. /\ u[i] = t[a] /\ u[j] = t[b]
          /\ a \in 1 .. Len(t) /\ b \in 1 .. Len(t) /\ a < b
      BY <1>1, <1>2, <1>3, <1>6
    <2> HIDE DEF a, b
    <2>2. QED
      BY <2>1 DEF Increasing
  <1>7. QED
    BY <1>2, <1>3, <1>4, <1>5, <1>6

\* Appending a number above all others, and taking the first one away.
LEMMA IncreasingAppend ==
  ASSUME NEW s \in Seq(Nat), NEW n \in Nat, Increasing(s),
         \A i \in 1 .. Len(s) : s[i] < n
  PROVE  Increasing(Append(s, n))
  <1> DEFINE r == Append(s, n)
  <1>1. /\ Len(r) = Len(s) + 1 /\ Len(s) \in Nat
        /\ \A i \in 1 .. Len(s) : r[i] = s[i]
        /\ r[Len(s) + 1] = n
    BY AppendProperties
  <1> HIDE DEF r
  <1>2. SUFFICES ASSUME NEW i \in 1 .. Len(r), NEW j \in 1 .. Len(r), i < j
                 PROVE  r[i] < r[j]
    BY DEF Increasing, r
  <1>3. i \in 1 .. Len(s)
    BY <1>1, <1>2
  <1>4. CASE j \in 1 .. Len(s)
    BY <1>1, <1>2, <1>3, <1>4 DEF Increasing
  <1>5. CASE j = Len(s) + 1
    BY <1>1, <1>3, <1>5
  <1>6. QED
    BY <1>1, <1>4, <1>5

LEMMA IncreasingTail ==
  ASSUME NEW s \in Seq(Nat), s # <<>>, Increasing(s)
  PROVE  /\ Increasing(Tail(s))
         /\ \A i \in 1 .. Len(Tail(s)) : /\ Tail(s)[i] = s[i + 1]
                                         /\ i + 1 \in 1 .. Len(s)
                                         /\ s[1] < Tail(s)[i]
         /\ Head(s) = s[1] /\ 1 \in 1 .. Len(s)
  <1> DEFINE r == Tail(s)
  <1>1. /\ Len(r) = Len(s) - 1 /\ Len(s) \in Nat /\ Len(s) # 0
        /\ \A i \in 1 .. Len(r) : r[i] = s[i + 1]
        /\ Head(s) = s[1]
    BY HeadTailProperties, EmptySeq
  <1> HIDE DEF r
  <1>2. \A i \in 1 .. Len(r) : i + 1 \in 1 .. Len(s) /\ 1 < i + 1
    BY <1>1
  <1>3. 1 \in 1 .. Len(s)
    BY <1>1
  <1>4. \A i \in 1 .. Len(r) : s[1] < s[i + 1]
    BY <1>2, <1>3 DEF Increasing
  <1>5. \A i, j \in 1 .. Len(r) : i < j => s[i + 1] < s[j + 1]
    BY <1>1, <1>2 DEF Increasing
  <1>6. Increasing(r)
    BY <1>1, <1>5 DEF Increasing
  <1>7. QED
    BY <1>1, <1>2, <1>3, <1>4, <1>6 DEF r

\* The parts of a stream make an increasing whole.
LEMMA InvImpliesOrder == IInv => StreamsInOrder
  <1> SUFFICES ASSUME IInv, NEW c \in Consumers PROVE Increasing(Stream(c))
    BY DEF StreamsInOrder
  <1> DEFINE o == out[c]
             m == Held(c)
             q == queue[c]
  <1>1. o \in Seq(Nat) /\ q \in Seq(Nat) /\ fetched[c] \in Nat
    BY DEF IInv, TypeOK
  <1>2. m \in Seq(Nat) /\ Increasing(m)
    BY <1>1 DEF Held, Increasing
  <1>3. /\ Increasing(o) /\ Increasing(q)
        /\ \A i \in 1 .. Len(o), j \in 1 .. Len(q) : o[i] < q[j]
        /\ \A i \in 1 .. Len(o), j \in 1 .. Len(m) : o[i] < m[j]
        /\ \A i \in 1 .. Len(m), j \in 1 .. Len(q) : m[i] < q[j]
    BY <1>1 DEF IInv, StreamInv, Held
  <1>4. Stream(c) = (o \o m) \o q
    BY <1>1, <1>2 DEF Stream
  <1> HIDE DEF o, m, q
  <1>5. o \o m \in Seq(Nat) /\ Increasing(o \o m)
    BY <1>1, <1>2, <1>3, IncreasingConcat
  <1>6. \A i \in 1 .. Len(o \o m), j \in 1 .. Len(q) : (o \o m)[i] < q[j]
    <2>1. /\ Len(o \o m) = Len(o) + Len(m)
          /\ \A i \in 1 .. Len(o) + Len(m) :
                (o \o m)[i] = IF i <= Len(o) THEN o[i] ELSE m[i - Len(o)]
      BY <1>1, <1>2, ConcatProperties
    <2>2. Len(o) \in Nat /\ Len(m) \in Nat
      BY <1>1, <1>2
    <2>3. TAKE i \in 1 .. Len(o \o m), j \in 1 .. Len(q)
    <2>4. CASE i <= Len(o)
      BY <1>3, <2>1, <2>2, <2>4
    <2>5. CASE Len(o) < i
      <3>1. i - Len(o) \in 1 .. Len(m) /\ (o \o m)[i] = m[i - Len(o)]
        BY <2>1, <2>2, <2>5
      <3>2. QED
        BY <1>3, <3>1
    <2>6. QED
      BY <2>2, <2>4, <2>5
  <1>7. QED
    BY <1>1, <1>3, <1>4, <1>5, <1>6, IncreasingConcat

LEMMA InitIInv == Init => IInv
  <1> SUFFICES ASSUME Init PROVE IInv
    OBVIOUS
  <1> USE PipelineAssumption DEF Init
  <1>1. TypeOK
    <2>1. /\ wire \in [Conns -> Seq(Nat)]
          /\ queue \in [Consumers -> Seq(Nat)] /\ out \in [Consumers -> Seq(Nat)]
          /\ received \in Seq([conn : Conns, number : Nat])
          /\ fetched \in [Consumers -> Nat] /\ lost \in [Consumers -> SUBSET Nat]
      OBVIOUS
    <2>2. \A c \in Consumers : Len(queue[c]) <= Capacity
      OBVIOUS
    <2>3. recording \in BOOLEAN
      OBVIOUS
    <2>4. QED
      BY <2>1, <2>2, <2>3 DEF TypeOK
  <1>2. DeviceInv /\ ParseInv
    BY DEF DeviceInv, ParseInv
  <1>3. \A c \in Consumers : StreamInv(c)
    BY DEF StreamInv, Increasing, Below, Youngest, Ahead, LoopFree
  <1>4. QED
    BY <1>1, <1>2, <1>3 DEF IInv

\* What the streams' invariant is about.
served == <<queue, fetched, out, parsing, stage, received>>

\* Steps that touch nothing of a stream keep its invariant.
LEMMA StreamUntouched ==
  ASSUME UNCHANGED served, \A c \in Consumers : StreamInv(c)
  PROVE  \A c \in Consumers : StreamInv(c)'
  BY DEF served, StreamInv, Increasing, Below, Youngest, Ahead, LoopFree

\* The device and the connections.
LEMMA OutsideStep ==
  ASSUME IInv, Device \/ Open \/ Close \/ \E k \in Conns : LoseTail(k)
  PROVE  IInv'
  <1> USE PipelineAssumption DEF IInv
  <1>1. UNCHANGED served /\ UNCHANGED <<recording, lost>>
    BY DEF Device, ReadBlock, CheckConnection, Send, SendFails, Open, Close,
           LoseTail, served, parse, worked
  <1>2. \A c \in Consumers : StreamInv(c)'
    BY <1>1, StreamUntouched
  <1>3. ParseInv'
    BY <1>1 DEF ParseInv, served
  <1>4. /\ sequence' \in 0 .. MaxPackets
        /\ mic' \in {"read", "check", "send"}
        /\ opened' \in 0 .. MaxConns /\ conn' \in 0 .. opened'
        /\ DeviceInv'
    BY DEF Device, ReadBlock, CheckConnection, Send, SendFails, Open, Close,
           LoseTail, network, device, TypeOK, DeviceInv
  <1>5. wire' \in [Conns -> Seq(Nat)]
    <2>1. CASE Send
      <3>1. conn \in Conns /\ sequence - 1 \in Nat
        BY <2>1 DEF Send, TypeOK, Conns, DeviceInv
      <3>2. Append(wire[conn], sequence - 1) \in Seq(Nat)
        BY <3>1 DEF TypeOK
      <3>3. QED
        BY <2>1, <3>1, <3>2 DEF Send, TypeOK
    <2>2. ASSUME NEW k \in Conns, LoseTail(k) PROVE wire' \in [Conns -> Seq(Nat)]
      <3>1. wire[k] \in Seq(Nat) /\ Len(wire[k]) \in Nat
        BY DEF TypeOK
      <3>2. \A i \in 1 .. Len(wire[k]) - 1 : wire[k][i] \in Nat
        BY <3>1
      <3>3. SubSeq(wire[k], 1, Len(wire[k]) - 1) \in Seq(Nat)
        BY <3>1, <3>2, SubSeqProperties
      <3>4. QED
        BY <2>2, <3>3 DEF LoseTail, TypeOK
    <2>3. CASE ReadBlock \/ CheckConnection \/ SendFails \/ Open \/ Close
      BY <2>3 DEF ReadBlock, CheckConnection, SendFails, Open, Close, network, TypeOK
    <2>4. QED
      BY <2>1, <2>2, <2>3 DEF Device
  <1>6. TypeOK'
    BY <1>1, <1>4, <1>5 DEF TypeOK, served
  <1>7. QED
    BY <1>2, <1>3, <1>4, <1>6

\* Receive: the new packet is younger than all a stream holds.
LEMMA ReceiveStep ==
  ASSUME IInv, NEW k \in Conns, Receive(k)
  PROVE  IInv'
  <1> USE PipelineAssumption DEF IInv
  <1>1. /\ wire[k] \in Seq(Nat) /\ wire[k] # <<>>
        /\ received \in Seq([conn : Conns, number : Nat])
        /\ parsing = 0
    BY DEF Receive, TypeOK, LoopFree
  <1>2. Head(wire[k]) \in Nat /\ Tail(wire[k]) \in Seq(Nat)
    BY <1>1
  <1>3. /\ received' \in Seq([conn : Conns, number : Nat])
        /\ Len(received') = Len(received) + 1
        /\ Len(received) \in Nat
    <2>1. [conn |-> k, number |-> Head(wire[k])] \in [conn : Conns, number : Nat]
      BY <1>2
    <2>2. QED
      BY <1>1, <2>1 DEF Receive
  <1>4. /\ parsing' = Len(received) + 1 /\ stage' = 1
        /\ UNCHANGED <<queue, fetched, out, lost, recording, sequence, mic, conn, opened>>
    BY <1>3 DEF Receive, worked, device
  <1>5. TypeOK'
    BY <1>2, <1>3, <1>4 DEF TypeOK, Receive
  <1>6. DeviceInv' /\ ParseInv'
    BY <1>3, <1>4 DEF DeviceInv, ParseInv
  <1>7. ASSUME NEW c \in Consumers PROVE StreamInv(c)'
    <2>1. Youngest(c) = Len(received)
      BY <1>1 DEF Youngest, Ahead, LoopFree
    <2>2. Ahead(c)'
      <3>1. \E i \in 1 .. 3 : Puts[i] = c
        BY DEF Puts, Consumers
      <3>2. Len(Puts) = 3
        BY DEF Puts
      <3>3. QED
        BY <1>3, <1>4, <3>1, <3>2 DEF Ahead, LoopFree
    <2>3. Youngest(c)' = Len(received)
      BY <1>3, <1>4, <2>2 DEF Youngest
    <2>4. QED
      BY <1>4, <2>1, <2>3 DEF StreamInv, Increasing, Below
  <1>8. QED
    BY <1>5, <1>6, <1>7

\* Put: the packet being parsed is younger than all the stream of its
\* consumer holds, and the others' streams are not touched.
LEMMA PutStep ==
  ASSUME IInv, Put
  PROVE  IInv'
  <1> USE PipelineAssumption DEF IInv
  <1> DEFINE c == Puts[stage]
  <1>1. /\ stage \in 1 .. 3 /\ Len(Puts) = 3
        /\ Puts[1] = "player" /\ Puts[2] = "record" /\ Puts[3] = "stt"
    BY DEF TypeOK, Puts
  <1>2. c \in Consumers
    BY <1>1 DEF Consumers
  <1>3. /\ parsing # 0 /\ parsing = Len(received) /\ parsing \in Nat
        /\ Len(received) \in Nat
    BY DEF Put, LoopFree, ParseInv, TypeOK
  <1>4. /\ \/ /\ Len(queue[c]) < Capacity
              /\ queue' = [queue EXCEPT ![c] = Append(queue[c], parsing)]
              /\ lost' = lost
           \/ /\ lost' = [lost EXCEPT ![c] = lost[c] \cup {parsing}]
              /\ queue' = queue
        /\ parsing' = IF stage = 3 THEN 0 ELSE parsing
        /\ stage' = IF stage = 3 THEN 1 ELSE stage + 1
        /\ UNCHANGED <<sequence, mic, conn, opened, wire, received, fetched,
                       recording, out>>
    BY <1>1 DEF Put, device, network
  <1>5. queue[c] \in Seq(Nat) /\ Len(queue[c]) \in Nat /\ lost[c] \in SUBSET Nat
    BY <1>2 DEF TypeOK
  <1>6. /\ Append(queue[c], parsing) \in Seq(Nat)
        /\ Len(Append(queue[c], parsing)) = Len(queue[c]) + 1
        /\ \A i \in 1 .. Len(queue[c]) : Append(queue[c], parsing)[i] = queue[c][i]
        /\ Append(queue[c], parsing)[Len(queue[c]) + 1] = parsing
    BY <1>3, <1>5, AppendProperties
  <1> HIDE DEF c
  <1>7. TypeOK'
    <2>0. queue \in [Consumers -> Seq(Nat)] /\ lost \in [Consumers -> SUBSET Nat]
      BY DEF TypeOK
    <2>1. /\ queue' \in [Consumers -> Seq(Nat)]
          /\ \A d \in Consumers : Len(queue'[d]) <= Capacity
      <3>1. CASE queue' = queue
        BY <3>1 DEF TypeOK
      <3>2. CASE /\ Len(queue[c]) < Capacity
                 /\ queue' = [queue EXCEPT ![c] = Append(queue[c], parsing)]
        <4>1. queue' \in [Consumers -> Seq(Nat)]
          BY <1>6, <2>0, <3>2
        <4>2. Len(queue'[c]) <= Capacity
          BY <1>2, <1>5, <1>6, <2>0, <3>2
        <4>3. \A d \in Consumers \ {c} : queue'[d] = queue[d]
          BY <2>0, <3>2
        <4>4. QED
          BY <4>1, <4>2, <4>3 DEF TypeOK
      <3>3. QED
        BY <1>4, <3>1, <3>2
    <2>2. lost' \in [Consumers -> SUBSET Nat]
      <3>1. lost[c] \cup {parsing} \in SUBSET Nat
        BY <1>3, <1>5
      <3>2. QED
        BY <1>4, <2>0, <3>1
    <2>3. parsing' \in Nat /\ stage' \in 1 .. 3
      BY <1>1, <1>3, <1>4
    <2>4. QED
      BY <1>4, <2>1, <2>2, <2>3 DEF TypeOK
  <1>8. DeviceInv' /\ ParseInv'
    BY <1>3, <1>4 DEF DeviceInv, ParseInv
  <1>9. ASSUME NEW d \in Consumers PROVE StreamInv(d)'
    <2>1. CASE d = c
      <3>1. Youngest(d) = parsing - 1
        BY <1>1, <1>3, <2>1 DEF Youngest, Ahead, LoopFree, c
      <3>2. ~Ahead(d)'
        BY <1>1, <1>4, <2>1 DEF Ahead, LoopFree, c
      <3>3. Youngest(d)' = parsing
        BY <1>3, <1>4, <3>2 DEF Youngest
      <3>4. /\ out[d] \in Seq(Nat) /\ fetched[d] \in Nat
            /\ \A i \in 1 .. Len(out[d]) : out[d][i] \in Nat /\ out[d][i] < parsing
            /\ \A i \in 1 .. Len(queue[d]) : queue[d][i] \in Nat /\ queue[d][i] < parsing
            /\ fetched[d] # 0 => fetched[d] < parsing
        <4>1. out[d] \in Seq(Nat) /\ queue[d] \in Seq(Nat) /\ fetched[d] \in Nat
          BY DEF TypeOK
        <4>2. /\ Below(out[d], parsing - 1) /\ Below(queue[d], parsing - 1)
              /\ fetched[d] # 0 => fetched[d] <= parsing - 1
          BY <3>1 DEF StreamInv
        <4>3. /\ \A i \in 1 .. Len(out[d]) : out[d][i] \in Nat
              /\ \A i \in 1 .. Len(queue[d]) : queue[d][i] \in Nat
          BY <4>1
        <4>4. \A n \in Nat : n <= parsing - 1 => n < parsing
          BY <1>3
        <4> HIDE DEF IInv
        <4>5. QED
          BY <4>1, <4>2, <4>3, <4>4 DEF Below
      <3>5. \/ queue'[d] = Append(queue[c], parsing)
            \/ queue'[d] = queue[d]
        BY <1>2, <1>4, <2>1 DEF TypeOK
      <3>6. CASE queue'[d] = queue[d]
        <4>1. out'[d] = out[d] /\ fetched'[d] = fetched[d]
          BY <1>4
        <4>2. /\ Below(out[d], parsing) /\ Below(queue[d], parsing)
              /\ fetched[d] # 0 => fetched[d] <= parsing
          BY <1>3, <3>4 DEF Below
        <4>3. StreamInv(d)
          OBVIOUS
        <4>4. QED
          BY <3>3, <3>6, <4>1, <4>2, <4>3 DEF StreamInv, Increasing, Below
      <3>7. CASE queue'[d] = Append(queue[c], parsing)
        <4> DEFINE q == queue[d]
                   r == queue'[d]
        <4>1. /\ Len(q) \in Nat /\ Len(r) = Len(q) + 1
              /\ \A i \in 1 .. Len(q) : r[i] = q[i]
              /\ r[Len(q) + 1] = parsing
          BY <1>5, <1>6, <2>1, <3>7
        <4>2. /\ Increasing(q) /\ \A i \in 1 .. Len(q) : q[i] \in Nat /\ q[i] < parsing
              /\ \A i \in 1 .. Len(out[d]), j \in 1 .. Len(q) : out[d][i] < q[j]
              /\ fetched[d] # 0 => \A j \in 1 .. Len(q) : fetched[d] < q[j]
          BY <3>4 DEF StreamInv
        <4> HIDE DEF q, r
        <4>a. \A j \in 1 .. Len(r) : j \in 1 .. Len(q) \/ j = Len(q) + 1
          BY <4>1
        <4>3. Increasing(r)
          BY <1>3, <1>5, <2>1, <3>7, <4>2, IncreasingAppend DEF q, r
        <4>4. \A i \in 1 .. Len(out[d]), j \in 1 .. Len(r) : out[d][i] < r[j]
          BY <3>4, <4>1, <4>2, <4>a
        <4>5. fetched[d] # 0 => \A j \in 1 .. Len(r) : fetched[d] < r[j]
          BY <3>4, <4>1, <4>2
        <4>6. Below(r, parsing)
          BY <1>3, <4>1, <4>2 DEF Below
        <4>7. Increasing(out[d]) /\ Below(out[d], parsing)
          BY <1>3, <3>4 DEF StreamInv, Below
        <4>8. fetched[d] # 0 => /\ \A i \in 1 .. Len(out[d]) : out[d][i] < fetched[d]
                                /\ fetched[d] <= parsing
          BY <1>3, <3>4 DEF StreamInv
        <4>9. out'[d] = out[d] /\ fetched'[d] = fetched[d]
          BY <1>4
        <4>10. QED
          BY <3>3, <4>3, <4>4, <4>5, <4>6, <4>7, <4>8, <4>9
             DEF StreamInv, r, Increasing, Below
      <3>8. QED
        BY <3>5, <3>6, <3>7
    <2>2. CASE d # c
      <3>1. queue'[d] = queue[d]
        BY <1>2, <1>4, <2>2 DEF TypeOK
      <3>2. Ahead(d)' <=> Ahead(d)
        BY <1>1, <1>3, <1>4, <2>2 DEF Ahead, LoopFree, c
      <3>3. Youngest(d)' = Youngest(d)
        <4>1. Ahead(d)' => parsing' = parsing
          BY <1>4 DEF Ahead, LoopFree
        <4>2. QED
          BY <1>4, <3>2, <4>1 DEF Youngest
      <3>4. QED
        BY <1>4, <3>1, <3>3 DEF StreamInv, Increasing, Below
    <2>3. QED
      BY <2>1, <2>2
  <1>10. QED
    BY <1>7, <1>8, <1>9

\* Get and Consume hand a packet on within a stream, or drop it.
LEMMA ConsumerStep ==
  ASSUME IInv, NEW c \in Consumers, Get(c) \/ Consume(c)
  PROVE  IInv'
  <1> USE PipelineAssumption DEF IInv
  <1>1. /\ UNCHANGED <<sequence, mic, conn, opened, wire, received, parsing, stage>>
        /\ \A d \in Consumers \ {c} :
              queue'[d] = queue[d] /\ fetched'[d] = fetched[d] /\ out'[d] = out[d]
    BY DEF Get, Consume, Work, WorkFails, device, network, parse, worked, TypeOK
  <1>2. \A d \in Consumers : Youngest(d)' = Youngest(d)
    BY <1>1 DEF Youngest, Ahead, LoopFree
  <1>3. DeviceInv' /\ ParseInv'
    BY <1>1 DEF DeviceInv, ParseInv
  <1>4. \A d \in Consumers \ {c} : StreamInv(d)'
    BY <1>1, <1>2 DEF StreamInv, Increasing, Below
  <1>5. /\ queue[c] \in Seq(Nat) /\ Len(queue[c]) \in Nat /\ Len(queue[c]) <= Capacity
        /\ out[c] \in Seq(Nat) /\ Len(out[c]) \in Nat /\ fetched[c] \in Nat
        /\ StreamInv(c)
    BY DEF TypeOK
  <1>6. CASE Get(c)
    <2> DEFINE q == queue[c]
               r == Tail(queue[c])
    <2>1. /\ q # <<>> /\ fetched[c] = 0
          /\ queue' = [queue EXCEPT ![c] = r]
          /\ fetched' = [fetched EXCEPT ![c] = Head(q)]
          /\ UNCHANGED <<recording, out, lost>>
      BY <1>6 DEF Get, worked
    <2>2. /\ r \in Seq(Nat) /\ Len(r) = Len(q) - 1 /\ Len(q) > 0
          /\ \A i \in 1 .. Len(r) : r[i] = q[i + 1]
          /\ Head(q) = q[1] /\ q[1] \in Nat
      BY <1>5, <2>1, HeadTailProperties
    <2>3. queue'[c] = r /\ fetched'[c] = q[1] /\ out'[c] = out[c]
      BY <2>1, <2>2 DEF TypeOK
    <2>4. TypeOK'
      <3>1. queue' \in [Consumers -> Seq(Nat)] /\ fetched' \in [Consumers -> Nat]
        BY <2>1, <2>2 DEF TypeOK
      <3>2. \A d \in Consumers : Len(queue'[d]) <= Capacity
        <4>1. Len(queue'[c]) <= Capacity
          BY <1>5, <2>2, <2>3 DEF TypeOK
        <4>2. QED
          BY <1>1, <4>1 DEF TypeOK
      <3>3. QED
        BY <1>1, <2>1, <3>1, <3>2 DEF TypeOK
    <2>5. StreamInv(c)'
      <3>1. /\ Increasing(q) /\ Increasing(out[c])
            /\ Below(q, Youngest(c)) /\ Below(out[c], Youngest(c))
            /\ \A i \in 1 .. Len(out[c]), j \in 1 .. Len(q) : out[c][i] < q[j]
        BY <1>5 DEF StreamInv
      <3>2. /\ Increasing(r) /\ 1 \in 1 .. Len(q)
            /\ \A i \in 1 .. Len(r) : r[i] = q[i + 1] /\ i + 1 \in 1 .. Len(q) /\ q[1] < r[i]
        BY <1>5, <2>1, <3>1, IncreasingTail
      <3> HIDE DEF q, r
      <3>3. Below(r, Youngest(c)) /\ q[1] <= Youngest(c)
        BY <3>1, <3>2 DEF Below
      <3>4. /\ \A i \in 1 .. Len(out[c]) : out[c][i] < q[1]
            /\ \A i \in 1 .. Len(out[c]), j \in 1 .. Len(r) : out[c][i] < r[j]
        BY <3>1, <3>2
      <3>5. QED
        BY <1>2, <2>3, <3>1, <3>2, <3>3, <3>4 DEF StreamInv, Increasing, Below
    <2>6. QED
      BY <1>3, <1>4, <2>4, <2>5
  <1>7. CASE Work(c)
    <2> DEFINE o == out[c]
               p == Append(out[c], fetched[c])
    <2>1. /\ fetched[c] # 0
          /\ out' = [out EXCEPT ![c] = p]
          /\ fetched' = [fetched EXCEPT ![c] = 0]
          /\ recording' = (recording \/ c = "record")
          /\ UNCHANGED <<queue, lost>>
      BY <1>7 DEF Work
    <2>2. /\ p \in Seq(Nat) /\ Len(p) = Len(o) + 1
          /\ \A i \in 1 .. Len(o) : p[i] = o[i]
          /\ p[Len(o) + 1] = fetched[c]
      BY <1>5, AppendProperties
    <2>3. out'[c] = p /\ fetched'[c] = 0 /\ queue'[c] = queue[c]
      BY <2>1 DEF TypeOK
    <2>4. TypeOK'
      <3>1. out' \in [Consumers -> Seq(Nat)] /\ fetched' \in [Consumers -> Nat]
        BY <2>1, <2>2 DEF TypeOK
      <3>2. recording' \in BOOLEAN
        BY <2>1 DEF TypeOK
      <3>3. QED
        BY <1>1, <2>1, <3>1, <3>2 DEF TypeOK
    <2>5. StreamInv(c)'
      <3>1. /\ Increasing(o) /\ Increasing(queue[c])
            /\ Below(queue[c], Youngest(c)) /\ Below(o, Youngest(c))
            /\ \A i \in 1 .. Len(o) : o[i] < fetched[c]
            /\ \A j \in 1 .. Len(queue[c]) : fetched[c] < queue[c][j]
            /\ \A i \in 1 .. Len(o), j \in 1 .. Len(queue[c]) : o[i] < queue[c][j]
            /\ fetched[c] <= Youngest(c)
        BY <1>5, <2>1 DEF StreamInv
      <3>2. Len(o) \in Nat
        BY <1>5
      <3> HIDE DEF o, p
      <3>a. \A i \in 1 .. Len(p) : i \in 1 .. Len(o) \/ i = Len(o) + 1
        BY <2>2, <3>2
      <3>3. Increasing(p)
        BY <1>5, <3>1, IncreasingAppend DEF o, p
      <3>4. Below(p, Youngest(c))
        BY <2>2, <3>1, <3>a DEF Below
      <3>5. \A i \in 1 .. Len(p), j \in 1 .. Len(queue[c]) : p[i] < queue[c][j]
        BY <2>2, <3>1, <3>a
      <3>6. QED
        BY <1>2, <2>3, <3>1, <3>3, <3>4, <3>5 DEF StreamInv, Increasing, Below
    <2>6. QED
      BY <1>3, <1>4, <2>4, <2>5
  <1>8. CASE WorkFails(c)
    <2>1. /\ fetched' = [fetched EXCEPT ![c] = 0]
          /\ lost' = [lost EXCEPT ![c] = lost[c] \cup {fetched[c]}]
          /\ recording' \in {recording, TRUE}
          /\ UNCHANGED <<queue, out>>
      BY <1>8 DEF WorkFails
    <2>2. TypeOK'
      <3>1. fetched' \in [Consumers -> Nat] /\ lost' \in [Consumers -> SUBSET Nat]
        BY <1>5, <2>1 DEF TypeOK
      <3>2. recording' \in BOOLEAN
        BY <2>1 DEF TypeOK
      <3>3. QED
        BY <1>1, <2>1, <3>1, <3>2 DEF TypeOK
    <2>3. StreamInv(c)'
      <3>1. queue'[c] = queue[c] /\ out'[c] = out[c] /\ fetched'[c] = 0
        BY <2>1 DEF TypeOK
      <3>2. QED
        BY <1>2, <1>5, <3>1 DEF StreamInv, Increasing, Below
    <2>4. QED
      BY <1>3, <1>4, <2>2, <2>3
  <1>9. QED
    BY <1>6, <1>7, <1>8 DEF Consume

-----------------------------------------------------------------------------

\* The inductive invariant.
THEOREM Invariance == Spec => []IInv
  <1>1. IInv /\ [Next]_vars => IInv'
    <2> SUFFICES ASSUME IInv, [Next]_vars PROVE IInv'
      OBVIOUS
    <2>1. CASE Device \/ Open \/ Close \/ \E k \in Conns : LoseTail(k)
      BY <2>1, OutsideStep
    <2>2. ASSUME NEW k \in Conns, Receive(k) PROVE IInv'
      BY <2>2, ReceiveStep
    <2>3. CASE Put
      BY <2>3, PutStep
    <2>4. ASSUME NEW c \in Consumers, Get(c) \/ Consume(c) PROVE IInv'
      BY <2>4, ConsumerStep
    <2>5. CASE UNCHANGED vars
      <3>1. UNCHANGED served
        BY <2>5 DEF vars, served, parse, worked
      <3>2. \A c \in Consumers : StreamInv(c)'
        BY <3>1, StreamUntouched DEF IInv
      <3>3. TypeOK' /\ DeviceInv' /\ ParseInv'
        BY <2>5 DEF vars, device, network, parse, worked, IInv, TypeOK,
                    DeviceInv, ParseInv
      <3>4. QED
        BY <3>2, <3>3 DEF IInv
    <2>6. QED
      BY <2>1, <2>2, <2>3, <2>4, <2>5 DEF Next
  <1>2. QED
    BY <1>1, InitIInv, PTL DEF Spec

\* Every variable keeps its type; no queue ever outgrows its capacity.
THEOREM TypeCorrect == Spec => []TypeOK
  <1>1. IInv => TypeOK
    BY DEF IInv
  <1>2. QED
    BY <1>1, Invariance, PTL

\* Playback, recording and recognition each see the packets in the order the
\* server received them, none twice, for every capacity of the queues and
\* every interleaving of parse, the threads and the loop.
THEOREM StreamsStayInOrder == Spec => []StreamsInOrder
  <1>1. QED
    BY InvImpliesOrder, Invariance, PTL
-----------------------------------------------------------------------------
(* Nothing vanishes.                                                       *)

LEMMA ElementsConcat ==
  ASSUME NEW s \in Seq(Nat), NEW t \in Seq(Nat)
  PROVE  Elements(s \o t) = Elements(s) \cup Elements(t)
  <1> DEFINE u == s \o t
  <1>1. /\ Len(u) = Len(s) + Len(t) /\ DOMAIN u = 1 .. Len(u)
        /\ DOMAIN s = 1 .. Len(s) /\ DOMAIN t = 1 .. Len(t)
        /\ Len(s) \in Nat /\ Len(t) \in Nat
        /\ \A i \in 1 .. Len(s) + Len(t) :
              u[i] = IF i <= Len(s) THEN s[i] ELSE t[i - Len(s)]
    BY ConcatProperties
  <1> HIDE DEF u
  <1>2. ASSUME NEW i \in DOMAIN u PROVE u[i] \in Elements(s) \cup Elements(t)
    <2>1. CASE i <= Len(s)
      BY <1>1, <2>1 DEF Elements
    <2>2. CASE ~(i <= Len(s))
      <3>1. i - Len(s) \in DOMAIN t /\ u[i] = t[i - Len(s)]
        BY <1>1, <2>2
      <3> QED
        BY <3>1 DEF Elements
    <2> QED
      BY <2>1, <2>2
  <1>3. ASSUME NEW i \in DOMAIN s PROVE s[i] \in Elements(u)
    <2>1. i \in DOMAIN u /\ u[i] = s[i]
      BY <1>1
    <2> QED
      BY <2>1 DEF Elements
  <1>4. ASSUME NEW i \in DOMAIN t PROVE t[i] \in Elements(u)
    <2>1. i + Len(s) \in DOMAIN u /\ u[i + Len(s)] = t[i]
      BY <1>1
    <2> QED
      BY <2>1 DEF Elements
  <1> QED
    BY <1>2, <1>3, <1>4 DEF Elements, u

LEMMA ElementsAppend ==
  ASSUME NEW s \in Seq(Nat), NEW n \in Nat
  PROVE  Elements(Append(s, n)) = Elements(s) \cup {n}
  <1>1. Append(s, n) = s \o <<n>> /\ <<n>> \in Seq(Nat)
    BY AppendIsConcat
  <1>2. Elements(<<n>>) = {n}
    BY DEF Elements
  <1> QED
    BY <1>1, <1>2, ElementsConcat

LEMMA ElementsTail ==
  ASSUME NEW s \in Seq(Nat), s # <<>>
  PROVE  Elements(s) = {Head(s)} \cup Elements(Tail(s))
  <1>1. /\ s = <<Head(s)>> \o Tail(s)
        /\ <<Head(s)>> \in Seq(Nat) /\ Tail(s) \in Seq(Nat)
    BY HeadTailProperties
  <1>2. Elements(<<Head(s)>>) = {Head(s)}
    BY DEF Elements
  <1> QED
    BY <1>1, <1>2, ElementsConcat

Holding(c) == IF fetched[c] = 0 THEN {} ELSE {fetched[c]}

InStream(c) == Elements(out[c]) \cup Holding(c) \cup Elements(queue[c])

VanishInv(c) == /\ InStream(c) \cup lost[c] = Settled(c)
                /\ InStream(c) \cap lost[c] = {}

LEMMA StreamElements ==
  ASSUME TypeOK, NEW c \in Consumers
  PROVE  Elements(Stream(c)) = InStream(c)
  <1>1. /\ out[c] \in Seq(Nat) /\ queue[c] \in Seq(Nat) /\ fetched[c] \in Nat
    BY DEF TypeOK
  <1>2. Held(c) \in Seq(Nat) /\ Elements(Held(c)) = Holding(c)
    BY <1>1 DEF Held, Holding, Elements
  <1>3. /\ out[c] \o Held(c) \in Seq(Nat)
        /\ Stream(c) = (out[c] \o Held(c)) \o queue[c]
    BY <1>1, <1>2 DEF Stream
  <1> QED
    BY <1>1, <1>2, <1>3, ElementsConcat DEF InStream

\* The packet being parsed is settled for all whose put is not to come.
LEMMA SettledParts ==
  ASSUME IInv, NEW c \in Consumers
  PROVE  /\ Ahead(c) => Settled(c) = (1 .. Len(received)) \ {parsing}
         /\ ~Ahead(c) => Settled(c) = 1 .. Len(received)
  BY DEF Settled

LEMMA PutVanish ==
  ASSUME IInv, Put, \A c \in Consumers : VanishInv(c)
  PROVE  \A c \in Consumers : VanishInv(c)'
  <1>1. /\ stage \in 1 .. 3 /\ Len(Puts) = 3
        /\ Puts[1] = "player" /\ Puts[2] = "record" /\ Puts[3] = "stt"
    BY DEF IInv, TypeOK, Puts
  <1>2. PICK c \in Consumers : c = Puts[stage]
    BY <1>1 DEF Consumers
  <1>3. /\ parsing # 0 /\ parsing = Len(received) /\ parsing \in Nat
    BY DEF Put, LoopFree, IInv, ParseInv, TypeOK
  <1>4. /\ \/ /\ queue' = [queue EXCEPT ![c] = Append(queue[c], parsing)]
              /\ lost' = lost
           \/ /\ lost' = [lost EXCEPT ![c] = lost[c] \cup {parsing}]
              /\ queue' = queue
        /\ parsing' = IF stage = 3 THEN 0 ELSE parsing
        /\ stage' = IF stage = 3 THEN 1 ELSE stage + 1
        /\ UNCHANGED <<received, fetched, out>>
    BY <1>1, <1>2 DEF Put
  <1>5. /\ queue \in [Consumers -> Seq(Nat)] /\ lost \in [Consumers -> SUBSET Nat]
        /\ queue[c] \in Seq(Nat)
    BY <1>2 DEF IInv, TypeOK
  <1>6. Ahead(c) /\ ~Ahead(c)'
    BY <1>1, <1>2, <1>3, <1>4 DEF Ahead, LoopFree
  <1>7. \A d \in Consumers : d # c => (Ahead(d)' <=> Ahead(d))
    BY <1>1, <1>2, <1>3, <1>4 DEF Ahead, LoopFree
  <1>8. ASSUME NEW d \in Consumers PROVE VanishInv(d)'
    <2>1. VanishInv(d)
      OBVIOUS
    <2>2. CASE d = c
      <3>1. Settled(c) = (1 .. Len(received)) \ {parsing}
        BY <1>2, <1>6, SettledParts
      <3>2. Settled(c)' = 1 .. Len(received)
        BY <1>4, <1>6 DEF Settled
      <3>3. Settled(c)' = Settled(c) \cup {parsing} /\ parsing \notin Settled(c)
        BY <1>3, <3>1, <3>2
      <3>4. CASE queue'[c] = Append(queue[c], parsing) /\ lost'[c] = lost[c]
        <4>1. Elements(queue'[c]) = Elements(queue[c]) \cup {parsing}
          BY <1>3, <1>5, <3>4, ElementsAppend
        <4>2. InStream(c)' = InStream(c) \cup {parsing}
          BY <1>4, <4>1 DEF InStream, Holding
        <4> QED
          BY <2>1, <2>2, <3>3, <3>4, <4>2 DEF VanishInv
      <3>5. CASE queue'[c] = queue[c] /\ lost'[c] = lost[c] \cup {parsing}
        <4>1. InStream(c)' = InStream(c)
          BY <1>4, <3>5 DEF InStream, Holding
        <4> QED
          BY <2>1, <2>2, <3>3, <3>5, <4>1 DEF VanishInv
      <3> QED
        BY <1>2, <1>4, <1>5, <2>2, <3>4, <3>5
    <2>3. CASE d # c
      <3>1. queue'[d] = queue[d] /\ lost'[d] = lost[d]
        BY <1>2, <1>4, <1>5, <2>3
      <3>2. InStream(d)' = InStream(d)
        BY <1>4, <3>1 DEF InStream, Holding
      <3>3. Settled(d)' = Settled(d)
        <4>1. CASE Ahead(d)
          <5>1. Ahead(d)' /\ parsing' = parsing
            BY <1>4, <1>7, <2>3, <4>1 DEF Ahead, LoopFree
          <5> QED
            BY <1>4, <4>1, <5>1 DEF Settled
        <4>2. CASE ~Ahead(d)
          BY <1>4, <1>7, <2>3, <4>2 DEF Settled
        <4> QED
          BY <4>1, <4>2
      <3> QED
        BY <2>1, <3>1, <3>2, <3>3 DEF VanishInv
    <2> QED
      BY <2>2, <2>3
  <1> QED
    BY <1>8

LEMMA ReceiveVanish ==
  ASSUME IInv, NEW k \in Conns, Receive(k), \A c \in Consumers : VanishInv(c)
  PROVE  \A c \in Consumers : VanishInv(c)'
  <1>1. /\ parsing = 0 /\ wire[k] \in Seq(Nat) /\ wire[k] # <<>>
        /\ received \in Seq([conn : Conns, number : Nat])
    BY DEF IInv, TypeOK, Receive, LoopFree
  <1>2. Len(received') = Len(received) + 1 /\ Len(received) \in Nat
    BY <1>1 DEF Receive
  <1>3. /\ parsing' = Len(received) + 1 /\ stage' = 1
        /\ UNCHANGED <<queue, fetched, out, lost>>
    BY <1>2 DEF Receive, worked
  <1>4. ASSUME NEW c \in Consumers PROVE VanishInv(c)'
    <2>1. ~Ahead(c)
      BY <1>1 DEF Ahead, LoopFree
    <2>2. Ahead(c)'
      <3>1. \E i \in 1 .. Len(Puts) : Puts[i] = c
        BY DEF Puts, Consumers
      <3> QED
        BY <1>2, <1>3, <3>1 DEF Ahead, LoopFree
    <2>3. Settled(c) = 1 .. Len(received)
      BY <2>1, SettledParts
    <2>4. Settled(c)' = (1 .. Len(received) + 1) \ {Len(received) + 1}
      BY <1>2, <1>3, <2>2 DEF Settled
    <2>5. Settled(c)' = Settled(c)
      BY <1>2, <2>3, <2>4
    <2>6. VanishInv(c) /\ InStream(c)' = InStream(c)
      BY <1>3 DEF InStream, Holding
    <2> QED
      BY <1>3, <2>5, <2>6 DEF VanishInv
  <1> QED
    BY <1>4

LEMMA ConsumerVanish ==
  ASSUME IInv, NEW c \in Consumers, Get(c) \/ Consume(c),
         \A d \in Consumers : VanishInv(d)
  PROVE  \A d \in Consumers : VanishInv(d)'
  <1>1. /\ UNCHANGED <<received, parsing, stage>>
        /\ \A d \in Consumers \ {c} :
              /\ queue'[d] = queue[d] /\ fetched'[d] = fetched[d]
              /\ out'[d] = out[d] /\ lost'[d] = lost[d]
    BY DEF Get, Consume, Work, WorkFails, parse, worked, IInv, TypeOK
  <1>2. \A d \in Consumers : Settled(d)' = Settled(d)
    BY <1>1 DEF Settled, Ahead, LoopFree
  <1>3. ASSUME NEW d \in Consumers, d # c PROVE VanishInv(d)'
    <2>1. VanishInv(d) /\ InStream(d)' = InStream(d)
      BY <1>1, <1>3 DEF InStream, Holding
    <2> QED
      BY <1>1, <1>2, <1>3, <2>1 DEF VanishInv
  <1>4. /\ queue[c] \in Seq(Nat) /\ out[c] \in Seq(Nat) /\ fetched[c] \in Nat
        /\ queue \in [Consumers -> Seq(Nat)] /\ fetched \in [Consumers -> Nat]
        /\ out \in [Consumers -> Seq(Nat)] /\ lost \in [Consumers -> SUBSET Nat]
        /\ VanishInv(c) /\ StreamInv(c)
    BY DEF IInv, TypeOK
  <1>5. CASE Get(c)
    <2>1. /\ queue[c] # <<>> /\ fetched[c] = 0
          /\ queue'[c] = Tail(queue[c]) /\ fetched'[c] = Head(queue[c])
          /\ out'[c] = out[c] /\ lost'[c] = lost[c]
      BY <1>4, <1>5 DEF Get, worked
    <2>2. Elements(queue[c]) = {fetched'[c]} \cup Elements(queue'[c])
      BY <1>4, <2>1, ElementsTail
    <2>3. fetched'[c] # 0
      <3>1. Elements(queue[c]) \subseteq Settled(c)
        BY <1>4 DEF VanishInv, InStream
      <3>2. 0 \notin Settled(c)
        BY DEF Settled
      <3> QED
        BY <2>2, <3>1, <3>2
    <2>4. InStream(c)' = InStream(c)
      BY <2>1, <2>2, <2>3 DEF InStream, Holding
    <2>5. VanishInv(c)'
      BY <1>2, <1>4, <2>1, <2>4 DEF VanishInv
    <2> QED
      BY <1>3, <2>5
  <1>6. CASE Work(c)
    <2>1. /\ fetched[c] # 0 /\ fetched'[c] = 0
          /\ out'[c] = Append(out[c], fetched[c])
          /\ queue'[c] = queue[c] /\ lost'[c] = lost[c]
      BY <1>4, <1>6 DEF Work
    <2>2. Elements(out'[c]) = Elements(out[c]) \cup {fetched[c]}
      BY <1>4, <2>1, ElementsAppend
    <2>3. InStream(c)' = InStream(c)
      BY <2>1, <2>2 DEF InStream, Holding
    <2>4. VanishInv(c)'
      BY <1>2, <1>4, <2>1, <2>3 DEF VanishInv
    <2> QED
      BY <1>3, <2>4
  <1>7. CASE WorkFails(c)
    <2> DEFINE f == fetched[c]
    <2>1. /\ f # 0 /\ fetched'[c] = 0 /\ out'[c] = out[c]
          /\ queue'[c] = queue[c] /\ lost'[c] = lost[c] \cup {f}
      BY <1>4, <1>7 DEF WorkFails
    <2>2. f \notin Elements(out[c]) /\ f \notin Elements(queue[c])
      <3>1. /\ \A i \in 1 .. Len(out[c]) : out[c][i] \in Nat /\ out[c][i] < f
            /\ \A j \in 1 .. Len(queue[c]) : queue[c][j] \in Nat /\ f < queue[c][j]
        <4>1. /\ \A i \in 1 .. Len(out[c]) : out[c][i] \in Nat
              /\ \A j \in 1 .. Len(queue[c]) : queue[c][j] \in Nat
          BY <1>4
        <4> QED
          BY <1>4, <2>1, <4>1 DEF StreamInv
      <3>2. \A n \in Nat : (n < f \/ f < n) => n # f
        BY <1>4
      <3>3. DOMAIN out[c] = 1 .. Len(out[c]) /\ DOMAIN queue[c] = 1 .. Len(queue[c])
        BY <1>4
      <3> QED
        BY <3>1, <3>2, <3>3 DEF Elements
    <2>3. InStream(c) = InStream(c)' \cup {f} /\ f \notin InStream(c)'
      BY <2>1, <2>2 DEF InStream, Holding
    <2>4. VanishInv(c)'
      BY <1>2, <1>4, <2>1, <2>3 DEF VanishInv
    <2> QED
      BY <1>3, <2>4
  <1> QED
    BY <1>5, <1>6, <1>7 DEF Consume

\* For each consumer every packet received is in its stream or known to have
\* been dropped, never both, for every capacity and every interleaving.
THEOREM NothingEverVanishes == Spec => []NothingVanishes
  <1> DEFINE I == \A c \in Consumers : VanishInv(c)
  <1>1. Init => I
    <2> SUFFICES ASSUME Init, NEW c \in Consumers PROVE VanishInv(c)
      OBVIOUS
    <2>1. /\ received = <<>> /\ out[c] = <<>> /\ queue[c] = <<>>
          /\ fetched[c] = 0 /\ lost[c] = {}
      BY DEF Init
    <2> QED
      BY <2>1 DEF VanishInv, InStream, Holding, Elements, Settled
  <1>2. IInv /\ I /\ [Next]_vars => I'
    <2> SUFFICES ASSUME IInv, I, [Next]_vars PROVE I'
      OBVIOUS
    <2>1. CASE Device \/ Open \/ Close \/ (\E k \in Conns : LoseTail(k))
                 \/ UNCHANGED vars
      <3>1. UNCHANGED served /\ lost' = lost
        BY <2>1 DEF Device, ReadBlock, CheckConnection, Send, SendFails, Open,
                    Close, LoseTail, served, parse, worked, vars
      <3> QED
        BY <3>1 DEF served, VanishInv, InStream, Holding, Settled, Ahead, LoopFree
    <2>2. ASSUME NEW k \in Conns, Receive(k) PROVE I'
      BY <2>2, ReceiveVanish
    <2>3. CASE Put
      BY <2>3, PutVanish
    <2>4. ASSUME NEW c \in Consumers, Get(c) \/ Consume(c) PROVE I'
      BY <2>4, ConsumerVanish
    <2> QED
      BY <2>1, <2>2, <2>3, <2>4 DEF Next
  <1>3. IInv /\ I => NothingVanishes
    BY StreamElements DEF IInv, NothingVanishes, VanishInv
  <1> QED
    BY <1>1, <1>2, <1>3, Invariance, PTL DEF Spec
=============================================================================
