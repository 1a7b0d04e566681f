-------------------------- MODULE LedStrip_proofs --------------------------
(***************************************************************************)
(* What a refresh reports as done is what the LEDs show: for every length  *)
(* of the strip, number of symbols of a pixel and size of the symbol       *)
(* memory, whatever calls fail.                                            *)
(*                                                                         *)
(* While the caller waits, the wire carries the first part of the buffer   *)
(* that is being sent, up to where the encoder is; the sessions only cut   *)
(* it.  A wait that fails leaves the transmission behind, with the channel *)
(* enabled: no later refresh comes past rmt_enable, so that nothing is     *)
(* promised any more.                                                      *)
(***************************************************************************)
EXTENDS LedStrip, TLAPS

\* What may be on the wire.
Signals == {Symbol(b, i) : b \in Pixels, i \in Int}

\* Nothing is under way: no symbol on the wire, the encoder at its start.
AtRest == tx = "none" /\ state = 0 /\ sent = 0 /\ wire = <<>>

\* The encoder has sent the buffer up to here.
Encoding ==
    IF state = 0 THEN sent < Total /\ wire = Data(buf, 1, sent)
                 ELSE sent = 0 /\ wire = Data(buf, 1, Total)

\* The RMT driver.
RmtInv ==
    /\ chan = "init" => AtRest /\ call \notin {"transmit", "wait", "disable"}
    /\ call \in {"enable", "transmit", "wait"} => buf = flushed
    /\ call \in {"enable", "transmit", "wait", "disable"} => result = "none"
    /\ call = "transmit" => AtRest
    /\ call = "wait" => tx \in {"encoding", "done"}
    /\ call = "wait" /\ tx = "encoding" => Encoding
    /\ call = "wait" /\ tx = "done" => state = 0 /\ sent = 0 /\ wire = <<>>
                                                 /\ shown = flushed
    /\ call = "disable" => AtRest /\ shown = flushed
    /\ result = "ok" /\ life = "live" => chan = "init" /\ shown = flushed

\* The SPI driver: no encoder ever runs.
SpiInv == tx = "none" /\ call \notin {"enable", "wait", "disable"}

DriverInv == /\ driver = "rmt" => RmtInv
             /\ driver = "spi" => SpiInv

StripInv == TypeOK /\ wire \in Seq(Signals) /\ DriverInv
-----------------------------------------------------------------------------
(* Arithmetic: where a symbol is in its frame.                             *)

LEMMA QuotientUnique ==
    ASSUME NEW s \in Nat \ {0}, NEW a \in Int, NEW b \in Int,
           NEW q \in 0 .. s - 1, NEW r \in 0 .. s - 1, s * a + q = s * b + r
    PROVE  a = b /\ q = r
<1>1. s * (a - b) = r - q
  OBVIOUS
<1>2. CASE a - b >= 1
  <2>1. s * (a - b) >= s
    BY <1>2
  <2> QED  BY <1>1, <2>1
<1>3. CASE a - b <= -1
  <2>1. s * (a - b) <= -s
    BY <1>3
  <2> QED  BY <1>1, <2>1
<1>4. CASE a = b
  BY <1>4
<1> QED  BY <1>2, <1>3, <1>4

LEMMA DivMod ==
    ASSUME NEW s \in Nat \ {0}, NEW a \in Nat, NEW r \in 0 .. s - 1
    PROVE  (a * s + r) \div s = a /\ (a * s + r) % s = r
<1> DEFINE n == a * s + r
<1>1. n \in Nat /\ n = s * a + r
  OBVIOUS
<1> HIDE DEF n
<1>2. /\ n \div s \in Int /\ n % s \in 0 .. s - 1
      /\ n = s * (n \div s) + (n % s)
  BY <1>1
<1>3. n \div s = a /\ n % s = r
  BY <1>1, <1>2, QuotientUnique
<1> QED  BY <1>3 DEF n

\* The symbols of LED p are within the frame.
LEMMA Within ==
    ASSUME NEW n \in Nat, NEW p \in 1 .. n, NEW s \in Nat \ {0}
    PROVE  /\ p * s \in Nat /\ (p - 1) * s \in Nat /\ n * s \in Nat
           /\ p * s <= n * s /\ (p - 1) * s + s = p * s
<1>1. (p - 1) * s \in Nat /\ (p - 1) * s + s = p * s
  OBVIOUS
<1>2. (n - p) * s \in Nat /\ (n - p) * s + p * s = n * s
  OBVIOUS
<1> QED  BY <1>1, <1>2

-----------------------------------------------------------------------------
(* The wire.                                                               *)

LEMMA Sizes ==
    ASSUME TypeOK
    PROVE  /\ leds \in Nat \ {0} /\ Symbols \in Nat \ {0} /\ Memory \in Nat \ {0}
           /\ Total \in Nat \ {0} /\ driver \in {"rmt", "spi"}
<1>1. /\ leds \in Nat \ {0} /\ Symbols \in Nat \ {0} /\ Memory \in Nat \ {0}
      /\ driver \in {"rmt", "spi"}
  BY StripAssumption DEF TypeOK
<1>2. \A a, b \in Nat \ {0} : a * b \in Nat \ {0}
  OBVIOUS
<1> QED  BY <1>1, <1>2 DEF Total

LEMMA FunctionSeq ==
    ASSUME NEW S, NEW n \in Nat, NEW f \in [1 .. n -> S]
    PROVE  f \in Seq(S) /\ Len(f) = n
OBVIOUS

LEMMA SeqFunction ==
    ASSUME NEW S, NEW f \in Seq(S)
    PROVE  f = [i \in 1 .. Len(f) |-> f[i]]
OBVIOUS

LEMMA DataTo ==
    ASSUME NEW b \in Pixels, NEW n \in Nat
    PROVE  /\ Data(b, 1, n) = [i \in 1 .. n |-> Symbol(b, i)]
           /\ Data(b, 1, n) \in Seq(Signals) /\ Len(Data(b, 1, n)) = n
<1>1. n - 1 + 1 = n /\ \A i \in 1 .. n : 1 + i - 1 = i /\ i \in Int
  OBVIOUS
<1>2. Data(b, 1, n) = [i \in 1 .. n - 1 + 1 |-> Symbol(b, 1 + i - 1)]
  BY DEF Data
<1>3. Data(b, 1, n) = [i \in 1 .. n |-> Symbol(b, i)]
  BY <1>1, <1>2
<1>4. Data(b, 1, n) \in [1 .. n -> Signals]
  BY <1>1, <1>3 DEF Signals
<1> QED  BY <1>3, <1>4, FunctionSeq

LEMMA DataFrom ==
    ASSUME NEW b \in Pixels, NEW k \in Nat, NEW d \in Nat
    PROVE  /\ Data(b, k + 1, k + d) = [i \in 1 .. d |-> Symbol(b, k + i)]
           /\ Data(b, k + 1, k + d) \in Seq(Signals)
           /\ Len(Data(b, k + 1, k + d)) = d
<1> DEFINE v == Data(b, k + 1, k + d)
<1>1. /\ (k + d) - (k + 1) + 1 = d
      /\ \A i \in 1 .. d : (k + 1) + i - 1 = k + i /\ k + i \in Int
  OBVIOUS
<1>2. v = [i \in 1 .. (k + d) - (k + 1) + 1 |-> Symbol(b, (k + 1) + i - 1)]
  BY DEF Data
<1>3. v = [i \in 1 .. d |-> Symbol(b, k + i)]
  BY <1>1, <1>2
<1> HIDE DEF v
<1>4. v \in [1 .. d -> Signals]
  BY <1>1, <1>3 DEF Signals
<1>5. v \in Seq(Signals) /\ Len(v) = d
  BY <1>4, FunctionSeq
<1> QED  BY <1>3, <1>5 DEF v

\* Two sessions in a row send what one would have sent.
LEMMA DataJoin ==
    ASSUME NEW b \in Pixels, NEW k \in Nat, NEW d \in Nat
    PROVE  Data(b, 1, k) \o Data(b, k + 1, k + d) = Data(b, 1, k + d)
<1> DEFINE u == Data(b, 1, k)
           v == Data(b, k + 1, k + d)
           n == k + d
           w == Data(b, 1, n)
           c == u \o v
<1>1. u = [i \in 1 .. k |-> Symbol(b, i)] /\ u \in Seq(Signals) /\ Len(u) = k
  BY DataTo
<1>2. v = [i \in 1 .. d |-> Symbol(b, k + i)] /\ v \in Seq(Signals) /\ Len(v) = d
  BY DataFrom
<1>3. n \in Nat
  OBVIOUS
<1> HIDE DEF n
<1>4. w = [i \in 1 .. n |-> Symbol(b, i)]
  BY <1>3, DataTo
<1> HIDE DEF u, v, w
<1>5. c \in Seq(Signals) /\ Len(c) = n
  BY <1>1, <1>2 DEF n
<1>6. ASSUME NEW i \in 1 .. n PROVE c[i] = Symbol(b, i)
  <2>1. CASE i <= k
    <3>1. i \in 1 .. k
      BY <1>3, <2>1
    <3>2. c[i] = u[i]
      BY <1>1, <1>2, <3>1
    <3> QED  BY <1>1, <3>1, <3>2
  <2>2. CASE i > k
    <3> DEFINE j == i - k
    <3>1. j \in 1 .. d /\ k + j = i
      BY <1>3, <2>2 DEF n
    <3>2. c[i] = v[j]
      BY <1>1, <1>2, <3>1
    <3> HIDE DEF j
    <3>3. v[j] = Symbol(b, k + j)
      BY <1>2, <3>1
    <3>4. Symbol(b, k + j) = Symbol(b, i)
      BY <3>1
    <3> QED  BY <3>2, <3>3, <3>4
  <2>3. i <= k \/ i > k
    BY <1>3
  <2> QED  BY <2>1, <2>2, <2>3
<1> HIDE DEF c
<1>7. c = [i \in 1 .. n |-> c[i]]
  BY <1>5, SeqFunction
<1>8. c = w
  BY <1>4, <1>6, <1>7
<1> QED  BY <1>8 DEF c, u, v, w, n

LEMMA OnWireType ==
    ASSUME TypeOK, wire \in Seq(Signals), NEW data \in Seq(Signals)
    PROVE  /\ OnWire(data) \in Seq(Signals) /\ Len(OnWire(data)) <= Frames * Total
           /\ Len(wire) + Len(data) <= Frames * Total => OnWire(data) = wire \o data
<1> DEFINE w == wire \o data
           m == Frames * Total
<1>1. w \in Seq(Signals) /\ Len(w) = Len(wire) + Len(data) /\ Len(w) \in Nat
  OBVIOUS
<1>2. m \in Nat
  BY Sizes DEF Frames
<1>3. OnWire(data) = IF Len(w) <= m THEN w ELSE SubSeq(w, 1, m)
  BY DEF OnWire
<1> HIDE DEF w, m
<1>4. CASE Len(w) <= m
  <2>1. OnWire(data) = w
    BY <1>3, <1>4
  <2> QED  BY <1>1, <1>2, <1>4, <2>1 DEF w, m
<1>5. CASE ~(Len(w) <= m)
  <2>1. SubSeq(w, 1, m) \in Seq(Signals) /\ Len(SubSeq(w, 1, m)) = m
    BY <1>1, <1>2, <1>5
  <2>2. OnWire(data) = SubSeq(w, 1, m)
    BY <1>3, <1>5
  <2> QED  BY <1>1, <1>2, <1>5, <2>1, <2>2 DEF w, m
<1> QED  BY <1>4, <1>5

\* An LED that receives a frame keeps its own pixel.
LEMMA LatchedFrame ==
    ASSUME TypeOK, NEW b \in Pixels
    PROVE  Latched(Data(b, 1, Total)) = b
<1> DEFINE w == Data(b, 1, Total)
           mine(p) == SubSeq(w, (p - 1) * Symbols + 1, p * Symbols)
           of(v) == [k \in 1 .. Symbols |-> <<v, k - 1>>]
<1>1. /\ leds \in Nat \ {0} /\ Symbols \in Nat \ {0} /\ Total \in Nat \ {0}
  BY Sizes
<1>2. /\ w \in Seq(Signals) /\ Len(w) = Total
      /\ \A i \in 1 .. Total : w[i] = Symbol(b, i)
  <2>1. /\ w = [i \in 1 .. Total |-> Symbol(b, i)]
        /\ w \in Seq(Signals) /\ Len(w) = Total
    BY <1>1, DataTo
  <2> HIDE DEF w
  <2> QED  BY <2>1
<1> HIDE DEF w
<1>3. ASSUME NEW p \in Leds
      PROVE  ~(Len(w) < p * Symbols) /\ mine(p) = of(b[p]) /\ b[p] \in Colors \union {Off}
  <2> DEFINE a == (p - 1) * Symbols
             z == p * Symbols
  <2>1. p \in 1 .. leds /\ leds \in Nat /\ p - 1 \in Nat
    BY <1>1 DEF Leds
  <2>2. a \in Nat /\ z \in Nat /\ z <= Total /\ a + Symbols = z
    BY <1>1, <2>1, Within DEF Total
  <2>3. b[p] \in Colors \union {Off}
    BY DEF Pixels
  <2>4. ASSUME NEW k \in 1 .. Symbols
        PROVE  Symbol(b, a + k) = <<b[p], k - 1>>
    <3>1. k - 1 \in 0 .. Symbols - 1
      BY <1>1
    <3>2. (a + (k - 1)) \div Symbols = p - 1 /\ (a + (k - 1)) % Symbols = k - 1
      BY <1>1, <2>1, <3>1, DivMod
    <3> HIDE DEF a
    <3>3. (a + k) - 1 = a + (k - 1)
      BY <2>2
    <3>4. (p - 1) + 1 = p
      BY <2>1
    <3> QED  BY <3>2, <3>3, <3>4 DEF Symbol
  <2> HIDE DEF a, z
  <2>5. SubSeq(w, a + 1, z) = [k \in 1 .. Symbols |-> w[a + k]]
    <3>1. z - (a + 1) + 1 = Symbols /\ \A k \in 1 .. Symbols : (a + 1) + k - 1 = a + k
      BY <1>1, <2>2
    <3>2. SubSeq(w, a + 1, z) = [k \in 1 .. z - (a + 1) + 1 |-> w[(a + 1) + k - 1]]
      BY <1>2, <2>2
    <3> QED  BY <3>1, <3>2
  <2>6. \A k \in 1 .. Symbols : a + k \in 1 .. Total
    BY <1>1, <2>2
  <2>7. SubSeq(w, a + 1, z) = of(b[p])
    BY <1>2, <2>4, <2>5, <2>6
  <2>8. ~(Len(w) < z)
    BY <1>1, <1>2, <2>2
  <2> QED  BY <2>3, <2>7, <2>8 DEF a, z
<1>4. \A v : of(v)[1][1] = v
  BY <1>1
<1> HIDE DEF mine, of
<1>5. ASSUME NEW p \in Leds
      PROVE  (IF Len(w) < p * Symbols THEN shown[p]
              ELSE IF \E v \in Colors \union {Off} : mine(p) = of(v)
                   THEN mine(p)[1][1] ELSE "mixed") = b[p]
  <2>1. \E v \in Colors \union {Off} : mine(p) = of(v)
    BY <1>3
  <2>2. mine(p)[1][1] = b[p]
    BY <1>3, <1>4
  <2> QED  BY <1>3, <2>1, <2>2
<1>6. Latched(w) = [p \in Leds |->
                      IF Len(w) < p * Symbols THEN shown[p]
                      ELSE IF \E v \in Colors \union {Off} : mine(p) = of(v)
                           THEN mine(p)[1][1] ELSE "mixed"]
  BY DEF Latched, mine, of
<1>7. b = [p \in Leds |-> b[p]]
  BY DEF Pixels
<1> QED  BY <1>5, <1>6, <1>7 DEF w

LEMMA LatchedType ==
    ASSUME TypeOK, NEW w
    PROVE  Latched(w) \in [Leds -> Colors \union {Off, "mixed"}]
<1> DEFINE mine(p) == SubSeq(w, (p - 1) * Symbols + 1, p * Symbols)
           of(v) == [k \in 1 .. Symbols |-> <<v, k - 1>>]
<1>1. Symbols \in Nat \ {0}
  BY Sizes
<1>2. \A v : of(v)[1][1] = v
  BY <1>1
<1> HIDE DEF of
<1>3. \A p : (\E v \in Colors \union {Off} : mine(p) = of(v))
                => mine(p)[1][1] \in Colors \union {Off}
  BY <1>2
<1>4. \A p \in Leds : shown[p] \in Colors \union {Off, "mixed"}
  BY DEF TypeOK
<1> HIDE DEF mine
<1>5. Latched(w) = [p \in Leds |->
                      IF Len(w) < p * Symbols THEN shown[p]
                      ELSE IF \E v \in Colors \union {Off} : mine(p) = of(v)
                           THEN mine(p)[1][1] ELSE "mixed"]
  BY DEF Latched, mine, of
<1> QED  BY <1>3, <1>4, <1>5
-----------------------------------------------------------------------------
(* The steps.                                                              *)

\* The strip does not change.
LEMMA SameStrip ==
    ASSUME UNCHANGED strip
    PROVE  /\ UNCHANGED <<driver, leds, Leds, Total, Pixels, Signals, Blank, Things>>
           /\ \A b, f, l : Data(b, f, l)' = Data(b, f, l)
<1>1. UNCHANGED <<driver, leds>>
  BY DEF strip
<1>2. UNCHANGED <<Leds, Total>>
  BY <1>1 DEF Leds, Total
<1>3. UNCHANGED <<Pixels, Blank, Things>>
  BY <1>1, <1>2 DEF Pixels, Blank, Things
<1>4. UNCHANGED Signals
  BY <1>3 DEF Signals, Symbol
<1> QED  BY <1>1, <1>2, <1>3, <1>4 DEF Data, Symbol

LEMMA StripInit == Init => StripInv
<1> SUFFICES ASSUME Init PROVE StripInv
  OBVIOUS
<1>1. Total \in Nat
  <2>1. leds \in Nat /\ Symbols \in Nat
    BY StripAssumption DEF Init
  <2> QED  BY <2>1 DEF Total
<1>2. /\ wire = <<>> /\ Len(wire) = 0 /\ wire \in Seq(Signals)
  <2>1. <<>> \in Seq(Signals) /\ Len(<<>>) = 0
    OBVIOUS
  <2> QED  BY <2>1 DEF Init
<1>3. buf \in Pixels /\ flushed \in Pixels
  BY DEF Init, Blank, Pixels
<1>4. Frames * Total \in Nat
  BY <1>1 DEF Frames
<1>5. sent \in 0 .. Total /\ free \in 0 .. Memory
  BY <1>1, StripAssumption DEF Init
<1>6. TypeOK
  BY <1>2, <1>3, <1>4, <1>5 DEF Init, TypeOK
<1>7. DriverInv
  BY DEF Init, DriverInv, RmtInv, SpiInv, AtRest
<1> QED  BY <1>2, <1>6, <1>7 DEF StripInv

\* A step that leaves the strip and all that moves on the wire alone.
LEMMA QuietTypes ==
    ASSUME StripInv, UNCHANGED <<strip, state, sent, free, tx, wire, shown>>,
           UNCHANGED chan \/ chan' \in {"init", "enabled"},
           life' \in {"none", "live", "half", "deleted"},
           \A t \in owned' : \E i \in DOMAIN Things : Things[i] = t,
           buf' \in Pixels, flushed' \in Pixels,
           call' \in {"idle", "new", "enable", "transmit", "wait", "disable", "del"},
           user' \in {"none", "init", "set", "off"},
           {result', told'} \subseteq {"none", "made", "ok", "fail"}
    PROVE  TypeOK' /\ wire' \in Seq(Signals')
<1>1. UNCHANGED <<driver, leds, Leds, Total, Pixels, Signals, Things>>
  BY SameStrip
<1>2. wire' \in Seq(Signals')
  BY <1>1 DEF StripInv
<1>3. TypeOK'
  BY <1>1 DEF StripInv, TypeOK
<1> QED  BY <1>2, <1>3

LEMMA ReturnTypes ==
    ASSUME TypeOK, NEW r \in {"none", "made", "ok", "fail"}, Return(r)
    PROVE  /\ call' = "idle" /\ result' = r /\ user' = "none"
           /\ {result', told'} \subseteq {"none", "made", "ok", "fail"}
BY DEF Return

\* A call fails.
LEMMA FailsStep ==
    ASSUME StripInv, NEW step, Fails(step)
    PROVE  StripInv'
<1>1. /\ UNCHANGED <<memory, buf, channel, lamps, flushed>> /\ Return("fail")
  BY DEF Fails
<1>2. /\ UNCHANGED <<strip, driver, leds, life, owned, buf, flushed, chan, state, sent,
                    free, tx, wire, shown>>
  BY <1>1 DEF memory, strip, channel, lamps
<1>3. /\ call' = "idle" /\ result' = "fail" /\ user' = "none"
      /\ {result', told'} \subseteq {"none", "made", "ok", "fail"}
  BY <1>1, ReturnTypes DEF StripInv
<1>4. TypeOK' /\ wire' \in Seq(Signals')
  BY <1>2, <1>3, QuietTypes DEF StripInv, TypeOK
<1>5. DriverInv'
  BY <1>2, <1>3 DEF StripInv, DriverInv, RmtInv, SpiInv, AtRest
<1> QED  BY <1>4, <1>5 DEF StripInv

\* A refresh begins.
LEMMA SendsStep ==
    ASSUME StripInv, NEW u \in {"none", "set", "off"}, Ready(u),
           NEW pixels \in Pixels, Sends(pixels)
    PROVE  StripInv'
<1>1. /\ UNCHANGED <<strip, driver, leds, life, owned, chan, state, sent, free, tx, wire, shown>>
      /\ buf' = pixels /\ flushed' = pixels /\ call' = FirstStep
      /\ result' = "none" /\ told' = "none" /\ user' = u
  BY DEF Sends, Send, Ready, memory, strip, channel, lamps
<1>2. driver \in {"rmt", "spi"}
  BY Sizes DEF StripInv
<1>3. FirstStep = IF driver = "rmt" THEN "enable" ELSE "transmit"
  BY DEF FirstStep
<1>4. TypeOK' /\ wire' \in Seq(Signals')
  BY <1>1, <1>3, QuietTypes DEF StripInv, TypeOK
<1>5. DriverInv'
  BY <1>1, <1>2, <1>3 DEF StripInv, DriverInv, RmtInv, SpiInv, AtRest
<1> QED  BY <1>4, <1>5 DEF StripInv

LEMMA BeginStep ==
    ASSUME StripInv, NEW u \in {"none", "init"}, Begin(u)
    PROVE  StripInv'
<1>1. /\ UNCHANGED <<strip, driver, leds, life, owned, buf, flushed, chan, state, sent,
                    free, tx, wire, shown, result, told>>
      /\ call' = "new" /\ user' = u /\ life = "none"
  BY DEF Begin, memory, strip, channel, lamps, report
<1>2. TypeOK' /\ wire' \in Seq(Signals')
  BY <1>1, QuietTypes DEF StripInv, TypeOK
<1>3. DriverInv'
  BY <1>1 DEF StripInv, DriverInv, RmtInv, SpiInv, AtRest
<1> QED  BY <1>2, <1>3 DEF StripInv

\* There is a first thing to allocate.
LEMMA FirstMissing ==
    ASSUME Missing # {}
    PROVE  LET i == CHOOSE k \in Missing : \A j \in Missing : k <= j
           IN  i \in Missing
<1>1. DOMAIN Things \subseteq 1 .. 5
  BY DEF Things
<1>2. Missing \subseteq 1 .. 5
  BY <1>1 DEF Missing
<1>3. \E k \in Missing : \A j \in Missing : k <= j
  <2>1. CASE 1 \in Missing
    BY <1>2, <2>1
  <2>2. CASE 1 \notin Missing /\ 2 \in Missing
    BY <1>2, <2>2
  <2>3. CASE {1, 2} \intersect Missing = {} /\ 3 \in Missing
    BY <1>2, <2>3
  <2>4. CASE {1, 2, 3} \intersect Missing = {} /\ 4 \in Missing
    BY <1>2, <2>4
  <2>5. CASE {1, 2, 3, 4} \intersect Missing = {} /\ 5 \in Missing
    BY <1>2, <2>5
  <2>6. \E k \in Missing : k \in {1, 2, 3, 4, 5}
    <3>1. 1 .. 5 = {1, 2, 3, 4, 5}
      OBVIOUS
    <3> QED  BY <1>2, <3>1
  <2> QED  BY <2>1, <2>2, <2>3, <2>4, <2>5, <2>6
<1> QED  BY <1>3

LEMMA AllocateStep == ASSUME StripInv, Allocate PROVE StripInv'
<1> DEFINE i == CHOOSE k \in Missing : \A j \in Missing : k <= j
<1>1. i \in DOMAIN Things
  BY FirstMissing DEF Allocate, Missing
<1>2. /\ UNCHANGED <<strip, driver, leds, chan, state, sent, free, tx, wire, shown>>
      /\ owned' = owned \union {Things[i]} /\ call = "new"
  BY DEF Allocate, strip, channel, lamps
<1>3. \/ UNCHANGED <<life, buf, flushed, call, user, result, told>>
      \/ life' = "live" /\ user = "init" /\ Send(Blank) /\ UNCHANGED user
      \/ life' = "live" /\ Return("made") /\ UNCHANGED <<buf, flushed>>
  BY DEF Allocate, report
<1> HIDE DEF i
<1>4. \A t \in owned' : \E k \in DOMAIN Things : Things[k] = t
  BY <1>1, <1>2 DEF StripInv, TypeOK
<1>5. CASE UNCHANGED <<life, buf, flushed, call, user, result, told>>
  <2>1. TypeOK' /\ wire' \in Seq(Signals')
    BY <1>2, <1>4, <1>5, QuietTypes DEF StripInv, TypeOK
  <2>2. UNCHANGED Total
    BY <1>2, SameStrip
  <2>3. DriverInv'
    BY <1>2, <1>5, <2>2 DEF StripInv, DriverInv, RmtInv, SpiInv, AtRest
  <2> QED  BY <2>1, <2>3 DEF StripInv
<1>6. CASE life' = "live" /\ user = "init" /\ Send(Blank) /\ UNCHANGED user
  <2>1. /\ buf' = Blank /\ flushed' = Blank /\ call' = FirstStep
        /\ result' = "none" /\ told' = "none"
    BY <1>6 DEF Send
  <2>2. driver \in {"rmt", "spi"}
    BY Sizes DEF StripInv
  <2>3. FirstStep = IF driver = "rmt" THEN "enable" ELSE "transmit"
    BY DEF FirstStep
  <2>4. Blank \in Pixels
    BY DEF Blank, Pixels
  <2>5. TypeOK' /\ wire' \in Seq(Signals')
    BY <1>2, <1>4, <1>6, <2>1, <2>3, <2>4, QuietTypes DEF StripInv, TypeOK
  <2>6. DriverInv'
    BY <1>2, <1>6, <2>1, <2>2, <2>3 DEF StripInv, DriverInv, RmtInv, SpiInv, AtRest
  <2> QED  BY <2>5, <2>6 DEF StripInv
<1>7. CASE life' = "live" /\ Return("made") /\ UNCHANGED <<buf, flushed>>
  <2>1. /\ call' = "idle" /\ result' = "made" /\ user' = "none"
        /\ {result', told'} \subseteq {"none", "made", "ok", "fail"}
    BY <1>7, ReturnTypes DEF StripInv
  <2>2. TypeOK' /\ wire' \in Seq(Signals')
    BY <1>2, <1>4, <1>7, <2>1, QuietTypes DEF StripInv, TypeOK
  <2>3. DriverInv'
    BY <1>2, <1>7, <2>1 DEF StripInv, DriverInv, RmtInv, SpiInv, AtRest
  <2> QED  BY <2>2, <2>3 DEF StripInv
<1> QED  BY <1>3, <1>5, <1>6, <1>7

\* All that has been made is freed again.
LEMMA NewFailsStep == ASSUME StripInv, NewFails PROVE StripInv'
<1>1. /\ UNCHANGED <<strip, driver, leds, life, buf, flushed, chan, state, sent, free,
                    tx, wire, shown>>
      /\ owned' = {} /\ Return("fail")
  BY DEF NewFails, strip, channel, lamps
<1>2. /\ call' = "idle" /\ result' = "fail" /\ user' = "none"
      /\ {result', told'} \subseteq {"none", "made", "ok", "fail"}
  BY <1>1, ReturnTypes DEF StripInv
<1>3. TypeOK' /\ wire' \in Seq(Signals')
  BY <1>1, <1>2, QuietTypes DEF StripInv, TypeOK
<1>4. DriverInv'
  BY <1>1, <1>2 DEF StripInv, DriverInv, RmtInv, SpiInv, AtRest
<1> QED  BY <1>3, <1>4 DEF StripInv

LEMMA SetPixelStep ==
    ASSUME StripInv, NEW p \in Leds, NEW c \in Colors, SetPixel(p, c)
    PROVE  StripInv'
<1>1. /\ UNCHANGED <<strip, driver, leds, life, owned, flushed, call, chan, state, sent,
                    free, tx, wire, shown, result, told>>
      /\ call = "idle" /\ user' = "none" /\ buf' = [buf EXCEPT ![p] = c]
  BY DEF SetPixel, Ready, memory, strip, channel, lamps, report
<1>2. buf' \in Pixels
  BY <1>1 DEF StripInv, TypeOK, Pixels
<1>3. TypeOK' /\ wire' \in Seq(Signals')
  BY <1>1, <1>2, QuietTypes DEF StripInv, TypeOK
<1>4. UNCHANGED Total
  BY <1>1, SameStrip
<1>5. DriverInv'
  BY <1>1, <1>4 DEF StripInv, DriverInv, RmtInv, SpiInv, AtRest
<1> QED  BY <1>3, <1>5 DEF StripInv

LEMMA WithoutStripStep == ASSUME StripInv, RgbLedWithoutStrip PROVE StripInv'
<1>1. /\ UNCHANGED <<strip, driver, leds, life, owned, buf, flushed, call, chan, state,
                    sent, free, tx, wire, shown, user>>
      /\ call = "idle" /\ life = "none" /\ result' = "fail" /\ told' = "ok"
  BY DEF RgbLedWithoutStrip, memory, strip, channel, lamps
<1>2. TypeOK' /\ wire' \in Seq(Signals')
  BY <1>1, QuietTypes DEF StripInv, TypeOK
<1>3. DriverInv'
  BY <1>1 DEF StripInv, DriverInv, RmtInv, SpiInv, AtRest
<1> QED  BY <1>2, <1>3 DEF StripInv

\* A channel that can be enabled is at rest: so is the transmission that follows.
LEMMA EnableStep == ASSUME StripInv, Enable PROVE StripInv'
<1>1. /\ UNCHANGED <<strip, driver, leds, life, owned, buf, flushed, state, sent, free,
                    tx, wire, shown, user, result, told>>
      /\ call = "enable" /\ call' = "transmit" /\ chan = "init" /\ chan' = "enabled"
  BY DEF Enable, Go, memory, strip, lamps, report
<1>2. TypeOK' /\ wire' \in Seq(Signals')
  BY <1>1, QuietTypes DEF StripInv, TypeOK
<1>3. DriverInv'
  BY <1>1 DEF StripInv, DriverInv, RmtInv, SpiInv, AtRest
<1> QED  BY <1>2, <1>3 DEF StripInv

LEMMA TransmitStep == ASSUME StripInv, Transmit PROVE StripInv'
<1>1. /\ UNCHANGED <<strip, driver, leds, life, owned, buf, flushed, chan, state, sent,
                    wire, shown, user, result, told>>
      /\ call = "transmit" /\ call' = "wait" /\ driver = "rmt"
      /\ tx' = "encoding" /\ free' = Memory
  BY DEF Transmit, Go, memory, strip, lamps, report
<1>2. UNCHANGED <<Leds, Total, Pixels, Signals, Things>>
  BY <1>1, SameStrip
<1>3. Memory \in 0 .. Memory /\ Total \in Nat \ {0}
  BY Sizes DEF StripInv
<1>4. TypeOK' /\ wire' \in Seq(Signals')
  BY <1>1, <1>2, <1>3 DEF StripInv, TypeOK
<1>5. AtRest /\ buf = flushed /\ result = "none" /\ chan # "init"
  BY <1>1 DEF StripInv, DriverInv, RmtInv
<1>6. Encoding'
  <2>1. Data(buf, 1, 0) = <<>>
    <3>1. Data(buf, 1, 0) \in Seq(Signals) /\ Len(Data(buf, 1, 0)) = 0
      BY DataTo DEF StripInv, TypeOK
    <3> QED  BY <3>1
  <2>2. 0 < Total
    BY <1>3
  <2> QED  BY <1>1, <1>2, <1>5, <2>1, <2>2 DEF Encoding, AtRest
<1>7. RmtInv'
  BY <1>1, <1>5, <1>6 DEF RmtInv
<1> QED  BY <1>1, <1>4, <1>7 DEF StripInv, DriverInv

LEMMA FlushedStep == ASSUME StripInv, Flushed PROVE StripInv'
<1>1. /\ UNCHANGED <<strip, driver, leds, life, owned, buf, flushed, chan, state, sent,
                    free, wire, shown, user, result, told>>
      /\ call = "wait" /\ call' = "disable" /\ tx = "done" /\ tx' = "none"
  BY DEF Flushed, Go, memory, strip, lamps, report
<1>2. UNCHANGED <<Leds, Total, Pixels, Signals, Things>>
  BY <1>1, SameStrip
<1>3. TypeOK' /\ wire' \in Seq(Signals')
  BY <1>1, <1>2 DEF StripInv, TypeOK
<1>4. DriverInv'
  BY <1>1 DEF StripInv, DriverInv, RmtInv, SpiInv, AtRest
<1> QED  BY <1>3, <1>4 DEF StripInv

LEMMA DisableStep == ASSUME StripInv, Disable PROVE StripInv'
<1>1. /\ UNCHANGED <<strip, driver, leds, life, owned, buf, flushed, state, sent,
                    free, tx, wire, shown>>
      /\ call = "disable" /\ chan' = "init" /\ Return("ok")
  BY DEF Disable, memory, strip, lamps
<1>2. /\ call' = "idle" /\ result' = "ok" /\ user' = "none"
      /\ {result', told'} \subseteq {"none", "made", "ok", "fail"}
  BY <1>1, ReturnTypes DEF StripInv
<1>3. TypeOK' /\ wire' \in Seq(Signals')
  BY <1>1, <1>2, QuietTypes DEF StripInv, TypeOK
<1>4. DriverInv'
  BY <1>1, <1>2 DEF StripInv, DriverInv, RmtInv, SpiInv, AtRest
<1> QED  BY <1>3, <1>4 DEF StripInv

LEMMA DelStep == ASSUME StripInv, Del PROVE StripInv'
<1>1. /\ UNCHANGED <<strip, driver, leds, life, owned, buf, flushed, chan, state, sent,
                    free, tx, wire, shown, result, told>>
      /\ call = "idle" /\ call' = "del" /\ user' = "none"
  BY DEF Del, Ready, memory, strip, channel, lamps, report
<1>2. TypeOK' /\ wire' \in Seq(Signals')
  BY <1>1, QuietTypes DEF StripInv, TypeOK
<1>3. UNCHANGED Total
  BY <1>1, SameStrip
<1>4. DriverInv'
  BY <1>1, <1>3 DEF StripInv, DriverInv, RmtInv, SpiInv, AtRest
<1> QED  BY <1>2, <1>4 DEF StripInv

LEMMA DeletedStep == ASSUME StripInv, DelDone \/ DelHalf PROVE StripInv'
<1>1. /\ UNCHANGED <<strip, driver, leds, buf, flushed, chan, state, sent, free, tx,
                    wire, shown>>
      /\ owned' \subseteq owned /\ life' \in {"half", "deleted"}
      /\ Return("ok") \/ Return("fail")
  BY DEF DelDone, DelHalf, strip, channel, lamps
<1>2. /\ call' = "idle" /\ user' = "none"
      /\ {result', told'} \subseteq {"none", "made", "ok", "fail"}
  BY <1>1, ReturnTypes DEF StripInv
<1>3. TypeOK' /\ wire' \in Seq(Signals')
  BY <1>1, <1>2, QuietTypes DEF StripInv, TypeOK
<1>4. DriverInv'
  BY <1>1, <1>2 DEF StripInv, DriverInv, RmtInv, SpiInv, AtRest
<1> QED  BY <1>3, <1>4 DEF StripInv

LEMMA SpiTransmitStep == ASSUME StripInv, SpiTransmit PROVE StripInv'
<1> DEFINE frame == Data(buf, 1, Total)
<1>1. /\ UNCHANGED <<strip, driver, leds, life, owned, buf, flushed, chan, state, sent,
                    free, tx, shown>>
      /\ driver = "spi" /\ call = "transmit" /\ wire' = OnWire(frame) /\ Return("ok")
  BY DEF SpiTransmit, memory, strip, channel
<1>2. /\ call' = "idle" /\ result' = "ok" /\ user' = "none"
      /\ {result', told'} \subseteq {"none", "made", "ok", "fail"}
  BY <1>1, ReturnTypes DEF StripInv
<1>3. Total \in Nat /\ buf \in Pixels
  BY Sizes DEF StripInv, TypeOK
<1>4. frame \in Seq(Signals)
  BY <1>3, DataTo
<1> HIDE DEF frame
<1>5. wire' \in Seq(Signals) /\ Len(wire') <= Frames * Total
  BY <1>1, <1>4, OnWireType DEF StripInv
<1>6. UNCHANGED <<Leds, Total, Pixels, Signals, Things>>
  BY <1>1, SameStrip
<1>7. TypeOK' /\ wire' \in Seq(Signals')
  BY <1>1, <1>2, <1>5, <1>6 DEF StripInv, TypeOK
<1>8. DriverInv'
  BY <1>1, <1>2 DEF StripInv, DriverInv, SpiInv
<1> QED  BY <1>7, <1>8 DEF StripInv

LEMMA DrainStep == ASSUME StripInv, NEW n \in 1 .. Memory, Drain(n) PROVE StripInv'
<1>1. /\ UNCHANGED <<strip, driver, leds, life, owned, buf, flushed, chan, state, sent,
                    tx, wire, shown, call, user, result, told>>
      /\ free' = n
  BY DEF Drain, memory, strip, lamps, report
<1>2. UNCHANGED <<Leds, Total, Pixels, Signals, Things>>
  BY <1>1, SameStrip
<1>3. n \in 0 .. Memory
  BY Sizes DEF StripInv
<1>4. TypeOK' /\ wire' \in Seq(Signals')
  BY <1>1, <1>2, <1>3 DEF StripInv, TypeOK
<1>5. Encoding => Encoding'
  BY <1>1, <1>2 DEF Encoding
<1>6. DriverInv'
  BY <1>1, <1>2, <1>5 DEF StripInv, DriverInv, RmtInv, SpiInv, AtRest
<1> QED  BY <1>4, <1>6 DEF StripInv

\* An idle wire: on RMT there is then no promise that could be broken.
LEMMA IdlesStep == ASSUME StripInv, Idles PROVE StripInv'
<1>1. /\ UNCHANGED <<strip, driver, leds, life, owned, buf, flushed, chan, state, sent,
                    free, tx, call, user, result, told>>
      /\ wire # <<>> /\ wire' = <<>> /\ tx # "encoding" /\ shown' = Latched(wire)
  BY DEF Idles, memory, strip, channel, report
<1>2. UNCHANGED <<Leds, Total, Pixels, Signals, Things>>
  BY <1>1, SameStrip
<1>3. shown' \in [Leds -> Colors \union {Off, "mixed"}]
  BY <1>1, LatchedType DEF StripInv
<1>4. wire' \in Seq(Signals) /\ Len(wire') <= Frames * Total
  <2>1. <<>> \in Seq(Signals) /\ Len(<<>>) = 0
    OBVIOUS
  <2>2. 0 <= Frames * Total
    BY Sizes DEF StripInv, Frames
  <2> QED  BY <1>1, <2>1, <2>2
<1>5. TypeOK' /\ wire' \in Seq(Signals')
  BY <1>1, <1>2, <1>3, <1>4 DEF StripInv, TypeOK
<1>6. DriverInv'
  BY <1>1 DEF StripInv, DriverInv, RmtInv, SpiInv, AtRest
<1> QED  BY <1>5, <1>6 DEF StripInv

-----------------------------------------------------------------------------
(* The encoder.                                                            *)

\* What a session does, by how much of the frame is left and how much room
\* there is.
LEMMA SessionIs ==
    ASSUME NEW st \in {0, 1}, NEW n \in Nat, NEW room \in Nat \ {0}
    PROVE  LET s == Session(st, n, room)
           IN  /\ s.data \in Nat /\ s.data <= room /\ s.data <= n
               /\ s.reset \in BOOLEAN /\ s.state \in {0, 1}
               /\ s.reset => s.data + 1 <= room /\ s.state = 0
               /\ s.reset => st = 1 \/ s.data = n
               /\ st = 1 => s.reset /\ s.data = 0
               /\ ~s.reset => s.data = room
               /\ ~s.reset => (s.state = 1 <=> s.data = n)
<1> DEFINE data  == IF st = 1 THEN 0 ELSE IF n < room THEN n ELSE room
           ended == st = 1 \/ data = n
           full  == st = 0 /\ data = room
           reset == ended /\ ~full
           next  == IF ended /\ ~reset THEN 1 ELSE 0
<1>1. Session(st, n, room) = [data |-> data, reset |-> reset, state |-> next]
  BY DEF Session
<1>2. data \in Nat /\ data <= room /\ data <= n
  OBVIOUS
<1>3. reset \in BOOLEAN /\ next \in {0, 1}
  OBVIOUS
<1>4. reset => next = 0
  OBVIOUS
<1>5. reset => data + 1 <= room
  <2>1. CASE st = 1
    BY <2>1
  <2>2. CASE st = 0
    <3>1. reset => data # room
      BY <2>2
    <3> HIDE DEF data, reset
    <3> QED  BY <1>2, <3>1
  <2> QED  BY <2>1, <2>2
<1>6. reset => st = 1 \/ data = n
  OBVIOUS
<1>7. st = 1 => reset /\ data = 0
  OBVIOUS
<1>8. ~reset => st = 0 /\ data = room
  OBVIOUS
<1>9. ~reset => (next = 1 <=> data = n)
  OBVIOUS
<1> HIDE DEF data, reset, next
<1> DEFINE s == Session(st, n, room)
<1>10. s.data = data /\ s.state = next
  BY <1>1
<1>11. s.reset = reset
  BY <1>1
<1> HIDE DEF s
<1>12. s.reset <=> reset
  BY <1>11
<1>13. s.reset \in BOOLEAN
  BY <1>3, <1>11
<1> QED
  BY <1>2, <1>3, <1>4, <1>5, <1>6, <1>7, <1>8, <1>9, <1>10, <1>12, <1>13 DEF s

\* The steps of the interrupt handler, with the symbols put on the wire.
LEMMA EncodeIs ==
    ASSUME StripInv, Encode
    PROVE  \E d \in Nat, done \in BOOLEAN :
             /\ sent + d <= Total
             /\ sent' = IF sent + d = Total THEN 0 ELSE sent + d
             /\ free' \in 0 .. Memory /\ state' \in {0, 1}
             /\ tx' = IF done THEN "done" ELSE "encoding"
             /\ wire' = IF done THEN <<>> ELSE OnWire(Data(buf, sent + 1, sent + d))
             /\ shown' = IF done THEN Latched(OnWire(Data(buf, sent + 1, sent + d)))
                                 ELSE shown
             /\ done => state' = 0
             /\ state = 1 => done /\ d = 0
             /\ state = 0 /\ done => sent + d = Total
             /\ state = 0 /\ ~done => (state' = 1 <=> sent + d = Total)
<1> DEFINE n == Total - sent
           s == Session(state, n, free)
           d == s.data
           done == s.reset
<1>1. /\ state \in {0, 1} /\ sent \in 0 .. Total /\ Total \in Nat
      /\ free \in 0 .. Memory /\ Memory \in Nat
  BY Sizes DEF StripInv, TypeOK
<1>2. n \in Nat /\ free \in Nat \ {0} /\ sent + n = Total
  BY <1>1 DEF Encode
<1>3. /\ d \in Nat /\ d <= free /\ d <= n /\ done \in BOOLEAN
      /\ s.state \in {0, 1}
      /\ done => d + 1 <= free /\ s.state = 0
      /\ done => state = 1 \/ d = n
      /\ state = 1 => done /\ d = 0
      /\ ~done => (s.state = 1 <=> d = n)
  <2> HIDE DEF n
  <2> QED  BY <1>1, <1>2, SessionIs
<1>4. /\ state' = s.state
      /\ sent' = IF sent + d = Total THEN 0 ELSE sent + d
      /\ free' = free - d - (IF done THEN 1 ELSE 0)
      /\ tx' = IF done THEN "done" ELSE "encoding"
      /\ wire' = IF done THEN <<>> ELSE OnWire(Data(buf, sent + 1, sent + d))
      /\ shown' = IF done THEN Latched(OnWire(Data(buf, sent + 1, sent + d)))
                          ELSE shown
  BY DEF Encode
<1> HIDE DEF s
<1>5. sent + d <= Total /\ (sent + d = Total <=> d = n)
  BY <1>1, <1>2, <1>3
<1>6. free' \in 0 .. Memory
  BY <1>1, <1>2, <1>3, <1>4
<1> HIDE DEF d, done, n
<1>7. /\ done => state' = 0
      /\ state = 1 => done /\ d = 0
      /\ state = 0 /\ done => sent + d = Total
      /\ state = 0 /\ ~done => (state' = 1 <=> sent + d = Total)
  BY <1>3, <1>4, <1>5
<1>8. d \in Nat /\ done \in BOOLEAN /\ state' \in {0, 1}
  BY <1>3, <1>4
<1> QED  BY <1>4, <1>5, <1>6, <1>7, <1>8

\* While the caller waits, a session goes on where the last one stopped, and
\* the one that ends the frame latches all of it.
LEMMA SessionStep ==
    ASSUME StripInv, driver = "rmt", call = "wait", tx = "encoding",
           NEW d \in Nat, NEW done \in BOOLEAN, sent + d <= Total,
           sent' = IF sent + d = Total THEN 0 ELSE sent + d,
           wire' = IF done THEN <<>> ELSE OnWire(Data(buf, sent + 1, sent + d)),
           shown' = IF done THEN Latched(OnWire(Data(buf, sent + 1, sent + d)))
                            ELSE shown,
           tx' = IF done THEN "done" ELSE "encoding",
           state' \in {0, 1}, done => state' = 0,
           state = 1 => done /\ d = 0,
           state = 0 /\ done => sent + d = Total,
           state = 0 /\ ~done => (state' = 1 <=> sent + d = Total),
           UNCHANGED <<strip, buf, flushed>>
    PROVE  /\ tx' = "encoding" => Encoding'
           /\ tx' = "done" => state' = 0 /\ sent' = 0 /\ wire' = <<>>
                                         /\ shown' = flushed
<1> DEFINE more == Data(buf, sent + 1, sent + d)
           w == OnWire(more)
<1>1. /\ state \in {0, 1} /\ sent \in Nat /\ Total \in Nat \ {0} /\ buf \in Pixels
  BY Sizes DEF StripInv, TypeOK
<1>2. UNCHANGED Total
  BY SameStrip
<1>3. Encoding /\ buf = flushed
  BY DEF StripInv, DriverInv, RmtInv
<1>4. more \in Seq(Signals) /\ Len(more) = d
  BY <1>1, DataFrom
<1>5. Len(wire) + d <= Total /\ Frames * Total >= Total
  <2>1. CASE state = 0
    <3>1. wire = Data(buf, 1, sent)
      BY <1>3, <2>1 DEF Encoding
    <3> QED  BY <1>1, <3>1, DataTo DEF Frames
  <2>2. CASE state = 1
    <3>1. wire = Data(buf, 1, Total) /\ d = 0
      BY <1>3, <2>2 DEF Encoding
    <3> QED  BY <1>1, <3>1, DataTo DEF Frames
  <2> QED  BY <1>1, <2>1, <2>2
<1>6. w = wire \o more
  <2>1. Len(wire) \in Nat /\ Frames * Total \in Int /\ wire \in Seq(Signals) /\ TypeOK
    BY <1>1 DEF StripInv, Frames
  <2>2. Len(wire) + Len(more) <= Frames * Total
    BY <1>1, <1>4, <1>5, <2>1
  <2> HIDE DEF more
  <2> QED  BY <1>4, <2>1, <2>2, OnWireType
<1>7. w = IF state = 0 THEN Data(buf, 1, sent + d) ELSE Data(buf, 1, Total)
  <2>1. CASE state = 0
    <3>1. wire = Data(buf, 1, sent)
      BY <1>3, <2>1 DEF Encoding
    <3> QED  BY <1>1, <1>6, <2>1, <3>1, DataJoin
  <2>2. CASE state = 1
    <3>1. wire = Data(buf, 1, Total) /\ d = 0
      BY <1>3, <2>2 DEF Encoding
    <3> HIDE DEF more
    <3>2. more = <<>>
      BY <1>4, <3>1
    <3>3. wire \o <<>> = wire
      BY DEF StripInv
    <3> QED  BY <1>6, <2>2, <3>1, <3>2, <3>3
  <2> QED  BY <1>1, <2>1, <2>2
<1> HIDE DEF more, w
<1>8. wire' = (IF done THEN <<>> ELSE w) /\ shown' = (IF done THEN Latched(w) ELSE shown)
  BY DEF w, more
<1>9. CASE done
  <2>1. w = Data(buf, 1, Total) /\ sent' = 0
    <3>1. CASE state = 0
      BY <1>7, <1>9, <3>1
    <3>2. CASE state = 1
      <4>1. sent = 0
        BY <1>3, <3>2 DEF Encoding
      <4> QED  BY <1>1, <1>7, <3>2, <4>1
    <3> QED  BY <1>1, <3>1, <3>2
  <2>2. shown' = buf
    BY <1>1, <1>8, <1>9, <2>1, LatchedFrame DEF StripInv
  <2> QED  BY <1>3, <1>8, <1>9, <2>1, <2>2
<1>10. CASE ~done
  <2>1. state = 0 /\ wire' = Data(buf, 1, sent + d)
    BY <1>1, <1>7, <1>8, <1>10
  <2>2. CASE sent + d = Total
    <3>1. state' = 1 /\ sent' = 0 /\ wire' = Data(buf, 1, Total)
      BY <1>10, <2>1, <2>2
    <3> QED  BY <1>2, <1>10, <3>1 DEF Encoding
  <2>3. CASE sent + d # Total
    <3>1. state' = 0 /\ sent' = sent + d
      BY <1>10, <2>1, <2>3
    <3>2. wire' = Data(buf, 1, sent')
      BY <2>1, <3>1
    <3>3. sent' < Total
      BY <1>1, <2>3, <3>1
    <3> QED  BY <1>2, <1>10, <3>1, <3>2, <3>3 DEF Encoding
  <2> QED  BY <2>2, <2>3
<1> QED  BY <1>9, <1>10

LEMMA EncodeStep == ASSUME StripInv, Encode PROVE StripInv'
<1> DEFINE more(d) == Data(buf, sent + 1, sent + d)
<1>1. PICK d \in Nat, done \in BOOLEAN :
        /\ sent + d <= Total
        /\ sent' = IF sent + d = Total THEN 0 ELSE sent + d
        /\ free' \in 0 .. Memory /\ state' \in {0, 1}
        /\ tx' = IF done THEN "done" ELSE "encoding"
        /\ wire' = IF done THEN <<>> ELSE OnWire(more(d))
        /\ shown' = IF done THEN Latched(OnWire(more(d))) ELSE shown
        /\ done => state' = 0
        /\ state = 1 => done /\ d = 0
        /\ state = 0 /\ done => sent + d = Total
        /\ state = 0 /\ ~done => (state' = 1 <=> sent + d = Total)
  BY EncodeIs
<1>2. /\ UNCHANGED <<strip, driver, leds, life, owned, buf, chan, flushed, call, user,
                    result, told>>
      /\ tx = "encoding"
  BY DEF Encode, memory, strip, report
<1>3. /\ UNCHANGED <<Leds, Total, Pixels, Signals, Things>>
  BY <1>2, SameStrip
<1>4. sent \in Nat /\ Total \in Nat \ {0} /\ buf \in Pixels
  BY Sizes DEF StripInv, TypeOK
<1>5. more(d) \in Seq(Signals)
  BY <1>4, DataFrom
<1> HIDE DEF more
<1>6. wire' \in Seq(Signals) /\ Len(wire') <= Frames * Total
  <2>1. CASE done
    <3>1. <<>> \in Seq(Signals) /\ Len(<<>>) = 0 /\ 0 <= Frames * Total
      BY <1>4 DEF Frames
    <3> QED  BY <1>1, <2>1, <3>1
  <2>2. CASE ~done
    BY <1>1, <1>5, <2>2, OnWireType DEF StripInv
  <2> QED  BY <2>1, <2>2
<1>7. sent' \in 0 .. Total
  BY <1>1, <1>4
<1>8. shown' \in [Leds -> Colors \union {Off, "mixed"}]
  BY <1>1, LatchedType DEF StripInv, TypeOK
<1>9. tx' \in {"encoding", "done"}
  BY <1>1
<1>10. TypeOK' /\ wire' \in Seq(Signals')
  BY <1>1, <1>2, <1>3, <1>6, <1>7, <1>8, <1>9 DEF StripInv, TypeOK
<1>11. driver = "rmt"
  BY <1>2, Sizes DEF StripInv, DriverInv, SpiInv
<1>12. RmtInv
  BY <1>11 DEF StripInv, DriverInv
<1>13. chan # "init" /\ call \notin {"transmit", "disable"}
  BY <1>2, <1>12 DEF RmtInv, AtRest
<1>14. ASSUME call = "wait"
       PROVE  /\ tx' = "encoding" => Encoding'
              /\ tx' = "done" => state' = 0 /\ sent' = 0 /\ wire' = <<>>
                                            /\ shown' = flushed
  BY <1>1, <1>2, <1>11, <1>14, SessionStep DEF more
<1>15. RmtInv'
  BY <1>2, <1>9, <1>12, <1>13, <1>14 DEF RmtInv
<1> QED  BY <1>2, <1>10, <1>11, <1>15 DEF StripInv, DriverInv

-----------------------------------------------------------------------------

LEMMA StripStep == ASSUME StripInv, [Next]_vars PROVE StripInv'
<1>1. CASE UNCHANGED vars
  <2>1. /\ UNCHANGED <<strip, driver, leds, life, owned, buf, chan, state, sent, free, tx,
                      wire, shown, flushed, call, user, result, told>>
    BY <1>1 DEF vars, memory, strip, channel, lamps, report
  <2>2. UNCHANGED <<Leds, Total, Pixels, Signals, Things>>
    BY <2>1, SameStrip
  <2>3. TypeOK' /\ wire' \in Seq(Signals')
    BY <2>1, <2>2 DEF StripInv, TypeOK
  <2>4. Encoding => Encoding'
    BY <2>1, <2>2 DEF Encoding
  <2>5. DriverInv'
    BY <2>1, <2>2, <2>4 DEF StripInv, DriverInv, RmtInv, SpiInv, AtRest
  <2> QED  BY <2>3, <2>5 DEF StripInv
<1>2. CASE Steps
  BY <1>2, AllocateStep, NewFailsStep, EnableStep, FailsStep, TransmitStep,
     SpiTransmitStep, FlushedStep, DisableStep, DeletedStep
     DEF Steps, EnableFails, TransmitFails, DisableFails, DelFails
<1>3. CASE WaitFails
  BY <1>3, FailsStep DEF WaitFails
<1>4. CASE Interrupt
  BY <1>4, EncodeStep, DrainStep DEF Interrupt
<1>5. CASE Calls
  <2>1. CASE NewDevice \/ RgbLedInit
    BY <2>1, BeginStep DEF NewDevice, RgbLedInit
  <2>2. CASE \E p \in Leds, c \in Colors : SetPixel(p, c)
    BY <2>2, SetPixelStep
  <2>3. Blank \in Pixels /\ buf \in Pixels
    BY DEF Blank, Pixels, StripInv, TypeOK
  <2>4. CASE Refresh
    BY <2>3, <2>4, SendsStep DEF Refresh
  <2>5. CASE Clear \/ RgbLedOff
    BY <2>3, <2>5, SendsStep DEF Clear, RgbLedOff
  <2>6. CASE \E c \in Colors : RgbLedSetColor(c)
    <3> PICK c \in Colors : RgbLedSetColor(c)
      BY <2>6
    <3>1. [buf EXCEPT ![1] = c] \in Pixels
      BY <2>3 DEF Pixels
    <3> QED  BY <3>1, SendsStep DEF RgbLedSetColor
  <2>7. CASE Del
    BY <2>7, DelStep
  <2>8. CASE RgbLedWithoutStrip
    BY <2>8, WithoutStripStep
  <2> QED  BY <1>5, <2>1, <2>2, <2>4, <2>5, <2>6, <2>7, <2>8 DEF Calls
<1>6. CASE Idles
  BY <1>6, IdlesStep
<1> QED  BY <1>1, <1>2, <1>3, <1>4, <1>5, <1>6 DEF Next

\* The wire carries what the encoder has reached of the buffer being sent.
THEOREM StripCorrect == Spec => []StripInv
<1>1. StripInv /\ [Next]_vars => StripInv'
  BY StripStep
<1> QED  BY <1>1, StripInit, PTL DEF Spec

\* Every variable keeps its type.
THEOREM TypeCorrect == Spec => []TypeOK
<1>1. StripInv => TypeOK
  BY DEF StripInv
<1> QED  BY <1>1, StripCorrect, PTL

\* A refresh or clear that led_strip_rmt_refresh reports as done is what the
\* LEDs show, for every length of the strip and size of the symbol memory,
\* however rmt_encode_led_strip is cut into sessions and whatever has failed.
THEOREM RefreshIsShown == Spec => []RefreshShows
<1>1. StripInv => RefreshShows
  BY DEF StripInv, DriverInv, RmtInv, RefreshShows
<1> QED  BY <1>1, StripCorrect, PTL
=============================================================================
