------------------------------ MODULE LedStrip ------------------------------
(***************************************************************************)
(* An LED strip behind the RMT or the SPI driver, and rgb_led.c, which     *)
(* drives one LED through the RMT driver.                                  *)
(*                                                                         *)
(* A pixel is one value, sent as Symbols symbols.  On RMT the encoder runs *)
(* in the interrupt handler, in as many sessions as the symbol memory      *)
(* makes necessary; the caller waits for the end.  An LED shows a value    *)
(* once it has received all its symbols and the wire has then been low for *)
(* the reset time: the encoder's reset code, or an idle wire.              *)
(***************************************************************************)
EXTENDS Integers, Sequences

CONSTANTS Drivers,  \* "rmt" and "spi"
          Colors,   \* the values a pixel is given
          Off,      \* the value of a pixel that is turned off
          Lengths,  \* what max_leds may be
          Symbols,  \* symbols of a pixel
          Memory    \* mem_block_symbols

ASSUME StripAssumption ==
  /\ Drivers \subseteq {"rmt", "spi"} /\ Off \notin Colors
  /\ Lengths \union {Symbols, Memory} \subseteq Nat \ {0}

VARIABLES driver,   \* the driver of the strip
          leds,     \* max_leds
          life,     \* "none", "live", "half" (del failed half-way), "deleted"
          owned,    \* what the driver has allocated
          buf,      \* pixel_buf
          chan,     \* the RMT channel: "init" (disabled) or "enabled"
          state,    \* state of the encoder: 0, the data, or 1, the reset code
          sent,     \* symbols the bytes encoder has emitted in this session
          free,     \* free symbols of the RMT memory
          tx,       \* the transmission: "none", "encoding" or "done"
          wire,     \* the symbols on the wire since the last reset
          shown,    \* what each LED shows
          flushed,  \* history: the buffer at the last refresh
          call,     \* the step a call has reached, or "idle"
          user,     \* the rgb_led function that made it, or "none"
          result,   \* what the last strip call returned, or "none"
          told      \* what the caller was told

strip  == <<driver, leds>>
memory == <<strip, life, owned>>
channel == <<chan, state, sent, free, tx>>
lamps  == <<wire, shown>>
report == <<result, told>>
vars   == <<memory, buf, channel, lamps, flushed, call, user, report>>

Leds   == 1 .. leds
Frames == 2   \* bound: frames on the wire that the model tells apart
Pixels == [Leds -> Colors \union {Off}]
Blank  == [p \in Leds |-> Off]
Total  == leds * Symbols

\* What a driver allocates, in this order.
Things == IF driver = "rmt"
          THEN <<"strip", "channel", "encoder", "bytes", "copy">>
          ELSE <<"strip", "bus", "device">>

TypeOK ==
  /\ driver \in Drivers /\ leds \in Lengths
  /\ life \in {"none", "live", "half", "deleted"}
  /\ \A t \in owned : \E i \in DOMAIN Things : Things[i] = t
  /\ buf \in Pixels /\ flushed \in Pixels
  /\ chan \in {"init", "enabled"} /\ state \in {0, 1}
  /\ sent \in 0 .. Total /\ free \in 0 .. Memory
  /\ tx \in {"none", "encoding", "done"}
  /\ Len(wire) <= Frames * Total
  /\ shown \in [Leds -> Colors \union {Off, "mixed"}]
  /\ call \in {"idle", "new", "enable", "transmit", "wait", "disable", "del"}
  /\ user \in {"none", "init", "set", "off"}
  /\ {result, told} \subseteq {"none", "made", "ok", "fail"}

-----------------------------------------------------------------------------
(* The wire and the LEDs: external. *)

Symbol(pixels, i) == <<pixels[(i - 1) \div Symbols + 1], (i - 1) % Symbols>>

Data(pixels, first, last) ==
  [i \in 1 .. last - first + 1 |-> Symbol(pixels, first + i - 1)]

\* The wire with more symbols, as many as are told apart: what is past the
\* first frame goes through to the end of the strip.
OnWire(data) ==
  LET w == wire \o data
  IN  IF Len(w) <= Frames * Total THEN w ELSE SubSeq(w, 1, Frames * Total)

\* Each LED keeps the first Symbols symbols it receives and passes on the rest.
Latched(w) ==
  [p \in Leds |->
     LET mine == SubSeq(w, (p - 1) * Symbols + 1, p * Symbols)
     IN  IF Len(w) < p * Symbols THEN shown[p]
         ELSE IF \E v \in Colors \union {Off} :
                   mine = [k \in 1 .. Symbols |-> <<v, k - 1>>]
              THEN mine[1][1] ELSE "mixed"]

Idles == /\ wire # <<>> /\ tx # "encoding"
         /\ shown' = Latched(wire) /\ wire' = <<>>
         /\ UNCHANGED <<memory, buf, channel, flushed, call, user, report>>

-----------------------------------------------------------------------------
(* Calls and their ends. *)

\* A strip call returns.  rgb_led_set_color and rgb_led_off do not look at
\* the result, and rgb_led_init not at that of its clear.
Return(r) == /\ call' = "idle" /\ result' = r /\ user' = "none"
             /\ told' = IF user = "none" \/ life = "none" THEN r ELSE "ok"

Go(step) == call' = step /\ UNCHANGED <<user, report>>

\* The strip rgb_led.c makes.
OneRmtLed == driver = "rmt" /\ leds = 1

FirstStep == IF driver = "rmt" THEN "enable" ELSE "transmit"

\* refresh, of a buffer that becomes pixels.
Send(pixels) == /\ buf' = pixels /\ flushed' = pixels /\ call' = FirstStep
                /\ result' = "none" /\ told' = "none"

-----------------------------------------------------------------------------
(* new_rmt_device and new_spi_device. *)

Begin(u) == /\ life = "none" /\ call = "idle"
            /\ call' = "new" /\ user' = u
            /\ UNCHANGED <<memory, buf, channel, lamps, flushed, report>>

NewDevice  == Begin("none")
RgbLedInit == OneRmtLed /\ Begin("init")

Missing == {i \in DOMAIN Things : Things[i] \notin owned}

\* The next thing is allocated; after the last the strip is complete, and
\* rgb_led_init clears it.
Allocate ==
  /\ call = "new" /\ Missing # {}
  /\ LET i == CHOOSE k \in Missing : \A j \in Missing : k <= j
     IN  /\ owned' = owned \union {Things[i]}
         /\ IF i < Len(Things)
            THEN UNCHANGED <<life, buf, flushed, call, user, report>>
            ELSE /\ life' = "live"
                 /\ IF user = "init" THEN Send(Blank) /\ UNCHANGED user
                    ELSE Return("made") /\ UNCHANGED <<buf, flushed>>
  /\ UNCHANGED <<strip, channel, lamps>>

\* An allocation fails, or the clock of the SPI device is not supported: the
\* error path of rmt_new_led_strip_encoder, then that of the device, free all
\* that has been made.
NewFails == /\ call = "new"
            /\ owned' = {} /\ life' = life /\ Return("fail")
            /\ UNCHANGED <<strip, buf, channel, lamps, flushed>>

-----------------------------------------------------------------------------
(* The calls on a strip. *)

Ready(u) == life = "live" /\ call = "idle" /\ user' = u

SetPixel(p, c) == /\ Ready("none") /\ buf' = [buf EXCEPT ![p] = c]
                  /\ UNCHANGED <<memory, channel, lamps, flushed, call, report>>

Sends(pixels) == Send(pixels) /\ UNCHANGED <<memory, channel, lamps>>

Refresh == Ready("none") /\ Sends(buf)
Clear   == Ready("none") /\ Sends(Blank)

\* rgb_led_set_color and, for a colour of the table, rgb_color_set and
\* rgb_color_set_enum.  rgb_color_set turns the LED off for any other name.
RgbLedSetColor(c) == /\ OneRmtLed
                     /\ Ready("set") /\ Sends([buf EXCEPT ![1] = c])
RgbLedOff == OneRmtLed /\ Ready("off") /\ Sends(Blank)

\* Without a strip every led_strip function refuses the NULL handle.
RgbLedWithoutStrip ==
  /\ OneRmtLed
  /\ life = "none" /\ call = "idle" /\ result' = "fail" /\ told' = "ok"
  /\ UNCHANGED <<memory, buf, channel, lamps, flushed, call, user>>

-----------------------------------------------------------------------------
(* led_strip_rmt_refresh and led_strip_spi_refresh. *)

Enable == /\ call = "enable" /\ chan = "init"
          /\ chan' = "enabled" /\ Go("transmit")
          /\ UNCHANGED <<memory, buf, state, sent, free, tx, lamps, flushed>>

Fails(step) == /\ call = step /\ Return("fail")
               /\ UNCHANGED <<memory, buf, channel, lamps, flushed>>

\* rmt_enable refuses a channel that is enabled, and may fail otherwise.
EnableFails == Fails("enable")

\* The transmission starts; rmt_tx_wait_all_done waits for its end.
Transmit == /\ driver = "rmt" /\ call = "transmit"
            /\ tx' = "encoding" /\ free' = Memory /\ Go("wait")
            /\ UNCHANGED <<memory, buf, chan, state, sent, lamps, flushed>>

TransmitFails == Fails("transmit")

WaitFails == Fails("wait")

Flushed == /\ call = "wait" /\ tx = "done"
           /\ tx' = "none" /\ Go("disable")
           /\ UNCHANGED <<memory, buf, chan, state, sent, free, lamps, flushed>>

Disable == /\ call = "disable" /\ chan' = "init" /\ Return("ok")
           /\ UNCHANGED <<memory, buf, state, sent, free, tx, lamps, flushed>>

DisableFails == Fails("disable")

\* spi_device_transmit sends the whole buffer and returns; nothing makes the
\* wire rest before the next transmission.
SpiTransmit == /\ driver = "spi" /\ call = "transmit"
               /\ wire' = OnWire(Data(buf, 1, Total)) /\ Return("ok")
               /\ UNCHANGED <<memory, buf, channel, shown, flushed>>

-----------------------------------------------------------------------------
(* rmt_encode_led_strip, called by the driver when there is free memory. *)

\* Mutant: a session whose data just fills the memory does not count as
\* complete.
LateSession(st, n, room) ==
  LET data == IF st = 1 THEN 0 ELSE IF n < room THEN n ELSE room
      full == st = 0 /\ data = room
  IN  [data |-> data, reset |-> ~full, state |-> 0]

\* Mutant: the encoder stays in the state of the reset code.
NoReturn(st, n, room) ==
  LET data  == IF st = 1 THEN 0 ELSE IF n < room THEN n ELSE room
      ended == st = 1 \/ data = n
      full  == st = 0 /\ data = room
  IN  [data |-> data, reset |-> ended /\ ~full, state |-> IF ended THEN 1 ELSE 0]

\* A session: the symbols of the data it emits, whether the reset code
\* follows, and the state it leaves.  A session whose data just fills the
\* memory is both complete and full.
Session(st, n, room) ==
  LET data  == IF st = 1 THEN 0 ELSE IF n < room THEN n ELSE room
      ended == st = 1 \/ data = n
      full  == st = 0 /\ data = room
      reset == ended /\ ~full
  IN  [data |-> data, reset |-> reset,
       state |-> IF ended /\ ~reset THEN 1 ELSE 0]

Encode ==
  /\ tx = "encoding" /\ free > 0
  /\ LET s  == Session(state, Total - sent, free)
         w  == OnWire(Data(buf, sent + 1, sent + s.data))
         at == sent + s.data
     IN  /\ state' = s.state
         /\ sent' = IF at = Total THEN 0 ELSE at
         /\ free' = free - s.data - (IF s.reset THEN 1 ELSE 0)
         /\ tx' = IF s.reset THEN "done" ELSE "encoding"
         /\ wire' = IF s.reset THEN <<>> ELSE w
         /\ shown' = IF s.reset THEN Latched(w) ELSE shown
  /\ UNCHANGED <<memory, buf, chan, flushed, call, user, report>>

\* The transmitter has sent some of the memory: external.
Drain(n) == /\ tx = "encoding" /\ free < n
            /\ free' = n
            /\ UNCHANGED <<memory, buf, chan, state, sent, tx, lamps, flushed,
                           call, user, report>>

-----------------------------------------------------------------------------
(* del. *)

Del == /\ Ready("none") /\ call' = "del"
       /\ UNCHANGED <<memory, buf, channel, lamps, flushed, report>>

\* rmt_del_channel refuses a channel that is not disabled.
DelDone == /\ call = "del" /\ (driver = "rmt" => chan = "init")
           /\ owned' = {} /\ life' = "deleted" /\ Return("ok")
           /\ UNCHANGED <<strip, buf, channel, lamps, flushed>>

DelFails == Fails("del")

\* spi_bus_free fails when the device has been removed already.
DelHalf == /\ driver = "spi" /\ call = "del"
           /\ owned' = owned \ {"device"} /\ life' = "half" /\ Return("fail")
           /\ UNCHANGED <<strip, buf, channel, lamps, flushed>>

-----------------------------------------------------------------------------
Init == /\ driver \in Drivers /\ leds \in Lengths
        /\ life = "none" /\ owned = {}
        /\ buf = Blank /\ flushed = Blank
        /\ chan = "init" /\ state = 0 /\ sent = 0 /\ free = Memory /\ tx = "none"
        /\ wire = <<>> /\ shown \in [Leds -> Colors \union {Off}]
        /\ call = "idle" /\ user = "none"
        /\ result = "none" /\ told = "none"

Steps == \/ Allocate \/ NewFails
         \/ Enable \/ EnableFails \/ Transmit \/ TransmitFails \/ SpiTransmit
         \/ Flushed \/ Disable \/ DisableFails
         \/ DelDone \/ DelFails \/ DelHalf

Interrupt == Encode \/ \E n \in 1 .. Memory : Drain(n)

Calls == \/ NewDevice \/ RgbLedInit
         \/ \E p \in Leds, c \in Colors : SetPixel(p, c)
         \/ Refresh \/ Clear \/ Del
         \/ \E c \in Colors : RgbLedSetColor(c)
         \/ RgbLedOff \/ RgbLedWithoutStrip

Next == Steps \/ WaitFails \/ Interrupt \/ Calls \/ Idles

Spec == Init /\ [][Next]_vars

\* The task runs, the transmitter drains its memory and raises its interrupt;
\* a wait without a timeout need not fail.
Fairness == /\ WF_vars(Steps) /\ WF_vars(Encode)
            /\ WF_vars(\E n \in 1 .. Memory : Drain(n))

FairSpec == Spec /\ Fairness

-----------------------------------------------------------------------------
\* A refresh or a clear that the RMT driver reports as done shows: once the
\* wire has been low, every LED has the value its pixel had when the call was
\* made, however the symbol memory cut the data into sessions.
RefreshShows == driver = "rmt" /\ call = "idle" /\ result = "ok" /\ life = "live" /\ wire = <<>>
                  => shown = flushed

\* A call on a strip returns, whatever fails and however the symbol memory is
\* drained.
CallEnds == call # "idle" ~> call = "idle"
=============================================================================
