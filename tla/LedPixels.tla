----------------------------- MODULE LedPixels -----------------------------
(***************************************************************************)
(* Colours in the memory of an LED strip: the pixel formats the RMT and    *)
(* the SPI drivers accept, how set_pixel and set_pixel_rgbw lay a colour   *)
(* out in the pixel buffer, the SPI coding of a colour byte, and the       *)
(* conversion from hue, saturation and value.                              *)
(*                                                                         *)
(* A byte of the buffer is the set of its bits that are 1.                 *)
(***************************************************************************)
EXTENDS Integers, Sequences, FiniteSetsExt

CONSTANTS NumLeds,   \* max_leds
          Formats,   \* the color_component_format values a caller gives
          Models,    \* the LED models a caller gives
          Levels,    \* values of a colour component
          Hues,      \* hues a caller gives
          Shades,    \* <<saturation, value>> given to set_pixel_hsv, Shades[255],
                     \* and to set_pixel_hsv_16, Shades[65535]
          HsvFormats,\* bound: the formats set_pixel_hsv is called with
          MaxCalls   \* bound: calls that write the buffer

Components == {"r", "g", "b", "w"}
Words      == 0 .. 2^16 - 1
Scales     == {255, 65535}   \* of set_pixel_hsv and of set_pixel_hsv_16

ASSUME LedAssumption ==
  /\ NumLeds \in Nat \ {0} /\ MaxCalls \in Nat
  /\ Models \subseteq {"WS2812", "WS2816"}
  /\ Formats \subseteq [r : 0 .. 3, g : 0 .. 3, b : 0 .. 3, w : 0 .. 3,
                        bytes : 0 .. 3, num : 0 .. 7]
  /\ HsvFormats \subseteq Formats
  /\ Levels \subseteq Words /\ Hues \subseteq Words
  /\ \A full \in Scales :
       Shades[full] \subseteq (0 .. full) \X (0 .. full)

VARIABLES driver,  \* "rmt" or "spi"
          wanted,  \* the format given to new_rmt_device or new_spi_device
          status,  \* "none", "live" or, when the device is refused, "refused"
          format,  \* component_fmt
          buf,     \* pixel_buf
          asked,   \* history: the colour last set, of each pixel set so far
          hsv,     \* history: the hue, saturation and value last set, or <<>>
          calls    \* the calls that have written the buffer

vars == <<driver, wanted, status, format, buf, asked, hsv, calls>>

Leds  == 0 .. NumLeds - 1
Color == [Components -> Nat]

Rgb(r, g, b) == [c \in Components |-> CASE c = "r" -> r [] c = "g" -> g
                                        [] c = "b" -> b [] c = "w" -> 0]
Black == Rgb(0, 0, 0)

-----------------------------------------------------------------------------
(* The format of a pixel. *)

DefaultFormat == [r |-> 1, g |-> 0, b |-> 2, w |-> 3, bytes |-> 1, num |-> 3]

FormatId(f) == IF \A k \in DOMAIN f : f[k] = 0 THEN 0 ELSE 1

Chosen(f, model) ==
  LET base == IF FormatId(f) = 0 THEN DefaultFormat ELSE f
  IN  CASE model = "WS2816" -> [base EXCEPT !.bytes = 2]
        [] model # "WS2816" /\ base.bytes = 0 -> [base EXCEPT !.bytes = 1]
        [] OTHER -> base

\* Mutant: the check of the positions looks at the first two only.
LooseFormat(f) == \/ f.num = 3 /\ {f.r, f.g} \subseteq 0 .. 2
                  \/ f.num = 4

\* Every position of the pixel is the place of one component: mask.
ValidFormat(f) == \/ f.num = 3 /\ {f.r, f.g, f.b} = 0 .. 2
                  \/ f.num = 4 /\ {f.r, f.g, f.b, f.w} = 0 .. 3

BytesPerPixel(f) == f.num * f.bytes

Used(f) == IF f.num = 4 THEN <<"r", "g", "b", "w">> ELSE <<"r", "g", "b">>

-----------------------------------------------------------------------------
(* The bytes of a pixel. *)

Bit(x, i) == (x \div 2^i) % 2 = 1

Bits(x) == {i \in 0 .. 7 : Bit(x, i)}

\* Byte i of a component of n bytes, the most significant first.
ByteOf(v, n, i) == (v \div 256^(n - 1 - i)) % 256

\* __led_strip_spi_bit: three bits of the bus for each bit of the byte.
SpiBit(x) ==
  LET if(i, on) == IF Bit(x, i) THEN {on} ELSE {}
  IN  << {7, 4, 1} \union if(7, 6) \union if(6, 3) \union if(5, 0),
         {6, 3, 0} \union if(4, 5) \union if(3, 2),
         {5, 2} \union if(2, 7) \union if(1, 4) \union if(0, 1) >>

Stride(d) == IF d = "spi" THEN 3 ELSE 1

\* What set_pixel and set_pixel_rgbw leave in the bytes of a pixel: on RMT
\* the last component written to a byte stays, on SPI the codes of all of
\* them are added to bytes that have been cleared.
Pixel(d, f, old, color) ==
  [j \in 0 .. BytesPerPixel(f) * Stride(d) - 1 |->
     LET at   == j \div Stride(d)
         here == {k \in DOMAIN Used(f) : f[Used(f)[k]] = at \div f.bytes}
         byte(k) == ByteOf(color[Used(f)[k]], f.bytes, at % f.bytes)
     IN  IF d = "rmt"
         THEN IF here = {} THEN old[j] ELSE Bits(byte(Max(here)))
         ELSE UNION {SpiBit(byte(k))[(j % 3) + 1] : k \in here}]

Width == BytesPerPixel(format) * Stride(driver)

\* The buffer with pixel p set to color.
Put(p, color) ==
  LET pixel == Pixel(driver, format,
                     [j \in 0 .. Width - 1 |-> buf[p * Width + j]], color)
  IN  [i \in DOMAIN buf |->
         IF i \div Width = p THEN pixel[i % Width] ELSE buf[i]]

\* The buffer clear leaves: on SPI, the code of 0 everywhere.
Zeroed == [i \in DOMAIN buf |->
             IF driver = "spi" THEN SpiBit(0)[(i % 3) + 1] ELSE {}]

-----------------------------------------------------------------------------
(* The conversion. *)

\* Mutant: the sectors of the circle are counted from 1.
ShiftedHsv(full, hue, saturation, value) ==
  LET low == (value * (full - saturation)) \div full
      adj == ((value - low) * (hue % 60)) \div 60
  IN  CASE hue \div 60 = 1 -> Rgb(value, low + adj, low)
        [] hue \div 60 = 2 -> Rgb(value - adj, value, low)
        [] hue \div 60 = 3 -> Rgb(low, value, low + adj)
        [] hue \div 60 = 4 -> Rgb(low, value - adj, value)
        [] hue \div 60 = 5 -> Rgb(low + adj, low, value)
        [] OTHER           -> Rgb(value, low, value - adj)

HsvToRgb(full, hue, saturation, value) ==
  LET low == (value * (full - saturation)) \div full
      adj == ((value - low) * (hue % 60)) \div 60
  IN  CASE hue \div 60 = 0 -> Rgb(value, low + adj, low)
        [] hue \div 60 = 1 -> Rgb(value - adj, value, low)
        [] hue \div 60 = 2 -> Rgb(low, value, low + adj)
        [] hue \div 60 = 3 -> Rgb(low, value - adj, value)
        [] hue \div 60 = 4 -> Rgb(low + adj, low, value)
        [] OTHER           -> Rgb(value, low, value - adj)

-----------------------------------------------------------------------------
Init == /\ driver \in {"rmt", "spi"}
        /\ wanted \in Formats
        /\ status = "none" /\ format = DefaultFormat
        /\ buf = <<>> /\ asked = <<>> /\ hsv = <<>> /\ calls = 0

\* new_rmt_device or new_spi_device: the buffer is all zero.
New(model) ==
  LET f == Chosen(wanted, model)
  IN  /\ status = "none"
      /\ IF ValidFormat(f)
         THEN /\ status' = "live" /\ format' = f
              /\ asked' = <<>>
              /\ buf' = [i \in 0 .. NumLeds * BytesPerPixel(f) * Stride(driver)
                                     - 1 |-> {}]
         ELSE status' = "refused" /\ UNCHANGED <<format, buf, asked>>
      /\ UNCHANGED <<driver, wanted, hsv, calls>>

Set(p, color) == /\ status = "live" /\ calls' = calls + 1
                 /\ buf' = Put(p, color)
                 /\ asked' = [q \in DOMAIN asked \union {p} |->
                                IF q = p THEN color ELSE asked[q]]
                 /\ UNCHANGED <<driver, wanted, status, format>>

\* An index past the strip, or white on a strip without it, is refused and
\* changes nothing.
SetPixel(p, r, g, b) == p < NumLeds /\ Set(p, Rgb(r, g, b)) /\ UNCHANGED hsv

SetPixelRgbw(p, r, g, b, w) ==
  /\ p < NumLeds /\ format.num = 4
  /\ Set(p, [Rgb(r, g, b) EXCEPT !["w"] = w]) /\ UNCHANGED hsv

SetPixelHsv(p, full, hue, saturation, value) ==
  /\ p < NumLeds /\ Set(p, HsvToRgb(full, hue, saturation, value))
  /\ hsv' = <<full, hue, saturation, value>>

Clear == /\ status = "live" /\ calls' = calls + 1
         /\ buf' = Zeroed /\ asked' = [p \in Leds |-> Black] /\ hsv' = <<>>
         /\ UNCHANGED <<driver, wanted, status, format>>

Next == \/ \E model \in Models : New(model)
        \/ /\ calls < MaxCalls
           /\ \/ \E p \in Leds, r, g, b \in Levels : SetPixel(p, r, g, b)
              \/ \E p \in Leds, a, b \in Levels : SetPixelRgbw(p, a, b, a, b)
              \/ /\ wanted \in HsvFormats
                 /\ \E p \in Leds, full \in Scales, h \in Hues :
                      \E x \in Shades[full] :
                        SetPixelHsv(p, full, h, x[1], x[2])
              \/ Clear

Spec == Init /\ [][Next]_vars

-----------------------------------------------------------------------------
(* What a strip of this format takes from the wire. *)

\* Bit n of the stream that starts at byte i of the buffer, the most
\* significant bit of a byte first.
Stream(i, n) == 7 - (n % 8) \in buf[i + n \div 8]

\* Byte j of pixel p stands for x: on SPI a bit is sent as 110 or 100.
Reads(p, j, x) ==
  LET at == p * Width + j * Stride(driver)
  IN  IF driver = "rmt" THEN buf[at] = Bits(x)
      ELSE \A k \in 0 .. 7 : /\ Stream(at, 3 * k)
                             /\ Stream(at, 3 * k + 1) = Bit(x, 7 - k)
                             /\ ~Stream(at, 3 * k + 2)

\* 60 * full times what the definition of HSV gives for the component that is
\* at its largest at hue 60 * n.
Ideal(n, full, hue, saturation, value) ==
  LET apart == ((hue - 60 * n + 540) % 360) - 180       \* -180 .. 179
      away  == IF apart < 0 THEN -apart ELSE apart
      part  == IF away <= 60 THEN 60 ELSE IF away >= 120 THEN 0 ELSE 120 - away
  IN  value * (60 * (full - saturation) + part * saturation)

Peak == [r |-> 0, g |-> 2, b |-> 4]

Near(c, full, hue, saturation, value) ==
  LET out   == HsvToRgb(full, hue, saturation, value)[c]
      exact == Ideal(Peak[c], full, hue, saturation, value)
  IN  (out - 1) * 60 * full < exact /\ exact < (out + 2) * 60 * full

ReadsColor(p, color) ==
  \A k \in DOMAIN Used(format), i \in 0 .. format.bytes - 1 :
    LET c == Used(format)[k]
    IN  Reads(p, format[c] * format.bytes + i,
              ByteOf(color[c], format.bytes, i))

-----------------------------------------------------------------------------
\* The values of every variable.
TypeOK ==
  /\ driver \in {"rmt", "spi"} /\ wanted \in Formats
  /\ status \in {"none", "live", "refused"}
  /\ status = "live" => /\ ValidFormat(format) /\ format.bytes \in 1 .. 3
                        /\ DOMAIN buf = 0 .. NumLeds * Width - 1
                        /\ \A i \in DOMAIN buf : buf[i] \subseteq 0 .. 7
  /\ DOMAIN asked \subseteq Leds /\ \A p \in DOMAIN asked : asked[p] \in Color
  /\ calls \in 0 .. MaxCalls

\* Whatever format the caller chose and in whatever order the pixels were
\* set, cleared and set again, the frame reads as the colour last set for
\* each of them: no component overwrites another's bytes, no pixel its
\* neighbour's, and on SPI every bit has its code (set_pixel,
\* set_pixel_rgbw, clear and the format check of both drivers).
PixelsHold == \A p \in DOMAIN asked : ReadsColor(p, asked[p])

\* set_pixel_hsv and set_pixel_hsv_16 come within two steps below and one
\* above what the definition of the hue circle gives, for every component and
\* every hue below 360.
HsvNear ==
  hsv # <<>> /\ hsv[2] < 360 =>
    \A c \in DOMAIN Peak : Near(c, hsv[1], hsv[2], hsv[3], hsv[4])
=============================================================================
