-------------------------- MODULE LedPixels_proofs --------------------------
(***************************************************************************)
(* The frame of a strip reads as the colours set, for every length, every  *)
(* set of formats the drivers accept and every colour; and the conversion  *)
(* from hue, saturation and value stays close to its definition, for every *)
(* hue below 360.                                                          *)
(*                                                                         *)
(* That a frame reads as a colour is a statement about bits of the wire.   *)
(* The invariant says it of bytes: the bytes of a component are its code.  *)
(* What is left is arithmetic: where the byte of a component is, that no   *)
(* other component and no other pixel is there, and that the code of a     *)
(* byte is read as that byte.                                              *)
(***************************************************************************)
EXTENDS LedPixels, TLAPS

FormatType == [r : 0 .. 3, g : 0 .. 3, b : 0 .. 3, w : 0 .. 3,
               bytes : 0 .. 3, num : 0 .. 7]

\* A format a strip can have.
Usable(f) == f \in FormatType /\ ValidFormat(f) /\ f.bytes \in 1 .. 3

\* The buffer b has, from byte n, what x is coded as.
Coded(b, d, n, x) == IF d = "rmt" THEN b[n] = Bits(x)
                     ELSE \A m \in 0 .. 2 : b[n + m] = SpiBit(x)[m + 1]

\* The first byte of byte i of the component Used(f)[k], in pixel p.
Place(d, f, p, k, i) == p * (BytesPerPixel(f) * Stride(d))
                          + (f[Used(f)[k]] * f.bytes + i) * Stride(d)

\* Every byte of the color is where the format puts it in pixel p.
Shown(b, d, f, p, color) ==
    \A k \in 1 .. f.num, i \in 0 .. f.bytes - 1 :
        Coded(b, d, Place(d, f, p, k, i), ByteOf(color[Used(f)[k]], f.bytes, i))

HsvType == hsv = <<>> \/ /\ hsv \in Scales \X Nat \X Nat \X Nat
                         /\ hsv[3] <= hsv[1] /\ hsv[4] <= hsv[1]

PixelInv == /\ TypeOK
            /\ status = "live" => Usable(format)
            /\ status # "live" => DOMAIN asked = {}
            /\ \A p \in DOMAIN asked : Shown(buf, driver, format, p, asked[p])
            /\ HsvType
-----------------------------------------------------------------------------
(* Where a byte is.                                                        *)

Sizes == {3, 4, 6, 8, 9, 12, 18, 24, 27, 36}

LEMMA FormatFits ==
    ASSUME NEW f, Usable(f)
    PROVE  /\ f.num \in {3, 4} /\ DOMAIN Used(f) = 1 .. f.num
           /\ \A k \in 1 .. f.num : /\ Used(f)[k] \in Components
                                    /\ f[Used(f)[k]] \in 0 .. f.num - 1
           /\ \A k, l \in 1 .. f.num : f[Used(f)[k]] = f[Used(f)[l]] => k = l
<1>1. CASE f.num = 3
  <2>1. {f.r, f.g, f.b} = 0 .. 2
    BY <1>1 DEF Usable, ValidFormat
  <2>2. /\ f.r \in 0 .. 2 /\ f.g \in 0 .. 2 /\ f.b \in 0 .. 2
        /\ f.r # f.g /\ f.r # f.b /\ f.g # f.b
    <3>1. /\ f.r \in {f.r, f.g, f.b} /\ f.g \in {f.r, f.g, f.b}
          /\ f.b \in {f.r, f.g, f.b}
      OBVIOUS
    <3>2. 0 \in {f.r, f.g, f.b} /\ 1 \in {f.r, f.g, f.b} /\ 2 \in {f.r, f.g, f.b}
      BY <2>1
    <3> QED  BY <2>1, <3>1, <3>2
  <2>3. Used(f) = <<"r", "g", "b">>
    BY <1>1 DEF Used
  <2>4. \A k \in 1 .. 3 : k = 1 \/ k = 2 \/ k = 3
    OBVIOUS
  <2> QED  BY <1>1, <2>2, <2>3, <2>4 DEF Components
<1>2. CASE f.num = 4
  <2>1. {f.r, f.g, f.b, f.w} = 0 .. 3
    BY <1>2 DEF Usable, ValidFormat
  <2>2. /\ f.r \in 0 .. 3 /\ f.g \in 0 .. 3 /\ f.b \in 0 .. 3 /\ f.w \in 0 .. 3
        /\ f.r # f.g /\ f.r # f.b /\ f.r # f.w /\ f.g # f.b /\ f.g # f.w /\ f.b # f.w
    <3>1. /\ f.r \in {f.r, f.g, f.b, f.w} /\ f.g \in {f.r, f.g, f.b, f.w}
          /\ f.b \in {f.r, f.g, f.b, f.w} /\ f.w \in {f.r, f.g, f.b, f.w}
      OBVIOUS
    <3>2. /\ 0 \in {f.r, f.g, f.b, f.w} /\ 1 \in {f.r, f.g, f.b, f.w}
          /\ 2 \in {f.r, f.g, f.b, f.w} /\ 3 \in {f.r, f.g, f.b, f.w}
      BY <2>1
    <3> QED  BY <2>1, <3>1, <3>2
  <2>3. Used(f) = <<"r", "g", "b", "w">>
    BY <1>2 DEF Used
  <2>4. \A k \in 1 .. 4 : k = 1 \/ k = 2 \/ k = 3 \/ k = 4
    OBVIOUS
  <2> QED  BY <1>2, <2>2, <2>3, <2>4 DEF Components
<1> QED  BY <1>1, <1>2 DEF Usable, ValidFormat

LEMMA SizeIs ==
    ASSUME NEW f, Usable(f), NEW d \in {"rmt", "spi"}
    PROVE  /\ BytesPerPixel(f) \in Sizes /\ BytesPerPixel(f) = f.num * f.bytes
           /\ BytesPerPixel(f) * Stride(d) \in Sizes
           /\ Stride(d) = IF d = "rmt" THEN 1 ELSE 3
<1>1. f.num \in {3, 4} /\ f.bytes \in {1, 2, 3}
  BY FormatFits DEF Usable
<1>2. f.num * f.bytes \in {3, 4, 6, 8, 9, 12}
  BY <1>1
<1>3. Stride(d) = IF d = "rmt" THEN 1 ELSE 3
  BY DEF Stride
<1> QED  BY <1>2, <1>3 DEF BytesPerPixel, Sizes

\* Byte j of pixel p, of any number of pixels, and of no other.
LEMMA Divided ==
    ASSUME NEW W \in Sizes, NEW p \in Nat, NEW j \in 0 .. W - 1
    PROVE  (p * W + j) \div W = p /\ (p * W + j) % W = j
  BY DEF Sizes

LEMMA Placed ==
    ASSUME NEW W \in Sizes, NEW n \in Nat, NEW p \in 0 .. n - 1, NEW j \in 0 .. W - 1
    PROVE  p * W + j \in 0 .. n * W - 1
  BY DEF Sizes

\* Byte i of the component in position c, of b bytes each.
LEMMA Located ==
    ASSUME NEW b \in 1 .. 3, NEW n \in {3, 4}, NEW c \in 0 .. n - 1, NEW i \in 0 .. b - 1
    PROVE  /\ (c * b + i) \div b = c /\ (c * b + i) % b = i
           /\ c * b + i \in 0 .. n * b - 1
<1>1. b = 1 \/ b = 2 \/ b = 3
  OBVIOUS
<1> QED  BY <1>1

\* Byte m of three.
LEMMA Third ==
    ASSUME NEW a \in Nat, NEW m \in 0 .. 2
    PROVE  (a * 3 + m) \div 3 = a /\ (a * 3 + m) % 3 = m
  OBVIOUS
-----------------------------------------------------------------------------
(* What is in it.                                                          *)

\* set_pixel puts the bytes of each component where the format says, and
\* nothing of another component is there.
LEMMA PixelIs ==
    ASSUME NEW f, Usable(f), NEW d \in {"rmt", "spi"}, NEW old, NEW color,
           NEW k \in 1 .. f.num, NEW i \in 0 .. f.bytes - 1, NEW m \in 0 .. 2,
           NEW at, at = f[Used(f)[k]] * f.bytes + i,
           NEW x, x = ByteOf(color[Used(f)[k]], f.bytes, i)
    PROVE  /\ at \in 0 .. BytesPerPixel(f) - 1
           /\ d = "rmt" => Pixel(d, f, old, color)[at] = Bits(x)
           /\ d = "spi" => Pixel(d, f, old, color)[at * 3 + m] = SpiBit(x)[m + 1]
<1> DEFINE c == f[Used(f)[k]]
           here(n) == {l \in DOMAIN Used(f) : f[Used(f)[l]] = n \div f.bytes}
           byte(n, l) == ByteOf(color[Used(f)[l]], f.bytes, n % f.bytes)
<1>1. /\ f.num \in {3, 4} /\ f.bytes \in 1 .. 3 /\ c \in 0 .. f.num - 1
      /\ DOMAIN Used(f) = 1 .. f.num
      /\ \A l \in 1 .. f.num : f[Used(f)[l]] = c => l = k
  BY FormatFits DEF Usable
<1>2. at \div f.bytes = c /\ at % f.bytes = i /\ at \in 0 .. f.num * f.bytes - 1
  <2> DEFINE b == f.bytes
             n == f.num
  <2>1. b \in 1 .. 3 /\ n \in {3, 4} /\ c \in 0 .. n - 1 /\ i \in 0 .. b - 1
    BY <1>1
  <2> HIDE DEF b, n, c
  <2>2. /\ (c * b + i) \div b = c /\ (c * b + i) % b = i
        /\ c * b + i \in 0 .. n * b - 1
    BY <2>1, Located
  <2> QED  BY <2>2 DEF b, n, c
<1>3. here(at) = {k} /\ byte(at, k) = x
  <2>1. here(at) = {l \in 1 .. f.num : f[Used(f)[l]] = c}
    BY <1>1, <1>2
  <2> QED  BY <1>1, <1>2, <2>1
<1>4. at \in 0 .. BytesPerPixel(f) - 1 /\ at \in Nat
  BY <1>2, SizeIs
<1> HIDE DEF c
<1>5. ASSUME d = "rmt" PROVE Pixel(d, f, old, color)[at] = Bits(x)
  <2>1. Stride(d) = 1 /\ BytesPerPixel(f) * 1 = BytesPerPixel(f) /\ at \div 1 = at
    BY <1>4, <1>5, SizeIs DEF Sizes
  <2>2. Pixel(d, f, old, color)[at]
          = IF here(at) = {} THEN old[at] ELSE Bits(byte(at, Max(here(at))))
    BY <1>4, <1>5, <2>1 DEF Pixel
  <2>3. Max({k}) = k
    BY DEF Max
  <2> QED  BY <1>3, <2>2, <2>3
<1>6. ASSUME d = "spi"
      PROVE  Pixel(d, f, old, color)[at * 3 + m] = SpiBit(x)[m + 1]
  <2>1. Stride(d) = 3 /\ BytesPerPixel(f) \in Nat
    BY <1>6, SizeIs DEF Sizes
  <2>2. at * 3 + m \in 0 .. BytesPerPixel(f) * 3 - 1
    BY <1>4, <2>1
  <2>3. (at * 3 + m) \div 3 = at /\ (at * 3 + m) % 3 = m
    BY <1>4, Third
  <2> DEFINE n == at * 3 + m
  <2> HIDE DEF n
  <2>4. Pixel(d, f, old, color)[n]
          = UNION {SpiBit(byte(n \div 3, l))[(n % 3) + 1] : l \in here(n \div 3)}
    BY <1>6, <2>1, <2>2 DEF Pixel, n
  <2>5. Pixel(d, f, old, color)[n] = UNION {SpiBit(byte(at, l))[m + 1] : l \in {k}}
    BY <1>3, <2>3, <2>4 DEF n
  <2>6. \A s : UNION {s} = s
    OBVIOUS
  <2> QED  BY <1>3, <2>5, <2>6 DEF n
<1> QED  BY <1>4, <1>5, <1>6

\* What Put leaves in pixel p and in every other one.
LEMMA PutIs ==
    ASSUME NumLeds \in Nat, NEW p \in Leds, NEW color, Width \in Sizes,
           DOMAIN buf = 0 .. NumLeds * Width - 1, NEW j \in 0 .. Width - 1
    PROVE  /\ Put(p, color)[p * Width + j]
                = Pixel(driver, format, [i \in 0 .. Width - 1 |-> buf[p * Width + i]],
                        color)[j]
           /\ \A q \in Leds \ {p} : Put(p, color)[q * Width + j] = buf[q * Width + j]
<1> DEFINE W == Width
           pixel == Pixel(driver, format, [i \in 0 .. W - 1 |-> buf[p * W + i]], color)
<1>1. Put(p, color) = [i \in DOMAIN buf |->
                          IF i \div W = p THEN pixel[i % W] ELSE buf[i]]
  BY DEF Put
<1>2. p \in 0 .. NumLeds - 1 /\ Leds = 0 .. NumLeds - 1
  BY DEF Leds
<1> HIDE DEF W, pixel
<1>3. \A q \in Leds : /\ q * W + j \in DOMAIN buf
                      /\ (q * W + j) \div W = q /\ (q * W + j) % W = j
  <2> SUFFICES ASSUME NEW q \in Leds
               PROVE  /\ q * W + j \in DOMAIN buf
                      /\ (q * W + j) \div W = q /\ (q * W + j) % W = j
    OBVIOUS
  <2>1. q \in Nat /\ q \in 0 .. NumLeds - 1
    BY <1>2
  <2>2. W \in Sizes /\ j \in 0 .. W - 1 /\ DOMAIN buf = 0 .. NumLeds * W - 1
    BY DEF W
  <2> QED  BY <2>1, <2>2, Divided, Placed
<1>4. Put(p, color)[p * W + j] = pixel[j]
  BY <1>1, <1>3
<1>5. \A q \in Leds \ {p} : Put(p, color)[q * W + j] = buf[q * W + j]
  BY <1>1, <1>3
<1> QED  BY <1>4, <1>5 DEF W, pixel

\* A bit is sent as 110 or 100: three bytes of the code of x are read as x.
LEMMA ReadsCode ==
    ASSUME NEW n \in Nat, NEW x, \A m \in 0 .. 2 : buf[n + m] = SpiBit(x)[m + 1],
           NEW k \in 0 .. 7
    PROVE  /\ Stream(n, 3 * k)
           /\ Stream(n, 3 * k + 1) = Bit(x, 7 - k)
           /\ ~Stream(n, 3 * k + 2)
<1> DEFINE on(i, b) == IF Bit(x, i) THEN {b} ELSE {}
<1>1. /\ buf[n] = {7, 4, 1} \union on(7, 6) \union on(6, 3) \union on(5, 0)
      /\ buf[n + 1] = {6, 3, 0} \union on(4, 5) \union on(3, 2)
      /\ buf[n + 2] = {5, 2} \union on(2, 7) \union on(1, 4) \union on(0, 1)
  <2>1. buf[n + 0] = SpiBit(x)[0 + 1] /\ buf[n + 1] = SpiBit(x)[1 + 1]
        /\ buf[n + 2] = SpiBit(x)[2 + 1]
    OBVIOUS
  <2>2. n + 0 = n
    OBVIOUS
  <2> QED  BY <2>1, <2>2 DEF SpiBit
<1>2. /\ \A i \in 0 .. 7 : Stream(n, i) <=> 7 - i \in buf[n]
      /\ \A i \in 8 .. 15 : Stream(n, i) <=> 15 - i \in buf[n + 1]
      /\ \A i \in 16 .. 23 : Stream(n, i) <=> 23 - i \in buf[n + 2]
  <2>1. \A i \in 0 .. 7 : i % 8 = i /\ i \div 8 = 0
    OBVIOUS
  <2>2. \A i \in 8 .. 15 : 7 - (i % 8) = 15 - i /\ i \div 8 = 1
    OBVIOUS
  <2>3. \A i \in 16 .. 23 : 7 - (i % 8) = 23 - i /\ i \div 8 = 2
    OBVIOUS
  <2>4. n + 0 = n
    OBVIOUS
  <2> QED  BY <2>1, <2>2, <2>3, <2>4 DEF Stream
<1>3. /\ Stream(n, 0) /\ (Stream(n, 1) <=> Bit(x, 7)) /\ ~Stream(n, 2)
      /\ Stream(n, 3) /\ (Stream(n, 4) <=> Bit(x, 6)) /\ ~Stream(n, 5)
      /\ Stream(n, 6) /\ (Stream(n, 7) <=> Bit(x, 5))
  <2>1. \A b : b \in buf[n] <=> \/ b \in {7, 4, 1} \/ (b = 6 /\ Bit(x, 7))
                                \/ (b = 3 /\ Bit(x, 6)) \/ (b = 0 /\ Bit(x, 5))
    <3>1. \A i, c : \A b : b \in on(i, c) <=> b = c /\ Bit(x, i)
      OBVIOUS
    <3> HIDE DEF on
    <3> QED  BY <1>1, <3>1
  <2> HIDE DEF on
  <2>2. \A i \in 0 .. 7 : Stream(n, i) <=> 7 - i \in buf[n]
    BY <1>2
  <2>3. /\ (Stream(n, 0) <=> 7 \in buf[n]) /\ (Stream(n, 1) <=> 6 \in buf[n])
        /\ (Stream(n, 2) <=> 5 \in buf[n]) /\ (Stream(n, 3) <=> 4 \in buf[n])
        /\ (Stream(n, 4) <=> 3 \in buf[n]) /\ (Stream(n, 5) <=> 2 \in buf[n])
        /\ (Stream(n, 6) <=> 1 \in buf[n]) /\ (Stream(n, 7) <=> 0 \in buf[n])
    BY <2>2
  <2> QED  BY <2>1, <2>3
<1>4. /\ ~Stream(n, 8) /\ Stream(n, 9) /\ (Stream(n, 10) <=> Bit(x, 4))
      /\ ~Stream(n, 11) /\ Stream(n, 12) /\ (Stream(n, 13) <=> Bit(x, 3))
      /\ ~Stream(n, 14) /\ Stream(n, 15)
  <2>1. \A b : b \in buf[n + 1] <=> \/ b \in {6, 3, 0} \/ (b = 5 /\ Bit(x, 4))
                                    \/ (b = 2 /\ Bit(x, 3))
    <3>1. \A i, c : \A b : b \in on(i, c) <=> b = c /\ Bit(x, i)
      OBVIOUS
    <3> HIDE DEF on
    <3> QED  BY <1>1, <3>1
  <2> HIDE DEF on
  <2>2. \A i \in 8 .. 15 : Stream(n, i) <=> 15 - i \in buf[n + 1]
    BY <1>2
  <2>3. /\ (Stream(n, 8) <=> 7 \in buf[n + 1]) /\ (Stream(n, 9) <=> 6 \in buf[n + 1])
        /\ (Stream(n, 10) <=> 5 \in buf[n + 1]) /\ (Stream(n, 11) <=> 4 \in buf[n + 1])
        /\ (Stream(n, 12) <=> 3 \in buf[n + 1]) /\ (Stream(n, 13) <=> 2 \in buf[n + 1])
        /\ (Stream(n, 14) <=> 1 \in buf[n + 1]) /\ (Stream(n, 15) <=> 0 \in buf[n + 1])
    BY <2>2
  <2> QED  BY <2>1, <2>3
<1>5. /\ (Stream(n, 16) <=> Bit(x, 2)) /\ ~Stream(n, 17) /\ Stream(n, 18)
      /\ (Stream(n, 19) <=> Bit(x, 1)) /\ ~Stream(n, 20) /\ Stream(n, 21)
      /\ (Stream(n, 22) <=> Bit(x, 0)) /\ ~Stream(n, 23)
  <2>1. \A b : b \in buf[n + 2] <=> \/ b \in {5, 2} \/ (b = 7 /\ Bit(x, 2))
                                    \/ (b = 4 /\ Bit(x, 1)) \/ (b = 1 /\ Bit(x, 0))
    <3>1. \A i, c : \A b : b \in on(i, c) <=> b = c /\ Bit(x, i)
      OBVIOUS
    <3> HIDE DEF on
    <3> QED  BY <1>1, <3>1
  <2> HIDE DEF on
  <2>2. \A i \in 16 .. 23 : Stream(n, i) <=> 23 - i \in buf[n + 2]
    BY <1>2
  <2>3. /\ (Stream(n, 16) <=> 7 \in buf[n + 2]) /\ (Stream(n, 17) <=> 6 \in buf[n + 2])
        /\ (Stream(n, 18) <=> 5 \in buf[n + 2]) /\ (Stream(n, 19) <=> 4 \in buf[n + 2])
        /\ (Stream(n, 20) <=> 3 \in buf[n + 2]) /\ (Stream(n, 21) <=> 2 \in buf[n + 2])
        /\ (Stream(n, 22) <=> 1 \in buf[n + 2]) /\ (Stream(n, 23) <=> 0 \in buf[n + 2])
    BY <2>2
  <2> QED  BY <2>1, <2>3
<1>6. /\ Stream(n, 3 * k)
      /\ Stream(n, 3 * k + 1) <=> Bit(x, 7 - k)
      /\ ~Stream(n, 3 * k + 2)
  <2>1. \/ k = 0 /\ 3 * k = 0 /\ 3 * k + 1 = 1 /\ 3 * k + 2 = 2 /\ 7 - k = 7
        \/ k = 1 /\ 3 * k = 3 /\ 3 * k + 1 = 4 /\ 3 * k + 2 = 5 /\ 7 - k = 6
        \/ k = 2 /\ 3 * k = 6 /\ 3 * k + 1 = 7 /\ 3 * k + 2 = 8 /\ 7 - k = 5
        \/ k = 3 /\ 3 * k = 9 /\ 3 * k + 1 = 10 /\ 3 * k + 2 = 11 /\ 7 - k = 4
        \/ k = 4 /\ 3 * k = 12 /\ 3 * k + 1 = 13 /\ 3 * k + 2 = 14 /\ 7 - k = 3
        \/ k = 5 /\ 3 * k = 15 /\ 3 * k + 1 = 16 /\ 3 * k + 2 = 17 /\ 7 - k = 2
        \/ k = 6 /\ 3 * k = 18 /\ 3 * k + 1 = 19 /\ 3 * k + 2 = 20 /\ 7 - k = 1
        \/ k = 7 /\ 3 * k = 21 /\ 3 * k + 1 = 22 /\ 3 * k + 2 = 23 /\ 7 - k = 0
    OBVIOUS
  <2> QED  BY <1>3, <1>4, <1>5, <2>1
<1> QED  BY <1>6 DEF Stream, Bit

\* A byte of 0 has no bit set, and black has only such bytes.
LEMMA ZeroBytes ==
    ASSUME NEW b \in 1 .. 3, NEW i \in 0 .. b - 1
    PROVE  ByteOf(0, b, i) = 0 /\ Bits(0) = {}
<1>1. \A w \in Nat \ {0} : (0 \div w) % 256 = 0 /\ (0 \div w) % 2 = 0
  OBVIOUS
<1>2. 256 ^ (b - 1 - i) \in Nat \ {0}
  <2>1. b - 1 - i \in {0, 1, 2}
    OBVIOUS
  <2>2. 256 ^ 0 = 1 /\ 256 ^ 1 = 256 /\ 256 ^ 2 = 65536
    OBVIOUS
  <2> DEFINE m == b - 1 - i
  <2> HIDE DEF m
  <2>3. m \in {0, 1, 2}
    BY <2>1 DEF m
  <2>4. 256 ^ m \in Nat \ {0}
    <3>1. CASE m = 0
      BY <2>2, <3>1
    <3>2. CASE m = 1
      BY <2>2, <3>2
    <3>3. CASE m = 2
      BY <2>2, <3>3
    <3> QED  BY <2>3, <3>1, <3>2, <3>3
  <2> QED  BY <2>4 DEF m
<1>3. ByteOf(0, b, i) = 0
  BY <1>1, <1>2 DEF ByteOf
<1>4. \A j \in 0 .. 7 : ~Bit(0, j)
  <2> SUFFICES ASSUME NEW j \in 0 .. 7 PROVE ~Bit(0, j)
    OBVIOUS
  <2>1. 2 ^ 0 = 1 /\ 2 ^ 1 = 2 /\ 2 ^ 2 = 4 /\ 2 ^ 3 = 8 /\ 2 ^ 4 = 16
        /\ 2 ^ 5 = 32 /\ 2 ^ 6 = 64 /\ 2 ^ 7 = 128
    OBVIOUS
  <2>2. j \in {0, 1, 2, 3, 4, 5, 6, 7}
    OBVIOUS
  <2>3. 2 ^ j \in Nat \ {0}
    <3>1. CASE j = 0
      BY <2>1, <3>1
    <3>2. CASE j = 1
      BY <2>1, <3>2
    <3>3. CASE j = 2
      BY <2>1, <3>3
    <3>4. CASE j = 3
      BY <2>1, <3>4
    <3>5. CASE j = 4
      BY <2>1, <3>5
    <3>6. CASE j = 5
      BY <2>1, <3>6
    <3>7. CASE j = 6
      BY <2>1, <3>7
    <3>8. CASE j = 7
      BY <2>1, <3>8
    <3> QED  BY <2>2, <3>1, <3>2, <3>3, <3>4, <3>5, <3>6, <3>7, <3>8
  <2> QED  BY <1>1, <2>3 DEF Bit
<1> QED  BY <1>3, <1>4 DEF Bits
-----------------------------------------------------------------------------
(* Setting, clearing and reading a pixel.                                  *)

\* The strip is live, as far as the frame is concerned.
Framed == /\ NumLeds \in Nat /\ driver \in {"rmt", "spi"} /\ Usable(format)
          /\ DOMAIN buf = 0 .. NumLeds * Width - 1
          /\ \A i \in DOMAIN buf : buf[i] \subseteq 0 .. 7

\* The places of pixel p: its own bytes, as many as the code has.
LEMMA PlaceIs ==
    ASSUME Framed, NEW p \in Leds,
           NEW k \in 1 .. format.num, NEW i \in 0 .. format.bytes - 1
    PROVE  LET at == format[Used(format)[k]] * format.bytes + i
               n  == Place(driver, format, p, k, i)
           IN  /\ Width \in Sizes /\ p \in Nat /\ at \in Nat /\ n \in Nat
               /\ driver = "rmt" => at \in 0 .. Width - 1 /\ n = p * Width + at
               /\ driver = "spi" => \A m \in 0 .. 2 :
                     /\ at * 3 + m \in 0 .. Width - 1
                     /\ n + m = p * Width + (at * 3 + m)
<1> DEFINE at == format[Used(format)[k]] * format.bytes + i
           n == Place(driver, format, p, k, i)
           B == BytesPerPixel(format)
<1>1. B \in Sizes /\ Width \in Sizes /\ Width = B * Stride(driver)
      /\ Stride(driver) = IF driver = "rmt" THEN 1 ELSE 3
  BY SizeIs DEF Framed, Width
<1>2. at \in 0 .. B - 1
  <2>1. 0 \in 0 .. 2
    OBVIOUS
  <2> QED  BY <2>1, PixelIs DEF Framed
<1>3. p \in Nat
  BY DEF Leds, Framed
<1>4. n = p * Width + at * Stride(driver)
  BY DEF Place, Width
<1> HIDE DEF at, n, B
<1> DEFINE first == p * Width
<1>5. first \in Nat
  BY <1>1, <1>3 DEF Sizes
<1>6. n = first + at * Stride(driver)
  BY <1>4
<1> HIDE DEF first
<1>7. CASE driver = "rmt"
  <2>1. Width = B /\ n = first + at
    BY <1>1, <1>2, <1>6, <1>7 DEF Sizes
  <2>2. n \in Nat /\ at \in Nat /\ at \in 0 .. Width - 1
    BY <1>2, <1>5, <2>1
  <2> QED  BY <1>1, <1>3, <1>7, <2>1, <2>2 DEF first, at, n
<1>8. CASE driver = "spi"
  <2>1. Width = B * 3 /\ n = first + at * 3 /\ B \in Nat
    BY <1>1, <1>6, <1>8 DEF Sizes
  <2>2. \A m \in 0 .. 2 : at * 3 + m \in 0 .. Width - 1
    BY <1>2, <2>1
  <2>3. /\ n \in Nat /\ at \in Nat
        /\ \A m \in 0 .. 2 : n + m = first + (at * 3 + m)
    BY <1>2, <1>5, <2>1
  <2> QED  BY <1>1, <1>3, <1>8, <2>2, <2>3 DEF first, at, n
<1> QED  BY <1>7, <1>8 DEF Framed

\* The code of a byte is in three bytes.
LEMMA SpiBitType ==
    ASSUME NEW x, NEW m \in 1 .. 3
    PROVE  SpiBit(x)[m] \subseteq 0 .. 7
<1>1. m = 1 \/ m = 2 \/ m = 3
  OBVIOUS
<1> QED  BY <1>1 DEF SpiBit

LEMMA PixelType ==
    ASSUME Framed, NEW old, \A j \in 0 .. Width - 1 : old[j] \subseteq 0 .. 7,
           NEW color, NEW j \in 0 .. Width - 1
    PROVE  Pixel(driver, format, old, color)[j] \subseteq 0 .. 7
<1>1. \A x : Bits(x) \subseteq 0 .. 7
  BY DEF Bits
<1>2. \A x : \A m \in 1 .. 3 : SpiBit(x)[m] \subseteq 0 .. 7
  BY SpiBitType
<1>3. CASE driver = "rmt"
  BY <1>1, <1>3 DEF Pixel, Width
<1>4. CASE driver = "spi"
  <2>1. (j % 3) + 1 \in 1 .. 3
    <3>1. j \in Nat
      BY SizeIs DEF Framed, Width, Sizes
    <3> QED  BY <3>1
  <2> DEFINE at == j \div Stride(driver)
             here == {k \in DOMAIN Used(format) : format[Used(format)[k]] = at \div format.bytes}
             byte(k) == ByteOf(color[Used(format)[k]], format.bytes, at % format.bytes)
             m == (j % 3) + 1
  <2>2. Pixel(driver, format, old, color)[j] = UNION {SpiBit(byte(k))[m] : k \in here}
    BY <1>4 DEF Pixel, Width
  <2> HIDE DEF byte, here, m
  <2>3. m \in 1 .. 3
    BY <2>1 DEF m
  <2> QED  BY <1>2, <2>2, <2>3
<1> QED  BY <1>3, <1>4 DEF Framed

\* Setting pixel p shows its colour, and leaves every other pixel as it was.
LEMMA PutShows ==
    ASSUME Framed, NEW p \in Leds, NEW color
    PROVE  /\ Shown(Put(p, color), driver, format, p, color)
           /\ \A q \in Leds \ {p} : \A c :
                 Shown(buf, driver, format, q, c)
                   => Shown(Put(p, color), driver, format, q, c)
<1> DEFINE old == [j \in 0 .. Width - 1 |-> buf[p * Width + j]]
<1>1. \A j \in 0 .. Width - 1 :
         /\ Put(p, color)[p * Width + j] = Pixel(driver, format, old, color)[j]
         /\ \A q \in Leds \ {p} : Put(p, color)[q * Width + j] = buf[q * Width + j]
  <2>1. Width \in Sizes
    BY SizeIs DEF Framed, Width
  <2> QED  BY <2>1, PutIs DEF Framed
<1> HIDE DEF old
<1>2. ASSUME NEW k \in 1 .. format.num, NEW i \in 0 .. format.bytes - 1
      PROVE  Coded(Put(p, color), driver, Place(driver, format, p, k, i),
                   ByteOf(color[Used(format)[k]], format.bytes, i))
  <2> DEFINE at == format[Used(format)[k]] * format.bytes + i
             n == Place(driver, format, p, k, i)
             x == ByteOf(color[Used(format)[k]], format.bytes, i)
  <2>1. /\ driver = "rmt" => Pixel(driver, format, old, color)[at] = Bits(x)
        /\ driver = "spi" => \A m \in 0 .. 2 :
              Pixel(driver, format, old, color)[at * 3 + m] = SpiBit(x)[m + 1]
    <3>1. Usable(format) /\ driver \in {"rmt", "spi"} /\ 0 \in 0 .. 2
      BY DEF Framed
    <3>2. at = format[Used(format)[k]] * format.bytes + i
      OBVIOUS
    <3>3. x = ByteOf(color[Used(format)[k]], format.bytes, i)
      OBVIOUS
    <3> HIDE DEF at, x
    <3> QED  BY <3>1, <3>2, <3>3, PixelIs
  <2>2. /\ driver = "rmt" => at \in 0 .. Width - 1 /\ n = p * Width + at
        /\ driver = "spi" => \A m \in 0 .. 2 : /\ at * 3 + m \in 0 .. Width - 1
                                               /\ n + m = p * Width + (at * 3 + m)
    BY PlaceIs
  <2> HIDE DEF at, n, x
  <2>3. Coded(Put(p, color), driver, n, x)
    BY <1>1, <2>1, <2>2 DEF Coded, Framed
  <2> QED  BY <2>3 DEF n, x
<1>3. ASSUME NEW q \in Leds \ {p}, NEW c, Shown(buf, driver, format, q, c),
             NEW k \in 1 .. format.num, NEW i \in 0 .. format.bytes - 1
      PROVE  Coded(Put(p, color), driver, Place(driver, format, q, k, i),
                   ByteOf(c[Used(format)[k]], format.bytes, i))
  <2> DEFINE at == format[Used(format)[k]] * format.bytes + i
             n == Place(driver, format, q, k, i)
             x == ByteOf(c[Used(format)[k]], format.bytes, i)
  <2>1. Coded(buf, driver, n, x)
    BY <1>3 DEF Shown
  <2>2. /\ driver = "rmt" => at \in 0 .. Width - 1 /\ n = q * Width + at
        /\ driver = "spi" => \A m \in 0 .. 2 : /\ at * 3 + m \in 0 .. Width - 1
                                               /\ n + m = q * Width + (at * 3 + m)
    BY PlaceIs
  <2> HIDE DEF at, n, x
  <2>3. Coded(Put(p, color), driver, n, x)
    BY <1>1, <2>1, <2>2 DEF Coded, Framed
  <2> QED  BY <2>3 DEF n, x
<1> QED  BY <1>2, <1>3 DEF Shown

LEMMA PutType ==
    ASSUME Framed, NEW p \in Leds, NEW color
    PROVE  /\ DOMAIN Put(p, color) = DOMAIN buf
           /\ \A i \in DOMAIN buf : Put(p, color)[i] \subseteq 0 .. 7
<1> DEFINE old == [j \in 0 .. Width - 1 |-> buf[p * Width + j]]
           pixel == Pixel(driver, format, old, color)
           W == Width
<1>1. W \in Sizes /\ p \in 0 .. NumLeds - 1 /\ NumLeds \in Nat
  BY SizeIs DEF Framed, Width, Leds
<1>2. \A j \in 0 .. W - 1 : old[j] \subseteq 0 .. 7
  <2> SUFFICES ASSUME NEW j \in 0 .. W - 1 PROVE buf[p * W + j] \subseteq 0 .. 7
    OBVIOUS
  <2> HIDE DEF W
  <2>1. p * W + j \in 0 .. NumLeds * W - 1
    BY <1>1, Placed
  <2> QED  BY <2>1 DEF W, Framed
<1>3. \A j \in 0 .. W - 1 : pixel[j] \subseteq 0 .. 7
  BY <1>2, PixelType
<1>4. Put(p, color) = [i \in DOMAIN buf |-> IF i \div W = p THEN pixel[i % W] ELSE buf[i]]
  BY DEF Put
<1> HIDE DEF pixel
<1>5. ASSUME NEW i \in DOMAIN buf PROVE i % W \in 0 .. W - 1
  <2>1. i \in Int
    BY <1>5 DEF Framed
  <2> HIDE DEF W
  <2> QED  BY <1>1, <2>1 DEF Sizes
<1> QED  BY <1>3, <1>4, <1>5 DEF Framed

\* clear shows black everywhere.
LEMMA ClearShows ==
    ASSUME Framed, NEW p \in Leds
    PROVE  Shown(Zeroed, driver, format, p, Black)
<1> SUFFICES ASSUME NEW k \in 1 .. format.num, NEW i \in 0 .. format.bytes - 1
             PROVE  Coded(Zeroed, driver, Place(driver, format, p, k, i),
                          ByteOf(Black[Used(format)[k]], format.bytes, i))
  BY DEF Shown
<1> DEFINE at == format[Used(format)[k]] * format.bytes + i
           n == Place(driver, format, p, k, i)
           W == Width
<1>1. ByteOf(Black[Used(format)[k]], format.bytes, i) = 0 /\ Bits(0) = {}
  <2>1. Used(format)[k] \in Components
    BY FormatFits DEF Framed
  <2>2. Black[Used(format)[k]] = 0
    BY <2>1 DEF Black, Rgb, Components
  <2> QED  BY <2>2, ZeroBytes DEF Framed, Usable
<1>2. /\ W \in Sizes /\ p \in 0 .. NumLeds - 1 /\ NumLeds \in Nat
      /\ at \in Nat
      /\ driver = "rmt" => at \in 0 .. W - 1 /\ n = p * W + at
      /\ driver = "spi" => \A m \in 0 .. 2 : /\ at * 3 + m \in 0 .. W - 1
                                             /\ n + m = p * W + (at * 3 + m)
  BY PlaceIs DEF Framed, Leds
<1>3. /\ DOMAIN buf = 0 .. NumLeds * W - 1
      /\ Zeroed = [j \in DOMAIN buf |->
                      IF driver = "spi" THEN SpiBit(0)[(j % 3) + 1] ELSE {}]
  BY DEF Framed, Zeroed
<1>4. W = BytesPerPixel(format) * Stride(driver)
  BY DEF Width
<1> HIDE DEF at, n, W
<1>5. \A j \in 0 .. W - 1 : p * W + j \in DOMAIN buf
  BY <1>2, <1>3, Placed
<1>6. CASE driver = "rmt"
  BY <1>1, <1>2, <1>3, <1>5, <1>6 DEF Coded, n
<1>7. CASE driver = "spi"
  <2> SUFFICES ASSUME NEW m \in 0 .. 2 PROVE Zeroed[n + m] = SpiBit(0)[m + 1]
    BY <1>1, <1>7 DEF Coded, n
  <2>1. n + m \in DOMAIN buf
    BY <1>2, <1>5, <1>7
  <2>2. (n + m) % 3 = m
    <3> DEFINE B == BytesPerPixel(format)
               a == p * B + at
    <3>1. B \in Sizes /\ W = B * 3
      BY <1>4, <1>7, SizeIs DEF Framed
    <3>2. p \in Nat /\ at \in Nat /\ B \in Nat
      BY <1>2, <3>1 DEF Sizes
    <3>3. p * W + (at * 3 + m) = a * 3 + m /\ a \in Nat
      <4> HIDE DEF B
      <4> QED  BY <3>1, <3>2 DEF Sizes
    <3> HIDE DEF a
    <3> QED  BY <1>2, <1>7, <3>3, Third
  <2> QED  BY <1>3, <1>7, <2>1, <2>2
<1> QED  BY <1>6, <1>7 DEF Framed

\* What is coded is read.
LEMMA ShownReads ==
    ASSUME Framed, NEW p \in Leds, NEW color, Shown(buf, driver, format, p, color)
    PROVE  ReadsColor(p, color)
<1> SUFFICES ASSUME NEW k \in 1 .. format.num, NEW i \in 0 .. format.bytes - 1
             PROVE  Reads(p, format[Used(format)[k]] * format.bytes + i,
                          ByteOf(color[Used(format)[k]], format.bytes, i))
  BY FormatFits DEF ReadsColor, Framed
<1> DEFINE at == format[Used(format)[k]] * format.bytes + i
           n == Place(driver, format, p, k, i)
           x == ByteOf(color[Used(format)[k]], format.bytes, i)
<1>1. Coded(buf, driver, n, x)
  BY DEF Shown
<1>2. n = p * Width + at * Stride(driver)
  BY DEF Place, Width
<1>3. n \in Nat
  BY PlaceIs
<1> HIDE DEF at, n, x
<1>4. CASE driver = "rmt"
  BY <1>1, <1>2, <1>4 DEF Coded, Reads, at, x
<1>5. CASE driver = "spi"
  <2>1. \A m \in 0 .. 2 : buf[n + m] = SpiBit(x)[m + 1]
    BY <1>1, <1>5 DEF Coded
  <2>2. \A j \in 0 .. 7 : /\ Stream(n, 3 * j) /\ Stream(n, 3 * j + 1) = Bit(x, 7 - j)
                          /\ ~Stream(n, 3 * j + 2)
    BY <1>3, <2>1, ReadsCode
  <2> QED  BY <1>2, <1>5, <2>2 DEF Reads, at, x
<1> QED  BY <1>4, <1>5 DEF Framed
-----------------------------------------------------------------------------
(* The conversion.                                                         *)

\* The sextant of the circle a hue is in, and how far into it.
Sextant(hue) == hue \div 60
Within(hue)  == hue % 60

\* The two divisions, and what they lose.
Low(F, s, v)      == (v * (F - s)) \div F
Adj(F, hue, s, v) == ((v - Low(F, s, v)) * Within(hue)) \div 60
LowLoss(F, s, v)      == F * v - v * s - F * Low(F, s, v)
AdjLoss(F, hue, s, v) == (v - Low(F, s, v)) * Within(hue) - 60 * Adj(F, hue, s, v)

\* The sextants from the peak of a component, n, to that of the hue: at so
\* many the component has this part of its height,
Past(hue, n) == (Sextant(hue) - n + 6) % 6
Part(d, m) == IF d \in {0, 5} THEN 60 ELSE IF d = 1 THEN 60 - m
              ELSE IF d = 4 THEN m ELSE 0
Exact(F, s, v, part) == v * (60 * (F - s) + part * s)

\* and the code gives it this value.
Given(d, low, adj, v) == IF d \in {0, 5} THEN v ELSE IF d = 1 THEN v - adj
                         ELSE IF d = 4 THEN low + adj ELSE low

Fits(F, out, exact) == (out - 1) * 60 * F < exact /\ exact < (out + 2) * 60 * F

LEMMA LowIs ==
    ASSUME NEW F \in Scales, NEW s \in Nat, s <= F, NEW v \in Nat, v <= F
    PROVE  /\ Low(F, s, v) \in 0 .. v
           /\ LowLoss(F, s, v) \in Nat /\ LowLoss(F, s, v) < F
<1> DEFINE P == v * s
           X == v * (F - s)
<1>1. CASE F = 255
  <2>1. P \in 0 .. 255 * v
    BY <1>1
  <2>2. X = 255 * v - P
    BY <1>1
  <2> HIDE DEF P, X
  <2>3. X \div 255 \in 0 .. v /\ \E e \in Nat : e < 255 /\ 255 * (X \div 255) = X - e
    <3>1. X \in 0 .. 255 * v
      BY <1>1, <2>1, <2>2
    <3>2. (X % 255) \in Nat /\ (X % 255) < 255 /\ 255 * (X \div 255) = X - (X % 255)
      BY <3>1
    <3> QED  BY <1>1, <3>1, <3>2
  <2>4. Low(F, s, v) = X \div 255
    BY <1>1 DEF Low, X
  <2>5. LowLoss(F, s, v) = 255 * v - P - 255 * Low(F, s, v)
    BY <1>1 DEF LowLoss, P
  <2>6. PICK e \in Nat : e < 255 /\ 255 * (X \div 255) = X - e
    BY <2>3
  <2>7. LowLoss(F, s, v) = e
    BY <2>1, <2>2, <2>4, <2>5, <2>6
  <2> QED  BY <1>1, <2>3, <2>4, <2>6, <2>7
<1>2. CASE F = 65535
  <2>1. P \in 0 .. 65535 * v
    BY <1>2
  <2>2. X = 65535 * v - P
    BY <1>2
  <2> HIDE DEF P, X
  <2>3. X \div 65535 \in 0 .. v /\ \E e \in Nat : e < 65535 /\ 65535 * (X \div 65535) = X - e
    <3>1. X \in 0 .. 65535 * v
      BY <1>2, <2>1, <2>2
    <3>2. (X % 65535) \in Nat /\ (X % 65535) < 65535 /\ 65535 * (X \div 65535) = X - (X % 65535)
      BY <3>1
    <3> QED  BY <1>2, <3>1, <3>2
  <2>4. Low(F, s, v) = X \div 65535
    BY <1>2 DEF Low, X
  <2>5. LowLoss(F, s, v) = 65535 * v - P - 65535 * Low(F, s, v)
    BY <1>2 DEF LowLoss, P
  <2>6. PICK e \in Nat : e < 65535 /\ 65535 * (X \div 65535) = X - e
    BY <2>3
  <2>7. LowLoss(F, s, v) = e
    BY <2>1, <2>2, <2>4, <2>5, <2>6
  <2> QED  BY <1>2, <2>3, <2>4, <2>6, <2>7
<1> QED  BY <1>1, <1>2 DEF Scales

LEMMA AdjIs ==
    ASSUME NEW F \in Scales, NEW s \in Nat, s <= F, NEW v \in Nat, v <= F,
           NEW hue \in Nat
    PROVE  /\ Within(hue) \in 0 .. 59
           /\ Adj(F, hue, s, v) \in 0 .. v - Low(F, s, v)
           /\ AdjLoss(F, hue, s, v) \in 0 .. 59
<1> DEFINE m == Within(hue)
           low == Low(F, s, v)
           span == v - low
           Y == span * m
<1>1. m \in 0 .. 59
  BY DEF Within
<1>2. span \in Nat
  <2>1. low \in 0 .. v
    BY LowIs
  <2> HIDE DEF low
  <2> QED  BY <2>1
<1>3. Adj(F, hue, s, v) = Y \div 60 /\ AdjLoss(F, hue, s, v) = Y - 60 * (Y \div 60)
  BY DEF Adj, AdjLoss
<1> HIDE DEF span, m
<1>4. Y \in Nat /\ Y <= 60 * span
  BY <1>1, <1>2
<1> HIDE DEF Y
<1>5. Y \div 60 \in 0 .. span /\ Y - 60 * (Y \div 60) \in 0 .. 59
  BY <1>2, <1>4
<1> QED  BY <1>1, <1>3, <1>5 DEF span, m

\* A colour from hue, saturation and value is a colour.
LEMMA HsvIsColor ==
    ASSUME NEW F \in Scales, NEW s \in Nat, s <= F, NEW v \in Nat, v <= F,
           NEW hue \in Nat
    PROVE  HsvToRgb(F, hue, s, v) \in Color
<1> DEFINE low == Low(F, s, v)
           adj == Adj(F, hue, s, v)
<1>1. /\ v \in Nat /\ low \in Nat /\ low + adj \in Nat /\ v - adj \in Nat
  <2>1. low \in 0 .. v /\ adj \in 0 .. v - low
    BY LowIs, AdjIs
  <2> HIDE DEF low, adj
  <2> QED  BY <2>1
<1>2. HsvToRgb(F, hue, s, v) =
        CASE hue \div 60 = 0 -> Rgb(v, low + adj, low)
          [] hue \div 60 = 1 -> Rgb(v - adj, v, low)
          [] hue \div 60 = 2 -> Rgb(low, v, low + adj)
          [] hue \div 60 = 3 -> Rgb(low, v - adj, v)
          [] hue \div 60 = 4 -> Rgb(low + adj, low, v)
          [] OTHER           -> Rgb(v, low, v - adj)
  BY DEF HsvToRgb, Low, Adj, Within
<1>3. \A r, g, b \in Nat : Rgb(r, g, b) \in Color
  BY DEF Rgb, Color, Components
<1> HIDE DEF low, adj
<1> QED  BY <1>1, <1>2, <1>3

\* What the definition of the hue circle gives, sextant by sextant,
LEMMA IdealIs ==
    ASSUME NEW F, NEW s, NEW v, NEW n \in {0, 2, 4}, NEW hue \in Nat, hue < 360
    PROVE  Ideal(n, F, hue, s, v) = Exact(F, s, v, Part(Past(hue, n), Within(hue)))
<1> DEFINE sextant == Sextant(hue)
           m == Within(hue)
           apart == ((hue - 60 * n + 540) % 360) - 180
           away == IF apart < 0 THEN -apart ELSE apart
           part == IF away <= 60 THEN 60 ELSE IF away >= 120 THEN 0 ELSE 120 - away
<1>1. Ideal(n, F, hue, s, v) = Exact(F, s, v, part)
  BY DEF Ideal, Exact
<1>2. part = Part(Past(hue, n), m)
  <2>1. hue = 60 * sextant + m /\ m \in 0 .. 59
    BY DEF Sextant, Within
  <2>2. \/ sextant = 0 \/ sextant = 1 \/ sextant = 2
        \/ sextant = 3 \/ sextant = 4 \/ sextant = 5
    BY DEF Sextant
  <2>3. Past(hue, n) = (sextant - n + 6) % 6
    BY DEF Past
  <2> HIDE DEF sextant, m
  <2>4. CASE n = 0
    BY <2>1, <2>2, <2>3, <2>4 DEF Part
  <2>5. CASE n = 2
    BY <2>1, <2>2, <2>3, <2>5 DEF Part
  <2>6. CASE n = 4
    BY <2>1, <2>2, <2>3, <2>6 DEF Part
  <2> QED  BY <2>4, <2>5, <2>6
<1> QED  BY <1>1, <1>2

\* and what the code gives.
LEMMA GivenIs ==
    ASSUME NEW F, NEW s, NEW v, NEW c \in {"r", "g", "b"},
           NEW hue \in Nat, hue < 360
    PROVE  /\ Peak[c] \in {0, 2, 4} /\ Past(hue, Peak[c]) \in 0 .. 5
           /\ HsvToRgb(F, hue, s, v)[c]
                = Given(Past(hue, Peak[c]), Low(F, s, v), Adj(F, hue, s, v), v)
<1> DEFINE n == Sextant(hue)
           low == Low(F, s, v)
           adj == Adj(F, hue, s, v)
<1>1. n = 0 \/ n = 1 \/ n = 2 \/ n = 3 \/ n = 4 \/ n = 5
  BY DEF Sextant
<1>2. HsvToRgb(F, hue, s, v) =
        CASE n = 0 -> Rgb(v, low + adj, low)
          [] n = 1 -> Rgb(v - adj, v, low)
          [] n = 2 -> Rgb(low, v, low + adj)
          [] n = 3 -> Rgb(low, v - adj, v)
          [] n = 4 -> Rgb(low + adj, low, v)
          [] OTHER -> Rgb(v, low, v - adj)
  BY DEF HsvToRgb, Low, Adj, Sextant, Within
<1>3. Peak["r"] = 0 /\ Peak["g"] = 2 /\ Peak["b"] = 4
  BY DEF Peak
<1>4. \A r, g, b : Rgb(r, g, b)["r"] = r /\ Rgb(r, g, b)["g"] = g /\ Rgb(r, g, b)["b"] = b
  BY DEF Rgb, Components
<1>5. \A peak : Past(hue, peak) = (n - peak + 6) % 6
  BY DEF Past
<1> HIDE DEF n, low, adj
<1>6. CASE c = "r"
  <2>1. Past(hue, 0) = n
    BY <1>1, <1>5
  <2> QED  BY <1>1, <1>2, <1>3, <1>4, <1>6, <2>1 DEF Given, low, adj
<1>7. CASE c = "g"
  <2>1. Past(hue, 2) = IF n < 2 THEN n + 4 ELSE n - 2
    BY <1>1, <1>5
  <2> QED  BY <1>1, <1>2, <1>3, <1>4, <1>7, <2>1 DEF Given, low, adj
<1>8. CASE c = "b"
  <2>1. Past(hue, 4) = IF n < 4 THEN n + 2 ELSE n - 4
    BY <1>1, <1>5
  <2> QED  BY <1>1, <1>2, <1>3, <1>4, <1>8, <2>1 DEF Given, low, adj
<1> QED  BY <1>6, <1>7, <1>8

\* What the two divisions lose stays within the bounds.
LEMMA Rounded ==
    ASSUME NEW F \in Scales, NEW s \in Nat, s <= F, NEW v \in Nat, v <= F,
           NEW hue \in Nat, NEW d \in 0 .. 5
    PROVE  Fits(F, Given(d, Low(F, s, v), Adj(F, hue, s, v), v),
                Exact(F, s, v, Part(d, Within(hue))))
<1> DEFINE m == Within(hue)
           low == Low(F, s, v)
           adj == Adj(F, hue, s, v)
           e == LowLoss(F, s, v)
           r == AdjLoss(F, hue, s, v)
           exact(part) == Exact(F, s, v, part)
           P == v * s
           E == e * m
           Q == P * m
           V == v * m
           L == low * m
<1>1. /\ m \in 0 .. 59 /\ low \in 0 .. v /\ adj \in 0 .. v - low
      /\ e \in Nat /\ e < F /\ r \in 0 .. 59
  BY LowIs, AdjIs
<1>2. /\ e < F /\ e = F * v - P - F * low /\ 60 * adj = V - L - r
      /\ F \in Nat /\ v \in Nat /\ adj \in Nat /\ r \in 0 .. 59
  <2>1. e = F * v - P - F * low /\ r = (v - low) * m - 60 * adj /\ F \in Nat
    BY DEF LowLoss, AdjLoss, Scales
  <2> HIDE DEF m, low, adj, e, r, P
  <2>2. (v - low) * m = V - L /\ adj \in Nat
    BY <1>1
  <2>3. r = V - L - 60 * adj
    BY <2>1, <2>2
  <2> HIDE DEF V, L
  <2>4. V \in Int /\ L \in Int
    BY <1>1 DEF V, L
  <2> QED  BY <1>1, <2>1, <2>2, <2>3, <2>4
<1>3. /\ P \in Nat /\ E \in Nat /\ Q \in Nat /\ V \in Nat /\ L \in Nat
      /\ e \in Nat /\ low \in Nat /\ E <= 59 * e
  <2> HIDE DEF m, low, e
  <2> QED  BY <1>1
<1>4. /\ F * L = F * V - Q - E
      /\ exact(60) = 60 * F * v /\ exact(60 - m) = 60 * F * v - Q
      /\ exact(m) = 60 * F * v - 60 * P + Q /\ exact(0) = 60 * F * v - 60 * P
  <2>1. exact(60) = 60 * F * v /\ exact(0) = 60 * F * v - 60 * P
    BY <1>2 DEF Exact
  <2>2. exact(60 - m) = 60 * F * v - Q /\ exact(m) = 60 * F * v - 60 * P + Q
    <3> HIDE DEF m
    <3> QED  BY <1>1, <1>2 DEF Exact
  <2>3. F * L = F * V - Q - E
    <3> HIDE DEF m, low, e
    <3>1. F * low = F * v - P - e
      BY <1>1, <1>2
    <3>2. (F * low) * m = (F * v - P - e) * m
      BY <3>1
    <3> QED  BY <1>1, <1>2, <3>2
  <2> QED  BY <2>1, <2>2, <2>3
<1> HIDE DEF m, low, adj, e, r, exact, P, E, Q, V, L
<1>5. CASE F = 255
  <2>1. /\ 255 * low = 255 * v - P - e /\ 255 * L = 255 * V - Q - E
        /\ e < 255 /\ exact(60) = 15300 * v /\ exact(60 - m) = 15300 * v - Q
        /\ exact(m) = 15300 * v - 60 * P + Q /\ exact(0) = 15300 * v - 60 * P
    <3>1. F * low = 255 * low /\ F * v = 255 * v /\ F * L = 255 * L
          /\ F * V = 255 * V /\ 60 * F * v = 15300 * v
      BY <1>5
    <3>2. /\ e = F * v - P - F * low /\ F * L = F * V - Q - E /\ e < 255
          /\ exact(60) = 60 * F * v /\ exact(60 - m) = 60 * F * v - Q
          /\ exact(m) = 60 * F * v - 60 * P + Q /\ exact(0) = 60 * F * v - 60 * P
      BY <1>2, <1>4, <1>5
    <3>3. P \in Nat /\ v \in Nat /\ low \in Nat /\ e \in Nat
      BY <1>3
    <3> QED  BY <3>1, <3>2, <3>3
  <2>2. \A out \in Int, y \in Int : 15300 * out - 15300 < y /\ y < 15300 * out + 30600
               => Fits(F, out, y)
    BY <1>5 DEF Fits
  <2>3. d \in {0, 5} => Fits(F, v, exact(60))
    BY <1>3, <2>1, <2>2
  <2>4. d = 1 => Fits(F, v - adj, exact(60 - m))
    BY <1>2, <1>3, <1>1, <2>1, <2>2
  <2>5. d = 4 => Fits(F, low + adj, exact(m))
    BY <1>2, <1>3, <1>1, <2>1, <2>2
  <2>6. d \in {2, 3} => Fits(F, low, exact(0))
    BY <1>2, <1>3, <2>1, <2>2
  <2> QED  BY <2>3, <2>4, <2>5, <2>6 DEF Given, Part, m, low, adj, exact
<1>6. CASE F = 65535
  <2>1. /\ 65535 * low = 65535 * v - P - e /\ 65535 * L = 65535 * V - Q - E
        /\ e < 65535 /\ exact(60) = 3932100 * v /\ exact(60 - m) = 3932100 * v - Q
        /\ exact(m) = 3932100 * v - 60 * P + Q /\ exact(0) = 3932100 * v - 60 * P
    <3>1. F * low = 65535 * low /\ F * v = 65535 * v /\ F * L = 65535 * L
          /\ F * V = 65535 * V /\ 60 * F * v = 3932100 * v
      BY <1>6
    <3>2. /\ e = F * v - P - F * low /\ F * L = F * V - Q - E /\ e < 65535
          /\ exact(60) = 60 * F * v /\ exact(60 - m) = 60 * F * v - Q
          /\ exact(m) = 60 * F * v - 60 * P + Q /\ exact(0) = 60 * F * v - 60 * P
      BY <1>2, <1>4, <1>6
    <3>3. P \in Nat /\ v \in Nat /\ low \in Nat /\ e \in Nat
      BY <1>3
    <3> QED  BY <3>1, <3>2, <3>3
  <2>2. \A out \in Int, y \in Int : 3932100 * out - 3932100 < y /\ y < 3932100 * out + 7864200
               => Fits(F, out, y)
    BY <1>6 DEF Fits
  <2>3. d \in {0, 5} => Fits(F, v, exact(60))
    BY <1>3, <2>1, <2>2
  <2>4. d = 1 => Fits(F, v - adj, exact(60 - m))
    BY <1>2, <1>3, <1>1, <2>1, <2>2
  <2>5. d = 4 => Fits(F, low + adj, exact(m))
    BY <1>2, <1>3, <1>1, <2>1, <2>2
  <2>6. d \in {2, 3} => Fits(F, low, exact(0))
    BY <1>2, <1>3, <2>1, <2>2
  <2> QED  BY <2>3, <2>4, <2>5, <2>6 DEF Given, Part, m, low, adj, exact
<1> QED  BY <1>5, <1>6 DEF Scales

LEMMA HsvToRgbIsNear ==
    ASSUME NEW F \in Scales, NEW s \in Nat, s <= F, NEW v \in Nat, v <= F,
           NEW hue \in Nat, hue < 360, NEW c \in {"r", "g", "b"}
    PROVE  Near(c, F, hue, s, v)
<1>1. /\ Peak[c] \in {0, 2, 4} /\ Past(hue, Peak[c]) \in 0 .. 5
      /\ HsvToRgb(F, hue, s, v)[c]
           = Given(Past(hue, Peak[c]), Low(F, s, v), Adj(F, hue, s, v), v)
  BY GivenIs
<1>2. Ideal(Peak[c], F, hue, s, v)
        = Exact(F, s, v, Part(Past(hue, Peak[c]), Within(hue)))
  BY <1>1, IdealIs
<1>3. Fits(F, HsvToRgb(F, hue, s, v)[c], Ideal(Peak[c], F, hue, s, v))
  BY <1>1, <1>2, Rounded
<1> QED  BY <1>3 DEF Near, Fits
-----------------------------------------------------------------------------
(* The steps.                                                              *)

\* A device that is made has a format its drivers can lay a colour out in.
LEMMA ChosenIs ==
    ASSUME NEW f \in FormatType, NEW model, ValidFormat(Chosen(f, model))
    PROVE  Usable(Chosen(f, model))
<1> DEFINE base == IF FormatId(f) = 0 THEN DefaultFormat ELSE f
<1>1. base \in FormatType
  BY DEF DefaultFormat, FormatType
<1>2. Chosen(f, model) = CASE model = "WS2816" -> [base EXCEPT !.bytes = 2]
        [] model # "WS2816" /\ base.bytes = 0 -> [base EXCEPT !.bytes = 1]
        [] OTHER -> base
  BY DEF Chosen
<1> HIDE DEF base
<1>3. Chosen(f, model) \in FormatType /\ Chosen(f, model).bytes \in 1 .. 3
  BY <1>1, <1>2 DEF FormatType
<1> QED  BY <1>3 DEF Usable

\* The constants, without their widest values.
LEMMA ConstantsAre ==
    /\ NumLeds \in Nat /\ MaxCalls \in Nat /\ Formats \subseteq FormatType
    /\ Levels \subseteq Nat /\ Hues \subseteq Nat
    /\ \A full \in Scales : Shades[full] \subseteq (0 .. full) \X (0 .. full)
<1>1. Words \subseteq Nat
  BY DEF Words
<1>2. NumLeds \in Nat /\ MaxCalls \in Nat /\ Formats \subseteq FormatType
  BY LedAssumption DEF FormatType
<1>3. Levels \subseteq Nat /\ Hues \subseteq Nat
  BY <1>1, LedAssumption
<1>4. \A full \in Scales : Shades[full] \subseteq (0 .. full) \X (0 .. full)
  BY LedAssumption
<1> QED  BY <1>2, <1>3, <1>4

LEMMA Initially == Init => PixelInv
<1> SUFFICES ASSUME Init PROVE PixelInv
  OBVIOUS
<1>1. DOMAIN asked = {}
  BY DEF Init
<1>2. TypeOK
  BY <1>1, ConstantsAre DEF Init, TypeOK
<1> QED  BY <1>1, <1>2 DEF Init, PixelInv, HsvType

LEMMA NewKeeps ==
    ASSUME PixelInv, NEW model \in Models, New(model)
    PROVE  PixelInv'
<1> DEFINE f == Chosen(wanted, model)
           W == BytesPerPixel(f) * Stride(driver)
<1>1. /\ status = "none" /\ DOMAIN asked = {}
      /\ driver \in {"rmt", "spi"} /\ wanted \in Formats /\ calls \in 0 .. MaxCalls
      /\ driver' = driver /\ wanted' = wanted /\ hsv' = hsv /\ calls' = calls
  BY DEF New, PixelInv, TypeOK
<1>2. HsvType'
  BY <1>1 DEF PixelInv, HsvType
<1>3. CASE ValidFormat(f)
  <2>1. /\ status' = "live" /\ format' = f /\ asked' = <<>>
        /\ buf' = [i \in 0 .. NumLeds * BytesPerPixel(f) * Stride(driver) - 1 |-> {}]
    BY <1>3 DEF New
  <2>2. Usable(f)
    BY <1>1, <1>3, ChosenIs, ConstantsAre
  <2>3. DOMAIN buf' = 0 .. NumLeds * W - 1
    <3> DEFINE B == BytesPerPixel(f)
               S == Stride(driver)
    <3>1. B \in Nat /\ S \in Nat /\ NumLeds \in Nat
      BY <1>1, <2>2, SizeIs, ConstantsAre DEF Sizes
    <3>2. DOMAIN buf' = 0 .. NumLeds * B * S - 1
      BY <2>1
    <3> HIDE DEF B, S
    <3>3. NumLeds * B * S = NumLeds * (B * S)
      BY <3>1
    <3> QED  BY <3>2, <3>3 DEF B, S
  <2>4. \A i \in DOMAIN buf' : buf'[i] \subseteq 0 .. 7
    BY <2>1
  <2>5. Width' = W
    BY <1>1, <2>1 DEF Width
  <2>6. DOMAIN asked' = {}
    BY <2>1
  <2> HIDE DEF f, W
  <2>7. TypeOK'
    BY <1>1, <1>3, <2>1, <2>2, <2>3, <2>4, <2>5, <2>6 DEF TypeOK, Usable
  <2> QED  BY <1>2, <2>1, <2>2, <2>6, <2>7 DEF PixelInv
<1>4. CASE ~ValidFormat(f)
  <2>1. status' = "refused" /\ asked' = asked
    BY <1>4 DEF New
  <2>2. TypeOK'
    BY <1>1, <2>1 DEF TypeOK
  <2> QED  BY <1>1, <1>2, <2>1, <2>2 DEF PixelInv
<1> QED  BY <1>3, <1>4

\* What a live strip is.
LEMMA LiveIs ==
    ASSUME PixelInv, status = "live"
    PROVE  Framed
  BY ConstantsAre DEF PixelInv, TypeOK, Framed

\* A saturation and a value are within their scale.
LEMMA ShadesAre ==
    ASSUME NEW full \in Scales, NEW h \in Hues, NEW x \in Shades[full]
    PROVE  /\ h \in Nat /\ x[1] \in Nat /\ x[1] <= full
           /\ x[2] \in Nat /\ x[2] <= full
<1>1. Shades[full] \subseteq (0 .. full) \X (0 .. full)
  BY ConstantsAre
<1>2. h \in Nat
  BY ConstantsAre
<1>3. full \in Nat
  BY DEF Scales
<1> QED  BY <1>1, <1>2, <1>3

LEMMA ZeroedType ==
    ASSUME Framed
    PROVE  /\ DOMAIN Zeroed = DOMAIN buf
           /\ \A i \in DOMAIN buf : Zeroed[i] \subseteq 0 .. 7
<1>1. Zeroed = [i \in DOMAIN buf |->
                   IF driver = "spi" THEN SpiBit(0)[(i % 3) + 1] ELSE {}]
  BY DEF Zeroed
<1>2. \A m \in 1 .. 3 : SpiBit(0)[m] \subseteq 0 .. 7
  BY SpiBitType
<1>3. \A i \in DOMAIN buf : (i % 3) + 1 \in 1 .. 3
  <2>1. \A i \in DOMAIN buf : i \in Int
    BY DEF Framed
  <2> QED  BY <2>1
<1> QED  BY <1>1, <1>2, <1>3

\* Everything but the history of the hue, after a pixel is set.
LEMMA SetKeeps ==
    ASSUME PixelInv, calls < MaxCalls, NEW p \in Leds, NEW color \in Color,
           Set(p, color), HsvType'
    PROVE  PixelInv'
<1>1. /\ status = "live" /\ calls' = calls + 1 /\ buf' = Put(p, color)
      /\ asked' = [q \in DOMAIN asked \union {p} |->
                      IF q = p THEN color ELSE asked[q]]
      /\ driver' = driver /\ wanted' = wanted /\ status' = status /\ format' = format
  BY DEF Set
<1>2. Framed
  BY <1>1, LiveIs
<1>3. Width' = Width
  BY <1>1 DEF Width
<1>4. /\ DOMAIN buf' = DOMAIN buf
      /\ \A i \in DOMAIN buf : buf'[i] \subseteq 0 .. 7
  BY <1>1, <1>2, PutType
<1>5. /\ DOMAIN asked' \subseteq Leds
      /\ \A q \in DOMAIN asked' : asked'[q] \in Color
  BY <1>1 DEF PixelInv, TypeOK
<1>6. calls' \in 0 .. MaxCalls
  BY <1>1, ConstantsAre DEF PixelInv, TypeOK
<1>7. TypeOK'
  BY <1>1, <1>3, <1>4, <1>5, <1>6 DEF PixelInv, TypeOK
<1>8. ASSUME NEW q \in DOMAIN asked'
      PROVE  Shown(buf', driver', format', q, asked'[q])
  <2>1. CASE q = p
    BY <1>1, <1>2, <2>1, PutShows
  <2>2. CASE q # p
    <3>1. q \in DOMAIN asked /\ asked'[q] = asked[q] /\ q \in Leds \ {p}
      BY <1>1, <1>5, <1>8, <2>2
    <3>2. Shown(buf, driver, format, q, asked[q])
      BY <3>1 DEF PixelInv
    <3>3. Shown(Put(p, color), driver, format, q, asked[q])
      BY <1>2, <3>1, <3>2, PutShows
    <3> QED  BY <1>1, <3>1, <3>3
  <2> QED  BY <2>1, <2>2
<1> QED  BY <1>1, <1>7, <1>8 DEF PixelInv

LEMMA ClearKeeps ==
    ASSUME PixelInv, calls < MaxCalls, Clear
    PROVE  PixelInv'
<1>1. /\ status = "live" /\ calls' = calls + 1 /\ buf' = Zeroed
      /\ asked' = [p \in Leds |-> Black] /\ hsv' = <<>>
      /\ driver' = driver /\ wanted' = wanted /\ status' = status /\ format' = format
  BY DEF Clear
<1>2. Framed
  BY <1>1, LiveIs
<1>3. Width' = Width
  BY <1>1 DEF Width
<1>4. /\ DOMAIN buf' = DOMAIN buf
      /\ \A i \in DOMAIN buf : buf'[i] \subseteq 0 .. 7
  BY <1>1, <1>2, ZeroedType
<1>5. Black \in Color
  BY DEF Black, Rgb, Color, Components
<1>6. calls' \in 0 .. MaxCalls
  BY <1>1, ConstantsAre DEF PixelInv, TypeOK
<1>7. TypeOK'
  BY <1>1, <1>3, <1>4, <1>5, <1>6 DEF PixelInv, TypeOK
<1>8. \A q \in DOMAIN asked' : Shown(buf', driver', format', q, asked'[q])
  BY <1>1, <1>2, ClearShows
<1> QED  BY <1>1, <1>7, <1>8 DEF PixelInv, HsvType

LEMMA NextKeeps == PixelInv /\ [Next]_vars => PixelInv'
<1> SUFFICES ASSUME PixelInv, [Next]_vars PROVE PixelInv'
  OBVIOUS
<1>1. ASSUME NEW model \in Models, New(model) PROVE PixelInv'
  BY <1>1, NewKeeps
<1>2. ASSUME calls < MaxCalls, NEW p \in Leds, NEW r \in Levels, NEW g \in Levels,
             NEW b \in Levels, SetPixel(p, r, g, b)
      PROVE  PixelInv'
  <2>1. Set(p, Rgb(r, g, b)) /\ hsv' = hsv
    BY <1>2 DEF SetPixel
  <2>2. Rgb(r, g, b) \in Color
    BY ConstantsAre DEF Rgb, Color, Components
  <2>3. HsvType'
    BY <2>1 DEF PixelInv, HsvType
  <2> QED  BY <1>2, <2>1, <2>2, <2>3, SetKeeps
<1>3. ASSUME calls < MaxCalls, NEW p \in Leds, NEW a \in Levels, NEW b \in Levels,
             SetPixelRgbw(p, a, b, a, b)
      PROVE  PixelInv'
  <2> DEFINE color == [Rgb(a, b, a) EXCEPT !["w"] = b]
  <2>1. Set(p, color) /\ hsv' = hsv
    BY <1>3 DEF SetPixelRgbw
  <2>2. color \in Color
    BY ConstantsAre DEF Rgb, Color, Components
  <2>3. HsvType'
    BY <2>1 DEF PixelInv, HsvType
  <2> QED  BY <1>3, <2>1, <2>2, <2>3, SetKeeps
<1>4. ASSUME calls < MaxCalls, NEW p \in Leds, NEW full \in Scales, NEW h \in Hues,
             NEW x \in Shades[full], SetPixelHsv(p, full, h, x[1], x[2])
      PROVE  PixelInv'
  <2>1. Set(p, HsvToRgb(full, h, x[1], x[2])) /\ hsv' = <<full, h, x[1], x[2]>>
    BY <1>4 DEF SetPixelHsv
  <2>2. /\ h \in Nat /\ x[1] \in Nat /\ x[1] <= full
        /\ x[2] \in Nat /\ x[2] <= full
    BY ShadesAre
  <2>3. HsvToRgb(full, h, x[1], x[2]) \in Color
    BY <2>2, HsvIsColor
  <2>4. HsvType'
    BY <2>1, <2>2 DEF HsvType
  <2> QED  BY <1>4, <2>1, <2>3, <2>4, SetKeeps
<1>5. ASSUME calls < MaxCalls, Clear PROVE PixelInv'
  BY <1>5, ClearKeeps
<1>6. CASE UNCHANGED vars
  BY <1>6 DEF vars, PixelInv, TypeOK, HsvType, Width
<1> QED  BY <1>1, <1>2, <1>3, <1>4, <1>5, <1>6 DEF Next

\* The invariant the others are read from (new_device, set_pixel,
\* set_pixel_rgbw, set_pixel_hsv and clear of both drivers).
THEOREM PixelsCorrect == Spec => []PixelInv
  BY Initially, NextKeeps, PTL DEF Spec

\* The values of every variable; a frame has the bytes of every pixel.
THEOREM TypeCorrect == Spec => []TypeOK
<1>1. PixelInv => TypeOK
  BY DEF PixelInv
<1> QED  BY <1>1, PixelsCorrect, PTL

\* For every length, format and colour, the frame reads as the colour last
\* set for each pixel (set_pixel, set_pixel_rgbw and clear of both drivers).
THEOREM PixelsAreHeld == Spec => []PixelsHold
<1>1. PixelInv => PixelsHold
  <2> SUFFICES ASSUME PixelInv, NEW p \in DOMAIN asked PROVE ReadsColor(p, asked[p])
    BY DEF PixelsHold
  <2>1. status = "live"
    BY DEF PixelInv
  <2>2. Framed /\ p \in Leds /\ Shown(buf, driver, format, p, asked[p])
    BY <2>1, LiveIs DEF PixelInv, TypeOK
  <2> QED  BY <2>2, ShownReads
<1> QED  BY <1>1, PixelsCorrect, PTL

\* For every hue below 360 and every saturation and value, the conversion is
\* within two steps below and one above its definition (set_pixel_hsv and
\* set_pixel_hsv_16).
THEOREM HsvIsNear == Spec => []HsvNear
<1>1. PixelInv => HsvNear
  <2> SUFFICES ASSUME PixelInv, hsv # <<>>, hsv[2] < 360, NEW c \in DOMAIN Peak
               PROVE  Near(c, hsv[1], hsv[2], hsv[3], hsv[4])
    BY DEF HsvNear
  <2>1. /\ hsv[1] \in Scales /\ hsv[2] \in Nat /\ hsv[3] \in Nat /\ hsv[4] \in Nat
        /\ hsv[3] <= hsv[1] /\ hsv[4] <= hsv[1]
    BY DEF PixelInv, HsvType
  <2>2. c \in {"r", "g", "b"}
    BY DEF Peak
  <2> QED  BY <2>1, <2>2, HsvToRgbIsNear
<1> QED  BY <1>1, PixelsCorrect, PTL
=============================================================================
