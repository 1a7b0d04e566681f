---------------------------- MODULE MCLedPixels ----------------------------
(***************************************************************************)
(* Formats and colours for LedPixels.                                      *)
(***************************************************************************)
EXTENDS LedPixels, TLC

\* No format given.
MCUnset == {[r |-> 0, g |-> 0, b |-> 0, w |-> 0, bytes |-> 0, num |-> 0]}

MCFormats ==
  MCUnset \union [r : 0 .. 3, g : 0 .. 3, b : 0 .. 3, w : {0, 3},
                  bytes : {0}, num : {3, 4}]

\* The ends and the middle of each sector of the hue circle.
MCHues == {60 * n + k : n \in 0 .. 5, k \in {0, 29, 59}}

\* In 16 bits, values whose products TLC's integers can hold.
MCShades == 255 :> {<<1, 128>>, <<254, 255>>} @@ 65535 :> {<<32768, 500>>}
=============================================================================
