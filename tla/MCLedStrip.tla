---------------------------- MODULE MCLedStrip -----------------------------
(***************************************************************************)
(* The instance of LedStrip for TLC.                                       *)
(***************************************************************************)
EXTENDS LedStrip

CONSTANTS red, blue, off

MCColors == {red, blue}
=============================================================================
