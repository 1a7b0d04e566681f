------------------------------- MODULE MCBoot -------------------------------
(***************************************************************************)
(* The instance of Boot with the code's own numbers.                       *)
(***************************************************************************)
EXTENDS Boot

\* A cold start; and what a reset that keeps the clock may leave behind.
MCColdYears == {1970, 2024, 2025, 2026}
=============================================================================
