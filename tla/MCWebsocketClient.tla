------------------------- MODULE MCWebsocketClient -------------------------
(***************************************************************************)
(* Instances of WebsocketClient for TLC.                                   *)
(***************************************************************************)
EXTENDS WebsocketClient, TLC

\* Senders are interchangeable.
Symmetry == Permutations(Senders)
=============================================================================
