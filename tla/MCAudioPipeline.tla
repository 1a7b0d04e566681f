-------------------------- MODULE MCAudioPipeline --------------------------
(***************************************************************************)
(* Instances of AudioPipeline for TLC.                                     *)
(***************************************************************************)
EXTENDS AudioPipeline

\* The device has recorded every block the bound allows and all has been
\* worked off: the only states in which the instance may stop, where the
\* system would record on.
Finished == /\ sequence = MaxPackets /\ mic = "read"
            /\ \A k \in Conns : wire[k] = <<>>
            /\ \A c \in Consumers : queue[c] = <<>> /\ fetched[c] = 0

MCNext == Next \/ (Finished /\ UNCHANGED vars)

MCSpec == Init /\ [][MCNext]_vars

MCFairSpec == MCSpec /\ Fairness
=============================================================================
