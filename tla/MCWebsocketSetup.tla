-------------------------- MODULE MCWebsocketSetup --------------------------
(***************************************************************************)
(* Instances of WebsocketSetup for TLC.                                    *)
(***************************************************************************)
EXTENDS WebsocketSetup

\* What is copied the same way, or has no other source, is given together or
\* not at all.
MCConfigs == {c \in SUBSET Fields :
                 \/ {"transport", "if_name", "host", "path", "headers"} \subseteq c
                 \/ c \subseteq {"uri", "username", "password"}}

\* A URI of a path alone, and one with everything.
MCUris == {{"path"}, Parts}
=============================================================================
