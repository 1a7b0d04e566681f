---------------------------- MODULE RecentStore ----------------------------
(***************************************************************************)
(* What the credential history promises its callers: a list of at most Max *)
(* networks, most recently used first, no network twice, and a copy of it  *)
(* on stable storage that a restart brings back.  WifiHistory implements   *)
(* it with an array that is shifted slot by slot and an NVS blob.          *)
(***************************************************************************)
EXTENDS Naturals, Sequences

CONSTANTS Max,        \* how many networks are remembered
          Networks,   \* network names
          Passwords   \* their passwords

VARIABLES list,       \* the list in use, newest first
          stored,     \* the copy written last
          synced      \* the copy that is certain to survive a restart

vars == <<list, stored, synced>>

Entry == [ssid : Networks, password : Passwords]

\* The list once e has been used: e comes first, and the entries before its
\* older one, before the free place or before the last one move back.
MoveToFront(l, e) ==
    LET same == {i \in DOMAIN l : l[i].ssid = e.ssid}
        gap  == IF same # {} THEN CHOOSE i \in same : \A j \in same : i <= j
                ELSE IF Len(l) < Max THEN Len(l) + 1 ELSE Max
    IN  [i \in 1 .. (IF gap > Len(l) THEN gap ELSE Len(l)) |->
            IF i = 1 THEN e ELSE IF i <= gap THEN l[i - 1] ELSE l[i]]

Init == /\ list = <<>>
        /\ stored = <<>>
        /\ synced = <<>>

Use(e) == /\ list' = MoveToFront(list, e)
          /\ UNCHANGED <<stored, synced>>

Write == /\ stored' = list
         /\ UNCHANGED <<list, synced>>

Sync == /\ synced' = stored
        /\ UNCHANGED <<list, stored>>

\* A restart forgets the list in use and keeps one of the two copies.
Restart == /\ list' = <<>>
           /\ stored' \in {stored, synced}
           /\ synced' = stored'

\* Only an empty list is replaced by the stored one.
Restore == /\ list = <<>>
           /\ list' = stored
           /\ UNCHANGED <<stored, synced>>

Next == \/ \E e \in Entry : Use(e)
        \/ Write \/ Sync \/ Restart \/ Restore

Spec == Init /\ [][Next]_vars
=============================================================================
