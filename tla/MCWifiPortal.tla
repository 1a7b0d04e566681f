---------------------------- MODULE MCWifiPortal ----------------------------
(***************************************************************************)
(* Instances of WifiPortal for TLC.                                        *)
(***************************************************************************)
EXTENDS WifiPortal

CONSTANTS near, other, far, rare,  \* networks
          good, long               \* passwords

MCNetworks == {near, other, far, rare}
MCPasswords == {good, long}

MCStrength == [n \in MCNetworks |-> IF n = near THEN 60 ELSE 30]

\* One record for each access point, the strongest not first.
MCScans == {<<rare, near, other, near>>, <<far, near>>}

MCLongNames == {far}
MCLongPasswords == {long}
MCQuoted == {rare}

MCValid == {<<near, good>>}
=============================================================================
