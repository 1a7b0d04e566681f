--------------------------- MODULE MCWifiConnect ---------------------------
(***************************************************************************)
(* Instances of WifiConnect for TLC.                                       *)
(***************************************************************************)
EXTENDS WifiConnect

CONSTANTS home, office, good, bad

MCNetworks  == {home, office}
MCPasswords == {good, bad}
MCValid     == {[ssid |-> n, password |-> good] : n \in MCNetworks}
MCOnline    == {home}

\* The boot hears two access points of the home network and one of the other.
MCHeard == [n \in MCNetworks |-> IF n = home THEN 2 ELSE 1]

\* Nothing saved; or an entry of each kind, the second one out of date.
MCStored == {<<>>, <<[ssid |-> home, password |-> good],
                     [ssid |-> office, password |-> bad]>>}

\* A smaller world, for the run in which events lag: one password, accepted
\* at home and refused at the office.
MCOnePassword == {good}
MCHomeOnly    == {[ssid |-> home, password |-> good]}
MCFewStored   == {<<>>, <<[ssid |-> home, password |-> good]>>}
=============================================================================
