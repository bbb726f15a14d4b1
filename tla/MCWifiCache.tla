----------------------------- MODULE MCWifiCache -----------------------------
(* An instance of WifiCache: its access points and profiles are pairs.      *)
EXTENDS WifiCache

\* The first network has two access points and a profile, the others an access
\* point.
MCAps == (Ssids \X {1}) \cup {<<1, 2>>}
MCProfiles == {<<1, 1>>}
=============================================================================
