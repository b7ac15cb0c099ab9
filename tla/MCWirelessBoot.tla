--------------------------- MODULE MCWirelessBoot ---------------------------
(* Instances of WirelessBoot for TLC. *)
EXTENDS WirelessBoot

CONSTANTS f1, f2

MCNoMentions == {{}}
\* A complete invitation for f1, and one without size and MD5.
MCDatagrams == {[size |-> NumChunks, md5 |-> [i \in 1..NumChunks |-> f1]], <<>>}
MCSegments == {<<f1>>, <<f2>>}
=============================================================================
