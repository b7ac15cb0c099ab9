------------------------------ MODULE MCWifiSta ------------------------------
(* Instance of WifiSta for TLC: two configurations, the second without ssid. *)
EXTENDS WifiSta

CONSTANTS home, nossid, pw1, pw2, dflt, blank, torn, junk

MCBodies ==
    {[kind |-> "wifi", first |-> home, last |-> pw1],
     [kind |-> "wifi", first |-> nossid, last |-> pw2]}
MCPosts == [to : {"wifi"}, body : MCBodies, len : {2}]
=============================================================================
