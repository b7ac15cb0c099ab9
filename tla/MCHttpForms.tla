----------------------------- MODULE MCHttpForms -----------------------------
(* Instance of HttpForms for TLC: two configurations, one with a password that *)
(* is too long, and a license.                                                *)
EXTENDS HttpForms

CONSTANTS home, office, pw1, pw2, pw3, lic1, lic2, dflt, blank, torn, junk

MCBodies ==
    {[kind |-> "wifi", first |-> home, last |-> pw1],
     [kind |-> "wifi", first |-> office, last |-> pw2],
     [kind |-> "wifi", first |-> office, last |-> pw3],
     [kind |-> "license", first |-> lic1, last |-> lic2]}
MCPosts == [to : Kinds, body : MCBodies, len : 0..2]
=============================================================================
