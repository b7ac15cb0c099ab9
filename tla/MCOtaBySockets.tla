--------------------------- MODULE MCOtaBySockets ---------------------------
(* Instances of OtaBySockets for TLC. *)
EXTENDS OtaBySockets

CONSTANTS f1, f2

\* A complete invitation for f1, one that announces less than it will send, one
\* for f2 cut short after the size, and one with neither size nor MD5.
MCDatagrams == {
    [size |-> 2, md5 |-> <<f1, f1>>],
    [size |-> 1, md5 |-> <<f2, f2>>],
    [k \in {"size"} |-> 2],
    <<>>}

MCSegments == {<<f1>>, <<f1, f1>>, <<f2>>}
=============================================================================
