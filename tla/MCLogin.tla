------------------------------ MODULE MCLogin ------------------------------
(* Instances of Login for TLC.                                             *)
EXTENDS Login

\* "long" has more than 72 bytes and begins with "pass".
MCSeen == [p \in {"pass", "word", "long"} |-> IF p = "long" THEN "pass" ELSE p]
=============================================================================
