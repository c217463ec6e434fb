----------------------------- MODULE MCGateway -----------------------------
(* Instances of Gateway for TLC.                                           *)
EXTENDS Gateway, TLC

\* Connections, instances and users are interchangeable in the safety run.
Interchangeable ==
    Permutations(Conns) \cup Permutations(Gateways) \cup Permutations(Users)
=============================================================================
