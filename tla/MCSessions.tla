----------------------------- MODULE MCSessions -----------------------------
(* Instances of Sessions for TLC.                                          *)
EXTENDS Sessions

\* A match of two players and one of a player with itself.
MCUsers == {"ann", "bob"}
MCMatches == 1..2
MCPlayersOf == <<<<"ann", "bob">>, <<"ann", "ann">>>>
MCCreates == {3}
MCCreatorOf == [k \in MCCreates |-> "ann"]
=============================================================================
