--------------------------- MODULE MCMatchmaking ---------------------------
(* Instances of Matchmaking for TLC.                                       *)
EXTENDS Matchmaking, TLC

CONSTANTS t1, t2, t3, t4

\* Two tickets of the first user: a retry, or an impatient player.
MCUserOf ==
    [t \in {t1, t2, t3, t4} |->
        CASE t \in {t1, t2} -> "ann" [] t = t3 -> "bob" [] t = t4 -> "cat"]
MCUsers == {"ann", "bob", "cat"}

Replicas == Permutations(Workers)
=============================================================================
