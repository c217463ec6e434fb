----------------------------- MODULE PairQueue -----------------------------
(***************************************************************************)
(* What matchmaking promises: a ticket waits, and leaves in one match with *)
(* one other ticket, or is dropped.  No queue order, no workers, no Redis. *)
(***************************************************************************)
CONSTANT Tickets

VARIABLES waiting, paired, dropped
vars == <<waiting, paired, dropped>>

Init == waiting = {} /\ paired = {} /\ dropped = {}

\* Tickets in some match.
Taken == {t \in Tickets : \E p \in paired : t \in p}

Join(t) ==
    /\ t \in Tickets \ (waiting \cup Taken \cup dropped)
    /\ waiting' = waiting \cup {t}
    /\ UNCHANGED <<paired, dropped>>

Pair(a, b) ==
    /\ a # b /\ {a, b} \subseteq waiting
    /\ waiting' = waiting \ {a, b}
    /\ paired' = paired \cup {{a, b}}
    /\ UNCHANGED dropped

Drop(S) ==
    /\ S \subseteq waiting
    /\ waiting' = waiting \ S
    /\ dropped' = dropped \cup S
    /\ UNCHANGED paired

Next ==
    \/ \E t \in Tickets : Join(t)
    \/ \E a, b \in Tickets : Pair(a, b)
    \/ \E S \in SUBSET Tickets : Drop(S)

Spec == Init /\ [][Next]_vars
=============================================================================
