----------------------------- MODULE MCMigrate -----------------------------
(* Instances of Migrate for TLC.                                           *)
EXTENDS Migrate

\* "up", "-steps=1 up", "-steps=1 down" and the Makefile's "down -steps=1".
MCAsks ==
    {[dir |-> "up", steps |-> 0, first |-> FALSE],
     [dir |-> "up", steps |-> 1, first |-> TRUE],
     [dir |-> "down", steps |-> 1, first |-> TRUE],
     [dir |-> "down", steps |-> 1, first |-> FALSE]}
=============================================================================
