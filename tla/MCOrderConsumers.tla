--------------------------- MODULE MCOrderConsumers ---------------------------
(* Small instances of OrderConsumers for TLC. *)
EXTENDS OrderConsumers

\* The event of one order is delivered twice, those of the others once.
OneTwice == LET x == CHOOSE o \in Order : TRUE
            IN [o \in Order |-> IF o = x THEN 2 ELSE 1]
=============================================================================
