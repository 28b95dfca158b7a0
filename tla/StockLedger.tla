---------------------------- MODULE StockLedger ----------------------------
(***************************************************************************)
(* What the order code promises about the catalogue's stock: an order      *)
(* takes its items once, only when all of them are there, and gives them   *)
(* back at most once.  OrderLifecycle is shown to implement it.            *)
(***************************************************************************)
EXTENDS Naturals

CONSTANTS Order, Product, Items, InitStock

VARIABLES
  avail,  \* avail[p]: units of p that can be sold
  hold    \* hold[o]: "none", "held" or "returned"

vars == <<avail, hold>>

Init ==
  /\ avail = InitStock
  /\ hold = [o \in Order |-> "none"]

\* The order takes all of its items at once.
Take(o) ==
  /\ hold[o] = "none"
  /\ \A p \in Product : avail[p] >= Items[o][p]
  /\ hold' = [hold EXCEPT ![o] = "held"]
  /\ avail' = [p \in Product |-> avail[p] - Items[o][p]]

\* The order gives all of its items back.
GiveBack(o) ==
  /\ hold[o] = "held"
  /\ hold' = [hold EXCEPT ![o] = "returned"]
  /\ avail' = [p \in Product |-> avail[p] + Items[o][p]]

Next == \E o \in Order : Take(o) \/ GiveBack(o)

Spec == Init /\ [][Next]_vars
=============================================================================
