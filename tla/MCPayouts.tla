------------------------------ MODULE MCPayouts ------------------------------
(* A small instance of Payouts for TLC: two requests of one business, whose *)
(* amounts lie at the edges of the epsilon and of the rounding, and one     *)
(* request of another business for less than the smallest coin.             *)
EXTENDS Payouts, TLC

CONSTANTS b1, b2, r1, r2, r3, a1, a2, a3

TwoBusinesses == (r1 :> b1) @@ (r2 :> b1) @@ (r3 :> b2)
EdgeAmounts == (r1 :> 21) @@ (r2 :> 15) @@ (r3 :> 1)
OwnAccounts == (r1 :> a1) @@ (r2 :> a2) @@ (r3 :> a3)
=============================================================================
