-------------------------- MODULE MCOrderLifecycle --------------------------
(* Small instances of OrderLifecycle for TLC. *)
EXTENDS OrderLifecycle, TLC

\* Every message belongs to the only conversation c.
OneConversation == [o \in Order |-> CHOOSE c \in Conversation : TRUE]

\* Each order takes one unit of each product.
UnitItems == [o \in Order |-> [p \in Product |-> 1]]

\* Stock for two orders.
StockForTwo == [p \in Product |-> 2]

\* One product is enough for one order only, the others for two.
ScarceStock == LET q == CHOOSE p \in Product : TRUE
               IN [p \in Product |-> IF p = q THEN 1 ELSE 2]

\* All orders and all payments have the same amount, so that strategy B
\* finds several candidates when several orders are open.
SameTotal == [o \in Order |-> 1]
SameAmount == [r \in Ref |-> 1]

\* One extra payment has the orders' amount, any other is of no order's.
MatchingExtra == CHOOSE x \in ExtraRef : TRUE
ExtraAmounts == [r \in Ref |-> IF r \in Order \cup {MatchingExtra} THEN 1 ELSE 2]

\* The payer of every event is the customer of every conversation.
FullScope == [r \in Ref |-> Conversation]

\* What the provider reports: any outcome of a charge, successes only, or
\* payments that do not name the order they are for.
ChargeKinds == [r \in Ref |-> {"success", "failed"}]
OneChargeKinds == LET q == CHOOSE o \in Order : TRUE
                  IN [r \in Ref |-> IF r = q THEN {"success", "failed"} ELSE {}]
SuccessKinds == [r \in Ref |-> {"success"}]
PhoneKinds == [r \in Ref |-> CASE r \in Order -> {}
                               [] r = MatchingExtra -> {"success"}
                               [] OTHER -> {"pending"}]

OrderSymmetry == Permutations(Order)
=============================================================================
