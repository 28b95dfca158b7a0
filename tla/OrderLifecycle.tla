--------------------------- MODULE OrderLifecycle ---------------------------
(***************************************************************************)
(* The order ledger of the backend and everything that writes to it: the   *)
(* conversation state machine, the checkout transaction, the payment-event *)
(* handler (one action per SQL statement), the failed-payment and expiry   *)
(* cancellation, the restock consumer and the operator endpoints of the    *)
(* mobile API.                                                             *)
(*                                                                         *)
(* Every order comes from one confirmed WhatsApp message, whose id is the  *)
(* unique idempotency key of the order and, once created, the reference of *)
(* its Paystack transaction; an element of Order is that message.          *)
(*                                                                         *)
(* Transactions are single actions.  A handler that runs several           *)
(* statements outside a transaction is one action per statement, and it    *)
(* may crash between any two.  Queues deliver at least once, in any order. *)
(***************************************************************************)
EXTENDS Integers, FiniteSets

CONSTANTS
  Order,          \* confirmed messages, each at most one order
  Conversation,   \* conversations: one per (business, customer phone)
  ConvOf,         \* ConvOf[o]: the conversation message o belongs to
  Product,        \* catalogue products
  Items,          \* Items[o][p]: quantity of p in the order of message o
  InitStock,      \* InitStock[p]: stock before any order
  ExtraRef,       \* payment references that are not order ids
  Total,          \* Total[o]: amount of the order
  Amount,         \* Amount[r]: amount of the payment events with reference r
  Scope,          \* Scope[r]: conversations whose customer has the payer's phone
  Kinds,          \* Kinds[r]: outcomes the provider reports for reference r
  PatchStatuses,  \* statuses operators set with PATCH /orders/{id}/fulfillment
  Takeover,       \* TRUE: operators take over and release conversations
  MaxRetry,       \* retries of a payment-events task before it is archived
  MaxCrashes,     \* bound: failed attempts of one payment-events task
  NoOrder,        \* a payment matched to no order
  NoTurn          \* no orchestrator turn in flight

Ref == Order \cup ExtraRef

ConversationState == {"LEAD", "BROWSING", "CHECKOUT", "INVOICING", "PAID",
                      "CANCELLED", "SUPPORT", "ESCALATED"}

OrderStatus == {"PENDING", "CONFIRMED", "PAYMENT_PENDING", "PAID",
                "PROCESSING", "SHIPPED", "DELIVERED", "CANCELLED"}

EventKind == {"success", "failed", "pending"}

\* The orders a cancellation, the expiry scan and strategy B still act on.
OpenStatuses == {"CONFIRMED", "PAYMENT_PENDING"}

ASSUME FiniteAssumption == IsFiniteSet(Order) /\ IsFiniteSet(ExtraRef)
ASSUME ConvOfAssumption == ConvOf \in [Order -> Conversation]
ASSUME ItemsAssumption == Items \in [Order -> [Product -> Nat]]
ASSUME InitStockAssumption == InitStock \in [Product -> Nat]
ASSUME PaymentAssumption ==
  /\ Kinds \in [Ref -> SUBSET EventKind]
  /\ Scope \in [Ref -> SUBSET Conversation]
  /\ Total \in [Order -> Nat]
  /\ Amount \in [Ref -> Nat]
ASSUME OperatorAssumption ==
  /\ PatchStatuses \subseteq OrderStatus
  /\ Takeover \in BOOLEAN
ASSUME RetryAssumption ==
  /\ MaxRetry \in Nat
  /\ MaxCrashes \in Nat
ASSUME SentinelAssumption ==
  /\ NoOrder \notin Order
  /\ NoTurn \notin ConversationState

VARIABLES
  conv,         \* conversations.state
  escalated,    \* conversations.is_escalated_to_human
  turn,         \* the state an orchestrator turn read when it started
  checkoutJobs, \* tasks of the checkout queue
  status,       \* orders.status, "NONE" before the row exists
  stock,        \* products.stock
  restored,     \* orders with stock_restored_at set
  outbox,       \* rows of domain_events
  expiring,     \* orders collected by an expiry scan, not yet cancelled
  payPc,        \* next statement of the payment-events task of a reference
  payKind,      \* the outcome that task carries
  payOrder,     \* the order it matched
  payTries,     \* its failed attempts
  payStatus,    \* payments.status by external_reference, "none": no row
  payFor,       \* payments.order_id by external_reference
  confirmed,    \* references whose payment confirmation was written out
  taken         \* history: conversations whose order slot was overridden

convVars == <<conv, escalated, turn, checkoutJobs>>
taskVars == <<payPc, payKind, payOrder, payTries>>
rowVars == <<payStatus, payFor, confirmed>>
payVars == <<taskVars, rowVars>>
ledgerVars == <<status, stock, restored, outbox>>
vars == <<conv, escalated, turn, checkoutJobs, status, stock, restored, outbox,
          expiring, payPc, payKind, payOrder, payTries, payStatus, payFor, confirmed,
          taken>>

Init ==
  /\ conv = [c \in Conversation |-> "LEAD"]
  /\ escalated = [c \in Conversation |-> FALSE]
  /\ turn = [c \in Conversation |-> NoTurn]
  /\ checkoutJobs = {}
  /\ status = [o \in Order |-> "NONE"]
  /\ stock = InitStock
  /\ restored = {}
  /\ outbox = {}
  /\ expiring = {}
  /\ payPc = [r \in Ref |-> "idle"]
  /\ payKind = [r \in Ref |-> "none"]
  /\ payOrder = [r \in Ref |-> NoOrder]
  /\ payTries = [r \in Ref |-> 0]
  /\ payStatus = [r \in Ref |-> "none"]
  /\ payFor = [r \in Ref |-> NoOrder]
  /\ confirmed = {}
  /\ taken = {}

-----------------------------------------------------------------------------
(* The conversation state machine.                                         *)

ValidTransitions ==
  [s \in ConversationState |->
    CASE s = "LEAD"      -> {"BROWSING", "CHECKOUT", "SUPPORT", "INVOICING", "ESCALATED"}
      [] s = "BROWSING"  -> {"CHECKOUT", "SUPPORT", "INVOICING", "ESCALATED"}
      [] s = "CHECKOUT"  -> {"INVOICING", "SUPPORT", "ESCALATED"}
      [] s = "INVOICING" -> {"PAID", "CANCELLED", "SUPPORT", "ESCALATED"}
      [] s = "PAID"      -> {"BROWSING", "SUPPORT", "ESCALATED"}
      [] s = "CANCELLED" -> {"BROWSING", "SUPPORT", "ESCALATED"}
      [] s = "SUPPORT"   -> {"BROWSING", "CHECKOUT", "INVOICING", "LEAD", "ESCALATED"}
      [] s = "ESCALATED" -> {}]

ValidateTransition(from, to) == to \in ValidTransitions[from]

\* The compare-and-set of conversations.state: the states after the attempt.
Transition(c, from, to) ==
  IF ValidateTransition(from, to) /\ conv[c] = from
    THEN [conv EXCEPT ![c] = to]
    ELSE conv

-----------------------------------------------------------------------------
(* One debounced orchestrator turn.  It reads the conversation once, waits *)
(* for the model's answer, and then acts on what it read.                  *)

\* An escalated conversation is skipped; otherwise the turn either reaches
\* the model or escalates on a keyword or on media it cannot process.
TurnStart(c) ==
  /\ turn[c] = NoTurn
  /\ ~escalated[c]
  /\ \/ turn' = [turn EXCEPT ![c] = conv[c]] /\ UNCHANGED escalated
     \/ escalated' = [escalated EXCEPT ![c] = TRUE] /\ UNCHANGED turn
  /\ UNCHANGED <<conv, checkoutJobs, ledgerVars, expiring, payVars, taken>>

\* Low confidence raises the flag and stops; a model error drops the turn.
TurnAbandon(c) ==
  /\ turn[c] # NoTurn
  /\ turn' = [turn EXCEPT ![c] = NoTurn]
  /\ escalated' \in {escalated, [escalated EXCEPT ![c] = TRUE]}
  /\ UNCHANGED <<conv, checkoutJobs, ledgerVars, expiring, payVars, taken>>

\* Where the intent of the answer moves a conversation that was in s.
IntentTarget(s, intent) ==
  CASE intent = "checkout_request" /\ s \in {"LEAD", "BROWSING", "SUPPORT"} -> "CHECKOUT"
    [] intent = "checkout_request" /\ s \in {"PAID", "CANCELLED"} -> "BROWSING"
    [] intent = "product_inquiry" /\ s \in {"LEAD", "SUPPORT", "PAID", "CANCELLED"} -> "BROWSING"
    [] intent = "support_faq" /\ s \in {"LEAD", "BROWSING", "CHECKOUT", "PAID", "CANCELLED"} -> "SUPPORT"
    [] OTHER -> s

\* An order confirmation is ignored when the turn started after an order.
MayConfirm(s) == s \notin {"PAID", "INVOICING"}

TurnReply(c) ==
  /\ turn[c] # NoTurn
  /\ \E intent \in {"checkout_request", "product_inquiry", "support_faq", "other"} :
       LET target == IntentTarget(turn[c], intent) IN
       conv' = IF target # turn[c] THEN Transition(c, turn[c], target) ELSE conv
  /\ \/ UNCHANGED checkoutJobs
     \/ /\ MayConfirm(turn[c])
        /\ \E o \in Order :
             /\ ConvOf[o] = c
             /\ checkoutJobs' = checkoutJobs \cup {o}
  /\ turn' = [turn EXCEPT ![c] = NoTurn]
  /\ UNCHANGED <<escalated, ledgerVars, expiring, payVars, taken>>

-----------------------------------------------------------------------------
(* Checkout.                                                               *)

\* Mutant: the slot can be claimed again while an order is being invoiced.
CheckoutFromsInvoicing == {"BROWSING", "CHECKOUT", "SUPPORT", "LEAD", "INVOICING"}

\* The pre-order states the checkout transaction may claim the slot from.
CheckoutFroms == {"BROWSING", "CHECKOUT", "SUPPORT", "LEAD"}

\* Mutant: the decrement is unconditional.
InStockUnchecked(o) == TRUE

InStock(o) == \A p \in Product : stock[p] >= Items[o][p]

\* The checkout transaction: claim the conversation, insert the order under
\* its idempotency key, take the stock, emit order.created; a refusal of any
\* part rolls all of it back.  The task is acknowledged, or redelivered.
HandleCheckout(o) ==
  /\ o \in checkoutJobs
  /\ checkoutJobs' \in {checkoutJobs, checkoutJobs \ {o}}
  /\ LET c == ConvOf[o] IN
     IF conv[c] \in CheckoutFroms /\ status[o] = "NONE" /\ InStock(o)
       THEN /\ conv' = [conv EXCEPT ![c] = "INVOICING"]
            /\ status' = [status EXCEPT ![o] = "CONFIRMED"]
            /\ stock' = [p \in Product |-> stock[p] - Items[o][p]]
            /\ outbox' = outbox \cup {<<"order.created", o>>}
       ELSE UNCHANGED <<conv, status, stock, outbox>>
  /\ UNCHANGED <<escalated, turn, restored, expiring, payVars, taken>>

-----------------------------------------------------------------------------
(* Cancellation and restock.                                               *)

\* Mutants: the cancellation ignores the status, emits no event, or leaves
\* the conversation as it is.
CancelOrderAnyStatus(o) ==
  /\ status' = [status EXCEPT ![o] = "CANCELLED"]
  /\ conv' = Transition(ConvOf[o], "INVOICING", "CANCELLED")
  /\ outbox' = outbox \cup {<<"order.cancelled", o>>}

CancelOrderNoEvent(o) ==
  IF status[o] \in OpenStatuses
    THEN /\ status' = [status EXCEPT ![o] = "CANCELLED"]
         /\ conv' = Transition(ConvOf[o], "INVOICING", "CANCELLED")
         /\ UNCHANGED outbox
    ELSE UNCHANGED <<status, conv, outbox>>

CancelOrderKeepsConversation(o) ==
  IF status[o] \in OpenStatuses
    THEN /\ status' = [status EXCEPT ![o] = "CANCELLED"]
         /\ outbox' = outbox \cup {<<"order.cancelled", o>>}
         /\ UNCHANGED conv
    ELSE UNCHANGED <<status, conv, outbox>>

\* One transaction: an open order is CANCELLED, its conversation closed and
\* order.cancelled emitted; any other order is left alone.
CancelOrder(o) ==
  IF status[o] \in OpenStatuses
    THEN /\ status' = [status EXCEPT ![o] = "CANCELLED"]
         /\ conv' = Transition(ConvOf[o], "INVOICING", "CANCELLED")
         /\ outbox' = outbox \cup {<<"order.cancelled", o>>}
    ELSE UNCHANGED <<status, conv, outbox>>

\* Mutant: the restock claims nothing.
HandleRestockUnclaimed(o) ==
  /\ <<"order.cancelled", o>> \in outbox
  /\ restored' = restored \cup {o}
  /\ stock' = [p \in Product |-> stock[p] + Items[o][p]]
  /\ UNCHANGED <<convVars, status, outbox, expiring, payVars, taken>>

\* The order.cancelled consumer: claim stock_restored_at and put the items
\* back, once per order.  Deliveries repeat and may be late.
HandleRestock(o) ==
  /\ <<"order.cancelled", o>> \in outbox
  /\ o \notin restored
  /\ restored' = restored \cup {o}
  /\ stock' = [p \in Product |-> stock[p] + Items[o][p]]
  /\ UNCHANGED <<convVars, status, outbox, expiring, payVars, taken>>

-----------------------------------------------------------------------------
(* Expiry.  When the expiry of an order falls due (24 h after its third    *)
(* reminder) is the subject of FollowUps; here it may be any time.         *)

\* The expiry cron reads the overdue open orders ...
ExpiryScan(o) ==
  /\ status[o] \in OpenStatuses
  /\ o \notin expiring
  /\ expiring' = expiring \cup {o}
  /\ UNCHANGED <<convVars, ledgerVars, payVars, taken>>

\* ... and cancels each of them in its own transaction.
ExpiryCancel(o) ==
  /\ o \in expiring
  /\ expiring' = expiring \ {o}
  /\ CancelOrder(o)
  /\ UNCHANGED <<escalated, turn, checkoutJobs, stock, restored, payVars, taken>>

-----------------------------------------------------------------------------
(* Payment events.  The webhook handler answers 200 whatever the queue     *)
(* says; the task id is the reference, so a second event for a reference   *)
(* that still has a task (archived included) is dropped.                   *)

Webhook(r, k) ==
  /\ r \in Order => status[r] # "NONE"
  /\ payPc[r] = "idle"
  /\ payPc' = [payPc EXCEPT ![r] = "queued"]
  /\ payKind' = [payKind EXCEPT ![r] = k]
  /\ UNCHANGED <<convVars, ledgerVars, expiring, payOrder, payTries, rowVars, taken>>

\* The task is acknowledged and its id is free again (no retention).
TaskDone(r) ==
  /\ payPc' = [payPc EXCEPT ![r] = "idle"]
  /\ payKind' = [payKind EXCEPT ![r] = "none"]
  /\ payOrder' = [payOrder EXCEPT ![r] = NoOrder]
  /\ payTries' = [payTries EXCEPT ![r] = 0]

\* The task goes on with statement pc, for order o.
TaskGoesOn(r, pc, o) ==
  /\ payPc' = [payPc EXCEPT ![r] = pc]
  /\ payOrder' = [payOrder EXCEPT ![r] = o]
  /\ UNCHANGED <<payKind, payTries>>

\* The attempt ends in an error: the task starts over, until its retries are
\* spent and it is archived.
TaskFails(r) ==
  /\ payTries' = [payTries EXCEPT ![r] = @ + 1]
  /\ payPc' = [payPc EXCEPT ![r] = IF payTries[r] < MaxRetry THEN "queued" ELSE "archived"]
  /\ payOrder' = [payOrder EXCEPT ![r] = NoOrder]
  /\ UNCHANGED payKind

OpenIn(c) == {o \in Order : ConvOf[o] = c /\ status[o] \in OpenStatuses}

\* Strategy B: the payer's open orders with the amount of the event.
Candidates(r) ==
  {o \in Order : /\ status[o] \in OpenStatuses
                 /\ ConvOf[o] \in Scope[r]
                 /\ Total[o] = Amount[r]}

\* Strategy A: the reference is an order id and the amount is its total.
ByReference(r) == r \in Order /\ status[r] # "NONE" /\ Total[r] = Amount[r]

Unique(S) == \E x \in S : S = {x}

\* The idempotency probe on payments.external_reference.
Duplicate(r) == payStatus[r] # "none"

\* Strategy B reads a NULL total for a payer without open orders, which the
\* scan into a decimal refuses.
NullTotal(r) == \E c \in Scope[r] : OpenIn(c) = {}

\* The duplicate probe and the two reconciliation reads.  An event that
\* matches no order is kept when its payer is one customer, else abandoned.
PayMatch(r) ==
  /\ payPc[r] = "queued"
  /\ \/ /\ Duplicate(r)
        /\ TaskDone(r)
     \/ /\ ~Duplicate(r)
        /\ ByReference(r)
        /\ TaskGoesOn(r, "settle", r)
     \/ /\ ~Duplicate(r)
        /\ ~ByReference(r)
        /\ \/ /\ NullTotal(r)
              /\ TaskFails(r)
           \/ /\ ~NullTotal(r)
              /\ \E o \in Order : Candidates(r) = {o} /\ TaskGoesOn(r, "settle", o)
           \/ /\ ~NullTotal(r)
              /\ Candidates(r) = {}
              /\ Unique(Scope[r])
              /\ TaskGoesOn(r, "insert", NoOrder)
           \/ /\ ~NullTotal(r)
              /\ ~Unique(Candidates(r))
              /\ Candidates(r) # {} \/ ~Unique(Scope[r])
              /\ TaskDone(r)
  /\ UNCHANGED <<convVars, ledgerVars, expiring, rowVars, taken>>

\* Mutant: a late success is recorded and does not revive its order.
PaySettleOpenOnly(r) ==
  /\ payPc[r] = "settle"
  /\ IF payKind[r] = "failed"
       THEN /\ CancelOrder(payOrder[r])
            /\ TaskGoesOn(r, "insert", payOrder[r])
       ELSE /\ status' = IF status[payOrder[r]] \in OpenStatuses
                           THEN [status EXCEPT ![payOrder[r]] = "PAID"] ELSE status
            /\ TaskGoesOn(r, "conv", payOrder[r])
            /\ UNCHANGED <<conv, outbox>>
  /\ UNCHANGED <<escalated, turn, checkoutJobs, stock, restored, expiring,
                 rowVars, taken>>

\* Mutant: a failed charge settles like any other.
PaySettleIgnoresFailure(r) ==
  /\ payPc[r] = "settle"
  /\ status' = [status EXCEPT ![payOrder[r]] = "PAID"]
  /\ TaskGoesOn(r, "conv", payOrder[r])
  /\ UNCHANGED <<convVars, stock, restored, outbox, expiring, rowVars, taken>>

\* A failed charge cancels the order; any other outcome marks it PAID,
\* whatever its status was.
PaySettle(r) ==
  /\ payPc[r] = "settle"
  /\ IF payKind[r] = "failed"
       THEN /\ CancelOrder(payOrder[r])
            /\ TaskGoesOn(r, "insert", payOrder[r])
       ELSE /\ status' = [status EXCEPT ![payOrder[r]] = "PAID"]
            /\ TaskGoesOn(r, "conv", payOrder[r])
            /\ UNCHANGED <<conv, outbox>>
  /\ UNCHANGED <<escalated, turn, checkoutJobs, stock, restored, expiring,
                 rowVars, taken>>

\* The conversation of the settled order leaves INVOICING.  The statement
\* names the conversation, not the order it is invoicing: `taken` records
\* that an order still open there lost its slot.
PayConversation(r) ==
  LET c == ConvOf[payOrder[r]] IN
  /\ payPc[r] = "conv"
  /\ conv' = Transition(c, "INVOICING", "PAID")
  /\ taken' = IF conv[c] = "INVOICING" /\ OpenIn(c) # {}
                THEN taken \cup {c} ELSE taken
  /\ TaskGoesOn(r, "insert", payOrder[r])
  /\ UNCHANGED <<escalated, turn, checkoutJobs, ledgerVars, expiring, rowVars>>

paymentStatusFor(k) ==
  CASE k = "success" -> "SUCCESS" [] k = "failed" -> "FAILED" [] OTHER -> "PENDING"

\* The payments row, unique by external_reference.  Only a matched success
\* goes on to the confirmation message.
PayInsert(r) ==
  /\ payPc[r] = "insert"
  /\ payStatus' = [payStatus EXCEPT ![r] = paymentStatusFor(payKind[r])]
  /\ payFor' = [payFor EXCEPT ![r] = payOrder[r]]
  /\ IF payOrder[r] # NoOrder /\ payKind[r] = "success"
       THEN TaskGoesOn(r, "notify", payOrder[r])
       ELSE TaskDone(r)
  /\ UNCHANGED <<convVars, ledgerVars, expiring, confirmed, taken>>

\* The payment confirmation is written to outbound_messages and enqueued.
PayNotify(r) ==
  /\ payPc[r] = "notify"
  /\ confirmed' = confirmed \cup {r}
  /\ TaskDone(r)
  /\ UNCHANGED <<convVars, ledgerVars, expiring, payStatus, payFor, taken>>

InFlight == {"queued", "settle", "conv", "insert", "notify"}

\* The attempt fails, or its worker dies, before its next statement.
PayCrash(r) ==
  /\ payPc[r] \in InFlight
  /\ payTries[r] < MaxCrashes
  /\ TaskFails(r)
  /\ UNCHANGED <<convVars, ledgerVars, expiring, rowVars, taken>>

-----------------------------------------------------------------------------
(* Operators of the mobile API.                                            *)

\* PATCH /orders/{id}/fulfillment writes any status over any status (the
\* reminder it schedules on DELIVERED is in FollowUps).
ordersFulfillment(o, s) ==
  /\ status[o] # "NONE"
  /\ status' = [status EXCEPT ![o] = s]
  /\ taken' = IF s \in OpenStatuses THEN taken \cup {ConvOf[o]} ELSE taken
  /\ UNCHANGED <<convVars, stock, restored, outbox, expiring, payVars>>

\* Takeover, and POST /orders/{id}/escalate through the order.
conversationTakeover(c) ==
  /\ Takeover
  /\ escalated' = [escalated EXCEPT ![c] = TRUE]
  /\ conv' = [conv EXCEPT ![c] = "ESCALATED"]
  /\ UNCHANGED <<turn, checkoutJobs, ledgerVars, expiring, payVars, taken>>

\* Release puts the conversation back to LEAD, whatever order it had.
conversationRelease(c) ==
  /\ Takeover
  /\ escalated' = [escalated EXCEPT ![c] = FALSE]
  /\ conv' = [conv EXCEPT ![c] = "LEAD"]
  /\ taken' = IF OpenIn(c) # {} THEN taken \cup {c} ELSE taken
  /\ UNCHANGED <<turn, checkoutJobs, ledgerVars, expiring, payVars>>

-----------------------------------------------------------------------------
ConversationStep(c) ==
  \/ TurnStart(c) \/ TurnAbandon(c) \/ TurnReply(c)
  \/ conversationTakeover(c) \/ conversationRelease(c)

OrderStep(o) ==
  \/ HandleCheckout(o) \/ HandleRestock(o)
  \/ ExpiryScan(o) \/ ExpiryCancel(o)
  \/ \E s \in PatchStatuses : ordersFulfillment(o, s)

PaymentStep(r) ==
  \/ \E k \in Kinds[r] : Webhook(r, k)
  \/ PayMatch(r) \/ PaySettle(r) \/ PayConversation(r)
  \/ PayInsert(r) \/ PayNotify(r) \/ PayCrash(r)

Next ==
  \/ \E c \in Conversation : ConversationStep(c)
  \/ \E o \in Order : OrderStep(o)
  \/ \E r \in Ref : PaymentStep(r)

Spec == Init /\ [][Next]_vars

\* The scanners are crons and the consumers are retried; a task that has
\* been started is finished or retried.  Nothing is assumed of customers,
\* operators, the model or the payment provider.
Fairness ==
  /\ \A o \in Order :
       /\ WF_vars(HandleRestock(o))
       /\ WF_vars(ExpiryScan(o)) /\ WF_vars(ExpiryCancel(o))
  /\ \A r \in Ref :
       WF_vars(PayMatch(r) \/ PaySettle(r) \/ PayConversation(r)
               \/ PayInsert(r) \/ PayNotify(r))

FairSpec == Spec /\ Fairness
-----------------------------------------------------------------------------
(* Properties.                                                             *)

TypeOK ==
  /\ conv \in [Conversation -> ConversationState]
  /\ escalated \in [Conversation -> BOOLEAN]
  /\ turn \in [Conversation -> ConversationState \cup {NoTurn}]
  /\ checkoutJobs \subseteq Order
  /\ status \in [Order -> OrderStatus \cup {"NONE"}]
  /\ stock \in [Product -> Nat]
  /\ restored \subseteq Order
  /\ outbox \subseteq {"order.created", "order.cancelled"} \X Order
  /\ expiring \subseteq Order
  /\ payPc \in [Ref -> InFlight \cup {"idle", "archived"}]
  /\ payKind \in [Ref -> EventKind \cup {"none"}]
  /\ payOrder \in [Ref -> Order \cup {NoOrder}]
  /\ payTries \in [Ref -> Nat]
  /\ payStatus \in [Ref -> {"none", "SUCCESS", "FAILED", "PENDING"}]
  /\ payFor \in [Ref -> Order \cup {NoOrder}]
  /\ confirmed \subseteq Ref
  /\ taken \subseteq Conversation

\* The one-order-at-a-time slot that the checkout compare-and-set claims
\* (workers/checkout.go:127): unless an operator released or reopened it, or
\* a payment closed the conversation over it, a conversation has at most one
\* open order, and it stays INVOICING (or with a human) while it has one.
OneOrderSlot ==
  \A c \in Conversation \ taken :
    /\ \A o1, o2 \in OpenIn(c) : o1 = o2
    /\ OpenIn(c) # {} => conv[c] \in {"INVOICING", "ESCALATED"}

\* The statuses an order has because it was paid or because of an operator:
\* one the operator chose, or CANCELLED when the operator reopened the order.
PaidOrPatched ==
  {"PAID"} \cup PatchStatuses
    \cup (IF PatchStatuses \cap OpenStatuses # {} THEN {"CANCELLED"} ELSE {})

\* A successful payment recorded against an order (workers/payment_events.go
\* 273-297), and every confirmation sent to a customer, is for an order that
\* is PAID, or where an operator brought it later: no failed event, expiry or
\* retry takes the order away from a recorded payment.
RecordedMeansPaid ==
  /\ \A r \in Ref : payStatus[r] = "SUCCESS" /\ payFor[r] # NoOrder
                      => status[payFor[r]] \in PaidOrPatched
  /\ \A r \in confirmed : payStatus[r] = "SUCCESS" /\ payFor[r] # NoOrder

\* No order is paid for free, and no payment pays two orders: there are at
\* least as many references with a payments row or a task in flight as
\* there are PAID orders (payment_events.go:105-119, the idempotency probe).
PaidOrdersBacked ==
  "PAID" \notin PatchStatuses =>
    Cardinality({o \in Order : status[o] = "PAID"})
      <= Cardinality({r \in Ref : payStatus[r] \in {"SUCCESS", "PENDING"}
                                  \/ payPc[r] # "idle"})

\* An INVOICING conversation has an order to invoice: it is never left
\* waiting for the payment of an order the system itself has cancelled
\* (cancelOrder closes both in one transaction).
InvoicingHasOrder ==
  \A c \in Conversation : conv[c] = "INVOICING" =>
    \E o \in Order : /\ ConvOf[o] = c
                     /\ status[o] \in OpenStatuses \cup {"PAID"} \cup PatchStatuses

\* A conversation is told it is PAID only when an order of it was.
PaidHasPaidOrder ==
  \A c \in Conversation : conv[c] = "PAID" =>
    \E o \in Order : ConvOf[o] = c /\ status[o] \in PaidOrPatched

\* Where the items of each order are, as StockLedger sees them.
Hold == [o \in Order |-> IF status[o] = "NONE" THEN "none"
                         ELSE IF o \in restored THEN "returned" ELSE "held"]

Ledger == INSTANCE StockLedger WITH avail <- stock, hold <- Hold

\* The checkout transaction and the restock consumer together keep the
\* promise of StockLedger: through redelivered tasks and events, retries,
\* late payments and operator edits, an order takes its items once, all or
\* nothing, and gives them back at most once (checkout.go:180-201,
\* restock.go:41-64).
StockIsLedger == Ledger!Spec

\* payment_events.go:385 "marks the order CANCELLED (unless already paid)":
\* no automatic step cancels an order that was paid or is being fulfilled,
\* however stale the scan or the event that asked for it.
PaidNeverCancelled ==
  [][\A o \in Order :
       status[o] \in {"PAID", "PROCESSING", "SHIPPED", "DELIVERED"}
         /\ status'[o] = "CANCELLED"
       => "CANCELLED" \in PatchStatuses]_vars

\* The references whose tasks may settle an order of conversation c.
PaymentsOf(c) == {r \in Ref : c \in Scope[r] \/ (r \in Order /\ ConvOf[r] = c)}

\* The stock of an order the system cancelled comes back.
CancelledStockReturns ==
  \A o \in Order : (status[o] = "CANCELLED") ~> (o \in restored)

\* No conversation waits for a payment for ever: through crashes and retries
\* it is paid or expired, unless a payment task of its customer is archived.
InvoicingLeaves ==
  \A c \in Conversation :
    (conv[c] = "INVOICING")
      ~> (conv[c] # "INVOICING" \/ \E r \in PaymentsOf(c) : payPc[r] = "archived")

\* A success that names its order by reference and amount ends, through
\* crashes, retries and a cancellation that came first, in a PAID order and a
\* payments row that says SUCCESS, unless the retries of its task are spent
\* (payment_events.go:121-142, 271-297).
SuccessSettles ==
  \A o \in Order :
    (payPc[o] = "queued" /\ payKind[o] = "success" /\ ~Duplicate(o) /\ ByReference(o))
      ~> ((status[o] = "PAID" /\ payStatus[o] = "SUCCESS") \/ payPc[o] = "archived")
-----------------------------------------------------------------------------
(* What docs and comments claim and the code does not keep (README.md).    *)

\* docs/adr/0001:50 "The duplicate-order bug is impossible" and
\* domain/state.go:39-41: one order at a time per conversation.
OneOpenOrder == \A c \in Conversation : Cardinality(OpenIn(c)) <= 1

\* events.go:4-6 "an event can never exist without its state change (and
\* vice versa)": every cancelled order has its event.
CancelledEventAlways ==
  \A o \in Order : status[o] = "CANCELLED" => <<"order.cancelled", o>> \in outbox

\* workers/restock.go:40 "restores stock for a cancelled order once": stock
\* comes back for orders that are cancelled.
RestockedIsCancelled ==
  [][\A o \in restored' \ restored : status[o] = "CANCELLED"]_vars

\* payment_events.go:368 "order PAID + conversation INVOICING -> PAID": a task
\* archived between the two leaves the order PAID and its conversation
\* INVOICING for ever, as the expiry only looks at open orders.
InvoicingAlwaysLeaves ==
  \A c \in Conversation : (conv[c] = "INVOICING") ~> (conv[c] # "INVOICING")

\* payment_events.go:368 "success -> order PAID": every success that names its
\* order pays it, also one that follows a failed charge of the reference.
SuccessAlwaysPays ==
  \A o \in Order :
    (payPc[o] = "queued" /\ payKind[o] = "success" /\ ByReference(o))
      ~> (status[o] = "PAID" \/ payPc[o] = "archived")
=============================================================================
