------------------------ MODULE OrderLifecycleProofs ------------------------
(***************************************************************************)
(* Proofs about OrderLifecycle for any set of orders, conversations,       *)
(* products and payment references, any stock, any operator statuses and   *)
(* any number of retries and crashes.                                      *)
(***************************************************************************)
EXTENDS OrderLifecycle, FiniteSetTheorems, TLAPS

(***************************************************************************)
(* The conversation state machine.                                         *)
(***************************************************************************)

\* What the intent of an answer asks for is a state of the machine.
LEMMA IntentTargetType ==
  ASSUME NEW s \in ConversationState, NEW intent
  PROVE  IntentTarget(s, intent) \in ConversationState
BY DEF IntentTarget, ConversationState

\* An orchestrator turn never moves a conversation out of INVOICING or
\* ESCALATED, and never into INVOICING, PAID or ESCALATED.
LEMMA IntentTargetSafe ==
  ASSUME NEW s \in ConversationState, NEW intent, IntentTarget(s, intent) # s
  PROVE  /\ s \notin {"INVOICING", "ESCALATED"}
         /\ IntentTarget(s, intent) \in {"CHECKOUT", "BROWSING", "SUPPORT"}
BY DEF IntentTarget, ConversationState

\* The two ways out of INVOICING that the payment and cancellation code
\* takes are in the table.
LEMMA InvoicingEdges ==
  /\ ValidateTransition("INVOICING", "PAID")
  /\ ValidateTransition("INVOICING", "CANCELLED")
BY DEF ValidateTransition, ValidTransitions, ConversationState

\* A compare-and-set of the state keeps its type.
LEMMA TransitionType ==
  ASSUME conv \in [Conversation -> ConversationState],
         NEW c \in Conversation, NEW from, NEW to \in ConversationState
  PROVE  Transition(c, from, to) \in [Conversation -> ConversationState]
BY DEF Transition

(***************************************************************************)
(* Type correctness.  It needs one fact about the payment-events task: the *)
(* statements that write an order run with an order at hand.               *)
(***************************************************************************)
TaskHasOrder ==
  \A r \in Ref : payPc[r] \in {"settle", "conv", "notify"} => payOrder[r] \in Order

TypeInv == TypeOK /\ TaskHasOrder

LEMMA TypeInit == Init => TypeInv
BY ConvOfAssumption, InitStockAssumption
   DEF Init, TypeInv, TypeOK, TaskHasOrder, ConversationState, InFlight, OrderStatus, EventKind

LEMMA TypeConversation ==
  ASSUME TypeInv, NEW c \in Conversation, ConversationStep(c)
  PROVE  TypeInv'
<1> USE DEF TypeInv, TypeOK, TaskHasOrder, convVars, ledgerVars, payVars, taskVars, rowVars
<1>1. CASE TurnStart(c)
  BY <1>1 DEF TurnStart
<1>2. CASE TurnAbandon(c)
  BY <1>2 DEF TurnAbandon
<1>3. CASE TurnReply(c)
  <2>1. turn[c] \in ConversationState
    BY <1>3 DEF TurnReply
  <2>2. PICK intent \in {"checkout_request", "product_inquiry", "support_faq", "other"} :
          LET target == IntentTarget(turn[c], intent) IN
          conv' = IF target # turn[c] THEN Transition(c, turn[c], target) ELSE conv
    BY <1>3 DEF TurnReply
  <2>3. conv' \in [Conversation -> ConversationState]
    BY <2>1, <2>2, IntentTargetType, TransitionType
  <2>4. checkoutJobs' \subseteq Order
    BY <1>3 DEF TurnReply
  <2>5. turn' \in [Conversation -> ConversationState \cup {NoTurn}]
    BY <1>3 DEF TurnReply
  <2>6. UNCHANGED <<escalated, status, stock, restored, outbox, expiring, payPc, payKind,
                    payOrder, payTries, payStatus, payFor, confirmed, taken>>
    BY <1>3 DEF TurnReply
  <2> QED BY <2>3, <2>4, <2>5, <2>6
<1>4. CASE conversationTakeover(c)
  BY <1>4 DEF conversationTakeover, ConversationState
<1>5. CASE conversationRelease(c)
  BY <1>5 DEF conversationRelease, ConversationState
<1> QED BY <1>1, <1>2, <1>3, <1>4, <1>5 DEF ConversationStep

\* A cancellation of an order, inside whatever handler, keeps the types.
LEMMA CancelOrderType ==
  ASSUME TypeOK, NEW o \in Order, CancelOrder(o)
  PROVE  /\ status' \in [Order -> OrderStatus \cup {"NONE"}]
         /\ conv' \in [Conversation -> ConversationState]
         /\ outbox' \subseteq {"order.created", "order.cancelled"} \X Order
BY ConvOfAssumption, TransitionType DEF TypeOK, CancelOrder, OrderStatus, ConversationState

LEMMA TypeOrder ==
  ASSUME TypeInv, NEW o \in Order, OrderStep(o)
  PROVE  TypeInv'
<1> USE DEF TypeInv, TypeOK, TaskHasOrder, convVars, ledgerVars, payVars, taskVars, rowVars
<1>1. CASE HandleCheckout(o)
  <2>1. stock' \in [Product -> Nat]
    BY <1>1, ItemsAssumption DEF HandleCheckout, InStock
  <2>2. /\ conv' \in [Conversation -> ConversationState]
        /\ status' \in [Order -> OrderStatus \cup {"NONE"}]
        /\ outbox' \subseteq {"order.created", "order.cancelled"} \X Order
    BY <1>1, ConvOfAssumption DEF HandleCheckout, ConversationState, OrderStatus
  <2> QED BY <1>1, <2>1, <2>2 DEF HandleCheckout
<1>2. CASE HandleRestock(o)
  BY <1>2, ItemsAssumption DEF HandleRestock
<1>3. CASE ExpiryScan(o)
  BY <1>3 DEF ExpiryScan
<1>4. CASE ExpiryCancel(o)
  BY <1>4, CancelOrderType DEF ExpiryCancel
<1>5. ASSUME NEW s \in PatchStatuses, ordersFulfillment(o, s)
      PROVE  TypeInv'
  BY <1>5, ConvOfAssumption, OperatorAssumption DEF ordersFulfillment
<1> QED BY <1>1, <1>2, <1>3, <1>4, <1>5 DEF OrderStep

LEMMA TypePayment ==
  ASSUME TypeInv, NEW r \in Ref, PaymentStep(r)
  PROVE  TypeInv'
<1> USE DEF TypeInv, TypeOK, TaskHasOrder, convVars, ledgerVars, payVars, taskVars, rowVars
<1>1. ASSUME NEW k \in Kinds[r], Webhook(r, k)
      PROVE  TypeInv'
  BY <1>1, PaymentAssumption DEF Webhook, InFlight
<1>2. CASE PayMatch(r)
  <2>1. CASE TaskDone(r)
    BY <1>2, <2>1 DEF PayMatch, TaskDone, InFlight
  <2>2. ASSUME NEW o \in Order, TaskGoesOn(r, "settle", o)
        PROVE  TypeInv'
    BY <1>2, <2>2 DEF PayMatch, TaskGoesOn, InFlight
  <2>3. CASE TaskGoesOn(r, "insert", NoOrder)
    BY <1>2, <2>3 DEF PayMatch, TaskGoesOn, InFlight
  <2>4. CASE TaskFails(r)
    BY <1>2, <2>4 DEF PayMatch, TaskFails, InFlight
  <2> QED BY <1>2, <2>1, <2>2, <2>3, <2>4 DEF PayMatch, ByReference
<1>3. CASE PaySettle(r)
  <2>1. payOrder[r] \in Order
    BY <1>3 DEF PaySettle
  <2>2. CASE payKind[r] = "failed"
    BY <1>3, <2>1, <2>2, CancelOrderType DEF PaySettle, TaskGoesOn, InFlight
  <2>3. CASE payKind[r] # "failed"
    BY <1>3, <2>1, <2>3 DEF PaySettle, TaskGoesOn, InFlight, OrderStatus
  <2> QED BY <2>2, <2>3
<1>4. CASE PayConversation(r)
  <2>1. ConvOf[payOrder[r]] \in Conversation
    BY <1>4, ConvOfAssumption DEF PayConversation
  <2>2. conv' \in [Conversation -> ConversationState]
    BY <1>4, <2>1, TransitionType DEF PayConversation, ConversationState
  <2> QED BY <1>4, <2>1, <2>2 DEF PayConversation, TaskGoesOn, InFlight
<1>5. CASE PayInsert(r)
  <2>1. payStatus' \in [Ref -> {"none", "SUCCESS", "FAILED", "PENDING"}]
    BY <1>5 DEF PayInsert, paymentStatusFor
  <2> QED BY <1>5, <2>1 DEF PayInsert, TaskGoesOn, TaskDone, InFlight
<1>6. CASE PayNotify(r)
  BY <1>6 DEF PayNotify, TaskDone, InFlight
<1>7. CASE PayCrash(r)
  BY <1>7 DEF PayCrash, TaskFails, InFlight
<1> QED BY <1>1, <1>2, <1>3, <1>4, <1>5, <1>6, <1>7 DEF PaymentStep

LEMMA TypeStep ==
  ASSUME TypeInv, [Next]_vars
  PROVE  TypeInv'
<1>1. CASE UNCHANGED vars
  BY <1>1 DEF TypeInv, TypeOK, TaskHasOrder, vars
<1>2. CASE Next
  BY <1>2, TypeConversation, TypeOrder, TypePayment DEF Next
<1> QED BY <1>1, <1>2

LEMMA TypeInvariant == Spec => []TypeInv
<1>1. TypeInv /\ [Next]_vars => TypeInv'
  BY TypeStep
<1> QED BY TypeInit, <1>1, PTL DEF Spec

\* Every variable keeps its type; above all, no redelivered or concurrent
\* checkout takes the stock of a product below zero.
THEOREM TypeCorrect == Spec => []TypeOK
<1>1. TypeInv => TypeOK
  BY DEF TypeInv
<1> QED BY TypeInvariant, <1>1, PTL

(***************************************************************************)
(* What one step can do to the status of an order: create it, cancel it    *)
(* when it is open (with its event), pay it, or set it by an operator.     *)
(***************************************************************************)
StatusMove(o) ==
  \/ status'[o] = status[o]
  \/ /\ status[o] = "NONE"
     /\ status' = [status EXCEPT ![o] = "CONFIRMED"]
     /\ conv[ConvOf[o]] \in CheckoutFroms
     /\ conv'[ConvOf[o]] = "INVOICING"
  \/ /\ status[o] \in OpenStatuses
     /\ status'[o] = "CANCELLED"
     /\ <<"order.cancelled", o>> \in outbox'
     /\ conv'[ConvOf[o]] # "INVOICING"
  \/ status'[o] = "PAID"
  \/ /\ status'[o] \in PatchStatuses
     /\ status'[o] \in OpenStatuses => ConvOf[o] \in taken'

\* A cancellation closes the conversation of its order.
LEMMA CancelCloses ==
  ASSUME TypeInv, NEW o \in Order, CancelOrder(o), status[o] \in OpenStatuses
  PROVE  conv'[ConvOf[o]] # "INVOICING"
<1>1. ConvOf[o] \in Conversation
  BY ConvOfAssumption
<1> QED BY <1>1, InvoicingEdges DEF TypeInv, TypeOK, CancelOrder, Transition

LEMMA StatusStep ==
  ASSUME TypeInv, [Next]_vars, NEW o \in Order
  PROVE  StatusMove(o) /\ outbox \subseteq outbox'
<1> USE ConvOfAssumption DEF StatusMove, TypeInv, TypeOK, TaskHasOrder, convVars, ledgerVars
<1>1. CASE UNCHANGED vars
  BY <1>1 DEF vars
<1>2. ASSUME NEW c \in Conversation, ConversationStep(c)
      PROVE  UNCHANGED <<status, outbox>>
  BY <1>2 DEF ConversationStep, TurnStart, TurnAbandon, TurnReply,
              conversationTakeover, conversationRelease
<1>3. ASSUME NEW q \in Order, OrderStep(q)
      PROVE  StatusMove(o) /\ outbox \subseteq outbox'
  <2>1. CASE HandleCheckout(q)
    BY <2>1 DEF HandleCheckout
  <2>2. CASE HandleRestock(q) \/ ExpiryScan(q)
    BY <2>2 DEF HandleRestock, ExpiryScan
  <2>3. CASE ExpiryCancel(q)
    <3>1. CASE status[q] \in OpenStatuses
      BY <2>3, <3>1, CancelCloses DEF ExpiryCancel, CancelOrder
    <3>2. CASE status[q] \notin OpenStatuses
      BY <2>3, <3>2 DEF ExpiryCancel, CancelOrder
    <3> QED BY <3>1, <3>2
  <2>4. ASSUME NEW s \in PatchStatuses, ordersFulfillment(q, s)
        PROVE  StatusMove(o) /\ outbox \subseteq outbox'
    BY <2>4 DEF ordersFulfillment
  <2> QED BY <1>3, <2>1, <2>2, <2>3, <2>4 DEF OrderStep
<1>4. ASSUME NEW r \in Ref, PaymentStep(r)
      PROVE  StatusMove(o) /\ outbox \subseteq outbox'
  <2>1. CASE PaySettle(r)
    <3>1. payOrder[r] \in Order
      BY <2>1 DEF PaySettle
    <3>2. CASE payKind[r] = "failed" /\ status[payOrder[r]] \in OpenStatuses
      BY <2>1, <3>1, <3>2, CancelCloses DEF PaySettle, CancelOrder
    <3>3. CASE ~(payKind[r] = "failed" /\ status[payOrder[r]] \in OpenStatuses)
      BY <2>1, <3>1, <3>3 DEF PaySettle, CancelOrder
    <3> QED BY <3>2, <3>3
  <2>2. CASE ~PaySettle(r)
    BY <1>4, <2>2 DEF PaymentStep, Webhook, PayMatch, PayConversation, PayInsert,
                      PayNotify, PayCrash
  <2> QED BY <2>1, <2>2
<1> QED BY <1>1, <1>2, <1>3, <1>4 DEF Next

\* An order that was paid, or that an operator moved, stays so.
LEMMA PaidOrPatchedStays ==
  ASSUME TypeInv, [Next]_vars, NEW o \in Order, status[o] \in PaidOrPatched
  PROVE  status'[o] \in PaidOrPatched
<1>1. StatusMove(o)
  BY StatusStep
<1>2. status[o] # "NONE"
  BY OperatorAssumption DEF PaidOrPatched, OrderStatus
<1> QED BY <1>1, <1>2 DEF StatusMove, PaidOrPatched, OpenStatuses

\* A paid or fulfilled order is never cancelled by a stale expiry scan, a
\* late failed-payment event or a retry: only an operator can do it.
THEOREM PaidOrderSafe == Spec => PaidNeverCancelled
<1> DEFINE Step ==
      \A o \in Order : status[o] \in {"PAID", "PROCESSING", "SHIPPED", "DELIVERED"}
                         /\ status'[o] = "CANCELLED"
                       => "CANCELLED" \in PatchStatuses
<1>1. TypeInv /\ [Next]_vars => [Step]_vars
  <2> SUFFICES ASSUME TypeInv, [Next]_vars, NEW o \in Order,
                      status[o] \in {"PAID", "PROCESSING", "SHIPPED", "DELIVERED"},
                      status'[o] = "CANCELLED"
               PROVE  "CANCELLED" \in PatchStatuses
    OBVIOUS
  <2>1. StatusMove(o)
    BY StatusStep
  <2> QED BY <2>1 DEF StatusMove, OpenStatuses
<1> QED BY TypeInvariant, <1>1, PTL DEF Spec, PaidNeverCancelled

\* Only orders whose order.cancelled event was emitted are restocked.
RestoredHasEvent == \A o \in restored : <<"order.cancelled", o>> \in outbox

LEMMA RestoredInvariant == Spec => []RestoredHasEvent
<1>1. Init => RestoredHasEvent
  BY DEF Init, RestoredHasEvent
<1>2. TypeInv /\ RestoredHasEvent /\ [Next]_vars => RestoredHasEvent'
  <2> SUFFICES ASSUME TypeInv, RestoredHasEvent, [Next]_vars
               PROVE  RestoredHasEvent'
    OBVIOUS
  <2>1. ASSUME NEW o \in restored', o \notin restored
        PROVE  <<"order.cancelled", o>> \in outbox'
    <3>1. Next
      BY <2>1 DEF vars
    <3>2. \E q \in Order : HandleRestock(q)
      BY <2>1, <3>1
         DEF Next, ConversationStep, OrderStep, PaymentStep, convVars, ledgerVars,
             TurnStart, TurnAbandon, TurnReply, conversationTakeover, conversationRelease,
             HandleCheckout, ExpiryScan, ExpiryCancel, ordersFulfillment,
             Webhook, PayMatch, PaySettle, PayConversation, PayInsert, PayNotify, PayCrash
    <3> QED BY <2>1, <3>2 DEF HandleRestock
  <2>2. ASSUME NEW o \in restored
        PROVE  <<"order.cancelled", o>> \in outbox'
    BY StatusStep DEF RestoredHasEvent, TypeInv, TypeOK
  <2> QED BY <2>1, <2>2 DEF RestoredHasEvent
<1> QED BY TypeInvariant, <1>1, <1>2, PTL DEF Spec

(***************************************************************************)
(* Payments.  A recorded success is backed by a PAID order because the     *)
(* task settles the order first and inserts the row last, because a task   *)
(* past its probe is the only writer of its reference's row, and because   *)
(* nothing automatic undoes PAID.                                          *)
(***************************************************************************)
TaskInv ==
  \A r \in Ref :
    /\ payPc[r] \in {"settle", "conv", "insert"} => payStatus[r] = "none"
    /\ payPc[r] = "conv" => status[payOrder[r]] \in PaidOrPatched
    /\ payPc[r] = "insert" /\ payKind[r] = "success" /\ payOrder[r] # NoOrder
         => status[payOrder[r]] \in PaidOrPatched
    /\ payPc[r] = "notify" => payStatus[r] = "SUCCESS" /\ payFor[r] # NoOrder

PaymentInv == TaskInv /\ RecordedMeansPaid

\* The orders, the payment tasks and the payment rows only change together
\* in the steps of PaymentStep.
LEMMA PaymentFrame ==
  ASSUME [Next]_vars, \A r \in Ref : ~PaymentStep(r)
  PROVE  UNCHANGED <<payPc, payKind, payOrder, payTries, payStatus, payFor, confirmed>>
<1> USE DEF payVars, taskVars, rowVars
<1>1. CASE UNCHANGED vars
  BY <1>1 DEF vars
<1>2. ASSUME NEW c \in Conversation, ConversationStep(c)
      PROVE  UNCHANGED payVars
  BY <1>2 DEF ConversationStep, TurnStart, TurnAbandon, TurnReply,
              conversationTakeover, conversationRelease
<1>3. ASSUME NEW o \in Order, OrderStep(o)
      PROVE  UNCHANGED payVars
  BY <1>3 DEF OrderStep, HandleCheckout, HandleRestock, ExpiryScan, ExpiryCancel,
              ordersFulfillment
<1> QED BY <1>1, <1>2, <1>3 DEF Next

LEMMA PaymentStepInv ==
  ASSUME TypeInv, PaymentInv, NEW r \in Ref, PaymentStep(r), [Next]_vars
  PROVE  PaymentInv'
<1> USE DEF TypeInv, TypeOK, TaskHasOrder, PaymentInv, TaskInv, RecordedMeansPaid, rowVars
<1>0. \A o \in Order : status[o] \in PaidOrPatched => status'[o] \in PaidOrPatched
  BY PaidOrPatchedStays
<1>1. ASSUME NEW k \in Kinds[r], Webhook(r, k)
      PROVE  PaymentInv'
  BY <1>0, <1>1 DEF Webhook
<1>2. CASE PayMatch(r)
  <2>1. CASE TaskDone(r)
    BY <1>0, <1>2, <2>1 DEF PayMatch, TaskDone
  <2>2. CASE TaskFails(r)
    BY <1>0, <1>2, <2>2 DEF PayMatch, TaskFails
  <2>3. CASE ~TaskDone(r) /\ ~TaskFails(r)
    BY <1>0, <1>2, <2>3 DEF PayMatch, TaskGoesOn, Duplicate, ByReference
  <2> QED BY <2>1, <2>2, <2>3
<1>3. CASE PaySettle(r)
  <2>1. payOrder[r] \in Order
    BY <1>3 DEF PaySettle
  <2>2. payKind[r] # "failed" => status'[payOrder[r]] \in PaidOrPatched
    BY <1>3, <2>1 DEF PaySettle, PaidOrPatched
  <2> QED BY <1>0, <1>3, <2>1, <2>2 DEF PaySettle, TaskGoesOn
<1>4. CASE PayConversation(r)
  BY <1>0, <1>4 DEF PayConversation, TaskGoesOn
<1>5. CASE PayInsert(r)
  <2>1. r \notin confirmed
    BY <1>5 DEF PayInsert
  <2>2. payStatus'[r] = "SUCCESS" <=> payKind[r] = "success"
    BY <1>5 DEF PayInsert, paymentStatusFor
  <2>3. CASE payOrder[r] # NoOrder /\ payKind[r] = "success"
    BY <1>0, <1>5, <2>1, <2>2, <2>3 DEF PayInsert, TaskGoesOn
  <2>4. CASE ~(payOrder[r] # NoOrder /\ payKind[r] = "success")
    BY <1>0, <1>5, <2>1, <2>2, <2>4 DEF PayInsert, TaskDone
  <2> QED BY <2>3, <2>4
<1>6. CASE PayNotify(r)
  BY <1>0, <1>6 DEF PayNotify, TaskDone
<1>7. CASE PayCrash(r)
  BY <1>0, <1>7 DEF PayCrash, TaskFails
<1> QED BY <1>1, <1>2, <1>3, <1>4, <1>5, <1>6, <1>7 DEF PaymentStep

LEMMA PaymentInvariant == Spec => []PaymentInv
<1>1. Init => PaymentInv
  BY DEF Init, PaymentInv, TaskInv, RecordedMeansPaid
<1>2. TypeInv /\ PaymentInv /\ [Next]_vars => PaymentInv'
  <2> SUFFICES ASSUME TypeInv, PaymentInv, [Next]_vars
               PROVE  PaymentInv'
    OBVIOUS
  <2>1. CASE \E r \in Ref : PaymentStep(r)
    BY <2>1, PaymentStepInv
  <2>2. CASE \A r \in Ref : ~PaymentStep(r)
    <3>1. \A o \in Order : status[o] \in PaidOrPatched => status'[o] \in PaidOrPatched
      BY PaidOrPatchedStays
    <3>2. UNCHANGED <<payPc, payKind, payOrder, payTries, payStatus, payFor, confirmed>>
      BY <2>2, PaymentFrame
    <3> QED BY <3>1, <3>2 DEF TypeInv, TypeOK, TaskHasOrder, PaymentInv, TaskInv,
                              RecordedMeansPaid
  <2> QED BY <2>1, <2>2
<1> QED BY TypeInvariant, <1>1, <1>2, PTL DEF Spec

\* Whatever crashes, retries, expiries and failed events come between, a
\* recorded success is for an order that is PAID (or where an operator moved
\* it), and only such payments are confirmed to the customer.
THEOREM RecordedPaymentsPaid == Spec => []RecordedMeansPaid
<1>1. PaymentInv => RecordedMeansPaid
  BY DEF PaymentInv
<1> QED BY PaymentInvariant, <1>1, PTL

(***************************************************************************)
(* Which payment paid an order.  Matching by phone forgets, when it is     *)
(* retried, which order it settled (OrderLifecycle, order_phone_twice);    *)
(* where no event is matched by phone, an order is paid by its own         *)
(* reference and by no other.                                              *)
(***************************************************************************)

\* Every event names its order and pays its total, or comes from a phone
\* number that is no customer's.
NoPhoneMatches ==
  \A r \in Ref : (r \in Order /\ Amount[r] = Total[r]) \/ Scope[r] = {}

\* A task works for the order its reference names, which exists; a PAID
\* order has its row, or its task is still to write one that is no failure.
OwnPayment ==
  \A r \in Ref :
    /\ payOrder[r] # NoOrder => payOrder[r] = r /\ Amount[r] = Total[r]
    /\ r \in Order /\ payPc[r] # "idle" => status[r] # "NONE"
    /\ r \in Order /\ status[r] = "PAID" =>
         /\ Amount[r] = Total[r]
         /\ \/ payStatus[r] \in {"SUCCESS", "PENDING"}
            \/ payStatus[r] = "none" /\ payPc[r] # "idle" /\ payKind[r] # "failed"

\* Without phone matches only the task of its own reference pays an order.
LEMMA OwnMatch ==
  ASSUME NoPhoneMatches, OwnPayment, NEW r \in Ref, payPc[r] = "queued", ~ByReference(r)
  PROVE  ~NullTotal(r) /\ Candidates(r) = {} /\ ~Unique(Scope[r])
BY DEF NoPhoneMatches, OwnPayment, ByReference, Candidates, Unique, NullTotal

LEMMA OwnOtherSteps ==
  ASSUME TypeInv, OwnPayment, "PAID" \notin PatchStatuses,
         [Next]_vars, \A r \in Ref : ~PaymentStep(r)
  PROVE  OwnPayment'
<1>1. UNCHANGED <<payPc, payKind, payOrder, payTries, payStatus, payFor, confirmed>>
  BY PaymentFrame
<1>2. \A o \in Order : /\ status'[o] = "PAID" => status[o] = "PAID"
                       /\ status'[o] = "NONE" => status[o] = "NONE"
  <2> USE DEF TypeInv, TypeOK, convVars, ledgerVars
  <2>1. CASE UNCHANGED vars
    BY <2>1 DEF vars
  <2>2. ASSUME NEW c \in Conversation, ConversationStep(c)
        PROVE  UNCHANGED status
    BY <2>2 DEF ConversationStep, TurnStart, TurnAbandon, TurnReply,
                conversationTakeover, conversationRelease
  <2>3. ASSUME NEW q \in Order, OrderStep(q), NEW o \in Order
        PROVE  /\ status'[o] = "PAID" => status[o] = "PAID"
               /\ status'[o] = "NONE" => status[o] = "NONE"
    BY <2>3, OperatorAssumption
       DEF OrderStep, HandleCheckout, HandleRestock, ExpiryScan, ExpiryCancel, CancelOrder,
           ordersFulfillment, OrderStatus
  <2> QED BY <2>1, <2>2, <2>3 DEF Next
<1> QED BY <1>1, <1>2 DEF OwnPayment

LEMMA OwnPaymentStep ==
  ASSUME NoPhoneMatches, TypeInv, PaymentInv, OwnPayment, NEW r \in Ref, PaymentStep(r)
  PROVE  OwnPayment'
<1>0. CASE PayMatch(r)
  <2>1. CASE ByReference(r) \/ Duplicate(r)
    BY <1>0, <2>1
       DEF PayMatch, TaskDone, TaskGoesOn, Duplicate, ByReference, OwnPayment, TypeInv,
           TypeOK, ledgerVars, rowVars
  <2>2. CASE ~ByReference(r) /\ ~Duplicate(r)
    <3>1. ~NullTotal(r) /\ Candidates(r) = {} /\ ~Unique(Scope[r])
      BY <1>0, <2>2, OwnMatch DEF PayMatch
    <3>2. TaskDone(r) /\ UNCHANGED <<ledgerVars, rowVars>>
      BY <1>0, <2>2, <3>1 DEF PayMatch
    <3>3. r \in Order => status[r] # "PAID"
      BY <1>0, <2>2 DEF OwnPayment, ByReference, PayMatch
    <3> QED BY <3>2, <3>3 DEF TaskDone, OwnPayment, TypeInv, TypeOK, ledgerVars, rowVars
  <2> QED BY <2>1, <2>2
<1> USE DEF TypeInv, TypeOK, TaskHasOrder, PaymentInv, TaskInv, OwnPayment, ledgerVars, rowVars
<1>1. ASSUME NEW k \in Kinds[r], Webhook(r, k)
      PROVE  OwnPayment'
  BY <1>1 DEF Webhook
<1>2. CASE PaySettle(r)
  <2>1. payOrder[r] = r /\ r \in Order
    BY <1>2, SentinelAssumption DEF PaySettle
  <2>2. payStatus[r] = "none" /\ status[r] # "NONE" /\ Amount[r] = Total[r]
    BY <1>2, <2>1, SentinelAssumption DEF PaySettle
  <2>3. CASE payKind[r] = "failed" /\ status[r] \in OpenStatuses
    BY <1>2, <2>1, <2>2, <2>3 DEF PaySettle, CancelOrder, TaskGoesOn
  <2>4. CASE payKind[r] = "failed" /\ status[r] \notin OpenStatuses
    BY <1>2, <2>1, <2>2, <2>4 DEF PaySettle, CancelOrder, TaskGoesOn
  <2>5. CASE payKind[r] # "failed"
    BY <1>2, <2>1, <2>2, <2>5 DEF PaySettle, TaskGoesOn
  <2> QED BY <2>3, <2>4, <2>5
<1>3. CASE PayConversation(r)
  BY <1>3 DEF PayConversation, TaskGoesOn
<1>4. CASE PayInsert(r)
  <2>1. payKind[r] # "failed" => payStatus'[r] \in {"SUCCESS", "PENDING"}
    BY <1>4 DEF PayInsert, paymentStatusFor
  <2>2. CASE payOrder[r] # NoOrder /\ payKind[r] = "success"
    BY <1>4, <2>1, <2>2 DEF PayInsert, TaskGoesOn
  <2>3. CASE ~(payOrder[r] # NoOrder /\ payKind[r] = "success")
    BY <1>4, <2>1, <2>3 DEF PayInsert, TaskDone
  <2> QED BY <2>2, <2>3
<1>5. CASE PayNotify(r)
  BY <1>5 DEF PayNotify, TaskDone
<1>6. CASE PayCrash(r)
  BY <1>6 DEF PayCrash, TaskFails, InFlight
<1> QED BY <1>0, <1>1, <1>2, <1>3, <1>4, <1>5, <1>6 DEF PaymentStep

\* Where payments name their orders, no payment pays two orders and none is
\* paid for free, however tasks crash, are retried or archived: every PAID
\* order has the payments row or the task of its own reference.
THEOREM PaidByOwnReference ==
  ASSUME NoPhoneMatches
  PROVE  Spec => []PaidOrdersBacked
<1>1. CASE "PAID" \in PatchStatuses
  <2>1. PaidOrdersBacked
    BY <1>1 DEF PaidOrdersBacked
  <2> QED BY <2>1, PTL
<1>2. CASE "PAID" \notin PatchStatuses
  <2>1. Init => OwnPayment
    BY DEF Init, OwnPayment
  <2>2. TypeInv /\ PaymentInv /\ OwnPayment /\ [Next]_vars => OwnPayment'
    BY <1>2, OwnOtherSteps, OwnPaymentStep
  <2>3. TypeInv /\ OwnPayment => PaidOrdersBacked
    <3> SUFFICES ASSUME TypeInv, OwnPayment PROVE PaidOrdersBacked
      OBVIOUS
    <3> DEFINE Paid == {o \in Order : status[o] = "PAID"}
               Backing == {r \in Ref : payStatus[r] \in {"SUCCESS", "PENDING"}
                                         \/ payPc[r] # "idle"}
    <3>1. Paid \subseteq Backing
      BY DEF OwnPayment, Ref
    <3>2. IsFiniteSet(Ref)
      BY FiniteAssumption, FS_Union DEF Ref
    <3>3. IsFiniteSet(Backing)
      BY <3>2, FS_Subset
    <3> HIDE DEF Paid, Backing
    <3>4. Cardinality(Paid) <= Cardinality(Backing)
      BY <3>1, <3>3, FS_Subset
    <3> QED BY <3>4 DEF PaidOrdersBacked, Paid, Backing
  <2> QED BY TypeInvariant, PaymentInvariant, <2>1, <2>2, <2>3, PTL DEF Spec
<1> QED BY <1>1, <1>2

(***************************************************************************)
(* What one step can do to the state of a conversation.  An orchestrator   *)
(* turn moves it among the states before and after an order; a checkout    *)
(* claims it; a cancellation or a payment releases it; an operator takes   *)
(* it over or gives it back.                                               *)
(***************************************************************************)
ConvMove(c) ==
  \/ conv'[c] = conv[c]
  \/ /\ conv[c] \notin {"INVOICING", "ESCALATED"}
     /\ conv'[c] \in {"CHECKOUT", "BROWSING", "SUPPORT"}
  \/ /\ conv[c] \in CheckoutFroms
     /\ conv'[c] = "INVOICING"
     /\ \E o \in Order : /\ ConvOf[o] = c
                         /\ status' = [status EXCEPT ![o] = "CONFIRMED"]
  \/ /\ conv'[c] = "CANCELLED"
     /\ \E o \in Order : /\ ConvOf[o] = c
                         /\ status[o] \in OpenStatuses
                         /\ status' = [status EXCEPT ![o] = "CANCELLED"]
  \/ /\ conv'[c] = "PAID"
     /\ \E r \in Ref : payPc[r] = "conv" /\ ConvOf[payOrder[r]] = c
     /\ OpenIn(c) # {} => c \in taken'
  \/ conv'[c] = "LEAD" /\ (OpenIn(c) # {} => c \in taken')
  \/ conv'[c] = "ESCALATED"

LEMMA ConvStep ==
  ASSUME TypeInv, [Next]_vars, NEW c \in Conversation
  PROVE  ConvMove(c)
<1> USE DEF ConvMove, TypeInv, TypeOK, TaskHasOrder, convVars, ledgerVars
<1>1. CASE UNCHANGED vars
  BY <1>1 DEF vars
<1>2. ASSUME NEW d \in Conversation, ConversationStep(d)
      PROVE  ConvMove(c)
  <2>1. CASE TurnReply(d)
    <3>1. PICK intent \in {"checkout_request", "product_inquiry", "support_faq", "other"} :
            LET target == IntentTarget(turn[d], intent) IN
            conv' = IF target # turn[d] THEN Transition(d, turn[d], target) ELSE conv
      BY <2>1 DEF TurnReply
    <3>2. turn[d] \in ConversationState
      BY <2>1 DEF TurnReply
    <3> QED BY <3>1, <3>2, IntentTargetSafe DEF Transition
  <2>2. CASE TurnStart(d) \/ TurnAbandon(d)
    BY <2>2 DEF TurnStart, TurnAbandon
  <2>3. CASE conversationTakeover(d) \/ conversationRelease(d)
    BY <2>3 DEF conversationTakeover, conversationRelease
  <2> QED BY <1>2, <2>1, <2>2, <2>3 DEF ConversationStep
<1>3. ASSUME NEW o \in Order, OrderStep(o)
      PROVE  ConvMove(c)
  <2>1. CASE HandleCheckout(o)
    BY <2>1, ConvOfAssumption DEF HandleCheckout
  <2>2. CASE ExpiryCancel(o)
    BY <2>2, ConvOfAssumption DEF ExpiryCancel, CancelOrder, Transition
  <2>3. CASE ~HandleCheckout(o) /\ ~ExpiryCancel(o)
    BY <1>3, <2>3 DEF OrderStep, HandleRestock, ExpiryScan, ordersFulfillment
  <2> QED BY <2>1, <2>2, <2>3
<1>4. ASSUME NEW r \in Ref, PaymentStep(r)
      PROVE  ConvMove(c)
  <2>1. CASE PaySettle(r)
    BY <2>1, ConvOfAssumption DEF PaySettle, CancelOrder, Transition
  <2>2. CASE PayConversation(r)
    BY <2>2, ConvOfAssumption DEF PayConversation, Transition
  <2>3. CASE ~PaySettle(r) /\ ~PayConversation(r)
    BY <1>4, <2>3 DEF PaymentStep, Webhook, PayMatch, PayInsert, PayNotify, PayCrash
  <2> QED BY <2>1, <2>2, <2>3
<1> QED BY <1>1, <1>2, <1>3, <1>4 DEF Next

\* A conversation says PAID only when one of its orders was paid, or an
\* operator moved that order on.
THEOREM PaidConversations == Spec => []PaidHasPaidOrder
<1>1. Init => PaidHasPaidOrder
  BY DEF Init, PaidHasPaidOrder
<1>2. TypeInv /\ PaymentInv /\ PaidHasPaidOrder /\ [Next]_vars => PaidHasPaidOrder'
  <2> SUFFICES ASSUME TypeInv, PaymentInv, PaidHasPaidOrder, [Next]_vars,
                      NEW c \in Conversation, conv'[c] = "PAID"
               PROVE  \E o \in Order : ConvOf[o] = c /\ status'[o] \in PaidOrPatched
    BY DEF PaidHasPaidOrder
  <2>1. CASE conv[c] = "PAID"
    BY <2>1, PaidOrPatchedStays DEF PaidHasPaidOrder
  <2>2. CASE conv[c] # "PAID"
    <3>1. PICK r \in Ref : payPc[r] = "conv" /\ ConvOf[payOrder[r]] = c
      BY <2>2, ConvStep DEF ConvMove
    <3>2. payOrder[r] \in Order /\ status[payOrder[r]] \in PaidOrPatched
      BY <3>1 DEF PaymentInv, TaskInv, TypeInv, TaskHasOrder
    <3> QED BY <3>1, <3>2, PaidOrPatchedStays
  <2> QED BY <2>1, <2>2
<1> QED BY TypeInvariant, PaymentInvariant, <1>1, <1>2, PTL DEF Spec

(***************************************************************************)
(* The order slot: a conversation that nobody overrode has one open order  *)
(* at most, because only a checkout opens one, and a checkout starts from  *)
(* a state in which the conversation has none.                             *)
(***************************************************************************)
LEMMA TakenGrows ==
  ASSUME [Next]_vars
  PROVE  taken \subseteq taken'
BY DEF Next, vars, ConversationStep, OrderStep, PaymentStep,
       TurnStart, TurnAbandon, TurnReply, conversationTakeover, conversationRelease,
       HandleCheckout, HandleRestock, ExpiryScan, ExpiryCancel, ordersFulfillment,
       Webhook, PayMatch, PaySettle, PayConversation, PayInsert, PayNotify, PayCrash

LEMMA SlotStep ==
  ASSUME TypeInv, OneOrderSlot, [Next]_vars, NEW c \in Conversation \ taken'
  PROVE  /\ \A o1, o2 \in OpenIn(c)' : o1 = o2
         /\ OpenIn(c)' # {} => conv'[c] \in {"INVOICING", "ESCALATED"}
<1>1. c \notin taken
  BY TakenGrows
<1>2. /\ \A o1, o2 \in OpenIn(c) : o1 = o2
      /\ OpenIn(c) # {} => conv[c] \in {"INVOICING", "ESCALATED"}
  BY <1>1 DEF OneOrderSlot
<1>3. CASE \E o \in Order : o \in OpenIn(c)' /\ o \notin OpenIn(c)
  <2>1. PICK o \in Order : o \in OpenIn(c)' /\ o \notin OpenIn(c)
    BY <1>3
  <2>2. /\ status' = [status EXCEPT ![o] = "CONFIRMED"]
        /\ conv[c] \in CheckoutFroms
        /\ conv'[c] = "INVOICING"
    BY <2>1, StatusStep DEF StatusMove, OpenIn, OpenStatuses
  <2>3. OpenIn(c) = {}
    BY <1>2, <2>2 DEF CheckoutFroms
  <2>4. OpenIn(c)' \subseteq {o}
    BY <2>2, <2>3 DEF OpenIn, TypeInv, TypeOK
  <2> QED BY <2>2, <2>4
<1>4. CASE ~\E o \in Order : o \in OpenIn(c)' /\ o \notin OpenIn(c)
  <2>1. OpenIn(c)' \subseteq OpenIn(c)
    BY <1>4 DEF OpenIn
  <2>2. ASSUME NEW o \in OpenIn(c)'
        PROVE  conv'[c] \in {"INVOICING", "ESCALATED"}
    <3>1. o \in OpenIn(c) /\ o \in Order /\ status'[o] \in OpenStatuses
      BY <2>1, <2>2 DEF OpenIn
    <3>2. conv[c] \in {"INVOICING", "ESCALATED"}
      BY <1>2, <3>1
    <3>3. ~\E q \in Order : /\ ConvOf[q] = c
                            /\ status[q] \in OpenStatuses
                            /\ status' = [status EXCEPT ![q] = "CANCELLED"]
      <4> SUFFICES ASSUME NEW q \in Order, ConvOf[q] = c, status[q] \in OpenStatuses,
                          status' = [status EXCEPT ![q] = "CANCELLED"]
                   PROVE  FALSE
        OBVIOUS
      <4>1. q = o
        BY <1>2, <3>1 DEF OpenIn
      <4> QED BY <3>1, <4>1 DEF OpenStatuses, TypeInv, TypeOK
    <3> QED BY <3>1, <3>2, <3>3, ConvStep DEF ConvMove
  <2> QED BY <1>2, <2>1, <2>2
<1> QED BY <1>3, <1>4

\* Redelivered confirmations, concurrent turns, late payments and expiries
\* never give a conversation a second open order, unless an operator or a
\* payment overrode its slot.
THEOREM OrderSlot == Spec => []OneOrderSlot
<1>1. Init => OneOrderSlot
  BY DEF Init, OneOrderSlot, OpenIn, OpenStatuses
<1>2. TypeInv /\ OneOrderSlot /\ [Next]_vars => OneOrderSlot'
  BY SlotStep DEF OneOrderSlot, OpenIn
<1> QED BY TypeInvariant, <1>1, <1>2, PTL DEF Spec

\* An INVOICING conversation has an order to invoice: no cancellation ever
\* leaves the customer waiting for the payment of a cancelled order.
THEOREM InvoicingConversations == Spec => []InvoicingHasOrder
<1>1. Init => InvoicingHasOrder
  BY DEF Init, InvoicingHasOrder
<1>2. TypeInv /\ InvoicingHasOrder /\ [Next]_vars => InvoicingHasOrder'
  <2> SUFFICES ASSUME TypeInv, InvoicingHasOrder, [Next]_vars,
                      NEW c \in Conversation, conv'[c] = "INVOICING"
               PROVE  \E o \in Order :
                        /\ ConvOf[o] = c
                        /\ status'[o] \in OpenStatuses \cup {"PAID"} \cup PatchStatuses
    BY DEF InvoicingHasOrder
  <2>1. CASE conv[c] = "INVOICING"
    <3>1. PICK o \in Order : /\ ConvOf[o] = c
                             /\ status[o] \in OpenStatuses \cup {"PAID"} \cup PatchStatuses
      BY <2>1 DEF InvoicingHasOrder
    <3>2. status[o] # "NONE"
      BY <3>1, OperatorAssumption DEF OpenStatuses, OrderStatus
    <3> QED BY <3>1, <3>2, StatusStep DEF StatusMove
  <2>2. CASE conv[c] # "INVOICING"
    <3>1. PICK o \in Order : ConvOf[o] = c /\ status' = [status EXCEPT ![o] = "CONFIRMED"]
      BY <2>2, ConvStep DEF ConvMove
    <3> QED BY <3>1 DEF OpenStatuses, TypeInv, TypeOK
  <2> QED BY <2>1, <2>2
<1> QED BY TypeInvariant, <1>1, <1>2, PTL DEF Spec

(***************************************************************************)
(* The refinement of StockLedger.  A restock maps to a step of the ledger  *)
(* because order.cancelled is only ever emitted for an order that exists.  *)
(***************************************************************************)
EventHasOrder ==
  \A o \in Order : <<"order.cancelled", o>> \in outbox => status[o] # "NONE"

SettleHasOrder ==
  \A r \in Ref : payPc[r] = "settle" => status[payOrder[r]] # "NONE"

ExistsInv == EventHasOrder /\ SettleHasOrder

\* An order row is never deleted.
LEMMA OrderStays ==
  ASSUME TypeInv, [Next]_vars, NEW o \in Order, status[o] # "NONE"
  PROVE  status'[o] # "NONE"
BY StatusStep, OperatorAssumption DEF StatusMove, OrderStatus, TypeInv, TypeOK

LEMMA ExistsInvariant == Spec => []ExistsInv
<1>1. Init => ExistsInv
  BY DEF Init, ExistsInv, EventHasOrder, SettleHasOrder
<1>2. TypeInv /\ ExistsInv /\ [Next]_vars => EventHasOrder'
  <2> SUFFICES ASSUME TypeInv, ExistsInv, [Next]_vars, NEW o \in Order,
                      <<"order.cancelled", o>> \in outbox'
               PROVE  status'[o] # "NONE"
    BY DEF EventHasOrder
  <2>1. CASE <<"order.cancelled", o>> \in outbox
    BY <2>1, OrderStays DEF ExistsInv, EventHasOrder
  <2>2. CASE <<"order.cancelled", o>> \notin outbox
    <3>1. Next
      BY <2>2 DEF vars
    <3>2. \E q \in Order : CancelOrder(q) \/ HandleCheckout(q)
      BY <2>2, <3>1
         DEF Next, ConversationStep, OrderStep, PaymentStep, convVars, ledgerVars,
             TurnStart, TurnAbandon, TurnReply, conversationTakeover, conversationRelease,
             HandleRestock, ExpiryScan, ExpiryCancel, ordersFulfillment, TypeInv, TaskHasOrder,
             Webhook, PayMatch, PaySettle, PayConversation, PayInsert, PayNotify, PayCrash
    <3>3. CancelOrder(o)
      BY <2>2, <3>2 DEF CancelOrder, HandleCheckout
    <3> QED BY <2>2, <3>3, OrderStays DEF CancelOrder, OpenStatuses
  <2> QED BY <2>1, <2>2
<1>3. TypeInv /\ ExistsInv /\ [Next]_vars => SettleHasOrder'
  <2> SUFFICES ASSUME TypeInv, ExistsInv, [Next]_vars, NEW r \in Ref, payPc'[r] = "settle"
               PROVE  status'[payOrder'[r]] # "NONE"
    BY DEF SettleHasOrder
  <2> USE DEF TypeInv, TypeOK, TaskHasOrder
  <2>1. CASE payPc'[r] = payPc[r] /\ payOrder'[r] = payOrder[r]
    <3>1. payOrder[r] \in Order /\ status[payOrder[r]] # "NONE"
      BY <2>1 DEF ExistsInv, SettleHasOrder
    <3> QED BY <2>1, <3>1, OrderStays
  <2>2. CASE ~(payPc'[r] = payPc[r] /\ payOrder'[r] = payOrder[r])
    <3>1. PICK q \in Ref : PaymentStep(q)
      BY <2>2, PaymentFrame
    <3>2. PayMatch(q) /\ q = r
      BY <2>2, <3>1 DEF PaymentStep, Webhook, PayMatch, PaySettle, PayConversation, PayInsert,
                        PayNotify, PayCrash, TaskDone, TaskGoesOn, TaskFails
    <3>3. payOrder'[r] \in Order /\ status[payOrder'[r]] # "NONE"
      BY <3>2, <2>2 DEF PayMatch, TaskDone, TaskGoesOn, TaskFails, ByReference, Candidates,
                        OpenStatuses
    <3> QED BY <3>3, OrderStays
  <2> QED BY <2>1, <2>2
<1> QED BY TypeInvariant, <1>1, <1>2, <1>3, PTL DEF Spec, ExistsInv

\* Only a checkout creates an order.
LEMMA OrderBorn ==
  ASSUME TypeInv, ExistsInv, [Next]_vars, NEW o \in Order,
         status[o] = "NONE", status'[o] # "NONE"
  PROVE  HandleCheckout(o)
<1> USE DEF TypeInv, TypeOK, TaskHasOrder, convVars, ledgerVars
<1>1. Next
  BY DEF vars
<1>2. ASSUME NEW c \in Conversation, ConversationStep(c)
      PROVE  UNCHANGED status
  BY <1>2 DEF ConversationStep, TurnStart, TurnAbandon, TurnReply,
              conversationTakeover, conversationRelease
<1>3. ASSUME NEW r \in Ref, PaymentStep(r)
      PROVE  status'[o] = status[o]
  <2>1. CASE PaySettle(r)
    BY <2>1 DEF PaySettle, CancelOrder, OpenStatuses, ExistsInv, SettleHasOrder
  <2>2. CASE ~PaySettle(r)
    BY <1>3, <2>2 DEF PaymentStep, Webhook, PayMatch, PayConversation, PayInsert,
                      PayNotify, PayCrash
  <2> QED BY <2>1, <2>2
<1>4. ASSUME NEW q \in Order, OrderStep(q), ~HandleCheckout(o)
      PROVE  status'[o] = status[o]
  BY <1>4 DEF OrderStep, HandleCheckout, HandleRestock, ExpiryScan, ExpiryCancel, CancelOrder,
              ordersFulfillment, OpenStatuses
<1> QED BY <1>1, <1>2, <1>3, <1>4 DEF Next

\* Stock and restored change only in a checkout and in a restock.
LEMMA StockFrame ==
  ASSUME [Next]_vars, \A o \in Order : ~HandleCheckout(o) /\ ~HandleRestock(o)
  PROVE  UNCHANGED <<stock, restored>>
BY DEF Next, vars, ConversationStep, OrderStep, PaymentStep, ledgerVars,
       TurnStart, TurnAbandon, TurnReply, conversationTakeover, conversationRelease,
       ExpiryScan, ExpiryCancel, ordersFulfillment,
       Webhook, PayMatch, PaySettle, PayConversation, PayInsert, PayNotify, PayCrash

LEMMA LedgerStep ==
  ASSUME TypeInv, RestoredHasEvent, ExistsInv, [Next]_vars
  PROVE  [Ledger!Next]_(Ledger!vars)
<1> USE DEF TypeInv, TypeOK, Hold
<1>1. ASSUME NEW o \in Order, HandleCheckout(o)
      PROVE  Ledger!Take(o) \/ UNCHANGED <<stock, Hold>>
  <2>1. CASE UNCHANGED <<status, stock>>
    BY <1>1, <2>1 DEF HandleCheckout
  <2>2. CASE ~UNCHANGED <<status, stock>>
    <3>1. /\ status[o] = "NONE" /\ InStock(o)
          /\ status' = [status EXCEPT ![o] = "CONFIRMED"]
          /\ stock' = [p \in Product |-> stock[p] - Items[o][p]]
          /\ restored' = restored
      BY <1>1, <2>2 DEF HandleCheckout
    <3>2. o \notin restored
      BY <3>1 DEF RestoredHasEvent, ExistsInv, EventHasOrder
    <3>3. Hold' = [Hold EXCEPT ![o] = "held"]
      BY <3>1, <3>2
    <3> QED BY <3>1, <3>3 DEF Ledger!Take, InStock
  <2> QED BY <2>1, <2>2
<1>2. ASSUME NEW o \in Order, HandleRestock(o)
      PROVE  Ledger!GiveBack(o)
  <2>1. status[o] # "NONE" /\ o \notin restored
    BY <1>2 DEF HandleRestock, ExistsInv, EventHasOrder
  <2>2. Hold' = [Hold EXCEPT ![o] = "returned"]
    BY <1>2, <2>1 DEF HandleRestock
  <2> QED BY <1>2, <2>1, <2>2 DEF Ledger!GiveBack, HandleRestock
<1>3. ASSUME \A o \in Order : ~HandleCheckout(o) /\ ~HandleRestock(o)
      PROVE  UNCHANGED <<stock, Hold>>
  <2>1. UNCHANGED <<stock, restored>>
    BY <1>3, StockFrame
  <2>2. \A o \in Order : status'[o] = "NONE" <=> status[o] = "NONE"
    BY <1>3, OrderStays, OrderBorn
  <2> QED BY <2>1, <2>2
<1> QED BY <1>1, <1>2, <1>3 DEF Ledger!Next, Ledger!vars

\* The order code implements StockLedger, whatever the stock, the orders and
\* the number of crashes: items are taken once and given back at most once.
THEOREM StockRefinement == Spec => StockIsLedger
<1>1. Init => Ledger!Init
  BY DEF Init, Ledger!Init, Hold
<1>2. TypeInv /\ RestoredHasEvent /\ ExistsInv /\ [Next]_vars => [Ledger!Next]_(Ledger!vars)
  BY LedgerStep
<1> QED BY TypeInvariant, RestoredInvariant, ExistsInvariant, <1>1, <1>2, PTL
        DEF Spec, StockIsLedger, Ledger!Spec
=============================================================================
