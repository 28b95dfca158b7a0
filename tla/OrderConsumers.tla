---------------------------- MODULE OrderConsumers ----------------------------
(***************************************************************************)
(* Two consumers of order.created that share no transaction with it:       *)
(* payment initiation (payment_init.go), which asks Paystack for a link,   *)
(* stores it and writes the invoice message, and the customer's order      *)
(* statistics (profile_stats.go), a read-modify-write in one READ          *)
(* COMMITTED transaction.  Deliveries of one event run concurrently, and   *)
(* the orders are all of one customer of one business.                     *)
(***************************************************************************)
EXTENDS Integers, FiniteSets, Sequences

CONSTANTS
  Order,          \* orders of the customer
  Deliveries,     \* Deliveries[o]: bound on the deliveries of o's event
  MaxFaults       \* bound: attempts that die or fail half-way

ASSUME ConsumerAssumption ==
  /\ IsFiniteSet(Order)
  /\ Deliveries \in [Order -> Nat \ {0}]
  /\ MaxFaults \in Nat

\* A delivery of an order's event, to each of the two consumers.
Task == UNION {{o} \X (1..Deliveries[o]) : o \in Order}
OrderOf(x) == x[1]

VARIABLES
  init,      \* next statement of a payment-init task
  link,      \* the link it got from Paystack, 0: none
  calls,     \* transactions initiated at Paystack, by order
  url,       \* orders.payment_url, 0: NULL
  invoices,  \* links of the outbound invoice rows of an order
  stat,      \* next statement of a profile-stats task
  seen,      \* total_orders it read
  claim,     \* the task whose open transaction holds an order's marker
  recorded,  \* orders with stats_recorded_at set
  total,     \* customer_profiles.total_orders
  reachable, \* the customer has a phone and the business a WhatsApp number
  profile,   \* the customer has a row in customer_profiles
  faults     \* attempts that died or failed

NoTask == <<>>

initVars == <<init, link, calls, url, invoices>>
statVars == <<stat, seen, claim, recorded, total>>
customerVars == <<reachable, profile>>
vars == <<init, link, calls, url, invoices, stat, seen, claim, recorded, total,
          reachable, profile, faults>>

Init ==
  /\ init = [x \in Task |-> "idle"]
  /\ link = [x \in Task |-> 0]
  /\ calls = [o \in Order |-> 0]
  /\ url = [o \in Order |-> 0]
  /\ invoices = [o \in Order |-> <<>>]
  /\ stat = [x \in Task |-> "idle"]
  /\ seen = [x \in Task |-> 0]
  /\ claim = [o \in Order |-> NoTask]
  /\ recorded = {}
  /\ total = 0
  /\ reachable \in BOOLEAN
  /\ profile \in BOOLEAN
  /\ faults = 0

Fault ==
  /\ faults < MaxFaults
  /\ faults' = faults + 1

\* The dispatcher enqueues the event to both consumers, one after the other.
DeliverInit(x) ==
  /\ init[x] = "idle"
  /\ init' = [init EXCEPT ![x] = "queued"]
  /\ UNCHANGED <<link, calls, url, invoices, statVars, customerVars, faults>>

DeliverStat(x) ==
  /\ stat[x] = "idle"
  /\ init[x] # "idle"
  /\ stat' = [stat EXCEPT ![x] = "queued"]
  /\ UNCHANGED <<initVars, seen, claim, recorded, total, customerVars, faults>>

-----------------------------------------------------------------------------
(* Payment initiation.                                                     *)

InitGoes(x, pc) == init' = [init EXCEPT ![x] = pc]

\* Skip when a link was already generated.
InitCheck(x) ==
  /\ init[x] = "queued"
  /\ InitGoes(x, IF url[OrderOf(x)] # 0 THEN "done" ELSE "call")
  /\ UNCHANGED <<link, calls, url, invoices, statVars, customerVars, faults>>

\* Paystack answers with a link of its own for each initiation.
InitCall(x) ==
  /\ init[x] = "call"
  /\ calls' = [calls EXCEPT ![OrderOf(x)] = @ + 1]
  /\ link' = [link EXCEPT ![x] = calls[OrderOf(x)] + 1]
  /\ InitGoes(x, "persist")
  /\ UNCHANGED <<url, invoices, statVars, customerVars, faults>>

\* Mutant: the last write wins.
InitPersistAlways(x) ==
  /\ init[x] = "persist"
  /\ url' = [url EXCEPT ![OrderOf(x)] = link[x]]
  /\ InitGoes(x, "invoice")
  /\ UNCHANGED <<link, calls, invoices, statVars, customerVars, faults>>

\* The first write of payment_url wins, and its task writes the invoice if
\* there is a phone number to send it to and one to send it from.
InitPersist(x) ==
  /\ init[x] = "persist"
  /\ IF url[OrderOf(x)] = 0
       THEN /\ url' = [url EXCEPT ![OrderOf(x)] = link[x]]
            /\ InitGoes(x, IF reachable THEN "invoice" ELSE "done")
       ELSE InitGoes(x, "done") /\ UNCHANGED url
  /\ UNCHANGED <<link, calls, invoices, statVars, customerVars, faults>>

\* Mutant: the task ends without the invoice row.
InitInvoiceSkipped(x) ==
  /\ init[x] = "invoice"
  /\ InitGoes(x, "publish")
  /\ UNCHANGED <<link, calls, url, invoices, statVars, customerVars, faults>>

InitInvoice(x) ==
  /\ init[x] = "invoice"
  /\ invoices' = [invoices EXCEPT ![OrderOf(x)] = Append(@, link[x])]
  /\ InitGoes(x, "publish")
  /\ UNCHANGED <<link, calls, url, statVars, customerVars, faults>>

InitPublish(x) ==
  /\ init[x] = "publish"
  /\ InitGoes(x, "done")
  /\ UNCHANGED <<link, calls, url, invoices, statVars, customerVars, faults>>

\* A call or statement fails, or the worker dies: the queue retries.
InitFails(x) ==
  /\ init[x] \in {"call", "persist", "invoice", "publish"}
  /\ Fault
  /\ InitGoes(x, "queued")
  /\ link' = [link EXCEPT ![x] = 0]
  /\ UNCHANGED <<calls, url, invoices, statVars, customerVars>>

-----------------------------------------------------------------------------
(* Profile statistics.                                                     *)

\* Mutant: the marker is not looked at.
AlreadyNever(o) == FALSE

Already(o) == o \in recorded

\* The transaction claims the order's marker, waiting for a transaction that
\* holds it; an order that was counted is skipped.
StatClaim(x) ==
  LET o == OrderOf(x) IN
  /\ stat[x] = "queued"
  /\ claim[o] = NoTask
  /\ IF Already(o)
       THEN stat' = [stat EXCEPT ![x] = "done"] /\ UNCHANGED claim
       ELSE /\ stat' = [stat EXCEPT ![x] = "read"]
            /\ claim' = [claim EXCEPT ![o] = x]
  /\ UNCHANGED <<initVars, seen, recorded, total, customerVars, faults>>

\* The committed counters, read without a lock.
StatRead(x) ==
  /\ stat[x] = "read"
  /\ profile
  /\ seen' = [seen EXCEPT ![x] = total]
  /\ stat' = [stat EXCEPT ![x] = "write"]
  /\ UNCHANGED <<initVars, claim, recorded, total, customerVars, faults>>

\* The transaction commits, marker included, and the task ends.
Commit(x) ==
  /\ recorded' = recorded \cup {OrderOf(x)}
  /\ claim' = [claim EXCEPT ![OrderOf(x)] = NoTask]
  /\ stat' = [stat EXCEPT ![x] = "done"]
  /\ seen' = [seen EXCEPT ![x] = 0]

\* Without a profile there is nothing to count; the order is recorded.
StatNoProfile(x) ==
  /\ stat[x] = "read"
  /\ ~profile
  /\ Commit(x)
  /\ UNCHANGED <<initVars, total, customerVars, faults>>

\* The new totals are written, and the transaction commits with the marker.
StatCommit(x) ==
  /\ stat[x] = "write"
  /\ total' = seen[x] + 1
  /\ Commit(x)
  /\ UNCHANGED <<initVars, customerVars, faults>>

\* The attempt fails and the transaction rolls back, marker included.
StatFails(x) ==
  LET o == OrderOf(x) IN
  /\ stat[x] \in {"read", "write"}
  /\ Fault
  /\ stat' = [stat EXCEPT ![x] = "queued"]
  /\ claim' = [claim EXCEPT ![o] = NoTask]
  /\ seen' = [seen EXCEPT ![x] = 0]
  /\ UNCHANGED <<initVars, recorded, total, customerVars>>

\* The customer's next message creates the profile that is missing.
CreateProfile ==
  /\ ~profile
  /\ profile' = TRUE
  /\ UNCHANGED <<initVars, statVars, reachable, faults>>

-----------------------------------------------------------------------------
InitStep(x) ==
  InitCheck(x) \/ InitCall(x) \/ InitPersist(x) \/ InitInvoice(x) \/ InitPublish(x)

StatStep(x) == StatClaim(x) \/ StatRead(x) \/ StatNoProfile(x) \/ StatCommit(x)

Next ==
  \/ CreateProfile
  \/ \E x \in Task :
       \/ DeliverInit(x) \/ InitStep(x) \/ InitFails(x)
       \/ DeliverStat(x) \/ StatStep(x) \/ StatFails(x)

Spec == Init /\ [][Next]_vars

\* Every event is delivered once at least, and the queue retries its tasks;
\* a row lock that is released again and again is obtained in the end.
FairSpec ==
  /\ Spec
  /\ \A o \in Order : WF_vars(DeliverInit(<<o, 1>>)) /\ WF_vars(DeliverStat(<<o, 1>>))
  /\ \A x \in Task : WF_vars(InitStep(x)) /\ SF_vars(StatStep(x))
-----------------------------------------------------------------------------
(* Properties.                                                             *)

TypeOK ==
  /\ init \in [Task -> {"idle", "queued", "call", "persist", "invoice", "publish", "done"}]
  /\ link \in [Task -> Nat]
  /\ calls \in [Order -> Nat]
  /\ url \in [Order -> Nat]
  /\ invoices \in [Order -> Seq(Nat)]
  /\ stat \in [Task -> {"idle", "queued", "read", "write", "done"}]
  /\ seen \in [Task -> 0..Cardinality(Order)]
  /\ claim \in [Order -> Task \cup {NoTask}]
  /\ recorded \subseteq Order
  /\ total \in 0..Cardinality(Order)
  /\ reachable \in BOOLEAN
  /\ profile \in BOOLEAN
  /\ faults \in 0..MaxFaults

\* However many deliveries race and however many of them initiated a
\* payment, a customer is sent at most one invoice per order, and its link
\* is the one the order keeps (payment_init.go:122-133).
OneInvoice ==
  \A o \in Order : invoices[o] \in {<<>>, <<url[o]>>}

\* Redelivery and retries never count an order twice (profile_stats.go:54-64).
StatsNeverOver == total <= Cardinality(recorded)

\* The link of an order reaches the outbox (payment_init.go:65-66), whichever
\* of the racing deliveries wins, unless there is nobody to send it to or an
\* attempt failed half-way.
LinkDelivered ==
  \A o \in Order : <>(invoices[o] # <<>> \/ ~reachable \/ faults > 0)
-----------------------------------------------------------------------------
(* What comments of the code claim and its steps do not keep (README.md).  *)

\* The counters count every recorded order once (profile_stats.go:46).
StatsExact == total = Cardinality(recorded)

\* When the tasks of an order have ended, its invoice was written
\* (payment_init.go:65-66).
InvoiceWritten ==
  \A o \in Order :
    (\E x \in Task : OrderOf(x) = o /\ init[x] = "done")
    /\ (\A x \in Task : OrderOf(x) = o => init[x] \in {"idle", "done"})
      => invoices[o] # <<>> \/ ~reachable

\* A redelivery never produces a second Paystack transaction
\* (payment_init.go:2-4).
OneInitiation == \A o \in Order : calls[o] <= 1
=============================================================================
