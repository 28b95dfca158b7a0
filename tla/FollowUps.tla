------------------------------ MODULE FollowUps ------------------------------
(***************************************************************************)
(* The reminders of an unpaid order, from the order.created event to the   *)
(* expiry of the order: the schedule consumer (followup_schedule.go), the  *)
(* scanner that claims due rows and the handler that sends them            *)
(* (followup.go), the cancellation of reminders by a payment event         *)
(* (payment_events.go), the expiry sweep gated on the final reminder       *)
(* (checkout_expiry.go) and the delivery confirmation that an operator's   *)
(* PATCH schedules (orders_write.go).                                      *)
(*                                                                         *)
(* Only the order of deadlines matters, so time is not a number: a row     *)
(* falls due, and the grace after it ends, by actions of their own.        *)
(***************************************************************************)
EXTENDS Integers, FiniteSets

CONSTANTS
  Order,          \* orders
  MaxDeliveries,  \* bound: deliveries of an order's order.created task
  MaxPatches,     \* bound: PATCH requests per order
  PatchStatuses,  \* statuses those requests set
  MaxFaults,      \* bound: attempts that die or fail half-way
  MaxRefusals     \* bound: enqueues of a claimed row that the queue refuses

Status == {"CONFIRMED", "PAYMENT_PENDING", "PAID", "DELIVERED", "CANCELLED"}
OpenStatuses == {"CONFIRMED", "PAYMENT_PENDING"}

ASSUME FollowUpAssumption ==
  /\ MaxDeliveries \in Nat \ {0}
  /\ MaxPatches \in Nat
  /\ PatchStatuses \subseteq Status
  /\ MaxFaults \in Nat
  /\ MaxRefusals \in Nat

Delivery == 1..MaxDeliveries
Request == 1..MaxPatches

Reminder == {"abandoned-cart", "unpaid-invoice-first", "unpaid-invoice-second"}

\* A row of scheduled_follow_ups, identified by what inserts it.
Row == (Order \X Delivery \X Reminder) \cup (Order \X Request \X {"delivery-confirmation"})
OrderOf(r) == r[1]
JobOf(r) == r[3]

RowState == {"absent", "waiting", "due", "executed", "graced", "cancelled"}

VARIABLES
  status,     \* orders.status, "NONE" before checkout
  row,        \* scheduled_follow_ups, with how far its deadlines have passed
  sched,      \* next statement of each delivery of order.created
  sweeping,   \* a scanner run is in its transaction
  todo,       \* rows it read as due and has not claimed yet
  claimed,    \* rows it claimed, uncommitted
  handed,     \* history: rows whose task was handed to the queue
  task,       \* next statement of the follow-up task of a row, "none": no task
  reminders,  \* outbound messages written for a row
  late,       \* customer_profiles.late_payment_count, per order
  paying,     \* progress of the order's payment event
  expiring,   \* orders an expiry scan collected, not yet cancelled
  expired,    \* history: orders cancelled by the expiry sweep
  existing,   \* status a PATCH request read, "NONE" before it did
  patchPc,    \* its next statement
  faults,     \* attempts that died or failed
  half,       \* history: orders of which an attempt died between its inserts
  refusals    \* enqueues the queue refused

sweepVars == <<sweeping, todo, claimed, handed, refusals>>
patchVars == <<existing, patchPc>>
runVars == <<task, reminders, late>>
expiryVars == <<expiring, expired>>
faultVars == <<faults, half>>
vars == <<status, row, sched, sweeping, todo, claimed, handed, task, reminders, late,
          paying, expiring, expired, existing, patchPc, faults, half, refusals>>

Init ==
  /\ status = [o \in Order |-> "NONE"]
  /\ row = [r \in Row |-> "absent"]
  /\ sched = [x \in Order \X Delivery |-> "idle"]
  /\ half = {}
  /\ sweeping = FALSE
  /\ todo = {}
  /\ claimed = {}
  /\ handed = {}
  /\ task = [r \in Row |-> "none"]
  /\ reminders = [r \in Row |-> 0]
  /\ late = [o \in Order |-> 0]
  /\ paying = [o \in Order |-> "no"]
  /\ expiring = {}
  /\ expired = {}
  /\ existing = [x \in Order \X Request |-> "NONE"]
  /\ patchPc = [x \in Order \X Request |-> "read"]
  /\ faults = 0
  /\ refusals = 0

RowsOf(o) == {r \in Row : OrderOf(r) = o}

\* An attempt of a task dies or fails; the queue retries it.
Fault ==
  /\ faults < MaxFaults
  /\ faults' = faults + 1

-----------------------------------------------------------------------------
(* order.created and its schedule consumer.                                *)

\* Checkout commits the order, and its event is delivered.
Create(o) ==
  /\ status[o] = "NONE"
  /\ status' = [status EXCEPT ![o] = "CONFIRMED"]
  /\ sched' = [sched EXCEPT ![<<o, 1>>] = "queued"]
  /\ UNCHANGED <<row, sweepVars, runVars, paying, expiryVars, patchVars, faultVars>>

\* The dispatcher delivers the event again, after a drain that failed.
Redeliver(o, d) ==
  /\ status[o] # "NONE"
  /\ sched[<<o, d>>] = "idle"
  /\ Fault
  /\ sched' = [sched EXCEPT ![<<o, d>>] = "queued"]
  /\ UNCHANGED <<status, row, sweepVars, runVars, paying, expiryVars, patchVars, half>>

Scheduled(o) == \E r \in RowsOf(o) : row[r] # "absent"

\* The existence check on scheduled_follow_ups.
ScheduleCheck(o, d) ==
  /\ sched[<<o, d>>] = "queued"
  /\ sched' = [sched EXCEPT ![<<o, d>>] = IF Scheduled(o) THEN "done" ELSE "pair"]
  /\ UNCHANGED <<status, row, sweepVars, runVars, paying, expiryVars, patchVars, faultVars>>

\* Mutant: the consumer stops after the first insert.
SchedulePairOnly(o, d) ==
  /\ sched[<<o, d>>] = "pair"
  /\ row' = [row EXCEPT ![<<o, d, "abandoned-cart">>] = "waiting",
                        ![<<o, d, "unpaid-invoice-first">>] = "waiting"]
  /\ sched' = [sched EXCEPT ![<<o, d>>] = "done"]
  /\ UNCHANGED <<status, sweepVars, runVars, paying, expiryVars, patchVars, faultVars>>

\* One statement inserts the first two reminders, another one the third.
SchedulePair(o, d) ==
  /\ sched[<<o, d>>] = "pair"
  /\ row' = [row EXCEPT ![<<o, d, "abandoned-cart">>] = "waiting",
                        ![<<o, d, "unpaid-invoice-first">>] = "waiting"]
  /\ sched' = [sched EXCEPT ![<<o, d>>] = "second"]
  /\ UNCHANGED <<status, sweepVars, runVars, paying, expiryVars, patchVars, faultVars>>

ScheduleSecond(o, d) ==
  /\ sched[<<o, d>>] = "second"
  /\ row' = [row EXCEPT ![<<o, d, "unpaid-invoice-second">>] = "waiting"]
  /\ sched' = [sched EXCEPT ![<<o, d>>] = "done"]
  /\ UNCHANGED <<status, sweepVars, runVars, paying, expiryVars, patchVars, faultVars>>

ScheduleFails(o, d) ==
  /\ sched[<<o, d>>] \in {"pair", "second"}
  /\ Fault
  /\ sched' = [sched EXCEPT ![<<o, d>>] = "queued"]
  /\ half' = IF sched[<<o, d>>] = "second" THEN half \cup {o} ELSE half
  /\ UNCHANGED <<status, row, sweepVars, runVars, paying, expiryVars, patchVars>>

-----------------------------------------------------------------------------
(* Time.                                                                   *)

\* Reminders whose deadline lies before that of job j of the same delivery.
Before(j) ==
  CASE j = "unpaid-invoice-first" -> {"abandoned-cart"}
    [] j = "unpaid-invoice-second" -> {"abandoned-cart", "unpaid-invoice-first"}
    [] OTHER -> {}

\* scheduled_at of a row passes.
FallsDue(r) ==
  /\ row[r] = "waiting"
  /\ \A j \in Before(JobOf(r)) : row[<<r[1], r[2], j>>] # "waiting"
  /\ row' = [row EXCEPT ![r] = "due"]
  /\ UNCHANGED <<status, sched, sweepVars, runVars, paying, expiryVars, patchVars, faultVars>>

\* checkoutExpiryGrace after executed_at passes.
GraceEnds(r) ==
  /\ row[r] = "executed"
  /\ JobOf(r) = "unpaid-invoice-second"
  /\ row' = [row EXCEPT ![r] = "graced"]
  /\ UNCHANGED <<status, sched, sweepVars, runVars, paying, expiryVars, patchVars, faultVars>>

-----------------------------------------------------------------------------
(* The scanner: one transaction under an advisory lock.                    *)

\* Mutant: rows of orders that are no longer open are left out.
DueOfOpenOrders == {r \in Row : row[r] = "due" /\ status[OrderOf(r)] \in OpenStatuses}

Due == {r \in Row : row[r] = "due"}

SweepBegin ==
  /\ ~sweeping
  /\ Due # {}
  /\ sweeping' = TRUE
  /\ todo' = Due
  /\ UNCHANGED <<status, row, sched, claimed, handed, refusals, runVars, paying, expiryVars,
                 patchVars, faultVars>>

\* The compare-and-set of executed_at: the row is still unclaimed.
Claimable(r) == row[r] = "due"

\* The scan works off its rows by scheduled_at.
FirstOf(r) == r \in todo /\ \A j \in Before(JobOf(r)) : <<r[1], r[2], j>> \notin todo

\* The row is claimed and its task enqueued under the row's task id; a row
\* that was cancelled meanwhile is skipped.
Claim(r) ==
  /\ FirstOf(r)
  /\ todo' = todo \ {r}
  /\ IF Claimable(r)
       THEN /\ claimed' = claimed \cup {r}
            /\ handed' = handed \cup {r}
            /\ task' = [task EXCEPT ![r] = IF @ = "none" THEN "queued" ELSE @]
       ELSE UNCHANGED <<claimed, handed, task>>
  /\ UNCHANGED <<status, row, sched, sweeping, refusals, reminders, late, paying, expiryVars,
                 patchVars, faultVars>>

\* The queue refuses the task: the error is logged and the claim stands.
ClaimRefused(r) ==
  /\ FirstOf(r)
  /\ Claimable(r)
  /\ refusals < MaxRefusals
  /\ refusals' = refusals + 1
  /\ todo' = todo \ {r}
  /\ claimed' = claimed \cup {r}
  /\ UNCHANGED <<status, row, sched, sweeping, handed, runVars, paying, expiryVars,
                 patchVars, faultVars>>

SweepEnds ==
  /\ sweeping' = FALSE
  /\ todo' = {}
  /\ claimed' = {}
  /\ UNCHANGED <<status, sched, handed, refusals, runVars, paying, expiryVars, patchVars>>

\* Mutant: the commit loses the claims.
SweepCommitLost ==
  /\ sweeping
  /\ todo = {}
  /\ SweepEnds
  /\ UNCHANGED <<row, faultVars>>

SweepCommit ==
  /\ sweeping
  /\ todo = {}
  /\ row' = [r \in Row |-> IF r \in claimed THEN "executed" ELSE row[r]]
  /\ SweepEnds
  /\ UNCHANGED faultVars

\* The scanner dies or a statement of it fails: its claims roll back, the
\* tasks it enqueued stay.
SweepDies ==
  /\ sweeping
  /\ Fault
  /\ SweepEnds
  /\ UNCHANGED <<row, half>>

-----------------------------------------------------------------------------
(* The follow-up task.                                                     *)

Relevant(job, s) ==
  CASE job = "abandoned-cart" -> s = "CONFIRMED"
    [] job = "delivery-confirmation" -> s = "DELIVERED"
    [] OTHER -> s \in OpenStatuses

\* The relevance check against the live order, and the late-payment signal.
RunRead(r) ==
  /\ task[r] = "queued"
  /\ IF Relevant(JobOf(r), status[OrderOf(r)])
       THEN /\ task' = [task EXCEPT ![r] = "send"]
            /\ late' = [late EXCEPT ![OrderOf(r)] =
                 IF JobOf(r) \in {"unpaid-invoice-first", "unpaid-invoice-second"}
                   THEN @ + 1 ELSE @]
       ELSE task' = [task EXCEPT ![r] = "none"] /\ UNCHANGED late
  /\ UNCHANGED <<status, row, sched, sweepVars, reminders, paying, expiryVars, patchVars,
                 faultVars>>

\* The outbound row is written and published; the task id is then free.
RunSend(r) ==
  /\ task[r] = "send"
  /\ reminders' = [reminders EXCEPT ![r] = @ + 1]
  /\ task' = [task EXCEPT ![r] = "none"]
  /\ UNCHANGED <<status, row, sched, sweepVars, late, paying, expiryVars, patchVars, faultVars>>

\* The attempt fails before the outbound row is written, or after it and
\* before the task is acknowledged.
RunFails(r) ==
  /\ task[r] = "send"
  /\ Fault
  /\ task' = [task EXCEPT ![r] = "queued"]
  /\ reminders' \in {reminders, [reminders EXCEPT ![r] = @ + 1]}
  /\ UNCHANGED <<status, row, sched, sweepVars, late, paying, expiryVars, patchVars, half>>

-----------------------------------------------------------------------------
(* Payment, expiry and operators.                                          *)

\* Mutant: the provider's word for the outcome is stored as it is.
SettleVerbatim(o) ==
  /\ status[o] # "NONE"
  /\ paying[o] = "no"
  /\ \E s \in {"PAID", "failed"} : status' = [status EXCEPT ![o] = s]
  /\ paying' = [paying EXCEPT ![o] = "settled"]
  /\ UNCHANGED <<row, sched, sweepVars, runVars, expiryVars, patchVars, faultVars>>

\* The payment event settles the order: failed cancels an open order,
\* anything else marks it PAID whatever its status was.
Settle(o) ==
  /\ status[o] # "NONE"
  /\ paying[o] = "no"
  /\ \/ status' = [status EXCEPT ![o] = "PAID"]
     \/ status' = [status EXCEPT ![o] = IF @ \in OpenStatuses THEN "CANCELLED" ELSE @]
  /\ paying' = [paying EXCEPT ![o] = "settled"]
  /\ UNCHANGED <<row, sched, sweepVars, runVars, expiryVars, patchVars, faultVars>>

\* Mutant: executed rows are cancelled as well.
CancellableAny(r) == row[r] # "absent"

\* executed_at IS NULL AND cancelled_at IS NULL.
Cancellable(r) == row[r] \in {"waiting", "due"}

\* Its next statement cancels the reminders that have not been claimed; it
\* waits for rows that a scanner holds.
CancelFollowUps(o) ==
  /\ paying[o] = "settled"
  /\ claimed \cap RowsOf(o) = {}
  /\ row' = [r \in Row |-> IF OrderOf(r) = o /\ Cancellable(r) THEN "cancelled" ELSE row[r]]
  /\ paying' = [paying EXCEPT ![o] = "done"]
  /\ UNCHANGED <<status, sched, sweepVars, runVars, expiryVars, patchVars, faultVars>>

\* Mutant: the expiry query does not look at executed_at.
OverdueUnsent ==
  {o \in Order : status[o] \in OpenStatuses
                 /\ \E r \in RowsOf(o) : JobOf(r) = "unpaid-invoice-second" /\ row[r] # "absent"}

\* Mutant: only PAYMENT_PENDING orders are looked at.
OverduePending ==
  {o \in Order : status[o] = "PAYMENT_PENDING"
                 /\ \E r \in RowsOf(o) : JobOf(r) = "unpaid-invoice-second" /\ row[r] = "graced"}

\* Open orders whose final reminder was executed longer ago than the grace.
Overdue ==
  {o \in Order : status[o] \in OpenStatuses
                 /\ \E r \in RowsOf(o) : JobOf(r) = "unpaid-invoice-second" /\ row[r] = "graced"}

ExpiryScan ==
  /\ expiring = {}
  /\ Overdue # {}
  /\ expiring' = Overdue
  /\ UNCHANGED <<status, row, sched, sweepVars, runVars, paying, expired, patchVars, faultVars>>

\* Each collected order is cancelled unless it left the open statuses.
ExpiryCancel(o) ==
  /\ o \in expiring
  /\ expiring' = expiring \ {o}
  /\ IF status[o] \in OpenStatuses
       THEN /\ status' = [status EXCEPT ![o] = "CANCELLED"]
            /\ expired' = expired \cup {o}
       ELSE UNCHANGED <<status, expired>>
  /\ UNCHANGED <<row, sched, sweepVars, runVars, paying, patchVars, faultVars>>

\* PATCH /orders/{id}/fulfillment: read the order, update it, and insert a
\* delivery confirmation when the order was not DELIVERED at the read.
PatchRead(o, n) ==
  /\ status[o] # "NONE"
  /\ patchPc[<<o, n>>] = "read"
  /\ existing' = [existing EXCEPT ![<<o, n>>] = status[o]]
  /\ patchPc' = [patchPc EXCEPT ![<<o, n>>] = "update"]
  /\ UNCHANGED <<status, row, sched, sweepVars, runVars, paying, expiryVars, faultVars>>

PatchUpdate(o, n) ==
  /\ patchPc[<<o, n>>] = "update"
  /\ \E s \in PatchStatuses :
       /\ status' = [status EXCEPT ![o] = s]
       /\ patchPc' = [patchPc EXCEPT ![<<o, n>>] =
            IF s = "DELIVERED" /\ existing[<<o, n>>] # "DELIVERED" THEN "insert" ELSE "done"]
  /\ UNCHANGED <<row, sched, sweepVars, runVars, paying, expiryVars, existing, faultVars>>

PatchInsert(o, n) ==
  /\ patchPc[<<o, n>>] = "insert"
  /\ row' = [row EXCEPT ![<<o, n, "delivery-confirmation">>] = "waiting"]
  /\ patchPc' = [patchPc EXCEPT ![<<o, n>>] = "done"]
  /\ UNCHANGED <<status, sched, sweepVars, runVars, paying, expiryVars, existing, faultVars>>

-----------------------------------------------------------------------------
ScheduleStep(o, d) ==
  ScheduleCheck(o, d) \/ SchedulePair(o, d) \/ ScheduleSecond(o, d)

SweepStep == (\E r \in Row : Claim(r)) \/ SweepCommit

RunStep(r) == RunRead(r) \/ RunSend(r)

Next ==
  \/ \E o \in Order :
       \/ Create(o) \/ Settle(o) \/ CancelFollowUps(o) \/ ExpiryCancel(o)
       \/ \E d \in Delivery : Redeliver(o, d) \/ ScheduleStep(o, d) \/ ScheduleFails(o, d)
       \/ \E n \in Request : PatchRead(o, n) \/ PatchUpdate(o, n) \/ PatchInsert(o, n)
  \/ \E r \in Row : FallsDue(r) \/ GraceEnds(r) \/ ClaimRefused(r) \/ RunStep(r) \/ RunFails(r)
  \/ SweepBegin \/ SweepStep \/ SweepDies \/ ExpiryScan

Spec == Init /\ [][Next]_vars

\* Time passes, the crons run every few minutes, and the queue runs the tasks
\* it has, each again until it succeeds.  Nobody has to pay or to patch an
\* order.
FairSpec ==
  /\ Spec
  /\ WF_vars(\E r \in Row : FallsDue(r) \/ GraceEnds(r))
  /\ WF_vars(\E r \in Row : RunStep(r))
  /\ WF_vars(\E o \in Order : CancelFollowUps(o) \/ \E d \in Delivery : ScheduleStep(o, d))
  /\ WF_vars(SweepBegin \/ SweepStep)
  /\ WF_vars(ExpiryScan \/ \E o \in Order : ExpiryCancel(o))
-----------------------------------------------------------------------------
(* Properties.                                                             *)

TypeOK ==
  /\ status \in [Order -> Status \cup {"NONE"}]
  /\ row \in [Row -> RowState]
  /\ sched \in [Order \X Delivery -> {"idle", "queued", "pair", "second", "done"}]
  /\ half \subseteq Order
  /\ sweeping \in BOOLEAN
  /\ todo \subseteq Row /\ claimed \subseteq Row /\ handed \subseteq Row
  /\ task \in [Row -> {"none", "queued", "send"}]
  /\ reminders \in [Row -> Nat]
  /\ late \in [Order -> Nat]
  /\ paying \in [Order -> {"no", "settled", "done"}]
  /\ expiring \subseteq Order /\ expired \subseteq Order
  /\ existing \in [Order \X Request -> Status \cup {"NONE"}]
  /\ patchPc \in [Order \X Request -> {"read", "update", "insert", "done"}]
  /\ faults \in 0..MaxFaults
  /\ refusals \in 0..MaxRefusals

\* A row is sent a second time only because an attempt died: the claim is
\* committed before another scan can see the row (followup.go:183-186).  And
\* the customer's late payments count an order's two invoice reminders once
\* each (followup.go:116-124) as long as none did.
RemindersExplained ==
  /\ \A r \in Row : reminders[r] <= 1 + faults
  /\ faults = 0 => \A o \in Order : late[o] <= 2

\* As long as no attempt died, a reminder that a payment cancelled has
\* neither been sent nor will it be.
CancelledUnsent ==
  faults = 0 => \A r \in Row : row[r] = "cancelled" => task[r] = "none" /\ reminders[r] = 0

\* The sweep cancels orders whose final reminder fired (checkout_expiry.go
\* 1-2): the reminder was handed to the queue and its grace has passed, unless
\* the queue refused a reminder.
ExpiredAfterFinal ==
  refusals = 0 => \A o \in expired : \E r \in RowsOf(o) :
    JobOf(r) = "unpaid-invoice-second" /\ row[r] = "graced" /\ r \in handed

\* No attempt died between the two inserts and no operator touched the order.
Undisturbed(o) == o \notin half /\ \A n \in Request : patchPc[<<o, n>>] = "read"

\* Once the consumer is done with an order, all three reminders exist
\* (followup_schedule.go:39-40), unless an attempt died between its inserts
\* or a delivery confirmation was there before them.
AllThreeScheduled ==
  \A o \in Order :
    (/\ Undisturbed(o)
     /\ \E d \in Delivery : sched[<<o, d>>] = "done"
     /\ \A d \in Delivery : sched[<<o, d>>] \in {"idle", "done"})
    => \A j \in Reminder : \E d \in Delivery : row[<<o, d, j>>] # "absent"

\* An order nobody pays for does not stay open: its reminders are scheduled,
\* fire, refused by the queue or not, and the sweep cancels it, though other
\* attempts die.  Only one that dies between the two inserts, or an operator's
\* PATCH, excuses it.
UnpaidExpires ==
  \A o \in Order :
    (status[o] \in OpenStatuses)
      ~> (status[o] \notin OpenStatuses \/ ~Undisturbed(o))

\* No row is forgotten: in the end every row that was scheduled is executed
\* or cancelled, scanners that die notwithstanding.
NoRowForgotten == <>[](\A r \in Row : row[r] \notin {"waiting", "due"})
-----------------------------------------------------------------------------
(* What comments of the code claim and its steps do not keep (README.md).  *)

\* A redelivery must not double-schedule (followup_schedule.go:4-5).
NoDoubleSchedule ==
  \A o \in Order, j \in Reminder : \A d, e \in Delivery :
    row[<<o, d, j>>] # "absent" /\ row[<<o, e, j>>] # "absent" => d = e

\* Only a fresh transition into DELIVERED schedules a delivery confirmation
\* (orders_write.go:60-62): requests that only ever set DELIVERED, on an
\* order that no payment event moves away from it, schedule one.
OneDeliveryConfirmation ==
  \A o \in Order : paying[o] = "no" /\ PatchStatuses = {"DELIVERED"} =>
    \A m, n \in Request :
      row[<<o, m, "delivery-confirmation">>] # "absent"
      /\ row[<<o, n, "delivery-confirmation">>] # "absent" => m = n
=============================================================================
