------------------------------- MODULE Payouts -------------------------------
(***************************************************************************)
(* Payout requests of businesses (handlers/payouts_write.go).  A request   *)
(* reserves its amount as a PENDING payout in a transaction under the      *)
(* business's advisory lock, and then, without any lock, finds or creates  *)
(* the transfer recipient, asks Paystack for the transfer and records what *)
(* it answered.  Whatever fails on the way releases the reservation.       *)
(*                                                                         *)
(* Requests name their amount in thousandths of the currency; payments,    *)
(* payouts and transfers are in hundredths.                                *)
(***************************************************************************)
EXTENDS Integers, FiniteSets

CONSTANTS
  Business,    \* businesses
  Request,     \* POST /payouts/request calls
  BizOf,       \* BizOf[r]: the business of the caller
  Mills,       \* Mills[r]: the amount asked for, in thousandths
  Account,     \* bank accounts
  AccountOf,   \* AccountOf[r]: the account the request names
  MaxRevenue,  \* bound: hundredths paid to one business
  MaxFaults,   \* bound: lost answers, failed writes and dead processes
  NoAccount,   \* no recipient code
  NoRequest    \* nobody holds the lock

ASSUME PayoutAssumption ==
  /\ IsFiniteSet(Request)
  /\ BizOf \in [Request -> Business]
  /\ Mills \in [Request -> Nat \ {0}]
  /\ AccountOf \in [Request -> Account]
  /\ MaxRevenue \in Nat
  /\ MaxFaults \in Nat
  /\ NoAccount \notin Account
  /\ NoRequest \notin Request

VARIABLES
  revenue,    \* sum of the SUCCESS payments of a business
  recipient,  \* businesses.paystack_recipient_code, as the account behind it
  lock,       \* the request that holds the business's advisory lock
  pc,         \* next statement of a request
  known,      \* the recipient a request goes on with
  balance,    \* the balance it computed under the lock
  payout,     \* payouts.status of its payout, "none": no row
  answer,     \* what Paystack answered to its transfer
  paidTo,     \* the account its transfer went to, NoAccount: no transfer
  doubtful,   \* history: requests that failed although they transferred
  broken,     \* history: requests that ended without release
  faults      \* lost answers, failed writes and dead processes so far

requestVars == <<pc, known, balance, answer>>
historyVars == <<doubtful, broken, faults>>
vars == <<revenue, recipient, lock, pc, known, balance, payout, answer, paidTo,
          doubtful, broken, faults>>

Init ==
  /\ revenue = [b \in Business |-> 0]
  /\ recipient = [b \in Business |-> NoAccount]
  /\ lock = [b \in Business |-> NoRequest]
  /\ pc = [r \in Request |-> "idle"]
  /\ known = [r \in Request |-> NoAccount]
  /\ balance = [r \in Request |-> 0]
  /\ payout = [r \in Request |-> "none"]
  /\ answer = [r \in Request |-> "none"]
  /\ paidTo = [r \in Request |-> NoAccount]
  /\ doubtful = {}
  /\ broken = {}
  /\ faults = 0

RequestsOf(b) == {r \in Request : BizOf[r] = b}

\* Rounding half up, both of NUMERIC(14,2) and of ToMinorUnits.
Cents(mills) == (mills + 5) \div 10

\* The hundredths of the requests S, one by one, and their number.
Coins(S) == UNION {{r} \X (1..Cents(Mills[r])) : r \in S}
Total(S) == Cardinality(Coins(S))

Goes(r, next) == pc' = [pc EXCEPT ![r] = next]

Fault ==
  /\ faults < MaxFaults
  /\ faults' = faults + 1

-----------------------------------------------------------------------------
(* Phase 1: the reservation.                                               *)

\* A payment of the business is recorded as SUCCESS, for good.
PaymentRecorded(b) ==
  /\ revenue[b] < MaxRevenue
  /\ revenue' = [revenue EXCEPT ![b] = @ + 1]
  /\ UNCHANGED <<recipient, lock, requestVars, payout, paidTo, historyVars>>

\* The handler reads the business with its cached recipient.
LoadBusiness(r) ==
  /\ pc[r] = "idle"
  /\ known' = [known EXCEPT ![r] = recipient[BizOf[r]]]
  /\ Goes(r, "lock")
  /\ UNCHANGED <<revenue, recipient, lock, balance, payout, answer, paidTo, historyVars>>

Committed(b) == {r \in RequestsOf(b) : payout[r] \in {"PENDING", "SUCCESS"}}

\* Revenue less committed payouts, floored at zero.
Available(b) ==
  LET left == revenue[b] - Total(Committed(b)) IN IF left < 0 THEN 0 ELSE left

\* Mutant: the balance is read without waiting for the advisory lock.
ReadBalanceUnlocked(r) ==
  /\ pc[r] = "lock"
  /\ lock' = [lock EXCEPT ![BizOf[r]] = r]
  /\ balance' = [balance EXCEPT ![r] = Available(BizOf[r])]
  /\ Goes(r, "reserve")
  /\ UNCHANGED <<revenue, recipient, known, payout, answer, paidTo, historyVars>>

\* The transaction takes the lock and reads the balance.
ReadBalance(r) ==
  /\ pc[r] = "lock"
  /\ lock[BizOf[r]] = NoRequest
  /\ lock' = [lock EXCEPT ![BizOf[r]] = r]
  /\ balance' = [balance EXCEPT ![r] = Available(BizOf[r])]
  /\ Goes(r, "reserve")
  /\ UNCHANGED <<revenue, recipient, known, payout, answer, paidTo, historyVars>>

\* The amount may exceed the balance by wo_moneyEpsilon, one thousandth.
Covered(r) == Mills[r] <= 10 * balance[r] + 1

\* The reservation is inserted and committed, or refused; the end of the
\* transaction releases the lock.
Reserve(r) ==
  /\ pc[r] = "reserve"
  /\ IF Covered(r)
       THEN /\ payout' = [payout EXCEPT ![r] = "PENDING"]
            /\ Goes(r, IF known[r] = NoAccount THEN "recipient" ELSE "transfer")
       ELSE Goes(r, "done") /\ UNCHANGED payout
  /\ lock' = [lock EXCEPT ![BizOf[r]] = NoRequest]
  /\ UNCHANGED <<revenue, recipient, known, balance, answer, paidTo, historyVars>>

-----------------------------------------------------------------------------
(* Phase 2: recipient, transfer and result.                                *)

\* Paystack creates the recipient the request describes, or refuses.
CreateRecipient(r) ==
  /\ pc[r] = "recipient"
  /\ \/ known' = [known EXCEPT ![r] = AccountOf[r]] /\ Goes(r, "cache")
     \/ Goes(r, "release") /\ UNCHANGED known
  /\ UNCHANGED <<revenue, recipient, lock, balance, payout, answer, paidTo, historyVars>>

\* Mutant: the update is not restricted to the business.
CacheRecipientAll(r) ==
  /\ pc[r] = "cache"
  /\ recipient' = [b \in Business |-> known[r]]
  /\ Goes(r, "transfer")
  /\ UNCHANGED <<revenue, lock, known, balance, payout, answer, paidTo, historyVars>>

\* The recipient code is kept with the business, whoever wrote one meanwhile.
CacheRecipient(r) ==
  /\ pc[r] = "cache"
  /\ recipient' = [recipient EXCEPT ![BizOf[r]] = known[r]]
  /\ Goes(r, "transfer")
  /\ UNCHANGED <<revenue, lock, known, balance, payout, answer, paidTo, historyVars>>

CacheFails(r) ==
  /\ pc[r] = "cache"
  /\ Fault
  /\ Goes(r, "release")
  /\ UNCHANGED <<revenue, recipient, lock, known, balance, payout, answer, paidTo,
                 doubtful, broken>>

\* Paystack makes the transfer, at once or later ("pending"), or answers with
\* another data.status, such as otp, failed or reversed, and makes none.
InitiateTransfer(r) ==
  /\ pc[r] = "transfer"
  /\ \/ /\ \E a \in {"success", "pending"} : answer' = [answer EXCEPT ![r] = a]
        /\ paidTo' = [paidTo EXCEPT ![r] = known[r]]
     \/ /\ answer' = [answer EXCEPT ![r] = "other"]
        /\ UNCHANGED paidTo
  /\ Goes(r, "complete")
  /\ UNCHANGED <<revenue, recipient, lock, known, balance, payout, historyVars>>

TransferRejected(r) ==
  /\ pc[r] = "transfer"
  /\ Goes(r, "release")
  /\ UNCHANGED <<revenue, recipient, lock, known, balance, payout, answer, paidTo,
                 historyVars>>

\* The transfer is made and its answer does not arrive (30 s timeout).
AnswerLost(r) ==
  /\ pc[r] = "transfer"
  /\ Fault
  /\ paidTo' = [paidTo EXCEPT ![r] = known[r]]
  /\ doubtful' = doubtful \cup {r}
  /\ Goes(r, "release")
  /\ UNCHANGED <<revenue, recipient, lock, known, balance, payout, answer, broken>>

\* Mutants: the provider's word is stored as it is, or a transfer that is
\* still pending counts as failed.
ResultRaw(r) == answer[r]
ResultFailed(r) == IF answer[r] = "success" THEN "SUCCESS" ELSE "FAILED"

\* The final status of the payout: whatever is not "success" is PENDING.
Result(r) == IF answer[r] = "success" THEN "SUCCESS" ELSE "PENDING"

CompletePayout(r) ==
  /\ pc[r] = "complete"
  /\ payout' = [payout EXCEPT ![r] = Result(r)]
  /\ Goes(r, "done")
  /\ UNCHANGED <<revenue, recipient, lock, known, balance, answer, paidTo, historyVars>>

\* The update reports an error, before or after it took effect; the request
\* counts as failed although its transfer may have been accepted.
CompleteFails(r) ==
  /\ pc[r] = "complete"
  /\ Fault
  /\ payout' \in {payout, [payout EXCEPT ![r] = Result(r)]}
  /\ doubtful' = IF paidTo[r] = NoAccount THEN doubtful ELSE doubtful \cup {r}
  /\ Goes(r, "release")
  /\ UNCHANGED <<revenue, recipient, lock, known, balance, answer, paidTo, broken>>

\* Mutant: a failed reservation is not released.
ReleaseNot(r) ==
  /\ pc[r] = "release"
  /\ Goes(r, "done")
  /\ UNCHANGED <<revenue, recipient, lock, known, balance, payout, answer, paidTo, historyVars>>

\* MarkPayoutFailed gives the reserved amount back to the balance.
Release(r) ==
  /\ pc[r] = "release"
  /\ payout' = [payout EXCEPT ![r] = "FAILED"]
  /\ Goes(r, "done")
  /\ UNCHANGED <<revenue, recipient, lock, known, balance, answer, paidTo, historyVars>>

\* The update fails, for instance because the client is gone and with it the
\* request's context: logged only.
ReleaseFails(r) ==
  /\ pc[r] = "release"
  /\ Fault
  /\ broken' = broken \cup {r}
  /\ Goes(r, "done")
  /\ UNCHANGED <<revenue, recipient, lock, known, balance, payout, answer, paidTo, doubtful>>

\* The process dies; the database ends its transaction.
Crash(r) ==
  /\ pc[r] \notin {"idle", "done"}
  /\ Fault
  /\ broken' = broken \cup {r}
  /\ lock' = [lock EXCEPT ![BizOf[r]] = IF @ = r THEN NoRequest ELSE @]
  /\ Goes(r, "done")
  /\ UNCHANGED <<revenue, recipient, known, balance, payout, answer, paidTo, doubtful>>

-----------------------------------------------------------------------------
Handle(r) ==
  \/ LoadBusiness(r) \/ Reserve(r) \/ CreateRecipient(r) \/ CacheRecipient(r)
  \/ InitiateTransfer(r) \/ TransferRejected(r) \/ CompletePayout(r) \/ Release(r)

Failure(r) ==
  CacheFails(r) \/ AnswerLost(r) \/ CompleteFails(r) \/ ReleaseFails(r) \/ Crash(r)

Next ==
  \/ \E b \in Business : PaymentRecorded(b)
  \/ \E r \in Request : Handle(r) \/ ReadBalance(r) \/ Failure(r)

Spec == Init /\ [][Next]_vars
-----------------------------------------------------------------------------
(* Properties.                                                             *)

TypeOK ==
  /\ revenue \in [Business -> Nat]
  /\ recipient \in [Business -> Account \cup {NoAccount}]
  /\ lock \in [Business -> Request \cup {NoRequest}]
  /\ pc \in [Request -> {"idle", "lock", "reserve", "recipient", "cache", "transfer",
                         "complete", "release", "done"}]
  /\ known \in [Request -> Account \cup {NoAccount}]
  /\ balance \in [Request -> Nat]
  /\ payout \in [Request -> {"none", "PENDING", "SUCCESS", "FAILED"}]
  /\ answer \in [Request -> {"none", "success", "pending", "other"}]
  /\ paidTo \in [Request -> Account \cup {NoAccount}]
  /\ doubtful \subseteq Request
  /\ broken \subseteq Request
  /\ faults \in Nat

\* Concurrent requests never reserve more than the business was paid, though
\* each may exceed the balance by the epsilon: rounding to hundredths takes
\* the excess away (payouts_write.go:242-291).
NeverOverdrawn == \A b \in Business : Total(Committed(b)) <= revenue[b]

Moved(b) == {r \in RequestsOf(b) : paidTo[r] # NoAccount}

\* The money that left exceeds what the business was paid by no more than the
\* transfers whose success the handler could not know: nothing else gives back
\* a reservation that was transferred (payouts_write.go:111-118).
MoneyOutCovered ==
  \A b \in Business :
    Total(Moved(b)) <= revenue[b] + Total(doubtful \cap RequestsOf(b))

\* A payout shown as SUCCESS was transferred, even if its request died later
\* or its update reported an error; and a request that is over leaves its
\* money reserved only for a transfer, for an answer that was no transfer, or
\* because it died or its release failed (payouts_write.go:109-130, 336-345).
ReservationsExplained ==
  \A r \in Request :
    /\ payout[r] = "SUCCESS" => paidTo[r] # NoAccount
    /\ pc[r] = "done" /\ payout[r] = "PENDING" =>
         paidTo[r] # NoAccount \/ answer[r] = "other" \/ r \in broken

\* A transfer goes to an account that a request of the same business named,
\* cached recipients notwithstanding.
PaidWithinBusiness ==
  \A r \in Request : paidTo[r] # NoAccount =>
    \E q \in RequestsOf(BizOf[r]) : paidTo[r] = AccountOf[q]
-----------------------------------------------------------------------------
(* What a caller may expect and the steps do not keep (README.md).         *)

\* A failed transfer releases the funds (apidocs/spec.go:324,
\* payouts_write.go:77-78): no payout stays PENDING without a transfer, short
\* of a death or a failed release.
NoReservationStuck ==
  \A r \in Request \ broken :
    pc[r] = "done" /\ payout[r] = "PENDING" => paidTo[r] # NoAccount

\* The money goes to the account the request names (its body has the account,
\* apidocs/schemas.go:159-164); the code pays the recipient cached first.
PaidAsAsked == \A r \in Request : paidTo[r] \in {NoAccount, AccountOf[r]}
=============================================================================
