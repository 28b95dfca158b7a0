---------------------------- MODULE PayoutsProofs ----------------------------
(***************************************************************************)
(* Proofs about Payouts, for any businesses, requests, amounts, accounts   *)
(* and any number of faults.                                               *)
(***************************************************************************)
EXTENDS Payouts, FiniteSetTheorems, TLAPS

-----------------------------------------------------------------------------
(* Sums of amounts.  Total counts the hundredths of a set of requests as    *)
(* distinct coins, so that the facts about cardinality of the library apply. *)

LEMMA CentsType == \A r \in Request : Mills[r] \in Nat /\ Cents(Mills[r]) \in Nat
<1>1. ASSUME NEW r \in Request PROVE Mills[r] \in Nat /\ Cents(Mills[r]) \in Nat
  BY PayoutAssumption DEF Cents
<1>2. QED
  BY <1>1

\* The coins of one request are as many as its amount in hundredths.
LEMMA OwnCoins ==
  ASSUME NEW r \in Request
  PROVE  /\ IsFiniteSet({r} \X (1..Cents(Mills[r])))
         /\ Cardinality({r} \X (1..Cents(Mills[r]))) = Cents(Mills[r])
<1> DEFINE c == Cents(Mills[r])
<1>1. c \in Nat
  BY CentsType
<1>2. IsFiniteSet(1..c) /\ Cardinality(1..c) = c
  <2> HIDE DEF c
  <2>1. IsFiniteSet(1..c) /\ Cardinality(1..c) = IF 1 > c THEN 0 ELSE c - 1 + 1
    BY <1>1, FS_Interval
  <2>2. QED
    BY <1>1, <2>1
<1>3. IsFiniteSet({r}) /\ Cardinality({r}) = 1
  BY FS_Singleton
<1>4. QED
  <2> HIDE DEF c
  <2>1. IsFiniteSet({r} \X (1..c)) /\ Cardinality({r} \X (1..c)) = 1 * c
    BY <1>2, <1>3, FS_Product
  <2>2. QED
    BY <1>1, <2>1 DEF c

LEMMA CoinsFinite ==
  ASSUME NEW S \in SUBSET Request
  PROVE  IsFiniteSet(Coins(S))
<1> DEFINE Own == [r \in S |-> {r} \X (1..Cents(Mills[r]))]
           Family == {{r} \X (1..Cents(Mills[r])) : r \in S}
<1>1. IsFiniteSet(S)
  BY PayoutAssumption, FS_Subset
<1>2. Own \in Surjection(S, Family)
  BY DEF Surjection
<1>3. IsFiniteSet(Family)
  <2> HIDE DEF Own, Family
  <2>1. QED
    BY <1>1, <1>2, FS_Surjection
<1>4. \A T \in Family : IsFiniteSet(T)
  BY OwnCoins
<1>5. IsFiniteSet(UNION Family)
  <2> HIDE DEF Family
  <2>1. QED
    BY <1>3, <1>4, FS_UNION
<1>6. QED
  BY <1>5 DEF Coins

LEMMA TotalType == \A S \in SUBSET Request : Total(S) \in Nat
BY CoinsFinite, FS_CardinalityType DEF Total

\* Fewer requests, no larger sum.
LEMMA TotalMonotone ==
  ASSUME NEW S \in SUBSET Request, NEW T \in SUBSET S
  PROVE  Total(T) <= Total(S)
<1>1. Coins(T) \subseteq Coins(S)
  BY DEF Coins
<1>2. QED
  BY <1>1, CoinsFinite, FS_Subset DEF Total

LEMMA TotalUnion ==
  ASSUME NEW S \in SUBSET Request, NEW T \in SUBSET Request
  PROVE  Total(S \cup T) <= Total(S) + Total(T)
<1>1. Coins(S \cup T) = Coins(S) \cup Coins(T)
  BY DEF Coins
<1>2. /\ IsFiniteSet(Coins(S)) /\ IsFiniteSet(Coins(T))
      /\ IsFiniteSet(Coins(S) \cap Coins(T))
  BY CoinsFinite, FS_Subset
<1>3. /\ Cardinality(Coins(S) \cup Coins(T)) =
             Cardinality(Coins(S)) + Cardinality(Coins(T)) - Cardinality(Coins(S) \cap Coins(T))
      /\ Cardinality(Coins(S)) \in Nat
      /\ Cardinality(Coins(T)) \in Nat
      /\ Cardinality(Coins(S) \cap Coins(T)) \in Nat
  BY <1>2, FS_Union, FS_CardinalityType
<1>4. Cardinality(Coins(S) \cup Coins(T)) <= Cardinality(Coins(S)) + Cardinality(Coins(T))
  BY <1>3
<1>5. QED
  BY <1>1, <1>4 DEF Total

\* One more reservation adds its amount, and no more.
LEMMA TotalAdd ==
  ASSUME NEW S \in SUBSET Request, NEW r \in Request
  PROVE  Total(S \cup {r}) <= Total(S) + Cents(Mills[r])
<1>1. Total(S \cup {r}) <= Total(S) + Total({r})
  BY TotalUnion
<1>2. Coins({r}) = {r} \X (1..Cents(Mills[r]))
  BY DEF Coins
<1>3. Total({r}) = Cents(Mills[r])
  BY <1>2, OwnCoins DEF Total
<1>4. QED
  BY <1>1, <1>3

\* The epsilon of the check is lost in the rounding to hundredths.
LEMMA CoveredCents ==
  ASSUME NEW r \in Request, balance[r] \in Nat, Covered(r)
  PROVE  Cents(Mills[r]) <= balance[r]
<1>1. ASSUME NEW m \in Nat, NEW b \in Nat, m <= 10 * b + 1
      PROVE  (m + 5) \div 10 <= b
  BY <1>1
<1>2. QED
  BY <1>1, CentsType DEF Covered, Cents

LEMMA CommittedRequests ==
  \A b \in Business : Committed(b) \in SUBSET Request /\ RequestsOf(b) \in SUBSET Request
BY DEF Committed, RequestsOf

LEMMA AvailableType ==
  ASSUME TypeOK, NEW b \in Business
  PROVE  /\ Available(b) \in Nat
         /\ Available(b) = 0 \/ Available(b) + Total(Committed(b)) <= revenue[b]
<1>1. Total(Committed(b)) \in Nat /\ revenue[b] \in Nat
  BY TotalType, CommittedRequests DEF TypeOK
<1>2. QED
  BY <1>1 DEF Available

-----------------------------------------------------------------------------
(* The recipients and the reservations.                                    *)

\* Account a was named by a request of business b.
Named(b, a) == \E q \in RequestsOf(b) : a = AccountOf[q]

\* What a request has at hand at each of its statements.
AtHand ==
  \A r \in Request :
    /\ pc[r] \in {"idle", "lock", "reserve"} => payout[r] = "none"
    /\ pc[r] \in {"cache", "transfer"} => known[r] # NoAccount
    /\ pc[r] = "complete" => paidTo[r] # NoAccount \/ answer[r] = "other"
    /\ payout[r] = "SUCCESS" \/ answer[r] = "success" => paidTo[r] # NoAccount

\* Recipients, cached or in use, are those of the business.
RecipientsNamed ==
  /\ \A b \in Business : recipient[b] # NoAccount => Named(b, recipient[b])
  /\ \A r \in Request : known[r] # NoAccount => Named(BizOf[r], known[r])

Inv == TypeOK /\ AtHand /\ RecipientsNamed /\ ReservationsExplained /\ PaidWithinBusiness

\* A request names its own account.
LEMMA OwnAccount == \A r \in Request : Named(BizOf[r], AccountOf[r])
BY DEF Named, RequestsOf

LEMMA AccountReal == \A r \in Request : AccountOf[r] \in Account /\ AccountOf[r] # NoAccount
BY PayoutAssumption

LEMMA InitInv == Init => Inv
BY PayoutAssumption
   DEF Init, Inv, TypeOK, AtHand, RecipientsNamed, ReservationsExplained, PaidWithinBusiness

\* The reservation phase: no transfer has been made yet.
LEMMA ReservationPhase ==
  ASSUME Inv, NEW r \in Request, LoadBusiness(r) \/ ReadBalance(r) \/ Reserve(r)
  PROVE  Inv'
<1> USE DEF Inv, TypeOK, AtHand, RecipientsNamed, ReservationsExplained, PaidWithinBusiness,
            Goes, historyVars, Named
<1>0. BizOf[r] \in Business
  BY PayoutAssumption
<1>1. CASE LoadBusiness(r)
  BY <1>0, <1>1 DEF LoadBusiness
<1>2. CASE ReadBalance(r)
  <2>1. Available(BizOf[r]) \in Nat
    BY <1>0, AvailableType
  <2>2. QED
    BY <1>0, <1>2, <2>1 DEF ReadBalance
<1>3. CASE Reserve(r)
  BY <1>0, <1>3, PayoutAssumption DEF Reserve
<1>4. QED
  BY <1>1, <1>2, <1>3

\* The recipient: created from the request's own account, or cached.
LEMMA RecipientPhase ==
  ASSUME Inv, NEW r \in Request, CreateRecipient(r) \/ CacheRecipient(r) \/ CacheFails(r)
  PROVE  Inv'
<1> USE DEF Inv, TypeOK, AtHand, RecipientsNamed, ReservationsExplained, PaidWithinBusiness,
            Goes, historyVars
<1>0. BizOf[r] \in Business
  BY PayoutAssumption
<1>1. CASE CreateRecipient(r)
  BY <1>1, OwnAccount, AccountReal DEF CreateRecipient
<1>2. CASE CacheRecipient(r)
  BY <1>0, <1>2 DEF CacheRecipient
<1>3. CASE CacheFails(r)
  BY <1>3 DEF CacheFails, Fault
<1>4. QED
  BY <1>1, <1>2, <1>3

\* The transfer goes to the recipient at hand.
LEMMA TransferPhase ==
  ASSUME Inv, NEW r \in Request,
         InitiateTransfer(r) \/ TransferRejected(r) \/ AnswerLost(r)
  PROVE  Inv'
<1> USE DEF Inv, TypeOK, AtHand, RecipientsNamed, ReservationsExplained, PaidWithinBusiness,
            Goes, historyVars, Named
<1>1. CASE InitiateTransfer(r)
  BY <1>1 DEF InitiateTransfer
<1>2. CASE TransferRejected(r)
  BY <1>2 DEF TransferRejected
<1>3. CASE AnswerLost(r)
  BY <1>3 DEF AnswerLost, Fault
<1>4. QED
  BY <1>1, <1>2, <1>3

\* The end of a request, in order or not.
LEMMA EndPhase ==
  ASSUME Inv, NEW r \in Request,
         CompletePayout(r) \/ CompleteFails(r) \/ Release(r) \/ ReleaseFails(r) \/ Crash(r)
  PROVE  Inv'
<1> USE DEF Inv, TypeOK, AtHand, RecipientsNamed, ReservationsExplained, PaidWithinBusiness,
            Goes, historyVars
<1>0. BizOf[r] \in Business
  BY PayoutAssumption
<1>1. CASE CompletePayout(r)
  BY <1>1 DEF CompletePayout, Result
<1>2. CASE CompleteFails(r)
  BY <1>2 DEF CompleteFails, Fault, Result
<1>3. CASE Release(r)
  BY <1>3 DEF Release
<1>4. CASE ReleaseFails(r)
  BY <1>4 DEF ReleaseFails, Fault
<1>5. CASE Crash(r)
  BY <1>0, <1>5 DEF Crash, Fault
<1>6. QED
  BY <1>1, <1>2, <1>3, <1>4, <1>5

LEMMA NextInv == Inv /\ [Next]_vars => Inv'
<1> SUFFICES ASSUME Inv, [Next]_vars PROVE Inv'
  OBVIOUS
<1>1. CASE \E b \in Business : PaymentRecorded(b)
  BY <1>1 DEF PaymentRecorded, Inv, TypeOK, AtHand, RecipientsNamed, ReservationsExplained,
              PaidWithinBusiness, requestVars, historyVars
<1>2. CASE \E r \in Request : Handle(r) \/ ReadBalance(r) \/ Failure(r)
  BY <1>2, ReservationPhase, RecipientPhase, TransferPhase, EndPhase DEF Handle, Failure
<1>3. CASE UNCHANGED vars
  BY <1>3 DEF vars, Inv, TypeOK, AtHand, RecipientsNamed, ReservationsExplained,
              PaidWithinBusiness
<1>4. QED
  BY <1>1, <1>2, <1>3 DEF Next

LEMMA Invariant == Spec => []Inv
BY InitInv, NextInv, PTL DEF Spec

\* For any requests, amounts and faults, a payout shown as SUCCESS was
\* transferred, and a finished request leaves its money reserved only for a
\* transfer, for an answer of Paystack that was none, or because its process
\* died or its release failed (payouts_write.go:109-130, 336-345).
THEOREM ReservationsAccounted == Spec => []ReservationsExplained
<1>1. Inv => ReservationsExplained
  BY DEF Inv
<1>2. QED
  BY <1>1, Invariant, PTL

\* However requests of several businesses interleave, a transfer goes to an
\* account of the business that asked for it.
THEOREM TransfersStayHome == Spec => []PaidWithinBusiness
<1>1. Inv => PaidWithinBusiness
  BY DEF Inv
<1>2. QED
  BY <1>1, Invariant, PTL

-----------------------------------------------------------------------------
(* The money.                                                              *)

\* A request about to reserve holds its business's lock.
LockHeld == \A r \in Request : pc[r] = "reserve" => lock[BizOf[r]] = r

\* A request past its reservation still holds it, and money has left only
\* where the reservation is held or the request is doubtful.
Backed ==
  \A r \in Request :
    /\ pc[r] \in {"recipient", "cache", "transfer", "complete", "release"} =>
         payout[r] \in {"PENDING", "SUCCESS"}
    /\ pc[r] \in {"idle", "lock", "reserve", "recipient", "cache", "transfer"} =>
         paidTo[r] = NoAccount
    /\ pc[r] = "release" /\ paidTo[r] # NoAccount => r \in doubtful
    /\ paidTo[r] # NoAccount => payout[r] \in {"PENDING", "SUCCESS"} \/ r \in doubtful

\* The balance read under the lock is still covered when it is used.
BalanceStands ==
  \A r \in Request : pc[r] = "reserve" =>
    \/ balance[r] = 0
    \/ balance[r] + Total(Committed(BizOf[r])) <= revenue[BizOf[r]]

MoneyInv == LockHeld /\ Backed /\ BalanceStands /\ NeverOverdrawn

LEMMA InitMoney == Init => MoneyInv
<1> SUFFICES ASSUME Init PROVE MoneyInv
  OBVIOUS
<1>1. LockHeld /\ Backed /\ BalanceStands
  BY DEF Init, LockHeld, Backed, BalanceStands
<1>2. \A b \in Business : Committed(b) = {}
  BY DEF Init, Committed, RequestsOf
<1>3. Total({}) = 0
  BY FS_EmptySet DEF Total, Coins
<1>4. NeverOverdrawn
  BY <1>2, <1>3 DEF Init, NeverOverdrawn
<1>5. QED
  BY <1>1, <1>4 DEF MoneyInv

\* A step that reserves nothing new and takes no revenue away keeps every
\* business covered; requests in the reservation phase keep their balance.
LEMMA NothingReserved ==
  ASSUME TypeOK, TypeOK', MoneyInv,
         \A b \in Business : Committed(b)' \subseteq Committed(b) /\ revenue'[b] >= revenue[b],
         \A r \in Request : pc'[r] = "reserve" => pc[r] = "reserve" /\ balance'[r] = balance[r]
  PROVE  BalanceStands' /\ NeverOverdrawn'
<1>1. \A b \in Business : Total(Committed(b)') <= Total(Committed(b))
  BY TotalMonotone, CommittedRequests
<1>2. \A b \in Business : Committed(b)' \in SUBSET Request
  BY CommittedRequests
<1>3. \A b \in Business :
        /\ Total(Committed(b)') \in Nat /\ Total(Committed(b)) \in Nat
        /\ revenue[b] \in Nat /\ revenue'[b] \in Nat
  BY <1>2, TotalType, CommittedRequests DEF TypeOK
<1>4. \A b \in Business : Total(Committed(b))' = Total(Committed(b)')
  BY DEF Total, Coins
<1>5. NeverOverdrawn'
  <2>1. ASSUME NEW b \in Business PROVE Total(Committed(b))' <= revenue'[b]
    <3>1. Total(Committed(b)) <= revenue[b] /\ revenue'[b] >= revenue[b]
      BY DEF MoneyInv, NeverOverdrawn
    <3>2. QED
      BY <1>1, <1>3, <1>4, <3>1
  <2>2. QED
    BY <2>1 DEF NeverOverdrawn
<1>6. BalanceStands'
  <2>1. ASSUME NEW r \in Request, pc'[r] = "reserve", balance'[r] # 0
        PROVE  balance'[r] + Total(Committed(BizOf[r]))' <= revenue'[BizOf[r]]
    <3>1. BizOf[r] \in Business /\ balance[r] \in Nat
      BY PayoutAssumption DEF TypeOK
    <3>2. balance'[r] = balance[r] /\ revenue'[BizOf[r]] >= revenue[BizOf[r]]
      BY <2>1, <3>1
    <3>3. balance[r] + Total(Committed(BizOf[r])) <= revenue[BizOf[r]]
      BY <2>1, <3>2 DEF MoneyInv, BalanceStands
    <3>4. QED
      BY <1>1, <1>3, <1>4, <3>1, <3>2, <3>3
  <2>2. QED
    BY <2>1 DEF BalanceStands
<1>7. QED
  BY <1>5, <1>6

\* The steps of request r by what they do to its place and its reservation.
LEMMA LockStep ==
  ASSUME TypeOK, LockHeld, [Next]_vars
  PROVE  LockHeld'
<1> USE DEF TypeOK, LockHeld, Goes
<1>1. CASE \E b \in Business : PaymentRecorded(b)
  BY <1>1 DEF PaymentRecorded, requestVars
<1>2. ASSUME NEW r \in Request, Handle(r) \/ ReadBalance(r) \/ Failure(r)
      PROVE  LockHeld'
  <2>0. BizOf \in [Request -> Business] /\ BizOf[r] \in Business /\ NoRequest \notin Request
    BY PayoutAssumption
  <2>1. CASE ReadBalance(r)
    BY <2>0, <2>1 DEF ReadBalance
  <2>2. CASE Reserve(r)
    BY <2>0, <2>2 DEF Reserve
  <2>3. CASE Crash(r)
    BY <2>0, <2>3 DEF Crash
  <2>4. CASE lock' = lock /\ \A q \in Request : pc'[q] = "reserve" => pc[q] = "reserve"
    BY <2>4
  <2>5. ASSUME LoadBusiness(r) \/ CreateRecipient(r) \/ CacheRecipient(r) \/ CacheFails(r)
               \/ InitiateTransfer(r) \/ TransferRejected(r) \/ AnswerLost(r)
               \/ CompletePayout(r) \/ CompleteFails(r) \/ Release(r) \/ ReleaseFails(r)
        PROVE  lock' = lock /\ \A q \in Request : pc'[q] = "reserve" => pc[q] = "reserve"
    BY <2>5 DEF LoadBusiness, CreateRecipient, CacheRecipient, CacheFails, InitiateTransfer,
                TransferRejected, AnswerLost, CompletePayout, CompleteFails, Release,
                ReleaseFails
  <2>6. QED
    BY <1>2, <2>1, <2>2, <2>3, <2>4, <2>5 DEF Handle, Failure
<1>3. CASE UNCHANGED vars
  BY <1>3 DEF vars
<1>4. QED
  BY <1>1, <1>2, <1>3 DEF Next

\* Every step keeps the transfers backed.
LEMMA BackedStep ==
  ASSUME TypeOK, AtHand, Backed, [Next]_vars
  PROVE  Backed'
<1> USE DEF TypeOK, AtHand, Backed, Goes, historyVars
<1>1. CASE \E b \in Business : PaymentRecorded(b)
  BY <1>1 DEF PaymentRecorded, requestVars
<1>2. ASSUME NEW r \in Request, Handle(r) \/ ReadBalance(r) \/ Failure(r)
      PROVE  Backed'
  <2>1. CASE LoadBusiness(r)
    BY <2>1 DEF LoadBusiness
  <2>2. CASE ReadBalance(r)
    BY <2>2 DEF ReadBalance
  <2>3. CASE Reserve(r)
    BY <2>3 DEF Reserve
  <2>4. CASE CreateRecipient(r)
    BY <2>4 DEF CreateRecipient
  <2>5. CASE CacheRecipient(r) \/ CacheFails(r)
    BY <2>5 DEF CacheRecipient, CacheFails
  <2>6. CASE InitiateTransfer(r)
    BY <2>6 DEF InitiateTransfer
  <2>7. CASE TransferRejected(r)
    BY <2>7 DEF TransferRejected
  <2>8. CASE AnswerLost(r)
    BY <2>8 DEF AnswerLost
  <2>9. CASE CompletePayout(r)
    BY <2>9 DEF CompletePayout, Result
  <2>10. CASE CompleteFails(r)
    BY <2>10 DEF CompleteFails, Result
  <2>11. CASE Release(r)
    BY <2>11 DEF Release
  <2>12. CASE ReleaseFails(r) \/ Crash(r)
    BY <2>12 DEF ReleaseFails, Crash
  <2>13. QED
    BY <1>2, <2>1, <2>2, <2>3, <2>4, <2>5, <2>6, <2>7, <2>8, <2>9, <2>10, <2>11, <2>12
       DEF Handle, Failure
<1>3. CASE UNCHANGED vars
  BY <1>3 DEF vars
<1>4. QED
  BY <1>1, <1>2, <1>3 DEF Next

\* The balance is read under the lock: it is revenue less commitments.
LEMMA ReadStep ==
  ASSUME TypeOK, MoneyInv, NEW r \in Request, ReadBalance(r)
  PROVE  BalanceStands' /\ NeverOverdrawn'
<1>1. BizOf[r] \in Business
  BY PayoutAssumption
<1>2. revenue' = revenue /\ payout' = payout
  BY DEF ReadBalance
<1>3. \A b \in Business : Total(Committed(b))' = Total(Committed(b))
  BY <1>2 DEF Total, Coins, Committed, RequestsOf
<1>4. NeverOverdrawn'
  BY <1>2, <1>3 DEF NeverOverdrawn, MoneyInv
<1>5. ASSUME NEW q \in Request, pc'[q] = "reserve"
      PROVE  \/ balance'[q] = 0
             \/ balance'[q] + Total(Committed(BizOf[q])) <= revenue[BizOf[q]]
  <2>1. CASE q = r
    <3>1. balance'[r] = Available(BizOf[r])
      BY DEF ReadBalance, TypeOK
    <3>2. QED
      BY <1>1, <2>1, <3>1, AvailableType
  <2>2. CASE q # r
    <3>1. pc[q] = "reserve" /\ balance'[q] = balance[q]
      BY <1>5, <2>2 DEF ReadBalance, TypeOK, Goes
    <3>2. QED
      BY <3>1 DEF MoneyInv, BalanceStands
  <2>3. QED
    BY <2>1, <2>2
<1>6. \A q \in Request : BizOf[q] \in Business
  BY PayoutAssumption
<1>7. BalanceStands'
  BY <1>2, <1>3, <1>5, <1>6 DEF BalanceStands
<1>8. QED
  BY <1>4, <1>7

\* Under the lock the balance still stands, so the reservation it covers
\* leaves the business covered.
LEMMA ReserveStep ==
  ASSUME TypeOK, TypeOK', MoneyInv, NEW r \in Request, Reserve(r)
  PROVE  BalanceStands' /\ NeverOverdrawn'
<1> DEFINE b == BizOf[r]
<1>1. b \in Business
  BY PayoutAssumption
<1>2. revenue' = revenue /\ balance' = balance /\ pc[r] = "reserve"
  BY DEF Reserve
<1>3. \A q \in Request : q # r => payout'[q] = payout[q] /\ pc'[q] = pc[q]
  BY DEF Reserve, Goes, TypeOK
<1>4. \A c \in Business : c # b => Committed(c)' = Committed(c)
  BY <1>3 DEF Committed, RequestsOf
<1>5. \A c \in Business : c # b => Total(Committed(c))' = Total(Committed(c))
  BY <1>4 DEF Total, Coins
<1>6. Total(Committed(b))' <= revenue[b]
  <2>0. /\ Total(Committed(b)) \in Nat /\ revenue[b] \in Nat /\ balance[r] \in Nat
        /\ Total(Committed(b)) <= revenue[b] /\ Cents(Mills[r]) \in Nat
    BY <1>1, TotalType, CommittedRequests, CentsType DEF TypeOK, MoneyInv, NeverOverdrawn
  <2>1. CASE Covered(r)
    <3>1. Committed(b)' \subseteq Committed(b) \cup {r}
      BY <1>3 DEF Committed, RequestsOf
    <3>2. Committed(b) \cup {r} \in SUBSET Request
      BY <1>1, CommittedRequests
    <3>3. Total(Committed(b)') <= Total(Committed(b) \cup {r})
      BY <3>1, <3>2, TotalMonotone
    <3>4. Total(Committed(b) \cup {r}) <= Total(Committed(b)) + Cents(Mills[r])
      BY <1>1, CommittedRequests, TotalAdd
    <3>5. Cents(Mills[r]) <= balance[r]
      BY <2>0, <2>1, CoveredCents
    <3>6. balance[r] = 0 \/ balance[r] + Total(Committed(b)) <= revenue[b]
      BY <1>2 DEF MoneyInv, BalanceStands
    <3>7. Total(Committed(b)') \in Nat /\ Total(Committed(b) \cup {r}) \in Nat
      BY <3>1, <3>2, TotalType
    <3>8. Total(Committed(b))' = Total(Committed(b)')
      BY DEF Total, Coins
    <3> HIDE DEF b
    <3>9. QED
      BY <2>0, <3>3, <3>4, <3>5, <3>6, <3>7, <3>8
  <2>2. CASE ~Covered(r)
    <3>1. payout' = payout
      BY <2>2 DEF Reserve
    <3>2. Total(Committed(b))' = Total(Committed(b))
      BY <3>1 DEF Total, Coins, Committed, RequestsOf
    <3>3. QED
      BY <2>0, <3>2
  <2>3. QED
    BY <2>1, <2>2
<1>7. NeverOverdrawn'
  BY <1>2, <1>5, <1>6 DEF NeverOverdrawn, MoneyInv
<1>8. ASSUME NEW q \in Request, pc'[q] = "reserve"
      PROVE  q # r /\ pc[q] = "reserve" /\ BizOf[q] # b
  <2>1. q # r
    BY <1>8 DEF Reserve, Goes, TypeOK
  <2>2. pc[q] = "reserve"
    BY <1>3, <1>8, <2>1
  <2>3. lock[BizOf[q]] = q /\ lock[b] = r
    BY <1>2, <2>2 DEF MoneyInv, LockHeld
  <2>4. QED
    BY <2>1, <2>2, <2>3
<1>9. \A q \in Request : BizOf[q] \in Business
  BY PayoutAssumption
<1>10. BalanceStands'
  BY <1>2, <1>5, <1>8, <1>9 DEF BalanceStands, MoneyInv
<1>11. QED
  BY <1>7, <1>10

\* Every other step of a request gives back reservations or keeps them.
LEMMA OtherSteps ==
  ASSUME TypeOK, Backed, NEW r \in Request,
         Handle(r) \/ Failure(r), ~Reserve(r)
  PROVE  /\ revenue' = revenue /\ balance' = balance
         /\ \A q \in Request :
              /\ payout'[q] \in {"PENDING", "SUCCESS"} => payout[q] \in {"PENDING", "SUCCESS"}
              /\ pc'[q] = "reserve" => pc[q] = "reserve"
<1> USE DEF TypeOK, Backed, Goes
<1>1. CASE LoadBusiness(r) \/ CreateRecipient(r) \/ CacheRecipient(r) \/ CacheFails(r)
           \/ InitiateTransfer(r) \/ TransferRejected(r) \/ AnswerLost(r)
           \/ ReleaseFails(r) \/ Crash(r)
  BY <1>1 DEF LoadBusiness, CreateRecipient, CacheRecipient, CacheFails, InitiateTransfer,
              TransferRejected, AnswerLost, ReleaseFails, Crash
<1>2. CASE CompletePayout(r)
  BY <1>2 DEF CompletePayout
<1>3. CASE CompleteFails(r)
  BY <1>3 DEF CompleteFails
<1>4. CASE Release(r)
  BY <1>4 DEF Release
<1>5. QED
  BY <1>1, <1>2, <1>3, <1>4 DEF Handle, Failure

LEMMA NextMoney == Inv /\ Inv' /\ MoneyInv /\ [Next]_vars => MoneyInv'
<1> SUFFICES ASSUME Inv, Inv', MoneyInv, [Next]_vars PROVE MoneyInv'
  OBVIOUS
<1>0. TypeOK /\ TypeOK' /\ AtHand /\ LockHeld /\ Backed
  BY DEF Inv, MoneyInv
<1>1. LockHeld' /\ Backed'
  BY <1>0, LockStep, BackedStep
<1>2. ASSUME \A b \in Business : revenue'[b] >= revenue[b],
             \A q \in Request :
               /\ payout'[q] \in {"PENDING", "SUCCESS"} => payout[q] \in {"PENDING", "SUCCESS"}
               /\ pc'[q] = "reserve" => pc[q] = "reserve" /\ balance'[q] = balance[q]
      PROVE  BalanceStands' /\ NeverOverdrawn'
  <2>1. \A b \in Business : Committed(b)' \subseteq Committed(b)
    BY <1>2 DEF Committed, RequestsOf
  <2>2. QED
    BY <1>0, <1>2, <2>1, NothingReserved
<1>3. \A b \in Business : revenue[b] \in Nat
  BY <1>0 DEF TypeOK
<1>4. CASE \E b \in Business : PaymentRecorded(b)
  <2>1. PICK b \in Business : PaymentRecorded(b)
    BY <1>4
  <2>2. \A c \in Business : revenue'[c] >= revenue[c]
    BY <1>0, <1>3, <2>1 DEF PaymentRecorded, TypeOK
  <2>3. payout' = payout /\ pc' = pc /\ balance' = balance
    BY <2>1 DEF PaymentRecorded, requestVars
  <2>4. QED
    BY <1>1, <1>2, <2>2, <2>3 DEF MoneyInv
<1>5. ASSUME NEW r \in Request, Handle(r) \/ ReadBalance(r) \/ Failure(r)
      PROVE  MoneyInv'
  <2>1. CASE ReadBalance(r)
    BY <1>0, <1>1, <2>1, ReadStep DEF MoneyInv
  <2>2. CASE Reserve(r)
    BY <1>0, <1>1, <2>2, ReserveStep DEF MoneyInv
  <2>3. CASE (Handle(r) \/ Failure(r)) /\ ~Reserve(r)
    <3>1. /\ revenue' = revenue /\ balance' = balance
          /\ \A q \in Request :
               /\ payout'[q] \in {"PENDING", "SUCCESS"} => payout[q] \in {"PENDING", "SUCCESS"}
               /\ pc'[q] = "reserve" => pc[q] = "reserve"
      BY <1>0, <2>3, OtherSteps
    <3>2. \A b \in Business : revenue'[b] >= revenue[b]
      BY <1>3, <3>1
    <3>3. QED
      BY <1>1, <1>2, <3>1, <3>2 DEF MoneyInv
  <2>4. QED
    BY <1>5, <2>1, <2>2, <2>3
<1>6. CASE UNCHANGED vars
  <2>1. revenue' = revenue /\ payout' = payout /\ pc' = pc /\ balance' = balance
    BY <1>6 DEF vars
  <2>2. QED
    BY <1>1, <1>2, <1>3, <2>1 DEF MoneyInv
<1>7. QED
  BY <1>4, <1>5, <1>6 DEF Next

LEMMA Money == Spec => []MoneyInv
BY InitMoney, NextMoney, Invariant, PTL DEF Spec

\* Every variable of the payout requests keeps its type.
THEOREM TypesHold == Spec => []TypeOK
<1>1. Inv => TypeOK
  BY DEF Inv
<1>2. QED
  BY <1>1, Invariant, PTL

\* However many requests of a business run at once, and whatever their
\* amounts, they never reserve more than the business was paid.
THEOREM NobodyOverdraws == Spec => []NeverOverdrawn
<1>1. MoneyInv => NeverOverdrawn
  BY DEF MoneyInv
<1>2. QED
  BY <1>1, Money, PTL

\* The money that left a business is covered by its revenue, but for the
\* requests that failed although their transfer was made.
THEOREM MoneyOutIsCovered == Spec => []MoneyOutCovered
<1>1. Inv /\ MoneyInv => MoneyOutCovered
  <2> SUFFICES ASSUME Inv, MoneyInv, NEW b \in Business
               PROVE  Total(Moved(b)) <= revenue[b] + Total(doubtful \cap RequestsOf(b))
    BY DEF MoneyOutCovered
  <2> DEFINE D == doubtful \cap RequestsOf(b)
  <2>1. Moved(b) \subseteq Committed(b) \cup D
    BY DEF Moved, Committed, RequestsOf, MoneyInv, Backed
  <2>2. Committed(b) \in SUBSET Request /\ D \in SUBSET Request
    BY DEF Committed, RequestsOf
  <2>3. Total(Committed(b)) <= revenue[b] /\ revenue[b] \in Nat
    BY DEF MoneyInv, NeverOverdrawn, Inv, TypeOK
  <2> HIDE DEF D
  <2>4. Total(Moved(b)) <= Total(Committed(b) \cup D)
    BY <2>1, <2>2, TotalMonotone
  <2>5. Total(Committed(b) \cup D) <= Total(Committed(b)) + Total(D)
    BY <2>2, TotalUnion
  <2>6. /\ Total(Moved(b)) \in Nat /\ Total(Committed(b)) \in Nat /\ Total(D) \in Nat
        /\ Total(Committed(b) \cup D) \in Nat
    BY <2>1, <2>2, TotalType
  <2>7. Total(Moved(b)) <= revenue[b] + Total(D)
    BY <2>3, <2>4, <2>5, <2>6
  <2>8. QED
    BY <2>7 DEF D
<1>2. QED
  BY <1>1, Invariant, Money, PTL
=============================================================================
