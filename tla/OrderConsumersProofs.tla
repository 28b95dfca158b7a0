------------------------- MODULE OrderConsumersProofs -------------------------
(***************************************************************************)
(* Proofs about OrderConsumers, for any number of orders, deliveries and   *)
(* faults.                                                                 *)
(***************************************************************************)
EXTENDS OrderConsumers, FiniteSetTheorems, TLAPS

-----------------------------------------------------------------------------
(* Facts about the constants.                                              *)

\* A delivery belongs to an order, and is not the mark of a free marker.
LEMMA TaskFacts ==
  ASSUME NEW x \in Task
  PROVE  OrderOf(x) \in Order /\ x # NoTask
<1>1. PICK o \in Order : x \in {o} \X (1..Deliveries[o])
  BY DEF Task
<1>2. x = <<x[1], x[2]>> /\ x[1] = o
  BY <1>1
<1>3. x # <<>>
  BY <1>2
<1> QED BY <1>1, <1>2, <1>3 DEF OrderOf, NoTask

\* Counting the recorded orders, and one more.
LEMMA CountRecorded ==
  ASSUME NEW S \in SUBSET Order
  PROVE  /\ Cardinality(S) \in Nat
         /\ Cardinality(Order) \in Nat
         /\ Cardinality(S) <= Cardinality(Order)
         /\ \A o \in Order \ S : Cardinality(S \cup {o}) = Cardinality(S) + 1
<1>1. IsFiniteSet(Order)
  BY ConsumerAssumption
<1>2. IsFiniteSet(S)
  BY <1>1, FS_Subset
<1>3. Cardinality(S) \in Nat /\ Cardinality(Order) \in Nat /\ Cardinality(S) <= Cardinality(Order)
  BY <1>1, <1>2, FS_CardinalityType, FS_Subset
<1>4. ASSUME NEW o \in Order \ S
      PROVE  Cardinality(S \cup {o}) = Cardinality(S) + 1
  BY <1>2, <1>4, FS_AddElement
<1> QED BY <1>3, <1>4

-----------------------------------------------------------------------------
(* Types.  The counters stay within the number of orders only because the  *)
(* marker keeps an order from being counted twice, so that bound is        *)
(* proved with StatsNeverOver, below.                                      *)

InitTypes ==
  /\ init \in [Task -> {"idle", "queued", "call", "persist", "invoice", "publish", "done"}]
  /\ link \in [Task -> Nat]
  /\ calls \in [Order -> Nat]
  /\ url \in [Order -> Nat]
  /\ invoices \in [Order -> Seq(Nat)]

StatTypes ==
  /\ stat \in [Task -> {"idle", "queued", "read", "write", "done"}]
  /\ seen \in [Task -> Nat]
  /\ claim \in [Order -> Task \cup {NoTask}]
  /\ recorded \subseteq Order
  /\ total \in Nat
  /\ faults \in 0..MaxFaults

CustomerTypes == reachable \in BOOLEAN /\ profile \in BOOLEAN

\* The steps of the two consumers, and what neither of them touches.
InitAction(x) == DeliverInit(x) \/ InitStep(x) \/ InitFails(x)
StatAction(x) == DeliverStat(x) \/ StatStep(x) \/ StatFails(x)

LEMMA NextByConsumer ==
  [Next]_vars <=> \/ UNCHANGED vars \/ CreateProfile
                  \/ \E x \in Task : InitAction(x) \/ StatAction(x)
BY DEF Next, InitAction, StatAction

LEMMA InitLeavesStats ==
  ASSUME NEW x \in Task, InitAction(x)
  PROVE  UNCHANGED statVars
BY DEF InitAction, DeliverInit, InitStep, InitCheck, InitCall, InitPersist, InitInvoice,
       InitPublish, InitFails, statVars

LEMMA StatLeavesInit ==
  ASSUME NEW x \in Task, StatAction(x)
  PROVE  UNCHANGED initVars
BY DEF StatAction, DeliverStat, StatStep, StatClaim, StatRead, StatNoProfile, StatCommit,
       StatFails, initVars

-----------------------------------------------------------------------------
(* Payment initiation.                                                     *)

\* Of the deliveries of an order only the one whose link was stored goes on
\* to the invoice, and until it has written one there is none; once a link
\* is stored no other delivery gets that far, not even after a failure.
InvoiceInv ==
  /\ \A x \in Task : init[x] = "persist" => link[x] > 0
  /\ \A o \in Order : url[o] = 0 => invoices[o] = <<>>
  /\ \A x \in Task :
       init[x] = "invoice" => /\ url[OrderOf(x)] = link[x]
                              /\ link[x] > 0
                              /\ invoices[OrderOf(x)] = <<>>
  /\ \A x, y \in Task :
       init[x] = "invoice" /\ init[y] = "invoice" /\ OrderOf(x) = OrderOf(y) => x = y
  /\ OneInvoice

LEMMA InvoiceStart == Init => InitTypes /\ InvoiceInv
BY DEF Init, InitTypes, InvoiceInv, OneInvoice, TaskFacts

LEMMA InvoiceStep ==
  ASSUME InitTypes, InvoiceInv, NEW x \in Task, InitAction(x)
  PROVE  InitTypes' /\ InvoiceInv'
<1> USE TaskFacts DEF InitTypes, InvoiceInv, OneInvoice, InitGoes
<1>1. CASE DeliverInit(x)
  BY <1>1 DEF DeliverInit
<1>2. CASE InitCheck(x)
  BY <1>2 DEF InitCheck
<1>3. CASE InitCall(x)
  BY <1>3 DEF InitCall
<1>4. CASE InitPersist(x)
  <2>1. CASE url[OrderOf(x)] = 0
    <3>0. PICK pc \in {"invoice", "done"} : init' = [init EXCEPT ![x] = pc]
      BY <1>4, <2>1 DEF InitPersist
    <3>1. /\ url' = [url EXCEPT ![OrderOf(x)] = link[x]] /\ init' = [init EXCEPT ![x] = pc]
          /\ UNCHANGED <<link, calls, invoices>> /\ init[x] = "persist"
      BY <1>4, <2>1, <3>0 DEF InitPersist
    <3>2. InitTypes'
      BY <3>1
    <3>3. \A y \in Task : init[y] = "invoice" => OrderOf(y) # OrderOf(x)
      BY <2>1
    <3>4. \A y, z \in Task :
            init'[y] = "invoice" /\ init'[z] = "invoice" /\ OrderOf(y) = OrderOf(z) => y = z
      BY <3>1, <3>3
    <3>5. OneInvoice'
      BY <2>1, <3>1
    <3> QED BY <2>1, <3>1, <3>2, <3>3, <3>4, <3>5
  <2>2. CASE url[OrderOf(x)] # 0
    BY <1>4, <2>2 DEF InitPersist
  <2> QED BY <2>1, <2>2
<1>5. CASE InitInvoice(x)
  <2>1. /\ init[x] = "invoice" /\ init' = [init EXCEPT ![x] = "publish"]
        /\ invoices' = [invoices EXCEPT ![OrderOf(x)] = Append(<<>>, link[x])]
        /\ UNCHANGED <<link, calls, url>>
    BY <1>5 DEF InitInvoice
  <2>2. Append(<<>>, link[x]) = <<link[x]>> /\ <<link[x]>> \in Seq(Nat)
    OBVIOUS
  <2>3. InitTypes'
    BY <2>1, <2>2
  <2>4. \A y \in Task : init'[y] = "invoice" => OrderOf(y) # OrderOf(x)
    BY <2>1
  <2>5. OneInvoice'
    BY <2>1, <2>2
  <2> QED BY <2>1, <2>3, <2>4, <2>5
<1>6. CASE InitPublish(x)
  BY <1>6 DEF InitPublish
<1>7. CASE InitFails(x)
  BY <1>7 DEF InitFails
<1> QED BY <1>1, <1>2, <1>3, <1>4, <1>5, <1>6, <1>7 DEF InitAction, InitStep

LEMMA InvoiceKept ==
  ASSUME InitTypes, InvoiceInv, UNCHANGED initVars
  PROVE  InitTypes' /\ InvoiceInv'
BY DEF InitTypes, InvoiceInv, OneInvoice, initVars

LEMMA InvoiceInvariant == Spec => [](InitTypes /\ InvoiceInv)
<1>1. Init => InitTypes /\ InvoiceInv
  BY InvoiceStart
<1>2. InitTypes /\ InvoiceInv /\ [Next]_vars => InitTypes' /\ InvoiceInv'
  <2> SUFFICES ASSUME InitTypes, InvoiceInv, [Next]_vars
               PROVE  InitTypes' /\ InvoiceInv'
    OBVIOUS
  <2>1. CASE UNCHANGED vars \/ CreateProfile
    BY <2>1, InvoiceKept DEF vars, initVars, CreateProfile
  <2>2. CASE \E x \in Task : InitAction(x)
    BY <2>2, InvoiceStep
  <2>3. CASE \E x \in Task : StatAction(x)
    BY <2>3, StatLeavesInit, InvoiceKept
  <2> QED BY <2>1, <2>2, <2>3, NextByConsumer
<1> QED BY <1>1, <1>2, PTL DEF Spec

\* However many deliveries race, fail and retry, an order has at most one
\* invoice row, and its link is the one the order keeps: the conditional
\* write of payment_url decides which delivery writes it
\* (payment_init.go:122-133).
THEOREM InvoiceOnce == Spec => []OneInvoice
<1>1. InvoiceInv => OneInvoice
  BY DEF InvoiceInv
<1> QED BY <1>1, InvoiceInvariant, PTL

-----------------------------------------------------------------------------
(* Profile statistics.                                                     *)

\* The transaction that reads and writes the counters holds its order's
\* marker, and while it does the order is not recorded: so each commit
\* counts an order of its own, and a counter that was read is no more than
\* the orders recorded by then.
StatsInv ==
  /\ \A x \in Task :
       stat[x] \in {"read", "write"} => /\ claim[OrderOf(x)] = x
                                       /\ OrderOf(x) \notin recorded
  /\ \A x \in Task : seen[x] <= Cardinality(recorded)
  /\ StatsNeverOver

LEMMA StatsStart == Init => StatTypes /\ StatsInv
<1> SUFFICES ASSUME Init PROVE StatTypes /\ StatsInv
  OBVIOUS
<1>1. Cardinality(recorded) = 0
  BY FS_EmptySet DEF Init
<1> QED BY <1>1, ConsumerAssumption DEF Init, StatTypes, StatsInv, StatsNeverOver

LEMMA StatsStep ==
  ASSUME StatTypes, StatsInv, NEW x \in Task, StatAction(x)
  PROVE  StatTypes' /\ StatsInv'
<1> USE TaskFacts, ConsumerAssumption DEF StatTypes, StatsInv, StatsNeverOver
<1>0. Cardinality(recorded) \in Nat
  BY CountRecorded
<1>1. CASE DeliverStat(x)
  BY <1>0, <1>1 DEF DeliverStat
<1>2. CASE StatClaim(x)
  BY <1>0, <1>2 DEF StatClaim, Already
<1>3. CASE StatRead(x)
  BY <1>0, <1>3 DEF StatRead
<1>4. CASE StatNoProfile(x) \/ StatCommit(x)
  <2> DEFINE o == OrderOf(x)
  <2>1. /\ stat[x] \in {"read", "write"} /\ stat' = [stat EXCEPT ![x] = "done"]
        /\ seen' = [seen EXCEPT ![x] = 0]
        /\ recorded' = recorded \cup {o}
        /\ claim' = [claim EXCEPT ![o] = NoTask] /\ UNCHANGED faults
    BY <1>4 DEF StatNoProfile, StatCommit, Commit
  <2>2. total' \in {total, seen[x] + 1}
    BY <1>4 DEF StatNoProfile, StatCommit
  <2>3. o \in Order \ recorded /\ claim[o] = x
    BY <2>1
  <2>4. Cardinality(recorded') = Cardinality(recorded) + 1
    BY <2>1, <2>3, CountRecorded
  <2>5. \A y \in Task : stat'[y] \in {"read", "write"} => OrderOf(y) # o
    BY <2>1, <2>3
  <2>6. StatTypes'
    BY <2>1, <2>2, <2>3
  <2>7. \A y \in Task :
          stat'[y] \in {"read", "write"} => claim'[OrderOf(y)] = y /\ OrderOf(y) \notin recorded'
    BY <2>1, <2>3, <2>5
  <2>8. (\A y \in Task : seen'[y] <= Cardinality(recorded')) /\ total' <= Cardinality(recorded')
    BY <1>0, <2>1, <2>2, <2>4
  <2> QED BY <2>6, <2>7, <2>8
<1>5. CASE StatFails(x)
  BY <1>0, <1>5 DEF StatFails, Fault
<1> QED BY <1>1, <1>2, <1>3, <1>4, <1>5 DEF StatAction, StatStep

LEMMA StatsKept ==
  ASSUME StatTypes, StatsInv, UNCHANGED statVars, faults' \in 0..MaxFaults
  PROVE  StatTypes' /\ StatsInv'
BY DEF StatTypes, StatsInv, StatsNeverOver, statVars

LEMMA InitFaults ==
  ASSUME StatTypes, NEW x \in Task, InitAction(x)
  PROVE  faults' \in 0..MaxFaults
BY ConsumerAssumption
   DEF StatTypes, InitAction, DeliverInit, InitStep, InitCheck, InitCall, InitPersist,
       InitInvoice, InitPublish, InitFails, Fault

LEMMA StatsInvariant == Spec => [](StatTypes /\ StatsInv)
<1>1. Init => StatTypes /\ StatsInv
  BY StatsStart
<1>2. StatTypes /\ StatsInv /\ [Next]_vars => StatTypes' /\ StatsInv'
  <2> SUFFICES ASSUME StatTypes, StatsInv, [Next]_vars
               PROVE  StatTypes' /\ StatsInv'
    OBVIOUS
  <2>1. CASE UNCHANGED vars \/ CreateProfile
    BY <2>1, StatsKept DEF vars, statVars, StatTypes, CreateProfile
  <2>2. CASE \E x \in Task : InitAction(x)
    BY <2>2, InitLeavesStats, InitFaults, StatsKept
  <2>3. CASE \E x \in Task : StatAction(x)
    BY <2>3, StatsStep
  <2> QED BY <2>1, <2>2, <2>3, NextByConsumer
<1> QED BY <1>1, <1>2, PTL DEF Spec

\* Redelivery, racing deliveries and retries never count an order twice:
\* the marker an attempt holds until it commits (profile_stats.go:54-64).
THEOREM NeverCountedTwice == Spec => []StatsNeverOver
<1>1. StatsInv => StatsNeverOver
  BY DEF StatsInv
<1> QED BY <1>1, StatsInvariant, PTL

LEMMA CustomerInvariant == Spec => []CustomerTypes
<1>1. Init => CustomerTypes
  BY DEF Init, CustomerTypes
<1>2. CustomerTypes /\ [Next]_vars => CustomerTypes'
  <2> SUFFICES ASSUME CustomerTypes, [Next]_vars PROVE CustomerTypes'
    OBVIOUS
  <2>1. CASE CreateProfile
    BY <2>1 DEF CreateProfile, CustomerTypes
  <2>2. CASE ~CreateProfile
    <3>1. UNCHANGED customerVars
      BY <2>2 DEF Next, vars, customerVars, DeliverInit, InitStep, InitCheck, InitCall,
         InitPersist, InitInvoice, InitPublish, InitFails, DeliverStat, StatStep, StatClaim,
         StatRead, StatNoProfile, StatCommit, StatFails
    <3> QED BY <3>1 DEF CustomerTypes, customerVars
  <2> QED BY <2>1, <2>2
<1> QED BY <1>1, <1>2, PTL DEF Spec

\* Type correctness; the counters never pass the number of orders the
\* customer has.
THEOREM TypesHold == Spec => []TypeOK
<1>1. InitTypes /\ StatTypes /\ CustomerTypes /\ StatsInv => TypeOK
  <2> SUFFICES ASSUME InitTypes, StatTypes, CustomerTypes, StatsInv PROVE TypeOK
    OBVIOUS
  <2>1. /\ Cardinality(recorded) \in Nat /\ Cardinality(Order) \in Nat
        /\ Cardinality(recorded) <= Cardinality(Order)
    BY CountRecorded DEF StatTypes
  <2>2. total \in 0..Cardinality(Order) /\ \A x \in Task : seen[x] \in 0..Cardinality(Order)
    BY <2>1 DEF StatTypes, StatsInv, StatsNeverOver
  <2>3. seen \in [Task -> 0..Cardinality(Order)]
    BY <2>2 DEF StatTypes
  <2> QED BY <2>2, <2>3 DEF InitTypes, StatTypes, CustomerTypes, TypeOK
<1> QED BY <1>1, InvoiceInvariant, StatsInvariant, CustomerInvariant, PTL
=============================================================================
